--------------------------- MODULE MCNativeSession ---------------------------
(***************************************************************************)
(* A small instance of NativeSession: a folder below the root and one      *)
(* below that, a task in the first two, and two instances.                 *)
(***************************************************************************)
EXTENDS NativeSession, TLC

CONSTANTS root, outer, inner, ta, tb, d1, d2, dx, s1, s2, sx, i1, i2

MCParent == outer :> root @@ inner :> outer
MCFolderOf == ta :> root @@ tb :> outer

Task == [xml |-> d1, enabled |-> "on", security |-> s1]

\* Everything exists and one instance of the first task runs.
MCWorlds ==
  {[tasks |-> ta :> Task @@ tb :> Task,
    folders |-> root :> s1 @@ outer :> s1 @@ inner :> s1,
    instances |-> i1 :> ta @@ i2 :> "unused",
    channel |-> "on"]}
=============================================================================
