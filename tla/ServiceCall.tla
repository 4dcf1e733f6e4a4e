----------------------------- MODULE ServiceCall -----------------------------
(***************************************************************************)
(* What one call of a scheduler session promises its caller, whatever      *)
(* native calls it is made of: it changes the service at most once, it is  *)
(* answered once, and the answer does not contradict what it changed.      *)
(***************************************************************************)
EXTENDS Naturals

VARIABLES
  effects,   \* how often the call has changed the service
  answer     \* what the caller has been told, or "none"

callVars == <<effects, answer>>

\* An operation that only reads.
Told == {"value"}

\* A mutation that found nothing to do, or was refused.
Spared == {"unneeded", "refused"}

\* A mutation that was made; a committed one failed afterwards.
Made == {"done", "committed"}

\* A plain error leaves open whether the mutation was made.
Answers == Told \union Spared \union Made \union {"failed"}

Truthful(a) == /\ a \in Made => effects = 1
               /\ a \in Told \union Spared => effects = 0

Begin == effects = 0 /\ answer = "none"

Effect ==
  /\ answer = "none"
  /\ effects = 0
  /\ effects' = 1
  /\ UNCHANGED answer

Reply ==
  /\ answer = "none"
  /\ \E a \in Answers : Truthful(a) /\ answer' = a
  /\ UNCHANGED effects

\* The change is made, but its confirmation does not come back.
Unconfirmed ==
  /\ answer = "none"
  /\ effects = 0
  /\ effects' = 1
  /\ answer' = "failed"

CallStep == Effect \/ Reply \/ Unconfirmed

CallSafety == Begin /\ [][CallStep]_callVars

Call == CallSafety /\ <>(answer /= "none")
=============================================================================
