--------------------------- MODULE ReconcilePlan ---------------------------
(* Planning of desired-state reconciliation (reconcile.rs): what a manifest, *)
(* a snapshot of the scheduler and the plan options make apply do, and in    *)
(* which order.  Pure operators; ReconcileApply runs the plan.               *)
(*                                                                           *)
(* Abstraction.  A task definition is the part the planner treats as opaque  *)
(* ("content", which includes the logon type), the ownership marker in its   *)
(* registration source ("marked"), settings.enabled, and its security        *)
(* descriptor.  A folder is its descriptor.  Descriptors are compared by     *)
(* access_equivalent, so one value stands for one equivalence class.         *)
EXTENDS Integers, Sequences, FiniteSets

CONSTANTS
    TaskPaths,    \* task paths inside the namespace
    FolderPaths,  \* the namespace folder and the folders below it
    Namespace,    \* manifest.namespace
    Parent,       \* FolderPath::parent, for the folders below the namespace
    FolderOf,     \* TaskPath::folder
    Depth,        \* folder_depth
    Rank,         \* position of a path in string order
    Contents,     \* task definitions, up to the other three parts
    PwBacked,     \* the contents whose logon type stores a password
    Secs,         \* security descriptors, up to access_equivalent
    DefaultSec,   \* what the service gives an object created without one
    Missing,      \* "there is no such object"
    NoSec         \* Option::None for a security descriptor

Targets == TaskPaths \cup FolderPaths

ASSUME PathsAssumption ==
    /\ IsFiniteSet(TaskPaths) /\ IsFiniteSet(FolderPaths)
    /\ TaskPaths \cap FolderPaths = {}
    /\ Namespace \in FolderPaths
    /\ FolderOf \in [TaskPaths -> FolderPaths]
    /\ Parent \in [FolderPaths \ {Namespace} -> FolderPaths]
    /\ Depth \in [FolderPaths -> Nat \ {0}]
    /\ \A f \in FolderPaths \ {Namespace} : Depth[f] = Depth[Parent[f]] + 1
    /\ Rank \in [Targets -> Nat]
    /\ \A x, y \in Targets : Rank[x] = Rank[y] => x = y

(* A definition of the manifest or of a registered task; a snapshot or an    *)
(* observation may lack the descriptor (NoSec).                              *)
Definitions == [content : Contents, marked : BOOLEAN, enabled : BOOLEAN,
                sec : Secs \cup {NoSec}]
Registered == {d \in Definitions : d.sec # NoSec}

ASSUME ValuesAssumption ==
    /\ PwBacked \subseteq Contents
    /\ DefaultSec \in Secs
    /\ NoSec \notin Secs
    /\ Missing \notin Definitions \cup Secs \cup {NoSec}

-----------------------------------------------------------------------------
(* Manifests and inspected states.  m.tasks and m.folders are functions on   *)
(* the declared paths: TaskManifest::validate refuses duplicates and paths   *)
(* outside the namespace before anything else happens.                       *)

(* owned_definition: the desired definition carrying the ownership marker.   *)
OwnedDefinition(m, t) ==
    [content |-> m.tasks[t].content, marked |-> TRUE,
     enabled |-> m.tasks[t].enabled, sec |-> m.tasks[t].sec]

(* definitions_semantically_equal: enabled, date and descriptor are ignored. *)
SemanticallyEqual(a, b) == a.content = b.content /\ a.marked = b.marked

(* The folder and its ancestors up to the namespace.                         *)
Lineage[f \in FolderPaths] ==
    IF f = Namespace THEN {f} ELSE {f} \cup Lineage[Parent[f]]

RequiredFolders(m) ==
    {f \in FolderPaths :
        \/ f = Namespace
        \/ \E g \in DOMAIN m.folders : f \in Lineage[g]
        \/ \E t \in DOMAIN m.tasks : f \in Lineage[FolderOf[t]]}

-----------------------------------------------------------------------------
(* Changes and their order.                                                  *)

Kinds == {"CreateFolder", "CreateTask", "AdoptTask", "UpdateTask", "SetEnabled",
          "SetTaskSecurity", "SetFolderSecurity", "DeleteTask"}
Registrations == {"CreateTask", "AdoptTask", "UpdateTask"}
Change == [kind : Kinds, target : Targets]

MkChange(k, x) == [kind |-> k, target |-> x]

(* change_order: kind first, then folder depth, then path.                   *)
Priority(k) ==
    CASE k = "CreateFolder" -> 0
      [] k = "CreateTask"   -> 1
      [] k = "AdoptTask"    -> 2
      [] k = "UpdateTask"   -> 3
      [] k = "SetEnabled"   -> 4
      [] k \in {"SetTaskSecurity", "SetFolderSecurity"} -> 5
      [] k = "DeleteTask"   -> 6

Before(c, d) ==
    LET depth(e) == IF e.target \in FolderPaths THEN Depth[e.target] ELSE 0
        p == Priority(c.kind)  q == Priority(d.kind)
    IN  \/ p < q
        \/ p = q /\ depth(c) < depth(d)
        \/ p = q /\ depth(c) = depth(d) /\ Rank[c.target] < Rank[d.target]

(* The changes of S, sorted by change_order (there is exactly one way).      *)
Schedules(S) ==
    {p \in [1..Cardinality(S) -> S] : \A i, j \in 1..Cardinality(S) : i < j => Before(p[i], p[j])}

SameTarget(c, d) == c.target = d.target

-----------------------------------------------------------------------------
(* plan_state.  cur.tasks and cur.folders are functions on the paths that    *)
(* inspection found.                                                         *)

(* Planning refuses an existing task of somebody else unless adopt is set.   *)
\* mutated: adoption is taken for granted
OwnershipConflict_never(m, cur, adopt) == FALSE
OwnershipConflict(m, cur, adopt) ==
    \E t \in DOMAIN m.tasks \cap DOMAIN cur.tasks :
        ~cur.tasks[t].marked /\ ~adopt

FolderCreations(m, cur) ==
    {MkChange("CreateFolder", f) : f \in RequiredFolders(m) \ DOMAIN cur.folders}

(* The changes of one declared task: the first matching arm decides, except  *)
(* that enabled state and descriptor are separate changes.                   *)
TaskChanges(m, cur, t) ==
    LET want == OwnedDefinition(m, t)
        have == cur.tasks[t]
    IN  CASE t \notin DOMAIN cur.tasks -> {MkChange("CreateTask", t)}
          [] t \in DOMAIN cur.tasks /\ ~have.marked -> {MkChange("AdoptTask", t)}
          [] t \in DOMAIN cur.tasks /\ have.marked /\ ~SemanticallyEqual(have, want) ->
                {MkChange("UpdateTask", t)}
          [] OTHER ->
                {MkChange("SetEnabled", x) :
                    x \in {y \in {t} : have.enabled # want.enabled}}
                \cup
                {MkChange("SetTaskSecurity", x) :
                    x \in {y \in {t} : want.sec # NoSec /\ have.sec # want.sec}}

FolderSecurityChanges(m, cur) ==
    {MkChange("SetFolderSecurity", f) :
        f \in {g \in DOMAIN m.folders :
                  /\ m.folders[g] # NoSec
                  /\ ~(g \in DOMAIN cur.folders /\ cur.folders[g] = m.folders[g])}}

Prunings(m, cur, prune) ==
    {MkChange("DeleteTask", t) :
        t \in {u \in DOMAIN cur.tasks \ DOMAIN m.tasks : prune /\ cur.tasks[u].marked}}

PlanChanges(m, cur, prune) ==
    FolderCreations(m, cur)
    \cup (UNION {TaskChanges(m, cur, t) : t \in DOMAIN m.tasks})
    \cup FolderSecurityChanges(m, cur)
    \cup Prunings(m, cur, prune)

(* Plan::with_stop_running: the tasks whose instances apply would stop.      *)
StopsInstances(c) == c.kind \in {"UpdateTask", "AdoptTask", "DeleteTask"}
PlannedStops(plan) ==
    {plan[i].target : i \in {j \in DOMAIN plan : StopsInstances(plan[j])}}
=============================================================================
