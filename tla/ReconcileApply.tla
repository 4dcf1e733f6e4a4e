--------------------------- MODULE ReconcileApply ---------------------------
(* apply_backend (reconcile.rs, reconcile/recovery.rs): inspect, plan,       *)
(* observe, prepare, then run each change between two observations, and      *)
(* compensate in reverse order after the first failure.                      *)
(*                                                                           *)
(* Every call of the Backend trait is a step of its own, so that another     *)
(* writer of the scheduler can act between any two of them.  A call can also *)
(* fail before it reaches the service, or take effect and lose its response. *)
(* The journal is left out: it is evidence for a reader and decides nothing. *)
EXTENDS ReconcilePlan

CONSTANTS
    Jobs,         \* [manifest, prune, adopt, stop_running, allow_irreversible, start],
                  \* and faults and others, the bounds of this apply
    ForeignTasks, \* the registered tasks another writer may put in place
    MaxFaults,    \* bound: failed or lost calls of any apply
    MaxForeign,   \* bound: steps of the other writer during any
    NotRead,      \* an observation that has not been made
    ReadError,    \* an observation that failed
    NoBackup      \* a snapshot that was not taken

World == {w \in [Targets -> Registered \cup Secs \cup {Missing}] :
             /\ \A t \in TaskPaths : w[t] \in Registered \cup {Missing}
             /\ \A f \in FolderPaths : w[f] \in Secs \cup {Missing}}

(* The manifests that pass validation, with the options of apply and the     *)
(* scheduler's contents when it starts: a tree, with nothing below a         *)
(* namespace folder that is missing.                                         *)
ASSUME JobsAssumption ==
    \A j \in Jobs :
        /\ DOMAIN j.manifest.tasks \subseteq TaskPaths
        /\ \A t \in DOMAIN j.manifest.tasks :
               /\ j.manifest.tasks[t].content \in Contents
               /\ j.manifest.tasks[t].enabled \in BOOLEAN
               /\ j.manifest.tasks[t].sec \in Secs \cup {NoSec}
        /\ DOMAIN j.manifest.folders \subseteq FolderPaths
        /\ \A f \in DOMAIN j.manifest.folders : j.manifest.folders[f] \in Secs \cup {NoSec}
        /\ {j.prune, j.adopt, j.stop_running, j.allow_irreversible} \subseteq BOOLEAN
        /\ j.start \in World
        /\ j.start[Namespace] = Missing => \A x \in Targets : j.start[x] = Missing
        /\ j.faults \in 0..MaxFaults /\ j.others \in 0..MaxForeign

ASSUME BoundsAssumption ==
    /\ ForeignTasks \subseteq Registered
    /\ MaxFaults \in Nat /\ MaxForeign \in Nat
    /\ Cardinality({Missing, NoSec, NotRead, ReadError, NoBackup}) = 5

(* A definition is no descriptor, an error is neither, and a snapshot that   *)
(* was not taken is none.                                                    *)
ASSUME ReadingsAssumption ==
    /\ Definitions \cap (Secs \cup {NoSec}) = {}
    /\ ReadError \notin Definitions \cup Secs \cup {NoSec, Missing}
    /\ NoBackup \notin Secs \cup BOOLEAN
    /\ NoBackup \notin [task : Definitions, password : BOOLEAN]

VARIABLES
    job,               \* the arguments of apply; never changes
    world,             \* the scheduler's tasks and folders
    pc,                \* where apply_backend is
    index,             \* the change it is at, in a loop over the plan
    snapshot,          \* CurrentState collected by inspect_backend
    unread,            \* descriptors inspect_backend still has to read
    plan,              \* the planned changes, in order
    expected,          \* expected[i]: the state change i is allowed to start from
    prepared,          \* PreparedApply
    partial,           \* what the first call of an observation returned
    got,               \* the finished observation
    acl,               \* expected_after's own descriptor read
    result,            \* whether the mutation returned Ok
    undo,              \* the stack of Undo entries
    applied, rolledBack, rollbackFailures, unresolved,   \* ApplyReport
    irreversible,      \* report.irreversible_effects
    faults, foreign,   \* how many faults and foreign writes happened
    hist               \* history for the properties, see Wrote and ForeignWrite

inspection == <<snapshot, unread>>
reading    == <<partial, got, acl>>
report     == <<applied, rolledBack, rollbackFailures, unresolved>>
vars == <<job, world, pc, index, snapshot, unread, plan, expected, prepared, partial,
          got, acl, result, undo, applied, rolledBack, rollbackFailures, unresolved,
          irreversible, faults, foreign, hist>>

Manifest == job.manifest
Allow == job.allow_irreversible
Done == pc \in {"succeeded", "failed"}

EmptySnapshot == [tasks |-> [t \in {} |-> NoSec], folders |-> [f \in {} |-> NoSec]]
NothingPrepared ==
    [backups   |-> [t \in TaskPaths |-> NoBackup],
     enabled   |-> [t \in TaskPaths |-> NoBackup],
     security  |-> [x \in Targets |-> NoBackup],
     passwords |-> {}]

Init ==
    /\ job \in Jobs
    /\ world = job.start
    /\ pc = "list_tasks" /\ index = 1
    /\ snapshot = EmptySnapshot /\ unread = {}
    /\ plan = <<>> /\ expected = <<>>
    /\ prepared = NothingPrepared
    /\ partial = NotRead /\ got = NotRead /\ acl = NotRead
    /\ result = "none" /\ undo = <<>>
    /\ applied = <<>> /\ rolledBack = <<>> /\ rollbackFailures = <<>> /\ unresolved = <<>>
    /\ irreversible = <<>>
    /\ faults = 0 /\ foreign = 0
    /\ hist = [touched |-> {}, dirty |-> {}, writer |-> [x \in Targets |-> "start"],
               stopped |-> {}]

-----------------------------------------------------------------------------
(* The Task Scheduler service, as the calls of Backend see it.               *)

Exists(x) == world[x] # Missing
FolderEmpty(f) ==
    /\ \A t \in TaskPaths : FolderOf[t] = f => ~Exists(t)
    /\ \A g \in FolderPaths \ {Namespace} : Parent[g] = f => ~Exists(g)
CanCreateFolder(f) == ~Exists(f) /\ (f = Namespace \/ Exists(Parent[f]))

Reaches == UNCHANGED faults
Fault == faults < job.faults /\ faults' = faults + 1

(* The outcomes of a mutating call that the service would accept or refuse:  *)
(* ok is what the caller sees, took says whether the service acted, and cost *)
(* is 1 for a call that never arrived or whose response was lost.            *)
Outcomes(accepted) ==
    {o \in [ok : BOOLEAN, took : BOOLEAN, cost : {0, 1}] :
        /\ o.took => accepted
        /\ o.ok => o.took /\ o.cost = 0
        /\ o.took /\ ~o.ok => o.cost = 1
        /\ ~o.took /\ o.cost = 0 => ~accepted
        /\ faults + o.cost <= job.faults}

(* The call sets x to value when it takes effect.                            *)
Effect(x, o, value) ==
    /\ world' = IF o.took THEN [world EXCEPT ![x] = value] ELSE world
    /\ hist'  = IF o.took THEN [hist EXCEPT !.writer[x] = "apply"] ELSE hist
    /\ faults' = faults + o.cost

WithDefault(sec) == IF sec = NoSec THEN DefaultSec ELSE sec

(* RegisterTask without a password fails for a password-backed logon type.   *)
CanRegister(t, content, password) ==
    Exists(FolderOf[t]) /\ (content \in PwBacked => password)

-----------------------------------------------------------------------------
(* Failing before the first mutation leaves an empty report.                 *)
Abort == pc' = "failed" /\ UNCHANGED <<index, result>>

(* The loops over the plan: go on with the next change, or leave the loop.   *)
NextChange(loop, after) ==
    IF index < Len(plan) THEN index' = index + 1 /\ pc' = loop
                         ELSE index' = 1 /\ pc' = after

-----------------------------------------------------------------------------
(* inspect_backend.                                                          *)

(* list_tasks: a missing namespace is an empty state, nothing else is read.  *)
ListTasks ==
    /\ pc = "list_tasks"
    /\ \/ Fault /\ Abort /\ UNCHANGED snapshot
       \/ Reaches /\ ~Exists(Namespace)
          /\ pc' = "plan" /\ UNCHANGED <<index, result, snapshot>>
       \/ /\ Reaches /\ Exists(Namespace)
          /\ snapshot' = [snapshot EXCEPT !.tasks =
                [t \in {u \in TaskPaths : Exists(u)} |-> [world[t] EXCEPT !.sec = NoSec]]]
          /\ pc' = "list_folders" /\ UNCHANGED <<index, result>>
    /\ UNCHANGED <<job, world, unread, plan, expected, prepared, reading, undo, report,
                   irreversible, foreign, hist>>

(* list_folders below the namespace; the namespace itself is always entered. *)
ListFolders ==
    /\ pc = "list_folders"
    /\ \/ (Fault \/ (Reaches /\ ~Exists(Namespace))) /\ Abort /\ UNCHANGED inspection
       \/ /\ Reaches /\ Exists(Namespace)
          /\ LET found == {f \in FolderPaths : Exists(f)}
             IN  /\ snapshot' = [snapshot EXCEPT !.folders = [f \in found |-> NoSec]]
                 /\ unread' = {f \in found \cap DOMAIN Manifest.folders :
                                   Manifest.folders[f] # NoSec}
                        \cup {t \in DOMAIN snapshot.tasks \cap DOMAIN Manifest.tasks :
                                   Manifest.tasks[t].sec # NoSec}
                 /\ pc' = IF unread' = {} THEN "plan" ELSE "read_security"
          /\ UNCHANGED <<index, result>>
    /\ UNCHANGED <<job, world, plan, expected, prepared, reading, undo, report,
                   irreversible, foreign, hist>>

(* folder_security, then task_security, for each declared descriptor.        *)
NextUnread(x) == \A y \in unread :
    \/ x \in FolderPaths /\ y \in TaskPaths
    \/ (x \in FolderPaths <=> y \in FolderPaths) /\ Rank[x] <= Rank[y]

ReadSecurity ==
    /\ pc = "read_security"
    /\ \E x \in unread :
          /\ NextUnread(x)
          /\ \/ (Fault \/ (Reaches /\ ~Exists(x))) /\ Abort /\ UNCHANGED inspection
             \/ /\ Reaches /\ Exists(x)
                /\ snapshot' = IF x \in FolderPaths
                      THEN [snapshot EXCEPT !.folders[x] = world[x]]
                      ELSE [snapshot EXCEPT !.tasks[x].sec = world[x].sec]
                /\ unread' = unread \ {x}
                /\ pc' = IF unread' = {} THEN "plan" ELSE pc
                /\ UNCHANGED <<index, result>>
    /\ UNCHANGED <<job, world, plan, expected, prepared, reading, undo, report,
                   irreversible, foreign, hist>>

-----------------------------------------------------------------------------
(* plan_state on the snapshot.                                               *)
MakePlan ==
    /\ pc = "plan"
    /\ IF OwnershipConflict(Manifest, snapshot, job.adopt)
       THEN pc' = "failed" /\ UNCHANGED plan
       ELSE /\ plan' \in Schedules(PlanChanges(Manifest, snapshot, job.prune))
            /\ pc' = IF plan' = <<>> THEN "succeeded" ELSE "preflight"
    /\ UNCHANGED <<job, world, index, inspection, expected, prepared, reading, result,
                   undo, report, irreversible, faults, foreign, hist>>

-----------------------------------------------------------------------------
(* observe: get_task then task_security, or folder_security.  Five places of *)
(* apply call it; each goes on when got holds the result.                    *)

Sites == {"preflight", "precondition", "verify", "undo_check", "undo_confirm"}
\* mutated: in order of application
LastUndo_first == undo[1]
LastUndo == undo[Len(undo)]
Current == IF pc \in {"undo_check", "undo_confirm", "undo_mutate", "undo_enabled",
                      "undo_security"}
           THEN LastUndo.change ELSE plan[index]
Subject == Current.target

Observing ==
    /\ pc \in Sites /\ got = NotRead
    /\ pc = "undo_check" => undo # <<>>

(* A check that starts now sees every foreign write made so far.             *)
StartCheck ==
    hist' = IF pc \in {"precondition", "undo_check"}
            THEN [hist EXCEPT !.dirty = @ \ {Subject}] ELSE hist

unobserved == <<job, world, pc, index, inspection, plan, expected, prepared, acl, result,
                undo, report, irreversible, foreign>>

ObserveTask ==
    /\ Observing /\ Subject \in TaskPaths /\ partial = NotRead
    /\ \/ Fault /\ got' = ReadError /\ UNCHANGED partial
       \/ Reaches /\ ~Exists(Subject) /\ got' = Missing /\ UNCHANGED partial
       \/ Reaches /\ Exists(Subject)
          /\ partial' = [world[Subject] EXCEPT !.sec = NoSec] /\ UNCHANGED got
    /\ StartCheck /\ UNCHANGED unobserved

(* The task may be gone by now; that is an error like any other here.        *)
ObserveTaskSecurity ==
    /\ Observing /\ Subject \in TaskPaths /\ partial # NotRead
    /\ \/ Reaches /\ Exists(Subject) /\ got' = [partial EXCEPT !.sec = world[Subject].sec]
       \/ /\ Fault \/ (Reaches /\ ~Exists(Subject))
          /\ got' = IF Allow THEN partial ELSE ReadError
    /\ partial' = NotRead
    /\ UNCHANGED <<unobserved, hist>>

ObserveFolder ==
    /\ Observing /\ Subject \in FolderPaths /\ partial = NotRead
    /\ \/ Reaches /\ Exists(Subject) /\ got' = world[Subject] /\ UNCHANGED partial
       \/ Reaches /\ ~Exists(Subject) /\ got' = Missing /\ UNCHANGED partial
       \/ Fault /\ Allow /\ partial' = NoSec /\ UNCHANGED got
       \/ Fault /\ ~Allow /\ got' = ReadError /\ UNCHANGED partial
    /\ StartCheck /\ UNCHANGED unobserved

(* list_folders proves that a folder with an unreadable descriptor exists.   *)
ObserveFolderListing ==
    /\ Observing /\ Subject \in FolderPaths /\ partial # NotRead
    /\ \/ Reaches /\ Exists(Subject) /\ got' = partial
       \/ (Fault \/ (Reaches /\ ~Exists(Subject))) /\ got' = ReadError
    /\ partial' = NotRead
    /\ UNCHANGED <<unobserved, hist>>

-----------------------------------------------------------------------------
(* Preflight: observe every planned change, then compare with the snapshot.  *)

Preflight ==
    /\ pc = "preflight" /\ got # NotRead
    /\ IF got = ReadError
       THEN Abort /\ UNCHANGED expected
       ELSE /\ expected' = Append(expected, got)
            /\ NextChange("preflight", "agree") /\ UNCHANGED result
    /\ got' = NotRead
    /\ UNCHANGED <<job, world, inspection, plan, prepared, partial, acl, undo, report,
                   irreversible, faults, foreign, hist>>

AgreesWithInspection(c, seen) ==
    IF c.target \in TaskPaths
    THEN IF c.target \in DOMAIN snapshot.tasks
         THEN /\ seen # Missing
              /\ SemanticallyEqual(snapshot.tasks[c.target], seen)
              /\ snapshot.tasks[c.target].enabled = seen.enabled
         ELSE seen = Missing
    ELSE c.target \in DOMAIN snapshot.folders <=> seen # Missing

Agree ==
    /\ pc = "agree"
    /\ pc' = IF \A i \in 1..Len(plan) : AgreesWithInspection(plan[i], expected[i])
             THEN "prepare" ELSE "failed"
    /\ UNCHANGED <<job, world, index, inspection, plan, expected, prepared, reading,
                   result, undo, report, irreversible, faults, foreign, hist>>

-----------------------------------------------------------------------------
(* prepare: snapshots and passwords for every change, before any mutation.   *)
(* A resolver that has no password counts as a fault.                        *)

NeedsPassword(t) == Manifest.tasks[t].content \in PwBacked
CreatedFolders == {plan[i].target : i \in {j \in 1..Len(plan) : plan[j].kind = "CreateFolder"}}
Preparing(kinds) == pc = "prepare" /\ plan[index].kind \in kinds

\* mutated: the loop does not advance
NextPrepared_stuck == UNCHANGED <<pc, index, result>>
NextPrepared == NextChange("prepare", "precondition") /\ UNCHANGED result

unprepared == <<job, world, inspection, plan, expected, got, acl, undo, report,
                irreversible, foreign, hist>>

(* CreateFolder needs nothing, nor does the descriptor of a folder that this *)
(* apply creates: the precondition records it.                               *)
PrepareNothing ==
    /\ \/ Preparing({"CreateFolder"})
       \/ Preparing({"SetFolderSecurity"}) /\ plan[index].target \in CreatedFolders
    /\ NextPrepared
    /\ UNCHANGED <<unprepared, prepared, partial, faults>>

PrepareCreate ==
    /\ Preparing({"CreateTask"})
    /\ LET t == plan[index].target IN
       \/ NeedsPassword(t) /\ Fault /\ Abort /\ UNCHANGED prepared
       \/ /\ Reaches /\ NextPrepared
          /\ prepared' = [prepared EXCEPT !.passwords =
                              IF NeedsPassword(t) THEN @ \cup {t} ELSE @]
    /\ UNCHANGED <<unprepared, partial>>

(* The rollback password is decided by the logon type of the existing task.  *)
\* mutated: by the logon type of the desired one
NeedsRollbackPassword_desired(t) == t \in DOMAIN Manifest.tasks /\ NeedsPassword(t)
NeedsRollbackPassword(t) == world[t].content \in PwBacked

(* prepare_task_backup, up to and including the rollback password.  A plan   *)
(* has one such change per task, so no backup exists yet.                    *)
PrepareBackup ==
    /\ Preparing({"UpdateTask", "AdoptTask", "DeleteTask"}) /\ partial = NotRead
    /\ LET t == plan[index].target
           desired == plan[index].kind # "DeleteTask" /\ NeedsPassword(t)
       IN  \/ \* no desired password, get_task fails, or no rollback password
              /\ Fault \/ (Reaches /\ ~Exists(t))
              /\ Abort /\ UNCHANGED <<prepared, partial>>
           \/ /\ Exists(t)
              /\ \/ Reaches
                    /\ partial' = [task |-> world[t], password |-> NeedsRollbackPassword(t)]
                 \/ Fault /\ Allow /\ NeedsRollbackPassword(t)
                    /\ partial' = [task |-> world[t], password |-> FALSE]
              /\ prepared' = [prepared EXCEPT !.passwords =
                                  IF desired THEN @ \cup {t} ELSE @]
              /\ UNCHANGED <<pc, index, result>>
    /\ UNCHANGED unprepared

(* Its last call, task_security.                                             *)
PrepareBackupSecurity ==
    /\ Preparing({"UpdateTask", "AdoptTask", "DeleteTask"}) /\ partial # NotRead
    /\ LET t == plan[index].target
           Keep(sec) ==
               /\ prepared' = [prepared EXCEPT !.backups[t] =
                      [task |-> [partial.task EXCEPT !.sec = sec],
                       password |-> partial.password]]
               /\ NextPrepared
       IN  \/ Reaches /\ Exists(t) /\ Keep(world[t].sec)
           \/ (Fault \/ (Reaches /\ ~Exists(t)))
              /\ IF Allow THEN Keep(NoSec) ELSE Abort /\ UNCHANGED prepared
    /\ partial' = NotRead
    /\ UNCHANGED unprepared

PrepareEnabled ==
    /\ Preparing({"SetEnabled"})
    /\ LET t == plan[index].target IN
       \/ (Fault \/ (Reaches /\ ~Exists(t))) /\ Abort /\ UNCHANGED prepared
       \/ /\ Reaches /\ Exists(t) /\ NextPrepared
          /\ prepared' = [prepared EXCEPT !.enabled[t] = world[t].enabled]
    /\ UNCHANGED <<unprepared, partial>>

PrepareSecurity ==
    /\ \/ Preparing({"SetTaskSecurity"})
       \/ Preparing({"SetFolderSecurity"}) /\ plan[index].target \notin CreatedFolders
    /\ LET x == plan[index].target
           sec == IF x \in FolderPaths THEN world[x] ELSE world[x].sec
       IN  \/ /\ Fault \/ (Reaches /\ ~Exists(x))
              /\ IF Allow THEN NextPrepared ELSE Abort
              /\ UNCHANGED prepared
           \/ /\ Reaches /\ Exists(x) /\ NextPrepared
              /\ prepared' = [prepared EXCEPT !.security[x] = sec]
    /\ UNCHANGED <<unprepared, partial>>

-----------------------------------------------------------------------------
(* The main loop, one change at a time.                                      *)

Compensate == pc' = "undo_check" /\ UNCHANGED index

(* Compare live state with expected[index], immediately before the mutation. *)
\* mutated: any readable state will do
StillExpected_readable == got # ReadError
StillExpected == got = expected[index]

Precondition ==
    /\ pc = "precondition" /\ got # NotRead
    /\ LET f == Subject IN
       IF StillExpected
       THEN /\ pc' = IF job.stop_running /\ StopsInstances(Current) THEN "stop" ELSE "mutate"
            /\ prepared' = IF /\ Current.kind = "SetFolderSecurity"
                              /\ got \in Secs
                              /\ prepared.security[f] = NoBackup
                           THEN [prepared EXCEPT !.security[f] = got] ELSE prepared
            /\ UNCHANGED index
       ELSE Compensate /\ UNCHANGED prepared
    /\ got' = NotRead
    /\ UNCHANGED <<job, world, inspection, plan, expected, partial, acl, result, undo,
                   report, irreversible, faults, foreign, hist>>

(* stop_all: recorded as irreversible before the request leaves.             *)
Stop ==
    /\ pc = "stop"
    /\ irreversible' = Append(irreversible, Subject)
    /\ hist' = [hist EXCEPT !.stopped = @ \cup {Subject}]
    /\ \E o \in Outcomes(Exists(Subject)) :
          /\ faults' = faults + o.cost
          /\ pc' = IF o.ok THEN "mutate" ELSE "undo_check"
    /\ UNCHANGED <<job, world, index, inspection, plan, expected, prepared, reading, result,
                   undo, report, foreign>>

(* What a registration leaves in the scheduler.  An update without a desired *)
(* descriptor carries the one of the backup.                                 *)
RegisteredValue(c) ==
    LET t == c.target
        want == OwnedDefinition(Manifest, t)
        kept == IF c.kind # "CreateTask" /\ want.sec = NoSec /\ prepared.backups[t] # NoBackup
                THEN prepared.backups[t].task.sec ELSE want.sec
    IN  [want EXCEPT !.sec = WithDefault(kept)]

(* execute_change: the native call of each kind of change.                   *)
Accepts(c) ==
    LET x == c.target IN
    CASE c.kind = "CreateFolder" -> CanCreateFolder(x)
      [] c.kind = "CreateTask"   ->
            ~Exists(x) /\ CanRegister(x, Manifest.tasks[x].content, x \in prepared.passwords)
      [] c.kind \in {"UpdateTask", "AdoptTask"} ->
            CanRegister(x, Manifest.tasks[x].content, x \in prepared.passwords)
      [] OTHER -> Exists(x)

Desired(c) ==
    LET x == c.target IN
    CASE c.kind = "CreateFolder"      -> DefaultSec
      [] c.kind \in Registrations     -> RegisteredValue(c)
      [] c.kind = "DeleteTask"        -> Missing
      [] c.kind = "SetEnabled"        -> [world[x] EXCEPT !.enabled = Manifest.tasks[x].enabled]
      [] c.kind = "SetTaskSecurity"   -> [world[x] EXCEPT !.sec = Manifest.tasks[x].sec]
      [] c.kind = "SetFolderSecurity" -> Manifest.folders[x]

Mutate ==
    /\ pc = "mutate"
    /\ \E o \in Outcomes(Accepts(Current)) :
          /\ Effect(Subject, o, Desired(Current))
          /\ result' = IF o.ok THEN "ok" ELSE "err"
          /\ pc' = IF o.ok /\ Current.kind \in Registrations THEN "read_back" ELSE "verify"
    /\ prepared' = IF Current.kind \in Registrations
                   THEN [prepared EXCEPT !.passwords = @ \ {Subject}] ELSE prepared
    /\ UNCHANGED <<job, index, inspection, plan, expected, reading, undo, report,
                   irreversible, foreign>>

(* get_task after a registration: a failure here is a failed change although *)
(* the registration is committed.                                            *)
ReadBack ==
    /\ pc = "read_back"
    /\ \/ Reaches /\ Exists(Subject) /\ UNCHANGED result
       \/ (Fault \/ (Reaches /\ ~Exists(Subject))) /\ result' = "err"
    /\ pc' = "verify"
    /\ UNCHANGED <<job, world, index, inspection, plan, expected, prepared, reading, undo,
                   report, irreversible, foreign, hist>>

(* expected_after reads the descriptor once more when the manifest wants one *)
(* and the rest of the observation is as desired.                            *)
ShapeAsDesired(c, before, after) ==
    LET x == c.target  want == OwnedDefinition(Manifest, x) IN
    CASE c.kind \in Registrations ->
            after # Missing /\ SemanticallyEqual(after, want) /\ after.enabled = want.enabled
      [] c.kind = "DeleteTask" -> after = Missing
      [] c.kind \in {"CreateFolder", "SetFolderSecurity"} -> after # Missing
      [] c.kind = "SetEnabled" ->
            /\ after # Missing /\ before # Missing
            /\ SemanticallyEqual(before, after) /\ after.sec = before.sec
            /\ after.enabled = want.enabled
      [] c.kind = "SetTaskSecurity" ->
            /\ after # Missing /\ before # Missing
            /\ SemanticallyEqual(before, after) /\ after.enabled = before.enabled

DesiredSec(c) ==
    CASE c.kind \in Registrations \cup {"SetTaskSecurity"} -> Manifest.tasks[c.target].sec
      [] c.kind = "SetFolderSecurity" -> Manifest.folders[c.target]
      [] OTHER -> NoSec

\* mutated: an error means that nothing happened
UntouchedByFailure_trusting == result = "err"
UntouchedByFailure == got = expected[index] /\ result = "err"

ReadsAcl ==
    /\ got # ReadError /\ ~UntouchedByFailure
    /\ ShapeAsDesired(Current, expected[index], got)
    /\ DesiredSec(Current) # NoSec

VerifyAcl ==
    /\ pc = "verify" /\ got # NotRead /\ acl = NotRead /\ ReadsAcl
    /\ \/ /\ Reaches /\ Exists(Subject)
          /\ acl' = (DesiredSec(Current) =
                        IF Subject \in FolderPaths THEN world[Subject] ELSE world[Subject].sec)
       \/ (Fault \/ (Reaches /\ ~Exists(Subject))) /\ acl' = FALSE
    /\ UNCHANGED <<job, world, pc, index, inspection, plan, expected, prepared, partial, got,
                   result, undo, report, irreversible, foreign, hist>>

(* Setting a descriptor cannot be attributed to this apply by its effect     *)
(* alone; the other kinds can.                                               *)
TookEffect ==
    /\ got # ReadError
    /\ ShapeAsDesired(Current, expected[index], got)
    /\ ReadsAcl => acl = TRUE
    /\ result = "ok" \/ Current.kind \in Registrations \cup {"DeleteTask", "SetEnabled"}

(* cause is the error of the call, or else the failed verification.          *)
\* mutated: the error of the call is forgotten
Failing_unverified == ~UntouchedByFailure /\ ~TookEffect
Failing == result = "err" \/ ~TookEffect

(* The three arms: no effect, an effect to compensate later, or unknown.     *)
Verify ==
    /\ pc = "verify" /\ got # NotRead /\ (ReadsAcl => acl # NotRead)
    /\ \/ UntouchedByFailure /\ UNCHANGED <<applied, undo, expected, unresolved>>
       \/ /\ ~UntouchedByFailure /\ TookEffect
          /\ applied' = Append(applied, Current)
          /\ undo' = Append(undo, [change |-> Current, before |-> expected[index], after |-> got])
          /\ expected' = [i \in 1..Len(plan) |->
                            IF i > index /\ SameTarget(plan[i], Current) THEN got ELSE expected[i]]
          /\ UNCHANGED unresolved
       \/ /\ ~UntouchedByFailure /\ ~TookEffect
          /\ unresolved' = Append(unresolved, Current)
          /\ UNCHANGED <<applied, undo, expected>>
    /\ IF Failing THEN Compensate ELSE NextChange("precondition", "succeeded")
    /\ got' = NotRead /\ acl' = NotRead
    /\ UNCHANGED <<job, world, inspection, plan, prepared, partial, result, rolledBack,
                   rollbackFailures, irreversible, faults, foreign, hist>>

-----------------------------------------------------------------------------
(* compensate_observed: undo in reverse order, each entry between two        *)
(* observations; an entry that cannot be undone does not end the loop.       *)

EndUndo(restored) ==
    /\ undo' = SubSeq(undo, 1, Len(undo) - 1)      \* the loop consumes the entry
    /\ IF restored
       THEN /\ rolledBack' = Append(rolledBack, LastUndo.change)
            /\ UNCHANGED <<rollbackFailures, unresolved>>
       ELSE /\ rollbackFailures' = Append(rollbackFailures, LastUndo.change)
            /\ unresolved' = Append(unresolved, LastUndo.change)
            /\ UNCHANGED rolledBack
    /\ pc' = "undo_check"
    /\ UNCHANGED applied

UndoUnchanged == UNCHANGED <<undo, report>>
unchangedByUndo == <<job, index, inspection, plan, expected, acl, foreign>>

AllUndone ==
    /\ pc = "undo_check" /\ undo = <<>>
    /\ pc' = "failed"
    /\ UNCHANGED <<unchangedByUndo, world, prepared, partial, got, result, undo, report,
                   irreversible, faults, hist>>

(* Refuse to overwrite a state that is not the one this apply left.          *)
UndoCheck ==
    /\ pc = "undo_check" /\ undo # <<>> /\ got # NotRead
    /\ LET stops == job.stop_running /\ LastUndo.change.kind = "CreateTask" IN
       IF got = LastUndo.after
       THEN /\ pc' = IF stops THEN "undo_stop" ELSE "undo_mutate"
            /\ irreversible' = IF stops THEN Append(irreversible, LastUndo.change.target)
                                        ELSE irreversible
            /\ UndoUnchanged
       ELSE EndUndo(FALSE) /\ UNCHANGED irreversible
    /\ got' = NotRead
    /\ UNCHANGED <<unchangedByUndo, world, prepared, partial, result, faults, hist>>

UndoStop ==
    /\ pc = "undo_stop"
    /\ LET t == LastUndo.change.target IN
       /\ hist' = [hist EXCEPT !.stopped = @ \cup {t}]
       /\ \E o \in Outcomes(Exists(t)) :
             /\ faults' = faults + o.cost
             /\ IF o.ok THEN pc' = "undo_mutate" /\ UndoUnchanged ELSE EndUndo(FALSE)
    /\ UNCHANGED <<unchangedByUndo, world, prepared, partial, got, result, irreversible>>

(* The snapshot that the compensation of c needs, and whether it is there.   *)
HasSnapshot(c) ==
    LET x == c.target IN
    CASE c.kind \in {"UpdateTask", "AdoptTask", "DeleteTask"} ->
            /\ prepared.backups[x] # NoBackup
            /\ prepared.backups[x].task.content \in PwBacked => prepared.backups[x].password
      [] c.kind = "SetEnabled" -> prepared.enabled[x] # NoBackup
      [] c.kind \in {"SetTaskSecurity", "SetFolderSecurity"} -> prepared.security[x] # NoBackup
      [] OTHER -> TRUE

(* compensate_change, first call.                                            *)
CanUndo(c) ==
    LET x == c.target IN
    CASE c.kind = "CreateFolder" -> Exists(x) /\ FolderEmpty(x)
      [] c.kind \in {"UpdateTask", "AdoptTask", "DeleteTask"} -> Exists(FolderOf[x])
      [] OTHER -> Exists(x)

(* register_raw: the raw XML carries no descriptor.                          *)
UndoneValue(c) ==
    LET x == c.target IN
    CASE c.kind \in {"CreateFolder", "CreateTask"} -> Missing
      [] c.kind \in {"UpdateTask", "AdoptTask", "DeleteTask"} ->
            [prepared.backups[x].task EXCEPT !.sec = DefaultSec]
      [] c.kind = "SetEnabled" -> [world[x] EXCEPT !.enabled = prepared.enabled[x]]
      [] c.kind = "SetTaskSecurity" -> [world[x] EXCEPT !.sec = prepared.security[x]]
      [] c.kind = "SetFolderSecurity" -> prepared.security[x]

RestoresTask(c) == c.kind \in {"UpdateTask", "AdoptTask", "DeleteTask"}

(* The snapshots of a task and of a folder's descriptor are used up.         *)
TakeSnapshot(c) ==
    prepared' = CASE RestoresTask(c) -> [prepared EXCEPT !.backups[c.target] = NoBackup]
                  [] c.kind = "SetFolderSecurity" ->
                        [prepared EXCEPT !.security[c.target] = NoBackup]
                  [] OTHER -> prepared

UndoMutate ==
    /\ pc = "undo_mutate"
    /\ LET c == LastUndo.change
       IN  /\ TakeSnapshot(c)
           /\ \/ /\ ~HasSnapshot(c)
                 /\ EndUndo(FALSE) /\ UNCHANGED <<world, hist, faults, partial>>
              \/ /\ HasSnapshot(c)
                 /\ \E o \in Outcomes(CanUndo(c)) :
                       /\ Effect(c.target, o, UndoneValue(c))
                       /\ IF o.ok
                          THEN /\ pc' = IF RestoresTask(c) THEN "undo_enabled" ELSE "undo_confirm"
                               /\ partial' = IF RestoresTask(c) THEN prepared.backups[c.target]
                                                                ELSE partial
                               /\ UndoUnchanged
                          ELSE EndUndo(FALSE) /\ UNCHANGED partial
    /\ UNCHANGED <<unchangedByUndo, got, result, irreversible>>

(* A task that was registered again gets its enabled state and descriptor    *)
(* back; the second call is made even when the first one fails.              *)
UndoEnabled ==
    /\ pc = "undo_enabled"
    /\ LET t == LastUndo.change.target IN
       \E o \in Outcomes(Exists(t)) :
          /\ Effect(t, o, [world[t] EXCEPT !.enabled = partial.task.enabled])
          /\ result' = IF o.ok THEN "ok" ELSE "err"
    /\ pc' = "undo_security"
    /\ UNCHANGED <<unchangedByUndo, prepared, partial, got, undo, report, irreversible>>

UndoSecurity ==
    /\ pc = "undo_security"
    /\ LET t == LastUndo.change.target
           sec == partial.task.sec
           Finish(ok) == IF ok /\ result = "ok" THEN pc' = "undo_confirm" /\ UndoUnchanged
                                                ELSE EndUndo(FALSE)
       IN  \/ sec = NoSec /\ Finish(TRUE) /\ UNCHANGED <<world, hist, faults>>
           \/ /\ sec # NoSec
              /\ \E o \in Outcomes(Exists(t)) :
                    Effect(t, o, [world[t] EXCEPT !.sec = sec]) /\ Finish(o.ok)
    /\ partial' = NotRead
    /\ UNCHANGED <<unchangedByUndo, prepared, got, result, irreversible>>

(* Only an observation of the original state counts as restored.             *)
UndoConfirm ==
    /\ pc = "undo_confirm" /\ got # NotRead
    /\ EndUndo(got = LastUndo.before)
    /\ got' = NotRead
    /\ UNCHANGED <<unchangedByUndo, world, prepared, partial, result, irreversible, faults, hist>>

-----------------------------------------------------------------------------
(* Another writer of the same scheduler, at any moment.                      *)

ForeignValue(x) ==
    IF x \in TaskPaths
    THEN {Missing} \cup (IF Exists(FolderOf[x]) THEN ForeignTasks ELSE {})
    ELSE (IF FolderEmpty(x) THEN {Missing} ELSE {})
         \cup (IF Exists(x) \/ CanCreateFolder(x) THEN Secs ELSE {})

ForeignWrite ==
    /\ ~Done /\ foreign < job.others
    /\ foreign' = foreign + 1
    /\ \E x \in Targets : \E v \in ForeignValue(x) \ {world[x]} :
          /\ world' = [world EXCEPT ![x] = v]
          /\ hist' = [hist EXCEPT !.touched = @ \cup {x}, !.dirty = @ \cup {x},
                                  !.writer[x] = "foreign"]
    /\ UNCHANGED <<job, pc, index, inspection, plan, expected, prepared, reading, result,
                   undo, report, irreversible, faults>>

-----------------------------------------------------------------------------

Inspect == ListTasks \/ ListFolders \/ ReadSecurity
Observe == ObserveTask \/ ObserveTaskSecurity \/ ObserveFolder \/ ObserveFolderListing
Prepare == PrepareNothing \/ PrepareCreate \/ PrepareBackup \/ PrepareBackupSecurity
           \/ PrepareEnabled \/ PrepareSecurity
RunChange == Precondition \/ Stop \/ Mutate \/ ReadBack \/ VerifyAcl \/ Verify
RunUndo == AllUndone \/ UndoCheck \/ UndoStop \/ UndoMutate \/ UndoEnabled
           \/ UndoSecurity \/ UndoConfirm
Apply == Inspect \/ MakePlan \/ Observe \/ Preflight \/ Agree \/ Prepare \/ RunChange \/ RunUndo

(* apply has returned. *)
Terminated == Done /\ UNCHANGED vars

Next == Apply \/ ForeignWrite \/ Terminated

Spec == Init /\ [][Next]_vars

(* apply is a sequential loop that always goes on after a call returns.      *)
FairSpec == Spec /\ WF_vars(Apply)

-----------------------------------------------------------------------------
(* Properties.                                                               *)

Snapshots == [tasks   : UNION {[S -> Definitions] : S \in SUBSET TaskPaths},
              folders : UNION {[S -> Secs \cup {NoSec}] : S \in SUBSET FolderPaths}]
Observations == Definitions \cup Secs \cup {NoSec, Missing}
Backups == [task : Definitions, password : BOOLEAN]

(* What a change needs from the manifest that it was planned from.           *)
WellFormed(c) ==
    LET x == c.target IN
    /\ c.kind \in {"CreateFolder", "SetFolderSecurity"} => x \in FolderPaths
    /\ c.kind \notin {"CreateFolder", "SetFolderSecurity"} => x \in TaskPaths
    /\ c.kind \in Registrations \cup {"SetEnabled", "SetTaskSecurity"} =>
          x \in DOMAIN Manifest.tasks
    /\ c.kind = "SetTaskSecurity" => Manifest.tasks[x].sec # NoSec
    /\ c.kind = "SetFolderSecurity" =>
          x \in DOMAIN Manifest.folders /\ Manifest.folders[x] # NoSec
Planned == {c \in Change : WellFormed(c)}

UndoEntries == [change : Planned, before : Observations, after : Observations]

(* The manifest's plan, the service, the snapshots and the report keep their *)
(* types; every change in them names a target of its kind.                   *)
TypeOK ==
    /\ job \in Jobs /\ world \in World
    /\ pc \in {"list_tasks", "list_folders", "read_security", "plan", "agree", "prepare",
               "stop", "mutate", "read_back", "undo_stop", "undo_mutate", "undo_enabled",
               "undo_security", "succeeded", "failed"} \cup Sites
    /\ index \in Nat \ {0}
    /\ snapshot \in Snapshots
    /\ unread \subseteq Targets
    /\ plan \in Seq(Planned)
    /\ expected \in Seq(Observations)
    /\ prepared \in [backups   : [TaskPaths -> Backups \cup {NoBackup}],
                     enabled   : [TaskPaths -> BOOLEAN \cup {NoBackup}],
                     security  : [Targets -> Secs \cup {NoBackup}],
                     passwords : SUBSET TaskPaths]
    /\ partial \in Definitions \cup Backups \cup {NoSec, NotRead}
    /\ got \in Observations \cup {NotRead, ReadError}
    /\ acl \in BOOLEAN \cup {NotRead}
    /\ result \in {"none", "ok", "err"}
    /\ undo \in Seq(UndoEntries)
    /\ applied \in Seq(Planned) /\ rolledBack \in Seq(Planned)
    /\ rollbackFailures \in Seq(Planned) /\ unresolved \in Seq(Planned)
    /\ irreversible \in Seq(TaskPaths)
    /\ faults \in 0..MaxFaults /\ foreign \in 0..MaxForeign

Elements(seq) == {seq[i] : i \in DOMAIN seq}

(* ApplyReport::rollback_complete.                                           *)
\* mutated: restoring the definitions is enough
RollbackComplete_stopped ==
    /\ applied # <<>> /\ Len(rolledBack) = Len(applied)
    /\ rollbackFailures = <<>> /\ unresolved = <<>>
RollbackComplete ==
    /\ applied # <<>> /\ Len(rolledBack) = Len(applied)
    /\ rollbackFailures = <<>> /\ unresolved = <<>> /\ irreversible = <<>>

(* Where apply is, and what the phases rely on.                              *)
InspectPcs == {"list_tasks", "list_folders", "read_security", "plan"}
ChangePcs  == {"precondition", "stop", "mutate", "read_back", "verify"}
UndoPcs    == {"undo_check", "undo_stop", "undo_mutate", "undo_enabled", "undo_security",
               "undo_confirm"}

(* Each phase has the change, the expectations, the undo entry and the half- *)
(* finished reading that its calls use.                                      *)
Control ==
    /\ pc \in InspectPcs => index = 1 /\ plan = <<>> /\ expected = <<>>
    /\ pc \in {"preflight", "agree", "prepare"} \cup ChangePcs => index \in 1..Len(plan)
    /\ pc = "preflight" => Len(expected) = index - 1
    /\ pc \in {"agree", "prepare"} \cup ChangePcs => Len(expected) = Len(plan)
    /\ pc = "stop" => StopsInstances(plan[index])
    /\ pc \in UndoPcs \ {"undo_check"} => undo # <<>>
    /\ pc \in {"undo_enabled", "undo_security"} =>
          partial \in Backups /\ RestoresTask(LastUndo.change)
    /\ pc = "prepare" /\ partial # NotRead => partial \in Backups /\ RestoresTask(plan[index])
    /\ pc = "undo_check" /\ undo = <<>> => partial = NotRead /\ got = NotRead
    /\ pc \in Sites /\ partial # NotRead =>
          /\ Subject \in TaskPaths => partial \in Definitions
          /\ Subject \in FolderPaths => partial = NoSec
    /\ pc \notin Sites \cup {"prepare", "undo_enabled", "undo_security"} => partial = NotRead
    /\ got # NotRead => pc \in Sites /\ partial = NotRead

(* The report against the plan: the changes applied so far are the first     *)
(* ones of the plan, the undo stack is the part of them not yet compensated, *)
(* and the rest is divided between rolledBack and rollbackFailures.          *)
Settled == Len(undo) + 1 .. Len(applied)

AppliedPrefix ==
    /\ \A i, j \in DOMAIN plan : plan[i] = plan[j] => i = j
    /\ Len(applied) <= Len(plan)
    /\ Len(applied) = Len(undo) + Len(rolledBack) + Len(rollbackFailures)
    /\ \A i \in DOMAIN applied : applied[i] = plan[i]
    /\ \A i \in DOMAIN undo : undo[i].change = plan[i]

SettledReported ==
    /\ \A k \in Settled : plan[k] \in Elements(rolledBack) \cup Elements(rollbackFailures)
    /\ \A i \in DOMAIN rolledBack : \E k \in Settled : rolledBack[i] = plan[k]
    /\ \A i \in DOMAIN rollbackFailures : \E k \in Settled : rollbackFailures[i] = plan[k]

ReverseOrder ==
    \A i, j \in DOMAIN rolledBack : i < j =>
        \E k, l \in Settled : k > l /\ rolledBack[i] = plan[k] /\ rolledBack[j] = plan[l]

UnresolvedApart ==
    /\ \A j \in DOMAIN unresolved : \E l \in Len(undo) + 1 .. Len(plan) : unresolved[j] = plan[l]
    /\ Elements(rolledBack) \cap Elements(unresolved) = {}

LedgerData == AppliedPrefix /\ SettledReported /\ ReverseOrder /\ UnresolvedApart

(* On the way forward nothing is compensated or unresolved yet, and the main *)
(* loop has applied exactly the changes before its index.                    *)
LedgerPhase ==
    /\ pc \notin UndoPcs \cup {"failed"} =>
          /\ Len(undo) = Len(applied) /\ unresolved = <<>>
          /\ pc \in ChangePcs => Len(applied) = index - 1
          /\ pc \in InspectPcs \cup {"preflight", "agree", "prepare"} => Len(applied) = 0
          /\ pc = "succeeded" => Len(applied) = Len(plan)
    /\ pc = "failed" => Len(undo) = 0

Ledger == LedgerData /\ LedgerPhase

(* A failed apply that reports nothing unresolved has put every target back  *)
(* that no other writer changed, whichever call failed or lost its response. *)
(* With allow_irreversible an unreadable descriptor is exempt.               *)
RollbackRestores ==
    pc = "failed" /\ unresolved = <<>> =>
        \A x \in Targets \ hist.touched :
            \/ world[x] = job.start[x]
            \/ /\ Allow /\ world[x] # Missing /\ job.start[x] # Missing
               /\ x \in TaskPaths => world[x] = [job.start[x] EXCEPT !.sec = world[x].sec]

(* What inspect_backend would return for the present scheduler contents.     *)
Inspected ==
    IF ~Exists(Namespace) THEN EmptySnapshot ELSE
    [tasks |-> [t \in {u \in TaskPaths : Exists(u)} |->
        IF t \in DOMAIN Manifest.tasks /\ Manifest.tasks[t].sec # NoSec
        THEN world[t] ELSE [world[t] EXCEPT !.sec = NoSec]],
     folders |-> [f \in {g \in FolderPaths : Exists(g)} |->
        IF f \in DOMAIN Manifest.folders /\ Manifest.folders[f] # NoSec
        THEN world[f] ELSE NoSec]]

(* A successful apply converges: planning again finds nothing to do, unless  *)
(* another writer interfered.                                                *)
SuccessConverges ==
    pc = "succeeded" /\ hist.touched = {} =>
        /\ ~OwnershipConflict(Manifest, Inspected, job.adopt)
        /\ PlanChanges(Manifest, Inspected, job.prune) = {}

(* A successful apply has applied the whole plan and left nothing behind.    *)
(* Every applied change of a failed apply is either rolled back or reported  *)
(* unresolved, never both and never neither; what was rolled back was rolled *)
(* back in the reverse order of its application.                             *)
RollbackAccounting ==
    /\ pc = "succeeded" => applied = plan /\ unresolved = <<>> /\ rolledBack = <<>>
    /\ pc = "failed" =>
        /\ Elements(applied) = Elements(rolledBack) \cup Elements(rollbackFailures)
        /\ Elements(rolledBack) \cap Elements(unresolved) = {}
        /\ Len(applied) = Len(rolledBack) + Len(rollbackFailures)
    /\ \A i, j \in DOMAIN rolledBack : i < j =>
        \E k, l \in DOMAIN applied :
            k > l /\ applied[k] = rolledBack[i] /\ applied[l] = rolledBack[j]

(* Without allow_irreversible, compensation never runs into a snapshot or a  *)
(* password that preparation did not capture, or that was used up before.    *)
SnapshotsComplete ==
    pc = "undo_mutate" /\ ~Allow => HasSnapshot(LastUndo.change)

(* Whatever apply asked to stop is in the report, and is never hidden behind *)
(* a complete rollback; on the way forward only planned stops are issued.    *)
StopsAccounted ==
    /\ hist.stopped \subseteq Elements(irreversible)
    /\ RollbackComplete => hist.stopped = {}
    /\ pc \in {"stop", "mutate", "succeeded"} => hist.stopped \subseteq PlannedStops(plan)

(* A step of apply that changes x, which no other writer changed since the   *)
(* last check of x began.                                                    *)
Writes(x, where) ==
    /\ foreign' = foreign /\ pc \in where
    /\ x \notin hist.dirty /\ world'[x] # world[x]

(* value is what an observation saw, up to a descriptor it could not read.   *)
Saw(seen, value) ==
    \/ seen = value
    \/ Allow /\ value # Missing /\ seen \notin Secs \cup {Missing}
       /\ (seen # NoSec => seen.sec = NoSec /\ seen = [value EXCEPT !.sec = NoSec])

(* Apply and compensation write a target only in the state they checked last *)
(* (after a foreign write during that check or later, nobody can tell).      *)
WritesOnlyObserved ==
    [][\A x \in Targets :
          Writes(x, {"mutate", "undo_mutate"}) =>
              Saw(IF pc = "mutate" THEN expected[index] ELSE LastUndo.after, world[x])]_vars

(* On the way forward, a task of somebody else changes only by adoption, and *)
(* only prune removes a task, an owned one that the manifest does not list   *)
(* (unless another writer changed the task since its check began).           *)
OwnershipRespected ==
    [][\A t \in TaskPaths :
          Writes(t, {"mutate"}) /\ world[t] # Missing =>
              /\ ~world[t].marked => job.adopt /\ t \in DOMAIN Manifest.tasks
              /\ world'[t] = Missing => job.prune /\ t \notin DOMAIN Manifest.tasks]_vars

(* cli.md: "External changes block automatic compensation."  Compensation    *)
(* changes a target only while the last writer of it is this apply.          *)
CompensatesOwnWrites ==
    [][\A x \in Targets :
          Writes(x, {"undo_mutate"}) => hist.writer[x] = "apply"]_vars

(* Apply returns.                                                            *)
Terminates == <>Done
=============================================================================
