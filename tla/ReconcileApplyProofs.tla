------------------------ MODULE ReconcileApplyProofs ------------------------
(* What ReconcileApply keeps straight, for every manifest, set of paths and  *)
(* bound.  First half: the types of its state, and the report against the    *)
(* plan.  Second half: what apply does to the scheduler.                     *)
EXTENDS ReconcileApply, FiniteSetTheorems, SequenceTheorems, TLAPS

-----------------------------------------------------------------------------
(* Planning.                                                                 *)

(* There are finitely many changes, so a plan has a length.                  *)
LEMMA ChangeFinite == IsFiniteSet(Change)
<1> DEFINE pairs == Kinds \X Targets
           f == [q \in pairs |-> MkChange(q[1], q[2])]
<1>1. IsFiniteSet(Kinds)
  <2>1. IsFiniteSet(1..8)
    <3>1. 1 \in Int /\ 8 \in Int  OBVIOUS
    <3>2. QED  BY <3>1, FS_Interval
  <2> DEFINE k == [i \in 1..8 |-> CASE i = 1 -> "CreateFolder" [] i = 2 -> "CreateTask"
                      [] i = 3 -> "AdoptTask" [] i = 4 -> "UpdateTask" [] i = 5 -> "SetEnabled"
                      [] i = 6 -> "SetTaskSecurity" [] i = 7 -> "SetFolderSecurity"
                      [] OTHER -> "DeleteTask"]
  <2>2. k \in Surjection(1..8, Kinds)  BY DEF Surjection, Kinds
  <2>3. QED  BY <2>1, <2>2, FS_Surjection
<1>2. IsFiniteSet(Targets)  BY PathsAssumption, FS_Union DEF Targets
<1>3. IsFiniteSet(pairs)  BY <1>1, <1>2, FS_Product
<1>4. f \in Surjection(pairs, Change)
  <2>1. f \in [pairs -> Change]  BY DEF Change, MkChange
  <2>2. ASSUME NEW c \in Change PROVE \E q \in pairs : f[q] = c
    <3>1. <<c.kind, c.target>> \in pairs  BY DEF Change
    <3>2. f[<<c.kind, c.target>>] = c  BY <3>1 DEF Change, MkChange
    <3>3. QED  BY <3>1, <3>2
  <2>3. QED  BY <2>1, <2>2 DEF Surjection
<1>5. QED  BY <1>3, <1>4, FS_Surjection

(* A schedule is a sequence of changes without repetition.                   *)
LEMMA ScheduleType ==
    ASSUME NEW S \in SUBSET Change, NEW p \in Schedules(S)
    PROVE  /\ p \in Seq(S)
           /\ \A i, j \in DOMAIN p : p[i] = p[j] => i = j
<1>1. IsFiniteSet(S)  BY ChangeFinite, FS_Subset
<1>2. Cardinality(S) \in Nat  BY <1>1, FS_CardinalityType
<1>3. p \in [1..Cardinality(S) -> S]  BY DEF Schedules
<1>4. p \in Seq(S)  BY <1>2, <1>3
<1>5. \A c \in Change : ~Before(c, c)
  <2> SUFFICES ASSUME NEW c \in Change PROVE ~Before(c, c)  OBVIOUS
  <2>1. Priority(c.kind) \in Int  BY DEF Change, Kinds, Priority
  <2>2. Rank[c.target] \in Int  BY PathsAssumption DEF Change
  <2>3. c.target \in FolderPaths => Depth[c.target] \in Int  BY PathsAssumption
  <2>4. QED  BY <2>1, <2>2, <2>3 DEF Before
<1>6. ASSUME NEW i \in DOMAIN p, NEW j \in DOMAIN p, p[i] = p[j] PROVE i = j
  <2>1. i \in 1..Cardinality(S) /\ j \in 1..Cardinality(S)  BY <1>3
  <2>2. p[i] \in Change  BY <1>3, <2>1
  <2>3. i < j => Before(p[i], p[j])  BY <2>1 DEF Schedules
  <2>4. j < i => Before(p[j], p[i])  BY <2>1 DEF Schedules
  <2>5. QED  BY <1>2, <1>5, <1>6, <2>1, <2>2, <2>3, <2>4
<1>7. QED  BY <1>4, <1>6

(* Every planned change names a target of its kind.                          *)
LEMMA PlannedChanges ==
    ASSUME TypeOK, NEW c \in PlanChanges(Manifest, snapshot, job.prune)
    PROVE  c \in Planned
<1>0. /\ DOMAIN Manifest.tasks \subseteq TaskPaths /\ DOMAIN Manifest.folders \subseteq FolderPaths
      /\ DOMAIN snapshot.tasks \subseteq TaskPaths
  <2>1. DOMAIN snapshot.tasks \subseteq TaskPaths  BY DEF TypeOK, Snapshots
  <2>2. QED  BY <2>1, JobsAssumption DEF TypeOK, Manifest
<1> USE DEF MkChange, Planned, Change, Kinds, WellFormed, Registrations, Targets
<1>1. CASE c \in FolderCreations(Manifest, snapshot)
  <2>1. RequiredFolders(Manifest) \subseteq FolderPaths  BY DEF RequiredFolders
  <2>2. QED  BY <1>1, <2>1 DEF FolderCreations
<1>2. CASE \E t \in DOMAIN Manifest.tasks : c \in TaskChanges(Manifest, snapshot, t)
  <2>1. PICK t \in DOMAIN Manifest.tasks : c \in TaskChanges(Manifest, snapshot, t)  BY <1>2
  <2>2. QED  BY <1>0, <2>1 DEF TaskChanges, OwnedDefinition
<1>3. CASE c \in FolderSecurityChanges(Manifest, snapshot)
  BY <1>0, <1>3 DEF FolderSecurityChanges
<1>4. CASE c \in Prunings(Manifest, snapshot, job.prune)
  BY <1>0, <1>4 DEF Prunings
<1>5. c \in UNION {TaskChanges(Manifest, snapshot, t) : t \in DOMAIN Manifest.tasks} => 
      \E t \in DOMAIN Manifest.tasks : c \in TaskChanges(Manifest, snapshot, t)
  OBVIOUS
<1> HIDE DEF MkChange, Planned, Change, Kinds, WellFormed, Registrations, Targets
<1>6. \/ c \in FolderCreations(Manifest, snapshot)
      \/ c \in UNION {TaskChanges(Manifest, snapshot, t) : t \in DOMAIN Manifest.tasks}
      \/ c \in FolderSecurityChanges(Manifest, snapshot)
      \/ c \in Prunings(Manifest, snapshot, job.prune)
  BY DEF PlanChanges
<1>7. QED  BY <1>1, <1>2, <1>3, <1>4, <1>5, <1>6

-----------------------------------------------------------------------------
(* Types of the values that calls return and leave behind.                   *)

(* The service keeps definitions for tasks and descriptors for folders.      *)
LEMMA WorldValues ==
    ASSUME world \in World, NEW x \in Targets, world[x] # Missing
    PROVE  /\ x \in TaskPaths => world[x] \in Registered
           /\ x \in FolderPaths => world[x] \in Secs
BY DEF World

(* A definition without its descriptor, with and without it again.           *)
LEMMA SecurityAgain ==
    ASSUME NEW d \in Definitions, NEW p, p = [d EXCEPT !.sec = NoSec]
    PROVE  /\ [p EXCEPT !.sec = d.sec] = d
           /\ [p EXCEPT !.sec = NoSec] = p /\ p \in Definitions
BY DEF Definitions

(* Editing one field of a registered task gives a registered task.           *)
LEMMA EditRegistered ==
    ASSUME NEW d \in Definitions
    PROVE  /\ \A e \in BOOLEAN : [d EXCEPT !.enabled = e] \in Definitions
           /\ \A s \in Secs \cup {NoSec} : [d EXCEPT !.sec = s] \in Definitions
           /\ \A s \in Secs : [d EXCEPT !.sec = s] \in Registered
           /\ d \in Registered => \A e \in BOOLEAN : [d EXCEPT !.enabled = e] \in Registered
BY ValuesAssumption DEF Definitions, Registered

(* A planned change names a target of its kind.                              *)
LEMMA PlannedTargets ==
    ASSUME TypeOK, NEW c \in Planned
    PROVE  /\ c.target \in Targets /\ c.kind \in Kinds
           /\ c.kind \in {"CreateFolder", "SetFolderSecurity"} <=> c.target \in FolderPaths
           /\ c.kind \notin {"CreateFolder", "SetFolderSecurity"} <=> c.target \in TaskPaths
           /\ c.kind \in Registrations \cup {"SetEnabled", "SetTaskSecurity"} =>
                 /\ c.target \in DOMAIN Manifest.tasks
                 /\ Manifest.tasks[c.target].content \in Contents
                 /\ Manifest.tasks[c.target].enabled \in BOOLEAN
                 /\ Manifest.tasks[c.target].sec \in Secs \cup {NoSec}
           /\ c.kind = "SetTaskSecurity" => Manifest.tasks[c.target].sec \in Secs
           /\ c.kind = "SetFolderSecurity" => Manifest.folders[c.target] \in Secs
<1>1. c \in Change /\ WellFormed(c)  BY DEF Planned
<1>2. /\ \A t \in DOMAIN Manifest.tasks :
             /\ Manifest.tasks[t].content \in Contents
             /\ Manifest.tasks[t].enabled \in BOOLEAN
             /\ Manifest.tasks[t].sec \in Secs \cup {NoSec}
      /\ \A f \in DOMAIN Manifest.folders : Manifest.folders[f] \in Secs \cup {NoSec}
  BY JobsAssumption DEF TypeOK, Manifest
<1>3. TaskPaths \cap FolderPaths = {}  BY PathsAssumption
<1>4. c.target \in Targets /\ c.kind \in Kinds  BY <1>1 DEF Change
<1>5. QED  BY <1>1, <1>2, <1>3, <1>4 DEF WellFormed, Targets

(* A mutating call leaves a well-typed world and a legal number of faults.   *)
LEMMA EffectType ==
    ASSUME world \in World, NEW x \in Targets, NEW value, NEW accepted, NEW o \in Outcomes(accepted),
           faults \in 0..MaxFaults, job \in Jobs,
           o.took /\ x \in TaskPaths => value \in Registered \cup {Missing},
           o.took /\ x \in FolderPaths => value \in Secs \cup {Missing},
           Effect(x, o, value)
    PROVE  world' \in World /\ faults' \in 0..MaxFaults
<1>1. faults' \in 0..MaxFaults  BY BoundsAssumption, JobsAssumption DEF Effect, Outcomes
<1>2. CASE ~o.took  BY <1>1, <1>2 DEF Effect
<1>3. CASE o.took
  <2>1. world' = [world EXCEPT ![x] = value]  BY <1>3 DEF Effect
  <2>2. QED  BY <1>1, <1>3, <2>1, PathsAssumption DEF World, Targets
<1>4. QED  BY <1>2, <1>3

LEMMA FaultType ==
    ASSUME faults \in 0..MaxFaults, job \in Jobs, Fault \/ Reaches
    PROVE  faults' \in 0..MaxFaults
BY BoundsAssumption, JobsAssumption DEF Fault, Reaches

-----------------------------------------------------------------------------
(* Types and phases are preserved, action by action.                         *)

Typed == TypeOK /\ Control

LEMMA InitTyped == Init => Typed
<1> SUFFICES ASSUME Init PROVE Typed  OBVIOUS
<1>1. job \in Jobs /\ world \in World  BY JobsAssumption DEF Init
<1>2. snapshot \in Snapshots
  <2>1. /\ {} \in SUBSET TaskPaths /\ [t \in {} |-> NoSec] \in [{} -> Definitions]
        /\ {} \in SUBSET FolderPaths /\ [f \in {} |-> NoSec] \in [{} -> Secs \cup {NoSec}]
    OBVIOUS
  <2>2. QED  BY <2>1 DEF Init, EmptySnapshot, Snapshots
<1>3. TypeOK  BY <1>1, <1>2, BoundsAssumption
  DEF Init, TypeOK, EmptySnapshot, NothingPrepared, Sites
<1>4. Control
  BY DEF Init, Control, InspectPcs, ChangePcs, UndoPcs, Sites
<1>5. QED  BY <1>3, <1>4 DEF Typed

(* The planned changes depend on the manifest only.                          *)
LEMMA PlannedStable ==
    ASSUME job' = job
    PROVE  Planned' = Planned /\ UndoEntries' = UndoEntries
<1>1. Planned' = Planned  BY DEF Planned, WellFormed, Manifest
<1>2. QED  BY <1>1 DEF UndoEntries

LEMMA TypedListTasks == Typed /\ ListTasks => Typed'
<1> SUFFICES ASSUME Typed, ListTasks PROVE Typed'  OBVIOUS
<1> USE DEF inspection, reading, report
<1>1. Planned' = Planned /\ UndoEntries' = UndoEntries  BY PlannedStable DEF ListTasks
<1>2. faults' \in 0..MaxFaults  BY FaultType DEF ListTasks, Typed, TypeOK
<1>3. snapshot' \in Snapshots
  <2>1. snapshot \in Snapshots  BY DEF Typed, TypeOK
  <2>2. CASE UNCHANGED snapshot  BY <2>1, <2>2
  <2>3. CASE snapshot' = [snapshot EXCEPT !.tasks =
                [t \in {u \in TaskPaths : Exists(u)} |-> [world[t] EXCEPT !.sec = NoSec]]]
    <3>1. {u \in TaskPaths : Exists(u)} \in SUBSET TaskPaths  OBVIOUS
    <3>2. [t \in {u \in TaskPaths : Exists(u)} |-> [world[t] EXCEPT !.sec = NoSec]]
             \in [{u \in TaskPaths : Exists(u)} -> Definitions]
      BY WorldValues, EditRegistered DEF Typed, TypeOK, Exists, Registered, Targets
    <3>3. QED  BY <2>1, <2>3, <3>1, <3>2 DEF Snapshots
  <2>4. QED  BY <2>2, <2>3 DEF ListTasks
<1>4. TypeOK'  BY <1>1, <1>2, <1>3 DEF ListTasks, Typed, TypeOK, Abort
<1>5. Control'
  BY DEF ListTasks, Typed, TypeOK, Control, Abort, InspectPcs, ChangePcs, UndoPcs, Sites
<1>6. QED  BY <1>4, <1>5 DEF Typed

LEMMA TypedListFolders == Typed /\ ListFolders => Typed'
<1> SUFFICES ASSUME Typed, ListFolders PROVE Typed'  OBVIOUS
<1> USE DEF inspection, reading, report
<1>1. Planned' = Planned /\ UndoEntries' = UndoEntries  BY PlannedStable DEF ListFolders
<1>2. faults' \in 0..MaxFaults  BY FaultType DEF ListFolders, Typed, TypeOK
<1>3. snapshot' \in Snapshots /\ unread' \subseteq Targets
  <2>1. snapshot \in Snapshots /\ unread \subseteq Targets  BY DEF Typed, TypeOK
  <2>2. CASE UNCHANGED <<snapshot, unread>>  BY <2>1, <2>2
  <2>3. CASE ~UNCHANGED <<snapshot, unread>>
    <3> DEFINE found == {f \in FolderPaths : Exists(f)}
    <3>1. /\ snapshot' = [snapshot EXCEPT !.folders = [f \in found |-> NoSec]]
          /\ unread' \subseteq found \cup DOMAIN snapshot.tasks
      BY <2>3 DEF ListFolders
    <3>2. found \in SUBSET FolderPaths /\ [f \in found |-> NoSec] \in [found -> Secs \cup {NoSec}]
      OBVIOUS
    <3>3. QED  BY <2>1, <3>1, <3>2 DEF Snapshots, Targets
  <2>4. QED  BY <2>2, <2>3
<1>4. TypeOK'  BY <1>1, <1>2, <1>3 DEF ListFolders, Typed, TypeOK, Abort
<1>5. Control'
  BY DEF ListFolders, Typed, TypeOK, Control, Abort, InspectPcs, ChangePcs, UndoPcs, Sites
<1>6. QED  BY <1>4, <1>5 DEF Typed

LEMMA TypedReadSecurity == Typed /\ ReadSecurity => Typed'
<1> SUFFICES ASSUME Typed, ReadSecurity PROVE Typed'  OBVIOUS
<1> USE DEF inspection, reading, report
<1>1. Planned' = Planned /\ UndoEntries' = UndoEntries  BY PlannedStable DEF ReadSecurity
<1>2. faults' \in 0..MaxFaults  BY FaultType DEF ReadSecurity, Typed, TypeOK
<1>3. snapshot' \in Snapshots /\ unread' \subseteq Targets
  <2>1. snapshot \in Snapshots /\ unread \subseteq Targets  BY DEF Typed, TypeOK
  <2>2. CASE UNCHANGED <<snapshot, unread>>  BY <2>1, <2>2
  <2>3. CASE ~UNCHANGED <<snapshot, unread>>
    <3>1. PICK x \in Targets :
             /\ Exists(x) /\ unread' \subseteq unread
             /\ snapshot' = IF x \in FolderPaths
                    THEN [snapshot EXCEPT !.folders[x] = world[x]]
                    ELSE [snapshot EXCEPT !.tasks[x].sec = world[x].sec]
      BY <2>1, <2>3 DEF ReadSecurity
    <3>2. CASE x \in FolderPaths
      <4>1. world[x] \in Secs  BY <3>1, <3>2, WorldValues DEF Typed, TypeOK, Exists
      <4>2. PICK S \in SUBSET FolderPaths : snapshot.folders \in [S -> Secs \cup {NoSec}]
        BY <2>1 DEF Snapshots
      <4>3. [snapshot.folders EXCEPT ![x] = world[x]] \in [S -> Secs \cup {NoSec}]
        BY <4>1, <4>2
      <4>4. QED  BY <2>1, <3>1, <3>2, <4>3 DEF Snapshots
    <3>3. CASE x \in TaskPaths
      <4>1. world[x].sec \in Secs
        BY <3>1, <3>3, WorldValues DEF Typed, TypeOK, Exists, Registered, Definitions
      <4>2. PICK S \in SUBSET TaskPaths : snapshot.tasks \in [S -> Definitions]
        BY <2>1 DEF Snapshots
      <4>3. [snapshot.tasks EXCEPT ![x].sec = world[x].sec] \in [S -> Definitions]
        BY <4>1, <4>2, EditRegistered
      <4>4. x \notin FolderPaths  BY <3>3, PathsAssumption
      <4>5. QED  BY <2>1, <3>1, <4>3, <4>4 DEF Snapshots
    <3>4. QED  BY <2>1, <3>1, <3>2, <3>3 DEF Targets
  <2>4. QED  BY <2>2, <2>3
<1>4. TypeOK'  BY <1>1, <1>2, <1>3 DEF ReadSecurity, Typed, TypeOK, Abort
<1>5. Control'
  BY DEF ReadSecurity, Typed, TypeOK, Control, Abort, InspectPcs, ChangePcs, UndoPcs, Sites
<1>6. QED  BY <1>4, <1>5 DEF Typed

LEMMA TypedMakePlan == Typed /\ MakePlan => Typed'
<1> SUFFICES ASSUME Typed, MakePlan PROVE Typed'  OBVIOUS
<1> USE DEF inspection, reading, report
<1>1. Planned' = Planned /\ UndoEntries' = UndoEntries  BY PlannedStable DEF MakePlan
<1>2. plan \in Seq(Planned) /\ plan = <<>> /\ expected = <<>> /\ index = 1
  BY DEF MakePlan, Typed, TypeOK, Control, InspectPcs
<1>3. plan' \in Seq(Planned)
  <2>1. CASE UNCHANGED plan  BY <1>2, <2>1
  <2>2. CASE plan' \in Schedules(PlanChanges(Manifest, snapshot, job.prune))
    <3> DEFINE S == PlanChanges(Manifest, snapshot, job.prune)
    <3>1. S \subseteq Planned  BY PlannedChanges DEF Typed
    <3>2. plan' \in Seq(S)
      <4>1. S \in SUBSET Change  BY <3>1 DEF Planned
      <4>2. QED  BY <2>2, <4>1, ScheduleType
    <3>3. QED  BY <3>1, <3>2
  <2>3. QED  BY <2>1, <2>2 DEF MakePlan
<1>4. TypeOK'  BY <1>1, <1>3 DEF MakePlan, Typed, TypeOK, Sites
<1>5. pc' = "preflight" => index' \in 1..Len(plan')
  <2>1. pc' = "preflight" => plan' # <<>>  BY DEF MakePlan
  <2>2. QED  BY <1>2, <1>3, <2>1 DEF MakePlan
<1>6. Control'
  BY <1>2, <1>5 DEF MakePlan, Typed, Control, InspectPcs, ChangePcs, UndoPcs, Sites
<1>7. QED  BY <1>4, <1>6 DEF Typed

(* The change that a phase works on was planned.                             *)
LEMMA CurrentPlanned ==
    ASSUME Typed
    PROVE  /\ pc \in UndoPcs /\ undo # <<>> =>
                 LastUndo \in UndoEntries /\ LastUndo.change \in Planned
           /\ pc \in UndoPcs \ {"undo_stop"} => Current = LastUndo.change
           /\ pc \in {"preflight", "agree", "prepare"} \cup ChangePcs =>
                 Current = plan[index] /\ Current \in Planned
           /\ Observing => Current \in Planned
<1>1. ASSUME pc \in UndoPcs, undo # <<>>
      PROVE  LastUndo \in UndoEntries /\ LastUndo.change \in Planned
  <2>1. undo \in Seq(UndoEntries)  BY DEF Typed, TypeOK
  <2>2. Len(undo) \in 1..Len(undo)  BY <1>1, <2>1
  <2>3. LastUndo \in UndoEntries  BY <2>1, <2>2 DEF LastUndo
  <2>4. QED  BY <2>3 DEF UndoEntries
<1>2. pc \in UndoPcs \ {"undo_stop"} => Current = LastUndo.change  BY DEF UndoPcs, Current
<1>3. ASSUME pc \in {"preflight", "agree", "prepare"} \cup ChangePcs
      PROVE  Current = plan[index] /\ Current \in Planned
  <2>1. plan \in Seq(Planned) /\ index \in 1..Len(plan)
    BY <1>3 DEF Typed, TypeOK, Control
  <2>2. Current = plan[index]  BY <1>3 DEF Current, ChangePcs
  <2>3. QED  BY <2>1, <2>2
<1>4. Observing => \/ pc \in UndoPcs \ {"undo_stop"} /\ undo # <<>>
                   \/ pc \in {"preflight", "agree", "prepare"} \cup ChangePcs
  BY DEF Observing, Sites, UndoPcs, ChangePcs, Typed, Control
<1>5. QED  BY <1>1, <1>2, <1>3, <1>4

(* Observing keeps its place and reads a value of the target's kind.         *)
LEMMA ObservedType ==
    ASSUME Typed, Observing
    PROVE  /\ Subject \in Targets
           /\ Subject \in TaskPaths /\ Exists(Subject) => world[Subject] \in Definitions
           /\ Subject \in FolderPaths /\ Exists(Subject) => world[Subject] \in Secs
<1>1. Subject \in Targets  BY CurrentPlanned, PlannedTargets DEF Typed, Subject
<1>2. QED  BY <1>1, WorldValues DEF Typed, TypeOK, Exists, Registered

LEMMA SubjectStable ==
    ASSUME UNCHANGED <<pc, plan, index, undo>>
    PROVE  Subject' = Subject
BY DEF Subject, Current, LastUndo

LEMMA TypedObserveTask == Typed /\ ObserveTask => Typed'
<1> SUFFICES ASSUME Typed, ObserveTask PROVE Typed'  OBVIOUS
<1> USE DEF inspection, reading, report, unobserved
<1>1. Planned' = Planned /\ UndoEntries' = UndoEntries  BY PlannedStable DEF ObserveTask
<1>2. faults' \in 0..MaxFaults  BY FaultType DEF ObserveTask, Typed, TypeOK
<1>3. Subject' = Subject  BY SubjectStable DEF ObserveTask
<1>4. /\ partial' \in Definitions \cup {NotRead}
      /\ got' \in Observations \cup {NotRead, ReadError}
      /\ partial' # NotRead => Subject \in TaskPaths /\ partial' \in Definitions
  <2>1. Exists(Subject) => [world[Subject] EXCEPT !.sec = NoSec] \in Definitions
    BY ObservedType, EditRegistered DEF ObserveTask
  <2>2. QED  BY <2>1 DEF ObserveTask, Observing, Observations
<1>5. TypeOK'  BY <1>1, <1>2, <1>4 DEF ObserveTask, Typed, TypeOK
<1>6. Control'
  <2>1. Subject' \notin FolderPaths  BY <1>3, PathsAssumption DEF ObserveTask
  <2>2. partial' # NotRead => partial' \in Definitions  BY <1>4
  <2>3. pc \in Sites /\ pc' = pc  BY DEF ObserveTask, Observing
  <2>4. QED  BY <2>1, <2>2, <2>3 DEF ObserveTask, Observing, Typed, Control, Sites, InspectPcs, ChangePcs, UndoPcs
<1>7. QED  BY <1>5, <1>6 DEF Typed

LEMMA TypedObserveTaskSecurity == Typed /\ ObserveTaskSecurity => Typed'
<1> SUFFICES ASSUME Typed, ObserveTaskSecurity PROVE Typed'  OBVIOUS
<1> USE DEF inspection, reading, report, unobserved
<1>1. Planned' = Planned /\ UndoEntries' = UndoEntries  BY PlannedStable DEF ObserveTaskSecurity
<1>2. faults' \in 0..MaxFaults  BY FaultType DEF ObserveTaskSecurity, Typed, TypeOK
<1>3. partial \in Definitions
  BY DEF ObserveTaskSecurity, Observing, Typed, Control
<1>4. got' \in Observations \cup {ReadError}
  <2>1. Exists(Subject) => world[Subject].sec \in Secs \cup {NoSec}
    BY ObservedType DEF ObserveTaskSecurity, Definitions
  <2>2. Exists(Subject) => [partial EXCEPT !.sec = world[Subject].sec] \in Definitions
    BY <1>3, <2>1, EditRegistered
  <2>3. QED  BY <1>3, <2>2 DEF ObserveTaskSecurity, Observations
<1>5. TypeOK'  BY <1>1, <1>2, <1>4 DEF ObserveTaskSecurity, Typed, TypeOK
<1>6. Control'
  BY DEF ObserveTaskSecurity, Observing, Typed, Control, Sites, InspectPcs, ChangePcs, UndoPcs
<1>7. QED  BY <1>5, <1>6 DEF Typed

LEMMA TypedObserveFolder == Typed /\ ObserveFolder => Typed'
<1> SUFFICES ASSUME Typed, ObserveFolder PROVE Typed'  OBVIOUS
<1> USE DEF inspection, reading, report, unobserved
<1>1. Planned' = Planned /\ UndoEntries' = UndoEntries  BY PlannedStable DEF ObserveFolder
<1>2. faults' \in 0..MaxFaults  BY FaultType DEF ObserveFolder, Typed, TypeOK
<1>3. Subject' = Subject  BY SubjectStable DEF ObserveFolder
<1>4. /\ partial' \in {NoSec, NotRead}
      /\ got' \in Observations \cup {NotRead, ReadError}
  BY ObservedType DEF ObserveFolder, Observing, Observations
<1>5. TypeOK'  BY <1>1, <1>2, <1>4 DEF ObserveFolder, Typed, TypeOK
<1>6. Control'
  <2>1. Subject' \notin TaskPaths  BY <1>3, PathsAssumption DEF ObserveFolder
  <2>2. pc \in Sites /\ pc' = pc  BY DEF ObserveFolder, Observing
  <2>3. QED  BY <1>4, <2>1, <2>2 DEF ObserveFolder, Observing, Typed, Control, Sites, InspectPcs, ChangePcs, UndoPcs
<1>7. QED  BY <1>5, <1>6 DEF Typed

LEMMA TypedObserveFolderListing == Typed /\ ObserveFolderListing => Typed'
<1> SUFFICES ASSUME Typed, ObserveFolderListing PROVE Typed'  OBVIOUS
<1> USE DEF inspection, reading, report, unobserved
<1>1. Planned' = Planned /\ UndoEntries' = UndoEntries  BY PlannedStable DEF ObserveFolderListing
<1>2. faults' \in 0..MaxFaults  BY FaultType DEF ObserveFolderListing, Typed, TypeOK
<1>3. partial = NoSec
  BY DEF ObserveFolderListing, Observing, Typed, Control
<1>4. TypeOK'
  BY <1>1, <1>2, <1>3 DEF ObserveFolderListing, Typed, TypeOK, Observations
<1>5. Control'
  BY DEF ObserveFolderListing, Observing, Typed, Control, Sites, InspectPcs, ChangePcs, UndoPcs
<1>6. QED  BY <1>4, <1>5 DEF Typed

(* The loops over the plan stay inside it.                                   *)
LEMMA NextChangeType ==
    ASSUME Typed, index \in 1..Len(plan), NEW loop, NEW after, NextChange(loop, after)
    PROVE  \/ pc' = loop /\ index < Len(plan) /\ index' = index + 1 /\ index' \in 1..Len(plan)
           \/ pc' = after /\ index = Len(plan) /\ index' = 1 /\ index' \in 1..Len(plan)
<1>1. plan \in Seq(Planned)  BY DEF Typed, TypeOK
<1>2. Len(plan) \in Nat  BY <1>1
<1>3. QED  BY <1>2 DEF NextChange

LEMMA TypedPreflight == Typed /\ Preflight => Typed'
<1> SUFFICES ASSUME Typed, Preflight PROVE Typed'  OBVIOUS
<1> USE DEF inspection, reading, report
<1>1. Planned' = Planned /\ UndoEntries' = UndoEntries  BY PlannedStable DEF Preflight
<1>2. /\ index \in 1..Len(plan) /\ Len(expected) = index - 1 /\ partial = NotRead
      /\ plan \in Seq(Planned) /\ expected \in Seq(Observations)
  BY DEF Preflight, Typed, TypeOK, Control
<1>3. CASE got = ReadError
  <2>1. TypeOK'  BY <1>1, <1>3 DEF Preflight, Abort, Typed, TypeOK
  <2>2. Control'  BY <1>3 DEF Preflight, Abort, Typed, Control, InspectPcs, ChangePcs, UndoPcs, Sites
  <2>3. QED  BY <2>1, <2>2 DEF Typed
<1>4. CASE got # ReadError
  <2>1. got \in Observations  BY <1>4 DEF Preflight, Typed, TypeOK
  <2>2. expected' = Append(expected, got) /\ NextChange("preflight", "agree")
    BY <1>4 DEF Preflight
  <2>3. expected' \in Seq(Observations) /\ Len(expected') = index
    BY <1>2, <2>1, <2>2
  <2>4. \/ pc' = "preflight" /\ index < Len(plan) /\ index' = index + 1 /\ index' \in 1..Len(plan)
        \/ pc' = "agree" /\ index = Len(plan) /\ index' = 1 /\ index' \in 1..Len(plan)
    BY <1>2, <2>2, NextChangeType
  <2>5. TypeOK'  BY <1>1, <1>4, <2>3, <2>4 DEF Preflight, Typed, TypeOK, Sites
  <2>6. Control'
    BY <1>2, <1>4, <2>3, <2>4 DEF Preflight, Typed, Control, InspectPcs, ChangePcs, UndoPcs, Sites
  <2>7. QED  BY <2>5, <2>6 DEF Typed
<1>5. QED  BY <1>3, <1>4

LEMMA TypedAgree == Typed /\ Agree => Typed'
<1> SUFFICES ASSUME Typed, Agree PROVE Typed'  OBVIOUS
<1> USE DEF inspection, reading, report
<1>1. Planned' = Planned /\ UndoEntries' = UndoEntries  BY PlannedStable DEF Agree
<1>2. TypeOK'  BY <1>1 DEF Agree, Typed, TypeOK
<1>3. Control'  BY DEF Agree, Typed, Control, InspectPcs, ChangePcs, UndoPcs, Sites
<1>4. QED  BY <1>2, <1>3 DEF Typed

-----------------------------------------------------------------------------
(* Preparation.                                                              *)

Prepareds == [backups   : [TaskPaths -> Backups \cup {NoBackup}],
              enabled   : [TaskPaths -> BOOLEAN \cup {NoBackup}],
              security  : [Targets -> Secs \cup {NoBackup}],
              passwords : SUBSET TaskPaths]

(* A preparation step that ends with NextPrepared, aborts, or stays for the  *)
(* second call of a backup.                                                  *)
LEMMA PrepareStep ==
    ASSUME Typed, pc = "prepare", prepared' \in Prepareds, faults' \in 0..MaxFaults,
           UNCHANGED <<unprepared>>,
           \/ NextPrepared /\ partial' = NotRead
           \/ Abort /\ partial' = NotRead
           \/ UNCHANGED <<pc, index, result>> /\ partial' \in Backups /\ RestoresTask(plan[index])
    PROVE  Typed'
<1> USE DEF inspection, reading, report, unprepared
<1>1. Planned' = Planned /\ UndoEntries' = UndoEntries  BY PlannedStable
<1>2. index \in 1..Len(plan) /\ Len(expected) = Len(plan) /\ got = NotRead
  BY DEF Typed, Control, Sites
<1>3. /\ partial' \in {NotRead} \cup Backups
      /\ \/ pc' = "prepare" /\ index' \in 1..Len(plan) /\ index' \in Nat \ {0}
         \/ /\ pc' = "precondition" /\ index' \in 1..Len(plan) /\ index' \in Nat \ {0}
            /\ partial' = NotRead
         \/ pc' = "failed" /\ index' \in Nat \ {0} /\ partial' = NotRead
      /\ result' = result
  <2>1. CASE NextPrepared /\ partial' = NotRead
    BY <1>2, <2>1, NextChangeType DEF NextPrepared
  <2>2. CASE Abort /\ partial' = NotRead  BY <2>2 DEF Abort, Typed, TypeOK
  <2>3. CASE UNCHANGED <<pc, index, result>> /\ partial' \in Backups /\ RestoresTask(plan[index])
    BY <1>2, <2>3 DEF Typed, TypeOK, RestoresTask
  <2>4. QED  BY <2>1, <2>2, <2>3
<1>4. TypeOK'  BY <1>1, <1>3 DEF Typed, TypeOK, Prepareds, Sites
<1>5. Control'
  BY <1>2, <1>3 DEF Typed, Control, InspectPcs, ChangePcs, UndoPcs, Sites
<1>6. QED  BY <1>4, <1>5 DEF Typed

(* The change that is being prepared, and what its target's snapshot holds.  *)
LEMMA PreparingType ==
    ASSUME Typed, NEW kinds, Preparing(kinds)
    PROVE  /\ pc = "prepare" /\ prepared \in Prepareds /\ world \in World
           /\ plan[index] \in Planned /\ plan[index].kind \in kinds
           /\ faults \in 0..MaxFaults /\ job \in Jobs
           /\ partial # NotRead => partial \in Backups /\ RestoresTask(plan[index])
BY CurrentPlanned DEF Preparing, Typed, TypeOK, Control, Prepareds

LEMMA TypedPrepare == Typed /\ Prepare => Typed'
<1>1. ASSUME Typed, PrepareNothing PROVE Typed'
  <2>1. /\ pc = "prepare" /\ prepared' \in Prepareds /\ faults' \in 0..MaxFaults
        /\ partial' = NotRead
    BY <1>1, PreparingType DEF PrepareNothing, RestoresTask
  <2>2. QED  BY <1>1, <2>1, PrepareStep DEF PrepareNothing
<1>2. ASSUME Typed, PrepareCreate PROVE Typed'
  <2>1. /\ pc = "prepare" /\ faults' \in 0..MaxFaults /\ partial' = NotRead
    BY <1>2, PreparingType, FaultType DEF PrepareCreate, RestoresTask
  <2>2. plan[index].target \in TaskPaths
    BY <1>2, PreparingType, PlannedTargets DEF PrepareCreate, Typed
  <2>3. prepared' \in Prepareds
    BY <1>2, <2>2, PreparingType DEF PrepareCreate, Prepareds
  <2>4. QED  BY <1>2, <2>1, <2>3, PrepareStep DEF PrepareCreate
<1>3. ASSUME Typed, PrepareBackup PROVE Typed'
  <2> DEFINE t == plan[index].target
  <2>1. /\ pc = "prepare" /\ faults' \in 0..MaxFaults /\ partial = NotRead
        /\ RestoresTask(plan[index])
    BY <1>3, PreparingType, FaultType DEF PrepareBackup, RestoresTask, Reaches
  <2>2. t \in TaskPaths
    BY <1>3, PreparingType, PlannedTargets DEF PrepareBackup, Typed
  <2>3. prepared' \in Prepareds
    BY <1>3, <2>2, PreparingType DEF PrepareBackup, Prepareds
  <2>4. Exists(t) => world[t] \in Definitions
    BY <1>3, <2>2, PreparingType, WorldValues DEF PrepareBackup, Exists, Targets, Registered
  <2>5. NeedsRollbackPassword(t) \in BOOLEAN  BY DEF NeedsRollbackPassword
  <2>6. \/ Abort /\ partial' = NotRead
        \/ UNCHANGED <<pc, index, result>> /\ partial' \in Backups
    <3>1. Exists(t) => \A b \in BOOLEAN : [task |-> world[t], password |-> b] \in Backups
      BY <2>4 DEF Backups
    <3>2. \/ Abort /\ UNCHANGED partial
          \/ /\ UNCHANGED <<pc, index, result>> /\ Exists(t)
             /\ \E b \in BOOLEAN : partial' = [task |-> world[t], password |-> b]
      BY <1>3, <2>5 DEF PrepareBackup
    <3>3. QED  BY <2>1, <3>1, <3>2
  <2>7. UNCHANGED unprepared  BY <1>3 DEF PrepareBackup
  <2>8. QED  BY <1>3, <2>1, <2>3, <2>6, <2>7, PrepareStep
<1>4. ASSUME Typed, PrepareBackupSecurity PROVE Typed'
  <2> DEFINE t == plan[index].target
  <2>1. /\ pc = "prepare" /\ faults' \in 0..MaxFaults /\ partial' = NotRead /\ partial \in Backups
    BY <1>4, PreparingType, FaultType DEF PrepareBackupSecurity
  <2>2. t \in TaskPaths
    BY <1>4, PreparingType, PlannedTargets DEF PrepareBackupSecurity, Typed
  <2>3. Exists(t) => world[t].sec \in Secs
    BY <1>4, <2>2, PreparingType, WorldValues
    DEF PrepareBackupSecurity, Exists, Targets, Registered, Definitions
  <2>4. \A sec \in Secs \cup {NoSec} :
           [task |-> [partial.task EXCEPT !.sec = sec], password |-> partial.password] \in Backups
    BY <2>1, EditRegistered DEF Backups
  <2>5. prepared \in Prepareds  BY <1>4, PreparingType DEF PrepareBackupSecurity
  <2>6. \/ \E sec \in Secs \cup {NoSec} :
              /\ prepared' = [prepared EXCEPT !.backups[t] =
                      [task |-> [partial.task EXCEPT !.sec = sec], password |-> partial.password]]
              /\ NextPrepared
        \/ Abort /\ UNCHANGED prepared
    BY <1>4, <2>3 DEF PrepareBackupSecurity
  <2>7. prepared' \in Prepareds /\ (NextPrepared \/ Abort)
    <3>1. \A b \in Backups : [prepared EXCEPT !.backups[t] = b] \in Prepareds
      BY <2>2, <2>5 DEF Prepareds
    <3>2. QED  BY <2>4, <2>5, <2>6, <3>1
  <2>8. UNCHANGED unprepared  BY <1>4 DEF PrepareBackupSecurity
  <2>9. QED  BY <1>4, <2>1, <2>7, <2>8, PrepareStep, SMTT(30)
<1>5. ASSUME Typed, PrepareEnabled PROVE Typed'
  <2> DEFINE t == plan[index].target
  <2>1. /\ pc = "prepare" /\ faults' \in 0..MaxFaults /\ partial' = NotRead
    BY <1>5, PreparingType, FaultType DEF PrepareEnabled, RestoresTask
  <2>2. t \in TaskPaths
    BY <1>5, PreparingType, PlannedTargets DEF PrepareEnabled, Typed
  <2>3. Exists(t) => world[t].enabled \in BOOLEAN
    BY <1>5, <2>2, PreparingType, WorldValues
    DEF PrepareEnabled, Exists, Targets, Registered, Definitions
  <2>4. prepared' \in Prepareds /\ (NextPrepared \/ Abort)
    BY <1>5, <2>2, <2>3, PreparingType DEF PrepareEnabled, Prepareds
  <2>5. QED  BY <1>5, <2>1, <2>4, PrepareStep DEF PrepareEnabled
<1>6. ASSUME Typed, PrepareSecurity PROVE Typed'
  <2> DEFINE x == plan[index].target
             sec == IF x \in FolderPaths THEN world[x] ELSE world[x].sec
  <2>1. PICK kinds : Preparing(kinds) /\ kinds \in {{"SetTaskSecurity"}, {"SetFolderSecurity"}}
    BY <1>6 DEF PrepareSecurity
  <2>2. /\ pc = "prepare" /\ faults' \in 0..MaxFaults /\ partial' = NotRead
    BY <1>6, <2>1, PreparingType, FaultType DEF PrepareSecurity, RestoresTask
  <2>3. x \in Targets  BY <1>6, <2>1, PreparingType, PlannedTargets DEF Typed
  <2>4. Exists(x) => sec \in Secs
    BY <1>6, <2>1, <2>3, PreparingType, WorldValues DEF Exists, Targets, Registered, Definitions
  <2>5. prepared' \in Prepareds /\ (NextPrepared \/ Abort)
    BY <1>6, <2>1, <2>3, <2>4, PreparingType DEF PrepareSecurity, Prepareds
  <2>6. UNCHANGED unprepared  BY <1>6 DEF PrepareSecurity
  <2>7. QED  BY <1>6, <2>2, <2>5, <2>6, PrepareStep
<1>7. QED  BY <1>1, <1>2, <1>3, <1>4, <1>5, <1>6 DEF Prepare

-----------------------------------------------------------------------------
(* The main loop.                                                            *)

LEMMA TypedPrecondition == Typed /\ Precondition => Typed'
<1> SUFFICES ASSUME Typed, Precondition PROVE Typed'  OBVIOUS
<1> USE DEF inspection, reading, report
<1>1. Planned' = Planned /\ UndoEntries' = UndoEntries  BY PlannedStable DEF Precondition
<1>2. /\ Current = plan[index] /\ Current \in Planned /\ partial = NotRead
      /\ index \in 1..Len(plan) /\ Len(expected) = Len(plan)
  BY CurrentPlanned DEF Precondition, Typed, Control, ChangePcs
<1>3. prepared' \in Prepareds
  <2>1. prepared \in Prepareds  BY DEF Typed, TypeOK, Prepareds
  <2>2. Subject \in Targets  BY <1>2, PlannedTargets DEF Typed, Subject
  <2>3. QED  BY <2>1, <2>2 DEF Precondition, Prepareds
<1>4. TypeOK'  BY <1>1, <1>3 DEF Precondition, Compensate, Typed, TypeOK, Prepareds, Sites
<1>5. Control'
  BY <1>2 DEF Precondition, Compensate, Typed, Control, InspectPcs, ChangePcs, UndoPcs, Sites
<1>6. QED  BY <1>4, <1>5 DEF Typed

LEMMA TypedStop == Typed /\ Stop => Typed'
<1> SUFFICES ASSUME Typed, Stop PROVE Typed'  OBVIOUS
<1> USE DEF inspection, reading, report
<1>1. Planned' = Planned /\ UndoEntries' = UndoEntries  BY PlannedStable DEF Stop
<1>2. Subject \in TaskPaths
  <2>1. Current = plan[index] /\ Current \in Planned
    BY CurrentPlanned DEF Stop, ChangePcs
  <2>2. StopsInstances(Current)  BY <2>1 DEF Stop, Typed, Control
  <2>3. QED  BY <2>1, <2>2, PlannedTargets DEF StopsInstances, Subject, Typed
<1>3. irreversible' \in Seq(TaskPaths)  BY <1>2 DEF Stop, Typed, TypeOK
<1>4. faults' \in 0..MaxFaults
  <2>1. PICK o \in Outcomes(Exists(Subject)) : faults' = faults + o.cost  BY DEF Stop
  <2>2. o.cost \in {0, 1} /\ faults + o.cost <= job.faults  BY DEF Outcomes
  <2>3. job \in Jobs /\ faults \in 0..MaxFaults  BY DEF Typed, TypeOK
  <2>4. QED  BY <2>1, <2>2, <2>3, BoundsAssumption, JobsAssumption
<1>5. TypeOK'  BY <1>1, <1>3, <1>4 DEF Stop, Typed, TypeOK, Sites
<1>6. Control'
  BY DEF Stop, Typed, Control, InspectPcs, ChangePcs, UndoPcs, Sites
<1>7. QED  BY <1>5, <1>6 DEF Typed

(* A native call puts a value of the target's kind in place.                 *)
LEMMA DesiredType ==
    ASSUME Typed, NEW c \in Planned, Accepts(c)
    PROVE  /\ c.target \in TaskPaths => Desired(c) \in Registered \cup {Missing}
           /\ c.target \in TaskPaths /\ c.kind # "DeleteTask" => Desired(c) \in Registered
           /\ c.target \in FolderPaths => Desired(c) \in Secs \cup {Missing}
<1> DEFINE x == c.target
<1>1. /\ x \in Targets /\ c.kind \in Kinds /\ world \in World /\ prepared \in Prepareds
      /\ x \in FolderPaths <=> c.kind \in {"CreateFolder", "SetFolderSecurity"}
      /\ x \in FolderPaths <=> x \notin TaskPaths
  BY PlannedTargets, PathsAssumption DEF Typed, TypeOK, Targets, Prepareds
<1>2. CASE c.kind \in Registrations
  <2>1. /\ x \in TaskPaths /\ Manifest.tasks[x].content \in Contents
        /\ Manifest.tasks[x].enabled \in BOOLEAN /\ Manifest.tasks[x].sec \in Secs \cup {NoSec}
    BY <1>1, <1>2, PlannedTargets DEF Typed, Registrations
  <2> DEFINE want == OwnedDefinition(Manifest, x)
  <2>2. want \in Definitions /\ want.sec = Manifest.tasks[x].sec
    BY <2>1 DEF OwnedDefinition, Definitions
  <2>3. prepared.backups[x] # NoBackup => prepared.backups[x].task.sec \in Secs \cup {NoSec}
    BY <1>1, <2>1 DEF Prepareds, Backups, Definitions
  <2>4. \A s \in Secs \cup {NoSec} : [want EXCEPT !.sec = WithDefault(s)] \in Registered
    BY <2>2, EditRegistered, ValuesAssumption DEF WithDefault
  <2>5. RegisteredValue(c) \in Registered
    <3> HIDE DEF want
    <3>1. \E s \in Secs \cup {NoSec} : RegisteredValue(c) = [want EXCEPT !.sec = WithDefault(s)]
      BY <2>1, <2>2, <2>3 DEF RegisteredValue, want
    <3>2. QED  BY <2>4, <3>1
  <2>6. Desired(c) = RegisteredValue(c)  BY <1>2 DEF Desired, Registrations
  <2>7. QED  BY <1>1, <2>1, <2>5, <2>6
<1>3. CASE c.kind = "SetEnabled"
  <2>1. x \in TaskPaths /\ Exists(x) /\ Manifest.tasks[x].enabled \in BOOLEAN
    BY <1>1, <1>3, PlannedTargets DEF Typed, Accepts, Registrations
  <2>2. world[x] \in Registered /\ world[x] \in Definitions
    BY <1>1, <2>1, WorldValues DEF Exists, Registered
  <2>3. Desired(c) = [world[x] EXCEPT !.enabled = Manifest.tasks[x].enabled]
    BY <1>3 DEF Desired, Registrations
  <2>4. QED  BY <1>1, <2>1, <2>2, <2>3, EditRegistered
<1>4. CASE c.kind = "SetTaskSecurity"
  <2>1. x \in TaskPaths /\ Exists(x) /\ Manifest.tasks[x].sec \in Secs
    BY <1>1, <1>4, PlannedTargets DEF Typed, Accepts, Registrations
  <2>2. world[x] \in Definitions  BY <1>1, <2>1, WorldValues DEF Exists, Registered
  <2>3. Desired(c) = [world[x] EXCEPT !.sec = Manifest.tasks[x].sec]
    BY <1>4 DEF Desired, Registrations
  <2>4. QED  BY <1>1, <2>1, <2>2, <2>3, EditRegistered
<1>5. CASE c.kind = "DeleteTask"
  <2>1. Desired(c) = Missing  BY <1>5 DEF Desired, Registrations
  <2>2. QED  BY <1>1, <1>5, <2>1
<1>6. CASE c.kind = "CreateFolder"
  <2>1. Desired(c) = DefaultSec  BY <1>6 DEF Desired, Registrations
  <2>2. QED  BY <1>1, <1>6, <2>1, ValuesAssumption
<1>7. CASE c.kind = "SetFolderSecurity"
  BY <1>1, <1>7, PlannedTargets DEF Desired, Registrations, Typed
<1>8. QED  BY <1>1, <1>2, <1>3, <1>4, <1>5, <1>6, <1>7 DEF Kinds, Registrations

LEMMA TypedMutate == Typed /\ Mutate => Typed'
<1> SUFFICES ASSUME Typed, Mutate PROVE Typed'  OBVIOUS
<1> USE DEF inspection, reading, report
<1>1. Planned' = Planned /\ UndoEntries' = UndoEntries  BY PlannedStable DEF Mutate
<1>2. Current = plan[index] /\ Current \in Planned /\ Subject \in Targets
  BY CurrentPlanned, PlannedTargets DEF Mutate, ChangePcs, Subject, Typed
<1>3. world' \in World /\ faults' \in 0..MaxFaults
  <2>1. PICK o \in Outcomes(Accepts(Current)) : Effect(Subject, o, Desired(Current))
    BY DEF Mutate
  <2>2. o.took => Accepts(Current)  BY <2>1 DEF Outcomes
  <2>3. world \in World /\ faults \in 0..MaxFaults /\ job \in Jobs  BY DEF Typed, TypeOK
  <2>4. /\ o.took /\ Subject \in TaskPaths => Desired(Current) \in Registered \cup {Missing}
        /\ o.took /\ Subject \in FolderPaths => Desired(Current) \in Secs \cup {Missing}
    BY <1>2, <2>2, DesiredType DEF Subject
  <2>5. QED  BY <1>2, <2>1, <2>3, <2>4, EffectType
<1>4. prepared' \in Prepareds  BY DEF Mutate, Typed, TypeOK, Prepareds
<1>5. result' \in {"ok", "err"} /\ pc' \in {"read_back", "verify"}  BY DEF Mutate
<1>6. TypeOK'  BY <1>1, <1>3, <1>4, <1>5 DEF Mutate, Typed, TypeOK, Prepareds, Sites
<1>7. Control'
  BY <1>5 DEF Mutate, Typed, Control, InspectPcs, ChangePcs, UndoPcs, Sites
<1>8. QED  BY <1>6, <1>7 DEF Typed

LEMMA TypedReadBack == Typed /\ ReadBack => Typed'
<1> SUFFICES ASSUME Typed, ReadBack PROVE Typed'  OBVIOUS
<1> USE DEF inspection, reading, report
<1>1. Planned' = Planned /\ UndoEntries' = UndoEntries  BY PlannedStable DEF ReadBack
<1>2. faults' \in 0..MaxFaults  BY FaultType DEF ReadBack, Typed, TypeOK
<1>3. TypeOK'  BY <1>1, <1>2 DEF ReadBack, Typed, TypeOK, Sites
<1>4. Control'
  BY DEF ReadBack, Typed, Control, InspectPcs, ChangePcs, UndoPcs, Sites
<1>5. QED  BY <1>3, <1>4 DEF Typed

LEMMA TypedVerifyAcl == Typed /\ VerifyAcl => Typed'
<1> SUFFICES ASSUME Typed, VerifyAcl PROVE Typed'  OBVIOUS
<1> USE DEF inspection, reading, report
<1>1. Planned' = Planned /\ UndoEntries' = UndoEntries  BY PlannedStable DEF VerifyAcl
<1>2. faults' \in 0..MaxFaults  BY FaultType DEF VerifyAcl, Typed, TypeOK
<1>3. acl' \in BOOLEAN  BY DEF VerifyAcl
<1>4. TypeOK'  BY <1>1, <1>2, <1>3 DEF VerifyAcl, Typed, TypeOK, Sites
<1>5. Control'
  BY DEF VerifyAcl, Typed, Control, InspectPcs, ChangePcs, UndoPcs, Sites
<1>6. QED  BY <1>4, <1>5 DEF Typed

(* The outcome of a change: it had no effect, it took effect, or nobody can  *)
(* tell; then apply goes on, succeeds or compensates.                        *)
LEMMA VerifyCases ==
    ASSUME Typed, Verify
    PROVE  /\ index \in 1..Len(plan) /\ Current = plan[index] /\ Current \in Planned
           /\ \/ UNCHANGED <<applied, undo, expected, unresolved>> /\ pc' = "undo_check"
              \/ /\ got \in Observations /\ UNCHANGED unresolved /\ TookEffect
                 /\ applied' = Append(applied, Current)
                 /\ undo' = Append(undo, [change |-> Current, before |-> expected[index],
                                          after |-> got])
                 /\ expected' \in Seq(Observations) /\ Len(expected') = Len(plan)
              \/ /\ unresolved' = Append(unresolved, Current) /\ ~TookEffect
                 /\ UNCHANGED <<applied, undo, expected>>
           /\ \/ pc' = "undo_check" /\ UNCHANGED index
              \/ /\ pc' = "precondition" /\ index < Len(plan) /\ index' = index + 1
                 /\ index' \in 1..Len(plan) /\ TookEffect
              \/ pc' = "succeeded" /\ index = Len(plan) /\ index' = 1 /\ TookEffect
<1>1. index \in 1..Len(plan) /\ Current = plan[index] /\ Current \in Planned
  BY CurrentPlanned DEF Verify, Typed, Control, ChangePcs
<1>2. ASSUME expected' = [i \in 1..Len(plan) |->
                            IF i > index /\ SameTarget(plan[i], Current) THEN got ELSE expected[i]],
             got \in Observations
      PROVE  expected' \in Seq(Observations) /\ Len(expected') = Len(plan)
  <2>1. expected \in Seq(Observations) /\ plan \in Seq(Planned) /\ Len(expected) = Len(plan)
    BY DEF Verify, Typed, TypeOK, Control, ChangePcs
  <2>2. expected' \in [1..Len(plan) -> Observations]  BY <1>2, <2>1
  <2>3. Len(plan) \in Nat  BY <2>1
  <2>4. QED  BY <2>2, <2>3
<1>3. TookEffect => got \in Observations
  BY DEF Verify, TookEffect, Typed, TypeOK
<1>4. \/ UNCHANGED <<applied, undo, expected, unresolved>> /\ pc' = "undo_check"
      \/ /\ TookEffect /\ UNCHANGED unresolved
         /\ applied' = Append(applied, Current)
         /\ undo' = Append(undo, [change |-> Current, before |-> expected[index], after |-> got])
         /\ expected' = [i \in 1..Len(plan) |->
                            IF i > index /\ SameTarget(plan[i], Current) THEN got ELSE expected[i]]
      \/ /\ unresolved' = Append(unresolved, Current) /\ ~TookEffect
         /\ UNCHANGED <<applied, undo, expected>>
  BY DEF Verify, UntouchedByFailure, Failing, Compensate
<1>5. \/ pc' = "undo_check" /\ UNCHANGED index
      \/ TookEffect /\ NextChange("precondition", "succeeded")
  BY DEF Verify, Failing, Compensate
<1>6. QED  BY <1>1, <1>2, <1>3, <1>4, <1>5, NextChangeType

LEMMA TypedVerify == Typed /\ Verify => Typed'
<1> SUFFICES ASSUME Typed, Verify PROVE Typed'  OBVIOUS
<1> USE DEF inspection, reading, report
<1>1. Planned' = Planned /\ UndoEntries' = UndoEntries  BY PlannedStable DEF Verify
<1>2. /\ expected \in Seq(Observations) /\ plan \in Seq(Planned) /\ Len(expected) = Len(plan)
      /\ index \in 1..Len(plan) /\ Current = plan[index] /\ Current \in Planned
  BY VerifyCases DEF Verify, Typed, TypeOK, Control, ChangePcs
<1>3. /\ expected' \in Seq(Observations) /\ Len(expected') = Len(plan)
      /\ applied' \in Seq(Planned) /\ undo' \in Seq(UndoEntries) /\ unresolved' \in Seq(Planned)
  <2>1. applied \in Seq(Planned) /\ undo \in Seq(UndoEntries) /\ unresolved \in Seq(Planned)
    BY DEF Typed, TypeOK
  <2>2. expected[index] \in Observations  BY <1>2
  <2>3. got \in Observations =>
           [change |-> Current, before |-> expected[index], after |-> got] \in UndoEntries
    BY <1>2, <2>2 DEF UndoEntries
  <2>4. CASE UNCHANGED <<applied, undo, expected, unresolved>>  BY <1>2, <2>1, <2>4
  <2>5. CASE /\ got \in Observations /\ UNCHANGED unresolved
             /\ applied' = Append(applied, Current)
             /\ undo' = Append(undo, [change |-> Current, before |-> expected[index],
                                      after |-> got])
             /\ expected' \in Seq(Observations) /\ Len(expected') = Len(plan)
    BY <1>2, <2>1, <2>3, <2>5
  <2>6. CASE /\ unresolved' = Append(unresolved, Current)
             /\ UNCHANGED <<applied, undo, expected>>
    BY <1>2, <2>1, <2>6
  <2>7. QED  BY <2>4, <2>5, <2>6, VerifyCases
<1>4. /\ index' \in Nat \ {0}
      /\ pc' \in {"undo_check", "precondition", "succeeded"}
      /\ pc' = "precondition" => index' \in 1..Len(plan)
  BY <1>2, VerifyCases
<1>5. TypeOK'  BY <1>1, <1>3, <1>4 DEF Verify, Typed, TypeOK, Sites
<1>6. Control'
  BY <1>3, <1>4 DEF Verify, Typed, Control, InspectPcs, ChangePcs, UndoPcs, Sites
<1>7. QED  BY <1>5, <1>6 DEF Typed

-----------------------------------------------------------------------------
(* Compensation.                                                             *)

LEMMA EndUndoType ==
    ASSUME Typed, job' = job, undo # <<>>, LastUndo.change \in Planned,
           NEW restored \in BOOLEAN, EndUndo(restored)
    PROVE  /\ undo' \in Seq(UndoEntries) /\ rolledBack' \in Seq(Planned)
           /\ rollbackFailures' \in Seq(Planned) /\ unresolved' \in Seq(Planned)
           /\ applied' = applied /\ pc' = "undo_check"
<1>1. /\ undo \in Seq(UndoEntries) /\ rolledBack \in Seq(Planned)
      /\ rollbackFailures \in Seq(Planned) /\ unresolved \in Seq(Planned)
  BY DEF Typed, TypeOK
<1>2. undo' \in Seq(UndoEntries)
  <2>1. undo' = SubSeq(undo, 1, Len(undo) - 1)  BY DEF EndUndo
  <2>2. QED  BY <1>1, <2>1
<1>3. /\ UNCHANGED applied /\ pc' = "undo_check"
      /\ \/ /\ rolledBack' = Append(rolledBack, LastUndo.change)
            /\ UNCHANGED <<rollbackFailures, unresolved>>
         \/ /\ rollbackFailures' = Append(rollbackFailures, LastUndo.change)
            /\ unresolved' = Append(unresolved, LastUndo.change)
            /\ UNCHANGED rolledBack
  BY Zenon DEF EndUndo
<1>4. /\ Append(rolledBack, LastUndo.change) \in Seq(Planned)
      /\ Append(rollbackFailures, LastUndo.change) \in Seq(Planned)
      /\ Append(unresolved, LastUndo.change) \in Seq(Planned)
  BY <1>1
<1>5. QED  BY <1>1, <1>2, <1>3, <1>4, Zenon

LEMMA TypedAllUndone == Typed /\ AllUndone => Typed'
<1> SUFFICES ASSUME Typed, AllUndone PROVE Typed'  OBVIOUS
<1> USE DEF inspection, reading, report, unchangedByUndo
<1>1. Planned' = Planned /\ UndoEntries' = UndoEntries  BY PlannedStable DEF AllUndone
<1>2. partial = NotRead /\ got = NotRead
  BY DEF AllUndone, Typed, Control, Sites
<1>3. TypeOK'  BY <1>1 DEF AllUndone, Typed, TypeOK, Sites
<1>4. Control'
  BY <1>2 DEF AllUndone, Typed, Control, InspectPcs, ChangePcs, UndoPcs, Sites
<1>5. QED  BY <1>3, <1>4 DEF Typed

(* What a step of compensation has to leave behind.                          *)
LEMMA UndoStep ==
    ASSUME Typed, pc \in UndoPcs, undo # <<>>, UNCHANGED unchangedByUndo,
           world' \in World, faults' \in 0..MaxFaults, prepared' \in Prepareds,
           irreversible' \in Seq(TaskPaths), result' \in {"none", "ok", "err"}, got' = NotRead,
           \/ (\E restored \in BOOLEAN : EndUndo(restored)) /\ partial' = NotRead
           \/ /\ UndoUnchanged /\ pc' \in {"undo_stop", "undo_mutate", "undo_confirm"}
              /\ partial' = NotRead
           \/ /\ UndoUnchanged /\ pc' \in {"undo_enabled", "undo_security"}
              /\ partial' \in Backups /\ RestoresTask(LastUndo.change)
    PROVE  Typed'
<1> USE DEF inspection, reading, report, unchangedByUndo
<1>1. Planned' = Planned /\ UndoEntries' = UndoEntries  BY PlannedStable
<1>2. /\ undo' \in Seq(UndoEntries) /\ applied' \in Seq(Planned) /\ rolledBack' \in Seq(Planned)
      /\ rollbackFailures' \in Seq(Planned) /\ unresolved' \in Seq(Planned)
      /\ pc' \in UndoPcs /\ partial' \in {NotRead} \cup Backups
      /\ pc' \in UndoPcs \ {"undo_check"} => UNCHANGED undo
      /\ pc' \in {"undo_enabled", "undo_security"} =>
            partial' \in Backups /\ RestoresTask(LastUndo.change)'
      /\ pc' \notin {"undo_enabled", "undo_security"} => partial' = NotRead
  <2>1. LastUndo.change \in Planned  BY CurrentPlanned
  <2>2. CASE \E restored \in BOOLEAN : EndUndo(restored) /\ partial' = NotRead
    <3>1. PICK restored \in BOOLEAN : EndUndo(restored) /\ partial' = NotRead  BY <2>2
    <3>2. QED  BY <2>1, <3>1, EndUndoType DEF UndoPcs, Typed, TypeOK
  <2>3. CASE /\ UndoUnchanged /\ pc' \in {"undo_stop", "undo_mutate", "undo_confirm"}
             /\ partial' = NotRead
    BY <2>3 DEF UndoUnchanged, UndoPcs, Typed, TypeOK
  <2>4. CASE /\ UndoUnchanged /\ pc' \in {"undo_enabled", "undo_security"}
             /\ partial' \in Backups /\ RestoresTask(LastUndo.change)
    <3>1. RestoresTask(LastUndo.change)'
      BY <2>4 DEF UndoUnchanged, RestoresTask, LastUndo
    <3>2. QED  BY <2>4, <3>1 DEF UndoUnchanged, UndoPcs, Typed, TypeOK
  <2>5. QED  BY <2>2, <2>3, <2>4
<1>3. TypeOK'  BY <1>1, <1>2 DEF Typed, TypeOK, Prepareds, UndoPcs, Sites
<1>4. Control'
  BY <1>2 DEF Typed, Control, InspectPcs, ChangePcs, UndoPcs, Sites
<1>5. QED  BY <1>3, <1>4 DEF Typed

LEMMA TypedUndoCheck == Typed /\ UndoCheck => Typed'
<1> SUFFICES ASSUME Typed, UndoCheck PROVE Typed'  OBVIOUS
<1>1. /\ pc \in UndoPcs /\ undo # <<>> /\ LastUndo.change \in Planned /\ partial = NotRead
      /\ prepared \in Prepareds /\ world \in World /\ faults \in 0..MaxFaults /\ job \in Jobs
      /\ irreversible \in Seq(TaskPaths) /\ result \in {"none", "ok", "err"}
  BY CurrentPlanned DEF UndoCheck, UndoPcs, Typed, TypeOK, Control, Prepareds
<1>2. irreversible' \in Seq(TaskPaths)
  <2>1. LastUndo.change.kind = "CreateTask" => LastUndo.change.target \in TaskPaths
    BY <1>1, PlannedTargets DEF Typed
  <2>2. \/ UNCHANGED irreversible
        \/ /\ LastUndo.change.kind = "CreateTask"
           /\ irreversible' = Append(irreversible, LastUndo.change.target)
    BY Zenon DEF UndoCheck
  <2>3. QED  BY <1>1, <2>1, <2>2
<1>3. \/ EndUndo(FALSE)
      \/ UndoUnchanged /\ pc' \in {"undo_stop", "undo_mutate"}
  BY DEF UndoCheck
<1>4. /\ UNCHANGED <<unchangedByUndo, world, prepared, partial, result, faults>>
      /\ got' = NotRead
  BY DEF UndoCheck
<1>5. QED  BY <1>1, <1>2, <1>3, <1>4, UndoStep

LEMMA TypedUndoStop == Typed /\ UndoStop => Typed'
<1> SUFFICES ASSUME Typed, UndoStop PROVE Typed'  OBVIOUS
<1>1. /\ pc \in UndoPcs /\ undo # <<>> /\ partial = NotRead /\ got = NotRead
      /\ prepared \in Prepareds /\ world \in World /\ faults \in 0..MaxFaults /\ job \in Jobs
      /\ irreversible \in Seq(TaskPaths) /\ result \in {"none", "ok", "err"}
  BY DEF UndoStop, UndoPcs, Typed, TypeOK, Control, Prepareds, Sites
<1>2. faults' \in 0..MaxFaults
  BY BoundsAssumption, JobsAssumption, <1>1, SMTT(30) DEF UndoStop, Outcomes
<1>3. \/ EndUndo(FALSE)
      \/ UndoUnchanged /\ pc' \in {"undo_stop", "undo_mutate"}
  BY DEF UndoStop
<1>4. UNCHANGED <<unchangedByUndo, world, prepared, partial, got, result, irreversible>>
  BY DEF UndoStop
<1>5. QED  BY <1>1, <1>2, <1>3, <1>4, UndoStep

LEMMA TypedUndoConfirm == Typed /\ UndoConfirm => Typed'
<1> SUFFICES ASSUME Typed, UndoConfirm PROVE Typed'  OBVIOUS
<1>1. /\ pc \in UndoPcs /\ undo # <<>> /\ partial = NotRead
      /\ prepared \in Prepareds /\ world \in World /\ faults \in 0..MaxFaults /\ job \in Jobs
      /\ irreversible \in Seq(TaskPaths) /\ result \in {"none", "ok", "err"}
  BY DEF UndoConfirm, UndoPcs, Typed, TypeOK, Control, Prepareds
<1>2. \E restored \in BOOLEAN : EndUndo(restored)
  <2>1. (got = LastUndo.before) \in BOOLEAN  OBVIOUS
  <2>2. QED  BY <2>1 DEF UndoConfirm
<1>3. /\ UNCHANGED <<unchangedByUndo, world, prepared, partial, result, irreversible, faults>>
      /\ got' = NotRead
  BY DEF UndoConfirm
<1>4. QED  BY <1>1, <1>2, <1>3, UndoStep

(* The state that a compensating call restores is of the target's kind.      *)
LEMMA UndoneType ==
    ASSUME Typed, NEW c \in Planned, CanUndo(c), HasSnapshot(c)
    PROVE  /\ c.target \in TaskPaths => UndoneValue(c) \in Registered \cup {Missing}
           /\ c.target \in FolderPaths => UndoneValue(c) \in Secs \cup {Missing}
           /\ RestoresTask(c) => prepared.backups[c.target] \in Backups
<1> DEFINE x == c.target
<1>1. /\ x \in Targets /\ c.kind \in Kinds /\ world \in World /\ prepared \in Prepareds
      /\ x \in FolderPaths <=> c.kind \in {"CreateFolder", "SetFolderSecurity"}
      /\ x \in FolderPaths <=> x \notin TaskPaths
  BY PlannedTargets, PathsAssumption DEF Typed, TypeOK, Targets, Prepareds
<1>2. CASE c.kind \in {"CreateFolder", "CreateTask"}
  <2>1. UndoneValue(c) = Missing  BY <1>2 DEF UndoneValue
  <2>2. QED  BY <1>2, <2>1 DEF RestoresTask
<1>3. CASE c.kind \in {"UpdateTask", "AdoptTask", "DeleteTask"}
  <2>1. x \in TaskPaths  BY <1>1, <1>3
  <2>2. prepared.backups[x] # NoBackup  BY <1>3 DEF HasSnapshot
  <2>3. prepared.backups[x] \in Backups  BY <1>1, <2>1, <2>2 DEF Prepareds
  <2>4. prepared.backups[x].task \in Definitions  BY <2>3 DEF Backups
  <2>5. UndoneValue(c) = [prepared.backups[x].task EXCEPT !.sec = DefaultSec]
    BY <1>3 DEF UndoneValue
  <2>6. UndoneValue(c) \in Registered  BY <2>4, <2>5, EditRegistered, ValuesAssumption
  <2>7. QED  BY <1>1, <2>1, <2>3, <2>6
<1>4. CASE c.kind = "SetEnabled"
  <2>1. x \in TaskPaths /\ Exists(x) /\ prepared.enabled[x] # NoBackup
    BY <1>1, <1>4 DEF CanUndo, HasSnapshot
  <2>2. world[x] \in Registered /\ world[x] \in Definitions
    BY <1>1, <2>1, WorldValues DEF Exists, Registered
  <2>3. prepared.enabled[x] \in BOOLEAN  BY <1>1, <2>1 DEF Prepareds
  <2>4. UndoneValue(c) = [world[x] EXCEPT !.enabled = prepared.enabled[x]]
    BY <1>4 DEF UndoneValue
  <2>5. QED  BY <1>1, <1>4, <2>1, <2>2, <2>3, <2>4, EditRegistered DEF RestoresTask
<1>5. CASE c.kind = "SetTaskSecurity"
  <2>1. x \in TaskPaths /\ Exists(x) /\ prepared.security[x] # NoBackup
    BY <1>1, <1>5 DEF CanUndo, HasSnapshot
  <2>2. world[x] \in Definitions  BY <1>1, <2>1, WorldValues DEF Exists, Registered
  <2>3. prepared.security[x] \in Secs  BY <1>1, <2>1 DEF Prepareds
  <2>4. UndoneValue(c) = [world[x] EXCEPT !.sec = prepared.security[x]]
    BY <1>5 DEF UndoneValue
  <2>5. QED  BY <1>1, <1>5, <2>1, <2>2, <2>3, <2>4, EditRegistered DEF RestoresTask
<1>6. CASE c.kind = "SetFolderSecurity"
  <2>1. prepared.security[x] # NoBackup  BY <1>6 DEF HasSnapshot
  <2>2. prepared.security[x] \in Secs  BY <1>1, <2>1 DEF Prepareds
  <2>3. UndoneValue(c) = prepared.security[x]  BY <1>6 DEF UndoneValue
  <2>4. QED  BY <1>1, <1>6, <2>2, <2>3 DEF RestoresTask
<1>7. QED  BY <1>1, <1>2, <1>3, <1>4, <1>5, <1>6 DEF Kinds

LEMMA TypedUndoMutate == Typed /\ UndoMutate => Typed'
<1> SUFFICES ASSUME Typed, UndoMutate PROVE Typed'  OBVIOUS
<1> DEFINE c == LastUndo.change
<1>1. /\ pc \in UndoPcs /\ undo # <<>> /\ c \in Planned /\ partial = NotRead /\ got = NotRead
      /\ prepared \in Prepareds /\ world \in World /\ faults \in 0..MaxFaults /\ job \in Jobs
      /\ irreversible \in Seq(TaskPaths) /\ result \in {"none", "ok", "err"}
  BY CurrentPlanned DEF UndoMutate, UndoPcs, Typed, TypeOK, Control, Prepareds, Sites
<1>2. prepared' \in Prepareds  BY <1>1 DEF UndoMutate, TakeSnapshot, Prepareds
<1>3. CASE ~HasSnapshot(c)
  <2>1. EndUndo(FALSE) /\ UNCHANGED <<world, faults, partial>>
    BY <1>3 DEF UndoMutate
  <2>2. UNCHANGED <<unchangedByUndo, got, result, irreversible>>  BY DEF UndoMutate
  <2>3. QED  BY <1>1, <1>2, <2>1, <2>2, UndoStep
<1>4. CASE HasSnapshot(c)
  <2> HIDE DEF c
  <2>1. PICK o \in Outcomes(CanUndo(c)) :
           /\ Effect(c.target, o, UndoneValue(c))
           /\ IF o.ok
              THEN /\ pc' = IF RestoresTask(c) THEN "undo_enabled" ELSE "undo_confirm"
                   /\ partial' = IF RestoresTask(c) THEN prepared.backups[c.target] ELSE partial
                   /\ UndoUnchanged
              ELSE EndUndo(FALSE) /\ UNCHANGED partial
    BY <1>4 DEF UndoMutate, c
  <2>2. o.took => CanUndo(c)  BY <2>1 DEF Outcomes
  <2>3. o.ok \in BOOLEAN /\ (o.ok => o.took)  BY <2>1 DEF Outcomes
  <2>4. world' \in World /\ faults' \in 0..MaxFaults
    <3>1. c.target \in Targets  BY <1>1, PlannedTargets DEF Typed
    <3>2. /\ o.took /\ c.target \in TaskPaths => UndoneValue(c) \in Registered \cup {Missing}
          /\ o.took /\ c.target \in FolderPaths => UndoneValue(c) \in Secs \cup {Missing}
      BY <1>1, <1>4, <2>2, UndoneType
    <3>3. QED  BY <1>1, <2>1, <3>1, <3>2, EffectType
  <2>5. \/ EndUndo(FALSE) /\ UNCHANGED partial
        \/ /\ ~RestoresTask(c) /\ UndoUnchanged /\ pc' = "undo_confirm" /\ UNCHANGED partial
        \/ /\ RestoresTask(c) /\ UndoUnchanged /\ pc' = "undo_enabled"
           /\ partial' = prepared.backups[c.target] /\ partial' \in Backups
    BY <1>1, <1>4, <2>1, <2>2, <2>3, UndoneType
  <2>6. UNCHANGED <<unchangedByUndo, got, result, irreversible>>  BY DEF UndoMutate
  <2>7. QED  BY <1>1, <1>2, <2>4, <2>5, <2>6, UndoStep DEF c
<1>5. QED  BY <1>3, <1>4

LEMMA TypedUndoEnabled == Typed /\ UndoEnabled => Typed'
<1> SUFFICES ASSUME Typed, UndoEnabled PROVE Typed'  OBVIOUS
<1> DEFINE t == LastUndo.change.target
<1>1. /\ pc \in UndoPcs /\ undo # <<>> /\ LastUndo.change \in Planned /\ got = NotRead
      /\ partial \in Backups /\ RestoresTask(LastUndo.change)
      /\ prepared \in Prepareds /\ world \in World /\ faults \in 0..MaxFaults /\ job \in Jobs
      /\ irreversible \in Seq(TaskPaths)
  BY CurrentPlanned DEF UndoEnabled, UndoPcs, Typed, TypeOK, Control, Prepareds, Sites
<1>2. t \in TaskPaths /\ t \notin FolderPaths /\ t \in Targets
  BY <1>1, PlannedTargets, PathsAssumption DEF RestoresTask, Typed, Targets
<1>3. PICK o \in Outcomes(Exists(t)) :
         /\ Effect(t, o, [world[t] EXCEPT !.enabled = partial.task.enabled])
         /\ result' = IF o.ok THEN "ok" ELSE "err"
  BY DEF UndoEnabled
<1>4. o.took => [world[t] EXCEPT !.enabled = partial.task.enabled] \in Registered
  <2>1. o.took => world[t] \in Registered /\ world[t] \in Definitions
    BY <1>1, <1>2, <1>3, WorldValues DEF Outcomes, Exists, Registered
  <2>2. partial.task.enabled \in BOOLEAN  BY <1>1 DEF Backups, Definitions
  <2>3. QED  BY <2>1, <2>2, EditRegistered
<1>5. world' \in World /\ faults' \in 0..MaxFaults
  BY <1>1, <1>2, <1>3, <1>4, EffectType
<1>6. result' \in {"none", "ok", "err"}  BY <1>3
<1>7. /\ UNCHANGED <<unchangedByUndo, prepared, partial, got, irreversible>>
      /\ UndoUnchanged /\ pc' = "undo_security"
  BY DEF UndoEnabled, UndoUnchanged
<1>8. QED  BY <1>1, <1>5, <1>6, <1>7, UndoStep

LEMMA TypedUndoSecurity == Typed /\ UndoSecurity => Typed'
<1> SUFFICES ASSUME Typed, UndoSecurity PROVE Typed'  OBVIOUS
<1> DEFINE t == LastUndo.change.target
           sec == partial.task.sec
<1>1. /\ pc \in UndoPcs /\ undo # <<>> /\ LastUndo.change \in Planned /\ got = NotRead
      /\ partial \in Backups /\ RestoresTask(LastUndo.change)
      /\ prepared \in Prepareds /\ world \in World /\ faults \in 0..MaxFaults /\ job \in Jobs
      /\ irreversible \in Seq(TaskPaths) /\ result \in {"none", "ok", "err"}
  BY CurrentPlanned DEF UndoSecurity, UndoPcs, Typed, TypeOK, Control, Prepareds, Sites
<1>2. t \in TaskPaths /\ t \notin FolderPaths /\ t \in Targets
  BY <1>1, PlannedTargets, PathsAssumption DEF RestoresTask, Typed, Targets
<1>3. world' \in World /\ faults' \in 0..MaxFaults
  <2>1. CASE UNCHANGED <<world, faults>>  BY <1>1, <2>1
  <2>2. ASSUME sec # NoSec, NEW o \in Outcomes(Exists(t)), Effect(t, o, [world[t] EXCEPT !.sec = sec])
        PROVE  world' \in World /\ faults' \in 0..MaxFaults
    <3>1. o.took => world[t] \in Definitions
      BY <1>1, <1>2, WorldValues DEF Outcomes, Exists, Registered
    <3>2. sec \in Secs  BY <1>1, <2>2 DEF Backups, Definitions
    <3>3. o.took => [world[t] EXCEPT !.sec = sec] \in Registered
      BY <3>1, <3>2, EditRegistered
    <3>4. QED  BY <1>1, <1>2, <2>2, <3>3, EffectType
  <2>3. QED  BY <2>1, <2>2 DEF UndoSecurity
<1>4. EndUndo(FALSE) \/ (pc' = "undo_confirm" /\ UndoUnchanged)
  BY DEF UndoSecurity
<1>5. /\ UNCHANGED <<unchangedByUndo, prepared, got, result, irreversible>>
      /\ partial' = NotRead
  BY DEF UndoSecurity
<1>6. QED  BY <1>1, <1>3, <1>4, <1>5, UndoStep

-----------------------------------------------------------------------------
(* The other writer.                                                         *)

LEMMA TypedForeignWrite == Typed /\ ForeignWrite => Typed'
<1> SUFFICES ASSUME Typed, ForeignWrite PROVE Typed'  OBVIOUS
<1> USE DEF inspection, reading, report
<1>1. Planned' = Planned /\ UndoEntries' = UndoEntries  BY PlannedStable DEF ForeignWrite
<1>2. foreign' \in 0..MaxForeign
  <2>1. foreign < job.others /\ foreign' = foreign + 1  BY DEF ForeignWrite
  <2>2. job \in Jobs /\ foreign \in 0..MaxForeign  BY DEF Typed, TypeOK
  <2>3. QED  BY <2>1, <2>2, BoundsAssumption, JobsAssumption, SMTT(30)
<1>3. world' \in World
  <2>1. PICK x \in Targets : \E v \in ForeignValue(x) \ {world[x]} :
           world' = [world EXCEPT ![x] = v]
    BY DEF ForeignWrite
  <2>2. PICK v \in ForeignValue(x) : world' = [world EXCEPT ![x] = v]  BY <2>1
  <2>3. /\ x \in TaskPaths => v \in Registered \cup {Missing} /\ x \notin FolderPaths
        /\ x \notin TaskPaths => v \in Secs \cup {Missing}
    BY <2>2, BoundsAssumption, PathsAssumption DEF ForeignValue
  <2>4. world \in World  BY DEF Typed, TypeOK
  <2>5. v \in Registered \cup Secs \cup {Missing}  BY <2>3
  <2>6. world' \in [Targets -> Registered \cup Secs \cup {Missing}]
    BY <2>2, <2>4, <2>5 DEF World
  <2>7. \A t \in TaskPaths : world'[t] \in Registered \cup {Missing}
    BY <2>2, <2>3, <2>4 DEF World, Targets
  <2>8. \A f \in FolderPaths : world'[f] \in Secs \cup {Missing}
    BY <2>2, <2>3, <2>4 DEF World, Targets
  <2>9. QED  BY <2>6, <2>7, <2>8 DEF World
<1>4. TypeOK'  BY <1>1, <1>2, <1>3 DEF ForeignWrite, Typed, TypeOK
<1>5. Subject' = Subject  BY SubjectStable DEF ForeignWrite
<1>6. Control'
  BY <1>5 DEF ForeignWrite, Typed, Control, RestoresTask, LastUndo, StopsInstances,
              InspectPcs, ChangePcs, UndoPcs, Sites
<1>7. QED  BY <1>4, <1>6 DEF Typed

-----------------------------------------------------------------------------
(* Types and phases are an invariant.                                        *)

LEMMA StepTyped == Typed /\ [Next]_vars => Typed'
<1> SUFFICES ASSUME Typed, [Next]_vars PROVE Typed'  OBVIOUS
<1>1. CASE Inspect
  BY <1>1, TypedListTasks, TypedListFolders, TypedReadSecurity DEF Inspect
<1>2. CASE MakePlan  BY <1>2, TypedMakePlan
<1>3. CASE Observe
  BY <1>3, TypedObserveTask, TypedObserveTaskSecurity, TypedObserveFolder,
     TypedObserveFolderListing DEF Observe
<1>4. CASE Preflight \/ Agree  BY <1>4, TypedPreflight, TypedAgree
<1>5. CASE Prepare  BY <1>5, TypedPrepare
<1>6. CASE RunChange
  BY <1>6, TypedPrecondition, TypedStop, TypedMutate, TypedReadBack, TypedVerifyAcl, TypedVerify
  DEF RunChange
<1>7. CASE RunUndo
  BY <1>7, TypedAllUndone, TypedUndoCheck, TypedUndoStop, TypedUndoMutate, TypedUndoEnabled,
     TypedUndoSecurity, TypedUndoConfirm DEF RunUndo
<1>8. CASE ForeignWrite  BY <1>8, TypedForeignWrite
<1>9. CASE UNCHANGED vars
  <2> USE <1>9 DEF vars, inspection, reading, report
  <2>1. Planned' = Planned /\ UndoEntries' = UndoEntries  BY PlannedStable
  <2>2. TypeOK'  BY <2>1 DEF Typed, TypeOK
  <2>3. Subject' = Subject /\ LastUndo' = LastUndo  BY SubjectStable DEF LastUndo
  <2>4. Control'  BY <2>3 DEF Typed, Control, RestoresTask, StopsInstances
  <2>5. QED  BY <2>2, <2>4 DEF Typed
<1>10. QED
  BY <1>1, <1>2, <1>3, <1>4, <1>5, <1>6, <1>7, <1>8, <1>9 DEF Next, Apply, Terminated

LEMMA AlwaysTyped == Spec => []Typed
BY InitTyped, StepTyped, PTL DEF Spec

(* Every call of apply leaves a plan, a report, snapshots and a scheduler of *)
(* the declared types, and what its next call relies on: the current change  *)
(* exists, as many observations were taken as changes were checked, the      *)
(* entry that is undone is there with its snapshot, and a reading that is    *)
(* half finished holds what was read; for every manifest and every pattern   *)
(* of failures and foreign writes.                                           *)
THEOREM TypeCorrect == Spec => [](TypeOK /\ Control)
<1>1. Typed => TypeOK /\ Control  BY DEF Typed
<1>2. QED  BY <1>1, AlwaysTyped, PTL

-----------------------------------------------------------------------------
(* The report accounts for every change of the plan.                         *)

(* The parts of the state that the ledger relates, and their types.          *)
LEMMA LedgerTypes ==
    ASSUME Typed
    PROVE  /\ plan \in Seq(Planned) /\ undo \in Seq(UndoEntries) /\ applied \in Seq(Planned)
           /\ rolledBack \in Seq(Planned) /\ rollbackFailures \in Seq(Planned)
           /\ unresolved \in Seq(Planned)
           /\ Len(plan) \in Nat /\ Len(undo) \in Nat /\ Len(applied) \in Nat
           /\ Len(rolledBack) \in Nat /\ Len(rollbackFailures) \in Nat
           /\ DOMAIN plan = 1..Len(plan) /\ DOMAIN undo = 1..Len(undo)
           /\ DOMAIN applied = 1..Len(applied) /\ DOMAIN rolledBack = 1..Len(rolledBack)
           /\ DOMAIN rollbackFailures = 1..Len(rollbackFailures)
           /\ DOMAIN unresolved = 1..Len(unresolved) /\ Len(unresolved) \in Nat
BY DEF Typed, TypeOK

LEMMA InitLedger == Init => Ledger
BY DEF Init, Ledger, LedgerData, AppliedPrefix, SettledReported, ReverseOrder, UnresolvedApart, LedgerPhase, Settled, Elements, InspectPcs, ChangePcs, UndoPcs

(* A step that touches neither the plan, nor the undo stack, nor the report. *)
LEMMA QuietData ==
    ASSUME LedgerData, UNCHANGED <<plan, undo, report>>
    PROVE  LedgerData'
<1>1. /\ plan' = plan /\ undo' = undo /\ applied' = applied /\ rolledBack' = rolledBack
      /\ rollbackFailures' = rollbackFailures /\ unresolved' = unresolved
  BY DEF report
<1>2. Settled' = Settled  BY <1>1 DEF Settled
<1>3. QED  BY <1>1, <1>2 DEF LedgerData, AppliedPrefix, SettledReported, ReverseOrder, UnresolvedApart, Elements

(* Before the first change there is nothing to account for.                  *)
LEMMA NothingApplied ==
    ASSUME Typed, Ledger, pc \notin UndoPcs \cup {"failed"}, Len(applied) = 0
    PROVE  /\ applied = <<>> /\ undo = <<>> /\ rolledBack = <<>> /\ rollbackFailures = <<>>
           /\ unresolved = <<>>
<1>1. Len(undo) = 0 /\ unresolved = <<>>  BY DEF Ledger, LedgerPhase
<1>2. Len(rolledBack) = 0 /\ Len(rollbackFailures) = 0
  BY <1>1, LedgerTypes DEF Ledger, LedgerData, AppliedPrefix, SettledReported, ReverseOrder, UnresolvedApart
<1>3. QED  BY <1>1, <1>2, LedgerTypes, EmptySeq

LEMMA LedgerMakePlan == Typed /\ Ledger /\ MakePlan => Ledger'
<1> SUFFICES ASSUME Typed, Ledger, MakePlan PROVE Ledger'  OBVIOUS
<1>1. Len(applied) = 0 /\ pc \notin UndoPcs \cup {"failed"}
  BY DEF MakePlan, Ledger, LedgerPhase, InspectPcs, UndoPcs
<1>2. /\ applied' = <<>> /\ undo' = <<>> /\ rolledBack' = <<>> /\ rollbackFailures' = <<>>
      /\ unresolved' = <<>>
  BY <1>1, NothingApplied DEF MakePlan, report
<1>3. plan' \in Seq(Change) /\ \A i, j \in DOMAIN plan' : plan'[i] = plan'[j] => i = j
  <2>1. CASE UNCHANGED plan  BY <2>1, LedgerTypes DEF Ledger, LedgerData, AppliedPrefix, SettledReported, ReverseOrder, UnresolvedApart, Planned
  <2>2. CASE plan' \in Schedules(PlanChanges(Manifest, snapshot, job.prune))
    <3>1. PlanChanges(Manifest, snapshot, job.prune) \in SUBSET Change
      BY PlannedChanges DEF Planned, Typed
    <3>2. QED  BY <2>2, <3>1, ScheduleType
  <2>3. QED  BY <2>1, <2>2 DEF MakePlan
<1>4. LedgerData'  BY <1>2, <1>3 DEF LedgerData, AppliedPrefix, SettledReported, ReverseOrder, UnresolvedApart, Settled, Elements
<1>5. LedgerPhase'
  BY <1>2, <1>3 DEF MakePlan, LedgerPhase, InspectPcs, ChangePcs, UndoPcs
<1>6. QED  BY <1>4, <1>5 DEF Ledger

(* Steps before the main loop, inside a change, and of the other writer.     *)
LEMMA LedgerForward ==
    ASSUME Typed, Ledger,
           \/ Inspect \/ Observe \/ Preflight \/ Agree \/ Prepare
           \/ Precondition \/ Stop \/ Mutate \/ ReadBack \/ VerifyAcl \/ AllUndone
           \/ ForeignWrite \/ UNCHANGED vars
    PROVE  Ledger'
<1> USE DEF report
<1>1. UNCHANGED <<plan, undo, report>>
  BY DEF Inspect, ListTasks, ListFolders, ReadSecurity, Observe, ObserveTask,
         ObserveTaskSecurity, ObserveFolder, ObserveFolderListing, unobserved, Preflight, Agree,
         Prepare, PrepareNothing, PrepareCreate, PrepareBackup, PrepareBackupSecurity,
         PrepareEnabled, PrepareSecurity, unprepared, Precondition, Stop, Mutate, ReadBack,
         VerifyAcl, AllUndone, unchangedByUndo, ForeignWrite, vars
<1>2. LedgerData'  BY <1>1, QuietData DEF Ledger
<1>3. Len(undo)' = Len(undo) /\ Len(applied)' = Len(applied) /\ unresolved' = unresolved
      /\ Len(plan)' = Len(plan)
  BY <1>1
<1> DEFINE Early == InspectPcs \cup {"preflight", "agree", "prepare"}
<1>4. \/ pc' = pc /\ index' = index
      \/ pc \in Early /\ pc' \in Early \cup {"failed"}
      \/ pc = "prepare" /\ pc' = "precondition" /\ index' = 1
      \/ pc \in ChangePcs /\ pc' \in ChangePcs /\ index' = index
      \/ pc' = "undo_check"
      \/ pc' = "failed" /\ undo = <<>>
  <2>1. CASE Inspect
    BY <2>1 DEF Inspect, ListTasks, ListFolders, ReadSecurity, Abort, InspectPcs
  <2>2. CASE Observe
    BY <2>2 DEF Observe, ObserveTask, ObserveTaskSecurity, ObserveFolder, ObserveFolderListing,
                unobserved
  <2>3. CASE Preflight \/ Agree
    BY <2>3 DEF Preflight, Agree, Abort, NextChange, InspectPcs
  <2>4. CASE Prepare
    BY <2>4 DEF Prepare, PrepareNothing, PrepareCreate, PrepareBackup, PrepareBackupSecurity,
                PrepareEnabled, PrepareSecurity, Preparing, NextPrepared, NextChange, Abort,
                InspectPcs
  <2>5. CASE Precondition \/ Stop \/ Mutate \/ ReadBack \/ VerifyAcl
    BY <2>5 DEF Precondition, Compensate, Stop, Mutate, ReadBack, VerifyAcl, ChangePcs
  <2>6. CASE AllUndone \/ ForeignWrite \/ UNCHANGED vars
    BY <2>6 DEF AllUndone, ForeignWrite, vars
  <2>7. QED  BY <2>1, <2>2, <2>3, <2>4, <2>5, <2>6
<1>5. LedgerPhase'
  BY <1>3, <1>4, LedgerTypes, SMTT(30)
     DEF Ledger, LedgerPhase, InspectPcs, ChangePcs, UndoPcs
<1>6. QED  BY <1>2, <1>5 DEF Ledger

(* Verification appends the current change to the applied ones and to the    *)
(* undo stack, or to the unresolved ones, or leaves the report alone.        *)
LEMMA LedgerVerify == Typed /\ Ledger /\ Verify => Ledger'
<1> SUFFICES ASSUME Typed, Ledger, Verify PROVE Ledger'  OBVIOUS
<1>1. /\ pc = "verify" /\ index \in 1..Len(plan) /\ Current = plan[index] /\ Current \in Planned
      /\ Len(applied) = index - 1 /\ Len(undo) = index - 1 /\ unresolved = <<>>
      /\ rolledBack = <<>> /\ rollbackFailures = <<>>
  <2>1. /\ pc = "verify" /\ index \in 1..Len(plan) /\ Current = plan[index] /\ Current \in Planned
    BY VerifyCases DEF Verify
  <2>2. Len(applied) = index - 1 /\ Len(undo) = index - 1 /\ unresolved = <<>>
    BY <2>1 DEF Ledger, LedgerPhase, ChangePcs, UndoPcs
  <2>3. Len(rolledBack) = 0 /\ Len(rollbackFailures) = 0
    BY <2>1, <2>2, LedgerTypes DEF Ledger, LedgerData, AppliedPrefix, SettledReported, ReverseOrder, UnresolvedApart
  <2>4. QED  BY <2>1, <2>2, <2>3, LedgerTypes, EmptySeq
<1>2. UNCHANGED <<plan, rolledBack, rollbackFailures>>  BY DEF Verify
<1>3. CASE UNCHANGED <<applied, undo, expected, unresolved>> /\ pc' = "undo_check"
  <2>1. UNCHANGED <<plan, undo, report>>  BY <1>2, <1>3 DEF report
  <2>2. LedgerData'  BY <2>1, QuietData DEF Ledger
  <2>3. LedgerPhase'  BY <1>3 DEF LedgerPhase, UndoPcs
  <2>4. QED  BY <2>2, <2>3 DEF Ledger
<1>4. CASE /\ applied' = Append(applied, Current) /\ UNCHANGED unresolved
           /\ undo' = Append(undo, [change |-> Current, before |-> expected[index], after |-> got])
  <2>1. /\ Len(applied') = index /\ Len(undo') = index /\ applied' \in Seq(Planned)
        /\ DOMAIN applied' = 1..index /\ DOMAIN undo' = 1..index
        /\ \A i \in 1..index : applied'[i] = IF i = index THEN plan[index] ELSE applied[i]
        /\ \A i \in 1..index : undo'[i].change = IF i = index THEN plan[index] ELSE undo[i].change
    BY <1>1, <1>4, LedgerTypes
  <2>2. Settled' = {}  BY <1>1, <2>1 DEF Settled
  <2>3. LedgerData'
    BY <1>1, <1>2, <1>4, <2>1, <2>2, LedgerTypes DEF Ledger, LedgerData, AppliedPrefix, SettledReported, ReverseOrder, UnresolvedApart, Elements
  <2>4. LedgerPhase'
    <3>1. \/ pc' = "undo_check"
          \/ pc' = "precondition" /\ index' = index + 1
          \/ pc' = "succeeded" /\ index = Len(plan)
      BY VerifyCases
    <3>2. QED
      BY <1>1, <1>2, <1>4, <2>1, <3>1, LedgerTypes DEF LedgerPhase, InspectPcs, ChangePcs, UndoPcs
  <2>5. QED  BY <2>3, <2>4 DEF Ledger
<1>5. CASE unresolved' = Append(unresolved, Current) /\ UNCHANGED <<applied, undo>> /\ ~TookEffect
  <2>1. unresolved' = <<plan[index]>>  BY <1>1, <1>5
  <2>2. Settled' = Settled  BY <1>5 DEF Settled
  <2>3. LedgerData'
    BY <1>1, <1>2, <1>5, <2>1, <2>2, LedgerTypes DEF Ledger, LedgerData, AppliedPrefix, SettledReported, ReverseOrder, UnresolvedApart, Elements
  <2>4. LedgerPhase'
    <3>1. pc' = "undo_check"  BY <1>5, VerifyCases
    <3>2. QED  BY <3>1 DEF LedgerPhase, UndoPcs
  <2>5. QED  BY <2>3, <2>4 DEF Ledger
<1>6. QED  BY <1>3, <1>4, <1>5, VerifyCases

(* A step of compensation that keeps its entry on the stack.                 *)
LEMMA LedgerUndoStays ==
    ASSUME Ledger, pc' \in UndoPcs, UNCHANGED plan, UndoUnchanged
    PROVE  Ledger'
<1>1. LedgerData'  BY QuietData DEF Ledger, UndoUnchanged
<1>2. LedgerPhase'  BY DEF LedgerPhase, UndoPcs
<1>3. QED  BY <1>1, <1>2 DEF Ledger

(* Ending an entry settles the last change that was not settled yet: later   *)
(* than it are only changes already settled, earlier only unsettled ones.    *)
LEMMA LedgerEndUndo ==
    ASSUME Typed, Ledger, undo # <<>>, UNCHANGED plan, NEW restored \in BOOLEAN, EndUndo(restored)
    PROVE  Ledger'
<1> DEFINE n == Len(undo)
<1> USE DEF Ledger, LedgerData
<1>1. /\ n \in Nat /\ n >= 1 /\ n <= Len(applied) /\ n <= Len(plan)
      /\ LastUndo.change = plan[n] /\ n \in DOMAIN plan
  <2>1. n \in Nat /\ n >= 1
    <3>1. n \in Nat /\ undo \in Seq(UndoEntries)  BY LedgerTypes
    <3>2. n # 0  BY <3>1, EmptySeq
    <3>3. QED  BY <3>1, <3>2
  <2>2. n <= Len(applied) /\ Len(applied) <= Len(plan)  BY LedgerTypes DEF AppliedPrefix
  <2>3. n \in DOMAIN undo /\ n \in DOMAIN plan /\ n <= Len(plan)
    BY <2>1, <2>2, LedgerTypes
  <2>4. LastUndo.change = plan[n]  BY <2>3 DEF AppliedPrefix, LastUndo
  <2>5. QED  BY <2>1, <2>2, <2>3, <2>4
<1>2. /\ Len(undo') = n - 1 /\ DOMAIN undo' = 1..(n - 1) /\ \A i \in 1..(n - 1) : undo'[i] = undo[i]
      /\ UNCHANGED applied /\ pc' = "undo_check"
  BY <1>1, LedgerTypes DEF EndUndo
<1>3. Settled' = Settled \cup {n} /\ \A k \in Settled : k > n /\ k \in DOMAIN plan
  BY <1>1, <1>2, LedgerTypes DEF Settled, AppliedPrefix
<1>4. LedgerPhase'  BY <1>2 DEF LedgerPhase, UndoPcs
<1>5. plan[n] \notin Elements(rolledBack) /\ plan[n] \notin Elements(unresolved)
  <2>1. ASSUME NEW k \in DOMAIN plan, k > n  PROVE plan[k] # plan[n]
    <3>1. k \in Int /\ k # n  BY <1>1, <2>1, LedgerTypes
    <3>2. plan[k] = plan[n] => k = n  BY <1>1 DEF AppliedPrefix
    <3>3. QED  BY <3>1, <3>2
  <2>2. \A i \in DOMAIN rolledBack : rolledBack[i] # plan[n]
    BY <1>3, <2>1 DEF SettledReported
  <2>3. \A j \in DOMAIN unresolved : unresolved[j] # plan[n]
    <3> SUFFICES ASSUME NEW j \in DOMAIN unresolved PROVE unresolved[j] # plan[n]  OBVIOUS
    <3>1. PICK l \in Len(undo) + 1 .. Len(plan) : unresolved[j] = plan[l]  BY DEF UnresolvedApart
    <3>2. l \in DOMAIN plan /\ l > n  BY <1>1, LedgerTypes
    <3>3. QED  BY <2>1, <3>1, <3>2
  <2>4. QED  BY <2>2, <2>3 DEF Elements
<1> DEFINE R == Len(rolledBack)
           F == Len(rollbackFailures)
           U == Len(unresolved)
<1>6. /\ R \in Nat /\ F \in Nat /\ U \in Nat /\ Len(applied) = n + R + F
      /\ DOMAIN rolledBack = 1..R /\ DOMAIN rollbackFailures = 1..F /\ DOMAIN unresolved = 1..U
  BY LedgerTypes DEF AppliedPrefix
<1>7. \A i \in DOMAIN undo' : undo'[i].change = plan'[i]
  <2> SUFFICES ASSUME NEW i \in DOMAIN undo' PROVE undo'[i].change = plan[i]  OBVIOUS
  <2>1. i \in 1..(n - 1)  BY <1>2
  <2>2. i \in DOMAIN undo  BY <1>1, <2>1, LedgerTypes
  <2>3. QED  BY <1>2, <2>1, <2>2 DEF AppliedPrefix
<1>8. CASE restored
  <2>1. /\ rolledBack' = Append(rolledBack, plan[n])
        /\ UNCHANGED <<rollbackFailures, unresolved>>
    BY <1>1, <1>8, Zenon DEF EndUndo
  <2> HIDE DEF n, R, F, U
  <2>2. /\ Len(rolledBack') = R + 1 /\ DOMAIN rolledBack' = 1..(R + 1)
        /\ \A i \in 1..(R + 1) : rolledBack'[i] = IF i = R + 1 THEN plan[n] ELSE rolledBack[i]
    BY <1>1, <1>6, <2>1, LedgerTypes DEF R
  <2>3. Elements(rolledBack)' = Elements(rolledBack) \cup {plan[n]}
    BY <1>6, <2>2 DEF Elements
  <2>4. AppliedPrefix'
    <3>1. Len(applied') = Len(undo') + Len(rolledBack') + Len(rollbackFailures')
      BY <1>1, <1>2, <1>6, <2>1, <2>2 DEF F
    <3>2. QED  BY <1>2, <1>7, <3>1 DEF AppliedPrefix
  <2>5. SettledReported'
    <3>1. \A k \in Settled' : plan'[k] \in (Elements(rolledBack) \cup Elements(rollbackFailures))'
      <4>1. Elements(rollbackFailures)' = Elements(rollbackFailures)  BY <2>1 DEF Elements
      <4>2. QED  BY <1>3, <2>3, <4>1 DEF SettledReported
    <3>2. \A i \in DOMAIN rolledBack' : \E k \in Settled' : rolledBack'[i] = plan'[k]
      BY <1>3, <1>6, <2>2 DEF SettledReported
    <3>3. \A i \in DOMAIN rollbackFailures' : \E k \in Settled' : rollbackFailures'[i] = plan'[k]
      BY <1>3, <2>1 DEF SettledReported
    <3>4. QED  BY <3>1, <3>2, <3>3 DEF SettledReported
  <2>6. ReverseOrder'
    <3> SUFFICES ASSUME NEW i \in DOMAIN rolledBack', NEW j \in DOMAIN rolledBack', i < j
                 PROVE  \E k, l \in Settled' :
                           k > l /\ rolledBack'[i] = plan'[k] /\ rolledBack'[j] = plan'[l]
      BY DEF ReverseOrder
    <3>1. CASE j = R + 1
      <4>1. i \in DOMAIN rolledBack /\ rolledBack'[i] = rolledBack[i] /\ rolledBack'[j] = plan[n]
        BY <1>6, <2>2, <3>1
      <4>2. PICK k \in Settled : rolledBack[i] = plan[k]  BY <4>1 DEF SettledReported
      <4>3. k > n /\ k \in Settled' /\ n \in Settled'  BY <1>3
      <4>4. QED  BY <4>1, <4>2, <4>3
    <3>2. CASE j # R + 1
      <4>1. i \in DOMAIN rolledBack /\ j \in DOMAIN rolledBack
            /\ rolledBack'[i] = rolledBack[i] /\ rolledBack'[j] = rolledBack[j]
        BY <1>6, <2>2, <3>2
      <4>2. PICK k \in Settled, l \in Settled :
               k > l /\ rolledBack[i] = plan[k] /\ rolledBack[j] = plan[l]
        BY <4>1 DEF ReverseOrder
      <4>3. QED  BY <1>3, <4>1, <4>2
    <3>3. QED  BY <3>1, <3>2
  <2>7. UnresolvedApart'
    <3>1. \A j \in DOMAIN unresolved' :
             \E l \in (Len(undo) + 1 .. Len(plan))' : unresolved'[j] = plan'[l]
      BY <1>1, <1>2, <2>1, LedgerTypes DEF UnresolvedApart, n
    <3>2. Elements(unresolved)' = Elements(unresolved)  BY <2>1 DEF Elements
    <3>3. QED  BY <1>5, <2>3, <3>1, <3>2 DEF UnresolvedApart
  <2>8. QED  BY <1>4, <2>4, <2>5, <2>6, <2>7
<1>9. CASE ~restored
  <2>1. /\ rollbackFailures' = Append(rollbackFailures, plan[n])
        /\ unresolved' = Append(unresolved, plan[n])
        /\ UNCHANGED rolledBack
    BY <1>1, <1>9, Zenon DEF EndUndo
  <2> HIDE DEF n, R, F, U
  <2>2. /\ Len(rollbackFailures') = F + 1 /\ DOMAIN rollbackFailures' = 1..(F + 1)
        /\ \A i \in 1..(F + 1) :
              rollbackFailures'[i] = IF i = F + 1 THEN plan[n] ELSE rollbackFailures[i]
    BY <1>1, <1>6, <2>1, LedgerTypes DEF F
  <2>3. /\ DOMAIN unresolved' = 1..(U + 1)
        /\ \A i \in 1..(U + 1) : unresolved'[i] = IF i = U + 1 THEN plan[n] ELSE unresolved[i]
    BY <1>1, <1>6, <2>1, LedgerTypes DEF U
  <2>4. /\ Elements(rollbackFailures)' = Elements(rollbackFailures) \cup {plan[n]}
        /\ Elements(unresolved)' = Elements(unresolved) \cup {plan[n]}
        /\ Elements(rolledBack)' = Elements(rolledBack)
    BY <1>6, <2>1, <2>2, <2>3 DEF Elements
  <2>5. AppliedPrefix'
    <3>1. Len(applied') = Len(undo') + Len(rolledBack') + Len(rollbackFailures')
      BY <1>1, <1>2, <1>6, <2>1, <2>2 DEF R
    <3>2. QED  BY <1>2, <1>7, <3>1 DEF AppliedPrefix
  <2>6. SettledReported'
    <3>1. \A k \in Settled' : plan'[k] \in (Elements(rolledBack) \cup Elements(rollbackFailures))'
      BY <1>3, <2>4 DEF SettledReported
    <3>2. \A i \in DOMAIN rolledBack' : \E k \in Settled' : rolledBack'[i] = plan'[k]
      BY <1>3, <2>1 DEF SettledReported
    <3>3. \A i \in DOMAIN rollbackFailures' : \E k \in Settled' : rollbackFailures'[i] = plan'[k]
      BY <1>3, <1>6, <2>2 DEF SettledReported
    <3>4. QED  BY <3>1, <3>2, <3>3 DEF SettledReported
  <2>7. ReverseOrder'  BY <1>3, <2>1 DEF ReverseOrder
  <2>8. UnresolvedApart'
    <3>1. \A j \in DOMAIN unresolved' :
             \E l \in (Len(undo) + 1 .. Len(plan))' : unresolved'[j] = plan'[l]
      <4> SUFFICES ASSUME NEW j \in DOMAIN unresolved'
                   PROVE  \E l \in (Len(undo) + 1 .. Len(plan))' : unresolved'[j] = plan'[l]
        OBVIOUS
      <4>1. CASE j = U + 1
        <5>1. unresolved'[j] = plan[n] /\ n \in (Len(undo) + 1 .. Len(plan))'
          BY <1>1, <1>2, <1>6, <2>3, <4>1, LedgerTypes
        <5>2. QED  BY <5>1
      <4>2. CASE j # U + 1
        <5>1. j \in DOMAIN unresolved /\ unresolved'[j] = unresolved[j]  BY <1>6, <2>3, <4>2
        <5>2. PICK l \in Len(undo) + 1 .. Len(plan) : unresolved[j] = plan[l]
          BY <5>1 DEF UnresolvedApart
        <5>3. l \in (Len(undo) + 1 .. Len(plan))'  BY <1>1, <1>2, <5>2, LedgerTypes DEF n
        <5>4. QED  BY <5>1, <5>2, <5>3
      <4>3. QED  BY <4>1, <4>2
    <3>2. QED  BY <1>5, <2>4, <3>1 DEF UnresolvedApart
  <2>9. QED  BY <1>4, <2>5, <2>6, <2>7, <2>8
<1>10. QED  BY <1>8, <1>9

LEMMA LedgerUndo ==
    ASSUME Typed, Ledger,
           UndoCheck \/ UndoStop \/ UndoMutate \/ UndoEnabled \/ UndoSecurity \/ UndoConfirm
    PROVE  Ledger'
<1>1. /\ UNCHANGED plan /\ undo # <<>>
      /\ \/ \E restored \in BOOLEAN : EndUndo(restored)
         \/ UndoUnchanged /\ pc' \in UndoPcs
  <2>1. CASE UndoCheck \/ UndoStop
    BY <2>1 DEF UndoCheck, UndoStop, unchangedByUndo, UndoPcs, Typed, Control
  <2>2. CASE UndoMutate \/ UndoEnabled
    BY <2>2 DEF UndoMutate, UndoEnabled, UndoUnchanged, unchangedByUndo, UndoPcs, Typed, Control
  <2>3. CASE UndoSecurity
    BY <2>3 DEF UndoSecurity, unchangedByUndo, UndoPcs, Typed, Control
  <2>4. CASE UndoConfirm
    <3>1. (got = LastUndo.before) \in BOOLEAN  OBVIOUS
    <3>2. QED  BY <2>4, <3>1 DEF UndoConfirm, unchangedByUndo, UndoPcs, Typed, Control
  <2>5. QED  BY <2>1, <2>2, <2>3, <2>4
<1>2. QED  BY <1>1, LedgerEndUndo, LedgerUndoStays

LEMMA StepLedger == Typed /\ Ledger /\ [Next]_vars => Ledger'
BY LedgerForward, LedgerMakePlan, LedgerVerify, LedgerUndo
DEF Next, Apply, RunChange, RunUndo, Terminated

LEMMA AlwaysLedger == Spec => [](Typed /\ Ledger)
BY InitTyped, StepTyped, InitLedger, StepLedger, PTL DEF Spec

(* At its end the ledger says that the report accounts for every change.     *)
LEMMA LedgerAccounts ==
    ASSUME Typed, Ledger
    PROVE  RollbackAccounting
<1> USE DEF Ledger, LedgerData
<1>1. ASSUME pc = "succeeded"
      PROVE  applied = plan /\ unresolved = <<>> /\ rolledBack = <<>>
  <2>1. Len(undo) = Len(applied) /\ unresolved = <<>> /\ Len(applied) = Len(plan)
    BY <1>1 DEF LedgerPhase, UndoPcs
  <2>2. Len(rolledBack) = 0  BY <2>1, LedgerTypes DEF AppliedPrefix
  <2>3. rolledBack = <<>>  BY <2>2, LedgerTypes, EmptySeq
  <2>4. \A i \in 1..Len(plan) : applied[i] = plan[i]
    BY <2>1, LedgerTypes DEF AppliedPrefix
  <2>5. applied = plan  BY <2>1, <2>4, LedgerTypes, SeqEqual
  <2>6. QED  BY <2>1, <2>3, <2>5
<1>2. ASSUME pc = "failed"
      PROVE  /\ Elements(applied) = Elements(rolledBack) \cup Elements(rollbackFailures)
             /\ Elements(rolledBack) \cap Elements(unresolved) = {}
             /\ Len(applied) = Len(rolledBack) + Len(rollbackFailures)
  <2>1. Len(undo) = 0  BY <1>2 DEF LedgerPhase
  <2>2. Settled = DOMAIN applied  BY <2>1, LedgerTypes DEF Settled
  <2>3. Elements(applied) = Elements(rolledBack) \cup Elements(rollbackFailures)
    BY <2>2 DEF AppliedPrefix, SettledReported, Elements
  <2>4. QED  BY <2>1, <2>3, LedgerTypes DEF AppliedPrefix, UnresolvedApart
<1>3. Settled \subseteq DOMAIN applied  BY LedgerTypes DEF Settled
<1>4. ASSUME NEW i \in DOMAIN rolledBack, NEW j \in DOMAIN rolledBack, i < j
      PROVE  \E k, l \in DOMAIN applied :
                k > l /\ applied[k] = rolledBack[i] /\ applied[l] = rolledBack[j]
  <2>1. PICK k \in Settled, l \in Settled :
           k > l /\ rolledBack[i] = plan[k] /\ rolledBack[j] = plan[l]
    BY <1>4 DEF ReverseOrder
  <2>2. QED  BY <1>3, <2>1 DEF AppliedPrefix
<1>5. QED  BY <1>1, <1>2, <1>4 DEF RollbackAccounting

(* A successful apply has applied the whole plan; every applied change of a  *)
(* failed one is rolled back or unresolved, never both; changes are rolled   *)
(* back in the reverse order of their application.                           *)
THEOREM Accounting == Spec => []RollbackAccounting
BY LedgerAccounts, AlwaysLedger, PTL

-----------------------------------------------------------------------------
(* What apply does to the scheduler, whatever fails and whatever others      *)
(* write: no request to stop a task's instances escapes the report, nothing  *)
(* is written over a state that was not just observed, tasks of others are   *)
(* left alone unless the manifest adopts them, and what compensation needs   *)
(* was captured before the first change.                                     *)

-----------------------------------------------------------------------------
(* The history and the stops.                                                *)

Histories ==
    [touched : SUBSET Targets, dirty : SUBSET Targets,
     writer  : [Targets -> {"start", "apply", "foreign"}], stopped : SUBSET Targets]

BackwardPcs == UndoPcs \cup {"failed"}

(* Every stop was recorded before its request left, also the one that        *)
(* compensation is about to send; the forward loop sends planned ones only.  *)
Recorded ==
    /\ hist \in Histories
    /\ hist.stopped \subseteq Elements(irreversible)
    /\ pc = "undo_stop" => LastUndo.change.target \in Elements(irreversible)
    /\ pc \in InspectPcs => hist.stopped = {}
    /\ pc \notin BackwardPcs => hist.stopped \subseteq PlannedStops(plan)

LEMMA InitRecorded == Init => Recorded
BY DEF Init, Recorded, Histories, Elements, BackwardPcs, UndoPcs

(* The ways in which a step writes the history without stopping anything.    *)
Remembers ==
    \/ UNCHANGED hist
    \/ \E x \in Targets : hist' = [hist EXCEPT !.writer[x] = "apply"]
    \/ \E x \in Targets : hist' = [hist EXCEPT !.dirty = @ \ {x}]
    \/ \E x \in Targets : hist' = [hist EXCEPT !.touched = @ \cup {x}, !.dirty = @ \cup {x},
                                               !.writer[x] = "foreign"]

LEMMA RemembersType ==
    ASSUME hist \in Histories, Remembers
    PROVE  hist' \in Histories /\ hist'.stopped = hist.stopped
<1>1. CASE UNCHANGED hist  BY <1>1
<1>2. ASSUME NEW x \in Targets, hist' = [hist EXCEPT !.writer[x] = "apply"]
      PROVE  hist' \in Histories /\ hist'.stopped = hist.stopped
  BY <1>2 DEF Histories
<1>3. ASSUME NEW x \in Targets, hist' = [hist EXCEPT !.dirty = @ \ {x}]
      PROVE  hist' \in Histories /\ hist'.stopped = hist.stopped
  BY <1>3 DEF Histories
<1>4. ASSUME NEW x \in Targets,
             hist' = [hist EXCEPT !.touched = @ \cup {x}, !.dirty = @ \cup {x},
                                  !.writer[x] = "foreign"]
      PROVE  hist' \in Histories /\ hist'.stopped = hist.stopped
  <2>1. /\ hist.touched \cup {x} \in SUBSET Targets /\ hist.dirty \cup {x} \in SUBSET Targets
        /\ [hist.writer EXCEPT ![x] = "foreign"] \in [Targets -> {"start", "apply", "foreign"}]
    BY DEF Histories
  <2>2. QED  BY <1>4, <2>1 DEF Histories
<1>5. QED  BY <1>1, <1>2, <1>3, <1>4 DEF Remembers

(* A native call is remembered as a write of its target, or not at all.      *)
LEMMA EffectRemembers ==
    ASSUME NEW x \in Targets, NEW o, NEW value, Effect(x, o, value)
    PROVE  Remembers
BY DEF Effect, Remembers

(* A recorded stop is an element of the report.                              *)
LEMMA AppendElements ==
    ASSUME NEW x \in TaskPaths, irreversible \in Seq(TaskPaths),
           irreversible' = Append(irreversible, x)
    PROVE  Elements(irreversible)' = Elements(irreversible) \cup {x}
<1>1. /\ DOMAIN irreversible = 1..Len(irreversible) /\ Len(irreversible) \in Nat
      /\ DOMAIN irreversible' = 1..(Len(irreversible) + 1)
      /\ \A i \in 1..(Len(irreversible) + 1) :
            irreversible'[i] = IF i = Len(irreversible) + 1 THEN x ELSE irreversible[i]
  OBVIOUS
<1>2. QED  BY <1>1 DEF Elements

(* A step that stops nothing and records nothing.                            *)
LEMMA RecordedQuiet ==
    ASSUME Recorded, Remembers, UNCHANGED irreversible,
           pc' = "undo_stop" => pc = "undo_stop" /\ UNCHANGED undo,
           pc' \in InspectPcs => pc \in InspectPcs,
           pc \in BackwardPcs => pc' \in BackwardPcs,
           pc \in InspectPcs \/ UNCHANGED plan
    PROVE  Recorded'
<1>1. hist' \in Histories /\ hist'.stopped = hist.stopped  BY RemembersType DEF Recorded
<1>2. Elements(irreversible)' = Elements(irreversible)  BY DEF Elements
<1>3. pc' = "undo_stop" => LastUndo.change.target' \in Elements(irreversible)
  BY DEF Recorded, LastUndo
<1>4. pc' \notin BackwardPcs => hist.stopped \subseteq PlannedStops(plan)'
  <2>1. CASE pc \in InspectPcs  BY <2>1 DEF Recorded
  <2>2. CASE UNCHANGED plan  BY <2>2 DEF Recorded, PlannedStops
  <2>3. QED  BY <2>1, <2>2
<1>5. QED  BY <1>1, <1>2, <1>3, <1>4 DEF Recorded

-----------------------------------------------------------------------------
(* The steps of apply that stop nothing.                                     *)

LEMMA RecordedForward ==
    ASSUME Typed, Recorded,
           \/ Inspect \/ Preflight \/ Agree \/ Prepare \/ Precondition \/ ReadBack
           \/ VerifyAcl \/ Verify \/ AllUndone \/ UNCHANGED vars
    PROVE  Recorded'
<1>1. UNCHANGED <<plan, hist, irreversible>>
  BY DEF Inspect, ListTasks, ListFolders, ReadSecurity, Preflight, Agree, Prepare,
         PrepareNothing, PrepareCreate, PrepareBackup, PrepareBackupSecurity, PrepareEnabled,
         PrepareSecurity, unprepared, Precondition, ReadBack, VerifyAcl, Verify, AllUndone,
         unchangedByUndo, vars
<1>2. /\ pc' = "undo_stop" => pc = "undo_stop" /\ UNCHANGED undo
      /\ pc' \in InspectPcs => pc \in InspectPcs
      /\ pc \in BackwardPcs => pc' \in BackwardPcs
  <2>1. CASE Inspect
    BY <2>1 DEF Inspect, ListTasks, ListFolders, ReadSecurity, Abort, InspectPcs, BackwardPcs,
                UndoPcs
  <2>2. CASE Preflight \/ Agree \/ Precondition \/ ReadBack \/ VerifyAcl
    BY <2>2 DEF Preflight, Agree, Precondition, ReadBack, VerifyAcl, Abort, NextChange,
                Compensate, InspectPcs, BackwardPcs, UndoPcs
  <2>3. CASE Prepare
    BY <2>3 DEF Prepare, PrepareNothing, PrepareCreate, PrepareBackup, PrepareBackupSecurity,
                PrepareEnabled, PrepareSecurity, Preparing, NextPrepared, NextChange, Abort,
                InspectPcs, BackwardPcs, UndoPcs
  <2>4. CASE Verify
    BY <2>4 DEF Verify, NextChange, Compensate, InspectPcs, BackwardPcs, UndoPcs
  <2>5. CASE AllUndone \/ UNCHANGED vars
    BY <2>5 DEF AllUndone, vars, InspectPcs, BackwardPcs, UndoPcs
  <2>6. QED  BY <2>1, <2>2, <2>3, <2>4, <2>5
<1>3. Remembers  BY <1>1 DEF Remembers
<1>4. QED  BY <1>1, <1>2, <1>3, RecordedQuiet

LEMMA RecordedMakePlan == Typed /\ Recorded /\ MakePlan => Recorded'
<1> SUFFICES ASSUME Typed, Recorded, MakePlan PROVE Recorded'  OBVIOUS
<1>1. /\ pc \in InspectPcs \ BackwardPcs /\ UNCHANGED <<hist, irreversible>>
      /\ pc' \in {"failed", "succeeded", "preflight"}
  BY DEF MakePlan, InspectPcs, BackwardPcs, UndoPcs
<1>2. Remembers  BY <1>1 DEF Remembers
<1>3. QED  BY <1>1, <1>2, RecordedQuiet DEF InspectPcs

LEMMA RecordedObserve == Typed /\ Recorded /\ Observe => Recorded'
<1> SUFFICES ASSUME Typed, Recorded, Observe PROVE Recorded'  OBVIOUS
<1>1. UNCHANGED <<pc, plan, undo, irreversible>> /\ Observing /\ (UNCHANGED hist \/ StartCheck)
  BY DEF Observe, ObserveTask, ObserveTaskSecurity, ObserveFolder, ObserveFolderListing,
         unobserved
<1>2. Subject \in Targets  BY <1>1, ObservedType
<1>3. Remembers  BY <1>1, <1>2 DEF StartCheck, Remembers
<1>4. QED  BY <1>1, <1>3, RecordedQuiet

LEMMA RecordedMutate == Typed /\ Recorded /\ Mutate => Recorded'
<1> SUFFICES ASSUME Typed, Recorded, Mutate PROVE Recorded'  OBVIOUS
<1>1. Subject \in Targets
  BY CurrentPlanned, PlannedTargets DEF Mutate, ChangePcs, Typed, Subject
<1>2. Remembers  BY <1>1, EffectRemembers DEF Mutate
<1>3. /\ UNCHANGED <<plan, irreversible>> /\ pc = "mutate" /\ pc' \in {"read_back", "verify"}
  BY DEF Mutate
<1>4. QED  BY <1>2, <1>3, RecordedQuiet DEF InspectPcs, BackwardPcs, UndoPcs

LEMMA RecordedForeignWrite == Typed /\ Recorded /\ ForeignWrite => Recorded'
<1> SUFFICES ASSUME Typed, Recorded, ForeignWrite PROVE Recorded'  OBVIOUS
<1>1. Remembers /\ UNCHANGED <<pc, plan, undo, irreversible>>
  BY DEF ForeignWrite, Remembers
<1>2. QED  BY <1>1, RecordedQuiet

-----------------------------------------------------------------------------
(* The steps that stop a task, or record that one will be stopped.           *)

LEMMA RecordedStop == Typed /\ Recorded /\ Stop => Recorded'
<1> SUFFICES ASSUME Typed, Recorded, Stop PROVE Recorded'  OBVIOUS
<1>1. /\ pc = "stop" /\ UNCHANGED plan /\ pc' \in {"mutate", "undo_check"}
      /\ hist' = [hist EXCEPT !.stopped = @ \cup {Subject}]
      /\ irreversible' = Append(irreversible, Subject)
  BY DEF Stop
<1>2. Current = plan[index] /\ Current \in Planned /\ StopsInstances(plan[index])
      /\ index \in DOMAIN plan
  <2>1. /\ Current = plan[index] /\ Current \in Planned /\ StopsInstances(plan[index])
        /\ index \in 1..Len(plan)
    BY <1>1, CurrentPlanned DEF ChangePcs, Typed, Control
  <2>2. plan \in Seq(Planned)  BY DEF Typed, TypeOK
  <2>3. QED  BY <2>1, <2>2
<1>3. Subject \in TaskPaths /\ Subject \in Targets /\ Subject \in PlannedStops(plan)
  <2>1. Subject \in TaskPaths /\ Subject \in Targets
    BY <1>2, PlannedTargets DEF StopsInstances, Subject, Typed
  <2>2. Subject = plan[index].target  BY <1>2 DEF Subject
  <2>3. QED  BY <1>2, <2>1, <2>2 DEF PlannedStops
<1>4. Elements(irreversible)' = Elements(irreversible) \cup {Subject}
  <2>1. irreversible \in Seq(TaskPaths)  BY DEF Typed, TypeOK
  <2>2. QED  BY <1>1, <1>3, <2>1, AppendElements
<1>5. hist' \in Histories /\ hist'.stopped = hist.stopped \cup {Subject}
  BY <1>1, <1>3 DEF Recorded, Histories
<1>6. hist.stopped \subseteq PlannedStops(plan) /\ PlannedStops(plan)' = PlannedStops(plan)
  BY <1>1 DEF Recorded, BackwardPcs, UndoPcs, PlannedStops
<1>7. QED
  BY <1>1, <1>3, <1>4, <1>5, <1>6 DEF Recorded, InspectPcs

(* A step of compensation that records no stop.                              *)
LEMMA RecordedUndoQuiet ==
    ASSUME Typed, Recorded, pc \in UndoPcs, pc' \in UndoPcs \ {"undo_stop"}, UNCHANGED plan,
           UNCHANGED irreversible, Remembers
    PROVE  Recorded'
BY RecordedQuiet DEF InspectPcs, BackwardPcs, UndoPcs

LEMMA RecordedUndoCheck == Typed /\ Recorded /\ UndoCheck => Recorded'
<1> SUFFICES ASSUME Typed, Recorded, UndoCheck PROVE Recorded'  OBVIOUS
<1>1. pc = "undo_check" /\ undo # <<>> /\ UNCHANGED <<plan, hist>>
  BY DEF UndoCheck, unchangedByUndo
<1>2. Remembers  BY <1>1 DEF Remembers
<1>3. \/ UNCHANGED irreversible /\ pc' \in {"undo_check", "undo_mutate"}
      \/ /\ LastUndo.change.kind = "CreateTask" /\ pc' = "undo_stop" /\ UNCHANGED undo
         /\ irreversible' = Append(irreversible, LastUndo.change.target)
  BY DEF UndoCheck, EndUndo, UndoUnchanged
<1>4. CASE UNCHANGED irreversible /\ pc' \in {"undo_check", "undo_mutate"}
  BY <1>1, <1>2, <1>4, RecordedUndoQuiet DEF UndoPcs
<1>5. CASE /\ LastUndo.change.kind = "CreateTask" /\ pc' = "undo_stop" /\ UNCHANGED undo
           /\ irreversible' = Append(irreversible, LastUndo.change.target)
  <2>1. LastUndo.change.target \in TaskPaths
    BY <1>1, <1>5, CurrentPlanned, PlannedTargets DEF UndoPcs, Typed
  <2>2. Elements(irreversible)' = Elements(irreversible) \cup {LastUndo.change.target}
    <3>1. irreversible \in Seq(TaskPaths)  BY DEF Typed, TypeOK
    <3>2. QED  BY <1>5, <2>1, <3>1, AppendElements
  <2>3. LastUndo' = LastUndo  BY <1>5 DEF LastUndo
  <2>4. QED  BY <1>1, <1>5, <2>2, <2>3 DEF Recorded, InspectPcs, BackwardPcs, UndoPcs
<1>6. QED  BY <1>3, <1>4, <1>5

LEMMA RecordedUndoStop == Typed /\ Recorded /\ UndoStop => Recorded'
<1> SUFFICES ASSUME Typed, Recorded, UndoStop PROVE Recorded'  OBVIOUS
<1> DEFINE t == LastUndo.change.target
<1>1. /\ pc = "undo_stop" /\ UNCHANGED irreversible /\ pc' \in {"undo_mutate", "undo_check"}
      /\ hist' = [hist EXCEPT !.stopped = @ \cup {t}]
  BY DEF UndoStop, EndUndo
<1>2. t \in Targets
  <2>1. undo # <<>>  BY <1>1 DEF Typed, Control, UndoPcs
  <2>2. LastUndo.change \in Planned  BY <1>1, <2>1, CurrentPlanned DEF UndoPcs
  <2>3. QED  BY <2>2, PlannedTargets DEF Typed
<1>3. t \in Elements(irreversible) /\ Elements(irreversible)' = Elements(irreversible)
  BY <1>1 DEF Recorded, Elements
<1>4. hist' \in Histories /\ hist'.stopped = hist.stopped \cup {t}
  BY <1>1, <1>2 DEF Recorded, Histories
<1>5. QED  BY <1>1, <1>3, <1>4 DEF Recorded, InspectPcs, BackwardPcs, UndoPcs

LEMMA RecordedUndoCalls ==
    Typed /\ Recorded /\ (UndoMutate \/ UndoEnabled \/ UndoSecurity \/ UndoConfirm) => Recorded'
<1> SUFFICES ASSUME Typed, Recorded, UndoMutate \/ UndoEnabled \/ UndoSecurity \/ UndoConfirm
             PROVE  Recorded'
  OBVIOUS
<1>1. /\ pc \in UndoPcs \ {"undo_check"} /\ UNCHANGED <<plan, irreversible>>
      /\ pc' \in UndoPcs \ {"undo_stop"}
  BY DEF UndoMutate, UndoEnabled, UndoSecurity, UndoConfirm, EndUndo, unchangedByUndo, UndoPcs
<1>2. LastUndo.change.target \in Targets
  <2>1. undo # <<>>  BY <1>1 DEF Typed, Control
  <2>2. LastUndo.change \in Planned  BY <1>1, <2>1, CurrentPlanned
  <2>3. QED  BY <2>2, PlannedTargets DEF Typed
<1>3. \/ UNCHANGED hist
      \/ \E o, value : Effect(LastUndo.change.target, o, value)
  <2>1. CASE UndoMutate  BY <2>1 DEF UndoMutate
  <2>2. CASE UndoEnabled  BY <2>2 DEF UndoEnabled
  <2>3. CASE UndoSecurity  BY <2>3 DEF UndoSecurity
  <2>4. CASE UndoConfirm  BY <2>4 DEF UndoConfirm
  <2>5. QED  BY <2>1, <2>2, <2>3, <2>4
<1>4. Remembers
  <2>1. CASE UNCHANGED hist  BY <2>1 DEF Remembers
  <2>2. ASSUME NEW o, NEW value, Effect(LastUndo.change.target, o, value) PROVE Remembers
    BY <1>2, <2>2, EffectRemembers
  <2>3. QED  BY <1>3, <2>1, <2>2
<1>5. QED  BY <1>1, <1>4, RecordedUndoQuiet

-----------------------------------------------------------------------------

LEMMA StepRecorded == Typed /\ Recorded /\ [Next]_vars => Recorded'
BY RecordedForward, RecordedMakePlan, RecordedObserve, RecordedMutate, RecordedForeignWrite,
   RecordedStop, RecordedUndoCheck, RecordedUndoStop, RecordedUndoCalls
DEF Next, Apply, RunChange, RunUndo, Terminated

LEMMA AlwaysRecorded == Spec => [](Typed /\ Recorded)
BY InitTyped, StepTyped, InitRecorded, StepRecorded, PTL DEF Spec

(* Whatever apply asked to stop is in the report and is never hidden behind  *)
(* a complete rollback; the forward loop stops only what the plan announced. *)
THEOREM StopsReported == Spec => []StopsAccounted
<1>1. Recorded => StopsAccounted
  <2> SUFFICES ASSUME Recorded PROVE StopsAccounted  OBVIOUS
  <2>1. RollbackComplete => Elements(irreversible) = {}
    BY DEF RollbackComplete, Elements
  <2>2. QED  BY <2>1 DEF Recorded, StopsAccounted, BackwardPcs, UndoPcs
<1>2. QED  BY <1>1, AlwaysRecorded, PTL

-----------------------------------------------------------------------------
(* The observation before a write.                                           *)

CheckPcs == {"precondition", "undo_check"}

(* Unless another writer came in between, the first call of a check saw the  *)
(* task as it still is, up to the descriptor, and a folder's descriptor is   *)
(* missing only with allow_irreversible.                                     *)
HalfSeen ==
    pc \in CheckPcs /\ partial # NotRead /\ Subject \notin hist.dirty =>
        /\ Subject \in TaskPaths =>
              /\ world[Subject] # Missing
              /\ partial = [world[Subject] EXCEPT !.sec = NoSec]
        /\ Subject \in FolderPaths => Allow

(* The whole check saw the target as it still is, ...                        *)
Seen ==
    pc \in CheckPcs /\ got \notin {NotRead, ReadError} /\ Subject \notin hist.dirty =>
        Saw(got, world[Subject])

(* ... which is what the change or its compensation starts from.             *)
SeenByChange ==
    pc \in {"stop", "mutate"} /\ plan[index].target \notin hist.dirty =>
        Saw(expected[index], world[plan[index].target])
SeenByUndo ==
    pc \in {"undo_stop", "undo_mutate"} /\ LastUndo.change.target \notin hist.dirty =>
        Saw(LastUndo.after, world[LastUndo.change.target])

Checked == HalfSeen /\ Seen /\ SeenByChange /\ SeenByUndo

LEMMA InitChecked == Init => Checked
BY DEF Init, Checked, HalfSeen, Seen, SeenByChange, SeenByUndo, CheckPcs

(* A step that does not arrive in the middle or at the end of a check.       *)
LEMMA CheckedAnew ==
    ASSUME pc' \notin {"stop", "mutate", "undo_stop", "undo_mutate"},
           pc' \in CheckPcs => got' = NotRead /\ partial' = NotRead
    PROVE  Checked'
BY DEF Checked, HalfSeen, Seen, SeenByChange, SeenByUndo

(* Where nothing has been observed.                                          *)
LEMMA NothingRead ==
    ASSUME Typed
    PROVE  /\ pc \notin Sites \cup {"prepare", "undo_enabled", "undo_security"} =>
                 partial = NotRead
           /\ pc \notin Sites => got = NotRead
           /\ got # NotRead => partial = NotRead
           /\ pc = "prepare" /\ partial # NotRead => RestoresTask(plan[index])
BY DEF Typed, Control

LEMMA CheckedInspect ==
    ASSUME Typed, Inspect \/ MakePlan \/ Preflight \/ Agree \/ Mutate \/ ReadBack \/ VerifyAcl
                  \/ AllUndone
    PROVE  Checked'
<1>1. pc' \notin CheckPcs \cup {"stop", "mutate", "undo_stop", "undo_mutate"}
  <2>1. CASE Inspect
    BY <2>1 DEF Inspect, ListTasks, ListFolders, ReadSecurity, Abort, CheckPcs
  <2>2. CASE MakePlan \/ Preflight \/ Agree
    BY <2>2 DEF MakePlan, Preflight, Agree, Abort, NextChange, CheckPcs
  <2>3. CASE Mutate \/ ReadBack \/ VerifyAcl \/ AllUndone
    BY <2>3 DEF Mutate, ReadBack, VerifyAcl, AllUndone, CheckPcs
  <2>4. QED  BY <2>1, <2>2, <2>3
<1>2. QED  BY <1>1, CheckedAnew

(* Preparation ends without a half-finished reading.                         *)
LEMMA PrepareReads ==
    ASSUME Typed, Prepare
    PROVE  /\ pc = "prepare" /\ pc' \in {"prepare", "precondition", "failed"}
           /\ got' = NotRead /\ (pc' = "precondition" => partial' = NotRead)
<1>1. pc = "prepare" /\ got = NotRead /\ got' = NotRead
  BY NothingRead DEF Prepare, PrepareNothing, PrepareCreate, PrepareBackup,
     PrepareBackupSecurity, PrepareEnabled, PrepareSecurity, Preparing, unprepared, Sites
<1>2. pc' \in {"prepare", "precondition", "failed"}
  BY <1>1 DEF Prepare, PrepareNothing, PrepareCreate, PrepareBackup, PrepareBackupSecurity,
     PrepareEnabled, PrepareSecurity, NextPrepared, NextChange, Abort
<1>3. pc' = "precondition" => partial' = NotRead
  <2>1. CASE PrepareNothing \/ PrepareCreate \/ PrepareEnabled \/ PrepareSecurity
    BY <1>1, <2>1, NothingRead DEF PrepareNothing, PrepareCreate, PrepareEnabled,
       PrepareSecurity, Preparing, RestoresTask
  <2>2. CASE PrepareBackup  BY <1>1, <2>2 DEF PrepareBackup, Abort
  <2>3. CASE PrepareBackupSecurity  BY <2>3 DEF PrepareBackupSecurity
  <2>4. QED  BY <2>1, <2>2, <2>3 DEF Prepare
<1>4. QED  BY <1>1, <1>2, <1>3

LEMMA CheckedPrepare == Typed /\ Prepare => Checked'
BY PrepareReads, CheckedAnew DEF CheckPcs

LEMMA CheckedVerify == Typed /\ Verify => Checked'
<1> SUFFICES ASSUME Typed, Verify PROVE Checked'  OBVIOUS
<1>1. got' = NotRead /\ partial' = NotRead  BY NothingRead DEF Verify
<1>2. pc' \in {"undo_check", "precondition", "succeeded"}  BY VerifyCases
<1>3. QED  BY <1>1, <1>2, CheckedAnew

LEMMA CheckedUndoCalls ==
    Typed /\ (UndoMutate \/ UndoEnabled \/ UndoSecurity \/ UndoConfirm) => Checked'
<1> SUFFICES ASSUME Typed, UndoMutate \/ UndoEnabled \/ UndoSecurity \/ UndoConfirm
             PROVE  Checked'
  OBVIOUS
<1>1. pc' \in {"undo_check", "undo_enabled", "undo_security", "undo_confirm"}
  BY DEF UndoMutate, UndoEnabled, UndoSecurity, UndoConfirm, EndUndo
<1>2. got' = NotRead
  BY NothingRead DEF UndoMutate, UndoEnabled, UndoSecurity, UndoConfirm, Sites
<1>3. pc' = "undo_check" => partial' = NotRead
  <2>1. CASE UndoMutate
    <3>1. partial = NotRead  BY <2>1, NothingRead DEF UndoMutate, Sites
    <3>2. QED  BY <2>1, <3>1 DEF UndoMutate
  <2>2. CASE UndoEnabled  BY <2>2 DEF UndoEnabled
  <2>3. CASE UndoSecurity  BY <2>3 DEF UndoSecurity
  <2>4. CASE UndoConfirm  BY <2>4, NothingRead DEF UndoConfirm
  <2>5. QED  BY <2>1, <2>2, <2>3, <2>4
<1>4. QED  BY <1>1, <1>2, <1>3, CheckedAnew DEF CheckPcs

(* The other writer leaves the targets alone that it does not make dirty.    *)
LEMMA CheckedForeignWrite == Typed /\ Recorded /\ Checked /\ ForeignWrite => Checked'
<1> SUFFICES ASSUME Typed, Recorded, Checked, ForeignWrite PROVE Checked'  OBVIOUS
<1>1. UNCHANGED <<job, pc, index, plan, expected, partial, got, undo>>
  BY DEF ForeignWrite, reading
<1>2. PICK x \in Targets :
         /\ \E v : world' = [world EXCEPT ![x] = v]
         /\ hist' = [hist EXCEPT !.touched = @ \cup {x}, !.dirty = @ \cup {x},
                                 !.writer[x] = "foreign"]
  BY DEF ForeignWrite
<1>3. hist'.dirty = hist.dirty \cup {x}
  BY <1>2 DEF Recorded, Histories
<1>4. \A y : y \notin hist'.dirty => y \notin hist.dirty /\ world'[y] = world[y]
  BY <1>2, <1>3
<1>5. Subject' = Subject /\ LastUndo' = LastUndo /\ Allow' = Allow
  BY <1>1, SubjectStable DEF LastUndo, Allow
<1>6. \A seen, value : Saw(seen, value)' <=> Saw(seen, value)  BY <1>5 DEF Saw
<1>7. QED
  BY <1>1, <1>4, <1>5, <1>6 DEF Checked, HalfSeen, Seen, SeenByChange, SeenByUndo, Saw

LEMMA CheckedStutter == Checked /\ UNCHANGED vars => Checked'
<1> SUFFICES ASSUME Checked, UNCHANGED vars PROVE Checked'  OBVIOUS
<1>1. /\ UNCHANGED <<job, world, pc, index, plan, expected, partial, got, undo, hist>>
  BY DEF vars, reading
<1>2. Subject' = Subject /\ LastUndo' = LastUndo /\ Allow' = Allow
  BY <1>1, SubjectStable DEF LastUndo, Allow
<1>3. QED
  BY <1>1, <1>2 DEF Checked, HalfSeen, Seen, SeenByChange, SeenByUndo, Saw

-----------------------------------------------------------------------------
(* The calls of a check.                                                     *)

(* An observation leaves everything in place that the check compares.        *)
LEMMA ObserveKeeps ==
    ASSUME Typed, Recorded, Observe
    PROVE  /\ UNCHANGED <<job, world, pc, plan, index, undo>> /\ pc \in Sites
           /\ got = NotRead /\ Subject \in Targets
           /\ Subject' = Subject /\ Allow' = Allow
           /\ pc \in CheckPcs /\ partial = NotRead => Subject \notin hist'.dirty
           /\ Subject \notin hist'.dirty /\ partial # NotRead => Subject \notin hist.dirty
<1>1. UNCHANGED <<job, world, pc, plan, index, undo>> /\ Observing
  BY DEF Observe, ObserveTask, ObserveTaskSecurity, ObserveFolder, ObserveFolderListing,
         unobserved
<1>2. Subject \in Targets  BY <1>1, ObservedType
<1>3. Subject' = Subject /\ Allow' = Allow  BY <1>1, SubjectStable DEF Allow
<1>4. \/ StartCheck /\ partial = NotRead
      \/ UNCHANGED hist /\ partial # NotRead
  BY DEF Observe, ObserveTask, ObserveTaskSecurity, ObserveFolder, ObserveFolderListing
<1>5. pc \in CheckPcs /\ StartCheck => Subject \notin hist'.dirty
  BY DEF CheckPcs, StartCheck, Recorded, Histories
<1>6. QED  BY <1>1, <1>2, <1>3, <1>4, <1>5 DEF Observing

(* What the calls of a check of a task return.                               *)
LEMMA TaskCheck ==
    ASSUME Typed, Recorded, Checked, ObserveTask \/ ObserveTaskSecurity, pc \in CheckPcs,
           Subject \notin hist'.dirty
    PROVE  /\ Subject \in TaskPaths
           /\ partial' # NotRead =>
                 /\ world[Subject] # Missing
                 /\ partial' = [world[Subject] EXCEPT !.sec = NoSec]
           /\ got' \notin {NotRead, ReadError} => Saw(got', world[Subject])
<1>1. Observe  BY DEF Observe
<1>2. Subject \in TaskPaths  BY DEF ObserveTask, ObserveTaskSecurity
<1>3. Exists(Subject) => world[Subject] \in Definitions
  BY <1>1, <1>2, ObservedType DEF ObserveTask, ObserveTaskSecurity
<1>4. CASE ObserveTask
  BY <1>1, <1>2, <1>4, ObserveKeeps DEF ObserveTask, Exists, Saw
<1>5. CASE ObserveTaskSecurity
  <2>1. partial # NotRead /\ partial' = NotRead /\ Subject \notin hist.dirty
    BY <1>1, <1>5, ObserveKeeps DEF ObserveTaskSecurity
  <2>2. /\ world[Subject] # Missing /\ Exists(Subject)
        /\ partial = [world[Subject] EXCEPT !.sec = NoSec]
    BY <1>2, <2>1 DEF Checked, HalfSeen, Exists
  <2>3. world[Subject] \in Definitions  BY <1>3, <2>2
  <2>4. [partial EXCEPT !.sec = world[Subject].sec] = world[Subject]
    BY <2>2, <2>3, SecurityAgain
  <2>5. partial \in Definitions  BY <2>2, <2>3, EditRegistered
  <2>6. partial.sec = NoSec  BY <2>2, <2>3 DEF Definitions
  <2>7. partial \notin Secs \cup {Missing}
    BY <2>5, ReadingsAssumption, ValuesAssumption
  <2>8. \/ got' = world[Subject]
        \/ got' = ReadError
        \/ Allow /\ got' = partial
    BY <1>5, <2>4 DEF ObserveTaskSecurity
  <2>9. Allow => Saw(partial, world[Subject])
    BY <2>2, <2>6, <2>7 DEF Saw
  <2>10. QED  BY <1>2, <2>1, <2>8, <2>9 DEF Saw
<1>6. QED  BY <1>4, <1>5

(* And of a folder.                                                          *)
LEMMA FolderCheck ==
    ASSUME Typed, Recorded, Checked, ObserveFolder \/ ObserveFolderListing, pc \in CheckPcs,
           Subject \notin hist'.dirty
    PROVE  /\ Subject \in FolderPaths
           /\ partial' # NotRead => Allow
           /\ got' \notin {NotRead, ReadError} => Saw(got', world[Subject])
<1>1. Observe  BY DEF Observe
<1>2. Subject \in FolderPaths  BY DEF ObserveFolder, ObserveFolderListing
<1>3. CASE ObserveFolder
  BY <1>1, <1>2, <1>3, ObserveKeeps DEF ObserveFolder, Exists, Saw
<1>4. CASE ObserveFolderListing
  <2>1. partial # NotRead /\ partial' = NotRead /\ Subject \notin hist.dirty
    BY <1>1, <1>4, ObserveKeeps DEF ObserveFolderListing
  <2>2. Allow  BY <1>2, <2>1 DEF Checked, HalfSeen
  <2>3. partial = NoSec  BY <1>2, <1>4, <2>1 DEF Typed, Control, CheckPcs, Sites
  <2>4. NoSec \notin Secs \cup {Missing}  BY ValuesAssumption
  <2>5. \/ got' = ReadError
        \/ world[Subject] # Missing /\ got' = NoSec
    BY <1>4, <2>3 DEF ObserveFolderListing, Exists
  <2>6. QED  BY <1>2, <2>1, <2>2, <2>4, <2>5 DEF Saw
<1>5. QED  BY <1>3, <1>4

LEMMA CheckedObserve == Typed /\ Recorded /\ Checked /\ Observe => Checked'
<1> SUFFICES ASSUME Typed, Recorded, Checked, Observe PROVE Checked'  OBVIOUS
<1>1. /\ UNCHANGED <<job, world, pc, plan, index, undo>> /\ pc \in Sites
      /\ Subject' = Subject /\ Allow' = Allow
  BY ObserveKeeps
<1>2. pc' \notin {"stop", "mutate", "undo_stop", "undo_mutate"}  BY <1>1 DEF Sites
<1>3. CASE pc \in CheckPcs /\ Subject \notin hist'.dirty
  <2>1. TaskPaths \cap FolderPaths = {}  BY PathsAssumption
  <2>2. HalfSeen'
    BY <1>1, <1>3, <2>1, TaskCheck, FolderCheck DEF HalfSeen, Observe
  <2>3. got' \notin {NotRead, ReadError} => Saw(got', world[Subject])
    BY <1>3, TaskCheck, FolderCheck DEF Observe
  <2>4. Seen'  BY <1>1, <2>3 DEF Seen, Saw
  <2>5. QED  BY <1>2, <2>2, <2>4 DEF Checked, SeenByChange, SeenByUndo
<1>4. CASE ~(pc \in CheckPcs /\ Subject \notin hist'.dirty)
  BY <1>1, <1>2, <1>4 DEF Checked, HalfSeen, Seen, SeenByChange, SeenByUndo
<1>5. QED  BY <1>3, <1>4

-----------------------------------------------------------------------------
(* From the check to the write.                                              *)

(* A value that matches an expectation is not an error.                      *)
LEMMA ObservationIsNoError == ReadError \notin Observations
BY ReadingsAssumption DEF Observations

LEMMA CheckedPrecondition == Typed /\ Checked /\ Precondition => Checked'
<1> SUFFICES ASSUME Typed, Checked, Precondition PROVE Checked'  OBVIOUS
<1>1. /\ pc = "precondition" /\ got # NotRead /\ got' = NotRead /\ partial' = NotRead
      /\ UNCHANGED <<job, world, plan, expected, undo, hist>>
      /\ pc' \in {"stop", "mutate", "undo_check"}
  BY NothingRead DEF Precondition, Compensate
<1>2. CASE pc' = "undo_check"  BY <1>1, <1>2, CheckedAnew
<1>3. CASE pc' \in {"stop", "mutate"}
  <2>1. UNCHANGED index /\ got = expected[index]
    BY <1>3 DEF Precondition, Compensate, StillExpected
  <2>2. expected[index] \in Observations
    <3>1. expected \in Seq(Observations) /\ index \in 1..Len(expected)
      BY <1>1 DEF Typed, TypeOK, Control, ChangePcs
    <3>2. QED  BY <3>1
  <2>3. got # ReadError  BY <2>1, <2>2, ObservationIsNoError
  <2>4. Subject = plan[index].target  BY <1>1, CurrentPlanned DEF ChangePcs, Subject
  <2>5. plan[index].target \notin hist.dirty => Saw(expected[index], world[plan[index].target])
    BY <1>1, <2>1, <2>3, <2>4 DEF Checked, Seen, CheckPcs
  <2>6. SeenByChange'  BY <1>1, <2>1, <2>5 DEF SeenByChange, Saw, Allow
  <2>7. QED  BY <1>3, <2>6 DEF Checked, HalfSeen, Seen, SeenByUndo, CheckPcs
<1>4. QED  BY <1>1, <1>2, <1>3

LEMMA CheckedStop == Typed /\ Recorded /\ Checked /\ Stop => Checked'
<1> SUFFICES ASSUME Typed, Recorded, Checked, Stop PROVE Checked'  OBVIOUS
<1>1. /\ pc = "stop" /\ pc' \in {"mutate", "undo_check"}
      /\ UNCHANGED <<job, world, index, plan, expected, partial, got>>
      /\ hist' = [hist EXCEPT !.stopped = @ \cup {Subject}]
  BY DEF Stop, reading
<1>2. got' = NotRead /\ partial' = NotRead  BY <1>1, NothingRead DEF Sites
<1>3. hist'.dirty = hist.dirty  BY <1>1 DEF Recorded, Histories
<1>4. SeenByChange'  BY <1>1, <1>3 DEF Checked, SeenByChange, Saw, Allow
<1>5. QED  BY <1>1, <1>2, <1>4 DEF Checked, HalfSeen, Seen, SeenByUndo

LEMMA CheckedUndoCheck == Typed /\ Checked /\ UndoCheck => Checked'
<1> SUFFICES ASSUME Typed, Checked, UndoCheck PROVE Checked'  OBVIOUS
<1>1. /\ pc = "undo_check" /\ undo # <<>> /\ got # NotRead /\ got' = NotRead
      /\ partial' = NotRead /\ UNCHANGED <<job, world, hist>>
      /\ pc' \in {"undo_stop", "undo_mutate", "undo_check"}
  BY NothingRead DEF UndoCheck, EndUndo, unchangedByUndo
<1>2. CASE pc' = "undo_check"  BY <1>1, <1>2, CheckedAnew
<1>3. CASE pc' \in {"undo_stop", "undo_mutate"}
  <2>1. UNCHANGED undo /\ got = LastUndo.after
    BY <1>3 DEF UndoCheck, EndUndo, UndoUnchanged
  <2>2. LastUndo.after \in Observations /\ Subject = LastUndo.change.target
    BY <1>1, CurrentPlanned DEF UndoPcs, UndoEntries, Subject
  <2>3. got # ReadError  BY <2>1, <2>2, ObservationIsNoError
  <2>4. LastUndo.change.target \notin hist.dirty =>
           Saw(LastUndo.after, world[LastUndo.change.target])
    BY <1>1, <2>1, <2>2, <2>3 DEF Checked, Seen, CheckPcs
  <2>5. LastUndo' = LastUndo  BY <2>1 DEF LastUndo
  <2>6. SeenByUndo'  BY <1>1, <2>4, <2>5 DEF SeenByUndo, Saw, Allow
  <2>7. QED  BY <1>3, <2>6 DEF Checked, HalfSeen, Seen, SeenByChange, CheckPcs
<1>4. QED  BY <1>1, <1>2, <1>3

LEMMA CheckedUndoStop == Typed /\ Recorded /\ Checked /\ UndoStop => Checked'
<1> SUFFICES ASSUME Typed, Recorded, Checked, UndoStop PROVE Checked'  OBVIOUS
<1>1. /\ pc = "undo_stop" /\ UNCHANGED <<job, world, partial, got>>
      /\ hist' = [hist EXCEPT !.stopped = @ \cup {LastUndo.change.target}]
      /\ \/ pc' = "undo_check"
         \/ pc' = "undo_mutate" /\ UNCHANGED undo
  BY DEF UndoStop, EndUndo, UndoUnchanged, unchangedByUndo
<1>2. got' = NotRead /\ partial' = NotRead  BY <1>1, NothingRead DEF Sites
<1>3. hist'.dirty = hist.dirty  BY <1>1 DEF Recorded, Histories
<1>4. SeenByUndo'  BY <1>1, <1>3 DEF Checked, SeenByUndo, Saw, Allow, LastUndo
<1>5. QED  BY <1>1, <1>2, <1>4 DEF Checked, HalfSeen, Seen, SeenByChange

LEMMA StepChecked == Typed /\ Recorded /\ Checked /\ [Next]_vars => Checked'
BY CheckedInspect, CheckedObserve, CheckedPrepare, CheckedPrecondition, CheckedStop,
   CheckedVerify, CheckedUndoCheck, CheckedUndoStop, CheckedUndoCalls, CheckedForeignWrite,
   CheckedStutter
DEF Next, Apply, RunChange, RunUndo, Terminated

LEMMA AlwaysChecked == Spec => [](Typed /\ Recorded /\ Checked)
BY InitTyped, StepTyped, InitRecorded, StepRecorded, InitChecked, StepChecked, PTL DEF Spec

(* A native call changes no other target than its own.                       *)
LEMMA EffectLocal ==
    ASSUME NEW x, NEW y, NEW o, NEW value, Effect(x, o, value), world'[y] # world[y]
    PROVE  y = x
BY DEF Effect

(* Only the native calls of the two loops change the scheduler.              *)
LEMMA WriteCalls ==
    ASSUME Typed, [Next]_vars, NEW x, Writes(x, {"mutate", "undo_mutate"})
    PROVE  Mutate \/ UndoMutate
<1>1. foreign' = foreign /\ pc \in {"mutate", "undo_mutate"} /\ world'[x] # world[x]
  BY DEF Writes
<1>2. ~ForeignWrite
  <2>1. foreign \in Nat  BY BoundsAssumption DEF Typed, TypeOK
  <2>2. ForeignWrite => foreign' = foreign + 1  BY DEF ForeignWrite
  <2>3. QED  BY <1>1, <2>1, <2>2
<1>3. ~UNCHANGED vars  BY <1>1 DEF vars
<1>4. ~(Inspect \/ MakePlan \/ Observe \/ Preflight \/ Agree \/ Prepare)
  BY <1>1 DEF Inspect, ListTasks, ListFolders, ReadSecurity, MakePlan, Observe, ObserveTask,
     ObserveTaskSecurity, ObserveFolder, ObserveFolderListing, unobserved, Preflight, Agree,
     Prepare, PrepareNothing, PrepareCreate, PrepareBackup, PrepareBackupSecurity,
     PrepareEnabled, PrepareSecurity, unprepared
<1>5. ~(Precondition \/ Stop \/ ReadBack \/ VerifyAcl \/ Verify)
  BY <1>1 DEF Precondition, Stop, ReadBack, VerifyAcl, Verify
<1>6. ~(AllUndone \/ UndoCheck \/ UndoStop \/ UndoEnabled \/ UndoSecurity \/ UndoConfirm)
  BY <1>1 DEF AllUndone, UndoCheck, UndoStop, UndoEnabled, UndoSecurity, UndoConfirm
<1>7. QED
  BY <1>2, <1>3, <1>4, <1>5, <1>6 DEF Next, Apply, RunChange, RunUndo, Terminated

(* The steps that change the scheduler write what was checked.               *)
LEMMA WriteObserved ==
    ASSUME Typed, Checked, [Next]_vars, NEW x \in Targets, Writes(x, {"mutate", "undo_mutate"})
    PROVE  Saw(IF pc = "mutate" THEN expected[index] ELSE LastUndo.after, world[x])
<1>1. foreign' = foreign /\ pc \in {"mutate", "undo_mutate"} /\ x \notin hist.dirty
      /\ world'[x] # world[x]
  BY DEF Writes
<1>2. Mutate \/ UndoMutate  BY WriteCalls
<1>3. CASE Mutate
  <2>1. pc = "mutate" /\ \E o, value : Effect(Subject, o, value)  BY <1>3 DEF Mutate
  <2>2. x = Subject  BY <1>1, <2>1, EffectLocal
  <2>3. Subject = plan[index].target  BY <2>1, CurrentPlanned DEF ChangePcs, Subject
  <2>4. QED  BY <1>1, <2>1, <2>2, <2>3 DEF Checked, SeenByChange
<1>4. CASE UndoMutate
  <2>1. pc = "undo_mutate"  BY <1>4 DEF UndoMutate
  <2>2. \E o, value : Effect(LastUndo.change.target, o, value)
    BY <1>1, <1>4 DEF UndoMutate
  <2>3. x = LastUndo.change.target  BY <1>1, <2>2, EffectLocal
  <2>4. QED  BY <1>1, <2>1, <2>3 DEF Checked, SeenByUndo
<1>5. QED  BY <1>2, <1>3, <1>4

(* Apply and compensation write a target only in the state they checked      *)
(* last, whatever fails, unless another writer changed it during that check  *)
(* or later.                                                                 *)
THEOREM WritesObserved == Spec => WritesOnlyObserved
<1>1. Typed /\ Checked /\ [Next]_vars =>
         [\A x \in Targets :
             Writes(x, {"mutate", "undo_mutate"}) =>
                 Saw(IF pc = "mutate" THEN expected[index] ELSE LastUndo.after, world[x])]_vars
  BY WriteObserved
<1>2. QED  BY <1>1, AlwaysChecked, PTL DEF Spec, WritesOnlyObserved

-----------------------------------------------------------------------------
(* Ownership.                                                                *)

TaskReadings == Definitions \cup {Missing}
PlannedTasks == {i \in DOMAIN plan : plan[i].target \in TaskPaths}

(* A task of somebody else may be taken over.                                *)
Adoptable(t) == job.adopt /\ t \in DOMAIN Manifest.tasks

(* What planning lets a change of a task do, ...                             *)
Rights ==
    \A i \in PlannedTasks :
        /\ plan[i].kind = "DeleteTask" =>
              job.prune /\ plan[i].target \notin DOMAIN Manifest.tasks
        /\ plan[i].target \in DOMAIN snapshot.tasks =>
              snapshot.tasks[plan[i].target].marked \/ Adoptable(plan[i].target)

(* ... what observing a task returns, ...                                    *)
Readings ==
    /\ got \notin {NotRead, ReadError} /\ Subject \in TaskPaths => got \in TaskReadings
    /\ \A i \in PlannedTasks \cap DOMAIN expected : expected[i] \in TaskReadings

(* ... and the task that a change starts from, which is owned or adopted.    *)
Entitled(i) == expected[i] # Missing => expected[i].marked \/ Adoptable(plan[i].target)
StartsEntitled ==
    pc \in {"prepare"} \cup ChangePcs => \A i \in PlannedTasks : Entitled(i)

Rightful == Rights /\ Readings /\ StartsEntitled

LEMMA InitRightful == Init => Rightful
BY DEF Init, Rightful, Rights, Readings, StartsEntitled, PlannedTasks, ChangePcs

(* A step that neither plans nor changes an expectation.                     *)
LEMMA RightfulQuiet ==
    ASSUME Rightful, UNCHANGED <<job, snapshot, plan, expected>>,
           got' = NotRead \/ UNCHANGED <<pc, index, undo, got>>,
           pc' \in {"prepare"} \cup ChangePcs => pc \in {"prepare"} \cup ChangePcs
    PROVE  Rightful'
<1>1. PlannedTasks' = PlannedTasks /\ Manifest' = Manifest  BY DEF PlannedTasks, Manifest
<1>2. \A t : Adoptable(t)' <=> Adoptable(t)  BY <1>1 DEF Adoptable
<1>3. Rights'  BY <1>1, <1>2 DEF Rightful, Rights, Adoptable
<1>4. Readings'
  <2>1. UNCHANGED <<pc, index, undo, got>> => Subject' = Subject  BY SubjectStable
  <2>2. QED  BY <1>1, <2>1 DEF Rightful, Readings
<1>5. StartsEntitled'
  BY <1>1, <1>2 DEF Rightful, StartsEntitled, Entitled, Adoptable
<1>6. QED  BY <1>3, <1>4, <1>5 DEF Rightful

LEMMA RightfulCalls ==
    ASSUME Typed, Rightful,
           \/ Prepare \/ Precondition \/ Stop \/ Mutate \/ ReadBack \/ VerifyAcl \/ RunUndo
           \/ ForeignWrite \/ UNCHANGED vars
    PROVE  Rightful'
<1>1. CASE Prepare
  <2>1. UNCHANGED <<job, snapshot, plan, expected>>
    BY <1>1 DEF Prepare, PrepareNothing, PrepareCreate, PrepareBackup, PrepareBackupSecurity,
       PrepareEnabled, PrepareSecurity, unprepared, inspection
  <2>2. QED  BY <1>1, <2>1, PrepareReads, RightfulQuiet
<1>2. CASE Precondition
  BY <1>2, RightfulQuiet DEF Precondition, Compensate, inspection, ChangePcs
<1>3. CASE Stop \/ Mutate \/ ReadBack
  <2>1. got' = NotRead
    BY <1>3, NothingRead DEF Stop, Mutate, ReadBack, Sites, reading
  <2>2. pc \in ChangePcs /\ UNCHANGED <<job, snapshot, plan, expected>>
    BY <1>3 DEF Stop, Mutate, ReadBack, ChangePcs, inspection
  <2>3. QED  BY <2>1, <2>2, RightfulQuiet
<1>4. CASE VerifyAcl  BY <1>4, RightfulQuiet DEF VerifyAcl, inspection
<1>5. CASE RunUndo
  <2>1. UNCHANGED <<job, snapshot, plan, expected>>
    BY <1>5 DEF RunUndo, AllUndone, UndoCheck, UndoStop, UndoMutate, UndoEnabled, UndoSecurity,
       UndoConfirm, unchangedByUndo, inspection
  <2>2. got' = NotRead
    BY <1>5, NothingRead DEF RunUndo, AllUndone, UndoCheck, UndoStop, UndoMutate, UndoEnabled,
       UndoSecurity, UndoConfirm, Sites, Typed, Control
  <2>3. pc' \notin {"prepare"} \cup ChangePcs
    BY <1>5 DEF RunUndo, AllUndone, UndoCheck, UndoStop, UndoMutate, UndoEnabled, UndoSecurity,
       UndoConfirm, EndUndo, ChangePcs
  <2>4. QED  BY <2>1, <2>2, <2>3, RightfulQuiet
<1>6. CASE ForeignWrite  BY <1>6, RightfulQuiet DEF ForeignWrite, inspection, reading
<1>7. CASE UNCHANGED vars  BY <1>7, RightfulQuiet DEF vars
<1>8. QED  BY <1>1, <1>2, <1>3, <1>4, <1>5, <1>6, <1>7

(* Only a task that bears the marker, or may be adopted, is planned for.     *)
LEMMA RightfulChange ==
    ASSUME Typed, ~OwnershipConflict(Manifest, snapshot, job.adopt),
           NEW c \in PlanChanges(Manifest, snapshot, job.prune), c.target \in TaskPaths
    PROVE  /\ c.kind = "DeleteTask" => job.prune /\ c.target \notin DOMAIN Manifest.tasks
           /\ c.target \in DOMAIN snapshot.tasks =>
                 snapshot.tasks[c.target].marked \/ Adoptable(c.target)
<1>1. c \in Planned  BY PlannedChanges DEF Typed
<1>2. c.kind = "DeleteTask" => c \in Prunings(Manifest, snapshot, job.prune)
  <2>1. c \in FolderCreations(Manifest, snapshot) => c.kind = "CreateFolder"
    BY DEF FolderCreations, MkChange
  <2>2. c \in FolderSecurityChanges(Manifest, snapshot) => c.kind = "SetFolderSecurity"
    BY DEF FolderSecurityChanges, MkChange
  <2>3. ASSUME NEW t \in DOMAIN Manifest.tasks, c \in TaskChanges(Manifest, snapshot, t)
        PROVE  c.kind # "DeleteTask"
    BY <2>3 DEF TaskChanges, MkChange
  <2>4. c \in UNION {TaskChanges(Manifest, snapshot, t) : t \in DOMAIN Manifest.tasks} =>
           c.kind # "DeleteTask"
    BY <2>3
  <2>5. QED  BY <2>1, <2>2, <2>4 DEF PlanChanges
<1>3. CASE c.kind = "DeleteTask"
  <2>1. PICK t \in {u \in DOMAIN snapshot.tasks \ DOMAIN Manifest.tasks :
                       job.prune /\ snapshot.tasks[u].marked} : c = MkChange("DeleteTask", t)
    BY <1>2, <1>3 DEF Prunings
  <2>2. c.target = t  BY <2>1 DEF MkChange
  <2>3. QED  BY <2>1, <2>2
<1>4. CASE c.kind # "DeleteTask"
  <2>1. c.target \in DOMAIN Manifest.tasks
    BY <1>1, <1>4, PlannedTargets, PathsAssumption
    DEF Typed, Planned, WellFormed, Change, Kinds, Registrations
  <2>2. QED  BY <1>4, <2>1 DEF OwnershipConflict, Adoptable
<1>5. QED  BY <1>3, <1>4

LEMMA RightfulPlan ==
    ASSUME Typed, Rightful, Inspect \/ MakePlan
    PROVE  Rightful'
<1>1. plan = <<>> /\ expected = <<>> /\ expected' = <<>> /\ got' = NotRead
  <2>1. pc \in InspectPcs
    BY DEF Inspect, ListTasks, ListFolders, ReadSecurity, MakePlan, InspectPcs
  <2>2. got = NotRead  BY <2>1, NothingRead DEF InspectPcs, Sites
  <2>3. QED
    BY <2>1, <2>2 DEF Inspect, ListTasks, ListFolders, ReadSecurity, MakePlan, reading, Typed,
       Control
<1>2. pc' \notin {"prepare"} \cup ChangePcs
  BY DEF Inspect, ListTasks, ListFolders, ReadSecurity, MakePlan, Abort, ChangePcs
<1>3. StartsEntitled' /\ Readings'  BY <1>1, <1>2 DEF StartsEntitled, Readings
<1>4. CASE plan' = <<>>  BY <1>3, <1>4 DEF Rightful, Rights, PlannedTasks
<1>5. CASE plan' # <<>>
  <2>1. /\ plan' \in Schedules(PlanChanges(Manifest, snapshot, job.prune))
        /\ ~OwnershipConflict(Manifest, snapshot, job.adopt)
        /\ UNCHANGED <<job, snapshot>>
    BY <1>1, <1>5 DEF Inspect, ListTasks, ListFolders, ReadSecurity, MakePlan, inspection
  <2>2. \A i \in DOMAIN plan' : plan'[i] \in PlanChanges(Manifest, snapshot, job.prune)
    BY <2>1 DEF Schedules
  <2>3. Rights'
    BY <2>1, <2>2, RightfulChange DEF Rights, PlannedTasks, Adoptable, Manifest
  <2>4. QED  BY <1>3, <2>3 DEF Rightful
<1>6. QED  BY <1>4, <1>5

LEMMA RightfulObserve ==
    ASSUME Typed, Rightful, Observe
    PROVE  Rightful'
<1>1. /\ UNCHANGED <<job, snapshot, pc, plan, index, undo, expected>> /\ Observing
      /\ Subject' = Subject
  BY SubjectStable DEF Observe, ObserveTask, ObserveTaskSecurity, ObserveFolder,
     ObserveFolderListing, unobserved, inspection
<1>2. PlannedTasks' = PlannedTasks /\ Manifest' = Manifest
  BY <1>1 DEF PlannedTasks, Manifest
<1>3. Rights' /\ StartsEntitled'
  BY <1>1, <1>2 DEF Rightful, Rights, StartsEntitled, Entitled, Adoptable
<1>4. ASSUME Subject \in TaskPaths, got' \notin {NotRead, ReadError}
      PROVE  got' \in TaskReadings
  <2>1. CASE ObserveTask  BY <1>1, <1>4, <2>1 DEF ObserveTask, Observing, TaskReadings
  <2>2. CASE ObserveTaskSecurity
    <3>1. partial \in Definitions
      BY <1>1, <1>4, <2>2 DEF ObserveTaskSecurity, Observing, Typed, Control
    <3>2. Exists(Subject) => world[Subject].sec \in Secs \cup {NoSec}
      BY <1>1, <1>4, ObservedType DEF Definitions
    <3>3. Exists(Subject) => [partial EXCEPT !.sec = world[Subject].sec] \in Definitions
      BY <3>1, <3>2, EditRegistered
    <3>4. QED  BY <1>4, <2>2, <3>1, <3>3 DEF ObserveTaskSecurity, TaskReadings
  <2>3. ~ObserveFolder /\ ~ObserveFolderListing
    BY <1>4, PathsAssumption DEF ObserveFolder, ObserveFolderListing
  <2>4. QED  BY <2>1, <2>2, <2>3 DEF Observe
<1>5. Readings'  BY <1>1, <1>2, <1>4 DEF Rightful, Readings
<1>6. QED  BY <1>3, <1>5 DEF Rightful

LEMMA RightfulPreflight ==
    ASSUME Typed, Rightful, Preflight
    PROVE  Rightful'
<1>1. /\ UNCHANGED <<job, snapshot, plan>> /\ got' = NotRead
      /\ pc' \notin {"prepare"} \cup ChangePcs
      /\ expected' = expected \/ (expected' = Append(expected, got) /\ got # ReadError)
  BY DEF Preflight, Abort, NextChange, inspection, ChangePcs
<1>2. PlannedTasks' = PlannedTasks /\ Manifest' = Manifest
  BY <1>1 DEF PlannedTasks, Manifest
<1>3. Rights' /\ StartsEntitled'
  BY <1>1, <1>2 DEF Rightful, Rights, StartsEntitled, Adoptable
<1>4. CASE expected' = expected  BY <1>1, <1>2, <1>3, <1>4 DEF Rightful, Readings
<1>5. CASE expected' = Append(expected, got) /\ got # ReadError
  <2>1. /\ expected \in Seq(Observations) /\ Len(expected) + 1 = index /\ index \in Nat
        /\ Subject = plan[index].target /\ got # NotRead
    BY CurrentPlanned DEF Preflight, Typed, TypeOK, Control, Subject
  <2>2. ASSUME NEW i \in PlannedTasks, i \in DOMAIN expected'
        PROVE  expected'[i] \in TaskReadings
    <3>1. CASE i = index
      <4>1. expected'[i] = got  BY <1>5, <2>1, <3>1
      <4>2. Subject \in TaskPaths  BY <2>1, <3>1 DEF PlannedTasks
      <4>3. QED  BY <1>5, <2>1, <4>1, <4>2 DEF Rightful, Readings
    <3>2. CASE i # index
      <4>1. i \in DOMAIN expected /\ expected'[i] = expected[i]
        BY <1>5, <2>1, <2>2, <3>2
      <4>2. i \in PlannedTasks  BY <2>2
      <4>3. QED  BY <4>1, <4>2 DEF Rightful, Readings
    <3>3. QED  BY <3>1, <3>2
  <2>3. Readings'  BY <1>1, <1>2, <2>2 DEF Readings
  <2>4. QED  BY <1>3, <2>3 DEF Rightful
<1>6. QED  BY <1>1, <1>3, <1>4, <1>5 DEF Rightful

(* Preparation begins with expectations that agree with the plan's snapshot. *)
LEMMA RightfulAgree ==
    ASSUME Typed, Rightful, Agree
    PROVE  Rightful'
<1>1. UNCHANGED <<job, snapshot, plan, expected>> /\ got' = NotRead
  BY NothingRead DEF Agree, inspection, reading, Sites
<1>2. PlannedTasks' = PlannedTasks /\ Manifest' = Manifest
  BY <1>1 DEF PlannedTasks, Manifest
<1>3. Rights' /\ Readings'
  BY <1>1, <1>2 DEF Rightful, Rights, Readings, Adoptable
<1>4. CASE pc' = "failed"
  BY <1>3, <1>4 DEF Rightful, StartsEntitled, ChangePcs
<1>5. CASE \A i \in 1..Len(plan) : AgreesWithInspection(plan[i], expected[i])
  <2>1. ASSUME NEW i \in PlannedTasks  PROVE Entitled(i)
    <3>1. i \in 1..Len(plan) /\ plan[i].target \in TaskPaths
      BY DEF PlannedTasks, Typed, TypeOK
    <3>2. AgreesWithInspection(plan[i], expected[i])  BY <1>5, <3>1
    <3>3. CASE plan[i].target \in DOMAIN snapshot.tasks
      <4>1. snapshot.tasks[plan[i].target].marked = expected[i].marked
        BY <3>1, <3>2, <3>3 DEF AgreesWithInspection, SemanticallyEqual
      <4>2. QED  BY <3>3, <4>1 DEF Rightful, Rights, Entitled
    <3>4. CASE plan[i].target \notin DOMAIN snapshot.tasks
      BY <3>1, <3>2, <3>4 DEF AgreesWithInspection, Entitled
    <3>5. QED  BY <3>3, <3>4
  <2>2. StartsEntitled'
    BY <1>1, <1>2, <2>1 DEF StartsEntitled, Entitled, Adoptable
  <2>3. QED  BY <1>3, <2>2 DEF Rightful
<1>6. QED  BY <1>4, <1>5 DEF Agree

(* A change that took effect leaves an owned task, or leaves the owner alone. *)
LEMMA EffectEntitled ==
    ASSUME Typed, Rightful, pc = "verify", TookEffect, Subject \in TaskPaths, got # Missing
    PROVE  got.marked \/ Adoptable(Subject)
<1>1. /\ Current \in Planned /\ Current = plan[index] /\ Subject = plan[index].target
      /\ index \in PlannedTasks
  BY CurrentPlanned DEF ChangePcs, Subject, PlannedTasks, Typed, TypeOK, Control
<1>2. Current.kind \in Kinds \ {"CreateFolder", "SetFolderSecurity"}
  <2>1. Current.target \in TaskPaths /\ Current.target \notin FolderPaths
    BY <1>1, PathsAssumption
  <2>2. QED  BY <1>1, <2>1, PlannedTargets DEF Typed
<1>3. ShapeAsDesired(Current, expected[index], got)  BY DEF TookEffect
<1>4. CASE Current.kind \in Registrations
  <2>1. SemanticallyEqual(got, OwnedDefinition(Manifest, Current.target))
    BY <1>3, <1>4 DEF ShapeAsDesired, Registrations
  <2>2. QED  BY <2>1 DEF SemanticallyEqual, OwnedDefinition
<1>5. CASE Current.kind = "DeleteTask"
  BY <1>3, <1>5 DEF ShapeAsDesired, Registrations
<1>6. CASE Current.kind \in {"SetEnabled", "SetTaskSecurity"}
  <2>1. expected[index] # Missing /\ expected[index].marked = got.marked
    BY <1>3, <1>6 DEF ShapeAsDesired, Registrations, SemanticallyEqual
  <2>2. Entitled(index)  BY <1>1 DEF Rightful, StartsEntitled, ChangePcs
  <2>3. QED  BY <1>1, <2>1, <2>2 DEF Entitled
<1>7. QED  BY <1>2, <1>4, <1>5, <1>6 DEF Kinds, Registrations

LEMMA RightfulVerify ==
    ASSUME Typed, Rightful, Verify
    PROVE  Rightful'
<1>1. /\ UNCHANGED <<job, snapshot, plan>> /\ got' = NotRead /\ pc = "verify" /\ got # NotRead
      /\ DOMAIN expected = 1..Len(plan) /\ DOMAIN plan = 1..Len(plan)
      /\ Current = plan[index] /\ Subject = plan[index].target
  BY CurrentPlanned, SMTT(30)
     DEF Verify, inspection, ChangePcs, Typed, TypeOK, Control, Subject
<1>2. PlannedTasks' = PlannedTasks /\ Manifest' = Manifest
  BY <1>1 DEF PlannedTasks, Manifest
<1>3. Rights'  BY <1>1, <1>2 DEF Rightful, Rights, Adoptable
<1>4. CASE expected' = expected
  BY <1>1, <1>2, <1>3, <1>4 DEF Rightful, Readings, StartsEntitled, Entitled, Adoptable,
     ChangePcs
<1>5. CASE expected' # expected
  <2>1. /\ TookEffect /\ got # ReadError
        /\ expected' = [i \in 1..Len(plan) |->
               IF i > index /\ SameTarget(plan[i], Current) THEN got ELSE expected[i]]
    BY <1>5 DEF Verify, TookEffect
  <2>2. ASSUME NEW i \in PlannedTasks
        PROVE  /\ expected'[i] \in TaskReadings
               /\ expected'[i] # Missing =>
                     expected'[i].marked \/ Adoptable(plan[i].target)
    <3>1. i \in 1..Len(plan) /\ plan[i].target \in TaskPaths  BY <1>1 DEF PlannedTasks
    <3>2. CASE i > index /\ SameTarget(plan[i], Current)
      <4>1. expected'[i] = got /\ plan[i].target = Subject
        BY <1>1, <2>1, <3>1, <3>2 DEF SameTarget
      <4>2. got \in TaskReadings
        BY <1>1, <2>1, <3>1, <4>1 DEF Rightful, Readings
      <4>3. QED  BY <1>1, <2>1, <3>1, <4>1, <4>2, EffectEntitled
    <3>3. CASE ~(i > index /\ SameTarget(plan[i], Current))
      <4>1. expected'[i] = expected[i]  BY <2>1, <3>1, <3>3
      <4>2. Entitled(i)  BY <1>1 DEF Rightful, StartsEntitled, ChangePcs
      <4>3. expected[i] \in TaskReadings  BY <1>1, <3>1 DEF Rightful, Readings
      <4>4. QED  BY <4>1, <4>2, <4>3 DEF Entitled
    <3>4. QED  BY <3>2, <3>3
  <2>3. Readings'  BY <1>1, <1>2, <2>2 DEF Readings
  <2>4. StartsEntitled'  BY <1>1, <1>2, <2>2 DEF StartsEntitled, Entitled, Adoptable
  <2>5. QED  BY <1>3, <2>3, <2>4 DEF Rightful
<1>6. QED  BY <1>4, <1>5

LEMMA StepRightful == Typed /\ Rightful /\ [Next]_vars => Rightful'
BY RightfulPlan, RightfulObserve, RightfulPreflight, RightfulAgree, RightfulVerify, RightfulCalls
DEF Next, Apply, RunChange, Terminated

LEMMA AlwaysRightful == Spec => [](Typed /\ Rightful)
BY InitTyped, StepTyped, InitRightful, StepRightful, PTL DEF Spec

(* On the way forward a task is replaced or removed only by right.           *)
LEMMA ForwardByRight ==
    ASSUME Typed, Checked, Rightful, [Next]_vars, NEW t \in TaskPaths, Writes(t, {"mutate"}),
           world[t] # Missing
    PROVE  /\ ~world[t].marked => job.adopt /\ t \in DOMAIN Manifest.tasks
           /\ world'[t] = Missing => job.prune /\ t \notin DOMAIN Manifest.tasks
<1>1. pc = "mutate" /\ world'[t] # world[t] /\ t \in Targets /\ t \notin FolderPaths
  BY PathsAssumption DEF Writes, Targets
<1>2. Writes(t, {"mutate", "undo_mutate"})  BY DEF Writes
<1>3. Saw(expected[index], world[t])  BY <1>1, <1>2, WriteObserved
<1>4. Mutate  BY <1>1, <1>2, WriteCalls DEF UndoMutate
<1>5. PICK o \in Outcomes(Accepts(Current)) : Effect(Subject, o, Desired(Current))
  BY <1>4 DEF Mutate
<1>6. t = Subject /\ o.took /\ world' = [world EXCEPT ![t] = Desired(Current)]
  <2>1. o.took /\ world' = [world EXCEPT ![Subject] = Desired(Current)]
    BY <1>1, <1>5 DEF Effect
  <2>2. t = Subject  BY <1>1, <1>5, EffectLocal
  <2>3. QED  BY <2>1, <2>2
<1>7. /\ Current \in Planned /\ Current = plan[index] /\ Current.target = t
      /\ index \in PlannedTasks /\ index \in DOMAIN expected
  BY <1>1, <1>6, CurrentPlanned DEF ChangePcs, Subject, PlannedTasks, Typed, TypeOK, Control
<1>8. world[t] \in Definitions
  BY <1>1, WorldValues DEF Typed, TypeOK, Registered
<1>9. expected[index] # Missing /\ expected[index].marked = world[t].marked
  <2>1. expected[index] \in TaskReadings  BY <1>7 DEF Rightful, Readings
  <2>2. CASE expected[index] = world[t]  BY <2>2
  <2>3. CASE expected[index] # world[t]
    <3>1. expected[index] \in Definitions /\ expected[index] # Missing /\ expected[index] # NoSec
      BY <1>3, <2>1, <2>3, ReadingsAssumption DEF Saw, TaskReadings
    <3>2. expected[index] = [world[t] EXCEPT !.sec = NoSec]
      BY <1>3, <2>3, <3>1 DEF Saw
    <3>3. QED  BY <1>8, <3>1, <3>2 DEF Definitions
  <2>4. QED  BY <2>2, <2>3
<1>10. ASSUME ~world[t].marked
       PROVE  job.adopt /\ t \in DOMAIN Manifest.tasks
  <2>1. Entitled(index)  BY <1>1, <1>7 DEF Rightful, StartsEntitled, ChangePcs
  <2>2. QED  BY <1>7, <1>9, <1>10, <2>1 DEF Entitled, Adoptable
<1>11. ASSUME world'[t] = Missing
       PROVE  job.prune /\ t \notin DOMAIN Manifest.tasks
  <2>1. DOMAIN world = Targets  BY DEF Typed, TypeOK, World
  <2>2. Desired(Current) = Missing  BY <1>1, <1>6, <1>11, <2>1
  <2>3. Accepts(Current)  BY <1>5, <1>6 DEF Outcomes
  <2>4. Current.kind = "DeleteTask"
    BY <1>7, <2>2, <2>3, DesiredType, ValuesAssumption DEF Registered
  <2>5. QED  BY <1>7, <2>4 DEF Rightful, Rights
<1>12. QED  BY <1>10, <1>11

(* On the way forward, a task of somebody else changes only by adoption, and *)
(* only prune removes a task, one that the manifest does not list: whatever  *)
(* fails, unless another writer changed that task since its check began.     *)
THEOREM ForeignTasksKept == Spec => OwnershipRespected
<1>1. Typed /\ Checked /\ Rightful /\ [Next]_vars =>
         [\A t \in TaskPaths :
             Writes(t, {"mutate"}) /\ world[t] # Missing =>
                 /\ ~world[t].marked => job.adopt /\ t \in DOMAIN Manifest.tasks
                 /\ world'[t] = Missing => job.prune /\ t \notin DOMAIN Manifest.tasks]_vars
  BY ForwardByRight
<1>2. QED  BY <1>1, AlwaysChecked, AlwaysRightful, PTL DEF Spec, OwnershipRespected

-----------------------------------------------------------------------------
(* The snapshots.  Without allow_irreversible, compensation always has the   *)
(* snapshot and the password it needs: preparation captures them for every   *)
(* change of the plan before the first mutation, and none is used twice.     *)

(* A descriptor of a folder that this apply creates is recorded late, by the *)
(* precondition of its own change.                                           *)
Late(i) == plan[i].kind = "SetFolderSecurity" /\ plan[i].target \in CreatedFolders

(* At most one change of a plan replaces or removes a task, and a folder is  *)
(* created before its descriptor is set.                                     *)
PlanShape ==
    /\ \A i, j \in DOMAIN plan :
          RestoresTask(plan[i]) /\ RestoresTask(plan[j])
             /\ plan[i].target = plan[j].target => i = j
    /\ \A i, j \in DOMAIN plan :
          plan[j].kind = "CreateFolder" /\ plan[i].kind = "SetFolderSecurity"
             /\ plan[i].target = plan[j].target => j < i

(* The changes of the plan whose snapshot must be there: the ones prepared   *)
(* so far, and during compensation the ones that are still to be undone.     *)
Captured ==
    {i \in DOMAIN plan :
        \/ pc = "prepare" /\ i < index /\ ~Late(i)
        \/ pc = "precondition" /\ (i < index \/ ~Late(i))
        \/ pc \in {"stop", "mutate", "read_back", "verify"} /\ (i <= index \/ ~Late(i))
        \/ pc \in {"undo_check", "undo_stop", "undo_mutate"} /\ i <= Len(undo)
        \/ pc \in {"undo_enabled", "undo_security", "undo_confirm"} /\ i < Len(undo)}

Snapped == \A i \in Captured : HasSnapshot(plan[i])

(* A backup in the making has the password that its logon type needs.        *)
BackupRead ==
    pc = "prepare" /\ partial # NotRead =>
        (partial.task.content \in PwBacked => partial.password)

(* A folder that was created is not expected to be missing any more.         *)
FoldersThere ==
    pc \in ChangePcs =>
        \A j \in 1..(index - 1) : \A i \in index..Len(plan) :
            plan[j].kind = "CreateFolder" /\ plan[i].target = plan[j].target =>
                expected[i] # Missing

(* Without allow_irreversible a folder is observed with its descriptor.      *)
FolderRead ==
    pc = "precondition" /\ Subject \in FolderPaths =>
        partial = NotRead /\ got \in Secs \cup {Missing, NotRead, ReadError}

(* Preparation begins with the first change.                                 *)
FromTheFirst == pc = "agree" => index = 1

Saving == Snapped /\ BackupRead /\ FoldersThere /\ FolderRead /\ FromTheFirst

Prudent == PlanShape /\ (~Allow => Saving)

LEMMA InitPrudent == Init => Prudent
BY DEF Init, Prudent, PlanShape, Saving, Snapped, Captured, BackupRead, FoldersThere, FolderRead,
       FromTheFirst, ChangePcs

-----------------------------------------------------------------------------
(* The plan.                                                                 *)

(* Whether a task is adopted, updated or deleted follows from the snapshot.  *)
LEMMA RestoringChange ==
    ASSUME TypeOK, NEW c \in PlanChanges(Manifest, snapshot, job.prune), RestoresTask(c)
    PROVE  c = MkChange(IF c.target \notin DOMAIN Manifest.tasks THEN "DeleteTask"
                        ELSE IF ~snapshot.tasks[c.target].marked THEN "AdoptTask"
                        ELSE "UpdateTask", c.target)
<1>1. c \notin FolderCreations(Manifest, snapshot)
  BY DEF FolderCreations, MkChange, RestoresTask
<1>2. c \notin FolderSecurityChanges(Manifest, snapshot)
  BY DEF FolderSecurityChanges, MkChange, RestoresTask
<1>3. CASE c \in Prunings(Manifest, snapshot, job.prune)
  BY <1>3 DEF Prunings, MkChange
<1>4. ASSUME NEW t \in DOMAIN Manifest.tasks, c \in TaskChanges(Manifest, snapshot, t)
      PROVE  /\ c.target = t
             /\ c = MkChange(IF ~snapshot.tasks[t].marked THEN "AdoptTask" ELSE "UpdateTask", t)
  <2>1. \/ c = MkChange("AdoptTask", t) /\ ~snapshot.tasks[t].marked
        \/ c = MkChange("UpdateTask", t) /\ snapshot.tasks[t].marked
    BY <1>4 DEF TaskChanges, RestoresTask, MkChange
  <2>2. QED  BY <2>1 DEF MkChange
<1>5. c \in UNION {TaskChanges(Manifest, snapshot, t) : t \in DOMAIN Manifest.tasks} =>
         \E t \in DOMAIN Manifest.tasks : c \in TaskChanges(Manifest, snapshot, t)
  OBVIOUS
<1>6. \/ c \in Prunings(Manifest, snapshot, job.prune)
      \/ \E t \in DOMAIN Manifest.tasks : c \in TaskChanges(Manifest, snapshot, t)
  BY <1>1, <1>2, <1>5 DEF PlanChanges
<1>7. QED  BY <1>3, <1>4, <1>6

LEMMA ScheduleShape ==
    ASSUME Typed, NEW p \in Schedules(PlanChanges(Manifest, snapshot, job.prune))
    PROVE  /\ \A i, j \in DOMAIN p :
                 RestoresTask(p[i]) /\ RestoresTask(p[j]) /\ p[i].target = p[j].target => i = j
           /\ \A i, j \in DOMAIN p :
                 p[j].kind = "CreateFolder" /\ p[i].kind = "SetFolderSecurity"
                    /\ p[i].target = p[j].target => j < i
<1> DEFINE S == PlanChanges(Manifest, snapshot, job.prune)
<1>1. S \in SUBSET Change  BY PlannedChanges DEF Typed, Planned
<1>2. p \in Seq(S) /\ \A i, j \in DOMAIN p : p[i] = p[j] => i = j  BY <1>1, ScheduleType
<1>3. ASSUME NEW i \in DOMAIN p, NEW j \in DOMAIN p, RestoresTask(p[i]), RestoresTask(p[j]),
             p[i].target = p[j].target
      PROVE  i = j
  <2>1. p[i] \in S /\ p[j] \in S  BY <1>2
  <2>2. p[i] = p[j]  BY <1>3, <2>1, RestoringChange DEF Typed
  <2>3. QED  BY <1>2, <2>2
<1>4. ASSUME NEW i \in DOMAIN p, NEW j \in DOMAIN p, p[j].kind = "CreateFolder",
             p[i].kind = "SetFolderSecurity"
      PROVE  j < i
  <2>1. DOMAIN p = 1..Cardinality(S) /\ i \in Int /\ j \in Int
    <3>1. DOMAIN p = 1..Cardinality(S)  BY DEF Schedules
    <3>2. DOMAIN p = 1..Len(p)  BY <1>2
    <3>3. QED  BY <3>1, <3>2
  <2>2. i < j => Before(p[i], p[j])  BY <2>1 DEF Schedules
  <2>3. ~Before(p[i], p[j])  BY <1>4 DEF Before, Priority
  <2>4. i # j  BY <1>4
  <2>5. QED  BY <2>1, <2>2, <2>3, <2>4
<1>5. QED  BY <1>3, <1>4

LEMMA ShapeKept == Typed /\ PlanShape /\ [Next]_vars => PlanShape'
<1> SUFFICES ASSUME Typed, PlanShape, [Next]_vars PROVE PlanShape'  OBVIOUS
<1>1. UNCHANGED plan \/ plan' \in Schedules(PlanChanges(Manifest, snapshot, job.prune))
  <2>1. CASE MakePlan  BY <2>1 DEF MakePlan
  <2>2. CASE ~MakePlan
    BY <2>2 DEF Next, Apply, Inspect, ListTasks, ListFolders, ReadSecurity, Observe, ObserveTask,
       ObserveTaskSecurity, ObserveFolder, ObserveFolderListing, unobserved, Preflight, Agree,
       Prepare, PrepareNothing, PrepareCreate, PrepareBackup, PrepareBackupSecurity,
       PrepareEnabled, PrepareSecurity, unprepared, RunChange, Precondition, Stop, Mutate,
       ReadBack, VerifyAcl, Verify, RunUndo, AllUndone, UndoCheck, UndoStop, UndoMutate,
       UndoEnabled, UndoSecurity, UndoConfirm, unchangedByUndo, ForeignWrite, Terminated, vars
  <2>3. QED  BY <2>1, <2>2
<1>2. CASE UNCHANGED plan  BY <1>2 DEF PlanShape, RestoresTask
<1>3. CASE plan' \in Schedules(PlanChanges(Manifest, snapshot, job.prune))
  BY <1>3, ScheduleShape DEF PlanShape, RestoresTask
<1>4. QED  BY <1>1, <1>2, <1>3

-----------------------------------------------------------------------------
(* What is captured stays captured.                                          *)

LEMMA PlanIndex ==
    ASSUME Typed
    PROVE  /\ plan \in Seq(Planned) /\ Len(plan) \in Nat /\ DOMAIN plan = 1..Len(plan)
           /\ index \in Nat /\ Len(undo) \in Nat
           /\ \A i \in DOMAIN plan : plan[i] \in Planned
           /\ pc \in {"preflight", "agree", "prepare"} \cup ChangePcs => index \in DOMAIN plan
BY DEF Typed, TypeOK, Control

LEMMA LateKept == ASSUME UNCHANGED plan PROVE \A i : Late(i)' <=> Late(i)
BY DEF Late, CreatedFolders

(* A step that captures nothing.                                             *)
LEMMA SnappedQuiet ==
    ASSUME Snapped, Captured' \subseteq Captured,
           \A i \in Captured' : HasSnapshot(plan[i]) => HasSnapshot(plan[i])'
    PROVE  Snapped'
BY DEF Snapped

(* HasSnapshot reads three parts of what was prepared.                       *)
LEMMA SnapshotKept ==
    ASSUME plan' = plan, prepared'.backups = prepared.backups,
           prepared'.enabled = prepared.enabled, prepared'.security = prepared.security
    PROVE  \A i : HasSnapshot(plan[i]) => HasSnapshot(plan[i])'
BY DEF HasSnapshot

(* The steps before preparation and of the other writer.                     *)
LEMMA SavingOutside ==
    ASSUME Typed, Saving,
           \/ Inspect \/ MakePlan \/ Preflight \/ Agree \/ AllUndone
           \/ ForeignWrite \/ UNCHANGED vars
    PROVE  Saving'
<1>1. \/ pc' \notin {"prepare"} \cup ChangePcs \cup UndoPcs /\ (pc' = "agree" => index' = 1)
      \/ pc' = "prepare" /\ index' = 1 /\ partial' = NotRead
      \/ UNCHANGED <<pc, index, plan, expected, prepared, partial, got, undo>>
  <2>1. CASE Inspect
    BY <2>1 DEF Inspect, ListTasks, ListFolders, ReadSecurity, Abort, ChangePcs, UndoPcs
  <2>2. CASE MakePlan \/ AllUndone
    BY <2>2 DEF MakePlan, AllUndone, ChangePcs, UndoPcs
  <2>3. CASE Preflight
    BY <2>3 DEF Preflight, NextChange, Abort, ChangePcs, UndoPcs
  <2>4. CASE Agree
    <3>1. index' = 1 /\ partial' = NotRead
      BY <2>4, NothingRead DEF Agree, reading, Sites, Saving, FromTheFirst
    <3>2. QED  BY <2>4, <3>1 DEF Agree, ChangePcs, UndoPcs
  <2>5. CASE ForeignWrite \/ UNCHANGED vars
    BY <2>5 DEF ForeignWrite, vars, reading
  <2>6. QED  BY <2>1, <2>2, <2>3, <2>4, <2>5
<1>2. CASE pc' \notin {"prepare"} \cup ChangePcs \cup UndoPcs /\ (pc' = "agree" => index' = 1)
  BY <1>2 DEF Saving, Snapped, Captured, BackupRead, FoldersThere, FolderRead, FromTheFirst,
     ChangePcs, UndoPcs
<1>3. CASE pc' = "prepare" /\ index' = 1 /\ partial' = NotRead
  <2>1. plan' \in Seq(Planned')  BY StepTyped, <1>3 DEF Typed, TypeOK, Next, Apply, RunUndo
  <2>2. Captured' = {}  BY <1>3, <2>1 DEF Captured
  <2>3. QED
    BY <1>3, <2>2 DEF Saving, Snapped, BackupRead, FoldersThere, FolderRead, FromTheFirst, ChangePcs
<1>4. CASE UNCHANGED <<pc, index, plan, expected, prepared, partial, got, undo>>
  <2>1. Subject' = Subject  BY <1>4, SubjectStable
  <2>2. Captured' = Captured  BY <1>4, LateKept DEF Captured
  <2>3. Snapped'  BY <1>4, <2>2 DEF Saving, Snapped, HasSnapshot
  <2>4. BackupRead' /\ FoldersThere' /\ FolderRead' /\ FromTheFirst'
    BY <1>4, <2>1 DEF Saving, BackupRead, FoldersThere, FolderRead, FromTheFirst
  <2>5. QED  BY <2>3, <2>4 DEF Saving
<1>5. QED  BY <1>1, <1>2, <1>3, <1>4

-----------------------------------------------------------------------------
(* Preparation.                                                              *)

(* The change at the index has its snapshot, and no snapshot is lost.        *)
Preparation ==
    \A i \in DOMAIN plan :
        (i = index /\ ~Late(i)) \/ HasSnapshot(plan[i]) => HasSnapshot(plan[i])'

LEMMA PreparedEasily ==
    ASSUME Typed, PrepareNothing \/ PrepareCreate
    PROVE  pc' = "failed" \/ (NextPrepared /\ partial' = NotRead /\ Preparation)
<1>1. plan' = plan /\ partial' = NotRead
  BY NothingRead DEF PrepareNothing, PrepareCreate, Preparing, RestoresTask, unprepared
<1>2. Late(index) \/ plan[index].kind \in {"CreateFolder", "CreateTask"}
  BY DEF PrepareNothing, PrepareCreate, Preparing, Late
<1>3. ASSUME plan[index].kind \in {"CreateFolder", "CreateTask"}  PROVE HasSnapshot(plan[index])
  BY <1>3 DEF HasSnapshot
<1>4. ASSUME pc' # "failed"
      PROVE  /\ NextPrepared
             /\ prepared'.backups = prepared.backups /\ prepared'.enabled = prepared.enabled
             /\ prepared'.security = prepared.security
  BY <1>4 DEF PrepareNothing, PrepareCreate, Abort, Typed, TypeOK
<1>5. ASSUME pc' # "failed"  PROVE Preparation
  BY <1>1, <1>2, <1>3, <1>4, <1>5, SnapshotKept DEF Preparation
<1>6. QED  BY <1>1, <1>4, <1>5

LEMMA PreparedEnabled ==
    ASSUME Typed, PrepareEnabled
    PROVE  pc' = "failed" \/ (NextPrepared /\ partial' = NotRead /\ Preparation)
<1> DEFINE t == plan[index].target
<1>1. plan[index] \in Planned /\ plan[index].kind = "SetEnabled" /\ t \in TaskPaths
  BY PlanIndex DEF PrepareEnabled, Preparing, Planned, WellFormed
<1>2. plan' = plan /\ partial' = NotRead
  BY <1>1, NothingRead DEF PrepareEnabled, Preparing, RestoresTask, unprepared
<1>3. ASSUME pc' # "failed"  PROVE NextPrepared /\ Preparation
  <2>1. /\ NextPrepared /\ Exists(t)
        /\ prepared' = [prepared EXCEPT !.enabled[t] = world[t].enabled]
    BY <1>3 DEF PrepareEnabled, Abort
  <2>2. world[t].enabled \in BOOLEAN
    <3>1. world[t] \in Registered  BY <1>1, <2>1, WorldValues DEF Typed, TypeOK, Exists, Targets
    <3>2. QED  BY <3>1 DEF Registered, Definitions
  <2>3. /\ prepared'.backups = prepared.backups /\ prepared'.security = prepared.security
        /\ prepared'.enabled = [prepared.enabled EXCEPT ![t] = world[t].enabled]
        /\ prepared.enabled \in [TaskPaths -> BOOLEAN \cup {NoBackup}]
    BY <2>1 DEF Typed, TypeOK
  <2>4. ASSUME NEW x \in TaskPaths, x = t \/ prepared.enabled[x] # NoBackup
        PROVE  prepared'.enabled[x] # NoBackup
    <3>1. CASE x = t
      <4>1. prepared'.enabled[x] = world[t].enabled  BY <2>3, <3>1
      <4>2. QED  BY <2>2, <4>1, ReadingsAssumption
    <3>2. CASE x # t  BY <2>3, <2>4, <3>2
    <3>3. QED  BY <3>1, <3>2
  <2>5. ASSUME NEW i \in DOMAIN plan, i = index \/ HasSnapshot(plan[i])
        PROVE  HasSnapshot(plan[i])'
    <3>1. plan[i].kind = "SetEnabled" => plan[i].target \in TaskPaths
      BY PlanIndex DEF Planned, WellFormed
    <3>2. CASE plan[i].kind = "SetEnabled"
      BY <1>2, <2>4, <2>5, <3>1, <3>2 DEF HasSnapshot
    <3>3. CASE plan[i].kind # "SetEnabled"
      BY <1>1, <1>2, <2>3, <2>5, <3>3 DEF HasSnapshot
    <3>4. QED  BY <3>2, <3>3
  <2>6. QED  BY <2>1, <2>5 DEF Preparation
<1>4. QED  BY <1>2, <1>3

LEMMA PreparedSecurity ==
    ASSUME Typed, ~Allow, PrepareSecurity
    PROVE  pc' = "failed" \/ (NextPrepared /\ partial' = NotRead /\ Preparation)
<1> DEFINE x == plan[index].target
           sec == IF x \in FolderPaths THEN world[x] ELSE world[x].sec
<1>1. /\ plan[index] \in Planned /\ plan[index].kind \in {"SetTaskSecurity", "SetFolderSecurity"}
      /\ x \in Targets
  BY PlanIndex DEF PrepareSecurity, Preparing, Planned, Change
<1>2. plan' = plan /\ partial' = NotRead
  BY <1>1, NothingRead DEF PrepareSecurity, Preparing, RestoresTask, unprepared
<1>3. ASSUME pc' # "failed"  PROVE NextPrepared /\ Preparation
  <2>1. /\ NextPrepared /\ Exists(x)
        /\ prepared' = [prepared EXCEPT !.security[x] = sec]
    BY <1>3 DEF PrepareSecurity, Abort
  <2>2. sec \in Secs
    BY <1>1, <2>1, WorldValues DEF Typed, TypeOK, Exists, Registered, Definitions, Targets
  <2>3. /\ prepared'.backups = prepared.backups /\ prepared'.enabled = prepared.enabled
        /\ prepared'.security = [prepared.security EXCEPT ![x] = sec]
        /\ prepared.security \in [Targets -> Secs \cup {NoBackup}]
    BY <2>1 DEF Typed, TypeOK
  <2>4. ASSUME NEW y \in Targets, y = x \/ prepared.security[y] # NoBackup
        PROVE  prepared'.security[y] # NoBackup
    <3>1. CASE y = x
      <4>1. prepared'.security[y] = sec  BY <2>3, <3>1
      <4>2. QED  BY <2>2, <4>1, ReadingsAssumption
    <3>2. CASE y # x  BY <2>3, <2>4, <3>2
    <3>3. QED  BY <3>1, <3>2
  <2>5. ASSUME NEW i \in DOMAIN plan, i = index \/ HasSnapshot(plan[i])
        PROVE  HasSnapshot(plan[i])'
    <3>1. plan[i].target \in Targets  BY PlanIndex DEF Planned, Change
    <3>2. CASE plan[i].kind \in {"SetTaskSecurity", "SetFolderSecurity"}
      BY <1>2, <2>4, <2>5, <3>1, <3>2 DEF HasSnapshot
    <3>3. CASE plan[i].kind \notin {"SetTaskSecurity", "SetFolderSecurity"}
      BY <1>1, <1>2, <2>3, <2>5, <3>3 DEF HasSnapshot
    <3>4. QED  BY <3>2, <3>3
  <2>6. QED  BY <2>1, <2>5 DEF Preparation
<1>4. QED  BY <1>2, <1>3

(* The last call of a backup keeps what the first one read.                  *)
LEMMA PreparedBackup ==
    ASSUME Typed, ~Allow, BackupRead, PrepareBackupSecurity
    PROVE  pc' = "failed" \/ (NextPrepared /\ partial' = NotRead /\ Preparation)
<1> DEFINE t == plan[index].target
           backup == [task |-> [partial.task EXCEPT !.sec = world[t].sec],
                      password |-> partial.password]
<1>1. /\ plan[index] \in Planned /\ RestoresTask(plan[index]) /\ t \in TaskPaths
      /\ pc = "prepare" /\ partial \in Backups
  BY PlanIndex DEF PrepareBackupSecurity, Preparing, Planned, WellFormed, RestoresTask, Typed,
     Control
<1>2. plan' = plan /\ partial' = NotRead  BY DEF PrepareBackupSecurity, unprepared
<1>3. ASSUME pc' # "failed"  PROVE NextPrepared /\ Preparation
  <2>1. /\ NextPrepared /\ Exists(t)
        /\ prepared' = [prepared EXCEPT !.backups[t] = backup]
    BY <1>3 DEF PrepareBackupSecurity, Abort
  <2>2. backup \in Backups
    <3>1. world[t] \in Registered  BY <1>1, <2>1, WorldValues DEF Typed, TypeOK, Exists, Targets
    <3>2. world[t].sec \in Secs \cup {NoSec}  BY <3>1 DEF Registered, Definitions
    <3>3. partial.task \in Definitions /\ partial.password \in BOOLEAN  BY <1>1 DEF Backups
    <3>4. [partial.task EXCEPT !.sec = world[t].sec] \in Definitions
      BY <3>2, <3>3 DEF Definitions
    <3>5. QED  BY <3>3, <3>4 DEF Backups
  <2>3. backup.task.content = partial.task.content /\ backup.password = partial.password
    BY <1>1 DEF Backups, Definitions
  <2>4. backup # NoBackup /\ (backup.task.content \in PwBacked => backup.password)
    BY <1>1, <2>2, <2>3, ReadingsAssumption DEF Backups, BackupRead, PrepareBackupSecurity
  <2>5. /\ prepared'.security = prepared.security /\ prepared'.enabled = prepared.enabled
        /\ prepared'.backups = [prepared.backups EXCEPT ![t] = backup]
        /\ DOMAIN prepared.backups = TaskPaths
    BY <2>1 DEF Typed, TypeOK
  <2>6. prepared'.backups[t] = backup /\ \A y \in TaskPaths : y # t =>
           prepared'.backups[y] = prepared.backups[y]
    BY <1>1, <2>5
  <2> HIDE DEF backup
  <2>7. ASSUME NEW i \in DOMAIN plan, i = index \/ HasSnapshot(plan[i])
        PROVE  HasSnapshot(plan[i])'
    <3>1. RestoresTask(plan[i]) => plan[i].target \in TaskPaths
      BY PlanIndex DEF Planned, WellFormed, RestoresTask
    <3>2. CASE RestoresTask(plan[i]) /\ plan[i].target = t
      BY <1>2, <2>4, <2>6, <3>2 DEF HasSnapshot, RestoresTask
    <3>3. CASE RestoresTask(plan[i]) /\ plan[i].target # t
      BY <1>2, <2>6, <2>7, <3>1, <3>3 DEF HasSnapshot, RestoresTask
    <3>4. CASE ~RestoresTask(plan[i])
      BY <1>1, <1>2, <2>5, <2>7, <3>4 DEF HasSnapshot, RestoresTask
    <3>5. QED  BY <3>2, <3>3, <3>4
  <2>8. QED  BY <2>1, <2>7 DEF Preparation
<1>4. QED  BY <1>2, <1>3

LEMMA SavingPrepare ==
    ASSUME Typed, ~Allow, Saving, Prepare
    PROVE  Saving'
<1>1. CASE pc' = "failed"
  BY <1>1 DEF Saving, Snapped, Captured, BackupRead, FoldersThere, FolderRead, FromTheFirst,
     ChangePcs
<1>2. CASE NextPrepared /\ partial' = NotRead /\ Preparation
  <2>1. plan' = plan /\ got' = NotRead /\ pc = "prepare"
    BY PrepareReads, NothingRead DEF Prepare, PrepareNothing, PrepareCreate, PrepareBackup,
       PrepareBackupSecurity, PrepareEnabled, PrepareSecurity, unprepared, Preparing, Sites
  <2>2. \/ pc' = "prepare" /\ index' = index + 1
        \/ pc' = "precondition" /\ index' = 1 /\ index = Len(plan)
    BY <1>2, <2>1, PlanIndex DEF NextPrepared, NextChange
  <2>3. \A i \in Captured' : i \in DOMAIN plan /\ (i \in Captured \/ (i = index /\ ~Late(i)))
    BY <2>1, <2>2, PlanIndex, LateKept DEF Captured, ChangePcs
  <2>4. Snapped'  BY <1>2, <2>3 DEF Saving, Snapped, Preparation
  <2>5. FoldersThere'  BY <2>2 DEF FoldersThere, ChangePcs
  <2>6. QED  BY <1>2, <2>1, <2>2, <2>4, <2>5 DEF Saving, BackupRead, FolderRead, FromTheFirst
<1>3. CASE PrepareBackup /\ pc' # "failed"
  <2>1. /\ UNCHANGED <<pc, index, plan>> /\ pc = "prepare"
        /\ prepared'.backups = prepared.backups /\ prepared'.enabled = prepared.enabled
        /\ prepared'.security = prepared.security
    BY <1>3 DEF PrepareBackup, Abort, unprepared, Preparing, Typed, TypeOK
  <2>2. Captured' = Captured  BY <2>1, LateKept DEF Captured
  <2>3. Snapped'  BY <2>1, <2>2, SnappedQuiet, SnapshotKept DEF Saving
  <2>4. BackupRead'
    <3>1. partial' = [task |-> world[plan[index].target],
                      password |-> NeedsRollbackPassword(plan[index].target)]
      BY <1>3 DEF PrepareBackup, Abort
    <3>2. QED  BY <3>1 DEF BackupRead, NeedsRollbackPassword
  <2>5. QED  BY <2>1, <2>3, <2>4 DEF Saving, FoldersThere, FolderRead, FromTheFirst, ChangePcs
<1>4. QED
  BY <1>1, <1>2, <1>3, PreparedEasily, PreparedEnabled, PreparedSecurity, PreparedBackup
  DEF Prepare, Saving

-----------------------------------------------------------------------------
(* The main loop.                                                            *)

LEMMA SavingObserve ==
    ASSUME Typed, ~Allow, Saving, Observe
    PROVE  Saving'
<1>1. /\ UNCHANGED <<pc, index, plan, expected, prepared, undo, world>> /\ pc \in Sites
      /\ Subject' = Subject /\ Observing
  BY SubjectStable DEF Observe, ObserveTask, ObserveTaskSecurity, ObserveFolder,
     ObserveFolderListing, Observing, unobserved
<1>2. Captured' = Captured  BY <1>1, LateKept DEF Captured
<1>3. Snapped'  BY <1>1, <1>2, SnappedQuiet, SnapshotKept DEF Saving
<1>4. ASSUME pc = "precondition", Subject \in FolderPaths
      PROVE  partial' = NotRead /\ got' \in Secs \cup {Missing, NotRead, ReadError}
  <2>1. partial = NotRead  BY <1>4 DEF Saving, FolderRead
  <2>2. ObserveFolder
    BY <1>4, <2>1, PathsAssumption DEF Observe, ObserveTask, ObserveTaskSecurity,
       ObserveFolderListing
  <2>3. Exists(Subject) => world[Subject] \in Secs  BY <1>1, <1>4, ObservedType
  <2>4. QED  BY <2>1, <2>2, <2>3 DEF ObserveFolder
<1>5. FolderRead'  BY <1>1, <1>4 DEF FolderRead
<1>6. QED
  BY <1>1, <1>3, <1>5 DEF Saving, BackupRead, FoldersThere, FromTheFirst, Sites

(* A change that stopped needs no snapshot of its own.                       *)
LEMMA AppliedIsPast ==
    ASSUME Typed, Ledger, pc \in ChangePcs
    PROVE  index \in DOMAIN plan /\ Len(undo) = index - 1
BY PlanIndex, LedgerTypes DEF Ledger, LedgerPhase, ChangePcs, UndoPcs

LEMMA SavingPrecondition ==
    ASSUME Typed, Ledger, PlanShape, ~Allow, Saving, Precondition
    PROVE  Saving'
<1>1. /\ UNCHANGED <<plan, index, expected, undo>> /\ got' = NotRead /\ index \in DOMAIN plan
      /\ pc = "precondition" /\ Len(undo) = index - 1 /\ Current = plan[index]
  BY AppliedIsPast DEF Precondition, Compensate, ChangePcs, Current
<1>2. CASE ~StillExpected
  <2>1. pc' = "undo_check" /\ prepared' = prepared
    BY <1>2 DEF Precondition, Compensate
  <2>2. Captured' \subseteq Captured  BY <1>1, <2>1, PlanIndex DEF Captured
  <2>3. Snapped'  BY <1>1, <2>1, <2>2, SnappedQuiet, SnapshotKept DEF Saving
  <2>4. QED
    BY <2>1, <2>3 DEF Saving, BackupRead, FoldersThere, FolderRead, FromTheFirst, ChangePcs
<1>3. CASE StillExpected
  <2> DEFINE f == Subject
             keeps == Current.kind = "SetFolderSecurity" /\ got \in Secs
                         /\ prepared.security[f] = NoBackup
  <2>1. /\ pc' \in {"stop", "mutate"}
        /\ prepared' = IF keeps THEN [prepared EXCEPT !.security[f] = got] ELSE prepared
    BY <1>3 DEF Precondition
  <2>2. ASSUME NEW i \in Captured'
        PROVE  i \in DOMAIN plan /\ (i \in Captured \/ (i = index /\ Late(i)))
    <3>1. i \in DOMAIN plan /\ (i <= index \/ ~Late(i))
      BY <1>1, <2>1, LateKept DEF Captured
    <3>2. i \in Captured <=> (i < index \/ ~Late(i))  BY <1>1, <3>1 DEF Captured
    <3>3. i \in Nat /\ index \in Nat  BY <3>1, PlanIndex
    <3>4. i <= index <=> i < index \/ i = index  BY <3>3
    <3>5. QED  BY <3>1, <3>2, <3>4, Zenon
  <2>3. /\ prepared'.backups = prepared.backups /\ prepared'.enabled = prepared.enabled
        /\ prepared'.security = IF keeps THEN [prepared.security EXCEPT ![f] = got]
                                         ELSE prepared.security
        /\ DOMAIN prepared.security = Targets
    BY <2>1 DEF Typed, TypeOK
  <2>4. ASSUME NEW x \in Targets, prepared.security[x] # NoBackup
        PROVE  prepared'.security[x] # NoBackup
    <3>1. CASE keeps /\ x = f  BY <2>4, <3>1
    <3>2. CASE ~(keeps /\ x = f)  BY <2>3, <2>4, <3>2
    <3>3. QED  BY <3>1, <3>2
  <2>5. ASSUME NEW i \in DOMAIN plan, HasSnapshot(plan[i])
        PROVE  HasSnapshot(plan[i])'
    <3>1. plan[i].target \in Targets  BY PlanIndex DEF Planned, Change
    <3>2. CASE plan[i].kind \in {"SetTaskSecurity", "SetFolderSecurity"}
      BY <1>1, <2>4, <2>5, <3>1, <3>2 DEF HasSnapshot
    <3>3. CASE plan[i].kind \notin {"SetTaskSecurity", "SetFolderSecurity"}
      BY <1>1, <2>3, <2>5, <3>3 DEF HasSnapshot
    <3>4. QED  BY <3>2, <3>3
  <2>6. ASSUME NEW i \in DOMAIN plan, i = index, Late(i)
        PROVE  HasSnapshot(plan[i])'
    <3>1. plan[index].kind = "SetFolderSecurity" /\ plan[index].target = f
          /\ plan[index] \in Planned
      BY <1>1, <2>6, PlanIndex DEF Late, Subject
    <3>2. f \in FolderPaths /\ f \in Targets
      BY <3>1 DEF Planned, WellFormed, Change
    <3>3. PICK j \in 1..Len(plan) : plan[j].kind = "CreateFolder" /\ plan[j].target = f
      BY <2>6, <3>1 DEF Late, CreatedFolders
    <3>4. j < index  BY <1>1, <3>1, <3>3, PlanIndex DEF PlanShape
    <3>5. expected[index] # Missing
      BY <1>1, <3>1, <3>3, <3>4, PlanIndex DEF Saving, FoldersThere, ChangePcs
    <3>6. expected[index] \in Observations
      BY <1>1, PlanIndex DEF Typed, TypeOK, Control, ChangePcs
    <3>7. got # ReadError /\ got # NotRead /\ got # Missing
      BY <1>3, <3>5, <3>6, ObservationIsNoError DEF StillExpected, Precondition
    <3>8. got \in Secs  BY <1>1, <3>2, <3>7 DEF Saving, FolderRead
    <3>9. prepared'.security[f] # NoBackup
      <4>1. CASE keeps  BY <2>3, <3>2, <3>8, <4>1, ReadingsAssumption
      <4>2. CASE ~keeps  BY <1>1, <2>3, <3>1, <3>8, <4>2
      <4>3. QED  BY <4>1, <4>2
    <3>10. plan'[i].kind = "SetFolderSecurity" /\ plan'[i].target = f  BY <1>1, <2>6, <3>1
    <3>11. QED  BY <3>9, <3>10 DEF HasSnapshot
  <2>7. Snapped'  BY <1>1, <2>2, <2>5, <2>6 DEF Saving, Snapped
  <2>8. FoldersThere'  BY <1>1, <2>1 DEF Saving, FoldersThere, ChangePcs
  <2>9. QED
    BY <2>1, <2>7, <2>8 DEF Saving, BackupRead, FolderRead, FromTheFirst
<1>4. QED  BY <1>2, <1>3

(* The calls of a change between its two observations.                       *)
LEMMA SavingCalls ==
    ASSUME Typed, Ledger, Saving, Stop \/ Mutate \/ ReadBack \/ VerifyAcl
    PROVE  Saving'
<1>1. /\ UNCHANGED <<plan, index, expected, undo>> /\ pc \in {"stop", "mutate", "read_back", "verify"}
      /\ pc' \in {"mutate", "read_back", "verify", "undo_check"}
      /\ prepared'.backups = prepared.backups /\ prepared'.enabled = prepared.enabled
      /\ prepared'.security = prepared.security
  <2>1. CASE Stop  BY <2>1 DEF Stop
  <2>2. CASE Mutate  BY <2>2 DEF Mutate, Typed, TypeOK
  <2>3. CASE ReadBack  BY <2>3 DEF ReadBack
  <2>4. CASE VerifyAcl  BY <2>4 DEF VerifyAcl
  <2>5. QED  BY <2>1, <2>2, <2>3, <2>4
<1>2. index \in DOMAIN plan /\ Len(undo) = index - 1
  BY <1>1, AppliedIsPast DEF ChangePcs
<1>3. Captured' \subseteq Captured  BY <1>1, <1>2, PlanIndex, LateKept DEF Captured
<1>4. Snapped'  BY <1>1, <1>3, SnappedQuiet, SnapshotKept DEF Saving
<1>5. FoldersThere'  BY <1>1 DEF Saving, FoldersThere, ChangePcs
<1>6. QED
  BY <1>1, <1>4, <1>5 DEF Saving, BackupRead, FolderRead, FromTheFirst

(* A folder that took effect is there.                                       *)
LEMMA FolderSeen ==
    ASSUME Typed, pc = "verify", TookEffect, Subject \in FolderPaths
    PROVE  got # Missing
<1>1. Current \in Planned /\ Current.target = Subject
  BY CurrentPlanned DEF ChangePcs, Subject
<1>2. Current.kind \in {"CreateFolder", "SetFolderSecurity"}
  BY <1>1, PlannedTargets DEF Typed
<1>3. QED  BY <1>1, <1>2 DEF TookEffect, ShapeAsDesired, Registrations

LEMMA SavingVerify ==
    ASSUME Typed, Ledger, Saving, Verify
    PROVE  Saving'
<1>1. /\ plan' = plan /\ prepared' = prepared /\ pc = "verify" /\ got' = NotRead
      /\ partial' = NotRead /\ index \in DOMAIN plan /\ Len(undo) = index - 1
      /\ Current = plan[index]
  BY AppliedIsPast, VerifyCases, NothingRead DEF Verify, ChangePcs
<1>2. Len(undo') \in {index - 1, index}
  <2>1. undo \in Seq(UndoEntries)  BY DEF Typed, TypeOK
  <2>2. QED  BY <1>1, <2>1, VerifyCases
<1>3. \/ pc' = "undo_check"
      \/ pc' = "succeeded"
      \/ /\ pc' = "precondition" /\ index < Len(plan) /\ index' = index + 1 /\ TookEffect
  BY VerifyCases
<1>4. Captured' \subseteq Captured
  BY <1>1, <1>2, <1>3, PlanIndex, LateKept DEF Captured
<1>5. Snapped'  BY <1>1, <1>4, SnappedQuiet, SnapshotKept DEF Saving
<1>6. ASSUME pc' = "precondition",
             NEW j \in 1..index, NEW i \in index + 1 .. Len(plan),
             plan[j].kind = "CreateFolder", plan[i].target = plan[j].target
      PROVE  expected'[i] # Missing
  <2>1. index' = index + 1 /\ TookEffect /\ i \in 1..Len(plan)
    BY <1>1, <1>3, <1>6, PlanIndex
  <2>2. expected' = [k \in 1..Len(plan) |->
                        IF k > index /\ SameTarget(plan[k], Current) THEN got ELSE expected[k]]
    BY <1>6 DEF Verify, UntouchedByFailure, Failing, Compensate
  <2>3. CASE SameTarget(plan[i], Current)
    <3>1. plan[j] \in Planned  BY <1>1, <1>6, PlanIndex
    <3>2. Subject \in FolderPaths
      BY <1>6, <2>3, <3>1 DEF SameTarget, Subject, Planned, WellFormed
    <3>3. got # Missing  BY <1>1, <2>1, <3>2, FolderSeen
    <3>4. i > index  BY <1>1, PlanIndex
    <3>5. expected'[i] = got  BY <2>1, <2>2, <2>3, <3>4
    <3>6. QED  BY <3>3, <3>5
  <2>4. CASE ~SameTarget(plan[i], Current)
    <3>1. j # index  BY <1>1, <1>6, <2>4 DEF SameTarget
    <3>2. expected[i] # Missing
      BY <1>1, <1>6, <3>1, PlanIndex DEF Saving, FoldersThere, ChangePcs
    <3>3. QED  BY <2>1, <2>2, <2>4, <3>2
  <2>5. QED  BY <2>3, <2>4
<1>7. FoldersThere'
  BY <1>1, <1>3, <1>6, PlanIndex DEF FoldersThere, ChangePcs
<1>8. QED
  BY <1>1, <1>3, <1>5, <1>7 DEF Saving, BackupRead, FolderRead, FromTheFirst

-----------------------------------------------------------------------------
(* Compensation.                                                             *)

FreshPcs == {"undo_check", "undo_stop", "undo_mutate"}
TakenPcs == {"undo_enabled", "undo_security", "undo_confirm"}

(* What an undo step does to the stack.                                      *)
LEMMA UndoShape ==
    ASSUME Typed,
           UndoCheck \/ UndoStop \/ UndoMutate \/ UndoEnabled \/ UndoSecurity \/ UndoConfirm
    PROVE  /\ plan' = plan /\ undo # <<>> /\ pc \in UndoPcs
           /\ \/ pc' = "undo_check" /\ Len(undo') = Len(undo) - 1
              \/ pc' \in FreshPcs /\ pc \in FreshPcs \ {"undo_mutate"} /\ Len(undo') = Len(undo)
              \/ pc' \in TakenPcs /\ Len(undo') = Len(undo)
<1>1. /\ plan' = plan /\ undo # <<>> /\ pc \in UndoPcs
      /\ \/ \E restored \in BOOLEAN : EndUndo(restored)
         \/ /\ UndoUnchanged
            /\ pc' \in TakenPcs \/ (pc' \in FreshPcs /\ pc \in FreshPcs \ {"undo_mutate"})
  <2>1. CASE UndoCheck \/ UndoStop
    BY <2>1 DEF UndoCheck, UndoStop, unchangedByUndo, UndoPcs, FreshPcs, Typed, Control
  <2>2. CASE UndoMutate \/ UndoEnabled
    BY <2>2 DEF UndoMutate, UndoEnabled, UndoUnchanged, unchangedByUndo, UndoPcs, TakenPcs,
       Typed, Control
  <2>3. CASE UndoSecurity
    BY <2>3 DEF UndoSecurity, unchangedByUndo, UndoPcs, TakenPcs, Typed, Control
  <2>4. CASE UndoConfirm
    <3>1. (got = LastUndo.before) \in BOOLEAN  OBVIOUS
    <3>2. QED  BY <2>4, <3>1 DEF UndoConfirm, unchangedByUndo, UndoPcs, Typed, Control
  <2>5. QED  BY <2>1, <2>2, <2>3, <2>4
<1>2. ASSUME NEW restored \in BOOLEAN, EndUndo(restored)
      PROVE  pc' = "undo_check" /\ Len(undo') = Len(undo) - 1
  <2>1. Len(undo) \in Nat /\ Len(undo) >= 1
    <3>1. Len(undo) \in Nat /\ undo \in Seq(UndoEntries)  BY LedgerTypes
    <3>2. Len(undo) # 0  BY <1>1, <3>1, EmptySeq
    <3>3. QED  BY <3>1, <3>2
  <2>2. QED  BY <1>2, <2>1, LedgerTypes DEF EndUndo
<1>3. QED  BY <1>1, <1>2 DEF UndoUnchanged

(* Compensation uses up the snapshot of its own change only.                 *)
LEMMA TakenAlone ==
    ASSUME Typed, Ledger, PlanShape, UndoMutate, NEW i \in DOMAIN plan, i < Len(undo),
           HasSnapshot(plan[i])
    PROVE  HasSnapshot(plan[i])'
<1> DEFINE n == Len(undo)
           c == plan[n]
<1>1. n \in DOMAIN plan /\ n \in DOMAIN undo /\ undo # <<>> /\ i # n
  <2>1. undo # <<>>  BY DEF UndoMutate, Typed, Control, UndoPcs
  <2>2. n \in DOMAIN undo  BY <2>1, LedgerTypes
  <2>3. n \in DOMAIN plan  BY LedgerTypes, <2>2 DEF Ledger, LedgerData, AppliedPrefix
  <2>4. QED  BY <2>1, <2>2, <2>3, LedgerTypes
<1>2. LastUndo.change = c
  BY <1>1 DEF LastUndo, Ledger, LedgerData, AppliedPrefix
<1>3. TakeSnapshot(c) /\ plan' = plan  BY <1>2 DEF UndoMutate, unchangedByUndo
<1>4. c \in Change /\ plan[i] \in Change /\ c \in Planned /\ plan[i] \in Planned
  BY <1>1, PlanIndex DEF Planned
<1>5. CASE RestoresTask(c)
  <2>1. RestoresTask(plan[i]) => plan[i].target # c.target
    BY <1>1, <1>5 DEF PlanShape
  <2>2. /\ prepared'.enabled = prepared.enabled /\ prepared'.security = prepared.security
        /\ prepared'.backups = [prepared.backups EXCEPT ![c.target] = NoBackup]
        /\ prepared.backups \in [TaskPaths -> Backups \cup {NoBackup}]
    <3>1. prepared' = [prepared EXCEPT !.backups[c.target] = NoBackup]
      BY <1>3, <1>5 DEF TakeSnapshot, RestoresTask
    <3>2. QED  BY <3>1 DEF Typed, TypeOK
  <2>3. RestoresTask(plan[i]) => plan[i].target \in TaskPaths
    BY <1>4 DEF Planned, WellFormed, RestoresTask
  <2>4. CASE RestoresTask(plan[i])
    <3>1. prepared'.backups[plan[i].target] = prepared.backups[plan[i].target]
      BY <2>1, <2>2, <2>3, <2>4
    <3>2. QED  BY <1>3, <2>4, <3>1 DEF HasSnapshot, RestoresTask
  <2>5. CASE ~RestoresTask(plan[i])
    BY <1>3, <2>2, <2>5 DEF HasSnapshot, RestoresTask
  <2>6. QED  BY <2>4, <2>5
<1>6. CASE c.kind = "SetFolderSecurity"
  <2>1. plan[i].kind \in {"SetTaskSecurity", "SetFolderSecurity"} => plan[i].target # c.target
    <3>1. plan[i] # c  BY <1>1 DEF Ledger, LedgerData, AppliedPrefix
    <3>2. c.target \in FolderPaths /\ (plan[i].kind = "SetTaskSecurity" => plan[i].target \in TaskPaths)
      BY <1>4, <1>6 DEF Planned, WellFormed
    <3>3. plan[i].kind = "SetFolderSecurity" => plan[i].target # c.target
      BY <1>4, <1>6, <3>1 DEF Change
    <3>4. QED  BY <3>2, <3>3, PathsAssumption
  <2>2. /\ prepared'.enabled = prepared.enabled /\ prepared'.backups = prepared.backups
        /\ prepared'.security = [prepared.security EXCEPT ![c.target] = NoBackup]
        /\ prepared.security \in [Targets -> Secs \cup {NoBackup}]
    BY <1>3, <1>6 DEF TakeSnapshot, RestoresTask, Typed, TypeOK
  <2>3. plan[i].target \in Targets  BY <1>4 DEF Change
  <2>4. CASE plan[i].kind \in {"SetTaskSecurity", "SetFolderSecurity"}
    <3>1. prepared'.security[plan[i].target] = prepared.security[plan[i].target]
      BY <2>1, <2>2, <2>3, <2>4
    <3>2. QED  BY <1>3, <2>4, <3>1 DEF HasSnapshot
  <2>5. CASE plan[i].kind \notin {"SetTaskSecurity", "SetFolderSecurity"}
    BY <1>3, <2>2, <2>5 DEF HasSnapshot
  <2>6. QED  BY <2>4, <2>5
<1>7. CASE ~RestoresTask(c) /\ c.kind # "SetFolderSecurity"
  <2>1. prepared' = prepared  BY <1>3, <1>7 DEF TakeSnapshot
  <2>2. QED  BY <1>3, <2>1, SnapshotKept
<1>8. QED  BY <1>5, <1>6, <1>7

LEMMA SavingUndo ==
    ASSUME Typed, Ledger, PlanShape, Saving,
           UndoCheck \/ UndoStop \/ UndoMutate \/ UndoEnabled \/ UndoSecurity \/ UndoConfirm
    PROVE  Saving'
<1>1. Captured' \subseteq Captured /\ (pc = "undo_mutate" => \A i \in Captured' : i < Len(undo))
  <2>1. Len(undo) \in Nat /\ \A i \in DOMAIN plan : i \in Nat  BY PlanIndex
  <2>2. \A i \in Captured' :
           /\ i \in DOMAIN plan
           /\ pc' \in FreshPcs => i <= Len(undo')
           /\ pc' \in TakenPcs => i < Len(undo')
    BY UndoShape DEF Captured, FreshPcs, TakenPcs
  <2>3. pc' \in FreshPcs \cup TakenPcs  BY UndoShape DEF FreshPcs
  <2>4. \A i \in DOMAIN plan :
           /\ pc \in FreshPcs /\ i <= Len(undo) => i \in Captured
           /\ pc \in TakenPcs /\ i < Len(undo) => i \in Captured
    BY DEF Captured, FreshPcs, TakenPcs
  <2>5. pc \in FreshPcs \cup TakenPcs  BY UndoShape DEF UndoPcs, FreshPcs, TakenPcs
  <2>6. ASSUME NEW i \in Captured'
        PROVE  i \in Captured /\ (pc = "undo_mutate" => i < Len(undo))
    <3>1. i \in DOMAIN plan /\ i \in Nat  BY <2>1, <2>2
    <3> DEFINE goal == i < Len(undo) \/ (pc \in FreshPcs \ {"undo_mutate"} /\ i <= Len(undo))
    <3>2. goal
      <4>1. CASE pc' = "undo_check" /\ Len(undo') = Len(undo) - 1
        BY <2>1, <2>2, <3>1, <4>1 DEF FreshPcs
      <4>2. CASE /\ pc' \in FreshPcs /\ pc \in FreshPcs \ {"undo_mutate"}
                 /\ Len(undo') = Len(undo)
        BY <2>2, <4>2
      <4>3. CASE pc' \in TakenPcs /\ Len(undo') = Len(undo)
        BY <2>2, <4>3
      <4>4. QED  BY <4>1, <4>2, <4>3, UndoShape
    <3>3. i <= Len(undo)  BY <2>1, <3>1, <3>2
    <3>4. QED  BY <2>4, <2>5, <3>1, <3>2, <3>3
  <2>7. QED  BY <2>6
<1>2. \A i \in Captured' : HasSnapshot(plan[i]) => HasSnapshot(plan[i])'
  <2>1. CASE UndoMutate
    <3>1. pc = "undo_mutate"  BY <2>1 DEF UndoMutate
    <3>2. \A i \in Captured' : i \in DOMAIN plan /\ i < Len(undo)
      BY <1>1, <3>1, UndoShape DEF Captured
    <3>3. QED  BY <2>1, <3>2, TakenAlone
  <2>2. CASE ~UndoMutate
    <3>1. prepared' = prepared /\ plan' = plan
      BY <2>2 DEF UndoCheck, UndoStop, UndoEnabled, UndoSecurity, UndoConfirm, unchangedByUndo
    <3>2. QED  BY <3>1, SnapshotKept
  <2>3. QED  BY <2>1, <2>2
<1>3. Snapped'  BY <1>1, <1>2, SnappedQuiet DEF Saving
<1>4. pc' \in UndoPcs  BY UndoShape DEF UndoPcs, FreshPcs, TakenPcs
<1>5. QED
  BY <1>3, <1>4 DEF Saving, BackupRead, FoldersThere, FolderRead, FromTheFirst, UndoPcs, ChangePcs

LEMMA StepPrudent == Typed /\ Ledger /\ Prudent /\ [Next]_vars => Prudent'
<1> SUFFICES ASSUME Typed, Ledger, Prudent, [Next]_vars PROVE Prudent'  OBVIOUS
<1>1. PlanShape'  BY ShapeKept DEF Prudent
<1>2. Allow' = Allow
  BY DEF Next, Apply, Inspect, ListTasks, ListFolders, ReadSecurity, MakePlan, Observe,
     ObserveTask, ObserveTaskSecurity, ObserveFolder, ObserveFolderListing, unobserved,
     Preflight, Agree, Prepare, PrepareNothing, PrepareCreate, PrepareBackup,
     PrepareBackupSecurity, PrepareEnabled, PrepareSecurity, unprepared, RunChange,
     Precondition, Stop, Mutate, ReadBack, VerifyAcl, Verify, RunUndo, AllUndone, UndoCheck,
     UndoStop, UndoMutate, UndoEnabled, UndoSecurity, UndoConfirm, unchangedByUndo,
     ForeignWrite, Terminated, vars, Allow
<1>3. ASSUME ~Allow  PROVE Saving'
  <2>1. Saving /\ PlanShape  BY <1>3 DEF Prudent
  <2>2. QED
    BY <1>3, <2>1, SavingOutside, SavingPrepare, SavingObserve, SavingPrecondition, SavingCalls,
       SavingVerify, SavingUndo
    DEF Next, Apply, RunChange, RunUndo, Terminated
<1>4. QED  BY <1>1, <1>2, <1>3 DEF Prudent

LEMMA AlwaysPrudent == Spec => [](Typed /\ Ledger /\ Prudent)
BY InitTyped, StepTyped, InitLedger, StepLedger, InitPrudent, StepPrudent, PTL DEF Spec

(* Without allow_irreversible, compensation never runs into a snapshot or a  *)
(* password that preparation did not capture, or that was used up before.    *)
THEOREM SnapshotsAreThere == Spec => []SnapshotsComplete
<1>1. ASSUME Typed, Ledger, Prudent, pc = "undo_mutate", ~Allow
      PROVE  HasSnapshot(LastUndo.change)
  <2>1. undo # <<>>  BY <1>1 DEF Typed, Control, UndoPcs
  <2>2. Len(undo) \in DOMAIN undo /\ Len(undo) \in DOMAIN plan
    BY <1>1, <2>1, LedgerTypes DEF Ledger, LedgerData, AppliedPrefix
  <2>3. LastUndo.change = plan[Len(undo)]
    BY <1>1, <2>2 DEF LastUndo, Ledger, LedgerData, AppliedPrefix
  <2>4. Len(undo) \in Captured  BY <1>1, <2>2, LedgerTypes DEF Captured
  <2>5. QED  BY <1>1, <2>3, <2>4 DEF Prudent, Saving, Snapped
<1>2. Typed /\ Ledger /\ Prudent => SnapshotsComplete  BY <1>1 DEF SnapshotsComplete
<1>3. QED  BY <1>2, AlwaysPrudent, PTL

(* What an apply leaves behind, proved for every manifest, set of paths and  *)
(* bound.  First: a failed apply that reports nothing unresolved has         *)
(* restored every target that no other writer touched.  Second: after a      *)
(* successful one, planning again finds nothing to do.                       *)

-----------------------------------------------------------------------------
(* A value of x as far as an observation tells it: allow_irreversible lets   *)
(* a descriptor go unread.                                                   *)
Blurred(j, x, v) ==
    IF ~j.allow_irreversible \/ v = Missing THEN v
    ELSE IF x \in TaskPaths THEN [v EXCEPT !.sec = NoSec] ELSE NoSec

(* v is what the first n entries of the undo stack u left at x: what the     *)
(* last of them on x observed, or the start if none of them was on x.        *)
LeftAs(j, u, x, n, v) ==
    /\ (\A k \in 1..n : u[k].change.target # x) => Blurred(j, x, v) = Blurred(j, x, j.start[x])
    /\ \A k \in 1..n :
          /\ u[k].change.target = x
          /\ \A l \in (k + 1)..n : u[l].change.target # x
          => Blurred(j, x, v) = Blurred(j, x, u[k].after)

(* Only what an observation tells of the value matters.                      *)
LEMMA LeftBlurred ==
    ASSUME NEW j, NEW u, NEW x, NEW n, NEW v, NEW w,
           Blurred(j, x, v) = Blurred(j, x, w), LeftAs(j, u, x, n, v)
    PROVE  LeftAs(j, u, x, n, w)
BY DEF LeftAs

(* An entry on another target leaves x alone.                                *)
LEMMA LeftSkip ==
    ASSUME NEW j, NEW u, NEW x, NEW n \in Nat \ {0}, NEW v, u[n].change.target # x
    PROVE  LeftAs(j, u, x, n, v) <=> LeftAs(j, u, x, n - 1, v)
<1>1. \A k : k \in 1..n <=> k \in 1..(n - 1) \/ k = n  OBVIOUS
<1>2. (\A k \in 1..n : u[k].change.target # x) <=> (\A k \in 1..(n - 1) : u[k].change.target # x)
  BY <1>1
<1>3. ASSUME NEW k \in 1..(n - 1)
      PROVE  (\A l \in (k + 1)..n : u[l].change.target # x)
                <=> (\A l \in (k + 1)..(n - 1) : u[l].change.target # x)
  <2>1. \A l : l \in (k + 1)..n <=> l \in (k + 1)..(n - 1) \/ l = n  OBVIOUS
  <2>2. QED  BY <2>1
<1>4. QED  BY <1>1, <1>2, <1>3 DEF LeftAs

(* An entry on x decides alone.                                              *)
LEMMA LeftTop ==
    ASSUME NEW j, NEW u, NEW x, NEW n \in Nat \ {0}, NEW v, u[n].change.target = x
    PROVE  LeftAs(j, u, x, n, v) <=> Blurred(j, x, v) = Blurred(j, x, u[n].after)
<1>1. n \in 1..n /\ \A l : l \notin (n + 1)..n  OBVIOUS
<1>2. ASSUME NEW k \in 1..n, \A l \in (k + 1)..n : u[l].change.target # x
      PROVE  k = n
  <2>1. k < n => n \in (k + 1)..n  OBVIOUS
  <2>2. ~(k < n)  BY <1>2, <2>1
  <2>3. QED  BY <2>2
<1>3. QED  BY <1>1, <1>2 DEF LeftAs

(* Only the first n entries matter.                                          *)
LEMMA LeftPrefix ==
    ASSUME NEW j, NEW u, NEW w, NEW x, NEW n \in Nat, NEW v,
           \A k \in 1..n : u[k] = w[k],
           LeftAs(j, u, x, n, v)
    PROVE  LeftAs(j, w, x, n, v)
<1>1. \A k \in 1..n : \A l \in (k + 1)..n : l \in 1..n  OBVIOUS
<1>2. QED  BY <1>1 DEF LeftAs

-----------------------------------------------------------------------------
(* The invariant: as long as nothing is unresolved, every untouched target   *)
(* is what the applied changes left there, except while a call on it is in   *)
(* flight; an applied change started from what the ones before it left, and  *)
(* so does the one in progress.                                              *)

StartedPcs == {"stop", "mutate", "read_back", "verify"}

InFlight(x) ==
    /\ pc \in {"read_back", "verify", "undo_enabled", "undo_security", "undo_confirm"}
    /\ x = Subject

Chained(x) ==
    \A i \in DOMAIN undo : undo[i].change.target = x =>
        LeftAs(job, undo, x, i - 1, undo[i].before)
Returns(x) ==
    /\ Chained(x)
    /\ InFlight(x) \/ LeftAs(job, undo, x, Len(undo), world[x])
    /\ pc \in StartedPcs /\ x = Subject => LeftAs(job, undo, x, Len(undo), expected[index])
Returning == unresolved = <<>> => \A x \in Targets \ hist.touched : Returns(x)

(* An observation of an untouched target tells what is there.                *)
HalfReread ==
    pc \in Sites /\ partial # NotRead /\ Subject \notin hist.touched =>
        /\ Subject \in TaskPaths =>
              /\ world[Subject] # Missing
              /\ partial = [world[Subject] EXCEPT !.sec = NoSec]
        /\ Subject \in FolderPaths => Allow
Reread ==
    pc \in Sites /\ got \notin {NotRead, ReadError} /\ Subject \notin hist.touched =>
        Blurred(job, Subject, got) = Blurred(job, Subject, world[Subject])

Restorable == Returning /\ HalfReread /\ Reread

LEMMA InitRestorable == Init => Restorable
<1> SUFFICES ASSUME Init PROVE Restorable  OBVIOUS
<1>1. HalfReread /\ Reread  BY DEF Init, HalfReread, Reread, Sites
<1>2. ASSUME NEW x \in Targets PROVE Returns(x)
  BY DEF Init, Returns, Chained, LeftAs, StartedPcs
<1>3. QED  BY <1>1, <1>2 DEF Restorable, Returning

-----------------------------------------------------------------------------
(* Observations.                                                             *)

(* Outside the observations there is nothing to tell.                        *)
LEMMA RereadAnew ==
    ASSUME pc' \in Sites => got' = NotRead /\ partial' = NotRead
    PROVE  HalfReread' /\ Reread'
BY DEF HalfReread, Reread

(* Between two calls of an observation only another writer acts.             *)
LEMMA RereadForeign ==
    ASSUME Typed, Recorded, HalfReread, Reread, ForeignWrite \/ UNCHANGED vars
    PROVE  HalfReread' /\ Reread'
<1>1. UNCHANGED <<job, pc, plan, index, undo, partial, got>>
  BY DEF ForeignWrite, vars, reading
<1>2. Subject' = Subject  BY <1>1, SubjectStable
<1>3. \/ hist'.touched = hist.touched /\ world' = world
      \/ \E x : /\ hist'.touched = hist.touched \cup {x}
                /\ \A y : y # x => world'[y] = world[y]
  <2>1. CASE ForeignWrite
    <3>1. PICK x \in Targets : \E v : /\ world' = [world EXCEPT ![x] = v]
                                      /\ hist'.touched = hist.touched \cup {x}
      BY <2>1 DEF ForeignWrite, Recorded, Histories
    <3>2. \A y : y # x => world'[y] = world[y]  BY <3>1
    <3>3. QED  BY <3>1, <3>2
  <2>2. CASE UNCHANGED vars  BY <2>2 DEF vars
  <2>3. QED  BY <2>1, <2>2
<1>4. Subject \notin hist'.touched =>
          Subject \notin hist.touched /\ world'[Subject] = world[Subject]
  BY <1>3
<1>5. HalfReread'  BY <1>1, <1>2, <1>4 DEF HalfReread, Allow
<1>6. Reread'
  <2> SUFFICES ASSUME pc' \in Sites, got' \notin {NotRead, ReadError}, Subject' \notin hist'.touched
               PROVE  Blurred(job', Subject', got') = Blurred(job', Subject', world'[Subject'])
    BY DEF Reread
  <2>1. Blurred(job, Subject, got) = Blurred(job, Subject, world[Subject])
    BY <1>1, <1>2, <1>4 DEF Reread
  <2>2. job' = job /\ got' = got /\ world'[Subject'] = world[Subject]  BY <1>1, <1>2, <1>4
  <2>3. QED  BY <1>2, <2>1, <2>2
<1>7. QED  BY <1>5, <1>6

(* The calls of the observation of a task.                                   *)
LEMMA RereadTask ==
    ASSUME Typed, Recorded, HalfReread, Reread, ObserveTask \/ ObserveTaskSecurity,
           Subject \notin hist.touched
    PROVE  /\ partial' # NotRead =>
                 /\ world[Subject] # Missing
                 /\ partial' = [world[Subject] EXCEPT !.sec = NoSec]
           /\ got' \notin {NotRead, ReadError} =>
                 Blurred(job, Subject, got') = Blurred(job, Subject, world[Subject])
<1>1. Subject \in TaskPaths /\ Observing  BY DEF ObserveTask, ObserveTaskSecurity
<1>2. Exists(Subject) => world[Subject] \in Definitions  BY <1>1, ObservedType
<1>3. CASE ObserveTask
  <2>1. got = NotRead  BY <1>1 DEF Observing
  <2>2. QED  BY <1>3, <2>1 DEF ObserveTask, Exists
<1>4. CASE ObserveTaskSecurity
  <2>1. partial # NotRead /\ partial' = NotRead /\ pc \in Sites
    BY <1>1, <1>4 DEF ObserveTaskSecurity, Observing
  <2>2. /\ world[Subject] # Missing /\ Exists(Subject)
        /\ partial = [world[Subject] EXCEPT !.sec = NoSec]
    BY <1>1, <2>1 DEF HalfReread, Exists
  <2>3. world[Subject] \in Definitions  BY <1>2, <2>2
  <2>4. [partial EXCEPT !.sec = world[Subject].sec] = world[Subject]
    BY <2>2, <2>3, SecurityAgain
  <2>5. [partial EXCEPT !.sec = NoSec] = partial /\ partial \in Definitions
    BY <2>2, <2>3, SecurityAgain
  <2>6. \/ got' = world[Subject]
        \/ got' = ReadError
        \/ Allow /\ got' = partial
    BY <1>4, <2>4 DEF ObserveTaskSecurity
  <2>7. Allow => Blurred(job, Subject, partial) = Blurred(job, Subject, world[Subject])
    BY <1>1, <2>2, <2>5, ValuesAssumption DEF Blurred, Allow
  <2>8. QED  BY <2>1, <2>6, <2>7
<1>5. QED  BY <1>3, <1>4

(* And of a folder.                                                          *)
LEMMA RereadFolder ==
    ASSUME Typed, HalfReread, ObserveFolder \/ ObserveFolderListing, Subject \notin hist.touched
    PROVE  /\ partial' # NotRead => Allow
           /\ got' \notin {NotRead, ReadError} =>
                 Blurred(job, Subject, got') = Blurred(job, Subject, world[Subject])
<1>1. Subject \in FolderPaths /\ Subject \notin TaskPaths /\ Observing
  BY PathsAssumption DEF ObserveFolder, ObserveFolderListing
<1>2. CASE ObserveFolder
  <2>1. got = NotRead /\ partial = NotRead  BY <1>1, <1>2 DEF Observing, ObserveFolder
  <2>2. QED  BY <1>2, <2>1 DEF ObserveFolder, Exists
<1>3. CASE ObserveFolderListing
  <2>1. partial = NoSec /\ partial # NotRead /\ partial' = NotRead /\ pc \in Sites
    BY <1>1, <1>3 DEF ObserveFolderListing, Observing, Typed, Control
  <2>2. Allow  BY <1>1, <2>1 DEF HalfReread
  <2>3. \/ got' = NoSec /\ world[Subject] # Missing
        \/ got' = ReadError
    BY <1>3, <2>1 DEF ObserveFolderListing, Exists
  <2>4. QED  BY <1>1, <2>1, <2>2, <2>3, ValuesAssumption DEF Blurred, Allow
<1>4. QED  BY <1>2, <1>3

LEMMA RereadObserve ==
    ASSUME Typed, Recorded, HalfReread, Reread, Observe
    PROVE  HalfReread' /\ Reread'
<1>1. /\ UNCHANGED <<job, world>> /\ Subject' = Subject /\ Allow' = Allow
  BY ObserveKeeps
<1>2. hist'.touched = hist.touched
  BY DEF Observe, ObserveTask, ObserveTaskSecurity, ObserveFolder, ObserveFolderListing,
         StartCheck, Recorded, Histories
<1>3. \/ ObserveTask \/ ObserveTaskSecurity
      \/ ObserveFolder \/ ObserveFolderListing
  BY DEF Observe
<1>4. /\ ObserveTask \/ ObserveTaskSecurity => Subject \notin FolderPaths
      /\ ObserveFolder \/ ObserveFolderListing => Subject \notin TaskPaths
  BY PathsAssumption DEF ObserveTask, ObserveTaskSecurity, ObserveFolder, ObserveFolderListing
<1>5. HalfReread'
  BY <1>1, <1>2, <1>3, <1>4, RereadTask, RereadFolder DEF HalfReread
<1>6. Reread'
  <2> SUFFICES ASSUME got' \notin {NotRead, ReadError}, Subject' \notin hist'.touched
               PROVE  Blurred(job', Subject', got') = Blurred(job', Subject', world'[Subject'])
    BY DEF Reread
  <2>1. Blurred(job, Subject, got') = Blurred(job, Subject, world[Subject])
    BY <1>1, <1>2, <1>3, RereadTask, RereadFolder
  <2>2. QED  BY <1>1, <2>1
<1>7. QED  BY <1>5, <1>6

-----------------------------------------------------------------------------
(* Steps that leave the undo stack alone.                                    *)

LEMMA ReturningQuiet ==
    ASSUME Returning, UNCHANGED <<job, undo>>,
           unresolved' = <<>> => unresolved = <<>>,
           ASSUME NEW x \in Targets \ hist'.touched
           PROVE  /\ x \notin hist.touched
                  /\ InFlight(x)' \/ (world'[x] = world[x] /\ ~InFlight(x))
                  /\ pc' \in StartedPcs /\ x = Subject' =>
                        pc \in StartedPcs /\ x = Subject /\ expected'[index'] = expected[index]
    PROVE  Returning'
<1> SUFFICES ASSUME unresolved' = <<>>, NEW x \in Targets \ hist'.touched
             PROVE  Returns(x)'
  BY DEF Returning
<1>1. Returns(x)  BY DEF Returning
<1>2. Chained(x)'  BY <1>1 DEF Returns, Chained
<1>3. InFlight(x)' \/ LeftAs(job', undo', x, Len(undo'), world'[x])
  BY <1>1 DEF Returns
<1>4. pc' \in StartedPcs /\ x = Subject' =>
          LeftAs(job', undo', x, Len(undo'), expected'[index'])
  BY <1>1 DEF Returns
<1>5. QED  BY <1>2, <1>3, <1>4 DEF Returns

(* Before the main loop, and between the calls that write.                   *)
LEMMA ReturningEasily ==
    ASSUME Typed, Recorded, Returning,
           Inspect \/ MakePlan \/ Observe \/ Preflight \/ Agree \/ Prepare \/ AllUndone
    PROVE  Returning'
<1>1. UNCHANGED <<job, undo, unresolved, world>>
  BY DEF Inspect, ListTasks, ListFolders, ReadSecurity, MakePlan, Observe, ObserveTask,
     ObserveTaskSecurity, ObserveFolder, ObserveFolderListing, unobserved, Preflight, Agree,
     Prepare, PrepareNothing, PrepareCreate, PrepareBackup, PrepareBackupSecurity,
     PrepareEnabled, PrepareSecurity, unprepared, AllUndone, unchangedByUndo, report
<1>2. hist'.touched = hist.touched
  BY DEF Inspect, ListTasks, ListFolders, ReadSecurity, MakePlan, Observe, ObserveTask,
     ObserveTaskSecurity, ObserveFolder, ObserveFolderListing, StartCheck, Preflight, Agree,
     Prepare, PrepareNothing, PrepareCreate, PrepareBackup, PrepareBackupSecurity,
     PrepareEnabled, PrepareSecurity, unprepared, AllUndone, Recorded, Histories
<1>3. CASE Observe
  <2>1. UNCHANGED <<pc, index, plan, expected>> /\ Subject' = Subject
    <3>1. UNCHANGED <<pc, index, plan, expected>>
      BY <1>3 DEF Observe, ObserveTask, ObserveTaskSecurity, ObserveFolder,
         ObserveFolderListing, unobserved
    <3>2. QED  BY <1>1, <3>1, SubjectStable
  <2>2. \A x : InFlight(x)' <=> InFlight(x)  BY <2>1 DEF InFlight
  <2>3. QED  BY <1>1, <1>2, <2>1, <2>2, ReturningQuiet
<1>4. CASE Inspect \/ MakePlan \/ Preflight \/ Agree \/ Prepare \/ AllUndone
  <2>1. /\ pc \notin StartedPcs \cup {"undo_enabled", "undo_security", "undo_confirm"}
        /\ pc' \notin StartedPcs
    BY <1>4, PrepareReads
    DEF Inspect, ListTasks, ListFolders, ReadSecurity, Abort, MakePlan, Preflight, NextChange,
        Agree, AllUndone, StartedPcs
  <2>2. \A x : ~InFlight(x)  BY <2>1 DEF InFlight, StartedPcs
  <2>3. QED  BY <1>1, <1>2, <2>1, <2>2, ReturningQuiet
<1>5. QED  BY <1>3, <1>4

(* A change, and the undoing of one, stay with their target.                 *)
LEMMA SubjectKept ==
    ASSUME UNCHANGED <<plan, index, undo>>,
           \/ pc \in ChangePcs /\ pc' \in ChangePcs
           \/ pc \in UndoPcs \ {"undo_stop"} /\ pc' \in UndoPcs \ {"undo_stop"}
    PROVE  Subject' = Subject
BY DEF Subject, Current, LastUndo, ChangePcs, UndoPcs

(* The calls of a change that write nothing, and those of another writer.    *)
LEMMA ReturningChange ==
    ASSUME Typed, Recorded, Returning, Stop \/ ReadBack \/ VerifyAcl
    PROVE  Returning'
<1>1. UNCHANGED <<job, undo, unresolved, world, plan, index, expected>>
  BY DEF Stop, ReadBack, VerifyAcl, report
<1>2. hist'.touched = hist.touched
  BY DEF Stop, ReadBack, VerifyAcl, Recorded, Histories
<1>3. CASE Stop
  <2>1. pc = "stop" /\ pc' \in {"mutate", "undo_check"}  BY <1>3 DEF Stop
  <2>2. \A x : ~InFlight(x)  BY <2>1 DEF InFlight
  <2>3. pc' = "mutate" => Subject' = Subject  BY <1>1, <2>1, SubjectKept DEF ChangePcs
  <2>4. pc' \in StartedPcs => pc' = "mutate" /\ pc \in StartedPcs  BY <2>1 DEF StartedPcs
  <2>5. QED  BY <1>1, <1>2, <2>2, <2>3, <2>4, ReturningQuiet
<1>4. CASE ReadBack \/ VerifyAcl
  <2>1. pc \in {"read_back", "verify"} /\ pc' \in {"read_back", "verify"}
    BY <1>4 DEF ReadBack, VerifyAcl
  <2>2. Subject' = Subject  BY <1>1, <2>1, SubjectKept DEF ChangePcs
  <2>3. \A x : InFlight(x)' <=> InFlight(x)  BY <2>1, <2>2 DEF InFlight
  <2>4. pc \in StartedPcs  BY <2>1 DEF StartedPcs
  <2>5. QED  BY <1>1, <1>2, <2>2, <2>3, <2>4, ReturningQuiet
<1>5. QED  BY <1>3, <1>4

LEMMA ReturningForeign ==
    ASSUME Typed, Recorded, Returning, ForeignWrite \/ UNCHANGED vars
    PROVE  Returning'
<1>1. UNCHANGED <<job, pc, plan, index, undo, unresolved, expected>>
  BY DEF ForeignWrite, vars, report
<1>2. Subject' = Subject  BY <1>1, SubjectStable
<1>3. \A y \in Targets \ hist'.touched : y \notin hist.touched /\ world'[y] = world[y]
  <2>1. CASE ForeignWrite
    <3>1. PICK x \in Targets : \E v : /\ world' = [world EXCEPT ![x] = v]
                                      /\ hist'.touched = hist.touched \cup {x}
      BY <2>1 DEF ForeignWrite, Recorded, Histories
    <3>2. \A y \in Targets : y # x => world'[y] = world[y]
      BY <3>1 DEF Typed, TypeOK, World
    <3>3. QED  BY <3>1, <3>2
  <2>2. CASE UNCHANGED vars  BY <2>2 DEF vars
  <2>3. QED  BY <2>1, <2>2
<1>4. \A x : InFlight(x)' <=> InFlight(x)  BY <1>1, <1>2 DEF InFlight
<1>5. QED  BY <1>1, <1>2, <1>3, <1>4, ReturningQuiet

(* The check before a change: the state it starts from is what is there.     *)
LEMMA ReturningPrecondition ==
    ASSUME Typed, Recorded, Restorable, Precondition
    PROVE  Returning'
<1> SUFFICES ASSUME unresolved' = <<>>, NEW x \in Targets \ hist'.touched
             PROVE  Returns(x)'
  BY DEF Returning
<1>1. /\ UNCHANGED <<job, undo, unresolved, world, plan, expected, hist>>
      /\ pc = "precondition" /\ got # NotRead
      /\ \/ pc' \in {"stop", "mutate"} /\ UNCHANGED index /\ got = expected[index]
         \/ pc' = "undo_check"
  BY DEF Precondition, report, Compensate, StillExpected
<1>2. Returns(x) /\ ~InFlight(x) /\ ~InFlight(x)'
  BY <1>1 DEF Restorable, Returning, InFlight
<1>3. LeftAs(job, undo, x, Len(undo), world[x])  BY <1>2 DEF Returns
<1>4. Chained(x)'  BY <1>1, <1>2 DEF Returns, Chained
<1>5. ASSUME pc' \in StartedPcs, x = Subject'
      PROVE  LeftAs(job', undo', x, Len(undo'), expected'[index'])
  <2>1. pc' \in {"stop", "mutate"} /\ index' = index /\ got = expected[index]
    BY <1>1, <1>5 DEF StartedPcs
  <2>2. x = Subject  BY <1>1, <1>5, <2>1, SubjectKept DEF ChangePcs
  <2>3. got # ReadError
    <3>1. index \in DOMAIN expected /\ expected \in Seq(Observations)
      BY <1>1 DEF Typed, TypeOK, Control, ChangePcs
    <3>2. expected[index] \in Observations  BY <3>1
    <3>3. QED  BY <2>1, <3>2, ObservationIsNoError
  <2>4. Blurred(job, x, got) = Blurred(job, x, world[x])
    BY <1>1, <2>2, <2>3 DEF Restorable, Reread, Sites
  <2>5. LeftAs(job, undo, x, Len(undo), got)  BY <1>3, <2>4, LeftBlurred
  <2>6. QED  BY <1>1, <2>1, <2>5
<1>6. LeftAs(job', undo', x, Len(undo'), world'[x])  BY <1>1, <1>3
<1>7. QED  BY <1>4, <1>5, <1>6 DEF Returns

(* The native call of a change: from now on its target is in flight.         *)
LEMMA ReturningMutate ==
    ASSUME Typed, Recorded, Returning, Mutate
    PROVE  Returning'
<1>1. /\ UNCHANGED <<job, undo, unresolved, plan, index, expected>>
      /\ pc = "mutate" /\ pc' \in {"read_back", "verify"}
  BY DEF Mutate, report
<1>2. PICK o, value : Effect(Subject, o, value)  BY DEF Mutate
<1>3. hist'.touched = hist.touched  BY <1>2 DEF Effect, Recorded, Histories
<1>4. Subject' = Subject  BY <1>1, SubjectKept DEF ChangePcs
<1>5. \A x : InFlight(x)' <=> x = Subject  BY <1>1, <1>4 DEF InFlight
<1>6. \A x : ~InFlight(x)  BY <1>1 DEF InFlight
<1>7. \A x : x # Subject => world'[x] = world[x]  BY <1>2, EffectLocal
<1>8. pc \in StartedPcs  BY <1>1 DEF StartedPcs
<1>9. QED  BY <1>1, <1>3, <1>4, <1>5, <1>6, <1>7, <1>8, ReturningQuiet

(* A new entry on the undo stack: the chain goes on.                         *)
LEMMA ChainGrows ==
    ASSUME Typed, job' = job, NEW e, undo' = Append(undo, e), NEW x,
           Chained(x),
           e.change.target = x => LeftAs(job, undo, x, Len(undo), e.before)
    PROVE  Chained(x)'
<1> DEFINE n == Len(undo)
<1>1. /\ n \in Nat /\ DOMAIN undo = 1..n /\ DOMAIN undo' = 1..(n + 1)
      /\ \A k \in 1..n : undo[k] = undo'[k]
      /\ undo'[n + 1] = e
  BY LedgerTypes
<1> SUFFICES ASSUME NEW i \in DOMAIN undo', undo'[i].change.target = x
             PROVE  LeftAs(job', undo', x, i - 1, undo'[i].before)
  BY DEF Chained
<1>2. CASE i \in 1..n
  <2>1. undo'[i] = undo[i] /\ i \in DOMAIN undo  BY <1>1, <1>2
  <2>2. LeftAs(job, undo, x, i - 1, undo[i].before)  BY <2>1 DEF Chained
  <2>3. i - 1 \in Nat /\ \A k \in 1..(i - 1) : undo[k] = undo'[k]  BY <1>1, <1>2
  <2>4. LeftAs(job, undo', x, i - 1, undo[i].before)  BY <2>2, <2>3, LeftPrefix
  <2>5. QED  BY <2>1, <2>4
<1>3. CASE i = n + 1
  <2>1. LeftAs(job, undo, x, n, e.before)  BY <1>1, <1>3
  <2>2. LeftAs(job, undo', x, n, e.before)  BY <1>1, <2>1, LeftPrefix
  <2>3. i - 1 = n  BY <1>1, <1>3
  <2>4. QED  BY <1>1, <1>3, <2>2, <2>3
<1>4. QED  BY <1>1, <1>2, <1>3

(* Verification decides what the change left behind.                         *)
LEMMA ReturningVerify ==
    ASSUME Typed, Recorded, Restorable, Verify
    PROVE  Returning'
<1> SUFFICES ASSUME unresolved' = <<>>, NEW x \in Targets \ hist'.touched
             PROVE  Returns(x)'
  BY DEF Returning
<1>1. /\ UNCHANGED <<job, world, plan, hist>> /\ pc = "verify" /\ got # NotRead
      /\ pc' \in {"undo_check", "precondition", "succeeded"}
  BY DEF Verify, Compensate, NextChange
<1>2. ~InFlight(x)' /\ pc' \notin StartedPcs  BY <1>1 DEF InFlight, StartedPcs
<1> DEFINE n == Len(undo)
           e == [change |-> Current, before |-> expected[index], after |-> got]
<1>3. n \in Nat /\ Len(unresolved) \in Nat /\ unresolved \in Seq(Planned)  BY LedgerTypes
<1>4. \/ UNCHANGED <<undo, unresolved>> /\ got = expected[index]
      \/ UNCHANGED unresolved /\ undo' = Append(undo, e) /\ got # ReadError
  BY <1>3 DEF Verify, UntouchedByFailure, TookEffect
<1>5. unresolved = <<>>  BY <1>4
<1>6. Returns(x) /\ x \notin hist.touched  BY <1>1, <1>5 DEF Restorable, Returning
<1>7. x # Subject => LeftAs(job, undo, x, n, world[x])  BY <1>6 DEF Returns, InFlight
<1>8. x = Subject => LeftAs(job, undo, x, n, expected[index])
  BY <1>1, <1>6 DEF Returns, StartedPcs
<1>9. x = Subject /\ got # ReadError => Blurred(job, x, got) = Blurred(job, x, world[x])
  BY <1>1, <1>6 DEF Restorable, Reread, Sites
<1>10. CASE UNCHANGED undo /\ got = expected[index]
  <2>1. got # ReadError
    <3>1. index \in DOMAIN expected /\ expected \in Seq(Observations)
      BY <1>1 DEF Typed, TypeOK, Control, ChangePcs
    <3>2. expected[index] \in Observations  BY <3>1
    <3>3. QED  BY <1>10, <3>2, ObservationIsNoError
  <2>2. x = Subject => LeftAs(job, undo, x, n, world[x])
    BY <1>8, <1>9, <1>10, <2>1, LeftBlurred
  <2>3. LeftAs(job', undo', x, Len(undo'), world'[x])  BY <1>1, <1>7, <1>10, <2>2
  <2>4. Chained(x)'  BY <1>1, <1>6, <1>10 DEF Returns, Chained
  <2>5. QED  BY <1>2, <2>3, <2>4 DEF Returns
<1>11. CASE undo' = Append(undo, e) /\ got # ReadError
  <2>1. /\ Len(undo') = n + 1 /\ undo'[n + 1] = e
        /\ \A k \in 1..n : undo[k] = undo'[k]
    BY <1>11, LedgerTypes
  <2>2. e.change.target = Subject /\ e.before = expected[index] /\ e.after = got
    BY DEF Subject
  <2>3. n + 1 \in Nat \ {0} /\ (n + 1) - 1 = n  BY <1>3
  <2>4. CASE x = Subject
    <3>1. LeftAs(job, undo', x, n + 1, world[x])
            <=> Blurred(job, x, world[x]) = Blurred(job, x, undo'[n + 1].after)
      BY <2>1, <2>2, <2>3, <2>4, LeftTop
    <3>2. LeftAs(job, undo', x, n + 1, world[x])
      BY <1>9, <1>11, <2>1, <2>2, <2>4, <3>1
    <3>3. Chained(x)'
      <4>1. LeftAs(job, undo, x, Len(undo), e.before)  BY <1>8, <2>2, <2>4
      <4>2. job' = job /\ undo' = Append(undo, e) /\ Chained(x)
        BY <1>1, <1>6, <1>11 DEF Returns
      <4> HIDE DEF e
      <4>3. QED  BY <4>1, <4>2, ChainGrows
    <3>4. QED  BY <1>1, <1>2, <2>1, <3>2, <3>3 DEF Returns
  <2>5. CASE x # Subject
    <3>1. LeftAs(job, undo', x, n + 1, world[x]) <=> LeftAs(job, undo', x, n, world[x])
      BY <2>1, <2>2, <2>3, <2>5, LeftSkip
    <3>2. LeftAs(job, undo', x, n, world[x])
      BY <1>3, <1>7, <2>1, <2>5, LeftPrefix
    <3>3. Chained(x)'
      <4>1. e.change.target # x  BY <2>2, <2>5
      <4>2. job' = job /\ undo' = Append(undo, e) /\ Chained(x)
        BY <1>1, <1>6, <1>11 DEF Returns
      <4> HIDE DEF e
      <4>3. QED  BY <4>1, <4>2, ChainGrows
    <3>4. QED  BY <1>1, <1>2, <2>1, <3>1, <3>2, <3>3 DEF Returns
  <2>6. QED  BY <2>4, <2>5
<1>12. QED  BY <1>4, <1>10, <1>11

-----------------------------------------------------------------------------
(* Compensation.                                                             *)

(* An entry that could not be undone stays unresolved.                       *)
LEMMA FailureUnresolved ==
    ASSUME Typed, undo # <<>>, EndUndo(FALSE)
    PROVE  unresolved' # <<>>
<1>1. unresolved' = Append(unresolved, LastUndo.change) /\ unresolved \in Seq(Planned)
  BY LedgerTypes DEF EndUndo
<1>2. QED  BY <1>1

(* An entry that is confirmed leaves its target as the entry found it.       *)
LEMMA ReturningConfirm ==
    ASSUME Typed, Recorded, Restorable, UndoConfirm
    PROVE  Returning'
<1> SUFFICES ASSUME unresolved' = <<>>, NEW x \in Targets \ hist'.touched
             PROVE  Returns(x)'
  BY DEF Returning
<1>1. /\ UNCHANGED <<job, world, plan, hist>> /\ pc = "undo_confirm" /\ got # NotRead
      /\ undo # <<>> /\ EndUndo(got = LastUndo.before) /\ pc' = "undo_check"
  BY DEF UndoConfirm, unchangedByUndo, EndUndo, Typed, Control, UndoPcs
<1> DEFINE n == Len(undo)
<1>2. /\ n \in Nat \ {0} /\ n \in DOMAIN undo /\ undo \in Seq(UndoEntries)
      /\ DOMAIN undo = 1..n
  <2>1. n \in Nat /\ undo \in Seq(UndoEntries) /\ DOMAIN undo = 1..n  BY LedgerTypes
  <2>2. n # 0  BY <1>1, <2>1, EmptySeq
  <2>3. QED  BY <2>1, <2>2
<1>3. got = LastUndo.before
  BY <1>1, FailureUnresolved DEF EndUndo
<1>4. /\ UNCHANGED unresolved /\ Len(undo') = n - 1 /\ DOMAIN undo' = 1..(n - 1)
      /\ \A k \in 1..(n - 1) : undo[k] = undo'[k]
  BY <1>1, <1>2, <1>3 DEF EndUndo
<1>5. Returns(x) /\ x \notin hist.touched  BY <1>1, <1>4 DEF Restorable, Returning
<1>6. Subject = LastUndo.change.target /\ LastUndo = undo[n]
  BY <1>1 DEF Subject, Current, LastUndo
<1>7. ~InFlight(x)' /\ pc' \notin StartedPcs  BY <1>1 DEF InFlight, StartedPcs
<1>8. Chained(x)'
  <2> SUFFICES ASSUME NEW i \in DOMAIN undo', undo'[i].change.target = x
               PROVE  LeftAs(job', undo', x, i - 1, undo'[i].before)
    BY DEF Chained
  <2>1. i \in DOMAIN undo /\ undo'[i] = undo[i] /\ i - 1 \in Nat
        /\ \A k \in 1..(i - 1) : undo[k] = undo'[k]
    BY <1>2, <1>4
  <2>2. LeftAs(job, undo, x, i - 1, undo[i].before)  BY <1>5, <2>1 DEF Returns, Chained
  <2>3. LeftAs(job, undo', x, i - 1, undo[i].before)  BY <2>1, <2>2, LeftPrefix
  <2>4. QED  BY <1>1, <2>1, <2>3
<1>9. LeftAs(job, undo, x, n - 1, world[x])
  <2>1. CASE x = Subject
    <3>1. LeftAs(job, undo, x, n - 1, got)
      BY <1>2, <1>3, <1>5, <1>6, <2>1 DEF Returns, Chained
    <3>2. got # ReadError
      <4>1. LastUndo \in UndoEntries  BY <1>2, <1>6
      <4>2. LastUndo.before \in Observations  BY <4>1 DEF UndoEntries
      <4>3. QED  BY <1>3, <4>2, ObservationIsNoError
    <3>3. Blurred(job, x, got) = Blurred(job, x, world[x])
      BY <1>1, <1>5, <2>1, <3>2 DEF Restorable, Reread, Sites
    <3>4. QED  BY <3>1, <3>3, LeftBlurred
  <2>2. CASE x # Subject
    <3>1. LeftAs(job, undo, x, n, world[x])  BY <1>5, <2>2 DEF Returns, InFlight
    <3>2. QED  BY <1>2, <1>6, <2>2, <3>1, LeftSkip
  <2>3. QED  BY <2>1, <2>2
<1>10. LeftAs(job, undo', x, n - 1, world[x])  BY <1>2, <1>4, <1>9, LeftPrefix
<1>11. QED  BY <1>1, <1>4, <1>7, <1>8, <1>10 DEF Returns

(* The other steps on an entry give it up, or put its target in flight.      *)
LEMMA ReturningUndo ==
    ASSUME Typed, Recorded, Restorable,
           UndoCheck \/ UndoStop \/ UndoMutate \/ UndoEnabled \/ UndoSecurity
    PROVE  Returning'
<1>1. undo # <<>> /\ pc \in UndoPcs /\ UNCHANGED <<job, plan, index>>
  <2>1. undo # <<>> /\ pc \in UndoPcs /\ plan' = plan  BY UndoShape
  <2>2. QED
    BY <2>1 DEF UndoCheck, UndoStop, UndoMutate, UndoEnabled, UndoSecurity, unchangedByUndo
<1>2. CASE EndUndo(FALSE)  BY <1>1, <1>2, FailureUnresolved DEF Returning
<1>3. CASE UndoUnchanged
  <2>1. UNCHANGED <<undo, unresolved>>  BY <1>3 DEF UndoUnchanged, report
  <2>2. CASE UndoCheck \/ UndoStop
    <3>1. /\ UNCHANGED world /\ hist'.touched = hist.touched
          /\ pc \in {"undo_check", "undo_stop"}
      BY <2>2 DEF UndoCheck, UndoStop, Recorded, Histories
    <3>2. pc' \in {"undo_check", "undo_stop", "undo_mutate"}
      BY <2>2 DEF UndoCheck, UndoStop, EndUndo
    <3>3. pc' \notin StartedPcs /\ \A x : ~InFlight(x)
      BY <3>1, <3>2 DEF StartedPcs, InFlight
    <3>4. QED  BY <1>1, <2>1, <3>1, <3>3, ReturningQuiet DEF Restorable
  <2>3. CASE UndoMutate \/ UndoEnabled \/ UndoSecurity
    <3>1. /\ pc \in {"undo_mutate", "undo_enabled", "undo_security"}
          /\ \/ EndUndo(FALSE)
             \/ pc' \in {"undo_enabled", "undo_security", "undo_confirm"}
      BY <2>3 DEF UndoMutate, UndoEnabled, UndoSecurity
    <3>2. CASE EndUndo(FALSE)  BY <1>1, <3>2, FailureUnresolved DEF Returning
    <3>3. CASE pc' \in {"undo_enabled", "undo_security", "undo_confirm"}
      <4>1. Subject = LastUndo.change.target  BY <3>1 DEF Subject, Current
      <4>2. Subject' = Subject
        BY <1>1, <2>1, <3>1, <3>3, SubjectKept DEF UndoPcs
      <4>3. (UNCHANGED <<world, hist>>) \/ (\E o, value : Effect(Subject, o, value)) \/ EndUndo(FALSE)
        BY <2>3, <4>1 DEF UndoMutate, UndoEnabled, UndoSecurity
      <4>4. CASE EndUndo(FALSE)  BY <1>1, <4>4, FailureUnresolved DEF Returning
      <4>5. CASE (UNCHANGED <<world, hist>>) \/ (\E o, value : Effect(Subject, o, value))
        <5>1. hist'.touched = hist.touched  BY <4>5 DEF Effect, Recorded, Histories
        <5>2. \A x : x # Subject => world'[x] = world[x]  BY <4>5, EffectLocal
        <5>3. \A x : InFlight(x)' <=> x = Subject  BY <3>3, <4>2 DEF InFlight
        <5>4. \A x : InFlight(x) => x = Subject  BY DEF InFlight
        <5>5. pc' \notin StartedPcs  BY <3>3 DEF StartedPcs
        <5>6. QED  BY <1>1, <2>1, <5>1, <5>2, <5>3, <5>4, <5>5, ReturningQuiet DEF Restorable
      <4>6. QED  BY <4>3, <4>4, <4>5
    <3>4. QED  BY <3>1, <3>2, <3>3
  <2>4. QED  BY <2>2, <2>3
<1>4. EndUndo(FALSE) \/ UndoUnchanged
  <2>1. CASE UndoCheck  BY <2>1 DEF UndoCheck
  <2>2. CASE UndoStop  BY <2>2, Zenon DEF UndoStop
  <2>3. CASE UndoMutate  BY <2>3 DEF UndoMutate
  <2>4. CASE UndoEnabled  BY <2>4 DEF UndoEnabled, UndoUnchanged
  <2>5. CASE UndoSecurity  BY <2>5, Zenon DEF UndoSecurity
  <2>6. QED  BY <2>1, <2>2, <2>3, <2>4, <2>5
<1>5. QED  BY <1>2, <1>3, <1>4

-----------------------------------------------------------------------------

LEMMA StepReread ==
    ASSUME Typed, Recorded, HalfReread, Reread, [Next]_vars
    PROVE  HalfReread' /\ Reread'
<1>1. CASE Observe  BY <1>1, RereadObserve
<1>2. CASE ForeignWrite \/ UNCHANGED vars  BY <1>2, RereadForeign
<1>3. CASE Inspect \/ MakePlan \/ Preflight \/ Agree \/ Prepare \/ RunChange \/ RunUndo
  <2>1. Typed'  BY StepTyped
  <2>2. CASE Inspect \/ MakePlan \/ Agree \/ AllUndone
    <3>1. (got' = NotRead /\ partial' = NotRead) \/ pc' \notin Sites
      BY <2>2, NothingRead DEF Inspect, ListTasks, ListFolders, ReadSecurity, Abort, MakePlan,
         Agree, AllUndone, Sites, reading
    <3>2. QED  BY <3>1, RereadAnew
  <2>3. CASE Preflight \/ Precondition \/ Verify \/ UndoCheck \/ UndoConfirm
    <3>1. got' = NotRead /\ got # NotRead /\ UNCHANGED partial
      BY <2>3 DEF Preflight, Precondition, Verify, UndoCheck, UndoConfirm
    <3>2. QED  BY <3>1, NothingRead, RereadAnew
  <2>4. CASE Prepare
    <3>1. pc' \in Sites => got' = NotRead /\ partial' = NotRead  BY <2>4, PrepareReads DEF Sites
    <3>2. QED  BY <3>1, RereadAnew
  <2>5. CASE Stop \/ Mutate \/ ReadBack
    <3>1. pc \in {"stop", "mutate", "read_back"} /\ UNCHANGED <<partial, got>>
      BY <2>5 DEF Stop, Mutate, ReadBack, reading
    <3>2. QED  BY <3>1, NothingRead, RereadAnew DEF Sites
  <2>6. CASE UndoStop \/ UndoMutate \/ UndoEnabled \/ UndoSecurity
    <3>1. pc \in {"undo_stop", "undo_mutate", "undo_enabled", "undo_security"} /\ UNCHANGED got
      BY <2>6 DEF UndoStop, UndoMutate, UndoEnabled, UndoSecurity
    <3>2. got' = NotRead  BY <3>1, NothingRead DEF Sites
    <3>3. pc' \in Sites => partial' = NotRead
      <4>1. CASE UndoStop \/ UndoMutate
        <5>1. partial = NotRead  BY <2>6, <4>1, NothingRead DEF UndoStop, UndoMutate, Sites
        <5>2. QED  BY <4>1, <5>1 DEF UndoStop, UndoMutate, EndUndo, Sites
      <4>2. CASE UndoEnabled  BY <4>2 DEF UndoEnabled, Sites
      <4>3. CASE UndoSecurity  BY <4>3 DEF UndoSecurity
      <4>4. QED  BY <2>6, <4>1, <4>2, <4>3
    <3>4. QED  BY <3>2, <3>3, RereadAnew
  <2>7. CASE VerifyAcl
    <3>1. UNCHANGED <<job, pc, plan, index, undo, world, hist, partial, got>>
      BY <2>7 DEF VerifyAcl
    <3>2. Subject' = Subject  BY <3>1, SubjectStable
    <3>3. HalfReread'  BY <3>1, <3>2 DEF HalfReread, Allow
    <3>4. Reread'
      <4> SUFFICES ASSUME got' \notin {NotRead, ReadError}, pc' \in Sites,
                          Subject' \notin hist'.touched
                   PROVE  Blurred(job', Subject', got') = Blurred(job', Subject', world'[Subject'])
        BY DEF Reread
      <4>1. Blurred(job, Subject, got) = Blurred(job, Subject, world[Subject])
        BY <3>1, <3>2 DEF Reread
      <4>2. QED  BY <3>1, <3>2, <4>1
    <3>5. QED  BY <3>3, <3>4
  <2>8. QED
    BY <1>3, <2>2, <2>3, <2>4, <2>5, <2>6, <2>7 DEF RunChange, RunUndo
<1>4. QED  BY <1>1, <1>2, <1>3 DEF Next, Apply, Terminated

LEMMA StepRestorable == Typed /\ Recorded /\ Restorable /\ [Next]_vars => Restorable'
<1> SUFFICES ASSUME Typed, Recorded, Restorable, [Next]_vars PROVE Restorable'  OBVIOUS
<1>1. HalfReread' /\ Reread'  BY StepReread DEF Restorable
<1>2. Returning  BY DEF Restorable
<1>3. Returning'
  BY <1>2, ReturningEasily, ReturningChange, ReturningForeign, ReturningPrecondition,
     ReturningMutate, ReturningVerify, ReturningConfirm, ReturningUndo
  DEF Next, Apply, RunChange, RunUndo, Terminated
<1>4. QED  BY <1>1, <1>3 DEF Restorable

LEMMA AlwaysRestorable == Spec => [](Typed /\ Recorded /\ Restorable)
BY InitTyped, StepTyped, InitRecorded, StepRecorded, InitRestorable, StepRestorable, PTL DEF Spec

(* When the stack is empty, what it left is the start.                       *)
LEMMA EmptyStackRestores ==
    ASSUME Typed, Ledger, Restorable
    PROVE  RollbackRestores
<1> SUFFICES ASSUME pc = "failed", unresolved = <<>>, NEW x \in Targets \ hist.touched
             PROVE  \/ world[x] = job.start[x]
                    \/ /\ Allow /\ world[x] # Missing /\ job.start[x] # Missing
                       /\ x \in TaskPaths =>
                             world[x] = [job.start[x] EXCEPT !.sec = world[x].sec]
  BY DEF RollbackRestores
<1>1. LeftAs(job, undo, x, 0, world[x])
  <2>1. Returns(x) /\ ~InFlight(x)  BY DEF Restorable, Returning, InFlight
  <2>2. Len(undo) = 0  BY DEF Ledger, LedgerPhase
  <2>3. QED  BY <2>1, <2>2 DEF Returns
<1>2. Blurred(job, x, world[x]) = Blurred(job, x, job.start[x])
  <2>1. \A k : k \notin 1..0  OBVIOUS
  <2>2. QED  BY <1>1, <2>1 DEF LeftAs
<1>3. /\ world \in World /\ job.start \in World
      /\ x \in TaskPaths => world[x] \in Registered \cup {Missing}
      /\ x \in TaskPaths => job.start[x] \in Registered \cup {Missing}
      /\ x \notin TaskPaths => world[x] \in Secs \cup {Missing}
      /\ x \notin TaskPaths => job.start[x] \in Secs \cup {Missing}
  BY JobsAssumption DEF Typed, TypeOK, World, Targets
<1>4. CASE ~Allow  BY <1>2, <1>4 DEF Blurred, Allow
<1>5. CASE world[x] = Missing \/ job.start[x] = Missing
  <2>1. CASE x \in TaskPaths
    <3>1. \A d \in Registered : [d EXCEPT !.sec = NoSec] # Missing
      <4>1. \A d \in Registered : [d EXCEPT !.sec = NoSec] \in Definitions
        BY EditRegistered DEF Registered
      <4>2. QED  BY <4>1, ValuesAssumption
    <3>2. QED  BY <1>2, <1>3, <1>5, <2>1, <3>1 DEF Blurred
  <2>2. CASE x \notin TaskPaths  BY <1>2, <1>5, <2>2, ValuesAssumption DEF Blurred
  <2>3. QED  BY <2>1, <2>2
<1>6. CASE Allow /\ world[x] # Missing /\ job.start[x] # Missing
  <2> SUFFICES ASSUME x \in TaskPaths
               PROVE  world[x] = [job.start[x] EXCEPT !.sec = world[x].sec]
    BY <1>6
  <2>1. [world[x] EXCEPT !.sec = NoSec] = [job.start[x] EXCEPT !.sec = NoSec]
    BY <1>2, <1>6 DEF Blurred, Allow
  <2>2. world[x] \in Definitions /\ job.start[x] \in Definitions  BY <1>3, <1>6 DEF Registered
  <2>3. \A d, e \in Definitions : [d EXCEPT !.sec = NoSec] = [e EXCEPT !.sec = NoSec] =>
            d.content = e.content /\ d.marked = e.marked /\ d.enabled = e.enabled
    <3> SUFFICES ASSUME NEW d \in Definitions, NEW e \in Definitions,
                        [d EXCEPT !.sec = NoSec] = [e EXCEPT !.sec = NoSec]
                 PROVE  d.content = e.content /\ d.marked = e.marked /\ d.enabled = e.enabled
      OBVIOUS
    <3>1. /\ [d EXCEPT !.sec = NoSec].content = d.content
          /\ [d EXCEPT !.sec = NoSec].marked = d.marked
          /\ [d EXCEPT !.sec = NoSec].enabled = d.enabled
          /\ [e EXCEPT !.sec = NoSec].content = e.content
          /\ [e EXCEPT !.sec = NoSec].marked = e.marked
          /\ [e EXCEPT !.sec = NoSec].enabled = e.enabled
      BY DEF Definitions
    <3>2. QED  BY <3>1, Zenon
  <2>4. \A d, e \in Definitions :
            d.content = e.content /\ d.marked = e.marked /\ d.enabled = e.enabled =>
                d = [e EXCEPT !.sec = d.sec]
    BY DEF Definitions
  <2>5. QED  BY <2>1, <2>2, <2>3, <2>4
<1>7. QED  BY <1>4, <1>5, <1>6

(* A failed apply that reports nothing unresolved has put back every target  *)
(* that no other writer touched, whichever of its calls failed, or lost      *)
(* their response (apply_backend, compensate_observed).                      *)
THEOREM TargetsRestored == Spec => []RollbackRestores
BY AlwaysRestorable, AlwaysLedger, EmptyStackRestores, PTL

-----------------------------------------------------------------------------
(* What a successful apply leaves behind.                                    *)
(*                                                                           *)
(* What inspection reads of the contents w, but for the descriptors in U.    *)
SeenBut(m, w, U) ==
    [tasks |-> [t \in {u \in TaskPaths : w[u] # Missing} |->
        IF t \in DOMAIN m.tasks /\ m.tasks[t].sec # NoSec /\ t \notin U
        THEN w[t] ELSE [w[t] EXCEPT !.sec = NoSec]],
     folders |-> [f \in {g \in FolderPaths : w[g] # Missing} |->
        IF f \in DOMAIN m.folders /\ m.folders[f] # NoSec /\ f \notin U
        THEN w[f] ELSE NoSec]]
SeenAt(m, w) == IF w[Namespace] = Missing THEN EmptySnapshot ELSE SeenBut(m, w, {})

(* v is what the change c of the manifest m is for.                          *)
Meets(m, c, v) ==
    LET x == c.target IN
    /\ c.kind = "DeleteTask" => v = Missing
    /\ c.kind # "DeleteTask" => v # Missing
    /\ c.kind \in Registrations =>
          /\ SemanticallyEqual(v, OwnedDefinition(m, x))
          /\ v.enabled = m.tasks[x].enabled
          /\ m.tasks[x].sec # NoSec => v.sec = m.tasks[x].sec
    /\ c.kind = "SetEnabled" => v.enabled = m.tasks[x].enabled
    /\ c.kind = "SetTaskSecurity" => v.sec = m.tasks[x].sec
    /\ c.kind = "SetFolderSecurity" => v = m.folders[x]

(* Each part of a target is what it was at the start, or what the manifest   *)
(* wants; nothing declared is lost.                                          *)
SteadyTask(m, t, s, v) ==
    LET want == m.tasks[t] IN
    /\ t \notin DOMAIN m.tasks => v \in {s, Missing}
    /\ t \in DOMAIN m.tasks /\ s # Missing => v # Missing
    /\ t \in DOMAIN m.tasks /\ s # Missing =>
          /\ v.content \in {s.content, want.content}
          /\ v.marked \in {s.marked, TRUE}
          /\ v.enabled \in {s.enabled, want.enabled}
          /\ want.sec # NoSec => v.sec \in {s.sec, want.sec}
SteadyFolder(m, f, s, v) ==
    s # Missing =>
        /\ v # Missing
        /\ v = s \/ (f \in DOMAIN m.folders /\ m.folders[f] # NoSec /\ v = m.folders[f])

(* A deletion is of a task that the manifest does not declare.               *)
Righted(c) == c.kind = "DeleteTask" => c.target \notin DOMAIN Manifest.tasks

(* The changed parts of an edited task.                                      *)
LEMMA EditedParts ==
    ASSUME NEW d \in Registered
    PROVE  /\ \A e \in BOOLEAN : \A v : v = [d EXCEPT !.enabled = e] =>
                 /\ v \in Registered /\ v.content = d.content /\ v.marked = d.marked
                 /\ v.enabled = e /\ v.sec = d.sec
           /\ \A s \in Secs : \A v : v = [d EXCEPT !.sec = s] =>
                 /\ v \in Registered /\ v.content = d.content /\ v.marked = d.marked
                 /\ v.enabled = d.enabled /\ v.sec = s
BY ValuesAssumption DEF Registered, Definitions

(* What the native call of each kind of change leaves.                       *)
LEMMA DesiredParts ==
    ASSUME Typed, NEW c \in Planned, Accepts(c)
    PROVE  /\ c.kind = "CreateFolder" => world[c.target] = Missing /\ Desired(c) = DefaultSec
           /\ c.kind \in Registrations =>
                 /\ Desired(c) \in Registered
                 /\ SemanticallyEqual(Desired(c), OwnedDefinition(Manifest, c.target))
                 /\ Desired(c).marked = TRUE
                 /\ Desired(c).enabled = Manifest.tasks[c.target].enabled
                 /\ Manifest.tasks[c.target].sec # NoSec =>
                       Desired(c).sec = Manifest.tasks[c.target].sec
           /\ c.kind = "DeleteTask" => Desired(c) = Missing
           /\ c.kind = "SetEnabled" =>
                 /\ world[c.target] \in Registered /\ Desired(c) \in Registered
                 /\ Desired(c).content = world[c.target].content
                 /\ Desired(c).marked = world[c.target].marked
                 /\ Desired(c).enabled = Manifest.tasks[c.target].enabled
                 /\ Desired(c).sec = world[c.target].sec
           /\ c.kind = "SetTaskSecurity" =>
                 /\ world[c.target] \in Registered /\ Desired(c) \in Registered
                 /\ Desired(c).content = world[c.target].content
                 /\ Desired(c).marked = world[c.target].marked
                 /\ Desired(c).enabled = world[c.target].enabled
                 /\ Desired(c).sec = Manifest.tasks[c.target].sec
           /\ c.kind = "SetFolderSecurity" => Desired(c) = Manifest.folders[c.target]
<1>1. c.kind \in Kinds /\ c.target \in Targets  BY PlannedTargets DEF Typed
<1>2. c.kind = "CreateFolder" => world[c.target] = Missing /\ Desired(c) = DefaultSec
  <2>1. c.kind = "CreateFolder" => Accepts(c) = CanCreateFolder(c.target)  BY DEF Accepts
  <2>2. c.kind = "CreateFolder" => Desired(c) = DefaultSec  BY DEF Desired, Registrations
  <2>3. QED  BY <2>1, <2>2 DEF CanCreateFolder, Exists
<1>3. ASSUME c.kind \in Registrations
      PROVE  /\ Desired(c) \in Registered
             /\ SemanticallyEqual(Desired(c), OwnedDefinition(Manifest, c.target))
             /\ Desired(c).marked = TRUE
             /\ Desired(c).enabled = Manifest.tasks[c.target].enabled
             /\ Manifest.tasks[c.target].sec # NoSec =>
                   Desired(c).sec = Manifest.tasks[c.target].sec
  <2>1. Desired(c) = RegisteredValue(c)  BY <1>3 DEF Desired, Registrations
  <2>2. c.target \in TaskPaths /\ c.kind # "DeleteTask"
    BY <1>3, PlannedTargets DEF Typed, Registrations
  <2>3. Desired(c) \in Registered  BY <2>2, DesiredType
  <2>4. RegisteredValue(c).content = Manifest.tasks[c.target].content
        /\ RegisteredValue(c).enabled = Manifest.tasks[c.target].enabled
        /\ RegisteredValue(c).marked = TRUE
    BY DEF RegisteredValue, OwnedDefinition
  <2>5. Manifest.tasks[c.target].sec # NoSec =>
            RegisteredValue(c).sec = Manifest.tasks[c.target].sec
    BY DEF RegisteredValue, OwnedDefinition, WithDefault
  <2>6. QED  BY <2>1, <2>3, <2>4, <2>5 DEF SemanticallyEqual, OwnedDefinition
<1>4. c.kind = "DeleteTask" => Desired(c) = Missing  BY DEF Desired, Registrations
<1>5. ASSUME c.kind \in {"SetEnabled", "SetTaskSecurity"} PROVE world[c.target] \in Registered
  <2>1. Exists(c.target)  BY <1>5 DEF Accepts
  <2>2. c.target \in TaskPaths  BY <1>5, PlannedTargets DEF Typed
  <2>3. QED  BY <1>1, <2>1, <2>2, WorldValues DEF Typed, TypeOK, Exists
<1>6. ASSUME c.kind = "SetEnabled"
      PROVE  /\ Desired(c) \in Registered
             /\ Desired(c).content = world[c.target].content
             /\ Desired(c).marked = world[c.target].marked
             /\ Desired(c).enabled = Manifest.tasks[c.target].enabled
             /\ Desired(c).sec = world[c.target].sec
  <2>1. Desired(c) = [world[c.target] EXCEPT !.enabled = Manifest.tasks[c.target].enabled]
    BY <1>6 DEF Desired, Registrations
  <2>2. Manifest.tasks[c.target].enabled \in BOOLEAN
    BY <1>6, PlannedTargets DEF Typed
  <2>3. world[c.target] \in Registered  BY <1>5, <1>6
  <2>4. QED  BY <2>1, <2>2, <2>3, EditedParts
<1>7. ASSUME c.kind = "SetTaskSecurity"
      PROVE  /\ Desired(c) \in Registered
             /\ Desired(c).content = world[c.target].content
             /\ Desired(c).marked = world[c.target].marked
             /\ Desired(c).enabled = world[c.target].enabled
             /\ Desired(c).sec = Manifest.tasks[c.target].sec
  <2>1. Desired(c) = [world[c.target] EXCEPT !.sec = Manifest.tasks[c.target].sec]
    BY <1>7 DEF Desired, Registrations
  <2>2. Manifest.tasks[c.target].sec \in Secs
    BY <1>7, PlannedTargets DEF Typed
  <2>3. world[c.target] \in Registered  BY <1>5, <1>7
  <2>4. QED  BY <2>1, <2>2, <2>3, EditedParts
<1>8. c.kind = "SetFolderSecurity" => Desired(c) = Manifest.folders[c.target]
  BY DEF Desired, Registrations
<1>9. QED  BY <1>2, <1>3, <1>4, <1>5, <1>6, <1>7, <1>8

(* Values that are there.                                                    *)
LEMMA Present == Missing \notin Registered \cup Secs \cup {NoSec}
<1>1. Missing \notin Definitions \cup Secs \cup {NoSec}  BY ValuesAssumption
<1>2. QED  BY <1>1 DEF Registered

(* The call does what the change is for,                                     *)
LEMMA DesiredMeets ==
    ASSUME Typed, NEW c \in Planned, Accepts(c)
    PROVE  Meets(Manifest, c, Desired(c))
<1> DEFINE x == c.target
           v == Desired(c)
<1>1. c.kind \in Kinds  BY PlannedTargets DEF Typed
<1>2. CASE c.kind = "CreateFolder"
  <2>1. v = DefaultSec  BY <1>2, DesiredParts
  <2>2. v # Missing  BY <2>1, ValuesAssumption
  <2>3. QED  BY <1>2, <2>2 DEF Meets, Registrations
<1>3. CASE c.kind \in Registrations
  <2>1. v # Missing  BY <1>3, DesiredParts, Present
  <2>2. QED  BY <1>3, <2>1, DesiredParts DEF Meets, Registrations
<1>4. CASE c.kind = "DeleteTask"  BY <1>4, DesiredParts DEF Meets, Registrations
<1>5. CASE c.kind = "SetEnabled"
  <2>1. v \in Registered /\ v.enabled = Manifest.tasks[x].enabled
    BY <1>5, DesiredParts
  <2>2. QED  BY <1>5, <2>1, Present DEF Meets, Registrations
<1>6. CASE c.kind = "SetTaskSecurity"
  <2>1. v \in Registered /\ v.sec = Manifest.tasks[x].sec
    BY <1>6, DesiredParts
  <2>2. QED  BY <1>6, <2>1, Present DEF Meets, Registrations
<1>7. CASE c.kind = "SetFolderSecurity"
  <2>1. v = Manifest.folders[x] /\ v \in Secs
    BY <1>7, DesiredParts, PlannedTargets DEF Typed
  <2>2. v # Missing  BY <2>1, Present
  <2>3. QED  BY <1>7, <2>1, <2>2 DEF Meets, Registrations
<1>8. QED  BY <1>1, <1>2, <1>3, <1>4, <1>5, <1>6, <1>7 DEF Kinds, Registrations

(* undoes nothing that an earlier change of the plan was for,                *)
LEMMA DesiredKeeps ==
    ASSUME Typed, NEW c \in Planned, NEW d \in Planned, Accepts(c), Righted(c), Righted(d),
           c.target = d.target, Meets(Manifest, d, world[c.target])
    PROVE  Meets(Manifest, d, Desired(c))
<1> DEFINE x == c.target
           v == Desired(c)
<1>1. c.kind \in Kinds /\ d.kind \in Kinds  BY PlannedTargets DEF Typed
<1>2. Meets(Manifest, c, v)  BY DesiredMeets
<1>3. CASE c.kind = d.kind  BY <1>2, <1>3 DEF Meets
<1>4. CASE x \in FolderPaths /\ c.kind # d.kind
  <2>1. c.kind \in {"CreateFolder", "SetFolderSecurity"}
        /\ d.kind \in {"CreateFolder", "SetFolderSecurity"}
    BY <1>4, PlannedTargets DEF Typed
  <2>2. CASE c.kind = "CreateFolder"
    <3>1. world[x] = Missing  BY <2>2, DesiredParts
    <3>2. world[x] # Missing  BY <2>1 DEF Meets
    <3>3. QED  BY <3>1, <3>2
  <2>3. CASE c.kind = "SetFolderSecurity"
    <3>1. d.kind = "CreateFolder" /\ v # Missing  BY <1>2, <1>4, <2>1, <2>3 DEF Meets
    <3>2. QED  BY <3>1 DEF Meets, Registrations
  <2>4. QED  BY <2>1, <2>2, <2>3
<1>5. CASE x \in TaskPaths /\ c.kind # d.kind
  <2>1. c.kind \notin {"CreateFolder", "SetFolderSecurity"}
        /\ d.kind \notin {"CreateFolder", "SetFolderSecurity"}
    BY <1>5, PlannedTargets DEF Typed
  <2>2. c.kind # "DeleteTask" /\ d.kind # "DeleteTask"
    <3>1. c.kind = "DeleteTask" => d.kind \in Registrations \cup {"SetEnabled", "SetTaskSecurity"}
      BY <1>1, <1>5, <2>1 DEF Kinds, Registrations
    <3>2. d.kind = "DeleteTask" => c.kind \in Registrations \cup {"SetEnabled", "SetTaskSecurity"}
      BY <1>1, <1>5, <2>1 DEF Kinds, Registrations
    <3>3. QED  BY <3>1, <3>2, PlannedTargets DEF Typed, Righted
  <2>3. v # Missing  BY <1>2, <2>2 DEF Meets
  <2>4. d.kind = "SetTaskSecurity" => Manifest.tasks[x].sec \in Secs
    BY PlannedTargets DEF Typed
  <2>5. d.kind \in Registrations =>
            /\ SemanticallyEqual(world[x], OwnedDefinition(Manifest, x))
            /\ world[x].enabled = Manifest.tasks[x].enabled
            /\ Manifest.tasks[x].sec # NoSec => world[x].sec = Manifest.tasks[x].sec
    BY DEF Meets
  <2>6. /\ d.kind = "SetEnabled" => world[x].enabled = Manifest.tasks[x].enabled
        /\ d.kind = "SetTaskSecurity" => world[x].sec = Manifest.tasks[x].sec
    BY DEF Meets
  <2>7. CASE c.kind \in Registrations
    <3>1. /\ SemanticallyEqual(v, OwnedDefinition(Manifest, x))
          /\ v.enabled = Manifest.tasks[x].enabled
          /\ Manifest.tasks[x].sec # NoSec => v.sec = Manifest.tasks[x].sec
      BY <2>7, DesiredParts
    <3>2. QED  BY <2>1, <2>2, <2>3, <2>4, <3>1, ValuesAssumption DEF Meets
  <2>8. CASE c.kind = "SetEnabled"
    <3>1. /\ v.content = world[x].content /\ v.marked = world[x].marked
          /\ v.enabled = Manifest.tasks[x].enabled /\ v.sec = world[x].sec
      BY <2>8, DesiredParts
    <3>2. QED  BY <2>1, <2>2, <2>3, <2>5, <2>6, <3>1 DEF Meets, SemanticallyEqual
  <2>9. CASE c.kind = "SetTaskSecurity"
    <3>1. /\ v.content = world[x].content /\ v.marked = world[x].marked
          /\ v.enabled = world[x].enabled /\ v.sec = Manifest.tasks[x].sec
      BY <2>9, DesiredParts
    <3>2. QED  BY <2>1, <2>2, <2>3, <2>5, <2>6, <3>1 DEF Meets, SemanticallyEqual
  <2>10. QED  BY <1>1, <2>1, <2>2, <2>7, <2>8, <2>9 DEF Kinds, Registrations
<1>6. x \in TaskPaths \cup FolderPaths  BY PlannedTargets DEF Typed, Targets
<1>7. QED  BY <1>3, <1>4, <1>5, <1>6

(* and changes a part of its target only to what the manifest wants.         *)
LEMMA DesiredSteadyTask ==
    ASSUME Typed, NEW c \in Planned, Accepts(c), Righted(c), c.target \in TaskPaths, NEW s,
           SteadyTask(Manifest, c.target, s, world[c.target])
    PROVE  SteadyTask(Manifest, c.target, s, Desired(c))
<1> DEFINE x == c.target
           v == Desired(c)
<1>1. c.kind \in Kinds \ {"CreateFolder", "SetFolderSecurity"}
  BY PlannedTargets DEF Typed
<1>2. CASE c.kind = "DeleteTask"  BY <1>2, DesiredParts DEF SteadyTask, Righted
<1>3. CASE c.kind # "DeleteTask"
  <2>1. x \in DOMAIN Manifest.tasks
    BY <1>1, <1>3, PlannedTargets DEF Typed, Kinds, Registrations
  <2>2. CASE s = Missing  BY <2>1, <2>2 DEF SteadyTask
  <2>3. CASE s # Missing
    <3>1. /\ world[x].content \in {s.content, Manifest.tasks[x].content}
          /\ world[x].marked \in {s.marked, TRUE}
          /\ world[x].enabled \in {s.enabled, Manifest.tasks[x].enabled}
          /\ Manifest.tasks[x].sec # NoSec => world[x].sec \in {s.sec, Manifest.tasks[x].sec}
      BY <2>1, <2>3 DEF SteadyTask
    <3>2. v # Missing  BY <1>3, DesiredMeets DEF Meets
    <3>3. CASE c.kind \in Registrations
      <4>1. /\ v.content = Manifest.tasks[x].content /\ v.marked = TRUE
            /\ v.enabled = Manifest.tasks[x].enabled
            /\ Manifest.tasks[x].sec # NoSec => v.sec = Manifest.tasks[x].sec
        BY <3>3, DesiredParts DEF SemanticallyEqual, OwnedDefinition
      <4>2. QED  BY <2>1, <2>3, <3>2, <4>1 DEF SteadyTask
    <3>4. CASE c.kind = "SetEnabled"
      <4>1. /\ v.content = world[x].content /\ v.marked = world[x].marked
            /\ v.enabled = Manifest.tasks[x].enabled /\ v.sec = world[x].sec
        BY <3>4, DesiredParts
      <4>2. QED  BY <2>1, <2>3, <3>1, <3>2, <4>1 DEF SteadyTask
    <3>5. CASE c.kind = "SetTaskSecurity"
      <4>1. /\ v.content = world[x].content /\ v.marked = world[x].marked
            /\ v.enabled = world[x].enabled /\ v.sec = Manifest.tasks[x].sec
        BY <3>5, DesiredParts
      <4>2. QED  BY <2>1, <2>3, <3>1, <3>2, <4>1 DEF SteadyTask
    <3>6. QED  BY <1>1, <1>3, <3>3, <3>4, <3>5 DEF Kinds, Registrations
  <2>4. QED  BY <2>2, <2>3
<1>4. QED  BY <1>2, <1>3

LEMMA DesiredSteadyFolder ==
    ASSUME Typed, NEW c \in Planned, Accepts(c), c.target \in FolderPaths, NEW s,
           SteadyFolder(Manifest, c.target, s, world[c.target])
    PROVE  SteadyFolder(Manifest, c.target, s, Desired(c))
<1>1. c.kind \in {"CreateFolder", "SetFolderSecurity"}
  BY PlannedTargets DEF Typed
<1>2. CASE c.kind = "CreateFolder"  BY <1>2, DesiredParts DEF SteadyFolder
<1>3. CASE c.kind = "SetFolderSecurity"
  <2>1. Desired(c) = Manifest.folders[c.target] /\ Manifest.folders[c.target] \in Secs
    BY <1>3, DesiredParts, PlannedTargets DEF Typed
  <2>2. c.target \in DOMAIN Manifest.folders  BY <1>3 DEF Planned, WellFormed
  <2>3. Manifest.folders[c.target] # NoSec /\ Manifest.folders[c.target] # Missing
    BY <2>1, ValuesAssumption, Present
  <2>4. QED  BY <2>1, <2>2, <2>3 DEF SteadyFolder
<1>4. QED  BY <1>1, <1>2, <1>3

-----------------------------------------------------------------------------
(* The invariant of an apply that no other writer disturbs: inspection reads *)
(* the start, the plan is the one of that reading, the scheduler is steady,  *)
(* and every finished change has done what it is for.                        *)

PlannedPcs == {"preflight", "agree", "prepare"} \cup ChangePcs \cup {"succeeded"}

(* What list_tasks returns of the contents w: no descriptors.                *)
Listed(w) == [t \in {u \in TaskPaths : w[u] # Missing} |-> [w[t] EXCEPT !.sec = NoSec]]

Wanted(x) ==
    \/ x \in FolderPaths /\ x \in DOMAIN Manifest.folders /\ Manifest.folders[x] # NoSec
    \/ x \in TaskPaths /\ x \in DOMAIN Manifest.tasks /\ Manifest.tasks[x].sec # NoSec

Surveyed ==
    hist.touched = {} =>
        /\ pc \in InspectPcs => world = job.start
        /\ pc = "list_tasks" => snapshot = EmptySnapshot
        /\ pc = "list_folders" =>
              /\ job.start[Namespace] # Missing
              /\ snapshot.tasks = Listed(job.start)
        /\ pc = "read_security" =>
              /\ job.start[Namespace] # Missing
              /\ snapshot = SeenBut(Manifest, job.start, unread)
              /\ \A x \in unread : Wanted(x)
        /\ pc \in PlannedPcs \cup {"plan"} => snapshot = SeenAt(Manifest, job.start)

PlanKnown ==
    pc \in PlannedPcs =>
        /\ ~OwnershipConflict(Manifest, snapshot, job.adopt)
        /\ Elements(plan) = PlanChanges(Manifest, snapshot, job.prune)

Kept ==
    hist.touched = {} /\ pc \in InspectPcs \cup PlannedPcs =>
        /\ \A t \in TaskPaths : SteadyTask(Manifest, t, job.start[t], world[t])
        /\ \A f \in FolderPaths : SteadyFolder(Manifest, f, job.start[f], world[f])

Finished(i) ==
    \/ pc = "succeeded"
    \/ pc \in ChangePcs /\ i < index
    \/ pc \in {"read_back", "verify"} /\ result # "err" /\ i = index

Met ==
    hist.touched = {} =>
        \A i \in DOMAIN plan : Finished(i) => Meets(Manifest, plan[i], world[plan[i].target])

Converging == Surveyed /\ PlanKnown /\ Kept /\ Met

LEMMA InitConverging == Init => Converging
<1> SUFFICES ASSUME Init PROVE Converging  OBVIOUS
<1>1. /\ pc = "list_tasks" /\ world = job.start /\ snapshot = EmptySnapshot /\ plan = <<>>
  BY DEF Init
<1>2. Surveyed /\ PlanKnown
  BY <1>1 DEF Surveyed, PlanKnown, PlannedPcs, ChangePcs
<1>3. Kept  BY <1>1 DEF Kept, SteadyTask, SteadyFolder
<1>4. Met  BY <1>1 DEF Met
<1>5. QED  BY <1>2, <1>3, <1>4 DEF Converging

(* Every phase is one of these, and compensation is the last.                *)
LEMMA Phases ==
    ASSUME Typed
    PROVE  /\ pc \in InspectPcs \cup PlannedPcs \cup BackwardPcs
           /\ InspectPcs \cap PlannedPcs = {} /\ InspectPcs \cap BackwardPcs = {}
           /\ PlannedPcs \cap BackwardPcs = {}
BY DEF Typed, TypeOK, InspectPcs, PlannedPcs, ChangePcs, BackwardPcs, UndoPcs, Sites

(* Compensation and failure leave nothing to converge.                       *)
LEMMA ConvergingLost ==
    ASSUME Typed, pc' \in BackwardPcs
    PROVE  Converging'
<1>1. pc' \notin InspectPcs \cup PlannedPcs
  BY DEF InspectPcs, PlannedPcs, ChangePcs, BackwardPcs, UndoPcs
<1>2. Surveyed' /\ PlanKnown' /\ Kept'  BY <1>1 DEF Surveyed, PlanKnown, Kept, InspectPcs
<1>3. \A i : ~Finished(i)'  BY <1>1 DEF Finished, PlannedPcs, ChangePcs
<1>4. Met'  BY <1>3 DEF Met
<1>5. QED  BY <1>2, <1>4 DEF Converging

(* Another writer disturbs.                                                  *)
LEMMA ConvergingForeign ==
    ASSUME Typed, Recorded, Converging, ForeignWrite
    PROVE  Converging'
<1>1. hist'.touched # {} /\ UNCHANGED <<job, pc, plan, snapshot>>
  BY DEF ForeignWrite, Recorded, Histories, inspection
<1>2. PlanKnown'  BY <1>1 DEF Converging, PlanKnown, Manifest
<1>3. QED  BY <1>1, <1>2 DEF Converging, Surveyed, Kept, Met

(* Most steps write nothing to the scheduler.                                *)
LEMMA ConvergingQuiet ==
    ASSUME Typed, Converging, UNCHANGED <<job, world, plan, snapshot>>,
           hist'.touched = hist.touched, pc \in PlannedPcs, pc' \in PlannedPcs,
           \A i \in DOMAIN plan : Finished(i)' => Finished(i)
    PROVE  Converging'
<1>1. pc' \notin InspectPcs  BY DEF PlannedPcs, ChangePcs, InspectPcs
<1>2. Manifest' = Manifest  BY DEF Manifest
<1>3. Surveyed'  BY <1>1, <1>2 DEF Converging, Surveyed, PlannedPcs, ChangePcs, InspectPcs
<1>4. PlanKnown'  BY <1>2 DEF Converging, PlanKnown
<1>5. Kept'  BY <1>2 DEF Converging, Kept
<1>6. Met'  BY <1>2 DEF Converging, Met
<1>7. QED  BY <1>3, <1>4, <1>5, <1>6 DEF Converging

LEMMA ConvergingStutter == Converging /\ UNCHANGED vars => Converging'
<1> SUFFICES ASSUME Converging, UNCHANGED vars PROVE Converging'  OBVIOUS
<1>1. /\ UNCHANGED <<job, world, pc, index, snapshot, unread, plan, result, hist>>
      /\ Manifest' = Manifest
  BY DEF vars, inspection, Manifest
<1>2. Surveyed' /\ PlanKnown' /\ Kept'
  BY <1>1 DEF Converging, Surveyed, PlanKnown, Kept, Wanted
<1>3. Met'  BY <1>1 DEF Converging, Met, Finished
<1>4. QED  BY <1>2, <1>3 DEF Converging

-----------------------------------------------------------------------------
(* Inspection.                                                               *)

(* The start is a state of the scheduler.                                    *)
LEMMA StartWorld ==
    ASSUME Typed
    PROVE  /\ job.start \in World /\ world \in World
           /\ job.start[Namespace] = Missing => \A x \in Targets : job.start[x] = Missing
           /\ DOMAIN Manifest.tasks \subseteq TaskPaths
           /\ DOMAIN Manifest.folders \subseteq FolderPaths
           /\ TaskPaths \cap FolderPaths = {} /\ Namespace \in FolderPaths
BY JobsAssumption, PathsAssumption DEF Typed, TypeOK, Manifest

(* During inspection nothing is written, and nothing planned is finished.    *)
LEMMA ConvergingInspect ==
    ASSUME Typed, Recorded, Converging, Inspect, pc' # "failed",
           hist'.touched = {} =>
               /\ pc' = "list_folders" =>
                     /\ job.start[Namespace] # Missing
                     /\ snapshot'.tasks = Listed(job.start)
               /\ pc' = "read_security" =>
                     /\ job.start[Namespace] # Missing
                     /\ snapshot' = SeenBut(Manifest, job.start, unread')
                     /\ \A x \in unread' : Wanted(x)
               /\ pc' = "plan" => snapshot' = SeenAt(Manifest, job.start)
    PROVE  Converging'
<1>1. /\ UNCHANGED <<job, world, hist>> /\ pc \in InspectPcs
      /\ pc' \in {"list_folders", "read_security", "plan"}
  BY DEF Inspect, ListTasks, ListFolders, ReadSecurity, Abort, InspectPcs
<1>2. Manifest' = Manifest /\ \A x : Wanted(x)' <=> Wanted(x)  BY <1>1 DEF Manifest, Wanted
<1>3. pc' \in InspectPcs /\ pc' \notin PlannedPcs /\ pc' # "list_tasks"
  BY <1>1 DEF InspectPcs, PlannedPcs, ChangePcs
<1>4. Surveyed'
  <2> SUFFICES ASSUME hist'.touched = {}
               PROVE  /\ world' = job'.start
                      /\ pc' = "list_folders" =>
                            /\ job'.start[Namespace] # Missing
                            /\ snapshot'.tasks = Listed(job'.start)
                      /\ pc' = "read_security" =>
                            /\ job'.start[Namespace] # Missing
                            /\ snapshot' = SeenBut(Manifest', job'.start, unread')
                            /\ \A x \in unread' : Wanted(x)'
                      /\ pc' = "plan" => snapshot' = SeenAt(Manifest', job'.start)
    BY <1>3 DEF Surveyed
  <2>1. job' = job /\ world' = job.start
    BY <1>1 DEF Converging, Surveyed
  <2>2. QED  BY <1>2, <2>1
<1>5. PlanKnown' /\ \A i : ~Finished(i)'
  BY <1>3 DEF PlanKnown, Finished, PlannedPcs, ChangePcs
<1>6. Kept'  BY <1>1, <1>2 DEF Converging, Kept
<1>7. QED  BY <1>4, <1>5, <1>6 DEF Converging, Met

LEMMA ConvergingListTasks ==
    ASSUME Typed, Recorded, Converging, ListTasks
    PROVE  Converging'
<1>1. CASE pc' = "failed"  BY <1>1, ConvergingLost DEF BackwardPcs
<1>2. CASE pc' # "failed"
  <2>1. UNCHANGED <<job, world, hist>> /\ pc = "list_tasks"  BY DEF ListTasks
  <2> SUFFICES ASSUME hist'.touched = {}
               PROVE  /\ pc' = "list_folders" =>
                           /\ job.start[Namespace] # Missing
                           /\ snapshot'.tasks = Listed(job.start)
                      /\ pc' # "read_security"
                      /\ pc' = "plan" => snapshot' = SeenAt(Manifest, job.start)
    BY <1>2, ConvergingInspect DEF Inspect
  <2>2. world = job.start /\ snapshot = EmptySnapshot
    BY <2>1 DEF Converging, Surveyed, InspectPcs
  <2>3. CASE pc' = "plan"
    <3>1. ~Exists(Namespace) /\ snapshot' = snapshot  BY <2>3 DEF ListTasks, Abort
    <3>2. QED  BY <2>2, <2>3, <3>1 DEF SeenAt, Exists
  <2>4. CASE pc' # "plan"
    <3>1. /\ Exists(Namespace) /\ pc' = "list_folders"
          /\ snapshot' = [snapshot EXCEPT !.tasks =
                [t \in {u \in TaskPaths : Exists(u)} |-> [world[t] EXCEPT !.sec = NoSec]]]
      BY <1>2, <2>4 DEF ListTasks, Abort
    <3>2. snapshot'.tasks = [t \in {u \in TaskPaths : Exists(u)} |-> [world[t] EXCEPT !.sec = NoSec]]
      BY <2>2, <3>1 DEF EmptySnapshot
    <3>3. QED  BY <2>2, <3>1, <3>2 DEF Exists, Listed
  <2>5. QED  BY <2>3, <2>4
<1>3. QED  BY <1>1, <1>2

LEMMA ConvergingListFolders ==
    ASSUME Typed, Recorded, Converging, ListFolders
    PROVE  Converging'
<1>1. CASE pc' = "failed"  BY <1>1, ConvergingLost DEF BackwardPcs
<1>2. CASE pc' # "failed"
  <2>1. UNCHANGED <<job, world, hist>> /\ pc = "list_folders"  BY DEF ListFolders
  <2> DEFINE found == {f \in FolderPaths : Exists(f)}
  <2>2. /\ Exists(Namespace) /\ pc' \in {"plan", "read_security"}
        /\ snapshot' = [snapshot EXCEPT !.folders = [f \in found |-> NoSec]]
        /\ unread' = {f \in found \cap DOMAIN Manifest.folders : Manifest.folders[f] # NoSec}
                       \cup {t \in DOMAIN snapshot.tasks \cap DOMAIN Manifest.tasks :
                                  Manifest.tasks[t].sec # NoSec}
        /\ pc' = "plan" => unread' = {}
    BY <1>2 DEF ListFolders, Abort
  <2> SUFFICES ASSUME hist'.touched = {}
               PROVE  /\ job.start[Namespace] # Missing
                      /\ snapshot' = SeenBut(Manifest, job.start, unread')
                      /\ \A x \in unread' : Wanted(x)
                      /\ pc' = "plan" => snapshot' = SeenAt(Manifest, job.start)
    BY <1>2, <2>2, ConvergingInspect DEF Inspect
  <2>3. /\ world = job.start /\ job.start[Namespace] # Missing
        /\ snapshot.tasks = Listed(job.start)
    BY <2>1 DEF Converging, Surveyed, InspectPcs
  <2>4. snapshot' = [tasks |-> snapshot.tasks, folders |-> [f \in found |-> NoSec]]
    BY <2>2 DEF Typed, TypeOK, Snapshots
  <2>5. ASSUME NEW t \in {u \in TaskPaths : job.start[u] # Missing}
        PROVE  ~(t \in DOMAIN Manifest.tasks /\ Manifest.tasks[t].sec # NoSec /\ t \notin unread')
    BY <2>2, <2>3 DEF Listed
  <2>6. found = {g \in FolderPaths : job.start[g] # Missing}  BY <2>3 DEF Exists
  <2>7. ASSUME NEW f \in found
        PROVE  ~(f \in DOMAIN Manifest.folders /\ Manifest.folders[f] # NoSec /\ f \notin unread')
    BY <2>2
  <2>8. snapshot' = SeenBut(Manifest, job.start, unread')
    BY <2>3, <2>4, <2>5, <2>6, <2>7 DEF SeenBut, Listed
  <2>9. \A x \in unread' : Wanted(x)  BY <2>2, <2>3, StartWorld DEF Wanted, Listed
  <2>10. QED  BY <2>2, <2>3, <2>8, <2>9 DEF SeenAt
<1>3. QED  BY <1>1, <1>2

(* A descriptor that is read goes into its place.                            *)
LEMMA PairEdit ==
    ASSUME NEW a, NEW b, NEW x, NEW v
    PROVE  /\ [[tasks |-> a, folders |-> b] EXCEPT !.folders[x] = v]
                 = [tasks |-> a, folders |-> [b EXCEPT ![x] = v]]
           /\ [[tasks |-> a, folders |-> b] EXCEPT !.tasks[x].sec = v]
                 = [tasks |-> [a EXCEPT ![x] = [a[x] EXCEPT !.sec = v]], folders |-> b]
OBVIOUS

LEMMA ConvergingReadSecurity ==
    ASSUME Typed, Recorded, Converging, ReadSecurity
    PROVE  Converging'
<1>1. CASE pc' = "failed"  BY <1>1, ConvergingLost DEF BackwardPcs
<1>2. CASE pc' # "failed"
  <2>1. UNCHANGED <<job, world, hist>> /\ pc = "read_security"  BY DEF ReadSecurity
  <2>2. PICK x \in unread :
           /\ Exists(x)
           /\ snapshot' = IF x \in FolderPaths
                 THEN [snapshot EXCEPT !.folders[x] = world[x]]
                 ELSE [snapshot EXCEPT !.tasks[x].sec = world[x].sec]
           /\ unread' = unread \ {x}
           /\ pc' \in {"plan", "read_security"} /\ (pc' = "plan" => unread' = {})
    BY <1>2, <2>1 DEF ReadSecurity, Abort
  <2> SUFFICES ASSUME hist'.touched = {}
               PROVE  /\ job.start[Namespace] # Missing
                      /\ snapshot' = SeenBut(Manifest, job.start, unread')
                      /\ \A y \in unread' : Wanted(y)
                      /\ pc' = "plan" => snapshot' = SeenAt(Manifest, job.start)
    BY <1>2, <2>2, ConvergingInspect DEF Inspect
  <2>3. /\ world = job.start /\ job.start[Namespace] # Missing
        /\ snapshot = SeenBut(Manifest, job.start, unread)
        /\ \A y \in unread : Wanted(y)
    BY <2>1 DEF Converging, Surveyed, InspectPcs
  <2>4. Wanted(x) /\ x \in Targets  BY <2>3 DEF Typed, TypeOK
  <2> DEFINE s == SeenBut(Manifest, job.start, unread)
             n == SeenBut(Manifest, job.start, unread \ {x})
  <2>5. snapshot' = n
    <3>1. CASE x \in FolderPaths
      <4>1. /\ x \notin TaskPaths /\ x \in DOMAIN Manifest.folders
            /\ Manifest.folders[x] # NoSec /\ job.start[x] # Missing
        BY <2>2, <2>3, <2>4, <3>1, StartWorld DEF Wanted, Exists
      <4>2. snapshot' = [s EXCEPT !.folders[x] = job.start[x]]  BY <2>2, <2>3, <3>1
      <4>3. n.tasks = s.tasks
        <5>1. \A t \in TaskPaths : t \notin unread <=> t \notin unread \ {x}  BY <4>1
        <5>2. QED  BY <5>1 DEF SeenBut
      <4>4. n.folders = [s.folders EXCEPT ![x] = job.start[x]]  BY <4>1 DEF SeenBut
      <4>5. QED
        <5>1. /\ n = [tasks |-> n.tasks, folders |-> n.folders]
              /\ s = [tasks |-> s.tasks, folders |-> s.folders]
          BY DEF SeenBut
        <5> HIDE DEF n, s
        <5>2. [s EXCEPT !.folders[x] = job.start[x]]
                 = [tasks |-> s.tasks, folders |-> [s.folders EXCEPT ![x] = job.start[x]]]
          BY <5>1, PairEdit
        <5>3. QED  BY <4>2, <4>3, <4>4, <5>1, <5>2
    <3>2. CASE x \notin FolderPaths
      <4>1. /\ x \in TaskPaths /\ x \in DOMAIN Manifest.tasks
            /\ Manifest.tasks[x].sec # NoSec /\ job.start[x] # Missing
        BY <2>2, <2>3, <2>4, <3>2 DEF Wanted, Exists
      <4>2. snapshot' = [s EXCEPT !.tasks[x].sec = job.start[x].sec]  BY <2>2, <2>3, <3>2
      <4>3. n.folders = s.folders
        <5>1. \A f \in FolderPaths : f \notin unread <=> f \notin unread \ {x}  BY <3>2
        <5>2. QED  BY <5>1 DEF SeenBut
      <4>4. job.start[x] \in Definitions
        BY <4>1, StartWorld DEF World, Registered
      <4>5. s.tasks[x] = [job.start[x] EXCEPT !.sec = NoSec]  BY <4>1 DEF SeenBut
      <4>6. [s.tasks[x] EXCEPT !.sec = job.start[x].sec] = job.start[x]
        BY <4>4, <4>5 DEF Definitions
      <4>7. n.tasks = [s.tasks EXCEPT ![x] = job.start[x]]  BY <4>1 DEF SeenBut
      <4>8. QED
        <5>1. /\ n = [tasks |-> n.tasks, folders |-> n.folders]
              /\ s = [tasks |-> s.tasks, folders |-> s.folders]
          BY DEF SeenBut
        <5> HIDE DEF n, s
        <5>2. [s EXCEPT !.tasks[x].sec = job.start[x].sec]
                 = [tasks |-> [s.tasks EXCEPT ![x] = [s.tasks[x] EXCEPT !.sec = job.start[x].sec]],
                    folders |-> s.folders]
          BY <5>1, PairEdit
        <5>3. QED  BY <4>2, <4>3, <4>6, <4>7, <5>1, <5>2
    <3>3. QED  BY <3>1, <3>2
  <2>6. QED  BY <2>2, <2>3, <2>5 DEF SeenAt
<1>3. QED  BY <1>1, <1>2

-----------------------------------------------------------------------------
(* Planning and the rest.                                                    *)

(* A schedule leaves no change out.                                          *)
LEMMA ScheduleCovers ==
    ASSUME NEW S \in SUBSET Change, NEW p \in Schedules(S)
    PROVE  Elements(p) = S
<1>1. IsFiniteSet(S)  BY ChangeFinite, FS_Subset
<1> DEFINE n == Cardinality(S)
<1>2. n \in Nat  BY <1>1, FS_CardinalityType
<1>3. p \in [1..n -> S]  BY DEF Schedules
<1>4. \A i, j \in 1..n : p[i] = p[j] => i = j  BY <1>3, ScheduleType
<1>5. p \in Injection(1..n, S)  BY <1>3, <1>4 DEF Injection, IsInjective
<1>6. Cardinality(1..n) = n
  <2>1. 1 \in Int /\ n \in Int  BY <1>2
  <2>2. Cardinality(1..n) = IF 1 > n THEN 0 ELSE n - 1 + 1  BY <2>1, FS_Interval
  <2>3. QED  BY <1>2, <2>2
<1>7. p \in Surjection(1..n, S)  BY <1>1, <1>5, <1>6, FS_Injection
<1>8. \A c \in S : \E i \in 1..n : p[i] = c  BY <1>7 DEF Surjection
<1>9. QED  BY <1>3, <1>8 DEF Elements

LEMMA ConvergingMakePlan ==
    ASSUME Typed, Converging, MakePlan
    PROVE  Converging'
<1>1. UNCHANGED <<job, world, snapshot, hist>> /\ pc = "plan"  BY DEF MakePlan, inspection
<1>2. CASE pc' = "failed"  BY <1>2, ConvergingLost DEF BackwardPcs
<1>3. CASE pc' # "failed"
  <2>1. /\ ~OwnershipConflict(Manifest, snapshot, job.adopt)
        /\ plan' \in Schedules(PlanChanges(Manifest, snapshot, job.prune))
        /\ pc' \in {"preflight", "succeeded"} /\ (pc' = "succeeded" => plan' = <<>>)
    BY <1>3 DEF MakePlan
  <2>2. Elements(plan') = PlanChanges(Manifest, snapshot, job.prune)
    <3>1. PlanChanges(Manifest, snapshot, job.prune) \in SUBSET Change
      BY PlannedChanges DEF Typed, Planned
    <3>2. QED  BY <2>1, <3>1, ScheduleCovers
  <2>3. Elements(plan)' = Elements(plan')  BY DEF Elements
  <2>4. Manifest' = Manifest /\ pc' \in PlannedPcs /\ pc' \notin InspectPcs \cup {"plan"}
    BY <1>1, <2>1 DEF Manifest, PlannedPcs, InspectPcs
  <2>5. PlanKnown'  BY <1>1, <2>1, <2>2, <2>3, <2>4 DEF PlanKnown
  <2>6. Surveyed'
    BY <1>1, <2>4 DEF Converging, Surveyed, InspectPcs
  <2>7. Kept'  BY <1>1, <2>4 DEF Converging, Kept, InspectPcs
  <2>8. Met'
    <3>1. pc' # "succeeded" => \A i : ~Finished(i)'  BY <2>1 DEF Finished, ChangePcs
    <3>2. pc' = "succeeded" => DOMAIN plan' = {}  BY <2>1
    <3>3. QED  BY <3>1, <3>2 DEF Met
  <2>9. QED  BY <2>5, <2>6, <2>7, <2>8 DEF Converging
<1>4. QED  BY <1>2, <1>3

(* The steps between planning and success that write nothing.                *)
LEMMA ConvergingEasily ==
    ASSUME Typed, Recorded, Converging,
           \/ Observe \/ Preflight \/ Agree \/ Prepare \/ Precondition \/ Stop \/ ReadBack
           \/ VerifyAcl
    PROVE  Converging'
<1>1. UNCHANGED <<job, world, plan, snapshot>>
  BY DEF Observe, ObserveTask, ObserveTaskSecurity, ObserveFolder, ObserveFolderListing,
     unobserved, Preflight, Agree, Prepare, PrepareNothing, PrepareCreate, PrepareBackup,
     PrepareBackupSecurity, PrepareEnabled, PrepareSecurity, unprepared, Precondition, Stop,
     ReadBack, VerifyAcl, inspection
<1>2. hist'.touched = hist.touched
  BY DEF Observe, ObserveTask, ObserveTaskSecurity, ObserveFolder, ObserveFolderListing,
     StartCheck, Preflight, Agree, Prepare, PrepareNothing, PrepareCreate, PrepareBackup,
     PrepareBackupSecurity, PrepareEnabled, PrepareSecurity, unprepared, Precondition, Stop,
     ReadBack, VerifyAcl, Recorded, Histories
<1>3. CASE Observe
  <2>1. UNCHANGED <<pc, index, result>> /\ pc \in Sites
    BY <1>3 DEF Observe, ObserveTask, ObserveTaskSecurity, ObserveFolder, ObserveFolderListing,
       unobserved, Observing
  <2>2. CASE pc \in BackwardPcs  BY <2>1, <2>2, ConvergingLost
  <2>3. CASE pc \in PlannedPcs
    <3>1. \A i : Finished(i)' => Finished(i)  BY <2>1 DEF Finished
    <3>2. QED  BY <1>1, <1>2, <2>1, <2>3, <3>1, ConvergingQuiet
  <2>4. QED
    BY <2>1, <2>2, <2>3 DEF Sites, PlannedPcs, ChangePcs, BackwardPcs, UndoPcs
<1>4. CASE Preflight \/ Agree \/ Prepare
  <2>1. /\ pc \in {"preflight", "agree", "prepare"}
        /\ pc' \in {"preflight", "agree", "prepare", "precondition", "failed"}
        /\ pc' = "precondition" => index' = 1
    <3>1. CASE Preflight \/ Agree
      BY <3>1 DEF Preflight, Agree, Abort, NextChange
    <3>2. CASE Prepare
      BY <3>2 DEF Prepare, PrepareNothing, PrepareCreate, PrepareBackup,
         PrepareBackupSecurity, PrepareEnabled, PrepareSecurity, Preparing, NextPrepared,
         NextChange, Abort
    <3>3. QED  BY <1>4, <3>1, <3>2
  <2>2. CASE pc' = "failed"  BY <2>2, ConvergingLost DEF BackwardPcs
  <2>3. CASE pc' # "failed"
    <3>1. pc \in PlannedPcs /\ pc' \in PlannedPcs
      BY <2>1, <2>3 DEF PlannedPcs, ChangePcs
    <3>2. DOMAIN plan = 1..Len(plan) /\ Len(plan) \in Nat  BY PlanIndex
    <3>3. \A i \in DOMAIN plan : ~(i < 1)  BY <3>2
    <3>4. \A i \in DOMAIN plan : ~Finished(i)'
      BY <2>1, <2>3, <3>3 DEF Finished, ChangePcs
    <3>5. QED  BY <1>1, <1>2, <3>1, <3>4, ConvergingQuiet
  <2>4. QED  BY <2>2, <2>3
<1>5. CASE Precondition \/ Stop \/ ReadBack \/ VerifyAcl
  <2>1. /\ pc \in ChangePcs /\ UNCHANGED index
        /\ pc' \in {"stop", "mutate", "verify", "undo_check"}
        /\ pc' = "verify" => pc \in {"read_back", "verify"} /\ (result' # "err" => result # "err")
    BY <1>5 DEF Precondition, Stop, ReadBack, VerifyAcl, Compensate, ChangePcs
  <2>2. CASE pc' = "undo_check"  BY <2>2, ConvergingLost DEF BackwardPcs, UndoPcs
  <2>3. CASE pc' # "undo_check"
    <3>1. pc \in PlannedPcs /\ pc' \in PlannedPcs
      BY <2>1, <2>3 DEF PlannedPcs, ChangePcs
    <3>2. \A i : Finished(i)' => Finished(i)  BY <2>1, <2>3 DEF Finished, ChangePcs
    <3>3. QED  BY <1>1, <1>2, <3>1, <3>2, ConvergingQuiet
  <2>4. QED  BY <2>2, <2>3
<1>6. QED  BY <1>3, <1>4, <1>5

(* A change that does not fail is finished when its verification is.         *)
LEMMA ConvergingVerify ==
    ASSUME Typed, Converging, Verify
    PROVE  Converging'
<1>1. UNCHANGED <<job, world, plan, snapshot, hist>> /\ pc = "verify"
  BY DEF Verify, inspection
<1>2. CASE pc' = "undo_check"  BY <1>2, ConvergingLost DEF BackwardPcs, UndoPcs
<1>3. CASE pc' # "undo_check"
  <2>1. ~Failing  BY <1>3 DEF Verify, Compensate
  <2>2. result # "err"  BY <2>1 DEF Failing
  <2>3. \/ pc' = "precondition" /\ index' = index + 1
        \/ pc' = "succeeded" /\ index = Len(plan)
    BY <1>3, VerifyCases
  <2>4. /\ DOMAIN plan = 1..Len(plan) /\ Len(plan) \in Nat /\ index \in Nat
    BY PlanIndex
  <2>5. pc \in PlannedPcs /\ pc' \in PlannedPcs /\ pc \in ChangePcs
    BY <1>1, <2>3 DEF PlannedPcs, ChangePcs
  <2>6. ASSUME NEW i \in DOMAIN plan, Finished(i)' PROVE Finished(i)
    <3>1. i < index \/ i = index
      <4>1. i \in Nat /\ i <= Len(plan)  BY <2>4
      <4>2. CASE pc' = "precondition" /\ index' = index + 1
        <5>1. i < index + 1  BY <2>6, <4>2 DEF Finished
        <5>2. QED  BY <2>4, <4>1, <5>1
      <4>3. CASE index = Len(plan)  BY <2>4, <4>1, <4>3
      <4>4. QED  BY <2>3, <4>2, <4>3
    <3>2. QED  BY <1>1, <2>2, <2>5, <3>1 DEF Finished
  <2>7. QED  BY <1>1, <2>5, <2>6, ConvergingQuiet
<1>4. QED  BY <1>2, <1>3

(* The native call: it can only bring its target nearer to the manifest.     *)
LEMMA ConvergingMutate ==
    ASSUME Typed, Recorded, Rightful, Converging, Mutate
    PROVE  Converging'
<1>1. /\ UNCHANGED <<job, plan, index, snapshot>>
      /\ pc = "mutate" /\ pc' \in {"read_back", "verify"}
  BY DEF Mutate, inspection
<1>2. PICK o \in Outcomes(Accepts(Current)) :
         /\ Effect(Subject, o, Desired(Current))
         /\ result' = IF o.ok THEN "ok" ELSE "err"
  BY DEF Mutate
<1>3. (o.took => Accepts(Current)) /\ (o.ok => o.took)  BY DEF Outcomes
<1>4. hist'.touched = hist.touched  BY <1>2 DEF Effect, Recorded, Histories
<1>5. /\ Current = plan[index] /\ Current \in Planned /\ index \in DOMAIN plan
      /\ Subject = Current.target /\ Subject \in Targets
  BY <1>1, CurrentPlanned, PlanIndex, PlannedTargets DEF ChangePcs, Subject, Typed
<1>6. /\ \A x \in Targets : x # Subject => world'[x] = world[x]
      /\ o.took => world'[Subject] = Desired(Current)
      /\ ~o.took => world' = world
  BY <1>2, <1>5 DEF Effect, Typed, TypeOK, World
<1>7. \A i \in DOMAIN plan : Righted(plan[i]) /\ plan[i] \in Planned
  <2>1. ASSUME NEW i \in DOMAIN plan PROVE Righted(plan[i])
    <3>1. plan[i] \in Planned  BY PlanIndex
    <3>2. plan[i].kind = "DeleteTask" => plan[i].target \in TaskPaths
      BY <3>1, PlannedTargets DEF Typed
    <3>3. QED  BY <3>2 DEF Rightful, Rights, PlannedTasks, Righted
  <2>2. QED  BY <2>1, PlanIndex
<1>8. /\ pc \in PlannedPcs /\ pc' \in PlannedPcs /\ pc' \notin InspectPcs
      /\ pc \notin InspectPcs /\ Manifest' = Manifest
  BY <1>1 DEF PlannedPcs, ChangePcs, InspectPcs, Manifest
<1>9. Surveyed' /\ PlanKnown'
  <2>1. Surveyed'  BY <1>1, <1>4, <1>8 DEF Converging, Surveyed, InspectPcs
  <2>2. PlanKnown'  BY <1>1, <1>8 DEF Converging, PlanKnown
  <2>3. QED  BY <2>1, <2>2
<1>10. Kept'
  <2> SUFFICES ASSUME hist'.touched = {}
               PROVE  /\ \A t \in TaskPaths : SteadyTask(Manifest, t, job.start[t], world'[t])
                      /\ \A f \in FolderPaths : SteadyFolder(Manifest, f, job.start[f], world'[f])
    BY <1>1, <1>8 DEF Kept
  <2>1. /\ \A t \in TaskPaths : SteadyTask(Manifest, t, job.start[t], world[t])
        /\ \A f \in FolderPaths : SteadyFolder(Manifest, f, job.start[f], world[f])
    BY <1>4, <1>8 DEF Converging, Kept
  <2>2. ASSUME NEW t \in TaskPaths PROVE SteadyTask(Manifest, t, job.start[t], world'[t])
    <3>1. CASE o.took /\ t = Subject
      <4>1. Righted(Current) /\ Accepts(Current)  BY <1>3, <1>5, <1>7, <3>1
      <4>2. SteadyTask(Manifest, Current.target, job.start[t], world[Current.target])
        BY <1>5, <2>1, <3>1
      <4>3. SteadyTask(Manifest, Current.target, job.start[t], Desired(Current))
        BY <1>5, <3>1, <4>1, <4>2, DesiredSteadyTask
      <4>4. QED  BY <1>5, <1>6, <3>1, <4>3
    <3>2. CASE ~(o.took /\ t = Subject)
      <4>1. world'[t] = world[t]  BY <1>6, <3>2 DEF Targets
      <4>2. QED  BY <2>1, <4>1
    <3>3. QED  BY <3>1, <3>2
  <2>3. ASSUME NEW f \in FolderPaths PROVE SteadyFolder(Manifest, f, job.start[f], world'[f])
    <3>1. CASE o.took /\ f = Subject
      <4>1. Accepts(Current)  BY <1>3, <3>1
      <4>2. SteadyFolder(Manifest, Current.target, job.start[f], world[Current.target])
        BY <1>5, <2>1, <3>1
      <4>3. SteadyFolder(Manifest, Current.target, job.start[f], Desired(Current))
        BY <1>5, <3>1, <4>1, <4>2, DesiredSteadyFolder
      <4>4. QED  BY <1>5, <1>6, <3>1, <4>3
    <3>2. CASE ~(o.took /\ f = Subject)
      <4>1. world'[f] = world[f]  BY <1>6, <3>2 DEF Targets
      <4>2. QED  BY <2>1, <4>1
    <3>3. QED  BY <3>1, <3>2
  <2>4. QED  BY <2>2, <2>3
<1>11. Met'
  <2> SUFFICES ASSUME hist'.touched = {}, NEW i \in DOMAIN plan, Finished(i)'
               PROVE  Meets(Manifest, plan[i], world'[plan[i].target])
    BY <1>1, <1>8 DEF Met
  <2>1. i < index \/ (i = index /\ o.ok)  BY <1>1, <1>2 DEF Finished
  <2>2. plan[i] \in Planned /\ plan[i].target \in Targets
    BY <1>7, PlannedTargets DEF Typed
  <2>3. CASE i = index /\ o.ok
    <3>1. Meets(Manifest, Current, Desired(Current))  BY <1>3, <1>5, <2>3, DesiredMeets
    <3>2. QED  BY <1>3, <1>5, <1>6, <2>3, <3>1
  <2>4. CASE i < index
    <3>1. Finished(i)  BY <1>1, <2>4 DEF Finished, ChangePcs
    <3>2. Meets(Manifest, plan[i], world[plan[i].target])
      BY <1>4, <3>1 DEF Converging, Met
    <3>3. CASE o.took /\ plan[i].target = Subject
      <4>1. /\ Righted(Current) /\ Righted(plan[i]) /\ Accepts(Current)
            /\ Current.target = plan[i].target
        BY <1>3, <1>5, <1>7, <3>3
      <4>2. Meets(Manifest, plan[i], world[Current.target])  BY <3>2, <4>1
      <4>3. Meets(Manifest, plan[i], Desired(Current))
        BY <1>5, <2>2, <4>1, <4>2, DesiredKeeps
      <4>4. QED  BY <1>6, <3>3, <4>3
    <3>4. CASE ~(o.took /\ plan[i].target = Subject)
      <4>1. world'[plan[i].target] = world[plan[i].target]  BY <1>6, <2>2, <3>4
      <4>2. QED  BY <3>2, <4>1
    <3>5. QED  BY <3>3, <3>4
  <2>5. QED  BY <2>1, <2>3, <2>4
<1>12. QED  BY <1>9, <1>10, <1>11 DEF Converging

(* Compensation.                                                             *)
LEMMA ConvergingUndo ==
    ASSUME Typed, RunUndo
    PROVE  Converging'
<1>1. CASE AllUndone  BY <1>1, ConvergingLost DEF AllUndone, BackwardPcs
<1>2. CASE ~AllUndone
  <2>1. pc' = "undo_check" \/ pc' \in FreshPcs \/ pc' \in TakenPcs
    BY <1>2, UndoShape DEF RunUndo
  <2>2. pc' \in BackwardPcs  BY <2>1 DEF FreshPcs, TakenPcs, BackwardPcs, UndoPcs
  <2>3. QED  BY <2>2, ConvergingLost
<1>3. QED  BY <1>1, <1>2

LEMMA StepConverging ==
    Typed /\ Recorded /\ Rightful /\ Converging /\ [Next]_vars => Converging'
BY ConvergingStutter, ConvergingListTasks, ConvergingListFolders, ConvergingReadSecurity,
   ConvergingMakePlan, ConvergingEasily, ConvergingMutate, ConvergingVerify, ConvergingUndo,
   ConvergingForeign
DEF Next, Apply, Inspect, RunChange, Terminated

LEMMA AlwaysConverging == Spec => [](Typed /\ Recorded /\ Rightful /\ Converging)
BY InitTyped, StepTyped, InitRecorded, StepRecorded, InitRightful, StepRightful,
   InitConverging, StepConverging, PTL DEF Spec

-----------------------------------------------------------------------------
(* Planning again.                                                           *)

(* s is an inspection of the contents w, as far as planning for m looks.     *)
Describes(m, w, s) ==
    /\ DOMAIN s.tasks = {t \in TaskPaths : w[t] # Missing}
    /\ DOMAIN s.folders = {f \in FolderPaths : w[f] # Missing}
    /\ \A t \in DOMAIN s.tasks :
          /\ s.tasks[t].content = w[t].content /\ s.tasks[t].marked = w[t].marked
          /\ s.tasks[t].enabled = w[t].enabled
          /\ t \in DOMAIN m.tasks /\ m.tasks[t].sec # NoSec => s.tasks[t].sec = w[t].sec
    /\ \A f \in DOMAIN s.folders :
          f \in DOMAIN m.folders /\ m.folders[f] # NoSec => s.folders[f] = w[f]

LEMMA SeenDescribes ==
    ASSUME NEW m, NEW w \in World
    PROVE  Describes(m, w, SeenBut(m, w, {}))
<1> DEFINE s == SeenBut(m, w, {})
<1>1. ASSUME NEW t \in TaskPaths, w[t] # Missing
      PROVE  /\ s.tasks[t] = IF t \in DOMAIN m.tasks /\ m.tasks[t].sec # NoSec
                             THEN w[t] ELSE [w[t] EXCEPT !.sec = NoSec]
             /\ [w[t] EXCEPT !.sec = NoSec].content = w[t].content
             /\ [w[t] EXCEPT !.sec = NoSec].marked = w[t].marked
             /\ [w[t] EXCEPT !.sec = NoSec].enabled = w[t].enabled
  <2>1. w[t] \in Definitions  BY <1>1 DEF World, Registered
  <2>2. QED  BY <1>1, <2>1 DEF SeenBut, Definitions
<1>2. ASSUME NEW f \in FolderPaths, w[f] # Missing
      PROVE  s.folders[f] = IF f \in DOMAIN m.folders /\ m.folders[f] # NoSec
                            THEN w[f] ELSE NoSec
  BY <1>2 DEF SeenBut
<1>3. /\ DOMAIN s.tasks = {t \in TaskPaths : w[t] # Missing}
      /\ DOMAIN s.folders = {f \in FolderPaths : w[f] # Missing}
  BY DEF SeenBut
<1> HIDE DEF s
<1>4. Describes(m, w, s)  BY <1>1, <1>2, <1>3 DEF Describes
<1>5. QED  BY <1>4 DEF s

(* What the start's plan was for holds of v, and the rest of v is steady.    *)
Settles(m, s, prune, adopt, w, v) ==
    /\ ~OwnershipConflict(m, s, adopt)
    /\ \A c \in PlanChanges(m, s, prune) : Meets(m, c, v[c.target])
    /\ \A t \in TaskPaths : SteadyTask(m, t, w[t], v[t])
    /\ \A f \in FolderPaths : SteadyFolder(m, f, w[f], v[f])

(* Every folder that the manifest needs exists afterwards.                   *)
LEMMA RequiredThere ==
    ASSUME NEW m, NEW s, NEW prune, NEW adopt, NEW w, NEW v,
           Describes(m, w, s), Settles(m, s, prune, adopt, w, v), NEW f \in RequiredFolders(m)
    PROVE  v[f] # Missing
<1>1. f \in FolderPaths  BY DEF RequiredFolders
<1>2. CASE w[f] # Missing  BY <1>1, <1>2 DEF Settles, SteadyFolder
<1>3. CASE w[f] = Missing
  <2>1. MkChange("CreateFolder", f) \in PlanChanges(m, s, prune)
    BY <1>1, <1>3 DEF PlanChanges, FolderCreations, Describes
  <2>2. Meets(m, MkChange("CreateFolder", f), v[f])  BY <2>1 DEF Settles, MkChange
  <2>3. QED  BY <2>2 DEF Meets, MkChange
<1>4. QED  BY <1>2, <1>3

(* Every declared task is there, as it is declared.                          *)
LEMMA DeclaredThere ==
    ASSUME NEW m, NEW s, NEW prune, NEW adopt, NEW w, NEW v,
           Describes(m, w, s), Settles(m, s, prune, adopt, w, v),
           NEW t \in DOMAIN m.tasks, t \in TaskPaths
    PROVE  /\ v[t] # Missing /\ SemanticallyEqual(v[t], OwnedDefinition(m, t))
           /\ v[t].enabled = m.tasks[t].enabled
           /\ m.tasks[t].sec # NoSec => v[t].sec = m.tasks[t].sec
<1> DEFINE want == OwnedDefinition(m, t)
           have == s.tasks[t]
<1>1. ASSUME NEW k, MkChange(k, t) \in TaskChanges(m, s, t)
      PROVE  Meets(m, MkChange(k, t), v[t])
  <2>1. MkChange(k, t) \in PlanChanges(m, s, prune)  BY <1>1 DEF PlanChanges
  <2>2. QED  BY <2>1 DEF Settles, MkChange
<1>2. ASSUME NEW k \in Registrations, MkChange(k, t) \in TaskChanges(m, s, t)
      PROVE  /\ v[t] # Missing /\ SemanticallyEqual(v[t], want)
             /\ v[t].enabled = m.tasks[t].enabled
             /\ m.tasks[t].sec # NoSec => v[t].sec = m.tasks[t].sec
  <2>1. Meets(m, MkChange(k, t), v[t])  BY <1>1, <1>2
  <2>2. QED  BY <2>1 DEF Meets, MkChange, Registrations
<1>3. CASE t \notin DOMAIN s.tasks
  <2>1. TaskChanges(m, s, t) = {MkChange("CreateTask", t)}  BY <1>3 DEF TaskChanges
  <2>2. QED  BY <1>2, <2>1 DEF Registrations
<1>4. CASE t \in DOMAIN s.tasks /\ ~have.marked
  <2>1. TaskChanges(m, s, t) = {MkChange("AdoptTask", t)}  BY <1>4 DEF TaskChanges
  <2>2. QED  BY <1>2, <2>1 DEF Registrations
<1>5. CASE t \in DOMAIN s.tasks /\ have.marked /\ ~SemanticallyEqual(have, want)
  <2>1. TaskChanges(m, s, t) = {MkChange("UpdateTask", t)}  BY <1>5 DEF TaskChanges
  <2>2. QED  BY <1>2, <2>1 DEF Registrations
<1>6. CASE t \in DOMAIN s.tasks /\ have.marked /\ SemanticallyEqual(have, want)
  <2>1. /\ w[t] # Missing /\ have.content = w[t].content /\ have.marked = w[t].marked
        /\ have.enabled = w[t].enabled
        /\ m.tasks[t].sec # NoSec => have.sec = w[t].sec
    BY <1>6 DEF Describes
  <2>2. /\ have.content = m.tasks[t].content /\ have.marked = TRUE
    BY <1>6 DEF SemanticallyEqual, OwnedDefinition
  <2>3. /\ v[t] # Missing /\ v[t].content \in {w[t].content, m.tasks[t].content}
        /\ v[t].marked \in {w[t].marked, TRUE}
        /\ v[t].enabled \in {w[t].enabled, m.tasks[t].enabled}
        /\ m.tasks[t].sec # NoSec => v[t].sec \in {w[t].sec, m.tasks[t].sec}
    BY <2>1 DEF Settles, SteadyTask
  <2>4. SemanticallyEqual(v[t], want)
    BY <2>1, <2>2, <2>3 DEF SemanticallyEqual, OwnedDefinition
  <2>5. TaskChanges(m, s, t) =
            {MkChange("SetEnabled", x) : x \in {y \in {t} : have.enabled # want.enabled}}
            \cup {MkChange("SetTaskSecurity", x) :
                     x \in {y \in {t} : want.sec # NoSec /\ have.sec # want.sec}}
    BY <1>6 DEF TaskChanges
  <2>6. want.enabled = m.tasks[t].enabled /\ want.sec = m.tasks[t].sec
    BY DEF OwnedDefinition
  <2>7. v[t].enabled = m.tasks[t].enabled
    <3>1. CASE have.enabled = m.tasks[t].enabled  BY <2>1, <2>3, <3>1
    <3>2. CASE have.enabled # m.tasks[t].enabled
      <4>1. MkChange("SetEnabled", t) \in TaskChanges(m, s, t)  BY <2>5, <2>6, <3>2
      <4>2. QED  BY <1>1, <4>1 DEF Meets, MkChange
    <3>3. QED  BY <3>1, <3>2
  <2>8. m.tasks[t].sec # NoSec => v[t].sec = m.tasks[t].sec
    <3>1. CASE have.sec = m.tasks[t].sec  BY <2>1, <2>3, <3>1
    <3>2. CASE have.sec # m.tasks[t].sec /\ m.tasks[t].sec # NoSec
      <4>1. MkChange("SetTaskSecurity", t) \in TaskChanges(m, s, t)  BY <2>5, <2>6, <3>2
      <4>2. QED  BY <1>1, <4>1 DEF Meets, MkChange
    <3>3. QED  BY <3>1, <3>2
  <2>9. QED  BY <2>3, <2>4, <2>7, <2>8
<1>7. QED  BY <1>3, <1>4, <1>5, <1>6

(* So planning again, on any inspection n of v, finds nothing to do.         *)
LEMMA NothingToDo ==
    ASSUME NEW m, NEW s, NEW n, NEW prune, NEW adopt, NEW w, NEW v,
           Describes(m, w, s), Describes(m, v, n), Settles(m, s, prune, adopt, w, v),
           DOMAIN m.tasks \subseteq TaskPaths, DOMAIN m.folders \subseteq FolderPaths,
           \A f \in DOMAIN m.folders : m.folders[f] \in Secs \cup {NoSec}
    PROVE  /\ ~OwnershipConflict(m, n, adopt)
           /\ PlanChanges(m, n, prune) = {}
<1>1. FolderCreations(m, n) = {}
  <2>1. \A f \in RequiredFolders(m) : f \in DOMAIN n.folders
    BY RequiredThere DEF Describes, RequiredFolders
  <2>2. QED  BY <2>1 DEF FolderCreations
<1>2. ASSUME NEW t \in DOMAIN m.tasks
      PROVE  /\ t \in DOMAIN n.tasks /\ SemanticallyEqual(n.tasks[t], OwnedDefinition(m, t))
             /\ n.tasks[t].enabled = m.tasks[t].enabled
             /\ m.tasks[t].sec # NoSec => n.tasks[t].sec = m.tasks[t].sec
  <2>1. /\ v[t] # Missing /\ SemanticallyEqual(v[t], OwnedDefinition(m, t))
        /\ v[t].enabled = m.tasks[t].enabled
        /\ m.tasks[t].sec # NoSec => v[t].sec = m.tasks[t].sec
    BY DeclaredThere
  <2>2. t \in DOMAIN n.tasks  BY <2>1 DEF Describes
  <2>3. QED  BY <2>1, <2>2 DEF Describes, SemanticallyEqual
<1>3. ASSUME NEW t \in DOMAIN m.tasks PROVE TaskChanges(m, n, t) = {}
  <2>1. n.tasks[t].marked = TRUE  BY <1>2 DEF SemanticallyEqual, OwnedDefinition
  <2>2. TaskChanges(m, n, t) =
            {MkChange("SetEnabled", x) :
                x \in {y \in {t} : n.tasks[t].enabled # OwnedDefinition(m, t).enabled}}
            \cup {MkChange("SetTaskSecurity", x) :
                     x \in {y \in {t} : /\ OwnedDefinition(m, t).sec # NoSec
                                        /\ n.tasks[t].sec # OwnedDefinition(m, t).sec}}
    BY <1>2, <2>1 DEF TaskChanges
  <2>3. /\ OwnedDefinition(m, t).enabled = m.tasks[t].enabled
        /\ OwnedDefinition(m, t).sec = m.tasks[t].sec
    BY DEF OwnedDefinition
  <2>4. QED  BY <1>2, <2>2, <2>3
<1>4. FolderSecurityChanges(m, n) = {}
  <2>1. ASSUME NEW f \in DOMAIN m.folders, m.folders[f] # NoSec
        PROVE  f \in DOMAIN n.folders /\ n.folders[f] = m.folders[f]
    <3>1. f \in FolderPaths /\ m.folders[f] # Missing  BY <2>1, Present
    <3>2. v[f] = m.folders[f]
      <4>1. CASE f \in DOMAIN s.folders /\ s.folders[f] = m.folders[f]
        <5>1. w[f] # Missing /\ w[f] = m.folders[f]  BY <2>1, <4>1 DEF Describes
        <5>2. QED  BY <3>1, <5>1 DEF Settles, SteadyFolder
      <4>2. CASE ~(f \in DOMAIN s.folders /\ s.folders[f] = m.folders[f])
        <5>1. MkChange("SetFolderSecurity", f) \in PlanChanges(m, s, prune)
          BY <2>1, <4>2 DEF PlanChanges, FolderSecurityChanges
        <5>2. Meets(m, MkChange("SetFolderSecurity", f), v[f])  BY <5>1 DEF Settles, MkChange
        <5>3. QED  BY <5>2 DEF Meets, MkChange
      <4>3. QED  BY <4>1, <4>2
    <3>3. QED  BY <2>1, <3>1, <3>2 DEF Describes
  <2>2. QED  BY <2>1 DEF FolderSecurityChanges
<1>5. Prunings(m, n, prune) = {}
  <2>1. ASSUME NEW t \in DOMAIN n.tasks \ DOMAIN m.tasks, prune, n.tasks[t].marked
        PROVE  FALSE
    <3>1. t \in TaskPaths /\ v[t] # Missing /\ n.tasks[t].marked = v[t].marked
      BY <2>1 DEF Describes
    <3>2. v[t] = w[t]  BY <2>1, <3>1 DEF Settles, SteadyTask
    <3>3. t \in DOMAIN s.tasks /\ s.tasks[t].marked = w[t].marked
      BY <3>1, <3>2 DEF Describes
    <3>4. s.tasks[t].marked  BY <2>1, <3>1, <3>2, <3>3
    <3>5. MkChange("DeleteTask", t) \in PlanChanges(m, s, prune)
      BY <2>1, <3>3, <3>4 DEF PlanChanges, Prunings
    <3>6. Meets(m, MkChange("DeleteTask", t), v[t])  BY <3>5 DEF Settles, MkChange
    <3>7. QED  BY <3>1, <3>6 DEF Meets, MkChange
  <2>2. QED  BY <2>1 DEF Prunings
<1>6. ~OwnershipConflict(m, n, adopt)
  <2>1. \A t \in DOMAIN m.tasks : n.tasks[t].marked = TRUE
    BY <1>2 DEF SemanticallyEqual, OwnedDefinition
  <2>2. QED  BY <2>1 DEF OwnershipConflict
<1>7. PlanChanges(m, n, prune) = {}  BY <1>1, <1>3, <1>4, <1>5 DEF PlanChanges
<1>8. QED  BY <1>6, <1>7

LEMMA ConvergedAtSuccess ==
    ASSUME Typed, Converging
    PROVE  SuccessConverges
<1> SUFFICES ASSUME pc = "succeeded", hist.touched = {}
             PROVE  /\ ~OwnershipConflict(Manifest, Inspected, job.adopt)
                    /\ PlanChanges(Manifest, Inspected, job.prune) = {}
  BY DEF SuccessConverges
<1>1. pc \in PlannedPcs  BY DEF PlannedPcs
<1>2. Describes(Manifest, job.start, snapshot)
  <2>1. snapshot = SeenAt(Manifest, job.start)  BY <1>1 DEF Converging, Surveyed
  <2>2. CASE job.start[Namespace] # Missing
    BY <2>1, <2>2, StartWorld, SeenDescribes DEF SeenAt
  <2>3. CASE job.start[Namespace] = Missing
    <3>1. \A x \in TaskPaths \cup FolderPaths : job.start[x] = Missing
      BY <2>3, StartWorld DEF Targets
    <3>2. snapshot = EmptySnapshot  BY <2>1, <2>3 DEF SeenAt
    <3>3. DOMAIN snapshot.tasks = {} /\ DOMAIN snapshot.folders = {}
      BY <3>2 DEF EmptySnapshot
    <3>4. QED  BY <3>1, <3>3 DEF Describes
  <2>4. QED  BY <2>2, <2>3
<1>3. Settles(Manifest, snapshot, job.prune, job.adopt, job.start, world)
  <2>1. /\ ~OwnershipConflict(Manifest, snapshot, job.adopt)
        /\ Elements(plan) = PlanChanges(Manifest, snapshot, job.prune)
    BY <1>1 DEF Converging, PlanKnown
  <2>2. \A i \in DOMAIN plan : Meets(Manifest, plan[i], world[plan[i].target])
    BY DEF Converging, Met, Finished
  <2>3. \A c \in Elements(plan) : Meets(Manifest, c, world[c.target])
    BY <2>2 DEF Elements
  <2>4. /\ \A t \in TaskPaths : SteadyTask(Manifest, t, job.start[t], world[t])
        /\ \A f \in FolderPaths : SteadyFolder(Manifest, f, job.start[f], world[f])
    BY <1>1 DEF Converging, Kept
  <2>5. QED  BY <2>1, <2>3, <2>4 DEF Settles
<1>4. Namespace \in RequiredFolders(Manifest)  BY StartWorld DEF RequiredFolders
<1>5. Exists(Namespace)  BY <1>2, <1>3, <1>4, RequiredThere DEF Exists
<1>6. Inspected = SeenBut(Manifest, world, {})  BY <1>5 DEF Inspected, SeenBut, Exists
<1>7. Describes(Manifest, world, Inspected)  BY <1>6, StartWorld, SeenDescribes
<1>8. \A f \in DOMAIN Manifest.folders : Manifest.folders[f] \in Secs \cup {NoSec}
  BY JobsAssumption DEF Typed, TypeOK, Manifest
<1>9. QED  BY <1>2, <1>3, <1>7, <1>8, StartWorld, NothingToDo

(* A successful apply has done what it was for: unless another writer        *)
(* interfered, inspecting and planning again finds nothing left to change,   *)
(* whatever calls failed or lost their response on the way                   *)
(* (apply_backend, plan_state).                                              *)
THEOREM ApplyConverges == Spec => []SuccessConverges
BY AlwaysConverging, ConvergedAtSuccess, PTL
=============================================================================
