---------------------------- MODULE NativeSession ----------------------------
(***************************************************************************)
(* One call of a connected session: the methods of Session and EventAccess *)
(* in client/sys.rs, which the session worker runs one at a time.          *)
(*                                                                         *)
(* A method is a series of native calls on proxies of the Task Scheduler   *)
(* service: it reads first, makes at most one mutation and may read again  *)
(* afterwards.  Between two native calls every other client of the service *)
(* may act, so that what was read need no longer hold, and each native     *)
(* call may fail, a mutation also after it has taken effect.               *)
(*                                                                         *)
(* External and nondeterministic: the service, its other clients and the   *)
(* engine.  A collection is a snapshot of what exists when it is asked     *)
(* for; a proxy answers with the present properties of its object.         *)
(***************************************************************************)
EXTENDS Naturals, Sequences, FiniteSets

CONSTANTS
  Folders,       \* folder paths
  Root,          \* FolderPath::root
  Parent,        \* the parent of every other folder
  Tasks,         \* task paths
  FolderOf,      \* the folder of every task
  Definitions,   \* task definitions, as XML
  Descriptors,   \* security descriptors, up to access_equivalent
  Rejected,      \* definitions and descriptors the portable checks reject
  WithPassword,  \* definitions whose logon type needs a password
  Instances,     \* instance ids
  Missing,       \* what does not exist
  Modes,         \* the registration modes in use
  Worlds,        \* the contents of the service to begin with
  MaxFaults,     \* bound: failing native calls
  MaxForeign     \* bound: acts of other clients and of the engine

Switch == {"on", "off"}
AllModes == {"create", "update", "create_or_update", "validate_only"}

TaskValues == [xml : Definitions, enabled : Switch, security : Descriptors]

\* What the service holds.  An instance that has ended is not reused.
World ==
  [tasks : [Tasks -> TaskValues \union {Missing}],
   folders : [Folders -> Descriptors \union {Missing}],
   instances : [Instances -> Tasks \union {"unused", "ended"}],
   channel : Switch]

ASSUME TreeAssumption ==
  /\ IsFiniteSet(Folders) /\ IsFiniteSet(Tasks) /\ IsFiniteSet(Instances)
  /\ Root \in Folders
  /\ Parent \in [Folders \ {Root} -> Folders]
  /\ \A S \in SUBSET (Folders \ {Root}) :
       S /= {} => \E f \in S : Parent[f] \notin S   \* a tree: no cycle
  /\ FolderOf \in [Tasks -> Folders]
  /\ Tasks \intersect Folders = {}
  /\ Instances \intersect (Tasks \union Folders) = {}
  /\ {"unused", "ended"} \intersect Tasks = {}
ASSUME ValuesAssumption ==
  /\ Rejected \subseteq Definitions \union Descriptors
  /\ WithPassword \subseteq Definitions
  /\ Descriptors \ Rejected /= {}
  /\ Missing \notin Tasks \union Folders \union Instances \union Definitions
                     \union Descriptors \union TaskValues \union AllModes

\* What the service keeps true of its tree: everything is in a folder that
\* exists.
Rooted(w) ==
  /\ w.folders[Root] /= Missing
  /\ \A f \in Folders \ {Root} :
       w.folders[f] /= Missing => w.folders[Parent[f]] /= Missing
  /\ \A t \in Tasks :
       w.tasks[t] /= Missing => w.folders[FolderOf[t]] /= Missing

ASSUME WorldsAssumption ==
  /\ Worlds \subseteq World
  /\ \A w \in Worlds : Rooted(w)
  /\ Modes \subseteq AllModes
  /\ {MaxFaults, MaxForeign} \subseteq Nat

VARIABLES
  world,     \* the service
  policy,    \* ComSecurityPolicy: "existing" or "require"
  access,    \* EventAccess: "local", "remote" or "unavailable"
  request,   \* the operation being served
  stage,     \* connecting, idle, reading, mutating, confirming, answered
  todo,      \* the native calls left in this stage
  output,    \* what has been collected for the caller
  reply,     \* the caller's answer
  faults,    \* native calls that failed
  foreign,   \* acts of others
  effects,   \* mutations of this call that took effect
  past       \* the contents of the service since the call began

session == <<policy, access>>
vars == <<world, session, request, stage, todo, output, reply, faults,
          foreign, effects, past>>

(***************************************************************************)
(* The operations.                                                         *)
(***************************************************************************)
Requests(op, ons, wants, options) ==
  [op : {op}, on : ons, want : wants, option : options]

Plain == {Missing}

TaskRequests ==
  Requests("get_task", Tasks, Plain, Plain)
    \union Requests("delete_task", Tasks, Plain, Plain)
    \union Requests("set_enabled", Tasks, Switch, Plain)
    \union Requests("stop_all", Tasks, Plain, Plain)
    \union Requests("run", Tasks, Plain,
                    {"plain", "too_many_parameters", "wide_session"})

RegisterRequests ==
  Requests("register_raw", Tasks, Definitions, Modes \union {"no_password"})
    \union Requests("register_raw_commit", Tasks, Definitions,
                    Modes \union {"no_password"})

FolderRequests ==
  Requests("create_folder", Folders, Descriptors, Plain)
    \union Requests("delete_folder", Folders, Plain, Plain)
    \union Requests("list_tasks", Folders, Plain, {"flat", "recursive"})
    \union Requests("list_folders", Folders, Plain, {"flat", "recursive"})

SecurityRequests ==
  Requests("task_security", Tasks, Plain, Plain)
    \union Requests("folder_security", Folders, Plain, Plain)
    \union Requests("set_task_security", Tasks, Descriptors, Plain)
    \union Requests("set_folder_security", Folders, Descriptors, Plain)

ServiceRequests ==
  Requests("running_tasks", Plain, Plain, Plain)
    \union Requests("stop_instance", Instances, Plain, Plain)
    \union Requests("validate", Plain, Definitions, Plain)
    \union Requests("normalize_definition", Plain, Plain,
                    {"anonymous", "named", "service"})
    \union Requests("connection_info", Plain, Plain, Plain)
    \union Requests("capabilities", Plain, Plain, Plain)
    \union Requests("doctor", Plain, Plain, Plain)
    \union Requests("history", Plain, Plain, {"some", "none", "too_many"})
    \union Requests("history_enabled", Plain, Plain, Plain)
    \union Requests("set_history_enabled", Plain, Switch, Plain)

AllRequests == TaskRequests \union RegisterRequests \union FolderRequests
                 \union SecurityRequests \union ServiceRequests

(***************************************************************************)
(* Their native calls.  A proxy is configured right after it has been      *)
(* obtained; the two are one step, except behind a mutation, where the     *)
(* failure of the second comes too late to undo the first.                 *)
(***************************************************************************)
Native(call, on) == [call |-> call, on |-> on]

\* Session::folder and Session::registered_task.
OpenFolder(f) == <<Native("folder", f)>>
OpenTask(t) == OpenFolder(FolderOf[t]) \o <<Native("task", t)>>

\* Session::task_info asks for the properties one after the other.
TaskInfo(t) == <<Native("enabled", t), Native("xml", t)>>

ReadTaskSecurity(t) == OpenTask(t) \o <<Native("task_security", t)>>
ReadFolderSecurity(f) == OpenFolder(f) \o <<Native("folder_security", f)>>

ListTasks(f) == OpenFolder(f) \o <<Native("tasks", f)>>
ListFolders(f) == OpenFolder(f) \o <<Native("folders", f)>>

ConnectionInfo == <<Native("connection", Missing)>>
Capabilities == <<Native("version", Missing), Native("probe", Missing)>>
Enabled == <<Native("channel", Missing)>>
Doctor == ConnectionInfo \o Capabilities \o OpenFolder(Root) \o Enabled

\* A definition without an identity gets the connected one; names are
\* resolved, service accounts are not.
Normalize(option) ==
  CASE option = "anonymous" -> ConnectionInfo \o <<Native("account", Missing)>>
    [] option = "named" -> <<Native("account", Missing)>>
    [] option = "service" -> <<>>

\* A definition that fails the portable check is not sent to the service.
Validate(xml) ==
  IF xml \in Rejected THEN <<>> ELSE <<Native("new_task", xml)>>

\* Nothing is asked for when no event is wanted.
History(option) ==
  IF option = "none" THEN <<>> ELSE <<Native("query", Missing)>>

\* The calls an operation makes before its mutation, if it has one.
Reading(r) ==
  CASE r.op = "get_task" -> OpenTask(r.on) \o TaskInfo(r.on)
    [] r.op = "task_security" -> ReadTaskSecurity(r.on)
    [] r.op = "folder_security" -> ReadFolderSecurity(r.on)
    [] r.op = "set_task_security" -> ReadTaskSecurity(r.on) \o OpenTask(r.on)
    [] r.op = "set_folder_security" ->
         ReadFolderSecurity(r.on) \o OpenFolder(r.on)
    [] r.op \in {"delete_task", "register_raw", "register_raw_commit"} ->
         OpenFolder(FolderOf[r.on])
    [] r.op \in {"set_enabled", "stop_all"} -> OpenTask(r.on)
    [] r.op = "run" -> OpenTask(r.on) \o <<Native("arguments", r.on)>>
    [] r.op \in {"create_folder", "delete_folder"} ->
         OpenFolder(Parent[r.on])
    [] r.op = "list_tasks" -> ListTasks(r.on)
    [] r.op = "list_folders" -> ListFolders(r.on)
    [] r.op \in {"running_tasks", "stop_instance"} ->
         <<Native("running", Missing)>>
    [] r.op = "validate" -> Validate(r.want)
    [] r.op = "normalize_definition" -> Normalize(r.option)
    [] r.op = "connection_info" -> ConnectionInfo
    [] r.op = "capabilities" -> Capabilities
    [] r.op = "doctor" -> Doctor
    [] r.op = "history" -> History(r.option)
    [] r.op = "history_enabled" -> Enabled
    [] r.op = "set_history_enabled" -> <<Native("configuration", Missing)>>

\* The calls that follow it.
Confirming(r) ==
  CASE r.op = "register_raw" ->
         <<Native("proxy", Missing)>> \o OpenTask(r.on) \o TaskInfo(r.on)
    [] r.op \in {"register_raw_commit", "create_folder"} ->
         <<Native("proxy", Missing)>>
    [] r.op = "run" -> <<Native("proxy", Missing), Native("instance_id", r.on),
                         Native("engine_pid", r.on)>>
    [] OTHER -> <<>>

Mutations ==
  {"delete_task", "set_enabled", "stop_all", "run", "register_raw",
   "register_raw_commit", "create_folder", "delete_folder",
   "set_task_security", "set_folder_security", "stop_instance",
   "set_history_enabled"}

\* The early returns: the error, or none.
RefusedAtOnce(r) ==
  CASE r.op \in {"register_raw", "register_raw_commit", "set_task_security",
                 "set_folder_security"} /\ r.want \in Rejected -> "invalid"
    [] r.op \in {"register_raw", "register_raw_commit"}
         /\ r.option = "no_password"
         /\ r.want \in WithPassword \ Rejected -> "authentication"
    [] r.op = "history" /\ r.option = "too_many" -> "limit"
    [] r.op = "run" /\ r.option = "too_many_parameters" -> "invalid"
    [] r.op \in {"create_folder", "delete_folder"} /\ r.on = Root -> "invalid"
    [] OTHER -> "none"

(***************************************************************************)
(* What the service answers.                                               *)
(***************************************************************************)
Found(v) == [ok |-> TRUE, value |-> v]
Error(kind) == [ok |-> FALSE, value |-> kind]

Property(v, result) ==
  IF v = Missing THEN {Error("not_found")} ELSE {Found(result)}

Orders(S) == {s \in [1..Cardinality(S) -> S] : {s[i] : i \in DOMAIN s} = S}

Collection(f, S) ==
  IF world.folders[f] = Missing THEN {Error("not_found")}
  ELSE {Found(s) : s \in Orders(S)}

Children(w, f) ==
  {c \in Folders \ {Root} : Parent[c] = f /\ w.folders[c] /= Missing}
TasksIn(w, f) == {t \in Tasks : FolderOf[t] = f /\ w.tasks[t] /= Missing}
Running(w) == {i \in Instances : w.instances[i] \in Tasks}

\* An instance that has ended may refuse, with SCHED_E_TASK_NOT_RUNNING.
Present(i) ==
  {Found(i)} \union (IF i \in Running(world) THEN {} ELSE {Error("ended")})

\* The Operational channel, unless connecting to the event log failed.
Channel ==
  {IF access = "unavailable" THEN Error("failed") ELSE Found(world.channel)}

\* The instance that Run returned.
Launched == output[1].value

Results(s) ==
  CASE s.call = "folder" -> Property(world.folders[s.on], s.on)
    [] s.call = "task" -> Property(world.tasks[s.on], s.on)
    [] s.call = "enabled" ->
         Property(world.tasks[s.on], world.tasks[s.on].enabled)
    [] s.call = "xml" -> Property(world.tasks[s.on], world.tasks[s.on].xml)
    [] s.call = "task_security" ->
         Property(world.tasks[s.on], world.tasks[s.on].security)
    [] s.call = "folder_security" ->
         Property(world.folders[s.on], world.folders[s.on])
    [] s.call = "tasks" -> Collection(s.on, TasksIn(world, s.on))
    [] s.call = "folders" -> Collection(s.on, Children(world, s.on))
    [] s.call = "running" -> {Found(i) : i \in Orders(Running(world))}
    [] s.call = "instance" -> Present(s.on)
    [] s.call \in {"instance_id", "engine_pid"} -> Present(Launched)
    [] s.call \in {"probe", "channel", "configuration", "query"} -> Channel
    [] s.call = "new_task" -> {Found(s.on), Error("invalid")}
    [] s.call = "arguments" -> {IF request.option = "wide_session"
                                THEN Error("invalid") ELSE Found(s.on)}
    [] OTHER -> {Found(s.on)}

\* configure_proxy fails only when the policy requires the blanket.
MayFail(s) ==
  /\ s.call = "proxy" => policy = "require"
  /\ s.call /= "arguments"

\* What the caller gets to see.
Reported == {"enabled", "xml", "task_security", "folder_security", "child",
             "instance", "instance_id", "channel"}

(***************************************************************************)
(* The calls that an answer adds: collections are walked item by item,     *)
(* depth first, and children are opened again by their paths.              *)
(***************************************************************************)
Each(call, items) == [i \in DOMAIN items |-> Native(call, items[i])]

Recursive == request.option = "recursive"

AfterTasks(f) == IF Recursive THEN <<Native("folders", f)>> ELSE <<>>

Visit(c) == IF request.op = "list_tasks" THEN ListTasks(c) ELSE ListFolders(c)

Expansion(s, v) ==
  CASE s.call = "tasks" -> Each("item", v) \o AfterTasks(s.on)
    [] s.call = "folders" -> Each("child", v)
    [] s.call = "item" -> TaskInfo(s.on)
    [] s.call = "child" /\ Recursive -> Visit(s.on)
    [] s.call = "running" -> Each("instance", v)
    [] OTHER -> <<>>

(***************************************************************************)
(* How a method goes on.                                                   *)
(***************************************************************************)
Answer(status, kind, committed) ==
  /\ stage' = "answered"
  /\ reply' = [status |-> status, kind |-> kind, committed |-> committed]
  /\ todo' = <<>>

NoReply == [status |-> "none", kind |-> "none", committed |-> FALSE]

\* Mutant of Tolerated: an instance that has ended is an error.
Tolerated_never(s, kind) ==
  \/ s.call \in {"probe", "engine_pid"}
  \/ request.op = "doctor" /\ s.call \in {"folder", "channel"}

\* Failures that a method survives: see collect_running_snapshots,
\* capabilities, doctor and run.
Tolerated(s, kind) ==
  \/ request.op = "running_tasks" /\ s.call = "instance" /\ kind = "ended"
  \/ s.call \in {"probe", "engine_pid"}
  \/ request.op = "doctor" /\ s.call \in {"folder", "channel"}

SecurityReads == {"task_security", "folder_security"}

\* A setter reads the descriptor before it writes; while it does, being
\* denied only means that the write is needed.
Comparing ==
  /\ request.op \in {"set_task_security", "set_folder_security"}
  /\ \E i \in DOMAIN todo : todo[i].call \in SecurityReads

Reopen == IF request.op = "set_task_security" THEN OpenTask(request.on)
          ELSE OpenFolder(request.on)

\* Mutant of Unneeded: whatever could be read is good enough.
Unneeded_readable(s, v) == Comparing /\ s.call \in SecurityReads

Unneeded(s, v) ==
  Comparing /\ s.call \in SecurityReads /\ v = request.want

\* Mutant of Committed: the marker is put on every failure of the method.
Committed_always == request.op \in {"register_raw", "register_raw_commit"}

\* The context "registration_committed" of an error.
Committed ==
  /\ stage = "confirming"
  /\ request.op \in {"register_raw", "register_raw_commit"}

\* The instance that stop_instance was looking for.
Match(s, v) ==
  request.op = "stop_instance" /\ s.call = "instance" /\ v = request.on

Proceed(s, v) ==
  IF Unneeded(s, v)
  THEN Answer("ok", "unneeded", FALSE) /\ UNCHANGED output
  ELSE /\ stage' = IF Match(s, v) THEN "mutating" ELSE stage
       /\ todo' = IF Match(s, v) THEN <<>> ELSE Expansion(s, v) \o Tail(todo)
       /\ output' = IF s.call \in Reported
                    THEN Append(output, [call |-> s.call, on |-> s.on,
                                         value |-> v])
                    ELSE output
       /\ UNCHANGED reply

Fail(s, kind) ==
  /\ CASE Tolerated(s, kind) ->
            todo' = Tail(todo) /\ UNCHANGED <<stage, reply>>
       [] Comparing /\ kind = "denied" ->
            todo' = Reopen /\ UNCHANGED <<stage, reply>>
       [] OTHER -> Answer("error", kind, Committed)
  /\ UNCHANGED output

\* The state kept about the call itself.
Witness == past' = past \union {world'}

\* A native call that reads.
Read ==
  /\ stage \in {"reading", "confirming"} /\ todo /= <<>>
  /\ \/ /\ UNCHANGED faults
        /\ \E result \in Results(Head(todo)) :
             IF result.ok THEN Proceed(Head(todo), result.value)
             ELSE Fail(Head(todo), result.value)
     \/ /\ faults < MaxFaults /\ MayFail(Head(todo))
        /\ faults' = faults + 1
        /\ \E kind \in {"failed", "denied"} : Fail(Head(todo), kind)
  /\ UNCHANGED <<world, session, request, foreign, effects, past>>

\* A registration in mode validate_only changes nothing.
Success == IF request.op \in Mutations /\ request.option /= "validate_only"
           THEN "done" ELSE "value"

\* All calls of the stage have been made.
EndStage ==
  /\ stage \in {"reading", "confirming"} /\ todo = <<>>
  /\ IF stage = "reading" /\ request.op \in Mutations
     THEN IF request.op = "stop_instance"
          THEN Answer("error", "not_found", FALSE)
          ELSE stage' = "mutating" /\ UNCHANGED <<todo, reply>>
     ELSE Answer("ok", Success, FALSE)
  /\ UNCHANGED <<world, session, request, output, faults, foreign, effects,
                 past>>

(***************************************************************************)
(* The mutations.                                                          *)
(***************************************************************************)
Exists(w, x) ==
  IF x \in Tasks THEN w.tasks[x] /= Missing ELSE w.folders[x] /= Missing

Empty(w, f) == Children(w, f) = {} /\ TasksIn(w, f) = {}

\* What RegisterTask makes of a task; a new one takes its descriptor from
\* the definition or the folder.
Registered(w, t, xml) ==
  IF w.tasks[t] = Missing
  THEN [xml : {xml}, enabled : {"on"}, security : Descriptors \ Rejected]
  ELSE {[w.tasks[t] EXCEPT !.xml = xml, !.enabled = "on"]}

Registrable(r, w) ==
  /\ w.folders[FolderOf[r.on]] /= Missing
  /\ r.option = "create" => ~Exists(w, r.on)
  /\ r.option = "update" => Exists(w, r.on)

\* The contents a successful mutation may leave behind; none when the
\* service refuses it.
Outcomes(r, w) ==
  CASE r.op = "delete_task" /\ Exists(w, r.on) ->
         {[w EXCEPT !.tasks[r.on] = Missing]}
    [] r.op = "set_enabled" /\ Exists(w, r.on) ->
         {[w EXCEPT !.tasks[r.on].enabled = r.want]}
    [] r.op = "stop_all" /\ Exists(w, r.on) ->
         {[w EXCEPT !.instances =
             [i \in Instances |-> IF @[i] = r.on THEN "ended" ELSE @[i]]]}
    [] r.op = "run" /\ Exists(w, r.on) ->
         IF w.tasks[r.on].enabled = "off" THEN {}
         ELSE {[w EXCEPT !.instances[i] = r.on] :
                 i \in {i \in Instances : w.instances[i] = "unused"}}
    [] r.op \in {"register_raw", "register_raw_commit"}
         /\ Registrable(r, w) ->
         IF r.option = "validate_only" THEN {w}
         ELSE {[w EXCEPT !.tasks[r.on] = v] :
                 v \in Registered(w, r.on, r.want)}
    [] r.op = "create_folder" /\ Exists(w, Parent[r.on])
         /\ ~Exists(w, r.on) ->
         {[w EXCEPT !.folders[r.on] = r.want]}
    [] r.op = "delete_folder" /\ Exists(w, r.on) /\ Empty(w, r.on) ->
         {[w EXCEPT !.folders[r.on] = Missing]}
    [] r.op = "set_task_security" /\ Exists(w, r.on) ->
         {[w EXCEPT !.tasks[r.on].security = r.want]}
    [] r.op = "set_folder_security" /\ Exists(w, r.on) ->
         {[w EXCEPT !.folders[r.on] = r.want]}
    [] r.op = "stop_instance" /\ w.instances[r.on] \in Tasks ->
         {[w EXCEPT !.instances[r.on] = "ended"]}
    [] r.op = "set_history_enabled" -> {[w EXCEPT !.channel = r.want]}
    [] OTHER -> {}

Refusal(r) ==
  CASE r.op = "stop_instance" -> "ended"
    [] r.op = "create_folder" /\ Exists(world, Parent[r.on]) -> "exists"
    [] r.op \in {"register_raw", "register_raw_commit"}
         /\ r.option = "create" /\ Exists(world, r.on) -> "exists"
    [] r.op \in {"run", "delete_folder"} /\ Exists(world, r.on) -> "failed"
    [] OTHER -> "not_found"

\* The handle of the instance that was started.
Handle(w) ==
  IF request.op = "run"
  THEN <<[call |-> "launched", on |-> request.on,
          value |-> CHOOSE i \in Instances :
                      w.instances[i] /= world.instances[i]]>>
  ELSE output

Mutated(w) ==
  /\ world' = w
  /\ effects' = effects + (IF request.option = "validate_only" THEN 0 ELSE 1)
  /\ Witness

Mutate ==
  /\ stage = "mutating"
  /\ \/ \E w \in Outcomes(request, world) :
          /\ Mutated(w)
          /\ stage' = "confirming" /\ todo' = Confirming(request)
          /\ output' = Handle(w)
          /\ UNCHANGED <<reply, faults>>
     \/ /\ Outcomes(request, world) = {}
        /\ Answer("error", Refusal(request), Committed)
        /\ UNCHANGED <<world, effects, past, output, faults>>
  /\ UNCHANGED <<session, request, foreign>>

\* The call fails, before or after the service has made the change.
MutationFails ==
  /\ stage = "mutating" /\ faults < MaxFaults
  /\ faults' = faults + 1
  /\ \/ /\ \E kind \in {"failed", "denied"} :
             Answer("error", kind, Committed)
        /\ UNCHANGED <<world, effects, past>>
     \/ \E w \in Outcomes(request, world) :
          Mutated(w) /\ Answer("error", "failed", Committed)
  /\ UNCHANGED <<session, request, output, foreign>>

(***************************************************************************)
(* Session::connect; the event log of a remote computer may be out of      *)
(* reach, which only the calls that need it find out.                      *)
(***************************************************************************)
Connect ==
  /\ stage = "connecting"
  /\ \/ /\ access' \in (IF request.option = "local" THEN {"local"}
                        ELSE {"remote", "unavailable"})
        /\ stage' = "idle"
        /\ UNCHANGED <<reply, faults, todo>>
     \/ /\ faults < MaxFaults /\ faults' = faults + 1
        /\ Answer("error", "failed", FALSE)
        /\ UNCHANGED access
  /\ UNCHANGED <<world, policy, request, output, foreign, effects, past>>

\* The worker takes the next request.
Begin ==
  /\ stage = "idle"
  /\ \E r \in AllRequests :
       /\ request' = r
       /\ IF RefusedAtOnce(r) /= "none"
          THEN Answer("error", RefusedAtOnce(r), FALSE)
          ELSE /\ stage' = "reading" /\ todo' = Reading(r)
               /\ UNCHANGED reply
  /\ UNCHANGED <<world, session, output, faults, foreign, effects, past>>

Serve == Connect \/ Begin \/ Read \/ EndStage \/ Mutate \/ MutationFails

(***************************************************************************)
(* Other clients and the engine.                                           *)
(***************************************************************************)
TaskChanges(w, t) ==
  IF w.tasks[t] = Missing
  THEN [xml : Definitions \ Rejected, enabled : {"on"},
        security : Descriptors \ Rejected]
  ELSE {Missing}
         \union {[w.tasks[t] EXCEPT !.xml = d] : d \in Definitions \ Rejected}
         \union {[w.tasks[t] EXCEPT !.enabled = e] : e \in Switch}
         \union {[w.tasks[t] EXCEPT !.security = d] :
                   d \in Descriptors \ Rejected}

FolderChanges(w, f) ==
  CASE w.folders[f] = Missing ->
         IF Exists(w, Parent[f]) THEN Descriptors \ Rejected ELSE {}
    [] w.folders[f] /= Missing /\ f /= Root /\ Empty(w, f) ->
         {Missing} \union (Descriptors \ Rejected)
    [] OTHER -> Descriptors \ Rejected

InstanceChanges(w, i) ==
  CASE w.instances[i] = "unused" ->
         {t \in Tasks : Exists(w, t) /\ w.tasks[t].enabled = "on"}
    [] w.instances[i] \in Tasks -> {"ended"}
    [] OTHER -> {}

TaskActs(w) ==
  UNION {{[w EXCEPT !.tasks[t] = v] : v \in TaskChanges(w, t)} :
           t \in {t \in Tasks : Exists(w, FolderOf[t])}}
FolderActs(w) ==
  UNION {{[w EXCEPT !.folders[f] = v] : v \in FolderChanges(w, f)} :
           f \in Folders}
InstanceActs(w) ==
  UNION {{[w EXCEPT !.instances[i] = v] : v \in InstanceChanges(w, i)} :
           i \in Instances}
ChannelActs(w) == {[w EXCEPT !.channel = c] : c \in Switch}

Changes(w) ==
  TaskActs(w) \union FolderActs(w) \union InstanceActs(w) \union ChannelActs(w)

Others ==
  /\ stage \in {"reading", "mutating", "confirming"}
  /\ foreign < MaxForeign
  /\ foreign' = foreign + 1
  /\ \E w \in Changes(world) \ {world} : world' = w
  /\ Witness
  /\ UNCHANGED <<session, request, stage, todo, output, reply, faults,
                 effects>>

Init ==
  /\ world \in Worlds
  /\ policy \in {"existing", "require"}
  /\ access = "local"
  /\ request \in Requests("connect", Plain, Plain, {"local", "remote"})
  /\ stage = "connecting"
  /\ todo = <<>> /\ output = <<>> /\ reply = NoReply
  /\ faults = 0 /\ foreign = 0 /\ effects = 0
  /\ past = {world}

Next == Serve \/ Others

Spec == Init /\ [][Next]_vars

\* The session's worker thread runs and its native calls return.
FairSpec == Spec /\ WF_vars(Serve)

-----------------------------------------------------------------------------
(***************************************************************************)
(* Properties.                                                             *)
(***************************************************************************)

\* What the answer tells the caller, who sees the kind of an error and the
\* marker of a committed registration.  A call that was invalid, or whose
\* object was not found or exists already, was refused.
Refusals == {"invalid", "authentication", "limit", "not_found", "exists"}

Told ==
  CASE stage /= "answered" -> "none"
    [] stage = "answered" /\ reply.status = "ok" -> reply.kind
    [] stage = "answered" /\ reply.status = "error" /\ reply.committed ->
         "committed"
    [] OTHER -> IF reply.kind \in Refusals THEN "refused" ELSE "failed"

\* Every call keeps the promise of ServiceCall: it changes the service at
\* most once, an answer of success or the registration_committed marker means
\* that it did, a refusal that it did not, and it is answered, even though
\* other clients change what it read and any native call may fail on either
\* side of its effect.
Contract == INSTANCE ServiceCall WITH answer <- Told
ServiceContract == Contract!Call

Shows(w, e) ==
  CASE e.call = "enabled" ->
         w.tasks[e.on] /= Missing /\ w.tasks[e.on].enabled = e.value
    [] e.call = "xml" ->
         w.tasks[e.on] /= Missing /\ w.tasks[e.on].xml = e.value
    [] e.call = "task_security" ->
         w.tasks[e.on] /= Missing /\ w.tasks[e.on].security = e.value
    [] e.call = "folder_security" -> w.folders[e.on] = e.value
    [] e.call = "child" -> w.folders[e.on] /= Missing
    [] e.call = "instance" -> e.on \in Running(w)
    [] e.call \in {"launched", "instance_id"} ->
         w.instances[e.value] = e.on
    [] e.call = "channel" -> w.channel = e.value

Absent(w, r) ==
  CASE r.on \in Tasks ->
         w.tasks[r.on] = Missing \/ w.folders[FolderOf[r.on]] = Missing
    [] r.on \in Instances -> r.on \notin Running(w)
    [] r.on \in Folders ->
         \/ w.folders[r.on] = Missing
         \/ r.on /= Root /\ w.folders[Parent[r.on]] = Missing
    [] OTHER -> FALSE

\* Everything a successful call reports was so at some moment between its
\* begin and its answer: each property of each task, though not all of them
\* at one moment, as they are read one by one; a descriptor that a setter
\* found already in place; and the absence of an object that a call on a
\* single one did not find.
AnswersTrue ==
  stage = "answered" =>
    /\ reply.status = "ok" =>
         \A k \in DOMAIN output : \E w \in past : Shows(w, output[k])
    /\ reply.kind = "unneeded" =>
         \E w \in past :
           IF request.on \in Tasks
           THEN w.tasks[request.on] /= Missing
                  /\ w.tasks[request.on].security = request.want
           ELSE w.folders[request.on] = request.want
    /\ reply.kind = "not_found"
         /\ request.op \notin {"list_tasks", "list_folders"} =>
         \E w \in past : Absent(w, request)

\* The folders from f up to the root.
Upwards(f) ==
  {g \in Folders :
     \A S \in SUBSET Folders :
       f \in S /\ (\A h \in S \ {Root} : Parent[h] \in S) => g \in S}

\* Folders that a listing from a folder visits.
Within(f) == IF Recursive THEN {g \in Folders : f \in Upwards(g)} ELSE {f}

Times(call, x) ==
  Cardinality({k \in DOMAIN output :
                 output[k].call = call /\ output[k].on = x})

\* A listing that succeeds has every task, folder or instance that existed
\* throughout the call exactly once, and none twice, although the tree
\* changes while it is walked; and instances that end during the enumeration
\* never make it fail.
ListingsComplete ==
  stage = "answered" =>
    /\ reply.status = "ok" /\ request.op = "list_tasks" =>
         \A t \in Tasks :
           /\ Times("xml", t) <= 1
           /\ /\ FolderOf[t] \in Within(request.on)
              /\ \A w \in past : w.tasks[t] /= Missing
              => Times("xml", t) = 1
    /\ reply.status = "ok" /\ request.op = "list_folders" =>
         \A f \in Folders \ {Root} :
           /\ Times("child", f) <= 1
           /\ /\ Parent[f] \in Within(request.on)
              /\ \A w \in past : w.folders[f] /= Missing
              => Times("child", f) = 1
    /\ request.op = "running_tasks" =>
         /\ faults = 0 => reply.status = "ok"
         /\ reply.status = "ok" =>
              \A i \in Instances :
                /\ Times("instance", i) <= 1
                /\ (\A w \in past : i \in Running(w))
                     => Times("instance", i) = 1
=============================================================================
