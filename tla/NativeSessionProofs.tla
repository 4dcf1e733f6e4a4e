------------------------ MODULE NativeSessionProofs ------------------------
(***************************************************************************)
(* Proofs about NativeSession: what a call changes and what its answer     *)
(* says of that, that what it reports was so, and that a listing misses    *)
(* nothing and repeats nothing, for every tree of folders and tasks and    *)
(* any number of failing native calls and of acts of other clients.        *)
(***************************************************************************)
EXTENDS NativeSession, TLAPS, SequenceTheorems, FiniteSetTheorems

Registrations == {"register_raw", "register_raw_commit"}
TaskOps == {"get_task", "delete_task", "set_enabled", "stop_all", "run",
            "task_security", "set_task_security"} \union Registrations
FolderOps == {"create_folder", "delete_folder", "list_tasks", "list_folders",
              "folder_security", "set_folder_security"}
ServiceOps == {"running_tasks", "validate", "normalize_definition",
               "connection_info", "capabilities", "doctor", "history",
               "history_enabled", "set_history_enabled"}

(***************************************************************************)
(* The steps that a request makes.                                         *)
(***************************************************************************)
OfTask == {"task", "enabled", "xml", "task_security", "item", "arguments",
           "instance_id", "engine_pid"}
OfFolder == {"folder", "folder_security", "tasks", "folders", "child"}
OfService == {"connection", "version", "probe", "channel", "account", "query",
              "configuration", "new_task", "running", "instance", "proxy"}

Objects ==
  Tasks \union Folders \union Instances \union Definitions \union {Missing}
Steps == [call : OfTask \union OfFolder \union OfService, on : Objects]

\* An operation on one object asks for that object and what it is found by.
Single(r) == r.op \notin {"list_tasks", "list_folders"}

Near(s, r) ==
  /\ s.call \in OfTask => s.on = r.on
  /\ s.call \in OfFolder =>
       \/ r.on \in Tasks /\ s.on = FolderOf[r.on] /\ s.call = "folder"
       \/ r.on \in Folders /\ s.on = r.on
            /\ s.call \in {"folder", "folder_security"}
       \/ r.on \in Folders \ {Root} /\ s.on = Parent[r.on]
            /\ s.call = "folder"
       \/ r.op = "doctor" /\ s.call = "folder"

\* A child or an instance to be visited was found before; after a mutation
\* only a registration reads objects again.
Fits(s, r, st, p) ==
  /\ s.call \in OfTask => s.on \in Tasks
  /\ s.call \in OfFolder => s.on \in Folders
  /\ s.call = "child" => \E w \in p : w.folders[s.on] /= Missing
  /\ s.call = "instance" =>
       s.on \in Instances /\ \E w \in p : s.on \in Running(w)
  /\ Single(r) => Near(s, r)
  /\ s.call = "instance_id" => st = "confirming" /\ r.op = "run"
  /\ st = "confirming" /\ r.op \notin Registrations =>
       s.call \in {"proxy", "instance_id", "engine_pid"}

Allowed(r, st, p) == {s \in Steps : Fits(s, r, st, p)}

\* What has been collected was seen.
Values == Objects \union Switch \union Descriptors
Entries == [call : Reported \union {"launched"}, on : Objects, value : Values]
Shown(p) == {e \in Entries : \E w \in p : Shows(w, e)}

Serving == stage \in {"reading", "mutating", "confirming"}

\* Looking for an instance that always ran ends at that instance.
Sought ==
  \/ \E w \in past : request.on \notin Running(w)
  \/ \E k \in DOMAIN todo : todo[k].call = "running"
  \/ \E k \in DOMAIN todo :
       todo[k].call = "instance" /\ todo[k].on = request.on

TypeInv ==
  /\ world \in World /\ world \in past
  /\ stage \in {"connecting", "idle", "answered"} \/ Serving
  /\ output \in Seq(Shown(past))
  /\ Serving => request \in AllRequests /\ RefusedAtOnce(request) = "none"
  /\ Serving => todo \in Seq(Allowed(request, stage, past))
  /\ stage \in {"mutating", "confirming"} => request.op \in Mutations

Handled ==
  stage = "confirming" /\ request.op = "run" =>
    output /= <<>> /\ output[1].call = "launched" /\ output[1].on = request.on

Counted ==
  stage /= "answered" =>
    IF stage = "confirming" /\ request.option /= "validate_only"
    THEN effects = 1 ELSE effects = 0

Seeking == stage = "reading" /\ request.op = "stop_instance" => Sought

Inv == TypeInv /\ Handled /\ Counted /\ Seeking /\ AnswersTrue

-----------------------------------------------------------------------------
(***************************************************************************)
(* Requests.                                                               *)
(***************************************************************************)
LEMMA RequestKinds ==
  ASSUME NEW r \in AllRequests
  PROVE  /\ r.op \in TaskOps \union FolderOps \union ServiceOps
                       \union {"stop_instance"}
         /\ r.op \in TaskOps => r.on \in Tasks
         /\ r.op \in FolderOps => r.on \in Folders
         /\ r.op = "stop_instance" => r.on \in Instances
         /\ r.op \in ServiceOps => r.on = Missing
         /\ r.op \in {"set_enabled", "set_history_enabled"} =>
              r.want \in Switch
         /\ r.op \in Registrations \union {"validate"} =>
              r.want \in Definitions
         /\ r.op \in {"create_folder", "set_task_security",
                      "set_folder_security"} => r.want \in Descriptors
         /\ r.op \in Mutations \ Registrations => r.option /= "validate_only"
         /\ r.op \in Registrations /\ r.option = "validate_only" =>
              "validate_only" \in Modes
<1>1. CASE r \in TaskRequests
  BY <1>1, ValuesAssumption
  DEF TaskRequests, Requests, Plain, TaskOps, FolderOps, ServiceOps,
      Registrations, Mutations, AllModes
<1>2. CASE r \in RegisterRequests
  BY <1>2, ValuesAssumption
  DEF RegisterRequests, Requests, Plain, TaskOps, FolderOps, ServiceOps,
      Registrations, Mutations, AllModes
<1>3. CASE r \in FolderRequests
  BY <1>3, ValuesAssumption
  DEF FolderRequests, Requests, Plain, TaskOps, FolderOps, ServiceOps,
      Registrations, Mutations, AllModes
<1>4. CASE r \in SecurityRequests
  BY <1>4, ValuesAssumption
  DEF SecurityRequests, Requests, Plain, TaskOps, FolderOps, ServiceOps,
      Registrations, Mutations, AllModes
<1>5. CASE r \in ServiceRequests
  BY <1>5, ValuesAssumption
  DEF ServiceRequests, Requests, Plain, TaskOps, FolderOps, ServiceOps,
      Registrations, Mutations, AllModes
<1>6. QED  BY <1>1, <1>2, <1>3, <1>4, <1>5 DEF AllRequests

LEMMA Kinds ==
  /\ Mutations \subseteq TaskOps \union FolderOps
                           \union {"stop_instance", "set_history_enabled"}
  /\ TaskOps \intersect FolderOps = {}
  /\ ServiceOps \intersect (TaskOps \union FolderOps) = {}
BY DEF Mutations, TaskOps, FolderOps, ServiceOps, Registrations

-----------------------------------------------------------------------------
(***************************************************************************)
(* The native calls that an operation is made of.                          *)
(***************************************************************************)

\* May read objects: before a mutation, or behind a registration.
Reads(r, st) ==
  \/ st = "reading"
  \/ st = "confirming" /\ r.op \in Registrations

LEMMA OneStep ==
  ASSUME NEW r, NEW st, NEW p,
         NEW call \in OfTask \union OfFolder \union OfService,
         NEW on \in Objects, Fits(Native(call, on), r, st, p)
  PROVE  <<Native(call, on)>> \in Seq(Allowed(r, st, p))
BY DEF Allowed, Steps, Native

LEMMA OpenFolderAllowed ==
  ASSUME NEW r, NEW st, NEW p, NEW f \in Folders, Reads(r, st),
         Single(r) => Near(Native("folder", f), r)
  PROVE  OpenFolder(f) \in Seq(Allowed(r, st, p))
<1>1. f \in Objects  BY DEF Objects
<1>2. Fits(Native("folder", f), r, st, p)
  BY DEF Fits, Native, OfTask, Reads, OfFolder
<1>3. QED  BY <1>1, <1>2, OneStep DEF OpenFolder, OfFolder

LEMMA OpenTaskAllowed ==
  ASSUME NEW r, NEW st, NEW p, NEW t \in Tasks, Reads(r, st),
         Single(r) => r.on = t
  PROVE  OpenTask(t) \in Seq(Allowed(r, st, p))
<1>1. FolderOf[t] \in Folders /\ t \in Objects
  BY TreeAssumption DEF Objects
<1>2. Single(r) => Near(Native("folder", FolderOf[t]), r)
  BY DEF Near, Native, OfTask, OfFolder
<1>3. OpenFolder(FolderOf[t]) \in Seq(Allowed(r, st, p))
  BY <1>1, <1>2, OpenFolderAllowed
<1>4. Fits(Native("task", t), r, st, p)
  BY DEF Fits, Native, Near, OfTask, OfFolder, Reads
<1>5. <<Native("task", t)>> \in Seq(Allowed(r, st, p))
  BY <1>1, <1>4, OneStep DEF OfTask
<1>6. QED  BY <1>3, <1>5, ConcatProperties DEF OpenTask

LEMMA TaskInfoAllowed ==
  ASSUME NEW r, NEW st, NEW p, NEW t \in Tasks, Reads(r, st),
         Single(r) => r.on = t
  PROVE  TaskInfo(t) \in Seq(Allowed(r, st, p))
<1>1. t \in Objects  BY DEF Objects
<1>2. /\ Fits(Native("enabled", t), r, st, p)
      /\ Fits(Native("xml", t), r, st, p)
  BY DEF Fits, Native, Near, OfTask, OfFolder, Reads
<1>3. Native("enabled", t) \in Allowed(r, st, p)
      /\ Native("xml", t) \in Allowed(r, st, p)
  BY <1>1, <1>2 DEF Allowed, Steps, Native, OfTask
<1>4. QED  BY <1>3 DEF TaskInfo

LEMMA ServiceStep ==
  ASSUME NEW r, NEW st, NEW p, NEW on \in Objects,
         NEW call \in OfService \ {"instance"},
         Reads(r, st) \/ call = "proxy"
  PROVE  Native(call, on) \in Allowed(r, st, p)
<1>1. call \notin OfTask /\ call \notin OfFolder /\ call /= "child"
      /\ call /= "instance_id"
  BY DEF OfService, OfTask, OfFolder
<1>2. QED  BY <1>1 DEF Allowed, Steps, Fits, Near, Native, Reads

LEMMA ReadingAllowed ==
  ASSUME NEW r \in AllRequests, NEW p, RefusedAtOnce(r) = "none"
  PROVE  Reading(r) \in Seq(Allowed(r, "reading", p))
<1> DEFINE A == Allowed(r, "reading", p)
<1>1. Reads(r, "reading") /\ Missing \in Objects  BY DEF Reads, Objects
<1>2. \A c \in OfService \ {"instance"} : \A on \in Objects :
        Native(c, on) \in A
  BY <1>1, ServiceStep
<1>3. CASE r.op \in TaskOps
  <2>1. r.on \in Tasks /\ r.on \in Objects  BY <1>3, RequestKinds DEF Objects
  <2>2. OpenTask(r.on) \in Seq(A) /\ TaskInfo(r.on) \in Seq(A)
    BY <1>1, <2>1, OpenTaskAllowed, TaskInfoAllowed
  <2>3. FolderOf[r.on] \in Folders
        /\ Near(Native("folder", FolderOf[r.on]), r)
    BY <2>1, TreeAssumption DEF Near, Native, OfTask, OfFolder
  <2>4. OpenFolder(FolderOf[r.on]) \in Seq(A)
    BY <1>1, <2>3, OpenFolderAllowed
  <2>5. Fits(Native("task_security", r.on), r, "reading", p)
        /\ Fits(Native("arguments", r.on), r, "reading", p)
    BY <2>1 DEF Fits, Near, Native, OfTask, OfFolder
  <2>6. <<Native("task_security", r.on)>> \in Seq(A)
        /\ <<Native("arguments", r.on)>> \in Seq(A)
    BY <2>1, <2>5, OneStep DEF OfTask
  <2>7. /\ OpenTask(r.on) \o TaskInfo(r.on) \in Seq(A)
        /\ ReadTaskSecurity(r.on) \in Seq(A)
        /\ OpenTask(r.on) \o <<Native("arguments", r.on)>> \in Seq(A)
    BY <2>2, <2>6, ConcatProperties DEF ReadTaskSecurity
  <2>8. ReadTaskSecurity(r.on) \o OpenTask(r.on) \in Seq(A)
    BY <2>2, <2>7, ConcatProperties
  <2>9. QED
    BY <1>3, <2>2, <2>4, <2>7, <2>8 DEF Reading, TaskOps, Registrations
<1>4. CASE r.op \in FolderOps
  <2>1. r.on \in Folders /\ r.on \notin Tasks /\ r.on \in Objects
    BY <1>4, RequestKinds, TreeAssumption DEF Objects
  <2>2. Near(Native("folder", r.on), r)
    BY <2>1 DEF Near, Native, OfTask, OfFolder
  <2>3. OpenFolder(r.on) \in Seq(A)  BY <1>1, <2>1, <2>2, OpenFolderAllowed
  <2>4. CASE r.op \in {"create_folder", "delete_folder"}
    <3>1. r.on /= Root  BY <2>4 DEF RefusedAtOnce
    <3>2. Parent[r.on] \in Folders /\ Near(Native("folder", Parent[r.on]), r)
      BY <2>1, <3>1, TreeAssumption DEF Near, Native, OfTask, OfFolder
    <3>3. QED  BY <1>1, <2>4, <3>2, OpenFolderAllowed DEF Reading
  <2>5. CASE r.op \in {"folder_security", "set_folder_security"}
    <3>1. Fits(Native("folder_security", r.on), r, "reading", p)
      BY <2>1 DEF Fits, Near, Native, OfTask, OfFolder
    <3>2. <<Native("folder_security", r.on)>> \in Seq(A)
      BY <2>1, <3>1, OneStep DEF OfFolder
    <3>3. ReadFolderSecurity(r.on) \in Seq(A)
      BY <2>3, <3>2, ConcatProperties DEF ReadFolderSecurity
    <3>4. ReadFolderSecurity(r.on) \o OpenFolder(r.on) \in Seq(A)
      BY <2>3, <3>3, ConcatProperties
    <3>5. QED  BY <2>5, <3>3, <3>4 DEF Reading
  <2>6. CASE r.op \in {"list_tasks", "list_folders"}
    <3>1. /\ Fits(Native("tasks", r.on), r, "reading", p)
          /\ Fits(Native("folders", r.on), r, "reading", p)
      BY <2>1, <2>6 DEF Fits, Single, Native, OfTask, OfFolder
    <3>2. <<Native("tasks", r.on)>> \in Seq(A)
          /\ <<Native("folders", r.on)>> \in Seq(A)
      BY <2>1, <3>1, OneStep DEF OfFolder
    <3>3. ListTasks(r.on) \in Seq(A) /\ ListFolders(r.on) \in Seq(A)
      BY <2>3, <3>2, ConcatProperties DEF ListTasks, ListFolders
    <3>4. QED  BY <2>6, <3>3 DEF Reading
  <2>7. QED  BY <1>4, <2>4, <2>5, <2>6 DEF FolderOps
<1>5. CASE r.op = "doctor"
  <2>1. Near(Native("folder", Root), r)
    BY <1>5 DEF Near, Native, OfTask, OfFolder
  <2>2. OpenFolder(Root) \in Seq(A)
    BY <1>1, <2>1, TreeAssumption, OpenFolderAllowed
  <2>3. ConnectionInfo \in Seq(A) /\ Capabilities \in Seq(A)
        /\ Enabled \in Seq(A)
    BY <1>1, <1>2 DEF ConnectionInfo, Capabilities, Enabled, OfService
  <2>4. ConnectionInfo \o Capabilities \in Seq(A)
    BY <2>3, ConcatProperties
  <2>5. ConnectionInfo \o Capabilities \o OpenFolder(Root) \in Seq(A)
    BY <2>2, <2>4, ConcatProperties
  <2>6. Doctor \in Seq(A)  BY <2>3, <2>5, ConcatProperties DEF Doctor
  <2>7. QED  BY <1>5, <2>6 DEF Reading
<1>6. CASE r.op \in (ServiceOps \union {"stop_instance"}) \ {"doctor"}
  <2>1. r.op = "validate" => r.want \in Objects
    BY RequestKinds DEF Objects
  <2>2. \A c \in OfService \ {"instance"} : <<Native(c, Missing)>> \in Seq(A)
    BY <1>1, <1>2
  <2>3. /\ <<Native("running", Missing)>> \in Seq(A)
        /\ ConnectionInfo \in Seq(A) /\ Enabled \in Seq(A)
        /\ <<Native("account", Missing)>> \in Seq(A)
        /\ <<Native("query", Missing)>> \in Seq(A)
        /\ <<Native("configuration", Missing)>> \in Seq(A)
    BY <2>2 DEF ConnectionInfo, Enabled, OfService
  <2>4. Capabilities \in Seq(A)  BY <1>1, <1>2 DEF Capabilities, OfService
  <2>5. <<>> \in Seq(A)  OBVIOUS
  <2>6. CASE r.op = "validate"
    <3>1. Native("new_task", r.want) \in A
      BY <1>2, <2>1, <2>6 DEF OfService
    <3>2. QED  BY <2>5, <2>6, <3>1 DEF Reading, Validate
  <2>7. CASE r.op = "normalize_definition"
    <3>1. r.option \in {"anonymous", "named", "service"}
      BY <2>7 DEF AllRequests, TaskRequests, RegisterRequests, FolderRequests,
                  SecurityRequests, ServiceRequests, Requests
    <3>2. ConnectionInfo \o <<Native("account", Missing)>> \in Seq(A)
      BY <2>3, ConcatProperties
    <3>3. Normalize(r.option) \in Seq(A)
      BY <2>3, <2>5, <3>1, <3>2 DEF Normalize
    <3>4. QED  BY <2>7, <3>3 DEF Reading
  <2>8. CASE r.op = "history"
    BY <2>3, <2>5, <2>8 DEF Reading, History
  <2>9. QED
    BY <1>6, <2>3, <2>4, <2>6, <2>7, <2>8 DEF Reading, ServiceOps
<1>7. QED  BY <1>3, <1>4, <1>5, <1>6, RequestKinds

LEMMA ConfirmingAllowed ==
  ASSUME NEW r \in AllRequests, NEW p, r.op \in Mutations
  PROVE  Confirming(r) \in Seq(Allowed(r, "confirming", p))
<1> DEFINE A == Allowed(r, "confirming", p)
<1>1. Missing \in Objects  BY DEF Objects
<1>2. Native("proxy", Missing) \in A
  BY <1>1, ServiceStep DEF OfService
<1>3. <<Native("proxy", Missing)>> \in Seq(A)  BY <1>2
<1>4. CASE r.op = "register_raw"
  <2>1. r.on \in Tasks /\ Reads(r, "confirming")
    BY <1>4, RequestKinds DEF TaskOps, Reads, Registrations
  <2>2. OpenTask(r.on) \in Seq(A) /\ TaskInfo(r.on) \in Seq(A)
    BY <2>1, OpenTaskAllowed, TaskInfoAllowed
  <2>3. <<Native("proxy", Missing)>> \o OpenTask(r.on) \in Seq(A)
    BY <1>3, <2>2, ConcatProperties
  <2>4. <<Native("proxy", Missing)>> \o OpenTask(r.on) \o TaskInfo(r.on)
          \in Seq(A)
    BY <2>2, <2>3, ConcatProperties
  <2>5. QED  BY <1>4, <2>4 DEF Confirming
<1>5. CASE r.op = "run"
  <2>1. r.on \in Tasks /\ r.on \in Objects
    BY <1>5, RequestKinds DEF TaskOps, Objects
  <2>2. /\ Fits(Native("instance_id", r.on), r, "confirming", p)
        /\ Fits(Native("engine_pid", r.on), r, "confirming", p)
    BY <1>5, <2>1 DEF Fits, Near, Native, OfTask, OfFolder
  <2>3. Native("instance_id", r.on) \in A /\ Native("engine_pid", r.on) \in A
    BY <2>1, <2>2 DEF Allowed, Steps, Native, OfTask
  <2>4. QED  BY <1>2, <1>5, <2>3 DEF Confirming
<1>6. CASE r.op \notin {"register_raw", "run"}
  BY <1>3, <1>6 DEF Confirming
<1>7. QED  BY <1>4, <1>5, <1>6

\* Calls that may be made, and entries that were seen, stay so.
LEMMA AllowedGrows ==
  ASSUME NEW r, NEW st, NEW p, NEW q, p \subseteq q
  PROVE  Allowed(r, st, p) \subseteq Allowed(r, st, q)
BY DEF Allowed, Fits

LEMMA ShownGrows ==
  ASSUME NEW p, NEW q, p \subseteq q
  PROVE  Shown(p) \subseteq Shown(q)
BY DEF Shown

-----------------------------------------------------------------------------
(***************************************************************************)
(* What the service holds stays what it can hold.                          *)
(***************************************************************************)
LEMMA WorldParts ==
  ASSUME NEW w \in World
  PROVE  /\ w = [tasks |-> w.tasks, folders |-> w.folders,
                 instances |-> w.instances, channel |-> w.channel]
         /\ w.tasks \in [Tasks -> TaskValues \union {Missing}]
         /\ w.folders \in [Folders -> Descriptors \union {Missing}]
         /\ w.instances \in [Instances -> Tasks \union {"unused", "ended"}]
         /\ w.channel \in Switch
BY DEF World

LEMMA TaskSet ==
  ASSUME NEW w \in World, NEW t \in Tasks, NEW v \in TaskValues \union {Missing}
  PROVE  [w EXCEPT !.tasks[t] = v] \in World
BY DEF World

LEMMA TaskPart ==
  ASSUME NEW w \in World, NEW t \in Tasks, w.tasks[t] /= Missing
  PROVE  /\ \A x \in Definitions : [w.tasks[t] EXCEPT !.xml = x] \in TaskValues
         /\ \A x \in Switch : [w.tasks[t] EXCEPT !.enabled = x] \in TaskValues
         /\ \A x \in Descriptors :
              [w.tasks[t] EXCEPT !.security = x] \in TaskValues
         /\ \A x \in Definitions :
              [w.tasks[t] EXCEPT !.xml = x, !.enabled = "on"] \in TaskValues
<1>1. w.tasks[t] \in TaskValues  BY DEF World
<1>2. QED  BY <1>1 DEF TaskValues, Switch

LEMMA FolderSet ==
  ASSUME NEW w \in World, NEW f \in Folders,
         NEW v \in Descriptors \union {Missing}
  PROVE  [w EXCEPT !.folders[f] = v] \in World
BY DEF World

LEMMA InstanceSet ==
  ASSUME NEW w \in World, NEW i \in Instances,
         NEW v \in Tasks \union {"unused", "ended"}
  PROVE  [w EXCEPT !.instances[i] = v] \in World
BY DEF World

LEMMA RegisteredTyped ==
  ASSUME NEW w \in World, NEW t \in Tasks, NEW x \in Definitions
  PROVE  Registered(w, t, x) \subseteq TaskValues /\ Registered(w, t, x) /= {}
<1>1. CASE w.tasks[t] = Missing
  <2>1. PICK d : d \in Descriptors \ Rejected  BY ValuesAssumption
  <2>2. [xml |-> x, enabled |-> "on", security |-> d] \in Registered(w, t, x)
    BY <1>1, <2>1 DEF Registered
  <2>3. Registered(w, t, x)
          = [xml : {x}, enabled : {"on"}, security : Descriptors \ Rejected]
    BY <1>1 DEF Registered
  <2>4. Registered(w, t, x) \subseteq TaskValues
    BY <2>3 DEF TaskValues, Switch
  <2>5. QED  BY <2>2, <2>4
<1>2. CASE w.tasks[t] /= Missing
  <2>1. Registered(w, t, x) = {[w.tasks[t] EXCEPT !.xml = x, !.enabled = "on"]}
    BY <1>2 DEF Registered
  <2>2. QED  BY <1>2, <2>1, TaskPart
<1>3. QED  BY <1>1, <1>2

LEMMA OutcomesTyped ==
  ASSUME NEW w \in World, NEW r \in AllRequests, NEW v \in Outcomes(r, w)
  PROVE  v \in World
<1>1. CASE r.op = "delete_task"
  <2>1. r.on \in Tasks  BY <1>1, RequestKinds DEF TaskOps
  <2>2. v = [w EXCEPT !.tasks[r.on] = Missing]  BY <1>1 DEF Outcomes
  <2>3. QED  BY <2>1, <2>2, TaskSet
<1>2. CASE r.op = "set_enabled"
  <2>1. r.on \in Tasks /\ r.want \in Switch
    BY <1>2, RequestKinds DEF TaskOps
  <2>2. w.tasks[r.on] /= Missing  BY <1>2, <2>1 DEF Outcomes, Exists
  <2>3. v = [w EXCEPT !.tasks[r.on].enabled = r.want]
    BY <1>2 DEF Outcomes
  <2>4. v = [w EXCEPT !.tasks[r.on] =
                        [w.tasks[r.on] EXCEPT !.enabled = r.want]]
    BY <2>1, <2>3, WorldParts
  <2>5. QED  BY <2>1, <2>2, <2>4, TaskPart, TaskSet
<1>3. CASE r.op = "stop_all"
  <2>1. v = [w EXCEPT !.instances =
               [i \in Instances |->
                  IF w.instances[i] = r.on THEN "ended" ELSE w.instances[i]]]
    BY <1>3 DEF Outcomes
  <2>2. QED  BY <2>1 DEF World
<1>4. CASE r.op = "run"
  <2>1. PICK i \in Instances : v = [w EXCEPT !.instances[i] = r.on]
    BY <1>4 DEF Outcomes
  <2>2. r.on \in Tasks  BY <1>4, RequestKinds DEF TaskOps
  <2>3. QED  BY <2>1, <2>2, InstanceSet
<1>5. CASE r.op \in Registrations
  <2>1. r.on \in Tasks /\ r.want \in Definitions
    BY <1>5, RequestKinds DEF TaskOps
  <2>2. CASE v = w  BY <2>2
  <2>3. CASE v /= w
    <3>1. PICK x \in Registered(w, r.on, r.want) :
            v = [w EXCEPT !.tasks[r.on] = x]
      BY <1>5, <2>3 DEF Outcomes, Registrations
    <3>2. QED  BY <2>1, <3>1, RegisteredTyped, TaskSet
  <2>4. QED  BY <2>2, <2>3
<1>6. CASE r.op = "create_folder"
  <2>1. r.on \in Folders /\ r.want \in Descriptors
    BY <1>6, RequestKinds DEF FolderOps
  <2>2. v = [w EXCEPT !.folders[r.on] = r.want]  BY <1>6 DEF Outcomes
  <2>3. QED  BY <2>1, <2>2, FolderSet
<1>7. CASE r.op = "delete_folder"
  <2>1. r.on \in Folders  BY <1>7, RequestKinds DEF FolderOps
  <2>2. v = [w EXCEPT !.folders[r.on] = Missing]  BY <1>7 DEF Outcomes
  <2>3. QED  BY <2>1, <2>2, FolderSet
<1>8. CASE r.op = "set_task_security"
  <2>1. r.on \in Tasks /\ r.want \in Descriptors
    BY <1>8, RequestKinds DEF TaskOps
  <2>2. w.tasks[r.on] /= Missing  BY <1>8, <2>1 DEF Outcomes, Exists
  <2>3. v = [w EXCEPT !.tasks[r.on].security = r.want]
    BY <1>8 DEF Outcomes
  <2>4. v = [w EXCEPT !.tasks[r.on] =
                        [w.tasks[r.on] EXCEPT !.security = r.want]]
    BY <2>1, <2>3, WorldParts
  <2>5. QED  BY <2>1, <2>2, <2>4, TaskPart, TaskSet
<1>9. CASE r.op = "set_folder_security"
  <2>1. r.on \in Folders /\ r.want \in Descriptors
    BY <1>9, RequestKinds DEF FolderOps
  <2>2. v = [w EXCEPT !.folders[r.on] = r.want]  BY <1>9 DEF Outcomes
  <2>3. QED  BY <2>1, <2>2, FolderSet
<1>10. CASE r.op = "stop_instance"
  <2>1. r.on \in Instances  BY <1>10, RequestKinds
  <2>2. v = [w EXCEPT !.instances[r.on] = "ended"]  BY <1>10 DEF Outcomes
  <2>3. QED  BY <2>1, <2>2, InstanceSet
<1>11. CASE r.op = "set_history_enabled"
  <2>1. r.want \in Switch  BY <1>11, RequestKinds
  <2>2. v = [w EXCEPT !.channel = r.want]  BY <1>11 DEF Outcomes
  <2>3. QED  BY <2>1, <2>2 DEF World
<1>12. QED
  BY <1>1, <1>2, <1>3, <1>4, <1>5, <1>6, <1>7, <1>8, <1>9, <1>10, <1>11
  DEF Outcomes, Registrations

LEMMA ChangesTyped ==
  ASSUME NEW w \in World, NEW v \in Changes(w)
  PROVE  v \in World
<1>1. ASSUME NEW t \in Tasks, NEW x \in TaskChanges(w, t),
             v = [w EXCEPT !.tasks[t] = x]
      PROVE  v \in World
  <2>1. CASE w.tasks[t] = Missing
    <3>1. x \in [xml : Definitions \ Rejected, enabled : {"on"},
                 security : Descriptors \ Rejected]
      BY <1>1, <2>1 DEF TaskChanges
    <3>2. x \in TaskValues  BY <3>1 DEF TaskValues, Switch
    <3>3. QED  BY <1>1, <3>2, TaskSet
  <2>2. CASE w.tasks[t] /= Missing
    <3>1. \/ x = Missing
          \/ \E d \in Definitions : x = [w.tasks[t] EXCEPT !.xml = d]
          \/ \E e \in Switch : x = [w.tasks[t] EXCEPT !.enabled = e]
          \/ \E d \in Descriptors : x = [w.tasks[t] EXCEPT !.security = d]
      <4>1. TaskChanges(w, t) =
              {Missing}
                \union {[w.tasks[t] EXCEPT !.xml = d] :
                          d \in Definitions \ Rejected}
                \union {[w.tasks[t] EXCEPT !.enabled = e] : e \in Switch}
                \union {[w.tasks[t] EXCEPT !.security = d] :
                          d \in Descriptors \ Rejected}
        BY <2>2, Zenon DEF TaskChanges
      <4>2. QED  BY <4>1
    <3>2. /\ \A d \in Definitions : [w.tasks[t] EXCEPT !.xml = d] \in TaskValues
          /\ \A e \in Switch : [w.tasks[t] EXCEPT !.enabled = e] \in TaskValues
          /\ \A d \in Descriptors :
               [w.tasks[t] EXCEPT !.security = d] \in TaskValues
      BY <2>2, TaskPart
    <3>3. x \in TaskValues \union {Missing}  BY <3>1, <3>2, Zenon
    <3>4. QED  BY <1>1, <3>3, TaskSet
  <2>3. QED  BY <2>1, <2>2
<1>2. ASSUME NEW f \in Folders, NEW x \in FolderChanges(w, f),
             v = [w EXCEPT !.folders[f] = x]
      PROVE  v \in World
  BY <1>2, FolderSet DEF FolderChanges
<1>3. ASSUME NEW i \in Instances, NEW x \in InstanceChanges(w, i),
             v = [w EXCEPT !.instances[i] = x]
      PROVE  v \in World
  BY <1>3, InstanceSet DEF InstanceChanges
<1>4. ASSUME NEW c \in Switch, v = [w EXCEPT !.channel = c]
      PROVE  v \in World
  BY <1>4 DEF World
<1>5. CASE v \in TaskActs(w)  BY <1>1, <1>5 DEF TaskActs
<1>6. CASE v \in FolderActs(w)  BY <1>2, <1>6 DEF FolderActs
<1>7. CASE v \in InstanceActs(w)  BY <1>3, <1>7 DEF InstanceActs
<1>8. CASE v \in ChannelActs(w)  BY <1>4, <1>8 DEF ChannelActs
<1>9. QED  BY <1>5, <1>6, <1>7, <1>8 DEF Changes

-----------------------------------------------------------------------------
(***************************************************************************)
(* What a native call answers.                                             *)
(***************************************************************************)
LEMMA Listed ==
  ASSUME NEW S, IsFiniteSet(S), NEW v \in Orders(S)
  PROVE  /\ v \in Seq(S)
         /\ \A x \in S : \E k \in DOMAIN v : v[k] = x
<1>1. Cardinality(S) \in Nat  BY FS_CardinalityType
<1>2. v \in [1..Cardinality(S) -> S] /\ {v[i] : i \in DOMAIN v} = S
  BY DEF Orders
<1>3. v \in Seq(S)  BY <1>1, <1>2
<1>4. QED  BY <1>2, <1>3

\* A property that is read from an object that exists.
LEMMA PropertyFound ==
  ASSUME NEW x, NEW y, NEW result \in Property(x, y)
  PROVE  /\ result.ok => x /= Missing /\ result.value = y
         /\ ~result.ok => x = Missing /\ result.value = "not_found"
BY DEF Property, Found, Error

LEMMA ReportedTrue ==
  ASSUME TypeInv, Handled, stage \in {"reading", "confirming"},
         NEW s \in Allowed(request, stage, past), s.call \in Reported,
         NEW result \in Results(s), result.ok
  PROVE  [call |-> s.call, on |-> s.on, value |-> result.value] \in Shown(past)
<1> DEFINE e == [call |-> s.call, on |-> s.on, value |-> result.value]
<1>1. /\ s.on \in Objects /\ world \in past
      /\ s.call \in OfTask => s.on \in Tasks
      /\ s.call \in OfFolder => s.on \in Folders
  BY DEF Allowed, Steps, Fits, TypeInv
<1>2. /\ \A t \in Tasks : world.tasks[t] \in TaskValues \union {Missing}
      /\ \A f \in Folders : world.folders[f] \in Descriptors \union {Missing}
      /\ world.channel \in Switch
  BY WorldParts DEF TypeInv
<1>3. SUFFICES result.value \in Values /\ \E w \in past : Shows(w, e)
  BY <1>1 DEF Shown, Entries
<1>4. CASE s.call = "enabled"
  <2>1. s.on \in Tasks  BY <1>1, <1>4 DEF OfTask
  <2>2. world.tasks[s.on] /= Missing
        /\ result.value = world.tasks[s.on].enabled
    BY <1>4, PropertyFound DEF Results
  <2>3. result.value \in Values
    BY <1>2, <2>1, <2>2 DEF TaskValues, Values
  <2>4. QED  BY <1>1, <1>4, <2>2, <2>3 DEF Shows
<1>5. CASE s.call = "xml"
  <2>1. s.on \in Tasks  BY <1>1, <1>5 DEF OfTask
  <2>2. world.tasks[s.on] /= Missing /\ result.value = world.tasks[s.on].xml
    BY <1>5, PropertyFound DEF Results
  <2>3. result.value \in Values
    BY <1>2, <2>1, <2>2 DEF TaskValues, Values, Objects
  <2>4. QED  BY <1>1, <1>5, <2>2, <2>3 DEF Shows
<1>6. CASE s.call = "task_security"
  <2>1. s.on \in Tasks  BY <1>1, <1>6 DEF OfTask
  <2>2. world.tasks[s.on] /= Missing
        /\ result.value = world.tasks[s.on].security
    BY <1>6, PropertyFound DEF Results
  <2>3. result.value \in Values
    BY <1>2, <2>1, <2>2 DEF TaskValues, Values
  <2>4. QED  BY <1>1, <1>6, <2>2, <2>3 DEF Shows
<1>7. CASE s.call = "folder_security"
  <2>1. s.on \in Folders  BY <1>1, <1>7 DEF OfFolder
  <2>2. result.value = world.folders[s.on] /\ world.folders[s.on] /= Missing
    BY <1>7, PropertyFound DEF Results
  <2>3. result.value \in Values  BY <1>2, <2>1, <2>2 DEF Values
  <2>4. QED  BY <1>1, <1>7, <2>2, <2>3 DEF Shows
<1>8. CASE s.call = "child"
  <2>1. result.value = s.on  BY <1>8 DEF Results, Found
  <2>2. \E w \in past : w.folders[s.on] /= Missing
    BY <1>8 DEF Allowed, Fits
  <2>3. QED  BY <1>1, <1>8, <2>1, <2>2 DEF Shows, Values
<1>9. CASE s.call = "instance"
  <2>1. result.value = s.on
    BY <1>9 DEF Results, Present, Found, Error
  <2>2. \E w \in past : s.on \in Running(w)  BY <1>9 DEF Allowed, Fits
  <2>3. QED  BY <1>1, <1>9, <2>1, <2>2 DEF Shows, Values
<1>10. CASE s.call = "instance_id"
  <2>1. /\ stage = "confirming" /\ request.op = "run"
        /\ s.on = request.on
    BY <1>10 DEF Allowed, Fits, Single, Near, OfTask
  <2>2. result.value = output[1].value
    BY <1>10 DEF Results, Present, Found, Error, Launched
  <2>3. output /= <<>> /\ output[1].call = "launched"
        /\ output[1].on = request.on
    BY <2>1 DEF Handled
  <2>4. output[1] \in Shown(past)
    BY <2>3, HeadTailProperties DEF TypeInv
  <2>5. output[1].value \in Values /\ \E w \in past : Shows(w, output[1])
    BY <2>4 DEF Shown, Entries
  <2>6. QED  BY <1>10, <2>1, <2>2, <2>3, <2>5 DEF Shows
<1>11. CASE s.call = "channel"
  <2>1. result.value = world.channel
    BY <1>11 DEF Results, Channel, Found, Error
  <2>2. QED  BY <1>1, <1>2, <1>11, <2>1 DEF Shows, Values
<1>12. QED
  BY <1>4, <1>5, <1>6, <1>7, <1>8, <1>9, <1>10, <1>11 DEF Reported

\* What is not found was not there.
LEMMA NotFoundTrue ==
  ASSUME TypeInv, Serving, Single(request),
         NEW s \in Allowed(request, stage, past),
         NEW result \in Results(s), ~result.ok, result.value = "not_found",
         ~Tolerated(s, "not_found")
  PROVE  Absent(world, request)
<1>1. Near(s, request)  BY DEF Allowed, Fits
<1>2. s.call \in OfTask \union OfFolder \union OfService
  BY DEF Allowed, Steps
<1>3. CASE s.call \in {"task", "enabled", "xml", "task_security"}
  <2>1. world.tasks[s.on] = Missing
    BY <1>3, PropertyFound DEF Results
  <2>2. s.on = request.on /\ s.on \in Tasks
    BY <1>1, <1>3 DEF Near, OfTask, Allowed, Fits
  <2>3. QED  BY <2>1, <2>2, TreeAssumption DEF Absent
<1>4. CASE s.call \in {"folder", "folder_security"}
  <2>0. ~(request.op = "doctor" /\ s.call = "folder")  BY DEF Tolerated
  <2>1. world.folders[s.on] = Missing
    BY <1>4, PropertyFound DEF Results
  <2>2. s.call \in OfFolder  BY <1>4 DEF OfFolder
  <2>3. CASE request.on \in Tasks
    <3>1. s.on = FolderOf[request.on]
      BY <1>1, <2>0, <2>2, <2>3, TreeAssumption DEF Near
    <3>2. QED  BY <2>1, <2>3, <3>1, TreeAssumption DEF Absent
  <2>4. CASE request.on \notin Tasks
    <3>1. /\ request.on \in Folders /\ request.on \notin Instances
          /\ \/ s.on = request.on
             \/ request.on /= Root /\ s.on = Parent[request.on]
      BY <1>1, <2>0, <2>2, <2>4, TreeAssumption DEF Near
    <3>2. QED  BY <2>1, <2>4, <3>1 DEF Absent
  <2>5. QED  BY <2>3, <2>4
<1>5. CASE s.call \in {"tasks", "folders"}
  BY <1>1, <1>5, TreeAssumption DEF Near, OfFolder, OfTask
<1>6. CASE s.call \in {"instance", "instance_id", "engine_pid"}
  BY <1>6 DEF Results, Present, Found, Error
<1>7. CASE s.call \in {"probe", "channel", "configuration", "query"}
  BY <1>7 DEF Results, Channel, Found, Error
<1>8. CASE s.call \in {"new_task", "arguments", "running"}
  BY <1>8 DEF Results, Found, Error
<1>9. CASE s.call \in {"child", "item", "connection", "version", "account",
                       "proxy"}
  BY <1>9 DEF Results, Found, Error
<1>10. QED
  BY <1>2, <1>3, <1>4, <1>5, <1>6, <1>7, <1>8, <1>9
  DEF OfTask, OfFolder, OfService

\* The calls that walk a collection, one for each of its items.
LEMMA EachAllowed ==
  ASSUME NEW S, NEW v \in Seq(S), NEW call, NEW A,
         \A x \in S : Native(call, x) \in A
  PROVE  /\ Each(call, v) \in Seq(A)
         /\ DOMAIN Each(call, v) = DOMAIN v
         /\ \A k \in DOMAIN v : Each(call, v)[k] = Native(call, v[k])
<1>1. /\ Len(v) \in Nat /\ DOMAIN v = 1..Len(v)
      /\ \A k \in 1..Len(v) : v[k] \in S
  BY LenProperties, ElementOfSeq
<1>2. Each(call, v) \in [1..Len(v) -> A]  BY <1>1 DEF Each
<1>3. QED  BY <1>1, <1>2 DEF Each

LEMMA ExpansionAllowed ==
  ASSUME TypeInv, stage \in {"reading", "confirming"},
         NEW s \in Allowed(request, stage, past),
         NEW result \in Results(s), result.ok
  PROVE  Expansion(s, result.value) \in Seq(Allowed(request, stage, past))
<1> DEFINE A == Allowed(request, stage, past)
<1>1. /\ world \in past /\ s.call \in OfTask \union OfFolder \union OfService
      /\ s.call \in OfFolder => s.on \in Folders
      /\ s.call \in OfTask => s.on \in Tasks
      /\ Single(request) => Near(s, request)
  BY DEF Allowed, Steps, Fits, TypeInv
<1>2. s.call \in {"tasks", "folders", "child"} => ~Single(request)
  BY <1>1, TreeAssumption DEF Near, OfFolder, OfTask
<1>3. s.call \in {"tasks", "folders", "child", "item", "running"} =>
        Reads(request, stage)
  BY DEF Allowed, Fits, Reads
<1>4. CASE s.call = "tasks"
  <2>1. s.on \in Folders  BY <1>1, <1>4 DEF OfFolder
  <2>2. result.value \in Orders(TasksIn(world, s.on))
    BY <1>4 DEF Results, Collection, Found, Error
  <2>3. IsFiniteSet(TasksIn(world, s.on))
    BY TreeAssumption, FS_Subset DEF TasksIn
  <2>4. result.value \in Seq(TasksIn(world, s.on))  BY <2>2, <2>3, Listed
  <2>5. \A t \in TasksIn(world, s.on) : Native("item", t) \in A
    BY <1>2, <1>3, <1>4
    DEF TasksIn, Allowed, Steps, Fits, Native, Objects, OfTask, OfFolder, Reads
  <2>6. Each("item", result.value) \in Seq(A)  BY <2>4, <2>5, EachAllowed
  <2>7. Native("folders", s.on) \in A
    BY <1>2, <1>3, <1>4, <2>1
    DEF Allowed, Steps, Fits, Native, Objects, OfTask, OfFolder, Reads
  <2>8. AfterTasks(s.on) \in Seq(A)  BY <2>7 DEF AfterTasks
  <2>9. Each("item", result.value) \o AfterTasks(s.on) \in Seq(A)
    BY <2>6, <2>8, ConcatProperties
  <2>10. QED  BY <1>4, <2>9 DEF Expansion
<1>5. CASE s.call = "folders"
  <2>1. result.value \in Orders(Children(world, s.on))
    BY <1>5 DEF Results, Collection, Found, Error
  <2>2. IsFiniteSet(Children(world, s.on))
    BY TreeAssumption, FS_Subset DEF Children
  <2>3. result.value \in Seq(Children(world, s.on))  BY <2>1, <2>2, Listed
  <2>4. \A f \in Children(world, s.on) : Native("child", f) \in A
    BY <1>1, <1>2, <1>3, <1>5
    DEF Children, Allowed, Steps, Fits, Native, Objects, OfTask, OfFolder,
        Reads
  <2>5. QED  BY <1>5, <2>3, <2>4, EachAllowed DEF Expansion
<1>6. CASE s.call = "item"
  <2>1. s.on \in Tasks /\ (Single(request) => request.on = s.on)
    BY <1>1, <1>6 DEF Near, OfTask
  <2>2. TaskInfo(s.on) \in Seq(A)  BY <1>3, <1>6, <2>1, TaskInfoAllowed
  <2>3. QED  BY <1>6, <2>2 DEF Expansion
<1>7. CASE s.call = "child" /\ Recursive
  <2>1. s.on \in Folders /\ ~Single(request)
    BY <1>1, <1>2, <1>7 DEF OfFolder
  <2>2. OpenFolder(s.on) \in Seq(A)
    BY <1>3, <1>7, <2>1, OpenFolderAllowed
  <2>3. Native("tasks", s.on) \in A /\ Native("folders", s.on) \in A
    BY <1>3, <1>7, <2>1
    DEF Allowed, Steps, Fits, Native, Objects, OfTask, OfFolder, Reads
  <2>4. <<Native("tasks", s.on)>> \in Seq(A)
        /\ <<Native("folders", s.on)>> \in Seq(A)
    BY <2>3
  <2>5. Visit(s.on) \in Seq(A)
    BY <2>2, <2>4, ConcatProperties DEF Visit, ListTasks, ListFolders
  <2>6. QED  BY <1>7, <2>5 DEF Expansion
<1>8. CASE s.call = "running"
  <2>1. result.value \in Orders(Running(world))  BY <1>8 DEF Results, Found
  <2>2. IsFiniteSet(Running(world))
    BY TreeAssumption, FS_Subset DEF Running
  <2>3. result.value \in Seq(Running(world))  BY <2>1, <2>2, Listed
  <2>4. \A i \in Running(world) : Native("instance", i) \in A
    <3> SUFFICES ASSUME NEW i \in Running(world)
                 PROVE  Native("instance", i) \in A
      OBVIOUS
    <3>1. i \in Instances /\ i \in Objects  BY DEF Running, Objects
    <3>2. \E w \in past : i \in Running(w)  BY <1>1
    <3>3. QED
      BY <1>3, <1>8, <3>1, <3>2
      DEF Allowed, Steps, Fits, Near, Native, OfTask, OfFolder, OfService,
          Reads
  <2>5. QED  BY <1>8, <2>3, <2>4, EachAllowed DEF Expansion
<1>9. CASE /\ s.call \notin {"tasks", "folders", "item", "running"}
           /\ ~(s.call = "child" /\ Recursive)
  <2>1. Expansion(s, result.value) = <<>>  BY <1>9 DEF Expansion
  <2>2. QED  BY <2>1
<1>10. QED  BY <1>4, <1>5, <1>6, <1>7, <1>8, <1>9

\* A mutation that the service refuses because something does not exist.
LEMMA RefusalTrue ==
  ASSUME NEW r \in AllRequests, r.op \in Mutations, world \in World,
         RefusedAtOnce(r) = "none",
         Outcomes(r, world) = {}, Refusal(r) = "not_found"
  PROVE  Absent(world, r)
<1>1. CASE r.op \in {"delete_task", "set_enabled", "stop_all", "run",
                     "set_task_security"}
  <2>1. r.on \in Tasks  BY <1>1, RequestKinds DEF TaskOps
  <2>2. ~Exists(world, r.on)  BY <1>1 DEF Outcomes, Refusal
  <2>3. QED  BY <2>1, <2>2, TreeAssumption DEF Exists, Absent
<1>2. CASE r.op \in Registrations
  <2>1. r.on \in Tasks /\ r.want \in Definitions
    BY <1>2, RequestKinds DEF TaskOps
  <2>2. ~Registrable(r, world)
    BY <1>2, <2>1, RegisteredTyped DEF Outcomes, Registrations
  <2>3. ~(r.option = "create" /\ Exists(world, r.on))
    BY <1>2 DEF Refusal, Registrations
  <2>4. world.folders[FolderOf[r.on]] = Missing \/ ~Exists(world, r.on)
    BY <2>2, <2>3 DEF Registrable
  <2>5. QED  BY <2>1, <2>4, TreeAssumption DEF Exists, Absent
<1>3. CASE r.op \in {"create_folder", "delete_folder", "set_folder_security"}
  <2>1. r.on \in Folders /\ r.on \notin Tasks /\ r.on \notin Instances
    BY <1>3, RequestKinds, TreeAssumption DEF FolderOps
  <2>2. CASE r.op = "create_folder"
    <3>1. ~Exists(world, Parent[r.on])  BY <2>2 DEF Refusal
    <3>2. r.on \in Folders \ {Root}  BY <2>1, <2>2 DEF RefusedAtOnce
    <3>3. Parent[r.on] \in Folders /\ Parent[r.on] \notin Tasks
      BY <3>2, TreeAssumption
    <3>4. world.folders[Parent[r.on]] = Missing  BY <3>1, <3>3 DEF Exists
    <3>5. QED  BY <2>1, <3>2, <3>4 DEF Absent
  <2>3. CASE r.op \in {"delete_folder", "set_folder_security"}
    <3>1. ~Exists(world, r.on)  BY <2>3 DEF Outcomes, Refusal
    <3>2. QED  BY <2>1, <3>1 DEF Exists, Absent
  <2>4. QED  BY <1>3, <2>2, <2>3
<1>4. CASE r.op = "stop_instance"  BY <1>4 DEF Refusal
<1>5. CASE r.op = "set_history_enabled"
  BY <1>5 DEF Outcomes
<1>6. QED
  BY <1>1, <1>2, <1>3, <1>4, <1>5 DEF Mutations, Registrations

-----------------------------------------------------------------------------
(***************************************************************************)
(* The invariant.                                                          *)
(***************************************************************************)
NeedlessNow(w, r) ==
  IF r.on \in Tasks
  THEN w.tasks[r.on] /= Missing /\ w.tasks[r.on].security = r.want
  ELSE w.folders[r.on] = r.want

\* An answer ends the call; it has to be true.
LEMMA Answering ==
  ASSUME NEW status, NEW kind, NEW committed, Answer(status, kind, committed),
         world' \in World, world' \in past', output' \in Seq(Shown(past')),
         kind = "unneeded" => \E w \in past' : NeedlessNow(w, request'),
         kind = "not_found" /\ Single(request') =>
           \E w \in past' : Absent(w, request')
  PROVE  Inv'
<1>1. stage' = "answered" /\ reply'.status = status /\ reply'.kind = kind
  BY DEF Answer
<1>2. \A k \in DOMAIN output' : \E w \in past' : Shows(w, output'[k])
  <2> SUFFICES ASSUME NEW k \in DOMAIN output'
               PROVE  \E w \in past' : Shows(w, output'[k])
    OBVIOUS
  <2>1. k \in 1..Len(output')  BY LenProperties
  <2>2. output'[k] \in Shown(past')  BY <2>1, ElementOfSeq
  <2>3. QED  BY <2>2 DEF Shown
<1>3. AnswersTrue'
  BY <1>1, <1>2 DEF AnswersTrue, NeedlessNow, Single
<1>4. QED
  BY <1>1, <1>3 DEF Inv, TypeInv, Serving, Handled, Counted, Seeking

LEMMA InitInv ==
  ASSUME Init
  PROVE  Inv
<1>1. output \in Seq(Shown(past))  BY DEF Init
<1>2. world \in World  BY WorldsAssumption DEF Init
<1>3. QED
  BY <1>1, <1>2
  DEF Init, Inv, TypeInv, Serving, Handled, Counted, Seeking, AnswersTrue

LEMMA ConnectInv ==
  ASSUME Inv, Connect
  PROVE  Inv'
<1>1. /\ world' = world /\ past' = past /\ output' = output
      /\ request' = request /\ effects' = effects
      /\ world \in World /\ world \in past /\ output \in Seq(Shown(past))
  BY DEF Inv, TypeInv, Connect
<1>2. CASE stage' = "idle"
  BY <1>1, <1>2
  DEF Inv, TypeInv, Serving, Handled, Counted, Seeking, AnswersTrue, Connect
<1>3. CASE Answer("error", "failed", FALSE)  BY <1>1, <1>3, Answering
<1>4. QED  BY <1>2, <1>3 DEF Connect

LEMMA BeginInv ==
  ASSUME Inv, Begin
  PROVE  Inv'
<1>1. /\ world' = world /\ past' = past /\ output' = output
      /\ effects' = effects /\ stage = "idle"
      /\ world \in World /\ world \in past /\ output \in Seq(Shown(past))
  BY DEF Inv, TypeInv, Begin
<1>2. PICK r \in AllRequests :
        /\ request' = r
        /\ IF RefusedAtOnce(r) /= "none"
           THEN Answer("error", RefusedAtOnce(r), FALSE)
           ELSE /\ stage' = "reading" /\ todo' = Reading(r)
                /\ UNCHANGED reply
  BY DEF Begin
<1>3. CASE RefusedAtOnce(r) /= "none"
  <2>1. RefusedAtOnce(r) \notin {"unneeded", "not_found"}
    BY DEF RefusedAtOnce
  <2>2. Answer("error", RefusedAtOnce(r), FALSE)  BY <1>2, <1>3
  <2>3. QED  BY <1>1, <2>1, <2>2, Answering
<1>4. CASE RefusedAtOnce(r) = "none"
  <2>1. stage' = "reading" /\ todo' = Reading(r)  BY <1>2, <1>4
  <2>2. todo' \in Seq(Allowed(request', stage', past'))
    BY <1>2, <1>4, <2>1, ReadingAllowed
  <2>3. TypeInv'  BY <1>1, <1>2, <1>4, <2>1, <2>2 DEF TypeInv, Serving
  <2>4. Seeking'
    <3>1. r.op = "stop_instance" => todo' = <<Native("running", Missing)>>
      BY <2>1 DEF Reading
    <3>2. r.op = "stop_instance" =>
            1 \in DOMAIN todo' /\ todo'[1].call = "running"
      BY <3>1 DEF Native
    <3>3. QED  BY <1>2, <3>2 DEF Seeking, Sought
  <2>5. Handled' /\ Counted' /\ AnswersTrue'
    BY <1>1, <2>1 DEF Inv, Handled, Counted, AnswersTrue
  <2>6. QED  BY <2>3, <2>4, <2>5 DEF Inv
<1>5. QED  BY <1>3, <1>4

\* What is left to do, behind what an answer has added.
LEMMA Continuing ==
  ASSUME NEW A, NEW q \in Seq(A), q /= <<>>, NEW e \in Seq(A)
  PROVE  /\ Head(q) \in A /\ Head(q) = q[1] /\ Tail(q) \in Seq(A)
         /\ e \o Tail(q) \in Seq(A)
         /\ \A k \in DOMAIN e : k \in DOMAIN (e \o Tail(q))
                                  /\ (e \o Tail(q))[k] = e[k]
<1> DEFINE t == e \o Tail(q)
<1>1. /\ Head(q) \in A /\ Head(q) = q[1] /\ Tail(q) \in Seq(A)
      /\ Len(q) \in Nat /\ Len(e) \in Nat
      /\ Len(Tail(q)) = Len(q) - 1 /\ Len(q) >= 1
  BY HeadTailProperties, LenProperties, EmptySeq
<1>2. /\ t \in Seq(A) /\ Len(t) = Len(e) + Len(Tail(q))
      /\ \A i \in 1..(Len(e) + Len(Tail(q))) :
           t[i] = IF i <= Len(e) THEN e[i] ELSE Tail(q)[i - Len(e)]
  BY <1>1, ConcatProperties
<1>3. DOMAIN e = 1..Len(e) /\ DOMAIN t = 1..Len(t)
  BY <1>2, LenProperties
<1>4. ASSUME NEW k \in DOMAIN e PROVE k \in DOMAIN t /\ t[k] = e[k]
  BY <1>1, <1>2, <1>3
<1>5. QED  BY <1>1, <1>2, <1>4

\* A step that was behind the first one stays.
LEMMA Staying ==
  ASSUME NEW A, NEW q \in Seq(A), q /= <<>>, NEW e \in Seq(A),
         NEW k \in DOMAIN q, k /= 1
  PROVE  \E j \in DOMAIN (e \o Tail(q)) : (e \o Tail(q))[j] = q[k]
<1> DEFINE t == e \o Tail(q)
           j == Len(e) + (k - 1)
<1>1. /\ Tail(q) \in Seq(A) /\ Len(q) \in Nat /\ Len(e) \in Nat
      /\ Len(q) >= 1 /\ Len(Tail(q)) = Len(q) - 1
      /\ \A i \in 1..Len(Tail(q)) : Tail(q)[i] = q[i + 1]
  BY HeadTailProperties, LenProperties, EmptySeq
<1>2. /\ t \in Seq(A) /\ Len(t) = Len(e) + Len(Tail(q))
      /\ \A i \in 1..(Len(e) + Len(Tail(q))) :
           t[i] = IF i <= Len(e) THEN e[i] ELSE Tail(q)[i - Len(e)]
  BY <1>1, ConcatProperties
<1>3. DOMAIN q = 1..Len(q) /\ DOMAIN t = 1..Len(t)
  BY <1>2, LenProperties
<1>4. j \in DOMAIN t /\ j > Len(e) /\ j - Len(e) = k - 1
  BY <1>1, <1>2, <1>3
<1>5. t[j] = Tail(q)[k - 1]  BY <1>1, <1>2, <1>3, <1>4
<1>6. Tail(q)[k - 1] = q[k]  BY <1>1, <1>3
<1>7. t[j] = q[k]  BY <1>5, <1>6
<1>8. QED  BY <1>4, <1>7, Zenon

\* What a reading step leaves alone.
Unmoved ==
  /\ world' = world /\ past' = past /\ request' = request
  /\ effects' = effects

LEMMA ProceedInv ==
  ASSUME Inv, stage \in {"reading", "confirming"}, todo /= <<>>, Unmoved,
         NEW result \in Results(Head(todo)), result.ok,
         Proceed(Head(todo), result.value)
  PROVE  Inv'
<1> DEFINE A == Allowed(request, stage, past)
           s == Head(todo)
           v == result.value
           e == Expansion(s, v)
<1>1. /\ world \in World /\ world \in past /\ output \in Seq(Shown(past))
      /\ todo \in Seq(A) /\ request \in AllRequests
      /\ RefusedAtOnce(request) = "none"
  BY DEF Inv, TypeInv, Serving
<1>2. s \in A  BY <1>1, HeadTailProperties
<1>3. CASE Unneeded(s, v)
  <2>1. s.call \in SecurityReads /\ v = request.want
        /\ request.op \in {"set_task_security", "set_folder_security"}
    BY <1>3 DEF Unneeded, Comparing
  <2>2. Near(s, request)  BY <1>2, <2>1 DEF Allowed, Fits, Single
  <2>3. NeedlessNow(world, request)
    <3>1. CASE s.call = "task_security"
      <4>1. s.on = request.on /\ s.on \in Tasks
        BY <1>2, <2>2, <3>1 DEF Near, OfTask, Allowed, Fits
      <4>2. world.tasks[s.on] /= Missing /\ v = world.tasks[s.on].security
        BY <3>1, PropertyFound DEF Results
      <4>3. QED  BY <2>1, <4>1, <4>2 DEF NeedlessNow
    <3>2. CASE s.call = "folder_security"
      <4>1. s.on = request.on /\ request.on \notin Tasks
        BY <2>1, <2>2, <3>2, TreeAssumption DEF Near, OfFolder
      <4>2. v = world.folders[s.on]  BY <3>2, PropertyFound DEF Results
      <4>3. QED  BY <2>1, <4>1, <4>2 DEF NeedlessNow
    <3>3. QED  BY <2>1, <3>1, <3>2 DEF SecurityReads
  <2>4. Answer("ok", "unneeded", FALSE) /\ output' = output
    BY <1>3 DEF Proceed
  <2>5. \E w \in past' : NeedlessNow(w, request')
    BY <1>1, <2>3 DEF Unmoved
  <2>6. QED  BY <1>1, <2>4, <2>5, Answering DEF Unmoved
<1>4. CASE ~Unneeded(s, v)
  <2>1. /\ stage' = IF Match(s, v) THEN "mutating" ELSE stage
        /\ todo' = IF Match(s, v) THEN <<>> ELSE e \o Tail(todo)
        /\ output' = IF s.call \in Reported
                     THEN Append(output, [call |-> s.call, on |-> s.on,
                                          value |-> v])
                     ELSE output
    BY <1>4 DEF Proceed
  <2>2. output' \in Seq(Shown(past'))
    <3>1. s.call \in Reported =>
            [call |-> s.call, on |-> s.on, value |-> v] \in Shown(past)
      BY <1>2, ReportedTrue DEF Inv
    <3>2. QED  BY <1>1, <2>1, <3>1, AppendProperties DEF Unmoved
  <2>3. e \in Seq(A)  BY <1>2, ExpansionAllowed DEF Inv
  <2>4. e \o Tail(todo) \in Seq(A)  BY <1>1, <2>3, Continuing
  <2>5. stage = "confirming" => ~Match(s, v)
    BY <1>2 DEF Match, Allowed, Fits, Registrations
  <2>6. TypeInv'
    <3>1. todo' \in Seq(Allowed(request', stage', past'))
      <4>1. CASE Match(s, v)
        BY <2>1, <4>1, EmptySeq
      <4>2. CASE ~Match(s, v)
        <5>1. Allowed(request', stage', past') = A
          BY <2>1, <4>2 DEF Unmoved
        <5>2. QED  BY <2>1, <2>4, <4>2, <5>1
      <4>3. QED  BY <4>1, <4>2
    <3>2. stage' \in {"mutating", "confirming"} => request'.op \in Mutations
      BY <2>1 DEF Inv, TypeInv, Unmoved, Match, Mutations
    <3>3. QED
      BY <1>1, <2>1, <2>2, <3>1, <3>2 DEF TypeInv, Serving, Unmoved
  <2>7. Handled'
    <3>1. SUFFICES ASSUME stage = "confirming", request.op = "run"
                   PROVE  /\ output' /= <<>> /\ output'[1] = output[1]
                          /\ output[1].call = "launched"
                          /\ output[1].on = request.on
      BY <2>1 DEF Handled, Unmoved
    <3>2. output /= <<>> /\ output[1].call = "launched"
          /\ output[1].on = request.on
      BY <3>1 DEF Inv, Handled
    <3>3. Len(output) \in Nat /\ Len(output) >= 1
      BY <1>1, <3>2, EmptySeq
    <3>4. ASSUME NEW x \in Shown(past), output' = Append(output, x)
          PROVE  output' /= <<>> /\ output'[1] = output[1]
      BY <1>1, <3>3, <3>4, AppendProperties
    <3>5. s.call \in Reported =>
            [call |-> s.call, on |-> s.on, value |-> v] \in Shown(past)
      BY <1>2, ReportedTrue DEF Inv
    <3>6. QED  BY <2>1, <3>2, <3>4, <3>5
  <2>8. Counted'
    BY <2>1, <2>5 DEF Inv, Counted, Unmoved
  <2>9. Seeking'
    <3>1. SUFFICES ASSUME stage = "reading", request.op = "stop_instance",
                          ~Match(s, v)
                   PROVE  Sought'
      BY <2>1 DEF Seeking, Unmoved
    <3>2. todo' = e \o Tail(todo)  BY <2>1, <3>1
    <3>3. /\ Sought
          /\ \A k \in DOMAIN todo :
               k = 1 \/ \E j \in DOMAIN todo' : todo'[j] = todo[k]
      <4>1. Sought  BY <3>1 DEF Inv, Seeking
      <4>2. todo \in Seq(A) /\ e \in Seq(A) /\ todo /= <<>>
        BY <1>1, <2>3
      <4>3. \A k \in DOMAIN todo :
              k = 1 \/ \E j \in DOMAIN todo' : todo'[j] = todo[k]
        <5> SUFFICES ASSUME NEW k \in DOMAIN todo, k /= 1
                     PROVE  \E j \in DOMAIN todo' : todo'[j] = todo[k]
          OBVIOUS
        <5>1. \E j \in DOMAIN (e \o Tail(todo)) :
                (e \o Tail(todo))[j] = todo[k]
          BY <4>2, Staying, Zenon
        <5>2. QED  BY <3>2, <5>1, Zenon
      <4>4. QED  BY <4>1, <4>3
    <3>4. CASE \E w \in past : request.on \notin Running(w)
      BY <3>4 DEF Sought, Unmoved
    <3>5. CASE \E k \in DOMAIN todo : todo[k].call = "running"
      <4>1. PICK k \in DOMAIN todo : todo[k].call = "running"  BY <3>5
      <4>2. CASE k /= 1
        <5>1. \E j \in DOMAIN todo' : todo'[j] = todo[k]
          BY <3>3, <4>2
        <5>2. QED  BY <4>1, <5>1 DEF Sought
      <4>3. CASE k = 1
        <5>1. s.call = "running"  BY <1>1, <2>3, <4>1, <4>3, Continuing
        <5>2. v \in Orders(Running(world)) /\ e = Each("instance", v)
          BY <5>1 DEF Results, Found, Expansion
        <5>3. IsFiniteSet(Running(world))
          BY TreeAssumption, FS_Subset DEF Running
        <5>4. v \in Seq(Running(world))
              /\ \A x \in Running(world) : \E j \in DOMAIN v : v[j] = x
          BY <5>2, <5>3, Listed
        <5>5. CASE request.on \in Running(world)
          <6>1. PICK j \in DOMAIN v : v[j] = request.on  BY <5>4, <5>5
          <6>2. DOMAIN e = DOMAIN v /\ e[j] = Native("instance", v[j])
            BY <5>2 DEF Each
          <6>3. j \in DOMAIN todo' /\ todo'[j] = Native("instance", request.on)
            BY <1>1, <2>3, <3>2, <6>1, <6>2, Continuing
          <6>4. QED  BY <6>3 DEF Sought, Native, Unmoved
        <5>6. CASE request.on \notin Running(world)
          BY <1>1, <5>6 DEF Sought, Unmoved
        <5>7. QED  BY <5>5, <5>6
      <4>4. QED  BY <4>2, <4>3
    <3>6. CASE \E k \in DOMAIN todo :
                 todo[k].call = "instance" /\ todo[k].on = request.on
      <4>1. PICK k \in DOMAIN todo :
              todo[k].call = "instance" /\ todo[k].on = request.on
        BY <3>6
      <4>2. CASE k /= 1
        <5>1. \E j \in DOMAIN todo' : todo'[j] = todo[k]
          BY <3>3, <4>2
        <5>2. QED  BY <4>1, <5>1 DEF Sought, Unmoved
      <4>3. CASE k = 1
        <5>1. s.call = "instance" /\ s.on = request.on
          BY <1>1, <2>3, <4>1, <4>3, Continuing
        <5>2. v = request.on
          BY <5>1 DEF Results, Present, Found, Error
        <5>3. QED  BY <3>1, <5>1, <5>2 DEF Match
      <4>4. QED  BY <4>2, <4>3
    <3>7. QED  BY <3>3, <3>4, <3>5, <3>6 DEF Sought
  <2>10. AnswersTrue'
    BY <2>1 DEF AnswersTrue
  <2>11. QED  BY <2>6, <2>7, <2>8, <2>9, <2>10 DEF Inv
<1>5. QED  BY <1>3, <1>4

LEMMA ErrorKinds ==
  ASSUME NEW s \in Steps, NEW result \in Results(s), ~result.ok
  PROVE  result.value \in {"not_found", "ended", "failed", "invalid"}
<1>1. CASE s.call \in {"task", "enabled", "xml", "task_security", "folder",
                       "folder_security"}
  BY <1>1, PropertyFound DEF Results
<1>2. CASE s.call \in {"tasks", "folders"}
  BY <1>2 DEF Results, Collection, Found, Error
<1>3. CASE s.call \in {"instance", "instance_id", "engine_pid"}
  BY <1>3 DEF Results, Present, Found, Error
<1>4. CASE s.call \in {"probe", "channel", "configuration", "query"}
  BY <1>4 DEF Results, Channel, Found, Error
<1>5. CASE s.call \in {"new_task", "arguments", "running"}
  BY <1>5 DEF Results, Found, Error
<1>6. CASE s.call \in {"child", "item", "connection", "version", "account",
                       "proxy"}
  BY <1>6 DEF Results, Found, Error
<1>7. QED
  BY <1>1, <1>2, <1>3, <1>4, <1>5, <1>6
  DEF Steps, OfTask, OfFolder, OfService

\* How a native call can fail: with an error of the service, or not at all
\* related to what was asked.
Failure(s, kind) ==
  \/ kind \in {"failed", "denied"}
  \/ \E result \in Results(s) : ~result.ok /\ result.value = kind

LEMMA FailInv ==
  ASSUME Inv, stage \in {"reading", "confirming"}, todo /= <<>>, Unmoved,
         NEW kind, Failure(Head(todo), kind), Fail(Head(todo), kind)
  PROVE  Inv'
<1> DEFINE A == Allowed(request, stage, past)
           s == Head(todo)
<1>1. /\ world \in World /\ world \in past /\ output \in Seq(Shown(past))
      /\ todo \in Seq(A) /\ request \in AllRequests
      /\ RefusedAtOnce(request) = "none"
  BY DEF Inv, TypeInv, Serving
<1>2. s \in A /\ s = todo[1] /\ Tail(todo) \in Seq(A) /\ s \in Steps
  BY <1>1, HeadTailProperties DEF Allowed
<1>3. output' = output  BY DEF Fail
<1>4. CASE Tolerated(s, kind) /\ todo' = Tail(todo)
             /\ UNCHANGED <<stage, reply>>
  <2>1. TypeInv'
    BY <1>1, <1>2, <1>3, <1>4 DEF Inv, TypeInv, Serving, Unmoved
  <2>2. Handled' /\ Counted' /\ AnswersTrue'
    BY <1>3, <1>4 DEF Inv, Handled, Counted, AnswersTrue, Unmoved
  <2>3. Seeking'
    <3>1. SUFFICES ASSUME stage = "reading", request.op = "stop_instance"
                   PROVE  Sought'
      BY <1>4 DEF Seeking, Unmoved
    <3>2. s.call \notin {"running", "instance"}
      BY <1>4, <3>1 DEF Tolerated
    <3>3. ASSUME NEW k \in DOMAIN todo, k /= 1
          PROVE  \E j \in DOMAIN todo' : todo'[j] = todo[k]
      <4>1. <<>> \o Tail(todo) = Tail(todo) /\ <<>> \in Seq(A)
        BY <1>2, ConcatEmptySeq, EmptySeq
      <4>2. \E j \in DOMAIN (<<>> \o Tail(todo)) :
              (<<>> \o Tail(todo))[j] = todo[k]
        BY <1>1, <3>3, <4>1, Staying, Zenon
      <4>3. QED  BY <1>4, <4>1, <4>2, Zenon
    <3>4. Sought  BY <3>1 DEF Inv, Seeking
    <3>5. QED  BY <1>2, <3>2, <3>3, <3>4 DEF Sought, Unmoved
  <2>4. QED  BY <2>1, <2>2, <2>3 DEF Inv
<1>5. CASE Comparing /\ kind = "denied" /\ todo' = Reopen
             /\ UNCHANGED <<stage, reply>>
  <2>1. request.op \in {"set_task_security", "set_folder_security"}
    BY <1>5 DEF Comparing
  <2>2. stage = "reading"
    <3>1. PICK i \in DOMAIN todo : todo[i].call \in SecurityReads
      BY <1>5 DEF Comparing
    <3>2. todo[i] \in A  BY <1>1, <3>1, LenProperties, ElementOfSeq
    <3>3. QED
      BY <2>1, <3>1, <3>2 DEF Allowed, Fits, SecurityReads, Registrations
  <2>3. todo' \in Seq(A)
    <3>1. CASE request.op = "set_task_security"
      <4>1. request.on \in Tasks  BY <1>1, <3>1, RequestKinds DEF TaskOps
      <4>2. QED  BY <1>5, <2>2, <3>1, <4>1, OpenTaskAllowed DEF Reopen, Reads
    <3>2. CASE request.op = "set_folder_security"
      <4>1. request.on \in Folders  BY <1>1, <3>2, RequestKinds DEF FolderOps
      <4>2. Near(Native("folder", request.on), request)
        BY <4>1 DEF Near, Native, OfTask, OfFolder
      <4>3. QED
        BY <1>5, <2>2, <3>2, <4>1, <4>2, OpenFolderAllowed DEF Reopen, Reads
    <3>3. QED  BY <2>1, <3>1, <3>2
  <2>4. TypeInv'
    BY <1>1, <1>3, <1>5, <2>3 DEF Inv, TypeInv, Serving, Unmoved
  <2>5. Handled' /\ Counted' /\ AnswersTrue' /\ Seeking'
    BY <1>3, <1>5, <2>1, <2>2
    DEF Inv, Handled, Counted, AnswersTrue, Seeking, Unmoved
  <2>6. QED  BY <2>4, <2>5 DEF Inv
<1>6. CASE ~Tolerated(s, kind) /\ Answer("error", kind, Committed)
  <2>1. kind /= "unneeded"  BY <1>2, ErrorKinds DEF Failure
  <2>2. ASSUME kind = "not_found", Single(request)
        PROVE  Absent(world, request)
    <3>1. PICK result \in Results(s) : ~result.ok /\ result.value = kind
      BY <2>2 DEF Failure
    <3>2. QED
      BY <1>2, <1>6, <2>2, <3>1, NotFoundTrue DEF Inv, Serving
  <2>3. kind = "not_found" /\ Single(request') =>
          \E w \in past' : Absent(w, request')
    BY <1>1, <2>2 DEF Unmoved
  <2>4. QED  BY <1>1, <1>3, <1>6, <2>1, <2>3, Answering DEF Unmoved
<1>7. QED
  <2>1. CASE Tolerated(s, kind) /\ ~(Comparing /\ kind = "denied")
    BY <1>4, <2>1 DEF Fail
  <2>2. CASE ~Tolerated(s, kind) /\ Comparing /\ kind = "denied"
    BY <1>5, <2>2 DEF Fail
  <2>3. CASE Tolerated(s, kind) /\ Comparing /\ kind = "denied"
    BY <1>4, <1>5, <2>3 DEF Fail
  <2>4. CASE ~Tolerated(s, kind) /\ ~(Comparing /\ kind = "denied")
    BY <1>6, <2>4 DEF Fail
  <2>5. QED  BY <2>1, <2>2, <2>3, <2>4

LEMMA ReadInv ==
  ASSUME Inv, Read
  PROVE  Inv'
<1>1. stage \in {"reading", "confirming"} /\ todo /= <<>> /\ Unmoved
  BY DEF Read, Unmoved
<1>2. ASSUME NEW result \in Results(Head(todo)), result.ok,
             Proceed(Head(todo), result.value)
      PROVE  Inv'
  BY <1>1, <1>2, ProceedInv
<1>3. ASSUME NEW kind, Failure(Head(todo), kind), Fail(Head(todo), kind)
      PROVE  Inv'
  BY <1>1, <1>3, FailInv
<1>4. CASE \E result \in Results(Head(todo)) :
             IF result.ok THEN Proceed(Head(todo), result.value)
             ELSE Fail(Head(todo), result.value)
  <2>1. PICK result \in Results(Head(todo)) :
               IF result.ok THEN Proceed(Head(todo), result.value)
               ELSE Fail(Head(todo), result.value)
    BY <1>4
  <2>2. CASE result.ok  BY <1>2, <2>1, <2>2
  <2>3. CASE ~result.ok  BY <1>3, <2>1, <2>3 DEF Failure
  <2>4. QED  BY <2>2, <2>3
<1>5. CASE \E kind \in {"failed", "denied"} : Fail(Head(todo), kind)
  BY <1>3, <1>5 DEF Failure
<1>6. QED  BY <1>4, <1>5 DEF Read

LEMMA EndStageInv ==
  ASSUME Inv, EndStage
  PROVE  Inv'
<1>1. /\ stage \in {"reading", "confirming"} /\ todo = <<>> /\ Unmoved
      /\ output' = output /\ Serving
      /\ world \in World /\ world \in past /\ output \in Seq(Shown(past))
      /\ request \in AllRequests /\ RefusedAtOnce(request) = "none"
  BY DEF Inv, TypeInv, Serving, EndStage, Unmoved
<1>2. CASE stage = "reading" /\ request.op = "stop_instance"
  <2>1. Answer("error", "not_found", FALSE)
    BY <1>2 DEF EndStage, Mutations
  <2>2. \E w \in past : request.on \notin Running(w)
    BY <1>1, <1>2 DEF Inv, Seeking, Sought
  <2>3. request.on \in Instances /\ request.on \notin Tasks
    BY <1>1, <1>2, RequestKinds, TreeAssumption
  <2>4. \E w \in past' : Absent(w, request')
    BY <1>1, <2>2, <2>3, TreeAssumption DEF Absent, Unmoved
  <2>5. QED  BY <1>1, <2>1, <2>4, Answering DEF Unmoved
<1>3. CASE stage = "reading" /\ request.op \in Mutations \ {"stop_instance"}
  <2>1. stage' = "mutating" /\ todo' = todo  BY <1>3 DEF EndStage
  <2>2. TypeInv'
    BY <1>1, <1>3, <2>1 DEF TypeInv, Serving, Unmoved
  <2>3. Handled' /\ Counted' /\ Seeking' /\ AnswersTrue'
    BY <1>1, <1>3, <2>1
    DEF Inv, Handled, Counted, Seeking, AnswersTrue, Unmoved
  <2>4. QED  BY <2>2, <2>3 DEF Inv
<1>4. CASE ~(stage = "reading" /\ request.op \in Mutations)
  <2>1. Answer("ok", Success, FALSE)  BY <1>4 DEF EndStage
  <2>2. Success \notin {"unneeded", "not_found"}  BY DEF Success
  <2>3. QED  BY <1>1, <2>1, <2>2, Answering DEF Unmoved
<1>5. QED  BY <1>1, <1>2, <1>3, <1>4

\* The new instance is the one that the handle names.
LEMMA HandleTrue ==
  ASSUME world \in World, request \in AllRequests, request.op = "run",
         NEW w \in Outcomes(request, world)
  PROVE  /\ Handle(w) \in Seq(Shown({w}))
         /\ Handle(w) /= <<>>
         /\ Handle(w)[1].call = "launched" /\ Handle(w)[1].on = request.on
<1>1. request.on \in Tasks  BY RequestKinds DEF TaskOps
<1>2. PICK i \in Instances :
        world.instances[i] = "unused"
        /\ w = [world EXCEPT !.instances[i] = request.on]
  BY DEF Outcomes
<1>3. /\ w.instances[i] = request.on
      /\ \A j \in Instances \ {i} : w.instances[j] = world.instances[j]
  BY <1>2, WorldParts
<1>4. world.instances[i] /= request.on
  BY <1>1, <1>2, TreeAssumption
<1> DEFINE h == CHOOSE j \in Instances : w.instances[j] /= world.instances[j]
<1>5. \E j \in Instances : w.instances[j] /= world.instances[j]
  BY <1>3, <1>4
<1>6. h \in Instances /\ w.instances[h] /= world.instances[h]
  BY <1>5
<1>7. h = i  BY <1>3, <1>6
<1>8. Handle(w) = <<[call |-> "launched", on |-> request.on, value |-> h]>>
  BY DEF Handle
<1>9. [call |-> "launched", on |-> request.on, value |-> h] \in Shown({w})
  BY <1>1, <1>3, <1>7 DEF Shown, Entries, Values, Objects, Shows
<1>10. QED  BY <1>8, <1>9

LEMMA MutateInv ==
  ASSUME Inv, Mutate
  PROVE  Inv'
<1>1. /\ stage = "mutating" /\ Serving /\ request' = request
      /\ world \in World /\ world \in past /\ output \in Seq(Shown(past))
      /\ request \in AllRequests /\ RefusedAtOnce(request) = "none"
      /\ request.op \in Mutations /\ effects = 0
  BY DEF Inv, TypeInv, Serving, Counted, Mutate
<1>2. ASSUME NEW w \in Outcomes(request, world), Mutated(w),
             stage' = "confirming", todo' = Confirming(request),
             output' = Handle(w)
      PROVE  Inv'
  <2>1. /\ world' = w /\ w \in World /\ past' = past \union {w}
        /\ past \subseteq past' /\ {w} \subseteq past'
    BY <1>1, <1>2, OutcomesTyped DEF Mutated, Witness
  <2>2. output' \in Seq(Shown(past'))
    <3>1. CASE request.op = "run"
      <4>1. Handle(w) \in Seq(Shown({w}))  BY <1>1, <3>1, HandleTrue
      <4>2. Shown({w}) \subseteq Shown(past')  BY <2>1, ShownGrows
      <4>3. QED  BY <1>2, <4>1, <4>2, SeqMonotonic
    <3>2. CASE request.op /= "run"
      <4>1. output' = output  BY <1>2, <3>2 DEF Handle
      <4>2. Shown(past) \subseteq Shown(past')  BY <2>1, ShownGrows
      <4>3. QED  BY <1>1, <4>1, <4>2, SeqMonotonic
    <3>3. QED  BY <3>1, <3>2
  <2>3. todo' \in Seq(Allowed(request', stage', past'))
    BY <1>1, <1>2, ConfirmingAllowed
  <2>4. TypeInv'
    BY <1>1, <1>2, <2>1, <2>2, <2>3 DEF TypeInv, Serving
  <2>5. Handled'  BY <1>1, <1>2, HandleTrue DEF Handled
  <2>6. Counted' /\ Seeking' /\ AnswersTrue'
    BY <1>1, <1>2 DEF Counted, Seeking, AnswersTrue, Mutated
  <2>7. QED  BY <2>4, <2>5, <2>6 DEF Inv
<1>3. ASSUME Outcomes(request, world) = {},
             Answer("error", Refusal(request), Committed),
             UNCHANGED <<world, past, output>>
      PROVE  Inv'
  <2>1. Refusal(request) \in {"ended", "exists", "failed", "not_found"}
    BY DEF Refusal
  <2>2. Refusal(request) = "not_found" => Absent(world, request)
    BY <1>1, <1>3, RefusalTrue
  <2>3. QED  BY <1>1, <1>3, <2>1, <2>2, Answering
<1>4. QED  BY <1>2, <1>3 DEF Mutate

LEMMA MutationFailsInv ==
  ASSUME Inv, MutationFails
  PROVE  Inv'
<1>1. /\ request' = request /\ output' = output
      /\ world \in World /\ world \in past /\ output \in Seq(Shown(past))
      /\ request \in AllRequests
  BY DEF Inv, TypeInv, Serving, MutationFails
<1>2. ASSUME NEW kind \in {"failed", "denied"},
             Answer("error", kind, Committed), UNCHANGED <<world, past>>
      PROVE  Inv'
  BY <1>1, <1>2, Answering
<1>3. ASSUME NEW w \in Outcomes(request, world), Mutated(w),
             Answer("error", "failed", Committed)
      PROVE  Inv'
  <2>1. /\ world' = w /\ w \in World /\ past' = past \union {w}
        /\ past \subseteq past'
    BY <1>1, <1>3, OutcomesTyped DEF Mutated, Witness
  <2>2. Shown(past) \subseteq Shown(past')  BY <2>1, ShownGrows
  <2>3. output' \in Seq(Shown(past'))  BY <1>1, <2>2, SeqMonotonic
  <2>4. QED  BY <1>3, <2>1, <2>3, Answering
<1>4. QED  BY <1>2, <1>3 DEF MutationFails

LEMMA OthersInv ==
  ASSUME Inv, Others
  PROVE  Inv'
<1>1. PICK w \in Changes(world) : world' = w  BY DEF Others
<1>2. /\ w \in World /\ past' = past \union {w} /\ past \subseteq past'
      /\ UNCHANGED <<request, stage, todo, output, reply, effects>>
      /\ Serving
  BY <1>1, ChangesTyped DEF Others, Witness, Inv, TypeInv, Serving
<1>3. Shown(past) \subseteq Shown(past')
      /\ Allowed(request, stage, past) \subseteq Allowed(request, stage, past')
  BY <1>2, ShownGrows, AllowedGrows
<1>4. /\ output' \in Seq(Shown(past'))
      /\ todo' \in Seq(Allowed(request', stage', past'))
  BY <1>2, <1>3, SeqMonotonic DEF Inv, TypeInv
<1>5. TypeInv'  BY <1>1, <1>2, <1>4 DEF Inv, TypeInv, Serving
<1>6. Handled' /\ Counted' /\ AnswersTrue'
  BY <1>2 DEF Inv, Handled, Counted, AnswersTrue, Serving
<1>7. Seeking'
  BY <1>2 DEF Inv, Seeking, Sought
<1>8. QED  BY <1>5, <1>6, <1>7 DEF Inv

LEMMA StepInv ==
  ASSUME Inv, [Next]_vars
  PROVE  Inv'
<1>1. CASE UNCHANGED vars
  BY <1>1
  DEF vars, Inv, TypeInv, Serving, Handled, Counted, Seeking, Sought,
      AnswersTrue
<1>2. CASE Serve
  BY <1>2, ConnectInv, BeginInv, ReadInv, EndStageInv, MutateInv,
     MutationFailsInv
  DEF Serve
<1>3. CASE Others  BY <1>3, OthersInv
<1>4. QED  BY <1>1, <1>2, <1>3 DEF Next

THEOREM Invariance == Spec => []Inv
<1>1. Init => Inv  BY InitInv
<1>2. Inv /\ [Next]_vars => Inv'  BY StepInv
<1>3. QED  BY <1>1, <1>2, PTL DEF Spec

\* Whatever fails and whoever else acts, whatever the tree of folders and
\* tasks: what a successful call reports was so at some moment during the
\* call, a descriptor that a setter left alone was already in place, and an
\* object that an operation did not find was absent at some moment.
THEOREM AnswersAreTrue == Spec => []AnswersTrue
<1>1. Inv => AnswersTrue  BY DEF Inv
<1>2. QED  BY <1>1, Invariance, PTL

-----------------------------------------------------------------------------
(***************************************************************************)
(* The promise of a call.                                                  *)
(***************************************************************************)
LEMMA ToldOk ==
  ASSUME NEW kind, Answer("ok", kind, FALSE)
  PROVE  Told' = kind
BY DEF Answer, Told

LEMMA ToldCommitted ==
  ASSUME NEW kind, Answer("error", kind, Committed), Committed
  PROVE  Told' = "committed"
BY DEF Answer, Told

LEMMA ToldPlain ==
  ASSUME NEW kind,
         \/ Answer("error", kind, FALSE)
         \/ Answer("error", kind, Committed) /\ ~Committed
  PROVE  /\ kind \in Refusals => Told' = "refused"
         /\ kind \notin Refusals => Told' = "failed"
<1>1. stage' = "answered" /\ reply'.status = "error" /\ reply'.kind = kind
      /\ ~reply'.committed
  BY DEF Answer
<1>2. QED  BY <1>1 DEF Told

\* The steps of the promise, by what a step of the session tells.
LEMMA Promised ==
  ASSUME stage /= "answered",
         \/ effects' = effects /\ stage' /= "answered"
         \/ effects = 0 /\ effects' = 1 /\ stage' /= "answered"
         \/ effects' = effects
              /\ Told' \in {"value", "unneeded", "refused", "failed"}
              /\ effects = 0
         \/ effects' = effects /\ Told' \in {"done", "committed", "failed"}
              /\ effects = 1
         \/ effects = 0 /\ effects' = 1 /\ Told' = "failed"
  PROVE  [Contract!CallStep]_(Contract!callVars)
<1>1. Told = "none"  BY DEF Told
<1>2. stage' /= "answered" => Told' = "none"  BY DEF Told
<1>3. QED
  BY <1>1, <1>2
  DEF Contract!CallStep, Contract!Effect, Contract!Reply,
      Contract!Unconfirmed, Contract!callVars, Contract!Answers,
      Contract!Truthful, Contract!Told, Contract!Spared, Contract!Made

LEMMA ReadPromise ==
  ASSUME Inv, Read, "validate_only" \notin Modes
  PROVE  [Contract!CallStep]_(Contract!callVars)
<1> DEFINE s == Head(todo)
<1>1. /\ stage \in {"reading", "confirming"} /\ todo /= <<>>
      /\ effects' = effects /\ request \in AllRequests
      /\ todo \in Seq(Allowed(request, stage, past))
  BY DEF Read, Inv, TypeInv, Serving
<1>2. s \in Allowed(request, stage, past) /\ s \in Steps
  BY <1>1, HeadTailProperties DEF Allowed
<1>3. stage = "reading" => effects = 0  BY DEF Inv, Counted
<1>4. stage = "confirming" => effects = 1
  BY <1>1, RequestKinds DEF Inv, TypeInv, Counted
<1>5. stage = "confirming" /\ request.op \notin Registrations =>
        s.call \in {"proxy", "instance_id", "engine_pid"}
  BY <1>2 DEF Allowed, Fits
<1>6. CASE stage' /= "answered"  BY <1>1, <1>6, Promised
<1>7. ASSUME NEW v, Answer("ok", "unneeded", FALSE), Unneeded(s, v)
      PROVE  effects = 0
  BY <1>1, <1>3, <1>5, <1>7
  DEF Unneeded, Comparing, SecurityReads, Registrations
<1>8. ASSUME NEW kind, Failure(s, kind), Answer("error", kind, Committed)
      PROVE  \/ effects = 0 /\ Told' \in {"refused", "failed"}
             \/ effects = 1 /\ Told' \in {"committed", "failed"}
  <2>2. CASE stage = "reading"
    <3>1. ~Committed  BY <2>2 DEF Committed
    <3>2. QED  BY <1>3, <1>8, <2>2, <3>1, ToldPlain
  <2>3. CASE stage = "confirming" /\ request.op \in Registrations
    <3>1. Committed  BY <2>3 DEF Committed, Registrations
    <3>2. QED  BY <1>4, <1>8, <2>3, <3>1, ToldCommitted
  <2>4. CASE stage = "confirming" /\ request.op \notin Registrations
    <3>1. ~Committed  BY <2>4 DEF Committed, Registrations
    <3>2. kind \in {"failed", "denied", "ended"}
      <4>1. CASE kind \in {"failed", "denied"}  BY <4>1
      <4>2. CASE \E result \in Results(s) : ~result.ok /\ result.value = kind
        <5>1. PICK result \in Results(s) : ~result.ok /\ result.value = kind
          BY <4>2
        <5>2. CASE s.call = "proxy"  BY <5>1, <5>2 DEF Results, Found
        <5>3. CASE s.call \in {"instance_id", "engine_pid"}
          BY <5>1, <5>3 DEF Results, Present, Found, Error
        <5>4. QED  BY <1>5, <2>4, <5>2, <5>3
      <4>3. QED  BY <1>8, <4>1, <4>2 DEF Failure
    <3>3. kind \notin Refusals  BY <3>2 DEF Refusals
    <3>4. QED  BY <1>4, <1>8, <2>4, <3>1, <3>3, ToldPlain
  <2>5. QED  BY <1>1, <2>2, <2>3, <2>4
<1>9. CASE stage' = "answered"
  <2>1. ASSUME NEW result \in Results(s), result.ok,
               Proceed(s, result.value)
        PROVE  [Contract!CallStep]_(Contract!callVars)
    <3>1. Unneeded(s, result.value) /\ Answer("ok", "unneeded", FALSE)
      BY <1>1, <1>9, <2>1 DEF Proceed
    <3>2. effects = 0 /\ Told' = "unneeded"  BY <1>7, <3>1, ToldOk
    <3>3. QED  BY <1>1, <3>2, Promised
  <2>2. ASSUME NEW kind, Failure(s, kind), Fail(s, kind)
        PROVE  [Contract!CallStep]_(Contract!callVars)
    <3>1. CASE Tolerated(s, kind) \/ (Comparing /\ kind = "denied")
      <4>1. stage' = stage  BY <3>1, <2>2 DEF Fail
      <4>2. QED  BY <1>1, <1>9, <4>1
    <3>2. CASE ~(Tolerated(s, kind) \/ (Comparing /\ kind = "denied"))
      <4>1. Answer("error", kind, Committed)  BY <2>2, <3>2 DEF Fail
      <4>2. QED  BY <1>1, <1>8, <2>2, <4>1, Promised
    <3>3. QED  BY <3>1, <3>2
  <2>3. CASE \E result \in Results(s) :
               IF result.ok THEN Proceed(s, result.value)
               ELSE Fail(s, result.value)
    <3>1. PICK result \in Results(s) :
                 IF result.ok THEN Proceed(s, result.value)
                 ELSE Fail(s, result.value)
      BY <2>3
    <3>2. CASE result.ok  BY <2>1, <3>1, <3>2
    <3>3. CASE ~result.ok  BY <2>2, <3>1, <3>3 DEF Failure
    <3>4. QED  BY <3>2, <3>3
  <2>4. CASE \E kind \in {"failed", "denied"} : Fail(s, kind)
    BY <2>2, <2>4 DEF Failure
  <2>5. QED  BY <2>3, <2>4 DEF Read
<1>10. QED  BY <1>6, <1>9

LEMMA StepPromise ==
  ASSUME Inv, [Next]_vars, "validate_only" \notin Modes
  PROVE  [Contract!CallStep]_(Contract!callVars)
<1>1. CASE UNCHANGED vars
  <2>1. Told' = Told /\ effects' = effects  BY <1>1 DEF vars, Told
  <2>2. QED  BY <2>1 DEF Contract!callVars
<1>2. CASE Connect
  <2>1. effects' = effects /\ effects = 0 /\ stage /= "answered"
    BY <1>2 DEF Connect, Inv, Counted
  <2>2. CASE stage' = "idle"  BY <2>1, <2>2, Promised
  <2>3. CASE Answer("error", "failed", FALSE)
    <3>1. Told' = "failed"  BY <2>3 DEF Answer, Told, Refusals
    <3>2. QED  BY <2>1, <3>1, Promised
  <2>4. QED  BY <1>2, <2>2, <2>3 DEF Connect
<1>3. CASE Begin
  <2>1. effects' = effects /\ effects = 0 /\ stage /= "answered"
    BY <1>3 DEF Begin, Inv, Counted
  <2>2. CASE stage' /= "answered"  BY <2>1, <2>2, Promised
  <2>3. ASSUME NEW r \in AllRequests, RefusedAtOnce(r) /= "none",
               Answer("error", RefusedAtOnce(r), FALSE)
        PROVE  [Contract!CallStep]_(Contract!callVars)
    <3>1. Told' \in {"refused", "failed"}  BY <2>3, ToldPlain
    <3>2. QED  BY <2>1, <3>1, Promised
  <2>4. QED  BY <1>3, <2>2, <2>3 DEF Begin
<1>4. CASE Read  BY <1>4, ReadPromise
<1>5. CASE EndStage
  <2>1. /\ effects' = effects /\ stage \in {"reading", "confirming"}
        /\ request \in AllRequests
        /\ stage = "reading" => effects = 0
        /\ stage = "confirming" => request.op \in Mutations
    BY <1>5 DEF EndStage, Inv, TypeInv, Serving, Counted
  <2>2. stage = "confirming" =>
          request.option /= "validate_only" /\ effects = 1
    BY <2>1, RequestKinds DEF Inv, Counted
  <2>3. CASE stage' /= "answered"  BY <2>1, <2>3, Promised
  <2>4. CASE Answer("error", "not_found", FALSE) /\ stage = "reading"
    <3>1. Told' = "refused"  BY <2>4, ToldPlain DEF Refusals
    <3>2. QED  BY <2>1, <2>4, <3>1, Promised
  <2>5. CASE /\ Answer("ok", Success, FALSE)
             /\ ~(stage = "reading" /\ request.op \in Mutations)
    <3>1. Told' = Success  BY <2>5, ToldOk
    <3>2. CASE stage = "reading"
      <4>1. Success = "value"  BY <2>5, <3>2 DEF Success
      <4>2. QED  BY <2>1, <3>1, <3>2, <4>1, Promised
    <3>3. CASE stage = "confirming"
      <4>1. Success = "done"  BY <2>1, <2>2, <3>3 DEF Success
      <4>2. QED  BY <2>1, <2>2, <3>1, <3>3, <4>1, Promised
    <3>4. QED  BY <2>1, <3>2, <3>3
  <2>6. QED  BY <1>5, <2>3, <2>4, <2>5 DEF EndStage
<1>6. CASE Mutate
  <2>1. /\ stage = "mutating" /\ effects = 0 /\ ~Committed
        /\ request \in AllRequests /\ request.op \in Mutations
    BY <1>6 DEF Mutate, Inv, TypeInv, Serving, Counted, Committed
  <2>2. request.option /= "validate_only"  BY <2>1, RequestKinds
  <2>3. CASE stage' /= "answered"
    <3>1. effects' = 1 \/ effects' = effects
      BY <1>6, <2>1, <2>2 DEF Mutate, Mutated
    <3>2. QED  BY <2>1, <2>3, <3>1, Promised
  <2>4. CASE Answer("error", Refusal(request), Committed)
               /\ effects' = effects
    <3>1. Told' \in {"refused", "failed"}
      BY <2>1, <2>4, ToldPlain
    <3>2. QED  BY <2>1, <2>4, <3>1, Promised
  <2>5. QED  BY <1>6, <2>3, <2>4 DEF Mutate
<1>7. CASE MutationFails
  <2>1. /\ stage = "mutating" /\ effects = 0 /\ ~Committed
        /\ request \in AllRequests /\ request.op \in Mutations
    BY <1>7 DEF MutationFails, Inv, TypeInv, Serving, Counted, Committed
  <2>2. request.option /= "validate_only"  BY <2>1, RequestKinds
  <2>3. ASSUME NEW kind \in {"failed", "denied"},
               Answer("error", kind, Committed)
        PROVE  Told' = "failed"
    BY <2>1, <2>3, ToldPlain DEF Refusals
  <2>4. Told' = "failed"  BY <1>7, <2>3 DEF MutationFails
  <2>5. effects' = effects \/ effects' = 1
    BY <1>7, <2>1, <2>2 DEF MutationFails, Mutated
  <2>6. QED  BY <2>1, <2>4, <2>5, Promised
<1>8. CASE Others
  <2>1. Told' = Told /\ effects' = effects  BY <1>8 DEF Others, Told
  <2>2. QED  BY <2>1 DEF Contract!callVars
<1>9. QED
  BY <1>1, <1>2, <1>3, <1>4, <1>5, <1>6, <1>7, <1>8 DEF Next, Serve

\* Every call keeps the safety half of ServiceContract, however its native
\* calls fail and whoever acts in between: it changes the service at most
\* once, success and the marker of a committed registration mean that it did,
\* and a refusal that it did not.  Registrations that only validate are left
\* out: see the README.
THEOREM KeepsContract ==
  ASSUME "validate_only" \notin Modes
  PROVE  Spec => Contract!CallSafety
<1>1. Init => Contract!Begin
  BY DEF Init, Contract!Begin, Told
<1>2. Inv /\ [Next]_vars => [Contract!CallStep]_(Contract!callVars)
  BY StepPromise
<1>3. QED
  BY <1>1, <1>2, Invariance, PTL DEF Spec, Contract!CallSafety
-----------------------------------------------------------------------------
(***************************************************************************)
(* The tree of folders.                                                    *)
(***************************************************************************)
\* Sets that contain the parent of each of their folders.
Closed(S) == \A h \in S \ {Root} : Parent[h] \in S

LEMMA UpClosed ==
  ASSUME NEW g \in Folders
  PROVE  /\ Upwards(g) \subseteq Folders /\ g \in Upwards(g)
         /\ Closed(Upwards(g))
         /\ \A S \in SUBSET Folders : g \in S /\ Closed(S) => Upwards(g) \subseteq S
<1>1. Upwards(g) \subseteq Folders /\ g \in Upwards(g)  BY DEF Upwards
<1>2. \A S \in SUBSET Folders : g \in S /\ Closed(S) => Upwards(g) \subseteq S
  BY DEF Upwards, Closed
<1>3. ASSUME NEW h \in Upwards(g) \ {Root}
      PROVE  Parent[h] \in Upwards(g)
  <2>1. h \in Folders \ {Root} /\ Parent[h] \in Folders
    BY <1>1, TreeAssumption
  <2>2. ASSUME NEW S \in SUBSET Folders, g \in S, Closed(S)
        PROVE  Parent[h] \in S
    BY <1>2, <2>2 DEF Closed
  <2>3. QED  BY <2>1, <2>2 DEF Upwards, Closed
<1>4. QED  BY <1>1, <1>2, <1>3 DEF Closed

\* Above the root there is nothing; above another folder is its parent.
LEMMA UpOfRoot ==
  Upwards(Root) = {Root}
<1>1. Closed({Root}) /\ {Root} \in SUBSET Folders
  BY TreeAssumption DEF Closed
<1>2. QED  BY <1>1, UpClosed, TreeAssumption

LEMMA UpOfParent ==
  ASSUME NEW g \in Folders \ {Root}
  PROVE  Parent[g] \in Folders /\ Upwards(g) = {g} \union Upwards(Parent[g])
<1>1. Parent[g] \in Folders  BY TreeAssumption
<1> DEFINE T == {g} \union Upwards(Parent[g])
<1>2. T \in SUBSET Folders /\ Closed(T)
  BY <1>1, UpClosed DEF Closed
<1>3. Upwards(g) \subseteq T  BY <1>2, UpClosed
<1>4. g \in Upwards(g) /\ Parent[g] \in Upwards(g) /\ Closed(Upwards(g))
      /\ Upwards(g) \in SUBSET Folders
  BY UpClosed DEF Closed
<1>5. T \subseteq Upwards(g)  BY <1>1, <1>4, UpClosed
<1>6. QED  BY <1>1, <1>3, <1>5

LEMMA UpUp ==
  ASSUME NEW g \in Folders, NEW h \in Upwards(g)
  PROVE  h \in Folders /\ Upwards(h) \subseteq Upwards(g)
BY UpClosed

\* No folder is below itself.
LEMMA NoCycle ==
  ASSUME NEW g \in Folders \ {Root}
  PROVE  g \notin Upwards(Parent[g])
<1> SUFFICES ASSUME g \in Upwards(Parent[g]) PROVE FALSE  OBVIOUS
<1> DEFINE S == {h \in Upwards(g) : g \in Upwards(h)}
<1>1. g \in S /\ S \subseteq Folders  BY UpClosed
<1>2. Root \notin S  BY UpOfRoot
<1>3. ASSUME NEW h \in S PROVE Parent[h] \in S
  <2>1. h \in Folders \ {Root} /\ h \in Upwards(g) /\ g \in Upwards(h)
    BY <1>1, <1>2
  <2>2. Parent[h] \in Upwards(g)  BY <2>1, UpClosed DEF Closed
  <2>3. g \in Upwards(Parent[h])  BY <2>1, UpOfParent
  <2>4. QED  BY <2>2, <2>3
<1>4. S \in SUBSET (Folders \ {Root}) /\ S /= {}  BY <1>1, <1>2
<1>5. QED  BY <1>3, <1>4, TreeAssumption

\* What is above one folder is a path.
LEMMA OnePath ==
  ASSUME NEW g \in Folders, NEW a \in Upwards(g), NEW b \in Upwards(g)
  PROVE  a \in Upwards(b) \/ b \in Upwards(a)
<1>0. a \in Folders /\ b \in Folders  BY UpClosed
<1> DEFINE S == {h \in Folders : h \in Upwards(b) \/ b \in Upwards(h)}
<1>1. g \in S /\ S \in SUBSET Folders  OBVIOUS
<1>2. ASSUME NEW h \in S \ {Root} PROVE Parent[h] \in S
  <2>1. h \in Folders \ {Root} /\ Parent[h] \in Folders
    BY UpOfParent
  <2>2. CASE h \in Upwards(b)  BY <1>0, <2>1, <2>2, UpClosed DEF Closed
  <2>3. CASE b \in Upwards(h)
    <3>1. b = h \/ b \in Upwards(Parent[h])  BY <2>1, <2>3, UpOfParent
    <3>2. CASE b = h
      <4>1. h \in Upwards(b)  BY <1>0, <3>2, UpClosed
      <4>2. QED  BY <2>2, <4>1
    <3>3. QED  BY <2>1, <3>1, <3>2
  <2>4. QED  BY <2>2, <2>3
<1>3. Closed(S)  BY <1>2 DEF Closed
<1>4. a \in S  BY <1>1, <1>3, UpClosed
<1>5. QED  BY <1>4

\* Children of one folder have nothing below them in common.
LEMMA Siblings ==
  ASSUME NEW g \in Folders, NEW a \in Folders \ {Root},
         NEW b \in Folders \ {Root}, Parent[a] = Parent[b],
         a \in Upwards(g), b \in Upwards(g)
  PROVE  a = b
<1> SUFFICES ASSUME a /= b PROVE FALSE  OBVIOUS
<1>1. a \in Upwards(b) => a \in Upwards(Parent[a])  BY UpOfParent
<1>2. b \in Upwards(a) => b \in Upwards(Parent[b])  BY UpOfParent
<1>3. QED  BY <1>1, <1>2, OnePath, NoCycle

\* Between a folder and what is below it lies one of its children.
LEMMA OnTheWay ==
  ASSUME NEW g \in Folders, NEW f \in Upwards(g), f /= g
  PROVE  \E c \in Upwards(g) \ {Root} : Parent[c] = f
<1> SUFFICES ASSUME \A c \in Upwards(g) \ {Root} : Parent[c] /= f
             PROVE  FALSE
  OBVIOUS
<1> DEFINE S == Upwards(g) \ {f}
<1>1. S \in SUBSET Folders /\ g \in S  BY UpClosed
<1>2. Closed(S)  BY UpClosed DEF Closed
<1>3. QED  BY <1>1, <1>2, UpClosed

\* A folder that exists has everything above it.
LEMMA PathExists ==
  ASSUME NEW w, Rooted(w), NEW g \in Folders, w.folders[g] /= Missing,
         NEW f \in Upwards(g)
  PROVE  w.folders[f] /= Missing
<1> DEFINE S == {h \in Folders : w.folders[h] /= Missing}
<1>1. S \in SUBSET Folders /\ g \in S  OBVIOUS
<1>2. Closed(S)  BY TreeAssumption DEF Closed, Rooted
<1>3. QED  BY <1>1, <1>2, UpClosed

-----------------------------------------------------------------------------
(***************************************************************************)
(* The walk of a listing.  Each call that is left has a share of what the  *)
(* listing was asked for still to report; the shares never overlap, an     *)
(* answer divides the share of its call among the calls that it adds, and  *)
(* what existed all along is reported or in the share of some call.        *)
(***************************************************************************)
Listings == {"list_tasks", "list_folders", "running_tasks"}

\* The folders that a listing from f visits, as Within.
Reach(r, f) ==
  IF r.option = "recursive" THEN {g \in Folders : f \in Upwards(g)} ELSE {f}

\* What a pending call has still to report, itself or by the calls that its
\* answer adds.
Due(r, s) ==
  CASE s.call \in {"item", "xml", "instance"} -> {s.on}
    [] s.call = "running" -> Instances
    [] r.op = "list_tasks" /\ s.call \in {"tasks", "child"} ->
         {t \in Tasks : FolderOf[t] \in Reach(r, s.on)}
    [] r.op = "list_tasks" /\ s.call = "folders" ->
         {t \in Tasks : FolderOf[t] \in Reach(r, s.on) \ {s.on}}
    [] r.op = "list_folders" /\ s.call = "folders" ->
         {f \in Folders \ {Root} : Parent[f] \in Reach(r, s.on)}
    [] r.op = "list_folders" /\ s.call = "child" -> Reach(r, s.on)
    [] OTHER -> {}

\* What a listing is asked for, whether it exists, and how it is reported.
Goals(r) ==
  CASE r.op = "list_tasks" -> {t \in Tasks : FolderOf[t] \in Reach(r, r.on)}
    [] r.op = "list_folders" ->
         {f \in Folders \ {Root} : Parent[f] \in Reach(r, r.on)}
    [] r.op = "running_tasks" -> Instances

There(r, w, x) ==
  CASE r.op = "list_tasks" -> w.tasks[x] /= Missing
    [] r.op = "list_folders" -> w.folders[x] /= Missing
    [] r.op = "running_tasks" -> x \in Running(w)

Marker(r) ==
  CASE r.op = "list_tasks" -> "xml"
    [] r.op = "list_folders" -> "child"
    [] r.op = "running_tasks" -> "instance"

\* The calls that a listing makes.
Calls(r) ==
  CASE r.op = "list_tasks" ->
         {"folder", "tasks", "item", "enabled", "xml"}
           \union (IF r.option = "recursive" THEN {"folders", "child"} ELSE {})
    [] r.op = "list_folders" -> {"folder", "folders", "child"}
    [] r.op = "running_tasks" -> {"running", "instance"}

\* The walk: no two pending calls have to report the same, none what has been
\* reported, nothing has been reported twice, and what has existed all the
\* time is reported or still due.
Apart(r, q) ==
  \A j, k \in DOMAIN q : j /= k => Due(r, q[j]) \intersect Due(r, q[k]) = {}
Ahead(r, q, o) ==
  \A k \in DOMAIN q : \A m \in DOMAIN o :
    o[m].call = Marker(r) => o[m].on \notin Due(r, q[k])
Once(r, o) ==
  \A m, n \in DOMAIN o :
    o[m].call = Marker(r) /\ o[n].call = Marker(r) /\ o[m].on = o[n].on
      => m = n
Met(r, q, o, x) ==
  \/ \E k \in DOMAIN q : x \in Due(r, q[k])
  \/ \E m \in DOMAIN o : o[m].call = Marker(r) /\ o[m].on = x
Owed(r, p, x) == x \in Goals(r) /\ \A w \in p : There(r, w, x)

Walk(r, q, o, p) ==
  /\ \A k \in DOMAIN q : q[k].call \in Calls(r)
  /\ Apart(r, q) /\ Ahead(r, q, o) /\ Once(r, o)
  /\ \A x : Owed(r, p, x) => Met(r, q, o, x)

\* A call is replaced by those that share what it has to report.
Shared(r, s, e) ==
  /\ \A k \in DOMAIN e :
       e[k].call \in Calls(r) /\ Due(r, e[k]) \subseteq Due(r, s)
  /\ Apart(r, e)

\* Every call behind the first one is among what is left, or an added one.
LEMMA Left ==
  ASSUME NEW A, NEW q \in Seq(A), q /= <<>>, NEW e \in Seq(A)
  PROVE  LET t == e \o Tail(q)
         IN  /\ t \in Seq(A)
             /\ \A k \in DOMAIN e : k \in DOMAIN t /\ t[k] = e[k]
             /\ \A k \in DOMAIN q \ {1} :
                  Len(e) + (k - 1) \in DOMAIN t
                    /\ t[Len(e) + (k - 1)] = q[k]
             /\ \A i \in DOMAIN t :
                  \/ i \in DOMAIN e /\ t[i] = e[i]
                  \/ /\ i \notin DOMAIN e /\ (i - Len(e)) + 1 \in DOMAIN q \ {1}
                     /\ t[i] = q[(i - Len(e)) + 1]
<1> DEFINE t == e \o Tail(q)
<1>1. /\ Tail(q) \in Seq(A) /\ Len(q) \in Nat /\ Len(e) \in Nat
      /\ Len(q) >= 1 /\ Len(Tail(q)) = Len(q) - 1
      /\ \A i \in 1..Len(Tail(q)) : Tail(q)[i] = q[i + 1]
  BY HeadTailProperties, LenProperties, EmptySeq
<1>2. /\ t \in Seq(A) /\ Len(t) = Len(e) + Len(Tail(q))
      /\ \A i \in 1..(Len(e) + Len(Tail(q))) :
           t[i] = IF i <= Len(e) THEN e[i] ELSE Tail(q)[i - Len(e)]
  BY <1>1, ConcatProperties
<1>3. DOMAIN q = 1..Len(q) /\ DOMAIN t = 1..Len(t) /\ DOMAIN e = 1..Len(e)
  BY <1>2, LenProperties
<1> HIDE DEF t
<1>4. ASSUME NEW k \in DOMAIN e PROVE k \in DOMAIN t /\ t[k] = e[k]
  BY <1>1, <1>2, <1>3
<1>5. ASSUME NEW k \in DOMAIN q \ {1}
      PROVE  Len(e) + (k - 1) \in DOMAIN t /\ t[Len(e) + (k - 1)] = q[k]
  <2> DEFINE n == Len(e) + (k - 1)
  <2>1. /\ n \in DOMAIN t /\ ~(n <= Len(e)) /\ n - Len(e) = k - 1
        /\ n \in 1..(Len(e) + Len(Tail(q)))
        /\ k - 1 \in 1..Len(Tail(q)) /\ (k - 1) + 1 = k
    BY <1>1, <1>2, <1>3
  <2> HIDE DEF n
  <2>2. t[n] = Tail(q)[n - Len(e)]  BY <1>2, <2>1
  <2>3. Tail(q)[k - 1] = q[(k - 1) + 1]  BY <1>1, <2>1
  <2>4. n \in DOMAIN t /\ t[n] = q[k]  BY <2>1, <2>2, <2>3
  <2>5. QED  BY <2>4 DEF n
<1>6. ASSUME NEW i \in DOMAIN t
      PROVE  \/ i \in DOMAIN e /\ t[i] = e[i]
             \/ /\ i \notin DOMAIN e /\ (i - Len(e)) + 1 \in DOMAIN q \ {1}
                /\ t[i] = q[(i - Len(e)) + 1]
  <2>1. CASE i \in DOMAIN e  BY <1>4, <2>1
  <2>2. CASE i \notin DOMAIN e
    <3>1. i - Len(e) \in 1..Len(Tail(q)) /\ ~(i <= Len(e))
      BY <1>1, <1>2, <1>3, <2>2
    <3>2. t[i] = Tail(q)[i - Len(e)]  BY <1>1, <1>2, <1>3, <3>1
    <3>3. Tail(q)[i - Len(e)] = q[(i - Len(e)) + 1]  BY <1>1, <3>1
    <3>4. (i - Len(e)) + 1 \in DOMAIN q \ {1}  BY <1>1, <1>3, <3>1
    <3>5. QED  BY <2>2, <3>2, <3>3, <3>4
  <2>3. QED  BY <2>1, <2>2
<1>7. t \in Seq(A)  BY <1>2
<1>8. QED  BY <1>4, <1>5, <1>6, <1>7 DEF t

LEMMA WalkOn ==
  ASSUME NEW r, NEW p, NEW A, NEW q \in Seq(A), q /= <<>>, NEW e \in Seq(A),
         NEW o, NEW o2, Walk(r, q, o, p), Shared(r, q[1], e),
         Ahead(r, e, o2), Once(r, o2),
         \A m \in DOMAIN o2 : o2[m].call = Marker(r) =>
           \/ \E n \in DOMAIN o : o[n] = o2[m]
           \/ o2[m].on \in Due(r, q[1]),
         \A n \in DOMAIN o : \E m \in DOMAIN o2 : o2[m] = o[n],
         \A x \in Due(r, q[1]) : Owed(r, p, x) => Met(r, e, o2, x)
  PROVE  Walk(r, e \o Tail(q), o2, p)
<1> DEFINE t == e \o Tail(q)
           at(i) == (i - Len(e)) + 1
<1>1. /\ \A k \in DOMAIN e : k \in DOMAIN t /\ t[k] = e[k]
      /\ \A k \in DOMAIN q \ {1} :
           Len(e) + (k - 1) \in DOMAIN t /\ t[Len(e) + (k - 1)] = q[k]
      /\ \A i \in DOMAIN t :
           \/ i \in DOMAIN e /\ t[i] = e[i]
           \/ i \notin DOMAIN e /\ at(i) \in DOMAIN q \ {1} /\ t[i] = q[at(i)]

  <2>1. q \in Seq(A) /\ q /= <<>> /\ e \in Seq(A)  OBVIOUS
  <2>2. QED  BY ONLY <2>1, Left
<1>2. \A i \in DOMAIN t : \A j \in DOMAIN t :
        i /= j /\ i \notin DOMAIN e /\ j \notin DOMAIN e => at(i) /= at(j)
  <2>1. DOMAIN t \subseteq Int /\ Len(e) \in Nat
    BY Left, LenProperties
  <2>2. QED  BY <2>1
<1>3. 1 \in DOMAIN q  BY LenProperties, EmptySeq
<1> HIDE DEF t, at
<1>4. \A k \in DOMAIN t : t[k].call \in Calls(r)
  BY <1>1 DEF Walk, Shared
<1>5. Apart(r, t)
  <2> SUFFICES ASSUME NEW i \in DOMAIN t, NEW j \in DOMAIN t, i /= j
               PROVE  Due(r, t[i]) \intersect Due(r, t[j]) = {}
    BY DEF Apart
  <2>0. Apart(r, q) /\ Apart(r, e)
        /\ \A k \in DOMAIN e : Due(r, e[k]) \subseteq Due(r, q[1])
    BY DEF Walk, Shared
  <2>1. CASE i \in DOMAIN e /\ j \in DOMAIN e
    BY <1>1, <2>0, <2>1 DEF Apart
  <2>2. CASE i \in DOMAIN e /\ j \notin DOMAIN e
    <3>1. at(j) \in DOMAIN q \ {1} /\ t[j] = q[at(j)] /\ t[i] = e[i]
      BY <1>1, <2>2
    <3>2. Due(r, q[1]) \intersect Due(r, q[at(j)]) = {}
      BY <1>3, <2>0, <3>1 DEF Apart
    <3>3. QED  BY <2>0, <2>2, <3>1, <3>2
  <2>3. CASE i \notin DOMAIN e /\ j \in DOMAIN e
    <3>1. at(i) \in DOMAIN q \ {1} /\ t[i] = q[at(i)] /\ t[j] = e[j]
      BY <1>1, <2>3
    <3>2. Due(r, q[1]) \intersect Due(r, q[at(i)]) = {}
      BY <1>3, <2>0, <3>1 DEF Apart
    <3>3. QED  BY <2>0, <2>3, <3>1, <3>2
  <2>4. CASE i \notin DOMAIN e /\ j \notin DOMAIN e
    BY <1>1, <1>2, <2>0, <2>4 DEF Apart
  <2>5. QED  BY <2>1, <2>2, <2>3, <2>4
<1>6. Ahead(r, t, o2)
  <2> SUFFICES ASSUME NEW i \in DOMAIN t, NEW m \in DOMAIN o2,
                      o2[m].call = Marker(r)
               PROVE  o2[m].on \notin Due(r, t[i])
    BY DEF Ahead
  <2>1. CASE i \in DOMAIN e  BY <1>1, <2>1 DEF Ahead
  <2>2. CASE i \notin DOMAIN e
    <3>1. at(i) \in DOMAIN q \ {1} /\ t[i] = q[at(i)]  BY <1>1, <2>2
    <3>2. CASE \E n \in DOMAIN o : o[n] = o2[m]
      BY <3>1, <3>2 DEF Walk, Ahead
    <3>3. CASE o2[m].on \in Due(r, q[1])
      <4>1. Due(r, q[1]) \intersect Due(r, q[at(i)]) = {}
        BY <1>3, <3>1 DEF Walk, Apart
      <4>2. QED  BY <3>1, <3>3, <4>1
    <3>4. QED  BY <3>2, <3>3
  <2>3. QED  BY <2>1, <2>2
<1>7. ASSUME NEW x, Owed(r, p, x)
      PROVE  Met(r, t, o2, x)
  <2>1. Met(r, q, o, x)  BY <1>7 DEF Walk
  <2>2. CASE \E m \in DOMAIN o : o[m].call = Marker(r) /\ o[m].on = x
    BY <2>2 DEF Met
  <2>3. CASE x \in Due(r, q[1])
    <3>1. Met(r, e, o2, x)  BY <1>7, <2>3
    <3>2. QED  BY <1>1, <3>1 DEF Met
  <2>4. ASSUME NEW k \in DOMAIN q \ {1}, x \in Due(r, q[k])
        PROVE  Met(r, t, o2, x)
    BY <1>1, <2>4 DEF Met
  <2>5. QED  BY <2>1, <2>2, <2>3, <2>4 DEF Met
<1>8. Walk(r, t, o2, p)  BY <1>4, <1>5, <1>6, <1>7 DEF Walk
<1>9. QED  BY <1>8 DEF t

-----------------------------------------------------------------------------
(***************************************************************************)
(* What an answer adds.                                                    *)
(***************************************************************************)
\* A collection names every member once.
LEMMA EachOnce ==
  ASSUME NEW S, IsFiniteSet(S), NEW v \in Orders(S)
  PROVE  /\ v \in Seq(S) /\ DOMAIN v = 1..Len(v)
         /\ \A k \in DOMAIN v : v[k] \in S
         /\ \A j, k \in DOMAIN v : v[j] = v[k] => j = k
         /\ \A x \in S : \E k \in DOMAIN v : v[k] = x
<1> DEFINE n == Cardinality(S)
<1>1. n \in Nat  BY FS_CardinalityType
<1>2. v \in [1..n -> S] /\ {v[i] : i \in DOMAIN v} = S
  BY DEF Orders
<1>3. v \in Surjection(1..n, S)  BY <1>2 DEF Surjection
<1>4. IsFiniteSet(1..n) /\ Cardinality(1..n) = n
  BY <1>1, FS_Interval
<1>5. v \in Injection(1..n, S)
  BY <1>3, <1>4, FS_SurjSameCardinalityImpliesInj
<1>6. \A j, k \in DOMAIN v : v[j] = v[k] => j = k
  BY <1>2, <1>5 DEF Injection, IsInjective
<1>7. v \in Seq(S)  BY <1>1, <1>2
<1>8. QED  BY <1>2, <1>6, <1>7, LenProperties

\* The calls that follow from a listing with the option.
LEMMA Visiting ==
  ASSUME NEW r, NEW f \in Folders
  PROVE  /\ Reach(r, f) \subseteq Folders /\ f \in Reach(r, f)
         /\ r.option = "recursive" =>
              \A g \in Folders : g \in Reach(r, f) <=> f \in Upwards(g)
         /\ r.option /= "recursive" => Reach(r, f) = {f}
BY UpClosed DEF Reach

\* What is below a folder besides itself is below one child, and no more.
LEMMA ChildReach ==
  ASSUME NEW r, NEW f \in Folders, NEW c \in Folders \ {Root}, Parent[c] = f
  PROVE  /\ f \notin Reach(r, c)
         /\ r.option = "recursive" => Reach(r, c) \subseteq Reach(r, f) \ {f}
         /\ \A d \in Folders \ {Root} :
              Parent[d] = f /\ d /= c => Reach(r, c) \intersect Reach(r, d) = {}
         /\ \A g \in Reach(r, c) : g /= Root /\ Parent[g] \in Reach(r, f)
<1>1. f \notin Reach(r, c)
  BY NoCycle, UpClosed DEF Reach
<1>2. ASSUME r.option = "recursive", NEW g \in Reach(r, c)
      PROVE  g \in Reach(r, f) \ {f}
  <2>1. g \in Folders /\ c \in Upwards(g)  BY <1>2, Visiting
  <2>2. f \in Upwards(c)  BY UpOfParent, UpClosed
  <2>3. f \in Upwards(g)  BY <2>1, <2>2, UpUp
  <2>4. QED  BY <1>1, <1>2, <2>1, <2>3, Visiting
<1>3. ASSUME NEW d \in Folders \ {Root}, Parent[d] = f, d /= c,
             NEW g \in Reach(r, c), g \in Reach(r, d)
      PROVE  FALSE
  <2>1. CASE r.option = "recursive"
    <3>1. g \in Folders /\ c \in Upwards(g) /\ d \in Upwards(g)
      BY <1>3, <2>1, Visiting
    <3>2. QED  BY <1>3, <3>1, Siblings
  <2>2. CASE r.option /= "recursive"  BY <1>3, <2>2, Visiting
  <2>3. QED  BY <2>1, <2>2
<1>4. ASSUME NEW g \in Reach(r, c)
      PROVE  g /= Root /\ Parent[g] \in Reach(r, f)
  <2>1. CASE r.option = "recursive"
    <3>1. g \in Folders /\ c \in Upwards(g)  BY <2>1, <1>4, Visiting
    <3>2. g /= Root  BY <3>1, UpOfRoot
    <3>3. Parent[g] \in Folders /\ (c = g \/ c \in Upwards(Parent[g]))
      BY <3>1, <3>2, UpOfParent
    <3>4. f \in Upwards(c)  BY UpOfParent, UpClosed
    <3>5. f \in Upwards(Parent[g])
      <4>1. CASE c = g  BY <3>3, <4>1, UpClosed
      <4>2. CASE c \in Upwards(Parent[g])  BY <3>3, <3>4, <4>2, UpUp
      <4>3. QED  BY <3>3, <4>1, <4>2
    <3>6. QED  BY <2>1, <3>2, <3>3, <3>5, Visiting
  <2>2. CASE r.option /= "recursive"  BY <1>4, <2>2, Visiting
  <2>3. QED  BY <2>1, <2>2
<1>5. QED  BY <1>1, <1>2, <1>3, <1>4

LEMMA WayDown ==
  ASSUME NEW r, NEW w, Rooted(w), NEW f \in Folders, NEW g \in Folders,
         w.folders[g] /= Missing, r.option = "recursive", g \in Reach(r, f),
         g /= f
  PROVE  \E c \in Children(w, f) : g \in Reach(r, c)
<1>1. f \in Upwards(g)  BY Visiting
<1>2. PICK c \in Upwards(g) \ {Root} : Parent[c] = f  BY <1>1, OnTheWay
<1>3. c \in Folders /\ w.folders[c] /= Missing  BY <1>2, UpClosed, PathExists
<1>4. c \in Children(w, f)  BY <1>2, <1>3 DEF Children
<1>5. g \in Reach(r, c)  BY <1>2, <1>3, Visiting
<1>6. QED  BY <1>4, <1>5

LEMMA TwoCalls ==
  ASSUME NEW x, NEW y
  PROVE  LET e == <<x>> \o <<y>>
         IN  DOMAIN e = {1, 2} /\ e[1] = x /\ e[2] = y
<1> DEFINE S == {x, y}
           a == <<x>>
           b == <<y>>
<1>1. a \in Seq(S) /\ b \in Seq(S) /\ Len(a) = 1 /\ Len(b) = 1
      /\ a[1] = x /\ b[1] = y
  OBVIOUS
<1> HIDE DEF a, b
<1>2. Len(a \o b) = 2 /\ a \o b \in Seq(S) /\ (a \o b)[1] = x
      /\ (a \o b)[2] = y
  BY <1>1, ConcatProperties
<1>3. DOMAIN (a \o b) = 1..2  BY <1>2, LenProperties
<1>4. 1..2 = {1, 2}  OBVIOUS
<1>5. QED  BY <1>2, <1>3, <1>4 DEF a, b

\* The opening of a folder and what is then asked for.
LEMMA Opened ==
  ASSUME NEW r, NEW s, NEW call \in {"tasks", "folders"}, NEW f,
         call \in Calls(r), "folder" \in Calls(r),
         Due(r, Native(call, f)) \subseteq Due(r, s)
  PROVE  LET e == OpenFolder(f) \o <<Native(call, f)>>
         IN  /\ Shared(r, s, e) /\ DOMAIN e = {1, 2}
             /\ e[2] = Native(call, f) /\ Due(r, e[1]) = {}
<1> DEFINE e == OpenFolder(f) \o <<Native(call, f)>>
<1>1. DOMAIN e = {1, 2} /\ e[1] = Native("folder", f)
      /\ e[2] = Native(call, f)
  BY TwoCalls DEF OpenFolder
<1>3. Due(r, Native("folder", f)) = {}  BY DEF Due, Native
<1>4. Native("folder", f).call = "folder" /\ Native(call, f).call = call
  BY DEF Native
<1> HIDE DEF e
<1>5. Shared(r, s, e)
  BY <1>1, <1>3, <1>4 DEF Shared, Apart
<1>6. QED  BY <1>1, <1>3, <1>5 DEF e

\* What the calls that an answer adds have to do with the one answered:
\* they share what it had to report, and what exists now is among it.
Covers(r, w, s, e) ==
  \A x \in Due(r, s) :
    There(r, w, x) => \E k \in DOMAIN e : x \in Due(r, e[k])

LEMMA TasksShared ==
  ASSUME NEW r, r.op = "list_tasks", NEW w, NEW s, s.call = "tasks",
         s.on \in Folders, NEW v \in Orders(TasksIn(w, s.on)),
         Rooted(w), NEW a,
         a = IF r.option = "recursive" THEN <<Native("folders", s.on)>>
             ELSE <<>>
  PROVE  LET e == Each("item", v) \o a
         IN  Shared(r, s, e) /\ Covers(r, w, s, e)
<1> DEFINE f == s.on
           e == Each("item", v) \o a
           n == Len(v)
<1>1. /\ v \in Seq(TasksIn(w, f)) /\ DOMAIN v = 1..n /\ n \in Nat
      /\ \A k \in DOMAIN v : v[k] \in TasksIn(w, f)
      /\ \A j, k \in DOMAIN v : v[j] = v[k] => j = k
      /\ \A x \in TasksIn(w, f) : \E k \in DOMAIN v : v[k] = x
  <2>1. IsFiniteSet(TasksIn(w, f))
    BY TreeAssumption, FS_Subset DEF TasksIn
  <2>2. QED  BY <2>1, EachOnce, LenProperties
<1>2. \A t \in TasksIn(w, f) : t \in Tasks /\ FolderOf[t] = f
  BY DEF TasksIn
<1> DEFINE I == {Native("item", t) : t \in TasksIn(w, f)}
           B == I \union {Native("folders", f)}
<1>3. /\ Each("item", v) \in Seq(I) /\ Each("item", v) \in Seq(B)
      /\ Len(Each("item", v)) = n
      /\ \A k \in 1..n : Each("item", v)[k] = Native("item", v[k])
  <2>1. \A t \in TasksIn(w, f) : Native("item", t) \in I
    OBVIOUS
  <2>2. /\ Each("item", v) \in Seq(I) /\ DOMAIN Each("item", v) = DOMAIN v
        /\ \A k \in DOMAIN v : Each("item", v)[k] = Native("item", v[k])
    <3> HIDE DEF I, B, e, f
    <3>1. /\ DOMAIN Each("item", v) = DOMAIN v
          /\ \A k \in DOMAIN v : Each("item", v)[k] = Native("item", v[k])
      BY DEF Each
    <3>2. Each("item", v) \in [1..n -> I]  BY <1>1, <2>1 DEF Each
    <3>3. QED  BY <1>1, <3>1, <3>2
  <2>3. Len(Each("item", v)) = n  BY <1>1, <2>2, LenProperties
  <2>4. I \subseteq B  OBVIOUS
  <2>5. QED  BY <1>1, <2>2, <2>3, <2>4, SeqMonotonic
<1>4. a \in Seq(B) /\ Len(a) = (IF r.option = "recursive" THEN 1 ELSE 0)
      /\ (r.option = "recursive" => a[1] = Native("folders", f))
  <2>1. CASE r.option = "recursive"
    <3>1. a = <<Native("folders", f)>> /\ Native("folders", f) \in B
      BY <2>1
    <3>2. QED  BY <2>1, <3>1
  <2>2. CASE r.option /= "recursive"  BY <2>2, EmptySeq
  <2>3. QED  BY <2>1, <2>2
<1> DEFINE last == n + 1
<1>5. /\ \A k \in 1..n : k \in DOMAIN e /\ e[k] = Native("item", v[k])
      /\ r.option = "recursive" =>
           last \in DOMAIN e /\ e[last] = Native("folders", f)
      /\ \A k \in DOMAIN e :
           k \in 1..n \/ (k = last /\ r.option = "recursive")
  <2> HIDE DEF I, B, n
  <2>1. /\ e \in Seq(B) /\ Len(e) = n + Len(a)
        /\ \A i \in 1..(n + Len(a)) :
             e[i] = IF i <= n THEN Each("item", v)[i] ELSE a[i - n]
    BY <1>1, <1>3, <1>4, ConcatProperties
  <2> HIDE DEF e
  <2>2. DOMAIN e = 1..(n + Len(a))  BY <2>1, LenProperties
  <2>3. ASSUME NEW k \in 1..n
        PROVE  k \in DOMAIN e /\ e[k] = Native("item", v[k])
    BY <1>1, <1>3, <1>4, <2>1, <2>2
  <2>4. ASSUME r.option = "recursive"
        PROVE  last \in DOMAIN e /\ e[last] = Native("folders", f)
    <3>1. last \in 1..(n + Len(a)) /\ ~(last <= n) /\ last - n = 1
      BY <1>1, <1>4, <2>4
    <3> HIDE DEF last
    <3>2. e[last] = a[last - n]  BY <2>1, <3>1
    <3>3. QED  BY <1>4, <2>2, <2>4, <3>1, <3>2
  <2>5. ASSUME NEW k \in DOMAIN e
        PROVE  k \in 1..n \/ (k = last /\ r.option = "recursive")
    BY <1>1, <1>4, <2>2
  <2>6. QED  BY <2>3, <2>4, <2>5
<1> DEFINE Below == {t \in Tasks : FolderOf[t] \in Reach(r, f) \ {f}}
<1>6. /\ Due(r, s) = {t \in Tasks : FolderOf[t] \in Reach(r, f)}
      /\ \A t : Due(r, Native("item", t)) = {t}
      /\ Due(r, Native("folders", f)) = Below
  BY DEF Due, Native
<1>7. f \in Reach(r, f)  BY Visiting
<1>8. "item" \in Calls(r) /\ (r.option = "recursive" => "folders" \in Calls(r))
      /\ \A t : Native("item", t).call = "item"
      /\ Native("folders", f).call = "folders"
  BY DEF Calls, Native
<1> HIDE DEF e, n, f, last, I, B
<1>9. Shared(r, s, e)
  <2>1. ASSUME NEW k \in DOMAIN e
        PROVE  e[k].call \in Calls(r) /\ Due(r, e[k]) \subseteq Due(r, s)
    <3>1. CASE k \in 1..n  BY <1>1, <1>2, <1>5, <1>6, <1>7, <1>8, <3>1
    <3>2. CASE k = last /\ r.option = "recursive"
      BY <1>5, <1>6, <1>8, <3>2
    <3>3. QED  BY <1>5, <3>1, <3>2
  <2>2. ASSUME NEW j \in DOMAIN e, NEW k \in DOMAIN e, j /= k
        PROVE  Due(r, e[j]) \intersect Due(r, e[k]) = {}
    <3>1. ASSUME NEW i \in 1..n
          PROVE  Due(r, e[i]) = {v[i]} /\ v[i] \notin Below
      BY <1>1, <1>2, <1>5, <1>6
    <3>2. CASE j \in 1..n /\ k \in 1..n
      <4>1. v[j] /= v[k]  BY <1>1, <2>2, <3>2
      <4>2. Due(r, e[j]) = {v[j]} /\ Due(r, e[k]) = {v[k]}
        BY <3>1, <3>2, Zenon
      <4>3. QED  BY <4>1, <4>2
    <3>3. CASE j \in 1..n /\ k \notin 1..n
      <4>1. Due(r, e[k]) = Below  BY <1>5, <1>6, <3>3
      <4>2. QED  BY <3>1, <3>3, <4>1
    <3>4. CASE j \notin 1..n /\ k \in 1..n
      <4>1. Due(r, e[j]) = Below  BY <1>5, <1>6, <3>4
      <4>2. QED  BY <3>1, <3>4, <4>1
    <3>5. CASE j \notin 1..n /\ k \notin 1..n  BY <1>5, <2>2, <3>5
    <3>6. QED  BY <3>2, <3>3, <3>4, <3>5
  <2>3. QED  BY <2>1, <2>2 DEF Shared, Apart
<1>10. Covers(r, w, s, e)
  <2> SUFFICES ASSUME NEW x \in Due(r, s), There(r, w, x)
               PROVE  \E k \in DOMAIN e : x \in Due(r, e[k])
    BY DEF Covers
  <2>1. x \in Tasks /\ FolderOf[x] \in Reach(r, f) /\ w.tasks[x] /= Missing
    BY <1>6 DEF There
  <2>2. CASE FolderOf[x] = f
    <3>1. x \in TasksIn(w, f)  BY <2>1, <2>2 DEF TasksIn
    <3>2. PICK k \in DOMAIN v : v[k] = x  BY <1>1, <3>1
    <3>3. QED  BY <1>1, <1>5, <1>6, <3>2
  <2>3. CASE FolderOf[x] /= f
    <3>1. r.option = "recursive"  BY <2>1, <2>3, Visiting DEF f
    <3>2. x \in Below  BY <2>1, <2>3
    <3>3. QED  BY <1>5, <1>6, <3>1, <3>2
  <2>4. QED  BY <2>2, <2>3
<1>11. QED  BY <1>9, <1>10 DEF e

LEMMA ChildrenShared ==
  ASSUME NEW r, r.op \in {"list_tasks", "list_folders"},
         r.op = "list_tasks" => r.option = "recursive",
         NEW w, NEW s, s.call = "folders", s.on \in Folders,
         NEW v \in Orders(Children(w, s.on)), Rooted(w)
  PROVE  Shared(r, s, Each("child", v)) /\ Covers(r, w, s, Each("child", v))
<1> DEFINE f == s.on
           e == Each("child", v)
<1>1. /\ v \in Seq(Children(w, f))
      /\ \A k \in DOMAIN v : v[k] \in Children(w, f)
      /\ \A j, k \in DOMAIN v : v[j] = v[k] => j = k
      /\ \A x \in Children(w, f) : \E k \in DOMAIN v : v[k] = x
  <2>1. IsFiniteSet(Children(w, f))
    BY TreeAssumption, FS_Subset DEF Children
  <2>2. QED  BY <2>1, EachOnce
<1>2. \A c \in Children(w, f) :
        c \in Folders \ {Root} /\ Parent[c] = f /\ w.folders[c] /= Missing
  BY DEF Children
<1>3. DOMAIN e = DOMAIN v /\ \A k \in DOMAIN v : e[k] = Native("child", v[k])
  BY DEF Each
<1>4. ASSUME NEW c \in Children(w, f)
      PROVE  Due(r, Native("child", c)) \subseteq Due(r, s)
  <2>1. CASE r.op = "list_tasks"
    <3>1. /\ Due(r, Native("child", c)) =
               {t \in Tasks : FolderOf[t] \in Reach(r, c)}
          /\ Due(r, s) = {t \in Tasks : FolderOf[t] \in Reach(r, f) \ {f}}
      BY <2>1 DEF Due, Native
    <3>2. Reach(r, c) \subseteq Reach(r, f) \ {f}
      BY <1>2, <2>1, ChildReach
    <3>3. QED  BY <3>1, <3>2
  <2>2. CASE r.op = "list_folders"
    <3>1. /\ Due(r, Native("child", c)) = Reach(r, c)
          /\ Due(r, s) =
               {g \in Folders \ {Root} : Parent[g] \in Reach(r, f)}
      BY <2>2 DEF Due, Native
    <3>2. \A g \in Reach(r, c) : g /= Root /\ Parent[g] \in Reach(r, f)
      BY <1>2, ChildReach
    <3>3. Reach(r, c) \subseteq Folders  BY <1>2, Visiting
    <3>4. QED  BY <3>1, <3>2, <3>3
  <2>3. QED  BY <2>1, <2>2
<1>5. ASSUME NEW c \in Children(w, f), NEW d \in Children(w, f), c /= d
      PROVE  Due(r, Native("child", c)) \intersect Due(r, Native("child", d))
               = {}
  <2>1. Reach(r, c) \intersect Reach(r, d) = {}
    BY <1>2, <1>5, ChildReach
  <2>2. ASSUME NEW b \in {c, d}
        PROVE  Due(r, Native("child", b)) =
                 IF r.op = "list_tasks"
                 THEN {t \in Tasks : FolderOf[t] \in Reach(r, b)}
                 ELSE Reach(r, b)
    BY DEF Due, Native
  <2>3. QED  BY <2>1, <2>2
<1>6. "child" \in Calls(r) /\ \A c : Native("child", c).call = "child"
  BY DEF Calls, Native
<1>7. Covers(r, w, s, e)
  <2> SUFFICES ASSUME NEW x \in Due(r, s), There(r, w, x)
               PROVE  \E c \in Children(w, f) : x \in Due(r, Native("child", c))
    BY <1>1, <1>3 DEF Covers
  <2>1. CASE r.op = "list_tasks"
    <3>1. x \in Tasks /\ FolderOf[x] \in Reach(r, f) /\ FolderOf[x] /= f
          /\ w.tasks[x] /= Missing
      BY <2>1 DEF Due, There
    <3>2. FolderOf[x] \in Folders /\ w.folders[FolderOf[x]] /= Missing
      BY <3>1, TreeAssumption DEF Rooted
    <3>3. PICK c \in Children(w, f) : FolderOf[x] \in Reach(r, c)
      BY <2>1, <3>1, <3>2, WayDown
    <3>4. x \in Due(r, Native("child", c))
      BY <2>1, <3>1, <3>3 DEF Due, Native
    <3>5. QED  BY <3>4
  <2>2. CASE r.op = "list_folders"
    <3>1. x \in Folders \ {Root} /\ Parent[x] \in Reach(r, f)
          /\ w.folders[x] /= Missing
      BY <2>2 DEF Due, There
    <3>2. \A c : Due(r, Native("child", c)) = Reach(r, c)
      BY <2>2 DEF Due, Native
    <3>3. CASE Parent[x] = f
      <4>1. x \in Children(w, f)  BY <3>1, <3>3 DEF Children
      <4>2. x \in Reach(r, x)  BY <3>1, Visiting
      <4>3. QED  BY <3>2, <4>1, <4>2
    <3>4. CASE Parent[x] /= f
      <4>1. r.option = "recursive" /\ f \in Upwards(Parent[x])
            /\ Parent[x] \in Folders
        BY <3>1, <3>4, Visiting, UpOfParent
      <4>2. f \in Upwards(x) /\ f /= x
        BY <3>1, <4>1, UpOfParent, NoCycle
      <4>3. x \in Reach(r, f)  BY <3>1, <4>1, <4>2, Visiting
      <4>4. PICK c \in Children(w, f) : x \in Reach(r, c)
        BY <3>1, <4>1, <4>2, <4>3, WayDown
      <4>5. QED  BY <3>2, <4>4
    <3>5. QED  BY <3>3, <3>4
  <2>3. QED  BY <2>1, <2>2
<1> HIDE DEF e
<1>8. Shared(r, s, e)
  <2>1. ASSUME NEW k \in DOMAIN e
        PROVE  e[k].call \in Calls(r) /\ Due(r, e[k]) \subseteq Due(r, s)
    BY <1>1, <1>3, <1>4, <1>6
  <2>2. ASSUME NEW j \in DOMAIN e, NEW k \in DOMAIN e, j /= k
        PROVE  Due(r, e[j]) \intersect Due(r, e[k]) = {}
    <3>1. v[j] /= v[k] /\ v[j] \in Children(w, f) /\ v[k] \in Children(w, f)
      BY <1>1, <1>3, <2>2
    <3>2. QED  BY <1>3, <1>5, <3>1
  <2>3. QED  BY <2>1, <2>2 DEF Shared, Apart
<1>9. QED  BY <1>7, <1>8 DEF e

LEMMA InstancesShared ==
  ASSUME NEW r, r.op = "running_tasks", NEW w, NEW s, s.call = "running",
         NEW v \in Orders(Running(w))
  PROVE  Shared(r, s, Each("instance", v))
           /\ Covers(r, w, s, Each("instance", v))
<1> DEFINE e == Each("instance", v)
<1>1. /\ \A k \in DOMAIN v : v[k] \in Running(w)
      /\ \A j, k \in DOMAIN v : v[j] = v[k] => j = k
      /\ \A x \in Running(w) : \E k \in DOMAIN v : v[k] = x
  <2>1. IsFiniteSet(Running(w))
    BY TreeAssumption, FS_Subset DEF Running
  <2>2. QED  BY <2>1, EachOnce
<1>2. DOMAIN e = DOMAIN v
      /\ \A k \in DOMAIN v : e[k] = Native("instance", v[k])
  BY DEF Each
<1>3. /\ Due(r, s) = Instances /\ "instance" \in Calls(r)
      /\ \A i : /\ Due(r, Native("instance", i)) = {i}
                /\ Native("instance", i).call = "instance"
      /\ \A x : There(r, w, x) <=> x \in Running(w)
  BY DEF Due, Native, Calls, There
<1>4. Running(w) \subseteq Instances  BY DEF Running
<1> HIDE DEF e
<1>5. Shared(r, s, e)  BY <1>1, <1>2, <1>3, <1>4 DEF Shared, Apart
<1>6. Covers(r, w, s, e)  BY <1>1, <1>2, <1>3 DEF Covers
<1>7. QED  BY <1>5, <1>6 DEF e

-----------------------------------------------------------------------------
(***************************************************************************)
(* The steps of the walk.                                                  *)
(***************************************************************************)
LEMMA Appended ==
  ASSUME NEW B, NEW o \in Seq(B), NEW x \in B
  PROVE  /\ \A n \in DOMAIN o : n \in DOMAIN Append(o, x)
                                  /\ Append(o, x)[n] = o[n]
         /\ Len(o) + 1 \in DOMAIN Append(o, x)
         /\ Append(o, x)[Len(o) + 1] = x
         /\ \A m \in DOMAIN Append(o, x) : m \in DOMAIN o \/ m = Len(o) + 1
         /\ Len(o) + 1 \notin DOMAIN o
<1>1. /\ Append(o, x) \in Seq(B) /\ Len(Append(o, x)) = Len(o) + 1
      /\ \A i \in 1..Len(o) : Append(o, x)[i] = o[i]
      /\ Append(o, x)[Len(o) + 1] = x
      /\ Len(o) \in Nat
  BY AppendProperties, LenProperties
<1>2. DOMAIN o = 1..Len(o) /\ DOMAIN Append(o, x) = 1..(Len(o) + 1)
  BY <1>1, LenProperties
<1>3. QED  BY <1>1, <1>2

\* A step of the walk: the first call is replaced by those that its answer
\* adds, and what it reports it reports once.
LEMMA WalkStep ==
  ASSUME NEW r, NEW p, NEW A, NEW q \in Seq(A), q /= <<>>, NEW e \in Seq(A),
         NEW B, NEW o \in Seq(B), NEW x \in B, NEW o2,
         Walk(r, q, o, p), Shared(r, q[1], e),
         o2 = o \/ o2 = Append(o, x),
         o2 = Append(o, x) /\ x.call = Marker(r) =>
           /\ x.on \in Due(r, q[1])
           /\ \A k \in DOMAIN e : x.on \notin Due(r, e[k]),
         \A y \in Due(r, q[1]) : Owed(r, p, y) =>
           \/ \E k \in DOMAIN e : y \in Due(r, e[k])
           \/ o2 = Append(o, x) /\ x.call = Marker(r) /\ x.on = y
  PROVE  Walk(r, e \o Tail(q), o2, p)
<1>0. 1 \in DOMAIN q  BY LenProperties, EmptySeq
<1>1. /\ \A m \in DOMAIN o : o[m].call = Marker(r) => o[m].on \notin Due(r, q[1])
      /\ \A k \in DOMAIN e : Due(r, e[k]) \subseteq Due(r, q[1])
      /\ Once(r, o)
  BY <1>0 DEF Walk, Ahead, Shared
<1>2. CASE o2 = o /\ o2 /= Append(o, x)
  <2>1. Ahead(r, e, o2)  BY <1>1, <1>2 DEF Ahead
  <2>2. Once(r, o2)  BY <1>1, <1>2
  <2>3. \A y \in Due(r, q[1]) : Owed(r, p, y) => Met(r, e, o2, y)
    BY <1>2 DEF Met
  <2>4. \A m \in DOMAIN o2 : o2[m].call = Marker(r) =>
          \/ \E n \in DOMAIN o : o[n] = o2[m]
          \/ o2[m].on \in Due(r, q[1])
    BY <1>2
  <2>5. \A n \in DOMAIN o : \E m \in DOMAIN o2 : o2[m] = o[n]
    BY <1>2
  <2>6. QED  BY <2>1, <2>2, <2>3, <2>4, <2>5, WalkOn
<1>3. CASE o2 = Append(o, x)
  <2> DEFINE last == Len(o) + 1
  <2>1. /\ \A n \in DOMAIN o : n \in DOMAIN o2 /\ o2[n] = o[n]
        /\ last \in DOMAIN o2 /\ o2[last] = x
        /\ \A m \in DOMAIN o2 : m \in DOMAIN o \/ m = last
    BY <1>3, Appended
  <2> HIDE DEF last
  <2>2. Ahead(r, e, o2)
    <3> SUFFICES ASSUME NEW k \in DOMAIN e, NEW m \in DOMAIN o2,
                        o2[m].call = Marker(r)
                 PROVE  o2[m].on \notin Due(r, e[k])
      BY DEF Ahead
    <3>1. CASE m \in DOMAIN o  BY <1>1, <2>1, <3>1
    <3>2. CASE m = last  BY <1>3, <2>1, <3>2
    <3>3. QED  BY <2>1, <3>1, <3>2
  <2>3. Once(r, o2)
    <3> SUFFICES ASSUME NEW m \in DOMAIN o2, NEW n \in DOMAIN o2,
                        o2[m].call = Marker(r), o2[n].call = Marker(r),
                        o2[m].on = o2[n].on
                 PROVE  m = n
      BY DEF Once
    <3>1. CASE m \in DOMAIN o /\ n \in DOMAIN o
      BY <1>1, <2>1, <3>1 DEF Once
    <3>2. CASE m \in DOMAIN o /\ n = last
      <4>1. x.on \in Due(r, q[1])  BY <1>3, <2>1, <3>2
      <4>2. o[m].on \notin Due(r, q[1])  BY <1>1, <2>1, <3>2
      <4>3. QED  BY <2>1, <3>2, <4>1, <4>2
    <3>3. CASE m = last /\ n \in DOMAIN o
      <4>1. x.on \in Due(r, q[1])  BY <1>3, <2>1, <3>3
      <4>2. o[n].on \notin Due(r, q[1])  BY <1>1, <2>1, <3>3
      <4>3. QED  BY <2>1, <3>3, <4>1, <4>2
    <3>4. QED  BY <2>1, <3>1, <3>2, <3>3
  <2>4. \A m \in DOMAIN o2 : o2[m].call = Marker(r) =>
          \/ \E n \in DOMAIN o : o[n] = o2[m]
          \/ o2[m].on \in Due(r, q[1])
    BY <1>3, <2>1
  <2>5. \A n \in DOMAIN o : \E m \in DOMAIN o2 : o2[m] = o[n]
    BY <2>1
  <2>6. \A y \in Due(r, q[1]) : Owed(r, p, y) => Met(r, e, o2, y)
    BY <2>1 DEF Met
  <2>7. QED  BY <2>2, <2>3, <2>4, <2>5, <2>6, WalkOn
<1>4. QED  BY <1>2, <1>3

\* What is owed exists now.
LEMMA OwedNow ==
  ASSUME NEW r, NEW p, NEW w \in p, NEW s, NEW e, Covers(r, w, s, e),
         NEW y \in Due(r, s), Owed(r, p, y)
  PROVE  \E k \in DOMAIN e : y \in Due(r, e[k])
BY DEF Covers, Owed

\* An answer that adds no calls.
LEMMA NothingAdded ==
  ASSUME NEW r, NEW s
  PROVE  Shared(r, s, <<>>)
<1>1. DOMAIN <<>> = {}  OBVIOUS
<1>2. QED  BY <1>1 DEF Shared, Apart

LEMMA NothingDue ==
  ASSUME NEW r, NEW w, NEW s, Due(r, s) = {}
  PROVE  Shared(r, s, <<>>) /\ Covers(r, w, s, <<>>)
BY NothingAdded DEF Covers

\* The answer to any call of a listing that does not report: its calls share
\* what was due.
LEMMA QuietCalls ==
  ASSUME Inv, Rooted(world), stage = "reading", request.op \in Listings,
         NEW s \in Allowed(request, stage, past), s.call \in Calls(request),
         s.call /= Marker(request),
         NEW result \in Results(s), result.ok
  PROVE  /\ Shared(request, s, Expansion(s, result.value))
         /\ Covers(request, world, s, Expansion(s, result.value))
<1> DEFINE r == request
           v == result.value
           e == Expansion(s, v)
<1>1. /\ s.call \in OfFolder => s.on \in Folders
      /\ s.call \in OfTask => s.on \in Tasks
  BY DEF Allowed, Fits
<1>2. CASE s.call \in {"folder", "enabled"}
  <2>1. e = <<>>  BY <1>2 DEF Expansion
  <2>2. Due(r, s) = {}  BY <1>2 DEF Due
  <2>3. QED  BY <2>1, <2>2, NothingDue
<1>3. CASE s.call = "tasks"
  <2>1. r.op = "list_tasks" /\ s.on \in Folders
    BY <1>1, <1>3 DEF Calls, OfFolder, Listings
  <2>2. v \in Orders(TasksIn(world, s.on))
    BY <1>3 DEF Results, Collection, Found, Error
  <2>3. e = Each("item", v) \o AfterTasks(s.on)
    BY <1>3 DEF Expansion
  <2>4. AfterTasks(s.on) = IF r.option = "recursive"
                           THEN <<Native("folders", s.on)>> ELSE <<>>
    BY DEF AfterTasks, Recursive
  <2>5. QED  BY <1>3, <2>1, <2>2, <2>3, <2>4, TasksShared
<1>4. CASE s.call = "folders"
  <2>1. /\ r.op \in {"list_tasks", "list_folders"} /\ s.on \in Folders
        /\ r.op = "list_tasks" => r.option = "recursive"
    BY <1>1, <1>4 DEF Calls, OfFolder, Listings
  <2>2. v \in Orders(Children(world, s.on))
    BY <1>4 DEF Results, Collection, Found, Error
  <2>3. e = Each("child", v)  BY <1>4 DEF Expansion
  <2>4. QED  BY <1>4, <2>1, <2>2, <2>3, ChildrenShared
<1>5. CASE s.call = "running"
  <2>1. r.op = "running_tasks"  BY <1>5 DEF Calls, Listings
  <2>2. v \in Orders(Running(world))  BY <1>5 DEF Results, Found
  <2>3. e = Each("instance", v)  BY <1>5 DEF Expansion
  <2>4. QED  BY <1>5, <2>1, <2>2, <2>3, InstancesShared
<1>6. CASE s.call = "item"
  <2>1. r.op = "list_tasks"  BY <1>6 DEF Calls, Listings
  <2>2. e = <<Native("enabled", s.on), Native("xml", s.on)>>
    BY <1>6 DEF Expansion, TaskInfo
  <2>3. DOMAIN e = {1, 2} /\ e[1] = Native("enabled", s.on)
        /\ e[2] = Native("xml", s.on)
    BY <2>2
  <2>4. /\ Due(r, s) = {s.on} /\ Due(r, Native("enabled", s.on)) = {}
        /\ Due(r, Native("xml", s.on)) = {s.on}
        /\ Native("enabled", s.on).call = "enabled"
        /\ Native("xml", s.on).call = "xml"
        /\ {"enabled", "xml"} \subseteq Calls(r)
    BY <1>6, <2>1 DEF Due, Native, Calls
  <2> HIDE DEF e
  <2>5. Shared(r, s, e)  BY <2>3, <2>4 DEF Shared, Apart
  <2>6. Covers(r, world, s, e)  BY <2>3, <2>4 DEF Covers
  <2>7. QED  BY <2>5, <2>6 DEF e
<1>7. CASE s.call = "child"
  <2>1. r.op = "list_tasks" /\ r.option = "recursive" /\ s.on \in Folders
    BY <1>1, <1>7 DEF Calls, OfFolder, Listings, Marker
  <2>2. e = OpenFolder(s.on) \o <<Native("tasks", s.on)>>
    BY <1>7, <2>1 DEF Expansion, Visit, ListTasks, Recursive
  <2>3. /\ Due(r, Native("tasks", s.on)) = Due(r, s)
        /\ "tasks" \in Calls(r) /\ "folder" \in Calls(r)
    BY <1>7, <2>1 DEF Due, Native, Calls
  <2> HIDE DEF e
  <2>4. /\ Shared(r, s, e) /\ DOMAIN e = {1, 2}
        /\ e[2] = Native("tasks", s.on)
    BY <2>2, <2>3, Opened
  <2>5. Covers(r, world, s, e)  BY <2>3, <2>4 DEF Covers
  <2>6. QED  BY <2>4, <2>5 DEF e
<1>8. s.call \notin {"xml", "instance"}
  BY DEF Marker, Calls, Listings
<1>9. QED
  BY <1>2, <1>3, <1>4, <1>5, <1>6, <1>7, <1>8 DEF Calls, Listings

\* The answer to a call that reports: it reports what it had to, and what it
\* adds has to report the rest.
LEMMA ReportingCalls ==
  ASSUME Inv, stage = "reading", request.op \in Listings,
         NEW s \in Allowed(request, stage, past), s.call = Marker(request),
         NEW v
  PROVE  /\ Shared(request, s, Expansion(s, v)) /\ s.on \in Due(request, s)
         /\ \A k \in DOMAIN Expansion(s, v) :
              s.on \notin Due(request, Expansion(s, v)[k])
         /\ \A y \in Due(request, s) \ {s.on} :
              \E k \in DOMAIN Expansion(s, v) :
                y \in Due(request, Expansion(s, v)[k])
<1> DEFINE r == request
           e == Expansion(s, v)
<1>1. CASE s.call \in {"xml", "instance"}
  <2>1. e = <<>>  BY <1>1 DEF Expansion
  <2>2. Due(r, s) = {s.on}  BY <1>1 DEF Due
  <2>3. DOMAIN e = {}  BY <2>1
  <2>4. QED  BY <2>1, <2>2, <2>3, NothingAdded
<1>2. CASE s.call = "child"
  <2>1. r.op = "list_folders" /\ s.on \in Folders
    BY <1>2 DEF Marker, Listings, Allowed, Fits, OfFolder
  <2>2. Due(r, s) = Reach(r, s.on) /\ s.on \in Reach(r, s.on)
    BY <1>2, <2>1, Visiting DEF Due
  <2>3. CASE r.option = "recursive"
    <3>1. e = OpenFolder(s.on) \o <<Native("folders", s.on)>>
      BY <1>2, <2>1, <2>3 DEF Expansion, Visit, ListFolders, Recursive
    <3>2. Due(r, Native("folders", s.on)) =
            {g \in Folders \ {Root} : Parent[g] \in Reach(r, s.on)}
      BY <2>1 DEF Due, Native
    <3>3. ASSUME NEW g \in Folders
          PROVE  g \in Due(r, Native("folders", s.on)) <=>
                   g \in Reach(r, s.on) /\ g /= s.on
      <4>1. CASE g = Root
        <5>1. g \in Reach(r, s.on) => g = s.on
          BY <2>1, <2>3, <4>1, Visiting, UpOfRoot
        <5>2. QED  BY <3>2, <4>1, <5>1
      <4>2. CASE g /= Root
        <5>1. Parent[g] \in Folders
              /\ (s.on \in Upwards(g) <=>
                    s.on = g \/ s.on \in Upwards(Parent[g]))
          BY <4>2, UpOfParent
        <5>2. g \notin Upwards(Parent[g])  BY <4>2, NoCycle
        <5>3. QED  BY <2>1, <2>3, <3>2, <4>2, <5>1, <5>2, Visiting
      <4>3. QED  BY <4>1, <4>2
    <3>4. Due(r, Native("folders", s.on)) = Due(r, s) \ {s.on}
      <4>1. Due(r, Native("folders", s.on)) \subseteq Folders
            /\ Due(r, s) \subseteq Folders
        BY <2>1, <2>2, <3>2, Visiting
      <4>2. QED  BY <2>2, <3>3, <4>1
    <3>5. /\ "folders" \in Calls(r) /\ "folder" \in Calls(r)
          /\ Due(r, Native("folders", s.on)) \subseteq Due(r, s)
      BY <2>1, <3>4 DEF Calls
    <3> HIDE DEF e
    <3>6. /\ Shared(r, s, e) /\ DOMAIN e = {1, 2}
          /\ e[2] = Native("folders", s.on) /\ Due(r, e[1]) = {}
      BY <3>1, <3>5, Opened
    <3>7. QED  BY <2>2, <3>4, <3>6 DEF e
  <2>4. CASE r.option /= "recursive"
    <3>1. e = <<>>  BY <1>2, <2>4 DEF Expansion, Recursive
    <3>2. Due(r, s) = {s.on}  BY <2>1, <2>2, <2>4, Visiting
    <3>3. DOMAIN e = {}  BY <3>1
    <3>4. QED  BY <3>1, <3>2, <3>3, NothingAdded
  <2>5. QED  BY <2>3, <2>4
<1>3. QED  BY <1>1, <1>2 DEF Marker, Listings

Walking == stage = "reading" /\ request.op \in Listings =>
             Walk(request, todo, output, past)
Fresh == stage \in {"connecting", "idle"} => output = <<>>

ListInv == Walking /\ Fresh /\ Rooted(world) /\ faults \in Nat
             /\ ListingsComplete

LEMMA ListingStage ==
  ASSUME Inv, Serving, request.op \in Listings
  PROVE  stage = "reading"
BY DEF Inv, TypeInv, Serving, Listings, Mutations

LEMMA ProceedWalk ==
  ASSUME Inv, ListInv, stage = "reading", request.op \in Listings,
         todo /= <<>>, NEW result \in Results(Head(todo)), result.ok,
         Proceed(Head(todo), result.value)
  PROVE  stage' = "reading" /\ Walk(request, todo', output', past)
<1> DEFINE A == Allowed(request, stage, past)
           s == Head(todo)
           v == result.value
           e == Expansion(s, v)
           x == [call |-> s.call, on |-> s.on, value |-> v]
<1>1. /\ world \in past /\ output \in Seq(Shown(past)) /\ todo \in Seq(A)
      /\ Rooted(world) /\ Walk(request, todo, output, past)
  BY DEF Inv, TypeInv, Serving, ListInv, Walking
<1>2. s \in A /\ s = todo[1] /\ 1 \in DOMAIN todo
  BY <1>1, HeadTailProperties, LenProperties, EmptySeq
<1>3. s.call \in Calls(request)  BY <1>1, <1>2 DEF Walk
<1>4. /\ stage' = "reading" /\ todo' = e \o Tail(todo)
      /\ output' = IF s.call \in Reported THEN Append(output, x) ELSE output
  <2>1. ~Unneeded(s, v)  BY DEF Unneeded, Comparing, Listings
  <2>2. ~Match(s, v)  BY DEF Match, Listings
  <2>3. QED  BY <2>1, <2>2 DEF Proceed
<1>5. e \in Seq(A)  BY <1>2, ExpansionAllowed DEF Inv
<1>6. CASE s.call /= Marker(request)
  <2>1. Shared(request, s, e) /\ Covers(request, world, s, e)
    BY <1>1, <1>2, <1>3, <1>6, QuietCalls
  <2>2. \A y \in Due(request, s) : Owed(request, past, y) =>
          \E k \in DOMAIN e : y \in Due(request, e[k])
    BY <1>1, <2>1, OwedNow
  <2>3. x.call /= Marker(request)  BY <1>6
  <2>4. CASE s.call \in Reported
    <3>1. x \in Shown(past)  BY <1>2, <2>4, ReportedTrue DEF Inv
    <3>2. output' = Append(output, x)  BY <1>4, <2>4
    <3> HIDE DEF x, e, A
    <3>3. QED  BY <1>1, <1>2, <1>4, <1>5, <2>1, <2>2, <2>3, <3>1, <3>2, WalkStep
  <2>5. CASE s.call \notin Reported
    <3>1. output' = output  BY <1>4, <2>5
    <3> DEFINE B == Shown(past) \union {x}
    <3>2. output \in Seq(B) /\ x \in B  BY <1>1, SeqMonotonic
    <3> HIDE DEF x, e, A, B
    <3>3. QED  BY <1>1, <1>2, <1>4, <1>5, <2>1, <2>2, <2>3, <3>1, <3>2, WalkStep
  <2>6. QED  BY <2>4, <2>5
<1>7. CASE s.call = Marker(request)
  <2>1. s.call \in Reported  BY <1>7 DEF Marker, Listings, Reported
  <2>2. x \in Shown(past)  BY <1>2, <2>1, ReportedTrue DEF Inv
  <2>3. output' = Append(output, x)  BY <1>4, <2>1
  <2>4. /\ Shared(request, s, e) /\ s.on \in Due(request, s)
        /\ \A k \in DOMAIN e : s.on \notin Due(request, e[k])
        /\ \A y \in Due(request, s) \ {s.on} :
             \E k \in DOMAIN e : y \in Due(request, e[k])
    BY <1>2, <1>7, ReportingCalls
  <2>5. x.on = s.on /\ x.call = Marker(request)  BY <1>7
  <2> HIDE DEF x, e, A
  <2>6. \A y \in Due(request, s) :
          \/ \E k \in DOMAIN e : y \in Due(request, e[k])
          \/ x.on = y
    BY <2>4, <2>5
  <2>7. QED
    BY <1>1, <1>2, <1>4, <1>5, <2>2, <2>3, <2>4, <2>5, <2>6, WalkStep
<1>8. QED  BY <1>4, <1>6, <1>7

\* An instance that has ended drops out of the enumeration.
LEMMA ToleratedWalk ==
  ASSUME Inv, ListInv, stage = "reading", request.op \in Listings,
         todo /= <<>>, NEW kind, Tolerated(Head(todo), kind),
         Failure(Head(todo), kind)
  PROVE  Walk(request, Tail(todo), output, past)
<1> DEFINE A == Allowed(request, stage, past)
           s == Head(todo)
<1>1. /\ world \in past /\ output \in Seq(Shown(past)) /\ todo \in Seq(A)
      /\ Walk(request, todo, output, past)
  BY DEF Inv, TypeInv, Serving, ListInv, Walking
<1>2. s \in A /\ s = todo[1] /\ 1 \in DOMAIN todo /\ Tail(todo) \in Seq(A)
  BY <1>1, HeadTailProperties, LenProperties, EmptySeq
<1>3. s.call \in Calls(request)  BY <1>1, <1>2 DEF Walk
<1>4. request.op = "running_tasks" /\ s.call = "instance" /\ kind = "ended"
  BY <1>3 DEF Tolerated, Listings, Calls
<1>5. PICK result \in Results(s) : ~result.ok /\ result.value = "ended"
  BY <1>4 DEF Failure
<1>6. s.on \notin Running(world)
  BY <1>4, <1>5 DEF Results, Present, Found
<1>7. Due(request, s) = {s.on}  BY <1>4 DEF Due
<1>8. \A y \in Due(request, s) : ~Owed(request, past, y)
  BY <1>1, <1>4, <1>6, <1>7 DEF Owed, There
<1>9. Shared(request, todo[1], <<>>) /\ <<>> \in Seq(A)
      /\ <<>> \o Tail(todo) = Tail(todo)
  BY <1>2, NothingAdded, EmptySeq, ConcatEmptySeq
<1> DEFINE B == Shown(past) \union {s}
<1>10. output \in Seq(B) /\ s \in B /\ output /= Append(output, s)
  <2>1. output \in Seq(B)  BY <1>1, SeqMonotonic
  <2>2. Len(Append(output, s)) = Len(output) + 1 /\ Len(output) \in Nat
    BY <2>1, AppendProperties, LenProperties
  <2>3. QED  BY <2>1, <2>2
<1> HIDE DEF A, B, s
<1>11. Walk(request, <<>> \o Tail(todo), output, past)
  BY <1>1, <1>2, <1>8, <1>9, <1>10, WalkStep
<1>12. QED  BY <1>9, <1>11

\* Without an injected failure the enumeration never fails.
LEMMA EnumerationFails ==
  ASSUME Inv, ListInv, stage = "reading", request.op = "running_tasks",
         todo /= <<>>, NEW result \in Results(Head(todo)), ~result.ok
  PROVE  Tolerated(Head(todo), result.value)
<1> DEFINE s == Head(todo)
<1>1. todo \in Seq(Allowed(request, stage, past))
      /\ Walk(request, todo, output, past)
  BY DEF Inv, TypeInv, Serving, ListInv, Walking, Listings
<1>2. s = todo[1] /\ 1 \in DOMAIN todo
  BY <1>1, HeadTailProperties, LenProperties, EmptySeq
<1>3. s.call \in {"running", "instance"}  BY <1>1, <1>2 DEF Walk, Calls
<1>4. s.call /= "running"
  BY DEF Results, Found
<1>5. result.value = "ended"
  BY <1>3, <1>4 DEF Results, Present, Found, Error
<1>6. QED  BY <1>3, <1>4, <1>5 DEF Tolerated

\* The count of what has been reported.
LEMMA TimesReported ==
  ASSUME NEW B, output \in Seq(B), NEW r, Once(r, output), NEW x
  PROVE  /\ Times(Marker(r), x) <= 1
         /\ (\E m \in DOMAIN output :
               output[m].call = Marker(r) /\ output[m].on = x)
              => Times(Marker(r), x) = 1
<1> DEFINE M == {k \in DOMAIN output :
                   output[k].call = Marker(r) /\ output[k].on = x}
<1>1. Times(Marker(r), x) = Cardinality(M)  BY DEF Times
<1>2. /\ \A m \in DOMAIN output :
           output[m].call = Marker(r) /\ output[m].on = x => m \in M
      /\ \A m, n \in M : m = n
  BY DEF Once
<1> HIDE DEF M
<1>3. CASE M = {}
  <2>1. Cardinality(M) = 0  BY <1>3, FS_EmptySet
  <2>2. QED  BY <1>1, <1>2, <1>3, <2>1
<1>4. CASE M /= {}
  <2>1. PICK m \in M : TRUE  BY <1>4
  <2>2. M = {m}  BY <1>2, <2>1
  <2>3. Cardinality(M) = 1  BY <2>2, FS_Singleton
  <2>4. QED  BY <1>1, <2>3
<1>5. QED  BY <1>3, <1>4

\* At the end of the walk nothing is due.
LEMMA WalkEnds ==
  ASSUME Inv, ListInv, stage = "reading", request.op \in Listings,
         todo = <<>>
  PROVE  \A x : /\ Times(Marker(request), x) <= 1
                /\ Owed(request, past, x) => Times(Marker(request), x) = 1
<1>1. output \in Seq(Shown(past)) /\ Walk(request, todo, output, past)
  BY DEF Inv, TypeInv, ListInv, Walking
<1>2. DOMAIN todo = {}  OBVIOUS
<1>3. \A x : Owed(request, past, x) =>
        \E m \in DOMAIN output :
          output[m].call = Marker(request) /\ output[m].on = x
  BY <1>1, <1>2 DEF Walk, Met
<1>4. Once(request, output)  BY <1>1 DEF Walk
<1>5. QED  BY <1>1, <1>3, <1>4, TimesReported

-----------------------------------------------------------------------------
(***************************************************************************)
(* The service keeps its tree, and every step the walk.                    *)
(***************************************************************************)
LEMMA TaskRooted ==
  ASSUME NEW w \in World, Rooted(w), NEW t \in Tasks, NEW x,
         x /= Missing => w.folders[FolderOf[t]] /= Missing
  PROVE  Rooted([w EXCEPT !.tasks[t] = x])
<1> DEFINE v == [w EXCEPT !.tasks[t] = x]
<1>1. v.folders = w.folders /\ v.tasks = [w.tasks EXCEPT ![t] = x]
  BY WorldParts
<1>2. v.tasks[t] = x /\ \A u \in Tasks \ {t} : v.tasks[u] = w.tasks[u]
  BY <1>1, WorldParts
<1> HIDE DEF v
<1>3. Rooted(v)  BY <1>1, <1>2 DEF Rooted
<1>4. QED  BY <1>3 DEF v

LEMMA FolderRooted ==
  ASSUME NEW w \in World, Rooted(w), NEW f \in Folders, NEW x,
         x /= Missing /\ f /= Root => w.folders[Parent[f]] /= Missing,
         x = Missing => f /= Root /\ Empty(w, f)
  PROVE  Rooted([w EXCEPT !.folders[f] = x])
<1> DEFINE v == [w EXCEPT !.folders[f] = x]
<1>1. v.tasks = w.tasks /\ v.folders = [w.folders EXCEPT ![f] = x]
  BY WorldParts
<1>2. v.folders[f] = x /\ \A g \in Folders \ {f} : v.folders[g] = w.folders[g]
  BY <1>1, WorldParts
<1> HIDE DEF v
<1>3. v.folders[Root] /= Missing
  BY <1>2, TreeAssumption DEF Rooted
<1>4. ASSUME NEW g \in Folders \ {Root}, v.folders[g] /= Missing
      PROVE  v.folders[Parent[g]] /= Missing
  <2>1. Parent[g] \in Folders  BY TreeAssumption
  <2>2. w.folders[Parent[g]] /= Missing
    BY <1>2, <1>4 DEF Rooted
  <2>3. Parent[g] = f => x /= Missing
    <3> SUFFICES ASSUME Parent[g] = f, x = Missing PROVE FALSE  OBVIOUS
    <3>1. g /= f /\ g \notin Children(w, f)  BY <1>2, <1>4 DEF Empty
    <3>2. w.folders[g] /= Missing  BY <1>2, <1>4, <3>1
    <3>3. QED  BY <3>1, <3>2 DEF Children
  <2>4. QED  BY <1>2, <2>1, <2>2, <2>3
<1>5. ASSUME NEW t \in Tasks, v.tasks[t] /= Missing
      PROVE  v.folders[FolderOf[t]] /= Missing
  <2>1. FolderOf[t] \in Folders /\ w.tasks[t] /= Missing
        /\ w.folders[FolderOf[t]] /= Missing
    BY <1>1, <1>5, TreeAssumption DEF Rooted
  <2>2. FolderOf[t] = f => x /= Missing
    BY <2>1 DEF Empty, TasksIn
  <2>3. QED  BY <1>2, <2>1, <2>2
<1>6. Rooted(v)  BY <1>3, <1>4, <1>5 DEF Rooted
<1>7. QED  BY <1>6 DEF v

LEMMA OutcomesRooted ==
  ASSUME NEW w \in World, Rooted(w), NEW r \in AllRequests,
         RefusedAtOnce(r) = "none", NEW v \in Outcomes(r, w)
  PROVE  Rooted(v)
<1>1. CASE r.op = "delete_task"
  <2>1. r.on \in Tasks  BY <1>1, RequestKinds DEF TaskOps
  <2>2. v = [w EXCEPT !.tasks[r.on] = Missing]  BY <1>1 DEF Outcomes
  <2>3. QED  BY <2>1, <2>2, TaskRooted
<1>2. CASE r.op = "set_enabled"
  <2>1. r.on \in Tasks  BY <1>2, RequestKinds DEF TaskOps
  <2>2. w.tasks[r.on] /= Missing  BY <1>2, <2>1 DEF Outcomes, Exists
  <2>3. v = [w EXCEPT !.tasks[r.on].enabled = r.want]
    BY <1>2 DEF Outcomes
  <2>4. v = [w EXCEPT !.tasks[r.on] =
                        [w.tasks[r.on] EXCEPT !.enabled = r.want]]
    BY <2>1, <2>3, WorldParts
  <2>5. w.folders[FolderOf[r.on]] /= Missing  BY <2>1, <2>2 DEF Rooted
  <2>6. QED  BY <2>1, <2>4, <2>5, TaskRooted
<1>3. CASE r.op \in {"stop_all", "run", "stop_instance", "set_history_enabled"}
  <2>1. v.tasks = w.tasks /\ v.folders = w.folders
    BY <1>3 DEF Outcomes, World
  <2>2. QED  BY <2>1 DEF Rooted
<1>4. CASE r.op \in Registrations
  <2>1. r.on \in Tasks  BY <1>4, RequestKinds DEF TaskOps
  <2>2. CASE v = w  BY <2>2
  <2>3. CASE v /= w
    <3>1. PICK x \in Registered(w, r.on, r.want) :
            v = [w EXCEPT !.tasks[r.on] = x]
      BY <1>4, <2>3 DEF Outcomes, Registrations
    <3>2. w.folders[FolderOf[r.on]] /= Missing
      BY <1>4 DEF Outcomes, Registrations, Registrable
    <3>3. QED  BY <2>1, <3>1, <3>2, TaskRooted
  <2>4. QED  BY <2>2, <2>3
<1>5. CASE r.op = "create_folder"
  <2>1. /\ r.on \in Folders /\ r.on /= Root /\ r.want \in Descriptors
        /\ Parent[r.on] \in Folders
    BY <1>5, RequestKinds, TreeAssumption DEF FolderOps, RefusedAtOnce
  <2>2. v = [w EXCEPT !.folders[r.on] = r.want] /\ Exists(w, Parent[r.on])
    BY <1>5 DEF Outcomes
  <2>3. w.folders[Parent[r.on]] /= Missing
    BY <2>1, <2>2, TreeAssumption DEF Exists
  <2>4. r.want /= Missing  BY <2>1, ValuesAssumption
  <2>5. QED  BY <2>1, <2>2, <2>3, <2>4, FolderRooted
<1>6. CASE r.op = "delete_folder"
  <2>1. r.on \in Folders /\ r.on /= Root
    BY <1>6, RequestKinds DEF FolderOps, RefusedAtOnce
  <2>2. v = [w EXCEPT !.folders[r.on] = Missing] /\ Empty(w, r.on)
    BY <1>6 DEF Outcomes
  <2>3. QED  BY <2>1, <2>2, FolderRooted
<1>7. CASE r.op = "set_task_security"
  <2>1. r.on \in Tasks  BY <1>7, RequestKinds DEF TaskOps
  <2>2. w.tasks[r.on] /= Missing  BY <1>7, <2>1 DEF Outcomes, Exists
  <2>3. v = [w EXCEPT !.tasks[r.on].security = r.want]
    BY <1>7 DEF Outcomes
  <2>4. v = [w EXCEPT !.tasks[r.on] =
                        [w.tasks[r.on] EXCEPT !.security = r.want]]
    BY <2>1, <2>3, WorldParts
  <2>5. w.folders[FolderOf[r.on]] /= Missing  BY <2>1, <2>2 DEF Rooted
  <2>6. QED  BY <2>1, <2>4, <2>5, TaskRooted
<1>8. CASE r.op = "set_folder_security"
  <2>1. r.on \in Folders /\ r.want \in Descriptors /\ r.want /= Missing
    BY <1>8, RequestKinds, ValuesAssumption DEF FolderOps
  <2>2. v = [w EXCEPT !.folders[r.on] = r.want] /\ Exists(w, r.on)
    BY <1>8 DEF Outcomes
  <2>3. w.folders[r.on] /= Missing
    BY <2>1, <2>2, TreeAssumption DEF Exists
  <2>4. r.on /= Root => w.folders[Parent[r.on]] /= Missing
    BY <2>1, <2>3 DEF Rooted
  <2>5. QED  BY <2>1, <2>2, <2>4, FolderRooted
<1>9. QED
  BY <1>1, <1>2, <1>3, <1>4, <1>5, <1>6, <1>7, <1>8
  DEF Outcomes, Registrations

LEMMA ChangesRooted ==
  ASSUME NEW w \in World, Rooted(w), NEW v \in Changes(w)
  PROVE  Rooted(v)
<1>1. CASE v \in TaskActs(w)
  <2>1. PICK t \in {t \in Tasks : Exists(w, FolderOf[t])} :
          v \in {[w EXCEPT !.tasks[t] = x] : x \in TaskChanges(w, t)}
    BY <1>1 DEF TaskActs
  <2>2. PICK x \in TaskChanges(w, t) : v = [w EXCEPT !.tasks[t] = x]
    BY <2>1
  <2>3. w.folders[FolderOf[t]] /= Missing
    BY <2>1, TreeAssumption DEF Exists
  <2>4. QED  BY <2>1, <2>2, <2>3, TaskRooted
<1>2. CASE v \in FolderActs(w)
  <2>1. PICK f \in Folders :
          v \in {[w EXCEPT !.folders[f] = x] : x \in FolderChanges(w, f)}
    BY <1>2 DEF FolderActs
  <2>2. PICK x \in FolderChanges(w, f) : v = [w EXCEPT !.folders[f] = x]
    BY <2>1
  <2>3. CASE w.folders[f] = Missing
    <3>1. f /= Root  BY <2>3 DEF Rooted
    <3>2. Exists(w, Parent[f]) /\ x \in Descriptors
      <4>1. FolderChanges(w, f) =
              IF Exists(w, Parent[f]) THEN Descriptors \ Rejected ELSE {}
        BY <2>3 DEF FolderChanges
      <4>2. QED  BY <2>2, <4>1 DEF Exists
    <3>3. Parent[f] \in Folders /\ Parent[f] \notin Tasks
      BY <3>1, TreeAssumption
    <3>4. w.folders[Parent[f]] /= Missing  BY <3>2, <3>3 DEF Exists
    <3>5. x /= Missing  BY <3>2, ValuesAssumption
    <3>6. QED  BY <2>2, <3>4, <3>5, FolderRooted
  <2>4. CASE w.folders[f] /= Missing
    <3>1. f /= Root => w.folders[Parent[f]] /= Missing
      BY <2>4 DEF Rooted
    <3>2. x = Missing => f /= Root /\ Empty(w, f)
      BY <2>2, <2>4, ValuesAssumption DEF FolderChanges
    <3>3. QED  BY <2>2, <3>1, <3>2, FolderRooted
  <2>5. QED  BY <2>3, <2>4
<1>3. CASE v \in InstanceActs(w) \union ChannelActs(w)
  <2>1. v.tasks = w.tasks /\ v.folders = w.folders
    BY <1>3 DEF InstanceActs, ChannelActs, World
  <2>2. QED  BY <2>1 DEF Rooted
<1>4. QED  BY <1>1, <1>2, <1>3 DEF Changes

\* The walk of a listing begins with all that it is asked for.
LEMMA WalkBegins ==
  ASSUME NEW r \in AllRequests, r.op \in Listings, NEW p
  PROVE  Walk(r, Reading(r), <<>>, p)
<1> DEFINE q == Reading(r)
<1>1. \E last \in DOMAIN q :
        /\ \A k \in DOMAIN q : q[k].call \in Calls(r)
        /\ \A k \in DOMAIN q \ {last} : Due(r, q[k]) = {}
        /\ Goals(r) \subseteq Due(r, q[last])
  <2>1. CASE r.op = "list_tasks"
    <3>1. q = OpenFolder(r.on) \o <<Native("tasks", r.on)>>
      BY <2>1 DEF Reading, ListTasks
    <3> HIDE DEF q
    <3>2. DOMAIN q = {1, 2} /\ q[1] = Native("folder", r.on)
          /\ q[2] = Native("tasks", r.on)
      BY <3>1, TwoCalls DEF OpenFolder
    <3>3. q[1].call = "folder" /\ q[2].call = "tasks" /\ q[2].on = r.on
      BY <3>2 DEF Native
    <3>4. {"folder", "tasks"} \subseteq Calls(r)  BY <2>1 DEF Calls
    <3>5. Due(r, q[1]) = {} /\ Goals(r) = Due(r, q[2])
      BY <2>1, <3>3 DEF Due, Goals
    <3>6. QED  BY <3>2, <3>3, <3>4, <3>5
  <2>2. CASE r.op = "list_folders"
    <3>1. q = OpenFolder(r.on) \o <<Native("folders", r.on)>>
      BY <2>2 DEF Reading, ListFolders
    <3> HIDE DEF q
    <3>2. DOMAIN q = {1, 2} /\ q[1] = Native("folder", r.on)
          /\ q[2] = Native("folders", r.on)
      BY <3>1, TwoCalls DEF OpenFolder
    <3>3. q[1].call = "folder" /\ q[2].call = "folders" /\ q[2].on = r.on
      BY <3>2 DEF Native
    <3>4. {"folder", "folders"} \subseteq Calls(r)  BY <2>2 DEF Calls
    <3>5. Due(r, q[1]) = {} /\ Goals(r) = Due(r, q[2])
      BY <2>2, <3>3 DEF Due, Goals
    <3>6. QED  BY <3>2, <3>3, <3>4, <3>5
  <2>3. CASE r.op = "running_tasks"
    <3>1. q = <<Native("running", Missing)>>  BY <2>3 DEF Reading
    <3>2. DOMAIN q = {1} /\ q[1].call = "running"
      BY <3>1 DEF Native
    <3> HIDE DEF q
    <3>3. Goals(r) = Due(r, q[1]) /\ "running" \in Calls(r)
      BY <2>3, <3>2 DEF Due, Goals, Calls
    <3>4. QED  BY <3>2, <3>3
  <2>4. QED  BY <2>1, <2>2, <2>3 DEF Listings
<1> HIDE DEF q
<1>2. DOMAIN <<>> = {}  OBVIOUS
<1>3. Walk(r, q, <<>>, p)
  BY <1>1, <1>2 DEF Walk, Apart, Ahead, Once, Met, Owed
<1>4. QED  BY <1>3 DEF q

LEMMA WalkLonger ==
  ASSUME NEW r, NEW q, NEW o, NEW p, NEW p2, p \subseteq p2, Walk(r, q, o, p)
  PROVE  Walk(r, q, o, p2)
BY DEF Walk, Owed

\* A call that is refused or fails lists nothing.
LEMMA NoListing ==
  ASSUME NEW kind, NEW committed, Answer("error", kind, committed),
         request'.op = "running_tasks" => faults' /= 0
  PROVE  Walking' /\ Fresh' /\ ListingsComplete'
BY DEF Answer, Walking, Fresh, ListingsComplete

LEMMA InitList ==
  ASSUME Init
  PROVE  ListInv
BY WorldsAssumption
DEF Init, ListInv, Walking, Fresh, ListingsComplete

LEMMA ConnectList ==
  ASSUME Inv, ListInv, Connect
  PROVE  ListInv'
<1>1. /\ world' = world /\ request' = request /\ output' = output
      /\ stage = "connecting" /\ output = <<>>
      /\ Rooted(world) /\ faults \in Nat
  BY DEF Connect, ListInv, Fresh
<1>2. CASE stage' = "idle" /\ faults' = faults
  BY <1>1, <1>2 DEF ListInv, Walking, Fresh, ListingsComplete
<1>3. CASE faults' = faults + 1 /\ Answer("error", "failed", FALSE)
  <2>1. faults' \in Nat /\ faults' /= 0  BY <1>1, <1>3
  <2>2. Walking' /\ Fresh' /\ ListingsComplete'
    BY <1>3, <2>1, NoListing
  <2>3. QED  BY <1>1, <2>1, <2>2 DEF ListInv
<1>4. QED  BY <1>2, <1>3 DEF Connect

LEMMA BeginList ==
  ASSUME Inv, ListInv, Begin
  PROVE  ListInv'
<1>1. /\ world' = world /\ output' = output /\ faults' = faults
      /\ past' = past /\ output = <<>> /\ Rooted(world) /\ faults \in Nat
  BY DEF Begin, ListInv, Fresh
<1>2. PICK r \in AllRequests :
        /\ request' = r
        /\ IF RefusedAtOnce(r) /= "none"
           THEN Answer("error", RefusedAtOnce(r), FALSE)
           ELSE /\ stage' = "reading" /\ todo' = Reading(r)
                /\ UNCHANGED reply
  BY DEF Begin
<1>3. CASE RefusedAtOnce(r) /= "none"
  <2>1. r.op /= "running_tasks"  BY <1>3 DEF RefusedAtOnce
  <2>2. Answer("error", RefusedAtOnce(r), FALSE)  BY <1>2, <1>3
  <2>3. Walking' /\ Fresh' /\ ListingsComplete'
    BY <1>2, <2>1, <2>2, NoListing
  <2>4. QED  BY <1>1, <2>3 DEF ListInv
<1>4. CASE RefusedAtOnce(r) = "none"
  <2>1. stage' = "reading" /\ todo' = Reading(r)  BY <1>2, <1>4
  <2>2. Walking'
    BY <1>1, <1>2, <2>1, WalkBegins DEF Walking
  <2>3. Fresh' /\ ListingsComplete'
    BY <2>1 DEF Fresh, ListingsComplete
  <2>4. QED  BY <1>1, <2>2, <2>3 DEF ListInv
<1>5. QED  BY <1>3, <1>4

LEMMA ReadList ==
  ASSUME Inv, ListInv, Read
  PROVE  ListInv'
<1>1. /\ stage \in {"reading", "confirming"} /\ todo /= <<>> /\ Serving
      /\ world' = world /\ past' = past /\ request' = request
      /\ Rooted(world) /\ faults \in Nat
  BY DEF Read, Serving, ListInv
<1>2. faults' \in Nat  BY <1>1 DEF Read
<1>3. SUFFICES Walking' /\ Fresh' /\ ListingsComplete'
  BY <1>1, <1>2 DEF ListInv
<1>4. CASE request.op \notin Listings
  <2>1. request'.op \notin Listings  BY <1>1, <1>4
  <2>2. Walking' /\ ListingsComplete'
    BY <2>1 DEF Walking, ListingsComplete, Listings
  <2>3. stage' \notin {"connecting", "idle"}
    BY <1>1 DEF Read, Proceed, Fail, Answer
  <2>4. QED  BY <2>2, <2>3 DEF Fresh
<1>5. CASE request.op \in Listings
  <2>1. stage = "reading"  BY <1>1, <1>5, ListingStage
  <2>2. ASSUME stage' = "reading", Walk(request, todo', output', past)
        PROVE  Walking' /\ Fresh' /\ ListingsComplete'
    BY <1>1, <2>2 DEF Walking, Fresh, ListingsComplete
  <2>3. ASSUME NEW result \in Results(Head(todo)), result.ok,
               Proceed(Head(todo), result.value)
        PROVE  Walking' /\ Fresh' /\ ListingsComplete'
    BY <1>1, <1>5, <2>1, <2>2, <2>3, ProceedWalk
  <2>4. ASSUME NEW kind, Failure(Head(todo), kind), Fail(Head(todo), kind),
               request.op = "running_tasks" =>
                 faults' /= 0 \/ Tolerated(Head(todo), kind)
        PROVE  Walking' /\ Fresh' /\ ListingsComplete'
    <3>1. ~Comparing  BY <1>5 DEF Comparing, Listings
    <3>2. CASE Tolerated(Head(todo), kind)
      <4>1. todo' = Tail(todo) /\ stage' = stage /\ output' = output
        BY <2>4, <3>1, <3>2 DEF Fail
      <4>2. Walk(request, Tail(todo), output, past)
        BY <1>1, <1>5, <2>1, <2>4, <3>2, ToleratedWalk
      <4>3. QED  BY <2>1, <2>2, <4>1, <4>2
    <3>3. CASE ~Tolerated(Head(todo), kind)
      <4>1. Answer("error", kind, Committed)
        BY <2>4, <3>1, <3>3 DEF Fail
      <4>2. QED  BY <1>1, <2>4, <3>3, <4>1, NoListing
    <3>4. QED  BY <3>2, <3>3
  <2>5. CASE \E result \in Results(Head(todo)) :
               IF result.ok THEN Proceed(Head(todo), result.value)
               ELSE Fail(Head(todo), result.value)
    <3>1. PICK result \in Results(Head(todo)) :
                 IF result.ok THEN Proceed(Head(todo), result.value)
                 ELSE Fail(Head(todo), result.value)
      BY <2>5
    <3>2. CASE result.ok  BY <2>3, <3>1, <3>2
    <3>3. CASE ~result.ok
      <4>1. request.op = "running_tasks" =>
              Tolerated(Head(todo), result.value)
        BY <1>1, <2>1, <3>3, EnumerationFails
      <4>2. Failure(Head(todo), result.value)  BY <3>3 DEF Failure
      <4>3. Fail(Head(todo), result.value)  BY <3>1, <3>3
      <4>4. QED  BY <2>4, <4>1, <4>2, <4>3
    <3>4. QED  BY <3>2, <3>3
  <2>6. CASE faults' = faults + 1
               /\ \E kind \in {"failed", "denied"} : Fail(Head(todo), kind)
    <3>1. faults' /= 0  BY <1>1, <2>6
    <3>2. QED  BY <2>4, <2>6, <3>1 DEF Failure
  <2>7. QED  BY <2>5, <2>6 DEF Read
<1>6. QED  BY <1>4, <1>5

LEMMA EndStageList ==
  ASSUME Inv, ListInv, EndStage
  PROVE  ListInv'
<1>1. /\ stage \in {"reading", "confirming"} /\ todo = <<>> /\ Serving
      /\ UNCHANGED <<world, past, request, output, faults>>
      /\ Rooted(world) /\ faults \in Nat
  BY DEF EndStage, Serving, ListInv
<1>2. SUFFICES Walking' /\ Fresh' /\ ListingsComplete'
  BY <1>1 DEF ListInv
<1>3. CASE request.op \notin Listings
  <2>1. request'.op \notin Listings  BY <1>1, <1>3
  <2>2. Walking' /\ ListingsComplete'
    BY <2>1 DEF Walking, ListingsComplete, Listings
  <2>3. stage' \notin {"connecting", "idle"}
    BY DEF EndStage, Answer
  <2>4. QED  BY <2>2, <2>3 DEF Fresh
<1>4. CASE request.op \in Listings
  <2>1. stage = "reading"  BY <1>1, <1>4, ListingStage
  <2>2. Answer("ok", Success, FALSE)
    BY <1>4 DEF EndStage, Listings, Mutations
  <2>3. \A x : /\ Times(Marker(request), x) <= 1
               /\ Owed(request, past, x) => Times(Marker(request), x) = 1
    BY <1>1, <1>4, <2>1, WalkEnds
  <2>4. stage' = "answered" /\ reply'.status = "ok"
    BY <2>2 DEF Answer
  <2>5. Walking' /\ Fresh'  BY <2>4 DEF Walking, Fresh
  <2>6. \A call, x : Times(call, x)' = Times(call, x)
    BY <1>1 DEF Times
  <2>7. \A f : Within(f) = Reach(request, f) /\ Within(f)' = Within(f)
    BY <1>1 DEF Within, Reach, Recursive
  <2>8. CASE request.op = "list_tasks"
    <3>1. /\ Marker(request) = "xml"
          /\ Goals(request) =
               {t \in Tasks : FolderOf[t] \in Within(request.on)}
          /\ \A w, x : There(request, w, x) <=> w.tasks[x] /= Missing
      BY <2>7, <2>8 DEF Marker, Goals, There
    <3>2. \A t \in Tasks :
            /\ Times("xml", t) <= 1
            /\ FolderOf[t] \in Within(request.on)
                 /\ (\A w \in past : w.tasks[t] /= Missing)
               => Times("xml", t) = 1
      BY <2>3, <3>1 DEF Owed
    <3>3. QED
      BY <1>1, <2>4, <2>5, <2>6, <2>7, <2>8, <3>2 DEF ListingsComplete
  <2>9. CASE request.op = "list_folders"
    <3>1. /\ Marker(request) = "child"
          /\ Goals(request) =
               {f \in Folders \ {Root} : Parent[f] \in Within(request.on)}
          /\ \A w, x : There(request, w, x) <=> w.folders[x] /= Missing
      BY <2>7, <2>9 DEF Marker, Goals, There
    <3>2. \A f \in Folders \ {Root} :
            /\ Times("child", f) <= 1
            /\ Parent[f] \in Within(request.on)
                 /\ (\A w \in past : w.folders[f] /= Missing)
               => Times("child", f) = 1
      BY <2>3, <3>1 DEF Owed
    <3>3. QED
      BY <1>1, <2>4, <2>5, <2>6, <2>7, <2>9, <3>2 DEF ListingsComplete
  <2>10. CASE request.op = "running_tasks"
    <3>1. /\ Marker(request) = "instance" /\ Goals(request) = Instances
          /\ \A w, x : There(request, w, x) <=> x \in Running(w)
      BY <2>10 DEF Marker, Goals, There
    <3>2. \A i \in Instances :
            /\ Times("instance", i) <= 1
            /\ (\A w \in past : i \in Running(w)) => Times("instance", i) = 1
      BY <2>3, <3>1 DEF Owed
    <3>3. QED
      BY <1>1, <2>4, <2>5, <2>6, <2>10, <3>2 DEF ListingsComplete
  <2>11. QED  BY <1>4, <2>8, <2>9, <2>10 DEF Listings
<1>5. QED  BY <1>3, <1>4

\* A mutation is no listing, but the tree stays one.
LEMMA MutationList ==
  ASSUME Inv, ListInv, Mutate \/ MutationFails
  PROVE  ListInv'
<1>1. /\ stage = "mutating" /\ Serving /\ request' = request
      /\ request \in AllRequests /\ RefusedAtOnce(request) = "none"
      /\ request.op \in Mutations /\ world \in World
      /\ Rooted(world) /\ faults \in Nat
  BY DEF Mutate, MutationFails, Inv, TypeInv, Serving, ListInv
<1>2. faults' \in Nat /\ stage' \in {"confirming", "answered"}
  BY <1>1 DEF Mutate, MutationFails, Answer
<1>3. request'.op \notin Listings  BY <1>1 DEF Mutations, Listings
<1>4. world' = world \/ world' \in Outcomes(request, world)
  BY DEF Mutate, MutationFails, Mutated
<1>5. Rooted(world)'
  <2>1. CASE world' = world  BY <1>1, <2>1
  <2>2. CASE world' \in Outcomes(request, world)
    BY <1>1, <2>2, OutcomesRooted
  <2>3. QED  BY <1>4, <2>1, <2>2
<1>6. Walking' /\ Fresh' /\ ListingsComplete'
  BY <1>2, <1>3 DEF Walking, Fresh, ListingsComplete, Listings
<1>7. QED  BY <1>2, <1>5, <1>6 DEF ListInv

\* What others do only lessens what is owed.
LEMMA OthersList ==
  ASSUME Inv, ListInv, Others
  PROVE  ListInv'
<1>1. PICK w \in Changes(world) : world' = w  BY DEF Others
<1>2. /\ past \subseteq past' /\ Serving /\ world \in World
      /\ UNCHANGED <<request, stage, todo, output, faults>>
      /\ Rooted(world) /\ faults \in Nat
  BY <1>1 DEF Others, Witness, Serving, Inv, TypeInv, ListInv
<1>3. Rooted(world)'  BY <1>1, <1>2, ChangesRooted
<1>4. Walking'
  <2>1. stage = "reading" /\ request.op \in Listings =>
          Walk(request, todo, output, past')
    BY <1>2, WalkLonger DEF ListInv, Walking
  <2>2. QED  BY <1>2, <2>1 DEF Walking
<1>5. Fresh' /\ ListingsComplete'
  BY <1>2 DEF Fresh, ListingsComplete, Serving
<1>6. QED  BY <1>2, <1>3, <1>4, <1>5 DEF ListInv

LEMMA StepList ==
  ASSUME Inv, ListInv, [Next]_vars
  PROVE  ListInv'
<1>1. CASE UNCHANGED vars
  <2>1. UNCHANGED <<world, request, stage, todo, output, reply, faults, past>>
    BY <1>1 DEF vars
  <2>2. Walking' /\ Fresh' /\ Rooted(world)' /\ faults' \in Nat
    BY <2>1 DEF ListInv, Walking, Fresh
  <2>3. ListingsComplete'
    BY <2>1
    DEF ListInv, ListingsComplete, Times, Within, Recursive
  <2>4. QED  BY <2>2, <2>3 DEF ListInv
<1>2. CASE Serve
  BY <1>2, ConnectList, BeginList, ReadList, EndStageList, MutationList
  DEF Serve
<1>3. CASE Others  BY <1>3, OthersList
<1>4. QED  BY <1>1, <1>2, <1>3 DEF Next

\* Whatever the tree of folders and however it changes while it is walked,
\* whatever fails: a listing that succeeds names nothing twice and everything
\* that existed from its begin to its answer, and the enumeration of running
\* tasks fails only when a native call does, never because an instance ended.
THEOREM ListingsAreComplete == Spec => []ListingsComplete
<1>1. Init => ListInv  BY InitList
<1>2. Inv /\ ListInv /\ [Next]_vars => ListInv'  BY StepList
<1>3. ListInv => ListingsComplete  BY DEF ListInv
<1>4. QED  BY <1>1, <1>2, <1>3, Invariance, PTL DEF Spec
=============================================================================
