--------------------------- MODULE HandlerRuntime ---------------------------
(* The native COM handler runtime (handler.rs, module __native): one COM     *)
(* object that the scheduler starts, stops, pauses and resumes; per          *)
(* invocation a status worker that owns the notification interface, the user *)
(* thread that runs TaskHandler::run, and a thread of the user's own that    *)
(* keeps a clone of the reporter; and DllCanUnloadNow, which reads the       *)
(* module's counters one after the other.                                    *)
(*                                                                           *)
(* A step ends at each point where another thread can see its effect: an     *)
(* atomic, a channel, the reporter's mutex, or a call into the scheduler.    *)
EXTENDS Integers, Sequences, FiniteSets

CONSTANTS
    MaxStarts,   \* bound: invocations that pass Start's running check
    Scenarios    \* bounds of a behaviour, taken together: starts, failing
                 \* system calls and notifications, reporter calls per thread
                 \* and invocation, percentages, LockServer(true) calls

ASSUME BoundsAssumption ==
    /\ MaxStarts \in Nat \ {0}
    /\ Scenarios \subseteq [starts : 1..MaxStarts, faults : Nat, calls : Nat,
                             percent : Nat \ {0}, locks : Nat]

Invocations == 1..MaxStarts
Threads == {"user", "helper"}     \* the two owners of reporter clones
Calls == Invocations \X Threads

VARIABLES
    objects,      \* the COM objects that exist; MODULE_OBJECTS is their number
    locks, workers, reporters,  \* SERVER_LOCKS, ACTIVE_WORKERS, ACTIVE_REPORTERS
    running,      \* NativeTaskHandler.running
    current,      \* the invocation whose control token the object holds; 0: none yet
    control,      \* HandlerControl.state: 0 run, 1 paused, 2 stopped
    start,        \* where Start is
    packet,       \* who owns the marshalled interface
    disposals,    \* how often a packet was unmarshalled or released
    worker,       \* where handler_worker's thread is
    queue,        \* commands in the status channel
    completed, progress,   \* ProgressReporter
    holder,       \* who holds ProgressReporter.operation
    at, op,       \* per reporter owner: where it is, and in which call
    calls,        \* reporter calls made
    native,       \* confirmed completions, failed terminal attempts, last percentage
    overtaken,    \* history: a completion of another thread came after HandlerDone
    unload,       \* how far DllCanUnloadNow has read
    faults,
    bounds        \* the scenario

counters == <<objects, locks, workers, reporters>>
reporter == <<completed, progress, holder, at, op, calls>>
vars == <<objects, locks, workers, reporters, running, current, control, start, packet,
          disposals, worker, queue, completed, progress, holder, at, op, calls, native,
          overtaken, unload, faults, bounds>>

NoOp == [kind |-> "none", percent |-> 0]
Nobody == "nobody"

Init ==
    /\ objects = {"factory", "handler"} /\ locks = 0 /\ workers = 0 /\ reporters = 0
    /\ running = FALSE /\ current = 0
    /\ control = [i \in Invocations |-> 0]
    /\ start = [i \in Invocations |-> "unused"]
    /\ packet = [i \in Invocations |-> "none"]
    /\ disposals = [i \in Invocations |-> 0]
    /\ worker = [i \in Invocations |-> "none"]
    /\ queue = [i \in Invocations |-> <<>>]
    /\ completed = [i \in Invocations |-> FALSE]
    /\ progress = [i \in Invocations |-> 0]
    /\ holder = [i \in Invocations |-> Nobody]
    /\ at = [k \in Calls |-> "absent"]
    /\ op = [k \in Calls |-> NoOp]
    /\ calls = [k \in Calls |-> 0]
    /\ native = [i \in Invocations |-> [acks |-> 0, failures |-> 0, percent |-> 0]]
    /\ overtaken = [i \in Invocations |-> FALSE]
    /\ unload = "idle" /\ faults = 0 /\ bounds \in Scenarios

Succeeds == UNCHANGED faults
Fails == faults < bounds.faults /\ faults' = faults + 1

-----------------------------------------------------------------------------
(* Start, on a thread of the scheduler.                                      *)

Starting == {"prepare", "spawn", "await", "join"}
InStart == \E i \in Invocations : start[i] \in Starting

unstarted == <<objects, locks, reporters, queue, reporter, native, overtaken, unload>>

(* Under the lock of the control slot: claim running, install a new token.   *)
\* mutated: the claim is not checked
Claimed_never == FALSE
Claimed == running

Start(i) ==
    /\ "handler" \in objects /\ start[i] = "unused" /\ i <= bounds.starts
    /\ \A j \in Invocations : j < i => start[j] # "unused"
    /\ ~Claimed
    /\ running' = TRUE /\ current' = i
    /\ start' = [start EXCEPT ![i] = "prepare"]
    /\ UNCHANGED <<unstarted, workers, control, packet, disposals, worker, faults>>

(* Marshal the notification interface; a failure gives running back.         *)
StartPrepare(i) ==
    /\ start[i] = "prepare"
    /\ \/ /\ Fails /\ running' = FALSE
          /\ start' = [start EXCEPT ![i] = "failed"] /\ UNCHANGED <<workers, packet>>
       \/ /\ Succeeds /\ packet' = [packet EXCEPT ![i] = "starter"]
          /\ workers' = workers + 1
          /\ start' = [start EXCEPT ![i] = "spawn"] /\ UNCHANGED running
    /\ UNCHANGED <<unstarted, current, control, disposals, worker>>

(* release_unconsumed_stream, in the apartment that marshalled it.           *)
ReleasePacket(i) ==
    /\ packet' = [packet EXCEPT ![i] = "released"]
    /\ disposals' = [disposals EXCEPT ![i] = @ + 1]

StartSpawn(i) ==
    /\ start[i] = "spawn"
    /\ \/ /\ Fails /\ workers' = workers - 1 /\ running' = FALSE
          /\ ReleasePacket(i)
          /\ start' = [start EXCEPT ![i] = "failed"] /\ UNCHANGED worker
       \/ /\ Succeeds /\ worker' = [worker EXCEPT ![i] = "init"]
          /\ start' = [start EXCEPT ![i] = "await"]
          /\ UNCHANGED <<workers, running, packet, disposals>>
    /\ UNCHANGED <<unstarted, current, control>>

(* The packet changes hands only after the worker's apartment is ready.      *)
\* mutated: whatever the worker acknowledged, it gets the packet
Ready_assumed(i) == TRUE
Ready(i) == worker[i] = "packet"

StartAwait(i) ==
    /\ start[i] = "await" /\ worker[i] \notin {"init", "none"}
    /\ IF Ready(i)
       THEN packet' = [packet EXCEPT ![i] = "sent"] /\ start' = [start EXCEPT ![i] = "ok"]
       ELSE start' = [start EXCEPT ![i] = "join"] /\ UNCHANGED packet
    /\ UNCHANGED <<unstarted, workers, running, current, control, disposals, worker, faults>>

StartJoin(i) ==
    /\ start[i] = "join" /\ worker[i] = "gone"
    /\ ReleasePacket(i)
    /\ start' = [start EXCEPT ![i] = "failed"]
    /\ UNCHANGED <<unstarted, workers, running, current, control, worker, faults>>

-----------------------------------------------------------------------------
(* Stop, Pause and Resume act on the token of the latest invocation.         *)

\* mutated: resuming does not look at the state
ResumedState_always(s) == 0
ResumedState(s) == IF s = 1 THEN 0 ELSE s
PausedState(s) == IF s = 0 THEN 1 ELSE s

Request(state) ==
    /\ "handler" \in objects /\ current # 0
    /\ control' = [control EXCEPT ![current] = state]
    /\ UNCHANGED <<counters, running, current, start, packet, disposals, worker, queue,
                   reporter, native, overtaken, unload, faults>>
Stop == Request(2)
Pause == Request(PausedState(control[current]))
Resume == Request(ResumedState(control[current]))

-----------------------------------------------------------------------------
(* The status worker.                                                        *)

Goto(i, pc) == worker' = [worker EXCEPT ![i] = pc]
workerUnchanged == <<objects, locks, current, control, start, unload>>

WorkerInit(i) ==
    /\ worker[i] = "init"
    /\ \/ Succeeds /\ Goto(i, "packet")
       \/ Fails /\ Goto(i, "guard")
    /\ UNCHANGED <<workerUnchanged, workers, reporters, running, packet, disposals, queue,
                   reporter, native, overtaken>>

(* CoGetInterfaceAndReleaseStream consumes the packet, also when it fails.   *)
WorkerUnmarshal(i) ==
    /\ worker[i] = "packet" /\ packet[i] = "sent"
    /\ packet' = [packet EXCEPT ![i] = "taken"]
    /\ disposals' = [disposals EXCEPT ![i] = @ + 1]
    /\ \/ Succeeds /\ Goto(i, "spawn") /\ reporters' = reporters + 1
       \/ Fails /\ Goto(i, "guard") /\ UNCHANGED reporters
    /\ UNCHANGED <<workerUnchanged, workers, running, queue, reporter, native, overtaken>>

(* Without a user thread the context and its reporter are dropped.           *)
WorkerSpawn(i) ==
    /\ worker[i] = "spawn"
    /\ \/ /\ Succeeds /\ Goto(i, "serve")
          /\ at' = [k \in Calls |-> IF k[1] = i THEN "idle" ELSE at[k]]
          /\ UNCHANGED reporters
       \/ Fails /\ Goto(i, "terminal") /\ reporters' = reporters - 1 /\ UNCHANGED at
    /\ UNCHANGED <<workerUnchanged, workers, running, packet, disposals, queue, completed,
                   progress, holder, op, calls, native, overtaken>>

Head1(i) == queue[i][1]
Serving(i, kind) == worker[i] = "serve" /\ queue[i] # <<>> /\ Head1(i).kind = kind
Take(i) == queue' = [queue EXCEPT ![i] = Tail(@)]
Reply(i, answer) == at' = [at EXCEPT ![<<i, Head1(i).from>>] = answer]

workerServes == <<workerUnchanged, workers, reporters, running, packet, disposals, progress,
                  holder, op, calls>>

ServeUpdate(i) ==
    /\ Serving(i, "update") /\ Take(i)
    /\ \/ Fails /\ Reply(i, "err") /\ UNCHANGED native
       \/ Succeeds /\ Reply(i, "ok")
          /\ native' = [native EXCEPT ![i].percent = Head1(i).percent]
    /\ UNCHANGED <<workerServes, worker, completed, overtaken>>

(* A failed completion gives the flag back before the answer is sent.        *)
ServeComplete(i) ==
    /\ Serving(i, "complete") /\ Take(i)
    /\ \/ /\ Fails /\ Reply(i, "err")
          /\ completed' = [completed EXCEPT ![i] = FALSE] /\ UNCHANGED native
       \/ /\ Succeeds /\ Reply(i, "ok")
          /\ native' = [native EXCEPT ![i].acks = @ + 1] /\ UNCHANGED completed
    /\ UNCHANGED <<workerServes, worker, overtaken>>

(* HandlerDone: claim the completion, unless somebody has claimed it.        *)
\* mutated: the terminal notification does not look at the flag
AfterDone_unclaimed(i) == "terminal"
\* mutated: only an unclaimed completion ends the loop
AfterDone_serving(i) == IF completed[i] THEN "serve" ELSE "terminal"
AfterDone(i) == IF completed[i] THEN "join" ELSE "terminal"

ServeDone(i) ==
    /\ Serving(i, "done") /\ Take(i)
    /\ completed' = [completed EXCEPT ![i] = TRUE]
    /\ Goto(i, AfterDone(i))
    /\ overtaken' = [overtaken EXCEPT ![i] =
          at[<<i, "helper">>] \in {"send", "wait"} /\ op[<<i, "helper">>].kind = "complete"]
    /\ UNCHANGED <<workerServes, at, native, faults>>

(* notify_terminal_completed: once more after a failure.                     *)
\* mutated: the first failure is final
TerminalRetry_none == "join"
TerminalRetry == "terminal_again"

Terminal(i) ==
    /\ worker[i] \in {"terminal", "terminal_again"}
    /\ LET last == worker[i] = "terminal_again" \/ TerminalRetry = "join" IN
       \/ /\ Succeeds /\ Goto(i, "join")
          /\ native' = [native EXCEPT ![i].acks = @ + 1] /\ UNCHANGED completed
       \/ /\ Fails /\ Goto(i, IF last THEN "join" ELSE TerminalRetry)
          /\ native' = [native EXCEPT ![i].failures = @ + 1]
          /\ completed' = [completed EXCEPT ![i] = @ /\ ~last]
    /\ UNCHANGED <<workerServes, queue, at, overtaken>>

(* Join the user thread; returning drops the receiver and what it holds, so  *)
(* that whoever still waits for an answer gets an error.                     *)
WorkerJoin(i) ==
    /\ worker[i] = "join" /\ at[<<i, "user">>] \in {"absent", "gone"}
    /\ Goto(i, "guard") /\ queue' = [queue EXCEPT ![i] = <<>>]
    /\ UNCHANGED <<workerServes, completed, at, native, overtaken, faults>>

(* Drop of WorkerGuard.                                                      *)
WorkerGuard(i) ==
    /\ worker[i] = "guard"
    /\ running' = FALSE /\ Goto(i, "exit")
    /\ UNCHANGED <<workerUnchanged, workers, reporters, packet, disposals, queue, reporter,
                   native, overtaken, faults>>

WorkerExit(i) ==
    /\ worker[i] = "exit"
    /\ workers' = workers - 1 /\ Goto(i, "gone")
    /\ UNCHANGED <<workerUnchanged, reporters, running, packet, disposals, queue, reporter,
                   native, overtaken, faults>>

-----------------------------------------------------------------------------
(* The reporter, used from the user thread and from a thread of the user's.  *)

\* mutated: the worker's end is not noticed
Disconnected_never(i) == FALSE
Disconnected(i) == worker[i] \in {"guard", "exit", "gone"}
reporterUnchanged == <<objects, locks, workers, running, current, control, start, packet,
                       disposals, worker, native, overtaken, unload, faults>>

\* mutated: progress and completion are not serialized
Locked_never(i) == FALSE
Locked(i) == holder[i] # Nobody

Enter(k, call) ==
    /\ at[k] = "idle" /\ calls[k] < bounds.calls /\ ~Locked(k[1])
    /\ calls' = [calls EXCEPT ![k] = @ + 1]
    /\ op' = [op EXCEPT ![k] = call]

(* report_inner up to the native call: after completion, or for a percentage *)
(* that is no progress, nothing is sent.                                     *)
Report(k, p) ==
    LET i == k[1] IN
    /\ Enter(k, [kind |-> "update", percent |-> p])
    /\ IF completed[i] \/ p <= progress[i]
       THEN UNCHANGED <<at, holder>>
       ELSE at' = [at EXCEPT ![k] = "send"] /\ holder' = [holder EXCEPT ![i] = k[2]]
    /\ UNCHANGED <<reporterUnchanged, reporters, queue, completed, progress>>

(* complete_inner up to the native call: claim the completion or give up.    *)
Complete(k) ==
    LET i == k[1] IN
    /\ Enter(k, [kind |-> "complete", percent |-> 0])
    /\ completed' = [completed EXCEPT ![i] = TRUE]
    /\ IF completed[i]
       THEN UNCHANGED <<at, holder>>
       ELSE at' = [at EXCEPT ![k] = "send"] /\ holder' = [holder EXCEPT ![i] = k[2]]
    /\ UNCHANGED <<reporterUnchanged, reporters, queue, progress>>

Send(k) ==
    LET i == k[1] IN
    /\ at[k] = "send"
    /\ IF Disconnected(i)
       THEN at' = [at EXCEPT ![k] = "err"] /\ UNCHANGED queue
       ELSE /\ at' = [at EXCEPT ![k] = "wait"]
            /\ queue' = [queue EXCEPT ![i] = Append(@,
                  [kind |-> op[k].kind, from |-> k[2], percent |-> op[k].percent])]
    /\ UNCHANGED <<reporterUnchanged, reporters, completed, progress, holder, op, calls>>

(* The answer will not come any more.                                        *)
Hangup(k) ==
    /\ at[k] = "wait" /\ Disconnected(k[1])
    /\ at' = [at EXCEPT ![k] = "err"]
    /\ UNCHANGED <<reporterUnchanged, reporters, queue, completed, progress, holder, op, calls>>

(* The rest of the call: record progress, or give a failed completion back.  *)
Return(k) ==
    LET i == k[1] IN
    /\ at[k] \in {"ok", "err"}
    /\ at' = [at EXCEPT ![k] = "idle"]
    /\ holder' = [holder EXCEPT ![i] = Nobody]
    /\ progress' = IF at[k] = "ok" /\ op[k].kind = "update" /\ op[k].percent > progress[i]
                   THEN [progress EXCEPT ![i] = op[k].percent] ELSE progress
    /\ completed' = IF at[k] = "err" /\ op[k].kind = "complete"
                    THEN [completed EXCEPT ![i] = FALSE] ELSE completed
    /\ UNCHANGED <<reporterUnchanged, reporters, queue, op, calls>>

(* The last clone of the reporter drops the NativeReporter.                  *)
HasClone(k) == at[k] \notin {"absent", "ran", "gone"}
DropClone(k) ==
    reporters' = IF \E l \in Calls \ {k} : l[1] = k[1] /\ HasClone(l)
                 THEN reporters ELSE reporters - 1

(* TaskHandler::run returns or panics, and its context is dropped.           *)
RunReturns(i) ==
    LET k == <<i, "user">> IN
    /\ at[k] = "idle" /\ at' = [at EXCEPT ![k] = "ran"] /\ DropClone(k)
    /\ UNCHANGED <<reporterUnchanged, queue, completed, progress, holder, op, calls>>

SendDone(i) ==
    LET k == <<i, "user">> IN
    /\ at[k] = "ran" /\ at' = [at EXCEPT ![k] = "gone"]
    /\ queue' = IF Disconnected(i) THEN queue
                ELSE [queue EXCEPT ![i] = Append(@, [kind |-> "done"])]
    /\ UNCHANGED <<reporterUnchanged, reporters, completed, progress, holder, op, calls>>

HelperDrops(i) ==
    LET k == <<i, "helper">> IN
    /\ at[k] = "idle" /\ at' = [at EXCEPT ![k] = "gone"] /\ DropClone(k)
    /\ UNCHANGED <<reporterUnchanged, queue, completed, progress, holder, op, calls>>

-----------------------------------------------------------------------------
(* The module: object and server lifetime, and DllCanUnloadNow.              *)

moduleUnchanged == <<workers, reporters, running, current, control, start, packet, disposals,
                     worker, queue, reporter, native, overtaken, faults>>

(* The scheduler keeps the object while a call on it is under way.           *)
ReleaseObject(o) ==
    /\ o \in objects /\ objects' = objects \ {o}
    /\ o = "handler" => ~InStart
    /\ UNCHANGED <<moduleUnchanged, locks, unload>>

LockServer(lock) ==
    /\ "factory" \in objects
    /\ locks' = IF lock THEN locks + 1 ELSE IF locks = 0 THEN 0 ELSE locks - 1
    /\ locks' <= bounds.locks
    /\ UNCHANGED <<moduleUnchanged, objects, unload>>

(* The counters, in the order in which DllCanUnloadNow reads them.           *)
\* mutated: the reporters are read before the workers
ReadOrder_swapped == <<Cardinality(objects), locks, reporters, workers>>
ReadOrder == <<Cardinality(objects), locks, workers, reporters>>

Readings == <<"idle", "read1", "read2", "read3">>
CanUnload(n) ==
    /\ unload = Readings[n]
    /\ unload' = IF ReadOrder[n] # 0 THEN "idle" ELSE IF n = 4 THEN "unloaded" ELSE Readings[n + 1]
    /\ UNCHANGED <<moduleUnchanged, objects, locks>>

-----------------------------------------------------------------------------

Worker(i) ==
    \/ WorkerInit(i) \/ WorkerUnmarshal(i) \/ WorkerSpawn(i) \/ ServeUpdate(i)
    \/ ServeComplete(i) \/ ServeDone(i) \/ Terminal(i) \/ WorkerJoin(i) \/ WorkerGuard(i)
    \/ WorkerExit(i)
Starter(i) == StartPrepare(i) \/ StartSpawn(i) \/ StartAwait(i) \/ StartJoin(i)
InCall(k) == Send(k) \/ Hangup(k) \/ Return(k)
User(i) ==
    \/ RunReturns(i) \/ SendDone(i) \/ HelperDrops(i)
    \/ \E t \in Threads :
          LET k == <<i, t>> IN InCall(k) \/ Complete(k) \/ \E p \in 1..bounds.percent : Report(k, p)
Module ==
    \/ Stop \/ Pause \/ Resume
    \/ \E o \in objects : ReleaseObject(o)
    \/ \E lock \in BOOLEAN : LockServer(lock)
    \/ \E n \in 1..4 : CanUnload(n)

Step == Module \/ \E i \in Invocations : Start(i) \/ Starter(i) \/ Worker(i) \/ User(i)
Next == Step /\ UNCHANGED bounds

Spec == Init /\ [][Next]_vars

(* As long as a thread can take a step, one of them does: the steps that     *)
(* threads have to take are bounded, so the turn of each comes.  Nothing is  *)
(* assumed about when run returns, when the scheduler calls, or which calls  *)
(* a handler makes.                                                          *)
Threading ==
    \/ \E i \in Invocations : Worker(i) \/ Starter(i) \/ SendDone(i)
    \/ \E k \in Calls : InCall(k)
FairSpec == Spec /\ WF_vars(Threading /\ UNCHANGED bounds)

-----------------------------------------------------------------------------
(* Properties.                                                               *)

WorkerStates == {"none", "init", "packet", "spawn", "serve", "terminal", "terminal_again",
                 "join", "guard", "exit", "gone"}
CallStates == {"absent", "idle", "send", "wait", "ok", "err", "ran", "gone"}

(* The calls of a reporter, and what they send to the worker.                *)
Operations == [kind : {"none", "update", "complete"}, percent : 0..bounds.percent]
Commands ==
    [kind : {"update", "complete"}, from : Threads, percent : 0..bounds.percent]
      \cup [kind : {"done"}]

(* The types of the variables.                                               *)
TypeOK ==
    /\ objects \subseteq {"factory", "handler"}
    /\ locks \in 0..bounds.locks /\ workers \in Nat /\ reporters \in Nat
    /\ running \in BOOLEAN /\ current \in 0..bounds.starts
    /\ control \in [Invocations -> 0..2]
    /\ start \in [Invocations -> Starting \cup {"unused", "ok", "failed"}]
    /\ packet \in [Invocations -> {"none", "starter", "sent", "taken", "released"}]
    /\ disposals \in [Invocations -> Nat]
    /\ worker \in [Invocations -> WorkerStates]
    /\ queue \in [Invocations -> Seq(Commands)]
    /\ completed \in [Invocations -> BOOLEAN] /\ overtaken \in [Invocations -> BOOLEAN]
    /\ progress \in [Invocations -> 0..bounds.percent]
    /\ holder \in [Invocations -> Threads \cup {Nobody}]
    /\ at \in [Calls -> CallStates] /\ op \in [Calls -> Operations]
    /\ calls \in [Calls -> 0..bounds.calls]
    /\ native \in [Invocations -> [acks : Nat, failures : Nat, percent : Nat]]
    /\ unload \in {"idle", "read1", "read2", "read3", "unloaded"}
    /\ faults \in 0..bounds.faults /\ bounds \in Scenarios

WorkerAlive(i) == worker[i] \notin {"none", "gone"}
UserRuns(i) == at[<<i, "user">>] \notin {"absent", "gone"}

(* Once DllCanUnloadNow has said yes, no thread of the runtime, no user      *)
(* thread and no reporter clone can still come into the module: although the *)
(* four counters are read one after the other while workers start, hand      *)
(* their registration over to a reporter, and end.                           *)
UnloadSafe ==
    unload = "unloaded" =>
        /\ objects = {} /\ locks = 0
        /\ \A i \in Invocations : ~WorkerAlive(i) /\ start[i] \notin Starting
        /\ \A k \in Calls : ~HasClone(k)

(* A COM object runs one invocation at a time, whatever Start calls overlap  *)
(* with the end of the previous one; and while one runs, `running` says so.  *)
OneInvocation ==
    /\ \A i, j \in Invocations : UserRuns(i) /\ UserRuns(j) => i = j
    /\ \A i \in Invocations :
          worker[i] \notin {"none", "exit", "gone"} => running /\ current = i

(* However starting an invocation fails, the marshalled notification         *)
(* interface is unmarshalled or released, never both and never twice.        *)
PacketDisposedOnce ==
    \A i \in Invocations :
        /\ disposals[i] <= 1
        /\ start[i] \in {"ok", "failed"} /\ ~WorkerAlive(i) =>
              disposals[i] = IF packet[i] = "none" THEN 0 ELSE 1

(* The scheduler's acknowledgement of a completion is obtained at most once, *)
(* though user thread, helper thread and the terminal notification all try.  *)
CompletionOnce == \A i \in Invocations : native[i].acks <= 1

(* A usable interface whose invocation ended without an acknowledged         *)
(* completion has refused the terminal code twice, unless the completion of  *)
(* another thread was pending when the end of run was handled.               *)
UnconfirmedOnlyByRace ==
    \A i \in Invocations :
        worker[i] = "join" /\ native[i].acks = 0 => native[i].failures = 2 \/ overtaken[i]

(* The same without the exception: an automatic terminal notification is     *)
(* attempted, and retried, before a completion is left unconfirmed.          *)
TerminalNotified ==
    \A i \in Invocations :
        worker[i] = "join" /\ native[i].acks = 0 => native[i].failures = 2

(* What the scheduler is told moves forward: percentages grow, and none      *)
(* follows an acknowledged completion, from whichever thread it is reported. *)
ProgressMovesForward ==
    [][\A i \in Invocations :
          native'[i].percent # native[i].percent =>
             native'[i].percent > native[i].percent /\ native[i].acks = 0]_vars

(* A stop is final for its invocation, whatever Pause and Resume calls come  *)
(* after it, and never reaches an invocation started later.                  *)
StopIsFinal ==
    [][\A i \in Invocations :
          /\ control[i] = 2 => control'[i] = 2
          /\ control'[i] # control[i] => i = current]_vars

(* No call of a reporter waits for ever: the worker answers it, or its end   *)
(* is noticed.  The calls of a behaviour are bounded, so that none is left   *)
(* waiting in the end.                                                       *)
CallsReturn == []<>(\A k \in Calls : at[k] \notin {"send", "wait"})

(* When run has returned, the worker ends, whatever helper threads still     *)
(* hold or do.                                                               *)
InvocationEnds ==
    []<>(\A i \in Invocations :
           at[<<i, "user">>] \in {"ran", "gone"} => worker[i] = "gone")
=============================================================================
