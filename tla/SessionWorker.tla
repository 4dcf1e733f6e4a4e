---------------------------- MODULE SessionWorker ----------------------------
(* A scheduler session (client/mod.rs): connecting it through a cancellable  *)
(* future, the worker thread that owns the COM apartment and executes the    *)
(* jobs of its queue, blocking and asynchronous calls, futures dropped at    *)
(* any moment, shutdown with a timeout, and the last handle going away.      *)
(*                                                                           *)
(* A job that panics unwinds the worker thread: the job's reply channel goes *)
(* first, the queue and the reply channels in it later.                      *)
EXTENDS Naturals, Sequences

CONSTANTS
    Requests,      \* the operations that callers submit
    Async,         \* those submitted through call_async
    Closers,       \* the threads that call shutdown
    MaxShutdowns,  \* bound: shutdown calls of each closer
    MaxPanics,     \* bound: 1 when a job may panic, else 0
    NoJob

ASSUME RequestsAssumption ==
    /\ Async \subseteq Requests /\ NoJob \notin Requests
    /\ MaxShutdowns \in Nat /\ MaxPanics \in {0, 1}

VARIABLES
    future,    \* the ConnectFuture: pending, ready, failed or dropped
    connect,   \* its operation state, and where the connecting thread is
    held,      \* whether a handle of the session exists
    open,      \* Worker.sender is Some
    join,      \* Worker.join is Some
    queue,     \* the jobs in the worker's channel
    worker,    \* [pc, job]: the worker thread
    state,     \* OperationFuture.state: 0 queued, 1 started, 2 cancelled
    answer,    \* what the reply channel holds, "gone" when its sender is dropped
    caller,    \* what the caller, or the owner of the future, knows
    effects,   \* how often the native operation was executed
    closer,    \* where each shutdown call is
    shutdowns  \* shutdown calls made

connecting == <<future, connect, held>>
jobs       == <<queue, state, answer, caller, effects>>
closing    == <<closer, shutdowns>>
vars == <<future, connect, held, open, join, queue, worker, state, answer, caller, effects,
          closer, shutdowns>>

Worker(pc, job) == [pc |-> pc, job |-> job]
Ended == worker.pc = "finished"

Init ==
    /\ future = "pending" /\ connect = "queued" /\ held = FALSE
    /\ open = FALSE /\ join = FALSE
    /\ worker = Worker("absent", NoJob)
    /\ queue = <<>>
    /\ state = [r \in Requests |-> 0]
    /\ answer = [r \in Requests |-> "none"]
    /\ caller = [r \in Requests |-> "new"]
    /\ effects = [r \in Requests |-> 0]
    /\ closer = [s \in Closers |-> "out"] /\ shutdowns = [s \in Closers |-> 0]

-----------------------------------------------------------------------------
(* connect_async and Scheduler::connect.                                     *)

(* begin_operation and cancel_operation: both compare with "queued".         *)
\* mutated: a cancelled operation begins all the same
Begins_always(s) == TRUE
Begins(s) == s = 0
\* mutated: an operation that has begun is marked as cancelled
Cancelled_always(s) == 2
Cancelled(s) == IF s = 0 THEN 2 ELSE s

DropConnectFuture ==
    /\ future = "pending" /\ future' = "dropped"
    /\ connect' = IF connect = "queued" THEN "cancelled" ELSE connect
    /\ UNCHANGED <<held, open, join, worker, jobs, closing>>

(* The thread begins; the worker thread connects to the service.             *)
ConnectBegin ==
    /\ connect = "queued" /\ connect' = "begun"
    /\ worker' = Worker("connecting", NoJob)
    /\ UNCHANGED <<future, held, open, join, jobs, closing>>

ConnectSession ==
    /\ connect = "begun"
    /\ \/ worker' = Worker("idle", NoJob) /\ connect' = "connected"
          /\ open' = TRUE /\ join' = TRUE
       \/ worker' = Worker("finished", NoJob) /\ connect' = "failed"
          /\ UNCHANGED <<open, join>>
    /\ UNCHANGED <<future, held, jobs, closing>>

(* The session goes to the future, or is dropped when the future is gone.    *)
\* mutated: nobody drops the session
Undelivered_leaked == UNCHANGED <<open, join>>
Undelivered == open' = FALSE /\ join' = FALSE

ConnectDeliver ==
    /\ connect \in {"connected", "failed"} /\ connect' = "over"
    /\ IF future = "dropped"
       THEN UNCHANGED <<future, held>> /\ Undelivered
       ELSE /\ held' = (connect = "connected")
            /\ future' = IF held' THEN "ready" ELSE "failed"
            /\ UNCHANGED <<open, join>>
    /\ UNCHANGED <<worker, jobs, closing>>

-----------------------------------------------------------------------------
(* Callers.  A blocking call has no operation state; it cannot be withdrawn. *)

(* The channel refuses a job once its receiver is dropped.                   *)
Receiving == ~Ended

Submit(r) ==
    /\ held /\ caller[r] = "new"
    /\ IF open /\ Receiving
       THEN caller' = [caller EXCEPT ![r] = "waiting"] /\ queue' = Append(queue, r)
       ELSE caller' = [caller EXCEPT ![r] = "refused"] /\ UNCHANGED queue
    /\ UNCHANGED <<connecting, open, join, worker, state, answer, effects, closing>>

(* recv of a blocking call, poll of a future.                                *)
Receive(r) ==
    /\ caller[r] = "waiting" /\ answer[r] # "none"
    /\ caller' = [caller EXCEPT ![r] = IF answer[r] = "gone" THEN "stopped" ELSE answer[r]]
    /\ UNCHANGED <<connecting, open, join, worker, queue, state, answer, effects, closing>>

DropFuture(r) ==
    /\ r \in Async /\ caller[r] = "waiting"
    /\ caller' = [caller EXCEPT ![r] = "dropped"]
    /\ state' = [state EXCEPT ![r] = Cancelled(@)]
    /\ UNCHANGED <<connecting, open, join, worker, queue, answer, effects, closing>>

-----------------------------------------------------------------------------
(* The worker thread.                                                        *)

workerUnchanged == <<connecting, open, join, caller, closing>>

(* The next job; a cancelled one only tells so, and nobody listens.          *)
Take ==
    /\ worker.pc = "idle" /\ queue # <<>>
    /\ LET r == Head(queue) IN
       IF Begins(state[r])
       THEN /\ worker' = Worker("run", r) /\ state' = [state EXCEPT ![r] = 1]
            /\ UNCHANGED answer
       ELSE answer' = [answer EXCEPT ![r] = "cancelled"] /\ UNCHANGED <<worker, state>>
    /\ queue' = Tail(queue)
    /\ UNCHANGED <<workerUnchanged, effects>>

Execute ==
    /\ worker.pc = "run" /\ worker' = Worker("reply", worker.job)
    /\ effects' = [effects EXCEPT ![worker.job] = @ + 1]
    /\ UNCHANGED <<workerUnchanged, queue, state, answer>>

Reply ==
    /\ worker.pc = "reply" /\ worker' = Worker("idle", NoJob)
    /\ answer' = [answer EXCEPT ![worker.job] = "ok"]
    /\ UNCHANGED <<workerUnchanged, queue, state, effects>>

Panicked == \E r \in Requests : answer[r] = "gone"

Panic ==
    /\ worker.pc \in {"run", "reply"} /\ ~Panicked /\ MaxPanics = 1
    /\ worker' = Worker("unwind", NoJob)
    /\ answer' = [answer EXCEPT ![worker.job] = "gone"]
    /\ UNCHANGED <<workerUnchanged, queue, state, effects>>

(* Dropping the receiver drops the jobs it holds.  The owner of a cancelled  *)
(* one is gone already.                                                      *)
Unwind ==
    /\ worker.pc = "unwind" /\ worker' = Worker("finished", NoJob)
    /\ queue' = <<>>
    /\ answer' = [r \in Requests |->
          IF state[r] # 2 /\ \E i \in DOMAIN queue : queue[i] = r THEN "gone" ELSE answer[r]]
    /\ UNCHANGED <<workerUnchanged, state, effects>>

(* The channel ends when it is closed and empty; then the apartment goes.    *)
\* mutated: closing discards what is queued
Drained_ignored == TRUE
Drained == queue = <<>>

Leave ==
    /\ worker.pc = "idle" /\ ~open /\ Drained
    /\ worker' = Worker("cleanup", NoJob) /\ UNCHANGED <<workerUnchanged, queue, state, answer, effects>>

Cleanup ==
    /\ worker.pc = "cleanup" /\ worker' = Worker("finished", NoJob)
    /\ UNCHANGED <<workerUnchanged, queue, state, answer, effects>>

-----------------------------------------------------------------------------
(* shutdown, and the drop of the last handle.                                *)

Shutdown(s) ==
    /\ held /\ closer[s] # "waiting" /\ shutdowns[s] < MaxShutdowns
    /\ shutdowns' = [shutdowns EXCEPT ![s] = @ + 1]
    /\ closer' = [closer EXCEPT ![s] = "waiting"] /\ open' = FALSE
    /\ UNCHANGED <<connecting, join, worker, jobs>>

\* mutated: a session that is closed counts as ended
Confirmed_closed == ~open
Confirmed == ~join \/ Ended

(* Joining the thread tells whether it panicked, to the one who joins it.    *)
ShutdownConfirm(s) ==
    /\ closer[s] = "waiting" /\ Confirmed
    /\ closer' = [closer EXCEPT ![s] = IF join /\ Panicked THEN "failed" ELSE "ok"]
    /\ join' = FALSE
    /\ UNCHANGED <<connecting, open, worker, jobs, shutdowns>>

ShutdownTimeout(s) ==
    /\ closer[s] = "waiting" /\ closer' = [closer EXCEPT ![s] = "timeout"]
    /\ UNCHANGED <<connecting, open, join, worker, jobs, shutdowns>>

(* Blocking calls and shutdown calls hold a handle; futures do not.          *)
DropLastHandle ==
    /\ held /\ \A s \in Closers : closer[s] # "waiting"
    /\ \A r \in Requests \ Async : caller[r] # "waiting"
    /\ held' = FALSE /\ open' = FALSE /\ join' = FALSE
    /\ UNCHANGED <<future, connect, worker, jobs, closing>>

-----------------------------------------------------------------------------

Connecting == ConnectBegin \/ ConnectSession \/ ConnectDeliver
Working == Take \/ Execute \/ Reply \/ Panic \/ Unwind \/ Leave \/ Cleanup
Calling(r) == Submit(r) \/ DropFuture(r) \/ Receive(r)
Closing(s) == Shutdown(s) \/ ShutdownConfirm(s) \/ ShutdownTimeout(s)

Next ==
    \/ Connecting \/ DropConnectFuture \/ Working \/ DropLastHandle
    \/ \E r \in Requests : Calling(r)
    \/ \E s \in Closers : Closing(s)

Spec == Init /\ [][Next]_vars

(* Threads take their steps, native operations return, blocking calls and    *)
(* live futures receive; nobody has to submit, drop or shut down anything.   *)
FairSpec ==
    /\ Spec
    /\ WF_vars(Connecting) /\ WF_vars(Working)
    /\ \A r \in Requests : WF_vars(Receive(r))
    /\ \A s \in Closers : WF_vars(ShutdownConfirm(s) \/ ShutdownTimeout(s))

-----------------------------------------------------------------------------
(* Properties.                                                               *)

(* The types of the variables.                                               *)
TypeOK ==
    /\ future \in {"pending", "ready", "failed", "dropped"}
    /\ connect \in {"queued", "cancelled", "begun", "connected", "failed", "over"}
    /\ {held, open, join} \subseteq BOOLEAN
    /\ queue \in Seq(Requests)
    /\ worker.pc \in {"absent", "connecting", "idle", "run", "reply", "unwind", "cleanup",
                      "finished"}
    /\ worker.job \in Requests \cup {NoJob}
    /\ state \in [Requests -> 0..2]
    /\ answer \in [Requests -> {"none", "ok", "cancelled", "gone"}]
    /\ caller \in [Requests -> {"new", "refused", "waiting", "ok", "cancelled", "stopped",
                                "dropped"}]
    /\ effects \in [Requests -> Nat]
    /\ closer \in [Closers -> {"out", "waiting", "ok", "failed", "timeout"}]
    /\ shutdowns \in [Closers -> 0..MaxShutdowns]

(* The session implements CancellableWork: exactly one of withdrawal and     *)
(* execution wins, jobs run one at a time and in order, a closed session     *)
(* finishes what it has accepted, and only a panic loses jobs.               *)
Phase(r) ==
    CASE caller[r] \in {"new", "refused"}             -> caller[r]
      [] answer[r] = "gone"                           -> "lost"
      [] state[r] = 2 /\ answer[r] # "gone"           -> "withdrawn"
      [] answer[r] = "ok"                             -> "done"
      [] worker.pc = "run" /\ worker.job = r          -> "running"
      [] worker.pc = "reply" /\ worker.job = r        -> "executed"
      [] OTHER                                        -> "queued"

Promise == INSTANCE CancellableWork WITH
    phase   <- [r \in Requests |-> Phase(r)],
    backlog <- queue,
    open    <- (connect \in {"queued", "begun"} \/ open) /\ Receiving,
    broken  <- Panicked

ImplementsPromise == Promise!Spec

(* Nobody is told of a success that did not happen or happens twice, of a    *)
(* cancellation (only the owner cancels, by going away), or of a stopped     *)
(* worker although the job was answered; a cancelled job has no effect.      *)
CallersToldTruth ==
    \A r \in Requests :
        /\ effects[r] <= (IF state[r] = 1 THEN 1 ELSE 0)
        /\ caller[r] = "ok" => effects[r] = 1
        /\ caller[r] = "stopped" => answer[r] = "gone"
        /\ caller[r] # "cancelled"

(* A shutdown that was confirmed, to whichever of several callers, leaves no *)
(* worker thread, no job waiting and no unanswered call behind.              *)
ShutdownConfirmed ==
    (\E s \in Closers : closer[s] \in {"ok", "failed"}) =>
        /\ Ended /\ queue = <<>>
        /\ \A r \in Requests :
              caller[r] \in {"waiting", "dropped"} => answer[r] # "none" \/ state[r] = 2

(* Every caller that waits gets an answer: that of its job, or the news that *)
(* the worker has stopped, across panics, shutdowns and the last handle.     *)
CallsAnswered == \A r \in Requests : caller[r] = "waiting" ~> caller[r] # "waiting"

(* A session that is closed, or was connected for a future nobody holds any  *)
(* more, ends its worker thread.                                             *)
SessionEnds ==
    /\ (connect = "over" /\ ~open) ~> Ended
    /\ future = "dropped" ~> worker.pc \in {"absent", "finished"}
=============================================================================
