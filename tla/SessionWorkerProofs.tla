------------------------ MODULE SessionWorkerProofs ------------------------
(* Proofs about SessionWorker: what callers are told, and what a confirmed   *)
(* shutdown means, for any number of operations and of closing threads.      *)
EXTENDS SessionWorker, TLAPS

Queued(r) == \E i \in 1..Len(queue) : queue[i] = r
Runs(r) == worker.pc \in {"run", "reply"} /\ worker.job = r

(* The worker thread, the handle and the closers agree on how far the        *)
(* session is; a thread that cannot take jobs any more has none left.        *)
Lifecycle ==
    /\ connect \in {"queued", "cancelled"} <=> worker.pc = "absent"
    /\ connect = "begun" <=> worker.pc = "connecting"
    /\ connect = "connected" => join
    /\ held => connect = "over" /\ (join \/ Ended)
    /\ worker.pc \in {"absent", "connecting", "cleanup", "finished"} => queue = <<>>
    /\ worker.pc \in {"absent", "connecting", "cleanup"} => ~open
    /\ worker.pc \in {"run", "reply"} => worker.job \in Requests
    /\ \A s \in Closers : closer[s] = "waiting" => held
    /\ \A s \in Closers : closer[s] \in {"ok", "failed"} => Ended

(* A job is in the queue once.                                               *)
Distinct == \A i, j \in 1..Len(queue) : queue[i] = queue[j] => i = j

(* What is known of a job from where it is.                                  *)
Placed(r) ==
    /\ caller[r] \in {"new", "refused"} =>
          state[r] = 0 /\ answer[r] = "none" /\ ~Queued(r) /\ ~Runs(r)
    /\ caller[r] \in {"waiting", "dropped"} /\ answer[r] = "none" /\ state[r] # 2 =>
          Queued(r) \/ Runs(r)
    /\ Queued(r) => answer[r] = "none" /\ state[r] # 1 /\ ~Runs(r)
    /\ Runs(r) => answer[r] = "none" /\ state[r] = 1
    /\ Runs(r) => effects[r] = (IF worker.pc = "run" THEN 0 ELSE 1)

(* What is known of it from what is recorded about it.                       *)
Recorded(r) ==
    /\ effects[r] <= (IF state[r] = 1 THEN 1 ELSE 0)
    /\ state[r] = 2 => caller[r] = "dropped"
    /\ answer[r] = "ok" => effects[r] = 1
    /\ answer[r] = "cancelled" => state[r] = 2
    /\ caller[r] = "ok" => answer[r] = "ok"
    /\ caller[r] = "stopped" => answer[r] = "gone"
    /\ caller[r] # "cancelled"

Jobs == \A r \in Requests : Placed(r) /\ Recorded(r)

Inv == TypeOK /\ Lifecycle /\ Distinct /\ Jobs

-----------------------------------------------------------------------------
(* The queue: a job appended to it, its head taken.                          *)

LEMMA Appending ==
    ASSUME queue \in Seq(Requests), NEW r \in Requests, queue' = Append(queue, r)
    PROVE  /\ queue' \in Seq(Requests)
           /\ \A q : Queued(q)' <=> Queued(q) \/ q = r
           /\ Distinct /\ ~Queued(r) => Distinct'
<1>1. /\ queue' \in Seq(Requests) /\ Len(queue) \in Nat /\ Len(queue') = Len(queue) + 1
      /\ \A i \in 1..Len(queue) : queue'[i] = queue[i]
      /\ queue'[Len(queue) + 1] = r
  OBVIOUS
<1>2. \A q : Queued(q)' <=> Queued(q) \/ q = r
  <2> SUFFICES ASSUME NEW q PROVE Queued(q)' <=> Queued(q) \/ q = r  OBVIOUS
  <2>1. ASSUME Queued(q)' PROVE Queued(q) \/ q = r  BY <1>1, <2>1 DEF Queued
  <2>2. ASSUME Queued(q) PROVE Queued(q)'
    <3>1. PICK i \in 1..Len(queue) : queue[i] = q  BY <2>2 DEF Queued
    <3>2. i \in 1..Len(queue') /\ queue'[i] = q  BY <3>1, <1>1
    <3>3. QED  BY <3>2 DEF Queued
  <2>3. ASSUME q = r PROVE Queued(q)'
    <3>1. Len(queue) + 1 \in 1..Len(queue') /\ queue'[Len(queue) + 1] = q  BY <2>3, <1>1
    <3>2. QED  BY <3>1 DEF Queued
  <2>4. QED  BY <2>1, <2>2, <2>3
<1>3. ASSUME Distinct, ~Queued(r) PROVE Distinct'
  <2> SUFFICES ASSUME NEW i \in 1..Len(queue'), NEW j \in 1..Len(queue'), queue'[i] = queue'[j]
               PROVE  i = j
    BY DEF Distinct
  <2>1. CASE i \in 1..Len(queue) /\ j \in 1..Len(queue)  BY <2>1, <1>1, <1>3 DEF Distinct
  <2>2. CASE i = Len(queue) + 1 /\ j \in 1..Len(queue)
    <3>1. queue[j] = r  BY <2>2, <1>1
    <3>2. QED  BY <3>1, <2>2, <1>3 DEF Queued
  <2>3. CASE j = Len(queue) + 1 /\ i \in 1..Len(queue)
    <3>1. queue[i] = r  BY <2>3, <1>1
    <3>2. QED  BY <3>1, <2>3, <1>3 DEF Queued
  <2>4. CASE i = Len(queue) + 1 /\ j = Len(queue) + 1  BY <2>4
  <2>5. QED  BY <1>1, <2>1, <2>2, <2>3, <2>4
<1>4. QED  BY <1>1, <1>2, <1>3

LEMMA Taking ==
    ASSUME queue \in Seq(Requests), queue # <<>>, queue' = Tail(queue), Distinct
    PROVE  /\ queue' \in Seq(Requests) /\ Head(queue) \in Requests
           /\ Queued(Head(queue))
           /\ \A q : Queued(q)' <=> Queued(q) /\ q # Head(queue)
           /\ Distinct'
<1>1. /\ queue' \in Seq(Requests) /\ Len(queue) \in Nat \ {0} /\ Len(queue') = Len(queue) - 1
      /\ Head(queue) = queue[1] /\ Head(queue) \in Requests
      /\ \A i \in 1..Len(queue') : queue'[i] = queue[i + 1]
  OBVIOUS
<1>2. Queued(Head(queue))  BY <1>1 DEF Queued
<1>3. ASSUME NEW q PROVE Queued(q)' <=> Queued(q) /\ q # Head(queue)
  <2>1. ASSUME Queued(q)' PROVE Queued(q) /\ q # Head(queue)
    <3>1. PICK i \in 1..Len(queue') : queue'[i] = q  BY <2>1 DEF Queued
    <3>2. i + 1 \in 1..Len(queue) /\ queue[i + 1] = q /\ 1 \in 1..Len(queue) /\ i + 1 # 1
      BY <3>1, <1>1
    <3>3. queue[1] # q  BY <3>2 DEF Distinct
    <3>4. QED  BY <3>2, <3>3, <1>1 DEF Queued
  <2>2. ASSUME Queued(q), q # Head(queue) PROVE Queued(q)'
    <3>1. PICK i \in 1..Len(queue) : queue[i] = q  BY <2>2 DEF Queued
    <3>2. i # 1  BY <3>1, <2>2, <1>1
    <3>3. i - 1 \in 1..Len(queue') /\ queue'[i - 1] = q  BY <3>1, <3>2, <1>1
    <3>4. QED  BY <3>3 DEF Queued
  <2>3. QED  BY <2>1, <2>2
<1>4. Distinct'
  <2> SUFFICES ASSUME NEW i \in 1..Len(queue'), NEW j \in 1..Len(queue'), queue'[i] = queue'[j]
               PROVE  i = j
    BY DEF Distinct
  <2>1. /\ i + 1 \in 1..Len(queue) /\ j + 1 \in 1..Len(queue) /\ queue[i + 1] = queue[j + 1]
        /\ i \in Nat /\ j \in Nat
    BY <1>1
  <2>2. i + 1 = j + 1  BY <2>1 DEF Distinct
  <2>3. QED  BY <2>1, <2>2
<1>5. QED  BY <1>1, <1>2, <1>3, <1>4

(* A step that touches no job, and does not make the worker run one.         *)
LEMMA QuietJobs ==
    ASSUME Jobs, Distinct, UNCHANGED jobs, worker' = worker \/ (\A r \in Requests : ~Runs(r) /\ ~Runs(r)')
    PROVE  Jobs' /\ Distinct'
<1>1. /\ queue' = queue /\ state' = state /\ answer' = answer /\ caller' = caller
      /\ effects' = effects
  BY DEF jobs
<1>2. \A r \in Requests : (Queued(r)' <=> Queued(r)) /\ (Runs(r)' <=> Runs(r))
  BY <1>1 DEF Queued, Runs
<1>3. \A r \in Requests : Runs(r) => worker'.pc = worker.pc  OBVIOUS
<1>4. ASSUME NEW r \in Requests PROVE Placed(r)' /\ Recorded(r)'
  <2>1. Placed(r) /\ Recorded(r)  BY DEF Jobs
  <2>2. Placed(r)'  BY <2>1, <1>1, <1>2, <1>3 DEF Placed
  <2>3. Recorded(r)'  BY <2>1, <1>1 DEF Recorded
  <2>4. QED  BY <2>2, <2>3
<1>5. Distinct'  BY <1>1 DEF Distinct
<1>6. QED  BY <1>4, <1>5 DEF Jobs

-----------------------------------------------------------------------------
(* Each step keeps the invariant: first those that touch no job.             *)

LEMMA InitInv == Init => Inv
<1> SUFFICES ASSUME Init PROVE Inv  OBVIOUS
<1> USE RequestsAssumption
<1>1. queue = <<>> /\ Len(queue) = 0 /\ worker.pc = "absent" /\ worker.job = NoJob
  BY DEF Init, Worker
<1>2. \A r : ~Queued(r) /\ ~Runs(r)  BY <1>1 DEF Queued, Runs
<1>3. TypeOK
  <2>1. {held, open, join} \subseteq BOOLEAN  BY DEF Init
  <2>2. /\ queue \in Seq(Requests) /\ state \in [Requests -> 0..2]
        /\ answer \in [Requests -> {"none", "ok", "cancelled", "gone"}]
        /\ caller \in [Requests -> {"new", "refused", "waiting", "ok", "cancelled", "stopped",
                                    "dropped"}]
        /\ effects \in [Requests -> Nat]
        /\ closer \in [Closers -> {"out", "waiting", "ok", "failed", "timeout"}]
        /\ shutdowns \in [Closers -> 0..MaxShutdowns]
    BY DEF Init
  <2>3. QED  BY <1>1, <2>1, <2>2 DEF Init, TypeOK
<1>4. Lifecycle  BY <1>1 DEF Init, Lifecycle
<1>5. Distinct  BY <1>1 DEF Distinct
<1>6. ASSUME NEW r \in Requests PROVE Placed(r) /\ Recorded(r)
  <2>1. /\ state[r] = 0 /\ answer[r] = "none" /\ caller[r] = "new" /\ effects[r] = 0
    BY DEF Init
  <2>2. Placed(r)  BY <1>2, <2>1 DEF Placed
  <2>3. Recorded(r)  BY <2>1 DEF Recorded
  <2>4. QED  BY <2>2, <2>3
<1>7. QED  BY <1>3, <1>4, <1>5, <1>6 DEF Inv, Jobs

LEMMA ConnectingInv == Inv /\ (Connecting \/ DropConnectFuture) => Inv'
<1> SUFFICES ASSUME Inv, Connecting \/ DropConnectFuture PROVE Inv'  OBVIOUS
<1> USE DEF Inv
<1>1. UNCHANGED jobs /\ UNCHANGED closing
  BY DEF Connecting, DropConnectFuture, ConnectBegin, ConnectSession, ConnectDeliver
<1>2. worker' = worker \/ (worker.pc \in {"absent", "connecting"}
                           /\ worker'.pc \in {"connecting", "idle", "finished"})
  BY DEF Connecting, DropConnectFuture, ConnectBegin, ConnectSession, ConnectDeliver,
         Lifecycle, Worker
<1>3. Jobs' /\ Distinct'  BY <1>1, <1>2, QuietJobs DEF Runs
<1>4. TypeOK'
  <2>1. CASE ConnectBegin
    BY <2>1, <1>1 DEF ConnectBegin, TypeOK, jobs, closing, Worker
  <2>2. CASE ConnectSession
    <3>1. {held', open', join'} \subseteq BOOLEAN  BY <2>2 DEF ConnectSession, TypeOK
    <3>2. /\ future' = future /\ connect' \in {"connected", "failed"}
          /\ worker'.pc \in {"idle", "finished"} /\ worker'.job = NoJob
      BY <2>2 DEF ConnectSession, Worker
    <3>3. QED  BY <3>1, <3>2, <1>1 DEF TypeOK, jobs, closing
  <2>3. CASE ConnectDeliver
    <3>1. {held', open', join'} \subseteq BOOLEAN
      BY <2>3 DEF ConnectDeliver, Undelivered, TypeOK
    <3>2. future' \in {"pending", "ready", "failed", "dropped"}
      <4>1. CASE future = "dropped"  BY <2>3, <4>1 DEF ConnectDeliver
      <4>2. CASE future # "dropped"
        <5>1. future' \in {"ready", "failed"}  BY <2>3, <4>2, Zenon DEF ConnectDeliver
        <5>2. QED  BY <5>1
      <4>3. QED  BY <4>1, <4>2
    <3>3. worker' = worker /\ connect' = "over"  BY <2>3 DEF ConnectDeliver
    <3>4. QED  BY <3>1, <3>2, <3>3, <1>1 DEF TypeOK, jobs, closing
  <2>4. CASE DropConnectFuture
    BY <2>4, <1>1 DEF DropConnectFuture, TypeOK, jobs, closing
  <2>5. QED  BY <2>1, <2>2, <2>3, <2>4 DEF Connecting
<1>5. Lifecycle'
  <2>1. CASE ConnectBegin
    BY <2>1, <1>1 DEF ConnectBegin, TypeOK, Lifecycle, Ended, jobs, closing, Worker
  <2>2. CASE ConnectSession
    BY <2>2, <1>1 DEF ConnectSession, TypeOK, Lifecycle, Ended, jobs, closing, Worker
  <2>3. CASE ConnectDeliver
    BY <2>3, <1>1 DEF ConnectDeliver, Undelivered, TypeOK, Lifecycle, Ended, jobs, closing
  <2>4. CASE DropConnectFuture
    BY <2>4, <1>1 DEF DropConnectFuture, TypeOK, Lifecycle, Ended, jobs, closing
  <2>5. QED  BY <2>1, <2>2, <2>3, <2>4 DEF Connecting
<1>6. QED  BY <1>3, <1>4, <1>5

LEMMA EndingInv == Inv /\ (Leave \/ Cleanup \/ DropLastHandle) => Inv'
<1> SUFFICES ASSUME Inv, Leave \/ Cleanup \/ DropLastHandle PROVE Inv'  OBVIOUS
<1> USE DEF Inv
<1>1. UNCHANGED jobs /\ UNCHANGED closing
  BY DEF Leave, Cleanup, DropLastHandle, workerUnchanged, jobs
<1>2. worker' = worker \/ (worker.pc \in {"idle", "cleanup"}
                           /\ worker'.pc \in {"cleanup", "finished"})
  BY DEF Leave, Cleanup, DropLastHandle, Worker
<1>3. Jobs' /\ Distinct'  BY <1>1, <1>2, QuietJobs DEF Runs
<1>4. TypeOK'
  <2>1. {held', open', join'} \subseteq BOOLEAN
    BY DEF Leave, Cleanup, DropLastHandle, workerUnchanged, connecting, TypeOK
  <2>2. UNCHANGED <<future, connect>>
    BY DEF Leave, Cleanup, DropLastHandle, workerUnchanged, connecting
  <2>3. /\ worker'.pc \in {"absent", "connecting", "idle", "run", "reply", "unwind", "cleanup",
                           "finished"}
        /\ worker'.job \in Requests \cup {NoJob}
    BY DEF Leave, Cleanup, DropLastHandle, TypeOK, Worker
  <2>4. QED  BY <1>1, <2>1, <2>2, <2>3 DEF jobs, closing, TypeOK
<1>5. Lifecycle'
  <2>1. CASE Leave
    BY <2>1, <1>1 DEF Leave, Drained, workerUnchanged, connecting, jobs, closing, TypeOK,
                      Lifecycle, Ended, Worker
  <2>2. CASE Cleanup
    BY <2>2, <1>1 DEF Cleanup, workerUnchanged, connecting, jobs, closing, TypeOK,
                      Lifecycle, Ended, Worker
  <2>3. CASE DropLastHandle
    BY <2>3, <1>1 DEF DropLastHandle, jobs, closing, TypeOK, Lifecycle, Ended
  <2>4. QED  BY <2>1, <2>2, <2>3
<1>6. QED  BY <1>3, <1>4, <1>5

LEMMA ClosingInv == ASSUME Inv, NEW s \in Closers, Closing(s) PROVE Inv'
<1> USE DEF Inv
<1> USE RequestsAssumption
<1>1. UNCHANGED jobs /\ UNCHANGED connecting /\ worker' = worker
  BY DEF Closing, Shutdown, ShutdownConfirm, ShutdownTimeout
<1>2. Jobs' /\ Distinct'  BY <1>1, QuietJobs
<1>3. TypeOK'
  <2>1. CASE Shutdown(s)
    <3>1. {held', open', join'} \subseteq BOOLEAN  BY <2>1, <1>1 DEF Shutdown, TypeOK, connecting
    <3>2. /\ closer' \in [Closers -> {"out", "waiting", "ok", "failed", "timeout"}]
          /\ shutdowns' \in [Closers -> 0..MaxShutdowns]
      BY <2>1 DEF Shutdown, TypeOK
    <3>3. QED  BY <3>1, <3>2, <1>1 DEF TypeOK, jobs, connecting
  <2>2. CASE ShutdownConfirm(s)
    BY <2>2, <1>1 DEF ShutdownConfirm, TypeOK, jobs, connecting
  <2>3. CASE ShutdownTimeout(s)
    BY <2>3, <1>1 DEF ShutdownTimeout, TypeOK, jobs, connecting
  <2>4. QED  BY <2>1, <2>2, <2>3 DEF Closing
<1>4. Lifecycle'
  <2>1. CASE Shutdown(s)
    BY <2>1, <1>1 DEF Shutdown, TypeOK, Lifecycle, Ended, jobs, connecting
  <2>2. CASE ShutdownConfirm(s)
    <3>1. Ended  BY <2>2 DEF ShutdownConfirm, Confirmed, Lifecycle
    <3>2. QED  BY <3>1, <2>2, <1>1 DEF ShutdownConfirm, TypeOK, Lifecycle, Ended, jobs, connecting
  <2>3. CASE ShutdownTimeout(s)
    BY <2>3, <1>1 DEF ShutdownTimeout, TypeOK, Lifecycle, Ended, jobs, connecting
  <2>4. QED  BY <2>1, <2>2, <2>3 DEF Closing
<1>5. QED  BY <1>2, <1>3, <1>4

-----------------------------------------------------------------------------
(* The steps of callers.                                                     *)

LEMMA SubmitInv == ASSUME Inv, NEW r \in Requests, Submit(r) PROVE Inv'
<1> USE DEF Inv
<1>1. /\ UNCHANGED <<connecting, open, join, worker, state, answer, effects, closing>>
      /\ held /\ caller[r] = "new"
  BY DEF Submit
<1>2. state[r] = 0 /\ answer[r] = "none" /\ ~Queued(r) /\ ~Runs(r)
  BY <1>1 DEF Jobs, Placed
<1>3. caller \in [Requests -> {"new", "refused", "waiting", "ok", "cancelled", "stopped",
                               "dropped"}]
  BY DEF TypeOK
<1>4. \A q \in Requests : Runs(q)' <=> Runs(q)  BY <1>1 DEF Runs
<1>5. CASE open /\ Receiving
  <2>1. caller' = [caller EXCEPT ![r] = "waiting"] /\ queue' = Append(queue, r)
    BY <1>5 DEF Submit
  <2>2. /\ queue' \in Seq(Requests) /\ (\A q : Queued(q)' <=> Queued(q) \/ q = r) /\ Distinct'
    BY <2>1, <1>2, Appending DEF TypeOK
  <2>3. TypeOK'  BY <2>1, <2>2, <1>1, <1>3 DEF TypeOK, connecting, closing
  <2>4. worker.pc \notin {"absent", "connecting", "cleanup", "finished"}
    BY <1>5, <1>1 DEF Receiving, Ended, Lifecycle
  <2>5. Lifecycle'  BY <2>4, <1>1 DEF Lifecycle, Ended, connecting, closing
  <2>6. ASSUME NEW q \in Requests PROVE Placed(q)' /\ Recorded(q)'
    <3>1. Placed(q) /\ Recorded(q)  BY DEF Jobs
    <3>2. Recorded(q)'  BY <3>1, <2>1, <1>1, <1>2, <1>3 DEF Recorded
    <3>3. Placed(q)'
      <4>1. CASE q = r  BY <4>1, <2>1, <2>2, <1>1, <1>2, <1>3, <1>4 DEF Placed
      <4>2. CASE q # r
        <5>1. caller'[q] = caller[q] /\ (Queued(q)' <=> Queued(q))
          BY <4>2, <2>1, <2>2, <1>3
        <5>2. QED  BY <5>1, <3>1, <1>1, <1>4 DEF Placed
      <4>3. QED  BY <4>1, <4>2
    <3>4. QED  BY <3>2, <3>3
  <2>7. QED  BY <2>2, <2>3, <2>5, <2>6 DEF Jobs
<1>6. CASE ~(open /\ Receiving)
  <2>1. caller' = [caller EXCEPT ![r] = "refused"] /\ queue' = queue
    BY <1>6 DEF Submit
  <2>2. \A q \in Requests : Queued(q)' <=> Queued(q)  BY <2>1 DEF Queued
  <2>3. TypeOK'  BY <2>1, <1>1, <1>3 DEF TypeOK, connecting, closing
  <2>4. Lifecycle'  BY <2>1, <1>1 DEF Lifecycle, Ended, connecting, closing
  <2>5. ASSUME NEW q \in Requests PROVE Placed(q)' /\ Recorded(q)'
    <3>1. Placed(q) /\ Recorded(q)  BY DEF Jobs
    <3>2. Recorded(q)'  BY <3>1, <2>1, <1>1, <1>2, <1>3 DEF Recorded
    <3>3. Placed(q)'  BY <3>1, <2>1, <2>2, <1>1, <1>2, <1>3, <1>4 DEF Placed
    <3>4. QED  BY <3>2, <3>3
  <2>6. Distinct'  BY <2>1 DEF Distinct
  <2>7. QED  BY <2>3, <2>4, <2>5, <2>6 DEF Jobs
<1>7. QED  BY <1>5, <1>6

(* Receiving an answer, or going away without one.                           *)
LEMMA ListenerInv == ASSUME Inv, NEW r \in Requests, Receive(r) \/ DropFuture(r) PROVE Inv'
<1> USE DEF Inv
<1>1. /\ UNCHANGED <<connecting, open, join, worker, queue, answer, effects, closing>>
      /\ caller[r] = "waiting"
  BY DEF Receive, DropFuture
<1>2. /\ caller \in [Requests -> {"new", "refused", "waiting", "ok", "cancelled", "stopped",
                                  "dropped"}]
      /\ state \in [Requests -> 0..2]
      /\ answer \in [Requests -> {"none", "ok", "cancelled", "gone"}]
      /\ effects \in [Requests -> Nat]
  BY DEF TypeOK
<1>3. \A q \in Requests : (Runs(q)' <=> Runs(q)) /\ (Queued(q)' <=> Queued(q))
  BY <1>1 DEF Runs, Queued
<1>4. Lifecycle' /\ Distinct'  BY <1>1 DEF Lifecycle, Ended, connecting, closing, Distinct
<1>5. Recorded(r) /\ state[r] # 2 /\ answer[r] # "cancelled"  BY <1>1 DEF Jobs, Recorded
<1>6. /\ \A q \in Requests : q # r => caller'[q] = caller[q] /\ state'[q] = state[q]
      /\ caller' \in [Requests -> {"new", "refused", "waiting", "ok", "cancelled", "stopped",
                                   "dropped"}]
      /\ state' \in [Requests -> 0..2]
  BY <1>2 DEF Receive, DropFuture, Cancelled
<1>7. TypeOK'  BY <1>1, <1>6 DEF TypeOK, connecting, closing
<1>8. ASSUME NEW q \in Requests, q # r PROVE Placed(q)' /\ Recorded(q)'
  <2>1. Placed(q) /\ Recorded(q)  BY DEF Jobs
  <2>2. QED  BY <2>1, <1>1, <1>3, <1>6, <1>8 DEF Placed, Recorded
<1>9. Placed(r)' /\ Recorded(r)'
  <2>1. Placed(r)  BY DEF Jobs
  <2>2. CASE Receive(r)
    <3>1. /\ state' = state /\ answer[r] # "none"
          /\ caller'[r] = IF answer[r] = "gone" THEN "stopped" ELSE answer[r]
      BY <2>2, <1>2 DEF Receive
    <3>2. \/ caller'[r] = "stopped" /\ answer[r] = "gone"
          \/ caller'[r] = "ok" /\ answer[r] = "ok"
      BY <3>1, <1>2, <1>5
    <3>3. Placed(r)'  BY <3>1, <3>2, <2>1, <1>1, <1>3 DEF Placed
    <3>4. Recorded(r)'  BY <3>1, <3>2, <1>1, <1>5 DEF Recorded
    <3>5. QED  BY <3>3, <3>4
  <2>3. CASE DropFuture(r)
    <3>1. caller'[r] = "dropped" /\ state'[r] = Cancelled(state[r])
      BY <2>3, <1>2 DEF DropFuture
    <3>2. state[r] \in {0, 1} /\ state'[r] = (IF state[r] = 0 THEN 2 ELSE 1)
      BY <3>1, <1>2, <1>5 DEF Cancelled
    <3>3. Placed(r)'  BY <3>1, <3>2, <2>1, <1>1, <1>3 DEF Placed
    <3>4. Recorded(r)'  BY <3>1, <3>2, <1>1, <1>2, <1>5 DEF Recorded
    <3>5. QED  BY <3>3, <3>4
  <2>4. QED  BY <2>2, <2>3
<1>10. QED  BY <1>4, <1>7, <1>8, <1>9 DEF Jobs

-----------------------------------------------------------------------------
(* The steps of the worker thread.                                           *)

LEMMA JobTypes ==
    ASSUME TypeOK
    PROVE  /\ caller \in [Requests -> {"new", "refused", "waiting", "ok", "cancelled", "stopped",
                                       "dropped"}]
           /\ state \in [Requests -> 0..2]
           /\ answer \in [Requests -> {"none", "ok", "cancelled", "gone"}]
           /\ effects \in [Requests -> Nat]
BY DEF TypeOK

LEMMA TakeInv == ASSUME Inv, Take PROVE Inv'
<1> USE DEF Inv
<1> DEFINE r == Head(queue)
<1>1. /\ UNCHANGED <<connecting, open, join, caller, closing, effects>>
      /\ worker.pc = "idle" /\ queue # <<>> /\ queue' = Tail(queue)
  BY DEF Take, workerUnchanged
<1>2. /\ queue' \in Seq(Requests) /\ r \in Requests /\ Queued(r) /\ Distinct'
      /\ \A q : Queued(q)' <=> Queued(q) /\ q # r
  BY <1>1, Taking DEF TypeOK
<1>3. Placed(r) /\ Recorded(r)  BY <1>2 DEF Jobs
<1>4. /\ answer[r] = "none" /\ state[r] \in {0, 2} /\ caller[r] \notin {"new", "refused"}
  BY <1>3, <1>2, JobTypes DEF Placed
<1>5. effects[r] = 0
  BY <1>2, <1>3, <1>4, JobTypes DEF Recorded
<1>6. CASE Begins(state[r])
  <2>1. /\ worker' = Worker("run", r) /\ state' = [state EXCEPT ![r] = 1] /\ answer' = answer
    BY <1>6 DEF Take
  <2>2. state[r] = 0  BY <1>6 DEF Begins
  <2>3. worker'.pc = "run" /\ worker'.job = r  BY <2>1 DEF Worker
  <2>4. TypeOK'  BY <2>1, <2>3, <1>1, <1>2 DEF TypeOK, connecting, closing
  <2>5. Lifecycle'  BY <2>3, <1>1, <1>2 DEF Lifecycle, Ended, connecting, closing
  <2>6. ASSUME NEW q \in Requests PROVE Placed(q)' /\ Recorded(q)'
    <3>1. Placed(q) /\ Recorded(q) /\ ~Runs(q)  BY <1>1 DEF Jobs, Runs
    <3>2. Runs(q)' <=> q = r  BY <2>3 DEF Runs
    <3>3. state'[q] = (IF q = r THEN 1 ELSE state[q])  BY <2>1, JobTypes
    <3>4. Placed(q)'
      <4>1. CASE q = r
        BY <4>1, <3>2, <3>3, <2>1, <2>3, <1>1, <1>2, <1>4, <1>5 DEF Placed
      <4>2. CASE q # r  BY <4>2, <3>1, <3>2, <3>3, <2>1, <1>1, <1>2 DEF Placed
      <4>3. QED  BY <4>1, <4>2
    <3>5. Recorded(q)'
      <4>1. CASE q = r
        BY <4>1, <3>1, <3>3, <2>1, <1>1, <1>4, <1>5 DEF Recorded
      <4>2. CASE q # r  BY <4>2, <3>1, <3>3, <2>1, <1>1 DEF Recorded
      <4>3. QED  BY <4>1, <4>2
    <3>6. QED  BY <3>4, <3>5
  <2>7. QED  BY <1>2, <2>4, <2>5, <2>6 DEF Jobs
<1>7. CASE ~Begins(state[r])
  <2>1. /\ answer' = [answer EXCEPT ![r] = "cancelled"] /\ worker' = worker /\ state' = state
    BY <1>7 DEF Take
  <2>2. state[r] = 2  BY <1>7, <1>4 DEF Begins
  <2>3. caller[r] = "dropped"  BY <2>2, <1>3 DEF Recorded
  <2>4. TypeOK'  BY <2>1, <1>1, <1>2 DEF TypeOK, connecting, closing
  <2>5. Lifecycle'  BY <2>1, <1>1 DEF Lifecycle, Ended, connecting, closing
  <2>6. ASSUME NEW q \in Requests PROVE Placed(q)' /\ Recorded(q)'
    <3>1. Placed(q) /\ Recorded(q) /\ ~Runs(q) /\ ~Runs(q)'  BY <1>1, <2>1 DEF Jobs, Runs
    <3>2. answer'[q] = (IF q = r THEN "cancelled" ELSE answer[q])  BY <2>1, JobTypes
    <3>3. Placed(q)'
      <4>1. CASE q = r
        BY <4>1, <3>1, <3>2, <2>1, <2>2, <2>3, <1>1, <1>2 DEF Placed
      <4>2. CASE q # r  BY <4>2, <3>1, <3>2, <2>1, <1>1, <1>2 DEF Placed
      <4>3. QED  BY <4>1, <4>2
    <3>4. Recorded(q)'
      <4>1. CASE q = r  BY <4>1, <3>1, <3>2, <2>1, <2>2, <2>3, <1>1 DEF Recorded
      <4>2. CASE q # r  BY <4>2, <3>1, <3>2, <2>1, <1>1 DEF Recorded
      <4>3. QED  BY <4>1, <4>2
    <3>5. QED  BY <3>3, <3>4
  <2>7. QED  BY <1>2, <2>4, <2>5, <2>6 DEF Jobs
<1>8. QED  BY <1>6, <1>7

LEMMA RunInv == ASSUME Inv, Execute \/ Reply \/ Panic PROVE Inv'
<1> USE DEF Inv
<1> DEFINE r == worker.job
<1>1. /\ UNCHANGED <<connecting, open, join, caller, closing, queue, state>>
      /\ worker.pc \in {"run", "reply"}
  BY DEF Execute, Reply, Panic, workerUnchanged
<1>2. r \in Requests /\ Runs(r)  BY <1>1 DEF Lifecycle, Runs
<1>3. Placed(r) /\ Recorded(r)  BY <1>2 DEF Jobs
<1>4. answer[r] = "none" /\ state[r] = 1 /\ ~Queued(r)  BY <1>2, <1>3 DEF Placed
<1>5. effects[r] = (IF worker.pc = "run" THEN 0 ELSE 1)  BY <1>2, <1>3 DEF Placed
<1>6. \A q \in Requests : Queued(q)' <=> Queued(q)  BY <1>1 DEF Queued
<1>7. Distinct'  BY <1>1 DEF Distinct
<1>8. CASE Execute
  <2>1. /\ worker.pc = "run" /\ worker'.pc = "reply" /\ worker'.job = r /\ answer' = answer
        /\ effects' = [effects EXCEPT ![r] = @ + 1]
    BY <1>8 DEF Execute, Worker
  <2>2. effects' \in [Requests -> Nat] /\ \A q \in Requests : effects'[q] = (IF q = r THEN 1 ELSE effects[q])
    BY <2>1, <1>2, <1>5, JobTypes
  <2>3. TypeOK'  BY <2>1, <2>2, <1>1, <1>2 DEF TypeOK, connecting, closing
  <2>4. Lifecycle'  BY <2>1, <1>1, <1>2 DEF Lifecycle, Ended, connecting, closing
  <2>5. ASSUME NEW q \in Requests PROVE Placed(q)' /\ Recorded(q)'
    <3>1. Placed(q) /\ Recorded(q)  BY DEF Jobs
    <3>2. (Runs(q) <=> q = r) /\ (Runs(q)' <=> q = r)  BY <2>1, <1>1 DEF Runs
    <3>3. Placed(q)'  BY <3>1, <3>2, <2>1, <2>2, <1>1, <1>6 DEF Placed
    <3>4. Recorded(q)'
      <4>1. CASE q = r  BY <4>1, <3>1, <2>1, <2>2, <1>1, <1>4 DEF Recorded
      <4>2. CASE q # r  BY <4>2, <3>1, <2>1, <2>2, <1>1 DEF Recorded
      <4>3. QED  BY <4>1, <4>2
    <3>5. QED  BY <3>3, <3>4
  <2>6. QED  BY <1>7, <2>3, <2>4, <2>5 DEF Jobs
<1>9. CASE Reply \/ Panic
  <2>1. /\ worker'.pc \in {"idle", "unwind"} /\ worker'.job = NoJob /\ effects' = effects
        /\ \E b \in {"ok", "gone"} :
              answer' = [answer EXCEPT ![r] = b] /\ (b = "ok" => worker.pc = "reply")
    BY <1>9 DEF Reply, Panic, Worker
  <2>2. PICK b \in {"ok", "gone"} :
           answer' = [answer EXCEPT ![r] = b] /\ (b = "ok" => worker.pc = "reply")
    BY <2>1
  <2>3. \A q \in Requests : answer'[q] = (IF q = r THEN b ELSE answer[q])  BY <2>2, JobTypes
  <2>4. TypeOK'  BY <2>1, <2>2, <1>1, <1>2 DEF TypeOK, connecting, closing
  <2>5. Lifecycle'  BY <2>1, <1>1 DEF Lifecycle, Ended, connecting, closing
  <2>6. ASSUME NEW q \in Requests PROVE Placed(q)' /\ Recorded(q)'
    <3>1. Placed(q) /\ Recorded(q)  BY DEF Jobs
    <3>2. (Runs(q) <=> q = r) /\ ~Runs(q)'  BY <2>1, <1>1 DEF Runs
    <3>3. Placed(q)'
      <4>1. CASE q = r  BY <4>1, <3>1, <3>2, <2>1, <2>3, <1>1, <1>4, <1>6 DEF Placed
      <4>2. CASE q # r  BY <4>2, <3>1, <3>2, <2>1, <2>3, <1>1, <1>6 DEF Placed
      <4>3. QED  BY <4>1, <4>2
    <3>4. Recorded(q)'
      <4>1. CASE q = r  BY <4>1, <3>1, <2>1, <2>2, <2>3, <1>1, <1>4, <1>5 DEF Recorded
      <4>2. CASE q # r  BY <4>2, <3>1, <2>1, <2>3, <1>1 DEF Recorded
      <4>3. QED  BY <4>1, <4>2
    <3>5. QED  BY <3>3, <3>4
  <2>7. QED  BY <1>7, <2>4, <2>5, <2>6 DEF Jobs
<1>10. QED  BY <1>8, <1>9

LEMMA UnwindInv == ASSUME Inv, Unwind PROVE Inv'
<1> USE DEF Inv
<1>1. /\ UNCHANGED <<connecting, open, join, caller, closing, state, effects>>
      /\ worker.pc = "unwind" /\ worker'.pc = "finished" /\ worker'.job = NoJob /\ queue' = <<>>
  BY DEF Unwind, workerUnchanged, Worker
<1>2. \A q \in Requests :
         answer'[q] = (IF state[q] # 2 /\ Queued(q) THEN "gone" ELSE answer[q])
  <2>1. DOMAIN queue = 1..Len(queue)  BY DEF TypeOK
  <2>2. QED  BY <2>1 DEF Unwind, Queued
<1>3. answer' \in [Requests -> {"none", "ok", "cancelled", "gone"}]
  BY JobTypes DEF Unwind
<1>4. queue' \in Seq(Requests) /\ Len(queue') = 0  BY <1>1
<1>5. \A q \in Requests : ~Queued(q)' /\ ~Runs(q) /\ ~Runs(q)'  BY <1>1, <1>4 DEF Queued, Runs
<1>6. Distinct'  BY <1>4 DEF Distinct
<1>7. TypeOK'  BY <1>1, <1>3, <1>4 DEF TypeOK, connecting, closing
<1>8. Lifecycle'  BY <1>1 DEF Lifecycle, Ended, connecting, closing
<1>9. ASSUME NEW q \in Requests PROVE Placed(q)' /\ Recorded(q)'
  <2>1. Placed(q) /\ Recorded(q)  BY DEF Jobs
  <2>2. answer[q] = answer'[q] \/ (answer[q] = "none" /\ answer'[q] = "gone" /\ Queued(q))
    BY <2>1, <1>2 DEF Placed
  <2>3. Placed(q)'  BY <2>1, <2>2, <1>1, <1>2, <1>5 DEF Placed
  <2>4. Recorded(q)'  BY <2>1, <2>2, <1>1 DEF Recorded
  <2>5. QED  BY <2>3, <2>4
<1>10. QED  BY <1>6, <1>7, <1>8, <1>9 DEF Jobs

-----------------------------------------------------------------------------
(* The theorems.                                                             *)

LEMMA StepInv == Inv /\ [Next]_vars => Inv'
<1> SUFFICES ASSUME Inv, [Next]_vars PROVE Inv'  OBVIOUS
<1>1. CASE Connecting \/ DropConnectFuture  BY <1>1, ConnectingInv
<1>2. CASE Working
  BY <1>2, TakeInv, RunInv, UnwindInv, EndingInv DEF Working
<1>3. CASE DropLastHandle  BY <1>3, EndingInv
<1>4. ASSUME NEW r \in Requests, Calling(r) PROVE Inv'
  BY <1>4, SubmitInv, ListenerInv DEF Calling
<1>5. ASSUME NEW s \in Closers, Closing(s) PROVE Inv'  BY <1>5, ClosingInv
<1>6. CASE UNCHANGED vars
  <2>1. UNCHANGED jobs /\ UNCHANGED connecting /\ UNCHANGED closing /\ worker' = worker
        /\ open' = open /\ join' = join
    BY <1>6 DEF vars, jobs, connecting, closing
  <2>2. Jobs' /\ Distinct'  BY <2>1, QuietJobs DEF Inv
  <2>3. TypeOK' /\ Lifecycle'
    BY <2>1 DEF Inv, TypeOK, Lifecycle, Ended, jobs, connecting, closing
  <2>4. QED  BY <2>2, <2>3 DEF Inv
<1>7. QED  BY <1>1, <1>2, <1>3, <1>4, <1>5, <1>6 DEF Next

LEMMA AlwaysInv == Spec => []Inv
<1>1. QED  BY InitInv, StepInv, PTL DEF Spec

(* Whatever is submitted, dropped, shut down or panics (Worker::call_async,  *)
(* OperationFuture, Worker::shutdown): nobody is told of a success, a        *)
(* cancellation or a stop that did not happen, and a cancelled operation has *)
(* no effect.                                                                *)
THEOREM TellsTruth == Spec => []CallersToldTruth
<1>1. Inv => CallersToldTruth
  <2> SUFFICES ASSUME Inv, NEW r \in Requests
               PROVE  /\ effects[r] <= (IF state[r] = 1 THEN 1 ELSE 0)
                      /\ caller[r] = "ok" => effects[r] = 1
                      /\ caller[r] = "stopped" => answer[r] = "gone"
                      /\ caller[r] # "cancelled"
    BY DEF CallersToldTruth
  <2>1. Recorded(r)  BY DEF Inv, Jobs
  <2>2. QED  BY <2>1 DEF Recorded
<1>2. QED  BY <1>1, AlwaysInv, PTL

(* A confirmed shutdown leaves no thread, no job and no unanswered call, for *)
(* any number of threads that call shutdown (Worker::shutdown).              *)
THEOREM ShutdownIsOver == Spec => []ShutdownConfirmed
<1>1. Inv => ShutdownConfirmed
  <2> SUFFICES ASSUME Inv, NEW s \in Closers, closer[s] \in {"ok", "failed"}
               PROVE  /\ Ended /\ queue = <<>>
                      /\ \A r \in Requests : caller[r] \in {"waiting", "dropped"} =>
                            answer[r] # "none" \/ state[r] = 2
    BY DEF ShutdownConfirmed
  <2>1. Ended /\ queue = <<>>  BY DEF Inv, Lifecycle, Ended
  <2>2. \A r \in Requests : ~Queued(r) /\ ~Runs(r)  BY <2>1 DEF Queued, Runs, Ended
  <2>3. QED  BY <2>1, <2>2 DEF Inv, Jobs, Placed
<1>2. QED  BY <1>1, AlwaysInv, PTL

(* The types of the session.                                                *)
THEOREM SessionTypes == Spec => []TypeOK
<1>1. Inv => TypeOK  BY DEF Inv
<1>2. QED  BY <1>1, AlwaysInv, PTL

-----------------------------------------------------------------------------
(* The refinement.  A panic is what answers without a reply come from.       *)

Unwinding ==
    /\ Panicked => worker.pc \in {"unwind", "finished"}
    /\ worker.pc = "unwind" => Panicked

LEMMA InitUnwinding == Init => Unwinding
BY DEF Init, Unwinding, Panicked, Worker

LEMMA StepUnwinding == Inv /\ Unwinding /\ [Next]_vars => Unwinding'
<1> SUFFICES ASSUME Inv, Unwinding, [Next]_vars PROVE Unwinding'  OBVIOUS
<1>1. CASE answer' = answer /\ worker' = worker  BY <1>1 DEF Unwinding, Panicked
<1>2. CASE Connecting
  <2>1. answer' = answer  BY <1>2 DEF Connecting, ConnectBegin, ConnectSession, ConnectDeliver, jobs
  <2>2. CASE ConnectDeliver  BY <2>2, <2>1, <1>1 DEF ConnectDeliver
  <2>3. CASE ConnectBegin \/ ConnectSession
    <3>1. worker.pc \in {"absent", "connecting"} /\ worker'.pc \in {"connecting", "idle", "finished"}
      BY <2>3 DEF ConnectBegin, ConnectSession, Inv, Lifecycle, Worker
    <3>2. QED  BY <3>1, <2>1 DEF Unwinding, Panicked
  <2>4. QED  BY <1>2, <2>2, <2>3 DEF Connecting
<1>3. CASE Take
  <2>1. worker.pc = "idle" /\ worker'.pc \in {"idle", "run"}  BY <1>3 DEF Take, Worker
  <2>2. \A q \in Requests : answer'[q] = "gone" => answer[q] = "gone"
    BY <1>3, JobTypes DEF Take, Inv
  <2>3. QED  BY <2>1, <2>2 DEF Unwinding, Panicked
<1>4. CASE Execute \/ Leave \/ Cleanup
  <2>1. /\ answer' = answer /\ worker.pc \in {"run", "idle", "cleanup"}
        /\ worker'.pc \in {"reply", "cleanup", "finished"}
    BY <1>4 DEF Execute, Leave, Cleanup, Worker
  <2>2. QED  BY <2>1 DEF Unwinding, Panicked
<1>5. CASE Reply
  <2>1. worker.pc = "reply" /\ worker'.pc = "idle"  BY <1>5 DEF Reply, Worker
  <2>2. \A q \in Requests : answer'[q] = "gone" => answer[q] = "gone"
    BY <1>5, JobTypes DEF Reply, Inv
  <2>3. QED  BY <2>1, <2>2 DEF Unwinding, Panicked
<1>6. CASE Panic
  <2>1. worker.job \in Requests /\ worker'.pc = "unwind"
    BY <1>6 DEF Panic, Inv, Lifecycle, Worker
  <2>2. answer'[worker.job] = "gone"  BY <1>6, <2>1, JobTypes DEF Panic, Inv
  <2>3. QED  BY <2>1, <2>2 DEF Unwinding, Panicked
<1>7. CASE Unwind  BY <1>7 DEF Unwind, Unwinding, Worker
<1>8. CASE DropConnectFuture \/ DropLastHandle \/ UNCHANGED vars
  BY <1>8, <1>1 DEF DropConnectFuture, DropLastHandle, vars, jobs
<1>9. ASSUME NEW r \in Requests, Calling(r) PROVE Unwinding'
  BY <1>9, <1>1 DEF Calling, Submit, Receive, DropFuture
<1>10. ASSUME NEW s \in Closers, Closing(s) PROVE Unwinding'
  BY <1>10, <1>1 DEF Closing, Shutdown, ShutdownConfirm, ShutdownTimeout, jobs
<1>11. QED
  BY <1>2, <1>3, <1>4, <1>5, <1>6, <1>7, <1>8, <1>9, <1>10 DEF Next, Working

(* The refinement mapping, and its value after a step.                       *)
Fates == [q \in Requests |-> Phase(q)]
Accepting == (connect \in {"queued", "begun"} \/ open) /\ Receiving

(* Phases depend on the job alone.                                           *)
LEMMA SamePhase ==
    ASSUME NEW q \in Requests, caller'[q] = caller[q], answer'[q] = answer[q], state'[q] = state[q],
           (worker'.pc = worker.pc /\ worker'.job = worker.job) \/ (~Runs(q) /\ ~Runs(q)')
    PROVE  Phase(q)' = Phase(q)
BY DEF Phase, Runs

LEMMA PhaseQueued ==
    ASSUME Inv, NEW q \in Requests
    PROVE  /\ Phase(q) = "queued" => Queued(q) /\ state[q] = 0 /\ answer[q] = "none"
           /\ Queued(q) => Phase(q) = (IF state[q] = 0 THEN "queued" ELSE "withdrawn")
           /\ Phase(q) \in {"running", "executed"} => Runs(q)
           /\ Runs(q) => Phase(q) = (IF worker.pc = "run" THEN "running" ELSE "executed")
<1>1. /\ Placed(q) /\ Recorded(q)  BY DEF Inv, Jobs
<1>2. /\ caller[q] \in {"new", "refused", "waiting", "ok", "cancelled", "stopped", "dropped"}
      /\ state[q] \in 0..2 /\ answer[q] \in {"none", "ok", "cancelled", "gone"}
  BY JobTypes DEF Inv
<1>3. Phase(q) = "queued" => Queued(q) /\ state[q] = 0 /\ answer[q] = "none"
  BY <1>1, <1>2 DEF Phase, Placed, Recorded, Runs
<1>4. Queued(q) => Phase(q) = (IF state[q] = 0 THEN "queued" ELSE "withdrawn")
  BY <1>1, <1>2 DEF Phase, Placed, Recorded, Runs
<1>5. Phase(q) \in {"running", "executed"} => Runs(q)
  BY <1>1, <1>2 DEF Phase, Placed, Recorded, Runs
<1>6. Runs(q) => Phase(q) = (IF worker.pc = "run" THEN "running" ELSE "executed")
  BY <1>1, <1>2 DEF Phase, Placed, Recorded, Runs
<1>7. QED  BY <1>3, <1>4, <1>5, <1>6

(* A step that leaves the jobs where they are, and may close the session.    *)
LEMMA QuietPromise ==
    ASSUME UNCHANGED <<queue, caller, answer, state>>,
           \A q \in Requests : (worker'.pc = worker.pc /\ worker'.job = worker.job)
                               \/ (~Runs(q) /\ ~Runs(q)'),
           Accepting' = Accepting \/ Accepting' = FALSE
    PROVE  [Promise!Next]_(Promise!vars)
<1>1. Fates' = Fates  BY SamePhase DEF Fates
<1>2. Panicked' = Panicked  BY DEF Panicked
<1>3. CASE Accepting' = Accepting
  <2>1. UNCHANGED Promise!vars  BY <1>1, <1>2, <1>3 DEF Promise!vars, Fates, Accepting
  <2>2. QED  BY <2>1
<1>4. CASE Accepting' = FALSE
  <2>1. Promise!Close  BY <1>1, <1>2, <1>4 DEF Promise!Close, Fates, Accepting
  <2>2. QED  BY <2>1 DEF Promise!Next
<1>5. QED  BY <1>3, <1>4

LEMMA InitPromise == Init => Promise!Init
<1> SUFFICES ASSUME Init PROVE Promise!Init  OBVIOUS
<1>1. \A q \in Requests : Phase(q) = "new"  BY DEF Init, Phase, Worker
<1>2. Accepting  BY DEF Init, Accepting, Receiving, Ended, Worker
<1>3. ~Panicked /\ queue = <<>>  BY DEF Init, Panicked
<1>4. QED  BY <1>1, <1>2, <1>3 DEF Promise!Init, Accepting

LEMMA ConnectingPromise ==
    Inv /\ (Connecting \/ DropConnectFuture) => [Promise!Next]_(Promise!vars)
<1> SUFFICES ASSUME Inv, Connecting \/ DropConnectFuture PROVE [Promise!Next]_(Promise!vars)
  OBVIOUS
<1>1. UNCHANGED <<queue, caller, answer, state>>
  BY DEF Connecting, DropConnectFuture, ConnectBegin, ConnectSession, ConnectDeliver, jobs
<1>2. worker' = worker \/ (worker.pc \in {"absent", "connecting"}
                           /\ worker'.pc \in {"connecting", "idle", "finished"})
  BY DEF Connecting, DropConnectFuture, ConnectBegin, ConnectSession, ConnectDeliver,
         Inv, Lifecycle, Worker
<1>3. Accepting' = Accepting \/ Accepting' = FALSE
  <2>1. CASE ConnectBegin
    BY <2>1 DEF ConnectBegin, Accepting, Receiving, Ended, Inv, Lifecycle, Worker
  <2>2. CASE ConnectSession
    BY <2>2 DEF ConnectSession, Accepting, Receiving, Ended, Inv, Lifecycle, Worker
  <2>3. CASE ConnectDeliver
    BY <2>3 DEF ConnectDeliver, Undelivered, Accepting, Receiving, Ended, Inv, Lifecycle
  <2>4. CASE DropConnectFuture
    BY <2>4 DEF DropConnectFuture, Accepting, Receiving, Ended, Inv, Lifecycle
  <2>5. QED  BY <2>1, <2>2, <2>3, <2>4 DEF Connecting
<1>4. QED  BY <1>1, <1>2, <1>3, QuietPromise DEF Runs

LEMMA EndingPromise ==
    Inv /\ (Leave \/ Cleanup \/ DropLastHandle) => [Promise!Next]_(Promise!vars)
<1> SUFFICES ASSUME Inv, Leave \/ Cleanup \/ DropLastHandle PROVE [Promise!Next]_(Promise!vars)
  OBVIOUS
<1>1. UNCHANGED <<queue, caller, answer, state>>
  BY DEF Leave, Cleanup, DropLastHandle, workerUnchanged, jobs
<1>2. worker' = worker \/ (worker.pc \in {"idle", "cleanup"}
                           /\ worker'.pc \in {"cleanup", "finished"})
  BY DEF Leave, Cleanup, DropLastHandle, Worker
<1>3. Accepting' = Accepting \/ Accepting' = FALSE
  BY DEF Leave, Cleanup, DropLastHandle, workerUnchanged, connecting, Accepting, Receiving, Ended,
         Inv, Lifecycle, Worker
<1>4. QED  BY <1>1, <1>2, <1>3, QuietPromise DEF Runs

LEMMA ClosingPromise ==
    ASSUME Inv, NEW s \in Closers, Closing(s)
    PROVE  [Promise!Next]_(Promise!vars)
<1>1. UNCHANGED <<queue, caller, answer, state>> /\ worker' = worker /\ connect' = connect
  BY DEF Closing, Shutdown, ShutdownConfirm, ShutdownTimeout, jobs, connecting
<1>2. open' \in {open, FALSE}
  BY DEF Closing, Shutdown, ShutdownConfirm, ShutdownTimeout
<1>3. Accepting' = Accepting \/ Accepting' = FALSE
  <2>1. CASE Shutdown(s)
    BY <2>1, <1>1 DEF Shutdown, Accepting, Receiving, Ended, Inv, Lifecycle
  <2>2. CASE ShutdownConfirm(s) \/ ShutdownTimeout(s)
    BY <2>2, <1>1 DEF ShutdownConfirm, ShutdownTimeout, Accepting, Receiving, Ended
  <2>3. QED  BY <2>1, <2>2 DEF Closing
<1>4. QED  BY <1>1, <1>3, QuietPromise

LEMMA SubmitPromise ==
    ASSUME Inv, NEW r \in Requests, Submit(r)
    PROVE  [Promise!Next]_(Promise!vars)
<1>1. /\ UNCHANGED <<connect, open, worker, state, answer>>
      /\ held /\ caller[r] = "new" /\ connect = "over"
  BY DEF Submit, connecting, Inv, Lifecycle
<1>2. state[r] = 0 /\ answer[r] = "none" /\ ~Runs(r) /\ Phase(r) = "new"
  <2>1. state[r] = 0 /\ answer[r] = "none" /\ ~Runs(r)  BY <1>1 DEF Inv, Jobs, Placed
  <2>2. QED  BY <1>1, <2>1 DEF Phase, Runs
<1>3. Panicked' = Panicked /\ Accepting' = Accepting  BY <1>1 DEF Panicked, Accepting, Receiving, Ended
<1>4. Accepting <=> open /\ Receiving  BY <1>1 DEF Accepting
<1>5. CASE open /\ Receiving
  <2>1. caller' = [caller EXCEPT ![r] = "waiting"] /\ queue' = Append(queue, r)
    BY <1>5 DEF Submit
  <2>2. Phase(r)' = "queued"  BY <2>1, <1>1, <1>2, JobTypes DEF Phase, Runs, Inv
  <2>3. \A q \in Requests : q # r => Phase(q)' = Phase(q)
    BY <2>1, <1>1, SamePhase, JobTypes DEF Inv
  <2>4. Fates' = [Fates EXCEPT ![r] = "queued"]  BY <2>2, <2>3 DEF Fates
  <2>5. Promise!Accept(r)
    BY <2>1, <2>4, <1>2, <1>3, <1>4, <1>5 DEF Promise!Accept, Promise!Becomes, Fates, Accepting
  <2>6. QED  BY <2>5 DEF Promise!Next
<1>6. CASE ~(open /\ Receiving)
  <2>1. caller' = [caller EXCEPT ![r] = "refused"] /\ queue' = queue
    BY <1>6 DEF Submit
  <2>2. Phase(r)' = "refused"  BY <2>1, <1>1, <1>2, JobTypes DEF Phase, Runs, Inv
  <2>3. \A q \in Requests : q # r => Phase(q)' = Phase(q)
    BY <2>1, <1>1, SamePhase, JobTypes DEF Inv
  <2>4. Fates' = [Fates EXCEPT ![r] = "refused"]  BY <2>2, <2>3 DEF Fates
  <2>5. Promise!Refuse(r)
    BY <2>1, <2>4, <1>2, <1>3, <1>4, <1>6 DEF Promise!Refuse, Promise!Becomes, Fates, Accepting
  <2>6. QED  BY <2>5 DEF Promise!Next
<1>7. QED  BY <1>5, <1>6

LEMMA ListenerPromise ==
    ASSUME Inv, Inv', NEW r \in Requests, Receive(r) \/ DropFuture(r)
    PROVE  [Promise!Next]_(Promise!vars)
<1>1. /\ UNCHANGED <<connect, open, worker, queue, answer>> /\ caller[r] = "waiting"
  BY DEF Receive, DropFuture, connecting
<1>2. Panicked' = Panicked /\ Accepting' = Accepting
  BY <1>1 DEF Panicked, Accepting, Receiving, Ended
<1>3. \A q \in Requests : q # r => Phase(q)' = Phase(q)
  BY <1>1, SamePhase, JobTypes DEF Inv, Receive, DropFuture
<1>4. /\ caller'[r] \in {"ok", "cancelled", "stopped", "dropped"}
      /\ answer[r] \in {"none", "ok", "cancelled", "gone"} /\ state[r] \in {0, 1}
      /\ Recorded(r) /\ Placed(r)
  BY <1>1, JobTypes DEF Inv, Jobs, Recorded, Receive, DropFuture
<1>5. CASE state'[r] = state[r]
  <2>1. Phase(r)' = Phase(r)
    <3>1. CASE Runs(r)  BY <3>1, <1>1, <1>4, <1>5 DEF Phase, Runs, Placed
    <3>2. CASE ~Runs(r)  BY <3>2, <1>1, <1>4, <1>5 DEF Phase, Runs
    <3>3. QED  BY <3>1, <3>2
  <2>2. Fates' = Fates  BY <2>1, <1>3 DEF Fates
  <2>3. UNCHANGED Promise!vars  BY <2>2, <1>1, <1>2 DEF Promise!vars, Fates, Accepting
  <2>4. QED  BY <2>3
<1>6. CASE state'[r] # state[r]
  <2>1. state[r] = 0 /\ state'[r] = 2 /\ caller'[r] = "dropped"
    BY <1>6, <1>4, JobTypes DEF Receive, DropFuture, Cancelled, Inv
  <2>2. CASE answer[r] = "none"
    <3>1. ~Runs(r) /\ ~Runs(r)'  BY <2>1, <1>1, <1>4 DEF Placed, Runs
    <3>2. Phase(r) = "queued"  BY <3>1, <2>1, <2>2, <1>1 DEF Phase, Runs
    <3>3. Phase(r)' = "withdrawn"  BY <3>1, <2>1, <2>2, <1>1 DEF Phase, Runs
    <3>4. Fates' = [Fates EXCEPT ![r] = "withdrawn"]  BY <3>3, <1>3 DEF Fates
    <3>5. Promise!Withdraw(r)
      BY <3>2, <3>4, <1>1, <1>2 DEF Promise!Withdraw, Promise!Becomes, Fates, Accepting
    <3>6. QED  BY <3>5 DEF Promise!Next
  <2>3. CASE answer[r] = "gone"
    <3>1. ~Runs(r) /\ ~Runs(r)'  BY <2>3, <1>1, <1>4 DEF Placed, Runs
    <3>2. Phase(r) = "lost" /\ Phase(r)' = "lost"  BY <3>1, <2>1, <2>3, <1>1 DEF Phase, Runs
    <3>3. Fates' = Fates  BY <3>2, <1>3 DEF Fates
    <3>4. UNCHANGED Promise!vars  BY <3>3, <1>1, <1>2 DEF Promise!vars, Fates, Accepting
    <3>5. QED  BY <3>4
  <2>4. CASE answer[r] \in {"ok", "cancelled"}
    BY <2>1, <2>4, <1>4, JobTypes DEF Recorded, Inv
  <2>5. QED  BY <2>2, <2>3, <2>4, <1>4
<1>7. QED  BY <1>5, <1>6

(* Only the job that runs keeps the promise busy.                            *)
LEMMA Idle ==
    ASSUME Inv, worker.pc \notin {"run", "reply"}
    PROVE  \A q \in Requests : Fates[q] \notin {"running", "executed"}
BY PhaseQueued DEF Fates, Runs

LEMMA TakePromise == Inv /\ Unwinding /\ Take => [Promise!Next]_(Promise!vars)
<1> SUFFICES ASSUME Inv, Unwinding, Take PROVE [Promise!Next]_(Promise!vars)  OBVIOUS
<1>0. PICK r \in Requests : r = Head(queue)
  BY Taking DEF Inv, TypeOK, Take
<1>1. /\ UNCHANGED <<connect, open, caller>> /\ worker.pc = "idle" /\ queue # <<>>
      /\ queue' = Tail(queue)
  BY DEF Take, workerUnchanged, connecting
<1>2. Queued(r)  BY <1>0, <1>1, Taking DEF Inv, TypeOK
<1>3. /\ Phase(r) = (IF state[r] = 0 THEN "queued" ELSE "withdrawn")
      /\ answer[r] = "none" /\ state[r] \in {0, 2} /\ caller[r] \notin {"new", "refused"}
  BY <1>2, PhaseQueued, JobTypes DEF Inv, Jobs, Placed
<1>4. ~Panicked  BY <1>1 DEF Unwinding
<1>5. Accepting' = Accepting
  BY <1>1 DEF Take, Accepting, Receiving, Ended, Worker
<1>6. \A q \in Requests : ~Runs(q) /\ Fates[q] \notin {"running", "executed"}
  BY <1>1, Idle DEF Runs
<1>7. CASE state[r] = 0
  <2>1. /\ worker'.pc = "run" /\ worker'.job = r /\ state' = [state EXCEPT ![r] = 1]
        /\ answer' = answer
    BY <1>0, <1>7 DEF Take, Begins, Worker
  <2>2. state'[r] = 1 /\ \A q \in Requests : q # r => state'[q] = state[q] /\ ~Runs(q)'
    BY <2>1, <1>2, JobTypes DEF Inv, Runs
  <2>3. Phase(r)' = "running"  BY <2>1, <2>2, <1>1, <1>3 DEF Phase
  <2>4. \A q \in Requests : q # r => Phase(q)' = Phase(q)
    BY <2>1, <2>2, <1>1, <1>6, SamePhase
  <2>5. Fates' = [Fates EXCEPT ![r] = "running"]  BY <2>3, <2>4 DEF Fates
  <2>6. Panicked' = Panicked  BY <2>1 DEF Panicked
  <2>7. Promise!Turn
    BY <2>6, <1>1, <1>4, <1>5, <1>6 DEF Promise!Turn, Promise!Busy, Fates, Accepting
  <2>8. Promise!Begin
    BY <2>5, <2>7, <1>0, <1>3, <1>7 DEF Promise!Begin, Promise!Becomes, Fates
  <2>9. QED  BY <2>8 DEF Promise!Next, Promise!Proceed
<1>8. CASE state[r] = 2
  <2>1. worker' = worker /\ state' = state /\ answer' = [answer EXCEPT ![r] = "cancelled"]
    BY <1>0, <1>8 DEF Take, Begins
  <2>2. /\ answer'[r] = "cancelled"
        /\ \A q \in Requests : q # r => answer'[q] = answer[q]
        /\ \A q \in Requests : answer'[q] = "gone" <=> answer[q] = "gone"
    BY <2>1, <1>2, <1>3, JobTypes DEF Inv
  <2>3. ~Runs(r) /\ ~Runs(r)'  BY <2>1, <1>1 DEF Runs
  <2>4. Phase(r)' = "withdrawn"  BY <2>1, <2>2, <2>3, <1>1, <1>3, <1>8 DEF Phase, Runs
  <2>5. \A q \in Requests : q # r => Phase(q)' = Phase(q)
    BY <2>1, <2>2, <1>1, SamePhase
  <2>6. Fates' = Fates  BY <2>4, <2>5, <1>3, <1>8 DEF Fates
  <2>7. Panicked' = Panicked  BY <2>2 DEF Panicked
  <2>8. Promise!Turn
    BY <2>7, <1>1, <1>4, <1>5, <1>6 DEF Promise!Turn, Promise!Busy, Fates, Accepting
  <2>9. Promise!Skip
    BY <2>6, <2>8, <1>0, <1>3, <1>8 DEF Promise!Skip, Fates
  <2>10. QED  BY <2>9 DEF Promise!Next, Promise!Proceed
<1>9. QED  BY <1>3, <1>7, <1>8

LEMMA RunPromise == Inv /\ Unwinding /\ (Execute \/ Reply \/ Panic) => [Promise!Next]_(Promise!vars)
<1> SUFFICES ASSUME Inv, Unwinding, Execute \/ Reply \/ Panic PROVE [Promise!Next]_(Promise!vars)
  OBVIOUS
<1>1. PICK r \in Requests : r = worker.job
  BY DEF Execute, Reply, Panic, Inv, Lifecycle
<1>2. /\ UNCHANGED <<connect, open, caller, queue, state>> /\ worker.pc \in {"run", "reply"}
  BY DEF Execute, Reply, Panic, workerUnchanged, connecting
<1>3. /\ Runs(r) /\ answer[r] = "none" /\ state[r] = 1 /\ caller[r] \notin {"new", "refused"}
      /\ \A q \in Requests : q # r => ~Runs(q)
  BY <1>1, <1>2 DEF Runs, Inv, Jobs, Placed
<1>4. /\ Phase(r) = (IF worker.pc = "run" THEN "running" ELSE "executed")
      /\ Fates[r] = Phase(r)
  BY <1>3, PhaseQueued DEF Fates
<1>5. ~Panicked  BY <1>2 DEF Unwinding
<1>6. Accepting' = Accepting
  BY <1>2 DEF Execute, Reply, Panic, Accepting, Receiving, Ended, Worker
<1>7. CASE Execute
  <2>1. worker.pc = "run" /\ worker'.pc = "reply" /\ worker'.job = r /\ answer' = answer
    BY <1>1, <1>7 DEF Execute, Worker
  <2>2. Phase(r)' = "executed"  BY <2>1, <1>2, <1>3 DEF Phase
  <2>3. \A q \in Requests : q # r => Phase(q)' = Phase(q)
    BY <2>1, <1>2, <1>3, SamePhase DEF Runs
  <2>4. Fates' = [Fates EXCEPT ![r] = "executed"]  BY <2>2, <2>3 DEF Fates
  <2>5. Panicked' = Panicked  BY <2>1 DEF Panicked
  <2>6. Promise!Execute(r)
    BY <2>1, <2>4, <2>5, <1>2, <1>4, <1>6 DEF Promise!Execute, Promise!Becomes, Fates, Accepting
  <2>7. QED  BY <2>6 DEF Promise!Next, Promise!Proceed
<1>8. CASE Reply
  <2>1. worker.pc = "reply" /\ worker'.pc = "idle" /\ answer' = [answer EXCEPT ![r] = "ok"]
    BY <1>1, <1>8 DEF Reply, Worker
  <2>2. answer'[r] = "ok" /\ \A q \in Requests : q # r => answer'[q] = answer[q]
    BY <2>1, JobTypes DEF Inv
  <2>3. Phase(r)' = "done"  BY <2>1, <2>2, <1>2, <1>3 DEF Phase
  <2>4. \A q \in Requests : q # r => Phase(q)' = Phase(q)
    BY <2>1, <2>2, <1>2, <1>3, SamePhase DEF Runs
  <2>5. Fates' = [Fates EXCEPT ![r] = "done"]  BY <2>3, <2>4 DEF Fates
  <2>6. ~Panicked'  BY <2>2, <1>5 DEF Panicked
  <2>7. Panicked' = Panicked  BY <2>6, <1>5 DEF Panicked
  <2>8. Promise!Finish(r)
    BY <2>1, <2>5, <2>7, <1>2, <1>4, <1>6 DEF Promise!Finish, Promise!Becomes, Fates, Accepting
  <2>9. QED  BY <2>8 DEF Promise!Next, Promise!Proceed
<1>9. CASE Panic
  <2>1. worker'.pc = "unwind" /\ answer' = [answer EXCEPT ![r] = "gone"]
    BY <1>1, <1>9 DEF Panic, Worker
  <2>2. answer'[r] = "gone" /\ \A q \in Requests : q # r => answer'[q] = answer[q]
    BY <2>1, JobTypes DEF Inv
  <2>3. Phase(r)' = "lost"  BY <2>1, <2>2, <1>2, <1>3 DEF Phase
  <2>4. \A q \in Requests : q # r => Phase(q)' = Phase(q)
    BY <2>1, <2>2, <1>2, <1>3, SamePhase DEF Runs
  <2>5. Fates' = [Fates EXCEPT ![r] = "lost"]  BY <2>3, <2>4 DEF Fates
  <2>6. Panicked' = TRUE  BY <2>2 DEF Panicked
  <2>7. Promise!Break(r)
    BY <2>5, <2>6, <1>2, <1>4, <1>6 DEF Promise!Break, Promise!Becomes, Fates, Accepting
  <2>8. QED  BY <2>7 DEF Promise!Next, Promise!Proceed
<1>10. QED  BY <1>7, <1>8, <1>9

LEMMA UnwindPromise == Inv /\ Unwinding /\ Unwind => [Promise!Next]_(Promise!vars)
<1> SUFFICES ASSUME Inv, Unwinding, Unwind PROVE [Promise!Next]_(Promise!vars)  OBVIOUS
<1>1. /\ UNCHANGED <<connect, open, caller, state>>
      /\ worker.pc = "unwind" /\ worker'.pc = "finished" /\ queue' = <<>>
  BY DEF Unwind, workerUnchanged, connecting, Worker
<1>2. \A q \in Requests :
         answer'[q] = (IF state[q] # 2 /\ Queued(q) THEN "gone" ELSE answer[q])
  <2>1. DOMAIN queue = 1..Len(queue)  BY DEF Inv, TypeOK
  <2>2. QED  BY <2>1 DEF Unwind, Queued
<1>3. \A q \in Requests : ~Runs(q) /\ ~Runs(q)'  BY <1>1 DEF Runs
<1>4. Panicked /\ Panicked'
  <2>1. Panicked  BY <1>1 DEF Unwinding
  <2>2. Panicked'  BY <2>1, <1>2 DEF Panicked
  <2>3. QED  BY <2>1, <2>2
<1>5. Accepting' = FALSE  BY <1>1 DEF Accepting, Receiving, Ended
<1>6. ASSUME NEW q \in Requests
      PROVE  Phase(q)' = (IF Phase(q) = "queued" THEN "lost" ELSE Phase(q))
  <2>1. CASE state[q] # 2 /\ Queued(q)
    <3>1. Phase(q) = "queued"  BY <2>1, PhaseQueued, JobTypes DEF Inv, Jobs, Placed
    <3>2. caller[q] \notin {"new", "refused"}  BY <2>1 DEF Inv, Jobs, Placed
    <3>3. Phase(q)' = "lost"  BY <3>2, <2>1, <1>1, <1>2, <1>3 DEF Phase, Runs
    <3>4. QED  BY <3>1, <3>3
  <2>2. CASE ~(state[q] # 2 /\ Queued(q))
    <3>1. answer'[q] = answer[q]  BY <2>2, <1>2
    <3>2. Phase(q)' = Phase(q)  BY <3>1, <1>1, <1>3, SamePhase
    <3>3. Phase(q) # "queued"  BY <2>2, PhaseQueued
    <3>4. QED  BY <3>2, <3>3
  <2>3. QED  BY <2>1, <2>2
<1>7. Fates' = [q \in Requests |-> IF Fates[q] = "queued" THEN "lost" ELSE Fates[q]]
  BY <1>6 DEF Fates
<1>8. Promise!Discard
  <2>1. Panicked' = Panicked  BY <1>4 DEF Panicked
  <2>2. QED  BY <2>1, <1>1, <1>4, <1>5, <1>7 DEF Promise!Discard, Fates, Accepting
<1>9. QED  BY <1>8 DEF Promise!Next, Promise!Proceed

LEMMA StepPromise == Inv /\ Unwinding /\ Inv' /\ [Next]_vars => [Promise!Next]_(Promise!vars)
<1> SUFFICES ASSUME Inv, Unwinding, Inv', [Next]_vars PROVE [Promise!Next]_(Promise!vars)
  OBVIOUS
<1>1. CASE Connecting \/ DropConnectFuture  BY <1>1, ConnectingPromise
<1>2. CASE Working
  BY <1>2, TakePromise, RunPromise, UnwindPromise, EndingPromise DEF Working
<1>3. CASE DropLastHandle  BY <1>3, EndingPromise
<1>4. ASSUME NEW r \in Requests, Calling(r) PROVE [Promise!Next]_(Promise!vars)
  BY <1>4, SubmitPromise, ListenerPromise DEF Calling
<1>5. ASSUME NEW s \in Closers, Closing(s) PROVE [Promise!Next]_(Promise!vars)
  BY <1>5, ClosingPromise
<1>6. CASE UNCHANGED vars
  BY <1>6, QuietPromise DEF vars, Accepting, Receiving, Ended
<1>7. QED  BY <1>1, <1>2, <1>3, <1>4, <1>5, <1>6 DEF Next

(* The session keeps the promise of CancellableWork, for any number of       *)
(* operations: each is executed at most once, in its turn, and never after   *)
(* its withdrawal (begin_operation, cancel_operation, and the worker's loop).*)
THEOREM KeepsPromise == Spec => ImplementsPromise
<1>1. Spec => [](Inv /\ Unwinding)
  <2>1. Init => Inv /\ Unwinding  BY InitInv, InitUnwinding
  <2>2. Inv /\ Unwinding /\ [Next]_vars => (Inv /\ Unwinding)'  BY StepInv, StepUnwinding
  <2>3. QED  BY <2>1, <2>2, PTL DEF Spec
<1>2. QED  BY <1>1, InitPromise, StepPromise, StepInv, PTL DEF Spec, ImplementsPromise, Promise!Spec
=============================================================================
