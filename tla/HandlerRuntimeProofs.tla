------------------------- MODULE HandlerRuntimeProofs -------------------------
(* Proofs about HandlerRuntime, for every number of invocations and every    *)
(* bound of a scenario: what the counters count and when the module may be   *)
(* unloaded, one invocation at a time, one owner of the marshalled packet,   *)
(* and what becomes of the completion of an invocation.                      *)
EXTENDS HandlerRuntime, TLAPS, FiniteSetTheorems, SequenceTheorems

-----------------------------------------------------------------------------
(* The inductive invariant.                                                  *)

Unstarted == {"none", "init", "packet", "spawn"}
Leaving == {"guard", "exit", "gone"}
Serves == {"serve", "terminal", "terminal_again", "join"}
Waiting == {"send", "wait"}
Answered == {"ok", "err"}

(* Where Start is determines who owns the packet and how far the worker is.  *)
Packets ==
    \A i \in Invocations :
        /\ start[i] \in {"unused", "prepare"} =>
              worker[i] = "none" /\ packet[i] = "none" /\ disposals[i] = 0
        /\ start[i] = "spawn" =>
              worker[i] = "none" /\ packet[i] = "starter" /\ disposals[i] = 0
        /\ start[i] = "await" =>
              /\ worker[i] \in {"init", "packet"} \cup Leaving
              /\ packet[i] = "starter" /\ disposals[i] = 0
        /\ start[i] = "join" =>
              worker[i] \in Leaving /\ packet[i] = "starter" /\ disposals[i] = 0
        /\ start[i] = "ok" =>
              \/ worker[i] = "packet" /\ packet[i] = "sent" /\ disposals[i] = 0
              \/ /\ worker[i] \in {"spawn"} \cup Serves \cup Leaving
                 /\ packet[i] = "taken" /\ disposals[i] = 1
        /\ start[i] = "failed" =>
              \/ worker[i] = "none" /\ packet[i] = "none" /\ disposals[i] = 0
              \/ /\ worker[i] \in {"none", "gone"}
                 /\ packet[i] = "released" /\ disposals[i] = 1

(* An invocation under way has claimed `running`.                            *)
Active(i) == start[i] \in {"prepare", "spawn"} \/ worker[i] \notin {"none", "exit", "gone"}
Claims == \A i \in Invocations : Active(i) => running /\ current = i

(* The user thread and the reporters begin with the loop of the worker, and  *)
(* the user thread has ended when that is left.                              *)
Users ==
    \A i \in Invocations :
        /\ worker[i] \in Unstarted => \A t \in Threads : at[<<i, t>>] = "absent"
        /\ UserRuns(i) => worker[i] \in Serves

(* Two counters count threads that are registered; a registration passes     *)
(* from the worker to the reporter before it ends.                           *)
Registered == {i \in Invocations : start[i] = "spawn" \/ worker[i] \notin {"none", "gone"}}
Reporting ==
    {i \in Invocations : worker[i] = "spawn" \/ \E t \in Threads : HasClone(<<i, t>>)}
Counts == workers = Cardinality(Registered) /\ reporters = Cardinality(Reporting)

(* What has been read as zero stays zero.                                    *)
Unloading ==
    /\ "handler" \notin objects => ~InStart
    /\ unload \in {"read1", "read2", "read3", "unloaded"} => objects = {}
    /\ unload \in {"read2", "read3", "unloaded"} => locks = 0
    /\ unload \in {"read3", "unloaded"} => Registered = {}
    /\ unload = "unloaded" => Reporting = {}

(* The holder of the lock is the one reporter in a call, and there is one.   *)
Held ==
    \A i \in Invocations : \A t \in Threads :
        at[<<i, t>>] \in Waiting \cup Answered <=> holder[i] = t
Called ==
    \A i \in Invocations : \A t \in Threads :
        at[<<i, t>>] \in Waiting \cup Answered => op[<<i, t>>].kind # "none"

(* The call that is under way in the queue of an invocation, if any.         *)
Sent(i, c) ==
    IF c.kind = "done" THEN at[<<i, "user">>] = "gone"
    ELSE /\ at[<<i, c.from>>] = "wait"
         /\ op[<<i, c.from>>] = [kind |-> c.kind, percent |-> c.percent]
Queued(i) ==
    /\ worker[i] \in Unstarted \cup Leaving => queue[i] = <<>>
    /\ \A n \in 1..Len(queue[i]) : Sent(i, queue[i][n])
    /\ \A m, n \in 1..Len(queue[i]) :
          queue[i][m].kind # "done" /\ queue[i][n].kind # "done" => m = n
Queues == \A i \in Invocations : Queued(i)

(* Who has claimed the completion and what has come of it.                   *)
Completing(i) ==
    /\ worker[i] \in Unstarted => ~completed[i] /\ native[i].acks = 0
    /\ worker[i] \in Unstarted \cup {"serve"} => native[i].failures = 0
    /\ worker[i] = "serve" /\ native[i].acks = 1 => completed[i]
    /\ \A t \in Threads :
          /\ worker[i] = "serve" /\ native[i].acks = 1 =>
                /\ at[<<i, t>>] \notin Waiting
                /\ at[<<i, t>>] # "err" \/ op[<<i, t>>].kind # "complete"
          /\ worker[i] = "serve" /\ at[<<i, t>>] \in Waiting =>
                (completed[i] <=> op[<<i, t>>].kind = "complete")
    /\ worker[i] = "serve" /\ completed[i] /\ native[i].acks = 0 =>
          \E t \in Threads : at[<<i, t>>] \in Waiting /\ op[<<i, t>>].kind = "complete"
    /\ worker[i] = "terminal" => native[i].acks = 0 /\ native[i].failures = 0
    /\ worker[i] = "terminal_again" => native[i].acks = 0 /\ native[i].failures = 1
    /\ worker[i] = "join" =>
          native[i].acks = 1 \/ native[i].failures = 2 \/ overtaken[i]
Completions == \A i \in Invocations : native[i].acks \in {0, 1} /\ Completing(i)

(* A percentage on its way is progress, one acknowledged and not yet         *)
(* recorded is the scheduler's.                                              *)
Progressing(i) ==
    /\ \A t \in Threads :
          at[<<i, t>>] \in Waiting /\ op[<<i, t>>].kind = "update" =>
             op[<<i, t>>].percent > progress[i]
    /\ \/ native[i].percent <= progress[i]
       \/ \E t \in Threads :
             /\ at[<<i, t>>] = "ok" /\ op[<<i, t>>].kind = "update"
             /\ op[<<i, t>>].percent = native[i].percent
Moving == \A i \in Invocations : Progressing(i)

Inv ==
    /\ TypeOK /\ Packets /\ Claims /\ Users /\ Counts /\ Unloading
    /\ Held /\ Called /\ Queues /\ Completions /\ Moving

-----------------------------------------------------------------------------
(* What groups of steps leave alone.                                         *)

LEMMA QuietModule ==
    ASSUME Module
    PROVE UNCHANGED <<workers, reporters, running, current, start, packet, disposals, worker,
                      queue, completed, progress, holder, at, op, calls, native, overtaken>>
BY DEF Module, Stop, Pause, Resume, Request, ReleaseObject, LockServer, CanUnload,
       moduleUnchanged, counters, reporter

LEMMA QuietUser ==
    ASSUME NEW i \in Invocations, User(i)
    PROVE UNCHANGED <<objects, locks, workers, running, current, control, start, packet,
                      disposals, worker, native, overtaken, unload, faults>>
BY DEF User, RunReturns, SendDone, HelperDrops, InCall, Send, Hangup, Return, Complete, Report,
       reporterUnchanged

LEMMA QuietStart ==
    ASSUME NEW i \in Invocations, Start(i) \/ Starter(i)
    PROVE UNCHANGED <<objects, locks, reporters, queue, completed, progress, holder, at, op,
                      calls, native, overtaken, unload>>
BY DEF Start, Starter, StartPrepare, StartSpawn, StartAwait, StartJoin, unstarted, reporter

LEMMA QuietWorker ==
    ASSUME NEW i \in Invocations, Worker(i)
    PROVE UNCHANGED <<objects, locks, current, control, start, unload, progress, holder, op, calls>>
BY DEF Worker, WorkerInit, WorkerUnmarshal, WorkerSpawn, ServeUpdate, ServeComplete, ServeDone,
       Terminal, WorkerJoin, WorkerGuard, WorkerExit, workerUnchanged, workerServes, reporter

-----------------------------------------------------------------------------
(* One lemma per part of the invariant.                                      *)

LEMMA PacketsHold == ASSUME TypeOK, Packets, Next PROVE Packets'
<1>. /\ start \in [Invocations -> Starting \cup {"unused", "ok", "failed"}]
     /\ packet \in [Invocations -> {"none", "starter", "sent", "taken", "released"}]
     /\ disposals \in [Invocations -> Nat]
     /\ worker \in [Invocations -> WorkerStates]
  BY DEF TypeOK
<1>1. CASE Module \/ \E i \in Invocations : User(i)
  BY <1>1, QuietModule, QuietUser DEF Packets
<1>2. ASSUME NEW i \in Invocations, Start(i) \/ Starter(i) PROVE Packets'
  <2>. USE DEF Packets, Leaving, Serves, Starting, WorkerStates
  <2>1. CASE Start(i) BY <2>1 DEF Start
  <2>2. CASE StartPrepare(i) BY <2>2 DEF StartPrepare
  <2>3. CASE StartSpawn(i) BY <2>3 DEF StartSpawn, ReleasePacket
  <2>4. CASE StartAwait(i) BY <2>4 DEF StartAwait, Ready
  <2>5. CASE StartJoin(i) BY <2>5 DEF StartJoin, ReleasePacket
  <2>. QED BY <1>2, <2>1, <2>2, <2>3, <2>4, <2>5 DEF Starter
<1>3. ASSUME NEW i \in Invocations, Worker(i) PROVE Packets'
  <2>. USE DEF Packets, Leaving, Serves, Starting, WorkerStates, workerUnchanged, Goto
  <2>1. CASE WorkerInit(i) BY <2>1 DEF WorkerInit
  <2>2. CASE WorkerUnmarshal(i) BY <2>2 DEF WorkerUnmarshal
  <2>3. CASE WorkerSpawn(i) BY <2>3 DEF WorkerSpawn
  <2>4. CASE ServeUpdate(i) \/ ServeComplete(i)
    BY <2>4 DEF ServeUpdate, ServeComplete, workerServes
  <2>5. CASE ServeDone(i) BY <2>5 DEF ServeDone, Serving, AfterDone, workerServes
  <2>6. CASE Terminal(i) BY <2>6 DEF Terminal, TerminalRetry, workerServes
  <2>7. CASE WorkerJoin(i) BY <2>7 DEF WorkerJoin, workerServes
  <2>8. CASE WorkerGuard(i) BY <2>8 DEF WorkerGuard
  <2>9. CASE WorkerExit(i) BY <2>9 DEF WorkerExit
  <2>. QED BY <1>3, <2>1, <2>2, <2>3, <2>4, <2>5, <2>6, <2>7, <2>8, <2>9 DEF Worker
<1>. QED BY <1>1, <1>2, <1>3 DEF Next, Step

LEMMA ClaimsHold == ASSUME TypeOK, Packets, Claims, Next PROVE Claims'
<1>1. CASE Module \/ \E i \in Invocations : User(i)
  BY <1>1, QuietModule, QuietUser DEF Claims, Active
<1>2. ASSUME NEW i \in Invocations, Start(i) \/ Starter(i) PROVE Claims'
  <2>. USE DEF TypeOK, Packets, Claims, Active, Leaving, Starting
  <2>1. CASE Start(i) BY <2>1 DEF Start, Claimed
  <2>2. CASE StartPrepare(i) BY <2>2 DEF StartPrepare
  <2>3. CASE StartSpawn(i) BY <2>3 DEF StartSpawn
  <2>4. CASE StartAwait(i) BY <2>4 DEF StartAwait
  <2>5. CASE StartJoin(i) BY <2>5 DEF StartJoin
  <2>. QED BY <1>2, <2>1, <2>2, <2>3, <2>4, <2>5 DEF Starter
<1>3. ASSUME NEW i \in Invocations, Worker(i) PROVE Claims'
  <2>. USE DEF TypeOK, Packets, Claims, Active, Leaving, WorkerStates, workerUnchanged, Goto
  <2>1. CASE WorkerInit(i) BY <2>1 DEF WorkerInit
  <2>2. CASE WorkerUnmarshal(i) BY <2>2 DEF WorkerUnmarshal
  <2>3. CASE WorkerSpawn(i) BY <2>3 DEF WorkerSpawn
  <2>4. CASE ServeUpdate(i) \/ ServeComplete(i)
    BY <2>4 DEF ServeUpdate, ServeComplete, workerServes
  <2>5. CASE ServeDone(i) BY <2>5 DEF ServeDone, Serving, AfterDone, workerServes
  <2>6. CASE Terminal(i) BY <2>6 DEF Terminal, TerminalRetry, workerServes
  <2>7. CASE WorkerJoin(i) BY <2>7 DEF WorkerJoin, workerServes
  <2>8. CASE WorkerGuard(i) BY <2>8 DEF WorkerGuard
  <2>9. CASE WorkerExit(i) BY <2>9 DEF WorkerExit
  <2>. QED BY <1>3, <2>1, <2>2, <2>3, <2>4, <2>5, <2>6, <2>7, <2>8, <2>9 DEF Worker
<1>. QED BY <1>1, <1>2, <1>3 DEF Next, Step

(* Where the threads of an invocation are, and how a step of theirs moves    *)
(* one of them.                                                              *)
LEMMA AtUpdate ==
    ASSUME at \in [Calls -> CallStates], NEW i \in Invocations, NEW t \in Threads, NEW s,
           at' = [at EXCEPT ![<<i, t>>] = s]
    PROVE /\ at'[<<i, t>>] = s
          /\ \A j \in Invocations, u \in Threads :
                j # i \/ u # t => at'[<<j, u>>] = at[<<j, u>>]
BY DEF Calls

LEMMA UserMoves ==
    ASSUME TypeOK, NEW i \in Invocations, User(i)
    PROVE \E t \in Threads, s \in CallStates :
             /\ at' = [at EXCEPT ![<<i, t>>] = s]
             /\ at[<<i, t>>] \notin {"absent", "gone"} /\ s # "absent"
<1>. at \in [Calls -> CallStates] BY DEF TypeOK
<1>. USE DEF CallStates, Calls
<1>1. CASE RunReturns(i) BY <1>1 DEF RunReturns, Threads
<1>2. CASE SendDone(i) BY <1>2 DEF SendDone, Threads
<1>3. CASE HelperDrops(i) BY <1>3 DEF HelperDrops, Threads
<1>4. ASSUME NEW t \in Threads, InCall(<<i, t>>)
      PROVE \E s \in CallStates :
               /\ at' = [at EXCEPT ![<<i, t>>] = s]
               /\ at[<<i, t>>] \notin {"absent", "gone"} /\ s # "absent"
  BY <1>4 DEF InCall, Send, Hangup, Return
<1>5. ASSUME NEW t \in Threads, Complete(<<i, t>>) \/ \E p \in 1..bounds.percent : Report(<<i, t>>, p)
      PROVE \E s \in CallStates :
               /\ at' = [at EXCEPT ![<<i, t>>] = s]
               /\ at[<<i, t>>] \notin {"absent", "gone"} /\ s # "absent"
  <2>1. at[<<i, t>>] = "idle" BY <1>5 DEF Complete, Report, Enter
  <2>2. at' = at \/ at' = [at EXCEPT ![<<i, t>>] = "send"]
    BY <1>5 DEF Complete, Report
  <2>3. at = [at EXCEPT ![<<i, t>>] = "idle"] BY <2>1
  <2>. QED BY <2>1, <2>2, <2>3
<1>. QED BY <1>1, <1>2, <1>3, <1>4, <1>5 DEF User

LEMMA UsersHold == ASSUME TypeOK, Packets, Users, Next PROVE Users'
<1>. at \in [Calls -> CallStates] /\ worker \in [Invocations -> WorkerStates]
  BY DEF TypeOK
<1>. USE DEF Users, UserRuns, Unstarted, Serves
<1>1. CASE Module BY <1>1, QuietModule
<1>2. ASSUME NEW i \in Invocations, User(i) PROVE Users'
  <2>1. UNCHANGED worker BY <1>2, QuietUser
  <2>2. PICK t \in Threads, s \in CallStates :
           /\ at' = [at EXCEPT ![<<i, t>>] = s]
           /\ at[<<i, t>>] \notin {"absent", "gone"} /\ s # "absent"
    BY <1>2, UserMoves
  <2>3. /\ at'[<<i, t>>] = s
        /\ \A j \in Invocations, u \in Threads :
              j # i \/ u # t => at'[<<j, u>>] = at[<<j, u>>]
    BY <2>2, AtUpdate
  <2>4. ASSUME NEW j \in Invocations, worker[j] \in Unstarted, NEW u \in Threads
        PROVE at'[<<j, u>>] = "absent"
    BY <2>2, <2>3, <2>4
  <2>5. ASSUME NEW j \in Invocations, at'[<<j, "user">>] \notin {"absent", "gone"}
        PROVE worker[j] \in Serves
    BY <2>2, <2>3, <2>5 DEF Threads, WorkerStates
  <2>. QED BY <2>1, <2>4, <2>5
<1>3. ASSUME NEW i \in Invocations, Start(i) \/ Starter(i) PROVE Users'
  <2>1. UNCHANGED at BY <1>3, QuietStart
  <2>2. \/ worker' = worker
        \/ worker' = [worker EXCEPT ![i] = "init"] /\ start[i] = "spawn"
    <3>1. CASE Start(i) BY <3>1 DEF Start
    <3>2. CASE StartPrepare(i) BY <3>2 DEF StartPrepare
    <3>3. CASE StartSpawn(i) BY <3>3 DEF StartSpawn
    <3>4. CASE StartAwait(i) BY <3>4 DEF StartAwait
    <3>5. CASE StartJoin(i) BY <3>5 DEF StartJoin
    <3>. QED BY <1>3, <3>1, <3>2, <3>3, <3>4, <3>5 DEF Starter
  <2>3. start[i] = "spawn" => worker[i] = "none" BY DEF Packets
  <2>. QED BY <2>1, <2>2, <2>3
<1>4. ASSUME NEW i \in Invocations, Worker(i) PROVE Users'
  <2>. USE DEF Goto
  <2>1. CASE WorkerInit(i) BY <2>1 DEF WorkerInit, reporter
  <2>2. CASE WorkerUnmarshal(i) BY <2>2 DEF WorkerUnmarshal, reporter
  <2>3. CASE WorkerSpawn(i)
    <3>1. CASE UNCHANGED at BY <2>3, <3>1 DEF WorkerSpawn
    <3>2. CASE ~UNCHANGED at
      <4>1. /\ worker' = [worker EXCEPT ![i] = "serve"]
            /\ at' = [k \in Calls |-> IF k[1] = i THEN "idle" ELSE at[k]]
        BY <2>3, <3>2 DEF WorkerSpawn
      <4>2. \A j \in Invocations, t \in Threads : j # i => at'[<<j, t>>] = at[<<j, t>>]
        BY <4>1 DEF Calls
      <4>. QED BY <4>1, <4>2 DEF Threads
    <3>. QED BY <3>1, <3>2
  <2>4. CASE ServeUpdate(i) \/ ServeComplete(i)
    <3>1. UNCHANGED worker /\ worker[i] = "serve"
      BY <2>4 DEF ServeUpdate, ServeComplete, workerServes, Serving
    <3>2. PICK t, s : at' = [at EXCEPT ![<<i, t>>] = s]
      BY <2>4 DEF ServeUpdate, ServeComplete, Reply
    <3>3. \A j \in Invocations, u \in Threads : j # i => at'[<<j, u>>] = at[<<j, u>>]
      BY <3>2 DEF Calls
    <3>. QED BY <3>1, <3>3 DEF Threads
  <2>5. CASE ServeDone(i) BY <2>5 DEF ServeDone, Serving, AfterDone, workerServes
  <2>6. CASE Terminal(i) BY <2>6 DEF Terminal, TerminalRetry, workerServes
  <2>7. CASE WorkerJoin(i) BY <2>7 DEF WorkerJoin, workerServes
  <2>8. CASE WorkerGuard(i) BY <2>8 DEF WorkerGuard, reporter
  <2>9. CASE WorkerExit(i) BY <2>9 DEF WorkerExit, reporter
  <2>. QED BY <1>4, <2>1, <2>2, <2>3, <2>4, <2>5, <2>6, <2>7, <2>8, <2>9 DEF Worker
<1>. QED BY <1>1, <1>2, <1>3, <1>4 DEF Next, Step

(* The call that the worker answers is one that waits.                       *)
LEMMA Answering ==
    ASSUME TypeOK, Queues, NEW i \in Invocations, NEW kind \in {"update", "complete"},
           Serving(i, kind)
    PROVE /\ Head1(i).from \in Threads
          /\ at[<<i, Head1(i).from>>] = "wait"
          /\ op[<<i, Head1(i).from>>] = [kind |-> kind, percent |-> Head1(i).percent]
          /\ Head1(i).percent \in 0..bounds.percent
          /\ Len(queue[i]) > 0
<1>1. queue[i] \in Seq(Commands) /\ queue[i] # <<>> BY DEF TypeOK, Serving
<1>2. Len(queue[i]) > 0 /\ 1 \in 1..Len(queue[i]) /\ Head1(i) \in Commands
  BY <1>1 DEF Head1
<1>3. Head1(i).kind = kind BY DEF Serving
<1>4. Head1(i) \in [kind : {"update", "complete"}, from : Threads, percent : 0..bounds.percent]
  BY <1>2, <1>3 DEF Commands
<1>5. Sent(i, Head1(i)) BY <1>2 DEF Queues, Queued, Head1
<1>. QED BY <1>2, <1>3, <1>4, <1>5 DEF Sent

LEMMA AnswerMoves ==
    ASSUME TypeOK, Queues, NEW i \in Invocations, ServeUpdate(i) \/ ServeComplete(i)
    PROVE \E t \in Threads, s \in Answered :
             /\ at' = [at EXCEPT ![<<i, t>>] = s] /\ at[<<i, t>>] = "wait"
             /\ UNCHANGED <<worker, start, workers, reporters>>
<1>1. CASE ServeUpdate(i)
  <2>1. Serving(i, "update") BY <1>1 DEF ServeUpdate
  <2>. QED BY <1>1, <2>1, Answering
         DEF ServeUpdate, Reply, Answered, workerServes, workerUnchanged
<1>2. CASE ServeComplete(i)
  <2>1. Serving(i, "complete") BY <1>2 DEF ServeComplete
  <2>. QED BY <1>2, <2>1, Answering
         DEF ServeComplete, Reply, Answered, workerServes, workerUnchanged
<1>. QED BY <1>1, <1>2

LEMMA FiniteCounts == IsFiniteSet(Registered) /\ IsFiniteSet(Reporting)
<1>1. IsFiniteSet(Invocations)
  BY FS_Interval, BoundsAssumption DEF Invocations
<1>2. Registered \in SUBSET Invocations /\ Reporting \in SUBSET Invocations
  BY DEF Registered, Reporting
<1>. QED BY <1>1, <1>2, FS_Subset

LEMMA CountsHold == ASSUME TypeOK, Packets, Users, Queues, Counts, Next PROVE Counts'
<1>. /\ at \in [Calls -> CallStates] /\ worker \in [Invocations -> WorkerStates]
     /\ start \in [Invocations -> Starting \cup {"unused", "ok", "failed"}]
     /\ workers \in Nat /\ reporters \in Nat
  BY DEF TypeOK
<1>0. Counts /\ IsFiniteSet(Registered) /\ IsFiniteSet(Reporting) BY FiniteCounts
<1>1. CASE Module
  <2>1. UNCHANGED <<workers, reporters, start, worker, at>> BY <1>1, QuietModule
  <2>2. Registered' = Registered /\ Reporting' = Reporting
    BY <2>1 DEF Registered, Reporting, HasClone
  <2>. QED BY <2>1, <2>2 DEF Counts
<1>2. ASSUME NEW i \in Invocations, User(i) PROVE Counts'
  <2>1. UNCHANGED <<workers, start, worker>> BY <1>2, QuietUser
  <2>2. Registered' = Registered BY <2>1 DEF Registered
  <2>3. ASSUME NEW t \in Threads, NEW s \in {"ran", "gone"},
               at[<<i, t>>] = "idle", at' = [at EXCEPT ![<<i, t>>] = s], DropClone(<<i, t>>)
        PROVE Counts'
    <3>1. /\ at'[<<i, t>>] = s
          /\ \A j \in Invocations, u \in Threads :
                j # i \/ u # t => at'[<<j, u>>] = at[<<j, u>>]
      BY <2>3, AtUpdate
    <3>2. i \in Reporting BY <2>3 DEF Reporting, HasClone
    <3>3. worker[i] # "spawn" BY <2>3 DEF Users, Unstarted
    <3>4. ASSUME NEW j \in Invocations, j # i PROVE j \in Reporting' <=> j \in Reporting
      BY <2>1, <3>1, <3>4 DEF Reporting, HasClone
    <3>5. i \in Reporting' <=> \E l \in Calls \ {<<i, t>>} : l[1] = i /\ HasClone(l)
      <4>1. i \in Reporting' <=> \E u \in Threads : u # t /\ HasClone(<<i, u>>)
        BY <2>1, <2>3, <3>1, <3>3 DEF Reporting, HasClone
      <4>2. \A l \in Calls \ {<<i, t>>} :
               l[1] = i => l[2] \in Threads /\ l[2] # t /\ l = <<i, l[2]>>
        BY DEF Calls
      <4>3. \A u \in Threads : u # t =>
               <<i, u>> \in Calls \ {<<i, t>>} /\ <<i, u>>[1] = i
        BY DEF Calls
      <4>. HIDE DEF HasClone
      <4>. QED BY <4>1, <4>2, <4>3
    <3>6. CASE i \in Reporting'
      <4>1. Reporting' = Reporting BY <3>2, <3>4, <3>6 DEF Reporting
      <4>2. reporters' = reporters BY <2>3, <3>5, <3>6 DEF DropClone
      <4>. QED BY <1>0, <2>1, <2>2, <4>1, <4>2 DEF Counts
    <3>7. CASE i \notin Reporting'
      <4>1. Reporting' = Reporting \ {i} BY <3>2, <3>4, <3>7 DEF Reporting
      <4>2. reporters' = reporters - 1 BY <2>3, <3>5, <3>7 DEF DropClone
      <4>. QED BY <1>0, <2>1, <2>2, <3>2, <4>1, <4>2, FS_RemoveElement DEF Counts
    <3>. QED BY <3>6, <3>7
  <2>4. ASSUME NEW t \in Threads, NEW s \in CallStates, UNCHANGED reporters,
               at' = [at EXCEPT ![<<i, t>>] = s],
               HasClone(<<i, t>>) <=> s \notin {"absent", "ran", "gone"}
        PROVE Counts'
    <3>1. /\ at'[<<i, t>>] = s
          /\ \A j \in Invocations, u \in Threads :
                j # i \/ u # t => at'[<<j, u>>] = at[<<j, u>>]
      BY <2>4, AtUpdate
    <3>2. Reporting' = Reporting BY <2>1, <2>4, <3>1 DEF Reporting, HasClone
    <3>. QED BY <1>0, <2>1, <2>2, <2>4, <3>2 DEF Counts
  <2>5. CASE RunReturns(i) BY <2>3, <2>5 DEF RunReturns, Threads
  <2>6. CASE HelperDrops(i) BY <2>3, <2>6 DEF HelperDrops, Threads
  <2>7. CASE SendDone(i) BY <2>4, <2>7 DEF SendDone, Threads, HasClone, CallStates
  <2>8. ASSUME NEW t \in Threads, InCall(<<i, t>>) PROVE Counts'
    BY <2>4, <2>8 DEF InCall, Send, Hangup, Return, HasClone, CallStates
  <2>9. ASSUME NEW t \in Threads,
               Complete(<<i, t>>) \/ \E p \in 1..bounds.percent : Report(<<i, t>>, p)
        PROVE Counts'
    <3>1. at[<<i, t>>] = "idle" /\ UNCHANGED reporters
      BY <2>9 DEF Complete, Report, Enter
    <3>2. at' = at \/ at' = [at EXCEPT ![<<i, t>>] = "send"]
      BY <2>9 DEF Complete, Report
    <3>3. at = [at EXCEPT ![<<i, t>>] = "idle"] BY <3>1
    <3>. QED BY <2>4, <3>1, <3>2, <3>3 DEF HasClone, CallStates
  <2>. QED BY <1>2, <2>5, <2>6, <2>7, <2>8, <2>9 DEF User
<1>3. ASSUME NEW i \in Invocations, Start(i) \/ Starter(i) PROVE Counts'
  <2>1. UNCHANGED <<at, reporters>> BY <1>3, QuietStart
  <2>2. start[i] = "spawn" => worker[i] = "none" BY DEF Packets
  <2>3. ASSUME UNCHANGED workers, Registered' = Registered, Reporting' = Reporting PROVE Counts'
    BY <1>0, <2>1, <2>3 DEF Counts
  <2>4. CASE UNCHANGED <<worker, workers>> /\ \E s \in {"prepare", "failed", "ok", "join"} :
               start[i] # "spawn" /\ start' = [start EXCEPT ![i] = s]
    BY <2>1, <2>3, <2>4 DEF Registered, Reporting, HasClone
  <2>5. CASE Start(i) BY <2>4, <2>5 DEF Start
  <2>6. CASE StartPrepare(i)
    <3>1. CASE UNCHANGED workers BY <2>4, <2>6, <3>1 DEF StartPrepare
    <3>2. CASE workers' # workers
      <4>1. /\ start[i] = "prepare" /\ start' = [start EXCEPT ![i] = "spawn"]
            /\ workers' = workers + 1 /\ UNCHANGED worker
        BY <2>6, <3>2 DEF StartPrepare
      <4>2. worker[i] = "none" BY <4>1 DEF Packets
      <4>3. Registered' = Registered \cup {i} /\ i \notin Registered
        BY <4>1, <4>2 DEF Registered
      <4>4. Reporting' = Reporting BY <2>1, <4>1 DEF Reporting, HasClone
      <4>. QED BY <1>0, <2>1, <4>1, <4>3, <4>4, FS_AddElement DEF Counts
    <3>. QED BY <3>1, <3>2
  <2>7. CASE StartSpawn(i)
    <3>1. start[i] = "spawn" BY <2>7 DEF StartSpawn
    <3>2. CASE worker' = [worker EXCEPT ![i] = "init"]
      <4>1. UNCHANGED workers /\ start' = [start EXCEPT ![i] = "await"]
        BY <2>2, <2>7, <3>1, <3>2 DEF StartSpawn
      <4>. QED BY <2>1, <2>2, <2>3, <3>1, <3>2, <4>1 DEF Registered, Reporting, HasClone
    <3>3. CASE worker' # [worker EXCEPT ![i] = "init"]
      <4>1. /\ start' = [start EXCEPT ![i] = "failed"]
            /\ workers' = workers - 1 /\ UNCHANGED worker
        BY <2>7, <3>3 DEF StartSpawn
      <4>2. Registered' = Registered \ {i} /\ i \in Registered
        BY <2>2, <3>1, <4>1 DEF Registered
      <4>3. Reporting' = Reporting BY <2>1, <4>1 DEF Reporting, HasClone
      <4>. QED BY <1>0, <2>1, <4>1, <4>2, <4>3, FS_RemoveElement DEF Counts
    <3>. QED BY <3>2, <3>3
  <2>8. CASE StartAwait(i) BY <2>4, <2>8 DEF StartAwait
  <2>9. CASE StartJoin(i) BY <2>4, <2>9 DEF StartJoin
  <2>. QED BY <1>3, <2>5, <2>6, <2>7, <2>8, <2>9 DEF Starter
<1>4. ASSUME NEW i \in Invocations, Worker(i) PROVE Counts'
  <2>1. UNCHANGED start BY <1>4, QuietWorker
  <2>2. worker[i] # "none" => start[i] # "spawn" BY DEF Packets
  <2>3. worker[i] \in Unstarted => \A t \in Threads : ~HasClone(<<i, t>>)
    BY DEF Users, HasClone
  <2>4. ASSUME NEW s \in WorkerStates \ {"none", "gone", "spawn"}, UNCHANGED <<workers, reporters, at>>,
               worker[i] \notin {"none", "gone", "spawn"}, worker' = [worker EXCEPT ![i] = s]
        PROVE Counts'
    <3>1. Registered' = Registered /\ Reporting' = Reporting
      BY <2>1, <2>4 DEF Registered, Reporting, HasClone
    <3>. QED BY <1>0, <2>4, <3>1 DEF Counts
  <2>. USE DEF Goto
  <2>5. CASE WorkerInit(i) BY <2>4, <2>5 DEF WorkerInit, reporter, WorkerStates
  <2>6. CASE WorkerUnmarshal(i)
    <3>1. worker[i] = "packet" /\ UNCHANGED <<at, workers>>
      BY <2>6 DEF WorkerUnmarshal, reporter
    <3>2. CASE worker' = [worker EXCEPT ![i] = "guard"]
      <4>1. UNCHANGED reporters BY <2>6, <3>1, <3>2 DEF WorkerUnmarshal
      <4>. QED BY <2>4, <3>1, <3>2, <4>1 DEF WorkerStates
    <3>3. CASE worker' # [worker EXCEPT ![i] = "guard"]
      <4>1. worker' = [worker EXCEPT ![i] = "spawn"] /\ reporters' = reporters + 1
        BY <2>6, <3>3 DEF WorkerUnmarshal
      <4>2. Reporting' = Reporting \cup {i} /\ i \notin Reporting
        BY <2>3, <3>1, <4>1 DEF Reporting, HasClone, Unstarted
      <4>3. Registered' = Registered BY <2>1, <3>1, <4>1 DEF Registered
      <4>. QED BY <1>0, <3>1, <4>1, <4>2, <4>3, FS_AddElement DEF Counts
    <3>. QED BY <3>2, <3>3
  <2>7. CASE WorkerSpawn(i)
    <3>1. worker[i] = "spawn" /\ UNCHANGED workers BY <2>7 DEF WorkerSpawn
    <3>2. CASE worker' = [worker EXCEPT ![i] = "serve"]
      <4>1. UNCHANGED reporters /\ at' = [k \in Calls |-> IF k[1] = i THEN "idle" ELSE at[k]]
        BY <2>7, <3>1, <3>2 DEF WorkerSpawn
      <4>2. \A j \in Invocations, t \in Threads :
               at'[<<j, t>>] = IF j = i THEN "idle" ELSE at[<<j, t>>]
        BY <4>1 DEF Calls
      <4>3. Registered' = Registered /\ Reporting' = Reporting
        BY <2>1, <3>1, <3>2, <4>2 DEF Registered, Reporting, HasClone, Threads
      <4>. QED BY <1>0, <3>1, <4>1, <4>3 DEF Counts
    <3>3. CASE worker' # [worker EXCEPT ![i] = "serve"]
      <4>1. /\ worker' = [worker EXCEPT ![i] = "terminal"] /\ reporters' = reporters - 1
            /\ UNCHANGED at
        BY <2>7, <3>3 DEF WorkerSpawn
      <4>2. Reporting' = Reporting \ {i} /\ i \in Reporting
        BY <2>3, <3>1, <4>1 DEF Reporting, HasClone, Unstarted
      <4>3. Registered' = Registered BY <2>1, <3>1, <4>1 DEF Registered
      <4>. QED BY <1>0, <3>1, <4>1, <4>2, <4>3, FS_RemoveElement DEF Counts
    <3>. QED BY <3>2, <3>3
  <2>8. CASE ServeUpdate(i) \/ ServeComplete(i)
    <3>1. PICK t \in Threads, s \in Answered :
             /\ at' = [at EXCEPT ![<<i, t>>] = s] /\ at[<<i, t>>] = "wait"
             /\ UNCHANGED <<worker, start, workers, reporters>>
      BY <2>8, AnswerMoves
    <3>2. /\ at'[<<i, t>>] = s
          /\ \A j \in Invocations, u \in Threads :
                j # i \/ u # t => at'[<<j, u>>] = at[<<j, u>>]
      BY <3>1, AtUpdate
    <3>3. Registered' = Registered /\ Reporting' = Reporting
      BY <3>1, <3>2 DEF Registered, Reporting, HasClone, Answered
    <3>. QED BY <1>0, <3>1, <3>3 DEF Counts
  <2>9. CASE ServeDone(i)
    BY <2>4, <2>9 DEF ServeDone, Serving, AfterDone, workerServes, WorkerStates
  <2>10. CASE Terminal(i) BY <2>4, <2>10 DEF Terminal, TerminalRetry, workerServes, WorkerStates
  <2>11. CASE WorkerJoin(i) BY <2>4, <2>11 DEF WorkerJoin, workerServes, WorkerStates
  <2>12. CASE WorkerGuard(i) BY <2>4, <2>12 DEF WorkerGuard, reporter, WorkerStates
  <2>13. CASE WorkerExit(i)
    <3>1. /\ worker[i] = "exit" /\ worker' = [worker EXCEPT ![i] = "gone"]
          /\ workers' = workers - 1 /\ UNCHANGED <<at, reporters>>
      BY <2>13 DEF WorkerExit, reporter
    <3>2. Registered' = Registered \ {i} /\ i \in Registered
      BY <2>1, <2>2, <3>1 DEF Registered
    <3>3. Reporting' = Reporting BY <3>1 DEF Reporting, HasClone
    <3>. QED BY <1>0, <3>1, <3>2, <3>3, FS_RemoveElement DEF Counts
  <2>. QED BY <1>4, <2>5, <2>6, <2>7, <2>8, <2>9, <2>10, <2>11, <2>12, <2>13 DEF Worker
<1>. QED BY <1>1, <1>2, <1>3, <1>4 DEF Next, Step

LEMMA UnloadingHolds ==
    ASSUME TypeOK, Packets, Users, Queues, Counts, Unloading, Next PROVE Unloading'
<1>. /\ at \in [Calls -> CallStates] /\ worker \in [Invocations -> WorkerStates]
     /\ start \in [Invocations -> Starting \cup {"unused", "ok", "failed"}]
     /\ objects \subseteq {"factory", "handler"}
  BY DEF TypeOK
<1>1. CASE Module
  <2>1. UNCHANGED <<start, worker, at>> BY <1>1, QuietModule
  <2>2. Registered' = Registered /\ Reporting' = Reporting /\ (InStart' <=> InStart)
    BY <2>1 DEF Registered, Reporting, HasClone, InStart
  <2>3. CASE Stop \/ Pause \/ Resume
    BY <2>2, <2>3 DEF Stop, Pause, Resume, Request, counters, Unloading
  <2>4. ASSUME NEW o \in objects, ReleaseObject(o) PROVE Unloading'
    BY <2>2, <2>4 DEF ReleaseObject, Unloading
  <2>5. ASSUME NEW lock \in BOOLEAN, LockServer(lock) PROVE Unloading'
    BY <2>2, <2>5 DEF LockServer, Unloading
  <2>6. ASSUME NEW n \in 1..4, CanUnload(n) PROVE Unloading'
    <3>1. UNCHANGED <<objects, locks>> /\ unload = Readings[n] BY <2>6 DEF CanUnload
    <3>2. IsFiniteSet(objects)
      <4>1. IsFiniteSet({"factory"} \cup {"handler"})
        BY FS_EmptySet, FS_AddElement, FS_Singleton
      <4>2. objects \in SUBSET ({"factory"} \cup {"handler"}) OBVIOUS
      <4>. QED BY <4>1, <4>2, FS_Subset
    <3>3. CASE ReadOrder[n] # 0
      <4>1. unload' = "idle" BY <2>6, <3>3 DEF CanUnload
      <4>. QED BY <2>2, <3>1, <4>1 DEF Unloading
    <3>4. CASE ReadOrder[n] = 0
      <4>1. unload' = IF n = 4 THEN "unloaded" ELSE Readings[n + 1]
        BY <2>6, <3>4 DEF CanUnload
      <4>2. CASE n = 1
        <5>1. unload' = "read1" /\ Cardinality(objects) = 0
          BY <3>4, <4>1, <4>2 DEF Readings, ReadOrder
        <5>2. objects = {} BY <3>2, <5>1, FS_EmptySet
        <5>. QED BY <2>2, <3>1, <5>1, <5>2 DEF Unloading
      <4>3. CASE n = 2
        <5>1. unload = "read1" /\ unload' = "read2" /\ locks = 0
          BY <3>1, <3>4, <4>1, <4>3 DEF Readings, ReadOrder
        <5>. QED BY <2>2, <3>1, <5>1 DEF Unloading
      <4>4. CASE n = 3
        <5>1. unload = "read2" /\ unload' = "read3" /\ workers = 0
          BY <3>1, <3>4, <4>1, <4>4 DEF Readings, ReadOrder
        <5>2. Registered = {} BY <5>1, FiniteCounts, FS_EmptySet DEF Counts
        <5>. QED BY <2>2, <3>1, <5>1, <5>2 DEF Unloading
      <4>5. CASE n = 4
        <5>1. unload = "read3" /\ unload' = "unloaded" /\ reporters = 0
          BY <3>1, <3>4, <4>1, <4>5 DEF Readings, ReadOrder
        <5>2. Reporting = {} BY <5>1, FiniteCounts, FS_EmptySet DEF Counts
        <5>. QED BY <2>2, <3>1, <5>1, <5>2 DEF Unloading
      <4>. QED BY <4>2, <4>3, <4>4, <4>5
    <3>. QED BY <3>3, <3>4
  <2>. QED BY <1>1, <2>3, <2>4, <2>5, <2>6 DEF Module
<1>2. ASSUME NEW i \in Invocations, User(i) PROVE Unloading'
  <2>1. UNCHANGED <<objects, locks, start, worker, unload>> BY <1>2, QuietUser
  <2>2. Registered' = Registered /\ (InStart' <=> InStart) BY <2>1 DEF Registered, InStart
  <2>3. ASSUME Reporting = {} PROVE Reporting' = {}
    <3>1. \A t \in Threads : at[<<i, t>>] \in {"absent", "ran", "gone"}
      BY <2>3 DEF Reporting, HasClone
    <3>2. SendDone(i)
      <4>1. \A t \in Threads :
               /\ ~InCall(<<i, t>>) /\ ~Complete(<<i, t>>)
               /\ \A p \in 1..bounds.percent : ~Report(<<i, t>>, p)
        BY <3>1 DEF InCall, Send, Hangup, Return, Complete, Report, Enter
      <4>2. ~RunReturns(i) /\ ~HelperDrops(i)
        BY <3>1 DEF RunReturns, HelperDrops, Threads
      <4>. QED BY <1>2, <4>1, <4>2 DEF User
    <3>3. at' = [at EXCEPT ![<<i, "user">>] = "gone"] BY <3>2 DEF SendDone
    <3>4. /\ at'[<<i, "user">>] = "gone"
          /\ \A j \in Invocations, u \in Threads :
                j # i \/ u # "user" => at'[<<j, u>>] = at[<<j, u>>]
      BY <3>3, AtUpdate DEF Threads
    <3>. QED BY <2>1, <2>3, <3>4 DEF Reporting, HasClone
  <2>. QED BY <2>1, <2>2, <2>3 DEF Unloading
<1>3. ASSUME NEW i \in Invocations, Start(i) \/ Starter(i) PROVE Unloading'
  <2>1. UNCHANGED <<objects, locks, unload>> BY <1>3, QuietStart
  <2>2. "handler" \in objects
    <3>1. CASE Start(i) BY <3>1 DEF Start
    <3>2. CASE Starter(i)
      <4>1. start[i] \in Starting
        BY <3>2 DEF Starter, StartPrepare, StartSpawn, StartAwait, StartJoin, Starting
      <4>. QED BY <4>1 DEF Unloading, InStart
    <3>. QED BY <1>3, <3>1, <3>2
  <2>. QED BY <2>1, <2>2 DEF Unloading
<1>4. ASSUME NEW i \in Invocations, Worker(i) PROVE Unloading'
  <2>1. UNCHANGED <<objects, locks, start, unload>> BY <1>4, QuietWorker
  <2>2. i \in Registered
    BY <1>4 DEF Registered, Worker, WorkerInit, WorkerUnmarshal, WorkerSpawn, ServeUpdate,
       ServeComplete, ServeDone, Serving, Terminal, WorkerJoin, WorkerGuard, WorkerExit
  <2>. QED BY <2>1, <2>2 DEF Unloading, InStart
<1>. QED BY <1>1, <1>2, <1>3, <1>4 DEF Next, Step

LEMMA HeldHolds == ASSUME TypeOK, Users, Queues, Held, Next PROVE Held'
<1>. /\ at \in [Calls -> CallStates] /\ holder \in [Invocations -> Threads \cup {Nobody}]
  BY DEF TypeOK
<1>. USE DEF Waiting, Answered
<1>1. CASE Module BY <1>1, QuietModule DEF Held
<1>2. ASSUME NEW i \in Invocations, User(i) PROVE Held'
  <2>1. ASSUME NEW t \in Threads, NEW s \in CallStates, at' = [at EXCEPT ![<<i, t>>] = s],
               UNCHANGED holder,
               s \in Waiting \cup Answered <=> at[<<i, t>>] \in Waiting \cup Answered
        PROVE Held'
    <3>1. /\ at'[<<i, t>>] = s
          /\ \A j \in Invocations, u \in Threads :
                j # i \/ u # t => at'[<<j, u>>] = at[<<j, u>>]
      BY <2>1, AtUpdate
    <3>2. ASSUME NEW j \in Invocations, NEW u \in Threads
          PROVE (at'[<<j, u>>] \in Waiting \cup Answered) <=> (holder'[j] = u)
      BY <2>1, <3>1 DEF Held
    <3>. QED BY <3>2 DEF Held
  <2>2. CASE RunReturns(i) BY <2>1, <2>2 DEF RunReturns, Threads, CallStates
  <2>3. CASE SendDone(i) BY <2>1, <2>3 DEF SendDone, Threads, CallStates
  <2>4. CASE HelperDrops(i) BY <2>1, <2>4 DEF HelperDrops, Threads, CallStates
  <2>5. ASSUME NEW t \in Threads, Send(<<i, t>>) \/ Hangup(<<i, t>>) PROVE Held'
    BY <2>1, <2>5 DEF Send, Hangup, CallStates
  <2>6. ASSUME NEW t \in Threads, Return(<<i, t>>) PROVE Held'
    <3>1. /\ at[<<i, t>>] \in Answered /\ at' = [at EXCEPT ![<<i, t>>] = "idle"]
          /\ holder' = [holder EXCEPT ![i] = Nobody]
      BY <2>6 DEF Return
    <3>2. /\ at'[<<i, t>>] = "idle"
          /\ \A j \in Invocations, u \in Threads :
                j # i \/ u # t => at'[<<j, u>>] = at[<<j, u>>]
      BY <3>1, AtUpdate
    <3>3. ASSUME NEW j \in Invocations, NEW u \in Threads
          PROVE (at'[<<j, u>>] \in Waiting \cup Answered) <=> (holder'[j] = u)
      BY <3>1, <3>2 DEF Held, Threads, Nobody
    <3>. QED BY <3>3 DEF Held
  <2>7. ASSUME NEW t \in Threads,
               Complete(<<i, t>>) \/ \E p \in 1..bounds.percent : Report(<<i, t>>, p)
        PROVE Held'
    <3>1. at[<<i, t>>] = "idle" /\ holder[i] = Nobody
      BY <2>7 DEF Complete, Report, Enter, Locked
    <3>2. CASE UNCHANGED <<at, holder>> BY <3>2 DEF Held
    <3>3. CASE at' = [at EXCEPT ![<<i, t>>] = "send"] /\ holder' = [holder EXCEPT ![i] = t]
      <4>1. /\ at'[<<i, t>>] = "send"
            /\ \A j \in Invocations, u \in Threads :
                  j # i \/ u # t => at'[<<j, u>>] = at[<<j, u>>]
        BY <3>3, AtUpdate
      <4>2. ASSUME NEW j \in Invocations, NEW u \in Threads
            PROVE (at'[<<j, u>>] \in Waiting \cup Answered) <=> (holder'[j] = u)
        BY <3>1, <3>3, <4>1 DEF Held, Threads, Nobody
      <4>. QED BY <4>2 DEF Held
    <3>. QED BY <2>7, <3>2, <3>3 DEF Complete, Report
  <2>. QED BY <1>2, <2>2, <2>3, <2>4, <2>5, <2>6, <2>7 DEF User, InCall
<1>3. ASSUME NEW i \in Invocations, Start(i) \/ Starter(i) PROVE Held'
  BY <1>3, QuietStart DEF Held
<1>4. ASSUME NEW i \in Invocations, Worker(i) PROVE Held'
  <2>1. UNCHANGED holder BY <1>4, QuietWorker
  <2>2. CASE ServeUpdate(i) \/ ServeComplete(i)
    <3>1. PICK t \in Threads, s \in Answered :
             at' = [at EXCEPT ![<<i, t>>] = s] /\ at[<<i, t>>] = "wait"
      BY <2>2, AnswerMoves
    <3>2. /\ at'[<<i, t>>] = s
          /\ \A j \in Invocations, u \in Threads :
                j # i \/ u # t => at'[<<j, u>>] = at[<<j, u>>]
      BY <3>1, AtUpdate
    <3>3. ASSUME NEW j \in Invocations, NEW u \in Threads
          PROVE (at'[<<j, u>>] \in Waiting \cup Answered) <=> (holder'[j] = u)
      BY <2>1, <3>1, <3>2 DEF Held
    <3>. QED BY <3>3 DEF Held
  <2>3. CASE WorkerSpawn(i)
    <3>1. CASE UNCHANGED at BY <2>1, <3>1 DEF Held
    <3>2. CASE ~UNCHANGED at
      <4>1. at' = [k \in Calls |-> IF k[1] = i THEN "idle" ELSE at[k]]
        BY <2>3, <3>2 DEF WorkerSpawn
      <4>2. \A j \in Invocations, t \in Threads :
               at'[<<j, t>>] = IF j = i THEN "idle" ELSE at[<<j, t>>]
        BY <4>1 DEF Calls
      <4>3. \A t \in Threads : at[<<i, t>>] = "absent"
        BY <2>3 DEF WorkerSpawn, Users, Unstarted
      <4>4. ASSUME NEW j \in Invocations, NEW u \in Threads
            PROVE (at'[<<j, u>>] \in Waiting \cup Answered) <=> (holder'[j] = u)
        BY <2>1, <4>2, <4>3 DEF Held
      <4>. QED BY <4>4 DEF Held
    <3>. QED BY <3>1, <3>2
  <2>4. CASE UNCHANGED at BY <2>1, <2>4 DEF Held
  <2>. QED BY <1>4, <2>2, <2>3, <2>4
         DEF Worker, WorkerInit, WorkerUnmarshal, ServeDone, Terminal, WorkerJoin, WorkerGuard,
             WorkerExit, reporter
<1>. QED BY <1>1, <1>2, <1>3, <1>4 DEF Next, Step

(* What is known of the threads of an invocation after one of them moved.    *)
LEMMA Elsewhere ==
    ASSUME TypeOK, NEW i \in Invocations, Start(i) \/ Starter(i) \/ Worker(i) \/ User(i),
           Queues, NEW j \in Invocations, j # i
    PROVE /\ worker'[j] = worker[j] /\ queue'[j] = queue[j] /\ completed'[j] = completed[j]
          /\ progress'[j] = progress[j] /\ native'[j] = native[j]
          /\ overtaken'[j] = overtaken[j]
          /\ \A t \in Threads : at'[<<j, t>>] = at[<<j, t>>] /\ op'[<<j, t>>] = op[<<j, t>>]
<1>. /\ worker \in [Invocations -> WorkerStates] /\ queue \in [Invocations -> Seq(Commands)]
     /\ completed \in [Invocations -> BOOLEAN] /\ overtaken \in [Invocations -> BOOLEAN]
     /\ progress \in [Invocations -> 0..bounds.percent]
     /\ at \in [Calls -> CallStates] /\ op \in [Calls -> Operations]
     /\ native \in [Invocations -> [acks : Nat, failures : Nat, percent : Nat]]
  BY DEF TypeOK
<1>. USE DEF Calls
<1>1. CASE Start(i) \/ Starter(i)
  <2>1. UNCHANGED <<queue, completed, progress, at, op, native, overtaken>> BY <1>1, QuietStart
  <2>2. worker'[j] = worker[j]
    BY <1>1 DEF Start, Starter, StartPrepare, StartSpawn, StartAwait, StartJoin
  <2>. QED BY <2>1, <2>2
<1>2. CASE Worker(i)
  <2>1. UNCHANGED <<progress, op>> BY <1>2, QuietWorker
  <2>2. worker'[j] = worker[j] /\ queue'[j] = queue[j]
    BY <1>2 DEF Worker, WorkerInit, WorkerUnmarshal, WorkerSpawn, ServeUpdate, ServeComplete,
       ServeDone, Terminal, WorkerJoin, WorkerGuard, WorkerExit, Goto, Take, workerServes
  <2>3. completed'[j] = completed[j] /\ native'[j] = native[j] /\ overtaken'[j] = overtaken[j]
    BY <1>2 DEF Worker, WorkerInit, WorkerUnmarshal, WorkerSpawn, ServeUpdate, ServeComplete,
       ServeDone, Terminal, WorkerJoin, WorkerGuard, WorkerExit, reporter
  <2>4. ASSUME NEW t \in Threads PROVE at'[<<j, t>>] = at[<<j, t>>]
    <3>1. CASE ServeUpdate(i) \/ ServeComplete(i)
      <4>1. PICK u \in Threads, s \in Answered : at' = [at EXCEPT ![<<i, u>>] = s]
        BY <3>1, AnswerMoves
      <4>. QED BY <4>1
    <3>2. CASE WorkerSpawn(i) BY <3>2 DEF WorkerSpawn
    <3>3. CASE UNCHANGED at BY <3>3
    <3>. QED BY <1>2, <3>1, <3>2, <3>3
           DEF Worker, WorkerInit, WorkerUnmarshal, ServeDone, Terminal, WorkerJoin, WorkerGuard,
               WorkerExit, reporter
  <2>. QED BY <2>1, <2>2, <2>3, <2>4
<1>3. CASE User(i)
  <2>1. UNCHANGED <<worker, native, overtaken>> BY <1>3, QuietUser
  <2>2. ASSUME NEW t \in Threads PROVE at'[<<j, t>>] = at[<<j, t>>]
    <3>1. PICK u \in Threads, s \in CallStates : at' = [at EXCEPT ![<<i, u>>] = s]
      BY <1>3, UserMoves
    <3>. QED BY <3>1
  <2>3. CASE RunReturns(i) \/ HelperDrops(i) BY <2>1, <2>2, <2>3 DEF RunReturns, HelperDrops
  <2>4. CASE SendDone(i) BY <2>1, <2>2, <2>4 DEF SendDone
  <2>5. ASSUME NEW u \in Threads,
               Send(<<i, u>>) \/ Hangup(<<i, u>>) \/ Return(<<i, u>>)
        PROVE /\ queue'[j] = queue[j] /\ completed'[j] = completed[j]
              /\ progress'[j] = progress[j]
              /\ \A t \in Threads : op'[<<j, t>>] = op[<<j, t>>]
    BY <2>5 DEF Send, Hangup, Return
  <2>6. ASSUME NEW u \in Threads,
               Complete(<<i, u>>) \/ \E p \in 1..bounds.percent : Report(<<i, u>>, p)
        PROVE /\ queue'[j] = queue[j] /\ completed'[j] = completed[j]
              /\ progress'[j] = progress[j]
              /\ \A t \in Threads : op'[<<j, t>>] = op[<<j, t>>]
    BY <2>6 DEF Complete, Report, Enter
  <2>. QED BY <1>3, <2>1, <2>2, <2>3, <2>4, <2>5, <2>6 DEF User, InCall
<1>. QED BY <1>1, <1>2, <1>3

(* The call that a reporter makes is still the one under way.                *)
LEMMA CalledHolds == ASSUME TypeOK, Users, Queues, Called, Next PROVE Called'
<1>. at \in [Calls -> CallStates] /\ op \in [Calls -> Operations] BY DEF TypeOK
<1>. USE DEF Waiting, Answered
<1>1. CASE Module BY <1>1, QuietModule DEF Called
<1>2. ASSUME NEW i \in Invocations, Start(i) \/ Starter(i) PROVE Called'
  BY <1>2, QuietStart DEF Called
<1>3. ASSUME NEW i \in Invocations, Worker(i), NEW t \in Threads,
             at'[<<i, t>>] \in Waiting \cup Answered
      PROVE op'[<<i, t>>].kind # "none"
  <2>1. UNCHANGED op BY <1>3, QuietWorker
  <2>2. CASE ServeUpdate(i) \/ ServeComplete(i)
    <3>1. PICK u \in Threads, s \in Answered :
             at' = [at EXCEPT ![<<i, u>>] = s] /\ at[<<i, u>>] = "wait"
      BY <2>2, AnswerMoves
    <3>2. at[<<i, t>>] \in Waiting \cup Answered BY <1>3, <3>1, AtUpdate
    <3>. QED BY <2>1, <3>2 DEF Called
  <2>3. CASE WorkerSpawn(i) BY <1>3, <2>1, <2>3 DEF WorkerSpawn, Called, Calls
  <2>4. CASE UNCHANGED at BY <1>3, <2>1, <2>4 DEF Called
  <2>. QED BY <1>3, <2>2, <2>3, <2>4
         DEF Worker, WorkerInit, WorkerUnmarshal, ServeDone, Terminal, WorkerJoin, WorkerGuard,
             WorkerExit, reporter
<1>4. ASSUME NEW i \in Invocations, User(i), NEW t \in Threads,
             at'[<<i, t>>] \in Waiting \cup Answered
      PROVE op'[<<i, t>>].kind # "none"
  <2>1. CASE RunReturns(i) \/ HelperDrops(i) \/ SendDone(i)
    BY <1>4, <2>1 DEF RunReturns, HelperDrops, SendDone, Called, Calls
  <2>2. ASSUME NEW u \in Threads, Send(<<i, u>>) \/ Hangup(<<i, u>>) \/ Return(<<i, u>>)
        PROVE op'[<<i, t>>].kind # "none"
    BY <1>4, <2>2 DEF Send, Hangup, Return, Called, Calls
  <2>3. ASSUME NEW u \in Threads,
               Complete(<<i, u>>) \/ \E p \in 1..bounds.percent : Report(<<i, u>>, p)
        PROVE op'[<<i, t>>].kind # "none"
    <3>1. /\ at[<<i, u>>] = "idle"
          /\ \E c : c.kind # "none" /\ op' = [op EXCEPT ![<<i, u>>] = c]
      BY <2>3 DEF Complete, Report, Enter
    <3>2. CASE t = u BY <3>1, <3>2 DEF Calls
    <3>3. CASE t # u
      <4>1. op'[<<i, t>>] = op[<<i, t>>] BY <3>1, <3>3 DEF Calls
      <4>2. at'[<<i, t>>] = at[<<i, t>>] BY <2>3, <3>3 DEF Complete, Report, Calls
      <4>. QED BY <1>4, <4>1, <4>2 DEF Called
    <3>. QED BY <3>2, <3>3
  <2>. QED BY <1>4, <2>1, <2>2, <2>3 DEF User, InCall
<1>5. ASSUME NEW i \in Invocations, Worker(i) \/ User(i) PROVE Called'
  <2>1. ASSUME NEW j \in Invocations, j # i, NEW t \in Threads,
               at'[<<j, t>>] \in Waiting \cup Answered
        PROVE op'[<<j, t>>].kind # "none"
    BY <1>5, <2>1, Elsewhere DEF Called
  <2>. QED BY <1>3, <1>4, <1>5, <2>1 DEF Called
<1>. QED BY <1>1, <1>2, <1>5 DEF Next, Step

(* How the queue of an invocation changes: not at all, by one command more   *)
(* or one less, or it is dropped.                                            *)
LEMMA QueueKept ==
    ASSUME TypeOK, NEW i \in Invocations, Queued(i), queue'[i] = queue[i],
           worker[i] \notin Unstarted \cup Leaving => worker'[i] \notin Unstarted \cup Leaving,
           \A t \in Threads : at[<<i, t>>] = "wait" =>
               at'[<<i, t>>] = "wait" /\ op'[<<i, t>>] = op[<<i, t>>],
           at[<<i, "user">>] = "gone" => at'[<<i, "user">>] = "gone"
    PROVE Queued(i)'
<1>1. queue[i] \in Seq(Commands) BY DEF TypeOK
<1>2. ASSUME NEW n \in 1..Len(queue[i]) PROVE Sent(i, queue[i][n])'
  <2>1. Sent(i, queue[i][n]) /\ queue[i][n] \in Commands BY <1>1 DEF Queued
  <2>. QED BY <2>1 DEF Sent, Commands
<1>. QED BY <1>2 DEF Queued

LEMMA QueueEmpty ==
    ASSUME NEW i \in Invocations, queue'[i] = <<>> PROVE Queued(i)'
BY DEF Queued

LEMMA QueueLess ==
    ASSUME TypeOK, NEW i \in Invocations, Queued(i), queue[i] # <<>>,
           queue'[i] = Tail(queue[i]),
           worker'[i] \notin Unstarted \cup Leaving,
           \A t \in Threads : op'[<<i, t>>] = op[<<i, t>>],
           \A t \in Threads :
               (queue[i][1].kind # "done" => t # queue[i][1].from) =>
                   at'[<<i, t>>] = at[<<i, t>>]
    PROVE Queued(i)'
<1>1. queue[i] \in Seq(Commands) /\ Len(queue[i]) > 0 BY DEF TypeOK
<1>2. /\ Len(queue'[i]) = Len(queue[i]) - 1
      /\ \A n \in 1..Len(queue'[i]) :
            n + 1 \in 1..Len(queue[i]) /\ queue'[i][n] = queue[i][n + 1]
  BY <1>1
<1>3. Sent(i, queue[i][1]) /\ queue[i][1] \in Commands BY <1>1 DEF Queued
<1>4. ASSUME NEW n \in 1..Len(queue'[i]) PROVE Sent(i, queue[i][n])'
  <2>1. n + 1 \in 1..Len(queue[i]) /\ n + 1 # 1 BY <1>2
  <2>2. PICK c : c = queue[i][n + 1] OBVIOUS
  <2>3. queue'[i][n] = c BY <1>2, <2>2
  <2>4. Sent(i, c) /\ c \in Commands BY <1>1, <2>1, <2>2 DEF Queued
  <2>5. CASE c.kind = "done"
    <3>1. at[<<i, "user">>] = "gone" BY <2>4, <2>5 DEF Sent
    <3>2. queue[i][1].kind # "done" => queue[i][1].from # "user" BY <1>3, <3>1 DEF Sent
    <3>3. at'[<<i, "user">>] = "gone" BY <3>1, <3>2 DEF Threads
    <3>. QED BY <2>3, <2>5, <3>3 DEF Sent
  <2>6. CASE c.kind # "done"
    <3>1. queue[i][1].kind = "done" BY <1>1, <2>1, <2>2, <2>6 DEF Queued
    <3>2. c.from \in Threads BY <2>4, <2>6 DEF Commands
    <3>. QED BY <2>3, <2>4, <2>6, <3>1, <3>2 DEF Sent
  <2>. QED BY <2>5, <2>6
<1>5. ASSUME NEW m \in 1..Len(queue'[i]), NEW n \in 1..Len(queue'[i]),
             queue'[i][m].kind # "done", queue'[i][n].kind # "done"
      PROVE m = n
  <2>1. m + 1 = n + 1 BY <1>2, <1>5 DEF Queued
  <2>. QED BY <1>1, <1>2, <2>1
<1>. QED BY <1>4, <1>5 DEF Queued

LEMMA QueueMore ==
    ASSUME TypeOK, NEW i \in Invocations, Queued(i), NEW c \in Commands,
           queue'[i] = Append(queue[i], c),
           worker'[i] \notin Unstarted \cup Leaving, Sent(i, c)',
           \A t \in Threads : at[<<i, t>>] = "wait" =>
               at'[<<i, t>>] = "wait" /\ op'[<<i, t>>] = op[<<i, t>>],
           at[<<i, "user">>] = "gone" => at'[<<i, "user">>] = "gone",
           c.kind = "done" \/ \A n \in 1..Len(queue[i]) : queue[i][n].kind = "done"
    PROVE Queued(i)'
<1>1. queue[i] \in Seq(Commands) BY DEF TypeOK
<1>2. /\ Len(queue'[i]) = Len(queue[i]) + 1
      /\ \A n \in 1..Len(queue[i]) : queue'[i][n] = queue[i][n]
      /\ queue'[i][Len(queue[i]) + 1] = c
  BY <1>1
<1>3. ASSUME NEW n \in 1..Len(queue'[i])
      PROVE n \in 1..Len(queue[i]) \/ n = Len(queue[i]) + 1
  BY <1>1, <1>2
<1>4. ASSUME NEW n \in 1..Len(queue'[i]) PROVE Sent(i, queue[i][n])'
  <2>1. CASE n = Len(queue[i]) + 1
    <3>1. queue'[i][n] = c BY <1>2, <2>1
    <3>. QED BY <3>1 DEF Sent
  <2>2. CASE n \in 1..Len(queue[i])
    <3>1. PICK d : d = queue[i][n] OBVIOUS
    <3>2. queue'[i][n] = d BY <1>2, <2>2, <3>1
    <3>3. Sent(i, d) /\ d \in Commands BY <1>1, <2>2, <3>1 DEF Queued
    <3>. QED BY <3>2, <3>3 DEF Sent, Commands
  <2>. QED BY <1>3, <2>1, <2>2
<1>5. ASSUME NEW m \in 1..Len(queue'[i]), NEW n \in 1..Len(queue'[i]),
             queue'[i][m].kind # "done", queue'[i][n].kind # "done"
      PROVE m = n
  BY <1>2, <1>3, <1>5 DEF Queued
<1>. QED BY <1>4, <1>5 DEF Queued

LEMMA QueuesHold ==
    ASSUME TypeOK, Packets, Users, Held, Called, Queues, Next PROVE Queues'
<1>. /\ at \in [Calls -> CallStates] /\ op \in [Calls -> Operations]
     /\ worker \in [Invocations -> WorkerStates] /\ queue \in [Invocations -> Seq(Commands)]
  BY DEF TypeOK
<1>1. CASE Module
  <2>1. UNCHANGED <<worker, queue, at, op>> BY <1>1, QuietModule
  <2>2. ASSUME NEW i \in Invocations PROVE Queued(i)' BY <2>1, QueueKept DEF Queues
  <2>. QED BY <2>2 DEF Queues
<1>2. ASSUME NEW i \in Invocations, Start(i) \/ Starter(i) PROVE Queued(i)'
  <2>1. UNCHANGED <<queue, at, op>> BY <1>2, QuietStart
  <2>2. worker[i] \notin Unstarted => worker'[i] = worker[i]
    BY <1>2 DEF Start, Starter, StartPrepare, StartSpawn, StartAwait, StartJoin, Packets, Unstarted
  <2>. QED BY <2>1, <2>2, QueueKept DEF Queues
<1>3. ASSUME NEW i \in Invocations, User(i) PROVE Queued(i)'
  <2>. Queued(i) BY DEF Queues
  <2>1. UNCHANGED worker BY <1>3, QuietUser
  <2>2. ASSUME NEW t \in Threads, at[<<i, t>>] \notin {"wait", "gone"},
               UNCHANGED queue, \E s : at' = [at EXCEPT ![<<i, t>>] = s],
               \A u \in Threads : u # t => op'[<<i, u>>] = op[<<i, u>>]
        PROVE Queued(i)'
    <3>1. \A u \in Threads : u # t => at'[<<i, u>>] = at[<<i, u>>] BY <2>2 DEF Calls
    <3>2. "user" \in Threads BY DEF Threads
    <3>. QED BY <2>1, <2>2, <3>1, <3>2, QueueKept
  <2>3. CASE RunReturns(i) BY <2>2, <2>3 DEF RunReturns, Threads
  <2>4. CASE HelperDrops(i) BY <2>2, <2>4 DEF HelperDrops, Threads
  <2>5. CASE SendDone(i)
    <3>1. /\ at[<<i, "user">>] = "ran" /\ at' = [at EXCEPT ![<<i, "user">>] = "gone"]
          /\ UNCHANGED op
      BY <2>5 DEF SendDone
    <3>2. CASE Disconnected(i) BY <2>2, <2>5, <3>1, <3>2 DEF SendDone, Threads
    <3>3. CASE ~Disconnected(i)
      <4>1. PICK c : c = [kind |-> "done"] OBVIOUS
      <4>2. queue'[i] = Append(queue[i], c) BY <2>5, <3>3, <4>1 DEF SendDone
      <4>3. at'[<<i, "user">>] = "gone" /\ c \in Commands /\ Sent(i, c)'
        BY <3>1, <4>1 DEF Sent, Commands, Calls, Threads
      <4>4. \A u \in Threads : u # "user" => at'[<<i, u>>] = at[<<i, u>>]
        BY <3>1 DEF Calls
      <4>5. worker'[i] \notin Unstarted \cup Leaving
        BY <2>1, <3>1, <3>3 DEF Disconnected, Leaving, Users, Threads
      <4>. QED BY <3>1, <4>1, <4>2, <4>3, <4>4, <4>5, QueueMore
    <3>. QED BY <3>2, <3>3
  <2>6. ASSUME NEW t \in Threads, Send(<<i, t>>) PROVE Queued(i)'
    <3>1. at[<<i, t>>] = "send" /\ UNCHANGED op BY <2>6 DEF Send
    <3>2. CASE Disconnected(i)
      BY <2>2, <2>6, <3>1, <3>2 DEF Send
    <3>3. CASE ~Disconnected(i)
      <4>1. op[<<i, t>>] \in Operations /\ op[<<i, t>>].kind # "none"
        BY <3>1 DEF Called, Calls, Waiting
      <4>2. PICK c : c = [kind |-> op[<<i, t>>].kind, from |-> t, percent |-> op[<<i, t>>].percent]
        OBVIOUS
      <4>3. c \in Commands /\ c.kind # "done" /\ c.from = t
        BY <4>1, <4>2 DEF Commands, Operations
      <4>4. /\ queue'[i] = Append(queue[i], c) /\ at' = [at EXCEPT ![<<i, t>>] = "wait"]
        BY <2>6, <3>3, <4>2 DEF Send
      <4>5. /\ at'[<<i, t>>] = "wait"
            /\ \A u \in Threads : u # t => at'[<<i, u>>] = at[<<i, u>>]
        BY <4>4 DEF Calls
      <4>6. op[<<i, t>>] = [kind |-> c.kind, percent |-> c.percent]
        BY <4>1, <4>2 DEF Operations
      <4>7. Sent(i, c)' BY <3>1, <4>3, <4>5, <4>6 DEF Sent
      <4>8. worker'[i] \notin Unstarted \cup Leaving
        BY <2>1, <3>1, <3>3 DEF Disconnected, Leaving, Users
      <4>9. ASSUME NEW n \in 1..Len(queue[i]) PROVE queue[i][n].kind = "done"
        <5>1. Sent(i, queue[i][n]) /\ queue[i][n] \in Commands BY DEF Queued
        <5>2. SUFFICES ASSUME queue[i][n].kind # "done" PROVE FALSE OBVIOUS
        <5>3. PICK u \in Threads : at[<<i, u>>] = "wait"
          BY <5>1, <5>2 DEF Sent, Commands
        <5>4. holder[i] = u BY <5>3 DEF Held, Waiting
        <5>5. holder[i] = t BY <3>1 DEF Held, Waiting
        <5>. QED BY <3>1, <5>3, <5>4, <5>5
      <4>10. "user" \in Threads BY DEF Threads
      <4>. QED BY <3>1, <4>3, <4>4, <4>5, <4>7, <4>8, <4>9, <4>10, QueueMore
    <3>. QED BY <3>2, <3>3
  <2>7. ASSUME NEW t \in Threads, Hangup(<<i, t>>) PROVE Queued(i)'
    <3>1. queue[i] = <<>> BY <2>7 DEF Hangup, Disconnected, Queued, Leaving
    <3>. QED BY <2>7, <3>1, QueueEmpty DEF Hangup
  <2>8. ASSUME NEW t \in Threads, Return(<<i, t>>) PROVE Queued(i)'
    BY <2>2, <2>8 DEF Return
  <2>9. ASSUME NEW t \in Threads,
               Complete(<<i, t>>) \/ \E p \in 1..bounds.percent : Report(<<i, t>>, p)
        PROVE Queued(i)'
    <3>1. /\ at[<<i, t>>] = "idle" /\ UNCHANGED queue
          /\ \E c : op' = [op EXCEPT ![<<i, t>>] = c]
          /\ at' = at \/ at' = [at EXCEPT ![<<i, t>>] = "send"]
      BY <2>9 DEF Complete, Report, Enter
    <3>2. at = [at EXCEPT ![<<i, t>>] = "idle"] BY <3>1 DEF Calls
    <3>3. \A u \in Threads : u # t => op'[<<i, u>>] = op[<<i, u>>] BY <3>1 DEF Calls
    <3>. QED BY <2>2, <3>1, <3>2, <3>3
  <2>. QED BY <1>3, <2>3, <2>4, <2>5, <2>6, <2>7, <2>8, <2>9 DEF User, InCall
<1>4. ASSUME NEW i \in Invocations, Worker(i) PROVE Queued(i)'
  <2>. Queued(i) BY DEF Queues
  <2>1. UNCHANGED op BY <1>4, QuietWorker
  <2>2. ASSUME UNCHANGED <<queue, at>>,
               worker[i] \notin Unstarted \cup Leaving => worker'[i] \notin Unstarted \cup Leaving
        PROVE Queued(i)'
    BY <2>1, <2>2, QueueKept
  <2>. USE DEF Goto, Unstarted, Leaving
  <2>3. CASE WorkerInit(i) BY <2>2, <2>3 DEF WorkerInit, reporter
  <2>4. CASE WorkerUnmarshal(i) BY <2>2, <2>4 DEF WorkerUnmarshal, reporter
  <2>5. CASE WorkerSpawn(i) BY <2>5, QueueEmpty DEF WorkerSpawn, Queued
  <2>6. CASE ServeUpdate(i) \/ ServeComplete(i)
    <3>1. /\ worker'[i] = "serve" /\ queue[i] # <<>> /\ queue'[i] = Tail(queue[i])
          /\ queue[i][1].kind # "done"
          /\ \E s : at' = [at EXCEPT ![<<i, queue[i][1].from>>] = s]
      BY <2>6 DEF ServeUpdate, ServeComplete, Serving, Take, Reply, Head1, workerServes
    <3>2. \A t \in Threads : t # queue[i][1].from => at'[<<i, t>>] = at[<<i, t>>]
      BY <3>1 DEF Calls
    <3>. QED BY <2>1, <3>1, <3>2, QueueLess
  <2>7. CASE ServeDone(i)
    <3>1. /\ worker'[i] \in {"join", "terminal"} /\ queue[i] # <<>>
          /\ queue'[i] = Tail(queue[i]) /\ UNCHANGED at
      BY <2>7 DEF ServeDone, Serving, Take, AfterDone
    <3>. QED BY <2>1, <3>1, QueueLess
  <2>8. CASE Terminal(i) BY <2>2, <2>8 DEF Terminal, TerminalRetry
  <2>9. CASE WorkerJoin(i) BY <2>9, QueueEmpty DEF WorkerJoin
  <2>10. CASE WorkerGuard(i) BY <2>2, <2>10 DEF WorkerGuard, reporter
  <2>11. CASE WorkerExit(i) BY <2>2, <2>11 DEF WorkerExit, reporter
  <2>. QED BY <1>4, <2>3, <2>4, <2>5, <2>6, <2>7, <2>8, <2>9, <2>10, <2>11 DEF Worker
<1>5. ASSUME NEW i \in Invocations, Start(i) \/ Starter(i) \/ Worker(i) \/ User(i)
      PROVE Queues'
  <2>1. ASSUME NEW j \in Invocations, j # i PROVE Queued(j)'
    <3>1. /\ worker'[j] = worker[j] /\ queue'[j] = queue[j]
          /\ \A t \in Threads : at'[<<j, t>>] = at[<<j, t>>] /\ op'[<<j, t>>] = op[<<j, t>>]
      BY <1>5, <2>1, Elsewhere
    <3>2. Queued(j) /\ "user" \in Threads BY DEF Queues, Threads
    <3>. QED BY <3>1, <3>2, QueueKept
  <2>. QED BY <1>2, <1>3, <1>4, <1>5, <2>1 DEF Queues
<1>. QED BY <1>1, <1>5 DEF Next, Step

(* One reporter of an invocation is in a call at a time.                     *)
LEMMA OneCall ==
    ASSUME Held, NEW i \in Invocations, NEW t \in Threads, NEW u \in Threads,
           at[<<i, t>>] \in Waiting \cup Answered, at[<<i, u>>] \in Waiting \cup Answered
    PROVE t = u
<1>1. holder[i] = t /\ holder[i] = u BY DEF Held
<1>. QED BY <1>1

(* Steps that touch neither the completion nor a call that matters to it.    *)
LEMMA CompletingKept ==
    ASSUME NEW i \in Invocations, Completing(i),
           worker'[i] = worker[i], completed'[i] = completed[i],
           native'[i].acks = native[i].acks, native'[i].failures = native[i].failures,
           overtaken'[i] = overtaken[i],
           \A t \in Threads :
               /\ at'[<<i, t>>] \in Waiting =>
                     at[<<i, t>>] \in Waiting /\ op'[<<i, t>>].kind = op[<<i, t>>].kind
               /\ at'[<<i, t>>] = "err" =>
                     \/ at[<<i, t>>] = "err" /\ op'[<<i, t>>].kind = op[<<i, t>>].kind
                     \/ at[<<i, t>>] \in Waiting
               /\ at[<<i, t>>] \in Waiting /\ op[<<i, t>>].kind = "complete" =>
                     at'[<<i, t>>] \in Waiting
    PROVE Completing(i)'
BY DEF Completing

(* Behind the loop only the terminal notification matters.                   *)
LEMMA CompletingOver ==
    ASSUME NEW i \in Invocations, Completing(i), worker[i] \notin Unstarted \cup {"serve"},
           worker'[i] = worker[i], overtaken'[i] = overtaken[i],
           native'[i].acks = native[i].acks, native'[i].failures = native[i].failures
    PROVE Completing(i)'
BY DEF Completing

LEMMA UserCompleting ==
    ASSUME TypeOK, Users, Held, NEW i \in Invocations, Completing(i),
           native[i].acks \in {0, 1}, User(i)
    PROVE Completing(i)'
<1>. /\ at \in [Calls -> CallStates] /\ op \in [Calls -> Operations]
     /\ completed \in [Invocations -> BOOLEAN]
  BY DEF TypeOK
<1>1. UNCHANGED <<worker, native, overtaken>> BY QuietUser
<1>2. PICK t \in Threads, s \in CallStates :
         at' = [at EXCEPT ![<<i, t>>] = s] /\ at[<<i, t>>] # "absent"
  BY UserMoves
<1>3. worker[i] \notin Unstarted BY <1>2 DEF Users
<1>4. CASE worker[i] # "serve" BY <1>1, <1>3, <1>4, CompletingOver
<1>5. CASE worker[i] = "serve"
  <2>. ~Disconnected(i) BY <1>5 DEF Disconnected
  <2>1. ASSUME NEW u \in Threads, NEW r, at' = [at EXCEPT ![<<i, u>>] = r],
               r \notin Waiting \cup Answered, at[<<i, u>>] \notin Waiting,
               UNCHANGED completed,
               \A v \in Threads : v # u => op'[<<i, v>>] = op[<<i, v>>]
        PROVE Completing(i)'
    <3>1. /\ at'[<<i, u>>] = r
          /\ \A v \in Threads : v # u => at'[<<i, v>>] = at[<<i, v>>]
      BY <2>1 DEF Calls
    <3>. QED BY <1>1, <2>1, <3>1, CompletingKept DEF Waiting, Answered
  <2>. USE DEF Waiting, Answered
  <2>2. CASE RunReturns(i) BY <2>1, <2>2 DEF RunReturns, Threads
  <2>3. CASE SendDone(i) BY <2>1, <2>3 DEF SendDone, Threads
  <2>4. CASE HelperDrops(i) BY <2>1, <2>4 DEF HelperDrops, Threads
  <2>5. ASSUME NEW u \in Threads, Send(<<i, u>>) PROVE Completing(i)'
    <3>1. /\ at[<<i, u>>] = "send" /\ at' = [at EXCEPT ![<<i, u>>] = "wait"]
          /\ UNCHANGED <<op, completed>>
      BY <2>5 DEF Send
    <3>2. /\ at'[<<i, u>>] = "wait"
          /\ \A v \in Threads : v # u => at'[<<i, v>>] = at[<<i, v>>]
      BY <3>1 DEF Calls
    <3>. QED BY <1>1, <3>1, <3>2, CompletingKept
  <2>6. ASSUME NEW u \in Threads, Hangup(<<i, u>>) PROVE Completing(i)'
    BY <2>6 DEF Hangup
  <2>7. ASSUME NEW u \in Threads, Return(<<i, u>>) PROVE Completing(i)'
    <3>1. /\ at[<<i, u>>] \in Answered /\ at' = [at EXCEPT ![<<i, u>>] = "idle"] /\ UNCHANGED op
          /\ completed' = IF at[<<i, u>>] = "err" /\ op[<<i, u>>].kind = "complete"
                          THEN [completed EXCEPT ![i] = FALSE] ELSE completed
      BY <2>7 DEF Return
    <3>2. CASE UNCHANGED completed BY <2>1, <3>1, <3>2
    <3>3. CASE /\ at[<<i, u>>] = "err" /\ op[<<i, u>>].kind = "complete"
               /\ completed' = [completed EXCEPT ![i] = FALSE]
      <4>1. native[i].acks = 0 BY <1>5, <3>3 DEF Completing
      <4>2. \A v \in Threads : at'[<<i, v>>] \notin Waiting \cup Answered
        <5>. SUFFICES ASSUME NEW v \in Threads, at'[<<i, v>>] \in Waiting \cup Answered
                      PROVE FALSE
          OBVIOUS
        <5>1. v # u BY <3>1 DEF Calls
        <5>2. at[<<i, v>>] \in Waiting \cup Answered BY <3>1, <5>1 DEF Calls
        <5>. QED BY <3>1, <5>1, <5>2, OneCall
      <4>. QED BY <1>1, <1>5, <3>3, <4>1, <4>2 DEF Completing, Unstarted
    <3>. QED BY <3>1, <3>2, <3>3
  <2>8. ASSUME NEW u \in Threads, NEW c, at[<<i, u>>] = "idle",
               op' = [op EXCEPT ![<<i, u>>] = c], UNCHANGED <<at, completed>>
        PROVE Completing(i)'
    <3>1. \A v \in Threads : v # u => op'[<<i, v>>] = op[<<i, v>>] BY <2>8 DEF Calls
    <3>. QED BY <1>1, <2>8, <3>1, CompletingKept
  <2>9. ASSUME NEW u \in Threads, NEW c, at[<<i, u>>] = "idle",
               op' = [op EXCEPT ![<<i, u>>] = c], at' = [at EXCEPT ![<<i, u>>] = "send"],
               ~completed[i], completed'[i] <=> c.kind = "complete", holder[i] = Nobody
        PROVE Completing(i)'
    <3>1. op'[<<i, u>>] = c /\ at'[<<i, u>>] = "send" BY <2>9 DEF Calls
    <3>2. native[i].acks = 0 BY <1>5, <2>9 DEF Completing
    <3>3. \A v \in Threads : v # u => at'[<<i, v>>] \notin Waiting \cup Answered
      <4>. SUFFICES ASSUME NEW v \in Threads, v # u PROVE at'[<<i, v>>] \notin Waiting \cup Answered
        OBVIOUS
      <4>1. at'[<<i, v>>] = at[<<i, v>>] BY <2>9 DEF Calls
      <4>2. at[<<i, v>>] \notin Waiting \cup Answered BY <2>9 DEF Held, Nobody, Threads
      <4>. QED BY <4>1, <4>2
    <3>4. native'[i].acks = 0 /\ native'[i].failures = 0
      BY <1>1, <1>5, <3>2 DEF Completing
    <3>. QED BY <1>1, <1>5, <2>9, <3>1, <3>3, <3>4 DEF Completing, Unstarted
  <2>10. ASSUME NEW u \in Threads, NEW p, Report(<<i, u>>, p) PROVE Completing(i)'
    <3>1. /\ at[<<i, u>>] = "idle" /\ holder[i] = Nobody /\ UNCHANGED completed
          /\ op' = [op EXCEPT ![<<i, u>>] = [kind |-> "update", percent |-> p]]
      BY <2>10 DEF Report, Enter, Locked
    <3>2. \/ UNCHANGED at
          \/ ~completed[i] /\ at' = [at EXCEPT ![<<i, u>>] = "send"]
      BY <2>10 DEF Report
    <3>3. CASE UNCHANGED at BY <2>8, <3>1, <3>3
    <3>4. CASE ~completed[i] /\ at' = [at EXCEPT ![<<i, u>>] = "send"]
      <4>1. PICK c : c = [kind |-> "update", percent |-> p] OBVIOUS
      <4>2. c.kind # "complete" BY <4>1
      <4>. QED BY <2>9, <3>1, <3>4, <4>1, <4>2
    <3>. QED BY <3>2, <3>3, <3>4
  <2>11. ASSUME NEW u \in Threads, Complete(<<i, u>>) PROVE Completing(i)'
    <3>1. /\ at[<<i, u>>] = "idle" /\ holder[i] = Nobody
          /\ completed' = [completed EXCEPT ![i] = TRUE]
          /\ op' = [op EXCEPT ![<<i, u>>] = [kind |-> "complete", percent |-> 0]]
      BY <2>11 DEF Complete, Enter, Locked
    <3>2. CASE completed[i]
      <4>1. UNCHANGED <<at, completed>> BY <2>11, <3>1, <3>2 DEF Complete
      <4>. QED BY <2>8, <3>1, <4>1
    <3>3. CASE ~completed[i]
      <4>1. at' = [at EXCEPT ![<<i, u>>] = "send"] BY <2>11, <3>3 DEF Complete
      <4>2. PICK c : c = [kind |-> "complete", percent |-> 0] OBVIOUS
      <4>3. c.kind = "complete" /\ completed'[i] BY <3>1, <4>2
      <4>. QED BY <2>9, <3>1, <3>3, <4>1, <4>2, <4>3
    <3>. QED BY <3>2, <3>3
  <2>. QED BY <2>2, <2>3, <2>4, <2>5, <2>6, <2>7, <2>10, <2>11 DEF User, InCall
<1>. QED BY <1>4, <1>5

(* Nobody waits beside the call that is answered.                            *)
LEMMA WaitsAlone ==
    ASSUME Held, NEW i \in Invocations, NEW t \in Threads, at[<<i, t>>] = "wait",
           at \in [Calls -> CallStates], NEW s \in Answered,
           at' = [at EXCEPT ![<<i, t>>] = s]
    PROVE /\ at'[<<i, t>>] = s
          /\ \A u \in Threads : u # t => at'[<<i, u>>] \notin Waiting \cup Answered
<1>1. at'[<<i, t>>] = s /\ at[<<i, t>>] \in Waiting \cup Answered BY DEF Calls, Waiting
<1>2. ASSUME NEW u \in Threads, u # t PROVE at'[<<i, u>>] \notin Waiting \cup Answered
  <2>1. at'[<<i, u>>] = at[<<i, u>>] BY <1>2 DEF Calls
  <2>. QED BY <1>1, <1>2, <2>1, OneCall
<1>. QED BY <1>1, <1>2

LEMMA WorkerCompleting ==
    ASSUME TypeOK, Users, Held, Queues, NEW i \in Invocations, Completing(i),
           native[i].acks \in {0, 1}, Worker(i)
    PROVE native'[i].acks \in {0, 1} /\ Completing(i)'
<1>. /\ at \in [Calls -> CallStates] /\ op \in [Calls -> Operations]
     /\ completed \in [Invocations -> BOOLEAN] /\ worker \in [Invocations -> WorkerStates]
     /\ overtaken \in [Invocations -> BOOLEAN]
     /\ native \in [Invocations -> [acks : Nat, failures : Nat, percent : Nat]]
  BY DEF TypeOK
<1>1. UNCHANGED op BY QuietWorker
<1>. USE DEF Goto, Unstarted
<1>2. CASE WorkerInit(i) BY <1>2 DEF WorkerInit, reporter, Completing
<1>3. CASE WorkerUnmarshal(i) BY <1>3 DEF WorkerUnmarshal, reporter, Completing
<1>4. CASE WorkerSpawn(i)
  <2>1. /\ worker[i] = "spawn" /\ worker'[i] \in {"serve", "terminal"}
        /\ UNCHANGED <<completed, native, overtaken>>
    BY <1>4 DEF WorkerSpawn
  <2>2. \A t \in Threads : at'[<<i, t>>] \in {"idle", "absent"}
    BY <1>4 DEF WorkerSpawn, Users, Calls
  <2>. QED BY <2>1, <2>2 DEF Completing, Waiting
<1>5. CASE ServeUpdate(i)
  <2>1. PICK t \in Threads, s \in Answered :
           /\ at' = [at EXCEPT ![<<i, t>>] = s] /\ at[<<i, t>>] = "wait"
           /\ op[<<i, t>>].kind = "update"
    <3>1. Serving(i, "update") BY <1>5 DEF ServeUpdate
    <3>2. PICK t : t = Head1(i).from OBVIOUS
    <3>3. /\ t \in Threads /\ at[<<i, t>>] = "wait"
          /\ op[<<i, t>>] = [kind |-> "update", percent |-> Head1(i).percent]
      BY <3>1, <3>2, Answering
    <3>4. op[<<i, t>>].kind = "update" BY <3>3
    <3>5. \E s \in Answered : at' = [at EXCEPT ![<<i, t>>] = s]
      BY <1>5, <3>2 DEF ServeUpdate, Reply, Answered
    <3>. QED BY <3>3, <3>4, <3>5
  <2>2. /\ at'[<<i, t>>] = s
        /\ \A u \in Threads : u # t => at'[<<i, u>>] = at[<<i, u>>]
    BY <2>1 DEF Calls
  <2>3. /\ UNCHANGED <<worker, completed, overtaken>>
        /\ native'[i].acks = native[i].acks /\ native'[i].failures = native[i].failures
    BY <1>5 DEF ServeUpdate
  <2>4. \A u \in Threads : at'[<<i, u>>] = "err" =>
           at[<<i, u>>] = "err" \/ at[<<i, u>>] \in Waiting
    BY <2>1, <2>2 DEF Waiting
  <2>5. \A u \in Threads : at'[<<i, u>>] \in Waiting => at[<<i, u>>] \in Waiting
    BY <2>1, <2>2 DEF Waiting, Answered
  <2>6. \A u \in Threads : at[<<i, u>>] \in Waiting /\ op[<<i, u>>].kind = "complete" =>
           at'[<<i, u>>] \in Waiting
    BY <2>1, <2>2
  <2>. QED BY <1>1, <2>3, <2>4, <2>5, <2>6, CompletingKept
<1>6. CASE ServeComplete(i)
  <2>1. PICK t \in Threads : at[<<i, t>>] = "wait" /\ op[<<i, t>>].kind = "complete"
                             /\ t = Head1(i).from
    <3>1. Serving(i, "complete") BY <1>6 DEF ServeComplete
    <3>2. PICK t : t = Head1(i).from OBVIOUS
    <3>3. /\ t \in Threads /\ at[<<i, t>>] = "wait"
          /\ op[<<i, t>>] = [kind |-> "complete", percent |-> Head1(i).percent]
      BY <3>1, <3>2, Answering
    <3>4. op[<<i, t>>].kind = "complete" BY <3>3
    <3>. QED BY <3>2, <3>3, <3>4
  <2>2. worker[i] = "serve" /\ UNCHANGED <<worker, overtaken>>
    BY <1>6 DEF ServeComplete, Serving
  <2>3. native[i].acks = 0 /\ completed[i]
    BY <2>1, <2>2 DEF Completing, Waiting
  <2>4. CASE /\ at' = [at EXCEPT ![<<i, t>>] = "err"] /\ UNCHANGED native
             /\ completed' = [completed EXCEPT ![i] = FALSE]
    <3>1. \A u \in Threads : at'[<<i, u>>] \notin Waiting
      BY <2>1, <2>4, WaitsAlone DEF Waiting, Answered
    <3>. QED BY <1>1, <2>2, <2>3, <2>4, <3>1 DEF Completing
  <2>5. CASE /\ at' = [at EXCEPT ![<<i, t>>] = "ok"] /\ UNCHANGED completed
             /\ native' = [native EXCEPT ![i].acks = @ + 1]
    <3>1. /\ \A u \in Threads : at'[<<i, u>>] \notin Waiting
          /\ \A u \in Threads : at'[<<i, u>>] # "err"
      BY <2>1, <2>5, WaitsAlone DEF Waiting, Answered
    <3>2. native'[i].acks = 1 /\ native'[i].failures = native[i].failures BY <2>3, <2>5
    <3>. QED BY <1>1, <2>2, <2>3, <2>5, <3>1, <3>2 DEF Completing
  <2>. QED BY <1>6, <2>1, <2>4, <2>5 DEF ServeComplete, Reply
<1>7. CASE ServeDone(i)
  <2>1. /\ worker[i] = "serve" /\ worker' = [worker EXCEPT ![i] = AfterDone(i)]
        /\ completed' = [completed EXCEPT ![i] = TRUE] /\ UNCHANGED <<at, native>>
        /\ queue[i] # <<>> /\ queue[i][1].kind = "done"
        /\ overtaken'[i] = (at[<<i, "helper">>] \in {"send", "wait"}
                              /\ op[<<i, "helper">>].kind = "complete")
    BY <1>7 DEF ServeDone, Serving, Head1
  <2>2. CASE ~completed[i]
    <3>1. worker'[i] = "terminal" BY <2>1, <2>2 DEF AfterDone
    <3>2. native[i].acks = 0 /\ native[i].failures = 0 BY <2>1, <2>2 DEF Completing
    <3>. QED BY <2>1, <3>1, <3>2 DEF Completing
  <2>3. CASE completed[i]
    <3>1. worker'[i] = "join" BY <2>1, <2>3 DEF AfterDone
    <3>2. at[<<i, "user">>] = "gone"
      <4>1. queue[i] \in Seq(Commands) BY DEF TypeOK
      <4>2. 1 \in 1..Len(queue[i]) BY <2>1, <4>1
      <4>3. PICK c : c = queue[i][1] OBVIOUS
      <4>4. Sent(i, c) BY <4>2, <4>3 DEF Queues, Queued
      <4>. QED BY <2>1, <4>3, <4>4 DEF Sent
    <3>3. native[i].acks = 1 \/ overtaken'[i]
      <4>. SUFFICES ASSUME native[i].acks = 0 PROVE overtaken'[i] OBVIOUS
      <4>1. PICK t \in Threads : at[<<i, t>>] \in Waiting /\ op[<<i, t>>].kind = "complete"
        BY <2>1, <2>3 DEF Completing
      <4>2. t = "helper" BY <3>2, <4>1 DEF Threads, Waiting
      <4>. QED BY <2>1, <4>1, <4>2 DEF Waiting
    <3>. QED BY <2>1, <3>1, <3>3 DEF Completing
  <2>. QED BY <2>2, <2>3
<1>8. CASE Terminal(i)
  <2>1. native[i].acks = 0 BY <1>8 DEF Terminal, Completing
  <2>2. CASE worker' = [worker EXCEPT ![i] = "join"] /\ native' = [native EXCEPT ![i].acks = @ + 1]
    BY <2>1, <2>2 DEF Completing
  <2>3. CASE /\ worker[i] = "terminal" /\ worker' = [worker EXCEPT ![i] = "terminal_again"]
             /\ native' = [native EXCEPT ![i].failures = @ + 1]
    BY <2>1, <2>3 DEF Completing
  <2>4. CASE /\ worker[i] = "terminal_again" /\ worker' = [worker EXCEPT ![i] = "join"]
             /\ native' = [native EXCEPT ![i].failures = @ + 1]
    BY <2>1, <2>4 DEF Completing
  <2>. QED BY <1>8, <2>2, <2>3, <2>4 DEF Terminal, TerminalRetry
<1>9. CASE WorkerJoin(i) BY <1>9 DEF WorkerJoin, Completing
<1>10. CASE WorkerGuard(i) BY <1>10 DEF WorkerGuard, reporter, Completing
<1>11. CASE WorkerExit(i) BY <1>11 DEF WorkerExit, reporter, Completing
<1>. QED BY <1>2, <1>3, <1>4, <1>5, <1>6, <1>7, <1>8, <1>9, <1>10, <1>11 DEF Worker

LEMMA CompletionsHold ==
    ASSUME TypeOK, Packets, Users, Held, Queues, Completions, Next PROVE Completions'
<1>1. CASE Module
  <2>1. UNCHANGED <<worker, completed, native, overtaken, at, op>> BY <1>1, QuietModule
  <2>2. ASSUME NEW i \in Invocations PROVE native'[i].acks \in {0, 1} /\ Completing(i)'
    BY <2>1, CompletingKept DEF Completions
  <2>. QED BY <2>2 DEF Completions
<1>2. ASSUME NEW i \in Invocations, Start(i) \/ Starter(i)
      PROVE native'[i].acks \in {0, 1} /\ Completing(i)'
  <2>1. UNCHANGED <<completed, native, overtaken, at, op>> BY <1>2, QuietStart
  <2>2. \/ worker' = worker
        \/ worker[i] = "none" /\ worker'[i] = "init"
    <3>. worker \in [Invocations -> WorkerStates] BY DEF TypeOK
    <3>1. CASE Start(i) BY <3>1 DEF Start
    <3>2. CASE StartPrepare(i) BY <3>2 DEF StartPrepare
    <3>3. CASE StartSpawn(i) BY <3>3 DEF StartSpawn, Packets
    <3>4. CASE StartAwait(i) BY <3>4 DEF StartAwait
    <3>5. CASE StartJoin(i) BY <3>5 DEF StartJoin
    <3>. QED BY <1>2, <3>1, <3>2, <3>3, <3>4, <3>5 DEF Starter
  <2>3. native[i].acks \in {0, 1} /\ Completing(i) BY DEF Completions
  <2>4. CASE UNCHANGED worker BY <2>1, <2>3, <2>4, CompletingKept
  <2>5. CASE worker[i] = "none" /\ worker'[i] = "init"
    BY <2>1, <2>3, <2>5 DEF Completing, Unstarted
  <2>. QED BY <2>2, <2>4, <2>5
<1>3. ASSUME NEW i \in Invocations, Start(i) \/ Starter(i) \/ Worker(i) \/ User(i)
      PROVE Completions'
  <2>1. ASSUME NEW j \in Invocations, j # i PROVE native'[j].acks \in {0, 1} /\ Completing(j)'
    <3>1. native[j].acks \in {0, 1} /\ Completing(j) BY DEF Completions
    <3>2. /\ worker'[j] = worker[j] /\ completed'[j] = completed[j] /\ native'[j] = native[j]
          /\ overtaken'[j] = overtaken[j]
          /\ \A t \in Threads : at'[<<j, t>>] = at[<<j, t>>] /\ op'[<<j, t>>] = op[<<j, t>>]
      BY <1>3, <2>1, Elsewhere
    <3>. QED BY <3>1, <3>2, CompletingKept
  <2>2. native[i].acks \in {0, 1} /\ Completing(i) BY DEF Completions
  <2>3. CASE User(i)
    <3>1. UNCHANGED native BY <2>3, QuietUser
    <3>. QED BY <2>1, <2>2, <2>3, <3>1, UserCompleting DEF Completions
  <2>4. CASE Worker(i) BY <2>1, <2>2, <2>4, WorkerCompleting DEF Completions
  <2>. QED BY <1>2, <1>3, <2>1, <2>3, <2>4 DEF Completions
<1>. QED BY <1>1, <1>3 DEF Next, Step

(* A step that moves one reporter, and no percentage of the scheduler's.     *)
LEMMA ProgressingMoved ==
    ASSUME NEW i \in Invocations, NEW t \in Threads, Progressing(i),
           progress'[i] = progress[i], native'[i].percent = native[i].percent,
           at[<<i, t>>] # "ok",
           \A u \in Threads : u # t =>
               at'[<<i, u>>] = at[<<i, u>>] /\ op'[<<i, u>>] = op[<<i, u>>],
           at'[<<i, t>>] \in Waiting /\ op'[<<i, t>>].kind = "update" =>
               op'[<<i, t>>].percent > progress[i]
    PROVE Progressing(i)'
<1>1. ASSUME NEW u \in Threads, at'[<<i, u>>] \in Waiting, op'[<<i, u>>].kind = "update"
      PROVE op'[<<i, u>>].percent > progress'[i]
  <2>1. CASE u = t BY <1>1, <2>1
  <2>2. CASE u # t
    <3>1. at[<<i, u>>] \in Waiting /\ op[<<i, u>>].kind = "update" BY <1>1, <2>2
    <3>2. op[<<i, u>>].percent > progress[i] BY <3>1 DEF Progressing
    <3>. QED BY <2>2, <3>2
  <2>. QED BY <2>1, <2>2
<1>2. \/ native'[i].percent <= progress'[i]
      \/ \E u \in Threads :
            /\ at'[<<i, u>>] = "ok" /\ op'[<<i, u>>].kind = "update"
            /\ op'[<<i, u>>].percent = native'[i].percent
  <2>1. CASE native[i].percent <= progress[i] BY <2>1
  <2>2. ASSUME NEW u \in Threads, at[<<i, u>>] = "ok", op[<<i, u>>].kind = "update",
               op[<<i, u>>].percent = native[i].percent
        PROVE \E v \in Threads :
                 /\ at'[<<i, v>>] = "ok" /\ op'[<<i, v>>].kind = "update"
                 /\ op'[<<i, v>>].percent = native'[i].percent
    <3>1. u # t BY <2>2
    <3>2. at'[<<i, u>>] = at[<<i, u>>] /\ op'[<<i, u>>] = op[<<i, u>>] BY <3>1
    <3>. WITNESS u \in Threads
    <3>. QED BY <2>2, <3>2
  <2>. QED BY <2>1, <2>2 DEF Progressing
<1>. QED BY <1>1, <1>2 DEF Progressing

LEMMA ProgressingKept ==
    ASSUME NEW i \in Invocations, Progressing(i),
           progress'[i] = progress[i], native'[i].percent = native[i].percent,
           \A t \in Threads : at'[<<i, t>>] = at[<<i, t>>] /\ op'[<<i, t>>] = op[<<i, t>>]
    PROVE Progressing(i)'
BY DEF Progressing

LEMMA UserProgressing ==
    ASSUME TypeOK, Held, NEW i \in Invocations, Progressing(i), User(i)
    PROVE Progressing(i)'
<1>. /\ at \in [Calls -> CallStates] /\ op \in [Calls -> Operations]
     /\ progress \in [Invocations -> 0..bounds.percent] /\ bounds.percent \in Nat
     /\ native \in [Invocations -> [acks : Nat, failures : Nat, percent : Nat]]
  BY BoundsAssumption DEF TypeOK
<1>. USE DEF Waiting, Answered
<1>1. UNCHANGED native BY QuietUser
<1>2. ASSUME NEW t \in Threads, NEW s, at' = [at EXCEPT ![<<i, t>>] = s],
             UNCHANGED <<op, progress>>, at[<<i, t>>] # "ok",
             s \in Waiting => at[<<i, t>>] \in Waiting
      PROVE Progressing(i)'
  <2>1. /\ at'[<<i, t>>] = s
        /\ \A u \in Threads : u # t => at'[<<i, u>>] = at[<<i, u>>]
    BY <1>2 DEF Calls
  <2>2. at'[<<i, t>>] \in Waiting /\ op'[<<i, t>>].kind = "update" =>
           op'[<<i, t>>].percent > progress[i]
    BY <1>2, <2>1 DEF Progressing
  <2>. QED BY <1>1, <1>2, <2>1, <2>2, ProgressingMoved
<1>3. CASE RunReturns(i) BY <1>2, <1>3 DEF RunReturns, Threads
<1>4. CASE SendDone(i) BY <1>2, <1>4 DEF SendDone, Threads
<1>5. CASE HelperDrops(i) BY <1>2, <1>5 DEF HelperDrops, Threads
<1>6. ASSUME NEW t \in Threads, Send(<<i, t>>) \/ Hangup(<<i, t>>) PROVE Progressing(i)'
  <2>1. CASE Hangup(<<i, t>>) BY <1>2, <2>1 DEF Hangup
  <2>2. CASE Send(<<i, t>>)
    <3>1. at[<<i, t>>] = "send" /\ UNCHANGED <<op, progress>> BY <2>2 DEF Send
    <3>2. \E s : at' = [at EXCEPT ![<<i, t>>] = s] BY <2>2 DEF Send
    <3>. QED BY <1>2, <3>1, <3>2
  <2>. QED BY <1>6, <2>1, <2>2
<1>7. ASSUME NEW t \in Threads, Return(<<i, t>>) PROVE Progressing(i)'
  <2>1. /\ at[<<i, t>>] \in Answered /\ at' = [at EXCEPT ![<<i, t>>] = "idle"] /\ UNCHANGED op
        /\ progress' = IF /\ at[<<i, t>>] = "ok" /\ op[<<i, t>>].kind = "update"
                          /\ op[<<i, t>>].percent > progress[i]
                       THEN [progress EXCEPT ![i] = op[<<i, t>>].percent] ELSE progress
    BY <1>7 DEF Return
  <2>2. \A u \in Threads : at'[<<i, u>>] \notin Waiting \cup Answered
    <3>. SUFFICES ASSUME NEW u \in Threads, at'[<<i, u>>] \in Waiting \cup Answered
                  PROVE FALSE
      OBVIOUS
    <3>1. u # t BY <2>1 DEF Calls
    <3>2. at[<<i, u>>] \in Waiting \cup Answered BY <2>1, <3>1 DEF Calls
    <3>. QED BY <2>1, <3>1, <3>2, OneCall
  <2>3. op[<<i, t>>].percent \in Nat /\ progress[i] \in Nat /\ native[i].percent \in Nat
    BY DEF Calls, Operations
  <2>4. \/ native[i].percent <= progress[i]
        \/ /\ at[<<i, t>>] = "ok" /\ op[<<i, t>>].kind = "update"
           /\ op[<<i, t>>].percent = native[i].percent
    <3>. SUFFICES ASSUME NEW u \in Threads, at[<<i, u>>] = "ok" PROVE u = t
      BY DEF Progressing
    <3>. QED BY <2>1, OneCall
  <2>5. native'[i].percent <= progress'[i]
    BY <1>1, <2>1, <2>3, <2>4
  <2>. QED BY <2>2, <2>5 DEF Progressing
<1>8. ASSUME NEW t \in Threads, NEW p \in 1..bounds.percent, Report(<<i, t>>, p)
      PROVE Progressing(i)'
  <2>1. /\ at[<<i, t>>] = "idle" /\ UNCHANGED progress
        /\ op' = [op EXCEPT ![<<i, t>>] = [kind |-> "update", percent |-> p]]
    BY <1>8 DEF Report, Enter
  <2>2. \/ UNCHANGED at
        \/ at' = [at EXCEPT ![<<i, t>>] = "send"] /\ ~(p <= progress[i])
    BY <1>8 DEF Report
  <2>3. \A u \in Threads : u # t =>
           at'[<<i, u>>] = at[<<i, u>>] /\ op'[<<i, u>>] = op[<<i, u>>]
    BY <2>1, <2>2 DEF Calls
  <2>4. op'[<<i, t>>].percent = p BY <2>1 DEF Calls
  <2>5. at'[<<i, t>>] \in Waiting => p > progress[i]
    <3>1. progress[i] \in Nat OBVIOUS
    <3>. QED BY <2>1, <2>2, <3>1
  <2>. QED BY <1>1, <2>1, <2>3, <2>4, <2>5, ProgressingMoved
<1>9. ASSUME NEW t \in Threads, Complete(<<i, t>>) PROVE Progressing(i)'
  <2>1. /\ at[<<i, t>>] = "idle" /\ UNCHANGED progress
        /\ op' = [op EXCEPT ![<<i, t>>] = [kind |-> "complete", percent |-> 0]]
    BY <1>9 DEF Complete, Enter
  <2>2. UNCHANGED at \/ at' = [at EXCEPT ![<<i, t>>] = "send"]
    BY <1>9 DEF Complete
  <2>3. \A u \in Threads : u # t =>
           at'[<<i, u>>] = at[<<i, u>>] /\ op'[<<i, u>>] = op[<<i, u>>]
    BY <2>1, <2>2 DEF Calls
  <2>4. op'[<<i, t>>].kind = "complete" BY <2>1 DEF Calls
  <2>. QED BY <1>1, <2>1, <2>3, <2>4, ProgressingMoved
<1>. QED BY <1>3, <1>4, <1>5, <1>6, <1>7, <1>8, <1>9 DEF User, InCall

LEMMA WorkerProgressing ==
    ASSUME TypeOK, Users, Held, Queues, NEW i \in Invocations, Progressing(i), Worker(i)
    PROVE Progressing(i)'
<1>. /\ at \in [Calls -> CallStates] /\ op \in [Calls -> Operations]
     /\ progress \in [Invocations -> 0..bounds.percent] /\ bounds.percent \in Nat
     /\ native \in [Invocations -> [acks : Nat, failures : Nat, percent : Nat]]
  BY BoundsAssumption DEF TypeOK
<1>1. UNCHANGED <<op, progress>> BY QuietWorker
<1>2. CASE WorkerSpawn(i)
  <2>1. \A t \in Threads : at[<<i, t>>] = "absent"
    BY <1>2 DEF WorkerSpawn, Users, Unstarted
  <2>2. native[i].percent <= progress[i] BY <2>1 DEF Progressing
  <2>3. \A t \in Threads : at'[<<i, t>>] \in {"absent", "idle"}
    BY <1>2, <2>1 DEF WorkerSpawn, Calls
  <2>4. UNCHANGED native BY <1>2 DEF WorkerSpawn
  <2>. QED BY <1>1, <2>2, <2>3, <2>4 DEF Progressing, Waiting
<1>3. CASE ServeUpdate(i)
  <2>1. PICK t : t = Head1(i).from OBVIOUS
  <2>2. Serving(i, "update") BY <1>3 DEF ServeUpdate
  <2>3. /\ t \in Threads /\ at[<<i, t>>] = "wait"
        /\ op[<<i, t>>] = [kind |-> "update", percent |-> Head1(i).percent]
    BY <2>1, <2>2, Answering
  <2>4. op[<<i, t>>].kind = "update" /\ op[<<i, t>>].percent = Head1(i).percent BY <2>3
  <2>5. CASE Reply(i, "err") /\ UNCHANGED native
    <3>1. /\ at'[<<i, t>>] = "err"
          /\ \A u \in Threads : u # t => at'[<<i, u>>] = at[<<i, u>>]
      BY <2>1, <2>3, <2>5 DEF Reply, Calls
    <3>. QED BY <1>1, <2>3, <2>5, <3>1, ProgressingMoved DEF Waiting
  <2>6. CASE /\ Reply(i, "ok")
             /\ native' = [native EXCEPT ![i].percent = Head1(i).percent]
    <3>1. at' = [at EXCEPT ![<<i, t>>] = "ok"] BY <2>1, <2>6 DEF Reply
    <3>2. /\ at'[<<i, t>>] = "ok"
          /\ \A u \in Threads : u # t => at'[<<i, u>>] \notin Waiting \cup Answered
      BY <2>3, <3>1, WaitsAlone DEF Answered
    <3>3. native'[i].percent = Head1(i).percent BY <2>6
    <3>. QED BY <1>1, <2>3, <2>4, <3>2, <3>3 DEF Progressing, Waiting
  <2>. QED BY <1>3, <2>5, <2>6 DEF ServeUpdate
<1>4. CASE ServeComplete(i)
  <2>1. PICK t : t = Head1(i).from OBVIOUS
  <2>2. Serving(i, "complete") BY <1>4 DEF ServeComplete
  <2>3. t \in Threads /\ at[<<i, t>>] = "wait" BY <2>1, <2>2, Answering
  <2>4. PICK s \in Answered : at' = [at EXCEPT ![<<i, t>>] = s]
    BY <1>4, <2>1 DEF ServeComplete, Reply, Answered
  <2>5. /\ at'[<<i, t>>] = s
        /\ \A u \in Threads : u # t => at'[<<i, u>>] = at[<<i, u>>]
    BY <2>3, <2>4 DEF Calls
  <2>6. native'[i].percent = native[i].percent BY <1>4 DEF ServeComplete
  <2>. QED BY <1>1, <2>3, <2>5, <2>6, ProgressingMoved DEF Waiting, Answered
<1>5. ASSUME UNCHANGED at, native'[i].percent = native[i].percent PROVE Progressing(i)'
  BY <1>1, <1>5, ProgressingKept
<1>6. CASE Terminal(i) BY <1>5, <1>6 DEF Terminal
<1>. QED BY <1>2, <1>3, <1>4, <1>5, <1>6
       DEF Worker, WorkerInit, WorkerUnmarshal, ServeDone, WorkerJoin, WorkerGuard, WorkerExit,
           reporter

LEMMA MovingHolds ==
    ASSUME TypeOK, Users, Held, Queues, Moving, Next PROVE Moving'
<1>1. CASE Module
  <2>1. UNCHANGED <<progress, native, at, op>> BY <1>1, QuietModule
  <2>. QED BY <2>1, ProgressingKept DEF Moving
<1>2. ASSUME NEW i \in Invocations, Start(i) \/ Starter(i) \/ Worker(i) \/ User(i),
             NEW j \in Invocations
      PROVE Progressing(j)'
  <2>1. Progressing(j) BY DEF Moving
  <2>2. CASE j # i
    <3>1. /\ progress'[j] = progress[j] /\ native'[j] = native[j]
          /\ \A t \in Threads : at'[<<j, t>>] = at[<<j, t>>] /\ op'[<<j, t>>] = op[<<j, t>>]
      BY <1>2, <2>2, Elsewhere
    <3>. QED BY <2>1, <3>1, ProgressingKept
  <2>3. CASE Start(i) \/ Starter(i)
    <3>1. UNCHANGED <<progress, native, at, op>> BY <2>3, QuietStart
    <3>. QED BY <2>1, <3>1, ProgressingKept
  <2>4. CASE j = i /\ Worker(i) BY <2>1, <2>4, WorkerProgressing
  <2>5. CASE j = i /\ User(i) BY <2>1, <2>5, UserProgressing
  <2>. QED BY <1>2, <2>2, <2>3, <2>4, <2>5
<1>. QED BY <1>1, <1>2 DEF Next, Step, Moving

-----------------------------------------------------------------------------
(* The types, by who takes the step.                                         *)

LEMMA BoundsTypes ==
    ASSUME TypeOK
    PROVE /\ bounds.starts \in 1..MaxStarts /\ bounds.faults \in Nat /\ bounds.calls \in Nat
          /\ bounds.percent \in Nat \ {0} /\ bounds.locks \in Nat
          /\ MaxStarts \in Nat
BY BoundsAssumption DEF TypeOK

LEMMA FaultTypes ==
    ASSUME TypeOK, Succeeds \/ Fails PROVE faults' \in 0..bounds.faults
<1>. faults \in 0..bounds.faults BY DEF TypeOK
<1>. QED BY BoundsTypes DEF Succeeds, Fails

LEMMA CountTypes == ASSUME Counts' PROVE workers' \in Nat /\ reporters' \in Nat
<1>1. IsFiniteSet(Invocations)
  BY FS_Interval, BoundsAssumption DEF Invocations
<1>2. Registered' \in SUBSET Invocations /\ Reporting' \in SUBSET Invocations
  BY DEF Registered, Reporting
<1>. QED BY <1>1, <1>2, FS_Subset, FS_CardinalityType DEF Counts

LEMMA ModuleTypes ==
    ASSUME TypeOK, Counts', Module, UNCHANGED bounds PROVE TypeOK'
<1>1. workers' \in Nat /\ reporters' \in Nat BY CountTypes
<1>2. UNCHANGED <<running, current, start, packet, disposals, worker, queue, completed,
                  progress, holder, at, op, native, overtaken>>
  BY QuietModule
<1>3. UNCHANGED <<calls, faults>>
  BY DEF Module, Stop, Pause, Resume, Request, ReleaseObject, LockServer, CanUnload,
         moduleUnchanged, counters, reporter
<1>4. objects' \subseteq {"factory", "handler"}
  BY DEF TypeOK, Module, Stop, Pause, Resume, Request, ReleaseObject, LockServer, CanUnload,
         moduleUnchanged, counters
<1>5. unload' \in {"idle", "read1", "read2", "read3", "unloaded"}
  <2>. unload \in {"idle", "read1", "read2", "read3", "unloaded"} BY DEF TypeOK
  <2>1. ASSUME NEW n \in 1..4, CanUnload(n)
        PROVE unload' \in {"idle", "read1", "read2", "read3", "unloaded"}
    BY <2>1 DEF CanUnload, Readings
  <2>. QED BY <2>1 DEF Module, Stop, Pause, Resume, Request, ReleaseObject, LockServer
<1>6. locks' \in 0..bounds.locks
  <2>. locks \in 0..bounds.locks /\ bounds.locks \in Nat BY BoundsTypes DEF TypeOK
  <2>1. ASSUME NEW lock \in BOOLEAN, LockServer(lock) PROVE locks' \in 0..bounds.locks
    BY <2>1 DEF LockServer
  <2>. QED BY <2>1 DEF Module, Stop, Pause, Resume, Request, ReleaseObject, CanUnload, counters
<1>7. control' \in [Invocations -> 0..2]
  <2>. control \in [Invocations -> 0..2] /\ current \in 0..bounds.starts
       /\ bounds.starts \in 1..MaxStarts /\ MaxStarts \in Nat
    BY BoundsTypes DEF TypeOK
  <2>1. ASSUME NEW state \in 0..2, Request(state) PROVE control' \in [Invocations -> 0..2]
    BY <2>1 DEF Request
  <2>2. CASE Stop BY <2>1, <2>2 DEF Stop
  <2>3. current # 0 => control[current] \in 0..2 BY DEF Invocations
  <2>4. CASE Pause
    <3>1. current # 0 BY <2>4 DEF Pause, Request
    <3>2. PausedState(control[current]) \in 0..2 BY <2>3, <3>1 DEF PausedState
    <3>. QED BY <2>1, <2>4, <3>2 DEF Pause
  <2>5. CASE Resume
    <3>1. current # 0 BY <2>5 DEF Resume, Request
    <3>2. ResumedState(control[current]) \in 0..2 BY <2>3, <3>1 DEF ResumedState
    <3>. QED BY <2>1, <2>5, <3>2 DEF Resume
  <2>. QED BY <2>2, <2>4, <2>5 DEF Module, ReleaseObject, LockServer, CanUnload, moduleUnchanged
<1>8. Operations' = Operations /\ Commands' = Commands BY DEF Operations, Commands
<1>. QED BY <1>1, <1>2, <1>3, <1>4, <1>5, <1>6, <1>7, <1>8 DEF TypeOK

LEMMA StartTypes ==
    ASSUME TypeOK, Counts', NEW i \in Invocations, Start(i) \/ Starter(i), UNCHANGED bounds
    PROVE TypeOK'
<1>1. workers' \in Nat /\ reporters' \in Nat BY CountTypes
<1>2. UNCHANGED <<objects, locks, queue, completed, progress, holder, at, op, calls, native,
                  overtaken, unload>>
  BY QuietStart
<1>3. UNCHANGED control
  BY DEF Start, Starter, StartPrepare, StartSpawn, StartAwait, StartJoin
<1>4. faults' \in 0..bounds.faults
  <2>1. Succeeds \/ Fails
    BY DEF Start, Starter, StartPrepare, StartSpawn, StartAwait, StartJoin, Succeeds
  <2>. QED BY <2>1, FaultTypes
<1>. /\ running \in BOOLEAN /\ current \in 0..bounds.starts /\ bounds.starts \in 1..MaxStarts
     /\ start \in [Invocations -> Starting \cup {"unused", "ok", "failed"}]
     /\ packet \in [Invocations -> {"none", "starter", "sent", "taken", "released"}]
     /\ disposals \in [Invocations -> Nat]
     /\ worker \in [Invocations -> WorkerStates]
  BY BoundsTypes DEF TypeOK
<1>5. /\ running' \in BOOLEAN /\ current' \in 0..bounds.starts
      /\ start' \in [Invocations -> Starting \cup {"unused", "ok", "failed"}]
      /\ packet' \in [Invocations -> {"none", "starter", "sent", "taken", "released"}]
      /\ disposals' \in [Invocations -> Nat]
      /\ worker' \in [Invocations -> WorkerStates]
  <2>. USE DEF Starting, WorkerStates
  <2>1. CASE Start(i) BY <2>1 DEF Start, Invocations
  <2>2. CASE StartPrepare(i) BY <2>2 DEF StartPrepare
  <2>. disposals[i] + 1 \in Nat OBVIOUS
  <2>3. CASE StartSpawn(i)
    <3>1. UNCHANGED current /\ running' \in BOOLEAN BY <2>3 DEF StartSpawn
    <3>2. start' \in [Invocations -> Starting \cup {"unused", "ok", "failed"}]
      BY <2>3 DEF StartSpawn
    <3>3. /\ packet' \in [Invocations -> {"none", "starter", "sent", "taken", "released"}]
          /\ disposals' \in [Invocations -> Nat]
      BY <2>3 DEF StartSpawn, ReleasePacket
    <3>4. worker' \in [Invocations -> WorkerStates] BY <2>3 DEF StartSpawn
    <3>. QED BY <3>1, <3>2, <3>3, <3>4
  <2>4. CASE StartAwait(i) BY <2>4 DEF StartAwait
  <2>5. CASE StartJoin(i) BY <2>5 DEF StartJoin, ReleasePacket
  <2>. QED BY <2>1, <2>2, <2>3, <2>4, <2>5 DEF Starter
<1>6. Operations' = Operations /\ Commands' = Commands BY DEF Operations, Commands
<1>. QED BY <1>1, <1>2, <1>3, <1>4, <1>5, <1>6 DEF TypeOK

LEMMA WorkerTypes ==
    ASSUME TypeOK, Queues, Counts', NEW i \in Invocations, Worker(i), UNCHANGED bounds
    PROVE TypeOK'
<1>1. workers' \in Nat /\ reporters' \in Nat BY CountTypes
<1>2. UNCHANGED <<objects, locks, current, control, start, unload, progress, holder, op, calls>>
  BY QuietWorker
<1>3. faults' \in 0..bounds.faults
  <2>1. Succeeds \/ Fails
    BY DEF Worker, WorkerInit, WorkerUnmarshal, WorkerSpawn, ServeUpdate, ServeComplete,
           ServeDone, Terminal, WorkerJoin, WorkerGuard, WorkerExit, Succeeds
  <2>. QED BY <2>1, FaultTypes
<1>. /\ running \in BOOLEAN
     /\ packet \in [Invocations -> {"none", "starter", "sent", "taken", "released"}]
     /\ disposals \in [Invocations -> Nat]
     /\ worker \in [Invocations -> WorkerStates]
     /\ queue \in [Invocations -> Seq(Commands)]
     /\ completed \in [Invocations -> BOOLEAN] /\ overtaken \in [Invocations -> BOOLEAN]
     /\ at \in [Calls -> CallStates]
     /\ native \in [Invocations -> [acks : Nat, failures : Nat, percent : Nat]]
  BY DEF TypeOK
<1>4. running' \in BOOLEAN /\ worker' \in [Invocations -> WorkerStates]
  BY DEF Worker, WorkerInit, WorkerUnmarshal, WorkerSpawn, ServeUpdate, ServeComplete,
         ServeDone, Terminal, WorkerJoin, WorkerGuard, WorkerExit, workerServes, Goto,
         AfterDone, TerminalRetry, WorkerStates
<1>5. /\ packet' \in [Invocations -> {"none", "starter", "sent", "taken", "released"}]
      /\ disposals' \in [Invocations -> Nat]
  <2>1. CASE WorkerUnmarshal(i)
    <3>1. disposals[i] + 1 \in Nat OBVIOUS
    <3>. QED BY <2>1, <3>1 DEF WorkerUnmarshal
  <2>2. CASE UNCHANGED <<packet, disposals>> BY <2>2
  <2>. QED BY <2>1, <2>2
         DEF Worker, WorkerInit, WorkerSpawn, ServeUpdate, ServeComplete, ServeDone, Terminal,
             WorkerJoin, WorkerGuard, WorkerExit, workerServes
<1>6. completed' \in [Invocations -> BOOLEAN] /\ overtaken' \in [Invocations -> BOOLEAN]
  BY DEF Worker, WorkerInit, WorkerUnmarshal, WorkerSpawn, ServeUpdate, ServeComplete,
         ServeDone, Terminal, WorkerJoin, WorkerGuard, WorkerExit, reporter
<1>7. queue' \in [Invocations -> Seq(Commands)]
  <2>1. ASSUME NEW kind, Serving(i, kind), Take(i)
        PROVE queue' \in [Invocations -> Seq(Commands)]
    <3>1. Tail(queue[i]) \in Seq(Commands) BY <2>1 DEF Serving
    <3>. QED BY <2>1, <3>1 DEF Take
  <2>2. <<>> \in Seq(Commands) OBVIOUS
  <2>3. CASE WorkerJoin(i) BY <2>2, <2>3 DEF WorkerJoin
  <2>. QED BY <2>1, <2>3
         DEF Worker, WorkerInit, WorkerUnmarshal, WorkerSpawn, ServeUpdate, ServeComplete,
             ServeDone, Terminal, WorkerGuard, WorkerExit
<1>8. at' \in [Calls -> CallStates]
  <2>1. CASE ServeUpdate(i) \/ ServeComplete(i)
    <3>1. PICK t \in Threads, s \in Answered : at' = [at EXCEPT ![<<i, t>>] = s]
      BY <2>1, AnswerMoves
    <3>. QED BY <3>1 DEF Answered, CallStates
  <2>2. CASE WorkerSpawn(i) BY <2>2 DEF WorkerSpawn, CallStates
  <2>3. CASE UNCHANGED at BY <2>3
  <2>. QED BY <2>1, <2>2, <2>3
         DEF Worker, WorkerInit, WorkerUnmarshal, ServeDone, Terminal, WorkerJoin, WorkerGuard,
             WorkerExit, reporter
<1>9. native' \in [Invocations -> [acks : Nat, failures : Nat, percent : Nat]]
  <2>1. CASE ServeUpdate(i)
    <3>1. Serving(i, "update") BY <2>1 DEF ServeUpdate
    <3>2. Head1(i).percent \in 0..bounds.percent /\ bounds.percent \in Nat
      BY <3>1, Answering, BoundsTypes
    <3>3. PICK p : p = Head1(i).percent OBVIOUS
    <3>4. native' = native \/ native' = [native EXCEPT ![i].percent = p]
      BY <2>1, <3>3 DEF ServeUpdate
    <3>5. [native[i] EXCEPT !.percent = p] \in [acks : Nat, failures : Nat, percent : Nat]
      <4>1. p \in Nat BY <3>2, <3>3
      <4>2. native[i] \in [acks : Nat, failures : Nat, percent : Nat] OBVIOUS
      <4>. QED BY <4>1, <4>2
    <3>. QED BY <3>4, <3>5
  <2>2. ASSUME \/ native' = [native EXCEPT ![i].acks = @ + 1]
               \/ native' = [native EXCEPT ![i].failures = @ + 1]
        PROVE native' \in [Invocations -> [acks : Nat, failures : Nat, percent : Nat]]
    <3>1. native[i].acks + 1 \in Nat /\ native[i].failures + 1 \in Nat OBVIOUS
    <3>2. /\ [native[i] EXCEPT !.acks = native[i].acks + 1]
                \in [acks : Nat, failures : Nat, percent : Nat]
          /\ [native[i] EXCEPT !.failures = native[i].failures + 1]
                \in [acks : Nat, failures : Nat, percent : Nat]
      BY <3>1
    <3>. QED BY <2>2, <3>2
  <2>3. \/ ~(Terminal(i) \/ ServeComplete(i))
        \/ UNCHANGED native
        \/ native' = [native EXCEPT ![i].acks = @ + 1]
        \/ native' = [native EXCEPT ![i].failures = @ + 1]
    BY DEF Terminal, ServeComplete
  <2>4. CASE UNCHANGED native BY <2>4
  <2>. QED BY <2>1, <2>2, <2>3, <2>4
         DEF Worker, WorkerInit, WorkerUnmarshal, WorkerSpawn, ServeDone, WorkerJoin,
             WorkerGuard, WorkerExit
<1>10. Operations' = Operations /\ Commands' = Commands BY DEF Operations, Commands
<1>. QED BY <1>1, <1>2, <1>3, <1>4, <1>5, <1>6, <1>7, <1>8, <1>9, <1>10 DEF TypeOK

LEMMA UserTypes ==
    ASSUME TypeOK, Called, Counts', NEW i \in Invocations, User(i), UNCHANGED bounds
    PROVE TypeOK'
<1>1. workers' \in Nat /\ reporters' \in Nat BY CountTypes
<1>2. UNCHANGED <<objects, locks, running, current, control, start, packet, disposals, worker,
                  native, overtaken, unload, faults>>
  BY QuietUser
<1>. /\ queue \in [Invocations -> Seq(Commands)]
     /\ completed \in [Invocations -> BOOLEAN]
     /\ progress \in [Invocations -> 0..bounds.percent]
     /\ holder \in [Invocations -> Threads \cup {Nobody}]
     /\ at \in [Calls -> CallStates] /\ op \in [Calls -> Operations]
     /\ calls \in [Calls -> 0..bounds.calls]
     /\ bounds.percent \in Nat /\ bounds.calls \in Nat
  BY BoundsTypes DEF TypeOK
<1>3. at' \in [Calls -> CallStates]
  <2>1. PICK t \in Threads, s \in CallStates : at' = [at EXCEPT ![<<i, t>>] = s] BY UserMoves
  <2>. QED BY <2>1
<1>4. Operations' = Operations /\ Commands' = Commands BY DEF Operations, Commands
<1>5. ASSUME NEW t \in Threads, Send(<<i, t>>) \/ Hangup(<<i, t>>)
      PROVE /\ queue' \in [Invocations -> Seq(Commands)]
            /\ UNCHANGED <<completed, progress, holder, op, calls>>
  <2>1. CASE Hangup(<<i, t>>) BY <2>1 DEF Hangup
  <2>2. CASE Send(<<i, t>>)
    <3>1. at[<<i, t>>] = "send" BY <2>2 DEF Send
    <3>2. op[<<i, t>>].kind # "none" BY <3>1 DEF Called, Waiting
    <3>3. op[<<i, t>>] \in Operations BY DEF Calls
    <3>4. [kind |-> op[<<i, t>>].kind, from |-> t, percent |-> op[<<i, t>>].percent] \in Commands
      BY <3>2, <3>3 DEF Operations, Commands
    <3>5. \/ UNCHANGED queue
          \/ queue' = [queue EXCEPT ![i] = Append(@, [kind |-> op[<<i, t>>].kind, from |-> t,
                                                      percent |-> op[<<i, t>>].percent])]
      BY <2>2 DEF Send
    <3>6. Append(queue[i], [kind |-> op[<<i, t>>].kind, from |-> t,
                            percent |-> op[<<i, t>>].percent]) \in Seq(Commands)
      BY <3>4
    <3>. QED BY <2>2, <3>5, <3>6 DEF Send
  <2>. QED BY <1>5, <2>1, <2>2
<1>6. ASSUME NEW t \in Threads, Return(<<i, t>>)
      PROVE /\ completed' \in [Invocations -> BOOLEAN]
            /\ progress' \in [Invocations -> 0..bounds.percent]
            /\ holder' \in [Invocations -> Threads \cup {Nobody}]
            /\ UNCHANGED <<queue, op, calls>>
  <2>1. op[<<i, t>>].percent \in 0..bounds.percent BY DEF Calls, Operations
  <2>. QED BY <1>6, <2>1 DEF Return
<1>7. ASSUME NEW t \in Threads, NEW c \in Operations, Enter(<<i, t>>, c)
      PROVE op' \in [Calls -> Operations] /\ calls' \in [Calls -> 0..bounds.calls]
  <2>1. calls[<<i, t>>] \in 0..bounds.calls /\ calls[<<i, t>>] < bounds.calls
    BY <1>7 DEF Enter, Calls
  <2>2. /\ calls' = [calls EXCEPT ![<<i, t>>] = calls[<<i, t>>] + 1]
        /\ op' = [op EXCEPT ![<<i, t>>] = c]
    BY <1>7 DEF Enter
  <2>3. calls[<<i, t>>] + 1 \in 0..bounds.calls BY <2>1
  <2>. QED BY <2>2, <2>3
<1>8. ASSUME NEW t \in Threads,
             Complete(<<i, t>>) \/ \E p \in 1..bounds.percent : Report(<<i, t>>, p)
      PROVE /\ completed' \in [Invocations -> BOOLEAN]
            /\ holder' \in [Invocations -> Threads \cup {Nobody}]
            /\ op' \in [Calls -> Operations] /\ calls' \in [Calls -> 0..bounds.calls]
            /\ UNCHANGED <<queue, progress>>
  <2>1. \E c \in Operations : Enter(<<i, t>>, c)
    <3>1. CASE Complete(<<i, t>>)
      <4>1. [kind |-> "complete", percent |-> 0] \in Operations BY DEF Operations
      <4>. QED BY <3>1, <4>1 DEF Complete
    <3>2. ASSUME NEW p \in 1..bounds.percent, Report(<<i, t>>, p)
          PROVE \E c \in Operations : Enter(<<i, t>>, c)
      <4>1. [kind |-> "update", percent |-> p] \in Operations BY DEF Operations
      <4>. QED BY <3>2, <4>1 DEF Report
    <3>. QED BY <1>8, <3>1, <3>2
  <2>2. op' \in [Calls -> Operations] /\ calls' \in [Calls -> 0..bounds.calls] BY <1>7, <2>1
  <2>3. UNCHANGED <<queue, progress>> BY <1>8 DEF Complete, Report
  <2>4. /\ completed' \in [Invocations -> BOOLEAN]
        /\ holder' \in [Invocations -> Threads \cup {Nobody}]
    BY <1>8 DEF Complete, Report
  <2>. QED BY <2>2, <2>3, <2>4
<1>9. ASSUME RunReturns(i) \/ SendDone(i) \/ HelperDrops(i)
      PROVE /\ queue' \in [Invocations -> Seq(Commands)]
            /\ UNCHANGED <<completed, progress, holder, op, calls>>
  <2>1. [kind |-> "done"] \in Commands BY DEF Commands
  <2>2. Append(queue[i], [kind |-> "done"]) \in Seq(Commands) BY <2>1
  <2>. QED BY <1>9, <2>2 DEF RunReturns, SendDone, HelperDrops
<1>10. /\ queue' \in [Invocations -> Seq(Commands)]
       /\ completed' \in [Invocations -> BOOLEAN]
       /\ progress' \in [Invocations -> 0..bounds.percent]
       /\ holder' \in [Invocations -> Threads \cup {Nobody}]
       /\ op' \in [Calls -> Operations] /\ calls' \in [Calls -> 0..bounds.calls]
  BY <1>5, <1>6, <1>8, <1>9 DEF User, InCall
<1>. QED BY <1>1, <1>2, <1>3, <1>4, <1>10 DEF TypeOK

LEMMA TypesHold ==
    ASSUME TypeOK, Called, Queues, Counts', Next PROVE TypeOK'
BY ModuleTypes, StartTypes, WorkerTypes, UserTypes DEF Next, Step

-----------------------------------------------------------------------------
(* The invariant, and what follows from it.                                  *)

LEMMA InitInv == Init => Inv
<1>. SUFFICES ASSUME Init PROVE Inv OBVIOUS
<1>1. TypeOK
  <2>1. bounds \in Scenarios /\ bounds.starts \in 1..MaxStarts /\ bounds.faults \in Nat
        /\ bounds.calls \in Nat /\ bounds.percent \in Nat \ {0} /\ bounds.locks \in Nat
    BY BoundsAssumption DEF Init
  <2>2. NoOp \in Operations BY <2>1 DEF NoOp, Operations
  <2>3. <<>> \in Seq(Commands) OBVIOUS
  <2>4. op \in [Calls -> Operations] /\ queue \in [Invocations -> Seq(Commands)]
    BY <2>2, <2>3 DEF Init
  <2>5. /\ at \in [Calls -> CallStates] /\ calls \in [Calls -> 0..bounds.calls]
        /\ progress \in [Invocations -> 0..bounds.percent]
    BY <2>1 DEF Init, CallStates
  <2>6. worker \in [Invocations -> WorkerStates] BY DEF Init, WorkerStates
  <2>7. native \in [Invocations -> [acks : Nat, failures : Nat, percent : Nat]] BY DEF Init
  <2>8. /\ objects \subseteq {"factory", "handler"} /\ locks \in 0..bounds.locks
        /\ workers \in Nat /\ reporters \in Nat
        /\ running \in BOOLEAN /\ current \in 0..bounds.starts /\ faults \in 0..bounds.faults
    <3>1. objects \subseteq {"factory", "handler"} BY DEF Init
    <3>2. 0 \in 0..bounds.locks /\ 0 \in 0..bounds.starts /\ 0 \in 0..bounds.faults
      BY <2>1
    <3>3. locks = 0 /\ workers = 0 /\ reporters = 0 /\ running = FALSE /\ current = 0 /\ faults = 0
      BY DEF Init
    <3>. QED BY <3>1, <3>2, <3>3
  <2>9. /\ control \in [Invocations -> 0..2]
        /\ start \in [Invocations -> Starting \cup {"unused", "ok", "failed"}]
        /\ packet \in [Invocations -> {"none", "starter", "sent", "taken", "released"}]
        /\ disposals \in [Invocations -> Nat]
        /\ completed \in [Invocations -> BOOLEAN] /\ overtaken \in [Invocations -> BOOLEAN]
        /\ holder \in [Invocations -> Threads \cup {Nobody}]
        /\ unload \in {"idle", "read1", "read2", "read3", "unloaded"}
    BY DEF Init
  <2>. QED BY <2>1, <2>4, <2>5, <2>6, <2>7, <2>8, <2>9 DEF TypeOK
<1>2. \A i \in Invocations, t \in Threads : at[<<i, t>>] = "absent" BY DEF Init, Calls
<1>3. Packets BY DEF Init, Packets, Starting
<1>4. Claims /\ Users BY <1>2 DEF Init, Claims, Active, Users, UserRuns, Threads
<1>5. Registered = {} /\ Reporting = {}
  BY <1>2 DEF Init, Registered, Reporting, HasClone
<1>6. Counts BY <1>5, FS_EmptySet DEF Init, Counts
<1>7. Unloading BY DEF Init, Unloading
<1>8. Held /\ Called BY <1>2 DEF Init, Held, Called, Waiting, Answered, Nobody, Threads
<1>9. Queues BY DEF Init, Queues, Queued
<1>10. Completions BY <1>2 DEF Init, Completions, Completing, Waiting, Unstarted
<1>11. Moving BY <1>2 DEF Init, Moving, Progressing, Waiting
<1>. QED BY <1>1, <1>3, <1>4, <1>6, <1>7, <1>8, <1>9, <1>10, <1>11 DEF Inv

LEMMA NextInv == Inv /\ [Next]_vars => Inv'
<1>. SUFFICES ASSUME Inv, [Next]_vars PROVE Inv' OBVIOUS
<1>1. CASE Next
  <2>. USE <1>1 DEF Inv
  <2>1. Packets' BY PacketsHold
  <2>2. Claims' BY ClaimsHold
  <2>3. Users' BY UsersHold
  <2>4. Counts' BY CountsHold
  <2>5. Unloading' BY UnloadingHolds
  <2>6. Held' BY HeldHolds
  <2>7. Called' BY CalledHolds
  <2>8. Queues' BY QueuesHold
  <2>9. Completions' BY CompletionsHold
  <2>10. Moving' BY MovingHolds
  <2>11. TypeOK' BY <2>4, TypesHold
  <2>. QED BY <2>1, <2>2, <2>3, <2>4, <2>5, <2>6, <2>7, <2>8, <2>9, <2>10, <2>11
<1>2. CASE UNCHANGED vars
  <2>. USE <1>2 DEF vars, Inv
  <2>1. TypeOK' BY DEF TypeOK, Operations, Commands
  <2>2. Packets' BY DEF Packets
  <2>3. Claims' BY DEF Claims, Active
  <2>4. Users' BY DEF Users, UserRuns
  <2>5. Registered' = Registered /\ Reporting' = Reporting
    BY DEF Registered, Reporting, HasClone
  <2>6. Counts' BY <2>5 DEF Counts
  <2>7. Unloading' BY <2>5 DEF Unloading, InStart
  <2>8. Held' /\ Called' BY DEF Held, Called
  <2>9. Queues' BY DEF Queues, Queued, Sent
  <2>10. Completions' BY DEF Completions, Completing
  <2>11. Moving' BY DEF Moving, Progressing
  <2>. QED BY <2>1, <2>2, <2>3, <2>4, <2>6, <2>7, <2>8, <2>9, <2>10, <2>11
<1>. QED BY <1>1, <1>2

LEMMA InvHolds == Spec => []Inv
BY InitInv, NextInv, PTL DEF Spec

(* Every variable keeps its type: the counters never go below zero, and what *)
(* a reporter sends is an update or a completion.                            *)
THEOREM TypeCorrect == Spec => []TypeOK
<1>1. Inv => TypeOK BY DEF Inv
<1>. QED BY <1>1, InvHolds, PTL

(* DllCanUnloadNow, reading the four counters one after the other, says yes  *)
(* only when nothing can come into the module any more: what has been read   *)
(* as zero stays zero, because a worker hands its registration to a reporter *)
(* before it ends, and no thread begins once the objects are gone.           *)
THEOREM UnloadIsSafe == Spec => []UnloadSafe
<1>1. Inv => UnloadSafe
  <2>. SUFFICES ASSUME Inv, unload = "unloaded"
                PROVE /\ objects = {} /\ locks = 0
                      /\ \A i \in Invocations : ~WorkerAlive(i) /\ start[i] \notin Starting
                      /\ \A k \in Calls : ~HasClone(k)
    BY DEF UnloadSafe
  <2>1. objects = {} /\ locks = 0 /\ Registered = {} /\ Reporting = {} /\ ~InStart
    BY DEF Inv, Unloading
  <2>2. ASSUME NEW i \in Invocations PROVE ~WorkerAlive(i) /\ start[i] \notin Starting
    BY <2>1 DEF Registered, WorkerAlive, InStart
  <2>3. ASSUME NEW k \in Calls PROVE ~HasClone(k)
    <3>1. PICK i \in Invocations, t \in Threads : k = <<i, t>> BY DEF Calls
    <3>. QED BY <2>1, <3>1 DEF Reporting
  <2>. QED BY <2>1, <2>2, <2>3
<1>. QED BY <1>1, InvHolds, PTL

(* A COM object has one user thread at a time, and while a worker runs,      *)
(* `running` and the control token are those of its invocation.              *)
THEOREM OneAtATime == Spec => []OneInvocation
<1>1. Inv => OneInvocation
  <2>. SUFFICES ASSUME Inv PROVE OneInvocation OBVIOUS
  <2>1. ASSUME NEW i \in Invocations, worker[i] \notin {"none", "exit", "gone"}
        PROVE running /\ current = i
    BY <2>1 DEF Inv, Claims, Active
  <2>2. ASSUME NEW i \in Invocations, UserRuns(i) PROVE worker[i] \notin {"none", "exit", "gone"}
    BY <2>2 DEF Inv, Users, Serves
  <2>3. ASSUME NEW i \in Invocations, NEW j \in Invocations, UserRuns(i), UserRuns(j)
        PROVE i = j
    <3>1. current = i /\ current = j BY <2>1, <2>2, <2>3
    <3>. QED BY <3>1
  <2>. QED BY <2>1, <2>3 DEF OneInvocation
<1>. QED BY <1>1, InvHolds, PTL

(* The marshalled interface is unmarshalled or released once, on every path  *)
(* on which starting an invocation can fail.                                 *)
THEOREM PacketOnce == Spec => []PacketDisposedOnce
<1>1. Inv => PacketDisposedOnce
  <2>. SUFFICES ASSUME Inv, NEW i \in Invocations
                PROVE /\ disposals[i] <= 1
                      /\ start[i] \in {"ok", "failed"} /\ ~WorkerAlive(i) =>
                            disposals[i] = IF packet[i] = "none" THEN 0 ELSE 1
    BY DEF PacketDisposedOnce
  <2>1. start[i] \in Starting \cup {"unused", "ok", "failed"} BY DEF Inv, TypeOK
  <2>2. disposals[i] \in {0, 1} BY <2>1 DEF Inv, Packets, Starting
  <2>3. start[i] \in {"ok", "failed"} /\ ~WorkerAlive(i) =>
           disposals[i] = IF packet[i] = "none" THEN 0 ELSE 1
    BY DEF Inv, Packets, WorkerAlive
  <2>. QED BY <2>2, <2>3
<1>. QED BY <1>1, InvHolds, PTL

(* The scheduler acknowledges one completion of an invocation at most,       *)
(* although three threads claim it, and give back a claim that failed.       *)
THEOREM CompletionIsOnce == Spec => []CompletionOnce
<1>1. Inv => CompletionOnce BY DEF Inv, Completions, CompletionOnce
<1>. QED BY <1>1, InvHolds, PTL

(* A completion is left unconfirmed after two refusals of the terminal code, *)
(* or by the race with a completion of the helper thread.                    *)
THEOREM UnconfirmedByRace == Spec => []UnconfirmedOnlyByRace
<1>1. Inv => UnconfirmedOnlyByRace BY DEF Inv, Completions, Completing, UnconfirmedOnlyByRace
<1>. QED BY <1>1, InvHolds, PTL

(* What the scheduler is told of an invocation moves forward, and ends with  *)
(* the acknowledged completion.                                              *)
THEOREM ProgressForward == Spec => ProgressMovesForward
<1>1. ASSUME Inv, Next, NEW i \in Invocations, native'[i].percent # native[i].percent
      PROVE native'[i].percent > native[i].percent /\ native[i].acks = 0
  <2>. /\ TypeOK /\ Held /\ Queues /\ Progressing(i) /\ Completing(i)
       /\ native[i].acks \in {0, 1} /\ native[i].percent \in Nat /\ progress[i] \in Nat
    BY <1>1 DEF Inv, Moving, Completions, TypeOK
  <2>. native \in [Invocations -> [acks : Nat, failures : Nat, percent : Nat]] BY DEF TypeOK
  <2>1. ServeUpdate(i)
    <3>1. PICK j \in Invocations : Worker(j)
      BY <1>1, QuietModule, QuietStart, QuietUser DEF Next, Step
    <3>2. j = i BY <1>1, <3>1, Elsewhere
    <3>3. CASE ServeComplete(i) BY <1>1, <3>3 DEF ServeComplete
    <3>4. CASE Terminal(i) BY <1>1, <3>4 DEF Terminal
    <3>. QED BY <1>1, <3>1, <3>2, <3>3, <3>4
           DEF Worker, WorkerInit, WorkerUnmarshal, WorkerSpawn, ServeDone, WorkerJoin,
               WorkerGuard, WorkerExit
  <2>2. PICK t : t = Head1(i).from OBVIOUS
  <2>3. Serving(i, "update") BY <2>1 DEF ServeUpdate
  <2>4. /\ t \in Threads /\ at[<<i, t>>] = "wait"
        /\ op[<<i, t>>] = [kind |-> "update", percent |-> Head1(i).percent]
        /\ Head1(i).percent \in 0..bounds.percent
    BY <2>2, <2>3, Answering
  <2>5. /\ op[<<i, t>>].kind = "update" /\ op[<<i, t>>].percent = Head1(i).percent
        /\ Head1(i).percent \in Nat
    BY <2>4, BoundsTypes
  <2>6. Head1(i).percent > progress[i] BY <2>4, <2>5 DEF Progressing, Waiting
  <2>7. native[i].percent <= progress[i]
    <3>. SUFFICES ASSUME NEW u \in Threads, at[<<i, u>>] = "ok" PROVE FALSE
      BY DEF Progressing
    <3>1. u = t BY <2>4, OneCall DEF Waiting, Answered
    <3>. QED BY <2>4, <3>1
  <2>8. native'[i].percent = Head1(i).percent
    BY <1>1, <2>1 DEF ServeUpdate
  <2>9. native[i].acks = 0
    BY <2>3, <2>4 DEF Serving, Completing, Waiting
  <2>. QED BY <2>5, <2>6, <2>7, <2>8, <2>9
<1>2. ASSUME Inv, [Next]_vars
      PROVE [\A i \in Invocations :
                native'[i].percent # native[i].percent =>
                   native'[i].percent > native[i].percent /\ native[i].acks = 0]_vars
  BY <1>1, <1>2 DEF vars
<1>. QED BY <1>2, InvHolds, PTL DEF Spec, ProgressMovesForward

(* Nothing undoes a stop, and nothing reaches the token of another           *)
(* invocation than the latest.                                               *)
THEOREM StopFinal == Spec => StopIsFinal
<1>1. ASSUME Inv, Next, NEW i \in Invocations
      PROVE /\ control[i] = 2 => control'[i] = 2
            /\ control'[i] # control[i] => i = current
  <2>. control \in [Invocations -> 0..2] BY <1>1 DEF Inv, TypeOK
  <2>1. CASE UNCHANGED control BY <2>1
  <2>2. ASSUME NEW s, Request(s), control[current] = 2 => s = 2
        PROVE /\ control[i] = 2 => control'[i] = 2
              /\ control'[i] # control[i] => i = current
    BY <2>2 DEF Request
  <2>3. CASE Stop BY <2>2, <2>3 DEF Stop
  <2>4. CASE Pause BY <2>2, <2>4 DEF Pause, PausedState
  <2>5. CASE Resume BY <2>2, <2>5 DEF Resume, ResumedState
  <2>6. CASE Module
    BY <2>1, <2>3, <2>4, <2>5, <2>6
       DEF Module, ReleaseObject, LockServer, CanUnload, moduleUnchanged
  <2>7. ASSUME NEW j \in Invocations, Start(j) \/ Starter(j) PROVE UNCHANGED control
    BY <2>7 DEF Start, Starter, StartPrepare, StartSpawn, StartAwait, StartJoin
  <2>. QED BY <1>1, <2>1, <2>6, <2>7, QuietWorker, QuietUser DEF Next, Step
<1>2. ASSUME Inv, [Next]_vars
      PROVE [\A i \in Invocations :
                /\ control[i] = 2 => control'[i] = 2
                /\ control'[i] # control[i] => i = current]_vars
  BY <1>1, <1>2 DEF vars
<1>. QED BY <1>2, InvHolds, PTL DEF Spec, StopIsFinal
=============================================================================
