------------------------------ MODULE RunWait ------------------------------
(***************************************************************************)
(* Waiting for one run of a task: observe_run, Correlation and             *)
(* scan_history in client/wait.rs, run by wait_for_run on the caller's     *)
(* thread or on the helper thread of a WaitFuture.                         *)
(*                                                                         *)
(* The wait polls two sources that neither lock nor agree: the Operational *)
(* history, whose events arrive late and in which other runs appear too,   *)
(* and the list of running tasks.  An exact result comes from the events   *)
(* of this instance only; with the caller's consent, an estimate comes     *)
(* from the task's last result after the instance has been gone for a      *)
(* grace interval.                                                         *)
(*                                                                         *)
(* External and nondeterministic: the engine, which runs the instance and  *)
(* other runs of the same task, and the event log, which shows an event    *)
(* some time after it was written and drops its oldest ones.  A stop or a  *)
(* failed start is the last event of its instance.                         *)
(***************************************************************************)
EXTENDS Naturals, Sequences, FiniteSets, SequencesExt

CONSTANTS
  Codes,         \* result codes
  NoCode,        \* an event without a result field
  Terminated,    \* 0x00041306, SCHED_S_TASK_TERMINATED
  Timeout,       \* WaitOptions::timeout
  Grace,         \* WaitOptions::history_grace
  Interval,      \* WaitOptions::poll_interval, at most the sleep cap of 1 s
  ScanLimit,     \* MAX_SCANNED of EventAccess::query_inner
  Wanted,        \* HistoryQuery::limit of a wait, 256
  MaxActions,    \* MAX_ACTIONS, 32: the actions of an instance
  Consents,      \* values of WaitOptions::allow_polling_fallback
  MaxTime,       \* bound: the clock stops here
  MaxEvents,     \* bound: events written
  MaxDrops,      \* bound: times the log drops events
  MaxFaults      \* bound: failing calls

ASSUME CodesAssumption ==
  NoCode \notin Codes /\ Terminated \notin Codes /\ Terminated /= NoCode
ASSUME BoundsAssumption ==
  /\ Consents \subseteq BOOLEAN
  /\ {Timeout, Grace, ScanLimit, Wanted, MaxTime, MaxEvents, MaxDrops,
      MaxFaults}
       \subseteq Nat
  /\ Interval \in Nat \ {0} /\ Timeout <= MaxTime

\* A query of a wait has room for every event of its instance.
ASSUME WantedAssumption == MaxActions \in Nat /\ MaxActions < Wanted

VARIABLES
  phase,         \* of the awaited instance: waiting, running or finished
  truth,         \* its result, once it has finished
  endedAt,       \* and when that was
  lastResult,    \* LastTaskResult of the task
  raced,         \* another run has set it
  written,       \* the events written, oldest first
  shown,         \* number of events the log shows
  gone,          \* number of events it has dropped
  drops,         \* times it has dropped events
  now,           \* elapsed()
  faults,        \* failing calls so far
  consent,       \* WaitOptions::allow_polling_fallback
  listed,        \* the instance was running when the wait began
  cancelled,     \* the flag that dropping the WaitFuture sets
  pc,            \* where observe_run is
  historyError,  \* history_error is set
  correlation,   \* observe_run's Correlation
  lastRunning,   \* last_running
  observedRunning, \* observed_running: a probe has seen the instance run
  absentSince,   \* absent_since: no element, or one
  wake,          \* when the sleep ends
  overlooked,    \* the last history probe saw a result and did not return it
  outcome        \* what observe_run returned

engine == <<phase, truth, endedAt, lastResult, raced, written>>
visible == <<shown, gone, drops>>
wait == <<pc, historyError, correlation, lastRunning, observedRunning,
          absentSince, wake, overlooked, outcome>>
vars == <<engine, visible, now, faults, consent, listed, cancelled, wait>>

Kinds == {"Completed", "Stopped", "Failed", "ActionCompleted",
          "ActionFailed"}
Results == Codes \union {Terminated}
MaybeCode == Codes \union {NoCode}

(***************************************************************************)
(* The engine and the event log.                                           *)
(***************************************************************************)
Event(kind, code, mine) ==
  [record |-> Len(written) + 1, kind |-> kind, code |-> code, mine |-> mine]

Emit(kind, code, mine) == written' = Append(written, Event(kind, code, mine))

\* The newest completed action of the instance, if any.
LastAction ==
  LET ends == {i \in DOMAIN written : /\ written[i].mine
                                      /\ written[i].kind = "ActionCompleted"}
  IN IF ends = {} THEN NoCode
     ELSE written[CHOOSE i \in ends : \A j \in ends : j <= i].code

Start ==
  /\ phase = "waiting"
  /\ phase' = "running"
  /\ UNCHANGED <<truth, endedAt, lastResult, raced, written>>

Finish(result) ==
  /\ phase' = "finished"
  /\ truth' = result
  /\ endedAt' = now
  /\ lastResult' = IF result = NoCode THEN lastResult ELSE result
  /\ UNCHANGED raced

\* The events of the instance.
Own == {i \in DOMAIN written : written[i].mine}

\* An action of the instance ends; a failed one (events 202 and 203) leaves
\* the instance running.
ActionEnds ==
  /\ phase = "running" /\ Cardinality(Own) < MaxActions
  /\ \/ \E code \in Codes : Emit("ActionCompleted", code, TRUE)
     \/ Emit("ActionFailed", NoCode, TRUE)
  /\ UNCHANGED <<phase, truth, endedAt, lastResult, raced>>

\* Newer providers put the result into the completion event, older ones
\* leave it to the last action.
Complete ==
  /\ phase = "running"
  /\ \/ \E code \in Codes : Emit("Completed", code, TRUE) /\ Finish(code)
     \/ Emit("Completed", NoCode, TRUE) /\ Finish(LastAction)

Stop ==
  /\ phase = "running"
  /\ \E code \in MaybeCode :
       /\ Emit("Stopped", code, TRUE)
       /\ Finish(IF code = NoCode THEN Terminated ELSE code)

\* Events 101, 103, 104 and 311.
FailStart ==
  /\ phase = "waiting"
  /\ \E code \in MaybeCode : Emit("Failed", code, TRUE) /\ Finish(code)

\* Another run of the task writes events and sets the last result.
OtherRun ==
  /\ \E kind \in {"Completed", "ActionCompleted"}, code \in Codes :
       /\ Emit(kind, code, FALSE)
       /\ lastResult' = code
  /\ raced' = TRUE
  /\ UNCHANGED <<phase, truth, endedAt>>

Engine ==
  /\ \/ Start
     \/ /\ Len(written) < MaxEvents
        /\ ActionEnds \/ Complete \/ Stop \/ FailStart \/ OtherRun
  /\ UNCHANGED <<visible, now, faults, consent, listed, cancelled, wait>>

Show ==
  /\ \E n \in shown + 1..Len(written) : shown' = n
  /\ UNCHANGED <<gone, drops>>

\* The log is cleared or makes room: what it has shown disappears, all of it
\* or its oldest part.
Drop ==
  /\ drops < MaxDrops
  /\ drops' = drops + 1
  /\ \E n \in gone + 1..shown : gone' = n
  /\ UNCHANGED shown

EventLog ==
  /\ Show \/ Drop
  /\ UNCHANGED <<engine, now, faults, consent, listed, cancelled, wait>>

(***************************************************************************)
(* Correlation.                                                            *)
(***************************************************************************)
Unknown == [completed |-> FALSE, record |-> 0, action |-> NoCode,
            terminal |-> NoCode]

Or(code, other) == IF code = NoCode THEN other ELSE code

\* An action counts when its record is newer than the one known.
Newer(c, e) == c.action = NoCode \/ e.record > c.record

\* Mutant of Skipped: every event of the task is taken.
Skipped_never(e) == FALSE

\* Events of other runs are skipped.
Skipped(e) == ~e.mine

\* One event of Correlation::ingest.
Ingest(c, e) ==
  IF Skipped(e) THEN c
  ELSE CASE e.kind = "Completed" ->
              [c EXCEPT !.completed = TRUE, !.terminal = Or(e.code, @)]
         [] e.kind = "Stopped" ->
              [c EXCEPT !.terminal = Or(e.code, Terminated)]
         [] e.kind = "Failed" ->
              [c EXCEPT !.terminal = Or(e.code, @)]
         [] e.kind = "ActionCompleted" /\ e.code /= NoCode /\ Newer(c, e) ->
              [c EXCEPT !.record = e.record, !.action = e.code]
         [] OTHER -> c

IngestAll(c, events) ==
  LET after[n \in 0..Len(events)] ==     \* the first n events
        IF n = 0 THEN c ELSE Ingest(after[n - 1], events[n])
  IN after[Len(events)]

\* Mutant of ResultOf: only a result of its own ends a run.
ResultOf_terminal(c) == c.terminal

ResultOf(c) ==
  Or(c.terminal, IF c.completed THEN c.action ELSE NoCode)

(***************************************************************************)
(* scan_history: newest events first, until the instance's result is       *)
(* established, the wanted number is found or the log is exhausted.        *)
(***************************************************************************)
Window == Reverse(SubSeq(written, gone + 1, shown))

\* The first n events, and how many of them match: the others, which the
\* query leaves out, no correlation takes.
Scan(n) == SubSeq(Window, 1, n)
Matching(n) == Cardinality({i \in 1..n : ~Skipped(Window[i])})

Enough(n) ==
  ResultOf(IngestAll(Unknown, Scan(n))) /= NoCode \/ Matching(n) = Wanted

\* Events a scan of the window reads before it may stop.
ScanEnds ==
  {n \in 1..Len(Window) : Enough(n)} \union {Len(Window)}

Scanned == CHOOSE n \in ScanEnds : \A m \in ScanEnds : n <= m

\* The iteration that finds the log exhausted counts too.
LimitReached ==
  IF Enough(Scanned) THEN Scanned > ScanLimit ELSE Scanned >= ScanLimit

\* For the property below: what a set of events establishes, whatever order
\* they are read in.
Decisive(events) ==
  \E e \in events :
    /\ e.mine
    /\ \/ e.kind = "Stopped"
       \/ e.kind \in {"Completed", "Failed"} /\ e.code /= NoCode
       \/ /\ e.kind = "Completed"
          /\ \E a \in events : a.mine /\ a.kind = "ActionCompleted"

(***************************************************************************)
(* observe_run.                                                            *)
(***************************************************************************)
Return(kind, code) ==
  /\ pc' = "returned"
  /\ outcome' = [kind |-> kind, code |-> code, at |-> now]

\* Mutant of Expired: there is no deadline.
Expired_never == FALSE

\* Top of the loop: cancellation first, then the deadline.
Expired == now >= Timeout

Check ==
  /\ pc = "check"
  /\ \/ cancelled /\ Return("cancelled", NoCode)
     \/ ~cancelled /\ Expired /\ Return("timeout", NoCode)
     \/ /\ ~cancelled /\ ~Expired
        /\ pc' = IF historyError THEN "running" ELSE "history"
        /\ UNCHANGED outcome
  /\ UNCHANGED <<historyError, correlation, lastRunning, observedRunning,
                 absentSince, wake, overlooked, faults>>

\* A history probe that answers.
ReadHistory ==
  /\ pc = "history" /\ ~LimitReached
  /\ LET c == IngestAll(correlation, Scan(Scanned))
     IN /\ correlation' = c
        /\ IF ResultOf(c) /= NoCode
           THEN Return("exact", ResultOf(c))
           ELSE pc' = "running" /\ UNCHANGED outcome
  /\ overlooked' = (Decisive(ToSet(Window)) /\ pc' = "running")
  /\ UNCHANGED <<historyError, lastRunning, observedRunning, absentSince, wake,
                 faults>>

\* A failed one: the consent turns history off for the rest of the wait.
HistoryFails ==
  /\ pc = "history"
  /\ \/ LimitReached /\ UNCHANGED faults
     \/ faults < MaxFaults /\ faults' = faults + 1
  /\ IF consent
     THEN historyError' = TRUE /\ pc' = "running" /\ UNCHANGED outcome
     ELSE Return("error", NoCode) /\ UNCHANGED historyError
  /\ UNCHANGED <<correlation, lastRunning, observedRunning, absentSince, wake,
                 overlooked>>

ReadRunning ==
  /\ pc = "running"
  /\ lastRunning' = (phase = "running")
  /\ pc' = "note"
  /\ UNCHANGED <<historyError, correlation, observedRunning, absentSince, wake,
                 overlooked, outcome, faults>>

\* Mutant of Absence: an absence goes on although the instance was seen again.
Absence_kept == IF absentSince = {} /\ ~lastRunning THEN {now} ELSE absentSince

\* The absence an observation leaves behind: none when the instance runs,
\* otherwise since it was first missed.
Absence == IF lastRunning THEN {}
           ELSE IF absentSince = {} THEN {now} ELSE absentSince

NoteAbsence ==
  /\ pc = "note"
  /\ observedRunning' = (observedRunning \/ lastRunning)
  /\ absentSince' = Absence
  /\ pc' = "decide"
  /\ UNCHANGED <<historyError, correlation, lastRunning, wake,
                 overlooked, outcome, faults>>

\* The instance has been missing for the grace interval; one that no probe has
\* seen gets this long from the start of the wait to appear.
GraceOver ==
  /\ \E t \in absentSince : now - t >= Grace
  /\ observedRunning \/ now >= Grace

\* The deadline shortens the sleep.
Nap == LET left == IF now < Timeout THEN Timeout - now ELSE 0
       IN IF left < Interval THEN left ELSE Interval

Decide ==
  /\ pc = "decide"
  /\ IF consent /\ GraceOver
     THEN pc' = "estimate" /\ UNCHANGED wake
     ELSE pc' = "sleep" /\ wake' = now + Nap
  /\ UNCHANGED <<historyError, correlation, lastRunning, observedRunning,
                 absentSince, overlooked, outcome, faults>>

ReadLastResult ==
  /\ pc = "estimate"
  /\ Return("estimate", lastResult)
  /\ UNCHANGED <<historyError, correlation, lastRunning, observedRunning,
                 absentSince, wake, overlooked, faults>>

\* running() or last_result() fails: the wait returns the error.
ProbeFails ==
  /\ pc \in {"running", "estimate"}
  /\ faults < MaxFaults
  /\ faults' = faults + 1
  /\ Return("error", NoCode)
  /\ UNCHANGED <<historyError, correlation, lastRunning, observedRunning,
                 absentSince, wake, overlooked>>

Sleep ==
  /\ pc = "sleep" /\ now >= wake
  /\ pc' = "check"
  /\ UNCHANGED <<historyError, correlation, lastRunning, observedRunning,
                 absentSince, wake, overlooked, outcome, faults>>

ObserveRun ==
  /\ \/ Check \/ ReadHistory \/ HistoryFails \/ ReadRunning \/ NoteAbsence
     \/ Decide \/ ReadLastResult \/ ProbeFails \/ Sleep
  /\ UNCHANGED <<engine, visible, now, consent, listed, cancelled>>

\* Drop for WaitFuture.
Cancel ==
  /\ ~cancelled
  /\ cancelled' = TRUE
  /\ UNCHANGED <<engine, visible, now, faults, consent, listed, wait>>

Tick ==
  /\ now < MaxTime
  /\ now' = now + 1
  /\ UNCHANGED <<engine, visible, faults, consent, listed, cancelled, wait>>

Init ==
  /\ consent \in Consents
  /\ listed \in BOOLEAN
  /\ phase = IF listed THEN "running" ELSE "waiting"
  /\ truth = NoCode /\ endedAt = 0 /\ lastResult = NoCode /\ raced = FALSE
  /\ written = <<>> /\ shown = 0 /\ gone = 0 /\ drops = 0
  /\ now = 0 /\ faults = 0 /\ cancelled = FALSE
  /\ pc = "check" /\ historyError = FALSE /\ correlation = Unknown
  /\ lastRunning = FALSE /\ observedRunning = FALSE
  /\ absentSince = {} /\ wake = 0
  /\ overlooked = FALSE
  /\ outcome = [kind |-> "none", code |-> NoCode, at |-> 0]

\* Nothing more is asked of the environment once the wait has returned.
Next ==
  \/ pc /= "returned" /\ (Engine \/ EventLog \/ Cancel \/ Tick)
  \/ ObserveRun

Spec == Init /\ [][Next]_vars

\* Time passes, the waiting thread runs and its native calls return.
FairSpec == Spec /\ WF_vars(ObserveRun) /\ WF_vars(Tick /\ pc /= "returned")

-----------------------------------------------------------------------------
(***************************************************************************)
(* Properties.                                                             *)
(***************************************************************************)

\* An exact result is this instance's own, of its final event or, when that
\* has none, of its last completed action; and the instance has finished.
\* This holds although events of other runs lie between and the log shows
\* them late and in several probes, as long as the log keeps the actions.
ExactIsTrue ==
  outcome.kind = "exact" =>
    /\ phase = "finished"
    /\ \/ outcome.code = truth
       \/ \E i \in 1..gone : /\ written[i].mine
                             /\ written[i].kind = "ActionCompleted"

\* The stronger promise of ADR 6, "Exact run results require
\* instance-correlated terminal events and, on provider versions without a
\* terminal result field, the correlated final action result", also when the
\* log was cleared during the wait.  The correlation keeps the action of an
\* earlier probe and pairs it with a completion whose own last action
\* disappeared before it was read.
ExactIsFinal == outcome.kind = "exact" => outcome.code = truth

\* No completion is overlooked: a wait that goes on, times out or falls back
\* to an estimate has never read events that establish the exact result,
\* whichever provider wrote them and wherever the scan stopped.
CompletionNotMissed == ~overlooked

\* The wait knows that the instance has run: it ran when the wait began or a
\* probe has seen it since.
Seen == listed \/ observedRunning

\* An estimate needs the consent of the caller and, of an instance that is
\* known to have run, comes only when it has been over for the grace interval,
\* also if it started during the wait and was missing before: an absence ends
\* with every probe that sees the instance.  It is the instance's own result
\* when no other run of the task interferes.
EstimateEarned ==
  outcome.kind = "estimate" =>
    /\ consent
    /\ Seen => phase = "finished" /\ outcome.at - endedAt >= Grace
    /\ Seen /\ ~raced => outcome.code = truth

\* A wait always returns, whatever becomes of the instance.
WaitEnds == <>(pc = "returned")
=============================================================================
