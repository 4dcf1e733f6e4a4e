--------------------------- MODULE RunWaitProofs ---------------------------
(***************************************************************************)
(* What observe_run returns, proved for every timeout, grace interval,     *)
(* poll interval and log, whatever the history shows, whichever calls fail *)
(* and however long they take.  First part: an estimate is earned.  Second *)
(* part: what a correlation knows of the events it was given, what a scan  *)
(* of the log gives it, and that an exact result is true and a completion  *)
(* is not overlooked.                                                      *)
(***************************************************************************)
EXTENDS RunWait, Integers, FiniteSetTheorems, SequenceTheorems, WellFoundedInduction, TLAPS

\* The instance: an end is never in the future, an instance that was running
\* when the wait began has started, and without another run of the task the
\* last result is the instance's own.
Instance ==
  /\ now \in Nat /\ endedAt \in Nat
  /\ phase \in {"waiting", "running", "finished"}
  /\ raced \in BOOLEAN
  /\ endedAt <= now
  /\ listed => phase # "waiting"
  /\ ~raced => lastResult = (IF phase = "finished" THEN truth ELSE NoCode)

\* What the observations of the running tasks say about it: one that was seen
\* has started, and an absence that the wait has noted of it began after its
\* end.
Absences ==
  /\ absentSince \subseteq Nat
  /\ \A t \in absentSince : t <= now
  /\ Seen => phase # "waiting"
  /\ pc = "note" /\ lastRunning => phase # "waiting"
  /\ Seen /\ pc = "note" /\ ~lastRunning => phase = "finished"
  /\ Seen => \A t \in absentSince : phase = "finished" /\ endedAt <= t

\* An estimate is about to be made, or has been.
Estimates ==
  /\ pc = "estimate" => consent /\ GraceOver
  /\ pc # "returned" => outcome.kind = "none"
  /\ EstimateEarned

Earned == Instance /\ Absences /\ Estimates

LEMMA InitEarned == Init => Earned
<1> SUFFICES ASSUME Init PROVE Earned  OBVIOUS
<1>1. Instance
  <2>1. now = 0 /\ endedAt = 0 /\ lastResult = NoCode  BY DEF Init
  <2>2. phase = IF listed THEN "running" ELSE "waiting"  BY DEF Init
  <2>3. phase \in {"waiting", "running"} /\ (listed => phase # "waiting")
    BY <2>2
  <2>4. raced \in BOOLEAN  BY Zenon DEF Init
  <2>5. QED  BY <2>1, <2>3, <2>4 DEF Instance
<1>2. Absences  BY DEF Init, Absences, Seen
<1>3. Estimates  BY DEF Init, Estimates, EstimateEarned
<1>4. QED  BY <1>1, <1>2, <1>3 DEF Earned

-----------------------------------------------------------------------------
(***************************************************************************)
(* The environment.                                                        *)
(***************************************************************************)

\* A step of the engine: the instance only moves on, and once it is over
\* neither its result nor its end changes.
LEMMA EngineStep ==
  ASSUME Earned, Start \/ ActionEnds \/ Complete \/ Stop \/ FailStart \/ OtherRun,
         UNCHANGED <<now, listed>>
  PROVE  /\ Instance'
         /\ phase = "finished" => UNCHANGED <<phase, endedAt>>
         /\ phase # "waiting" => phase' # "waiting"
<1> USE DEF Earned, Instance
<1>1. CASE Start \/ ActionEnds \/ OtherRun
  BY <1>1 DEF Start, ActionEnds, OtherRun
<1>2. ASSUME NEW result, Finish(result), phase # "finished"
      PROVE  Instance' /\ phase' # "waiting"
  BY <1>2 DEF Finish
<1>3. CASE Complete \/ Stop \/ FailStart
  <2>1. phase # "finished" /\ \E result : Finish(result)
    BY <1>3 DEF Complete, Stop, FailStart
  <2>2. QED  BY <1>2, <2>1
<1>4. QED  BY <1>1, <1>3

LEMMA EarnedEngine == Earned /\ pc # "returned" /\ Engine => Earned'
<1> SUFFICES ASSUME Earned, pc # "returned", Engine PROVE Earned'  OBVIOUS
<1>1. UNCHANGED <<now, consent, listed, pc, lastRunning, observedRunning, absentSince,
                  outcome>>
  BY DEF Engine, wait
<1>2. /\ Instance'
      /\ phase = "finished" => UNCHANGED <<phase, endedAt>>
      /\ phase # "waiting" => phase' # "waiting"
  BY <1>1, EngineStep DEF Engine
<1>3. Absences'  BY <1>1, <1>2 DEF Earned, Absences, Seen
<1>4. Estimates'
  <2>1. EstimateEarned'  BY <1>1 DEF Earned, Estimates, EstimateEarned
  <2>2. QED  BY <1>1, <2>1 DEF Earned, Estimates, GraceOver
<1>5. QED  BY <1>2, <1>3, <1>4 DEF Earned

LEMMA EarnedOutside ==
  Earned /\ pc # "returned" /\ (EventLog \/ Cancel) => Earned'
<1> SUFFICES ASSUME Earned, pc # "returned", EventLog \/ Cancel PROVE Earned'  OBVIOUS
<1>1. UNCHANGED <<engine, now, consent, listed, wait>>
  BY DEF EventLog, Cancel
<1>2. QED
  BY <1>1 DEF Earned, Instance, Absences, Seen, Estimates, GraceOver, EstimateEarned,
              engine, wait

\* Time only lengthens an absence.
LEMMA EarnedTick == Earned /\ pc # "returned" /\ Tick => Earned'
<1> SUFFICES ASSUME Earned, pc # "returned", Tick PROVE Earned'  OBVIOUS
<1>1. UNCHANGED <<engine, consent, listed, wait>> /\ now' = now + 1
  BY DEF Tick
<1>2. now \in Nat /\ now' \in Nat /\ absentSince \subseteq Nat
  BY <1>1 DEF Earned, Instance, Absences
<1>3. GraceOver => GraceOver'
  <2>1. ASSUME NEW t \in absentSince, now - t >= Grace PROVE now' - t >= Grace
    BY <1>1, <1>2, <2>1, BoundsAssumption
  <2>2. now >= Grace => now' >= Grace  BY <1>1, <1>2, BoundsAssumption
  <2>3. QED  BY <1>1, <2>1, <2>2 DEF GraceOver, wait
<1>4. Instance'  BY <1>1, <1>2 DEF Earned, Instance, engine
<1>5. Absences'  BY <1>1, <1>2 DEF Earned, Absences, Seen, engine, wait
<1>6. Estimates'  BY <1>1, <1>3 DEF Earned, Estimates, EstimateEarned, Seen, wait
<1>7. QED  BY <1>4, <1>5, <1>6 DEF Earned

-----------------------------------------------------------------------------
(***************************************************************************)
(* observe_run.                                                            *)
(***************************************************************************)

\* A step of the wait changes neither the instance nor the clock.
LEMMA WaitKeeps ==
  ASSUME Earned, ObserveRun
  PROVE  /\ UNCHANGED <<phase, truth, endedAt, lastResult, raced, now, consent, listed>>
         /\ Instance'
<1>1. UNCHANGED <<phase, truth, endedAt, lastResult, raced, now, consent, listed>>
  BY DEF ObserveRun, engine
<1>2. QED  BY <1>1 DEF Earned, Instance

\* The steps of the wait that neither look at the running tasks nor estimate.
LEMMA EarnedElsewhere ==
  ASSUME Earned, ObserveRun,
         Check \/ ReadHistory \/ HistoryFails \/ ProbeFails \/ Sleep
  PROVE  Earned'
<1>1. /\ UNCHANGED <<phase, truth, endedAt, lastResult, raced, now, consent, listed>>
      /\ Instance'
  BY WaitKeeps
<1>2. UNCHANGED <<absentSince, lastRunning, observedRunning>> /\ pc' \notin {"note", "estimate"}
  BY DEF Check, ReadHistory, HistoryFails, ProbeFails, Sleep, Return
<1>3. pc # "returned"
  BY DEF Check, ReadHistory, HistoryFails, ProbeFails, Sleep
<1>4. \/ outcome' = outcome /\ pc' # "returned"
      \/ pc' = "returned" /\ outcome'.kind # "estimate"
  BY DEF Check, ReadHistory, HistoryFails, ProbeFails, Sleep, Return
<1>5. Absences'  BY <1>1, <1>2 DEF Earned, Absences, Seen
<1>6. Estimates'  BY <1>1, <1>2, <1>3, <1>4 DEF Earned, Estimates, EstimateEarned, Seen
<1>7. QED  BY <1>1, <1>5, <1>6 DEF Earned

\* An instance that was seen and is not running now is over.
LEMMA EarnedReadRunning == Earned /\ ObserveRun /\ ReadRunning => Earned'
<1> SUFFICES ASSUME Earned, ObserveRun, ReadRunning PROVE Earned'  OBVIOUS
<1>1. /\ UNCHANGED <<phase, truth, endedAt, lastResult, raced, now, consent, listed>>
      /\ Instance'
  BY WaitKeeps
<1>2. /\ pc = "running" /\ pc' = "note" /\ UNCHANGED <<absentSince, observedRunning, outcome>>
      /\ lastRunning' = (phase = "running")
  BY DEF ReadRunning
<1>3. Seen /\ ~lastRunning' => phase = "finished"
  BY <1>2 DEF Earned, Instance, Absences
<1>4. Absences'  BY <1>1, <1>2, <1>3 DEF Earned, Absences, Seen
<1>5. Estimates'  BY <1>1, <1>2 DEF Earned, Estimates, EstimateEarned
<1>6. QED  BY <1>1, <1>4, <1>5 DEF Earned

LEMMA EarnedNoteAbsence == Earned /\ ObserveRun /\ NoteAbsence => Earned'
<1> SUFFICES ASSUME Earned, ObserveRun, NoteAbsence PROVE Earned'  OBVIOUS
<1>1. /\ UNCHANGED <<phase, truth, endedAt, lastResult, raced, now, consent, listed>>
      /\ Instance'
  BY WaitKeeps
<1>2. /\ pc = "note" /\ pc' = "decide" /\ UNCHANGED outcome
      /\ observedRunning' = (observedRunning \/ lastRunning)
      /\ absentSince' = IF lastRunning THEN {}
                        ELSE IF absentSince = {} THEN {now} ELSE absentSince
  BY DEF NoteAbsence, Absence
<1>3. Estimates'  BY <1>1, <1>2 DEF Earned, Estimates, EstimateEarned
<1>4. Seen' <=> Seen \/ lastRunning  BY <1>1, <1>2 DEF Seen
<1>5. Seen' => phase # "waiting"  BY <1>2, <1>4 DEF Earned, Absences
<1>6. CASE lastRunning
  <2>1. absentSince' = {}  BY <1>2, <1>6
  <2>2. Absences'  BY <1>1, <1>2, <1>5, <2>1 DEF Absences
  <2>3. QED  BY <1>1, <1>3, <2>2 DEF Earned
<1>7. CASE ~lastRunning /\ absentSince' = {now}
  <2>1. now \in Nat /\ endedAt <= now  BY DEF Earned, Instance
  <2>2. Seen' => phase = "finished"  BY <1>2, <1>4, <1>7 DEF Earned, Absences
  <2>3. Absences'  BY <1>1, <1>2, <1>5, <1>7, <2>1, <2>2 DEF Absences
  <2>4. QED  BY <1>1, <1>3, <2>3 DEF Earned
<1>8. CASE ~lastRunning /\ UNCHANGED absentSince
  <2>1. Absences'  BY <1>1, <1>2, <1>4, <1>5, <1>8 DEF Earned, Absences
  <2>2. QED  BY <1>1, <1>3, <2>1 DEF Earned
<1>9. QED  BY <1>2, <1>6, <1>7, <1>8

LEMMA EarnedDecide == Earned /\ ObserveRun /\ Decide => Earned'
<1> SUFFICES ASSUME Earned, ObserveRun, Decide PROVE Earned'  OBVIOUS
<1>1. /\ UNCHANGED <<phase, truth, endedAt, lastResult, raced, now, consent, listed>>
      /\ Instance'
  BY WaitKeeps
<1>2. /\ pc = "decide" /\ UNCHANGED <<absentSince, observedRunning, outcome>>
      /\ \/ pc' = "estimate" /\ consent /\ GraceOver
         \/ pc' = "sleep"
  BY DEF Decide
<1>3. GraceOver' <=> GraceOver  BY <1>1, <1>2 DEF GraceOver
<1>4. Absences'  BY <1>1, <1>2 DEF Earned, Absences, Seen
<1>5. Estimates'  BY <1>1, <1>2, <1>3 DEF Earned, Estimates, EstimateEarned
<1>6. QED  BY <1>1, <1>4, <1>5 DEF Earned

\* The last result is read when the instance has been over for the grace
\* interval.
LEMMA EarnedReadLastResult == Earned /\ ObserveRun /\ ReadLastResult => Earned'
<1> SUFFICES ASSUME Earned, ObserveRun, ReadLastResult PROVE Earned'  OBVIOUS
<1>1. /\ UNCHANGED <<phase, truth, endedAt, lastResult, raced, now, consent, listed>>
      /\ Instance'
  BY WaitKeeps
<1>2. /\ pc = "estimate" /\ pc' = "returned" /\ UNCHANGED <<absentSince, observedRunning>>
      /\ outcome' = [kind |-> "estimate", code |-> lastResult, at |-> now]
  BY DEF ReadLastResult, Return
<1>3. consent /\ GraceOver  BY <1>2 DEF Earned, Estimates
<1>4. PICK t \in absentSince : now - t >= Grace  BY <1>3 DEF GraceOver
<1>5. ASSUME Seen PROVE phase = "finished" /\ now - endedAt >= Grace
  <2>1. phase = "finished" /\ endedAt <= t  BY <1>5 DEF Earned, Absences
  <2>2. now \in Nat /\ endedAt \in Nat /\ t \in Nat /\ Grace \in Nat
    BY BoundsAssumption DEF Earned, Instance, Absences
  <2>3. QED  BY <1>4, <2>1, <2>2
<1>6. Seen /\ ~raced => lastResult = truth  BY <1>5 DEF Earned, Instance
<1>7. EstimateEarned'  BY <1>1, <1>2, <1>3, <1>5, <1>6 DEF EstimateEarned, Seen
<1>8. Estimates'  BY <1>2, <1>7 DEF Estimates
<1>9. Absences'  BY <1>1, <1>2 DEF Earned, Absences, Seen
<1>10. QED  BY <1>1, <1>8, <1>9 DEF Earned

-----------------------------------------------------------------------------

LEMMA StepEarned == Earned /\ [Next]_vars => Earned'
<1> SUFFICES ASSUME Earned, [Next]_vars PROVE Earned'  OBVIOUS
<1>1. CASE pc # "returned" /\ (Engine \/ EventLog \/ Cancel \/ Tick)
  BY <1>1, EarnedEngine, EarnedOutside, EarnedTick
<1>2. CASE ObserveRun
  BY <1>2, EarnedElsewhere, EarnedReadRunning, EarnedNoteAbsence, EarnedDecide,
     EarnedReadLastResult DEF ObserveRun
<1>3. CASE UNCHANGED vars
  BY <1>3 DEF vars, engine, wait, Earned, Instance, Absences, Seen, Estimates, GraceOver,
     EstimateEarned
<1>4. QED  BY <1>1, <1>2, <1>3 DEF Next

\* An estimate has the caller's consent; an instance that ran when the wait
\* began or that a probe has seen since has been over for the grace interval,
\* however often it was missing before; and the estimate is the instance's own
\* result when no other run of the task interferes.
THEOREM EstimateIsEarned == Spec => []EstimateEarned
<1>1. Earned => EstimateEarned  BY DEF Earned, Estimates
<1>2. Spec => []Earned  BY InitEarned, StepEarned, PTL DEF Spec
<1>3. QED  BY <1>1, <1>2, PTL

-----------------------------------------------------------------------------
(***************************************************************************)
(* What a correlation knows about the events it has taken.                 *)
(***************************************************************************)
Final == {"Completed", "Stopped", "Failed"}
Logged == [record : Nat, kind : Kinds, code : MaybeCode, mine : BOOLEAN]
Correlations ==
  [completed : BOOLEAN, record : Nat, action : MaybeCode, terminal : Results \cup {NoCode}]

IsCompletion(e) == e.mine /\ e.kind = "Completed"
IsAction(e) == e.mine /\ e.kind = "ActionCompleted"

\* An event that states the result by itself, and the result it states.
Decides(e) ==
  /\ e.mine
  /\ e.kind = "Stopped" \/ (e.kind \in {"Completed", "Failed"} /\ e.code # NoCode)
Stated(e) == IF e.kind = "Stopped" THEN Or(e.code, Terminated) ELSE e.code

\* What a correlation holds comes from the events of S ...
From(c, S) ==
  /\ c.completed => \E e \in S : IsCompletion(e) /\ (e.code # NoCode => c.terminal # NoCode)
  /\ c.action # NoCode =>
       \E e \in S : IsAction(e) /\ e.record = c.record /\ e.code = c.action
  /\ c.terminal # NoCode => \E e \in S : Decides(e) /\ c.terminal = Stated(e)

\* ... and it has missed nothing in them.
Covers(c, S) ==
  \A e \in S :
    /\ IsCompletion(e) => c.completed
    /\ Decides(e) => c.terminal # NoCode
    /\ IsAction(e) => c.action # NoCode /\ e.record <= c.record

LEMMA UnknownKnowsNothing ==
  Unknown \in Correlations /\ From(Unknown, {}) /\ Covers(Unknown, {}) /\ ResultOf(Unknown) = NoCode
BY DEF Unknown, Correlations, MaybeCode, From, Covers, ResultOf, Or

LEMMA IngestOne ==
  ASSUME NEW c \in Correlations, NEW e \in Logged, NEW S,
         e.kind = "ActionCompleted" => e.code # NoCode,
         \A d \in S : d.record \in Nat
  PROVE  /\ Ingest(c, e) \in Correlations
         /\ From(c, S) => From(Ingest(c, e), S \cup {e})
         /\ Covers(c, S) => Covers(Ingest(c, e), S \cup {e})
<1>1. /\ c.completed \in BOOLEAN /\ c.record \in Nat /\ c.action \in MaybeCode
      /\ c.terminal \in Results \cup {NoCode}
      /\ e.record \in Nat /\ e.kind \in Kinds /\ e.code \in MaybeCode /\ e.mine \in BOOLEAN
  BY DEF Correlations, Logged
<1> DEFINE d == Ingest(c, e)
<1>2. CASE ~e.mine
  <2>1. d = c  BY <1>2 DEF Ingest, Skipped
  <2>2. From(c, S) => From(c, S \cup {e})  BY DEF From
  <2>3. Covers(c, S) => Covers(c, S \cup {e})
    BY <1>2 DEF Covers, IsCompletion, Decides, IsAction
  <2>4. QED  BY <2>1, <2>2, <2>3
<1>3. CASE e.mine /\ e.kind = "Completed"
  <2>1. d = [c EXCEPT !.completed = TRUE, !.terminal = Or(e.code, @)]
    BY <1>3 DEF Ingest, Skipped
  <2>2. /\ d.completed = TRUE /\ d.terminal = Or(e.code, c.terminal)
        /\ d.record = c.record /\ d.action = c.action
    BY <2>1 DEF Correlations
  <2>3. d \in Correlations
    <3>1. Or(e.code, c.terminal) \in Results \cup {NoCode}
      BY <1>1 DEF Or, Results, MaybeCode
    <3>2. QED  BY <2>1, <3>1 DEF Correlations
  <2> HIDE DEF d
  <2>4. /\ e.code # NoCode => d.terminal = e.code
        /\ e.code = NoCode => d.terminal = c.terminal
        /\ c.terminal # NoCode => d.terminal # NoCode
    BY <2>2 DEF Or
  <2>5. From(c, S) => From(d, S \cup {e})
    <3>1. ASSUME From(c, S)  PROVE From(d, S \cup {e})
      <4>1. IsCompletion(e) /\ (e.code # NoCode => d.terminal # NoCode)
        BY <1>3, <2>4 DEF IsCompletion
      <4>2. d.action # NoCode =>
              \E f \in S \cup {e} : IsAction(f) /\ f.record = d.record /\ f.code = d.action
        BY <2>2, <3>1 DEF From
      <4>3. ASSUME d.terminal # NoCode
            PROVE  \E f \in S \cup {e} : Decides(f) /\ d.terminal = Stated(f)
        <5>1. CASE e.code # NoCode
          <6>1. Decides(e) /\ d.terminal = Stated(e)  BY <1>3, <2>4, <5>1 DEF Decides, Stated
          <6>2. QED  BY <6>1
        <5>2. CASE e.code = NoCode  BY <2>4, <3>1, <4>3, <5>2 DEF From
        <5>3. QED  BY <5>1, <5>2
      <4>4. QED  BY <4>1, <4>2, <4>3 DEF From
    <3>2. QED  BY <3>1
  <2>6. Covers(c, S) => Covers(d, S \cup {e})
    <3>1. ~IsAction(e) /\ (Decides(e) => d.terminal # NoCode)
      BY <1>3, <2>4 DEF IsAction, Decides
    <3>2. QED  BY <2>2, <2>4, <3>1 DEF Covers
  <2>7. QED  BY <2>3, <2>5, <2>6 DEF d
<1>4. CASE e.mine /\ e.kind = "Stopped"
  <2>1. d = [c EXCEPT !.terminal = Or(e.code, Terminated)]
    BY <1>4 DEF Ingest, Skipped
  <2>2. /\ d.completed = c.completed /\ d.terminal = Or(e.code, Terminated)
        /\ d.record = c.record /\ d.action = c.action /\ d.terminal # NoCode
    BY <2>1, CodesAssumption DEF Correlations, Or
  <2>3. d \in Correlations
    <3>1. Or(e.code, Terminated) \in Results \cup {NoCode}
      BY <1>1 DEF Or, Results, MaybeCode
    <3>2. QED  BY <2>1, <3>1 DEF Correlations
  <2> HIDE DEF d
  <2>4. Decides(e) /\ d.terminal = Stated(e) /\ ~IsAction(e) /\ ~IsCompletion(e)
    BY <1>4, <2>2 DEF Decides, Stated, IsAction, IsCompletion
  <2>5. From(c, S) => From(d, S \cup {e})  BY <2>2, <2>4 DEF From
  <2>6. Covers(c, S) => Covers(d, S \cup {e})  BY <2>2, <2>4 DEF Covers
  <2>7. QED  BY <2>3, <2>5, <2>6 DEF d
<1>5. CASE e.mine /\ e.kind = "Failed"
  <2>1. d = [c EXCEPT !.terminal = Or(e.code, @)]
    BY <1>5 DEF Ingest, Skipped
  <2>2. /\ d.completed = c.completed /\ d.terminal = Or(e.code, c.terminal)
        /\ d.record = c.record /\ d.action = c.action
    BY <2>1 DEF Correlations
  <2>3. d \in Correlations
    <3>1. Or(e.code, c.terminal) \in Results \cup {NoCode}
      BY <1>1 DEF Or, Results, MaybeCode
    <3>2. QED  BY <2>1, <3>1 DEF Correlations
  <2> HIDE DEF d
  <2>4. /\ e.code # NoCode => d.terminal = e.code /\ Decides(e) /\ Stated(e) = e.code
        /\ e.code = NoCode => d.terminal = c.terminal /\ ~Decides(e)
        /\ c.terminal # NoCode => d.terminal # NoCode
        /\ ~IsAction(e) /\ ~IsCompletion(e)
    BY <1>5, <2>2 DEF Or, Decides, Stated, IsAction, IsCompletion
  <2>5. From(c, S) => From(d, S \cup {e})
    <3>1. CASE e.code # NoCode  BY <2>2, <2>4, <3>1 DEF From
    <3>2. CASE e.code = NoCode  BY <2>2, <2>4, <3>2 DEF From
    <3>3. QED  BY <3>1, <3>2
  <2>6. Covers(c, S) => Covers(d, S \cup {e})  BY <2>2, <2>4 DEF Covers
  <2>7. QED  BY <2>3, <2>5, <2>6 DEF d
<1>6. CASE e.mine /\ e.kind = "ActionCompleted" /\ Newer(c, e)
  <2>1. d = [c EXCEPT !.record = e.record, !.action = e.code]
    BY <1>6 DEF Ingest, Skipped
  <2>2. /\ d.completed = c.completed /\ d.terminal = c.terminal
        /\ d.record = e.record /\ d.action = e.code /\ d.action # NoCode
    BY <1>6, <2>1 DEF Correlations
  <2>3. d \in Correlations  BY <1>1, <2>1 DEF Correlations
  <2> HIDE DEF d
  <2>4. IsAction(e) /\ ~IsCompletion(e) /\ ~Decides(e)
    BY <1>6 DEF IsAction, IsCompletion, Decides
  <2>5. From(c, S) => From(d, S \cup {e})  BY <2>2, <2>4 DEF From
  <2>6. Covers(c, S) => Covers(d, S \cup {e})
    <3>1. ASSUME Covers(c, S), NEW f \in S, IsAction(f)  PROVE f.record <= d.record
      <4>1. c.action # NoCode /\ f.record <= c.record  BY <3>1 DEF Covers
      <4>2. e.record > c.record  BY <1>6, <4>1 DEF Newer
      <4>3. QED  BY <1>1, <2>2, <4>1, <4>2
    <3>2. QED  BY <1>1, <2>2, <2>4, <3>1 DEF Covers
  <2>7. QED  BY <2>3, <2>5, <2>6 DEF d
<1>7. CASE e.mine /\ e.kind = "ActionCompleted" /\ ~Newer(c, e)
  <2>1. d = c  BY <1>7 DEF Ingest, Skipped
  <2>2. c.action # NoCode /\ e.record <= c.record  BY <1>1, <1>7 DEF Newer
  <2>3. ~IsCompletion(e) /\ ~Decides(e)  BY <1>7 DEF IsCompletion, Decides
  <2>4. From(c, S) => From(c, S \cup {e})  BY DEF From
  <2>5. Covers(c, S) => Covers(c, S \cup {e})  BY <2>2, <2>3 DEF Covers
  <2>6. QED  BY <2>1, <2>4, <2>5
<1>8. CASE e.mine /\ e.kind = "ActionFailed"
  <2>1. d = c  BY <1>8 DEF Ingest, Skipped
  <2>2. ~IsCompletion(e) /\ ~Decides(e) /\ ~IsAction(e)
    BY <1>8 DEF IsCompletion, Decides, IsAction
  <2>3. From(c, S) => From(c, S \cup {e})  BY DEF From
  <2>4. Covers(c, S) => Covers(c, S \cup {e})  BY <2>2 DEF Covers
  <2>5. QED  BY <2>1, <2>3, <2>4
<1>9. QED  BY <1>1, <1>2, <1>3, <1>4, <1>5, <1>6, <1>7, <1>8 DEF Kinds

-----------------------------------------------------------------------------
(***************************************************************************)
(* Taking a sequence of events.                                            *)
(***************************************************************************)

\* A set of natural numbers has a least one, so a statement about them with
\* a counterexample has a first one.
LEMMA Least ==
  ASSUME NEW T \in SUBSET Nat, T # {}
  PROVE  \E n \in T : \A m \in T : n <= m
<1> DEFINE R == {p \in Nat \X Nat : p[1] < p[2]}
<1>1. IsWellFoundedOn(R, Nat)  BY NatLessThanWellFounded DEF OpToRel
<1>2. PICK n \in T : \A m \in T : <<m, n>> \notin R  BY <1>1, WFMin
<1>3. \A m \in T : ~(m < n)  BY <1>2
<1>4. QED  BY <1>3

\* f[k] is the correlation after the first k events, up to the first n.
Takes(f, c, s, n) ==
  f = [k \in 0..n |-> IF k = 0 THEN c ELSE Ingest(f[k - 1], s[k])]

\* The recursion has a solution, so that IngestAll is one.
LEMMA TakesExists ==
  ASSUME NEW c, NEW s, NEW l \in Nat
  PROVE  \E f : Takes(f, c, s, l)
<1> DEFINE T == {n \in Nat : ~\E f : Takes(f, c, s, n)}
<1>1. ASSUME NEW n \in T, \A m \in T : n <= m  PROVE FALSE
  <2>1. CASE n = 0
    <3> DEFINE f == [k \in 0..0 |-> c]
    <3>1. Takes(f, c, s, 0)  BY DEF Takes
    <3>2. QED  BY <1>1, <2>1, <3>1
  <2>2. CASE n # 0
    <3>1. n - 1 \in Nat /\ n - 1 \notin T  BY <1>1, <2>2
    <3>2. PICK g : Takes(g, c, s, n - 1)  BY <3>1
    <3> DEFINE last == Ingest(g[n - 1], s[n])
               f == [k \in 0..n |-> IF k = n THEN last ELSE g[k]]
    <3>3. \A k \in 0..(n - 1) : f[k] = g[k] /\ f[n] = last  BY <3>1
    <3>4. \A k \in 0..(n - 1) : g[k] = IF k = 0 THEN c ELSE Ingest(g[k - 1], s[k])
      BY <3>2 DEF Takes
    <3> DEFINE h == [k \in 0..n |-> IF k = 0 THEN c ELSE Ingest(f[k - 1], s[k])]
    <3>5. ASSUME NEW k \in 0..n  PROVE f[k] = h[k]
      <4>1. CASE k = n
        <5>1. f[n - 1] = g[n - 1]  BY <3>1, <3>3
        <5>2. f[n] = last /\ h[n] = last  BY <2>2, <3>1, <5>1
        <5>3. QED  BY <4>1, <5>2
      <4>2. CASE k # n /\ k # 0
        <5>1. k \in 0..(n - 1) /\ k - 1 \in 0..(n - 1)  BY <3>1, <4>2
        <5>2. f[k] = g[k] /\ f[k - 1] = g[k - 1]  BY <3>3, <5>1
        <5>3. h[k] = Ingest(f[k - 1], s[k])  BY <4>2
        <5>4. g[k] = Ingest(g[k - 1], s[k])  BY <3>4, <4>2, <5>1
        <5>5. QED  BY <5>2, <5>3, <5>4
      <4>3. CASE k = 0 /\ k # n
        <5>1. k \in 0..(n - 1)  BY <3>1, <4>3
        <5>2. f[k] = g[k] /\ g[k] = c  BY <3>3, <3>4, <4>3, <5>1
        <5>3. h[k] = c  BY <4>3
        <5>4. QED  BY <5>2, <5>3
      <4>4. QED  BY <4>1, <4>2, <4>3
    <3>6. f = h  BY <3>5
    <3>7. QED  BY <1>1, <3>6 DEF Takes
  <2>3. QED  BY <2>1, <2>2
<1>2. T = {}  BY <1>1, Least
<1>3. QED  BY <1>2

LEMMA IngestAllTakes ==
  ASSUME NEW c, NEW s, Len(s) \in Nat
  PROVE  \E f : Takes(f, c, s, Len(s)) /\ IngestAll(c, s) = f[Len(s)]
<1> DEFINE f == CHOOSE g : Takes(g, c, s, Len(s))
<1>1. Takes(f, c, s, Len(s))  BY TakesExists
<1>2. IngestAll(c, s) = f[Len(s)]  BY DEF IngestAll, Takes
<1>3. QED  BY <1>1, <1>2

\* A record of the log, with the result that an action always has.
Sound(e) == e \in Logged /\ (e.kind = "ActionCompleted" => e.code # NoCode)

\* After a sequence of events a correlation holds what it held before and
\* what these events say, nothing else and nothing less.
LEMMA IngestSequence ==
  ASSUME NEW c \in Correlations, NEW S, NEW s, Len(s) \in Nat,
         \A i \in 1..Len(s) : Sound(s[i]),
         \A d \in S : d.record \in Nat
  PROVE  LET r == IngestAll(c, s)
             taken == S \cup {s[i] : i \in 1..Len(s)}
         IN /\ r \in Correlations
            /\ From(c, S) => From(r, taken)
            /\ Covers(c, S) => Covers(r, taken)
<1> DEFINE first(n) == {s[i] : i \in 1..n}
<1>1. PICK f : Takes(f, c, s, Len(s)) /\ IngestAll(c, s) = f[Len(s)]  BY IngestAllTakes
<1> DEFINE Good(n) == /\ f[n] \in Correlations
                      /\ From(c, S) => From(f[n], S \cup first(n))
                      /\ Covers(c, S) => Covers(f[n], S \cup first(n))
           T == {n \in 0..Len(s) : ~Good(n)}
<1>2. \A k \in 0..Len(s) : f[k] = IF k = 0 THEN c ELSE Ingest(f[k - 1], s[k])
  BY <1>1 DEF Takes
<1>3. Good(0)
  <2>1. f[0] = c  BY <1>2
  <2>2. S \cup first(0) = S  OBVIOUS
  <2>3. QED  BY <2>1, <2>2
<1>4. ASSUME NEW n \in 1..Len(s), Good(n - 1)  PROVE Good(n)
  <2>1. f[n] = Ingest(f[n - 1], s[n])
    <3>1. n \in 0..Len(s) /\ n # 0  OBVIOUS
    <3>2. QED  BY <1>2, <3>1
  <2>2. S \cup first(n) = (S \cup first(n - 1)) \cup {s[n]}
    <3>1. \A i : i \in 1..n <=> i \in 1..(n - 1) \/ i = n  OBVIOUS
    <3>2. QED  BY <3>1
  <2> DEFINE b == f[n - 1]
             e == s[n]
             U == S \cup first(n - 1)
  <2>3. e \in Logged /\ (e.kind = "ActionCompleted" => e.code # NoCode)  BY DEF Sound
  <2>4. \A d \in U : d.record \in Nat
    <3>1. \A i \in 1..(n - 1) : i \in 1..Len(s)  OBVIOUS
    <3>2. \A i \in 1..(n - 1) : s[i].record \in Nat  BY <3>1 DEF Sound, Logged
    <3>3. QED  BY <3>2
  <2>5. b \in Correlations  BY <1>4
  <2>6. (From(c, S) => From(b, U)) /\ (Covers(c, S) => Covers(b, U))  BY <1>4
  <2>7. f[n] = Ingest(b, e) /\ S \cup first(n) = U \cup {e}  BY <2>1, <2>2
  <2> HIDE DEF b, e, U
  <2>8. /\ Ingest(b, e) \in Correlations
        /\ From(b, U) => From(Ingest(b, e), U \cup {e})
        /\ Covers(b, U) => Covers(Ingest(b, e), U \cup {e})
    BY <2>3, <2>4, <2>5, IngestOne
  <2> HIDE DEF first
  <2>9. QED  BY <2>6, <2>7, <2>8
<1>5. T = {}
  <2>1. ASSUME NEW n \in T, \A m \in T : n <= m  PROVE FALSE
    <3> HIDE DEF Good
    <3>1. n # 0  BY <1>3, <2>1
    <3>2. n \in 1..Len(s) /\ n - 1 \in 0..Len(s) /\ ~(n <= n - 1)  BY <2>1, <3>1
    <3>3. Good(n - 1)  BY <2>1, <3>2
    <3>4. Good(n)  BY <1>4, <3>2, <3>3
    <3>5. QED  BY <2>1, <3>4
  <2>2. T \in SUBSET Nat  OBVIOUS
  <2>3. QED  BY <2>1, <2>2, Least
<1>6. Good(Len(s))
  <2> HIDE DEF Good
  <2>1. Len(s) \in 0..Len(s)  OBVIOUS
  <2>2. QED  BY <1>5, <2>1
<1>7. QED  BY <1>1, <1>6

-----------------------------------------------------------------------------
(***************************************************************************)
(* The log and the end of the instance.                                    *)
(***************************************************************************)

\* The log shows a part of what was written, in its order.
Log ==
  /\ written \in Seq(Logged)
  /\ \A i \in DOMAIN written :
       /\ written[i].record = i
       /\ written[i].kind = "ActionCompleted" => written[i].code # NoCode
  /\ shown \in Nat /\ gone \in Nat /\ gone <= shown /\ shown <= Len(written)
  /\ Cardinality(Own) <= MaxActions + 1
  /\ phase # "finished" => Cardinality(Own) <= MaxActions
  /\ phase \in {"waiting", "running", "finished"}

\* The end of the instance is its last event; it states the result, or leaves
\* it to the last completed action.
Ends ==
  /\ \A i \in DOMAIN written :
       /\ written[i].mine /\ written[i].kind \in Final => phase = "finished"
       /\ Decides(written[i]) => Stated(written[i]) = truth
  /\ \A i, k \in DOMAIN written :
       IsCompletion(written[i]) /\ IsAction(written[k]) =>
         /\ k < i
         /\ written[i].code = NoCode /\ (\A j \in DOMAIN written : IsAction(written[j]) => j <= k)
              => truth = written[k].code

LEMMA LogParts ==
  ASSUME Log
  PROVE  /\ Len(written) \in Nat /\ DOMAIN written = 1..Len(written)
         /\ \A i \in DOMAIN written : Sound(written[i]) /\ written[i] \in ToSet(written)
         /\ \A e \in ToSet(written) : e.record \in DOMAIN written /\ written[e.record] = e
         /\ IsFiniteSet(Own) /\ Cardinality(Own) \in Nat
<1>1. Len(written) \in Nat /\ DOMAIN written = 1..Len(written)
      /\ \A i \in 1..Len(written) : written[i] \in Logged
  BY ElementOfSeq, LenProperties DEF Log
<1>2. \A i \in DOMAIN written : Sound(written[i]) /\ written[i] \in ToSet(written)
  BY <1>1 DEF Log, Sound, ToSet
<1>3. \A e \in ToSet(written) : e.record \in DOMAIN written /\ written[e.record] = e
  BY DEF Log, ToSet
<1>4. IsFiniteSet(1..Len(written))  BY <1>1, FS_Interval
<1>5. Own \subseteq 1..Len(written)  BY <1>1 DEF Own
<1>6. IsFiniteSet(Own)  BY <1>4, <1>5, FS_Subset
<1>7. Cardinality(Own) \in Nat  BY <1>6, FS_CardinalityType
<1>8. QED  BY <1>1, <1>2, <1>3, <1>6, <1>7

-----------------------------------------------------------------------------
(***************************************************************************)
(* What a scan of the log reads.                                           *)
(***************************************************************************)
LEMMA WindowParts ==
  ASSUME Log
  PROVE  /\ Len(Window) = shown - gone /\ Len(Window) \in Nat
         /\ DOMAIN Window = 1..Len(Window)
         /\ \A i \in 1..Len(Window) : /\ shown - i + 1 \in DOMAIN written
                                      /\ Window[i] = written[shown - i + 1]
<1> DEFINE d == SubSeq(written, gone + 1, shown)
           m == shown - gone
<1>1. /\ Len(written) \in Nat /\ DOMAIN written = 1..Len(written)
      /\ \A i \in DOMAIN written : written[i] \in Logged
  BY LogParts DEF Sound
<1>2. shown \in Nat /\ gone \in Nat /\ gone <= shown /\ shown <= Len(written)  BY DEF Log
<1>3. \A i \in (gone + 1)..shown : written[i] \in Logged  BY <1>1, <1>2
<1>4. /\ d \in Seq(Logged) /\ Len(d) = IF gone + 1 <= shown THEN shown - (gone + 1) + 1 ELSE 0
      /\ \A i \in 1..(shown - (gone + 1) + 1) : d[i] = written[(gone + 1) + i - 1]
  BY <1>2, <1>3, SubSeqProperties
<1>5. m \in Nat /\ Len(d) = m  BY <1>2, <1>4
<1>6. Window = [i \in 1..Len(d) |-> d[(Len(d) - i) + 1]]  BY DEF Window, Reverse
<1> HIDE DEF d
<1>7. Window = [i \in 1..m |-> d[(m - i) + 1]]  BY <1>5, <1>6
<1>8. Len(Window) = m /\ DOMAIN Window = 1..m  BY <1>5, <1>7
<1>9. ASSUME NEW i \in 1..m
      PROVE  shown - i + 1 \in DOMAIN written /\ Window[i] = written[shown - i + 1]
  <2>1. (m - i) + 1 \in 1..(shown - (gone + 1) + 1)
        /\ (gone + 1) + ((m - i) + 1) - 1 = shown - i + 1
    BY <1>2, <1>5
  <2>2. Window[i] = d[(m - i) + 1]  BY <1>7
  <2>3. shown - i + 1 \in 1..Len(written)  BY <1>1, <1>2
  <2>4. QED  BY <1>1, <1>4, <2>1, <2>2, <2>3
<1>10. QED  BY <1>5, <1>8, <1>9

LEMMA ScanParts ==
  ASSUME Log, NEW n \in 0..Len(Window)
  PROVE  /\ Len(Scan(n)) = n
         /\ \A i \in 1..n : /\ shown - i + 1 \in DOMAIN written
                            /\ Scan(n)[i] = written[shown - i + 1]
                            /\ Sound(Scan(n)[i])
<1>1. /\ Len(Window) \in Nat /\ n \in Nat /\ n <= Len(Window)
      /\ \A i \in 1..Len(Window) : /\ shown - i + 1 \in DOMAIN written
                                   /\ Window[i] = written[shown - i + 1]
      /\ \A i \in DOMAIN written : Sound(written[i])
  BY WindowParts, LogParts
<1>2. \A i \in 1..n : /\ shown - i + 1 \in DOMAIN written
                      /\ Window[i] = written[shown - i + 1] /\ Sound(Window[i])
  <2>1. \A i \in 1..n : i \in 1..Len(Window)  BY <1>1
  <2>2. QED  BY <1>1, <2>1
<1>3. \A i \in 1..n : Window[i] \in Logged  BY <1>2 DEF Sound
<1>4. /\ Len(Scan(n)) = IF 1 <= n THEN n - 1 + 1 ELSE 0
      /\ \A i \in 1..(n - 1 + 1) : Scan(n)[i] = Window[1 + i - 1]
  BY <1>1, <1>3, SubSeqProperties DEF Scan
<1>5. Len(Scan(n)) = n /\ \A i \in 1..n : Scan(n)[i] = Window[i]
  <2>1. \A i \in 1..n : i \in 1..(n - 1 + 1) /\ 1 + i - 1 = i  BY <1>1
  <2>2. QED  BY <1>1, <1>4, <2>1
<1>6. QED  BY <1>2, <1>5

\* The records of a scan are the n newest ones the log shows.
LEMMA ScanTakes ==
  ASSUME Log, NEW n \in 0..Len(Window), NEW j \in DOMAIN written
  PROVE  shown - n < j /\ j <= shown => written[j] \in {Scan(n)[i] : i \in 1..n}
<1>1. shown \in Nat /\ n \in Nat /\ j \in Nat  BY LogParts, WindowParts DEF Log
<1>2. ASSUME shown - n < j, j <= shown  PROVE written[j] \in {Scan(n)[i] : i \in 1..n}
  <2>1. shown - j + 1 \in 1..n /\ shown - (shown - j + 1) + 1 = j  BY <1>1, <1>2
  <2>2. Scan(n)[shown - j + 1] = written[j]  BY <2>1, ScanParts
  <2>3. QED  BY <2>1, <2>2
<1>3. QED  BY <1>2

LEMMA ScanEnded ==
  ASSUME Log
  PROVE  /\ Scanned \in 0..Len(Window)
         /\ Enough(Scanned) \/ Scanned = Len(Window)
<1>1. Len(Window) \in Nat  BY WindowParts
<1>2. ScanEnds \in SUBSET Nat /\ ScanEnds # {} /\ ScanEnds \subseteq 0..Len(Window)
      /\ \A n \in ScanEnds : Enough(n) \/ n = Len(Window)
  BY <1>1 DEF ScanEnds
<1>3. \E n \in ScanEnds : \A m \in ScanEnds : n <= m  BY <1>2, Least
<1>4. Scanned \in ScanEnds  BY <1>3 DEF Scanned
<1>5. QED  BY <1>2, <1>4

\* A scan that has found as many events as it wants has read every event of
\* the instance: there is room for more than an instance writes.
LEMMA WantedSuffices ==
  ASSUME Log, NEW n \in 0..Len(Window), Matching(n) = Wanted, NEW j \in Own
  PROVE  shown - n < j /\ j <= shown
<1> DEFINE M == {i \in 1..n : ~Skipped(Window[i])}
           f == [i \in M |-> shown - i + 1]
<1>1. /\ Len(Window) \in Nat /\ n \in Nat /\ n <= Len(Window) /\ shown \in Nat
      /\ \A i \in 1..Len(Window) : /\ shown - i + 1 \in DOMAIN written
                                   /\ Window[i] = written[shown - i + 1]
  BY WindowParts DEF Log
<1>2. f \in Injection(M, Own)
  <2>1. \A i \in M : shown - i + 1 \in Own
    <3>1. ASSUME NEW i \in M  PROVE shown - i + 1 \in Own
      <4>1. i \in 1..Len(Window)  BY <1>1
      <4>2. written[shown - i + 1].mine  BY <1>1, <4>1 DEF Skipped
      <4>3. QED  BY <1>1, <4>1, <4>2 DEF Own
    <3>2. QED  BY <3>1
  <2>2. f \in [M -> Own]  BY <2>1
  <2>3. \A a, b \in DOMAIN f : f[a] = f[b] => a = b  BY <1>1
  <2>4. QED  BY <2>2, <2>3 DEF Injection, IsInjective
<1>3. IsFiniteSet(Own) /\ Cardinality(Own) \in Nat  BY LogParts
<1> HIDE DEF f
<1>4. /\ Cardinality(M) <= Cardinality(Own)
      /\ Cardinality(M) = Cardinality(Own) <=> f \in Surjection(M, Own)
  BY <1>2, <1>3, FS_Injection
<1>5. Cardinality(M) = Wanted  BY DEF Matching
<1>6. Cardinality(Own) <= Wanted
  <2>1. Cardinality(Own) <= MaxActions + 1  BY DEF Log
  <2>2. QED  BY <1>3, <2>1, WantedAssumption, BoundsAssumption
<1>7. f \in Surjection(M, Own)
  <2>1. Wanted \in Nat  BY BoundsAssumption
  <2>2. QED  BY <1>3, <1>4, <1>5, <1>6, <2>1
<1>8. PICK i \in M : f[i] = j  BY <1>7 DEF Surjection
<1>9. j = shown - i + 1 /\ i \in 1..n  BY <1>8 DEF f
<1>10. QED  BY <1>1, <1>9

-----------------------------------------------------------------------------
(***************************************************************************)
(* What a probe of the history learns.                                     *)
(***************************************************************************)
LEMMA ResultParts ==
  ASSUME NEW c
  PROVE  /\ ResultOf(c) = NoCode <=>
              c.terminal = NoCode /\ (c.completed => c.action = NoCode)
         /\ c.terminal # NoCode => ResultOf(c) = c.terminal
         /\ c.terminal = NoCode /\ ResultOf(c) # NoCode =>
              c.completed /\ c.action # NoCode /\ ResultOf(c) = c.action
BY DEF ResultOf, Or

\* The events that a probe has read.
Probed == {Scan(Scanned)[i] : i \in 1..Scanned}

\* They are all of the instance's that the log shows, or they have
\* established a result.
Reaches(d, S) ==
  \/ \A j \in Own : gone < j /\ j <= shown => written[j] \in S
  \/ /\ ResultOf(d) # NoCode
     /\ d.terminal = NoCode => \E a \in S : IsAction(a)

\* A probe takes the events it has read, and they are enough.
LEMMA ProbeTakes ==
  ASSUME Log, NEW c \in Correlations, NEW T \in SUBSET ToSet(written), From(c, T)
  PROVE  LET d == IngestAll(c, Scan(Scanned))
         IN /\ d \in Correlations /\ From(d, T \cup Probed) /\ Covers(d, Probed)
            /\ Probed \subseteq ToSet(written)
            /\ Reaches(d, Probed)
<1> DEFINE n == Scanned
           s == Scan(n)
           d == IngestAll(c, s)
           r == IngestAll(Unknown, s)
           S == {s[i] : i \in 1..n}
<1>1. n \in 0..Len(Window) /\ (Enough(n) \/ n = Len(Window)) /\ Len(Window) \in Nat
  BY ScanEnded, WindowParts
<1> HIDE DEF n
<1>2. Len(s) = n /\ n \in Nat
      /\ \A i \in 1..n : shown - i + 1 \in DOMAIN written /\ s[i] = written[shown - i + 1] /\ Sound(s[i])
  BY <1>1, ScanParts
<1>3. S \subseteq ToSet(written)
  <2>1. \A i \in 1..n : s[i] \in ToSet(written)  BY <1>2, LogParts
  <2>2. QED  BY <2>1
<1>4. \A e \in T : e.record \in Nat
  <2>1. \A i \in DOMAIN written : written[i].record \in Nat  BY LogParts DEF Sound, Logged
  <2>2. QED  BY <2>1 DEF ToSet
<1> HIDE DEF s
<1>5. d \in Correlations /\ From(d, T \cup S)
  <2>1. Len(s) \in Nat /\ \A i \in 1..Len(s) : Sound(s[i])  BY <1>2
  <2>2. S = {s[i] : i \in 1..Len(s)}  BY <1>2
  <2>3. d \in Correlations /\ From(d, T \cup {s[i] : i \in 1..Len(s)})
    BY <1>4, <2>1, IngestSequence
  <2>4. QED  BY <2>2, <2>3
<1>6. Covers(d, S)
  <2>1. Len(s) \in Nat /\ \A i \in 1..Len(s) : Sound(s[i])  BY <1>2
  <2>2. {} \cup S = {} \cup {s[i] : i \in 1..Len(s)}  BY <1>2
  <2>3. Covers(c, {}) => Covers(d, {} \cup {s[i] : i \in 1..Len(s)})
    BY <2>1, IngestSequence
  <2>4. Covers(c, {}) /\ {} \cup S = S  BY DEF Covers
  <2>5. QED  BY <2>2, <2>3, <2>4
<1>7. From(r, S)
  <2>1. Len(s) \in Nat /\ \A i \in 1..Len(s) : Sound(s[i])  BY <1>2
  <2>2. {} \cup S = {} \cup {s[i] : i \in 1..Len(s)}  BY <1>2
  <2>3. From(Unknown, {}) => From(r, {} \cup S)
    BY <2>1, <2>2, IngestSequence, UnknownKnowsNothing
  <2>4. From(Unknown, {}) /\ {} \cup S = S  BY UnknownKnowsNothing
  <2>5. QED  BY <2>3, <2>4
<1> HIDE DEF d, r
<1>8. Probed = S  BY DEF Probed, n, s
<1> HIDE DEF S
<1>9. ASSUME ResultOf(r) # NoCode  PROVE Reaches(d, S)
  <2>1. CASE r.terminal # NoCode
    <3>1. d.terminal # NoCode  BY <1>6, <1>7, <2>1 DEF From, Covers
    <3>2. ResultOf(d) # NoCode  BY <3>1, ResultParts
    <3>3. QED  BY <3>1, <3>2 DEF Reaches
  <2>2. CASE r.terminal = NoCode
    <3>1. r.completed /\ r.action # NoCode  BY <1>9, <2>2, ResultParts
    <3>2. PICK a \in S : IsAction(a)  BY <1>7, <3>1 DEF From
    <3>3. d.completed
      <4>1. PICK e \in S : IsCompletion(e)  BY <1>7, <3>1 DEF From
      <4>2. QED  BY <1>6, <4>1 DEF Covers
    <3>4. d.action # NoCode  BY <1>6, <3>2 DEF Covers
    <3>5. ResultOf(d) # NoCode  BY <3>3, <3>4, ResultParts
    <3>6. QED  BY <3>2, <3>5 DEF Reaches
  <2>3. QED  BY <2>1, <2>2
<1>10. ASSUME ResultOf(r) = NoCode  PROVE Reaches(d, S)
  <2>1. ASSUME NEW j \in Own, gone < j, j <= shown  PROVE written[j] \in S
    <3>1. j \in DOMAIN written /\ shown \in Nat /\ gone \in Nat  BY DEF Own, Log
    <3>2. shown - n < j
      <4>1. CASE n = Len(Window)
        <5>1. n = shown - gone  BY <4>1, WindowParts
        <5>2. j \in Nat  BY <3>1, LogParts
        <5>3. QED  BY <2>1, <3>1, <5>1, <5>2
      <4>2. CASE Enough(n)
        <5>1. Matching(n) = Wanted  BY <1>10, <4>2 DEF Enough, r, s
        <5>2. QED  BY <1>1, <2>1, <5>1, WantedSuffices
      <4>3. QED  BY <1>1, <4>1, <4>2
    <3>3. QED  BY <1>1, <2>1, <3>1, <3>2, ScanTakes DEF S, s
  <2>2. QED  BY <2>1 DEF Reaches
<1>11. Reaches(d, S)  BY <1>9, <1>10
<1>12. QED  BY <1>3, <1>5, <1>6, <1>8, <1>11 DEF d, s, n

\* The events read are the newest ones the log shows.
LEMMA ProbedParts ==
  ASSUME Log
  PROVE  /\ Scanned \in Nat
         /\ \A e \in Probed : /\ e.record \in DOMAIN written /\ written[e.record] = e
                              /\ shown - Scanned < e.record /\ e.record <= shown
         /\ \A j \in DOMAIN written : shown - Scanned < j /\ j <= shown => written[j] \in Probed
<1> DEFINE n == Scanned
<1>1. n \in 0..Len(Window) /\ n \in Nat /\ shown \in Nat  BY ScanEnded, WindowParts DEF Log
<1>2. \A i \in 1..n : /\ shown - i + 1 \in DOMAIN written
                      /\ Scan(n)[i] = written[shown - i + 1]
  BY <1>1, ScanParts
<1>3. ASSUME NEW i \in 1..n
      PROVE  /\ Scan(n)[i].record \in DOMAIN written /\ written[Scan(n)[i].record] = Scan(n)[i]
             /\ shown - n < Scan(n)[i].record /\ Scan(n)[i].record <= shown
  <2>1. Scan(n)[i].record = shown - i + 1  BY <1>2 DEF Log
  <2>2. shown - n < shown - i + 1 /\ shown - i + 1 <= shown  BY <1>1
  <2>3. QED  BY <1>2, <2>1, <2>2
<1>4. \A e \in Probed : /\ e.record \in DOMAIN written /\ written[e.record] = e
                        /\ shown - n < e.record /\ e.record <= shown
  BY <1>3 DEF Probed
<1>5. \A j \in DOMAIN written : shown - n < j /\ j <= shown => written[j] \in Probed
  BY <1>1, ScanTakes DEF Probed
<1>6. QED  BY <1>1, <1>4, <1>5

\* All completed actions of the instance have been dropped.
ActionsGone == \A k \in DOMAIN written : IsAction(written[k]) => k <= gone

\* A probe that establishes no result has not read one, and a completion
\* whose action it does not know lost it with the log.
LEMMA ProbeSilent ==
  ASSUME Log, Ends, NEW d \in Correlations, NEW completed \in BOOLEAN,
         completed => ActionsGone,
         d.completed => completed \/ \E e \in Probed : IsCompletion(e),
         Covers(d, Probed), Reaches(d, Probed), ResultOf(d) = NoCode
  PROVE  (d.completed => ActionsGone) /\ ~Decisive(ToSet(Window))
<1>1. d.terminal = NoCode /\ (d.completed => d.action = NoCode)  BY ResultParts
<1>2. \A j \in Own : gone < j /\ j <= shown => written[j] \in Probed  BY DEF Reaches
<1>3. shown \in Nat /\ gone \in Nat /\ DOMAIN written \subseteq Nat  BY LogParts DEF Log
<1>4. ASSUME d.completed, ~completed, NEW k \in DOMAIN written, IsAction(written[k])
      PROVE  k <= gone
  <2>1. PICK e \in Probed : IsCompletion(e)  BY <1>4
  <2>2. e.record \in DOMAIN written /\ written[e.record] = e /\ e.record <= shown
    BY ProbedParts
  <2>3. k < e.record  BY <1>4, <2>1, <2>2 DEF Ends
  <2>4. k <= shown  BY <1>3, <2>2, <2>3
  <2>5. k \in Own  BY <1>4 DEF Own, IsAction
  <2>6. written[k] \notin Probed  BY <1>1, <1>4 DEF Covers
  <2>7. QED  BY <1>2, <1>3, <2>4, <2>5, <2>6
<1>5. ASSUME NEW e \in ToSet(Window), e.mine  PROVE e \in Probed
  <2>1. PICK i \in 1..Len(Window) : e = Window[i]  BY <1>5, WindowParts DEF ToSet
  <2>2. shown - i + 1 \in DOMAIN written /\ e = written[shown - i + 1]
    BY <2>1, WindowParts
  <2>3. gone < shown - i + 1 /\ shown - i + 1 <= shown  BY <1>3, <2>1, WindowParts
  <2>4. shown - i + 1 \in Own  BY <1>5, <2>2 DEF Own
  <2>5. QED  BY <1>2, <2>2, <2>3, <2>4
<1>6. ASSUME Decisive(ToSet(Window))  PROVE FALSE
  <2>1. PICK e \in ToSet(Window) :
          /\ e.mine
          /\ \/ e.kind = "Stopped"
             \/ e.kind \in {"Completed", "Failed"} /\ e.code # NoCode
             \/ /\ e.kind = "Completed"
                /\ \E a \in ToSet(Window) : a.mine /\ a.kind = "ActionCompleted"
    BY <1>6 DEF Decisive
  <2>2. e \in Probed  BY <1>5, <2>1
  <2>3. ~Decides(e)  BY <1>1, <2>2 DEF Covers
  <2>4. IsCompletion(e) /\ \E a \in ToSet(Window) : IsAction(a)
    BY <2>1, <2>3 DEF Decides, IsCompletion, IsAction
  <2>5. PICK a \in ToSet(Window) : IsAction(a)  BY <2>4
  <2>6. a \in Probed  BY <1>5, <2>5 DEF IsAction
  <2>7. d.completed /\ d.action # NoCode  BY <2>2, <2>4, <2>5, <2>6 DEF Covers
  <2>8. QED  BY <1>1, <2>7
<1>7. d.completed => ActionsGone  BY <1>4 DEF ActionsGone
<1>8. QED  BY <1>6, <1>7

\* A probe that establishes a result establishes the true one, unless the log
\* has dropped an action of the instance.
LEMMA ProbeTrue ==
  ASSUME Log, Ends, NEW d \in Correlations, NEW completed \in BOOLEAN,
         completed => ActionsGone, From(d, ToSet(written)),
         d.completed =>
           \/ completed
           \/ \E e \in Probed : IsCompletion(e) /\ (e.code # NoCode => d.terminal # NoCode),
         Covers(d, Probed), Reaches(d, Probed), ResultOf(d) # NoCode
  PROVE  /\ phase = "finished"
         /\ \/ ResultOf(d) = truth
            \/ \E i \in 1..gone : written[i].mine /\ written[i].kind = "ActionCompleted"
<1>1. shown \in Nat /\ gone \in Nat /\ DOMAIN written = 1..Len(written) /\ Len(written) \in Nat
      /\ \A e \in ToSet(written) : e.record \in DOMAIN written /\ written[e.record] = e
  BY LogParts DEF Log
<1>2. CASE d.terminal # NoCode
  <2>1. PICK e \in ToSet(written) : Decides(e) /\ d.terminal = Stated(e)  BY <1>2 DEF From
  <2>2. e.record \in DOMAIN written /\ written[e.record] = e  BY <1>1
  <2>3. Stated(e) = truth  BY <2>1, <2>2 DEF Ends
  <2>4. e.mine /\ e.kind \in Final  BY <2>1 DEF Decides, Final
  <2>5. phase = "finished"  BY <2>2, <2>4 DEF Ends
  <2>6. ResultOf(d) = d.terminal  BY <1>2, ResultParts
  <2>7. QED  BY <2>1, <2>3, <2>5, <2>6
<1>3. CASE d.terminal = NoCode
  <2>1. d.completed /\ d.action # NoCode /\ ResultOf(d) = d.action  BY <1>3, ResultParts
  <2>2. PICK a \in ToSet(written) : IsAction(a) /\ a.record = d.record /\ a.code = d.action
    BY <2>1 DEF From
  <2> DEFINE k == d.record
  <2>3. k \in DOMAIN written /\ written[k] = a  BY <1>1, <2>2
  <2>4. phase = "finished"
    <3>1. PICK e \in ToSet(written) : IsCompletion(e)  BY <2>1 DEF From
    <3>2. e.record \in DOMAIN written /\ written[e.record] = e  BY <1>1
    <3>3. QED  BY <3>1, <3>2 DEF Ends, IsCompletion, Final
  <2>5. CASE k <= gone
    <3>1. k \in 1..gone  BY <1>1, <2>3, <2>5
    <3>2. written[k].mine /\ written[k].kind = "ActionCompleted"  BY <2>2, <2>3 DEF IsAction
    <3>3. QED  BY <2>4, <3>1, <3>2
  <2>6. CASE ~(k <= gone)
    <3>1. ~completed  BY <2>2, <2>3, <2>6 DEF ActionsGone
    <3>2. PICK e \in Probed : IsCompletion(e) /\ (e.code # NoCode => d.terminal # NoCode)
      BY <2>1, <3>1
    <3>3. e.record \in DOMAIN written /\ written[e.record] = e /\ e.record <= shown
      BY ProbedParts
    <3>4. ASSUME NEW j \in DOMAIN written, IsAction(written[j])  PROVE j <= k
      <4>1. j < e.record  BY <3>2, <3>3, <3>4 DEF Ends
      <4>2. j <= shown  BY <1>1, <3>3, <4>1
      <4>3. j \in Own /\ written[j].record = j  BY <3>4 DEF Own, IsAction, Log
      <4>4. written[j] \in Probed => j <= k  BY <3>4, <4>3 DEF Covers
      <4>5. CASE j <= gone  BY <1>1, <2>3, <2>6, <4>5
      <4>6. CASE gone < j /\ \A h \in Own : gone < h /\ h <= shown => written[h] \in Probed
        BY <4>2, <4>3, <4>4, <4>6
      <4>7. CASE \E b \in Probed : IsAction(b)
        <5>1. PICK b \in Probed : IsAction(b)  BY <4>7
        <5>2. b.record \in DOMAIN written /\ shown - Scanned < b.record /\ Scanned \in Nat
          BY ProbedParts
        <5>3. b.record <= k  BY <5>1 DEF Covers
        <5>4. CASE j < b.record  BY <1>1, <2>3, <5>2, <5>3, <5>4
        <5>5. CASE ~(j < b.record)
          <6>1. shown - Scanned < j  BY <1>1, <5>2, <5>5
          <6>2. QED  BY <4>2, <4>4, <6>1, ProbedParts
        <5>6. QED  BY <5>4, <5>5
      <4>8. QED  BY <1>1, <1>3, <4>5, <4>6, <4>7 DEF Reaches
    <3>5. e.code = NoCode  BY <1>3, <3>2
    <3>6. truth = written[k].code  BY <2>2, <2>3, <3>2, <3>3, <3>4, <3>5 DEF Ends
    <3>7. QED  BY <2>1, <2>2, <2>3, <2>4, <3>6
  <2>7. QED  BY <2>5, <2>6
<1>4. QED  BY <1>2, <1>3

LEMMA ProbeReads ==
  ASSUME Log, Ends, NEW c \in Correlations, From(c, ToSet(written)), ResultOf(c) = NoCode,
         c.completed => ActionsGone
  PROVE  LET d == IngestAll(c, Scan(Scanned))
         IN /\ d \in Correlations /\ From(d, ToSet(written))
            /\ ResultOf(d) = NoCode => (d.completed => ActionsGone) /\ ~Decisive(ToSet(Window))
            /\ ResultOf(d) # NoCode =>
                 /\ phase = "finished"
                 /\ \/ ResultOf(d) = truth
                    \/ \E i \in 1..gone : written[i].mine /\ written[i].kind = "ActionCompleted"
<1> DEFINE d == IngestAll(c, Scan(Scanned))
           T == {e \in ToSet(written) : IsCompletion(e) => c.completed}
<1>1. From(c, T)
  <2>1. c.terminal = NoCode  BY ResultParts
  <2>2. \A e \in ToSet(written) : IsAction(e) => e \in T  BY DEF IsAction, IsCompletion
  <2>3. c.completed => T = ToSet(written)  OBVIOUS
  <2>4. c.completed => \E e \in T : IsCompletion(e) /\ (e.code # NoCode => c.terminal # NoCode)
    BY <2>3 DEF From
  <2>5. c.action # NoCode =>
          \E e \in T : IsAction(e) /\ e.record = c.record /\ e.code = c.action
    BY <2>2 DEF From
  <2>6. QED  BY <2>1, <2>4, <2>5 DEF From
<1>2. T \in SUBSET ToSet(written)  OBVIOUS
<1>3. /\ d \in Correlations /\ From(d, T \cup Probed) /\ Covers(d, Probed)
      /\ Probed \subseteq ToSet(written) /\ Reaches(d, Probed)
  BY <1>1, <1>2, ProbeTakes
<1>4. c.completed \in BOOLEAN  BY DEF Correlations
<1> HIDE DEF d
<1>5. From(d, ToSet(written))
  <2>1. T \cup Probed \subseteq ToSet(written)  BY <1>2, <1>3
  <2>2. QED  BY <1>3, <2>1 DEF From
<1>6. d.completed =>
        \/ c.completed
        \/ \E e \in Probed : IsCompletion(e) /\ (e.code # NoCode => d.terminal # NoCode)
  BY <1>3 DEF From
<1>7. ResultOf(d) = NoCode => (d.completed => ActionsGone) /\ ~Decisive(ToSet(Window))
  BY <1>3, <1>4, <1>6, ProbeSilent
<1>8. ResultOf(d) # NoCode =>
        /\ phase = "finished"
        /\ \/ ResultOf(d) = truth
           \/ \E i \in 1..gone : written[i].mine /\ written[i].kind = "ActionCompleted"
  BY <1>3, <1>4, <1>5, <1>6, ProbeTrue
<1>9. QED  BY <1>3, <1>5, <1>7, <1>8 DEF d

-----------------------------------------------------------------------------
(***************************************************************************)
(* Every step keeps the log, the end of the instance and what the wait     *)
(* knows of them.                                                          *)
(***************************************************************************)

\* A wait that goes on has no result, and a completion without one has lost
\* its action with the log.
Informed ==
  /\ correlation \in Correlations
  /\ From(correlation, ToSet(written))
  /\ pc # "returned" =>
       /\ ResultOf(correlation) = NoCode
       /\ correlation.completed => ActionsGone
       /\ outcome.kind = "none"
  /\ ~overlooked
  /\ ExactIsTrue

\* An event joins the log after all others.
LEMMA Appended ==
  ASSUME Log, NEW kind \in Kinds, NEW code \in MaybeCode, NEW mine \in BOOLEAN,
         kind = "ActionCompleted" => code # NoCode, Emit(kind, code, mine)
  PROVE  LET n == Len(written) + 1
             e == Event(kind, code, mine)
         IN /\ written' \in Seq(Logged) /\ Len(written') = n /\ n \in Nat \ DOMAIN written
            /\ DOMAIN written' = DOMAIN written \cup {n}
            /\ \A i \in DOMAIN written : written'[i] = written[i]
            /\ written'[n] = e /\ e.kind = kind /\ e.code = code /\ e.mine = mine
            /\ \A i \in DOMAIN written' :
                 /\ written'[i].record = i
                 /\ written'[i].kind = "ActionCompleted" => written'[i].code # NoCode
            /\ ToSet(written) \subseteq ToSet(written')
            /\ Cardinality(Own') = Cardinality(Own) + IF mine THEN 1 ELSE 0
<1> DEFINE n == Len(written) + 1
           e == Event(kind, code, mine)
<1>1. /\ Len(written) \in Nat /\ DOMAIN written = 1..Len(written) /\ written \in Seq(Logged)
      /\ IsFiniteSet(Own) /\ Cardinality(Own) \in Nat
  BY LogParts DEF Log
<1>2. e = [record |-> n, kind |-> kind, code |-> code, mine |-> mine]  BY DEF Event
<1>3. e \in Logged  BY <1>1, <1>2 DEF Logged
<1>4. written' = Append(written, e)  BY DEF Emit
<1>5. e.record = n /\ e.kind = kind /\ e.code = code /\ e.mine = mine  BY <1>2
<1> HIDE DEF e
<1>6. /\ written' \in Seq(Logged) /\ Len(written') = n
      /\ \A i \in 1..Len(written) : written'[i] = written[i]
      /\ written'[n] = e
  BY <1>1, <1>3, <1>4, AppendProperties
<1>7. DOMAIN written' = 1..n  BY <1>6, LenProperties
<1>8. n \in Nat \ DOMAIN written /\ DOMAIN written' = DOMAIN written \cup {n}
  BY <1>1, <1>7
<1>9. \A i \in DOMAIN written' :
        /\ written'[i].record = i
        /\ written'[i].kind = "ActionCompleted" => written'[i].code # NoCode
  <2>1. \A i \in DOMAIN written :
          /\ written'[i].record = i
          /\ written'[i].kind = "ActionCompleted" => written'[i].code # NoCode
    BY <1>1, <1>6 DEF Log
  <2>2. QED  BY <1>5, <1>6, <1>8, <2>1
<1>10. ToSet(written) \subseteq ToSet(written')
  <2>1. \A i \in DOMAIN written : i \in DOMAIN written' /\ written[i] = written'[i]
    BY <1>1, <1>6, <1>8
  <2>2. QED  BY <2>1 DEF ToSet
<1>11. Cardinality(Own') = Cardinality(Own) + IF mine THEN 1 ELSE 0
  <2>1. \A i \in DOMAIN written : written'[i].mine <=> written[i].mine  BY <1>1, <1>6
  <2>2. written'[n].mine <=> mine  BY <1>5, <1>6
  <2>3. Own' = {i \in DOMAIN written' : written'[i].mine}  BY DEF Own
  <2>4. CASE mine
    <3>1. Own' = Own \cup {n} /\ n \notin Own  BY <1>8, <2>1, <2>2, <2>3, <2>4 DEF Own
    <3>2. Cardinality(Own \cup {n}) = Cardinality(Own) + 1  BY <1>1, <3>1, FS_AddElement
    <3>3. QED  BY <2>4, <3>1, <3>2
  <2>5. CASE ~mine
    <3>1. Own' = Own  BY <1>8, <2>1, <2>2, <2>3, <2>5 DEF Own
    <3>2. QED  BY <1>1, <2>5, <3>1
  <2>6. QED  BY <2>4, <2>5
<1>12. QED  BY <1>5, <1>6, <1>8, <1>9, <1>10, <1>11, <1>1 DEF e

\* An instance that has not finished has no final event.
LEMMA Unfinished ==
  ASSUME Log, Ends, phase # "finished"
  PROVE  /\ \A i \in DOMAIN written : ~Decides(written[i]) /\ ~IsCompletion(written[i])
         /\ Informed => ~correlation.completed
<1>1. \A i \in DOMAIN written : ~Decides(written[i]) /\ ~IsCompletion(written[i])
  BY DEF Ends, Final, Decides, IsCompletion
<1>2. ASSUME Informed, correlation.completed  PROVE FALSE
  <2>1. PICK e \in ToSet(written) : IsCompletion(e)  BY <1>2 DEF Informed, From
  <2>2. PICK i \in DOMAIN written : e = written[i]  BY <2>1, LogParts
  <2>3. QED  BY <1>1, <2>1, <2>2
<1>3. QED  BY <1>1, <1>2

LEMMA AppendedLog ==
  ASSUME Log, NEW kind \in Kinds, NEW code \in MaybeCode, NEW mine \in BOOLEAN,
         kind = "ActionCompleted" => code # NoCode, Emit(kind, code, mine),
         UNCHANGED visible, phase' \in {"waiting", "running", "finished"},
         phase = "finished" => phase' = "finished",
         mine => phase # "finished" /\ (phase' = "finished" \/ Cardinality(Own) < MaxActions)
  PROVE  Log'
<1>1. /\ written' \in Seq(Logged) /\ Len(written') = Len(written) + 1
      /\ \A i \in DOMAIN written' :
           /\ written'[i].record = i
           /\ written'[i].kind = "ActionCompleted" => written'[i].code # NoCode
      /\ Cardinality(Own') = Cardinality(Own) + IF mine THEN 1 ELSE 0
  BY Appended
<1>2. Cardinality(Own) \in Nat /\ Len(written) \in Nat  BY LogParts
<1>3. shown' = shown /\ gone' = gone  BY DEF visible
<1>4. shown' \in Nat /\ gone' \in Nat /\ gone' <= shown' /\ shown' <= Len(written')
  BY <1>1, <1>2, <1>3 DEF Log
<1>5. /\ Cardinality(Own)' <= MaxActions + 1
      /\ phase' # "finished" => Cardinality(Own)' <= MaxActions
  <2>1. /\ Cardinality(Own) <= MaxActions + 1
        /\ phase # "finished" => Cardinality(Own) <= MaxActions
    BY DEF Log
  <2>2. MaxActions \in Nat  BY WantedAssumption
  <2>3. CASE mine
    <3>1. Cardinality(Own') = Cardinality(Own) + 1  BY <1>1, <2>3
    <3>2. Cardinality(Own) <= MaxActions  BY <2>1, <2>3
    <3>3. phase' # "finished" => Cardinality(Own) < MaxActions  BY <2>3
    <3> DEFINE o == Cardinality(Own)
               q == Cardinality(Own')
    <3>4. o \in Nat /\ q = o + 1 /\ o <= MaxActions
      BY <1>2, <3>1, <3>2
    <3> HIDE DEF o, q
    <3>5. q <= MaxActions + 1 /\ (o < MaxActions => q <= MaxActions)  BY <2>2, <3>4
    <3>6. QED  BY <3>3, <3>5 DEF o, q
  <2>4. CASE ~mine
    <3>1. Cardinality(Own') = Cardinality(Own)  BY <1>1, <1>2, <2>4
    <3>2. phase' # "finished" => phase # "finished"  OBVIOUS
    <3>3. QED  BY <2>1, <3>1, <3>2
  <2>5. QED  BY <2>3, <2>4
<1>6. QED  BY <1>1, <1>4, <1>5 DEF Log

\* The instance's actions end before the instance does.
LEMMA ActionKeepsEnds ==
  ASSUME Log, Ends, NEW kind \in {"ActionCompleted", "ActionFailed"}, NEW code \in MaybeCode,
         kind = "ActionCompleted" => code # NoCode, Emit(kind, code, TRUE), phase # "finished"
  PROVE  Ends'
<1> DEFINE n == Len(written) + 1
           e == Event(kind, code, TRUE)
<1>1. /\ DOMAIN written' = DOMAIN written \cup {n}
      /\ \A i \in DOMAIN written : written'[i] = written[i]
      /\ written'[n] = e /\ e.kind = kind
  <2>1. kind \in Kinds /\ TRUE \in BOOLEAN  BY DEF Kinds
  <2>2. QED  BY <2>1, Appended
<1>2. ~(e.kind \in Final) /\ ~Decides(e) /\ ~IsCompletion(e)
  BY <1>1 DEF Final, Decides, IsCompletion
<1>3. \A i \in DOMAIN written : /\ ~(written[i].mine /\ written[i].kind \in Final)
                                /\ ~Decides(written[i]) /\ ~IsCompletion(written[i])
  BY Unfinished DEF Ends
<1> HIDE DEF e
<1>4. \A i \in DOMAIN written' : /\ ~(written'[i].mine /\ written'[i].kind \in Final)
                                 /\ ~Decides(written'[i]) /\ ~IsCompletion(written'[i])
  BY <1>1, <1>2, <1>3
<1>5. QED  BY <1>4 DEF Ends

\* The final event of the instance states its result, or leaves it to the
\* last action.
LEMMA FinalKeepsEnds ==
  ASSUME Log, Ends, NEW kind \in Final, NEW code \in MaybeCode, Emit(kind, code, TRUE),
         phase # "finished", phase' = "finished",
         kind = "Stopped" => truth' = Or(code, Terminated),
         kind # "Stopped" /\ code # NoCode => truth' = code,
         kind = "Completed" /\ code = NoCode => truth' = LastAction
  PROVE  Ends'
<1> DEFINE n == Len(written) + 1
           e == Event(kind, code, TRUE)
<1>1. /\ DOMAIN written' = DOMAIN written \cup {n} /\ n \in Nat \ DOMAIN written
      /\ \A i \in DOMAIN written : written'[i] = written[i]
      /\ written'[n] = e /\ e.kind = kind /\ e.code = code /\ e.mine
  <2>1. kind \in Kinds /\ kind # "ActionCompleted" /\ TRUE \in BOOLEAN  BY DEF Kinds, Final
  <2>2. /\ DOMAIN written' = DOMAIN written \cup {n} /\ n \in Nat \ DOMAIN written
        /\ \A i \in DOMAIN written : written'[i] = written[i]
        /\ written'[n] = e
    BY <2>1, Appended
  <2>3. e.kind = kind /\ e.code = code /\ e.mine  BY DEF Event
  <2>4. QED  BY <2>2, <2>3
<1>2. Decides(e) => Stated(e) = truth'  BY <1>1 DEF Decides, Stated, Final
<1>3. ~IsAction(e)  BY <1>1 DEF IsAction, Final
<1>4. \A i \in DOMAIN written : ~Decides(written[i]) /\ ~IsCompletion(written[i])
  BY Unfinished
<1>5. DOMAIN written = 1..Len(written) /\ Len(written) \in Nat  BY LogParts
<1>6. IsCompletion(e) => kind = "Completed"  BY <1>1 DEF IsCompletion
<1>7. e.code = code  BY <1>1
<1> HIDE DEF e
<1>8. \A i \in DOMAIN written' : Decides(written'[i]) => Stated(written'[i]) = truth'
  BY <1>1, <1>2, <1>4
<1>9. ASSUME NEW i \in DOMAIN written', NEW k \in DOMAIN written',
             IsCompletion(written'[i]), IsAction(written'[k])
      PROVE  /\ k < i
             /\ written'[i].code = NoCode
                /\ (\A j \in DOMAIN written' : IsAction(written'[j]) => j <= k)
                  => truth' = written'[k].code
  <2>1. i = n /\ written'[i] = e  BY <1>1, <1>4, <1>9
  <2>2. k \in DOMAIN written /\ written'[k] = written[k]  BY <1>1, <1>3, <1>9
  <2>3. k < i  BY <1>5, <2>1, <2>2
  <2>4. ASSUME written'[i].code = NoCode,
               \A j \in DOMAIN written' : IsAction(written'[j]) => j <= k
        PROVE  truth' = written'[k].code
    <3> DEFINE ends == {m \in DOMAIN written : /\ written[m].mine
                                               /\ written[m].kind = "ActionCompleted"}
    <3>1. truth' = LastAction  BY <1>6, <1>7, <1>9, <2>1, <2>4
    <3>2. k \in ends  BY <1>9, <2>2 DEF IsAction
    <3>3. \A j \in ends : j <= k
      <4>1. \A j \in ends : j \in DOMAIN written' /\ IsAction(written'[j])
        BY <1>1 DEF IsAction
      <4>2. QED  BY <2>4, <4>1
    <3>4. ends \in SUBSET Nat  BY <1>5
    <3> DEFINE last == CHOOSE m \in ends : \A j \in ends : j <= m
    <3>5. LastAction = written[last].code  BY <3>2 DEF LastAction
    <3> HIDE DEF ends
    <3>6. last \in ends /\ \A j \in ends : j <= last  BY <3>2, <3>3
    <3> HIDE DEF last
    <3>7. last = k
      <4>1. last <= k /\ k <= last /\ last \in Nat /\ k \in Nat  BY <3>2, <3>3, <3>4, <3>6
      <4>2. QED  BY <4>1
    <3>8. QED  BY <2>2, <3>1, <3>5, <3>7
  <2>5. QED  BY <2>3, <2>4
<1>10. QED  BY <1>8, <1>9 DEF Ends

LEMMA OthersKeepEnds ==
  ASSUME Log, Ends, NEW kind \in Kinds, NEW code \in Codes, Emit(kind, code, FALSE),
         UNCHANGED <<phase, truth, gone>>
  PROVE  Ends' /\ (ActionsGone => ActionsGone')
<1> DEFINE n == Len(written) + 1
           e == Event(kind, code, FALSE)
<1>1. code \in MaybeCode /\ code # NoCode  BY CodesAssumption DEF MaybeCode
<1>2. /\ DOMAIN written' = DOMAIN written \cup {n} /\ n \notin DOMAIN written
      /\ \A i \in DOMAIN written : written'[i] = written[i]
      /\ written'[n] = e /\ e.mine = FALSE
  BY <1>1, Appended
<1>3. ~e.mine /\ ~Decides(e) /\ ~IsCompletion(e) /\ ~IsAction(e)
  BY <1>2 DEF Decides, IsCompletion, IsAction
<1> HIDE DEF e
<1>4. \A i \in DOMAIN written' :
        /\ written'[i].mine /\ written'[i].kind \in Final => phase' = "finished"
        /\ Decides(written'[i]) => Stated(written'[i]) = truth'
  <2>1. \A i \in DOMAIN written :
          /\ written'[i].mine /\ written'[i].kind \in Final => phase' = "finished"
          /\ Decides(written'[i]) => Stated(written'[i]) = truth'
    BY <1>2 DEF Ends
  <2>2. QED  BY <1>2, <1>3, <2>1
<1>5. \A i \in DOMAIN written' :
        IsCompletion(written'[i]) \/ IsAction(written'[i]) =>
          i \in DOMAIN written /\ written'[i] = written[i]
  BY <1>2, <1>3
<1>6. ASSUME NEW i \in DOMAIN written', NEW k \in DOMAIN written',
             IsCompletion(written'[i]), IsAction(written'[k])
      PROVE  /\ k < i
             /\ written'[i].code = NoCode
                /\ (\A j \in DOMAIN written' : IsAction(written'[j]) => j <= k)
                  => truth' = written'[k].code
  <2>1. /\ i \in DOMAIN written /\ written'[i] = written[i]
        /\ k \in DOMAIN written /\ written'[k] = written[k]
    BY <1>5, <1>6
  <2>2. IsCompletion(written[i]) /\ IsAction(written[k])  BY <1>6, <2>1
  <2>3. /\ k < i
        /\ written[i].code = NoCode /\ (\A j \in DOMAIN written : IsAction(written[j]) => j <= k)
             => truth = written[k].code
    BY <2>1, <2>2 DEF Ends
  <2>4. (\A j \in DOMAIN written' : IsAction(written'[j]) => j <= k) =>
          \A j \in DOMAIN written : IsAction(written[j]) => j <= k
    BY <1>2
  <2>5. QED  BY <2>1, <2>3, <2>4
<1>7. ActionsGone => ActionsGone'  BY <1>5 DEF ActionsGone
<1>8. QED  BY <1>4, <1>6, <1>7 DEF Ends

Known == Log /\ Ends /\ Informed

LEMMA InitKnown == Init => Known
<1>1. ASSUME Init  PROVE Known
  <2>1. written = <<>> /\ shown = 0 /\ gone = 0 /\ phase \in {"waiting", "running", "finished"}
    BY <1>1 DEF Init
  <2>2. Own = {}  BY <2>1 DEF Own
  <2>3. Cardinality(Own) = 0  BY <2>2, FS_EmptySet
  <2>4. written \in Seq(Logged) /\ Len(written) = 0 /\ DOMAIN written = {}
    BY <2>1
  <2>5. Log  BY <2>1, <2>3, <2>4, WantedAssumption DEF Log
  <2>6. Ends  BY <2>4 DEF Ends
  <2>7. correlation = Unknown /\ overlooked = FALSE /\ outcome.kind = "none"
    BY <1>1 DEF Init
  <2>8. From(Unknown, ToSet(written)) /\ ~Unknown.completed  BY DEF From, Unknown
  <2>9. Informed  BY <2>7, <2>8, UnknownKnowsNothing DEF Informed, ExactIsTrue
  <2>10. QED  BY <2>5, <2>6, <2>9 DEF Known
<1>2. QED  BY <1>1

\* What the wait knows stays true while it does not move.
LEMMA InformedKept ==
  ASSUME Informed, pc # "returned", UNCHANGED wait, ToSet(written) \subseteq ToSet(written'),
         correlation.completed => (ActionsGone => ActionsGone')
  PROVE  Informed'
<1>1. /\ correlation' = correlation /\ pc' = pc /\ outcome' = outcome /\ overlooked' = overlooked
  BY DEF wait
<1>2. From(correlation, ToSet(written'))  BY DEF Informed, From
<1>3. From(correlation, ToSet(written))'  BY <1>1, <1>2
<1>4. correlation.completed => ActionsGone'  BY DEF Informed
<1>5. outcome.kind = "none" /\ ResultOf(correlation) = NoCode  BY DEF Informed
<1>6. ExactIsTrue'  BY <1>1, <1>5 DEF ExactIsTrue
<1>7. QED  BY <1>1, <1>3, <1>4, <1>5, <1>6 DEF Informed, ResultOf

LEMMA StartKnown ==
  ASSUME Known, pc # "returned", Start, UNCHANGED <<visible, wait>>
  PROVE  Known'
<1>1. Log /\ Ends /\ Informed  BY DEF Known
<1>2. phase = "waiting" /\ phase' = "running" /\ UNCHANGED <<truth, written, shown, gone>>
  BY DEF Start, visible
<1>3. Own' = Own  BY <1>2 DEF Own
<1>4. Log'  BY <1>1, <1>2, <1>3 DEF Log
<1>5. \A i \in DOMAIN written : ~(written[i].mine /\ written[i].kind \in Final)
  BY <1>1, <1>2 DEF Ends
<1>6. Ends'  BY <1>1, <1>2, <1>5 DEF Ends
<1>7. Informed'
  <2>1. ToSet(written) \subseteq ToSet(written')  BY <1>2
  <2>2. ~correlation.completed  BY <1>1, <1>2, Unfinished
  <2>3. QED  BY <1>1, <2>1, <2>2, InformedKept
<1>8. QED  BY <1>4, <1>6, <1>7 DEF Known

\* An own event written before the end of the instance.
LEMMA OwnEventInforms ==
  ASSUME Known, pc # "returned", NEW kind \in Kinds, NEW code \in MaybeCode,
         kind = "ActionCompleted" => code # NoCode, Emit(kind, code, TRUE),
         phase # "finished", UNCHANGED wait
  PROVE  Informed'
<1>1. Log /\ Ends /\ Informed  BY DEF Known
<1>2. TRUE \in BOOLEAN  OBVIOUS
<1>3. ToSet(written) \subseteq ToSet(written')  BY <1>1, <1>2, Appended
<1>4. ~correlation.completed  BY <1>1, Unfinished
<1>5. QED  BY <1>1, <1>3, <1>4, InformedKept

LEMMA ActionKnown ==
  ASSUME Known, pc # "returned", ActionEnds, UNCHANGED <<visible, wait>>
  PROVE  Known'
<1>1. Log /\ Ends /\ Informed  BY DEF Known
<1>2. PICK kind \in {"ActionCompleted", "ActionFailed"}, code \in MaybeCode :
        (kind = "ActionCompleted" => code # NoCode) /\ Emit(kind, code, TRUE)
  <2>1. CASE \E code \in Codes : Emit("ActionCompleted", code, TRUE)
    BY <2>1, CodesAssumption DEF MaybeCode
  <2>2. CASE Emit("ActionFailed", NoCode, TRUE)
    <3>1. NoCode \in MaybeCode  BY DEF MaybeCode
    <3>2. QED  BY <2>2, <3>1
  <2>3. QED  BY <2>1, <2>2 DEF ActionEnds
<1>3. kind \in Kinds /\ TRUE \in BOOLEAN  BY DEF Kinds
<1>4. /\ phase = "running" /\ phase' = phase /\ Cardinality(Own) < MaxActions
      /\ UNCHANGED visible /\ UNCHANGED wait
  BY DEF ActionEnds
<1>5. phase # "finished" /\ phase' \in {"waiting", "running", "finished"}  BY <1>4
<1>6. Log'  BY <1>1, <1>2, <1>3, <1>4, <1>5, AppendedLog
<1>7. Ends'  BY <1>1, <1>2, <1>5, ActionKeepsEnds
<1>8. Informed'  BY <1>2, <1>3, <1>4, <1>5, OwnEventInforms
<1>9. QED  BY <1>6, <1>7, <1>8 DEF Known

\* The three ends of an instance.
LEMMA FinalKnown ==
  ASSUME Known, pc # "returned", Complete \/ Stop \/ FailStart, UNCHANGED <<visible, wait>>
  PROVE  Known'
<1>1. Log /\ Ends /\ Informed  BY DEF Known
<1>2. NoCode \in MaybeCode /\ Codes \subseteq MaybeCode  BY DEF MaybeCode
<1>3. /\ phase \in {"waiting", "running"} /\ phase' = "finished"
      /\ UNCHANGED visible /\ UNCHANGED wait
  BY DEF Complete, Stop, FailStart, Finish
<1>4. PICK kind \in Final, code \in MaybeCode :
        /\ Emit(kind, code, TRUE)
        /\ kind = "Stopped" => truth' = Or(code, Terminated)
        /\ kind # "Stopped" /\ code # NoCode => truth' = code
        /\ kind = "Completed" /\ code = NoCode => truth' = LastAction
  <2>1. ASSUME NEW code \in Codes, Emit("Completed", code, TRUE), Finish(code)
        PROVE  \E kind \in Final, any \in MaybeCode :
                 /\ Emit(kind, any, TRUE)
                 /\ kind = "Stopped" => truth' = Or(any, Terminated)
                 /\ kind # "Stopped" /\ any # NoCode => truth' = any
                 /\ kind = "Completed" /\ any = NoCode => truth' = LastAction
    <3>1. truth' = code /\ code # NoCode  BY <2>1, CodesAssumption DEF Finish
    <3>2. QED  BY <1>2, <2>1, <3>1 DEF Final
  <2>2. ASSUME Emit("Completed", NoCode, TRUE), Finish(LastAction)
        PROVE  \E kind \in Final, any \in MaybeCode :
                 /\ Emit(kind, any, TRUE)
                 /\ kind = "Stopped" => truth' = Or(any, Terminated)
                 /\ kind # "Stopped" /\ any # NoCode => truth' = any
                 /\ kind = "Completed" /\ any = NoCode => truth' = LastAction
    <3>1. truth' = LastAction  BY <2>2 DEF Finish
    <3>2. QED  BY <1>2, <2>2, <3>1 DEF Final
  <2>3. ASSUME NEW code \in MaybeCode, Emit("Stopped", code, TRUE),
               Finish(IF code = NoCode THEN Terminated ELSE code)
        PROVE  \E kind \in Final, any \in MaybeCode :
                 /\ Emit(kind, any, TRUE)
                 /\ kind = "Stopped" => truth' = Or(any, Terminated)
                 /\ kind # "Stopped" /\ any # NoCode => truth' = any
                 /\ kind = "Completed" /\ any = NoCode => truth' = LastAction
    <3>1. truth' = Or(code, Terminated)  BY <2>3 DEF Finish, Or
    <3>2. QED  BY <2>3, <3>1 DEF Final
  <2>4. ASSUME NEW code \in MaybeCode, Emit("Failed", code, TRUE), Finish(code)
        PROVE  \E kind \in Final, any \in MaybeCode :
                 /\ Emit(kind, any, TRUE)
                 /\ kind = "Stopped" => truth' = Or(any, Terminated)
                 /\ kind # "Stopped" /\ any # NoCode => truth' = any
                 /\ kind = "Completed" /\ any = NoCode => truth' = LastAction
    <3>1. truth' = code  BY <2>4 DEF Finish
    <3>2. QED  BY <2>4, <3>1 DEF Final
  <2>5. QED  BY <2>1, <2>2, <2>3, <2>4 DEF Complete, Stop, FailStart
<1>5. /\ kind \in Kinds /\ kind # "ActionCompleted" /\ TRUE \in BOOLEAN /\ phase # "finished"
      /\ phase' \in {"waiting", "running", "finished"}
  BY <1>3 DEF Kinds, Final
<1>6. Log'  BY <1>1, <1>3, <1>4, <1>5, AppendedLog
<1>7. Ends'  BY <1>1, <1>3, <1>4, <1>5, FinalKeepsEnds
<1>8. Informed'  BY <1>3, <1>4, <1>5, OwnEventInforms
<1>9. QED  BY <1>6, <1>7, <1>8 DEF Known

LEMMA OtherRunKnown ==
  ASSUME Known, pc # "returned", OtherRun, UNCHANGED <<visible, wait>>
  PROVE  Known'
<1>1. Log /\ Ends /\ Informed  BY DEF Known
<1>2. PICK kind \in {"Completed", "ActionCompleted"}, code \in Codes : Emit(kind, code, FALSE)
  BY DEF OtherRun
<1>3. /\ kind \in Kinds /\ code \in MaybeCode /\ code # NoCode /\ FALSE \in BOOLEAN
  BY CodesAssumption DEF Kinds, MaybeCode
<1>4. UNCHANGED <<phase, truth, gone>> /\ UNCHANGED visible /\ UNCHANGED wait
  BY DEF OtherRun, visible
<1>5. phase' \in {"waiting", "running", "finished"} /\ phase' = phase  BY <1>1, <1>4 DEF Log
<1>6. Log'  BY <1>1, <1>2, <1>3, <1>4, <1>5, AppendedLog
<1>7. Ends' /\ (ActionsGone => ActionsGone')  BY <1>1, <1>2, <1>3, <1>4, OthersKeepEnds
<1>8. ToSet(written) \subseteq ToSet(written')  BY <1>1, <1>2, <1>3, Appended
<1>9. Informed'  BY <1>1, <1>4, <1>7, <1>8, InformedKept
<1>10. QED  BY <1>6, <1>7, <1>9 DEF Known

LEMMA EventLogKnown ==
  ASSUME Known, pc # "returned", EventLog
  PROVE  Known'
<1>1. Log /\ Ends /\ Informed  BY DEF Known
<1>2. UNCHANGED <<phase, truth, written>> /\ UNCHANGED wait  BY DEF EventLog, engine
<1>3. /\ shown' \in Nat /\ gone' \in Nat /\ gone' <= shown' /\ shown' <= Len(written)
      /\ gone <= gone'
  <2>1. /\ shown \in Nat /\ gone \in Nat /\ gone <= shown /\ shown <= Len(written)
        /\ Len(written) \in Nat
    BY <1>1, LogParts DEF Log
  <2>2. CASE Show
    <3>1. PICK n \in shown + 1..Len(written) : shown' = n /\ gone' = gone  BY <2>2 DEF Show
    <3>2. QED  BY <2>1, <3>1
  <2>3. CASE Drop
    <3>1. PICK n \in gone + 1..shown : gone' = n /\ shown' = shown  BY <2>3 DEF Drop
    <3>2. QED  BY <2>1, <3>1
  <2>4. QED  BY <2>2, <2>3 DEF EventLog
<1>4. Own' = Own  BY <1>2 DEF Own
<1>5. Log'  BY <1>1, <1>2, <1>3, <1>4 DEF Log
<1>6. Ends'  BY <1>1, <1>2 DEF Ends
<1>7. Informed'
  <2>1. DOMAIN written \subseteq Nat /\ gone \in Nat  BY <1>1, LogParts DEF Log
  <2>2. ActionsGone => ActionsGone'  BY <1>2, <1>3, <2>1 DEF ActionsGone
  <2>3. ToSet(written) \subseteq ToSet(written')  BY <1>2
  <2>4. QED  BY <1>1, <1>2, <2>2, <2>3, InformedKept
<1>8. QED  BY <1>5, <1>6, <1>7 DEF Known

\* Neither the wait nor the clock writes events.
LEMMA Quiet ==
  ASSUME Log, Ends, UNCHANGED <<engine, visible>>
  PROVE  Log' /\ Ends' /\ UNCHANGED <<phase, truth, written, shown, gone>>
<1>1. UNCHANGED <<phase, truth, written, shown, gone>>  BY DEF engine, visible
<1>2. Own' = Own  BY <1>1 DEF Own
<1>3. Log'  BY <1>1, <1>2 DEF Log
<1>4. Ends'  BY <1>1 DEF Ends
<1>5. QED  BY <1>1, <1>3, <1>4

LEMMA ReadHistoryKnown ==
  ASSUME Known, ReadHistory, UNCHANGED <<engine, visible>>
  PROVE  Known'
<1>1. Log /\ Ends /\ Informed  BY DEF Known
<1>2. Log' /\ Ends' /\ UNCHANGED <<phase, truth, written, shown, gone>>  BY <1>1, Quiet
<1> DEFINE d == IngestAll(correlation, Scan(Scanned))
<1>3. /\ correlation \in Correlations /\ From(correlation, ToSet(written))
      /\ ResultOf(correlation) = NoCode /\ (correlation.completed => ActionsGone)
      /\ outcome.kind = "none"
  BY <1>1 DEF Informed, ReadHistory
<1>4. /\ d \in Correlations /\ From(d, ToSet(written))
      /\ ResultOf(d) = NoCode => (d.completed => ActionsGone) /\ ~Decisive(ToSet(Window))
      /\ ResultOf(d) # NoCode =>
           /\ phase = "finished"
           /\ \/ ResultOf(d) = truth
              \/ \E i \in 1..gone : written[i].mine /\ written[i].kind = "ActionCompleted"
  BY <1>1, <1>3, ProbeReads
<1>5. /\ correlation' = d
      /\ overlooked' = (Decisive(ToSet(Window)) /\ pc' = "running")
      /\ IF ResultOf(d) # NoCode THEN Return("exact", ResultOf(d))
         ELSE pc' = "running" /\ UNCHANGED outcome
  BY DEF ReadHistory
<1> HIDE DEF d
<1>6. From(correlation, ToSet(written))'  BY <1>2, <1>4, <1>5
<1>7. CASE ResultOf(d) # NoCode
  <2>1. pc' = "returned" /\ outcome'.kind = "exact" /\ outcome'.code = ResultOf(d)
    BY <1>5, <1>7 DEF Return
  <2>2. ExactIsTrue'  BY <1>2, <1>4, <1>7, <2>1 DEF ExactIsTrue
  <2>3. ~overlooked'  BY <1>5, <2>1
  <2>4. Informed'  BY <1>4, <1>5, <1>6, <2>1, <2>2, <2>3 DEF Informed
  <2>5. QED  BY <1>2, <2>4 DEF Known
<1>8. CASE ResultOf(d) = NoCode
  <2>1. pc' = "running" /\ outcome' = outcome  BY <1>5, <1>8
  <2>2. ExactIsTrue'  BY <1>3, <2>1 DEF ExactIsTrue
  <2>3. ~overlooked'  BY <1>4, <1>5, <1>8
  <2>4. ResultOf(correlation)' = NoCode  BY <1>5, <1>8 DEF ResultOf
  <2>5. correlation'.completed => ActionsGone'  BY <1>2, <1>4, <1>5, <1>8 DEF ActionsGone
  <2>6. Informed'  BY <1>3, <1>4, <1>5, <1>6, <2>1, <2>2, <2>3, <2>4, <2>5 DEF Informed
  <2>7. QED  BY <1>2, <2>6 DEF Known
<1>9. QED  BY <1>7, <1>8

\* The other steps of the wait learn nothing from the history, and none of
\* them returns an exact result.
LEMMA OtherStepsKnown ==
  ASSUME Known, UNCHANGED <<engine, visible>>,
         \/ Check \/ HistoryFails \/ ReadRunning \/ NoteAbsence
         \/ Decide \/ ReadLastResult \/ ProbeFails \/ Sleep
  PROVE  Known'
<1>1. Log /\ Ends /\ Informed  BY DEF Known
<1>2. Log' /\ Ends' /\ UNCHANGED <<phase, truth, written, shown, gone>>  BY <1>1, Quiet
<1>3. /\ pc # "returned" /\ UNCHANGED <<correlation, overlooked>>
      /\ \/ UNCHANGED outcome
         \/ pc' = "returned" /\ outcome'.kind \in {"cancelled", "timeout", "error", "estimate"}
  BY DEF Check, HistoryFails, ReadRunning, NoteAbsence, Decide, ReadLastResult, ProbeFails,
     Sleep, Return
<1>4. outcome.kind = "none"  BY <1>1, <1>3 DEF Informed
<1>5. outcome'.kind # "exact"  BY <1>3, <1>4
<1>6. ExactIsTrue'  BY <1>5 DEF ExactIsTrue
<1>7. From(correlation, ToSet(written))'  BY <1>1, <1>2, <1>3 DEF Informed
<1>8. ActionsGone' <=> ActionsGone  BY <1>2 DEF ActionsGone
<1>9. ResultOf(correlation)' = ResultOf(correlation)  BY <1>3
<1>10. pc' # "returned" => outcome'.kind = "none"  BY <1>3, <1>4
<1>11. Informed'  BY <1>1, <1>3, <1>6, <1>7, <1>8, <1>9, <1>10 DEF Informed
<1>12. QED  BY <1>2, <1>11 DEF Known

LEMMA StillKnown ==
  ASSUME Known, UNCHANGED <<engine, visible, wait>>
  PROVE  Known'
<1>1. Log /\ Ends /\ Informed  BY DEF Known
<1>2. Log' /\ Ends' /\ UNCHANGED <<phase, truth, written, shown, gone>>  BY <1>1, Quiet
<1>3. UNCHANGED <<correlation, overlooked, outcome, pc>>  BY DEF wait
<1>4. Informed'  BY <1>1, <1>2, <1>3 DEF Informed, ExactIsTrue, ActionsGone
<1>5. QED  BY <1>2, <1>4 DEF Known

LEMMA StepKnown == Known /\ [Next]_vars => Known'
<1> SUFFICES ASSUME Known, [Next]_vars  PROVE Known'
  OBVIOUS
<1>1. CASE pc # "returned" /\ Engine
  <2>1. UNCHANGED <<visible, wait>>  BY <1>1 DEF Engine
  <2>2. CASE Start  BY <1>1, <2>1, <2>2, StartKnown
  <2>3. CASE ActionEnds  BY <1>1, <2>1, <2>3, ActionKnown
  <2>4. CASE Complete \/ Stop \/ FailStart  BY <1>1, <2>1, <2>4, FinalKnown
  <2>5. CASE OtherRun  BY <1>1, <2>1, <2>5, OtherRunKnown
  <2>6. QED  BY <1>1, <2>2, <2>3, <2>4, <2>5 DEF Engine
<1>2. CASE pc # "returned" /\ EventLog  BY <1>2, EventLogKnown
<1>3. CASE Cancel \/ Tick
  <2>1. UNCHANGED <<engine, visible, wait>>  BY <1>3 DEF Cancel, Tick
  <2>2. QED  BY <2>1, StillKnown
<1>4. CASE ObserveRun
  <2>1. UNCHANGED <<engine, visible>>  BY <1>4 DEF ObserveRun
  <2>2. CASE ReadHistory  BY <2>1, <2>2, ReadHistoryKnown
  <2>3. CASE ~ReadHistory  BY <1>4, <2>1, <2>3, OtherStepsKnown DEF ObserveRun
  <2>4. QED  BY <2>2, <2>3
<1>5. CASE UNCHANGED vars
  <2>1. UNCHANGED <<engine, visible, wait>>  BY <1>5 DEF vars
  <2>2. QED  BY <2>1, StillKnown
<1>6. QED  BY <1>1, <1>2, <1>3, <1>4, <1>5 DEF Next

\* The log, the end of the instance and the wait's knowledge of both keep
\* together in every state.
THEOREM WaitKnows == Spec => []Known
<1>1. QED  BY InitKnown, StepKnown, PTL DEF Spec

\* An exact result is the instance's own and the instance has finished, as
\* long as the log keeps its actions, however late and in how many probes the
\* events were read and whatever other runs wrote between them.
THEOREM ExactResultTrue == Spec => []ExactIsTrue
<1>1. Known => ExactIsTrue  BY DEF Known, Informed
<1>2. QED  BY <1>1, WaitKnows, PTL

\* A wait that goes on has never read events that establish the result: the
\* newest-first scan and its early end overlook no completion.
THEOREM CompletionSeen == Spec => []CompletionNotMissed
<1>1. Known => CompletionNotMissed  BY DEF Known, Informed, CompletionNotMissed
<1>2. QED  BY <1>1, WaitKnows, PTL
=============================================================================
