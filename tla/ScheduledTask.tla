---------------------------- MODULE ScheduledTask ----------------------------
(***************************************************************************)
(* From a cron expression to a task on disk: the expression is parsed and  *)
(* compiled (Schedule), the triggers go through a TaskBuilder into a       *)
(* definition, and the definition is written and read back (TaskXml).      *)
(* Definitions and documents that come from elsewhere start in the codec.  *)
(***************************************************************************)
EXTENDS Schedule, TaskXml

CONSTANT
  Programs   \* what a TaskBuilder is given besides the schedule,
             \* [actions, triggers, principal, settings]

ASSUME CalendarAssumption == LegalCalendar /\ Range(DateTexts) \subseteq Dates
ASSUME ExpressionsAssumption == LegalExpressions

Unscheduled ==
  /\ pc = "none" /\ expression = None /\ fields = None
  /\ anchor = None /\ triggers = None

InitTask ==
  \/ Unscheduled /\ Init
  \/ /\ ScheduleInit
     /\ stage = "unbuilt" /\ foreign = None /\ defs = <<>> /\ docs = <<>>
     /\ Closed(<<>>, DefaultLimits)

(***************************************************************************)
(* TaskBuilder: collected actions and triggers, checked by build.          *)
(***************************************************************************)
Collected(program, more) ==
  [DefaultDefinition EXCEPT
     !.actions = program.actions,
     !.triggers = more \o program.triggers,
     !.principal = program.principal,
     !.settings = program.settings]

\* What is valid is valid when it is read: a principal that names a built-in
\* account as a user has a logon that the account may have, and ids that
\* differ do not differ in their white space only.
ASSUME ProgramsAssumption ==
  \A program \in Programs :
    LET d == Collected(program, <<>>)
    IN /\ IsList(program.triggers)
       /\ IsDefinition(d, ToSet(Unread))
       /\ Valid(d) => Valid(Canonical(d))

Assembled(program) == Collected(program, triggers)

Buildable(d) == WithinLimits(d.triggers, d.actions) /\ Valid(d)

Build ==
  /\ stage = "unbuilt" /\ pc = "compiled"
  /\ \E program \in Programs :
       IF Buildable(Assembled(program))
       THEN defs' = <<Assembled(program)>> /\ stage' = "typed"
       ELSE stage' = "unbuildable" /\ UNCHANGED defs
  /\ UNCHANGED <<foreign, docs, readerVars, scheduleVars>>

ScheduleStep ==
  /\ stage = "unbuilt"
  /\ ScheduleNext
  /\ UNCHANGED vars

CodecStep == Next /\ UNCHANGED scheduleVars

NextTask == ScheduleStep \/ Build \/ CodecStep

SpecTask == InitTask /\ [][NextTask]_<<vars, scheduleVars>>

-----------------------------------------------------------------------------
(***************************************************************************)
(* Properties.                                                             *)
(***************************************************************************)
\* The triggers that came from the expression, in a definition.
Scheduled(d) == SubSeq(d.triggers, 1, Len(triggers))

\* A task runs exactly when its expression says so, and only once each time:
\* as compiled, as built, and after its definition was written as a document
\* and read back from it, where a trigger that changes its kind, a day, a
\* week or its place would make the task run at other times.
ExactOnce ==
  /\ CompiledAsWritten
  /\ pc = "compiled" /\ Len(defs) > 1 => RunsAsWritten(Scheduled(defs[2]))

\* A schedule is refused for one of two causes only: both of its day fields
\* are restricted, or it runs more often a day than a task has triggers; and
\* whatever the builder accepts is written and, unless it is larger than the
\* reader's limits, understood.
RefusedForCause ==
  /\ RefusalExplained
  /\ pc = "compiled" => stage \notin {"untyped", "invalid"}
  /\ pc = "compiled" /\ stage = "refused" => ~WellFormed
=============================================================================
