------------------------------ MODULE Schedule ------------------------------
(***************************************************************************)
(* Cron expressions: CronSchedule::parse and compile (schedule.rs).  A     *)
(* five-field expression is parsed into sets of values and compiled into   *)
(* native calendar triggers, one for each time of the day.  It must fail   *)
(* "instead of approximating or producing duplicate runs", so the triggers *)
(* are compared, day by day, with what the expression says.                *)
(*                                                                         *)
(* A field is a sequence of parts (the text between commas); a part is a   *)
(* range with an optional step.  Words that are no numbers are left out:   *)
(* they are refused before any value is used.                              *)
(*                                                                         *)
(* External: when the service fires a trigger (Fires), and the calendar.   *)
(***************************************************************************)
EXTENDS TaskModel

CONSTANTS
  Expressions,  \* inputs of parse: a sequence of parts for each field
  Anchors,      \* inputs of compile: [day, separated], the parts used of it
  Days,         \* the calendar, [n, month, day, weekday, length]
  DateTexts     \* <<day, <<hour, minute>>>> -> the text of this moment

\* What is between two commas.
Part ==
  [kind : {"all"}, stepped : {FALSE}]
    \union [kind : {"all"}, stepped : {TRUE}, step : Nat]
    \union [kind : {"one"}, from : Nat, stepped : {FALSE}]
    \union [kind : {"one"}, from : Nat, stepped : {TRUE}, step : Nat]
    \union [kind : {"span"}, from : Nat, to : Nat, stepped : {FALSE}]
    \union [kind : {"span"}, from : Nat, to : Nat, stepped : {TRUE}, step : Nat]

Names == {"minute", "hour", "dom", "month", "dow"}

LegalExpressions == Expressions \subseteq [Names -> Seq(Part)]

TimesOfDay == (0..23) \X (0..59)

LegalCalendar ==
  /\ \A a \in Anchors : a.day \in Nat /\ a.separated \in BOOLEAN
  /\ {a.day : a \in Anchors} \X TimesOfDay \subseteq DOMAIN DateTexts
  /\ \A d \in Days :
       /\ d.n \in Nat /\ d.month \in 1..12 /\ d.weekday \in 0..6
       /\ d.length \in 28..31 /\ d.day \in 1..d.length
  /\ IsInjective(DateTexts)

VARIABLES
  pc,        \* "text", "parsed", "compiled", "invalid" or "refused"
  expression,
  fields,    \* CronSchedule: values and wildcard of each field
  anchor,    \* first
  triggers   \* what compile has returned

scheduleVars == <<pc, expression, fields, anchor, triggers>>

\* Minimum and maximum of each field; Sunday is both 0 and 7.
Limits ==
  [minute |-> <<0, 59>>, hour |-> <<0, 23>>, dom |-> <<1, 31>>,
   month |-> <<1, 12>>, dow |-> <<0, 7>>]

Star == [kind |-> "all", stepped |-> FALSE]

(***************************************************************************)
(* Field::parse.                                                           *)
(***************************************************************************)
StepOf(part) == IF part.stepped THEN part.step ELSE 1

First(name, part) ==
  IF part.kind = "all" THEN Limits[name][1] ELSE part.from

Final(name, part) ==
  CASE part.kind = "all" -> Limits[name][2]
    [] part.kind = "span" -> part.to
    [] part.kind = "one" -> IF part.stepped THEN Limits[name][2] ELSE part.from

PartAccepted(name, part) ==
  /\ StepOf(part) \in 1..255
  /\ First(name, part) >= Limits[name][1]
  /\ Final(name, part) <= Limits[name][2]
  /\ First(name, part) <= Final(name, part)

Alias(name, value) == IF name = "dow" /\ value = 7 THEN 0 ELSE value

PartValues(name, part) ==
  {Alias(name, v) : v \in
     {w \in First(name, part)..Final(name, part) :
        (w - First(name, part)) % StepOf(part) = 0}}

FieldOf(name, parts) ==
  [values |-> UNION {PartValues(name, p) : p \in ToSet(parts)},
   wildcard |-> parts = <<Star>>]

Accepted == \A name \in Names : \A p \in ToSet(expression[name]) : PartAccepted(name, p)

Parse ==
  /\ pc = "text"
  /\ IF Accepted
     THEN /\ fields' = [name \in Names |-> FieldOf(name, expression[name])]
          /\ pc' = "parsed"
     ELSE /\ pc' = "invalid"
          /\ UNCHANGED fields
  /\ UNCHANGED <<expression, anchor, triggers>>

(***************************************************************************)
(* compile.                                                                *)
(***************************************************************************)

\* Restrictions of both day fields would be alternatives.
TwoDayRules == ~fields.dom.wildcard /\ ~fields.dow.wildcard

\* The times of the day, in minutes since midnight.
Moments == {60 * h + m : h \in fields.hour.values, m \in fields.minute.values}

\* The elements of a BTreeSet, in its order.
InOrder(S) ==
  [i \in 1..Cardinality(S) |->
     CHOOSE v \in S : Cardinality({w \in S : w < v}) = i - 1]

\* Hours and minutes in the order of the loops over both.
Times ==
  LET s == InOrder(Moments)
  IN [i \in DOMAIN s |-> <<s[i] \div 60, s[i] % 60>>]

\* boundary_at: the date of the anchor with another time of the day.
BoundaryAt(time) == DateTexts[<<anchor.day, time>>]

WeekdaysOf(values) == {Weekdays[v + 1] : v \in values}
MonthsOf(values) == {Months[v] : v \in values}

\* Mutant of MonthlyRule: the fifth week of a month is forgotten.
MonthlyRule_four(boundary) ==
  MonthlyDowTrigger(boundary, ToSet(WeeksOfMonth), WeekdaysOf(fields.dow.values),
                    MonthsOf(fields.month.values))

\* Four ordinals and the last week together name every week of a month.
MonthlyRule(boundary) ==
  [MonthlyDowTrigger(boundary, ToSet(WeeksOfMonth), WeekdaysOf(fields.dow.values),
                     MonthsOf(fields.month.values)) EXCEPT !.run_on_last_week = TRUE]

\* calendar_trigger.
CalendarTrigger(boundary) ==
  CASE fields.dom.wildcard /\ fields.dow.wildcard /\ fields.month.wildcard ->
         DailyTrigger(boundary)
    [] ~fields.dow.wildcard /\ fields.month.wildcard ->
         WeeklyTrigger(boundary, WeekdaysOf(fields.dow.values))
    [] ~fields.dow.wildcard /\ ~fields.month.wildcard -> MonthlyRule(boundary)
    [] OTHER ->
         MonthlyTrigger(boundary, fields.dom.values, MonthsOf(fields.month.values))

\* Mutant of TooManyTimes: the last trigger that is allowed is refused.
TooManyTimes_early == Cardinality(Moments) >= MaxTriggers

TooManyTimes == Cardinality(Moments) > MaxTriggers

Compile ==
  /\ pc = "parsed"
  /\ CASE TwoDayRules -> pc' = "refused" /\ UNCHANGED triggers
       [] ~TwoDayRules /\ ~anchor.separated ->
            pc' = "invalid" /\ UNCHANGED triggers
       [] ~TwoDayRules /\ anchor.separated /\ TooManyTimes ->
            pc' = "refused" /\ UNCHANGED triggers
       [] OTHER ->
            /\ pc' = "compiled"
            /\ triggers' = LET times == Times
                           IN [i \in DOMAIN times |->
                                 CalendarTrigger(BoundaryAt(times[i]))]
  /\ UNCHANGED <<expression, fields, anchor>>

ScheduleInit ==
  /\ expression \in Expressions
  /\ anchor \in Anchors
  /\ pc = "text"
  /\ fields = [name \in Names |-> [values |-> {}, wildcard |-> FALSE]]
  /\ triggers = <<>>

ScheduleNext == Parse \/ Compile
ScheduleSpec == ScheduleInit /\ [][ScheduleNext]_scheduleVars

(***************************************************************************)
(* The recipes that are no constructors of TaskModel: every refuses zero.  *)
(***************************************************************************)
Every(first, interval) ==
  IF interval = "PT0S" THEN None
  ELSE Some([TimeTrigger(first) EXCEPT
               !.common.repetition = Some(Repetition(interval, None, FALSE))])

(***************************************************************************)
(* The service: the days on which a calendar trigger fires, from the date  *)
(* of its start boundary on, which is the anchor's.                        *)
(***************************************************************************)
WeekOf(d) == (d.day + 6) \div 7

Fires(t, d) ==
  /\ d.n >= anchor.day
  /\ \/ /\ t.kind = "ScheduleByDay"
        /\ (d.n - anchor.day) % t.days_interval = 0
     \/ /\ t.kind = "ScheduleByWeek"
        /\ Weekdays[d.weekday + 1] \in t.days_of_week /\ t.weeks_interval = 1
     \/ /\ t.kind = "ScheduleByMonth"
        /\ Months[d.month] \in t.months /\ d.day \in t.days_of_month
     \/ /\ t.kind = "ScheduleByMonthDayOfWeek"
        /\ Months[d.month] \in t.months
        /\ Weekdays[d.weekday + 1] \in t.days_of_week
        /\ \/ /\ WeekOf(d) \in DOMAIN WeeksOfMonth
              /\ WeeksOfMonth[WeekOf(d)] \in t.weeks_of_month
           \/ t.run_on_last_week /\ d.day + 7 > d.length

-----------------------------------------------------------------------------
(***************************************************************************)
(* Properties: the expression as a reader understands it.                  *)
(***************************************************************************)

\* A part covers a value; "*/n" and "m/n" count from their first value on.
Covers(part, least, v) ==
  LET from == IF part.kind = "all" THEN least ELSE part.from
  IN /\ v >= from
     /\ part.kind = "span" => v <= part.to
     /\ part.kind = "one" /\ ~part.stepped => v = from
     /\ part.stepped => (v - from) % part.step = 0

Matches(name, v) ==
  \E p \in ToSet(expression[name]) :
    \/ Covers(p, Limits[name][1], v)
    \/ name = "dow" /\ v = 0 /\ Covers(p, 0, 7)

\* The expression names this time of the day, and this day.
TimeMatches(time) == Matches("hour", time[1]) /\ Matches("minute", time[2])

DayMatches(d) ==
  Matches("month", d.month) /\ Matches("dom", d.day) /\ Matches("dow", d.weekday)

\* These triggers run the task exactly when the expression says so, and only
\* once each time: every time of a day that both fields of the time name has
\* one trigger, and this trigger fires on the days that the three other
\* fields name, in short and long months, on 29 February and in fifth weeks.
RunsAsWritten(ts) ==
  /\ {ts[i].common.start_boundary : i \in DOMAIN ts} =
       {Some(BoundaryAt(time)) : time \in {m \in TimesOfDay : TimeMatches(m)}}
  /\ \A i, j \in DOMAIN ts :
       ts[i].common.start_boundary = ts[j].common.start_boundary => i = j
  /\ \A d \in Days : \A i \in DOMAIN ts :
       Fires(ts[i], d) <=> d.n >= anchor.day /\ DayMatches(d)

\* What compile returns runs the task as the expression says.
CompiledAsWritten == pc = "compiled" => RunsAsWritten(triggers)

\* An expression that was parsed is refused by the compiler for one of two
\* causes only: both of its day fields are restricted, or it runs more often a
\* day than a task has triggers.
RefusalExplained ==
  pc = "refused" =>
    \/ <<Star>> \notin {expression.dom, expression.dow}
    \/ Cardinality({time \in TimesOfDay : TimeMatches(time)}) > MaxTriggers
=============================================================================
