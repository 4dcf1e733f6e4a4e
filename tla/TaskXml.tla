------------------------------ MODULE TaskXml ------------------------------
(***************************************************************************)
(* The Task XML codec (xml.rs): a definition is validated and written as   *)
(* canonical XML, a document is read (XmlReader) and understood as a       *)
(* definition, with the children it does not know kept as extensions.  A   *)
(* text of the document is a string; what its characters mean as a number, *)
(* a duration, a date or a class id is given by tables.                    *)
(*                                                                         *)
(* An operator XReadable says whether parsing X returns no error; XOf is   *)
(* its value then.                                                         *)
(***************************************************************************)
EXTENDS TaskModel, XmlReader

CONSTANTS
  Definitions,    \* definitions that programs build
  Unread,         \* elements that programs carry unread, children first
  Documents,      \* documents that others wrote, [events, encoding, limits]
  DefaultLimits,  \* ParseLimits::default
  Durations,      \* text -> canonical text of the duration it denotes
  Dates,          \* texts that TaskDateTime::parse accepts
  ClassIds,       \* text -> canonical text of the uuid
  Numbers,        \* text -> the number that FromStr makes of it
  Accounts        \* names and SIDs, in any case -> the built-in account

VARIABLES
  stage,    \* "typed", "reading" and "bytes", "raw" of foreign documents;
            \* at the end "untyped", "refused", "invalid" or "done"
  foreign,  \* the encoding of the first document when it is not ours
  defs,     \* the definitions in the order they were obtained
  docs      \* the documents in the order they were obtained

vars == <<stage, foreign, defs, docs, readerVars>>

LimitText(limit) == IF limit = "unlimited" THEN "PT0S" ELSE limit

\* The values that pass, in their order.
Where(values, Test(_)) ==
  FlattenSeq([i \in DOMAIN values |->
                IF Test(values[i]) THEN <<values[i]>> ELSE <<>>])

\* A set in the order of its BTreeSet.
Ordered(names, set) == Where(names, LAMBDA n : n \in set)

(***************************************************************************)
(* ordering::merge: extensions return to their absolute places among the   *)
(* children that are written, the lowest place first.                      *)
(***************************************************************************)
\* Mutant of Place: an extension is appended.
Place_appended(ordinal, count) == count

\* AbsoluteOrdinal::index.
Place(ordinal, count) == IF ordinal < count THEN ordinal ELSE count

\* sort_by_key, which is stable.
ByPlace(extensions) ==
  LET Before(i) == {j \in DOMAIN extensions :
                      \/ extensions[j].ordinal < extensions[i].ordinal
                      \/ extensions[j].ordinal = extensions[i].ordinal /\ j < i}
  IN [k \in DOMAIN extensions |->
        extensions[CHOOSE i \in DOMAIN extensions : Cardinality(Before(i)) = k - 1]]

Merge(known, extensions) ==
  LET sorted == ByPlace(extensions)
      merged[k \in 0..Len(sorted)] ==
        IF k = 0 THEN known
        ELSE InsertAt(merged[k - 1],
                      Place(sorted[k].ordinal, Len(merged[k - 1])) + 1, sorted[k].xml)
  IN merged[Len(sorted)]

\* merge_extensions.
MergeExtensions(parent, known, extensions) ==
  Merge(known, Where(extensions, LAMBDA e : e.parent = parent))

(***************************************************************************)
(* write_trigger and the writers it calls.                                 *)
(***************************************************************************)
RepetitionElement(r) ==
  Plain("Repetition", FlattenSeq(
    <<<<Element("Interval", r.interval)>>,
      OptionalElement("Duration", r.duration),
      <<BoolElement("StopAtDurationEnd", r.stop_at_duration_end)>>>>))

CommonElements(c) ==
  FlattenSeq(
    <<Each(c.repetition, RepetitionElement),
      OptionalElement("StartBoundary", c.start_boundary),
      OptionalElement("EndBoundary", c.end_boundary),
      OptionalElement("ExecutionTimeLimit", Each(c.execution_time_limit, LimitText)),
      <<BoolElement("Enabled", c.enabled)>>>>)

WriteWeekdays(days) ==
  Plain("DaysOfWeek", Each(Ordered(Weekdays, days), EmptyElement))

WriteMonths(months) ==
  Plain("Months", Each(Ordered(Months, months), EmptyElement))

\* The schedule element of a calendar trigger.
ScheduleElement(t) ==
  Plain(t.kind,
    CASE t.kind = "ScheduleByDay" ->
           <<Element("DaysInterval", ToString(t.days_interval))>>
      [] t.kind = "ScheduleByWeek" ->
           <<Element("WeeksInterval", ToString(t.weeks_interval)),
             WriteWeekdays(t.days_of_week)>>
      [] t.kind = "ScheduleByMonth" ->
           <<Plain("DaysOfMonth",
                   Each(Ordered([n \in 1..31 |-> n], t.days_of_month),
                        LAMBDA day : Element("Day", ToString(day)))),
             WriteMonths(t.months),
             BoolElement("RunOnLastDayOfMonth", t.run_on_last_day)>>
      [] t.kind = "ScheduleByMonthDayOfWeek" ->
           <<Plain("Weeks", Each(Ordered(WeeksOfMonth, t.weeks_of_month),
                                 LAMBDA week : Element("Week", week))),
             WriteWeekdays(t.days_of_week), WriteMonths(t.months),
             BoolElement("RunOnLastWeekOfMonth", t.run_on_last_week)>>)

WriteCalendarTrigger(t) ==
  WithId("CalendarTrigger", t.common.id,
         FlattenSeq(<<CommonElements(t.common), <<ScheduleElement(t)>>,
                      OptionalElement("RandomDelay", t.random_delay)>>))

\* value_queries is a map: some order of its names stands for theirs.
ValueQueries(queries) ==
  IF DOMAIN queries = {} THEN <<>>
  ELSE <<Plain("ValueQueries",
               Each(SetToSeq(DOMAIN queries),
                    LAMBDA n : Container("Value", Attribute("name", n), queries[n], <<>>)))>>

\* What a trigger has beyond the common elements.
SpecificElements(t) ==
  CASE t.kind \in {"BootTrigger", "RegistrationTrigger"} ->
         OptionalElement("Delay", t.delay)
    [] t.kind = "IdleTrigger" -> <<>>
    [] t.kind = "TimeTrigger" -> OptionalElement("RandomDelay", t.random_delay)
    [] t.kind = "EventTrigger" ->
         FlattenSeq(
           <<OptionalElement("Delay", t.delay),
             <<Element("Subscription", t.subscription)>>,
             ValueQueries(t.value_queries),
             OptionalElement("PeriodOfOccurrence", t.period_of_occurrence),
             OptionalElement("NumberOfOccurrences",
                             Each(t.number_of_occurrences, ToString)),
             OptionalElement("MatchingElement", t.matching_element)>>)
    [] t.kind = "LogonTrigger" ->
         FlattenSeq(<<OptionalElement("UserId", t.user_id),
                      OptionalElement("Delay", t.delay)>>)
    [] t.kind = "SessionStateChangeTrigger" ->
         FlattenSeq(<<<<Element("StateChange", t.state_change)>>,
                      OptionalElement("UserId", t.user_id),
                      OptionalElement("Delay", t.delay)>>)

Calendar ==
  <<"ScheduleByDay", "ScheduleByWeek", "ScheduleByMonth",
    "ScheduleByMonthDayOfWeek">>

WriteTrigger(t) ==
  CASE t.kind = "unknown" -> t.xml
    [] t.kind \in ToSet(Calendar) -> WriteCalendarTrigger(t)
    [] OTHER -> WithId(t.kind, t.common.id,
                       FlattenSeq(<<CommonElements(t.common), SpecificElements(t)>>))

(***************************************************************************)
(* write_actions.                                                          *)
(***************************************************************************)
HeaderElement(h) ==
  Plain("HeaderField", <<Element("Name", h.name), Element("Value", h.value)>>)

WriteAction(a) ==
  CASE a.kind = "Exec" ->
         WithId("Exec", a.id, FlattenSeq(
           <<<<Element("Command", a.command)>>,
             OptionalElement("Arguments", a.arguments),
             OptionalElement("WorkingDirectory", a.working_directory),
             Raised("HideAppWindow", a.hide_window)>>))
    [] a.kind = "ComHandler" ->
         WithId("ComHandler", a.id, FlattenSeq(
           <<<<Element("ClassId", a.class_id)>>, OptionalElement("Data", a.data)>>))
    [] a.kind = "SendEmail" ->
         WithId("SendEmail", a.id, FlattenSeq(
           <<<<Element("Server", a.server)>>,
             FlattenSeq(Each(EmailTexts, LAMBDA n : OptionalElement(n, a.texts[n]))),
             ListElement("HeaderFields", Each(a.headers, HeaderElement)),
             OptionalElement("Body", a.body),
             ListElement("Attachments",
                         Each(a.attachments, LAMBDA file : Element("File", file)))>>))
    [] a.kind = "ShowMessage" ->
         WithId("ShowMessage", a.id, FlattenSeq(
           <<OptionalElement("Title", a.title), <<Element("Body", a.body)>>>>))
    [] a.kind = "unknown" -> a.xml

WriteActions(d) ==
  Container("Actions", Attribute("Context", d.principal.id), "", Each(d.actions, WriteAction))

(***************************************************************************)
(* write_registration, write_principal, write_settings, write_definition.  *)
(***************************************************************************)
WriteRegistration(d) ==
  Plain("RegistrationInfo",
        MergeExtensions("Task/RegistrationInfo",
          FlattenSeq(Each(RegistrationTexts,
                          LAMBDA n : OptionalElement(n, d.registration[n]))),
          d.extensions))

IdentityElement(identity) ==
  CASE identity.type = "none" -> <<>>
    [] identity.type = "group" -> <<Element("GroupId", identity.name)>>
    [] OTHER -> <<Element("UserId", identity.name)>>

\* The XML schema has no Group and no ServiceAccount logon.
LogonElement(logon) ==
  IF logon \in {"None", "Group", "ServiceAccount"} THEN <<>>
  ELSE <<Element("LogonType", logon)>>

SidElement(type) ==
  IF type = "Default" THEN <<>> ELSE <<Element("ProcessTokenSidType", type)>>

WritePrincipal(p) ==
  Plain("Principals",
    <<Container("Principal", Attribute("id", p.id), "", FlattenSeq(
        <<IdentityElement(p.identity),
          OptionalElement("DisplayName", p.display_name),
          LogonElement(p.logon_type),
          <<Element("RunLevel", p.run_level)>>,
          SidElement(p.process_token_sid_type),
          ListElement("RequiredPrivileges",
                      Each(p.required_privileges, LAMBDA v : Element("Privilege", v)))>>))>>)

RestartElement(r) ==
  Plain("RestartOnFailure",
        <<Element("Interval", r.interval), Element("Count", ToString(r.count))>>)

IdleElement(idle) ==
  Plain("IdleSettings",
        <<Element("Duration", idle.duration),
          Element("WaitTimeout", idle.wait_timeout),
          BoolElement("StopOnIdleEnd", idle.stop_on_idle_end),
          BoolElement("RestartOnIdle", idle.restart_on_idle)>>)

NetworkElement(network) ==
  Plain("NetworkSettings", FlattenSeq(
    <<OptionalElement("Name", network.name), OptionalElement("Id", network.id)>>))

MaintenanceElement(m) ==
  Plain("MaintenanceSettings",
        <<Element("Period", m.period), Element("Deadline", m.deadline),
          BoolElement("Exclusive", m.exclusive)>>)

SettingsElements(d) ==
  LET s == d.settings
      Flag(name) == <<BoolElement(name, s.flags[name])>>
  IN FlattenSeq(
       <<Flag("AllowStartOnDemand"), Flag("DisallowStartIfOnBatteries"),
         Flag("StopIfGoingOnBatteries"),
         Each(s.restart_on_failure, RestartElement),
         <<Element("MultipleInstancesPolicy", s.multiple_instances)>>,
         Flag("StartWhenAvailable"), Flag("AllowHardTerminate"),
         Each(s.idle, IdleElement),
         <<BoolElement("RunOnlyIfIdle", s.idle /= None)>>,
         Each(s.network, NetworkElement),
         <<BoolElement("RunOnlyIfNetworkAvailable", s.network /= None)>>,
         Flag("WakeToRun"), Flag("Enabled"), Flag("Hidden"),
         OptionalElement("DeleteExpiredTaskAfter", s.delete_expired_after),
         <<Element("ExecutionTimeLimit", LimitText(s.execution_time_limit))>>,
         <<Element("Priority", ToString(s.priority))>>,
         IF d.schema_version = "1.2" THEN <<>> ELSE Flag("UseUnifiedSchedulingEngine"),
         Raised("DisallowStartOnRemoteAppSession",
                s.flags.DisallowStartOnRemoteAppSession),
         Each(s.maintenance, MaintenanceElement),
         Raised("Volatile", s.flags.Volatile)>>)

WriteSettings(d) ==
  Plain("Settings",
        MergeExtensions("Task/Settings", SettingsElements(d), d.extensions))

HasExtensions(d, parent) == \E i \in DOMAIN d.extensions : d.extensions[i].parent = parent

RegistrationNeeded(d) ==
  d.registration /= DefaultRegistration \/ HasExtensions(d, "Task/RegistrationInfo")

RootElements(d) ==
  FlattenSeq(
    <<IF RegistrationNeeded(d) THEN <<WriteRegistration(d)>> ELSE <<>>,
      ListElement("Triggers", Each(d.triggers, WriteTrigger)),
      <<WritePrincipal(d.principal)>>, <<WriteSettings(d)>>,
      OptionalElement("Data", d.data),
      <<WriteActions(d)>>>>)

WriteDefinition(d) ==
  Container("Task", Attribute("version", d.schema_version), "",
            MergeExtensions("Task", RootElements(d), d.extensions))

(***************************************************************************)
(* Reading: the first child of a name, its text, and what it denotes.      *)
(***************************************************************************)
Children(node, name) == Where(node.kids, LAMBDA kid : kid.name = name)

Child(node, name) ==
  LET named == {i \in DOMAIN node.kids : node.kids[i].name = name}
  IN IF named = {} THEN None ELSE Some(node.kids[Min(named)])

\* child_text and owned_text.
ChildText(node, name) == Each(Child(node, name), LAMBDA kid : kid.text)

\* required_text.
Has(node, name) == Child(node, name) /= None
TextOf(node, name) == Child(node, name)[1].text

OrElse(option, default) == IF option = None THEN default ELSE option[1]

BoolReadable(node, name) ==
  \A t \in ToSet(ChildText(node, name)) : t \in {"true", "1", "false", "0"}

\* child_bool with its default.
BoolOf(node, name, default) ==
  OrElse(Each(ChildText(node, name), LAMBDA t : t \in {"true", "1"}), default)

DurationReadable(node, name) ==
  \A t \in ToSet(ChildText(node, name)) : t \in DOMAIN Durations

\* optional_duration.
DurationOf(node, name) == Each(ChildText(node, name), LAMBDA t : Durations[t])

DateReadable(node, name) == ToSet(ChildText(node, name)) \subseteq Dates

\* parse_number, for a type of numbers up to most.
NumberReadable(node, name, most) ==
  \A t \in ToSet(ChildText(node, name)) : t \in DOMAIN Numbers /\ Numbers[t] <= most

NumberOf(node, name) == Each(ChildText(node, name), LAMBDA t : Numbers[t])

U8 == 255
U16 == 65535

\* parse_limit: this spelling of zero means no limit.
ParseLimit(t) == IF t = "PT0S" THEN "unlimited" ELSE Durations[t]

LimitOf(node, name) == Each(ChildText(node, name), ParseLimit)

\* extensions_for: the place counts all children, those not known are kept.
ExtensionsFor(node, parent, known) ==
  FlattenSeq([i \in DOMAIN node.kids |->
                IF node.kids[i].name \in known THEN <<>>
                ELSE <<XmlExtension(parent, i - 1, node.kids[i].xml)>>])

(***************************************************************************)
(* parse_trigger and the parsers it calls.                                 *)
(***************************************************************************)
RepetitionReadable(node) ==
  /\ Has(node, "Interval") /\ DurationReadable(node, "Interval")
  /\ DurationReadable(node, "Duration")
  /\ BoolReadable(node, "StopAtDurationEnd")

RepetitionOf(node) ==
  Repetition(DurationOf(node, "Interval")[1], DurationOf(node, "Duration"),
             BoolOf(node, "StopAtDurationEnd", FALSE))

CommonReadable(node) ==
  /\ DateReadable(node, "StartBoundary") /\ DateReadable(node, "EndBoundary")
  /\ BoolReadable(node, "Enabled")
  /\ DurationReadable(node, "ExecutionTimeLimit")
  /\ \A r \in ToSet(Child(node, "Repetition")) : RepetitionReadable(r)

ParsedCommon(node) ==
  [id |-> IF "id" \in DOMAIN node.attrs THEN Some(node.attrs.id) ELSE None,
   start_boundary |-> ChildText(node, "StartBoundary"),
   end_boundary |-> ChildText(node, "EndBoundary"),
   enabled |-> BoolOf(node, "Enabled", TRUE),
   execution_time_limit |-> LimitOf(node, "ExecutionTimeLimit"),
   repetition |-> Each(Child(node, "Repetition"), RepetitionOf)]

\* The names of the children: parse_weekdays, parse_months.
NamesIn(node, name, names) ==
  ToSet(names) \intersect {kid.name : kid \in ToSet(Child(node, name)[1].kids)}

\* parse_weeks.
WeeksIn(node) ==
  ToSet(WeeksOfMonth)
    \intersect {kid.text : kid \in ToSet(Children(Child(node, "Weeks")[1], "Week"))}

\* parse_day_numbers.
DaysIn(node) == ToSet(Children(Child(node, "DaysOfMonth")[1], "Day"))

\* The first of the four schedules that is there, in this order.
ScheduleOf(node) ==
  LET there == {i \in DOMAIN Calendar : Has(node, Calendar[i])}
  IN IF there = {} THEN None ELSE Child(node, Calendar[Min(there)])

ScheduleReadable(schedule) ==
  CASE schedule.name = "ScheduleByDay" ->
         /\ Has(schedule, "DaysInterval")
         /\ NumberReadable(schedule, "DaysInterval", U16)
    [] schedule.name = "ScheduleByWeek" ->
         /\ Has(schedule, "WeeksInterval") /\ Has(schedule, "DaysOfWeek")
         /\ NumberReadable(schedule, "WeeksInterval", U16)
    [] schedule.name = "ScheduleByMonth" ->
         /\ Has(schedule, "DaysOfMonth") /\ Has(schedule, "Months")
         /\ \A day \in DaysIn(schedule) :
              day.text \in DOMAIN Numbers /\ Numbers[day.text] <= U8
         /\ BoolReadable(schedule, "RunOnLastDayOfMonth")
    [] schedule.name = "ScheduleByMonthDayOfWeek" ->
         /\ \A name \in {"Weeks", "DaysOfWeek", "Months"} : Has(schedule, name)
         /\ BoolReadable(schedule, "RunOnLastWeekOfMonth")

\* parse_calendar_trigger.
CalendarOf(node) ==
  LET s == ScheduleOf(node)[1]
      parsed ==
        CASE s.name = "ScheduleByDay" ->
               [DailyTrigger("") EXCEPT !.days_interval = NumberOf(s, "DaysInterval")[1]]
          [] s.name = "ScheduleByWeek" ->
               [WeeklyTrigger("", NamesIn(s, "DaysOfWeek", Weekdays))
                  EXCEPT !.weeks_interval = NumberOf(s, "WeeksInterval")[1]]
          [] s.name = "ScheduleByMonth" ->
               [MonthlyTrigger("", {Numbers[day.text] : day \in DaysIn(s)},
                               NamesIn(s, "Months", Months))
                  EXCEPT !.run_on_last_day = BoolOf(s, "RunOnLastDayOfMonth", FALSE)]
          [] s.name = "ScheduleByMonthDayOfWeek" ->
               [MonthlyDowTrigger("", WeeksIn(s), NamesIn(s, "DaysOfWeek", Weekdays),
                                  NamesIn(s, "Months", Months))
                  EXCEPT !.run_on_last_week = BoolOf(s, "RunOnLastWeekOfMonth", FALSE)]
  IN [parsed EXCEPT !.common = ParsedCommon(node),
                    !.random_delay = DurationOf(node, "RandomDelay")]

NamedValues(node) ==
  Where(IF Has(node, "ValueQueries")
        THEN Children(Child(node, "ValueQueries")[1], "Value") ELSE <<>>,
        LAMBDA v : "name" \in DOMAIN v.attrs)

\* Of two values of one name the last remains.
ValueQueriesOf(node) ==
  LET values == NamedValues(node)
      OfName(n) == {i \in DOMAIN values : values[i].attrs.name = n}
  IN [n \in {v.attrs.name : v \in ToSet(values)} |-> values[Max(OfName(n))].text]

TriggerReadable(node) ==
  /\ CommonReadable(node)
  /\ node.name \in {"BootTrigger", "RegistrationTrigger", "EventTrigger",
                    "LogonTrigger", "SessionStateChangeTrigger"} =>
       DurationReadable(node, "Delay")
  /\ node.name \in {"TimeTrigger", "CalendarTrigger"} =>
       DurationReadable(node, "RandomDelay")
  /\ node.name = "EventTrigger" =>
       /\ Has(node, "Subscription")
       /\ DurationReadable(node, "PeriodOfOccurrence")
       /\ ToSet(ChildText(node, "NumberOfOccurrences")) \subseteq DOMAIN Numbers
  /\ node.name = "SessionStateChangeTrigger" =>
       /\ Has(node, "StateChange")
       /\ TextOf(node, "StateChange") \in SessionStateChanges
  /\ node.name = "CalendarTrigger" =>
       ScheduleOf(node) /= None /\ ScheduleReadable(ScheduleOf(node)[1])

TriggerOf(node) ==
  LET common == ParsedCommon(node)
      delay == DurationOf(node, "Delay")
  IN CASE node.name = "BootTrigger" ->
            [BootTrigger EXCEPT !.common = common, !.delay = delay]
       [] node.name = "RegistrationTrigger" ->
            [RegistrationTrigger EXCEPT !.common = common, !.delay = delay]
       [] node.name = "IdleTrigger" -> [IdleTrigger EXCEPT !.common = common]
       [] node.name = "TimeTrigger" ->
            [TimeTrigger("") EXCEPT !.common = common,
                                    !.random_delay = DurationOf(node, "RandomDelay")]
       [] node.name = "EventTrigger" ->
            [EventTrigger(TextOf(node, "Subscription")) EXCEPT
               !.common = common, !.delay = delay,
               !.value_queries = ValueQueriesOf(node),
               !.period_of_occurrence = DurationOf(node, "PeriodOfOccurrence"),
               !.number_of_occurrences = NumberOf(node, "NumberOfOccurrences"),
               !.matching_element = ChildText(node, "MatchingElement")]
       [] node.name = "LogonTrigger" ->
            [LogonTrigger EXCEPT !.common = common, !.delay = delay,
                                 !.user_id = ChildText(node, "UserId")]
       [] node.name = "SessionStateChangeTrigger" ->
            [SessionStateChangeTrigger(TextOf(node, "StateChange")) EXCEPT
               !.common = common, !.delay = delay,
               !.user_id = ChildText(node, "UserId")]
       [] node.name = "CalendarTrigger" -> CalendarOf(node)
       [] OTHER -> UnknownTrigger(node.xml)

(***************************************************************************)
(* parse_actions.                                                          *)
(***************************************************************************)
\* The elements of a list inside its container.
Listed(node, container, name) ==
  FlattenSeq(Each(Child(node, container), LAMBDA list : Children(list, name)))

ActionReadable(node) ==
  CASE node.name = "Exec" -> Has(node, "Command") /\ BoolReadable(node, "HideAppWindow")
    [] node.name = "ComHandler" ->
         Has(node, "ClassId") /\ TextOf(node, "ClassId") \in DOMAIN ClassIds
    [] node.name = "SendEmail" ->
         /\ Has(node, "Server")
         /\ \A header \in ToSet(Listed(node, "HeaderFields", "HeaderField")) :
              Has(header, "Name") /\ Has(header, "Value")
    [] node.name = "ShowMessage" -> Has(node, "Body")
    [] OTHER -> TRUE

ActionOf(node) ==
  LET id == IF "id" \in DOMAIN node.attrs THEN Some(node.attrs.id) ELSE None
  IN CASE node.name = "Exec" ->
            [ExecAction(TextOf(node, "Command")) EXCEPT
               !.id = id, !.arguments = ChildText(node, "Arguments"),
               !.working_directory = ChildText(node, "WorkingDirectory"),
               !.hide_window = BoolOf(node, "HideAppWindow", FALSE)]
       [] node.name = "ComHandler" ->
            [ComHandlerAction(ClassIds[TextOf(node, "ClassId")]) EXCEPT
               !.id = id, !.data = ChildText(node, "Data")]
       [] node.name = "SendEmail" ->
            [EmailAction(TextOf(node, "Server")) EXCEPT
               !.id = id, !.body = ChildText(node, "Body"),
               !.texts = [n \in ToSet(EmailTexts) |-> ChildText(node, n)],
               !.attachments = Each(Listed(node, "Attachments", "File"),
                                    LAMBDA file : file.text),
               !.headers = Each(Listed(node, "HeaderFields", "HeaderField"),
                                LAMBDA h : [name |-> TextOf(h, "Name"),
                                            value |-> TextOf(h, "Value")])]
       [] node.name = "ShowMessage" ->
            [ShowMessageAction(TextOf(node, "Body")) EXCEPT
               !.id = id, !.title = ChildText(node, "Title")]
       [] OTHER -> UnknownAction(node.xml)

(***************************************************************************)
(* parse_registration, parse_principal, parse_settings.                    *)
(***************************************************************************)
RegistrationReadable(node) ==
  DateReadable(node, "Date") /\ ChildText(node, "SecurityDescriptor") /= Some("")

RegistrationOf(node) ==
  [name \in ToSet(RegistrationTexts) |-> ChildText(node, name)]

ServiceNames ==
  {"SYSTEM", "NT AUTHORITY\\LOCAL SERVICE", "NT AUTHORITY\\NETWORK SERVICE"}

ASSUME AccountsAssumption ==
  /\ \A user \in DOMAIN Accounts : Accounts[user] \in ServiceNames
  /\ \A name \in ServiceNames : name \in DOMAIN Accounts /\ Accounts[name] = name

ServiceAccountOf(user) ==
  IF user \in DOMAIN Accounts THEN Some(Accounts[user]) ELSE None

UserOrService(user) ==
  IF ServiceAccountOf(user) = None THEN User(user)
  ELSE ServiceAccount(ServiceAccountOf(user)[1])

IdentityOf(node) ==
  CASE Has(node, "GroupId") -> Group(TextOf(node, "GroupId"))
    [] ~Has(node, "GroupId") /\ Has(node, "UserId") ->
         UserOrService(TextOf(node, "UserId"))
    [] OTHER -> NoIdentity

\* The logon that an identity implies when the document names none.
ImpliedLogon(identity) ==
  CASE identity.type = "group" -> "Group"
    [] identity.type = "service" -> "ServiceAccount"
    [] OTHER -> "None"

LogonTypes ==
  {"None", "Password", "InteractiveToken", "S4U", "Group", "ServiceAccount",
   "InteractiveTokenOrPassword"}

RunLevels == {"LeastPrivilege", "HighestAvailable"}
SidTypes == {"Default", "None", "Unrestricted"}

PrincipalReadable(node) ==
  /\ ToSet(ChildText(node, "LogonType")) \subseteq LogonTypes
  /\ ToSet(ChildText(node, "RunLevel")) \subseteq RunLevels
  /\ ToSet(ChildText(node, "ProcessTokenSidType")) \subseteq SidTypes
  /\ \A p \in ToSet(Listed(node, "RequiredPrivileges", "Privilege")) :
       p.text \in Privileges

PrincipalOf(node) ==
  [id |-> IF "id" \in DOMAIN node.attrs THEN node.attrs.id ELSE "Author",
   display_name |-> ChildText(node, "DisplayName"),
   identity |-> IdentityOf(node),
   logon_type |-> OrElse(ChildText(node, "LogonType"), ImpliedLogon(IdentityOf(node))),
   run_level |-> OrElse(ChildText(node, "RunLevel"), "LeastPrivilege"),
   process_token_sid_type |-> OrElse(ChildText(node, "ProcessTokenSidType"), "Default"),
   required_privileges |-> Each(Listed(node, "RequiredPrivileges", "Privilege"),
                                LAMBDA p : p.text)]

\* Mutant of AbsentFlags: the defaults of a new definition.
AbsentFlags_new == DefaultFlags

\* The schema's defaults: not those of a new definition.
AbsentFlags == [DefaultFlags EXCEPT !.UseUnifiedSchedulingEngine = FALSE]

RestartReadable(node) ==
  /\ Has(node, "Interval") /\ DurationReadable(node, "Interval")
  /\ Has(node, "Count") /\ NumberReadable(node, "Count", U8)

IdleReadable(node) ==
  /\ DurationReadable(node, "Duration") /\ DurationReadable(node, "WaitTimeout")
  /\ BoolReadable(node, "StopOnIdleEnd") /\ BoolReadable(node, "RestartOnIdle")

MaintenanceReadable(node) ==
  /\ Has(node, "Period") /\ DurationReadable(node, "Period")
  /\ Has(node, "Deadline") /\ DurationReadable(node, "Deadline")
  /\ BoolReadable(node, "Exclusive")

InstancePolicies == {"Parallel", "Queue", "IgnoreNew", "StopExisting"}

SettingsReadable(node) ==
  /\ \A name \in DOMAIN AbsentFlags \union {"RunOnlyIfIdle", "RunOnlyIfNetworkAvailable"} :
       BoolReadable(node, name)
  /\ ToSet(ChildText(node, "MultipleInstancesPolicy")) \subseteq InstancePolicies
  /\ DurationReadable(node, "ExecutionTimeLimit")
  /\ DurationReadable(node, "DeleteExpiredTaskAfter")
  /\ NumberReadable(node, "Priority", U8)
  /\ \A r \in ToSet(Child(node, "RestartOnFailure")) : RestartReadable(r)
  /\ BoolOf(node, "RunOnlyIfIdle", FALSE) =>
       \A idle \in ToSet(Child(node, "IdleSettings")) : IdleReadable(idle)
  /\ \A m \in ToSet(Child(node, "MaintenanceSettings")) : MaintenanceReadable(m)

\* A node without children stands for an IdleSettings that is not there.
Nothing == Node(Tag("empty", "", <<>>))

IdleOf(node) ==
  LET idle == OrElse(Child(node, "IdleSettings"), Nothing)
  IN IF ~BoolOf(node, "RunOnlyIfIdle", FALSE) THEN None
     ELSE Some([duration |-> OrElse(DurationOf(idle, "Duration"), DefaultIdle.duration),
                wait_timeout |-> OrElse(DurationOf(idle, "WaitTimeout"),
                                        DefaultIdle.wait_timeout),
                stop_on_idle_end |-> BoolOf(idle, "StopOnIdleEnd",
                                            DefaultIdle.stop_on_idle_end),
                restart_on_idle |-> BoolOf(idle, "RestartOnIdle",
                                           DefaultIdle.restart_on_idle)])

\* The presence of NetworkSettings is enough.
NetworkOf(node) ==
  LET network == OrElse(Child(node, "NetworkSettings"), Nothing)
  IN IF BoolOf(node, "RunOnlyIfNetworkAvailable", FALSE) \/ Has(node, "NetworkSettings")
     THEN Some([id |-> ChildText(network, "Id"), name |-> ChildText(network, "Name")])
     ELSE None

SettingsOf(node) ==
  [flags |-> [name \in DOMAIN AbsentFlags |-> BoolOf(node, name, AbsentFlags[name])],
   restart_on_failure |->
     Each(Child(node, "RestartOnFailure"),
          LAMBDA r : [interval |-> DurationOf(r, "Interval")[1],
                      count |-> NumberOf(r, "Count")[1]]),
   multiple_instances |-> OrElse(ChildText(node, "MultipleInstancesPolicy"), "IgnoreNew"),
   network |-> NetworkOf(node),
   execution_time_limit |-> OrElse(LimitOf(node, "ExecutionTimeLimit"), DefaultLimit),
   delete_expired_after |-> DurationOf(node, "DeleteExpiredTaskAfter"),
   priority |-> OrElse(NumberOf(node, "Priority"), 7),
   idle |-> IdleOf(node),
   maintenance |->
     Each(Child(node, "MaintenanceSettings"),
          LAMBDA m : [period |-> DurationOf(m, "Period")[1],
                      deadline |-> DurationOf(m, "Deadline")[1],
                      exclusive |-> BoolOf(m, "Exclusive", FALSE)])]

(***************************************************************************)
(* definition_from_node.                                                   *)
(***************************************************************************)
RootNames ==
  {"RegistrationInfo", "Triggers", "Principals", "Settings", "Data", "Actions"}

SettingNames ==
  DOMAIN DefaultFlags
    \union {"RestartOnFailure", "MultipleInstancesPolicy", "NetworkSettings",
            "RunOnlyIfNetworkAvailable", "ExecutionTimeLimit",
            "DeleteExpiredTaskAfter", "Priority", "IdleSettings",
            "RunOnlyIfIdle", "MaintenanceSettings"}

KidsOf(node, name) == FlattenSeq(Each(Child(node, name), LAMBDA c : c.kids))

PrincipalNode(task) ==
  FlattenSeq(Each(Child(task, "Principals"), LAMBDA p : Child(p, "Principal")))

TriggersReadable(task) ==
  /\ \A t \in ToSet(KidsOf(task, "Triggers")) : TriggerReadable(t)
  /\ Len(KidsOf(task, "Triggers")) <= MaxTriggers

ActionsReadable(task) ==
  /\ \A a \in ToSet(KidsOf(task, "Actions")) : ActionReadable(a)
  /\ Len(KidsOf(task, "Actions")) <= MaxActions

Readable(task) ==
  /\ task.name = "Task"
  /\ \A r \in ToSet(Child(task, "RegistrationInfo")) : RegistrationReadable(r)
  /\ \A p \in ToSet(PrincipalNode(task)) : PrincipalReadable(p)
  /\ \A s \in ToSet(Child(task, "Settings")) : SettingsReadable(s)
  /\ TriggersReadable(task)
  /\ ActionsReadable(task)

ExtensionsOf(task) ==
  ExtensionsFor(task, "Task", RootNames)
    \o FlattenSeq(Each(Child(task, "RegistrationInfo"), LAMBDA r :
         ExtensionsFor(r, "Task/RegistrationInfo", ToSet(RegistrationTexts))))
    \o FlattenSeq(Each(Child(task, "Settings"), LAMBDA s :
         ExtensionsFor(s, "Task/Settings", SettingNames)))

DefinitionOf(task) ==
  [schema_version |-> IF "version" \in DOMAIN task.attrs THEN task.attrs.version
                      ELSE "1.2",
   registration |-> OrElse(Each(Child(task, "RegistrationInfo"), RegistrationOf),
                           DefaultRegistration),
   triggers |-> Each(KidsOf(task, "Triggers"), TriggerOf),
   principal |-> OrElse(Each(PrincipalNode(task), PrincipalOf), DefaultPrincipal),
   settings |-> SettingsOf(OrElse(Child(task, "Settings"), Nothing)),
   data |-> ChildText(task, "Data"),
   actions |-> Each(KidsOf(task, "Actions"), ActionOf),
   extensions |-> ExtensionsOf(task)]

(***************************************************************************)
(* What the types of a definition say of its values (model/*.rs), whether  *)
(* a program builds it or a document is read.  XML that is carried unread  *)
(* is the canonical XML of an element that is not known where it stands.   *)
(***************************************************************************)
IsOption(option) == option = None \/ option = Some(option[1])

IsDuration(t) == t \in DOMAIN Durations /\ Durations[t] = t
IsLimit(l) == l = "unlimited" \/ IsDuration(l)
IsNumber(n) == n \in Nat /\ ToString(n) \in DOMAIN Numbers /\ Numbers[ToString(n)] = n

IsDelay(option) == IsOption(option) /\ \A t \in ToSet(option) : IsDuration(t)

IsRepetition(r) ==
  /\ r = Repetition(r.interval, r.duration, r.stop_at_duration_end)
  /\ IsDuration(r.interval) /\ IsDelay(r.duration) /\ r.stop_at_duration_end \in BOOLEAN

IsCommon(c) ==
  /\ c = [id |-> c.id, start_boundary |-> c.start_boundary,
          end_boundary |-> c.end_boundary, enabled |-> c.enabled,
          execution_time_limit |-> c.execution_time_limit,
          repetition |-> c.repetition]
  /\ IsOption(c.id) /\ c.enabled \in BOOLEAN
  /\ IsOption(c.start_boundary) /\ ToSet(c.start_boundary) \subseteq Dates
  /\ IsOption(c.end_boundary) /\ ToSet(c.end_boundary) \subseteq Dates
  /\ IsOption(c.execution_time_limit)
  /\ \A l \in ToSet(c.execution_time_limit) : IsLimit(l)
  /\ IsOption(c.repetition) /\ \A r \in ToSet(c.repetition) : IsRepetition(r)

\* One of the four calendar triggers.
IsCalendar(t) ==
  /\ IsDelay(t.random_delay)
  /\ t.kind = "ScheduleByDay" =>
       /\ t = [DailyTrigger("") EXCEPT !.common = t.common, !.random_delay = t.random_delay,
                                       !.days_interval = t.days_interval]
       /\ IsNumber(t.days_interval) /\ t.days_interval <= U16
  /\ t.kind = "ScheduleByWeek" =>
       /\ t = [WeeklyTrigger("", t.days_of_week) EXCEPT
                 !.common = t.common, !.random_delay = t.random_delay,
                 !.weeks_interval = t.weeks_interval]
       /\ t.days_of_week \subseteq ToSet(Weekdays)
       /\ IsNumber(t.weeks_interval) /\ t.weeks_interval <= U16
  /\ t.kind = "ScheduleByMonth" =>
       /\ t = [MonthlyTrigger("", t.days_of_month, t.months) EXCEPT
                 !.common = t.common, !.random_delay = t.random_delay,
                 !.run_on_last_day = t.run_on_last_day]
       /\ t.days_of_month \subseteq 0..U8 /\ t.months \subseteq ToSet(Months)
       /\ t.run_on_last_day \in BOOLEAN
  /\ t.kind = "ScheduleByMonthDayOfWeek" =>
       /\ t = [MonthlyDowTrigger("", t.weeks_of_month, t.days_of_week, t.months) EXCEPT
                 !.common = t.common, !.random_delay = t.random_delay,
                 !.run_on_last_week = t.run_on_last_week]
       /\ t.weeks_of_month \subseteq ToSet(WeeksOfMonth)
       /\ t.days_of_week \subseteq ToSet(Weekdays) /\ t.months \subseteq ToSet(Months)
       /\ t.run_on_last_week \in BOOLEAN

IsEventTrigger(t) ==
  /\ t = [EventTrigger(t.subscription) EXCEPT
            !.common = t.common, !.delay = t.delay,
            !.value_queries = [n \in DOMAIN t.value_queries |-> t.value_queries[n]],
            !.period_of_occurrence = t.period_of_occurrence,
            !.number_of_occurrences = t.number_of_occurrences,
            !.matching_element = t.matching_element]
  /\ IsDelay(t.delay) /\ IsFiniteSet(DOMAIN t.value_queries)
  /\ IsDelay(t.period_of_occurrence)
  /\ IsOption(t.number_of_occurrences)
  /\ \A n \in ToSet(t.number_of_occurrences) : IsNumber(n)
  /\ IsOption(t.matching_element)

IsSessionTrigger(t) ==
  /\ t = [SessionStateChangeTrigger(t.state_change) EXCEPT
            !.common = t.common, !.delay = t.delay, !.user_id = t.user_id]
  /\ t.state_change \in SessionStateChanges /\ IsDelay(t.delay) /\ IsOption(t.user_id)

\* The elements that parse_trigger knows.
TriggerNames ==
  {"BootTrigger", "RegistrationTrigger", "IdleTrigger", "TimeTrigger", "EventTrigger",
   "LogonTrigger", "SessionStateChangeTrigger", "CalendarTrigger"}

IsTrigger(t, unread) ==
  /\ t.kind \in (TriggerNames \ {"CalendarTrigger"}) \union ToSet(Calendar)
                  \union {"unknown"}
  /\ t.kind /= "unknown" => IsCommon(t.common)
  /\ t.kind = "unknown" =>
       \E node \in unread : /\ t = UnknownTrigger(node.xml)
                            /\ node.name \notin TriggerNames /\ CommonReadable(node)
  /\ t.kind = "BootTrigger" =>
       /\ t = [BootTrigger EXCEPT !.common = t.common, !.delay = t.delay]
       /\ IsDelay(t.delay)
  /\ t.kind = "RegistrationTrigger" =>
       /\ t = [RegistrationTrigger EXCEPT !.common = t.common, !.delay = t.delay]
       /\ IsDelay(t.delay)
  /\ t.kind = "IdleTrigger" => t = [IdleTrigger EXCEPT !.common = t.common]
  /\ t.kind = "TimeTrigger" =>
       /\ t = [TimeTrigger("") EXCEPT !.common = t.common,
                                      !.random_delay = t.random_delay]
       /\ IsDelay(t.random_delay)
  /\ t.kind = "EventTrigger" => IsEventTrigger(t)
  /\ t.kind = "LogonTrigger" =>
       /\ t = [LogonTrigger EXCEPT !.common = t.common, !.delay = t.delay,
                                   !.user_id = t.user_id]
       /\ IsDelay(t.delay) /\ IsOption(t.user_id)
  /\ t.kind = "SessionStateChangeTrigger" => IsSessionTrigger(t)
  /\ t.kind \in ToSet(Calendar) => IsCalendar(t)

\* The elements that parse_actions knows.
ActionNames == {"Exec", "ComHandler", "SendEmail", "ShowMessage"}

IsEmail(a) ==
  /\ a = [EmailAction(a.server) EXCEPT
            !.id = a.id, !.body = a.body, !.attachments = a.attachments,
            !.texts = [n \in ToSet(EmailTexts) |-> a.texts[n]], !.headers = a.headers]
  /\ IsOption(a.body) /\ \A n \in ToSet(EmailTexts) : IsOption(a.texts[n])
  /\ IsList(a.attachments) /\ IsList(a.headers)
  /\ \A h \in ToSet(a.headers) : h = [name |-> h.name, value |-> h.value]

IsAction(a, unread) ==
  /\ a.kind \in ActionNames \union {"unknown"}
  /\ a.kind /= "unknown" => IsOption(a.id)
  /\ a.kind = "unknown" =>
       \E node \in unread : a = UnknownAction(node.xml) /\ node.name \notin ActionNames
  /\ a.kind = "Exec" =>
       /\ a = [ExecAction(a.command) EXCEPT
                 !.id = a.id, !.arguments = a.arguments,
                 !.working_directory = a.working_directory, !.hide_window = a.hide_window]
       /\ IsOption(a.arguments) /\ IsOption(a.working_directory) /\ a.hide_window \in BOOLEAN
  /\ a.kind = "ComHandler" =>
       /\ a = [ComHandlerAction(a.class_id) EXCEPT !.id = a.id, !.data = a.data]
       /\ a.class_id \in DOMAIN ClassIds /\ ClassIds[a.class_id] = a.class_id
       /\ IsOption(a.data)
  /\ a.kind = "SendEmail" => IsEmail(a)
  /\ a.kind = "ShowMessage" =>
       /\ a = [ShowMessageAction(a.body) EXCEPT !.id = a.id, !.title = a.title]
       /\ IsOption(a.title)

IsIdentity(identity) ==
  \/ identity \in {NoIdentity, User(identity.name), Group(identity.name)}
  \/ identity \in {ServiceAccount(name) : name \in ServiceNames}

IsPrincipal(p) ==
  /\ p = [id |-> p.id, display_name |-> p.display_name, identity |-> p.identity,
          logon_type |-> p.logon_type, run_level |-> p.run_level,
          process_token_sid_type |-> p.process_token_sid_type,
          required_privileges |-> p.required_privileges]
  /\ IsOption(p.display_name) /\ IsIdentity(p.identity)
  /\ p.logon_type \in LogonTypes /\ p.run_level \in RunLevels
  /\ p.process_token_sid_type \in SidTypes
  /\ IsList(p.required_privileges) /\ ToSet(p.required_privileges) \subseteq Privileges

IsRestart(r) ==
  /\ r = [interval |-> r.interval, count |-> r.count]
  /\ IsDuration(r.interval) /\ IsNumber(r.count) /\ r.count <= U8

IsIdle(idle) ==
  /\ idle = [duration |-> idle.duration, wait_timeout |-> idle.wait_timeout,
             stop_on_idle_end |-> idle.stop_on_idle_end,
             restart_on_idle |-> idle.restart_on_idle]
  /\ IsDuration(idle.duration) /\ IsDuration(idle.wait_timeout)
  /\ idle.stop_on_idle_end \in BOOLEAN /\ idle.restart_on_idle \in BOOLEAN

IsNetwork(n) ==
  n = [id |-> n.id, name |-> n.name] /\ IsOption(n.id) /\ IsOption(n.name)

IsMaintenance(m) ==
  /\ m = [period |-> m.period, deadline |-> m.deadline, exclusive |-> m.exclusive]
  /\ IsDuration(m.period) /\ IsDuration(m.deadline) /\ m.exclusive \in BOOLEAN

IsSettings(s) ==
  /\ s = [flags |-> s.flags, restart_on_failure |-> s.restart_on_failure,
          multiple_instances |-> s.multiple_instances, network |-> s.network,
          execution_time_limit |-> s.execution_time_limit,
          delete_expired_after |-> s.delete_expired_after, priority |-> s.priority,
          idle |-> s.idle, maintenance |-> s.maintenance]
  /\ s.flags \in [DOMAIN DefaultFlags -> BOOLEAN]
  /\ IsOption(s.restart_on_failure) /\ \A r \in ToSet(s.restart_on_failure) : IsRestart(r)
  /\ s.multiple_instances \in InstancePolicies
  /\ IsOption(s.network) /\ \A n \in ToSet(s.network) : IsNetwork(n)
  /\ IsLimit(s.execution_time_limit) /\ IsDelay(s.delete_expired_after)
  /\ IsNumber(s.priority) /\ s.priority <= U8
  /\ IsOption(s.idle) /\ \A idle \in ToSet(s.idle) : IsIdle(idle)
  /\ IsOption(s.maintenance) /\ \A m \in ToSet(s.maintenance) : IsMaintenance(m)

IsRegistration(r) ==
  /\ r = [name \in ToSet(RegistrationTexts) |-> r[name]]
  /\ \A name \in ToSet(RegistrationTexts) : IsOption(r[name])
  /\ ToSet(r["Date"]) \subseteq Dates
  /\ r["SecurityDescriptor"] /= Some("")

IsExtension(e, unread) ==
  \E node \in unread :
    /\ e = XmlExtension(e.parent, e.ordinal, node.xml) /\ e.ordinal \in Nat
    /\ e.parent = "Task" => node.name \notin RootNames
    /\ e.parent = "Task/RegistrationInfo" => node.name \notin ToSet(RegistrationTexts)
    /\ e.parent = "Task/Settings" => node.name \notin SettingNames

IsDefinition(d, unread) ==
  /\ d = [schema_version |-> d.schema_version, registration |-> d.registration,
          triggers |-> d.triggers, principal |-> d.principal, settings |-> d.settings,
          data |-> d.data, actions |-> d.actions, extensions |-> d.extensions]
  /\ IsRegistration(d.registration) /\ IsPrincipal(d.principal) /\ IsSettings(d.settings)
  /\ IsOption(d.data)
  /\ IsList(d.triggers) /\ \A t \in ToSet(d.triggers) : IsTrigger(t, unread)
  /\ IsList(d.actions) /\ \A a \in ToSet(d.actions) : IsAction(a, unread)
  /\ IsList(d.extensions) /\ \A e \in ToSet(d.extensions) : IsExtension(e, unread)
  /\ WithinLimits(d.triggers, d.actions)

\* What the tables of texts are.  A text that stands for a value is not empty
\* and has no character that is escaped.
ASSUME TaskXmlAssumption ==
  /\ MaxTriggers \in Nat /\ MaxActions \in Nat
  /\ \A t \in DOMAIN Durations : Durations[t] \in DOMAIN Durations /\ IsDuration(Durations[t])
  /\ \A t \in {"PT0S", "PT10M", "PT1H", DefaultLimit} : IsDuration(t)
  /\ \A t \in DOMAIN ClassIds :
       ClassIds[t] \in DOMAIN ClassIds /\ ClassIds[ClassIds[t]] = ClassIds[t]
  /\ \A t \in DOMAIN Numbers : IsNumber(Numbers[t])
  /\ \A n \in 0..31 : IsNumber(n)

Words ==
  DOMAIN Durations \union Dates \union DOMAIN ClassIds \union DOMAIN Numbers
    \union Privileges \union {"true", "1", "false", "0"} \union SessionStateChanges
    \union ToSet(WeeksOfMonth) \union LogonTypes \union RunLevels \union SidTypes
    \union InstancePolicies \union ServiceNames

ASSUME WordsAssumption == "" \notin Words /\ Words \intersect DOMAIN Pieces = {}

\* Programs carry elements that hold only such elements, and build values of
\* the types above.
ASSUME DefinitionsAssumption ==
  /\ IsList(Unread)
  /\ \A i \in DOMAIN Unread :
       LET node == Unread[i]
       IN /\ node = [name |-> node.name, attrs |-> node.attrs, kids |-> node.kids,
                     text |-> node.text, xml |-> NodeXml(node)]
          /\ IsList(node.kids)
          /\ ToSet(node.kids) \subseteq {Unread[j] : j \in 1..(i - 1)}
  /\ \A d \in Definitions : IsDefinition(d, ToSet(Unread))
  /\ \A document \in Documents : IsList(document.events)
  /\ {DefaultLimits} \union {document.limits : document \in Documents}
       \subseteq [max_bytes : Nat, max_depth : Nat, max_nodes : Nat]

(***************************************************************************)
(* The calls of a program: to_string, RawTaskXml::with_limits, definition. *)
(***************************************************************************)
Written == Len(docs) - Len(foreign)

\* decode_xml: UTF-16 takes two bytes where UTF-8 takes one ("utf16") or three
\* ("wide"); "broken" are half a code unit, a lone surrogate, invalid UTF-8.
BytesOf(length, encoding) ==
  CASE encoding = "utf16" -> 2 * length
    [] encoding = "wide" -> (2 * length) \div 3
    [] OTHER -> length

Decode ==
  /\ stage = "bytes"
  /\ IF BytesOf(Len(text), foreign[1]) > limits.max_bytes \/ foreign[1] = "broken"
     THEN stage' = "refused" /\ UNCHANGED readerVars
     ELSE stage' = "raw" /\ Open(text, limits)
  /\ UNCHANGED <<foreign, defs, docs>>

\* encoded_string; the second document ends the story.
Serialize ==
  /\ stage = "typed"
  /\ IF Valid(Last(defs))
     THEN LET document == WriteDefinition(Last(defs))
          IN /\ docs' = Append(docs, document)
             /\ Open(document, DefaultLimits)
             /\ stage' = IF Written = 0 THEN "reading" ELSE "done"
     ELSE stage' = "invalid" /\ UNCHANGED <<docs, readerVars>>
  /\ UNCHANGED <<defs, foreign>>

ReadOn == stage \in {"raw", "reading"} /\ Read /\ UNCHANGED <<stage, foreign, defs, docs>>

\* A document retained within the caller's limits; definition() reads it
\* again, within the default limits.
Retain ==
  /\ stage = "raw" /\ outcome = "accepted"
  /\ Open(text, DefaultLimits)
  /\ stage' = "reading"
  /\ UNCHANGED <<foreign, defs, docs>>

Reject ==
  /\ stage \in {"raw", "reading"} /\ outcome = "refused"
  /\ stage' = "refused"
  /\ UNCHANGED <<foreign, defs, docs, readerVars>>

\* The typed half of TaskSnapshot::parse.
Understand ==
  /\ stage = "reading" /\ outcome = "accepted"
  /\ IF Readable(root[1])
     THEN defs' = Append(defs, DefinitionOf(root[1])) /\ stage' = "typed"
     ELSE stage' = "untyped" /\ UNCHANGED defs
  /\ UNCHANGED <<foreign, docs, readerVars>>

Init ==
  \/ /\ stage = "typed" /\ foreign = None
     /\ defs \in {<<d>> : d \in Definitions} /\ docs = <<>>
     /\ Closed(<<>>, DefaultLimits)
  \/ \E document \in Documents :
       /\ stage = "bytes" /\ foreign = Some(document.encoding)
       /\ defs = <<>> /\ docs = <<document.events>>
       /\ Closed(document.events, document.limits)

Next == Decode \/ Serialize \/ ReadOn \/ Retain \/ Reject \/ Understand
Spec == Init /\ [][Next]_vars

-----------------------------------------------------------------------------
(***************************************************************************)
(* Properties.                                                             *)
(***************************************************************************)
\* A zero limit is the same text as no limit.
CanonicalLimit(limit) == IF limit = "PT0S" THEN "unlimited" ELSE limit

Texts(option) == Each(option, ReadText)

\* A document as it is when it is read and each element is written again.
TagAsRead(event) ==
  IF event.kind \in {"start", "empty"}
  THEN [event EXCEPT !.attrs = ReadAttributes(@)] ELSE event

AsRead(events) == Each(events, TagAsRead)

\* The names of the built-in accounts denote them, and a logon that XML
\* cannot say follows from the identity.
CanonicalIdentity(identity) ==
  CASE identity.type = "user" -> UserOrService(ReadText(identity.name))
    [] identity.type = "group" -> Group(ReadText(identity.name))
    [] OTHER -> identity

CanonicalPrincipal(p) ==
  [p EXCEPT !.id = ReadAttribute(@),
            !.identity = CanonicalIdentity(@), !.display_name = Texts(@),
            !.logon_type = IF LogonElement(@) = <<>>
                           THEN ImpliedLogon(CanonicalIdentity(p.identity)) ELSE @]

Ids(option) == Each(option, ReadAttribute)

CanonicalCommon(c) ==
  [c EXCEPT !.id = Ids(@), !.execution_time_limit = Each(@, CanonicalLimit)]

\* Of the names that become one the last remains.
CanonicalQueries(queries) ==
  LET names == SetToSeq(DOMAIN queries)
      ReadAs(n) == {i \in DOMAIN names : ReadAttribute(names[i]) = n}
  IN [n \in {ReadAttribute(m) : m \in DOMAIN queries} |->
        ReadText(queries[names[Max(ReadAs(n))]])]

CanonicalTrigger(t) ==
  CASE t.kind = "unknown" -> UnknownTrigger(AsRead(t.xml))
    [] t.kind = "EventTrigger" ->
         [t EXCEPT !.common = CanonicalCommon(@), !.subscription = ReadText(@),
                   !.value_queries = CanonicalQueries(@),
                   !.matching_element = Texts(@)]
    [] t.kind \in {"LogonTrigger", "SessionStateChangeTrigger"} ->
         [t EXCEPT !.common = CanonicalCommon(@), !.user_id = Texts(@)]
    [] OTHER -> [t EXCEPT !.common = CanonicalCommon(@)]

CanonicalAction(a) ==
  CASE a.kind = "Exec" ->
         [a EXCEPT !.id = Ids(@), !.command = ReadText(@), !.arguments = Texts(@),
                   !.working_directory = Texts(@)]
    [] a.kind = "ComHandler" -> [a EXCEPT !.id = Ids(@), !.data = Texts(@)]
    [] a.kind = "SendEmail" ->
         [a EXCEPT !.id = Ids(@), !.server = ReadText(@), !.texts = [n \in DOMAIN @ |-> Texts(@[n])],
                   !.body = Texts(@), !.attachments = Each(@, ReadText),
                   !.headers = Each(@, LAMBDA h : [name |-> ReadText(h.name),
                                                   value |-> ReadText(h.value)])]
    [] a.kind = "ShowMessage" ->
         [a EXCEPT !.id = Ids(@), !.body = ReadText(@), !.title = Texts(@)]
    [] a.kind = "unknown" -> UnknownAction(AsRead(a.xml))

CanonicalSettings(s) ==
  [s EXCEPT !.execution_time_limit = CanonicalLimit(@),
            !.network = Each(@, LAMBDA n : [id |-> Texts(n.id), name |-> Texts(n.name)])]

Canonical(d) ==
  [d EXCEPT
     !.schema_version = ReadAttribute(@),
     !.registration = [name \in DOMAIN @ |-> Texts(@[name])],
     !.principal = CanonicalPrincipal(@),
     !.settings = CanonicalSettings(@),
     !.triggers = Each(@, CanonicalTrigger),
     !.data = Texts(@),
     !.actions = Each(@, CanonicalAction)]

WithoutExtensions(d) == [d EXCEPT !.extensions = <<>>]

\* A definition that was written and read back is the same one, whether a
\* program built it or another document gave it: nothing that validation lets
\* pass is lost, moved to another field or given another default, except that
\* names of built-in accounts become those accounts, a logon that XML cannot
\* express is derived again, zero limits become unlimited, line ends are
\* normalized, and tabs and line ends in attributes (ids, the names of value
\* queries, the schema version, attributes of elements that are not known)
\* become spaces.  What was written is read back unless it is larger than the
\* reader's limits.
RoundTrip ==
  /\ stage = "untyped" => Written = 0
  /\ stage = "refused" /\ Written > 0 => ~WellFormed
  /\ Len(defs) = 2 => WithoutExtensions(defs[2]) = WithoutExtensions(Canonical(defs[1]))

Kept(d, parent) ==
  LET of == Where(d.extensions, LAMBDA e : e.parent = parent)
  IN [i \in DOMAIN of |-> of[i].xml]

PlacesOf(d, parent) ==
  LET of == Where(d.extensions, LAMBDA e : e.parent = parent)
  IN [i \in DOMAIN of |-> of[i].ordinal]

Respelled(identity) ==
  IdentityElement(CanonicalIdentity(identity)) /= IdentityElement(identity)

RespacedTrigger(t) ==
  IF t.kind = "unknown" THEN AsRead(t.xml) /= t.xml
  ELSE \/ Ids(t.common.id) /= t.common.id
       \/ t.kind = "EventTrigger" /\ \E n \in DOMAIN t.value_queries : ReadAttribute(n) /= n

RespacedAction(a) ==
  IF a.kind = "unknown" THEN AsRead(a.xml) /= a.xml ELSE Ids(a.id) /= a.id

\* A definition with tabs or line ends in what is written to attributes.
Respaced(d) ==
  \/ ReadAttribute(d.schema_version) /= d.schema_version
  \/ ReadAttribute(d.principal.id) /= d.principal.id
  \/ \E i \in DOMAIN d.triggers : RespacedTrigger(d.triggers[i])
  \/ \E i \in DOMAIN d.actions : RespacedAction(d.actions[i])
  \/ \E i \in DOMAIN d.extensions : AsRead(d.extensions[i].xml) /= d.extensions[i].xml

\* "Canonical output preserves extension sibling positions and remains stable
\* across repeated typed round-trips": what a document holds beyond the known
\* elements of its three extension points is still there, in the same order
\* and never further back, after it was understood and written; and the
\* second writing equals the first, except that a user whose name is another
\* spelling of a built-in account is written as this account, and that tabs
\* and line ends in attributes are spaces now.
ExtensionsKept ==
  /\ foreign /= None /\ Len(defs) = 2 =>
       \A parent \in {"Task", "Task/RegistrationInfo", "Task/Settings"} :
         /\ Kept(defs[2], parent) = Each(Kept(defs[1], parent), AsRead)
         /\ \A i \in DOMAIN PlacesOf(defs[2], parent) :
              PlacesOf(defs[2], parent)[i] <= PlacesOf(defs[1], parent)[i]
  /\ stage = "done" /\ ~Respelled(defs[1].principal.identity) /\ ~Respaced(defs[1]) =>
       docs[Len(docs)] = docs[Len(docs) - 1]

\* The conditions that the schema takes as true when they are not stated.
SchemaTrue ==
  {"AllowStartOnDemand", "DisallowStartIfOnBatteries", "StopIfGoingOnBatteries",
   "AllowHardTerminate", "Enabled"}

Conditions == DOMAIN DefaultFlags \union {"RunOnlyIfIdle", "RunOnlyIfNetworkAvailable"}

DepthAt(document, k) ==
  Cardinality({j \in 1..(k - 1) : document[j].kind = "start"})
    - Cardinality({j \in 1..(k - 1) : document[j].kind = "end"})

Stated(document, name) ==
  {k \in DOMAIN document : /\ document[k].kind \in {"start", "empty"}
                           /\ document[k].name = name
                           /\ DepthAt(document, k) = 2}

\* A condition of the settings as a reader of the document understands it:
\* the text of the first element of this name, or the default of the schema.
InForce(document, name) ==
  IF Stated(document, name) = {} THEN name \in SchemaTrue
  ELSE document[Min(Stated(document, name)) + 1].text \in {"true", "1"}

\* A task that is read and written again starts and runs under the conditions
\* under which it did before, whether its document stated them or left them
\* to the defaults of the schema; but a document that describes a network
\* and does not require it requires it afterwards.
ConditionsKept ==
  foreign /= None /\ stage = "done" =>
    \A name \in Conditions :
      \/ InForce(docs[2], name) = InForce(docs[1], name)
      \/ name = "RunOnlyIfNetworkAvailable" /\ Stated(docs[1], "NetworkSettings") /= {}

\* What validation accepted and canonical output expressed validates when it
\* is read back, so that repeated round trips remain possible.
WrittenIsValid == stage = "invalid" => Written = 0
=============================================================================
