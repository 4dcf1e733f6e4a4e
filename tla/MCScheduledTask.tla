--------------------------- MODULE MCScheduledTask --------------------------
(* Expressions, definitions and documents for model checking ScheduledTask.  *)
EXTENDS ScheduledTask

(* Expressions and a calendar.                                               *)
One(v) == [kind |-> "one", from |-> v, stepped |-> FALSE]
OneStep(v, s) == [kind |-> "one", from |-> v, stepped |-> TRUE, step |-> s]
Span(v, w) == [kind |-> "span", from |-> v, to |-> w, stepped |-> FALSE]
SpanStep(v, w, s) ==
  [kind |-> "span", from |-> v, to |-> w, stepped |-> TRUE, step |-> s]
AllStep(s) == [kind |-> "all", stepped |-> TRUE, step |-> s]

\* The last minutes and hours of their fields, and 4 and 5 times a day.
MCMinutes ==
  {<<Star>>, <<One(0), One(59)>>, <<AllStep(30)>>, <<OneStep(5, 10)>>, <<AllStep(256)>>,
   <<AllStep(15), One(1)>>, <<Span(10, 5)>>, <<One(60)>>, <<AllStep(0)>>}
MCHours ==
  {<<Star>>, <<One(6)>>, <<SpanStep(8, 12, 4), One(8)>>, <<Span(22, 24)>>,
   <<Span(1, 2), OneStep(23, 7)>>}

\* Short months, the ends of both weekday names of Sunday, fifth weeks.
MCDaysOfMonth ==
  {<<Star>>, <<Span(1, 31)>>, <<Span(29, 31)>>, <<One(1), One(15)>>,
   <<AllStep(10)>>, <<One(0)>>}
MCMonths ==
  {<<Star>>, <<One(2)>>, <<Span(1, 12)>>, <<OneStep(1, 2)>>, <<One(13)>>}
MCDaysOfWeek ==
  {<<Star>>, <<Span(1, 5)>>, <<One(7)>>, <<Span(5, 7)>>, <<One(0), One(7)>>,
   <<AllStep(2)>>, <<OneStep(6, 1)>>, <<SpanStep(0, 7, 7)>>, <<One(8)>>}

Expr(minute, hour, dom, month, dow) ==
  [minute |-> minute, hour |-> hour, dom |-> dom, month |-> month, dow |-> dow]

MCExpressions ==
  {Expr(m, h, <<Star>>, n, w) : m \in MCMinutes, h \in MCHours,
                                n \in {<<Star>>, <<One(2)>>},
                                w \in {<<Star>>, <<Span(5, 7)>>}}
  \union
  {Expr(<<One(0), One(59)>>, <<One(6)>>, d, n, w) :
     d \in MCDaysOfMonth, n \in MCMonths, w \in MCDaysOfWeek}

\* The first four months of a leap year that begins on a Thursday: months of
\* 29, 30 and 31 days, each weekday with and without a fifth week.
MCLengths == <<31, 29, 31, 30>>
MCBefore == <<0, 31, 60, 91>>
MCDays ==
  UNION {{[n |-> MCBefore[m] + d, month |-> m, day |-> d,
           weekday |-> (MCBefore[m] + d + 3) % 7, length |-> MCLengths[m]]
            : d \in 1..MCLengths[m]} : m \in 1..4}

MCAnchors == [day : {1, 45}, separated : {TRUE}]
               \union {[day |-> 1, separated |-> FALSE]}

MCDateTexts ==
  [m \in {1, 45} \X ((0..23) \X (0..59)) |->
     ToString(m[1]) \o "T" \o ToString(m[2][1]) \o ":" \o ToString(m[2][2])]

(* Tables.                                                                   *)
MCDurations ==
  ("PT0S" :> "PT0S") @@ ("P0D" :> "PT0S") @@ ("PT10M" :> "PT10M")
    @@ ("PT600S" :> "PT10M") @@ ("PT1H" :> "PT1H") @@ ("P3D" :> "P3D")
MCDates ==
  {"2026-09-05T06:00:00", "2026-09-05T06:00:00Z"} \union Range(MCDateTexts)
MCClassIds ==
  ("0a1b" :> "0a1b") @@ ("{0A1B}" :> "0a1b")
MCValues == (0..32) \union {255, 256, 65535, 65536}
MCNumbers ==
  [t \in {ToString(n) : n \in MCValues} |-> CHOOSE n \in MCValues : ToString(n) = t]
    @@ ("+2" :> 2)
MCPieces ==
  ("R&D" :> <<[kind |-> "text", text |-> "R"], [kind |-> "reference", text |-> "&"],
              [kind |-> "text", text |-> "D"]>>)
    @@ ("a\r\nb" :> <<[kind |-> "text", text |-> "a\nb"]>>)

MCNormalized == ("a\tb" :> "a b") @@ ("a\nb" :> "a b") @@ ("a&#9;b" :> "a\tb")
MCAccounts ==
  [u \in {"SYSTEM", "system", "S-1-5-18"} |-> "SYSTEM"]
    @@ [u \in {"Local Service", "NT AUTHORITY\\LOCAL SERVICE", "S-1-5-19"} |->
          "NT AUTHORITY\\LOCAL SERVICE"]
    @@ ("NT AUTHORITY\\NETWORK SERVICE" :> "NT AUTHORITY\\NETWORK SERVICE")

Bounds == [max_bytes |-> 450, max_depth |-> 6, max_nodes |-> 140]
Wide == [max_bytes |-> 500, max_depth |-> 9, max_nodes |-> 160]

(* Definitions: a usual one, varied one part at a time.                      *)
At == "2026-09-05T06:00:00"
Exec == ExecAction("agent.exe")
Usual == NewDefinition(Exec)
Old == [Usual EXCEPT !.schema_version = "1.2",
                     !.settings.flags.UseUnifiedSchedulingEngine = FALSE]

\* Elements that are carried unread, as their nodes; one is nested as deep as
\* the reader allows, and one deeper.
NodeWith(name, attrs, content, kids) ==
  Finished([name |-> name, attrs |-> attrs, text |-> content, kids |-> kids, xml |-> <<>>])
LeafNode(name) == NodeWith(name, <<>>, "", <<>>)
NestedNode(name) ==
  NodeWith(name, "id" :> "x", "R&D", <<LeafNode("Inner"), NodeWith("Other", <<>>, "b", <<>>)>>)
deepNodes[n \in 1..6] ==
  NodeWith("Deep", <<>>, "", IF n = 1 THEN <<>> ELSE <<deepNodes[n - 1]>>)
MCUnread ==
  <<LeafNode("Inner"), NodeWith("Other", <<>>, "b", <<>>), LeafNode("Ext"), LeafNode("A"),
    LeafNode("B"), LeafNode("Custom"), NestedNode("Ext"), NestedNode("WnfStateChangeTrigger")>>
    \o <<NodeWith("Ext", "id" :> "a\tb", "", <<>>), NodeWith("Custom", "id" :> "a\nb", "", <<>>)>>
    \o [n \in 1..6 |-> deepNodes[n]]

Leaf(name) == LeafNode(name).xml
Spaced(name, v) == <<Tag("empty", name, "id" :> v)>>
Nested(name) == NestedNode(name).xml
Deep(n) == deepNodes[n].xml

Rep(interval) == Some(Repetition(interval, Some("PT1H"), TRUE))

Triggers ==
  {BootTrigger, [BootTrigger EXCEPT !.delay = Some("PT10M"), !.common.id = Some("t")],
   RegistrationTrigger, IdleTrigger, TimeTrigger(At),
   [TimeTrigger(At) EXCEPT !.common.start_boundary = None],
   [TimeTrigger(At) EXCEPT !.random_delay = Some("PT1H"),
                           !.common.end_boundary = Some("2026-09-05T06:00:00Z"),
                           !.common.enabled = FALSE],
   EventTrigger("q"), EventTrigger(""), Every(At, "PT10M")[1],
   [EventTrigger("R&D") EXCEPT !.value_queries = ("a" :> "x") @@ ("b" :> ""),
      !.number_of_occurrences = Some(2), !.matching_element = Some("m"),
      !.period_of_occurrence = Some("PT1H"), !.delay = Some("PT0S")],
   [EventTrigger("q") EXCEPT !.value_queries = ("a\tb" :> "x") @@ ("a b" :> "y") @@ ("c" :> "z")],
   [LogonTrigger EXCEPT !.user_id = Some("eve")],
   [SessionStateChangeTrigger("SessionLock") EXCEPT !.delay = Some("PT10M")],
   DailyTrigger(At), [DailyTrigger(At) EXCEPT !.days_interval = 0],
   WeeklyTrigger(At, {}), WeeklyTrigger(At, {"Saturday", "Sunday"}),
   MonthlyTrigger(At, {1, 31}, {"January", "December"}),
   MonthlyTrigger(At, {0}, {"May"}), MonthlyTrigger(At, {32}, {"May"}),
   [MonthlyTrigger(At, {}, {"May"}) EXCEPT !.run_on_last_day = TRUE],
   MonthlyDowTrigger(At, {"1", "4"}, {"Monday"}, {"June"}),
   MonthlyDowTrigger(At, {}, {"Monday"}, {"June"}),
   [MonthlyDowTrigger(At, {}, {"Monday"}, {"June"}) EXCEPT !.run_on_last_week = TRUE],
   UnknownTrigger(Nested("WnfStateChangeTrigger"))}
  \union {[IdleTrigger EXCEPT !.common.repetition = Rep(i)] : i \in {"PT10M", "PT0S"}}
  \union {[IdleTrigger EXCEPT !.common.execution_time_limit = Some(l)]
            : l \in {"PT10M", "PT0S", "unlimited"}}

Actions ==
  {ExecAction(""), [Exec EXCEPT !.id = Some("e"), !.arguments = Some("R&D"),
                                !.working_directory = Some(""), !.hide_window = TRUE],
   ComHandlerAction("0a1b"), [ComHandlerAction("0a1b") EXCEPT !.data = Some("R&D")],
   EmailAction("smtp"),
   [EmailAction("") EXCEPT !.texts["Bcc"] = Some("x"), !.body = Some("b"),
      !.attachments = <<"f", "f">>, !.headers = <<[name |-> "n", value |-> ""]>>],
   [ShowMessageAction("b") EXCEPT !.title = Some("")],
   UnknownAction(Leaf("Custom")), UnknownAction(Spaced("Custom", "a\nb"))}

Principals ==
  {[PrincipalAs(i, l) EXCEPT !.id = n] :
     i \in {NoIdentity, User("eve"), User("SYSTEM"), User("S-1-5-18"), Group("staff"),
            ServiceAccount("SYSTEM"), ServiceAccount("NT AUTHORITY\\LOCAL SERVICE")},
     l \in LogonTypes, n \in {"Author"}}
  \union {[DefaultPrincipal EXCEPT !.id = ""], [DefaultPrincipal EXCEPT !.id = "a\nb"],
          [DefaultPrincipal EXCEPT !.display_name = Some("d"), !.run_level = "HighestAvailable",
             !.process_token_sid_type = "Unrestricted", !.required_privileges = <<"SeBackup">>],
          [DefaultPrincipal EXCEPT !.required_privileges = <<"SeBackup", "SeBackup">>]}

Settings ==
  {[DefaultSettings EXCEPT !.flags[f] = ~@] : f \in DOMAIN DefaultFlags}
  \union
  {[DefaultSettings EXCEPT !.restart_on_failure = Some([interval |-> "PT10M", count |-> 255])],
   [DefaultSettings EXCEPT !.multiple_instances = "StopExisting", !.priority = 10],
   [DefaultSettings EXCEPT !.priority = 11],
   [DefaultSettings EXCEPT !.network = Some([id |-> None, name |-> None])],
   [DefaultSettings EXCEPT !.network = Some([id |-> Some("i"), name |-> Some("n")])],
   [DefaultSettings EXCEPT !.delete_expired_after = Some("PT0S")],
   [DefaultSettings EXCEPT !.idle = Some(DefaultIdle)],
   [DefaultSettings EXCEPT !.idle = Some([duration |-> "PT0S", wait_timeout |-> "PT10M",
                                          stop_on_idle_end |-> FALSE, restart_on_idle |-> TRUE])],
   [DefaultSettings EXCEPT !.maintenance = Some([period |-> "P3D", deadline |-> "PT1H",
                                                 exclusive |-> TRUE])]}
  \union {[DefaultSettings EXCEPT !.execution_time_limit = l] : l \in {"unlimited", "PT0S"}}

\* Up to two extensions at places before, among and behind the known children.
Extensions ==
  {<<XmlExtension(p, o, x)>> : p \in {"Task", "Task/RegistrationInfo", "Task/Settings"},
                               o \in {0, 1, 40}, x \in {Leaf("Ext"), Nested("Ext")}}
  \union {<<XmlExtension(p, o[1], Leaf("A")), XmlExtension(p, o[2], Leaf("B"))>> :
            p \in {"Task", "Task/RegistrationInfo"}, o \in {0, 1, 9} \X {0, 1, 9}}

MCDefinitions ==
  {[Usual EXCEPT !.triggers = <<t>>] : t \in Triggers}
  \union {[Usual EXCEPT !.triggers = <<[IdleTrigger EXCEPT !.common.id = Some(i)],
                                       [LogonTrigger EXCEPT !.common.id = Some(j)]>>] :
            i \in {"t", "a b"}, j \in {"t", "a\tb"}}
  \union {NewDefinition(a) : a \in Actions}
  \union {[Usual EXCEPT !.actions = <<[Exec EXCEPT !.id = Some("a\nb")],
                                      [Exec EXCEPT !.id = Some(i)]>>] : i \in {"a\nb", "a\tb", "f"}}
  \union {[Usual EXCEPT !.principal = p] : p \in Principals}
  \union {[d EXCEPT !.settings = [s EXCEPT !.flags.UseUnifiedSchedulingEngine =
                                     d.schema_version /= "1.2"]] :
            d \in {Usual, Old, [Usual EXCEPT !.schema_version = "1.5"]}, s \in Settings}
  \union {[Usual EXCEPT !.settings = s] : s \in Settings}
  \union {[Usual EXCEPT !.schema_version = v] : v \in {"1.2", "1.3", "9.9"}}
  \union {[Usual EXCEPT !.registration[n] = Some(t)] :
            n \in {"Author", "Description"}, t \in {"R&D", "a\r\nb", ""}}
  \union {[Usual EXCEPT !.registration["Date"] = Some(At), !.data = Some("")],
          DefaultDefinition}
  \union {[Usual EXCEPT !.extensions = e] : e \in Extensions}
  \union {[Usual EXCEPT !.extensions = <<XmlExtension("Task", 0, Spaced("Ext", "a\tb"))>>]}
  \union {[Usual EXCEPT !.extensions = <<XmlExtension("Task", 0, Deep(n))>>] : n \in {5, 6}}

(* Documents: short ones of every shape, and tasks that others wrote.        *)
Tokens ==
  {Tag("start", "Task", <<>>), [kind |-> "end"], Tag("empty", "Task", <<>>),
   [kind |-> "text", text |-> "x"], [kind |-> "blank", text |-> " "],
   [kind |-> "cdata", text |-> "c"], [kind |-> "reference", text |-> "&"],
   [kind |-> "doctype"], [kind |-> "illegal"], [kind |-> "comment"]}

Shapes ==
  {[events |-> e, encoding |-> "utf8",
    limits |-> [max_bytes |-> 9, max_depth |-> 2, max_nodes |-> 2]] : e \in SeqOf(Tokens, 4)}

Blank == <<[kind |-> "blank", text |-> "\n "]>>
Listing(kids) == FlattenSeq([i \in DOMAIN kids |-> Blank \o kids[i]])
TaskWith(kids) ==
  <<[kind |-> "comment"], Tag("start", "Task", "version" :> "1.4")>> \o Listing(kids)
    \o <<[kind |-> "end"]>>
Body(kids) == TaskWith(kids \o <<Plain("Actions", <<Plain("Exec", <<Element("Command", "x")>>)>>)>>)

SomeSettings ==
  {<<Element("Priority", t)>> : t \in {"+2", "255", "256", "", "11"}}
  \union {<<Element("Enabled", t)>> : t \in {"1", "0", "yes", ""}}
  \union {<<Leaf("A"), Element("Priority", "7"), Element("Priority", "2"), Nested("B")>>,
          <<Element("RunOnlyIfNetworkAvailable", "false"), Leaf("NetworkSettings")>>,
          <<Element("RunOnlyIfIdle", "1")>>,
          <<Element("RunOnlyIfIdle", "false"), Plain("IdleSettings", <<Element("Duration", "?")>>)>>,
          <<Element("RunOnlyIfIdle", "true"), Plain("IdleSettings", <<Element("Duration", "PT600S")>>)>>,
          <<Element("ExecutionTimeLimit", "P0D"), Element("DeleteExpiredTaskAfter", "P0D")>>,
          <<Plain("RestartOnFailure", <<Element("Interval", "PT600S")>>)>>,
          <<Plain("MaintenanceSettings", <<Element("Period", "P3D"), Element("Deadline", "P0D")>>)>>,
          [i \in 1..25 |-> Leaf(IF i = 1 THEN "First" ELSE IF i = 25 THEN "Last" ELSE "Hidden")]}

SomeTriggers ==
  {<<Plain("IdleTrigger", <<Element("Delay", "soon")>>)>>,
   <<Leaf("LogonTrigger"), Plain("Mine", <<Element("Enabled", "1"), Leaf("Deep")>>)>>,
   <<Plain("Mine", <<Element("Enabled", "maybe")>>)>>,
   <<WithId("IdleTrigger", Some("a&#9;b"), <<>>), Spaced("Mine", "a\nb")>>,
   <<Plain("CalendarTrigger", <<Leaf("ScheduleByDay")>>)>>, <<Leaf("CalendarTrigger")>>,
   <<Plain("CalendarTrigger", <<Plain("ScheduleByWeek", <<Element("WeeksInterval", "1"),
       Plain("DaysOfWeek", <<Leaf("Monday"), Leaf("Noday")>>)>>),
       Plain("ScheduleByDay", <<Element("DaysInterval", "2")>>)>>)>>,
   <<Plain("EventTrigger", <<Element("Subscription", "q"), Plain("ValueQueries",
       <<Container("Value", "name" :> "a", "1", <<>>), Container("Value", "name" :> "a", "2", <<>>),
         Element("Value", "3")>>)>>)>>,
   <<Plain("SessionStateChangeTrigger", <<Element("StateChange", "Sleep")>>)>>,
   <<Leaf("BootTrigger"), Leaf("IdleTrigger"), Leaf("LogonTrigger"), Leaf("TimeTrigger"),
     Leaf("BootTrigger")>>}

SomePrincipals ==
  {Plain("Principal", <<Element("UserId", u)>> \o l) :
     u \in {"eve", "system", "Local Service"},
     l \in {<<>>, <<Element("LogonType", "ServiceAccount")>>, <<Element("LogonType", "S4U")>>,
            <<Element("LogonType", "Magic")>>}}
  \union {Plain("Principal", <<Element("UserId", "eve"), Element("GroupId", "staff")>>)}

Tasks ==
  {Body(<<Plain("Settings", s)>>) : s \in SomeSettings}
  \union {Body(<<Plain("Triggers", t)>>) : t \in SomeTriggers}
  \union {Body(<<Plain("Principals", <<p, Leaf("Principal")>>)>>) : p \in SomePrincipals}
  \union {Body(<<Spaced("A", "a&#9;b"), Plain("Settings", <<Spaced("B", "a\tb"), Leaf("C")>>)>>)}
  \union {Body(<<>>), Body(<<Leaf("A"), Plain("RegistrationInfo", <<Leaf("B"), Element("URI", "R&D"),
                             Nested("C")>>), Nested("D")>>),
          TaskWith(<<Plain("Actions", <<Leaf("Exec")>>)>>), TaskWith(<<Leaf("Actions")>>),
          TaskWith(<<Plain("Actions", <<Plain("ComHandler", <<Element("ClassId", "{0A1B}")>>)>>)>>),
          TaskWith(<<Plain("Actions", <<Leaf("Mine"), Plain("ShowMessage", <<Leaf("Body")>>)>>)>>),
          Plain("NotTask", <<>>)}

MCDocuments ==
  Shapes
  \union {[events |-> e, encoding |-> "utf8", limits |-> l] : e \in Tasks,
            l \in {Bounds, Wide}}
  \union {[events |-> Body(<<Leaf("A")>>), encoding |-> c,
            limits |-> [Bounds EXCEPT !.max_bytes = b]]
            : c \in {"utf8", "utf16", "wide", "broken"}, b \in 8..24}
  \union {[events |-> Body([i \in 1..n |-> Leaf("A")]), encoding |-> "utf8",
            limits |-> Wide] : n \in {137, 138}}

(* Builders: the usual one; one trigger more, which may be too many; and a   *)
(* definition that does not validate.                                        *)
Given(actions, more, principal) ==
  [actions |-> actions, triggers |-> more, principal |-> principal,
   settings |-> DefaultSettings]
MCPrograms ==
  {Given(<<Exec>>, <<>>, DefaultPrincipal), Given(<<Exec>>, <<BootTrigger>>, DefaultPrincipal),
   Given(<<Exec>>, <<>>, [DefaultPrincipal EXCEPT !.id = ""]),
   Given(<<[Exec EXCEPT !.id = Some("a\tb")], [Exec EXCEPT !.id = Some("f")]>>, <<>>,
         [DefaultPrincipal EXCEPT !.id = "a\nb"])}
=============================================================================
