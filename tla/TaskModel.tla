----------------------------- MODULE TaskModel -----------------------------
(***************************************************************************)
(* The task definition (model/*.rs) and its validation (validation.rs).    *)
(*                                                                         *)
(* An Option is a sequence of at most one value.  A text is a string; a    *)
(* duration, a date and a class id are their canonical texts.  A kind of   *)
(* trigger or action is the record that its `new` returns.  XML carried    *)
(* without being understood is the sequence of its events (XmlReader).     *)
(***************************************************************************)
EXTENDS Naturals, Sequences, SequencesExt, FiniteSets

CONSTANTS
  Privileges,   \* texts that RequiredPrivilege::new accepts
  MaxTriggers,  \* MAX_TRIGGERS and
  MaxActions    \* MAX_ACTIONS (lib.rs)

None == <<>>
Some(v) == <<v>>

(***************************************************************************)
(* Triggers (model/trigger.rs).                                            *)
(***************************************************************************)
TriggerCommon ==
  [id |-> None, start_boundary |-> None, end_boundary |-> None,
   enabled |-> TRUE, execution_time_limit |-> None, repetition |-> None]

StartingAt(at) == [TriggerCommon EXCEPT !.start_boundary = Some(at)]

Repetition(interval, duration, stop) ==
  [interval |-> interval, duration |-> duration, stop_at_duration_end |-> stop]

BootTrigger ==
  [kind |-> "BootTrigger", common |-> TriggerCommon, delay |-> None]

RegistrationTrigger ==
  [kind |-> "RegistrationTrigger", common |-> TriggerCommon, delay |-> None]

IdleTrigger == [kind |-> "IdleTrigger", common |-> TriggerCommon]

TimeTrigger(at) ==
  [kind |-> "TimeTrigger", common |-> StartingAt(at), random_delay |-> None]

\* value_queries is a BTreeMap: the pairs in the order of their names.
EventTrigger(subscription) ==
  [kind |-> "EventTrigger", common |-> TriggerCommon,
   subscription |-> subscription, value_queries |-> <<>>, delay |-> None,
   period_of_occurrence |-> None, number_of_occurrences |-> None,
   matching_element |-> None]

LogonTrigger ==
  [kind |-> "LogonTrigger", common |-> TriggerCommon, user_id |-> None,
   delay |-> None]

SessionStateChanges ==
  {"ConsoleConnect", "ConsoleDisconnect", "RemoteConnect", "RemoteDisconnect",
   "SessionLock", "SessionUnlock"}

SessionStateChangeTrigger(change) ==
  [kind |-> "SessionStateChangeTrigger", common |-> TriggerCommon,
   state_change |-> change, user_id |-> None, delay |-> None]

Weekdays ==
  <<"Sunday", "Monday", "Tuesday", "Wednesday", "Thursday", "Friday", "Saturday">>

Months ==
  <<"January", "February", "March", "April", "May", "June", "July", "August",
    "September", "October", "November", "December">>

WeeksOfMonth == <<"1", "2", "3", "4">>

DailyTrigger(first) ==
  [kind |-> "ScheduleByDay", common |-> StartingAt(first), days_interval |-> 1,
   random_delay |-> None]

WeeklyTrigger(first, days) ==
  [kind |-> "ScheduleByWeek", common |-> StartingAt(first),
   weeks_interval |-> 1, days_of_week |-> days, random_delay |-> None]

MonthlyTrigger(first, days, months) ==
  [kind |-> "ScheduleByMonth", common |-> StartingAt(first),
   days_of_month |-> days, months |-> months, run_on_last_day |-> FALSE,
   random_delay |-> None]

MonthlyDowTrigger(first, weeks, days, months) ==
  [kind |-> "ScheduleByMonthDayOfWeek", common |-> StartingAt(first),
   weeks_of_month |-> weeks, days_of_week |-> days, months |-> months,
   run_on_last_week |-> FALSE, random_delay |-> None]

UnknownTrigger(xml) == [kind |-> "unknown", xml |-> xml]

\* Trigger::common.
CommonOf(trigger) ==
  IF trigger.kind = "unknown" THEN None ELSE Some(trigger.common)

(***************************************************************************)
(* Actions (model/action.rs).                                              *)
(***************************************************************************)
ExecAction(command) ==
  [kind |-> "Exec", id |-> None, command |-> command, arguments |-> None,
   working_directory |-> None, hide_window |-> FALSE]

ComHandlerAction(class) ==
  [kind |-> "ComHandler", id |-> None, class_id |-> class, data |-> None]

\* The optional texts of an e-mail, in the order the writer gives them.
EmailTexts == <<"Subject", "To", "Cc", "Bcc", "ReplyTo", "From">>

EmailAction(server) ==
  [kind |-> "SendEmail", id |-> None, server |-> server,
   texts |-> [name \in ToSet(EmailTexts) |-> None], body |-> None,
   attachments |-> <<>>, headers |-> <<>>]

ShowMessageAction(body) ==
  [kind |-> "ShowMessage", id |-> None, title |-> None, body |-> body]

UnknownAction(xml) == [kind |-> "unknown", xml |-> xml]

\* Action::id.
IdOf(action) == IF action.kind = "unknown" THEN None ELSE action.id

(***************************************************************************)
(* Principal (model/principal.rs).                                         *)
(***************************************************************************)
NoIdentity == [type |-> "none", name |-> ""]
User(name) == [type |-> "user", name |-> name]
Group(name) == [type |-> "group", name |-> name]
ServiceAccount(name) == [type |-> "service", name |-> name]

DefaultPrincipal ==
  [id |-> "Author", display_name |-> None, identity |-> NoIdentity,
   logon_type |-> "None", run_level |-> "LeastPrivilege",
   process_token_sid_type |-> "Default", required_privileges |-> <<>>]

\* Principal::service_account, user, user_with_password, s4u and group.
PrincipalAs(identity, logon) ==
  [DefaultPrincipal EXCEPT !.identity = identity, !.logon_type = logon]

(***************************************************************************)
(* Settings (model/settings.rs): the flags under the names of their        *)
(* elements, in the order in which the writer gives them.                  *)
(***************************************************************************)
DefaultFlags ==
  [AllowStartOnDemand |-> TRUE, DisallowStartIfOnBatteries |-> TRUE,
   StopIfGoingOnBatteries |-> TRUE, AllowHardTerminate |-> TRUE,
   StartWhenAvailable |-> FALSE, Enabled |-> TRUE, WakeToRun |-> FALSE,
   Hidden |-> FALSE, UseUnifiedSchedulingEngine |-> TRUE,
   DisallowStartOnRemoteAppSession |-> FALSE, Volatile |-> FALSE]

DefaultIdle ==
  [duration |-> "PT10M", wait_timeout |-> "PT1H", stop_on_idle_end |-> TRUE,
   restart_on_idle |-> FALSE]

DefaultLimit == "P3D"

DefaultSettings ==
  [flags |-> DefaultFlags, restart_on_failure |-> None,
   multiple_instances |-> "IgnoreNew", network |-> None,
   execution_time_limit |-> DefaultLimit, delete_expired_after |-> None,
   priority |-> 7, idle |-> None, maintenance |-> None]

(***************************************************************************)
(* Registration, extensions and the definition (model/mod.rs).             *)
(***************************************************************************)

\* The writer's order of the elements of RegistrationInfo.
RegistrationTexts ==
  <<"Date", "Author", "Version", "Description", "Documentation", "URI",
    "SecurityDescriptor", "Source">>

DefaultRegistration == [name \in ToSet(RegistrationTexts) |-> None]

XmlExtension(parent, ordinal, xml) ==
  [parent |-> parent, ordinal |-> ordinal, xml |-> xml]

DefaultDefinition ==
  [schema_version |-> "1.6", registration |-> DefaultRegistration,
   triggers |-> <<>>, principal |-> DefaultPrincipal,
   settings |-> DefaultSettings, data |-> None, actions |-> <<>>,
   extensions |-> <<>>]

\* Triggers::try_from and Actions::try_from.
WithinLimits(triggers, actions) ==
  Len(triggers) <= MaxTriggers /\ Len(actions) <= MaxActions

\* TaskDefinition::new.
NewDefinition(action) == [DefaultDefinition EXCEPT !.actions = <<action>>]

ActionIds(actions) == [i \in DOMAIN actions |-> IdOf(actions[i])]

TriggerIds(triggers) ==
  [i \in DOMAIN triggers |->
     IF CommonOf(triggers[i]) = None THEN None ELSE triggers[i].common.id]

\* duplicate_ids, of the ids that are present.
Distinct(ids) ==
  \A i, j \in DOMAIN ids : ids[i] = ids[j] /\ ids[i] /= None => i = j

(***************************************************************************)
(* Validation: whether a report holds an error.  Warnings do not stop      *)
(* anything and are left out.                                              *)
(***************************************************************************)
LogonFits(principal) ==
  CASE principal.logon_type = "None" -> TRUE
    [] principal.logon_type = "Group" -> principal.identity.type = "group"
    [] principal.logon_type = "ServiceAccount" ->
         principal.identity.type = "service"
    [] OTHER -> principal.identity.type = "user"

ValidPrincipal(principal) ==
  /\ principal.id /= ""
  /\ LogonFits(principal)
  /\ IsInjective(principal.required_privileges)

ValidActions(actions) ==
  \A i \in DOMAIN actions : actions[i].kind = "Exec" => actions[i].command /= ""

ValidTrigger(t) ==
  /\ \A c \in ToSet(CommonOf(t)) :
       \A r \in ToSet(c.repetition) : r.interval /= "PT0S"
  /\ t.kind = "TimeTrigger" => t.common.start_boundary /= None
  /\ t.kind = "EventTrigger" => t.subscription /= ""
  /\ t.kind = "ScheduleByDay" => t.days_interval /= 0
  /\ t.kind = "ScheduleByWeek" => t.weeks_interval /= 0 /\ t.days_of_week /= {}
  /\ t.kind = "ScheduleByMonth" =>
       /\ t.months /= {} /\ t.days_of_month \subseteq 1..31
       /\ t.days_of_month /= {} \/ t.run_on_last_day
  /\ t.kind = "ScheduleByMonthDayOfWeek" =>
       /\ t.months /= {} /\ t.days_of_week /= {}
       /\ t.weeks_of_month /= {} \/ t.run_on_last_week

ValidTriggers(triggers) == \A i \in DOMAIN triggers : ValidTrigger(triggers[i])

\* An unknown version counts as the newest.
Generation(version) ==
  CASE version = "1.2" -> 2 [] version = "1.3" -> 3 [] version = "1.4" -> 4
    [] version = "1.5" -> 5 [] OTHER -> 6

\* Mutant of ValidSchema: the unified engine is allowed in every schema.
ValidSchema_engine(d) ==
  /\ d.settings.maintenance /= None => Generation(d.schema_version) >= 4
  /\ d.settings.flags.Volatile => Generation(d.schema_version) >= 6

ValidSchema(d) ==
  /\ d.settings.flags.UseUnifiedSchedulingEngine => Generation(d.schema_version) >= 3
  /\ d.settings.maintenance /= None => Generation(d.schema_version) >= 4
  /\ d.settings.flags.Volatile => Generation(d.schema_version) >= 6

\* validate_definition.
Valid(d) ==
  /\ d.actions /= <<>>
  /\ Distinct(ActionIds(d.actions)) /\ Distinct(TriggerIds(d.triggers))
  /\ d.settings.priority <= 10
  /\ ValidPrincipal(d.principal)
  /\ ValidActions(d.actions)
  /\ ValidTriggers(d.triggers)
  /\ ValidSchema(d)
=============================================================================
