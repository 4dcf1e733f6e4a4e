---------------------------- MODULE HistoryWatch ----------------------------
(***************************************************************************)
(* A history watch: BlockingScheduler::watch_history starts a helper       *)
(* thread that reads the Operational channel forward, one bounded page at  *)
(* a time, and pushes the matching events through a bounded queue to the   *)
(* HistoryWatcher, the iterator of the caller (client/watch.rs,            *)
(* client/mod.rs, EventAccess::page in client/sys.rs).                     *)
(*                                                                         *)
(* Every page opens a query of its own.  It continues after the last       *)
(* record read, the cursor, which is found again by its bookmark and then  *)
(* compared with what the cursor remembers of it, because the channel may  *)
(* have been cleared, may have dropped its oldest records, or may number   *)
(* new records like old ones in the meantime.                              *)
(*                                                                         *)
(* External and nondeterministic: the channel.  Records carry the time     *)
(* they were written, which no two share; a bookmark names a record by its *)
(* number; a query result from which records have disappeared is stale     *)
(* (ERROR_EVT_QUERY_RESULT_STALE, which continuation_error expects).       *)
(***************************************************************************)
EXTENDS Naturals, Sequences, SequencesExt

CONSTANTS
  MaxRecords,   \* bound: records ever written to the channel
  MaxRemovals,  \* bound: times the channel loses records
  MaxFaults,    \* bound: failing native calls
  PageSize,     \* 256 in read_page
  QueueSize     \* 256 in watch_history

ASSUME BoundsAssumption ==
  /\ {MaxRecords, MaxRemovals, MaxFaults} \subseteq Nat
  /\ {PageSize, QueueSize} \subseteq Nat \ {0}

VARIABLES
  log,       \* the channel: its records, oldest first
  clock,     \* time of the record written last
  lastId,    \* number of the record written last
  removals,  \* times the channel has lost records
  faults,    \* failing calls so far
  since,     \* query.since
  pc,        \* where the helper thread is, in deliver, send or page
  cursor,    \* deliver's cursor: number and time of the last record read
  stale,     \* records disappeared from the open query result
  page,      \* items that send has not delivered yet
  more,      \* Page::more
  queue,     \* the delivery queue
  stop,      \* the stop channel: a request was sent, or its sender dropped
  owner,     \* the thread that owns the HistoryWatcher
  received,  \* what next has returned so far
  owed       \* matching records, but for those gone before the first anchor

channel == <<log, clock, lastId, removals, owed>>
helper == <<pc, cursor, stale, page, more>>
vars == <<channel, faults, since, helper, queue, stop, owner, received>>

None == [id |-> 0, time |-> 0]
Records == [id : 1..MaxRecords, time : 1..MaxRecords, mine : BOOLEAN]

\* The terminal items: a lost anchor, and every other failure of a fetch.
Gap == [error |-> "HistoryGap"]
Failure == [error |-> "other"]
Errors == {Gap, Failure}

(***************************************************************************)
(* The channel.                                                            *)
(***************************************************************************)
Matches(r) == r.mine /\ r.time >= since

Write ==
  /\ clock < MaxRecords
  /\ clock' = clock + 1
  /\ lastId' = lastId + 1
  /\ \E mine \in BOOLEAN :
       LET r == [id |-> lastId + 1, time |-> clock + 1, mine |-> mine]
       IN /\ log' = Append(log, r)
          /\ owed' = owed \union {q \in {r} : Matches(q)}
  /\ UNCHANGED <<removals, helper>>

\* The channel keeps only its newest records, none of them when it was
\* cleared; numbering may then start again.
Lose ==
  /\ removals < MaxRemovals
  /\ removals' = removals + 1
  /\ \E n \in 1..Len(log) :
       /\ log' = SubSeq(log, n + 1, Len(log))
       /\ owed' = IF cursor = None THEN owed \ ToSet(SubSeq(log, 1, n))
                  ELSE owed
       /\ lastId' \in IF n = Len(log) THEN {0, lastId} ELSE {lastId}
  /\ stale' = TRUE
  /\ UNCHANGED <<clock, pc, cursor, page, more>>

Channel ==
  /\ Write \/ Lose
  /\ UNCHANGED <<faults, since, queue, stop, owner, received>>

(***************************************************************************)
(* The helper thread.                                                      *)
(***************************************************************************)

\* The elements of seq that are in S, in their order.
Filtered(seq, S) ==
  LET first[n \in 0..Len(seq)] ==     \* of the first n elements
        IF n = 0 THEN <<>>
        ELSE IF seq[n] \in S THEN Append(first[n - 1], seq[n]) ELSE first[n - 1]
  IN first[Len(seq)]

\* What the XPath of the query selects: records from its start on.
Selected == Filtered(log, {r \in ToSet(log) : r.time >= since})

\* Mutant of SameAnchor: the record number alone identifies the anchor.
SameAnchor_number(r) == r.id = cursor.id

\* The record the bookmark finds is the one the cursor was made from.
SameAnchor(r) == r.id = cursor.id /\ r.time = cursor.time

\* Position of the anchor in the query result, 0 when there is none or when
\* another record has taken its number.
Anchor ==
  IF cursor = None THEN 0
  ELSE LET found == {i \in DOMAIN Selected : Selected[i].id = cursor.id}
       IN IF \E i \in found : SameAnchor(Selected[i])
          THEN CHOOSE i \in found : SameAnchor(Selected[i]) ELSE 0

Exit == pc' = "done" /\ page' = <<>>

\* Top of deliver's loop.
CheckStop ==
  /\ pc = "check"
  /\ IF stop THEN Exit ELSE pc' = "open" /\ UNCHANGED page
  /\ UNCHANGED <<cursor, stale, more>>

\* EventAccess::page opens a result of its own for each page.
Open ==
  /\ pc = "open"
  /\ pc' = IF cursor = None THEN "read" ELSE "seek"
  /\ stale' = FALSE
  /\ UNCHANGED <<cursor, page, more>>

\* Mutant of Fail: the error is not delivered.
Fail_silent(error) == Exit

Fail(error) == pc' = "send" /\ page' = <<error>>

\* Seek to the bookmark and compare what is there with the cursor.
Seek ==
  /\ pc = "seek"
  /\ IF stale \/ Anchor = 0
     THEN Fail(Gap)
     ELSE pc' = "read" /\ UNCHANGED page
  /\ UNCHANGED <<cursor, stale, more>>

\* One page after the anchor: the cursor advances over every record read,
\* the page keeps those that match.
Read ==
  /\ pc = "read"
  /\ IF stale
     THEN Fail(Gap) /\ UNCHANGED <<cursor, more>>
     ELSE LET rest == SubSeq(Selected, Anchor + 1, Len(Selected))
              batch == SubSeq(rest, 1, IF Len(rest) < PageSize
                                       THEN Len(rest) ELSE PageSize)
          IN /\ more' = (Len(batch) = PageSize)
             /\ cursor' = IF batch = <<>> THEN cursor
                          ELSE [id |-> Last(batch).id,
                                time |-> Last(batch).time]
             /\ page' = Filtered(batch, {r \in ToSet(batch) : Matches(r)})
             /\ pc' = "send"
  /\ UNCHANGED stale

\* A native call of the fetch fails, or the session worker has stopped: a
\* timeout is retried from the same cursor, everything else ends the stream.
\* Mutant of Retry: the retry starts over.
Retry_rewound == pc' = "pause" /\ cursor' = None /\ UNCHANGED page

Retry == pc' = "pause" /\ UNCHANGED <<cursor, page>>

FetchFails ==
  /\ pc \in {"open", "seek", "read"}
  /\ faults < MaxFaults
  /\ faults' = faults + 1
  /\ \/ Retry
     \/ Fail(Failure) /\ UNCHANGED cursor
  /\ UNCHANGED <<stale, more, queue>>

Room == Len(queue) < QueueSize

\* send tries to push the next item; an error is the last one.
Push ==
  /\ pc = "send" /\ page /= <<>> /\ owner /= "gone"
  /\ Room
  /\ queue' = Append(queue, Head(page))
  /\ IF Head(page) \in Errors
     THEN Exit
     ELSE page' = Tail(page) /\ UNCHANGED pc
  /\ UNCHANGED <<cursor, stale, more>>

PushDisconnected ==
  /\ pc = "send" /\ page /= <<>> /\ owner = "gone"
  /\ Exit
  /\ UNCHANGED <<cursor, stale, more>>

\* Mutant of Blocked: a full queue waits for the reader only.
Blocked_deaf ==
  /\ pc = "blocked"
  /\ pc' = "send"
  /\ UNCHANGED <<cursor, stale, page, more>>

\* The queue is full: wait 10 ms for a stop request, then try again.
PushFull ==
  /\ pc = "send" /\ page /= <<>> /\ owner /= "gone"
  /\ ~Room
  /\ pc' = "blocked"
  /\ UNCHANGED <<cursor, stale, page, more>>

Blocked ==
  /\ pc = "blocked"
  /\ IF stop THEN Exit ELSE pc' = "send" /\ UNCHANGED page
  /\ UNCHANGED <<cursor, stale, more>>

PageDelivered ==
  /\ pc = "send" /\ page = <<>>
  /\ pc' = IF more THEN "check" ELSE "pause"
  /\ UNCHANGED <<cursor, stale, page, more>>

\* Mutant of Pause: only a stop request ends the wait.
Pause_endless ==
  /\ pc = "pause" /\ stop
  /\ Exit
  /\ UNCHANGED <<cursor, stale, more>>

\* The poll interval: ended by a stop request, or elapsed.
Pause ==
  /\ pc = "pause"
  /\ IF stop THEN Exit ELSE pc' = "check" /\ UNCHANGED page
  /\ UNCHANGED <<cursor, stale, more>>

Fetch == Open \/ Seek \/ Read

Helper ==
  /\ \/ Push /\ UNCHANGED faults
     \/ FetchFails
     \/ /\ CheckStop \/ Fetch \/ PushDisconnected \/ PushFull \/ Blocked
             \/ PageDelivered \/ Pause
        /\ UNCHANGED <<faults, queue>>
  /\ UNCHANGED <<channel, since, stop, owner, received>>

(***************************************************************************)
(* The owner of the HistoryWatcher: one thread, one call at a time.        *)
(***************************************************************************)

\* Iterator::next, a blocking receive; None once the helper has dropped the
\* sender and the queue is empty.
NextItem ==
  /\ owner = "idle"
  /\ \/ /\ queue /= <<>>
        /\ received' = Append(received, Head(queue))
        /\ queue' = Tail(queue)
        /\ UNCHANGED owner
     \/ /\ queue = <<>> /\ pc = "done"
        /\ owner' = "ended"
        /\ UNCHANGED <<received, queue>>
  /\ UNCHANGED stop

ShutdownBegin ==
  /\ owner \in {"idle", "ended"}
  /\ stop' = TRUE
  /\ owner' = "joining"
  /\ UNCHANGED <<received, queue>>

\* The join is confirmed, or its timeout elapses first; what is queued can
\* still be read either way.
ShutdownEnd ==
  /\ owner = "joining"
  /\ owner' = "idle"
  /\ UNCHANGED <<stop, received, queue>>

\* Drop for HistoryWatcher: a stop request, and no more receiver.
DropWatcher ==
  /\ owner \in {"idle", "ended"}
  /\ stop' = TRUE
  /\ owner' = "gone"
  /\ queue' = <<>>
  /\ UNCHANGED received

Owner ==
  /\ NextItem \/ ShutdownBegin \/ ShutdownEnd \/ DropWatcher
  /\ UNCHANGED <<channel, faults, since, helper>>

Init ==
  /\ clock \in 0..1
  /\ lastId = clock
  /\ log = [i \in 1..clock |-> [id |-> i, time |-> i, mine |-> TRUE]]
  /\ since \in {clock, clock + 1}
  /\ owed = {r \in ToSet(log) : Matches(r)}
  /\ removals = 0 /\ faults = 0
  /\ pc = "check" /\ cursor = None /\ stale = FALSE
  /\ page = <<>> /\ more = FALSE
  /\ queue = <<>> /\ stop = FALSE /\ owner = "idle" /\ received = <<>>

Next == Channel \/ Helper \/ Owner
Spec == Init /\ [][Next]_vars

\* The helper is a thread of its own, its native calls return and its waits
\* elapse; nothing obliges the owner to read.
FairSpec == Spec /\ WF_vars(Helper)

\* An owner that keeps calling next, as `for event in watcher` does.
KeepsReading == WF_vars(NextItem /\ Owner)

-----------------------------------------------------------------------------
(***************************************************************************)
(* Properties.                                                             *)
(***************************************************************************)

\* Everything on its way to the owner, and what has arrived.
Stream == received \o queue \o page

\* Events arrive in the order they were written, none of them twice, only
\* those the query asks for, and nothing follows an error: whatever was lost,
\* renumbered or retried between two pages.
InOrderOnce ==
  \A i, j \in DOMAIN Stream :
    i < j => /\ Stream[i] \notin Errors
             /\ Stream[i].mine
             /\ Stream[j] \in Errors \/ Stream[i].time < Stream[j].time

\* Nothing is skipped: every matching record up to the cursor is in the
\* stream, also one that the channel has dropped since or that shares its
\* number with a newer one.  Excepted are records that disappeared before the
\* watch had read its first record, when it has no anchor yet that could
\* reveal their loss, and an owner that gave up.
NothingSkipped ==
  ~stop => \A r \in owed : r.time <= cursor.time => r \in ToSet(Stream)

\* A stream ends only when the owner asked for it or with an error that says
\* why: a gap only after the channel has lost records, another error only
\* after a call has failed.
EndAccounted ==
  /\ pc = "done" /\ ~stop => Stream /= <<>> /\ Last(Stream) \in Errors
  /\ Gap \in ToSet(Stream) => removals > 0
  /\ Failure \in ToSet(Stream) => faults > 0

\* A stop request ends the helper, also when the queue is full and nobody
\* reads it (send polls every 10 ms for this).
StopEnds == stop ~> pc = "done"

\* A matching record reaches an owner that keeps reading, or the stream ends
\* with an error, or the owner stops it.
Arrives ==
  KeepsReading =>
    \A t \in 1..MaxRecords :
      (\E r \in owed : r.time = t)
        ~> \/ stop
           \/ \E i \in DOMAIN received :
                received[i] \in Errors \/ received[i].time = t
           \/ ~ \E r \in owed : r.time = t
=============================================================================
