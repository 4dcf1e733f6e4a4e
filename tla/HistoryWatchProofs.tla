------------------------- MODULE HistoryWatchProofs -------------------------
(***************************************************************************)
(* The stream of a history watch, proved for every page and queue size and *)
(* every length of the channel: its order, what it may not skip and how it *)
(* ends, whatever the channel loses and whichever calls fail.              *)
(***************************************************************************)
EXTENDS HistoryWatch, Integers, SequenceTheorems, WellFoundedInduction, TLAPS

-----------------------------------------------------------------------------
(***************************************************************************)
(* Filtering a sequence.                                                   *)
(***************************************************************************)

\* A set of natural numbers has a least one, so a statement about them with
\* a counterexample has a first one.
LEMMA Least ==
  ASSUME NEW T \in SUBSET Nat, T # {}
  PROVE  \E n \in T : \A m \in T : n <= m
<1> DEFINE R == {p \in Nat \X Nat : p[1] < p[2]}
<1>1. IsWellFoundedOn(R, Nat)  BY NatLessThanWellFounded DEF OpToRel
<1>2. PICK n \in T : \A m \in T : <<m, n>> \notin R  BY <1>1, WFMin
<1>3. \A m \in T : ~(m < n)  BY <1>2
<1>4. QED  BY <1>3

\* f[k] is what remains of the first k elements of s, up to the first n.
FiltersTo(f, s, S, n) ==
  f = [k \in 0..n |->
         IF k = 0 THEN <<>>
         ELSE IF s[k] \in S THEN Append(f[k - 1], s[k]) ELSE f[k - 1]]

\* The recursion has a solution, so that Filtered is one.
LEMMA FilterExists ==
  ASSUME NEW s, NEW S, NEW l \in Nat
  PROVE  \E f : FiltersTo(f, s, S, l)
<1> DEFINE T == {n \in Nat : ~\E f : FiltersTo(f, s, S, n)}
<1>1. ASSUME NEW n \in T, \A m \in T : n <= m  PROVE FALSE
  <2>1. CASE n = 0
    <3> DEFINE f == [k \in 0..0 |-> <<>>]
    <3>1. FiltersTo(f, s, S, 0)  BY DEF FiltersTo
    <3>2. QED  BY <1>1, <2>1, <3>1
  <2>2. CASE n # 0
    <3>1. n - 1 \in Nat /\ n - 1 \notin T  BY <1>1, <2>2
    <3>2. PICK g : FiltersTo(g, s, S, n - 1)  BY <3>1
    <3> DEFINE last == IF s[n] \in S THEN Append(g[n - 1], s[n]) ELSE g[n - 1]
               f == [k \in 0..n |-> IF k = n THEN last ELSE g[k]]
    <3>3. \A k \in 0..(n - 1) : f[k] = g[k] /\ f[n] = last  BY <3>1
    <3>4. \A k \in 0..(n - 1) :
             g[k] = IF k = 0 THEN <<>>
                    ELSE IF s[k] \in S THEN Append(g[k - 1], s[k]) ELSE g[k - 1]
      BY <3>2 DEF FiltersTo
    <3>5. f = [k \in 0..n |->
                 IF k = 0 THEN <<>>
                 ELSE IF s[k] \in S THEN Append(f[k - 1], s[k]) ELSE f[k - 1]]
      <4> DEFINE h == [k \in 0..n |->
                         IF k = 0 THEN <<>>
                         ELSE IF s[k] \in S THEN Append(f[k - 1], s[k]) ELSE f[k - 1]]
      <4>1. ASSUME NEW k \in 0..n  PROVE f[k] = h[k]
        <5>1. CASE k = n
          <6>1. f[n - 1] = g[n - 1]  BY <3>1, <3>3
          <6>2. f[n] = last /\ h[n] = last  BY <2>2, <3>1, <6>1
          <6>3. QED  BY <5>1, <6>2
        <5>2. CASE k # n /\ k # 0
          <6>1. k \in 0..(n - 1) /\ k - 1 \in 0..(n - 1)  BY <3>1, <5>2
          <6>2. f[k] = g[k] /\ f[k - 1] = g[k - 1]  BY <3>3, <6>1
          <6>3. h[k] = IF s[k] \in S THEN Append(f[k - 1], s[k]) ELSE f[k - 1]
            BY <5>2
          <6>4. g[k] = IF s[k] \in S THEN Append(g[k - 1], s[k]) ELSE g[k - 1]
            BY <3>4, <5>2, <6>1
          <6>5. QED  BY <6>2, <6>3, <6>4
        <5>3. CASE k = 0 /\ k # n
          <6>1. k \in 0..(n - 1)  BY <3>1, <5>3
          <6>2. f[k] = g[k] /\ g[k] = <<>>  BY <3>3, <3>4, <5>3, <6>1
          <6>3. h[k] = <<>>  BY <5>3
          <6>4. QED  BY <6>2, <6>3
        <5>4. QED  BY <5>1, <5>2, <5>3
      <4>2. QED  BY <4>1
    <3>6. QED  BY <1>1, <3>5 DEF FiltersTo
  <2>3. QED  BY <2>1, <2>2
<1>2. T = {}  BY <1>1, Least
<1>3. QED  BY <1>2

LEMMA FilteredSolves ==
  ASSUME NEW s, NEW S, Len(s) \in Nat
  PROVE  \E f : FiltersTo(f, s, S, Len(s)) /\ Filtered(s, S) = f[Len(s)]
<1> DEFINE f == CHOOSE g : FiltersTo(g, s, S, Len(s))
<1>1. FiltersTo(f, s, S, Len(s))  BY FilterExists
<1>2. Filtered(s, S) = f[Len(s)]  BY DEF Filtered, FiltersTo
<1>3. QED  BY <1>1, <1>2

\* In the order in which they were written.
Ascending(s) == \A i, j \in DOMAIN s : i < j => s[i].time < s[j].time

LEMMA SeqParts ==
  ASSUME NEW E, NEW s \in Seq(E)
  PROVE  /\ Len(s) \in Nat /\ DOMAIN s = 1..Len(s)
         /\ \A i \in DOMAIN s : s[i] \in E /\ s[i] \in ToSet(s)
         /\ ToSet(s) \subseteq E
<1>1. Len(s) \in Nat /\ DOMAIN s = 1..Len(s) /\ \A i \in 1..Len(s) : s[i] \in E  OBVIOUS
<1>2. QED  BY <1>1 DEF ToSet

LEMMA AppendParts ==
  ASSUME NEW E, NEW s \in Seq(E), NEW e \in E
  PROVE  /\ Append(s, e) \in Seq(E) /\ Len(Append(s, e)) = Len(s) + 1
         /\ DOMAIN Append(s, e) = 1..(Len(s) + 1) /\ DOMAIN s = 1..Len(s)
         /\ \A i \in 1..Len(s) : Append(s, e)[i] = s[i]
         /\ Append(s, e)[Len(s) + 1] = e
         /\ ToSet(Append(s, e)) = ToSet(s) \cup {e}
<1>1. /\ Append(s, e) \in Seq(E) /\ Len(Append(s, e)) = Len(s) + 1 /\ Len(s) \in Nat
      /\ \A i \in 1..Len(s) : Append(s, e)[i] = s[i]
      /\ Append(s, e)[Len(s) + 1] = e
  OBVIOUS
<1>2. DOMAIN Append(s, e) = 1..(Len(s) + 1) /\ DOMAIN s = 1..Len(s)  BY <1>1
<1>3. \A i : i \in 1..(Len(s) + 1) <=> i \in 1..Len(s) \/ i = Len(s) + 1  BY <1>1
<1>4. ToSet(Append(s, e)) = ToSet(s) \cup {e}  BY <1>1, <1>2, <1>3 DEF ToSet
<1>5. QED  BY <1>1, <1>2, <1>4

\* What is kept are the elements that are in S, in their order.
LEMMA FilteredParts ==
  ASSUME NEW E, NEW s \in Seq(E), NEW S
  PROVE  /\ Filtered(s, S) \in Seq(E)
         /\ ToSet(Filtered(s, S)) = ToSet(s) \cap S
         /\ Ascending(s) => Ascending(Filtered(s, S))
<1> DEFINE first(n) == {s[i] : i \in 1..n}
<1>1. Len(s) \in Nat /\ DOMAIN s = 1..Len(s) /\ \A i \in 1..Len(s) : s[i] \in E  OBVIOUS
<1>2. PICK f : FiltersTo(f, s, S, Len(s)) /\ Filtered(s, S) = f[Len(s)]
  BY <1>1, FilteredSolves
<1> DEFINE Good(n) ==
        /\ f[n] \in Seq(E) /\ ToSet(f[n]) = first(n) \cap S
        /\ Ascending(s) => Ascending(f[n])
           T == {n \in 0..Len(s) : ~Good(n)}
<1>3. f[0] = <<>>  BY <1>1, <1>2 DEF FiltersTo
<1>4. ASSUME NEW n \in 1..Len(s)
      PROVE  f[n] = IF s[n] \in S THEN Append(f[n - 1], s[n]) ELSE f[n - 1]
  <2>1. \A k \in 0..Len(s) :
           f[k] = IF k = 0 THEN <<>>
                  ELSE IF s[k] \in S THEN Append(f[k - 1], s[k]) ELSE f[k - 1]
    BY <1>2 DEF FiltersTo
  <2>2. n \in 0..Len(s) /\ n # 0  BY <1>1
  <2>3. QED  BY <2>1, <2>2
<1>5. Good(0)
  <2>1. first(0) = {}  OBVIOUS
  <2>2. <<>> \in Seq(E) /\ DOMAIN <<>> = {}  OBVIOUS
  <2>3. ToSet(<<>>) = {} /\ Ascending(<<>>)  BY <2>2 DEF ToSet, Ascending
  <2>4. QED  BY <1>3, <2>1, <2>2, <2>3
<1>6. ASSUME NEW n \in 1..Len(s), Good(n - 1)  PROVE Good(n)
  <2>1. first(n) = first(n - 1) \cup {s[n]}
    <3>1. \A i : i \in 1..n <=> i \in 1..(n - 1) \/ i = n  OBVIOUS
    <3>2. QED  BY <3>1
  <2>2. CASE s[n] \notin S
    <3>1. f[n] = f[n - 1] /\ first(n) \cap S = first(n - 1) \cap S  BY <1>4, <2>1, <2>2
    <3> HIDE DEF first
    <3>2. QED  BY <1>6, <3>1
  <2>3. CASE s[n] \in S
    <3>1. f[n] = Append(f[n - 1], s[n]) /\ first(n) \cap S = (first(n - 1) \cap S) \cup {s[n]}
      BY <1>4, <2>1, <2>3
    <3> DEFINE g == f[n - 1]
    <3>2. g \in Seq(E) /\ s[n] \in E /\ ToSet(g) = first(n - 1) \cap S  BY <1>1, <1>6
    <3>3. \A i \in DOMAIN g : g[i] \in first(n - 1)  BY <3>2 DEF ToSet
    <3>4. f[n] \in Seq(E) /\ ToSet(f[n]) = first(n) \cap S
      BY <3>1, <3>2, AppendParts
    <3>5. ASSUME Ascending(s)  PROVE Ascending(f[n])
      <4>1. Ascending(g)  BY <1>6, <3>5
      <4>2. \A i \in DOMAIN g : g[i].time < s[n].time
        <5>1. \A i \in DOMAIN g : \E k \in 1..(n - 1) : g[i] = s[k]  BY <3>3
        <5>2. \A k \in 1..(n - 1) : s[k].time < s[n].time  BY <1>1, <3>5 DEF Ascending
        <5>3. QED  BY <5>1, <5>2
      <4> HIDE DEF g
      <4>3. /\ DOMAIN Append(g, s[n]) = 1..(Len(g) + 1) /\ DOMAIN g = 1..Len(g)
            /\ \A i \in 1..Len(g) : Append(g, s[n])[i] = g[i]
            /\ Append(g, s[n])[Len(g) + 1] = s[n] /\ Len(g) \in Nat
        BY <3>2, AppendParts
      <4>4. ASSUME NEW i \in 1..(Len(g) + 1), NEW j \in 1..(Len(g) + 1), i < j
            PROVE  Append(g, s[n])[i].time < Append(g, s[n])[j].time
        <5>1. i \in 1..Len(g)  BY <4>3, <4>4
        <5>2. CASE j = Len(g) + 1  BY <4>2, <4>3, <5>1, <5>2
        <5>3. CASE j # Len(g) + 1
          <6>1. j \in 1..Len(g)  BY <4>3, <5>3
          <6>2. QED  BY <4>1, <4>3, <4>4, <5>1, <6>1 DEF Ascending
        <5>4. QED  BY <5>2, <5>3
      <4>5. Ascending(Append(g, s[n]))  BY <4>3, <4>4 DEF Ascending
      <4>6. QED  BY <3>1, <4>5 DEF g
    <3>6. QED  BY <3>4, <3>5
  <2>4. QED  BY <2>2, <2>3
<1>7. T = {}
  <2>1. ASSUME NEW n \in T, \A m \in T : n <= m  PROVE FALSE
    <3>1. n # 0  BY <1>5, <2>1
    <3>2. n \in 1..Len(s) /\ n - 1 \in 0..Len(s) /\ ~(n <= n - 1)  BY <1>1, <2>1, <3>1
    <3>3. Good(n - 1)  BY <2>1, <3>2
    <3>4. Good(n)  BY <1>6, <3>2, <3>3
    <3>5. QED  BY <2>1, <3>4
  <2>2. T \in SUBSET Nat  BY <1>1
  <2>3. QED  BY <2>1, <2>2, Least
<1>8. Good(Len(s))
  <2> HIDE DEF Good
  <2>1. Len(s) \in 0..Len(s)  BY <1>1
  <2>2. QED  BY <1>7, <2>1
<1>9. first(Len(s)) = ToSet(s)  BY <1>1 DEF ToSet
<1>10. QED  BY <1>2, <1>8, <1>9

-----------------------------------------------------------------------------
(***************************************************************************)
(* The invariant.                                                          *)
(***************************************************************************)
Events == [id : Nat, time : Nat \ {0}, mine : BOOLEAN]
Items == Events \cup Errors

\* The channel holds its records in the order of their times.
Ordered ==
  /\ clock \in Nat /\ lastId \in Nat /\ since \in Nat
  /\ log \in Seq(Events) /\ Ascending(log)
  /\ \A i \in DOMAIN log : log[i].time <= clock
  /\ owed \subseteq Events /\ \A r \in owed : Matches(r)

\* The record that the cursor was made from is still there, or none was
\* needed yet: what is owed after the cursor is then in the channel, and a
\* fetch that was not interrupted by a loss goes on after the cursor.
Anchored == \E i \in DOMAIN log : SameAnchor(log[i])
Following == cursor = None \/ Anchored

Tracked ==
  /\ removals \in Nat /\ faults \in Nat /\ stale \in BOOLEAN
  /\ cursor \in [id : Nat, time : Nat] /\ cursor.time <= clock
  /\ cursor # None => cursor.time > 0 /\ since <= cursor.time
  /\ pc = "seek" => cursor # None
  /\ pc = "read" /\ ~stale => Following
  /\ removals = 0 => ~stale /\ Following
  /\ Following => \A r \in owed : cursor.time < r.time => r \in ToSet(log)

\* An item that is delivered is not read again; an error is delivered last.
Clean(s) == ToSet(s) \cap Errors = {}

Carried ==
  /\ received \in Seq(Items) /\ queue \in Seq(Items) /\ page \in Seq(Items)
  /\ pc \in {"check", "open", "seek", "read", "send", "blocked", "pause", "done"}
  /\ pc \notin {"send", "blocked"} => page = <<>>
  /\ pc # "done" => Clean(received) /\ Clean(queue)
  /\ Clean(page) \/ Len(page) = 1
  /\ stop \in BOOLEAN
  /\ owner = "gone" => stop

\* What is in the stream is a matching record up to the cursor.
UpToCursor ==
  \A e \in ToSet(Stream) : e \notin Errors => e.mine /\ e.time <= cursor.time

Inv ==
  /\ Ordered /\ Tracked /\ Carried /\ UpToCursor
  /\ InOrderOnce /\ NothingSkipped /\ EndAccounted

LEMMA ErrorsApart == Events \cap Errors = {} /\ Gap # Failure
<1>1. Gap # Failure
  <2>1. Gap.error = "HistoryGap" /\ Failure.error = "other"  BY DEF Gap, Failure
  <2>2. QED  BY <2>1
<1>2. ASSUME NEW e \in Errors, e \in Events  PROVE FALSE
  <2>1. DOMAIN e = {"error"}  BY <1>2 DEF Errors, Gap, Failure
  <2>2. DOMAIN e = {"id", "time", "mine"}  BY <1>2 DEF Events
  <2>3. "id" \notin {"error"}  OBVIOUS
  <2>4. QED  BY <2>1, <2>2, <2>3
<1>3. QED  BY <1>1, <1>2

LEMMA ConcatParts ==
  ASSUME NEW E, NEW a \in Seq(E), NEW b \in Seq(E)
  PROVE  /\ a \o b \in Seq(E) /\ Len(a \o b) = Len(a) + Len(b)
         /\ Len(a) \in Nat /\ Len(b) \in Nat
         /\ DOMAIN (a \o b) = 1..(Len(a) + Len(b)) /\ DOMAIN a = 1..Len(a) /\ DOMAIN b = 1..Len(b)
         /\ \A i \in 1..Len(a) : (a \o b)[i] = a[i]
         /\ \A j \in 1..Len(b) : (a \o b)[Len(a) + j] = b[j]
         /\ \A i \in 1..(Len(a) + Len(b)) : i \in 1..Len(a) \/ i - Len(a) \in 1..Len(b)
         /\ ToSet(a \o b) = ToSet(a) \cup ToSet(b)
<1>1. /\ a \o b \in Seq(E) /\ Len(a \o b) = Len(a) + Len(b)
      /\ Len(a) \in Nat /\ Len(b) \in Nat
      /\ \A i \in 1..Len(a) : (a \o b)[i] = a[i]
  OBVIOUS
<1>2. ASSUME NEW j \in 1..Len(b)  PROVE (a \o b)[Len(a) + j] = b[j]
  <2>1. Len(a) + j \in 1..(Len(a) + Len(b)) /\ Len(a) + j > Len(a)  BY <1>1
  <2>2. QED  BY <2>1
<1>3. /\ DOMAIN (a \o b) = 1..(Len(a) + Len(b)) /\ DOMAIN a = 1..Len(a)
      /\ DOMAIN b = 1..Len(b)
  BY <1>1
<1>4. \A i \in 1..(Len(a) + Len(b)) : i \in 1..Len(a) \/ i - Len(a) \in 1..Len(b)
  BY <1>1
<1>5. ToSet(a \o b) = ToSet(a) \cup ToSet(b)
  <2>1. ASSUME NEW i \in 1..(Len(a) + Len(b))  PROVE (a \o b)[i] \in ToSet(a) \cup ToSet(b)
    <3>1. CASE i \in 1..Len(a)  BY <1>1, <1>3, <3>1 DEF ToSet
    <3>2. CASE i - Len(a) \in 1..Len(b)
      <4>1. (a \o b)[Len(a) + (i - Len(a))] = b[i - Len(a)]  BY <1>2, <3>2
      <4>2. Len(a) + (i - Len(a)) = i  BY <1>1
      <4>3. QED  BY <1>3, <3>2, <4>1, <4>2 DEF ToSet
    <3>3. QED  BY <1>4, <3>1, <3>2
  <2>2. \A i \in 1..Len(a) : a[i] \in ToSet(a \o b)
    <3>1. \A i \in 1..Len(a) : i \in 1..(Len(a) + Len(b))  BY <1>1
    <3>2. QED  BY <1>1, <1>3, <3>1 DEF ToSet
  <2>3. \A j \in 1..Len(b) : b[j] \in ToSet(a \o b)
    <3>1. \A j \in 1..Len(b) : Len(a) + j \in 1..(Len(a) + Len(b))  BY <1>1
    <3>2. QED  BY <1>2, <1>3, <3>1 DEF ToSet
  <2>4. QED  BY <1>3, <2>1, <2>2, <2>3 DEF ToSet
<1>6. QED  BY <1>1, <1>2, <1>3, <1>4, <1>5

-----------------------------------------------------------------------------
(***************************************************************************)
(* The order of the stream.                                                *)
(***************************************************************************)
\* e may stand before d in the stream.
Precedes(e, d) == e \notin Errors /\ e.mine /\ (d \in Errors \/ e.time < d.time)
Tidy(s) == \A i, j \in DOMAIN s : i < j => Precedes(s[i], s[j])

LEMMA TidyStream == InOrderOnce <=> Tidy(Stream)
BY DEF InOrderOnce, Tidy, Precedes

LEMMA TidyConcat ==
  ASSUME NEW a \in Seq(Items), NEW b \in Seq(Items), Tidy(a), Tidy(b),
         \A i \in DOMAIN a, j \in DOMAIN b : Precedes(a[i], b[j])
  PROVE  Tidy(a \o b)
<1> DEFINE n == Len(a)
<1>1. /\ n \in Nat /\ Len(b) \in Nat
      /\ DOMAIN (a \o b) = 1..(n + Len(b)) /\ DOMAIN a = 1..n /\ DOMAIN b = 1..Len(b)
      /\ \A i \in 1..n : (a \o b)[i] = a[i]
      /\ \A j \in 1..Len(b) : (a \o b)[n + j] = b[j]
      /\ \A i \in 1..(n + Len(b)) : i \in 1..n \/ i - n \in 1..Len(b)
  BY ConcatParts
<1>2. \A i \in 1..(n + Len(b)) : i - n \in 1..Len(b) => (a \o b)[i] = b[i - n]
  <2>1. \A i \in 1..(n + Len(b)) : n + (i - n) = i  BY <1>1
  <2>2. QED  BY <1>1, <2>1
<1> HIDE DEF n
<1>3. ASSUME NEW i \in 1..(n + Len(b)), NEW j \in 1..(n + Len(b)), i < j
      PROVE  Precedes((a \o b)[i], (a \o b)[j])
  <2>1. CASE j \in 1..n
    <3>1. i \in 1..n  BY <1>1, <1>3, <2>1
    <3>2. Precedes(a[i], a[j])  BY <1>1, <1>3, <2>1, <3>1 DEF Tidy
    <3>3. QED  BY <1>1, <2>1, <3>1, <3>2
  <2>2. CASE i \in 1..n /\ j - n \in 1..Len(b)
    <3>1. Precedes(a[i], b[j - n])  BY <1>1, <2>2
    <3>2. QED  BY <1>1, <1>2, <2>2, <3>1
  <2>3. CASE i - n \in 1..Len(b) /\ j - n \in 1..Len(b)
    <3>1. i - n < j - n  BY <1>1, <1>3
    <3>2. Precedes(b[i - n], b[j - n])  BY <1>1, <2>3, <3>1 DEF Tidy
    <3>3. QED  BY <1>2, <2>3, <3>2
  <2>4. QED  BY <1>1, <2>1, <2>2, <2>3
<1>4. QED  BY <1>1, <1>3 DEF Tidy

LEMMA TidyParts ==
  ASSUME NEW a \in Seq(Items), NEW b \in Seq(Items), Tidy(a \o b)
  PROVE  /\ Tidy(a) /\ Tidy(b)
         /\ \A i \in DOMAIN a, j \in DOMAIN b : Precedes(a[i], b[j])
<1> DEFINE n == Len(a)
<1>1. /\ n \in Nat /\ Len(b) \in Nat
      /\ DOMAIN (a \o b) = 1..(n + Len(b)) /\ DOMAIN a = 1..n /\ DOMAIN b = 1..Len(b)
      /\ \A i \in 1..n : (a \o b)[i] = a[i]
      /\ \A j \in 1..Len(b) : (a \o b)[n + j] = b[j]
  BY ConcatParts
<1> HIDE DEF n
<1>2. /\ \A i \in 1..n : i \in 1..(n + Len(b))
      /\ \A j \in 1..Len(b) : n + j \in 1..(n + Len(b))
      /\ \A i \in 1..n, j \in 1..Len(b) : i < n + j
      /\ \A i, j \in 1..Len(b) : i < j => n + i < n + j
  BY <1>1
<1>3. Tidy(a)  BY <1>1, <1>2 DEF Tidy
<1>4. \A i, j \in 1..Len(b) : i < j => Precedes(b[i], b[j])
  <2>1. \A i, j \in 1..Len(b) : i < j => Precedes((a \o b)[n + i], (a \o b)[n + j])
    BY <1>1, <1>2 DEF Tidy
  <2>2. QED  BY <1>1, <2>1
<1>5. \A i \in 1..n, j \in 1..Len(b) : Precedes(a[i], b[j])
  <2>1. \A i \in 1..n, j \in 1..Len(b) : Precedes((a \o b)[i], (a \o b)[n + j])
    BY <1>1, <1>2 DEF Tidy
  <2>2. QED  BY <1>1, <2>1
<1>6. QED  BY <1>1, <1>3, <1>4, <1>5 DEF Tidy

LEMMA StreamParts ==
  ASSUME NEW a \in Seq(Items), NEW b \in Seq(Items), NEW c \in Seq(Items)
  PROVE  /\ a \o b \in Seq(Items) /\ a \o b \o c \in Seq(Items)
         /\ ToSet(a \o b \o c) = ToSet(a) \cup ToSet(b) \cup ToSet(c)
<1> DEFINE d == a \o b
<1>1. d \in Seq(Items) /\ ToSet(d) = ToSet(a) \cup ToSet(b)  BY ConcatParts
<1> HIDE DEF d
<1>2. d \o c \in Seq(Items) /\ ToSet(d \o c) = ToSet(d) \cup ToSet(c)
  BY <1>1, ConcatParts
<1>3. QED  BY <1>1, <1>2 DEF d

LEMMA EmptyTidy == /\ <<>> \in Seq(Items) /\ ToSet(<<>>) = {} /\ Tidy(<<>>) /\ Clean(<<>>)
                   /\ Len(<<>>) = 0
<1>1. <<>> \in Seq(Items) /\ DOMAIN <<>> = {} /\ Len(<<>>) = 0  OBVIOUS
<1>2. ToSet(<<>>) = {} /\ Tidy(<<>>)  BY <1>1 DEF ToSet, Tidy
<1>3. QED  BY <1>1, <1>2 DEF Clean

LEMMA InitInv == Init => Inv
<1> SUFFICES ASSUME Init PROVE Inv  OBVIOUS
<1>1. /\ clock \in 0..1 /\ lastId = clock /\ since \in {clock, clock + 1}
      /\ log = [i \in 1..clock |-> [id |-> i, time |-> i, mine |-> TRUE]]
      /\ owed = {r \in ToSet(log) : Matches(r)}
      /\ removals = 0 /\ faults = 0 /\ pc = "check" /\ cursor = None /\ stale = FALSE
      /\ page = <<>> /\ queue = <<>> /\ received = <<>> /\ stop = FALSE /\ owner = "idle"
  BY DEF Init
<1>2. Ordered
  <2>1. clock \in Nat /\ since \in Nat /\ lastId \in Nat  BY <1>1
  <2>2. log \in Seq(Events) /\ DOMAIN log = 1..clock
    <3>1. \A i \in 1..clock : [id |-> i, time |-> i, mine |-> TRUE] \in Events
      BY <2>1 DEF Events
    <3>2. QED  BY <1>1, <2>1, <3>1
  <2>3. Ascending(log) /\ \A i \in DOMAIN log : log[i].time <= clock
    BY <1>1, <2>1, <2>2 DEF Ascending
  <2>4. ToSet(log) \subseteq Events  BY <2>2, SeqParts
  <2>5. owed \subseteq Events /\ \A r \in owed : Matches(r)  BY <1>1, <2>4
  <2>6. QED  BY <2>1, <2>2, <2>3, <2>5 DEF Ordered
<1>3. Tracked
  <2>1. None.time = 0 /\ None \in [id : Nat, time : Nat]  BY DEF None
  <2>2. clock \in Nat /\ cursor.time <= clock /\ cursor \in [id : Nat, time : Nat]
    BY <1>1, <2>1
  <2>3. \A r \in owed : r \in ToSet(log)  BY <1>1
  <2>4. QED  BY <1>1, <2>2, <2>3 DEF Tracked, Following
<1>4. Carried  BY <1>1, EmptyTidy DEF Carried
<1>5. Stream = <<>>
  <2>1. <<>> \o <<>> \o <<>> = <<>>  OBVIOUS
  <2>2. QED  BY <1>1, <2>1 DEF Stream
<1>6. UpToCursor /\ InOrderOnce  BY <1>5, EmptyTidy, TidyStream DEF UpToCursor
<1>7. NothingSkipped
  <2>1. \A r \in owed : ~(r.time <= 0)  BY <1>2 DEF Ordered, Events
  <2>2. QED  BY <1>1, <2>1 DEF NothingSkipped, None
<1>8. EndAccounted  BY <1>1, <1>5, EmptyTidy DEF EndAccounted
<1>9. QED  BY <1>2, <1>3, <1>4, <1>6, <1>7, <1>8 DEF Inv

-----------------------------------------------------------------------------
(***************************************************************************)
(* Steps that read nothing.                                                *)
(***************************************************************************)
LEMMA OrderedKept ==
  ASSUME Ordered, UNCHANGED <<clock, lastId, since, log, owed>>
  PROVE  Ordered'
BY DEF Ordered, Matches, Ascending

LEMMA FollowingKept ==
  ASSUME UNCHANGED <<log, cursor>>
  PROVE  Following' <=> Following
BY DEF Following, Anchored, SameAnchor

LEMMA TrackedKept ==
  ASSUME Tracked, UNCHANGED <<clock, since, log, owed, cursor, removals>>,
         faults' \in Nat, stale' \in BOOLEAN, stale' => stale,
         pc' = "seek" => cursor # None,
         pc' = "read" /\ ~stale' => Following
  PROVE  Tracked'
BY FollowingKept DEF Tracked

\* The stream stays the same: it may end only on request or with an error.
LEMMA StreamKept ==
  ASSUME Inv, Ordered', Tracked', Carried', Stream' = Stream,
         UNCHANGED <<cursor, owed>>, stop => stop', removals' >= removals, faults' >= faults,
         pc' = "done" => \/ pc = "done" \/ stop'
                         \/ Stream # <<>> /\ Last(Stream) \in Errors
  PROVE  Inv'
<1>1. UpToCursor'  BY DEF Inv, UpToCursor
<1>2. InOrderOnce'  BY DEF Inv, InOrderOnce
<1>3. NothingSkipped'  BY DEF Inv, NothingSkipped
<1>4. EndAccounted'
  <2>1. removals \in Nat /\ faults \in Nat /\ removals' \in Nat /\ faults' \in Nat
    BY DEF Inv, Tracked
  <2>2. QED  BY <2>1 DEF Inv, EndAccounted
<1>5. QED  BY <1>1, <1>2, <1>3, <1>4 DEF Inv

-----------------------------------------------------------------------------
(***************************************************************************)
(* Where a page begins and what it covers.                                 *)
(***************************************************************************)

\* The elements of s after the first m, up to the n-th.
LEMMA SliceParts ==
  ASSUME NEW E, NEW s \in Seq(E), NEW m \in Nat, NEW n \in Nat, m <= n, n <= Len(s)
  PROVE  LET d == SubSeq(s, m + 1, n)
         IN /\ d \in Seq(E) /\ Len(d) = n - m /\ DOMAIN d = 1..(n - m)
            /\ \A i \in 1..(n - m) : m + i \in DOMAIN s /\ d[i] = s[m + i]
            /\ ToSet(d) \subseteq ToSet(s)
            /\ Ascending(s) => Ascending(d)
<1> DEFINE d == SubSeq(s, m + 1, n)
<1>1. Len(s) \in Nat /\ DOMAIN s = 1..Len(s) /\ \A i \in DOMAIN s : s[i] \in E /\ s[i] \in ToSet(s)
  BY SeqParts
<1>2. \A i \in (m + 1)..n : s[i] \in E  BY <1>1
<1>3. /\ d \in Seq(E) /\ Len(d) = IF m + 1 <= n THEN n - (m + 1) + 1 ELSE 0
      /\ \A i \in 1..(n - (m + 1) + 1) : d[i] = s[(m + 1) + i - 1]
  BY <1>2, SubSeqProperties
<1> HIDE DEF d
<1>4. Len(d) = n - m /\ DOMAIN d = 1..(n - m)  BY <1>3, SeqParts
<1>5. ASSUME NEW i \in 1..(n - m)  PROVE m + i \in DOMAIN s /\ d[i] = s[m + i]
  <2>1. m + i \in 1..Len(s) /\ (m + 1) + i - 1 = m + i /\ i \in 1..(n - (m + 1) + 1)  BY <1>1
  <2>2. QED  BY <1>1, <1>3, <2>1
<1>6. ToSet(d) \subseteq ToSet(s)  BY <1>1, <1>4, <1>5 DEF ToSet
<1>7. Ascending(s) => Ascending(d)
  <2>1. \A i, j \in 1..(n - m) : i < j => m + i < m + j  OBVIOUS
  <2>2. QED  BY <1>4, <1>5, <2>1 DEF Ascending
<1>8. QED  BY <1>3, <1>4, <1>5, <1>6, <1>7 DEF d

LEMMA SelectedParts ==
  ASSUME Ordered
  PROVE  /\ Selected \in Seq(Events) /\ Ascending(Selected)
         /\ ToSet(Selected) = {r \in ToSet(log) : r.time >= since}
         /\ Len(Selected) \in Nat /\ DOMAIN Selected = 1..Len(Selected)
         /\ \A i \in DOMAIN Selected : Selected[i] \in Events /\ Selected[i] \in ToSet(Selected)
<1> DEFINE S == {r \in ToSet(log) : r.time >= since}
<1>1. log \in Seq(Events) /\ Ascending(log)  BY DEF Ordered
<1>2. Selected = Filtered(log, S)  BY DEF Selected
<1>3. ToSet(log) \cap S = S  OBVIOUS
<1> HIDE DEF S
<1>4. /\ Selected \in Seq(Events) /\ Ascending(Selected)
      /\ ToSet(Selected) = S
  BY <1>1, <1>2, <1>3, FilteredParts
<1>5. QED  BY <1>4, SeqParts DEF S

\* The bookmark leads to the record of the cursor whenever that record is
\* still in the channel, and to no other.
LEMMA AnchorFound ==
  ASSUME Ordered, Tracked
  PROVE  /\ Anchor \in Nat /\ Anchor <= Len(Selected)
         /\ Anchor # 0 => /\ cursor # None /\ Anchored
                          /\ Anchor \in DOMAIN Selected /\ SameAnchor(Selected[Anchor])
         /\ Anchor = 0 => cursor = None \/ ~Anchored
<1>1. /\ Selected \in Seq(Events) /\ ToSet(Selected) = {r \in ToSet(log) : r.time >= since}
      /\ Len(Selected) \in Nat /\ DOMAIN Selected = 1..Len(Selected)
      /\ \A i \in DOMAIN Selected : Selected[i] \in Events /\ Selected[i] \in ToSet(Selected)
  BY SelectedParts
<1> DEFINE found == {i \in DOMAIN Selected : Selected[i].id = cursor.id}
<1>2. CASE cursor = None
  <2>1. Anchor = 0  BY <1>2 DEF Anchor
  <2>2. QED  BY <1>1, <1>2, <2>1
<1>3. CASE cursor # None /\ \E i \in found : SameAnchor(Selected[i])
  <2>1. Anchor = CHOOSE i \in found : SameAnchor(Selected[i])  BY <1>3 DEF Anchor
  <2>2. Anchor \in found /\ SameAnchor(Selected[Anchor])  BY <1>3, <2>1
  <2>3. Selected[Anchor] \in ToSet(log)  BY <1>1, <2>2
  <2>4. Anchored  BY <2>2, <2>3 DEF Anchored, ToSet
  <2>5. QED  BY <1>1, <1>3, <2>2, <2>4
<1>4. CASE cursor # None /\ ~\E i \in found : SameAnchor(Selected[i])
  <2>1. Anchor = 0  BY <1>4 DEF Anchor
  <2>2. ASSUME Anchored  PROVE FALSE
    <3>1. PICK i \in DOMAIN log : SameAnchor(log[i])  BY <2>2 DEF Anchored
    <3>2. log[i] \in ToSet(log) /\ log[i].time = cursor.time /\ log[i].id = cursor.id
      BY <3>1 DEF ToSet, SameAnchor
    <3>3. cursor.time >= since  BY <1>4 DEF Tracked, Ordered
    <3>4. log[i] \in ToSet(Selected)  BY <1>1, <3>2, <3>3
    <3>5. PICK k \in DOMAIN Selected : Selected[k] = log[i]  BY <3>4 DEF ToSet
    <3>6. QED  BY <1>4, <3>1, <3>2, <3>5
  <2>3. QED  BY <1>1, <2>1, <2>2
<1>5. QED  BY <1>2, <1>3, <1>4

\* What Read reads: at most a page of the query result after the anchor.
Rest == SubSeq(Selected, Anchor + 1, Len(Selected))
Batch == SubSeq(Rest, 1, IF Len(Rest) < PageSize THEN Len(Rest) ELSE PageSize)

LEMMA BatchParts ==
  ASSUME Ordered, Tracked
  PROVE  /\ Batch \in Seq(Events) /\ Ascending(Batch)
         /\ Len(Batch) \in Nat /\ DOMAIN Batch = 1..Len(Batch)
         /\ Anchor + Len(Batch) <= Len(Selected)
         /\ \A i \in 1..Len(Batch) : /\ Anchor + i \in DOMAIN Selected
                                     /\ Batch[i] = Selected[Anchor + i]
<1>1. /\ Selected \in Seq(Events) /\ Ascending(Selected)
      /\ Len(Selected) \in Nat /\ Anchor \in Nat /\ Anchor <= Len(Selected)
  BY SelectedParts, AnchorFound
<1> DEFINE a == Anchor
           l == Len(Selected)
           k == IF Len(Rest) < PageSize THEN Len(Rest) ELSE PageSize
<1>2. a \in Nat /\ l \in Nat /\ a <= l /\ l = Len(Selected) /\ Selected \in Seq(Events)
      /\ Rest = SubSeq(Selected, a + 1, l)
  BY <1>1 DEF Rest
<1> HIDE DEF a, l
<1>3. /\ Rest \in Seq(Events) /\ Len(Rest) = l - a
      /\ \A i \in 1..(l - a) : a + i \in DOMAIN Selected /\ Rest[i] = Selected[a + i]
      /\ Ascending(Rest)
  BY <1>1, <1>2, SliceParts
<1>4. k \in Nat /\ k <= Len(Rest) /\ k <= l - a  BY <1>2, <1>3, BoundsAssumption
<1>5. Batch = SubSeq(Rest, 0 + 1, k)  BY DEF Batch
<1> HIDE DEF k
<1>6. /\ Batch \in Seq(Events) /\ Len(Batch) = k - 0 /\ Ascending(Batch)
      /\ \A i \in 1..(k - 0) : Batch[i] = Rest[0 + i]
  <2>1. 0 \in Nat /\ 0 <= k  BY <1>4
  <2>2. QED  BY <1>3, <1>4, <1>5, <2>1, SliceParts
<1>7. Len(Batch) = k /\ DOMAIN Batch = 1..k  BY <1>4, <1>6, SeqParts
<1>8. \A i \in 1..k : a + i \in DOMAIN Selected /\ Batch[i] = Selected[a + i]
  <2>1. \A i \in 1..k : i \in 1..(k - 0) /\ 0 + i = i /\ i \in 1..(l - a)  BY <1>2, <1>4
  <2>2. QED  BY <1>3, <1>6, <2>1
<1>9. a + k <= l  BY <1>2, <1>4
<1>10. QED  BY <1>2, <1>4, <1>6, <1>7, <1>8, <1>9 DEF a, l

\* A record of the query result that was written after the one of the cursor
\* stands after the anchor, and only such records do.
LEMMA AfterAnchor ==
  ASSUME Ordered, Tracked, Following, NEW i \in DOMAIN Selected
  PROVE  Anchor < i <=> cursor.time < Selected[i].time
<1>1. /\ Ascending(Selected) /\ DOMAIN Selected = 1..Len(Selected) /\ Len(Selected) \in Nat
      /\ \A j \in DOMAIN Selected : Selected[j] \in Events
      /\ Anchor \in Nat
  BY SelectedParts, AnchorFound
<1>2. CASE Anchor = 0
  <2>1. cursor = None  BY <1>2, AnchorFound DEF Following
  <2>2. cursor.time = 0  BY <2>1 DEF None
  <2>3. Selected[i].time \in Nat \ {0}  BY <1>1 DEF Events
  <2>4. QED  BY <1>1, <1>2, <2>2, <2>3
<1>3. CASE Anchor # 0
  <2>1. Anchor \in DOMAIN Selected /\ Selected[Anchor].time = cursor.time
    BY <1>3, AnchorFound DEF SameAnchor
  <2>2. Selected[i].time \in Nat /\ Selected[Anchor].time \in Nat  BY <1>1, <2>1 DEF Events
  <2>3. Anchor < i => Selected[Anchor].time < Selected[i].time
    BY <1>1, <2>1 DEF Ascending
  <2>4. i < Anchor => Selected[i].time < Selected[Anchor].time
    BY <1>1, <2>1 DEF Ascending
  <2>5. i = Anchor \/ i < Anchor \/ Anchor < i  BY <1>1
  <2>6. QED  BY <1>1, <2>1, <2>2, <2>3, <2>4, <2>5
<1>4. QED  BY <1>2, <1>3

\* A page covers every record of the query result from the cursor to the
\* last record read, and nothing else.
LEMMA BatchCovers ==
  ASSUME Ordered, Tracked, Following
  PROVE  /\ ToSet(Batch) \subseteq {r \in ToSet(Selected) : cursor.time < r.time}
         /\ Batch # <<>> => /\ Last(Batch) \in ToSet(Batch)
                            /\ \A r \in ToSet(Batch) : r.time <= Last(Batch).time
                            /\ \A r \in ToSet(Selected) :
                                 cursor.time < r.time /\ r.time <= Last(Batch).time
                                   => r \in ToSet(Batch)
<1> DEFINE a == Anchor
           k == Len(Batch)
<1>1. /\ Batch \in Seq(Events) /\ Ascending(Batch) /\ k \in Nat /\ DOMAIN Batch = 1..k
      /\ \A i \in 1..k : a + i \in DOMAIN Selected /\ Batch[i] = Selected[a + i]
  BY BatchParts
<1>2. /\ Ascending(Selected) /\ DOMAIN Selected = 1..Len(Selected) /\ Len(Selected) \in Nat
      /\ \A j \in DOMAIN Selected : Selected[j] \in Events /\ Selected[j] \in ToSet(Selected)
      /\ a \in Nat /\ a + k <= Len(Selected)
  BY SelectedParts, AnchorFound, BatchParts
<1>3. \A i \in DOMAIN Selected : a < i <=> cursor.time < Selected[i].time  BY AfterAnchor
<1>4. Last(Batch) = Batch[k]  BY DEF Last
<1> HIDE DEF a, k
<1>5. \A i \in 1..k : a < a + i  BY <1>1, <1>2
<1>6. ASSUME NEW r \in ToSet(Batch)  PROVE r \in ToSet(Selected) /\ cursor.time < r.time
  <2>1. PICK i \in 1..k : r = Batch[i]  BY <1>1 DEF ToSet
  <2>2. QED  BY <1>1, <1>2, <1>3, <1>5, <2>1
<1>7. ASSUME Batch # <<>>
      PROVE  /\ Batch[k] \in ToSet(Batch)
             /\ \A r \in ToSet(Batch) : r.time <= Batch[k].time
             /\ \A r \in ToSet(Selected) :
                  cursor.time < r.time /\ r.time <= Batch[k].time => r \in ToSet(Batch)
  <2>1. k \in 1..k
    <3>1. k # 0  BY <1>1, <1>7 DEF k
    <3>2. QED  BY <1>1, <3>1
  <2>2. Batch[k] \in ToSet(Batch) /\ \A i \in 1..k : Batch[i] \in Events /\ Batch[i] \in ToSet(Batch)
    BY <1>1, <2>1, SeqParts
  <2>3. \A i \in 1..k : Batch[i].time \in Nat  BY <2>2 DEF Events
  <2>4. ASSUME NEW r \in ToSet(Batch)  PROVE r.time <= Batch[k].time
    <3>1. PICK i \in 1..k : r = Batch[i]  BY <1>1 DEF ToSet
    <3>2. i = k \/ i < k  BY <1>1
    <3>3. i < k => Batch[i].time < Batch[k].time  BY <1>1, <2>1 DEF Ascending
    <3>4. Batch[i].time \in Nat /\ Batch[k].time \in Nat  BY <2>1, <2>3
    <3>5. QED  BY <3>1, <3>2, <3>3, <3>4
  <2>5. ASSUME NEW r \in ToSet(Selected), cursor.time < r.time, r.time <= Batch[k].time
        PROVE  r \in ToSet(Batch)
    <3>1. PICK i \in DOMAIN Selected : r = Selected[i]  BY DEF ToSet
    <3>2. a < i  BY <1>3, <2>5, <3>1
    <3>3. ~(a + k < i)
      <4>1. SUFFICES ASSUME a + k < i PROVE FALSE  OBVIOUS
      <4>2. a + k \in DOMAIN Selected /\ Batch[k] = Selected[a + k]  BY <1>1, <2>1
      <4>3. Batch[k].time < r.time  BY <1>2, <3>1, <4>1, <4>2 DEF Ascending
      <4>4. r.time \in Nat /\ Batch[k].time \in Nat  BY <1>2, <2>1, <2>3, <3>1 DEF Events
      <4>5. QED  BY <2>5, <4>3, <4>4
    <3>4. i - a \in 1..k /\ a + (i - a) = i  BY <1>1, <1>2, <3>2, <3>3
    <3>5. Batch[i - a] = Selected[a + (i - a)]  BY <1>1, <3>4
    <3>6. QED  BY <2>2, <3>1, <3>4, <3>5
  <2>6. QED  BY <2>2, <2>4, <2>5
<1>8. QED  BY <1>4, <1>6, <1>7

-----------------------------------------------------------------------------
(***************************************************************************)
(* A page is read.                                                         *)
(***************************************************************************)
LEMMA WiderSeq == Seq(Events) \subseteq Seq(Items)
<1>1. ASSUME NEW s \in Seq(Events)  PROVE s \in Seq(Items)
  <2>1. \A i \in 1..Len(s) : s[i] \in Items  BY SeqParts DEF Items
  <2>2. QED  BY <1>1, <2>1, SeqParts
<1>2. QED  BY <1>1

\* What the page holds after a read.
LEMMA PageParts ==
  ASSUME Ordered, Tracked, Following, page' = Filtered(Batch, {r \in ToSet(Batch) : Matches(r)})
  PROVE  /\ page' \in Seq(Items) /\ Clean(page') /\ Tidy(page')
         /\ \A i \in DOMAIN page' : page'[i] \in ToSet(page')
         /\ ToSet(page') = {r \in ToSet(Batch) : Matches(r)}
         /\ ToSet(page') \subseteq Events
<1> DEFINE S == {r \in ToSet(Batch) : Matches(r)}
<1>1. Batch \in Seq(Events) /\ Ascending(Batch)  BY BatchParts
<1>2. page' = Filtered(Batch, S) /\ ToSet(Batch) \cap S = S  OBVIOUS
<1> HIDE DEF S
<1>3. Filtered(Batch, S) \in Seq(Events) /\ Ascending(Filtered(Batch, S))
      /\ ToSet(Filtered(Batch, S)) = S
  BY <1>1, <1>2, FilteredParts
<1>4. page' \in Seq(Events) /\ Ascending(page') /\ ToSet(page') = S  BY <1>2, <1>3
<1>5. page' \in Seq(Items)  BY <1>4, WiderSeq
<1>6. \A i \in DOMAIN page' : page'[i] \in ToSet(page') /\ page'[i] \in Events  BY <1>4, SeqParts
<1>7. ToSet(page') \subseteq Events  BY <1>4, SeqParts
<1>8. Clean(page')  BY <1>7, ErrorsApart DEF Clean
<1>9. Tidy(page')
  <2>1. \A i \in DOMAIN page' : page'[i].mine  BY <1>4, <1>6 DEF S, Matches
  <2>2. \A i \in DOMAIN page' : page'[i] \notin Errors  BY <1>6, ErrorsApart
  <2>3. QED  BY <1>4, <2>1, <2>2 DEF Tidy, Precedes, Ascending
<1>10. QED  BY <1>4, <1>5, <1>6, <1>7, <1>8, <1>9 DEF S

\* Where the cursor is after a read.
LEMMA CursorAdvances ==
  ASSUME Ordered, Tracked, Following,
         cursor' = IF Batch = <<>> THEN cursor
                   ELSE [id |-> Last(Batch).id, time |-> Last(Batch).time],
         UNCHANGED <<log, clock, since>>
  PROVE  /\ cursor' \in [id : Nat, time : Nat] /\ cursor'.time <= clock /\ Following'
         /\ cursor.time <= cursor'.time
         /\ cursor' # None => cursor'.time > 0 /\ since <= cursor'.time
         /\ Batch # <<>> => cursor'.time = Last(Batch).time
<1>1. CASE Batch = <<>>
  <2>1. cursor' = cursor  BY <1>1
  <2>2. Following'  BY <2>1, FollowingKept
  <2>3. cursor.time \in Nat  BY DEF Tracked
  <2>4. QED  BY <1>1, <2>1, <2>2, <2>3 DEF Tracked
<1>2. CASE Batch # <<>>
  <2> DEFINE r == Last(Batch)
  <2>1. cursor' = [id |-> r.id, time |-> r.time] /\ r \in ToSet(Selected) /\ cursor.time < r.time
    BY <1>2, BatchCovers
  <2> HIDE DEF r
  <2>2. r \in ToSet(log) /\ since <= r.time  BY <2>1, SelectedParts DEF Ordered
  <2>3. PICK i \in DOMAIN log : r = log[i]  BY <2>2 DEF ToSet
  <2>4. r \in Events /\ r.time <= clock
    <3>1. log \in Seq(Events)  BY DEF Ordered
    <3>2. log[i] \in Events  BY <2>3, <3>1, SeqParts
    <3>3. QED  BY <2>3, <3>2 DEF Ordered
  <2>5. r.id \in Nat /\ r.time \in Nat /\ r.time > 0  BY <2>4 DEF Events
  <2>6. cursor'.id = log'[i].id /\ cursor'.time = log'[i].time /\ i \in DOMAIN log'
    BY <2>1, <2>3
  <2>7. Following'  BY <2>6 DEF Following, Anchored, SameAnchor
  <2>8. cursor.time \in Nat  BY DEF Tracked
  <2>9. QED  BY <1>2, <2>1, <2>2, <2>4, <2>5, <2>7, <2>8 DEF r
<1>3. QED  BY <1>1, <1>2

LEMMA ReadKeeps ==
  ASSUME Inv, Read, ~stale, UNCHANGED <<channel, since, stop, owner, received, faults, queue>>
  PROVE  Inv'
<1>1. /\ Ordered /\ Tracked /\ Carried /\ UpToCursor /\ Tidy(Stream)
      /\ NothingSkipped /\ EndAccounted
  BY TidyStream DEF Inv
<1>2. /\ pc = "read" /\ pc' = "send" /\ stale' = stale
      /\ cursor' = IF Batch = <<>> THEN cursor
                   ELSE [id |-> Last(Batch).id, time |-> Last(Batch).time]
      /\ page' = Filtered(Batch, {r \in ToSet(Batch) : Matches(r)})
  BY DEF Read, Batch, Rest
<1>3. UNCHANGED <<log, clock, lastId, removals, owed>>  BY DEF channel
<1>4. Following  BY <1>1, <1>2 DEF Tracked
<1>5. /\ page' \in Seq(Items) /\ Clean(page') /\ Tidy(page')
      /\ \A i \in DOMAIN page' : page'[i] \in ToSet(page')
      /\ ToSet(page') = {r \in ToSet(Batch) : Matches(r)}
      /\ ToSet(page') \subseteq Events
  BY <1>1, <1>2, <1>4, PageParts
<1>6. /\ cursor' \in [id : Nat, time : Nat] /\ cursor'.time <= clock /\ Following'
      /\ cursor.time <= cursor'.time
      /\ cursor' # None => cursor'.time > 0 /\ since <= cursor'.time
      /\ Batch # <<>> => cursor'.time = Last(Batch).time
  BY <1>1, <1>2, <1>3, <1>4, CursorAdvances
<1>7. cursor.time \in Nat /\ cursor'.time \in Nat /\ cursor' \in [id : Nat, time : Nat]
  BY <1>1, <1>6 DEF Tracked
<1>8. owed \subseteq Events /\ \A r \in owed : Matches(r)  BY <1>1 DEF Ordered
<1>9. Ordered'  BY <1>1, <1>3, OrderedKept
<1>10. Tracked'
  <2>1. \A r \in owed : cursor.time < r.time => r \in ToSet(log)  BY <1>1, <1>4 DEF Tracked
  <2>2. \A r \in owed : r.time \in Nat  BY <1>8 DEF Events
  <2>3. \A r \in owed' : cursor'.time < r.time => r \in ToSet(log')
    BY <1>3, <1>6, <1>7, <2>1, <2>2
  <2>4. removals \in Nat /\ faults \in Nat /\ stale \in BOOLEAN  BY <1>1 DEF Tracked
  <2>5. QED  BY <1>2, <1>3, <1>6, <1>7, <2>3, <2>4 DEF Tracked
<1>11. Carried'  BY <1>1, <1>2, <1>5 DEF Carried
<1> DEFINE h == received \o queue
<1>12. /\ received \in Seq(Items) /\ queue \in Seq(Items) /\ page = <<>>
       /\ Clean(received) /\ Clean(queue)
  BY <1>1, <1>2 DEF Carried
<1>13. h \in Seq(Items) /\ ToSet(h) = ToSet(received) \cup ToSet(queue)  BY <1>12, ConcatParts
<1>14. Stream = h /\ Stream' = h \o page'
  <2>1. h \o <<>> = h  BY <1>13
  <2>2. QED  BY <1>12, <2>1 DEF Stream
<1> HIDE DEF h
<1>15. ToSet(h) \cap Errors = {}  BY <1>12, <1>13 DEF Clean
<1>16. ToSet(Stream') = ToSet(Stream) \cup ToSet(page')  BY <1>5, <1>13, <1>14, ConcatParts
<1>17. ASSUME NEW e \in ToSet(h)
       PROVE  e \notin Errors /\ e.mine /\ e.time <= cursor.time /\ e.time \in Nat
  <2>1. e \notin Errors /\ e \in ToSet(Stream) /\ e \in Items  BY <1>13, <1>14, <1>15, SeqParts
  <2>2. e.time \in Nat  BY <2>1 DEF Items, Events
  <2>3. QED  BY <1>1, <2>1, <2>2 DEF UpToCursor
<1>18. ASSUME NEW r \in ToSet(page')
       PROVE  /\ r \notin Errors /\ r.mine /\ r.time \in Nat
              /\ cursor.time < r.time /\ r.time <= cursor'.time
  <2>1. r \in Events /\ r \notin Errors /\ r \in ToSet(Batch) /\ Matches(r)  BY <1>5, ErrorsApart
  <2>2. r.time \in Nat  BY <2>1 DEF Events
  <2>3. Batch # <<>>  BY <2>1, EmptyTidy
  <2>4. cursor.time < r.time /\ r.time <= Last(Batch).time
    BY <1>1, <1>4, <2>1, <2>3, BatchCovers
  <2>5. QED  BY <1>6, <2>1, <2>2, <2>3, <2>4 DEF Matches
<1>19. UpToCursor'
  <2>1. ASSUME NEW e \in ToSet(Stream'), e \notin Errors
        PROVE  e.mine /\ e.time <= cursor'.time
    <3>1. CASE e \in ToSet(h)  BY <1>6, <1>7, <1>17, <3>1
    <3>2. CASE e \in ToSet(page')  BY <1>18, <3>2
    <3>3. QED  BY <1>14, <1>16, <2>1, <3>1, <3>2
  <2>2. QED  BY <2>1 DEF UpToCursor
<1>20. InOrderOnce'
  <2>1. Tidy(h)  BY <1>1, <1>14
  <2>2. \A i \in DOMAIN h, j \in DOMAIN page' : Precedes(h[i], page'[j])
    <3>1. ASSUME NEW i \in DOMAIN h, NEW j \in DOMAIN page'  PROVE Precedes(h[i], page'[j])
      <4>1. h[i] \in ToSet(h) /\ page'[j] \in ToSet(page')  BY <1>5, <1>13, SeqParts
      <4>2. h[i].time < page'[j].time  BY <1>7, <1>17, <1>18, <4>1
      <4>3. QED  BY <1>17, <4>1, <4>2 DEF Precedes
    <3>2. QED  BY <3>1
  <2>3. Tidy(h \o page')  BY <1>5, <1>13, <2>1, <2>2, TidyConcat
  <2>4. Tidy(Stream')  BY <1>14, <2>3
  <2>5. QED  BY <2>4 DEF InOrderOnce, Tidy, Precedes
<1>21. NothingSkipped'
  <2>1. ASSUME ~stop, NEW r \in owed, r.time <= cursor'.time  PROVE r \in ToSet(Stream')
    <3>1. r \in Events /\ Matches(r)  BY <1>8
    <3>2. r.time \in Nat  BY <3>1 DEF Events
    <3>3. CASE r.time <= cursor.time  BY <1>1, <1>16, <2>1, <3>3 DEF NothingSkipped
    <3>4. CASE cursor.time < r.time
      <4>1. r \in ToSet(log)  BY <1>1, <1>4, <3>4 DEF Tracked
      <4>2. r \in ToSet(Selected)  BY <1>1, <3>1, <4>1, SelectedParts DEF Matches
      <4>3. Batch # <<>>  BY <1>2, <1>7, <2>1, <3>2, <3>4
      <4>4. r \in ToSet(Batch)  BY <1>1, <1>4, <1>6, <2>1, <3>4, <4>2, <4>3, BatchCovers
      <4>5. QED  BY <1>5, <1>16, <3>1, <4>4
    <3>5. QED  BY <1>7, <3>2, <3>3, <3>4
  <2>2. QED  BY <1>3, <2>1 DEF NothingSkipped
<1>22. EndAccounted'
  <2>1. Gap \notin ToSet(Stream') /\ Failure \notin ToSet(Stream')
    BY <1>14, <1>16, <1>17, <1>18 DEF Errors
  <2>2. QED  BY <1>2, <2>1 DEF EndAccounted
<1>23. QED  BY <1>9, <1>10, <1>11, <1>19, <1>20, <1>21, <1>22 DEF Inv

-----------------------------------------------------------------------------
(***************************************************************************)
(* The other steps of the helper.                                          *)
(***************************************************************************)

\* An item moves from the front of one part of the stream to the end of the
\* part before it.
LEMMA MoveOne ==
  ASSUME NEW a \in Seq(Items), NEW b \in Seq(Items), b # <<>>
  PROVE  /\ Append(a, Head(b)) \in Seq(Items) /\ Tail(b) \in Seq(Items) /\ Head(b) \in ToSet(b)
         /\ Append(a, Head(b)) \o Tail(b) = a \o b
         /\ Len(Tail(b)) = Len(b) - 1
         /\ ToSet(Tail(b)) \subseteq ToSet(b)
<1>1. /\ Head(b) \in Items /\ Tail(b) \in Seq(Items) /\ Len(Tail(b)) = Len(b) - 1
      /\ Len(b) \in Nat \ {0} /\ DOMAIN b = 1..Len(b)
      /\ \A i \in 1..(Len(b) - 1) : Tail(b)[i] = b[i + 1]
      /\ Head(b) = b[1]
  BY HeadTailProperties, EmptySeq, SeqParts
<1> DEFINE h == Head(b)
           t == Tail(b)
<1>2. Append(a, h) \in Seq(Items) /\ Append(a, h) = a \o <<h>>
  BY <1>1, AppendIsConcat, AppendProperties
<1>3. b = <<h>> \o t
  <2>1. <<h>> \in Seq(Items) /\ Len(<<h>>) = 1 /\ <<h>>[1] = h  BY <1>1
  <2>2. /\ t \in Seq(Items) /\ Len(t) = Len(b) - 1 /\ h = b[1]
        /\ \A i \in 1..(Len(b) - 1) : t[i] = b[i + 1]
    BY <1>1
  <2> HIDE DEF h, t
  <2>3. /\ <<h>> \o t \in Seq(Items) /\ Len(<<h>> \o t) = Len(b)
        /\ \A i \in 1..Len(b) : (<<h>> \o t)[i] = IF i <= 1 THEN h ELSE t[i - 1]
    <3>1. /\ <<h>> \o t \in Seq(Items) /\ Len(<<h>> \o t) = 1 + Len(t)
          /\ \A i \in 1..(1 + Len(t)) :
               (<<h>> \o t)[i] = IF i <= 1 THEN <<h>>[i] ELSE t[i - 1]
      BY <2>1, <2>2, ConcatProperties
    <3>2. 1 + Len(t) = Len(b)  BY <1>1, <2>2
    <3>3. \A i \in 1..Len(b) : i <= 1 => i = 1  BY <1>1
    <3>4. QED  BY <2>1, <3>1, <3>2, <3>3
  <2>4. \A i \in 1..Len(b) : i <= 1 => i = 1 /\ b[i] = h  BY <1>1, <2>2
  <2>5. \A i \in 1..Len(b) : ~(i <= 1) => i - 1 \in 1..(Len(b) - 1) /\ (i - 1) + 1 = i  BY <1>1
  <2>6. \A i \in 1..Len(b) : (<<h>> \o t)[i] = b[i]  BY <2>2, <2>3, <2>4, <2>5
  <2>7. QED  BY <2>3, <2>6, SeqEqual
<1>4. Append(a, h) \o t = a \o b
  <2>1. <<h>> \in Seq(Items) /\ t \in Seq(Items)  BY <1>1
  <2> HIDE DEF h, t
  <2>2. (a \o <<h>>) \o t = a \o (<<h>> \o t)  BY <2>1, ConcatAssociative
  <2>3. QED  BY <1>2, <1>3, <2>2
<1>5. ToSet(t) \subseteq ToSet(b) /\ h \in ToSet(b)
  <2>1. \A i \in 1..(Len(b) - 1) : i + 1 \in DOMAIN b  BY <1>1
  <2>2. DOMAIN t = 1..(Len(b) - 1)  BY <1>1
  <2>3. 1 \in DOMAIN b  BY <1>1
  <2>4. QED  BY <1>1, <2>1, <2>2, <2>3 DEF ToSet
<1>6. QED  BY <1>1, <1>2, <1>4, <1>5

LEMMA Associates ==
  \A a, b, c \in Seq(Items) : (a \o b) \o c = a \o (b \o c)
OBVIOUS

\* A step that leaves the items where they are.
LEMMA QuietKeeps ==
  ASSUME Inv, UNCHANGED <<channel, since, stop, owner, received, queue, cursor, page>>,
         faults' \in Nat, faults' >= faults, stale' \in BOOLEAN, stale' => stale, pc # "done",
         pc' \in {"check", "open", "seek", "read", "send", "blocked", "pause"},
         page # <<>> => pc' \in {"send", "blocked"},
         pc' = "seek" => cursor # None,
         pc' = "read" /\ ~stale' => Following
  PROVE  Inv'
<1>1. UNCHANGED <<log, clock, lastId, removals, owed>>  BY DEF channel
<1>2. Ordered'  BY <1>1, OrderedKept DEF Inv
<1>3. Tracked'  BY <1>1, TrackedKept DEF Inv
<1>4. Carried'  BY DEF Inv, Carried
<1>5. Stream' = Stream  BY DEF Stream
<1>6. removals' >= removals  BY <1>1 DEF Inv, Tracked
<1>7. QED  BY <1>1, <1>2, <1>3, <1>4, <1>5, <1>6, StreamKept

\* The helper ends on request; what it had not delivered is dropped.
LEMMA ExitKeeps ==
  ASSUME Inv, Exit, stop, pc # "done",
         UNCHANGED <<channel, faults, since, cursor, stale, stop, owner, received, queue>>
  PROVE  Inv'
<1>1. UNCHANGED <<log, clock, lastId, removals, owed>>  BY DEF channel
<1>2. pc' = "done" /\ page' = <<>>  BY DEF Exit
<1>3. Ordered'  BY <1>1, OrderedKept DEF Inv
<1>4. Tracked'
  <2>1. Tracked /\ faults' \in Nat /\ stale' \in BOOLEAN  BY DEF Inv, Tracked
  <2>2. QED  BY <1>1, <1>2, <2>1, TrackedKept
<1>5. Carried'  BY <1>2, EmptyTidy DEF Inv, Carried
<1>6. received \in Seq(Items) /\ queue \in Seq(Items) /\ page \in Seq(Items)
  BY DEF Inv, Carried
<1> DEFINE h == received \o queue
<1>7. h \in Seq(Items)  BY <1>6, ConcatParts
<1>8. Stream = h \o page /\ Stream' = h
  <2>1. h \o <<>> = h  BY <1>7, ConcatEmptySeq
  <2>2. QED  BY <1>2, <2>1 DEF Stream
<1> HIDE DEF h
<1>9. ToSet(Stream') \subseteq ToSet(Stream) /\ Tidy(Stream')
  <2>1. Tidy(h \o page)  BY <1>8, TidyStream DEF Inv
  <2>2. QED  BY <1>6, <1>7, <1>8, <2>1, ConcatParts, TidyParts
<1>10. UpToCursor'  BY <1>9 DEF Inv, UpToCursor
<1>11. InOrderOnce'  BY <1>9 DEF InOrderOnce, Tidy, Precedes
<1>12. NothingSkipped'  BY DEF NothingSkipped
<1>13. EndAccounted'  BY <1>1, <1>9 DEF Inv, EndAccounted
<1>14. QED  BY <1>3, <1>4, <1>5, <1>10, <1>11, <1>12, <1>13 DEF Inv

\* A fetch ends with an error.
LEMMA FailKeeps ==
  ASSUME Inv, NEW e \in Errors, Fail(e), pc \in {"open", "seek", "read"},
         UNCHANGED <<channel, since, cursor, stale, stop, owner, received, queue>>,
         faults' \in Nat, faults' >= faults,
         e = Gap => removals > 0,
         e = Failure => faults' > 0
  PROVE  Inv'
<1>1. UNCHANGED <<log, clock, lastId, removals, owed>>  BY DEF channel
<1>2. pc' = "send" /\ page' = <<e>>  BY DEF Fail
<1>3. Ordered'  BY <1>1, OrderedKept DEF Inv
<1>4. Tracked'
  <2>1. Tracked /\ stale' \in BOOLEAN  BY DEF Inv, Tracked
  <2>2. QED  BY <1>1, <1>2, <2>1, TrackedKept
<1>5. /\ <<e>> \in Seq(Items) /\ Len(<<e>>) = 1 /\ DOMAIN <<e>> = {1} /\ <<e>>[1] = e
      /\ ToSet(<<e>>) = {e}
  <2>1. <<e>> \in Seq(Items) /\ Len(<<e>>) = 1 /\ DOMAIN <<e>> = {1} /\ <<e>>[1] = e
    BY DEF Items
  <2>2. QED  BY <2>1 DEF ToSet
<1>6. Carried'  BY <1>2, <1>5 DEF Inv, Carried
<1>7. /\ received \in Seq(Items) /\ queue \in Seq(Items) /\ page = <<>>
      /\ ToSet(received) \cap Errors = {} /\ ToSet(queue) \cap Errors = {}
  BY DEF Inv, Carried, Clean
<1> DEFINE h == received \o queue
<1>8. h \in Seq(Items) /\ ToSet(h) = ToSet(received) \cup ToSet(queue)  BY <1>7, ConcatParts
<1>9. Stream = h /\ Stream' = h \o <<e>>
  <2>1. h \o <<>> = h  BY <1>8, ConcatEmptySeq
  <2>2. QED  BY <1>2, <1>7, <2>1 DEF Stream
<1> HIDE DEF h
<1>10. ToSet(Stream') = ToSet(Stream) \cup {e}
  <2> DEFINE g == <<e>>
  <2>1. g \in Seq(Items) /\ ToSet(g) = {e} /\ Stream' = h \o g  BY <1>5, <1>9
  <2> HIDE DEF g
  <2>2. ToSet(h \o g) = ToSet(h) \cup ToSet(g)  BY <1>8, <2>1, ConcatParts
  <2>3. QED  BY <1>9, <2>1, <2>2
<1>11. UpToCursor'  BY <1>10 DEF Inv, UpToCursor
<1>12. InOrderOnce'
  <2>1. Tidy(h)  BY <1>9, TidyStream DEF Inv
  <2>2. Tidy(<<e>>)
    <3>1. \A i, j \in {1} : ~(i < j)  OBVIOUS
    <3>2. QED  BY <1>5, <3>1 DEF Tidy
  <2>3. ASSUME NEW i \in DOMAIN h, NEW j \in DOMAIN <<e>>  PROVE Precedes(h[i], <<e>>[j])
    <3>1. h[i] \in ToSet(h) /\ <<e>>[j] \in Errors  BY <1>5, <1>8, SeqParts
    <3>2. h[i] \notin Errors  BY <1>7, <1>8, <3>1
    <3>3. h[i].mine  BY <1>9, <3>1, <3>2 DEF Inv, UpToCursor
    <3>4. QED  BY <3>1, <3>2, <3>3 DEF Precedes
  <2>4. Tidy(h \o <<e>>)  BY <1>5, <1>8, <2>1, <2>2, <2>3, TidyConcat
  <2>5. QED  BY <1>9, <2>4 DEF InOrderOnce, Tidy, Precedes
<1>13. NothingSkipped'  BY <1>1, <1>10 DEF Inv, NothingSkipped
<1>14. EndAccounted'
  <2>1. faults \in Nat  BY DEF Inv, Tracked
  <2>2. Gap \in ToSet(Stream') => removals' > 0
    BY <1>1, <1>10 DEF Inv, EndAccounted
  <2>3. Failure \in ToSet(Stream') => faults' > 0
    BY <1>10, <2>1 DEF Inv, EndAccounted
  <2>4. QED  BY <1>2, <2>2, <2>3 DEF EndAccounted
<1>15. QED  BY <1>3, <1>4, <1>6, <1>11, <1>12, <1>13, <1>14 DEF Inv

\* An item is pushed; an error is the last item, and the end.
LEMMA PushKeeps ==
  ASSUME Inv, Push, UNCHANGED <<channel, faults, since, stop, owner, received>>
  PROVE  Inv'
<1>1. /\ pc = "send" /\ page # <<>> /\ queue' = Append(queue, Head(page))
      /\ UNCHANGED <<cursor, stale>>
      /\ Head(page) \in Errors => pc' = "done" /\ page' = <<>>
      /\ Head(page) \notin Errors => pc' = pc /\ page' = Tail(page)
  BY DEF Push, Exit
<1>2. /\ received \in Seq(Items) /\ queue \in Seq(Items) /\ page \in Seq(Items)
      /\ Clean(received) /\ Clean(queue) /\ (Clean(page) \/ Len(page) = 1)
      /\ stop \in BOOLEAN /\ (owner = "gone" => stop)
  BY <1>1 DEF Inv, Carried
<1>3. UNCHANGED <<log, clock, lastId, removals, owed>>  BY DEF channel
<1>4. /\ Append(queue, Head(page)) \in Seq(Items) /\ Tail(page) \in Seq(Items)
      /\ Head(page) \in ToSet(page) /\ ToSet(Tail(page)) \subseteq ToSet(page)
      /\ Append(queue, Head(page)) \o Tail(page) = queue \o page
      /\ Len(Tail(page)) = Len(page) - 1
  BY <1>1, <1>2, MoveOne
<1>5. Len(page) = 1 => Tail(page) = <<>>
  <2>1. Len(page) = 1 => Len(Tail(page)) = 0  BY <1>4
  <2>2. QED  BY <1>4, <2>1, EmptySeq
<1>6. Head(page) \in Errors => Len(page) = 1  BY <1>2, <1>4 DEF Clean
<1>7. page' = Tail(page)  BY <1>1, <1>5, <1>6
<1>8. Ordered'  BY <1>3, OrderedKept DEF Inv
<1>9. Tracked'
  <2>1. Tracked /\ faults' \in Nat /\ stale' \in BOOLEAN  BY <1>1 DEF Inv, Tracked
  <2>2. QED  BY <1>1, <1>3, <2>1, TrackedKept
<1>10. Carried'
  <2>1. Clean(page')
    <3>1. CASE Clean(page)  BY <1>4, <1>7, <3>1 DEF Clean
    <3>2. CASE Len(page) = 1  BY <1>5, <1>7, <3>2, EmptyTidy
    <3>3. QED  BY <1>2, <3>1, <3>2
  <2>2. Head(page) \notin Errors => Clean(queue')
    <3>1. Head(page) \in Items  BY <1>2, <1>4, SeqParts
    <3>2. ToSet(queue') = ToSet(queue) \cup {Head(page)}  BY <1>1, <1>2, <3>1, AppendParts
    <3>3. QED  BY <1>2, <3>2 DEF Clean
  <2>3. pc' \in {"send", "done"} /\ (pc' # "send" => page' = <<>>)  BY <1>1
  <2>4. QED  BY <1>1, <1>2, <1>4, <1>7, <2>1, <2>2, <2>3 DEF Carried
<1>11. Stream' = Stream
  <2> DEFINE q == Append(queue, Head(page))
             p == Tail(page)
  <2>1. q \in Seq(Items) /\ p \in Seq(Items) /\ q \o p = queue \o page /\ queue' = q /\ page' = p
    BY <1>1, <1>4, <1>7
  <2> HIDE DEF q, p
  <2>2. received \in Seq(Items) /\ queue \in Seq(Items) /\ page \in Seq(Items)  BY <1>2
  <2>3. q \in Seq(Items) /\ p \in Seq(Items) /\ q \o p = queue \o page  BY <2>1
  <2>4. (received \o q) \o p = received \o (q \o p)  BY <2>2, <2>3, Associates, Zenon
  <2>5. (received \o queue) \o page = received \o (queue \o page)
    BY <2>2, Associates, Zenon
  <2>6. (received \o q) \o p = (received \o queue) \o page  BY <2>3, <2>4, <2>5, Zenon
  <2>7. QED  BY <2>1, <2>6 DEF Stream
<1>12. Head(page) \in Errors => Stream # <<>> /\ Last(Stream) \in Errors
  <2> DEFINE h == received \o queue
  <2>1. h \in Seq(Items) /\ Stream = h \o page  BY <1>2, ConcatParts DEF Stream
  <2> HIDE DEF h
  <2>2. ASSUME Head(page) \in Errors  PROVE Stream # <<>> /\ Last(Stream) \in Errors
    <3>1. Len(page) = 1 /\ page[1] \in Errors  BY <1>2, <1>6, <2>2
    <3>2. Len(h \o page) = Len(h) + Len(page) /\ Len(h) \in Nat
          /\ \A j \in 1..Len(page) : (h \o page)[Len(h) + j] = page[j]
      BY <1>2, <2>1, ConcatParts
    <3>3. Len(Stream) = Len(h) + 1 /\ Stream[Len(h) + 1] = page[1]  BY <2>1, <3>1, <3>2
    <3>4. Last(Stream) \in Errors  BY <3>1, <3>3 DEF Last
    <3>5. Len(<<>>) = 0 /\ Len(h) + 1 # 0  BY <3>2
    <3>6. QED  BY <3>3, <3>4, <3>5
  <2>3. QED  BY <2>2
<1>13. removals' >= removals /\ faults' >= faults  BY <1>3 DEF Inv, Tracked
<1>14. QED  BY <1>1, <1>3, <1>8, <1>9, <1>10, <1>11, <1>12, <1>13, StreamKept

LEMMA HelperKeeps == Inv /\ Helper => Inv'
<1> SUFFICES ASSUME Inv, Helper  PROVE Inv'  OBVIOUS
<1>1. UNCHANGED <<channel, since, stop, owner, received>>  BY DEF Helper
<1>2. Ordered /\ Tracked /\ Carried  BY DEF Inv
<1>3. /\ removals \in Nat /\ faults \in Nat /\ stale \in BOOLEAN
      /\ (removals = 0 => ~stale /\ Following)
      /\ (pc = "read" /\ ~stale => Following)
  BY <1>2 DEF Tracked
<1>4. /\ (pc \notin {"send", "blocked"} => page = <<>>) /\ (owner = "gone" => stop)
  BY <1>2 DEF Carried
<1>5. CASE Push /\ UNCHANGED faults  BY <1>1, <1>5, PushKeeps
<1>6. CASE FetchFails
  <2>1. /\ pc \in {"open", "seek", "read"} /\ faults' = faults + 1
        /\ UNCHANGED <<stale, queue, cursor>>
        /\ Retry \/ Fail(Failure)
    BY <1>6 DEF FetchFails, Retry
  <2>2. faults' \in Nat /\ faults' >= faults /\ faults' > 0  BY <1>3, <2>1
  <2>3. CASE Retry
    <3>1. pc' = "pause" /\ page' = page /\ page = <<>>  BY <1>4, <2>1, <2>3 DEF Retry
    <3>2. QED  BY <1>1, <1>3, <2>1, <2>2, <3>1, QuietKeeps
  <2>4. CASE Fail(Failure)
    <3>1. Failure \in Errors /\ Failure # Gap  BY ErrorsApart DEF Errors
    <3>2. QED  BY <1>1, <2>1, <2>2, <2>4, <3>1, FailKeeps
  <2>5. QED  BY <2>1, <2>3, <2>4
<1>7. CASE UNCHANGED <<faults, queue>> /\ ~Push /\ ~FetchFails
  <2>1. faults' \in Nat /\ faults' >= faults  BY <1>3, <1>7
  <2>2. CASE CheckStop /\ stop
    <3>1. Exit /\ pc = "check" /\ UNCHANGED <<cursor, stale>>  BY <2>2 DEF CheckStop
    <3>2. QED  BY <1>1, <1>7, <2>2, <3>1, ExitKeeps
  <2>3. CASE CheckStop /\ ~stop
    <3>1. pc = "check" /\ pc' = "open" /\ UNCHANGED <<cursor, stale, page>>
      BY <2>3 DEF CheckStop
    <3>2. QED  BY <1>1, <1>3, <1>4, <1>7, <2>1, <3>1, QuietKeeps
  <2>4. CASE Open
    <3>1. /\ pc = "open" /\ pc' = (IF cursor = None THEN "read" ELSE "seek")
          /\ stale' = FALSE /\ UNCHANGED <<cursor, page>>
      BY <2>4 DEF Open
    <3>2. pc' = "read" => Following  BY <3>1 DEF Following
    <3>3. QED  BY <1>1, <1>4, <1>7, <2>1, <3>1, <3>2, QuietKeeps
  <2>5. CASE Seek /\ (stale \/ Anchor = 0)
    <3>1. pc = "seek" /\ Fail(Gap) /\ UNCHANGED <<cursor, stale>>  BY <2>5 DEF Seek
    <3>2. removals > 0
      <4>1. SUFFICES ASSUME removals = 0 PROVE FALSE  BY <1>3
      <4>2. Anchor = 0 /\ Following /\ cursor # None  BY <1>2, <1>3, <2>5, <3>1, <4>1 DEF Tracked
      <4>3. QED  BY <1>2, <4>2, AnchorFound DEF Following
    <3>3. Gap \in Errors /\ Gap # Failure  BY ErrorsApart DEF Errors
    <3>4. QED  BY <1>1, <1>7, <2>1, <3>1, <3>2, <3>3, FailKeeps
  <2>6. CASE Seek /\ ~(stale \/ Anchor = 0)
    <3>1. pc = "seek" /\ pc' = "read" /\ UNCHANGED <<cursor, stale, page>>  BY <2>6 DEF Seek
    <3>2. Following  BY <1>2, <2>6, AnchorFound DEF Following
    <3>3. QED  BY <1>1, <1>3, <1>4, <1>7, <2>1, <3>1, <3>2, QuietKeeps
  <2>7. CASE Read /\ stale
    <3>1. pc = "read" /\ Fail(Gap) /\ UNCHANGED <<cursor, stale>>  BY <2>7 DEF Read
    <3>2. removals > 0  BY <1>3, <2>7
    <3>3. Gap \in Errors /\ Gap # Failure  BY ErrorsApart DEF Errors
    <3>4. QED  BY <1>1, <1>7, <2>1, <3>1, <3>2, <3>3, FailKeeps
  <2>8. CASE Read /\ ~stale  BY <1>1, <1>7, <2>8, ReadKeeps
  <2>9. CASE PushDisconnected
    <3>1. Exit /\ pc = "send" /\ stop /\ UNCHANGED <<cursor, stale>>
      BY <1>4, <2>9 DEF PushDisconnected
    <3>2. QED  BY <1>1, <1>7, <3>1, ExitKeeps
  <2>10. CASE PushFull
    <3>1. pc = "send" /\ pc' = "blocked" /\ UNCHANGED <<cursor, stale, page>>
      BY <2>10 DEF PushFull
    <3>2. QED  BY <1>1, <1>3, <1>7, <2>1, <3>1, QuietKeeps
  <2>11. CASE Blocked /\ stop
    <3>1. Exit /\ pc = "blocked" /\ UNCHANGED <<cursor, stale>>  BY <2>11 DEF Blocked
    <3>2. QED  BY <1>1, <1>7, <2>11, <3>1, ExitKeeps
  <2>12. CASE Blocked /\ ~stop
    <3>1. pc = "blocked" /\ pc' = "send" /\ UNCHANGED <<cursor, stale, page>>
      BY <2>12 DEF Blocked
    <3>2. QED  BY <1>1, <1>3, <1>7, <2>1, <3>1, QuietKeeps
  <2>13. CASE PageDelivered
    <3>1. pc = "send" /\ pc' \in {"check", "pause"} /\ page = <<>> /\ UNCHANGED <<cursor, stale, page>>
      BY <2>13 DEF PageDelivered
    <3>2. QED  BY <1>1, <1>3, <1>7, <2>1, <3>1, QuietKeeps
  <2>14. CASE Pause /\ stop
    <3>1. Exit /\ pc = "pause" /\ UNCHANGED <<cursor, stale>>  BY <2>14 DEF Pause
    <3>2. QED  BY <1>1, <1>7, <2>14, <3>1, ExitKeeps
  <2>15. CASE Pause /\ ~stop
    <3>1. pc = "pause" /\ pc' = "check" /\ UNCHANGED <<cursor, stale, page>>
      BY <2>15 DEF Pause
    <3>2. QED  BY <1>1, <1>3, <1>4, <1>7, <2>1, <3>1, QuietKeeps
  <2>16. CheckStop \/ Open \/ Seek \/ Read \/ PushDisconnected \/ PushFull \/ Blocked
           \/ PageDelivered \/ Pause
    BY <1>7 DEF Helper, Fetch
  <2>17. QED
    BY <2>2, <2>3, <2>4, <2>5, <2>6, <2>7, <2>8, <2>9, <2>10, <2>11, <2>12, <2>13, <2>14,
       <2>15, <2>16
<1>8. QED  BY <1>5, <1>6, <1>7 DEF Helper

-----------------------------------------------------------------------------
(***************************************************************************)
(* The steps of the owner.                                                 *)
(***************************************************************************)
LEMMA NextItemKeeps ==
  ASSUME Inv, NextItem, UNCHANGED <<channel, faults, since, helper>>
  PROVE  Inv'
<1>1. /\ UNCHANGED <<log, clock, lastId, removals, owed, pc, cursor, stale, page, stop>>
      /\ owner = "idle"
  BY DEF channel, helper, NextItem
<1>2. /\ received \in Seq(Items) /\ queue \in Seq(Items) /\ page \in Seq(Items)
      /\ pc # "done" => Clean(received) /\ Clean(queue)
  BY DEF Inv, Carried
<1>3. Ordered'  BY <1>1, OrderedKept DEF Inv
<1>4. Tracked'
  <2>1. Tracked /\ faults' \in Nat /\ stale' \in BOOLEAN  BY <1>1 DEF Inv, Tracked
  <2>2. pc = "seek" => cursor # None  BY <2>1 DEF Tracked
  <2>3. pc = "read" /\ ~stale => Following  BY <2>1 DEF Tracked
  <2>4. QED  BY <1>1, <2>1, <2>2, <2>3, TrackedKept
<1>5. removals' >= removals /\ faults' >= faults  BY <1>1 DEF Inv, Tracked
<1>6. CASE queue = <<>> /\ owner' = "ended" /\ UNCHANGED <<received, queue>>
  <2>1. Carried'  BY <1>1, <1>6 DEF Inv, Carried
  <2>2. Stream' = Stream  BY <1>1, <1>6 DEF Stream
  <2>3. QED  BY <1>1, <1>3, <1>4, <1>5, <2>1, <2>2, StreamKept
<1>7. CASE /\ queue # <<>> /\ received' = Append(received, Head(queue))
           /\ queue' = Tail(queue) /\ UNCHANGED owner
  <2>1. /\ received' \in Seq(Items) /\ queue' \in Seq(Items) /\ Head(queue) \in ToSet(queue)
        /\ received' \o queue' = received \o queue
        /\ ToSet(queue') \subseteq ToSet(queue)
    BY <1>2, <1>7, MoveOne
  <2>2. ToSet(received') = ToSet(received) \cup {Head(queue)}
    <3>1. Head(queue) \in Items  BY <1>2, <2>1, SeqParts
    <3>2. QED  BY <1>2, <1>7, <3>1, AppendParts
  <2>3. pc # "done" => Clean(received') /\ Clean(queue')  BY <1>2, <2>1, <2>2 DEF Clean
  <2>4. Carried'  BY <1>1, <1>7, <2>1, <2>3 DEF Inv, Carried
  <2>5. Stream' = Stream  BY <1>1, <2>1 DEF Stream
  <2>6. QED  BY <1>1, <1>3, <1>4, <1>5, <2>4, <2>5, StreamKept
<1>8. QED  BY <1>6, <1>7 DEF NextItem

\* A stop request, or the end of the wait for the helper.
LEMMA ShutdownKeeps ==
  ASSUME Inv, ShutdownBegin \/ ShutdownEnd, UNCHANGED <<channel, faults, since, helper>>
  PROVE  Inv'
<1>1. /\ UNCHANGED <<log, clock, lastId, removals, owed, pc, cursor, stale, page>>
      /\ UNCHANGED <<received, queue>>
      /\ owner' # "gone" /\ (stop' = TRUE \/ stop' = stop)
  BY DEF channel, helper, ShutdownBegin, ShutdownEnd
<1>2. Ordered'  BY <1>1, OrderedKept DEF Inv
<1>3. Tracked'
  <2>1. Tracked /\ faults' \in Nat /\ stale' \in BOOLEAN  BY <1>1 DEF Inv, Tracked
  <2>2. pc = "seek" => cursor # None  BY <2>1 DEF Tracked
  <2>3. pc = "read" /\ ~stale => Following  BY <2>1 DEF Tracked
  <2>4. QED  BY <1>1, <2>1, <2>2, <2>3, TrackedKept
<1>4. Carried'  BY <1>1 DEF Inv, Carried
<1>5. Stream' = Stream  BY <1>1 DEF Stream
<1>6. removals' >= removals /\ faults' >= faults  BY <1>1 DEF Inv, Tracked
<1>7. stop => stop'  BY <1>1
<1>8. QED  BY <1>1, <1>2, <1>3, <1>4, <1>5, <1>6, <1>7, StreamKept

\* The receiver is gone, with what it had not read.
LEMMA DropKeeps ==
  ASSUME Inv, DropWatcher, UNCHANGED <<channel, faults, since, helper>>
  PROVE  Inv'
<1>1. /\ UNCHANGED <<log, clock, lastId, removals, owed, pc, cursor, stale, page, received>>
      /\ queue' = <<>> /\ stop' = TRUE
  BY DEF channel, helper, DropWatcher
<1>2. Ordered'  BY <1>1, OrderedKept DEF Inv
<1>3. Tracked'
  <2>1. Tracked /\ faults' \in Nat /\ stale' \in BOOLEAN  BY <1>1 DEF Inv, Tracked
  <2>2. pc = "seek" => cursor # None  BY <2>1 DEF Tracked
  <2>3. pc = "read" /\ ~stale => Following  BY <2>1 DEF Tracked
  <2>4. QED  BY <1>1, <2>1, <2>2, <2>3, TrackedKept
<1>4. Carried'  BY <1>1, EmptyTidy DEF Inv, Carried
<1>5. received \in Seq(Items) /\ queue \in Seq(Items) /\ page \in Seq(Items)
  BY DEF Inv, Carried
<1> DEFINE h == received \o queue
<1>6. /\ h \in Seq(Items) /\ ToSet(h) = ToSet(received) \cup ToSet(queue)
      /\ \A i \in DOMAIN received : i \in DOMAIN h /\ h[i] = received[i]
  <2>1. \A i \in 1..Len(received) : i \in 1..(Len(received) + Len(queue))
    BY <1>5, ConcatParts
  <2>2. QED  BY <1>5, <2>1, ConcatParts
<1>7. Stream = h \o page /\ Stream' = received \o page
  <2>1. received \o <<>> = received  BY <1>5, ConcatEmptySeq
  <2>2. QED  BY <1>1, <2>1 DEF Stream
<1>8. Tidy(received \o page)
  <2>1. Tidy(h \o page)  BY <1>7, TidyStream DEF Inv
  <2>2. Tidy(received)
    <3>1. Tidy(h)  BY <1>5, <1>6, <2>1, TidyParts
    <3>2. QED  BY <1>5, <3>1, TidyParts
  <2> HIDE DEF h
  <2>3. Tidy(page) /\ \A i \in DOMAIN h, j \in DOMAIN page : Precedes(h[i], page[j])
    BY <1>5, <1>6, <2>1, TidyParts
  <2>4. \A i \in DOMAIN received, j \in DOMAIN page : Precedes(received[i], page[j])
    BY <1>6, <2>3
  <2>5. QED  BY <1>5, <2>2, <2>3, <2>4, TidyConcat
<1>9. ToSet(Stream') \subseteq ToSet(Stream)
  <2>1. ToSet(received \o page) = ToSet(received) \cup ToSet(page)  BY <1>5, ConcatParts
  <2>2. ToSet(h \o page) = ToSet(h) \cup ToSet(page)
    <3> HIDE DEF h
    <3>1. QED  BY <1>5, <1>6, ConcatParts
  <2>3. QED  BY <1>6, <1>7, <2>1, <2>2
<1> HIDE DEF h
<1>10. UpToCursor'  BY <1>1, <1>9 DEF Inv, UpToCursor
<1>11. InOrderOnce'  BY <1>7, <1>8 DEF InOrderOnce, Tidy, Precedes
<1>12. NothingSkipped'  BY <1>1 DEF NothingSkipped
<1>13. EndAccounted'  BY <1>1, <1>9 DEF Inv, EndAccounted
<1>14. QED  BY <1>2, <1>3, <1>4, <1>10, <1>11, <1>12, <1>13 DEF Inv

LEMMA OwnerKeeps == Inv /\ Owner => Inv'
<1> SUFFICES ASSUME Inv, Owner  PROVE Inv'  OBVIOUS
<1>1. UNCHANGED <<channel, faults, since, helper>>  BY DEF Owner
<1>2. CASE NextItem  BY <1>1, <1>2, NextItemKeeps
<1>3. CASE ShutdownBegin \/ ShutdownEnd  BY <1>1, <1>3, ShutdownKeeps
<1>4. CASE DropWatcher  BY <1>1, <1>4, DropKeeps
<1>5. QED  BY <1>2, <1>3, <1>4 DEF Owner

-----------------------------------------------------------------------------
(***************************************************************************)
(* The steps of the channel.                                               *)
(***************************************************************************)

\* A new record is written after everything that was read or is owed.
LEMMA WriteKeeps ==
  ASSUME Inv, Write, UNCHANGED <<faults, since, queue, stop, owner, received>>
  PROVE  Inv'
<1>1. PICK mine \in BOOLEAN :
        LET r == [id |-> lastId + 1, time |-> clock + 1, mine |-> mine]
        IN log' = Append(log, r) /\ owed' = owed \cup {q \in {r} : Matches(q)}
  BY DEF Write
<1> DEFINE r == [id |-> lastId + 1, time |-> clock + 1, mine |-> mine]
<1>2. log' = Append(log, r) /\ owed' = owed \cup {q \in {r} : Matches(q)}  BY <1>1
<1>3. /\ clock' = clock + 1 /\ lastId' = lastId + 1
      /\ UNCHANGED <<removals, pc, cursor, stale, page>>
  BY DEF Write, helper
<1>4. /\ clock \in Nat /\ lastId \in Nat /\ since \in Nat
      /\ log \in Seq(Events) /\ Ascending(log)
      /\ \A i \in DOMAIN log : log[i].time <= clock
      /\ owed \subseteq Events /\ \A q \in owed : Matches(q)
  BY DEF Inv, Ordered
<1>5. r \in Events /\ r.time = clock + 1  BY <1>4 DEF Events
<1> HIDE DEF r
<1>6. /\ log' \in Seq(Events) /\ DOMAIN log' = 1..(Len(log) + 1) /\ DOMAIN log = 1..Len(log)
      /\ \A i \in 1..Len(log) : log'[i] = log[i]
      /\ log'[Len(log) + 1] = r
      /\ ToSet(log') = ToSet(log) \cup {r}
  BY <1>2, <1>4, <1>5, AppendParts
<1>7. /\ Len(log) \in Nat
      /\ \A i \in 1..(Len(log) + 1) : i \in 1..Len(log) \/ i = Len(log) + 1
  BY <1>4, SeqParts
<1>8. \A i \in 1..Len(log) : log[i].time \in Nat /\ log[i].time <= clock
  <2>1. \A i \in 1..Len(log) : log[i] \in Events  BY <1>4, <1>6, SeqParts
  <2>2. QED  BY <1>4, <1>6, <2>1 DEF Events
<1>9. Ordered'
  <2>1. ASSUME NEW i \in 1..(Len(log) + 1), NEW j \in 1..(Len(log) + 1), i < j
        PROVE  log'[i].time < log'[j].time
    <3>1. i \in 1..Len(log)  BY <1>7, <2>1
    <3>2. CASE j \in 1..Len(log)  BY <1>4, <1>6, <2>1, <3>1, <3>2 DEF Ascending
    <3>3. CASE j = Len(log) + 1  BY <1>4, <1>5, <1>6, <1>8, <3>1, <3>3
    <3>4. QED  BY <1>7, <3>2, <3>3
  <2>2. Ascending(log')  BY <1>6, <2>1 DEF Ascending
  <2>3. \A i \in DOMAIN log' : log'[i].time <= clock + 1
    <3>1. \A i \in 1..Len(log) : log'[i].time <= clock + 1  BY <1>4, <1>6, <1>8
    <3>2. log'[Len(log) + 1].time <= clock + 1  BY <1>4, <1>5, <1>6
    <3>3. QED  BY <1>6, <1>7, <3>1, <3>2
  <2>4. owed' \subseteq Events /\ \A q \in owed' : Matches(q)  BY <1>2, <1>4, <1>5
  <2>5. \A q \in owed' : Matches(q)'  BY <2>4 DEF Matches
  <2>6. clock' \in Nat /\ lastId' \in Nat /\ since' \in Nat  BY <1>3, <1>4
  <2>7. QED  BY <1>3, <1>6, <2>2, <2>3, <2>4, <2>5, <2>6 DEF Ordered
<1>10. cursor \in [id : Nat, time : Nat] /\ cursor.time <= clock /\ cursor.time \in Nat
  BY DEF Inv, Tracked
<1>11. Following' <=> Following
  <2>1. ASSUME Anchored  PROVE Anchored'
    <3>1. PICK i \in DOMAIN log : SameAnchor(log[i])  BY <2>1 DEF Anchored
    <3>2. i \in DOMAIN log' /\ log'[i] = log[i]  BY <1>6, <1>7, <3>1
    <3>3. QED  BY <1>3, <3>1, <3>2 DEF Anchored, SameAnchor
  <2>2. ASSUME Anchored'  PROVE Anchored
    <3>1. PICK i \in DOMAIN log' : log'[i].id = cursor.id /\ log'[i].time = cursor.time
      BY <1>3, <2>2 DEF Anchored, SameAnchor
    <3>2. i # Len(log) + 1  BY <1>4, <1>5, <1>6, <1>10, <3>1
    <3>3. i \in DOMAIN log /\ log[i] = log'[i]  BY <1>6, <1>7, <3>1, <3>2
    <3>4. QED  BY <3>1, <3>3 DEF Anchored, SameAnchor
  <2>3. QED  BY <1>3, <2>1, <2>2 DEF Following
<1>12. Tracked'
  <2>1. Following' => \A q \in owed' : cursor.time < q.time => q \in ToSet(log')
    BY <1>2, <1>6, <1>11 DEF Inv, Tracked
  <2>2. cursor.time <= clock'  BY <1>3, <1>4, <1>10
  <2>3. QED  BY <1>3, <1>11, <2>1, <2>2 DEF Inv, Tracked
<1>13. Carried'  BY <1>3 DEF Inv, Carried
<1>14. Stream' = Stream  BY <1>3 DEF Stream
<1>15. UpToCursor' /\ InOrderOnce'  BY <1>3, <1>14 DEF Inv, UpToCursor, InOrderOnce
<1>16. NothingSkipped'
  <2>1. \A q \in owed' : q.time <= cursor.time => q \in owed  BY <1>2, <1>4, <1>5, <1>10
  <2>2. QED  BY <1>3, <1>14, <2>1 DEF Inv, NothingSkipped
<1>17. EndAccounted'  BY <1>3, <1>14 DEF Inv, EndAccounted
<1>18. QED  BY <1>9, <1>12, <1>13, <1>15, <1>16, <1>17 DEF Inv

\* The channel loses its oldest records.  If the record of the cursor is still
\* there, only records before it are gone.
LEMMA LoseKeeps ==
  ASSUME Inv, Lose, UNCHANGED <<faults, since, queue, stop, owner, received>>
  PROVE  Inv'
<1>1. PICK n \in 1..Len(log) :
        /\ log' = SubSeq(log, n + 1, Len(log))
        /\ owed' = IF cursor = None THEN owed \ ToSet(SubSeq(log, 1, n)) ELSE owed
        /\ lastId' \in IF n = Len(log) THEN {0, lastId} ELSE {lastId}
  BY DEF Lose
<1>2. /\ removals' = removals + 1 /\ stale' = TRUE
      /\ UNCHANGED <<clock, pc, cursor, page>>
  BY DEF Lose
<1>3. /\ clock \in Nat /\ lastId \in Nat /\ since \in Nat
      /\ log \in Seq(Events) /\ Ascending(log)
      /\ \A i \in DOMAIN log : log[i].time <= clock
      /\ owed \subseteq Events /\ \A q \in owed : Matches(q)
  BY DEF Inv, Ordered
<1> DEFINE l == Len(log)
<1>4. /\ l \in Nat /\ n \in Nat /\ n <= l /\ DOMAIN log = 1..l
      /\ \A i \in 1..l : log[i] \in Events /\ log[i] \in ToSet(log)
  BY <1>1, <1>3, SeqParts
<1>5. log' = SubSeq(log, n + 1, l) /\ l <= Len(log) /\ l = Len(log)
  <2>1. log' = SubSeq(log, n + 1, Len(log))  BY <1>1
  <2>2. l <= Len(log)  BY <1>4
  <2>3. QED  BY <2>1, <2>2, Zenon
<1> HIDE DEF l
<1>6. /\ log' \in Seq(Events) /\ DOMAIN log' = 1..(l - n)
      /\ \A i \in 1..(l - n) : n + i \in DOMAIN log /\ log'[i] = log[n + i]
      /\ ToSet(log') \subseteq ToSet(log) /\ Ascending(log')
  BY <1>3, <1>4, <1>5, SliceParts
<1>7. \A k \in 1..n : log[k] \in ToSet(SubSeq(log, 1, n))
  <2> DEFINE d == SubSeq(log, 0 + 1, n)
  <2>1. 0 \in Nat /\ 0 <= n /\ n <= Len(log)  BY <1>4, <1>5
  <2>2. DOMAIN d = 1..(n - 0) /\ \A i \in 1..(n - 0) : d[i] = log[0 + i]
    BY <1>3, <1>4, <2>1, SliceParts
  <2>3. \A k \in 1..n : k \in 1..(n - 0) /\ 0 + k = k  BY <1>4
  <2>4. \A k \in 1..n : k \in DOMAIN d /\ d[k] = log[k]  BY <2>2, <2>3
  <2>5. d = SubSeq(log, 1, n)  OBVIOUS
  <2> HIDE DEF d
  <2>6. QED  BY <2>4, <2>5 DEF ToSet
<1>8. \A k \in 1..l : n < k => log[k] \in ToSet(log')
  <2>1. \A k \in 1..l : n < k => k - n \in 1..(l - n) /\ n + (k - n) = k  BY <1>4
  <2>2. \A k \in 1..l : n < k => k - n \in DOMAIN log' /\ log'[k - n] = log[k]  BY <1>6, <2>1
  <2>3. QED  BY <2>2 DEF ToSet
<1>9. owed' \subseteq owed  BY <1>1
<1>10. Ordered'
  <2>1. \A i \in DOMAIN log' : log'[i].time <= clock  BY <1>3, <1>6
  <2>2. \A q \in owed' : Matches(q)'  BY <1>3, <1>9 DEF Matches
  <2>3. lastId' \in Nat  BY <1>1, <1>3
  <2>4. QED  BY <1>2, <1>3, <1>6, <1>9, <2>1, <2>2, <2>3 DEF Ordered
<1>11. cursor \in [id : Nat, time : Nat] /\ cursor.time <= clock /\ cursor.time \in Nat
  BY DEF Inv, Tracked
<1>12. ASSUME Following', NEW q \in owed', cursor.time < q.time  PROVE q \in ToSet(log')
  <2>1. q \in owed /\ q \in Events  BY <1>3, <1>9
  <2>2. CASE cursor = None
    <3>1. Following  BY <2>2 DEF Following
    <3>2. q \in ToSet(log)  BY <1>12, <2>1, <3>1 DEF Inv, Tracked
    <3>3. PICK k \in 1..l : q = log[k]  BY <1>4, <3>2 DEF ToSet
    <3>4. q \notin ToSet(SubSeq(log, 1, n))  BY <1>1, <1>12, <2>2
    <3>5. k \notin 1..n  BY <1>7, <3>3, <3>4
    <3>6. n < k  BY <1>4, <3>5
    <3>7. QED  BY <1>8, <3>3, <3>6
  <2>3. CASE cursor # None
    <3>1. PICK i \in DOMAIN log' : log'[i].id = cursor.id /\ log'[i].time = cursor.time
      BY <1>2, <1>12, <2>3 DEF Following, Anchored, SameAnchor
    <3>2. i \in 1..(l - n) /\ n + i \in 1..l /\ n < n + i  BY <1>4, <1>6, <3>1
    <3>3. log[n + i].id = cursor.id /\ log[n + i].time = cursor.time  BY <1>6, <3>1, <3>2
    <3>4. Following  BY <1>4, <3>2, <3>3 DEF Following, Anchored, SameAnchor
    <3>5. q \in ToSet(log)  BY <1>12, <2>1, <3>4 DEF Inv, Tracked
    <3>6. PICK k \in 1..l : q = log[k]  BY <1>4, <3>5 DEF ToSet
    <3>7. k < n + i => log[k].time < log[n + i].time  BY <1>3, <1>4, <3>2 DEF Ascending
    <3>8. ~(k <= n + i)
      <4>1. SUFFICES ASSUME k <= n + i PROVE FALSE  OBVIOUS
      <4>2. log[k].time \in Nat  BY <1>4 DEF Events
      <4>3. k < n + i \/ k = n + i  BY <1>4, <3>2, <4>1
      <4>4. log[k].time <= cursor.time  BY <1>11, <3>3, <3>7, <4>2, <4>3
      <4>5. QED  BY <1>11, <1>12, <3>6, <4>2, <4>4
    <3>9. n < k  BY <1>4, <3>2, <3>8
    <3>10. QED  BY <1>8, <3>6, <3>9
  <2>4. QED  BY <2>2, <2>3
<1>13. Tracked'
  <2>1. removals' \in Nat /\ removals' # 0  BY <1>2 DEF Inv, Tracked
  <2>2. Following' => \A q \in owed' : cursor.time < q.time => q \in ToSet(log')  BY <1>12
  <2>3. QED  BY <1>2, <2>1, <2>2 DEF Inv, Tracked
<1>14. Carried'  BY <1>2 DEF Inv, Carried
<1>15. Stream' = Stream  BY <1>2 DEF Stream
<1>16. UpToCursor' /\ InOrderOnce'  BY <1>2, <1>15 DEF Inv, UpToCursor, InOrderOnce
<1>17. NothingSkipped'  BY <1>2, <1>9, <1>15 DEF Inv, NothingSkipped
<1>18. EndAccounted'
  <2>1. removals' > 0  BY <1>2 DEF Inv, Tracked
  <2>2. QED  BY <1>2, <1>15, <2>1 DEF Inv, EndAccounted
<1>19. QED  BY <1>10, <1>13, <1>14, <1>16, <1>17, <1>18 DEF Inv

-----------------------------------------------------------------------------
(***************************************************************************)
(* The theorems.                                                           *)
(***************************************************************************)
LEMMA NextInv == Inv /\ [Next]_vars => Inv'
<1> SUFFICES ASSUME Inv, [Next]_vars  PROVE Inv'  OBVIOUS
<1>1. CASE Channel
  <2>1. UNCHANGED <<faults, since, queue, stop, owner, received>>  BY <1>1 DEF Channel
  <2>2. QED  BY <1>1, <2>1, WriteKeeps, LoseKeeps DEF Channel
<1>2. CASE Helper  BY <1>2, HelperKeeps
<1>3. CASE Owner  BY <1>3, OwnerKeeps
<1>4. CASE UNCHANGED vars
  <2>1. /\ UNCHANGED <<log, clock, lastId, removals, owed, pc, cursor, stale, page>>
        /\ UNCHANGED <<faults, since, queue, stop, owner, received>>
    BY <1>4 DEF vars, channel, helper
  <2>2. Ordered'  BY <2>1, OrderedKept DEF Inv
  <2>3. Tracked'  BY <2>1, FollowingKept DEF Inv, Tracked
  <2>4. Carried'  BY <2>1 DEF Inv, Carried
  <2>5. Stream' = Stream  BY <2>1 DEF Stream
  <2>6. removals' >= removals /\ faults' >= faults  BY <2>1 DEF Inv, Tracked
  <2>7. QED  BY <2>1, <2>2, <2>3, <2>4, <2>5, <2>6, StreamKept
<1>5. QED  BY <1>1, <1>2, <1>3, <1>4 DEF Next

LEMMA AlwaysInv == Spec => []Inv
<1>1. Init => Inv  BY InitInv
<1>2. Inv /\ [Next]_vars => Inv'  BY NextInv
<1>3. QED  BY <1>1, <1>2, PTL DEF Spec

\* The events of a watch arrive in the order they were written, each once,
\* only those of the query, and an error is the last item: for every length
\* of the channel, page and queue, whatever the channel loses or renumbers and
\* whichever calls fail and are retried between two pages (watch.rs deliver).
THEOREM StreamInOrder == Spec => []InOrderOnce
<1>1. Inv => InOrderOnce  BY DEF Inv
<1>2. QED  BY <1>1, AlwaysInv, PTL

\* No matching record up to the cursor is passed over, not even when the
\* channel dropped records or reused their numbers behind the watch: the
\* anchor is found again or the stream ends with a gap (read_page, page).
THEOREM NoRecordSkipped == Spec => []NothingSkipped
<1>1. Inv => NothingSkipped  BY DEF Inv
<1>2. QED  BY <1>1, AlwaysInv, PTL

\* The stream ends on request or with an error, a gap is reported only when
\* records have disappeared, another failure only when a call has failed.
THEOREM EndsForACause == Spec => []EndAccounted
<1>1. Inv => EndAccounted  BY DEF Inv
<1>2. QED  BY <1>1, AlwaysInv, PTL
=============================================================================
