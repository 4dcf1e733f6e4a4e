------------------------ MODULE ScheduledTaskProofs -------------------------
(***************************************************************************)
(* Proofs about a task on its way from an expression to a document and     *)
(* back: what the compiler of schedules returns and refuses, for every set *)
(* of expressions, calendar and anchor; what the document reader accepts,  *)
(* for every sequence of events and all limits; and, with what             *)
(* TaskXmlProofs shows of written definitions, what becomes of every       *)
(* definition that a program builds or a document gives when it is written *)
(* and read back.                                                          *)
(***************************************************************************)
EXTENDS ScheduledTask, TaskXmlProofs, Integers

(***************************************************************************)
(* The schedule.  What ScheduledTask assumes of its calendar and of what   *)
(* an expression is.                                                       *)
(***************************************************************************)
Legal == LegalCalendar /\ LegalExpressions

\* The values that a field can have: Sunday counts as 0.
Values(name) ==
  CASE name = "minute" -> 0..59 [] name = "hour" -> 0..23
    [] name = "dom" -> 1..31 [] name = "month" -> 1..12 [] name = "dow" -> 0..6

LEMMA FieldLimits ==
  ASSUME NEW name \in Names
  PROVE  /\ Limits[name][1] \in Nat /\ Limits[name][2] \in Nat
         /\ name = "dow" => Limits[name][1] = 0 /\ Limits[name][2] = 7
         /\ name /= "dow" => Limits[name][1]..Limits[name][2] = Values(name)
         /\ Values(name) \subseteq Limits[name][1]..Limits[name][2]
<1>1. CASE name = "minute"  BY <1>1 DEF Limits, Values
<1>2. CASE name = "hour"  BY <1>2 DEF Limits, Values
<1>3. CASE name = "dom"  BY <1>3 DEF Limits, Values
<1>4. CASE name = "month"  BY <1>4 DEF Limits, Values
<1>5. CASE name = "dow"  BY <1>5 DEF Limits, Values
<1>6. QED  BY <1>1, <1>2, <1>3, <1>4, <1>5 DEF Names

\* One part, as its loop from first to final value in steps runs, and as a
\* reader understands it.
Counted(name, part, v) ==
  v \in First(name, part)..Final(name, part)
    /\ (v - First(name, part)) % StepOf(part) = 0

LEMMA PartTypes ==
  ASSUME NEW part \in Part
  PROVE  /\ part.stepped \in BOOLEAN
         /\ part.stepped => part.step \in Nat
         /\ part.kind \in {"all", "one", "span"}
         /\ part.kind \in {"one", "span"} => part.from \in Nat
         /\ part.kind = "span" => part.to \in Nat
BY DEF Part

LEMMA Covered ==
  ASSUME NEW name \in Names, NEW part \in Part, PartAccepted(name, part),
         NEW v \in Limits[name][1]..Limits[name][2]
  PROVE  Counted(name, part, v) <=> Covers(part, Limits[name][1], v)
<1> DEFINE a == Limits[name][1]
           b == Limits[name][2]
<1>1. a \in Nat /\ b \in Nat /\ v \in a..b  BY FieldLimits
<1>2. \A k \in Int : k % 1 = 0  OBVIOUS
<1>3. /\ part.stepped \in BOOLEAN
      /\ part.stepped => part.step \in Nat /\ part.step > 0
      /\ part.kind \in {"all", "one", "span"}
      /\ part.kind \in {"one", "span"} => part.from \in Nat
      /\ part.kind = "span" => part.to \in Nat
  BY PartTypes DEF PartAccepted, StepOf
<1> HIDE DEF a, b
<1>4. CASE part.kind = "all"
  <2>1. First(name, part) = a /\ Final(name, part) = b
    BY <1>4 DEF First, Final, a, b
  <2>2. Counted(name, part, v) <=> (part.stepped => (v - a) % part.step = 0)
    BY <1>1, <1>2, <1>3, <2>1 DEF Counted, StepOf
  <2>3. Covers(part, a, v) <=> (part.stepped => (v - a) % part.step = 0)
    BY <1>1, <1>4 DEF Covers
  <2>4. QED  BY <2>2, <2>3 DEF a
<1>5. CASE part.kind = "span"
  <2>1. First(name, part) = part.from /\ Final(name, part) = part.to
    BY <1>5 DEF First, Final
  <2>2. Counted(name, part, v) <=>
          /\ v >= part.from /\ v <= part.to
          /\ part.stepped => (v - part.from) % part.step = 0
    BY <1>1, <1>2, <1>3, <1>5, <2>1 DEF Counted, StepOf
  <2>3. Covers(part, a, v) <=>
          /\ v >= part.from /\ v <= part.to
          /\ part.stepped => (v - part.from) % part.step = 0
    BY <1>1, <1>5 DEF Covers
  <2>4. QED  BY <2>2, <2>3 DEF a
<1>6. CASE part.kind = "one" /\ part.stepped
  <2>1. First(name, part) = part.from /\ Final(name, part) = b
    BY <1>6 DEF First, Final, b
  <2>2. Counted(name, part, v) <=>
          v >= part.from /\ (v - part.from) % part.step = 0
    BY <1>1, <1>3, <1>6, <2>1 DEF Counted, StepOf
  <2>3. Covers(part, a, v) <=>
          v >= part.from /\ (v - part.from) % part.step = 0
    BY <1>1, <1>6 DEF Covers
  <2>4. QED  BY <2>2, <2>3 DEF a
<1>7. CASE part.kind = "one" /\ ~part.stepped
  <2>1. First(name, part) = part.from /\ Final(name, part) = part.from
    BY <1>7 DEF First, Final
  <2>2. Counted(name, part, v) <=> v = part.from
    BY <1>1, <1>2, <1>3, <1>7, <2>1 DEF Counted, StepOf
  <2>3. Covers(part, a, v) <=> v = part.from
    BY <1>1, <1>3, <1>7 DEF Covers
  <2>4. QED  BY <2>2, <2>3 DEF a
<1>8. QED  BY <1>3, <1>4, <1>5, <1>6, <1>7

\* A part counts no value outside the limits of its field.
LEMMA CountsWithin ==
  ASSUME NEW name \in Names, NEW part \in Part, PartAccepted(name, part), NEW v,
         Counted(name, part, v)
  PROVE  v \in Limits[name][1]..Limits[name][2]
<1>1. Limits[name][1] \in Nat /\ Limits[name][2] \in Nat  BY FieldLimits
<1>2. First(name, part) \in Nat /\ Final(name, part) \in Nat
  <2>1. /\ part.kind \in {"all", "one", "span"}
        /\ part.kind \in {"one", "span"} => part.from \in Nat
        /\ part.kind = "span" => part.to \in Nat
    BY PartTypes
  <2>2. QED  BY <1>1, <2>1 DEF First, Final
<1>3. QED  BY <1>1, <1>2 DEF Counted, PartAccepted

-----------------------------------------------------------------------------
(***************************************************************************)
(* A field.                                                                *)
(***************************************************************************)
\* The fields after parse: they hold what the accepted expression says.
Parsed ==
  /\ expression \in [Names -> Seq(Part)]
  /\ Accepted
  /\ fields = [name \in Names |-> FieldOf(name, expression[name])]

LEMMA PartsLegal ==
  ASSUME Parsed, NEW name \in Names, NEW p \in ToSet(expression[name])
  PROVE  p \in Part /\ PartAccepted(name, p)
<1>1. expression[name] \in Seq(Part)  BY DEF Parsed
<1>2. p \in Part  BY <1>1, LenProperties, ElementOfSeq DEF ToSet
<1>3. QED  BY <1>2 DEF Parsed, Accepted

\* The values of a field are those that a reader of the expression finds in it.
LEMMA FieldValues ==
  ASSUME Parsed, NEW name \in Names, NEW v
  PROVE  v \in fields[name].values <=> v \in Values(name) /\ Matches(name, v)
<1> DEFINE P == ToSet(expression[name])
           a == Limits[name][1]
           b == Limits[name][2]
<1>1. fields[name].values = UNION {PartValues(name, p) : p \in P}
  BY DEF Parsed, FieldOf
<1>2. v \in fields[name].values <=>
        \E p \in P : \E w : Counted(name, p, w) /\ v = Alias(name, w)
  BY <1>1 DEF PartValues, Counted
<1>3. \A p \in P : \A w : Counted(name, p, w) => w \in a..b
  BY PartsLegal, CountsWithin
<1>4. \A p \in P : \A w \in a..b : Counted(name, p, w) <=> Covers(p, a, w)
  BY PartsLegal, Covered
<1>5. a \in Nat /\ b \in Nat /\ Values(name) \subseteq a..b
  BY FieldLimits
<1>6. CASE name /= "dow"
  <2>1. a..b = Values(name)  BY <1>6, FieldLimits
  <2>2. \A w : Alias(name, w) = w  BY <1>6 DEF Alias
  <2>3. Matches(name, v) <=> \E p \in P : Covers(p, a, v)
    BY <1>6 DEF Matches
  <2> HIDE DEF P, a, b
  <2>4. QED  BY <1>2, <1>3, <1>4, <2>1, <2>2, <2>3
<1>7. CASE name = "dow"
  <2>1. a = 0 /\ b = 7 /\ Values(name) = 0..6
    BY <1>7, FieldLimits DEF Values
  <2>2. \A w : Alias(name, w) = IF w = 7 THEN 0 ELSE w  BY <1>7 DEF Alias
  <2>3. Matches(name, v) <=>
          \E p \in P : Covers(p, 0, v) \/ (v = 0 /\ Covers(p, 0, 7))
    BY <1>7, <2>1 DEF Matches
  <2> HIDE DEF P, a, b
  <2>4. ASSUME v \in fields[name].values
        PROVE  v \in Values(name) /\ Matches(name, v)
    <3>1. PICK p \in P : \E w : Counted(name, p, w) /\ v = Alias(name, w)
      BY <1>2, <2>4
    <3>2. PICK w : Counted(name, p, w) /\ v = Alias(name, w)  BY <3>1
    <3>3. w \in 0..7 /\ Covers(p, 0, w)  BY <1>3, <1>4, <2>1, <3>2
    <3>4. QED  BY <2>1, <2>2, <2>3, <3>2, <3>3
  <2>5. ASSUME v \in Values(name), Matches(name, v)
        PROVE  v \in fields[name].values
    <3>1. PICK p \in P : Covers(p, 0, v) \/ (v = 0 /\ Covers(p, 0, 7))
      BY <2>3, <2>5
    <3>2. CASE Covers(p, 0, v)
      <4>1. Counted(name, p, v) /\ Alias(name, v) = v
        BY <1>4, <2>1, <2>2, <2>5, <3>2
      <4>2. QED  BY <1>2, <4>1
    <3>3. CASE v = 0 /\ Covers(p, 0, 7)
      <4>1. Counted(name, p, 7) /\ Alias(name, 7) = v
        BY <1>4, <2>1, <2>2, <3>3
      <4>2. QED  BY <1>2, <4>1
    <3>4. QED  BY <3>1, <3>2, <3>3
  <2>6. QED  BY <2>4, <2>5
<1>8. QED  BY <1>6, <1>7

\* A star matches every value.
LEMMA StarMatches ==
  ASSUME Parsed, NEW name \in Names, expression[name] = <<Star>>,
         NEW v \in Values(name)
  PROVE  Matches(name, v)
<1>1. Star \in ToSet(expression[name])  BY DEF ToSet
<1>2. v >= Limits[name][1]  BY FieldLimits
<1>3. Covers(Star, Limits[name][1], v)  BY <1>2 DEF Covers, Star
<1>4. QED  BY <1>1, <1>3 DEF Matches

LEMMA Wildcards ==
  ASSUME Parsed, NEW name \in Names
  PROVE  fields[name].wildcard <=> expression[name] = <<Star>>
BY DEF Parsed, FieldOf

-----------------------------------------------------------------------------
(***************************************************************************)
(* The order of a set of numbers.                                          *)
(***************************************************************************)
Below(S, v) == Cardinality({w \in S : w < v})

LEMMA BelowType ==
  ASSUME NEW S, IsFiniteSet(S), S \subseteq Nat, NEW v \in S
  PROVE  Below(S, v) \in Nat /\ Below(S, v) + 1 \in 1..Cardinality(S)
<1> DEFINE T == {w \in S : w < v}
<1>1. T \subseteq S /\ v \notin T /\ T /= S  OBVIOUS
<1>2. /\ IsFiniteSet(T) /\ Cardinality(T) \in Nat /\ Cardinality(S) \in Nat
      /\ Cardinality(T) < Cardinality(S)
  BY <1>1, FS_Subset, FS_CardinalityType
<1>3. QED  BY <1>2 DEF Below

LEMMA BelowGrows ==
  ASSUME NEW S, IsFiniteSet(S), S \subseteq Nat, NEW v \in S, NEW u \in S, v < u
  PROVE  Below(S, v) < Below(S, u)
<1> DEFINE T == {w \in S : w < v}
           U == {w \in S : w < u}
<1>1. (\A w \in S : w < v => w < u) /\ ~(v < v) /\ v < u
  <2>1. \A w \in Nat : w < v => w < u  OBVIOUS
  <2>2. QED  BY <2>1
<1>2. T \subseteq U /\ v \in U /\ v \notin T /\ U \subseteq S  BY <1>1
<1>3. Below(S, v) = Cardinality(T) /\ Below(S, u) = Cardinality(U)
  BY DEF Below
<1> HIDE DEF T, U
<1>4. IsFiniteSet(U) /\ T \in SUBSET U /\ T /= U  BY <1>2, FS_Subset
<1>5. /\ Cardinality(T) <= Cardinality(U) /\ Cardinality(T) /= Cardinality(U)
      /\ IsFiniteSet(T)
  BY <1>4, FS_Subset
<1>6. Cardinality(T) \in Nat /\ Cardinality(U) \in Nat
  BY <1>4, <1>5, FS_CardinalityType
<1>7. QED  BY <1>3, <1>5, <1>6

\* InOrder lists every element once.
LEMMA AllListed ==
  ASSUME NEW S, IsFiniteSet(S), S \subseteq Nat
  PROVE  /\ DOMAIN InOrder(S) = 1..Cardinality(S)
         /\ {InOrder(S)[i] : i \in DOMAIN InOrder(S)} = S
         /\ \A i, j \in DOMAIN InOrder(S) : InOrder(S)[i] = InOrder(S)[j] => i = j
<1> DEFINE n == Cardinality(S)
           f == [v \in S |-> Below(S, v) + 1]
<1>1. n \in Nat  BY FS_CardinalityType
<1>2. \A v \in S : Below(S, v) \in Nat /\ Below(S, v) + 1 \in 1..n
  BY BelowType
<1>3. \A v, u \in S : Below(S, v) = Below(S, u) => v = u
  <2>1. SUFFICES ASSUME NEW v \in S, NEW u \in S, Below(S, v) = Below(S, u)
                 PROVE  v = u
    OBVIOUS
  <2>2. v \in Nat /\ u \in Nat /\ Below(S, v) \in Nat  BY <1>2
  <2>3. ~(v < u)
    <3>1. v < u => Below(S, v) < Below(S, u)  BY BelowGrows
    <3>2. QED  BY <2>1, <2>2, <3>1
  <2>4. ~(u < v)
    <3>1. u < v => Below(S, u) < Below(S, v)  BY BelowGrows
    <3>2. QED  BY <2>1, <2>2, <3>1
  <2>5. QED  BY <2>2, <2>3, <2>4
<1>4. f \in [S -> 1..n]  BY <1>2
<1>5. f \in Injection(S, 1..n)
  <2>1. \A v, u \in S : f[v] = f[u] => v = u  BY <1>2, <1>3
  <2>2. QED  BY <1>4, <2>1 DEF Injection, IsInjective
<1>6. IsFiniteSet(1..n) /\ Cardinality(1..n) = n
  BY <1>1, FS_Interval
<1>7. f \in Surjection(S, 1..n)  BY <1>5, <1>6, FS_Injection
<1>8. \A i \in 1..n : \E v \in S : Below(S, v) = i - 1
  <2>1. SUFFICES ASSUME NEW i \in 1..n PROVE \E v \in S : Below(S, v) = i - 1
    OBVIOUS
  <2>2. PICK v \in S : f[v] = i  BY <1>7 DEF Surjection
  <2>3. Below(S, v) + 1 = i /\ Below(S, v) \in Nat  BY <1>2, <2>2
  <2>4. QED  BY <2>3
<1> DEFINE s == InOrder(S)
<1>9. DOMAIN s = 1..n  BY DEF InOrder
<1>10. \A i \in 1..n : s[i] \in S /\ Below(S, s[i]) = i - 1
  <2>1. \A i \in 1..n : s[i] = CHOOSE v \in S : Below(S, v) = i - 1
    BY DEF InOrder, Below
  <2>2. QED  BY <1>8, <2>1
<1> HIDE DEF s, f
<1>11. \A v \in S : \E i \in 1..n : s[i] = v
  <2>1. SUFFICES ASSUME NEW v \in S PROVE \E i \in 1..n : s[i] = v
    OBVIOUS
  <2> DEFINE i == Below(S, v) + 1
  <2>2. i \in 1..n /\ Below(S, v) = i - 1  BY <1>2
  <2>3. s[i] \in S /\ Below(S, s[i]) = Below(S, v)  BY <1>10, <2>2
  <2>4. s[i] = v  BY <1>3, <2>3
  <2>5. QED  BY <2>2, <2>4
<1>12. \A i, j \in 1..n : s[i] = s[j] => i = j  BY <1>10
<1>13. {s[i] : i \in DOMAIN s} = S  BY <1>9, <1>10, <1>11
<1>14. QED  BY <1>9, <1>12, <1>13 DEF s

-----------------------------------------------------------------------------
(***************************************************************************)
(* The times of the day.                                                   *)
(***************************************************************************)
Wanted == {time \in TimesOfDay : TimeMatches(time)}

LEMMA WantedTimes ==
  ASSUME Parsed
  PROVE  Wanted = fields.hour.values \X fields.minute.values
<1>1. "hour" \in Names /\ "minute" \in Names  BY DEF Names
<1>2. \A v : v \in fields.hour.values <=> v \in 0..23 /\ Matches("hour", v)
  BY <1>1, FieldValues DEF Values
<1>3. \A v : v \in fields.minute.values <=> v \in 0..59 /\ Matches("minute", v)
  BY <1>1, FieldValues DEF Values
<1>4. QED  BY <1>2, <1>3 DEF Wanted, TimesOfDay, TimeMatches

\* One moment for each time: 60 * hour + minute is read back by div and mod.
LEMMA MomentsOfTimes ==
  ASSUME Parsed
  PROVE  /\ IsFiniteSet(Moments) /\ Moments \subseteq Nat
         /\ Cardinality(Moments) = Cardinality(Wanted)
         /\ \A m \in Moments : <<m \div 60, m % 60>> \in Wanted
         /\ \A time \in Wanted : 60 * time[1] + time[2] \in Moments
<1> DEFINE H == fields.hour.values
           M == fields.minute.values
<1>1. H \subseteq 0..23 /\ M \subseteq 0..59
  <2>1. "hour" \in Names /\ "minute" \in Names  BY DEF Names
  <2>2. QED  BY <2>1, FieldValues DEF Values
<1>2. Wanted = H \X M  BY WantedTimes
<1>3. Moments = {60 * h + m : h \in H, m \in M}  BY DEF Moments
<1> HIDE DEF H, M
<1>4. /\ Moments \subseteq Nat
      /\ \A m \in Moments : m <= 1439
  <2>1. \A h \in 0..23 : \A m \in 0..59 :
          60 * h + m \in Nat /\ 60 * h + m <= 1439
    OBVIOUS
  <2>2. QED  BY <1>1, <1>3, <2>1
<1>6. IsFiniteSet(Moments)
  <2>1. Moments \in SUBSET Nat /\ 1439 \in Nat  BY <1>4
  <2>2. QED  BY <1>4, <2>1, FS_BoundedSetOfNaturals
<1>7. \A h \in 0..23 : \A m \in 0..59 :
        (60 * h + m) \div 60 = h /\ (60 * h + m) % 60 = m
  OBVIOUS
<1>8. \A m \in Moments : <<m \div 60, m % 60>> \in Wanted
  BY <1>1, <1>2, <1>3, <1>7
<1>9. \A time \in Wanted : 60 * time[1] + time[2] \in Moments
  BY <1>2, <1>3
<1>10. Cardinality(Moments) = Cardinality(Wanted)
  <2> DEFINE f == [m \in Moments |-> <<m \div 60, m % 60>>]
  <2>1. f \in [Moments -> Wanted]  BY <1>8
  <2>2. \A m \in Nat : m = 60 * (m \div 60) + (m % 60)  OBVIOUS
  <2>3. \A m, k \in Moments : f[m] = f[k] => m = k  BY <1>4, <2>2
  <2>4. \A time \in Wanted : \E m \in Moments : f[m] = time
    <3>1. SUFFICES ASSUME NEW time \in Wanted
                   PROVE  \E m \in Moments : f[m] = time
      OBVIOUS
    <3>2. time \in H \X M /\ time[1] \in 0..23 /\ time[2] \in 0..59
      BY <1>1, <1>2
    <3>3. 60 * time[1] + time[2] \in Moments  BY <1>9
    <3>4. f[60 * time[1] + time[2]] = <<time[1], time[2]>>
      BY <1>7, <3>2, <3>3
    <3>5. time = <<time[1], time[2]>>  BY <3>2
    <3>6. QED  BY <3>3, <3>4, <3>5
  <2>5. f \in Bijection(Moments, Wanted)
    BY <2>1, <2>3, <2>4 DEF Bijection, Injection, Surjection, IsInjective
  <2>6. QED  BY <1>6, <2>5, FS_Bijection DEF ExistsBijection
<1>11. QED  BY <1>4, <1>6, <1>8, <1>9, <1>10

\* The loops of compile meet each wanted time once.
LEMMA TimesListed ==
  ASSUME Parsed
  PROVE  /\ \A i \in DOMAIN Times : Times[i] \in Wanted
         /\ \A time \in Wanted : \E i \in DOMAIN Times : Times[i] = time
         /\ \A i, j \in DOMAIN Times : Times[i] = Times[j] => i = j
<1> DEFINE s == InOrder(Moments)
<1>1. /\ {s[i] : i \in DOMAIN s} = Moments
      /\ \A i, j \in DOMAIN s : s[i] = s[j] => i = j
  BY MomentsOfTimes, AllListed
<1>2. Moments \subseteq Nat  BY MomentsOfTimes
<1>3. DOMAIN Times = DOMAIN s
      /\ \A i \in DOMAIN s : Times[i] = <<s[i] \div 60, s[i] % 60>>
  BY DEF Times
<1> HIDE DEF s
<1>4. \A i \in DOMAIN s : s[i] \in Moments /\ s[i] \in Nat  BY <1>1, <1>2
<1>5. \A i \in DOMAIN Times : Times[i] \in Wanted
  BY <1>3, <1>4, MomentsOfTimes
<1>6. \A m \in Nat : m = 60 * (m \div 60) + (m % 60)  OBVIOUS
<1>7. \A i, j \in DOMAIN Times : Times[i] = Times[j] => i = j
  <2>1. SUFFICES ASSUME NEW i \in DOMAIN s, NEW j \in DOMAIN s,
                        Times[i] = Times[j]
                 PROVE  i = j
    BY <1>3
  <2>2. s[i] \div 60 = s[j] \div 60 /\ s[i] % 60 = s[j] % 60
    BY <1>3, <2>1
  <2>3. s[i] = s[j]  BY <1>4, <1>6, <2>2
  <2>4. QED  BY <1>1, <2>3
<1>8. \A time \in Wanted : \E i \in DOMAIN Times : Times[i] = time
  <2>1. SUFFICES ASSUME NEW time \in Wanted
                 PROVE  \E i \in DOMAIN s : Times[i] = time
    BY <1>3
  <2>2. time[1] \in 0..23 /\ time[2] \in 0..59 /\ time = <<time[1], time[2]>>
    BY DEF Wanted, TimesOfDay
  <2>3. 60 * time[1] + time[2] \in Moments  BY MomentsOfTimes
  <2>4. PICK i \in DOMAIN s : s[i] = 60 * time[1] + time[2]
    BY <1>1, <2>3
  <2>5. s[i] \div 60 = time[1] /\ s[i] % 60 = time[2]  BY <2>2, <2>4
  <2>6. QED  BY <1>3, <2>2, <2>5
<1>9. QED  BY <1>5, <1>7, <1>8

-----------------------------------------------------------------------------
(***************************************************************************)
(* The days of a trigger.                                                  *)
(***************************************************************************)
\* No two days of the week, and no two months, have the same name.
LEMMA NamesApart ==
  /\ \A i, j \in 1..7 : Weekdays[i] = Weekdays[j] => i = j
  /\ \A i, j \in 1..12 : Months[i] = Months[j] => i = j
<1>1. \A i, j \in 1..7 : Weekdays[i] = Weekdays[j] => i = j  BY DEF Weekdays
<1>2. \A i, j \in 1..12 : Months[i] = Months[j] => i = j  BY DEF Months
<1>3. QED  BY <1>1, <1>2

\* What the calendar's day has to do with the fields that name days.
LEMMA MonthDays ==
  ASSUME Parsed, ~TwoDayRules, Legal, NEW d \in Days
  PROVE  /\ d.month \in 1..12 /\ d.weekday \in 0..6 /\ d.day \in 1..31
         /\ d.n \in Nat /\ d.length <= 31
         /\ d.month \in fields.month.values <=> Matches("month", d.month)
         /\ d.day \in fields.dom.values <=> Matches("dom", d.day)
         /\ d.weekday \in fields.dow.values <=> Matches("dow", d.weekday)
         /\ fields.month.wildcard => Matches("month", d.month)
         /\ fields.dom.wildcard => Matches("dom", d.day)
         /\ fields.dow.wildcard => Matches("dow", d.weekday)
         /\ fields.dom.wildcard \/ fields.dow.wildcard
<1>1. "month" \in Names /\ "dom" \in Names /\ "dow" \in Names  BY DEF Names
<1>2. /\ d.n \in Nat /\ d.month \in 1..12 /\ d.weekday \in 0..6
      /\ d.length \in 28..31 /\ d.day \in 1..d.length
  BY DEF Legal, LegalCalendar
<1>3. d.day \in 1..31 /\ d.length <= 31  BY <1>2
<1>4. d.month \in Values("month") /\ d.day \in Values("dom")
      /\ d.weekday \in Values("dow")
  BY <1>2, <1>3 DEF Values
<1>5. /\ d.month \in fields.month.values <=> Matches("month", d.month)
      /\ d.day \in fields.dom.values <=> Matches("dom", d.day)
      /\ d.weekday \in fields.dow.values <=> Matches("dow", d.weekday)
  BY <1>1, <1>4, FieldValues
<1>6. /\ fields.month.wildcard => Matches("month", d.month)
      /\ fields.dom.wildcard => Matches("dom", d.day)
      /\ fields.dow.wildcard => Matches("dow", d.weekday)
  BY <1>1, <1>4, StarMatches, Wildcards
<1>7. QED  BY <1>2, <1>3, <1>5, <1>6 DEF TwoDayRules

LEMMA NamedDays ==
  ASSUME Parsed, ~TwoDayRules, Legal, NEW d \in Days
  PROVE  /\ Months[d.month] \in MonthsOf(fields.month.values)
              <=> Matches("month", d.month)
         /\ Weekdays[d.weekday + 1] \in WeekdaysOf(fields.dow.values)
              <=> Matches("dow", d.weekday)
<1>1. /\ d.month \in 1..12 /\ d.weekday \in 0..6
      /\ d.month \in fields.month.values <=> Matches("month", d.month)
      /\ d.weekday \in fields.dow.values <=> Matches("dow", d.weekday)
  BY MonthDays
<1>2. fields.month.values \subseteq 1..12 /\ fields.dow.values \subseteq 0..6
  <2>1. "month" \in Names /\ "dow" \in Names  BY DEF Names
  <2>2. QED  BY <2>1, FieldValues DEF Values
<1>3. Months[d.month] \in MonthsOf(fields.month.values)
        <=> d.month \in fields.month.values
  BY <1>1, <1>2, NamesApart DEF MonthsOf
<1>4. Weekdays[d.weekday + 1] \in WeekdaysOf(fields.dow.values)
        <=> d.weekday \in fields.dow.values
  <2>1. \A v \in 0..6 : Weekdays[v + 1] = Weekdays[d.weekday + 1] => v = d.weekday
    <3>1. SUFFICES ASSUME NEW v \in 0..6,
                          Weekdays[v + 1] = Weekdays[d.weekday + 1]
                   PROVE  v = d.weekday
      OBVIOUS
    <3>2. v + 1 \in 1..7 /\ d.weekday + 1 \in 1..7  BY <1>1
    <3>3. v + 1 = d.weekday + 1  BY <3>1, <3>2, NamesApart
    <3>4. QED  BY <1>1, <3>3
  <2>2. QED  BY <1>2, <2>1 DEF WeekdaysOf
<1>5. QED  BY <1>1, <1>3, <1>4

\* Every day of a month is in one of four weeks or in the last one.
LEMMA SomeWeek ==
  ASSUME NEW d, d.day \in 1..31, d.length \in Nat, d.length <= 31
  PROVE  \/ /\ WeekOf(d) \in DOMAIN WeeksOfMonth
            /\ WeeksOfMonth[WeekOf(d)] \in ToSet(WeeksOfMonth)
         \/ d.day + 7 > d.length
<1>1. d.day <= 28 => WeekOf(d) \in 1..4  BY DEF WeekOf
<1>2. DOMAIN WeeksOfMonth = 1..4  BY DEF WeeksOfMonth
<1>3. d.day <= 28 \/ d.day + 7 > d.length  OBVIOUS
<1>4. QED  BY <1>1, <1>2, <1>3 DEF ToSet

\* Every kind of trigger fires on the days of the expression: one of the day
\* fields is a star, which the kind of trigger makes up for.
LEMMA TriggerDays ==
  ASSUME Parsed, ~TwoDayRules, Legal, anchor \in Anchors,
         NEW boundary, NEW d \in Days
  PROVE  /\ CalendarTrigger(boundary).common.start_boundary = Some(boundary)
         /\ Fires(CalendarTrigger(boundary), d)
              <=> d.n >= anchor.day /\ DayMatches(d)
<1> DEFINE t == CalendarTrigger(boundary)
<1>1. /\ d.day \in 1..31 /\ d.n \in Nat /\ d.length <= 31
      /\ d.day \in fields.dom.values <=> Matches("dom", d.day)
      /\ fields.month.wildcard => Matches("month", d.month)
      /\ fields.dom.wildcard => Matches("dom", d.day)
      /\ fields.dow.wildcard => Matches("dow", d.weekday)
      /\ fields.dom.wildcard \/ fields.dow.wildcard
  BY MonthDays
<1>2. /\ Months[d.month] \in MonthsOf(fields.month.values)
           <=> Matches("month", d.month)
      /\ Weekdays[d.weekday + 1] \in WeekdaysOf(fields.dow.values)
           <=> Matches("dow", d.weekday)
  BY NamedDays
<1>3. anchor.day \in Nat /\ d.length \in Nat  BY DEF Legal, LegalCalendar
<1>4. CASE fields.dom.wildcard /\ fields.dow.wildcard /\ fields.month.wildcard
  <2>1. t = DailyTrigger(boundary)  BY <1>4 DEF CalendarTrigger
  <2>2. /\ t.kind = "ScheduleByDay" /\ t.days_interval = 1
        /\ t.common.start_boundary = Some(boundary)
    BY <2>1 DEF DailyTrigger, StartingAt, TriggerCommon
  <2> HIDE DEF t
  <2>3. Fires(t, d) <=> d.n >= anchor.day
    BY <1>1, <1>3, <2>2 DEF Fires
  <2>4. DayMatches(d)  BY <1>1, <1>4 DEF DayMatches
  <2>5. QED  BY <2>2, <2>3, <2>4 DEF t
<1>5. CASE ~fields.dow.wildcard /\ fields.month.wildcard
  <2>1. t = WeeklyTrigger(boundary, WeekdaysOf(fields.dow.values))
    BY <1>5 DEF CalendarTrigger
  <2>2. /\ t.kind = "ScheduleByWeek" /\ t.weeks_interval = 1
        /\ t.days_of_week = WeekdaysOf(fields.dow.values)
        /\ t.common.start_boundary = Some(boundary)
    BY <2>1 DEF WeeklyTrigger, StartingAt, TriggerCommon
  <2> HIDE DEF t
  <2>3. Fires(t, d) <=>
          d.n >= anchor.day /\ Weekdays[d.weekday + 1] \in t.days_of_week
    BY <2>2 DEF Fires
  <2>4. DayMatches(d) <=> Matches("dow", d.weekday)
    BY <1>1, <1>5 DEF DayMatches
  <2>5. QED  BY <1>2, <2>2, <2>3, <2>4 DEF t
<1>6. CASE ~fields.dow.wildcard /\ ~fields.month.wildcard
  <2>1. t = MonthlyRule(boundary)  BY <1>6 DEF CalendarTrigger
  <2>2. /\ t.kind = "ScheduleByMonthDayOfWeek"
        /\ t.months = MonthsOf(fields.month.values)
        /\ t.days_of_week = WeekdaysOf(fields.dow.values)
        /\ t.weeks_of_month = ToSet(WeeksOfMonth) /\ t.run_on_last_week = TRUE
        /\ t.common.start_boundary = Some(boundary)
    BY <2>1 DEF MonthlyRule, MonthlyDowTrigger, StartingAt, TriggerCommon
  <2> HIDE DEF t
  <2>3. \/ /\ WeekOf(d) \in DOMAIN WeeksOfMonth
           /\ WeeksOfMonth[WeekOf(d)] \in ToSet(WeeksOfMonth)
        \/ d.day + 7 > d.length
    BY <1>1, <1>3, SomeWeek
  <2>4. Fires(t, d) <=>
          /\ d.n >= anchor.day
          /\ Months[d.month] \in t.months
          /\ Weekdays[d.weekday + 1] \in t.days_of_week
    BY <2>2, <2>3 DEF Fires
  <2>5. DayMatches(d) <=> Matches("month", d.month) /\ Matches("dow", d.weekday)
    BY <1>1, <1>6 DEF DayMatches
  <2>6. QED  BY <1>2, <2>2, <2>4, <2>5 DEF t
<1>7. CASE fields.dow.wildcard
             /\ ~(fields.dom.wildcard /\ fields.month.wildcard)
  <2>1. t = MonthlyTrigger(boundary, fields.dom.values,
                           MonthsOf(fields.month.values))
    BY <1>7 DEF CalendarTrigger
  <2>2. /\ t.kind = "ScheduleByMonth"
        /\ t.months = MonthsOf(fields.month.values)
        /\ t.days_of_month = fields.dom.values
        /\ t.common.start_boundary = Some(boundary)
    BY <2>1 DEF MonthlyTrigger, StartingAt, TriggerCommon
  <2> HIDE DEF t
  <2>3. Fires(t, d) <=>
          /\ d.n >= anchor.day
          /\ Months[d.month] \in t.months /\ d.day \in t.days_of_month
    BY <2>2 DEF Fires
  <2>4. DayMatches(d) <=> Matches("month", d.month) /\ Matches("dom", d.day)
    BY <1>1, <1>7 DEF DayMatches
  <2>5. QED  BY <1>1, <1>2, <2>2, <2>3, <2>4 DEF t
<1>8. QED
  <2>1. \/ fields.dom.wildcard /\ fields.dow.wildcard /\ fields.month.wildcard
        \/ ~fields.dow.wildcard /\ fields.month.wildcard
        \/ ~fields.dow.wildcard /\ ~fields.month.wildcard
        \/ /\ fields.dow.wildcard
           /\ ~(fields.dom.wildcard /\ fields.month.wildcard)
    OBVIOUS
  <2>2. QED  BY <2>1, <1>4, <1>5, <1>6, <1>7

-----------------------------------------------------------------------------
\* The triggers of compile; boundaries differ where times do, since no two
\* moments are written alike.
LEMMA TriggersWritten ==
  ASSUME Parsed, ~TwoDayRules, Legal, anchor \in Anchors, NEW ts,
         ts = [i \in DOMAIN Times |-> CalendarTrigger(BoundaryAt(Times[i]))]
  PROVE  RunsAsWritten(ts)
<1>1. DOMAIN ts = DOMAIN Times  OBVIOUS
<1>2. \A i \in DOMAIN ts : ts[i] = CalendarTrigger(BoundaryAt(Times[i]))
  BY <1>1
<1>3. \A i \in DOMAIN ts : \A d \in Days :
        Fires(ts[i], d) <=> d.n >= anchor.day /\ DayMatches(d)
  BY <1>2, TriggerDays
<1>4. \A i \in DOMAIN ts :
        ts[i].common.start_boundary = Some(BoundaryAt(Times[i]))
  <2>1. \A b : CalendarTrigger(b).common.start_boundary = Some(b)
    BY DEF CalendarTrigger, DailyTrigger, WeeklyTrigger, MonthlyRule,
           MonthlyDowTrigger, MonthlyTrigger, StartingAt, TriggerCommon
  <2>2. QED  BY <1>2, <2>1
<1>5. {ts[i].common.start_boundary : i \in DOMAIN ts} =
        {Some(BoundaryAt(time)) : time \in Wanted}
  BY <1>1, <1>4, TimesListed
<1>6. \A i, j \in DOMAIN ts :
        ts[i].common.start_boundary = ts[j].common.start_boundary => i = j
  <2>1. SUFFICES ASSUME NEW i \in DOMAIN Times, NEW j \in DOMAIN Times,
                        Some(BoundaryAt(Times[i])) = Some(BoundaryAt(Times[j]))
                 PROVE  i = j
    BY <1>1, <1>4
  <2>2. BoundaryAt(Times[i]) = BoundaryAt(Times[j])  BY <2>1 DEF Some
  <2>3. Times[i] \in TimesOfDay /\ Times[j] \in TimesOfDay
    BY TimesListed DEF Wanted
  <2>4. /\ <<anchor.day, Times[i]>> \in DOMAIN DateTexts
        /\ <<anchor.day, Times[j]>> \in DOMAIN DateTexts
    BY <2>3 DEF Legal, LegalCalendar
  <2>5. <<anchor.day, Times[i]>> = <<anchor.day, Times[j]>>
    BY <2>2, <2>4 DEF BoundaryAt, Legal, LegalCalendar, IsInjective
  <2>6. QED  BY <2>5, TimesListed
<1>7. QED  BY <1>3, <1>5, <1>6 DEF RunsAsWritten, Wanted

-----------------------------------------------------------------------------
(***************************************************************************)
(* The invariant.                                                          *)
(***************************************************************************)
\* What parse leaves to compile, and what the two answer.
ScheduleInv ==
  /\ expression \in Expressions /\ anchor \in Anchors
  /\ pc = "parsed" => Parsed
  /\ CompiledAsWritten /\ RefusalExplained

\* What the properties say of triggers depends on the expression and the anchor.
LEMMA SameMeaning ==
  ASSUME UNCHANGED <<expression, anchor>>, RunsAsWritten(triggers')
  PROVE  RunsAsWritten(triggers)'
<1>1. expression' = expression /\ anchor' = anchor  OBVIOUS
<1>2. \A time : TimeMatches(time)' <=> TimeMatches(time)
  BY <1>1 DEF TimeMatches, Matches
<1>3. ({Some(BoundaryAt(time)) : time \in {m \in TimesOfDay : TimeMatches(m)}})' =
        {Some(BoundaryAt(time)) : time \in {m \in TimesOfDay : TimeMatches(m)}}
  BY <1>1, <1>2 DEF BoundaryAt, TimeMatches, Matches
<1>4. ASSUME NEW d \in Days, NEW i \in DOMAIN triggers'
      PROVE  (Fires(triggers[i], d) <=> d.n >= anchor.day /\ DayMatches(d))'
  <2>1. Fires(triggers'[i], d) <=> d.n >= anchor.day /\ DayMatches(d)
    BY DEF RunsAsWritten
  <2>2. DayMatches(d)' <=> DayMatches(d)  BY <1>1 DEF DayMatches, Matches
  <2>3. Fires(triggers[i], d)' <=> Fires(triggers'[i], d)  BY <1>1 DEF Fires
  <2>4. QED  BY <1>1, <2>1, <2>2, <2>3
<1>5. QED  BY <1>3, <1>4 DEF RunsAsWritten

LEMMA ParseKeeps == Legal /\ ScheduleInv /\ Parse => ScheduleInv'
<1> SUFFICES ASSUME Legal, ScheduleInv, Parse PROVE ScheduleInv'  OBVIOUS
<1>1. /\ UNCHANGED <<expression, anchor>> /\ pc' \in {"parsed", "invalid"}
      /\ pc' = "parsed" =>
           Accepted /\ fields' = [name \in Names |-> FieldOf(name, expression[name])]
  BY DEF Parse
<1>2. expression \in [Names -> Seq(Part)]
  BY DEF ScheduleInv, Legal, LegalExpressions
<1>3. pc' = "parsed" => Parsed'  BY <1>1, <1>2 DEF Parsed, Accepted
<1>4. QED
  BY <1>1, <1>3 DEF ScheduleInv, CompiledAsWritten, RefusalExplained

LEMMA CompileKeeps == Legal /\ ScheduleInv /\ Compile => ScheduleInv'
<1> SUFFICES ASSUME Legal, ScheduleInv, Compile PROVE ScheduleInv'  OBVIOUS
<1>1. /\ pc = "parsed" /\ UNCHANGED <<expression, fields, anchor>>
      /\ expression \in Expressions /\ anchor \in Anchors /\ Parsed
  BY DEF Compile, ScheduleInv
<1>2. /\ pc' \in {"compiled", "refused", "invalid"}
      /\ pc' = "refused" => TwoDayRules \/ TooManyTimes
      /\ pc' = "compiled" =>
           /\ ~TwoDayRules
           /\ triggers' = [i \in DOMAIN Times |->
                             CalendarTrigger(BoundaryAt(Times[i]))]
  <2>1. CASE TwoDayRules  BY <2>1 DEF Compile
  <2>2. CASE ~TwoDayRules /\ ~anchor.separated  BY <2>2 DEF Compile
  <2>3. CASE ~TwoDayRules /\ anchor.separated /\ TooManyTimes  BY <2>3 DEF Compile
  <2>4. CASE ~TwoDayRules /\ anchor.separated /\ ~TooManyTimes  BY <2>4 DEF Compile
  <2>5. QED  BY <2>1, <2>2, <2>3, <2>4
<1>3. CompiledAsWritten'
  <2>1. SUFFICES ASSUME pc' = "compiled" PROVE RunsAsWritten(triggers)'
    BY DEF CompiledAsWritten
  <2>2. RunsAsWritten(triggers')  BY <1>1, <1>2, <2>1, TriggersWritten
  <2>3. QED  BY <1>1, <2>2, SameMeaning
<1>4. RefusalExplained'
  <2>1. SUFFICES ASSUME pc' = "refused" PROVE RefusalExplained'
    BY DEF RefusalExplained
  <2>2. CASE TwoDayRules
    <3>1. "dom" \in Names /\ "dow" \in Names  BY DEF Names
    <3>2. expression.dom /= <<Star>> /\ expression.dow /= <<Star>>
      BY <1>1, <2>2, <3>1, Wildcards DEF TwoDayRules
    <3>3. QED  BY <1>1, <3>2 DEF RefusalExplained
  <2>3. CASE TooManyTimes
    <3>1. Cardinality(Wanted) > MaxTriggers
      BY <1>1, <2>3, MomentsOfTimes DEF TooManyTimes
    <3>2. Cardinality({time \in TimesOfDay : TimeMatches(time)}) > MaxTriggers
      BY <3>1 DEF Wanted
    <3>3. QED  BY <1>1, <3>2 DEF RefusalExplained, TimeMatches, Matches
  <2>4. QED  BY <1>2, <2>1, <2>2, <2>3
<1>5. QED  BY <1>1, <1>2, <1>3, <1>4 DEF ScheduleInv

LEMMA ScheduleStays == ScheduleInv /\ UNCHANGED scheduleVars => ScheduleInv'
<1> SUFFICES ASSUME ScheduleInv, UNCHANGED scheduleVars PROVE ScheduleInv'  OBVIOUS
<1>1. UNCHANGED <<pc, expression, fields, anchor, triggers>>  BY DEF scheduleVars
<1>2. Parsed => Parsed'  BY <1>1 DEF Parsed, Accepted
<1>3. CompiledAsWritten'
  <2>1. SUFFICES ASSUME pc' = "compiled" PROVE RunsAsWritten(triggers)'
    BY DEF CompiledAsWritten
  <2>2. RunsAsWritten(triggers)
    BY <1>1, <2>1 DEF ScheduleInv, CompiledAsWritten
  <2>3. RunsAsWritten(triggers')  BY <1>1, <2>2
  <2>4. QED  BY <1>1, <2>3, SameMeaning
<1>4. RefusalExplained'
  BY <1>1 DEF ScheduleInv, RefusalExplained, TimeMatches, Matches
<1>5. QED  BY <1>1, <1>2, <1>3, <1>4 DEF ScheduleInv

LEMMA ScheduleKeeps == ASSUME Legal PROVE ScheduleSpec => []ScheduleInv
<1>1. ScheduleInit => ScheduleInv
  BY DEF ScheduleInit, ScheduleInv, CompiledAsWritten, RefusalExplained
<1>2. ScheduleInv /\ [ScheduleNext]_scheduleVars => ScheduleInv'
  BY ParseKeeps, CompileKeeps, ScheduleStays DEF ScheduleNext
<1>3. QED  BY <1>1, <1>2, PTL DEF ScheduleSpec

(* What compile returns runs the task at the times and on the days that the *)
(* expression names, each once, whatever the parts of its fields: steps that *)
(* do not divide a range, overlapping parts, both numbers of Sunday, short   *)
(* months, fifth weeks.                                                      *)
THEOREM CompiledExactly == ASSUME Legal PROVE ScheduleSpec => []CompiledAsWritten
<1>1. ScheduleInv => CompiledAsWritten  BY DEF ScheduleInv
<1>2. QED  BY <1>1, ScheduleKeeps, PTL

(* An expression is refused only when both day fields are restricted or it   *)
(* names more times of the day than a task has triggers.                     *)
THEOREM RefusalsHaveCause == ASSUME Legal PROVE ScheduleSpec => []RefusalExplained
<1>1. ScheduleInv => RefusalExplained  BY DEF ScheduleInv
<1>2. QED  BY <1>1, ScheduleKeeps, PTL

-----------------------------------------------------------------------------
(***************************************************************************)
(* The reader.                                                             *)
(***************************************************************************)
\* Nothing is assumed of what a lexer may hand over.
Bounds == [max_bytes : Nat, max_depth : Nat, max_nodes : Nat]

\* A reader that is handed one document after another; TaskXml opens and
\* reads in no other way.
ReaderInit ==
  \E events : IsList(events) /\ \E bounds \in Bounds : Closed(events, bounds)

Reopen == \E events : IsList(events) /\ \E bounds \in Bounds : Open(events, bounds)

ReaderSpec == ReaderInit /\ [][Read \/ Reopen]_readerVars

-----------------------------------------------------------------------------
(***************************************************************************)
(* A prefix of a document, by the numbers of its events.                   *)
(***************************************************************************)
ElementKinds == {"start", "empty"}

Count(t, kinds, k) == Cardinality({j \in 1..k : t[j].kind \in kinds})
Opens(t, k) == Count(t, {"start"}, k) - Count(t, {"end"}, k)
Tops(t, k) == {j \in 1..k : t[j].kind \in ElementKinds /\ Opens(t, j - 1) = 0}

\* What a well formed document says of its k-th event.
Sound(t, l, k) ==
  /\ Count(t, {"end"}, k) <= Count(t, {"start"}, k)
  /\ t[k].kind \notin {"illegal", "doctype", "malformed"}
  /\ t[k].kind \in {"text", "reference"} => Opens(t, k) > 0
  /\ t[k].kind \in ElementKinds => Opens(t, k - 1) < l.max_depth

Whole(t, l) ==
  /\ Cardinality(Tops(t, Len(t))) = 1
  /\ Opens(t, Len(t)) = 0
  /\ \A k \in 1..Len(t) : Sound(t, l, k)
  /\ Count(t, ElementKinds, Len(t)) <= l.max_nodes
  /\ Len(t) <= l.max_bytes

LEMMA WholeIsWellFormed ==
  ASSUME IsList(text)
  PROVE  WellFormed <=> Whole(text, limits)
<1>1. DOMAIN text = 1..Len(text)  BY ListParts
<1>2. /\ TopLevel = Tops(text, Len(text))
      /\ \A k : OpenAfter(k) = Opens(text, k)
      /\ \A k, kinds : CountOf(kinds, k) = Count(text, kinds, k)
  BY <1>1 DEF TopLevel, Tops, OpenAfter, Opens, CountOf, Count, ElementKinds
<1>3. QED  BY <1>1, <1>2 DEF WellFormed, Whole, Sound, ElementKinds

\* One event more.
LEMMA Kinds ==
  /\ "start" \in ElementKinds /\ "empty" \in ElementKinds /\ "end" \notin ElementKinds
  /\ \A kind : kind \in ElementKinds => kind \notin {"end", "text", "reference"}
BY DEF ElementKinds

LEMMA CountOn ==
  ASSUME NEW t, NEW kinds, NEW k \in Nat
  PROVE  /\ Count(t, kinds, k) \in Nat
         /\ Count(t, kinds, k + 1) =
              Count(t, kinds, k) + (IF t[k + 1].kind \in kinds THEN 1 ELSE 0)
<1> DEFINE S(n) == {j \in 1..n : t[j].kind \in kinds}
<1>1. S(k) \subseteq 1..k /\ IsFiniteSet(1..k)  BY FS_Interval
<1>2. IsFiniteSet(S(k)) /\ Cardinality(S(k)) \in Nat
  BY <1>1, FS_Subset, FS_CardinalityType
<1>3. k + 1 \notin S(k) /\ k + 1 \in 1..(k + 1)  OBVIOUS
<1>0. Count(t, kinds, k) = Cardinality(S(k))
      /\ Count(t, kinds, k + 1) = Cardinality(S(k + 1))
  BY DEF Count
<1>4. CASE t[k + 1].kind \in kinds
  <2>1. S(k + 1) = S(k) \union {k + 1}  BY <1>4
  <2>2. Cardinality(S(k) \union {k + 1}) = Cardinality(S(k)) + 1
    BY <1>2, <1>3, FS_AddElement
  <2>3. QED  BY <1>0, <1>2, <1>4, <2>1, <2>2
<1>5. CASE t[k + 1].kind \notin kinds
  <2>1. S(k + 1) = S(k)  BY <1>5
  <2> HIDE DEF S
  <2>2. QED  BY <1>0, <1>2, <1>5, <2>1
<1>6. QED  BY <1>4, <1>5

LEMMA CountGrows ==
  ASSUME NEW t, NEW kinds, NEW k \in Nat, NEW n \in Nat, k <= n
  PROVE  Count(t, kinds, k) <= Count(t, kinds, n)
<1> DEFINE S(m) == {j \in 1..m : t[j].kind \in kinds}
<1>1. S(n) \subseteq 1..n /\ IsFiniteSet(1..n)  BY FS_Interval
<1>2. IsFiniteSet(S(n))  BY <1>1, FS_Subset
<1>3. S(k) \subseteq S(n)  OBVIOUS
<1>4. Cardinality(S(k)) <= Cardinality(S(n))  BY <1>2, <1>3, FS_Subset
<1>5. QED  BY <1>4 DEF Count

LEMMA OpensOn ==
  ASSUME NEW t, NEW k \in Nat
  PROVE  /\ Opens(t, k) \in Int
         /\ t[k + 1].kind = "start" => Opens(t, k + 1) = Opens(t, k) + 1
         /\ t[k + 1].kind = "end" => Opens(t, k + 1) = Opens(t, k) - 1
         /\ t[k + 1].kind \notin {"start", "end"} => Opens(t, k + 1) = Opens(t, k)
BY CountOn DEF Opens

LEMMA TopsOn ==
  ASSUME NEW t, NEW k \in Nat
  PROVE  /\ IsFiniteSet(Tops(t, k)) /\ Cardinality(Tops(t, k)) \in Nat
         /\ Cardinality(Tops(t, k + 1)) =
              Cardinality(Tops(t, k))
                + (IF t[k + 1].kind \in ElementKinds /\ Opens(t, k) = 0 THEN 1 ELSE 0)
<1>1. Tops(t, k) \subseteq 1..k /\ IsFiniteSet(1..k)  BY FS_Interval DEF Tops
<1>2. IsFiniteSet(Tops(t, k)) /\ Cardinality(Tops(t, k)) \in Nat
  BY <1>1, FS_Subset, FS_CardinalityType
<1>3. k + 1 \notin Tops(t, k) /\ k + 1 \in 1..(k + 1) /\ (k + 1) - 1 = k
  BY DEF Tops
<1>4. CASE t[k + 1].kind \in ElementKinds /\ Opens(t, k) = 0
  <2>1. Tops(t, k + 1) = Tops(t, k) \union {k + 1}  BY <1>3, <1>4 DEF Tops
  <2>2. Cardinality(Tops(t, k) \union {k + 1}) = Cardinality(Tops(t, k)) + 1
    BY <1>2, <1>3, FS_AddElement
  <2>3. QED  BY <1>2, <1>4, <2>1, <2>2
<1>5. CASE ~(t[k + 1].kind \in ElementKinds /\ Opens(t, k) = 0)
  <2>1. Tops(t, k + 1) = Tops(t, k)  BY <1>3, <1>5 DEF Tops
  <2>2. QED  BY <1>2, <1>5, <2>1
<1>6. QED  BY <1>4, <1>5

LEMMA TopsGrow ==
  ASSUME NEW t, NEW k \in Nat, NEW n \in Nat, k <= n
  PROVE  Cardinality(Tops(t, k)) <= Cardinality(Tops(t, n))
<1>1. Tops(t, k) \subseteq Tops(t, n)  BY DEF Tops
<1>2. QED  BY <1>1, TopsOn, FS_Subset

-----------------------------------------------------------------------------
(***************************************************************************)
(* What the reader knows after a events: d elements are open, r roots are  *)
(* closed, n elements have been counted.                                   *)
(***************************************************************************)
SoFar(t, l, a, d, r, n) ==
  /\ a \in 0..Len(t) /\ d \in Nat /\ r \in {0, 1} /\ n \in Nat
  /\ Len(t) <= l.max_bytes
  /\ Opens(t, a) = d
  /\ Count(t, ElementKinds, a) = n /\ n <= l.max_nodes
  /\ Cardinality(Tops(t, a)) = r + (IF d = 0 THEN 0 ELSE 1)
  /\ \A k \in 1..a : Sound(t, l, k)

LEMMA Begins ==
  ASSUME NEW t, IsList(t), NEW l \in Bounds, Len(t) <= l.max_bytes
  PROVE  SoFar(t, l, 0, 0, 0, 0)
<1>1. \A kinds : Count(t, kinds, 0) = 0
  <2>1. \A kinds : {j \in 1..0 : t[j].kind \in kinds} = {}  OBVIOUS
  <2>2. QED  BY <2>1, FS_EmptySet DEF Count
<1>2. Cardinality(Tops(t, 0)) = 0
  <2>1. Tops(t, 0) = {}  BY DEF Tops
  <2>2. QED  BY <2>1, FS_EmptySet
<1>3. Opens(t, 0) = 0  BY <1>1 DEF Opens
<1>4. Len(t) \in Nat /\ l.max_nodes \in Nat  BY ListParts DEF Bounds
<1>5. QED  BY <1>1, <1>2, <1>3, <1>4 DEF SoFar

\* The next event, whatever the reader makes of it.
LEMMA NextEvent ==
  ASSUME NEW t, IsList(t), NEW l \in Bounds, NEW a, NEW d, NEW r, NEW n,
         SoFar(t, l, a, d, r, n), a < Len(t)
  PROVE  /\ a \in Nat /\ a + 1 \in 1..Len(t) /\ Len(t) \in Nat
         /\ d \in Nat /\ r \in {0, 1} /\ n \in Nat
         /\ Opens(t, a) = d /\ Opens(t, a + 1) \in Int
         /\ (a + 1) - 1 = a
         /\ l.max_bytes \in Nat /\ l.max_depth \in Nat /\ l.max_nodes \in Nat
<1>1. Len(t) \in Nat  BY ListParts
<1>2. a \in 0..Len(t) /\ d \in Nat /\ r \in {0, 1} /\ n \in Nat /\ Opens(t, a) = d
  BY DEF SoFar
<1>3. a \in Nat /\ a + 1 \in Nat  BY <1>1, <1>2
<1>4. Opens(t, a + 1) \in Int  BY <1>3, OpensOn
<1>5. QED  BY <1>1, <1>2, <1>3, <1>4 DEF Bounds

\* What it does to the numbers.
LEMMA NextNumbers ==
  ASSUME NEW t, IsList(t), NEW l \in Bounds, NEW a, NEW d, NEW r, NEW n,
         SoFar(t, l, a, d, r, n), a < Len(t)
  PROVE  LET kind == t[a + 1].kind
         IN  /\ Opens(t, a + 1) = d + (IF kind = "start" THEN 1 ELSE 0)
                                    - (IF kind = "end" THEN 1 ELSE 0)
             /\ Count(t, ElementKinds, a + 1) =
                  n + (IF kind \in ElementKinds THEN 1 ELSE 0)
             /\ Cardinality(Tops(t, a + 1)) =
                  r + (IF d = 0 /\ kind \notin ElementKinds THEN 0 ELSE 1)
             /\ Count(t, {"end"}, a + 1) <= Count(t, {"start"}, a + 1)
                  <=> Opens(t, a + 1) >= 0
<1> DEFINE kind == t[a + 1].kind
<1>1. /\ a \in Nat /\ a + 1 \in Nat /\ d \in Nat /\ r \in {0, 1} /\ n \in Nat
      /\ Opens(t, a) = d
  BY NextEvent
<1>2. /\ Count(t, ElementKinds, a) = n
      /\ Cardinality(Tops(t, a)) = r + (IF d = 0 THEN 0 ELSE 1)
  BY DEF SoFar
<1>3. /\ kind = "start" => Opens(t, a + 1) = d + 1
      /\ kind = "end" => Opens(t, a + 1) = d - 1
      /\ kind \notin {"start", "end"} => Opens(t, a + 1) = d
  BY <1>1, OpensOn
<1>4. Count(t, ElementKinds, a + 1) =
        Count(t, ElementKinds, a) + (IF kind \in ElementKinds THEN 1 ELSE 0)
  <2>1. \A k \in Nat : \A kinds :
          Count(t, kinds, k + 1) =
            Count(t, kinds, k) + (IF t[k + 1].kind \in kinds THEN 1 ELSE 0)
    BY CountOn
  <2>2. QED  BY <1>1, <2>1, Zenon
<1>5. Cardinality(Tops(t, a + 1)) =
        Cardinality(Tops(t, a)) + (IF kind \in ElementKinds /\ d = 0 THEN 1 ELSE 0)
  BY <1>1, TopsOn
<1>6. Count(t, {"end"}, a + 1) \in Nat /\ Count(t, {"start"}, a + 1) \in Nat
  <2>1. \A k \in Nat : \A kinds : Count(t, kinds, k) \in Nat  BY CountOn
  <2>2. QED  BY <1>1, <2>1
<1> HIDE DEF kind
<1>7. Opens(t, a + 1) = d + (IF kind = "start" THEN 1 ELSE 0)
                          - (IF kind = "end" THEN 1 ELSE 0)
  BY <1>1, <1>3
<1>8. Count(t, ElementKinds, a + 1) = n + (IF kind \in ElementKinds THEN 1 ELSE 0)
  BY <1>2, <1>4
<1>9. Cardinality(Tops(t, a + 1)) =
        r + (IF d = 0 /\ kind \notin ElementKinds THEN 0 ELSE 1)
  BY <1>1, <1>2, <1>5
<1>10. Count(t, {"end"}, a + 1) <= Count(t, {"start"}, a + 1)
         <=> Opens(t, a + 1) >= 0
  BY <1>6 DEF Opens
<1>11. QED  BY <1>7, <1>8, <1>9, <1>10 DEF kind

\* What is sound up to here, with an event that is, is sound up to there.
LEMMA SoundOn ==
  ASSUME NEW t, IsList(t), NEW l \in Bounds, NEW a, NEW d, NEW r, NEW n,
         SoFar(t, l, a, d, r, n), a < Len(t), Sound(t, l, a + 1)
  PROVE  \A k \in 1..(a + 1) : Sound(t, l, k)
<1>1. a \in Nat  BY NextEvent
<1>2. \A k \in 1..a : Sound(t, l, k)  BY DEF SoFar
<1>3. QED  BY <1>1, <1>2

\* An element is opened.
LEMMA GoStart ==
  ASSUME NEW t, IsList(t), NEW l \in Bounds, NEW a, NEW d, NEW r, NEW n,
         SoFar(t, l, a, d, r, n), a < Len(t), t[a + 1].kind = "start",
         n + 1 <= l.max_nodes, d < l.max_depth
  PROVE  SoFar(t, l, a + 1, d + 1, r, n + 1)
<1>1. /\ a \in Nat /\ a + 1 \in 1..Len(t) /\ Len(t) \in Nat /\ (a + 1) - 1 = a
      /\ d \in Nat /\ r \in {0, 1} /\ n \in Nat /\ Opens(t, a) = d
  BY NextEvent
<1>2. Len(t) <= l.max_bytes /\ n <= l.max_nodes  BY DEF SoFar
<1>3. Opens(t, a + 1) = d + 1  BY <1>1, NextNumbers, Kinds
<1>4. Count(t, ElementKinds, a + 1) = n + 1  BY <1>1, NextNumbers, Kinds
<1>5. Cardinality(Tops(t, a + 1)) =
        r + (IF d + 1 = 0 THEN 0 ELSE 1)
  BY <1>1, NextNumbers, Kinds
<1>6. Sound(t, l, a + 1)
  <2>1. Count(t, {"end"}, a + 1) <= Count(t, {"start"}, a + 1)
    BY <1>1, <1>3, NextNumbers
  <2>2. QED  BY <1>1, <1>3, <2>1, Kinds DEF Sound
<1>7. /\ a + 1 \in 0..Len(t) /\ d + 1 \in Nat /\ n + 1 \in Nat
      /\ r \in {0, 1}
  BY <1>1
<1>8. \A k \in 1..(a + 1) : Sound(t, l, k)  BY <1>6, SoundOn
<1>9. QED  BY <1>2, <1>3, <1>4, <1>5, <1>7, <1>8 DEF SoFar

\* An element without content; one that is a root is closed at once.
LEMMA GoEmpty ==
  ASSUME NEW t, IsList(t), NEW l \in Bounds, NEW a, NEW d, NEW r, NEW n,
         SoFar(t, l, a, d, r, n), a < Len(t), t[a + 1].kind = "empty",
         n + 1 <= l.max_nodes, d < l.max_depth, d /= 0 \/ r = 0
  PROVE  SoFar(t, l, a + 1, d, IF d = 0 THEN 1 ELSE r, n + 1)
<1>1. /\ a \in Nat /\ a + 1 \in 1..Len(t) /\ Len(t) \in Nat /\ (a + 1) - 1 = a
      /\ d \in Nat /\ r \in {0, 1} /\ n \in Nat /\ Opens(t, a) = d
  BY NextEvent
<1>2. Len(t) <= l.max_bytes /\ n <= l.max_nodes  BY DEF SoFar
<1>3. Opens(t, a + 1) = d  BY <1>1, NextNumbers, Kinds
<1>4. Count(t, ElementKinds, a + 1) = n + 1  BY <1>1, NextNumbers, Kinds
<1>5. Cardinality(Tops(t, a + 1)) =
        (IF d = 0 THEN 1 ELSE r) + (IF d = 0 THEN 0 ELSE 1)
  BY <1>1, NextNumbers, Kinds
<1>6. Sound(t, l, a + 1)
  <2>1. Count(t, {"end"}, a + 1) <= Count(t, {"start"}, a + 1)
    BY <1>1, <1>3, NextNumbers
  <2>2. QED  BY <1>1, <1>3, <2>1, Kinds DEF Sound
<1>7. /\ a + 1 \in 0..Len(t) /\ d \in Nat /\ n + 1 \in Nat
      /\ (IF d = 0 THEN 1 ELSE r) \in {0, 1}
  BY <1>1
<1>8. \A k \in 1..(a + 1) : Sound(t, l, k)  BY <1>6, SoundOn
<1>9. QED  BY <1>2, <1>3, <1>4, <1>5, <1>7, <1>8 DEF SoFar

\* An element is closed; the last open one is a root.
LEMMA GoEnd ==
  ASSUME NEW t, IsList(t), NEW l \in Bounds, NEW a, NEW d, NEW r, NEW n,
         SoFar(t, l, a, d, r, n), a < Len(t), t[a + 1].kind = "end",
         d /= 0, d /= 1 \/ r = 0
  PROVE  SoFar(t, l, a + 1, d - 1, IF d = 1 THEN 1 ELSE r, n)
<1>1. /\ a \in Nat /\ a + 1 \in 1..Len(t) /\ Len(t) \in Nat /\ (a + 1) - 1 = a
      /\ d \in Nat /\ r \in {0, 1} /\ n \in Nat /\ Opens(t, a) = d
  BY NextEvent
<1>2. Len(t) <= l.max_bytes /\ n <= l.max_nodes  BY DEF SoFar
<1>3. Opens(t, a + 1) = d - 1  BY <1>1, NextNumbers, Kinds
<1>4. Count(t, ElementKinds, a + 1) = n  BY <1>1, NextNumbers, Kinds
<1>5. Cardinality(Tops(t, a + 1)) =
        (IF d = 1 THEN 1 ELSE r) + (IF d - 1 = 0 THEN 0 ELSE 1)
  BY <1>1, NextNumbers, Kinds
<1>6. Sound(t, l, a + 1)
  <2>1. Count(t, {"end"}, a + 1) <= Count(t, {"start"}, a + 1)
    BY <1>1, <1>3, NextNumbers
  <2>2. QED  BY <1>1, <1>3, <2>1, Kinds DEF Sound
<1>7. /\ a + 1 \in 0..Len(t) /\ d - 1 \in Nat /\ n \in Nat
      /\ (IF d = 1 THEN 1 ELSE r) \in {0, 1}
  BY <1>1
<1>8. \A k \in 1..(a + 1) : Sound(t, l, k)  BY <1>6, SoundOn
<1>9. QED  BY <1>2, <1>3, <1>4, <1>5, <1>7, <1>8 DEF SoFar

\* Anything else changes no number.
LEMMA GoOn ==
  ASSUME NEW t, IsList(t), NEW l \in Bounds, NEW a, NEW d, NEW r, NEW n,
         SoFar(t, l, a, d, r, n), a < Len(t),
         t[a + 1].kind \notin ElementKinds \union
           {"start", "end", "illegal", "doctype", "malformed"},
         t[a + 1].kind \in {"text", "reference"} => d /= 0
  PROVE  SoFar(t, l, a + 1, d, r, n)
<1>1. /\ a \in Nat /\ a + 1 \in 1..Len(t) /\ Len(t) \in Nat /\ (a + 1) - 1 = a
      /\ d \in Nat /\ r \in {0, 1} /\ n \in Nat /\ Opens(t, a) = d
  BY NextEvent
<1>2. Len(t) <= l.max_bytes /\ n <= l.max_nodes  BY DEF SoFar
<1>3. Opens(t, a + 1) = d  BY <1>1, NextNumbers, Kinds
<1>4. Count(t, ElementKinds, a + 1) = n  BY <1>1, NextNumbers, Kinds
<1>5. Cardinality(Tops(t, a + 1)) =
        r + (IF d = 0 THEN 0 ELSE 1)
  BY <1>1, NextNumbers, Kinds
<1>6. Sound(t, l, a + 1)
  <2>1. Count(t, {"end"}, a + 1) <= Count(t, {"start"}, a + 1)
    BY <1>1, <1>3, NextNumbers
  <2>2. QED  BY <1>1, <1>3, <2>1, Kinds DEF Sound
<1>7. /\ a + 1 \in 0..Len(t) /\ d \in Nat /\ n \in Nat
      /\ r \in {0, 1}
  BY <1>1
<1>8. \A k \in 1..(a + 1) : Sound(t, l, k)  BY <1>6, SoundOn
<1>9. QED  BY <1>2, <1>3, <1>4, <1>5, <1>7, <1>8 DEF SoFar

\* What the reader refuses is not well formed: too much or too deep, an end
\* with nothing open, something that does not belong outside the root, an
\* event that belongs nowhere, a second root.
LEMMA NotTooMuch ==
  ASSUME NEW t, IsList(t), NEW l \in Bounds, NEW a, NEW d, NEW r, NEW n,
         SoFar(t, l, a, d, r, n), a < Len(t), t[a + 1].kind \in ElementKinds,
         n + 1 > l.max_nodes \/ d >= l.max_depth
  PROVE  ~Whole(t, l)
<1>1. /\ a \in Nat /\ a + 1 \in 1..Len(t) /\ Len(t) \in Nat /\ (a + 1) - 1 = a
      /\ d \in Nat /\ n \in Nat /\ Opens(t, a) = d
      /\ l.max_depth \in Nat /\ l.max_nodes \in Nat
  BY NextEvent
<1>2. CASE n + 1 > l.max_nodes
  <2>1. Count(t, ElementKinds, a + 1) = n + 1  BY <1>1, CountOn DEF SoFar
  <2>2. Count(t, ElementKinds, a + 1) <= Count(t, ElementKinds, Len(t))
    BY <1>1, CountGrows
  <2>3. Count(t, ElementKinds, Len(t)) \in Nat  BY <1>1, CountOn
  <2>4. QED  BY <1>1, <1>2, <2>1, <2>2, <2>3 DEF Whole
<1>3. CASE d >= l.max_depth
  <2>1. ~Sound(t, l, a + 1)  BY <1>1, <1>3 DEF Sound
  <2>2. QED  BY <1>1, <2>1 DEF Whole
<1>4. QED  BY <1>2, <1>3

LEMMA NotOutside ==
  ASSUME NEW t, IsList(t), NEW l \in Bounds, NEW a, NEW r, NEW n,
         SoFar(t, l, a, 0, r, n), a < Len(t),
         t[a + 1].kind \in {"end", "text", "reference"}
  PROVE  ~Whole(t, l)
<1>1. a + 1 \in 1..Len(t)  BY NextEvent
<1>2. /\ t[a + 1].kind = "end" => Opens(t, a + 1) = -1
      /\ t[a + 1].kind \in {"text", "reference"} => Opens(t, a + 1) = 0
      /\ Count(t, {"end"}, a + 1) <= Count(t, {"start"}, a + 1)
           <=> Opens(t, a + 1) >= 0
  BY NextNumbers
<1>3. ~Sound(t, l, a + 1)
  <2>1. CASE t[a + 1].kind = "end"  BY <1>2, <2>1 DEF Sound
  <2>2. CASE t[a + 1].kind \in {"text", "reference"}
    BY <1>2, <2>2 DEF Sound
  <2>3. QED  BY <2>1, <2>2
<1>4. QED  BY <1>1, <1>3 DEF Whole

LEMMA NotIllegal ==
  ASSUME NEW t, IsList(t), NEW l \in Bounds, NEW a, NEW d, NEW r, NEW n,
         SoFar(t, l, a, d, r, n), a < Len(t),
         t[a + 1].kind \in {"illegal", "doctype", "malformed"}
  PROVE  ~Whole(t, l)
<1>1. a + 1 \in 1..Len(t)  BY NextEvent
<1>2. QED  BY <1>1 DEF Whole, Sound

LEMMA NotTwoRoots ==
  ASSUME NEW t, IsList(t), NEW l \in Bounds, NEW a, NEW d, NEW n,
         SoFar(t, l, a, d, 1, n), a < Len(t),
         d /= 0 \/ t[a + 1].kind \in ElementKinds
  PROVE  ~Whole(t, l)
<1>1. /\ a \in Nat /\ a + 1 \in 1..Len(t) /\ Len(t) \in Nat
      /\ d \in Nat /\ Opens(t, a) = d
  BY NextEvent
<1>3. Cardinality(Tops(t, a + 1)) >= 2  BY <1>1, NextNumbers
<1>4. Cardinality(Tops(t, a + 1)) <= Cardinality(Tops(t, Len(t)))
  BY <1>1, TopsGrow
<1>2. a + 1 \in Nat  BY <1>1
<1>5. /\ Cardinality(Tops(t, a + 1)) \in Nat
      /\ Cardinality(Tops(t, Len(t))) \in Nat
  <2>1. \A k \in Nat : Cardinality(Tops(t, k)) \in Nat  BY TopsOn
  <2>2. QED  BY <1>1, <1>2, <2>1
<1>6. QED  BY <1>3, <1>4, <1>5 DEF Whole

LEMMA AtEnd ==
  ASSUME NEW t, IsList(t), NEW l \in Bounds, NEW d, NEW r, NEW n,
         SoFar(t, l, Len(t), d, r, n)
  PROVE  Whole(t, l) <=> d = 0 /\ r = 1
BY DEF SoFar, Whole

-----------------------------------------------------------------------------
(***************************************************************************)
(* The stack.                                                              *)
(***************************************************************************)
Stack(s) == \E A : s \in Seq(A)

LEMMA Pushed ==
  ASSUME NEW s, Stack(s), NEW x
  PROVE  /\ Stack(Append(s, x)) /\ Len(s) \in Nat
         /\ Len(Append(s, x)) = Len(s) + 1
<1>1. PICK A : s \in Seq(A)  BY DEF Stack
<1>2. s \in Seq(A \union {x}) /\ x \in A \union {x}
  <2>1. A \subseteq A \union {x}  OBVIOUS
  <2>2. QED  BY <1>1, <2>1
<1>3. /\ Append(s, x) \in Seq(A \union {x})
      /\ Len(Append(s, x)) = Len(s) + 1 /\ Len(s) \in Nat
  BY <1>2, AppendProperties, LenProperties
<1>4. QED  BY <1>3 DEF Stack

LEMMA Replaced ==
  ASSUME NEW s, Stack(s), s /= <<>>, NEW x
  PROVE  /\ Stack([s EXCEPT ![Len(s)] = x])
         /\ Len([s EXCEPT ![Len(s)] = x]) = Len(s)
<1>1. PICK A : s \in Seq(A)  BY DEF Stack
<1>2. Len(s) \in 1..Len(s) /\ s \in Seq(A \union {x}) /\ x \in A \union {x}
  <2>1. A \subseteq A \union {x}  OBVIOUS
  <2>2. s \in Seq(A \union {x})  BY <1>1, <2>1
  <2>3. Len(s) \in Nat /\ Len(s) /= 0  BY <1>1, LenProperties, EmptySeq
  <2>4. QED  BY <2>2, <2>3
<1>3. [s EXCEPT ![Len(s)] = x] \in Seq(A \union {x})
      /\ Len([s EXCEPT ![Len(s)] = x]) = Len(s)
  BY <1>2, ExceptSeq
<1>4. QED  BY <1>3 DEF Stack

LEMMA Popped ==
  ASSUME NEW s, Stack(s), s /= <<>>
  PROVE  /\ Stack(Front(s)) /\ Len(s) \in Nat /\ Len(s) /= 0
         /\ Len(Front(s)) = Len(s) - 1
<1>1. PICK A : s \in Seq(A)  BY DEF Stack
<1>2. Len(s) \in Nat /\ Len(s) /= 0  BY <1>1, LenProperties, EmptySeq
<1>3. Front(s) \in Seq(A) /\ Len(Front(s)) = Len(s) - 1
  BY <1>1, <1>2, SubSeqProperties DEF Front
<1>4. QED  BY <1>2, <1>3 DEF Stack

LEMMA Bare ==
  ASSUME NEW s, Stack(s)
  PROVE  Len(s) \in Nat /\ (s = <<>> <=> Len(s) = 0)
BY LenProperties, EmptySeq DEF Stack

LEMMA NoElement == Stack(<<>>) /\ Len(<<>>) = 0
BY EmptySeq DEF Stack

-----------------------------------------------------------------------------
(***************************************************************************)
(* The invariant: what is open, closed and counted is what the prefix      *)
(* says, and an answer is the right one.                                   *)
(***************************************************************************)
Roots(r) == IF r = <<>> THEN 0 ELSE 1

Following ==
  outcome = "reading" =>
    /\ Stack(stack)
    /\ SoFar(text, limits, at, Len(stack), Roots(root), nodes)

ReaderInv ==
  /\ IsList(text) /\ limits \in Bounds
  /\ Following /\ AcceptsWellFormed

\* A step that goes on, and one that refuses.
LEMMA GoesOn ==
  ASSUME ReaderInv, UNCHANGED <<text, limits>>, outcome' = "reading",
         Stack(stack'),
         SoFar(text, limits, at', Len(stack'), Roots(root'), nodes')
  PROVE  ReaderInv'
BY DEF ReaderInv, Following, AcceptsWellFormed

LEMMA Answers ==
  ASSUME ReaderInv, UNCHANGED <<text, limits>>,
         outcome' = IF Whole(text, limits) THEN "accepted" ELSE "refused"
  PROVE  ReaderInv'
<1>1. IsList(text) /\ limits \in Bounds  BY DEF ReaderInv
<1>2. WellFormed <=> Whole(text, limits)  BY <1>1, WholeIsWellFormed
<1>3. WellFormed' <=> WellFormed
  BY DEF WellFormed, TopLevel, OpenAfter, CountOf
<1>4. QED  BY <1>1, <1>2, <1>3 DEF ReaderInv, Following, AcceptsWellFormed

LEMMA EventTaken ==
  ASSUME ReaderInv, NEW kind, Taking(kind), Consume
  PROVE  /\ outcome = "reading" /\ at < Len(text) /\ text[at + 1].kind = kind
         /\ at' = at + 1 /\ UNCHANGED <<text, limits>>
         /\ IsList(text) /\ limits \in Bounds
         /\ Stack(stack) /\ Len(stack) \in Nat
         /\ stack = <<>> <=> Len(stack) = 0
         /\ SoFar(text, limits, at, Len(stack), Roots(root), nodes)
BY Bare DEF ReaderInv, Following, Taking, Consume, Event

LEMMA TakesStart == ReaderInv /\ Start => ReaderInv'
<1> SUFFICES ASSUME ReaderInv, Start PROVE ReaderInv'  OBVIOUS
<1> DEFINE d == Len(stack)
<1>1. Taking("start") /\ Consume  BY DEF Start
<1>2. /\ outcome = "reading" /\ at < Len(text) /\ text[at + 1].kind = "start"
      /\ at' = at + 1 /\ UNCHANGED <<text, limits>>
      /\ IsList(text) /\ limits \in Bounds /\ Stack(stack) /\ d \in Nat
      /\ SoFar(text, limits, at, d, Roots(root), nodes)
  BY <1>1, EventTaken
<1>3. nodes \in Nat /\ limits.max_nodes \in Nat /\ limits.max_depth \in Nat
  BY <1>2, NextEvent
<1>4. CASE TooMany
  <2>1. outcome' = "refused"  BY <1>4 DEF Start, Refuse
  <2>2. ~Whole(text, limits)  BY <1>2, <1>4, NotTooMuch, Kinds DEF TooMany
  <2>3. QED  BY <1>2, <2>1, <2>2, Answers
<1>5. CASE ~TooMany
  <2>1. /\ nodes' = nodes + 1 /\ stack' = Append(stack, Node(Event))
        /\ root' = root /\ outcome' = "reading"
    BY <1>2, <1>5 DEF Start
  <2>2. Stack(stack') /\ Len(stack') = d + 1  BY <1>2, <2>1, Pushed
  <2>3. nodes + 1 <= limits.max_nodes /\ d < limits.max_depth
    BY <1>2, <1>3, <1>5 DEF TooMany
  <2>4. SoFar(text, limits, at + 1, d + 1, Roots(root), nodes + 1)
    BY <1>2, <2>3, GoStart
  <2>5. QED  BY <1>2, <2>1, <2>2, <2>4, GoesOn
<1>6. QED  BY <1>4, <1>5

\* A closed element becomes the root, a child, or a second root.
LEMMA Attached ==
  ASSUME NEW node, NEW open, Stack(open), Attach(node, open)
  PROVE  /\ open /= <<>> =>
              /\ Stack(stack') /\ Len(stack') = Len(open)
              /\ root' = root /\ outcome' = outcome
         /\ open = <<>> /\ root = <<>> =>
              stack' = <<>> /\ root' /= <<>> /\ outcome' = outcome
         /\ open = <<>> /\ root /= <<>> => outcome' = "refused"
<1>1. CASE open /= <<>>
  <2> DEFINE n == Len(open)
             x == [open[n] EXCEPT !.kids = Append(@, Finished(node))]
  <2>1. stack' = [open EXCEPT ![n] = x] /\ root' = root /\ outcome' = outcome
    BY <1>1 DEF Attach
  <2> HIDE DEF x
  <2>2. Stack(stack') /\ Len(stack') = Len(open)  BY <1>1, <2>1, Replaced
  <2>3. QED  BY <1>1, <2>1, <2>2
<1>2. CASE open = <<>>  BY <1>2 DEF Attach
<1>3. QED  BY <1>1, <1>2

LEMMA TakesEmpty == ReaderInv /\ Empty => ReaderInv'
<1> SUFFICES ASSUME ReaderInv, Empty PROVE ReaderInv'  OBVIOUS
<1> DEFINE d == Len(stack)
<1>1. Taking("empty") /\ Consume  BY DEF Empty
<1>2. /\ outcome = "reading" /\ at < Len(text) /\ text[at + 1].kind = "empty"
      /\ at' = at + 1 /\ UNCHANGED <<text, limits>>
      /\ IsList(text) /\ limits \in Bounds /\ Stack(stack) /\ d \in Nat
      /\ SoFar(text, limits, at, d, Roots(root), nodes)
      /\ stack = <<>> <=> d = 0
  BY <1>1, EventTaken
<1>3. nodes \in Nat /\ limits.max_nodes \in Nat /\ limits.max_depth \in Nat
  BY <1>2, NextEvent
<1>4. CASE TooMany
  <2>1. outcome' = "refused"  BY <1>4 DEF Empty, Refuse
  <2>2. ~Whole(text, limits)  BY <1>2, <1>4, NotTooMuch, Kinds DEF TooMany
  <2>3. QED  BY <1>2, <2>1, <2>2, Answers
<1>5. CASE ~TooMany
  <2>1. nodes' = nodes + 1 /\ Attach(Node(Event), stack)
    BY <1>5 DEF Empty
  <2>2. /\ stack /= <<>> =>
             /\ Stack(stack') /\ Len(stack') = d
             /\ root' = root /\ outcome' = outcome
        /\ stack = <<>> /\ root = <<>> =>
             stack' = <<>> /\ root' /= <<>> /\ outcome' = outcome
        /\ stack = <<>> /\ root /= <<>> => outcome' = "refused"
    BY <1>2, <2>1, Attached
  <2>3. nodes + 1 <= limits.max_nodes /\ d < limits.max_depth
    BY <1>2, <1>3, <1>5 DEF TooMany
  <2>4. CASE d = 0 /\ root /= <<>>
    <3>1. SoFar(text, limits, at, d, 1, nodes)  BY <1>2, <2>4 DEF Roots
    <3>2. ~Whole(text, limits)  BY <1>2, <3>1, NotTwoRoots, Kinds
    <3>3. QED  BY <1>2, <2>2, <2>4, <3>2, Answers
  <2>5. CASE d = 0 /\ root = <<>>
    <3>1. SoFar(text, limits, at + 1, d, IF d = 0 THEN 1 ELSE 0, nodes + 1)
      BY <1>2, <2>3, <2>5, GoEmpty DEF Roots
    <3>2. stack' = <<>> /\ Roots(root') = 1 /\ outcome' = "reading"
      BY <1>2, <2>2, <2>5 DEF Roots
    <3>3. Stack(stack') /\ Len(stack') = 0  BY <3>2, NoElement
    <3>4. SoFar(text, limits, at + 1, 0, 1, nodes + 1)  BY <2>5, <3>1
    <3>5. QED  BY <1>2, <2>1, <3>2, <3>3, <3>4, GoesOn
  <2>6. CASE d /= 0
    <3>1. SoFar(text, limits, at + 1, d, IF d = 0 THEN 1 ELSE Roots(root), nodes + 1)
      BY <1>2, <2>3, <2>6, GoEmpty
    <3>2. SoFar(text, limits, at + 1, d, Roots(root), nodes + 1)  BY <2>6, <3>1
    <3>3. /\ Stack(stack') /\ Len(stack') = d /\ root' = root
          /\ outcome' = "reading"
      BY <1>2, <2>2, <2>6
    <3>4. QED  BY <1>2, <2>1, <3>2, <3>3, GoesOn
  <2>7. QED  BY <2>4, <2>5, <2>6
<1>6. QED  BY <1>4, <1>5

LEMMA TakesEnd == ReaderInv /\ End => ReaderInv'
<1> SUFFICES ASSUME ReaderInv, End PROVE ReaderInv'  OBVIOUS
<1> DEFINE d == Len(stack)
<1>1. Taking("end") /\ Consume  BY DEF End
<1>2. /\ outcome = "reading" /\ at < Len(text) /\ text[at + 1].kind = "end"
      /\ at' = at + 1 /\ UNCHANGED <<text, limits>>
      /\ IsList(text) /\ limits \in Bounds /\ Stack(stack) /\ d \in Nat
      /\ SoFar(text, limits, at, d, Roots(root), nodes)
      /\ stack = <<>> <=> d = 0
  BY <1>1, EventTaken
<1>3. CASE stack = <<>>
  <2>1. outcome' = "refused"  BY <1>3 DEF End, Refuse
  <2>2. SoFar(text, limits, at, 0, Roots(root), nodes)  BY <1>2, <1>3
  <2>3. ~Whole(text, limits)  BY <1>2, <2>2, NotOutside
  <2>4. QED  BY <1>2, <2>1, <2>3, Answers
<1>4. CASE stack /= <<>>
  <2> DEFINE open == Front(stack)
  <2>1. nodes' = nodes /\ Attach(Top, open)  BY <1>4 DEF End
  <2>2. Stack(open) /\ Len(open) = d - 1 /\ d /= 0  BY <1>2, <1>4, Popped
  <2> HIDE DEF open, d
  <2>3. open = <<>> <=> d = 1
    <3>1. open = <<>> <=> Len(open) = 0  BY <2>2, Bare
    <3>2. d \in Nat  BY <1>2
    <3>3. QED  BY <2>2, <3>1, <3>2
  <2> USE DEF d
  <2>4. /\ open /= <<>> =>
             /\ Stack(stack') /\ Len(stack') = d - 1
             /\ root' = root /\ outcome' = outcome
        /\ open = <<>> /\ root = <<>> =>
             stack' = <<>> /\ root' /= <<>> /\ outcome' = outcome
        /\ open = <<>> /\ root /= <<>> => outcome' = "refused"
    BY <2>1, <2>2, Attached
  <2>5. CASE d = 1 /\ root /= <<>>
    <3>1. SoFar(text, limits, at, d, 1, nodes)  BY <1>2, <2>5 DEF Roots
    <3>2. ~Whole(text, limits)  BY <1>2, <2>5, <3>1, NotTwoRoots
    <3>3. QED  BY <1>2, <2>3, <2>4, <2>5, <3>2, Answers
  <2>6. CASE d = 1 /\ root = <<>>
    <3>1. SoFar(text, limits, at + 1, d - 1, IF d = 1 THEN 1 ELSE 0, nodes)
      BY <1>2, <2>6, GoEnd DEF Roots
    <3>2. stack' = <<>> /\ Roots(root') = 1 /\ outcome' = "reading"
      BY <1>2, <2>3, <2>4, <2>6 DEF Roots
    <3>3. Stack(stack') /\ Len(stack') = 0  BY <3>2, NoElement
    <3>4. SoFar(text, limits, at + 1, 0, 1, nodes)  BY <2>6, <3>1
    <3>5. QED  BY <1>2, <2>1, <3>2, <3>3, <3>4, GoesOn
  <2>7. CASE d /= 1
    <3>1. SoFar(text, limits, at + 1, d - 1, IF d = 1 THEN 1 ELSE Roots(root), nodes)
      BY <1>2, <2>2, <2>7, GoEnd
    <3>2. SoFar(text, limits, at + 1, d - 1, Roots(root), nodes)  BY <2>7, <3>1
    <3>3. /\ Stack(stack') /\ Len(stack') = d - 1 /\ root' = root
          /\ outcome' = "reading"
      BY <1>2, <2>3, <2>4, <2>7
    <3>4. QED  BY <1>2, <2>1, <3>2, <3>3, GoesOn
  <2>8. QED  BY <2>5, <2>6, <2>7
<1>5. QED  BY <1>3, <1>4

\* Text, references and comments.
Others == {"text", "blank", "cdata", "reference", "comment"}

LEMMA Passed ==
  ASSUME ReaderInv, NEW kind \in Others, Taking(kind), Consume,
         kind \in {"text", "reference"} => stack /= <<>>,
         Stack(stack'), Len(stack') = Len(stack),
         UNCHANGED <<root, nodes, outcome>>
  PROVE  ReaderInv'
<1>1. /\ outcome = "reading" /\ at < Len(text) /\ text[at + 1].kind = kind
      /\ at' = at + 1 /\ UNCHANGED <<text, limits>>
      /\ IsList(text) /\ limits \in Bounds
      /\ SoFar(text, limits, at, Len(stack), Roots(root), nodes)
      /\ stack = <<>> <=> Len(stack) = 0
  BY EventTaken
<1>2. kind \notin ElementKinds \union
        {"start", "end", "illegal", "doctype", "malformed"}
  BY DEF Others, ElementKinds
<1>3. SoFar(text, limits, at + 1, Len(stack), Roots(root), nodes)
  BY <1>1, <1>2, GoOn
<1>4. QED  BY <1>1, <1>3, GoesOn

LEMMA TextAppended ==
  ASSUME Stack(stack), stack /= <<>>, NEW chunk, AppendText(chunk)
  PROVE  /\ Stack(stack') /\ Len(stack') = Len(stack)
         /\ UNCHANGED <<root, nodes, outcome>>
<1> DEFINE n == Len(stack)
           x == [stack[n] EXCEPT !.text = Joined(@, chunk)]
<1>1. stack' = [stack EXCEPT ![n] = x] /\ UNCHANGED <<root, nodes, outcome>>
  BY DEF AppendText
<1> HIDE DEF x
<1>2. QED  BY <1>1, Replaced

LEMMA TakesText == ReaderInv /\ Text => ReaderInv'
<1> SUFFICES ASSUME ReaderInv, NEW kind \in {"text", "blank", "cdata"},
                    Taking(kind), Consume,
                    CASE stack /= <<>> -> AppendText(Event.text)
                      [] stack = <<>> /\ kind = "text" -> Refuse
                      [] OTHER -> UNCHANGED <<stack, root, nodes, outcome>>
             PROVE  ReaderInv'
  BY DEF Text
<1>1. /\ outcome = "reading" /\ at < Len(text) /\ text[at + 1].kind = kind
      /\ at' = at + 1 /\ UNCHANGED <<text, limits>>
      /\ IsList(text) /\ limits \in Bounds /\ Stack(stack)
      /\ SoFar(text, limits, at, Len(stack), Roots(root), nodes)
      /\ stack = <<>> <=> Len(stack) = 0
  BY EventTaken
<1>2. kind \in Others  BY DEF Others
<1>3. CASE stack /= <<>>
  <2>1. AppendText(Event.text)  BY <1>3
  <2>2. /\ Stack(stack') /\ Len(stack') = Len(stack)
        /\ UNCHANGED <<root, nodes, outcome>>
    BY <1>1, <1>3, <2>1, TextAppended
  <2>3. QED  BY <1>2, <1>3, <2>2, Passed
<1>4. CASE stack = <<>> /\ kind = "text"
  <2>1. outcome' = "refused"  BY <1>4 DEF Refuse
  <2>2. SoFar(text, limits, at, 0, Roots(root), nodes)  BY <1>1, <1>4
  <2>3. ~Whole(text, limits)  BY <1>1, <1>4, <2>2, NotOutside
  <2>4. QED  BY <1>1, <2>1, <2>3, Answers
<1>5. CASE stack = <<>> /\ kind /= "text"
  <2>1. UNCHANGED <<stack, root, nodes, outcome>>  BY <1>5
  <2>2. kind \notin {"text", "reference"}  BY <1>5
  <2>3. QED  BY <1>1, <1>2, <2>1, <2>2, Passed
<1>6. QED  BY <1>3, <1>4, <1>5

LEMMA TakesReference == ReaderInv /\ Reference => ReaderInv'
<1> SUFFICES ASSUME ReaderInv, Reference PROVE ReaderInv'  OBVIOUS
<1>1. Taking("reference") /\ Consume  BY DEF Reference
<1>2. /\ outcome = "reading" /\ at < Len(text) /\ text[at + 1].kind = "reference"
      /\ at' = at + 1 /\ UNCHANGED <<text, limits>>
      /\ IsList(text) /\ limits \in Bounds /\ Stack(stack)
      /\ SoFar(text, limits, at, Len(stack), Roots(root), nodes)
      /\ stack = <<>> <=> Len(stack) = 0
  BY <1>1, EventTaken
<1>3. CASE stack /= <<>>
  <2>1. AppendText(Event.text)  BY <1>3 DEF Reference
  <2>2. /\ Stack(stack') /\ Len(stack') = Len(stack)
        /\ UNCHANGED <<root, nodes, outcome>>
    BY <1>2, <1>3, <2>1, TextAppended
  <2>3. "reference" \in Others  BY DEF Others
  <2>4. QED  BY <1>1, <1>3, <2>2, <2>3, Passed
<1>4. CASE stack = <<>>
  <2>1. outcome' = "refused"  BY <1>4 DEF Reference, Refuse
  <2>2. SoFar(text, limits, at, 0, Roots(root), nodes)  BY <1>2, <1>4
  <2>3. ~Whole(text, limits)  BY <1>2, <2>2, NotOutside
  <2>4. QED  BY <1>2, <2>1, <2>3, Answers
<1>5. QED  BY <1>3, <1>4

LEMMA TakesIllegal == ReaderInv /\ Illegal => ReaderInv'
<1> SUFFICES ASSUME ReaderInv, Illegal PROVE ReaderInv'  OBVIOUS
<1>1. PICK kind \in {"illegal", "doctype", "malformed"} : Taking(kind)
  BY DEF Illegal
<1>2. Consume /\ outcome' = "refused"  BY DEF Illegal, Refuse
<1>3. /\ outcome = "reading" /\ at < Len(text) /\ text[at + 1].kind = kind
      /\ UNCHANGED <<text, limits>>
      /\ IsList(text) /\ limits \in Bounds
      /\ SoFar(text, limits, at, Len(stack), Roots(root), nodes)
  BY <1>1, <1>2, EventTaken
<1>4. ~Whole(text, limits)  BY <1>1, <1>3, NotIllegal
<1>5. QED  BY <1>2, <1>3, <1>4, Answers

LEMMA TakesComment == ReaderInv /\ Comment => ReaderInv'
<1> SUFFICES ASSUME ReaderInv, Comment PROVE ReaderInv'  OBVIOUS
<1>1. /\ Taking("comment") /\ Consume
      /\ UNCHANGED <<stack, root, nodes, outcome>>
  BY DEF Comment
<1>2. Stack(stack)  BY <1>1, EventTaken
<1>3. "comment" \in Others  BY DEF Others
<1>4. QED  BY <1>1, <1>2, <1>3, Passed

LEMMA TakesEof == ReaderInv /\ Eof => ReaderInv'
<1> SUFFICES ASSUME ReaderInv, Eof PROVE ReaderInv'  OBVIOUS
<1>1. /\ outcome = "reading" /\ at = Len(text) /\ UNCHANGED <<text, limits>>
      /\ outcome' = IF stack = <<>> /\ root /= <<>> THEN "accepted" ELSE "refused"
  BY DEF Eof
<1>2. /\ IsList(text) /\ limits \in Bounds /\ Stack(stack)
      /\ SoFar(text, limits, Len(text), Len(stack), Roots(root), nodes)
  BY <1>1 DEF ReaderInv, Following
<1>3. Whole(text, limits) <=> Len(stack) = 0 /\ Roots(root) = 1
  BY <1>2, AtEnd
<1>4. Whole(text, limits) <=> stack = <<>> /\ root /= <<>>
  BY <1>2, <1>3, Bare DEF Roots
<1>5. QED  BY <1>1, <1>4, Answers

\* Another document.
LEMMA Reopened == Reopen => ReaderInv'
<1> SUFFICES ASSUME NEW events, IsList(events), NEW bounds \in Bounds,
                    Open(events, bounds)
             PROVE  ReaderInv'
  BY DEF Reopen
<1>1. /\ text' = events /\ limits' = bounds
      /\ at' = 0 /\ stack' = <<>> /\ root' = <<>> /\ nodes' = 0
      /\ outcome' = IF Len(events) > bounds.max_bytes THEN "refused" ELSE "reading"
  BY DEF Open
<1>2. Len(events) \in Nat /\ bounds.max_bytes \in Nat  BY ListParts DEF Bounds
<1>3. CASE Len(events) > bounds.max_bytes
  <2>1. outcome' = "refused"  BY <1>1, <1>3
  <2>2. ~(Len(text') <= limits'.max_bytes)  BY <1>1, <1>2, <1>3
  <2>3. ~WellFormed'  BY <2>2 DEF WellFormed
  <2>4. QED
    BY <1>1, <2>1, <2>3 DEF ReaderInv, Following, AcceptsWellFormed
<1>4. CASE ~(Len(events) > bounds.max_bytes)
  <2>1. outcome' = "reading" /\ Len(events) <= bounds.max_bytes
    BY <1>1, <1>2, <1>4
  <2>2. SoFar(events, bounds, 0, 0, 0, 0)  BY <2>1, Begins
  <2>3. Stack(stack') /\ Len(stack') = 0 /\ Roots(root') = 0
    BY <1>1, NoElement DEF Roots
  <2>4. QED
    BY <1>1, <2>1, <2>2, <2>3 DEF ReaderInv, Following, AcceptsWellFormed
<1>5. QED  BY <1>3, <1>4

LEMMA Stays == ReaderInv /\ UNCHANGED readerVars => ReaderInv'
BY DEF ReaderInv, Following, AcceptsWellFormed, WellFormed, TopLevel,
       OpenAfter, CountOf, readerVars

\* The reader of task documents (parse_dom), whatever events the lexer hands
\* it, however many there are and whatever the limits: it accepts a document
\* exactly when it is well formed, with one root and nothing outside of it,
\* and within the limits; so no document that it should refuse comes through
\* and none at the limits is lost.
THEOREM ReaderAccepts == ReaderSpec => []AcceptsWellFormed
<1>1. ReaderInit => ReaderInv
  BY DEF ReaderInit, Closed, ReaderInv, Following, AcceptsWellFormed
<1>2. ReaderInv /\ [Read \/ Reopen]_readerVars => ReaderInv'
  BY TakesStart, TakesEmpty, TakesEnd, TakesText, TakesReference,
     TakesIllegal, TakesComment, TakesEof, Reopened, Stays DEF Read
<1>3. ReaderInv => AcceptsWellFormed  BY DEF ReaderInv
<1>4. QED  BY <1>1, <1>2, <1>3, PTL DEF ReaderSpec

-----------------------------------------------------------------------------
(***************************************************************************)
(* What is read is made of values of the types that definitions have.        *)
(***************************************************************************)
\* What a document says is made of values of their types.  A node whose
\* children are among those that were read:
Grown(node, S) == Hereditary(S) /\ IsList(node.kids) /\ ToSet(node.kids) \subseteq S

LEMMA ChildFound ==
  ASSUME NEW S, NEW node, Grown(node, S), NEW name
  PROVE  /\ IsOption(Child(node, name)) /\ ToSet(Child(node, name)) \subseteq S
         /\ \A kid \in ToSet(Child(node, name)) : kid.name = name /\ Grown(kid, S)
<1> DEFINE named == {i \in DOMAIN node.kids : node.kids[i].name = name}
<1>1. IsList(node.kids) /\ \A i \in DOMAIN node.kids : node.kids[i] \in S
  BY DEF Grown, ToSet
<1>2. CASE named = {}
  <2>1. Child(node, name) = <<>>  BY <1>2 DEF Child, None
  <2>2. QED  BY <2>1 DEF IsOption, None, ToSet
<1>3. CASE named # {}
  <2> DEFINE k == Min(named)
             x == node.kids[k]
  <2>1. named \subseteq Nat  BY <1>1, ListParts
  <2>2. PICK j \in named : \A i \in named : j <= i  BY <1>3, <2>1, Least
  <2>3. k \in named  BY <2>2 DEF Min
  <2>4. Child(node, name) = <<x>>  BY <1>3 DEF Child, Some
  <2>5. x \in S /\ x.name = name  BY <1>1, <2>3
  <2>6. Grown(x, S)  BY <2>5 DEF Grown, Hereditary
  <2> HIDE DEF x
  <2>7. ToSet(Child(node, name)) = {x}  BY <2>4 DEF ToSet
  <2>8. IsOption(Child(node, name))  BY <2>4 DEF IsOption, Some
  <2>9. QED  BY <2>5, <2>6, <2>7, <2>8
<1>4. QED  BY <1>2, <1>3

\* A function of an option, and what its value satisfies.
LEMMA OptionOf ==
  ASSUME NEW v, IsOption(v), NEW g, g = [i \in DOMAIN v |-> g[i]]
  PROVE  /\ IsOption(g) /\ (g = None <=> v = None)
         /\ \A x : x \in ToSet(g) <=> \E i \in DOMAIN v : x = g[i]
<1>1. IsList(v)  BY Options
<1>2. QED  BY <1>1, OptionEach, Mapped

LEMMA TextFound ==
  ASSUME NEW S, NEW node, Grown(node, S), NEW name
  PROVE  IsOption(ChildText(node, name))
<1> DEFINE v == Child(node, name)
           g == [i \in DOMAIN v |-> v[i].text]
<1>1. ChildText(node, name) = g  BY DEF ChildText, Each
<1>2. IsOption(v)  BY ChildFound
<1>3. g = [i \in DOMAIN v |-> g[i]]  OBVIOUS
<1> HIDE DEF v, g
<1>4. QED  BY <1>1, <1>2, <1>3, OptionOf

LEMMA DelayFound ==
  ASSUME NEW S, NEW node, Grown(node, S), NEW name, DurationReadable(node, name)
  PROVE  IsDelay(DurationOf(node, name))
<1> DEFINE v == ChildText(node, name)
           g == [i \in DOMAIN v |-> Durations[v[i]]]
<1>1. DurationOf(node, name) = g  BY DEF DurationOf, Each
<1>2. IsOption(v)  BY TextFound
<1>3. \A i \in DOMAIN v : v[i] \in DOMAIN Durations  BY DEF DurationReadable, ToSet
<1>4. g = [i \in DOMAIN v |-> g[i]] /\ \A i \in DOMAIN v : g[i] = Durations[v[i]]  OBVIOUS
<1>5. \A t \in DOMAIN Durations : IsDuration(Durations[t])  BY TaskXmlAssumption
<1> HIDE DEF v, g
<1>6. IsOption(g) /\ \A x : x \in ToSet(g) <=> \E i \in DOMAIN v : x = g[i]
  BY <1>2, <1>4, OptionOf
<1>7. QED  BY <1>1, <1>3, <1>4, <1>5, <1>6 DEF IsDelay

LEMMA LimitFound ==
  ASSUME NEW S, NEW node, Grown(node, S), NEW name, DurationReadable(node, name)
  PROVE  /\ IsOption(LimitOf(node, name))
         /\ \A l \in ToSet(LimitOf(node, name)) : IsLimit(l)
<1> DEFINE v == ChildText(node, name)
           g == [i \in DOMAIN v |-> ParseLimit(v[i])]
<1>1. LimitOf(node, name) = g  BY DEF LimitOf, Each
<1>2. IsOption(v)  BY TextFound
<1>3. \A i \in DOMAIN v : v[i] \in DOMAIN Durations  BY DEF DurationReadable, ToSet
<1>4. g = [i \in DOMAIN v |-> g[i]] /\ \A i \in DOMAIN v : g[i] = ParseLimit(v[i])  OBVIOUS
<1>5. \A t \in DOMAIN Durations : IsDuration(Durations[t])  BY TaskXmlAssumption
<1> HIDE DEF v, g
<1>6. IsOption(g) /\ \A x : x \in ToSet(g) <=> \E i \in DOMAIN v : x = g[i]
  BY <1>2, <1>4, OptionOf
<1>7. \A i \in DOMAIN v : IsLimit(g[i])  BY <1>3, <1>4, <1>5 DEF IsLimit, ParseLimit
<1>8. QED  BY <1>1, <1>6, <1>7

LEMMA NumberFound ==
  ASSUME NEW S, NEW node, Grown(node, S), NEW name,
         ToSet(ChildText(node, name)) \subseteq DOMAIN Numbers
  PROVE  /\ IsOption(NumberOf(node, name))
         /\ \A n \in ToSet(NumberOf(node, name)) : IsNumber(n)
         /\ \A most, n : NumberReadable(node, name, most) /\ n \in ToSet(NumberOf(node, name))
                           => n <= most
<1> DEFINE v == ChildText(node, name)
           g == [i \in DOMAIN v |-> Numbers[v[i]]]
<1>1. NumberOf(node, name) = g  BY DEF NumberOf, Each
<1>2. IsOption(v)  BY TextFound
<1>3. \A i \in DOMAIN v : v[i] \in DOMAIN Numbers /\ v[i] \in ToSet(v)  BY DEF ToSet
<1>4. g = [i \in DOMAIN v |-> g[i]] /\ \A i \in DOMAIN v : g[i] = Numbers[v[i]]  OBVIOUS
<1>5. \A t \in DOMAIN Numbers : IsNumber(Numbers[t])  BY TaskXmlAssumption
<1> HIDE DEF v, g
<1>6. IsOption(g) /\ \A x : x \in ToSet(g) <=> \E i \in DOMAIN v : x = g[i]
  BY <1>2, <1>4, OptionOf
<1>7. \A most : NumberReadable(node, name, most) => \A t \in ToSet(v) : Numbers[t] <= most
  BY DEF NumberReadable, v
<1>8. QED  BY <1>1, <1>3, <1>4, <1>5, <1>6, <1>7

\* The first value of an option that is there.
LEMMA FirstOf ==
  ASSUME NEW v, IsOption(v), v # None
  PROVE  v[1] \in ToSet(v)
BY Options

LEMMA RequiredDuration ==
  ASSUME NEW S, NEW node, Grown(node, S), NEW name, DurationReadable(node, name),
         Has(node, name)
  PROVE  IsDuration(DurationOf(node, name)[1])
<1>1. IsDelay(DurationOf(node, name))  BY DelayFound
<1>2. DurationOf(node, name) # None
  <2> DEFINE v == Child(node, name)
             t == [i \in DOMAIN v |-> v[i].text]
             g == [i \in DOMAIN t |-> Durations[t[i]]]
  <2>1. DurationOf(node, name) = g  BY DEF DurationOf, ChildText, Each
  <2>2. v # None /\ IsOption(v)  BY ChildFound DEF Has
  <2>3. t = [i \in DOMAIN v |-> t[i]] /\ g = [i \in DOMAIN t |-> g[i]]  OBVIOUS
  <2> HIDE DEF v, t, g
  <2>4. IsOption(t) /\ t # None  BY <2>2, <2>3, OptionOf
  <2>5. g # None  BY <2>3, <2>4, OptionOf
  <2>6. QED  BY <2>1, <2>5
<1>3. QED  BY <1>1, <1>2, FirstOf DEF IsDelay

LEMMA RequiredNumber ==
  ASSUME NEW S, NEW node, Grown(node, S), NEW name, NEW most \in Nat,
         NumberReadable(node, name, most), Has(node, name)
  PROVE  IsNumber(NumberOf(node, name)[1]) /\ NumberOf(node, name)[1] <= most
<1>1. ToSet(ChildText(node, name)) \subseteq DOMAIN Numbers  BY DEF NumberReadable
<1>2. NumberOf(node, name) # None
  <2> DEFINE v == Child(node, name)
             t == [i \in DOMAIN v |-> v[i].text]
             g == [i \in DOMAIN t |-> Numbers[t[i]]]
  <2>1. NumberOf(node, name) = g  BY DEF NumberOf, ChildText, Each
  <2>2. v # None /\ IsOption(v)  BY ChildFound DEF Has
  <2>3. t = [i \in DOMAIN v |-> t[i]] /\ g = [i \in DOMAIN t |-> g[i]]  OBVIOUS
  <2> HIDE DEF v, t, g
  <2>4. IsOption(t) /\ t # None  BY <2>2, <2>3, OptionOf
  <2>5. g # None  BY <2>3, <2>4, OptionOf
  <2>6. QED  BY <2>1, <2>5
<1>3. QED  BY <1>1, <1>2, NumberFound, FirstOf

LEMMA FlagFoundIn ==
  ASSUME NEW S, NEW node, Grown(node, S), NEW name, NEW default \in BOOLEAN
  PROVE  BoolOf(node, name, default) \in BOOLEAN
<1> DEFINE v == ChildText(node, name)
           g == [i \in DOMAIN v |-> v[i] \in {"true", "1"}]
<1>1. BoolOf(node, name, default) = OrElse(g, default)  BY DEF BoolOf, Each
<1>2. IsOption(v)  BY TextFound
<1>3. g = [i \in DOMAIN v |-> g[i]] /\ \A i \in DOMAIN v : g[i] \in BOOLEAN  OBVIOUS
<1> HIDE DEF v, g
<1>4. IsOption(g) /\ \A x : x \in ToSet(g) <=> \E i \in DOMAIN v : x = g[i]
  BY <1>2, <1>3, OptionOf
<1>5. CASE g = None  BY <1>1, <1>5 DEF OrElse
<1>6. CASE g # None
  <2>1. g[1] \in ToSet(g)  BY <1>4, <1>6, FirstOf
  <2>2. g[1] \in BOOLEAN  BY <1>3, <1>4, <2>1
  <2>3. QED  BY <1>1, <1>6, <2>2 DEF OrElse
<1>7. QED  BY <1>5, <1>6

LEMMA IdFound ==
  ASSUME NEW node
  PROVE  IsOption(IdIn(node))
BY DEF IdIn, IsOption, Some, None

LEMMA DatesFound ==
  ASSUME NEW S, NEW node, Grown(node, S), NEW name, DateReadable(node, name)
  PROVE  IsOption(ChildText(node, name)) /\ ToSet(ChildText(node, name)) \subseteq Dates
BY TextFound DEF DateReadable

\* The common part of a trigger.
LEMMA RepetitionFound ==
  ASSUME NEW S, NEW node, Grown(node, S), RepetitionReadable(node)
  PROVE  IsRepetition(RepetitionOf(node))
<1>1. IsDuration(DurationOf(node, "Interval")[1])  BY RequiredDuration DEF RepetitionReadable
<1>2. IsDelay(DurationOf(node, "Duration"))  BY DelayFound DEF RepetitionReadable
<1>3. BoolOf(node, "StopAtDurationEnd", FALSE) \in BOOLEAN  BY FlagFoundIn
<1>4. QED  BY <1>1, <1>2, <1>3 DEF IsRepetition, RepetitionOf, Repetition

LEMMA CommonFound ==
  ASSUME NEW S, NEW node, Grown(node, S), CommonReadable(node)
  PROVE  IsCommon(ParsedCommon(node))
<1> DEFINE c == ParsedCommon(node)
           v == Child(node, "Repetition")
           g == [i \in DOMAIN v |-> RepetitionOf(v[i])]
<1>1. c = [id |-> IdIn(node), start_boundary |-> ChildText(node, "StartBoundary"),
           end_boundary |-> ChildText(node, "EndBoundary"),
           enabled |-> BoolOf(node, "Enabled", TRUE),
           execution_time_limit |-> LimitOf(node, "ExecutionTimeLimit"), repetition |-> g]
  BY DEF ParsedCommon, IdIn, Each
<1>2. IsOption(v) /\ \A kid \in ToSet(v) : Grown(kid, S)  BY ChildFound
<1>3. \A i \in DOMAIN v : IsRepetition(g[i])
  <2>1. \A i \in DOMAIN v : v[i] \in ToSet(v)  BY DEF ToSet
  <2>2. \A r \in ToSet(v) : RepetitionReadable(r)  BY DEF CommonReadable
  <2>3. \A i \in DOMAIN v : g[i] = RepetitionOf(v[i])  OBVIOUS
  <2> HIDE DEF v, g
  <2>4. QED  BY <1>2, <2>1, <2>2, <2>3, RepetitionFound
<1>4. IsOption(g) /\ \A r \in ToSet(g) : IsRepetition(r)
  <2>1. g = [i \in DOMAIN v |-> g[i]]  OBVIOUS
  <2> HIDE DEF v, g
  <2>2. IsOption(g) /\ \A x : x \in ToSet(g) <=> \E i \in DOMAIN v : x = g[i]
    BY <1>2, <2>1, OptionOf
  <2>3. QED  BY <1>3, <2>2
<1> HIDE DEF g, v
<1>5. IsOption(IdIn(node))  BY IdFound
<1>6. /\ IsOption(ChildText(node, "StartBoundary"))
      /\ ToSet(ChildText(node, "StartBoundary")) \subseteq Dates
  BY DatesFound DEF CommonReadable
<1>7. /\ IsOption(ChildText(node, "EndBoundary"))
      /\ ToSet(ChildText(node, "EndBoundary")) \subseteq Dates
  BY DatesFound DEF CommonReadable
<1>8. BoolOf(node, "Enabled", TRUE) \in BOOLEAN  BY FlagFoundIn
<1>9. /\ IsOption(LimitOf(node, "ExecutionTimeLimit"))
      /\ \A l \in ToSet(LimitOf(node, "ExecutionTimeLimit")) : IsLimit(l)
  BY LimitFound DEF CommonReadable
<1> HIDE DEF c
<1>10. c = [id |-> c.id, start_boundary |-> c.start_boundary,
             end_boundary |-> c.end_boundary, enabled |-> c.enabled,
             execution_time_limit |-> c.execution_time_limit,
             repetition |-> c.repetition]
  BY <1>1
<1>11. IsOption(c.id) /\ c.enabled \in BOOLEAN  BY <1>1, <1>5, <1>8
<1>12. /\ IsOption(c.start_boundary) /\ ToSet(c.start_boundary) \subseteq Dates
       /\ IsOption(c.end_boundary) /\ ToSet(c.end_boundary) \subseteq Dates
  BY <1>1, <1>6, <1>7
<1>13. /\ IsOption(c.execution_time_limit)
       /\ \A l \in ToSet(c.execution_time_limit) : IsLimit(l)
       /\ IsOption(c.repetition) /\ \A r \in ToSet(c.repetition) : IsRepetition(r)
  BY <1>1, <1>4, <1>9
<1>14. IsCommon(c)  BY <1>10, <1>11, <1>12, <1>13 DEF IsCommon
<1>15. QED  BY <1>14 DEF c

\* What a trigger of a document says.
TriggerTyped(n, S) == IsTrigger(TriggerOf(n), S)

\* Records that are built from another one, field by field.
LEMMA BootForm ==
  ASSUME NEW c, NEW v, NEW x, x = [BootTrigger EXCEPT !.common = c, !.delay = v]
  PROVE  x = [kind |-> "BootTrigger", common |-> c, delay |-> v]
BY DEF BootTrigger

LEMMA RegistrationForm ==
  ASSUME NEW c, NEW v, NEW x, x = [RegistrationTrigger EXCEPT !.common = c, !.delay = v]
  PROVE  x = [kind |-> "RegistrationTrigger", common |-> c, delay |-> v]
BY DEF RegistrationTrigger

LEMMA TimeForm ==
  ASSUME NEW c, NEW v, NEW x, x = [TimeTrigger("") EXCEPT !.common = c, !.random_delay = v]
  PROVE  x = [kind |-> "TimeTrigger", common |-> c, random_delay |-> v]
BY DEF TimeTrigger

LEMMA LogonForm ==
  ASSUME NEW c, NEW v, NEW u, NEW x,
         x = [LogonTrigger EXCEPT !.common = c, !.delay = v, !.user_id = u]
  PROVE  x = [kind |-> "LogonTrigger", common |-> c, user_id |-> u, delay |-> v]
BY DEF LogonTrigger

LEMMA SessionForm ==
  ASSUME NEW c, NEW v, NEW u, NEW w, NEW x,
         x = [SessionStateChangeTrigger(w) EXCEPT !.common = c, !.delay = v, !.user_id = u]
  PROVE  x = [kind |-> "SessionStateChangeTrigger", common |-> c, state_change |-> w,
              user_id |-> u, delay |-> v]
BY DEF SessionStateChangeTrigger

EventRecord(c, v, w, q, p, o, m) ==
  [kind |-> "EventTrigger", common |-> c, subscription |-> w, value_queries |-> q,
   delay |-> v, period_of_occurrence |-> p, number_of_occurrences |-> o,
   matching_element |-> m]

LEMMA EventForm ==
  ASSUME NEW c, NEW v, NEW w, NEW q, NEW p, NEW o, NEW m
  PROVE  [EventTrigger(w) EXCEPT
            !.common = c, !.delay = v, !.value_queries = q, !.period_of_occurrence = p,
            !.number_of_occurrences = o, !.matching_element = m]
         = EventRecord(c, v, w, q, p, o, m)
<1> DEFINE x == [EventTrigger(w) EXCEPT
                   !.common = c, !.delay = v, !.value_queries = q,
                   !.period_of_occurrence = p, !.number_of_occurrences = o,
                   !.matching_element = m]
<1>1. x = [EventTrigger(w) EXCEPT
             !.common = c, !.delay = v, !.value_queries = q, !.period_of_occurrence = p,
             !.number_of_occurrences = o, !.matching_element = m]
  OBVIOUS
<1> HIDE DEF x
<1>2. x = [kind |-> "EventTrigger", common |-> c, subscription |-> w, value_queries |-> q,
           delay |-> v, period_of_occurrence |-> p, number_of_occurrences |-> o,
           matching_element |-> m]
  BY <1>1 DEF EventTrigger
<1>3. QED  BY <1>2 DEF x, EventRecord


LEMMA BootTyped ==
  ASSUME NEW S, NEW n, Grown(n, S), TriggerReadable(n),
         n.name \in {"BootTrigger", "RegistrationTrigger"}
  PROVE  TriggerTyped(n, S)
<1> DEFINE t == TriggerOf(n)
           c == ParsedCommon(n)
           v == DurationOf(n, "Delay")
<1>1. IsCommon(c)  BY CommonFound DEF TriggerReadable
<1>2. IsDelay(v)  BY DelayFound DEF TriggerReadable
<1>3. t = [kind |-> n.name, common |-> c, delay |-> v]
  BY DEF TriggerOf, BootTrigger, RegistrationTrigger
<1> HIDE DEF t, c, v
<1>4. t.kind = n.name /\ t.common = c /\ t.delay = v  BY <1>3
<1>5. /\ n.name = "BootTrigger" => t = [BootTrigger EXCEPT !.common = t.common, !.delay = t.delay]
      /\ n.name = "RegistrationTrigger" =>
           t = [RegistrationTrigger EXCEPT !.common = t.common, !.delay = t.delay]
  <2>1. [BootTrigger EXCEPT !.common = c, !.delay = v]
          = [kind |-> "BootTrigger", common |-> c, delay |-> v]
    BY BootForm
  <2>2. [RegistrationTrigger EXCEPT !.common = c, !.delay = v]
          = [kind |-> "RegistrationTrigger", common |-> c, delay |-> v]
    BY RegistrationForm
  <2>3. QED  BY <1>3, <1>4, <2>1, <2>2
<1>6. IsTrigger(t, S)  BY <1>1, <1>2, <1>4, <1>5, CalendarNames DEF IsTrigger, TriggerNames
<1>7. QED  BY <1>6 DEF TriggerTyped, t

LEMMA IdleTyped ==
  ASSUME NEW S, NEW n, Grown(n, S), TriggerReadable(n), n.name = "IdleTrigger"
  PROVE  TriggerTyped(n, S)
<1> DEFINE t == TriggerOf(n)
           c == ParsedCommon(n)
<1>1. IsCommon(c)  BY CommonFound DEF TriggerReadable
<1>3. t = [kind |-> "IdleTrigger", common |-> c]  BY DEF TriggerOf, IdleTrigger
<1> HIDE DEF t, c
<1>4. t.kind = "IdleTrigger" /\ t.common = c  BY <1>3
<1>5. t = [IdleTrigger EXCEPT !.common = t.common]  BY <1>3, <1>4 DEF IdleTrigger
<1>6. IsTrigger(t, S)  BY <1>1, <1>4, <1>5, CalendarNames DEF IsTrigger, TriggerNames
<1>7. QED  BY <1>6 DEF TriggerTyped, t

LEMMA TimeTyped ==
  ASSUME NEW S, NEW n, Grown(n, S), TriggerReadable(n), n.name = "TimeTrigger"
  PROVE  TriggerTyped(n, S)
<1> DEFINE t == TriggerOf(n)
           c == ParsedCommon(n)
           v == DurationOf(n, "RandomDelay")
<1>1. IsCommon(c)  BY CommonFound DEF TriggerReadable
<1>2. IsDelay(v)  BY DelayFound DEF TriggerReadable
<1>3. t = [kind |-> "TimeTrigger", common |-> c, random_delay |-> v]
  BY DEF TriggerOf, TimeTrigger
<1> HIDE DEF t, c, v
<1>4. t.kind = "TimeTrigger" /\ t.common = c /\ t.random_delay = v  BY <1>3
<1>5. t = [TimeTrigger("") EXCEPT !.common = t.common, !.random_delay = t.random_delay]
  BY <1>3, <1>4, TimeForm
<1>6. IsTrigger(t, S)  BY <1>1, <1>2, <1>4, <1>5, CalendarNames DEF IsTrigger, TriggerNames
<1>7. QED  BY <1>6 DEF TriggerTyped, t

LEMMA LogonTyped ==
  ASSUME NEW S, NEW n, Grown(n, S), TriggerReadable(n), n.name = "LogonTrigger"
  PROVE  TriggerTyped(n, S)
<1> DEFINE t == TriggerOf(n)
           c == ParsedCommon(n)
           v == DurationOf(n, "Delay")
           u == ChildText(n, "UserId")
<1>1. IsCommon(c)  BY CommonFound DEF TriggerReadable
<1>2. IsDelay(v)  BY DelayFound DEF TriggerReadable
<1>3. t = [kind |-> "LogonTrigger", common |-> c, user_id |-> u, delay |-> v]
  BY DEF TriggerOf, LogonTrigger
<1>4. IsOption(u)  BY TextFound
<1> HIDE DEF t, c, v, u
<1>5. t.kind = "LogonTrigger" /\ t.common = c /\ t.delay = v /\ t.user_id = u  BY <1>3
<1>6. t = [LogonTrigger EXCEPT !.common = t.common, !.delay = t.delay, !.user_id = t.user_id]
  BY <1>3, <1>5, LogonForm
<1>7. IsTrigger(t, S)
  BY <1>1, <1>2, <1>4, <1>5, <1>6, CalendarNames DEF IsTrigger, TriggerNames
<1>8. QED  BY <1>7 DEF TriggerTyped, t

LEMMA SessionTyped ==
  ASSUME NEW S, NEW n, Grown(n, S), TriggerReadable(n), n.name = "SessionStateChangeTrigger"
  PROVE  TriggerTyped(n, S)
<1> DEFINE t == TriggerOf(n)
           c == ParsedCommon(n)
           v == DurationOf(n, "Delay")
           u == ChildText(n, "UserId")
           w == TextOf(n, "StateChange")
<1>1. IsCommon(c)  BY CommonFound DEF TriggerReadable
<1>2. IsDelay(v) /\ w \in SessionStateChanges  BY DelayFound DEF TriggerReadable
<1>3. t = [kind |-> "SessionStateChangeTrigger", common |-> c, state_change |-> w,
           user_id |-> u, delay |-> v]
  BY DEF TriggerOf, SessionStateChangeTrigger
<1>4. IsOption(u)  BY TextFound
<1> HIDE DEF t, c, v, u, w
<1>5. /\ t.kind = "SessionStateChangeTrigger" /\ t.common = c /\ t.delay = v /\ t.user_id = u
      /\ t.state_change = w
  BY <1>3
<1>6. t = [SessionStateChangeTrigger(t.state_change) EXCEPT
             !.common = t.common, !.delay = t.delay, !.user_id = t.user_id]
  <2>1. [SessionStateChangeTrigger(w) EXCEPT !.common = c, !.delay = v, !.user_id = u]
          = [kind |-> "SessionStateChangeTrigger", common |-> c, state_change |-> w,
             user_id |-> u, delay |-> v]
    BY SessionForm
  <2>2. QED  BY <1>3, <1>5, <2>1
<1>7. IsSessionTrigger(t)  BY <1>2, <1>4, <1>5, <1>6 DEF IsSessionTrigger
<1>8. IsTrigger(t, S)
  BY <1>1, <1>5, <1>7, CalendarNames DEF IsTrigger, TriggerNames
<1>9. QED  BY <1>8 DEF TriggerTyped, t

\* The children of a name.
Chosen(s, K) == [i \in DOMAIN s |-> IF i \in K THEN <<s[i]>> ELSE <<>>]

LEMMA ChosenIn ==
  ASSUME NEW s, IsList(s), NEW K
  PROVE  /\ IsList(FlattenSeq(Chosen(s, K)))
         /\ \A x : x \in ToSet(FlattenSeq(Chosen(s, K))) <=>
                     \E i \in DOMAIN s : i \in K /\ x = s[i]
<1> DEFINE P == Chosen(s, K)
<1>1. P = [i \in DOMAIN s |-> P[i]] /\ \A i \in DOMAIN s : P[i] = IF i \in K THEN <<s[i]>> ELSE <<>>
  BY DEF Chosen
<1> HIDE DEF P
<1>2. IsList(P) /\ Len(P) = Len(s) /\ DOMAIN P = DOMAIN s  BY <1>1, Mapped
<1>3. Lists(P)
  <2>1. \A v : IsList(<<v>>)  BY DEF IsList, ToSet
  <2>2. IsList(<<>>)  BY DEF IsList
  <2>3. QED  BY <1>1, <1>2, <2>1, <2>2 DEF Lists
<1>4. /\ IsList(FlattenSeq(P))
      /\ \A x : x \in ToSet(FlattenSeq(P)) <=> \E i \in DOMAIN P : x \in ToSet(P[i])
  BY <1>3, FlatParts
<1>5. \A i \in DOMAIN s : \A x : x \in ToSet(P[i]) <=> i \in K /\ x = s[i]
  <2>1. \A v, x : x \in ToSet(<<v>>) <=> x = v  BY DEF ToSet
  <2>2. ToSet(<<>>) = {}  BY DEF ToSet
  <2>3. QED  BY <1>1, <2>1, <2>2
<1>6. QED  BY <1>2, <1>4, <1>5 DEF P

LEMMA ChildrenFound ==
  ASSUME NEW node, IsList(node.kids), NEW name
  PROVE  /\ IsList(Children(node, name))
         /\ \A kid \in ToSet(Children(node, name)) :
              kid \in ToSet(node.kids) /\ kid.name = name
<1> DEFINE s == node.kids
           K == {i \in DOMAIN s : s[i].name = name}
           P == [i \in DOMAIN s |-> IF s[i].name = name THEN <<s[i]>> ELSE <<>>]
<1>1. Children(node, name) = FlattenSeq(P)  BY DEF Children, Where
<1>2. P = Chosen(s, K)  BY DEF Chosen
<1>3. IsList(s) /\ \A i \in DOMAIN s : i \in K => s[i] \in ToSet(s) /\ s[i].name = name
  BY DEF ToSet
<1> HIDE DEF s, K, P
<1>4. QED  BY <1>1, <1>2, <1>3, ChosenIn DEF s

\* The queries of an event trigger have finitely many names.
LEMMA QueriesFound ==
  ASSUME NEW S, NEW n, Grown(n, S)
  PROVE  /\ IsFiniteSet(DOMAIN ValueQueriesOf(n))
         /\ ValueQueriesOf(n) =
              [name \in DOMAIN ValueQueriesOf(n) |-> ValueQueriesOf(n)[name]]
<1> DEFINE kids == IF Has(n, "ValueQueries")
                   THEN Children(Child(n, "ValueQueries")[1], "Value") ELSE <<>>
           values == NamedValues(n)
           names == {v.attrs.name : v \in ToSet(values)}
<1>1. IsList(kids)
  <2>1. CASE Has(n, "ValueQueries")
    <3>1. IsList(Child(n, "ValueQueries")[1].kids)
      BY <2>1, ChildFound, FirstOf DEF Has, Grown
    <3>2. QED  BY <2>1, <3>1, ChildrenFound
  <2>2. CASE ~Has(n, "ValueQueries")
    BY <2>2 DEF IsList, ToSet
  <2>3. QED  BY <2>1, <2>2
<1>2. IsList(values)
  <2> DEFINE K == {i \in DOMAIN kids : "name" \in DOMAIN kids[i].attrs}
             P == [i \in DOMAIN kids |-> IF i \in K THEN <<kids[i]>> ELSE <<>>]
  <2>1. values = FlattenSeq(P)
    <3>1. [i \in DOMAIN kids |-> IF "name" \in DOMAIN kids[i].attrs THEN <<kids[i]>> ELSE <<>>]
            = P
      OBVIOUS
    <3>2. NamedValues(n) = Where(kids, LAMBDA v : "name" \in DOMAIN v.attrs)  BY DEF NamedValues
    <3>3. Where(kids, LAMBDA v : "name" \in DOMAIN v.attrs) =
            FlattenSeq([i \in DOMAIN kids |->
              IF "name" \in DOMAIN kids[i].attrs THEN <<kids[i]>> ELSE <<>>])
      BY DEF Where
    <3> HIDE DEF kids
    <3>4. QED  BY <3>1, <3>2, <3>3
  <2> HIDE DEF kids, K
  <2>2. IsList(FlattenSeq(P))
    <3>1. P = [i \in DOMAIN kids |-> IF i \in K THEN <<kids[i]>> ELSE <<>>]  OBVIOUS
    <3> HIDE DEF P
    <3>2. QED  BY <1>1, <3>1, Selected
  <2>3. QED  BY <2>1, <2>2
<1>3. DOMAIN ValueQueriesOf(n) = names
  BY DEF ValueQueriesOf
<1>4. ValueQueriesOf(n) = [name \in DOMAIN ValueQueriesOf(n) |-> ValueQueriesOf(n)[name]]
  BY DEF ValueQueriesOf
<1> HIDE DEF values
<1>5. IsFiniteSet(names)
  <2>1. DOMAIN values = 1..Len(values) /\ Len(values) \in Nat  BY <1>2, ListParts
  <2>2. IsFiniteSet(1..Len(values))  BY <2>1, FS_Interval
  <2>3. names = {values[i].attrs.name : i \in 1..Len(values)}  BY <2>1 DEF ToSet
  <2> DEFINE g == [i \in 1..Len(values) |-> values[i].attrs.name]
  <2>4. g \in Surjection(1..Len(values), names)  BY <2>3 DEF Surjection
  <2>5. QED  BY <2>2, <2>4, FS_Surjection
<1>6. QED  BY <1>3, <1>4, <1>5

LEMMA EventTyped ==
  ASSUME NEW S, NEW n, Grown(n, S), TriggerReadable(n), n.name = "EventTrigger"
  PROVE  TriggerTyped(n, S)
<1> DEFINE t == TriggerOf(n)
           c == ParsedCommon(n)
           v == DurationOf(n, "Delay")
           w == TextOf(n, "Subscription")
           q == ValueQueriesOf(n)
           p == DurationOf(n, "PeriodOfOccurrence")
           o == NumberOf(n, "NumberOfOccurrences")
           m == ChildText(n, "MatchingElement")
<1>1. IsCommon(c)  BY CommonFound DEF TriggerReadable
<1>2. IsDelay(v) /\ IsDelay(p)  BY DelayFound DEF TriggerReadable
<1>3. t = [kind |-> "EventTrigger", common |-> c, subscription |-> w, value_queries |-> q,
           delay |-> v, period_of_occurrence |-> p, number_of_occurrences |-> o,
           matching_element |-> m]
  BY DEF TriggerOf, EventTrigger
<1>4. IsOption(m)  BY TextFound
<1>5. IsOption(o) /\ \A x \in ToSet(o) : IsNumber(x)  BY NumberFound DEF TriggerReadable
<1>6. IsFiniteSet(DOMAIN q) /\ q = [name \in DOMAIN q |-> q[name]]  BY QueriesFound
<1> HIDE DEF t, c, v, w, q, p, o, m
<1>7. /\ t.kind = "EventTrigger" /\ t.common = c /\ t.delay = v /\ t.subscription = w
      /\ t.value_queries = q /\ t.period_of_occurrence = p /\ t.number_of_occurrences = o
      /\ t.matching_element = m
  BY <1>3
<1>8. [EventTrigger(w) EXCEPT
             !.common = c, !.delay = v, !.value_queries = q, !.period_of_occurrence = p,
             !.number_of_occurrences = o, !.matching_element = m] = t
  <2>1. t = EventRecord(c, v, w, q, p, o, m)  BY <1>3 DEF EventRecord
  <2>2. QED  BY <2>1, EventForm
<1>9. t = [EventTrigger(t.subscription) EXCEPT
            !.common = t.common, !.delay = t.delay,
            !.value_queries = [name \in DOMAIN t.value_queries |-> t.value_queries[name]],
            !.period_of_occurrence = t.period_of_occurrence,
            !.number_of_occurrences = t.number_of_occurrences,
            !.matching_element = t.matching_element]
  BY <1>6, <1>7, <1>8
<1>10. IsEventTrigger(t)  BY <1>2, <1>4, <1>5, <1>6, <1>7, <1>9 DEF IsEventTrigger
<1>11. IsTrigger(t, S)  BY <1>1, <1>7, <1>10, CalendarNames DEF IsTrigger, TriggerNames
<1>12. QED  BY <1>11 DEF TriggerTyped, t

LEMMA UnknownTyped ==
  ASSUME NEW S, NEW n \in S, TriggerReadable(n), n.name \notin TriggerNames
  PROVE  TriggerTyped(n, S)
<1> DEFINE t == TriggerOf(n)
<1>1. t = UnknownTrigger(n.xml)  BY DEF TriggerOf, TriggerNames
<1>2. CommonReadable(n)  BY DEF TriggerReadable
<1> HIDE DEF t
<1>3. t.kind = "unknown"  BY <1>1 DEF UnknownTrigger
<1>4. IsTrigger(t, S)  BY <1>1, <1>2, <1>3, CalendarNames DEF IsTrigger, TriggerNames
<1>5. QED  BY <1>4 DEF TriggerTyped, t

\* The schedules of a calendar trigger, field by field.
DayRecord(c, v, n) ==
  [kind |-> "ScheduleByDay", common |-> c, days_interval |-> n, random_delay |-> v]
WeekRecord(c, v, days, n) ==
  [kind |-> "ScheduleByWeek", common |-> c, weeks_interval |-> n, days_of_week |-> days,
   random_delay |-> v]
MonthRecord(c, v, days, months, last) ==
  [kind |-> "ScheduleByMonth", common |-> c, days_of_month |-> days, months |-> months,
   run_on_last_day |-> last, random_delay |-> v]
DowRecord(c, v, weeks, days, months, last) ==
  [kind |-> "ScheduleByMonthDayOfWeek", common |-> c, weeks_of_month |-> weeks,
   days_of_week |-> days, months |-> months, run_on_last_week |-> last,
   random_delay |-> v]

\* As they are parsed, and as they are built.
DayParsed(c, v, n) ==
  [[DailyTrigger("") EXCEPT !.days_interval = n]
     EXCEPT !.common = c, !.random_delay = v]
DayBuilt(c, v, n) ==
  [DailyTrigger("") EXCEPT !.common = c, !.random_delay = v,
     !.days_interval = n]
WeekParsed(c, v, days, n) ==
  [[WeeklyTrigger("", days) EXCEPT !.weeks_interval = n]
     EXCEPT !.common = c, !.random_delay = v]
WeekBuilt(c, v, days, n) ==
  [WeeklyTrigger("", days) EXCEPT !.common = c, !.random_delay = v,
     !.weeks_interval = n]
MonthParsed(c, v, days, months, last) ==
  [[MonthlyTrigger("", days, months) EXCEPT !.run_on_last_day = last]
     EXCEPT !.common = c, !.random_delay = v]
MonthBuilt(c, v, days, months, last) ==
  [MonthlyTrigger("", days, months) EXCEPT !.common = c, !.random_delay = v,
     !.run_on_last_day = last]
DowParsed(c, v, weeks, days, months, last) ==
  [[MonthlyDowTrigger("", weeks, days, months) EXCEPT !.run_on_last_week = last]
     EXCEPT !.common = c, !.random_delay = v]
DowBuilt(c, v, weeks, days, months, last) ==
  [MonthlyDowTrigger("", weeks, days, months) EXCEPT !.common = c, !.random_delay = v,
     !.run_on_last_week = last]

LEMMA DayForm ==
  ASSUME NEW c, NEW v, NEW n
  PROVE  /\ DayParsed(c, v, n) = DayRecord(c, v, n)
         /\ DayBuilt(c, v, n) = DayRecord(c, v, n)
<1> DEFINE y == [DailyTrigger("") EXCEPT !.days_interval = n]
           x == [y EXCEPT !.common = c, !.random_delay = v]
           z == [DailyTrigger("") EXCEPT !.common = c, !.random_delay = v,
                   !.days_interval = n]
<1>1. y = [DailyTrigger("") EXCEPT !.days_interval = n]  OBVIOUS
<1>2. x = [y EXCEPT !.common = c, !.random_delay = v]  OBVIOUS
<1>3. z = [DailyTrigger("") EXCEPT !.common = c, !.random_delay = v,
             !.days_interval = n]
  OBVIOUS
<1> HIDE DEF x, y, z
<1>4. y = [kind |-> "ScheduleByDay", common |-> StartingAt(""), days_interval |-> n,
           random_delay |-> None]
  BY <1>1 DEF DailyTrigger
<1>5. x = DayRecord(c, v, n)  BY <1>2, <1>4 DEF DayRecord
<1>6. z = DayRecord(c, v, n)  BY <1>3 DEF DayRecord, DailyTrigger
<1>7. QED  BY <1>5, <1>6 DEF x, y, z, DayParsed, DayBuilt

LEMMA WeekForm ==
  ASSUME NEW c, NEW v, NEW days, NEW n
  PROVE  /\ WeekParsed(c, v, days, n) = WeekRecord(c, v, days, n)
         /\ WeekBuilt(c, v, days, n) = WeekRecord(c, v, days, n)
<1> DEFINE y == [WeeklyTrigger("", days) EXCEPT !.weeks_interval = n]
           x == [y EXCEPT !.common = c, !.random_delay = v]
           z == [WeeklyTrigger("", days) EXCEPT !.common = c, !.random_delay = v,
                   !.weeks_interval = n]
<1>1. y = [WeeklyTrigger("", days) EXCEPT !.weeks_interval = n]  OBVIOUS
<1>2. x = [y EXCEPT !.common = c, !.random_delay = v]  OBVIOUS
<1>3. z = [WeeklyTrigger("", days) EXCEPT !.common = c, !.random_delay = v,
             !.weeks_interval = n]
  OBVIOUS
<1> HIDE DEF x, y, z
<1>4. y = [kind |-> "ScheduleByWeek", common |-> StartingAt(""), weeks_interval |-> n,
           days_of_week |-> days, random_delay |-> None]
  BY <1>1 DEF WeeklyTrigger
<1>5. x = WeekRecord(c, v, days, n)  BY <1>2, <1>4 DEF WeekRecord
<1>6. z = WeekRecord(c, v, days, n)  BY <1>3 DEF WeekRecord, WeeklyTrigger
<1>7. QED  BY <1>5, <1>6 DEF x, y, z, WeekParsed, WeekBuilt

LEMMA MonthForm ==
  ASSUME NEW c, NEW v, NEW days, NEW months, NEW last
  PROVE  /\ MonthParsed(c, v, days, months, last) = MonthRecord(c, v, days, months, last)
         /\ MonthBuilt(c, v, days, months, last) = MonthRecord(c, v, days, months, last)
<1> DEFINE y == [MonthlyTrigger("", days, months) EXCEPT !.run_on_last_day = last]
           x == [y EXCEPT !.common = c, !.random_delay = v]
           z == [MonthlyTrigger("", days, months) EXCEPT !.common = c, !.random_delay = v,
                   !.run_on_last_day = last]
<1>1. y = [MonthlyTrigger("", days, months) EXCEPT !.run_on_last_day = last]  OBVIOUS
<1>2. x = [y EXCEPT !.common = c, !.random_delay = v]  OBVIOUS
<1>3. z = [MonthlyTrigger("", days, months) EXCEPT !.common = c, !.random_delay = v,
             !.run_on_last_day = last]
  OBVIOUS
<1> HIDE DEF x, y, z
<1>4. y = [kind |-> "ScheduleByMonth", common |-> StartingAt(""), days_of_month |-> days,
           months |-> months, run_on_last_day |-> last, random_delay |-> None]
  BY <1>1 DEF MonthlyTrigger
<1>5. x = MonthRecord(c, v, days, months, last)  BY <1>2, <1>4 DEF MonthRecord
<1>6. z = MonthRecord(c, v, days, months, last)  BY <1>3 DEF MonthRecord, MonthlyTrigger
<1>7. QED  BY <1>5, <1>6 DEF x, y, z, MonthParsed, MonthBuilt

LEMMA DowForm ==
  ASSUME NEW c, NEW v, NEW weeks, NEW days, NEW months, NEW last
  PROVE  /\ DowParsed(c, v, weeks, days, months, last) = DowRecord(c, v, weeks, days, months, last)
         /\ DowBuilt(c, v, weeks, days, months, last) = DowRecord(c, v, weeks, days, months, last)
<1> DEFINE y == [MonthlyDowTrigger("", weeks, days, months) EXCEPT !.run_on_last_week = last]
           x == [y EXCEPT !.common = c, !.random_delay = v]
           z == [MonthlyDowTrigger("", weeks, days, months) EXCEPT !.common = c, !.random_delay = v,
                   !.run_on_last_week = last]
<1>1. y = [MonthlyDowTrigger("", weeks, days, months) EXCEPT !.run_on_last_week = last]  OBVIOUS
<1>2. x = [y EXCEPT !.common = c, !.random_delay = v]  OBVIOUS
<1>3. z = [MonthlyDowTrigger("", weeks, days, months) EXCEPT !.common = c, !.random_delay = v,
             !.run_on_last_week = last]
  OBVIOUS
<1> HIDE DEF x, y, z
<1>4. y = [kind |-> "ScheduleByMonthDayOfWeek", common |-> StartingAt(""),
           weeks_of_month |-> weeks, days_of_week |-> days, months |-> months,
           run_on_last_week |-> last, random_delay |-> None]
  BY <1>1 DEF MonthlyDowTrigger
<1>5. x = DowRecord(c, v, weeks, days, months, last)  BY <1>2, <1>4 DEF DowRecord
<1>6. z = DowRecord(c, v, weeks, days, months, last)  BY <1>3 DEF DowRecord, MonthlyDowTrigger
<1>7. QED  BY <1>5, <1>6 DEF x, y, z, DowParsed, DowBuilt

\* The first schedule that is there.
LEMMA ScheduleFound ==
  ASSUME NEW S, NEW n, Grown(n, S), ScheduleOf(n) # None
  PROVE  Grown(ScheduleOf(n)[1], S) /\ ScheduleOf(n)[1].name \in ToSet(Calendar)
<1> DEFINE there == {i \in DOMAIN Calendar : Has(n, Calendar[i])}
           k == Min(there)
<1>1. there # {} /\ ScheduleOf(n) = Child(n, Calendar[k])  BY DEF ScheduleOf
<1>2. there \subseteq Nat  BY DEF Calendar
<1>3. PICK j \in there : \A i \in there : j <= i  BY <1>1, <1>2, Least
<1>4. k \in there  BY <1>3 DEF Min
<1>5. Calendar[k] \in ToSet(Calendar) /\ Child(n, Calendar[k]) # None
  BY <1>4 DEF ToSet, Has
<1> HIDE DEF there, k
<1> DEFINE m == Calendar[k]
           v == Child(n, m)
<1>6. IsOption(v) /\ \A kid \in ToSet(v) : kid.name = m /\ Grown(kid, S)
  BY ChildFound
<1>7. v # None /\ ScheduleOf(n) = v /\ m \in ToSet(Calendar)  BY <1>1, <1>5
<1> HIDE DEF v, m
<1>8. v[1] \in ToSet(v)  BY <1>6, <1>7, FirstOf
<1>9. QED  BY <1>6, <1>7, <1>8

LEMMA CalendarTyped ==
  ASSUME NEW S, NEW n, Grown(n, S), TriggerReadable(n), n.name = "CalendarTrigger"
  PROVE  TriggerTyped(n, S)
<1> DEFINE t == TriggerOf(n)
           c == ParsedCommon(n)
           v == DurationOf(n, "RandomDelay")
           s == ScheduleOf(n)[1]
<1>1. IsCommon(c)  BY CommonFound DEF TriggerReadable
<1>2. IsDelay(v)  BY DelayFound DEF TriggerReadable
<1>3. Grown(s, S) /\ s.name \in ToSet(Calendar) /\ ScheduleReadable(s)
  BY ScheduleFound DEF TriggerReadable
<1>4. t = CalendarOf(n)  BY DEF TriggerOf
<1>5. ASSUME IsCalendar(t), t.common = c, t.kind \in ToSet(Calendar)
      PROVE  TriggerTyped(n, S)
  <2> HIDE DEF t
  <2>1. IsTrigger(t, S)  BY <1>1, <1>5, CalendarNames DEF IsTrigger, TriggerNames
  <2>2. QED  BY <2>1 DEF TriggerTyped, t
<1>6. CASE s.name = "ScheduleByDay"
  <2> DEFINE a == NumberOf(s, "DaysInterval")[1]
  <2>1. t = DayParsed(c, v, a)  BY <1>4, <1>6 DEF CalendarOf, DayParsed
  <2>2. IsNumber(a) /\ a <= U16
    BY <1>3, <1>6, RequiredNumber DEF ScheduleReadable, U16
  <2> HIDE DEF t, c, v, s, a
  <2>3. t = DayRecord(c, v, a)  BY <2>1, DayForm
  <2>4. /\ t.kind = "ScheduleByDay" /\ t.common = c /\ t.random_delay = v
        /\ t.days_interval = a
    BY <2>3 DEF DayRecord
  <2>5. t = DayBuilt(t.common, t.random_delay, t.days_interval)
    BY <2>3, <2>4, DayForm
  <2>6. IsCalendar(t)  BY <1>2, <2>2, <2>4, <2>5 DEF IsCalendar, DayBuilt
  <2>7. QED  BY <1>5, <2>4, <2>6, CalendarNames
<1>7. CASE s.name = "ScheduleByWeek"
  <2> DEFINE a == NumberOf(s, "WeeksInterval")[1]
             days == NamesIn(s, "DaysOfWeek", Weekdays)
  <2>1. t = WeekParsed(c, v, days, a)  BY <1>4, <1>7 DEF CalendarOf, WeekParsed
  <2>2. IsNumber(a) /\ a <= U16
    BY <1>3, <1>7, RequiredNumber DEF ScheduleReadable, U16
  <2>3. days \subseteq ToSet(Weekdays)  BY DEF NamesIn
  <2> HIDE DEF t, c, v, s, a, days
  <2>4. t = WeekRecord(c, v, days, a)  BY <2>1, WeekForm
  <2>5. /\ t.kind = "ScheduleByWeek" /\ t.common = c /\ t.random_delay = v
        /\ t.weeks_interval = a /\ t.days_of_week = days
    BY <2>4 DEF WeekRecord
  <2>6. t = WeekBuilt(t.common, t.random_delay, t.days_of_week, t.weeks_interval)
    BY <2>4, <2>5, WeekForm
  <2>7. IsCalendar(t)  BY <1>2, <2>2, <2>3, <2>5, <2>6 DEF IsCalendar, WeekBuilt
  <2>8. QED  BY <1>5, <2>5, <2>7, CalendarNames
<1>8. CASE s.name = "ScheduleByMonth"
  <2> DEFINE days == {Numbers[day.text] : day \in DaysIn(s)}
             months == NamesIn(s, "Months", Months)
             last == BoolOf(s, "RunOnLastDayOfMonth", FALSE)
  <2>1. t = MonthParsed(c, v, days, months, last)  BY <1>4, <1>8 DEF CalendarOf, MonthParsed
  <2>2. days \subseteq 0..U8
    <3>1. \A m \in DOMAIN Numbers : Numbers[m] \in Nat  BY TaskXmlAssumption DEF IsNumber
    <3>2. \A day \in DaysIn(s) : day.text \in DOMAIN Numbers /\ Numbers[day.text] <= U8
      BY <1>3, <1>8 DEF ScheduleReadable
    <3>3. QED  BY <3>1, <3>2 DEF U8
  <2>3. months \subseteq ToSet(Months)  BY DEF NamesIn
  <2>4. last \in BOOLEAN  BY <1>3, FlagFoundIn
  <2> HIDE DEF t, c, v, s, days, months, last
  <2>5. t = MonthRecord(c, v, days, months, last)  BY <2>1, MonthForm
  <2>6. /\ t.kind = "ScheduleByMonth" /\ t.common = c /\ t.random_delay = v
        /\ t.days_of_month = days /\ t.months = months /\ t.run_on_last_day = last
    BY <2>5 DEF MonthRecord
  <2>7. t = MonthBuilt(t.common, t.random_delay, t.days_of_month, t.months, t.run_on_last_day)
    BY <2>5, <2>6, MonthForm
  <2>8. IsCalendar(t)  BY <1>2, <2>2, <2>3, <2>4, <2>6, <2>7 DEF IsCalendar, MonthBuilt
  <2>9. QED  BY <1>5, <2>6, <2>8, CalendarNames
<1>9. CASE s.name = "ScheduleByMonthDayOfWeek"
  <2> DEFINE weeks == WeeksIn(s)
             days == NamesIn(s, "DaysOfWeek", Weekdays)
             months == NamesIn(s, "Months", Months)
             last == BoolOf(s, "RunOnLastWeekOfMonth", FALSE)
  <2>1. t = DowParsed(c, v, weeks, days, months, last)
    BY <1>4, <1>9 DEF CalendarOf, DowParsed
  <2>2. /\ weeks \subseteq ToSet(WeeksOfMonth) /\ days \subseteq ToSet(Weekdays)
        /\ months \subseteq ToSet(Months)
    BY DEF NamesIn, WeeksIn
  <2>3. last \in BOOLEAN  BY <1>3, FlagFoundIn
  <2> HIDE DEF t, c, v, s, weeks, days, months, last
  <2>4. t = DowRecord(c, v, weeks, days, months, last)  BY <2>1, DowForm
  <2>5. /\ t.kind = "ScheduleByMonthDayOfWeek" /\ t.common = c /\ t.random_delay = v
        /\ t.weeks_of_month = weeks /\ t.days_of_week = days /\ t.months = months
        /\ t.run_on_last_week = last
    BY <2>4 DEF DowRecord
  <2>6. t = DowBuilt(t.common, t.random_delay, t.weeks_of_month, t.days_of_week, t.months,
                    t.run_on_last_week)
    BY <2>4, <2>5, DowForm
  <2>7. IsCalendar(t)  BY <1>2, <2>2, <2>3, <2>5, <2>6 DEF IsCalendar, DowBuilt
  <2>8. QED  BY <1>5, <2>5, <2>7, CalendarNames
<1>10. QED  BY <1>3, <1>6, <1>7, <1>8, <1>9, CalendarNames

LEMMA EveryTriggerTyped ==
  ASSUME NEW S, NEW n \in S, Hereditary(S), TriggerReadable(n)
  PROVE  TriggerTyped(n, S)
<1>1. Grown(n, S)  BY DEF Grown, Hereditary
<1>2. \/ n.name \in {"BootTrigger", "RegistrationTrigger"}
      \/ n.name = "IdleTrigger"
      \/ n.name = "TimeTrigger"
      \/ n.name = "EventTrigger"
      \/ n.name = "LogonTrigger"
      \/ n.name = "SessionStateChangeTrigger"
      \/ n.name = "CalendarTrigger"
      \/ n.name \notin TriggerNames
  BY DEF TriggerNames
<1>3. QED
  BY <1>1, <1>2, BootTyped, IdleTyped, TimeTyped, EventTyped, LogonTyped, SessionTyped,
     CalendarTyped, UnknownTyped

\* The elements of a list inside a container.
LEMMA ListedFound ==
  ASSUME NEW S, NEW node, Grown(node, S), NEW container, NEW name
  PROVE  /\ IsList(Listed(node, container, name))
         /\ \A kid \in ToSet(Listed(node, container, name)) :
              kid \in S /\ kid.name = name /\ Grown(kid, S)
<1> DEFINE v == Child(node, container)
           P == [i \in DOMAIN v |-> Children(v[i], name)]
<1>1. Listed(node, container, name) = FlattenSeq(P)  BY DEF Listed, Each
<1>2. IsOption(v) /\ \A kid \in ToSet(v) : Grown(kid, S)  BY ChildFound
<1>3. IsList(v)  BY <1>2, Options
<1>4. P = [i \in DOMAIN v |-> P[i]] /\ \A i \in DOMAIN v : P[i] = Children(v[i], name)
  OBVIOUS
<1> HIDE DEF P, v
<1>5. IsList(P) /\ DOMAIN P = DOMAIN v  BY <1>3, <1>4, Mapped
<1>6. \A i \in DOMAIN v : /\ IsList(P[i])
                          /\ \A kid \in ToSet(P[i]) : kid \in S /\ kid.name = name
  <2> TAKE i \in DOMAIN v
  <2>1. Grown(v[i], S)  BY <1>2 DEF ToSet
  <2>2. IsList(v[i].kids) /\ ToSet(v[i].kids) \subseteq S  BY <2>1 DEF Grown
  <2> DEFINE w == v[i]
  <2>3. IsList(w.kids) /\ P[i] = Children(w, name) /\ ToSet(w.kids) \subseteq S
    BY <1>4, <2>2
  <2> HIDE DEF w
  <2>4. QED  BY <2>3, ChildrenFound
<1>7. Lists(P)  BY <1>5, <1>6 DEF Lists
<1>8. /\ IsList(FlattenSeq(P))
      /\ \A x : x \in ToSet(FlattenSeq(P)) <=> \E i \in DOMAIN P : x \in ToSet(P[i])
  BY <1>7, FlatParts
<1>9. \A kid \in S : Grown(kid, S)  BY DEF Grown, Hereditary
<1>10. QED  BY <1>1, <1>5, <1>6, <1>8, <1>9

\* The actions, field by field.
ExecRecord(id, command, arguments, directory, hide) ==
  [kind |-> "Exec", id |-> id, command |-> command, arguments |-> arguments,
   working_directory |-> directory, hide_window |-> hide]
ExecBuilt(id, command, arguments, directory, hide) ==
  [ExecAction(command) EXCEPT !.id = id, !.arguments = arguments,
                              !.working_directory = directory, !.hide_window = hide]

LEMMA ExecForm ==
  ASSUME NEW id, NEW command, NEW arguments, NEW directory, NEW hide
  PROVE  ExecBuilt(id, command, arguments, directory, hide)
           = ExecRecord(id, command, arguments, directory, hide)
<1> DEFINE x == ExecBuilt(id, command, arguments, directory, hide)
<1>1. x = [ExecAction(command) EXCEPT
             !.id = id, !.arguments = arguments, !.working_directory = directory,
             !.hide_window = hide]
  BY DEF ExecBuilt
<1> HIDE DEF x
<1>2. x = ExecRecord(id, command, arguments, directory, hide)
  BY <1>1 DEF ExecAction, ExecRecord
<1>3. QED  BY <1>2 DEF x

HandlerRecord(id, class, data) ==
  [kind |-> "ComHandler", id |-> id, class_id |-> class, data |-> data]
HandlerBuilt(id, class, data) == [ComHandlerAction(class) EXCEPT !.id = id, !.data = data]

LEMMA HandlerForm ==
  ASSUME NEW id, NEW class, NEW data
  PROVE  HandlerBuilt(id, class, data) = HandlerRecord(id, class, data)
<1> DEFINE x == HandlerBuilt(id, class, data)
<1>1. x = [ComHandlerAction(class) EXCEPT !.id = id, !.data = data]  BY DEF HandlerBuilt
<1> HIDE DEF x
<1>2. x = HandlerRecord(id, class, data)  BY <1>1 DEF ComHandlerAction, HandlerRecord
<1>3. QED  BY <1>2 DEF x

EmailRecord(id, server, body, files, texts, headers) ==
  [kind |-> "SendEmail", id |-> id, server |-> server, texts |-> texts, body |-> body,
   attachments |-> files, headers |-> headers]
EmailBuilt(id, server, body, files, texts, headers) ==
  [EmailAction(server) EXCEPT !.id = id, !.body = body, !.attachments = files,
                              !.texts = texts, !.headers = headers]
EmailParsed(id, server, body, files, texts, headers) ==
  [EmailAction(server) EXCEPT !.id = id, !.body = body, !.texts = texts,
                              !.attachments = files, !.headers = headers]

LEMMA EmailForm ==
  ASSUME NEW id, NEW server, NEW body, NEW files, NEW texts, NEW headers
  PROVE  /\ EmailBuilt(id, server, body, files, texts, headers)
              = EmailRecord(id, server, body, files, texts, headers)
         /\ EmailParsed(id, server, body, files, texts, headers)
              = EmailRecord(id, server, body, files, texts, headers)
<1> DEFINE x == EmailBuilt(id, server, body, files, texts, headers)
           y == EmailParsed(id, server, body, files, texts, headers)
<1>1. x = [EmailAction(server) EXCEPT !.id = id, !.body = body, !.attachments = files,
                                      !.texts = texts, !.headers = headers]
  BY DEF EmailBuilt
<1>2. y = [EmailAction(server) EXCEPT !.id = id, !.body = body, !.texts = texts,
                                      !.attachments = files, !.headers = headers]
  BY DEF EmailParsed
<1> HIDE DEF x, y
<1>3. x = EmailRecord(id, server, body, files, texts, headers)
  BY <1>1 DEF EmailAction, EmailRecord
<1>4. y = EmailRecord(id, server, body, files, texts, headers)
  BY <1>2 DEF EmailAction, EmailRecord
<1>5. QED  BY <1>3, <1>4 DEF x, y

MessageRecord(id, title, body) ==
  [kind |-> "ShowMessage", id |-> id, title |-> title, body |-> body]
MessageBuilt(id, title, body) == [ShowMessageAction(body) EXCEPT !.id = id, !.title = title]

LEMMA MessageForm ==
  ASSUME NEW id, NEW title, NEW body
  PROVE  MessageBuilt(id, title, body) = MessageRecord(id, title, body)
<1> DEFINE x == MessageBuilt(id, title, body)
<1>1. x = [ShowMessageAction(body) EXCEPT !.id = id, !.title = title]  BY DEF MessageBuilt
<1> HIDE DEF x
<1>2. x = MessageRecord(id, title, body)  BY <1>1 DEF ShowMessageAction, MessageRecord
<1>3. QED  BY <1>2 DEF x

ActionTyped(n, S) == IsAction(ActionOf(n), S)

LEMMA ExecTyped ==
  ASSUME NEW S, NEW n, Grown(n, S), ActionReadable(n), n.name = "Exec"
  PROVE  ActionTyped(n, S)
<1> DEFINE a == ActionOf(n)
           id == IF "id" \in DOMAIN n.attrs THEN Some(n.attrs.id) ELSE None
           c == TextOf(n, "Command")
           g == ChildText(n, "Arguments")
           w == ChildText(n, "WorkingDirectory")
           h == BoolOf(n, "HideAppWindow", FALSE)
<1>1. a = ExecBuilt(id, c, g, w, h)  BY DEF ActionOf, ExecBuilt
<1>2. IsOption(g) /\ IsOption(w) /\ h \in BOOLEAN  BY TextFound, FlagFoundIn
<1>3. IsOption(id)  BY DEF IsOption, None, Some
<1> HIDE DEF a, id, c, g, w, h
<1>4. a = ExecRecord(id, c, g, w, h)  BY <1>1, ExecForm
<1>5. /\ a.kind = "Exec" /\ a.id = id /\ a.command = c /\ a.arguments = g
      /\ a.working_directory = w /\ a.hide_window = h
  BY <1>4 DEF ExecRecord
<1>6. a = ExecBuilt(a.id, a.command, a.arguments, a.working_directory, a.hide_window)
  BY <1>1, <1>5
<1>7. IsAction(a, S)  BY <1>2, <1>3, <1>5, <1>6 DEF IsAction, ExecBuilt, ActionNames
<1>8. QED  BY <1>7 DEF ActionTyped, a

LEMMA HandlerTyped ==
  ASSUME NEW S, NEW n, Grown(n, S), ActionReadable(n), n.name = "ComHandler"
  PROVE  ActionTyped(n, S)
<1> DEFINE a == ActionOf(n)
           id == IF "id" \in DOMAIN n.attrs THEN Some(n.attrs.id) ELSE None
           c == ClassIds[TextOf(n, "ClassId")]
           g == ChildText(n, "Data")
<1>1. a = HandlerBuilt(id, c, g)  BY DEF ActionOf, HandlerBuilt
<1>2. IsOption(g)  BY TextFound
<1>3. IsOption(id)  BY DEF IsOption, None, Some
<1>4. c \in DOMAIN ClassIds /\ ClassIds[c] = c
  BY TaskXmlAssumption DEF ActionReadable
<1> HIDE DEF a, id, c, g
<1>5. a = HandlerRecord(id, c, g)  BY <1>1, HandlerForm
<1>6. a.kind = "ComHandler" /\ a.id = id /\ a.class_id = c /\ a.data = g
  BY <1>5 DEF HandlerRecord
<1>7. a = HandlerBuilt(a.id, a.class_id, a.data)  BY <1>1, <1>6
<1>8. IsAction(a, S)
  BY <1>2, <1>3, <1>4, <1>6, <1>7 DEF IsAction, HandlerBuilt, ActionNames
<1>9. QED  BY <1>8 DEF ActionTyped, a

LEMMA EmailTyped ==
  ASSUME NEW S, NEW n, Grown(n, S), ActionReadable(n), n.name = "SendEmail"
  PROVE  ActionTyped(n, S)
<1> DEFINE a == ActionOf(n)
           id == IF "id" \in DOMAIN n.attrs THEN Some(n.attrs.id) ELSE None
           c == TextOf(n, "Server")
           b == ChildText(n, "Body")
           x == [m \in ToSet(EmailTexts) |-> ChildText(n, m)]
           fs == Listed(n, "Attachments", "File")
           f == [i \in DOMAIN fs |-> fs[i].text]
           hs == Listed(n, "HeaderFields", "HeaderField")
           h == [i \in DOMAIN hs |-> [name |-> TextOf(hs[i], "Name"),
                                      value |-> TextOf(hs[i], "Value")]]
<1>1. a = EmailParsed(id, c, b, f, x, h)  BY DEF ActionOf, EmailParsed, Each
<1>2. IsOption(b) /\ \A m \in ToSet(EmailTexts) : IsOption(x[m])  BY TextFound
<1>3. IsOption(id)  BY DEF IsOption, None, Some
<1>4. IsList(fs) /\ IsList(hs)  BY ListedFound
<1>5. /\ f = [i \in DOMAIN fs |-> f[i]] /\ h = [i \in DOMAIN hs |-> h[i]]
      /\ \A i \in DOMAIN hs : h[i] = [name |-> h[i].name, value |-> h[i].value]
      /\ x = [m \in ToSet(EmailTexts) |-> x[m]]
  OBVIOUS
<1> HIDE DEF a, id, c, b, x, fs, hs, f, h
<1>6. IsList(f)  BY <1>4, <1>5, Mapped
<1>7. IsList(h) /\ \A y : y \in ToSet(h) <=> \E i \in DOMAIN hs : y = h[i]
  BY <1>4, <1>5, Mapped
<1>8. \A y \in ToSet(h) : y = [name |-> y.name, value |-> y.value]  BY <1>5, <1>7
<1>9. a = EmailRecord(id, c, b, f, x, h)  BY <1>1, EmailForm
<1>10. /\ a.kind = "SendEmail" /\ a.id = id /\ a.server = c /\ a.body = b
       /\ a.attachments = f /\ a.texts = x /\ a.headers = h
  BY <1>9 DEF EmailRecord
<1>11. a = EmailBuilt(a.id, a.server, a.body, a.attachments,
                      [m \in ToSet(EmailTexts) |-> a.texts[m]], a.headers)
  <2>1. [m \in ToSet(EmailTexts) |-> a.texts[m]] = x  BY <1>5, <1>10
  <2>2. a = EmailBuilt(id, c, b, f, x, h)  BY <1>9, EmailForm
  <2>3. QED  BY <1>10, <2>1, <2>2
<1>12. IsEmail(a)  BY <1>2, <1>6, <1>7, <1>8, <1>10, <1>11 DEF IsEmail, EmailBuilt
<1>13. IsAction(a, S)  BY <1>3, <1>10, <1>12 DEF IsAction, ActionNames
<1>14. QED  BY <1>13 DEF ActionTyped, a

LEMMA MessageTyped ==
  ASSUME NEW S, NEW n, Grown(n, S), ActionReadable(n), n.name = "ShowMessage"
  PROVE  ActionTyped(n, S)
<1> DEFINE a == ActionOf(n)
           id == IF "id" \in DOMAIN n.attrs THEN Some(n.attrs.id) ELSE None
           c == TextOf(n, "Body")
           g == ChildText(n, "Title")
<1>1. a = MessageBuilt(id, g, c)  BY DEF ActionOf, MessageBuilt
<1>2. IsOption(g)  BY TextFound
<1>3. IsOption(id)  BY DEF IsOption, None, Some
<1> HIDE DEF a, id, c, g
<1>4. a = MessageRecord(id, g, c)  BY <1>1, MessageForm
<1>5. a.kind = "ShowMessage" /\ a.id = id /\ a.title = g /\ a.body = c
  BY <1>4 DEF MessageRecord
<1>6. a = MessageBuilt(a.id, a.title, a.body)  BY <1>1, <1>5
<1>7. IsAction(a, S)  BY <1>2, <1>3, <1>5, <1>6 DEF IsAction, MessageBuilt, ActionNames
<1>8. QED  BY <1>7 DEF ActionTyped, a

LEMMA EveryActionTyped ==
  ASSUME NEW S, NEW n \in S, Hereditary(S), ActionReadable(n)
  PROVE  ActionTyped(n, S)
<1>1. Grown(n, S)  BY DEF Grown, Hereditary
<1>2. CASE n.name \in ActionNames
  BY <1>1, <1>2, ExecTyped, HandlerTyped, EmailTyped, MessageTyped DEF ActionNames
<1>3. CASE n.name \notin ActionNames
  <2> DEFINE a == ActionOf(n)
  <2>1. a = UnknownAction(n.xml)  BY <1>3 DEF ActionOf, ActionNames
  <2> HIDE DEF a
  <2>2. a.kind = "unknown"  BY <2>1 DEF UnknownAction
  <2>3. IsAction(a, S)  BY <1>3, <2>1, <2>2 DEF IsAction, ActionNames
  <2>4. QED  BY <2>3 DEF ActionTyped, a
<1>4. QED  BY <1>2, <1>3

LEMMA RegistrationTyped ==
  ASSUME NEW S, NEW n, Grown(n, S), RegistrationReadable(n)
  PROVE  IsRegistration(RegistrationOf(n))
<1> DEFINE r == RegistrationOf(n)
<1>1. r = [name \in ToSet(RegistrationTexts) |-> ChildText(n, name)]  BY DEF RegistrationOf
<1>2. \A name : IsOption(ChildText(n, name))  BY TextFound
<1>3. "Date" \in ToSet(RegistrationTexts) /\ "SecurityDescriptor" \in ToSet(RegistrationTexts)
  BY DEF RegistrationTexts, ToSet
<1> HIDE DEF r
<1>4. r["Date"] = ChildText(n, "Date") /\ r["SecurityDescriptor"] = ChildText(n, "SecurityDescriptor")
  BY <1>1, <1>3
<1>5. r = [name \in ToSet(RegistrationTexts) |-> r[name]]  BY <1>1
<1>6. \A name \in ToSet(RegistrationTexts) : IsOption(r[name])  BY <1>1, <1>2
<1>7. QED  BY <1>4, <1>5, <1>6 DEF IsRegistration, RegistrationReadable, DateReadable, r

LEMMA DefaultRegistrationTyped == IsRegistration(DefaultRegistration)
<1> DEFINE r == DefaultRegistration
<1>1. r = [name \in ToSet(RegistrationTexts) |-> None]  BY DEF DefaultRegistration
<1>2. "Date" \in ToSet(RegistrationTexts) /\ "SecurityDescriptor" \in ToSet(RegistrationTexts)
  BY DEF RegistrationTexts, ToSet
<1>3. IsOption(None) /\ ToSet(None) = {} /\ None # Some("")
  BY DEF IsOption, None, Some, ToSet
<1> HIDE DEF r
<1>4. r = [name \in ToSet(RegistrationTexts) |-> r[name]]  BY <1>1
<1>5. QED  BY <1>1, <1>2, <1>3, <1>4 DEF IsRegistration, r

\* A value that is there, or a default.
LEMMA OrDefault ==
  ASSUME NEW v, IsOption(v), NEW default, NEW T, ToSet(v) \subseteq T, default \in T
  PROVE  OrElse(v, default) \in T
BY FirstOf DEF OrElse

LEMMA IdentityTyped ==
  ASSUME NEW n
  PROVE  IsIdentity(IdentityOf(n)) /\ ImpliedLogon(IdentityOf(n)) \in LogonTypes
<1> DEFINE u == TextOf(n, "UserId")
           g == TextOf(n, "GroupId")
           i == IdentityOf(n)
<1>1. i = Group(g) \/ i = UserOrService(u) \/ i = NoIdentity  BY DEF IdentityOf
<1>2. ServiceAccountOf(u) = None \/ \E name \in ServiceNames : ServiceAccountOf(u) = Some(name)
  BY AccountsAssumption DEF ServiceAccountOf
<1> HIDE DEF u, g, i
<1>3. UserOrService(u) = User(u) \/ \E name \in ServiceNames : UserOrService(u) = ServiceAccount(name)
  <2>1. ASSUME NEW name \in ServiceNames, ServiceAccountOf(u) = Some(name)
        PROVE  UserOrService(u) = ServiceAccount(name)
    <3>1. ServiceAccountOf(u) = <<name>>  BY <2>1 DEF Some
    <3> DEFINE sv == ServiceAccountOf(u)
    <3>2. sv = <<name>>  BY <3>1
    <3> HIDE DEF sv
    <3>3. sv[1] = name /\ sv # <<>>  BY <3>2
    <3>4. QED  BY <3>3 DEF UserOrService, None, sv
  <2>2. CASE ServiceAccountOf(u) = None  BY <2>2 DEF UserOrService
  <2>3. QED  BY <1>2, <2>1, <2>2
<1>4. \A name : User(name).name = name /\ Group(name).name = name  BY DEF User, Group
<1>5. IsIdentity(i)  BY <1>1, <1>3, <1>4 DEF IsIdentity
<1>6. ImpliedLogon(i) \in LogonTypes  BY DEF ImpliedLogon, LogonTypes
<1>7. QED  BY <1>5, <1>6 DEF i

LEMMA PrincipalTyped ==
  ASSUME NEW S, NEW n, Grown(n, S), PrincipalReadable(n)
  PROVE  IsPrincipal(PrincipalOf(n))
<1> DEFINE id == IF "id" \in DOMAIN n.attrs THEN n.attrs.id ELSE "Author"
           dn == ChildText(n, "DisplayName")
           i == IdentityOf(n)
           l == OrElse(ChildText(n, "LogonType"), ImpliedLogon(i))
           u == OrElse(ChildText(n, "RunLevel"), "LeastPrivilege")
           t == OrElse(ChildText(n, "ProcessTokenSidType"), "Default")
           s == Listed(n, "RequiredPrivileges", "Privilege")
           g == [j \in DOMAIN s |-> s[j].text]
           p == PrincipalOf(n)
<1>1. p = [id |-> id, display_name |-> dn, identity |-> i, logon_type |-> l, run_level |-> u,
           process_token_sid_type |-> t, required_privileges |-> g]
  BY DEF PrincipalOf, Each
<1>2. IsOption(dn)  BY TextFound
<1>3. IsIdentity(i)  BY IdentityTyped
<1>4. l \in LogonTypes
  <2>1. IsOption(ChildText(n, "LogonType"))  BY TextFound
  <2>2. ToSet(ChildText(n, "LogonType")) \subseteq LogonTypes  BY DEF PrincipalReadable
  <2>3. ImpliedLogon(i) \in LogonTypes  BY IdentityTyped
  <2>4. QED  BY <2>1, <2>2, <2>3, OrDefault
<1>5. u \in RunLevels
  <2>1. IsOption(ChildText(n, "RunLevel"))  BY TextFound
  <2>2. ToSet(ChildText(n, "RunLevel")) \subseteq RunLevels  BY DEF PrincipalReadable
  <2>3. "LeastPrivilege" \in RunLevels  BY DEF RunLevels
  <2>4. QED  BY <2>1, <2>2, <2>3, OrDefault
<1>6. t \in SidTypes
  <2>1. IsOption(ChildText(n, "ProcessTokenSidType"))  BY TextFound
  <2>2. ToSet(ChildText(n, "ProcessTokenSidType")) \subseteq SidTypes  BY DEF PrincipalReadable
  <2>3. "Default" \in SidTypes  BY DEF SidTypes
  <2>4. QED  BY <2>1, <2>2, <2>3, OrDefault
<1>7. IsList(s)  BY ListedFound
<1>8. \A j \in DOMAIN s : s[j].text \in Privileges
  BY DEF PrincipalReadable, ToSet
<1>9. g = [j \in DOMAIN s |-> g[j]] /\ \A j \in DOMAIN s : g[j] = s[j].text  OBVIOUS
<1> HIDE DEF id, dn, i, l, u, t, s, g, p
<1>10. IsList(g) /\ \A x : x \in ToSet(g) <=> \E j \in DOMAIN s : x = g[j]
  BY <1>7, <1>9, Mapped
<1>11. ToSet(g) \subseteq Privileges  BY <1>8, <1>9, <1>10
<1>12. /\ p.id = id /\ p.display_name = dn /\ p.identity = i /\ p.logon_type = l
       /\ p.run_level = u /\ p.process_token_sid_type = t /\ p.required_privileges = g
  BY <1>1
<1>13. p = [id |-> p.id, display_name |-> p.display_name, identity |-> p.identity,
            logon_type |-> p.logon_type, run_level |-> p.run_level,
            process_token_sid_type |-> p.process_token_sid_type,
            required_privileges |-> p.required_privileges]
  BY <1>1, <1>12
<1>14. QED
  BY <1>2, <1>3, <1>4, <1>5, <1>6, <1>10, <1>11, <1>12, <1>13 DEF IsPrincipal, p

LEMMA DefaultPrincipalTyped == IsPrincipal(DefaultPrincipal)
<1> DEFINE p == DefaultPrincipal
<1>1. p = [id |-> "Author", display_name |-> None, identity |-> NoIdentity,
           logon_type |-> "None", run_level |-> "LeastPrivilege",
           process_token_sid_type |-> "Default", required_privileges |-> <<>>]
  BY DEF DefaultPrincipal
<1> HIDE DEF p
<1>2. p = [id |-> p.id, display_name |-> p.display_name, identity |-> p.identity,
           logon_type |-> p.logon_type, run_level |-> p.run_level,
           process_token_sid_type |-> p.process_token_sid_type,
           required_privileges |-> p.required_privileges]
  BY <1>1
<1>3. IsOption(None) /\ IsList(<<>>) /\ ToSet(<<>>) = {}  BY DEF IsOption, IsList, ToSet
<1>4. IsIdentity(NoIdentity)  BY DEF IsIdentity
<1>5. QED
  BY <1>1, <1>2, <1>3, <1>4 DEF IsPrincipal, LogonTypes, RunLevels, SidTypes, p

LEMMA DurationOrDefault ==
  ASSUME NEW S, NEW n, Grown(n, S), NEW name, DurationReadable(n, name),
         NEW default, IsDuration(default)
  PROVE  IsDuration(OrElse(DurationOf(n, name), default))
<1> DEFINE T == {t \in DOMAIN Durations : IsDuration(t)}
           v == DurationOf(n, name)
<1>1. IsDelay(v)  BY DelayFound
<1> HIDE DEF v
<1>2. IsOption(v) /\ ToSet(v) \subseteq T  BY <1>1 DEF IsDelay, IsDuration
<1>3. default \in T  BY DEF IsDuration
<1> HIDE DEF T
<1>4. OrElse(v, default) \in T  BY <1>2, <1>3, OrDefault
<1>5. QED  BY <1>4 DEF T, v

\* What is read of an element that may be there.
LEMMA PartFound ==
  ASSUME NEW S, NEW n, Grown(n, S), NEW name, NEW v, v = Child(n, name),
         NEW g, g = [i \in DOMAIN v |-> g[i]]
  PROVE  /\ IsOption(g) /\ \A i \in DOMAIN v : Grown(v[i], S) /\ v[i] \in ToSet(v)
         /\ \A x : x \in ToSet(g) <=> \E i \in DOMAIN v : x = g[i]
<1>1. IsOption(v) /\ \A kid \in ToSet(v) : Grown(kid, S)  BY ChildFound
<1>2. \A i \in DOMAIN v : v[i] \in ToSet(v)  BY DEF ToSet
<1>3. QED  BY <1>1, <1>2, OptionOf

LEMMA RestartTyped ==
  ASSUME NEW S, NEW n, Grown(n, S), SettingsReadable(n)
  PROVE  /\ IsOption(SettingsOf(n).restart_on_failure)
         /\ \A r \in ToSet(SettingsOf(n).restart_on_failure) : IsRestart(r)
<1> DEFINE v == Child(n, "RestartOnFailure")
           g == [i \in DOMAIN v |-> [interval |-> DurationOf(v[i], "Interval")[1],
                                     count |-> NumberOf(v[i], "Count")[1]]]
<1>1. SettingsOf(n).restart_on_failure = g  BY DEF SettingsOf, Each
<1>2. /\ g = [i \in DOMAIN v |-> g[i]]
      /\ \A i \in DOMAIN v : g[i] = [interval |-> DurationOf(v[i], "Interval")[1],
                                     count |-> NumberOf(v[i], "Count")[1]]
  OBVIOUS
<1>3. \A r \in ToSet(v) : RestartReadable(r)  BY DEF SettingsReadable
<1>4. v = Child(n, "RestartOnFailure")  OBVIOUS
<1> HIDE DEF v, g
<1>5. /\ IsOption(g) /\ \A i \in DOMAIN v : Grown(v[i], S) /\ v[i] \in ToSet(v)
      /\ \A x : x \in ToSet(g) <=> \E i \in DOMAIN v : x = g[i]
  BY <1>2, <1>4, PartFound
<1>6. ASSUME NEW i \in DOMAIN v  PROVE IsRestart(g[i])
  <2> DEFINE r == v[i]
             a == DurationOf(r, "Interval")[1]
             b == NumberOf(r, "Count")[1]
  <2>1. Grown(r, S) /\ RestartReadable(r)  BY <1>3, <1>5
  <2>2. g[i] = [interval |-> a, count |-> b]  BY <1>2
  <2> HIDE DEF r
  <2>3. IsDuration(a)  BY <2>1, RequiredDuration DEF RestartReadable
  <2>4. IsNumber(b) /\ b <= U8  BY <2>1, RequiredNumber DEF RestartReadable, U8
  <2> HIDE DEF a, b
  <2>5. g[i].interval = a /\ g[i].count = b  BY <2>2
  <2>6. QED  BY <2>2, <2>3, <2>4, <2>5 DEF IsRestart
<1>7. QED  BY <1>1, <1>5, <1>6

LEMMA MaintenanceTyped ==
  ASSUME NEW S, NEW n, Grown(n, S), SettingsReadable(n)
  PROVE  /\ IsOption(SettingsOf(n).maintenance)
         /\ \A m \in ToSet(SettingsOf(n).maintenance) : IsMaintenance(m)
<1> DEFINE v == Child(n, "MaintenanceSettings")
           g == [i \in DOMAIN v |-> [period |-> DurationOf(v[i], "Period")[1],
                                     deadline |-> DurationOf(v[i], "Deadline")[1],
                                     exclusive |-> BoolOf(v[i], "Exclusive", FALSE)]]
<1>1. SettingsOf(n).maintenance = g  BY DEF SettingsOf, Each
<1>2. /\ g = [i \in DOMAIN v |-> g[i]]
      /\ \A i \in DOMAIN v : g[i] = [period |-> DurationOf(v[i], "Period")[1],
                                     deadline |-> DurationOf(v[i], "Deadline")[1],
                                     exclusive |-> BoolOf(v[i], "Exclusive", FALSE)]
  OBVIOUS
<1>3. \A m \in ToSet(v) : MaintenanceReadable(m)  BY DEF SettingsReadable
<1>4. v = Child(n, "MaintenanceSettings")  OBVIOUS
<1> HIDE DEF v, g
<1>5. /\ IsOption(g) /\ \A i \in DOMAIN v : Grown(v[i], S) /\ v[i] \in ToSet(v)
      /\ \A x : x \in ToSet(g) <=> \E i \in DOMAIN v : x = g[i]
  BY <1>2, <1>4, PartFound
<1>6. ASSUME NEW i \in DOMAIN v  PROVE IsMaintenance(g[i])
  <2> DEFINE r == v[i]
             a == DurationOf(r, "Period")[1]
             b == DurationOf(r, "Deadline")[1]
             c == BoolOf(r, "Exclusive", FALSE)
  <2>1. Grown(r, S) /\ MaintenanceReadable(r)  BY <1>3, <1>5
  <2>2. g[i] = [period |-> a, deadline |-> b, exclusive |-> c]  BY <1>2
  <2> HIDE DEF r
  <2>3. IsDuration(a) /\ IsDuration(b)  BY <2>1, RequiredDuration DEF MaintenanceReadable
  <2>4. c \in BOOLEAN  BY <2>1, FlagFoundIn
  <2> HIDE DEF a, b, c
  <2>5. g[i].period = a /\ g[i].deadline = b /\ g[i].exclusive = c  BY <2>2
  <2>6. QED  BY <2>2, <2>3, <2>4, <2>5 DEF IsMaintenance
<1>7. QED  BY <1>1, <1>5, <1>6

\* An element without children.
LEMMA NothingGrown ==
  ASSUME NEW S, Hereditary(S)
  PROVE  /\ Grown(Nothing, S) /\ \A name : Child(Nothing, name) = None
         /\ \A name : ChildText(Nothing, name) = None
<1> DEFINE n == Nothing
<1>1. n.kids = <<>>  BY DEF Nothing, Node, Tag
<1>2. IsList(<<>>) /\ ToSet(<<>>) = {} /\ DOMAIN <<>> = {}  BY DEF IsList, ToSet
<1>3. \A name : Child(n, name) = None
  <2> TAKE name
  <2> HIDE DEF n
  <2>1. {i \in DOMAIN n.kids : n.kids[i].name = name} = {}  BY <1>1, <1>2
  <2>2. QED  BY <2>1 DEF Child
<1>4. \A name : ChildText(n, name) = None
  <2> TAKE name
  <2> DEFINE v == Child(n, name)
  <2>1. ChildText(n, name) = [i \in DOMAIN v |-> v[i].text]  BY DEF ChildText, Each
  <2>2. v = <<>>  BY <1>3 DEF None
  <2> HIDE DEF v
  <2>3. QED  BY <2>1, <2>2, <1>2 DEF None
<1> HIDE DEF n
<1>5. Grown(n, S)  BY <1>1, <1>2 DEF Grown
<1>6. QED  BY <1>3, <1>4, <1>5 DEF n

LEMMA NothingReadable == IdleReadable(Nothing) /\ SettingsReadable(Nothing)
<1> DEFINE n == Nothing
<1>1. Hereditary({})  BY DEF Hereditary
<1>2. \A name : Child(n, name) = None /\ ChildText(n, name) = None  BY <1>1, NothingGrown
<1>3. ToSet(None) = {} /\ DOMAIN None = {}  BY DEF ToSet, None
<1> HIDE DEF n
<1>4. \A name : BoolReadable(n, name) /\ DurationReadable(n, name) /\ NumberReadable(n, name, U8)
  BY <1>2, <1>3 DEF BoolReadable, DurationReadable, NumberReadable
<1>5. BoolOf(n, "RunOnlyIfIdle", FALSE) = FALSE
  <2> DEFINE v == ChildText(n, "RunOnlyIfIdle")
             g == [i \in DOMAIN v |-> v[i] \in {"true", "1"}]
  <2>1. BoolOf(n, "RunOnlyIfIdle", FALSE) = OrElse(g, FALSE)  BY DEF BoolOf, Each
  <2>2. v = None  BY <1>2
  <2> HIDE DEF v
  <2>3. g = None  BY <1>3, <2>2 DEF None
  <2>4. QED  BY <2>1, <2>3 DEF OrElse
<1>6. QED  BY <1>2, <1>3, <1>4, <1>5 DEF IdleReadable, SettingsReadable, n

LEMMA IdleFound ==
  ASSUME NEW S, NEW n, Grown(n, S), SettingsReadable(n)
  PROVE  IsOption(IdleOf(n)) /\ \A idle \in ToSet(IdleOf(n)) : IsIdle(idle)
<1> DEFINE v == Child(n, "IdleSettings")
           idle == OrElse(v, Nothing)
           a == OrElse(DurationOf(idle, "Duration"), DefaultIdle.duration)
           b == OrElse(DurationOf(idle, "WaitTimeout"), DefaultIdle.wait_timeout)
           c == BoolOf(idle, "StopOnIdleEnd", DefaultIdle.stop_on_idle_end)
           e == BoolOf(idle, "RestartOnIdle", DefaultIdle.restart_on_idle)
           x == [duration |-> a, wait_timeout |-> b, stop_on_idle_end |-> c,
                 restart_on_idle |-> e]
<1>1. CASE ~BoolOf(n, "RunOnlyIfIdle", FALSE)
  <2>1. IdleOf(n) = None  BY <1>1 DEF IdleOf
  <2>2. QED  BY <2>1 DEF IsOption, None, ToSet
<1>2. CASE BoolOf(n, "RunOnlyIfIdle", FALSE)
  <2>1. IdleOf(n) = Some(x)  BY <1>2 DEF IdleOf
  <2>2. IsOption(v) /\ \A kid \in ToSet(v) : Grown(kid, S)  BY ChildFound
  <2>3. \A kid \in ToSet(v) : IdleReadable(kid)  BY <1>2 DEF SettingsReadable
  <2>4. Hereditary(S)  BY DEF Grown
  <2>5. Grown(idle, S) /\ IdleReadable(idle)
    <3> HIDE DEF v
    <3>1. CASE v = None  BY <2>4, <3>1, NothingGrown, NothingReadable DEF OrElse
    <3>2. CASE v # None  BY <2>2, <2>3, <3>2, FirstOf DEF OrElse
    <3>3. QED  BY <3>1, <3>2
  <2> HIDE DEF idle
  <2>6. IsDuration(DefaultIdle.duration) /\ IsDuration(DefaultIdle.wait_timeout)
    BY TaskXmlAssumption DEF DefaultIdle
  <2>7. DefaultIdle.stop_on_idle_end \in BOOLEAN /\ DefaultIdle.restart_on_idle \in BOOLEAN
    BY DEF DefaultIdle
  <2>8. IsDuration(a) /\ IsDuration(b)
    BY <2>5, <2>6, DurationOrDefault DEF IdleReadable
  <2>9. c \in BOOLEAN /\ e \in BOOLEAN  BY <2>5, <2>7, FlagFoundIn
  <2> HIDE DEF a, b, c, e
  <2>10. /\ x.duration = a /\ x.wait_timeout = b /\ x.stop_on_idle_end = c
         /\ x.restart_on_idle = e
    OBVIOUS
  <2>11. IsIdle(x)  BY <2>8, <2>9, <2>10 DEF IsIdle
  <2> HIDE DEF x
  <2>12. IdleOf(n) = <<x>>  BY <2>1 DEF Some
  <2> DEFINE o == IdleOf(n)
  <2>13. o = <<x>>  BY <2>12
  <2> HIDE DEF o
  <2>14. IsOption(o) /\ ToSet(o) = {x}  BY <2>13 DEF IsOption, Some, ToSet
  <2>15. QED  BY <2>11, <2>14 DEF o
<1>3. QED  BY <1>1, <1>2

LEMMA NetworkFound ==
  ASSUME NEW S, NEW n, Grown(n, S)
  PROVE  IsOption(NetworkOf(n)) /\ \A w \in ToSet(NetworkOf(n)) : IsNetwork(w)
<1> DEFINE v == Child(n, "NetworkSettings")
           network == OrElse(v, Nothing)
           a == ChildText(network, "Id")
           b == ChildText(network, "Name")
           x == [id |-> a, name |-> b]
<1>1. NetworkOf(n) = None \/ NetworkOf(n) = Some(x)  BY DEF NetworkOf
<1>2. IsOption(v) /\ \A kid \in ToSet(v) : Grown(kid, S)  BY ChildFound
<1>3. Hereditary(S)  BY DEF Grown
<1>4. Grown(network, S)
  <2> HIDE DEF v
  <2>1. CASE v = None  BY <1>3, <2>1, NothingGrown DEF OrElse
  <2>2. CASE v # None  BY <1>2, <2>2, FirstOf DEF OrElse
  <2>3. QED  BY <2>1, <2>2
<1> HIDE DEF network
<1>5. IsOption(a) /\ IsOption(b)  BY <1>4, TextFound
<1> HIDE DEF a, b
<1>6. IsNetwork(x)  BY <1>5 DEF IsNetwork
<1> HIDE DEF x
<1> DEFINE o == NetworkOf(n)
<1>7. o = <<>> \/ o = <<x>>  BY <1>1 DEF None, Some
<1> HIDE DEF o
<1>8. IsOption(o) /\ ToSet(o) \subseteq {x}
  BY <1>7 DEF IsOption, None, Some, ToSet
<1>9. QED  BY <1>6, <1>8 DEF o

LEMMA SettingsTyped ==
  ASSUME NEW S, NEW n, Grown(n, S), SettingsReadable(n)
  PROVE  IsSettings(SettingsOf(n))
<1> DEFINE s == SettingsOf(n)
           names == DOMAIN AbsentFlags
           f == [name \in names |-> BoolOf(n, name, AbsentFlags[name])]
           p == OrElse(ChildText(n, "MultipleInstancesPolicy"), "IgnoreNew")
           w == NetworkOf(n)
           l == OrElse(LimitOf(n, "ExecutionTimeLimit"), DefaultLimit)
           x == DurationOf(n, "DeleteExpiredTaskAfter")
           y == OrElse(NumberOf(n, "Priority"), 7)
           i == IdleOf(n)
           r == SettingsOf(n).restart_on_failure
           m == SettingsOf(n).maintenance
<1>1. s = [flags |-> f, restart_on_failure |-> r, multiple_instances |-> p, network |-> w,
           execution_time_limit |-> l, delete_expired_after |-> x, priority |-> y,
           idle |-> i, maintenance |-> m]
  BY DEF SettingsOf
<1>2. names = DOMAIN DefaultFlags /\ \A name \in names : AbsentFlags[name] \in BOOLEAN
  <2>1. DefaultFlags \in [DOMAIN DefaultFlags -> BOOLEAN]
    <3>1. \A name \in DOMAIN DefaultFlags : DefaultFlags[name] \in BOOLEAN
      <4>1. DOMAIN DefaultFlags =
              {"AllowStartOnDemand", "DisallowStartIfOnBatteries",
             "StopIfGoingOnBatteries", "AllowHardTerminate", "StartWhenAvailable",
             "Enabled", "WakeToRun", "Hidden", "UseUnifiedSchedulingEngine",
             "DisallowStartOnRemoteAppSession", "Volatile"}
        BY DEF DefaultFlags
      <4>2. /\ DefaultFlags["AllowStartOnDemand"] \in BOOLEAN
          /\ DefaultFlags["DisallowStartIfOnBatteries"] \in BOOLEAN
          /\ DefaultFlags["StopIfGoingOnBatteries"] \in BOOLEAN
          /\ DefaultFlags["AllowHardTerminate"] \in BOOLEAN
          /\ DefaultFlags["StartWhenAvailable"] \in BOOLEAN
          /\ DefaultFlags["Enabled"] \in BOOLEAN
          /\ DefaultFlags["WakeToRun"] \in BOOLEAN
          /\ DefaultFlags["Hidden"] \in BOOLEAN
          /\ DefaultFlags["UseUnifiedSchedulingEngine"] \in BOOLEAN
          /\ DefaultFlags["DisallowStartOnRemoteAppSession"] \in BOOLEAN
          /\ DefaultFlags["Volatile"] \in BOOLEAN
        BY DEF DefaultFlags
      <4>3. QED  BY <4>1, <4>2
    <3>2. DefaultFlags = [name \in DOMAIN DefaultFlags |-> DefaultFlags[name]]
      BY DEF DefaultFlags
    <3>3. QED  BY <3>1, <3>2
  <2>2. AbsentFlags \in [DOMAIN DefaultFlags -> BOOLEAN]  BY <2>1 DEF AbsentFlags
  <2>3. QED  BY <2>2
<1>3. \A name \in names : BoolOf(n, name, AbsentFlags[name]) \in BOOLEAN
  BY <1>2, FlagFoundIn
<1>4. f \in [DOMAIN DefaultFlags -> BOOLEAN]  BY <1>2, <1>3
<1>5. p \in InstancePolicies
  <2>1. IsOption(ChildText(n, "MultipleInstancesPolicy"))  BY TextFound
  <2>2. ToSet(ChildText(n, "MultipleInstancesPolicy")) \subseteq InstancePolicies
    BY DEF SettingsReadable
  <2>3. "IgnoreNew" \in InstancePolicies  BY DEF InstancePolicies
  <2>4. QED  BY <2>1, <2>2, <2>3, OrDefault
<1>6. IsOption(w) /\ \A z \in ToSet(w) : IsNetwork(z)  BY NetworkFound
<1>7. IsLimit(l)
  <2> DEFINE T == {t \in {"unlimited"} \union DOMAIN Durations : IsLimit(t)}
             v == LimitOf(n, "ExecutionTimeLimit")
  <2>1. IsOption(v) /\ \A t \in ToSet(v) : IsLimit(t)  BY LimitFound DEF SettingsReadable
  <2>2. ToSet(v) \subseteq T  BY <2>1 DEF IsLimit, IsDuration
  <2>3. DefaultLimit \in T  BY TaskXmlAssumption DEF IsLimit, IsDuration
  <2> HIDE DEF T, v
  <2>4. OrElse(v, DefaultLimit) \in T  BY <2>1, <2>2, <2>3, OrDefault
  <2>5. QED  BY <2>4 DEF T, v
<1>8. IsDelay(x)  BY DelayFound DEF SettingsReadable
<1>9. IsNumber(y) /\ y <= U8
  <2> DEFINE T == {t \in Nat : IsNumber(t) /\ t <= U8}
             v == NumberOf(n, "Priority")
  <2>1. NumberReadable(n, "Priority", U8)  BY DEF SettingsReadable
  <2>2. ToSet(ChildText(n, "Priority")) \subseteq DOMAIN Numbers  BY <2>1 DEF NumberReadable
  <2>3. IsOption(v) /\ \A t \in ToSet(v) : IsNumber(t) /\ t <= U8  BY <2>1, <2>2, NumberFound
  <2>4. ToSet(v) \subseteq T  BY <2>3 DEF IsNumber
  <2>5. 7 \in T  BY TaskXmlAssumption DEF U8
  <2> HIDE DEF T, v
  <2>6. OrElse(v, 7) \in T  BY <2>3, <2>4, <2>5, OrDefault
  <2>7. QED  BY <2>6 DEF T, v
<1>10. IsOption(i) /\ \A z \in ToSet(i) : IsIdle(z)  BY IdleFound
<1>11. IsOption(r) /\ \A z \in ToSet(r) : IsRestart(z)  BY RestartTyped
<1>12. IsOption(m) /\ \A z \in ToSet(m) : IsMaintenance(z)  BY MaintenanceTyped
<1> HIDE DEF s, f, p, w, l, x, y, i, r, m
<1>13. /\ s.flags = f /\ s.restart_on_failure = r /\ s.multiple_instances = p /\ s.network = w
       /\ s.execution_time_limit = l /\ s.delete_expired_after = x /\ s.priority = y
       /\ s.idle = i /\ s.maintenance = m
  BY <1>1
<1>14. s = [flags |-> s.flags, restart_on_failure |-> s.restart_on_failure,
            multiple_instances |-> s.multiple_instances, network |-> s.network,
            execution_time_limit |-> s.execution_time_limit,
            delete_expired_after |-> s.delete_expired_after, priority |-> s.priority,
            idle |-> s.idle, maintenance |-> s.maintenance]
  BY <1>1, <1>13
<1>15. QED
  BY <1>4, <1>5, <1>6, <1>7, <1>8, <1>9, <1>10, <1>11, <1>12, <1>13, <1>14
  DEF IsSettings, s

\* The children of an element that are not known keep their places.
LEMMA ExtensionsTyped ==
  ASSUME NEW S, NEW n, Grown(n, S), NEW parent, NEW known,
         parent = "Task" => known = RootNames,
         parent = "Task/RegistrationInfo" => known = ToSet(RegistrationTexts),
         parent = "Task/Settings" => known = SettingNames
  PROVE  /\ IsList(ExtensionsFor(n, parent, known))
         /\ \A e \in ToSet(ExtensionsFor(n, parent, known)) : IsExtension(e, S)
<1> DEFINE s == n.kids
           P == [i \in DOMAIN s |-> IF s[i].name \in known THEN <<>>
                                    ELSE <<XmlExtension(parent, i - 1, s[i].xml)>>]
<1>1. ExtensionsFor(n, parent, known) = FlattenSeq(P)  BY DEF ExtensionsFor
<1>2. IsList(s) /\ \A i \in DOMAIN s : s[i] \in S  BY DEF Grown, ToSet
<1>3. P = [i \in DOMAIN s |-> P[i]]
      /\ \A i \in DOMAIN s : P[i] = IF s[i].name \in known THEN <<>>
                                    ELSE <<XmlExtension(parent, i - 1, s[i].xml)>>
  OBVIOUS
<1> HIDE DEF s, P
<1>4. IsList(P) /\ DOMAIN P = DOMAIN s  BY <1>2, <1>3, Mapped
<1>5. ASSUME NEW i \in DOMAIN s
      PROVE  IsList(P[i]) /\ \A e \in ToSet(P[i]) : IsExtension(e, S)
  <2>1. CASE s[i].name \in known
    <3>1. P[i] = <<>>  BY <1>3, <2>1
    <3>2. QED  BY <3>1 DEF IsList, ToSet
  <2>2. CASE s[i].name \notin known
    <3> DEFINE e == XmlExtension(parent, i - 1, s[i].xml)
    <3>1. P[i] = <<e>>  BY <1>3, <2>2
    <3>2. i \in Nat /\ i >= 1  BY <1>2, ListParts
    <3>3. e.parent = parent /\ e.ordinal = i - 1  BY DEF XmlExtension
    <3>4. e = XmlExtension(e.parent, e.ordinal, s[i].xml)  BY <3>3
    <3> HIDE DEF e
    <3>5. IsExtension(e, S)
      <4>1. s[i] \in S /\ e.ordinal \in Nat  BY <1>2, <3>2, <3>3
      <4>2. QED  BY <2>2, <3>3, <3>4, <4>1 DEF IsExtension
    <3>6. IsList(P[i]) /\ ToSet(P[i]) = {e}  BY <3>1 DEF IsList, ToSet
    <3>7. QED  BY <3>5, <3>6
  <2>3. QED  BY <2>1, <2>2
<1>6. Lists(P)  BY <1>4, <1>5 DEF Lists
<1>7. /\ IsList(FlattenSeq(P))
      /\ \A x : x \in ToSet(FlattenSeq(P)) <=> \E i \in DOMAIN P : x \in ToSet(P[i])
  BY <1>6, FlatParts
<1>8. QED  BY <1>1, <1>4, <1>5, <1>7

LEMMA PartExtensions ==
  ASSUME NEW S, NEW n, Grown(n, S), NEW name, NEW parent, NEW known,
         parent = "Task" => known = RootNames,
         parent = "Task/RegistrationInfo" => known = ToSet(RegistrationTexts),
         parent = "Task/Settings" => known = SettingNames,
         NEW v, v = Child(n, name),
         NEW P, P = [i \in DOMAIN v |-> ExtensionsFor(v[i], parent, known)]
  PROVE  IsList(FlattenSeq(P)) /\ \A e \in ToSet(FlattenSeq(P)) : IsExtension(e, S)
<1>1. P = [i \in DOMAIN v |-> P[i]]
      /\ \A i \in DOMAIN v : P[i] = ExtensionsFor(v[i], parent, known)
  OBVIOUS
<1>2. IsOption(v) /\ \A kid \in ToSet(v) : Grown(kid, S)  BY ChildFound
<1>3. IsList(P) /\ DOMAIN P = DOMAIN v  BY <1>1, <1>2, Mapped, Options
<1>4. ASSUME NEW i \in DOMAIN v
      PROVE  IsList(P[i]) /\ \A e \in ToSet(P[i]) : IsExtension(e, S)
  <2> DEFINE r == v[i]
  <2>1. Grown(r, S) /\ P[i] = ExtensionsFor(r, parent, known)  BY <1>1, <1>2 DEF ToSet
  <2> HIDE DEF r
  <2>2. QED  BY <2>1, ExtensionsTyped
<1>5. Lists(P)  BY <1>3, <1>4 DEF Lists
<1>6. /\ IsList(FlattenSeq(P))
      /\ \A x : x \in ToSet(FlattenSeq(P)) <=> \E i \in DOMAIN P : x \in ToSet(P[i])
  BY <1>5, FlatParts
<1>7. QED  BY <1>3, <1>4, <1>6

LEMMA AllExtensions ==
  ASSUME NEW S, NEW n, Grown(n, S)
  PROVE  IsList(ExtensionsOf(n)) /\ \A e \in ToSet(ExtensionsOf(n)) : IsExtension(e, S)
<1> DEFINE a == ExtensionsFor(n, "Task", RootNames)
           v == Child(n, "RegistrationInfo")
           P == [i \in DOMAIN v |-> ExtensionsFor(v[i], "Task/RegistrationInfo",
                                                  ToSet(RegistrationTexts))]
           b == FlattenSeq(P)
           w == Child(n, "Settings")
           Q == [i \in DOMAIN w |-> ExtensionsFor(w[i], "Task/Settings", SettingNames)]
           c == FlattenSeq(Q)
<1>1. ExtensionsOf(n) = a \o b \o c  BY DEF ExtensionsOf, Each
<1>2. IsList(a) /\ \A e \in ToSet(a) : IsExtension(e, S)  BY ExtensionsTyped
<1>3. IsList(b) /\ \A e \in ToSet(b) : IsExtension(e, S)
  <2> DEFINE parent == "Task/RegistrationInfo"
             known == ToSet(RegistrationTexts)
             name == "RegistrationInfo"
  <2>1. /\ parent = "Task" => known = RootNames
        /\ parent = "Task/RegistrationInfo" => known = ToSet(RegistrationTexts)
        /\ parent = "Task/Settings" => known = SettingNames
    OBVIOUS
  <2>2. v = Child(n, name) /\ P = [i \in DOMAIN v |-> ExtensionsFor(v[i], parent, known)]
    OBVIOUS
  <2> HIDE DEF parent, known, name, v, P
  <2>3. QED  BY <2>1, <2>2, PartExtensions
<1>4. IsList(c) /\ \A e \in ToSet(c) : IsExtension(e, S)
  <2> DEFINE parent == "Task/Settings"
             known == SettingNames
             name == "Settings"
  <2>1. /\ parent = "Task" => known = RootNames
        /\ parent = "Task/RegistrationInfo" => known = ToSet(RegistrationTexts)
        /\ parent = "Task/Settings" => known = SettingNames
    OBVIOUS
  <2>2. w = Child(n, name) /\ Q = [i \in DOMAIN w |-> ExtensionsFor(w[i], parent, known)]
    OBVIOUS
  <2> HIDE DEF parent, known, name, w, Q
  <2>3. QED  BY <2>1, <2>2, PartExtensions
<1> HIDE DEF a, b, c
<1>5. IsList(a \o b) /\ ToSet(a \o b) = ToSet(a) \union ToSet(b)  BY <1>2, <1>3, Concat
<1>6. IsList(a \o b \o c) /\ ToSet(a \o b \o c) = ToSet(a \o b) \union ToSet(c)
  BY <1>4, <1>5, Concat
<1>7. QED  BY <1>1, <1>2, <1>3, <1>4, <1>5, <1>6

\* The elements of a part of the document.
LEMMA KidsTyped ==
  ASSUME NEW S, NEW n, Grown(n, S), NEW name
  PROVE  IsList(KidsOf(n, name)) /\ ToSet(KidsOf(n, name)) \subseteq S
<1> DEFINE v == Child(n, name)
           P == [i \in DOMAIN v |-> v[i].kids]
<1>1. KidsOf(n, name) = FlattenSeq(P)  BY DEF KidsOf, Each
<1>2. IsOption(v) /\ \A kid \in ToSet(v) : Grown(kid, S)  BY ChildFound
<1>3. P = [i \in DOMAIN v |-> P[i]] /\ \A i \in DOMAIN v : P[i] = v[i].kids  OBVIOUS
<1> HIDE DEF v, P
<1>4. IsList(P) /\ DOMAIN P = DOMAIN v  BY <1>2, <1>3, Mapped, Options
<1>5. \A i \in DOMAIN v : IsList(P[i]) /\ ToSet(P[i]) \subseteq S
  BY <1>2, <1>3 DEF Grown, ToSet
<1>6. Lists(P)  BY <1>4, <1>5 DEF Lists
<1>7. /\ IsList(FlattenSeq(P))
      /\ \A x : x \in ToSet(FlattenSeq(P)) <=> \E i \in DOMAIN P : x \in ToSet(P[i])
  BY <1>6, FlatParts
<1>8. QED  BY <1>1, <1>4, <1>5, <1>7

LEMMA PrincipalFound ==
  ASSUME NEW S, NEW n, Grown(n, S)
  PROVE  IsOption(PrincipalNode(n)) /\ \A kid \in ToSet(PrincipalNode(n)) : Grown(kid, S)
<1> DEFINE v == Child(n, "Principals")
           P == [i \in DOMAIN v |-> Child(v[i], "Principal")]
<1>1. PrincipalNode(n) = FlattenSeq(P)  BY DEF PrincipalNode, Each
<1>2. IsOption(v) /\ \A kid \in ToSet(v) : Grown(kid, S)  BY ChildFound
<1>3. P = [i \in DOMAIN v |-> P[i]] /\ \A i \in DOMAIN v : P[i] = Child(v[i], "Principal")
  OBVIOUS
<1> HIDE DEF v, P
<1>4. CASE v = None
  <2>1. DOMAIN v = {} /\ IsList(v)  BY <1>2, <1>4, Options
  <2>2. IsList(P) /\ DOMAIN P = {}  BY <1>3, <2>1, Mapped
  <2>3. FlattenSeq(P) = <<>>  BY <2>2, FlatNothing
  <2>4. QED  BY <1>1, <2>3 DEF IsOption, None, ToSet
<1>5. CASE v # None
  <2> DEFINE r == v[1]
             s == Child(r, "Principal")
  <2>1. DOMAIN v = {1} /\ r \in ToSet(v)  BY <1>2, <1>5, Options
  <2>2. Grown(r, S)  BY <1>2, <2>1
  <2> HIDE DEF r
  <2>3. IsOption(s) /\ \A kid \in ToSet(s) : Grown(kid, S)  BY <2>2, ChildFound
  <2>4. P = <<s>>
    <3>1. P = [i \in {1} |-> P[i]] /\ P[1] = s  BY <1>3, <2>1 DEF r
    <3> HIDE DEF s
    <3>2. QED  BY <3>1
  <2> HIDE DEF s
  <2>5. IsList(s)  BY <2>3, Options
  <2>6. FlattenSeq(<<s>>) = s  BY <2>5, FlatOne
  <2>7. QED  BY <1>1, <2>3, <2>4, <2>6
<1>6. QED  BY <1>4, <1>5

\* What definition_from_node makes of any element, whatever stands in it, has
\* the values of the model's types (TaskDefinition and its parts): names of the
\* schema's lists only, durations and limits of their forms, and under
\* extensions only elements that can be carried unread.
THEOREM DefinitionTyped ==
  ASSUME NEW S, Hereditary(S), NEW n \in S, Readable(n)
  PROVE  IsDefinition(DefinitionOf(n), S)
<1> DEFINE d == DefinitionOf(n)
           version == IF "version" \in DOMAIN n.attrs THEN n.attrs.version ELSE "1.2"
           v == Child(n, "RegistrationInfo")
           g == [i \in DOMAIN v |-> RegistrationOf(v[i])]
           r == OrElse(g, DefaultRegistration)
           ts == KidsOf(n, "Triggers")
           t == [i \in DOMAIN ts |-> TriggerOf(ts[i])]
           u == PrincipalNode(n)
           h == [i \in DOMAIN u |-> PrincipalOf(u[i])]
           p == OrElse(h, DefaultPrincipal)
           w == Child(n, "Settings")
           s == SettingsOf(OrElse(w, Nothing))
           x == ChildText(n, "Data")
           ks == KidsOf(n, "Actions")
           a == [i \in DOMAIN ks |-> ActionOf(ks[i])]
           e == ExtensionsOf(n)
<1>1. d = [schema_version |-> version, registration |-> r, triggers |-> t, principal |-> p,
           settings |-> s, data |-> x, actions |-> a, extensions |-> e]
  BY DEF DefinitionOf, Each
<1>2. Grown(n, S)  BY DEF Grown, Hereditary
<1>3. IsRegistration(r)
  <2>1. \A kid \in ToSet(v) : RegistrationReadable(kid)  BY DEF Readable
  <2>2. IsOption(v) /\ \A kid \in ToSet(v) : Grown(kid, S)  BY <1>2, ChildFound
  <2>3. g = [i \in DOMAIN v |-> g[i]] /\ \A i \in DOMAIN v : g[i] = RegistrationOf(v[i])
    OBVIOUS
  <2> HIDE DEF v, g
  <2>4. IsOption(g) /\ \A y : y \in ToSet(g) <=> \E i \in DOMAIN v : y = g[i]
    BY <2>2, <2>3, OptionOf
  <2>5. \A i \in DOMAIN v : IsRegistration(g[i])
    BY <2>1, <2>2, <2>3, RegistrationTyped DEF ToSet
  <2>6. CASE g = None  BY <2>6, DefaultRegistrationTyped DEF OrElse
  <2>7. CASE g # None  BY <2>4, <2>5, <2>7, FirstOf DEF OrElse
  <2>8. QED  BY <2>6, <2>7
<1>4. IsPrincipal(p)
  <2>1. \A kid \in ToSet(u) : PrincipalReadable(kid)  BY DEF Readable
  <2>2. IsOption(u) /\ \A kid \in ToSet(u) : Grown(kid, S)  BY <1>2, PrincipalFound
  <2>3. h = [i \in DOMAIN u |-> h[i]] /\ \A i \in DOMAIN u : h[i] = PrincipalOf(u[i])
    OBVIOUS
  <2> HIDE DEF u, h
  <2>4. IsOption(h) /\ \A y : y \in ToSet(h) <=> \E i \in DOMAIN u : y = h[i]
    BY <2>2, <2>3, OptionOf
  <2>5. \A i \in DOMAIN u : IsPrincipal(h[i])
    BY <2>1, <2>2, <2>3, PrincipalTyped DEF ToSet
  <2>6. CASE h = None  BY <2>6, DefaultPrincipalTyped DEF OrElse
  <2>7. CASE h # None  BY <2>4, <2>5, <2>7, FirstOf DEF OrElse
  <2>8. QED  BY <2>6, <2>7
<1>5. IsSettings(s)
  <2> DEFINE m == OrElse(w, Nothing)
  <2>1. \A kid \in ToSet(w) : SettingsReadable(kid)  BY DEF Readable
  <2>2. IsOption(w) /\ \A kid \in ToSet(w) : Grown(kid, S)  BY <1>2, ChildFound
  <2>3. Grown(m, S) /\ SettingsReadable(m)
    <3> HIDE DEF w
    <3>1. CASE w = None  BY <3>1, NothingGrown, NothingReadable DEF OrElse
    <3>2. CASE w # None  BY <2>1, <2>2, <3>2, FirstOf DEF OrElse
    <3>3. QED  BY <3>1, <3>2
  <2> HIDE DEF m
  <2>4. IsSettings(SettingsOf(m))  BY <2>3, SettingsTyped
  <2>5. QED  BY <2>4 DEF m
<1>6. IsOption(x)  BY <1>2, TextFound
<1>7. IsList(t) /\ Len(t) <= MaxTriggers /\ \A y \in ToSet(t) : IsTrigger(y, S)
  <2>1. IsList(ts) /\ ToSet(ts) \subseteq S  BY <1>2, KidsTyped
  <2>2. Len(ts) <= MaxTriggers /\ \A y \in ToSet(ts) : TriggerReadable(y)
    BY DEF Readable, TriggersReadable
  <2>3. t = [i \in DOMAIN ts |-> t[i]] /\ \A i \in DOMAIN ts : t[i] = TriggerOf(ts[i])
    OBVIOUS
  <2> HIDE DEF ts, t
  <2>4. /\ IsList(t) /\ Len(t) = Len(ts)
        /\ \A y : y \in ToSet(t) <=> \E i \in DOMAIN ts : y = t[i]
    BY <2>1, <2>3, Mapped
  <2>5. ASSUME NEW i \in DOMAIN ts  PROVE IsTrigger(t[i], S)
    <3>1. ts[i] \in S /\ TriggerReadable(ts[i])  BY <2>1, <2>2 DEF ToSet
    <3>2. TriggerTyped(ts[i], S)  BY <3>1, EveryTriggerTyped
    <3>3. QED  BY <2>3, <3>2 DEF TriggerTyped
  <2>6. QED  BY <2>2, <2>4, <2>5
<1>8. IsList(a) /\ Len(a) <= MaxActions /\ \A y \in ToSet(a) : IsAction(y, S)
  <2>1. IsList(ks) /\ ToSet(ks) \subseteq S  BY <1>2, KidsTyped
  <2>2. Len(ks) <= MaxActions /\ \A y \in ToSet(ks) : ActionReadable(y)
    BY DEF Readable, ActionsReadable
  <2>3. a = [i \in DOMAIN ks |-> a[i]] /\ \A i \in DOMAIN ks : a[i] = ActionOf(ks[i])
    OBVIOUS
  <2> HIDE DEF ks, a
  <2>4. /\ IsList(a) /\ Len(a) = Len(ks)
        /\ \A y : y \in ToSet(a) <=> \E i \in DOMAIN ks : y = a[i]
    BY <2>1, <2>3, Mapped
  <2>5. ASSUME NEW i \in DOMAIN ks  PROVE IsAction(a[i], S)
    <3>1. ks[i] \in S /\ ActionReadable(ks[i])  BY <2>1, <2>2 DEF ToSet
    <3>2. ActionTyped(ks[i], S)  BY <3>1, EveryActionTyped
    <3>3. QED  BY <2>3, <3>2 DEF ActionTyped
  <2>6. QED  BY <2>2, <2>4, <2>5
<1>9. IsList(e) /\ \A y \in ToSet(e) : IsExtension(y, S)  BY <1>2, AllExtensions
<1> HIDE DEF d, version, r, t, p, s, x, a, e
<1>10. /\ d.schema_version = version /\ d.registration = r /\ d.triggers = t
       /\ d.principal = p /\ d.settings = s /\ d.data = x /\ d.actions = a
       /\ d.extensions = e
  BY <1>1
<1>11. d = [schema_version |-> d.schema_version, registration |-> d.registration,
            triggers |-> d.triggers, principal |-> d.principal, settings |-> d.settings,
            data |-> d.data, actions |-> d.actions, extensions |-> d.extensions]
  BY <1>1, <1>10
<1>12. WithinLimits(d.triggers, d.actions)  BY <1>7, <1>8, <1>10 DEF WithinLimits
<1>13. QED
  BY <1>3, <1>4, <1>5, <1>6, <1>7, <1>8, <1>9, <1>10, <1>11, <1>12 DEF IsDefinition, d

-----------------------------------------------------------------------------
(***************************************************************************)
(* The reader as the machine that a written element drives: what it holds  *)
(* is what the events taken so far make of nothing.                        *)
(***************************************************************************)
Config == [stack |-> stack, root |-> root]
Empty0 == [stack |-> <<>>, root |-> <<>>]

\* An element is closed.
LEMMA AttachReceives ==
  ASSUME NEW node, NEW open, Attach(node, open), outcome = "reading",
         outcome' = "reading"
  PROVE  Config' = Receive([stack |-> open, root |-> root], Finished(node))
<1> DEFINE c == [stack |-> open, root |-> root]
           n == Finished(node)
<1>0. c.stack = open /\ c.root = root  OBVIOUS
<1>1. CASE open /= <<>>
  <2>1. stack' = [open EXCEPT ![Len(open)].kids = Append(@, n)] /\ root' = root
    BY <1>1 DEF Attach
  <2> HIDE DEF n, c
  <2>2. Receive(c, n) = [stack |-> stack', root |-> root']
    BY <1>0, <1>1, <2>1 DEF Receive
  <2>3. QED  BY <2>2 DEF Config, c, n
<1>2. CASE open = <<>>
  <2>1. stack' = <<>> /\ root' = <<n>>  BY <1>2 DEF Attach
  <2> HIDE DEF n, c
  <2>2. Receive(c, n) = [stack |-> stack', root |-> root']
    BY <1>0, <1>2, <2>1 DEF Receive
  <2>3. QED  BY <2>2 DEF Config, c, n
<1>3. QED  BY <1>1, <1>2

\* A text goes to the element that is open.
LEMMA TextReceived ==
  ASSUME NEW e, e.kind \in TextKinds, stack # <<>>, AppendText(e.text)
  PROVE  Config' = After(Config, e)
<1>1. e.kind \notin {"start", "empty", "end"}  BY DEF TextKinds
<1>2. /\ stack' = [stack EXCEPT ![Len(stack)].text = Joined(@, e.text)]
      /\ root' = root
  BY DEF AppendText
<1>3. Config.stack = stack /\ Config.root = root  BY DEF Config
<1>4. After(Config, e) = [stack |-> stack', root |-> root']
  BY <1>1, <1>2, <1>3 DEF After
<1>5. QED  BY <1>4 DEF Config

\* What changes nothing.
LEMMA NothingReceived ==
  ASSUME NEW e, e.kind \notin {"start", "empty", "end"},
         e.kind \in TextKinds => stack = <<>>, UNCHANGED <<stack, root>>
  PROVE  Config' = After(Config, e)
<1>1. Config.stack = stack  BY DEF Config
<1>2. After(Config, e) = Config  BY <1>1 DEF After
<1>3. QED  BY <1>2 DEF Config

\* An event is taken, and the document may go on.
Takes ==
  /\ outcome = "reading" /\ outcome' = "reading" /\ text' = text
  /\ at < Len(text) /\ at' = at + 1
  /\ Config' = After(Config, text[at + 1])
  /\ text[at + 1].kind = "end" => stack # <<>>

\* The document is accepted.
Ends ==
  /\ outcome = "reading" /\ outcome' = "accepted" /\ text' = text
  /\ at = Len(text) /\ at' = at /\ Config' = Config /\ root' # <<>>

LEMMA StartTakes == Start /\ outcome' \in {"reading", "accepted"} => Takes
<1> SUFFICES ASSUME Start, outcome' \in {"reading", "accepted"} PROVE Takes  OBVIOUS
<1>1. /\ outcome = "reading" /\ at < Len(text) /\ text[at + 1].kind = "start"
      /\ at' = at + 1 /\ text' = text
  BY DEF Start, Taking, Consume, Event
<1>2. ~TooMany  BY DEF Start, Refuse
<1>3. stack' = Append(stack, Node(text[at + 1])) /\ root' = root /\ outcome' = outcome
  BY <1>2 DEF Start, Event
<1>4. Config.stack = stack /\ Config.root = root  BY DEF Config
<1>5. After(Config, text[at + 1]) = [stack |-> stack', root |-> root']
  BY <1>1, <1>3, <1>4 DEF After, Push
<1>6. Config' = After(Config, text[at + 1])  BY <1>5 DEF Config
<1>7. QED  BY <1>1, <1>3, <1>6 DEF Takes

LEMMA EmptyTakes == Empty /\ outcome' \in {"reading", "accepted"} => Takes
<1> SUFFICES ASSUME Empty, outcome' \in {"reading", "accepted"} PROVE Takes  OBVIOUS
<1>1. /\ outcome = "reading" /\ at < Len(text) /\ text[at + 1].kind = "empty"
      /\ at' = at + 1 /\ text' = text
  BY DEF Empty, Taking, Consume, Event
<1>2. ~TooMany  BY DEF Empty, Refuse
<1>3. Attach(Node(text[at + 1]), stack)  BY <1>2 DEF Empty, Event
<1>4. outcome' = "reading"  BY <1>1, <1>3 DEF Attach
<1>5. Config' = Receive(Config, Finished(Node(text[at + 1])))
  BY <1>1, <1>3, <1>4, AttachReceives DEF Config
<1>6. Config' = After(Config, text[at + 1])  BY <1>1, <1>5 DEF After
<1>7. QED  BY <1>1, <1>4, <1>6 DEF Takes

LEMMA EndTakes == End /\ outcome' \in {"reading", "accepted"} => Takes
<1> SUFFICES ASSUME End, outcome' \in {"reading", "accepted"} PROVE Takes  OBVIOUS
<1>1. /\ outcome = "reading" /\ at < Len(text) /\ text[at + 1].kind = "end"
      /\ at' = at + 1 /\ text' = text
  BY DEF End, Taking, Consume, Event
<1>2. stack # <<>>  BY DEF End, Refuse
<1>3. Attach(stack[Len(stack)], Front(stack))  BY <1>2 DEF End, Top
<1>4. outcome' = "reading"  BY <1>1, <1>3 DEF Attach
<1>5. Config' = Receive([stack |-> Front(stack), root |-> root],
                        Finished(stack[Len(stack)]))
  BY <1>1, <1>3, <1>4, AttachReceives
<1>6. Config.stack = stack /\ Config.root = root  BY DEF Config
<1>7. Config' = After(Config, text[at + 1])  BY <1>1, <1>5, <1>6 DEF After
<1>8. QED  BY <1>1, <1>2, <1>4, <1>7 DEF Takes

LEMMA TextTakes == Text /\ outcome' \in {"reading", "accepted"} => Takes
<1> SUFFICES ASSUME Text, outcome' \in {"reading", "accepted"} PROVE Takes  OBVIOUS
<1>0. PICK kind \in {"text", "blank", "cdata"} :
        /\ Taking(kind) /\ Consume
        /\ CASE stack /= <<>> -> AppendText(Event.text)
             [] stack = <<>> /\ kind = "text" -> Refuse
             [] OTHER -> UNCHANGED <<stack, root, nodes, outcome>>
  BY DEF Text
<1>1. /\ outcome = "reading" /\ at < Len(text) /\ text[at + 1].kind = kind
      /\ at' = at + 1 /\ text' = text
  BY <1>0 DEF Taking, Consume, Event
<1>2. kind \in TextKinds /\ kind \notin {"start", "empty", "end"}  BY DEF TextKinds
<1>3. CASE stack # <<>>
  <2>1. AppendText(text[at + 1].text)  BY <1>0, <1>3 DEF Event
  <2>2. outcome' = "reading"  BY <1>1, <2>1 DEF AppendText
  <2>3. Config' = After(Config, text[at + 1])  BY <1>1, <1>2, <1>3, <2>1, TextReceived
  <2>4. QED  BY <1>1, <1>2, <2>2, <2>3 DEF Takes
<1>4. CASE stack = <<>>
  <2>1. UNCHANGED <<stack, root, nodes, outcome>>  BY <1>0, <1>4 DEF Refuse
  <2>2. Config' = After(Config, text[at + 1])  BY <1>1, <1>2, <1>4, <2>1, NothingReceived
  <2>3. QED  BY <1>1, <1>2, <2>1, <2>2 DEF Takes
<1>5. QED  BY <1>3, <1>4

LEMMA ReferenceTakes == Reference /\ outcome' \in {"reading", "accepted"} => Takes
<1> SUFFICES ASSUME Reference, outcome' \in {"reading", "accepted"} PROVE Takes  OBVIOUS
<1>1. /\ outcome = "reading" /\ at < Len(text) /\ text[at + 1].kind = "reference"
      /\ at' = at + 1 /\ text' = text
  BY DEF Reference, Taking, Consume, Event
<1>2. stack # <<>> /\ AppendText(text[at + 1].text)  BY DEF Reference, Refuse, Event
<1>3. outcome' = "reading"  BY <1>1, <1>2 DEF AppendText
<1>4. "reference" \in TextKinds  BY DEF TextKinds
<1>5. Config' = After(Config, text[at + 1])  BY <1>1, <1>2, <1>4, TextReceived
<1>6. QED  BY <1>1, <1>3, <1>5 DEF Takes

LEMMA CommentTakes == Comment => Takes
<1> SUFFICES ASSUME Comment PROVE Takes  OBVIOUS
<1>1. /\ outcome = "reading" /\ at < Len(text) /\ text[at + 1].kind = "comment"
      /\ at' = at + 1 /\ text' = text /\ UNCHANGED <<stack, root, nodes, outcome>>
  BY DEF Comment, Taking, Consume, Event
<1>2. "comment" \notin TextKinds  BY DEF TextKinds
<1>3. Config' = After(Config, text[at + 1])  BY <1>1, <1>2, NothingReceived
<1>4. QED  BY <1>1, <1>3 DEF Takes

LEMMA ReadGoes ==
  ASSUME Read, outcome' \in {"reading", "accepted"}
  PROVE  Takes \/ Ends
<1>1. CASE Eof  BY <1>1 DEF Eof, Ends, Config
<1>2. CASE Illegal  BY <1>2 DEF Illegal, Refuse
<1>3. QED  BY <1>1, <1>2, StartTakes, EmptyTakes, EndTakes, TextTakes,
              ReferenceTakes, CommentTakes DEF Read

\* An element that is read: everything below it can be carried unread.
OpenIn(n, S) ==
  /\ n = OpenNode(n.name, n.attrs, n.kids, n.text)
  /\ IsList(n.kids) /\ ToSet(n.kids) \subseteq S

Standing(c) ==
  \E S : /\ Hereditary(S)
         /\ IsList(c.stack) /\ \A i \in DOMAIN c.stack : OpenIn(c.stack[i], S)
         /\ c.root # <<>> => \E n \in S : c.root = <<n>>

\* An element that is closed.
LEMMA FinishedIn ==
  ASSUME NEW S, Hereditary(S), NEW node, OpenIn(node, S)
  PROVE  Hereditary(S \union {Finished(node)})
<1> DEFINE n == Finished(node)
<1>1. node = OpenNode(node.name, node.attrs, node.kids, node.text)
      /\ IsList(node.kids) /\ ToSet(node.kids) \subseteq S
  BY DEF OpenIn
<1>2. n = [name |-> node.name, attrs |-> node.attrs, kids |-> node.kids,
           text |-> node.text, xml |-> NodeXml(node)]
  BY <1>1 DEF Finished, OpenNode
<1> HIDE DEF n
<1>3. n.kids = node.kids /\ n.name = node.name /\ n.attrs = node.attrs /\ n.text = node.text
  BY <1>2
<1>4. NodeXml(n) = NodeXml(node)  BY <1>3 DEF NodeXml
<1>5. n = [name |-> n.name, attrs |-> n.attrs, kids |-> n.kids, text |-> n.text,
           xml |-> NodeXml(n)]
  BY <1>2, <1>3, <1>4
<1>6. IsList(n.kids) /\ ToSet(n.kids) \subseteq S  BY <1>1, <1>3
<1>7. Hereditary(S \union {n})  BY <1>5, <1>6, MirrorReads
<1>8. QED  BY <1>7 DEF n

LEMMA OpenMore ==
  ASSUME NEW S, NEW U, S \subseteq U, NEW n, OpenIn(n, S)
  PROVE  OpenIn(n, U)
BY DEF OpenIn

\* The parent of a closed element, or nothing.
LEMMA StandingReceives ==
  ASSUME NEW c, IsConfig(c), NEW S, Hereditary(S), NEW n \in S,
         \A i \in DOMAIN c.stack : OpenIn(c.stack[i], S),
         c.root # <<>> => \E m \in S : c.root = <<m>>
  PROVE  Standing(Receive(c, n)) /\ IsConfig(Receive(c, n))
<1>0. IsList(c.stack)  BY DEF IsConfig
<1>1. CASE c.stack = <<>>
  <2> DEFINE r == Receive(c, n)
  <2>1. r = [stack |-> <<>>, root |-> <<n>>]  BY <1>1 DEF Receive
  <2> HIDE DEF r
  <2>2. r.stack = <<>> /\ r.root = <<n>>  BY <2>1
  <2>3. IsList(<<>>) /\ DOMAIN <<>> = {}  BY DEF IsList, ToSet
  <2>4. Standing(r) /\ IsConfig(r)  BY <2>1, <2>2, <2>3 DEF Standing, IsConfig
  <2>5. QED  BY <2>4 DEF r
<1>2. CASE c.stack # <<>>
  <2> DEFINE k == Len(c.stack)
             old == c.stack[k]
             new == [old EXCEPT !.kids = Append(@, n)]
             s == [c.stack EXCEPT ![k] = new]
             r == Receive(c, n)
  <2>1. r = [stack |-> s, root |-> c.root]  BY <1>2 DEF Receive
  <2>2. k \in DOMAIN c.stack /\ DOMAIN c.stack = 1..k /\ k \in Nat
    BY <1>0, <1>2, ListParts, EmptySeq DEF IsList
  <2>3. OpenIn(old, S)  BY <2>2
  <2>4. new = OpenNode(old.name, old.attrs, Append(old.kids, n), old.text)
    BY <2>3 DEF OpenIn, OpenNode
  <2>5. IsList(Append(old.kids, n)) /\ ToSet(Append(old.kids, n)) \subseteq S
    <3>1. old.kids \in Seq(S)  
      <4>1. old.kids \in Seq(ToSet(old.kids)) /\ ToSet(old.kids) \subseteq S
        BY <2>3 DEF OpenIn, IsList
      <4>2. QED  BY <4>1
    <3>2. Append(old.kids, n) \in Seq(S)  BY <3>1, AppendProperties
    <3>3. IsList(Append(old.kids, n))  BY <3>2, ToList
    <3>4. \A i \in DOMAIN Append(old.kids, n) : Append(old.kids, n)[i] \in S
      BY <3>2, LenProperties, ElementOfSeq
    <3>5. QED  BY <3>3, <3>4 DEF ToSet
  <2> HIDE DEF old
  <2>6. OpenIn(new, S)
    <3> HIDE DEF new
    <3>1. /\ new.name = old.name /\ new.attrs = old.attrs /\ new.text = old.text
          /\ new.kids = Append(old.kids, n)
      BY <2>4 DEF OpenNode
    <3>2. QED  BY <2>4, <2>5, <3>1 DEF OpenIn
  <2> HIDE DEF new
  <2>7. IsList(s) /\ DOMAIN s = 1..k /\ \A i \in DOMAIN s : OpenIn(s[i], S)
    <3>1. c.stack \in Seq(ToSet(c.stack) \union {new})
      <4>1. c.stack \in Seq(ToSet(c.stack))  BY <1>0 DEF IsList
      <4>2. QED  BY <4>1
    <3>2. s \in Seq(ToSet(c.stack) \union {new})  BY <2>2, <3>1, ExceptSeq
    <3>3. DOMAIN s = 1..k /\ \A i \in 1..k : s[i] = IF i = k THEN new ELSE c.stack[i]
      BY <2>2
    <3>4. QED  BY <2>2, <2>6, <3>2, <3>3, ToList
  <2> HIDE DEF s, r, k
  <2>8. r.stack = s /\ r.root = c.root  BY <2>1
  <2>9. Standing(r) /\ IsConfig(r)  BY <2>1, <2>7, <2>8 DEF Standing, IsConfig
  <2>10. QED  BY <2>9 DEF r
<1>3. QED  BY <1>1, <1>2

\* The node of a tag has nothing below it yet.
LEMMA TagOpen ==
  ASSUME NEW e, NEW S
  PROVE  OpenIn(Node(e), S)
<1> DEFINE n == Node(e)
<1>1. n = [name |-> e.name, attrs |-> ReadAttributes(e.attrs), kids |-> <<>>, text |-> "", xml |-> <<>>]
  BY DEF Node
<1> HIDE DEF n
<1>2. n = OpenNode(n.name, n.attrs, n.kids, n.text) /\ n.kids = <<>>
  BY <1>1 DEF OpenNode
<1>3. IsList(<<>>) /\ ToSet(<<>>) \subseteq S  BY DEF IsList, ToSet
<1>4. OpenIn(n, S)  BY <1>2, <1>3 DEF OpenIn
<1>5. QED  BY <1>4 DEF n

LEMMA StandingPush ==
  ASSUME NEW c, IsConfig(c), NEW S, Hereditary(S),
         \A i \in DOMAIN c.stack : OpenIn(c.stack[i], S),
         c.root # <<>> => \E m \in S : c.root = <<m>>,
         NEW n, OpenIn(n, S)
  PROVE  Standing(Push(c, n)) /\ IsConfig(Push(c, n))
<1> DEFINE s == Append(c.stack, n)
           r == Push(c, n)
<1>1. r = [stack |-> s, root |-> c.root]  BY DEF Push
<1>2. IsList(c.stack)  BY DEF IsConfig
<1>3. c.stack \in Seq(ToSet(c.stack) \union {n}) /\ n \in ToSet(c.stack) \union {n}
  <2>1. c.stack \in Seq(ToSet(c.stack))  BY <1>2 DEF IsList
  <2>2. QED  BY <2>1
<1>4. /\ s \in Seq(ToSet(c.stack) \union {n}) /\ Len(s) = Len(c.stack) + 1
      /\ \A i \in 1..Len(c.stack) : s[i] = c.stack[i]
      /\ s[Len(c.stack) + 1] = n
  BY <1>3, AppendProperties
<1>5. Len(c.stack) \in Nat /\ DOMAIN c.stack = 1..Len(c.stack)  BY <1>2, ListParts
<1>6. IsList(s) /\ DOMAIN s = 1..(Len(c.stack) + 1)  BY <1>4, ToList, ListParts
<1>7. \A i \in DOMAIN s : OpenIn(s[i], S)
  <2>1. TAKE i \in DOMAIN s
  <2>2. i \in 1..Len(c.stack) \/ i = Len(c.stack) + 1  BY <1>5, <1>6
  <2> HIDE DEF s
  <2>3. CASE i \in 1..Len(c.stack)
    <3>1. s[i] = c.stack[i] /\ i \in DOMAIN c.stack  BY <1>4, <1>5, <2>3
    <3>2. QED  BY <3>1
  <2>4. CASE i = Len(c.stack) + 1
    <3>1. s[i] = n  BY <1>4, <2>4
    <3>2. QED  BY <3>1
  <2>5. QED  BY <2>2, <2>3, <2>4
<1> HIDE DEF s, r
<1>8. r.stack = s /\ r.root = c.root  BY <1>1
<1>9. Standing(r) /\ IsConfig(r)  BY <1>1, <1>6, <1>7, <1>8 DEF Standing, IsConfig
<1>10. QED  BY <1>9 DEF r

\* An element that is finished goes to its parent.
LEMMA StandingFinish ==
  ASSUME NEW c, IsConfig(c), NEW S, Hereditary(S),
         \A i \in DOMAIN c.stack : OpenIn(c.stack[i], S),
         c.root # <<>> => \E m \in S : c.root = <<m>>,
         NEW n, OpenIn(n, S)
  PROVE  Standing(Receive(c, Finished(n))) /\ IsConfig(Receive(c, Finished(n)))
<1> DEFINE U == S \union {Finished(n)}
<1>1. Hereditary(U)  BY FinishedIn
<1>2. S \subseteq U /\ Finished(n) \in U  OBVIOUS
<1> HIDE DEF U
<1>3. \A i \in DOMAIN c.stack : OpenIn(c.stack[i], U)  BY <1>2, OpenMore
<1>4. QED  BY <1>1, <1>2, <1>3, StandingReceives

LEMMA StandingText ==
  ASSUME NEW c, IsConfig(c), c.stack # <<>>, NEW S, Hereditary(S),
         \A i \in DOMAIN c.stack : OpenIn(c.stack[i], S),
         c.root # <<>> => \E m \in S : c.root = <<m>>,
         NEW x, NEW r,
         r = [stack |-> [c.stack EXCEPT ![Len(c.stack)].text = x], root |-> c.root]
  PROVE  Standing(r) /\ IsConfig(r)
<1> DEFINE k == Len(c.stack)
           old == c.stack[k]
           new == [old EXCEPT !.text = x]
           s == [c.stack EXCEPT ![k] = new]
<1>0. IsList(c.stack)  BY DEF IsConfig
<1>1. r = [stack |-> s, root |-> c.root]  OBVIOUS
<1>2. k \in DOMAIN c.stack /\ DOMAIN c.stack = 1..k /\ k \in Nat
  BY <1>0, ListParts, EmptySeq DEF IsList
<1>3. OpenIn(old, S)  BY <1>2
<1>4. new = OpenNode(old.name, old.attrs, old.kids, x)
  BY <1>3 DEF OpenIn, OpenNode
<1> HIDE DEF old
<1>5. OpenIn(new, S)
  <2> HIDE DEF new
  <2>1. /\ new.name = old.name /\ new.attrs = old.attrs /\ new.text = x
        /\ new.kids = old.kids
    BY <1>4 DEF OpenNode
  <2>2. QED  BY <1>3, <1>4, <2>1 DEF OpenIn
<1> HIDE DEF new
<1>6. IsList(s) /\ DOMAIN s = 1..k /\ \A i \in DOMAIN s : OpenIn(s[i], S)
  <2>1. c.stack \in Seq(ToSet(c.stack) \union {new})
    <3>1. c.stack \in Seq(ToSet(c.stack))  BY <1>0 DEF IsList
    <3>2. QED  BY <3>1
  <2>2. s \in Seq(ToSet(c.stack) \union {new})  BY <1>2, <2>1, ExceptSeq
  <2>3. DOMAIN s = 1..k /\ \A i \in 1..k : s[i] = IF i = k THEN new ELSE c.stack[i]
    BY <1>2
  <2>4. QED  BY <1>2, <1>5, <2>2, <2>3, ToList
<1> HIDE DEF s, k
<1>7. r.stack = s /\ r.root = c.root  BY <1>1
<1>8. QED  BY <1>1, <1>6, <1>7 DEF Standing, IsConfig

\* The element that is closed is no longer open.
LEMMA StandingPop ==
  ASSUME NEW c, IsConfig(c), c.stack # <<>>, NEW S,
         \A i \in DOMAIN c.stack : OpenIn(c.stack[i], S),
         NEW r, r = [stack |-> Front(c.stack), root |-> c.root]
  PROVE  /\ IsConfig(r) /\ \A i \in DOMAIN r.stack : OpenIn(r.stack[i], S)
         /\ r.root = c.root
         /\ OpenIn(c.stack[Len(c.stack)], S)
<1> DEFINE k == Len(c.stack)
           s == Front(c.stack)
<1>0. IsList(c.stack)  BY DEF IsConfig
<1>1. k \in DOMAIN c.stack /\ DOMAIN c.stack = 1..k /\ k \in Nat /\ k # 0
  BY <1>0, ListParts, EmptySeq DEF IsList
<1>2. c.stack \in Seq(ToSet(c.stack))  BY <1>0 DEF IsList
<1>3. s \in Seq(ToSet(c.stack)) /\ Len(s) = k - 1
      /\ \A i \in 1..(k - 1) : s[i] = c.stack[i]
  <2>1. s = SubSeq(c.stack, 1, k - 1)  BY DEF Front
  <2>2. QED  BY <1>1, <1>2, <2>1, SubSeqProperties
<1>4. IsList(s) /\ DOMAIN s = 1..(k - 1)  BY <1>3, ToList, ListParts
<1>5. \A i \in DOMAIN s : OpenIn(s[i], S)  BY <1>1, <1>3, <1>4
<1> HIDE DEF s, k
<1>6. r.stack = s /\ r.root = c.root  BY DEF s
<1>7. OpenIn(c.stack[k], S)  BY <1>1
<1>8. QED  BY <1>4, <1>5, <1>6, <1>7 DEF IsConfig, s, k

LEMMA StandingAfter ==
  ASSUME NEW c, IsConfig(c), Standing(c), NEW e, e.kind = "end" => c.stack # <<>>
  PROVE  Standing(After(c, e)) /\ IsConfig(After(c, e))
<1>1. PICK S : /\ Hereditary(S)
               /\ \A i \in DOMAIN c.stack : OpenIn(c.stack[i], S)
               /\ c.root # <<>> => \E n \in S : c.root = <<n>>
  BY DEF Standing
<1>2. CASE e.kind = "start"
  <2>1. After(c, e) = Push(c, Node(e))  BY <1>2 DEF After
  <2>2. QED  BY <1>1, <2>1, TagOpen, StandingPush
<1>3. CASE e.kind = "empty"
  <2>1. After(c, e) = Receive(c, Finished(Node(e)))  BY <1>3 DEF After
  <2>2. QED  BY <1>1, <2>1, TagOpen, StandingFinish
<1>4. CASE e.kind = "end"
  <2> DEFINE r == [stack |-> Front(c.stack), root |-> c.root]
             n == c.stack[Len(c.stack)]
  <2>1. After(c, e) = Receive(r, Finished(n))  BY <1>4 DEF After
  <2>2. /\ IsConfig(r) /\ \A i \in DOMAIN r.stack : OpenIn(r.stack[i], S)
        /\ r.root = c.root /\ OpenIn(n, S)
    BY <1>1, <1>4, StandingPop
  <2> HIDE DEF r, n
  <2>3. QED  BY <1>1, <2>1, <2>2, StandingFinish
<1>5. CASE e.kind \in TextKinds /\ c.stack # <<>>
  <2> DEFINE r == After(c, e)
  <2>1. r = [stack |-> [c.stack EXCEPT ![Len(c.stack)].text = Joined(@, e.text)],
             root |-> c.root]
    BY <1>5 DEF After, TextKinds
  <2> HIDE DEF r
  <2>2. r = [stack |-> [c.stack EXCEPT ![Len(c.stack)].text =
                          Joined(c.stack[Len(c.stack)].text, e.text)],
             root |-> c.root]
    BY <2>1
  <2>3. Standing(r) /\ IsConfig(r)  BY <1>1, <1>5, <2>2, StandingText
  <2>4. QED  BY <2>3 DEF r
<1>6. CASE e.kind \notin {"start", "empty", "end"} /\ ~(e.kind \in TextKinds /\ c.stack # <<>>)
  <2>1. After(c, e) = c  BY <1>6 DEF After
  <2>2. QED  BY <2>1
<1>7. QED  BY <1>2, <1>3, <1>4, <1>5, <1>6

-----------------------------------------------------------------------------
(***************************************************************************)
(* The invariant of the reader on one document.                            *)
(***************************************************************************)
\* A function that passes through what the reader holds after each event.
Traced(f) ==
  /\ f[0] = Empty0
  /\ \A k \in 1..Len(text) : f[k] = After(f[k - 1], text[k])

Answering == outcome \in {"reading", "accepted"}

Grows ==
  Answering =>
    /\ IsConfig(Config) /\ Standing(Config)
    /\ at \in 0..Len(text)
    /\ outcome = "accepted" => at = Len(text) /\ root # <<>>
    /\ \A f : Traced(f) => f[at] = Config

LEMMA NothingStands == Standing(Empty0) /\ IsConfig(Empty0)
<1>1. Empty0.stack = <<>> /\ Empty0.root = <<>>  BY DEF Empty0
<1>2. IsList(<<>>) /\ DOMAIN <<>> = {}  BY DEF IsList, ToSet
<1>3. Hereditary({})  BY DEF Hereditary
<1>4. QED  BY <1>1, <1>2, <1>3 DEF Standing, IsConfig, Empty0

LEMMA OpenGrows ==
  ASSUME NEW events, IsList(events), NEW bounds, Open(events, bounds)
  PROVE  Grows'
<1>1. /\ text' = events /\ at' = 0 /\ stack' = <<>> /\ root' = <<>>
      /\ outcome' \in {"refused", "reading"}
  BY DEF Open
<1>2. Config' = Empty0  BY <1>1 DEF Config, Empty0
<1>3. at' \in 0..Len(text')  BY <1>1, ListParts
<1>4. IsConfig(Config)' /\ Standing(Config)'
  <2>1. IsConfig(Config') /\ Standing(Config')  BY <1>2, NothingStands
  <2>2. QED  BY <2>1
<1>5. \A f : Traced(f)' => f[at'] = Config'  BY <1>1, <1>2 DEF Traced
<1>6. QED  BY <1>1, <1>3, <1>4, <1>5 DEF Grows

LEMMA TakesGrows ==
  ASSUME Grows, IsList(text), Takes
  PROVE  Grows'
<1>1. /\ outcome = "reading" /\ outcome' = "reading" /\ text' = text
      /\ at < Len(text) /\ at' = at + 1
      /\ Config' = After(Config, text[at + 1])
      /\ text[at + 1].kind = "end" => stack # <<>>
  BY DEF Takes
<1>2. /\ IsConfig(Config) /\ Standing(Config) /\ at \in 0..Len(text)
      /\ \A f : Traced(f) => f[at] = Config
  BY <1>1 DEF Grows, Answering
<1>3. Config.stack = stack  BY DEF Config
<1>4. IsConfig(Config)' /\ Standing(Config)'
  <2>1. IsConfig(Config') /\ Standing(Config')  BY <1>1, <1>2, <1>3, StandingAfter
  <2>2. QED  BY <2>1
<1>5. Len(text) \in Nat  BY ListParts
<1>6. at' \in 0..Len(text')  BY <1>1, <1>2, <1>5
<1>7. \A f : Traced(f)' => f[at'] = Config'
  <2>1. TAKE f
  <2>2. HAVE Traced(f)'
  <2>3. Traced(f)  BY <1>1, <2>2 DEF Traced
  <2>4. f[at] = Config  BY <1>2, <2>3
  <2>5. at + 1 \in 1..Len(text) /\ (at + 1) - 1 = at  BY <1>1, <1>2, <1>5
  <2>6. f[at + 1] = After(f[at], text[at + 1])  BY <2>3, <2>5 DEF Traced
  <2>7. QED  BY <1>1, <2>4, <2>6
<1>8. QED  BY <1>1, <1>4, <1>6, <1>7 DEF Grows

LEMMA EndsGrows ==
  ASSUME Grows, Ends
  PROVE  Grows'
<1>1. /\ outcome = "reading" /\ outcome' = "accepted" /\ text' = text
      /\ at = Len(text) /\ at' = at /\ Config' = Config /\ root' # <<>>
  BY DEF Ends
<1>2. /\ IsConfig(Config) /\ Standing(Config) /\ at \in 0..Len(text)
      /\ \A f : Traced(f) => f[at] = Config
  BY <1>1 DEF Grows, Answering
<1>3. IsConfig(Config)' /\ Standing(Config)'
  <2>1. IsConfig(Config') /\ Standing(Config')  BY <1>1, <1>2
  <2>2. QED  BY <2>1
<1>4. \A f : Traced(f)' => f[at'] = Config'
  <2>1. TAKE f
  <2>2. HAVE Traced(f)'
  <2>3. Traced(f)  BY <1>1, <2>2 DEF Traced
  <2>4. QED  BY <1>1, <1>2, <2>3
<1>5. QED  BY <1>1, <1>2, <1>3, <1>4 DEF Grows

LEMMA ReadGrows ==
  ASSUME Grows, IsList(text), Read
  PROVE  Grows'
<1>1. CASE outcome' \in {"reading", "accepted"}
  BY <1>1, ReadGoes, TakesGrows, EndsGrows
<1>2. CASE outcome' \notin {"reading", "accepted"}
  BY <1>2 DEF Grows, Answering
<1>3. QED  BY <1>1, <1>2

LEMMA GrowsOn == Grows /\ UNCHANGED readerVars => Grows'
<1> SUFFICES ASSUME Grows, UNCHANGED readerVars PROVE Grows'  OBVIOUS
<1>1. UNCHANGED <<text, at, stack, root, outcome>>  BY DEF readerVars
<1>2. Config' = Config  BY <1>1 DEF Config
<1>3. IsConfig(Config)' <=> IsConfig(Config)
  <2>1. IsConfig(Config') <=> IsConfig(Config)  BY <1>2
  <2>2. QED  BY <2>1
<1>4. Standing(Config)' <=> Standing(Config)
  <2>1. Standing(Config') <=> Standing(Config)  BY <1>2
  <2>2. QED  BY <2>1
<1>5. \A f : Traced(f)' <=> Traced(f)  BY <1>1 DEF Traced
<1>6. QED  BY <1>1, <1>2, <1>3, <1>4, <1>5 DEF Grows, Answering

\* A document that was written as an element is read as this element; and
\* whatever was read can be carried unread.
LEMMA ReadAsWritten ==
  ASSUME Grows, outcome = "accepted", NEW n, Reads(text, n)
  PROVE  root = <<n>>
<1>1. /\ at = Len(text) /\ \A f : Traced(f) => f[at] = Config
  BY DEF Grows, Answering
<1>2. Runs(text, Empty0, Receive(Empty0, n))  BY NothingStands DEF Reads
<1>3. PICK f : /\ f[0] = Empty0 /\ f[Len(text)] = Receive(Empty0, n)
               /\ \A k \in 1..Len(text) : f[k] = After(f[k - 1], text[k])
  BY <1>2 DEF Runs
<1>4. f[at] = Config  BY <1>1, <1>3 DEF Traced
<1>5. Receive(Empty0, n) = [stack |-> <<>>, root |-> <<n>>]  BY DEF Receive, Empty0
<1>6. QED  BY <1>1, <1>3, <1>4, <1>5 DEF Config

LEMMA RootStands ==
  ASSUME Grows, outcome = "accepted"
  PROVE  \E S : Hereditary(S) /\ \E n \in S : root = <<n>>
<1>1. Standing(Config) /\ root # <<>>  BY DEF Grows, Answering
<1>2. Config.root = root  BY DEF Config
<1>3. QED  BY <1>1, <1>2 DEF Standing

-----------------------------------------------------------------------------
(***************************************************************************)
(* The definitions that enter the codec are those that the types allow.    *)
(***************************************************************************)
LEMMA Lawful == Legal
BY CalendarAssumption, ExpressionsAssumption DEF Legal

\* Elements that programs carry unread are read back as they are.
LEMMA UnreadStands == Hereditary(ToSet(Unread))
<1> DEFINE U(k) == {Unread[j] : j \in 1..k}
           n == Len(Unread)
           B == {k \in 0..n : Hereditary(U(k))}
<1>1. IsList(Unread)  BY DefinitionsAssumption
<1>2. n \in Nat /\ DOMAIN Unread = 1..n  BY <1>1, ListParts
<1>3. 0 \in B
  <2>1. U(0) = {}  OBVIOUS
  <2>2. Hereditary({})  BY DEF Hereditary
  <2>3. QED  BY <1>2, <2>1, <2>2
<1>4. ASSUME NEW k \in 1..n, k - 1 \in B PROVE k \in B
  <2>1. Hereditary(U(k - 1))  BY <1>4
  <2>2. k \in DOMAIN Unread  BY <1>2
  <2> DEFINE node == Unread[k]
  <2>3. /\ node = [name |-> node.name, attrs |-> node.attrs, kids |-> node.kids,
                   text |-> node.text, xml |-> NodeXml(node)]
        /\ IsList(node.kids)
        /\ ToSet(node.kids) \subseteq U(k - 1)
    BY <2>2, DefinitionsAssumption
  <2>4. U(k) = U(k - 1) \union {node}
    <3>1. \A j \in 1..k : j \in 1..(k - 1) \/ j = k  OBVIOUS
    <3>2. \A j \in 1..(k - 1) : j \in 1..k  OBVIOUS
    <3>3. k \in 1..k  BY <1>2
    <3>4. QED  BY <3>1, <3>2, <3>3
  <2> HIDE DEF node, U
  <2>5. Hereditary(U(k - 1) \union {node})  BY <2>1, <2>3, MirrorReads
  <2>6. Hereditary(U(k))  BY <2>4, <2>5
  <2>7. k \in 0..n  BY <1>2
  <2> HIDE DEF n
  <2>8. QED  BY <2>6, <2>7
<1> HIDE DEF B, U, n
<1>5. \A k \in 0..n : k \in B  BY <1>2, <1>3, <1>4, Upward
<1>6. Hereditary(U(n))  BY <1>2, <1>5 DEF B
<1>7. U(n) = ToSet(Unread)  BY <1>2 DEF ToSet, U
<1>8. QED  BY <1>6, <1>7

\* A definition that the codec takes and gives.
Sourced(d) == \E S : Hereditary(S) /\ IsDefinition(d, S)

LEMMA ProgramsSource == \A d \in Definitions : Sourced(d)
BY UnreadStands, DefinitionsAssumption DEF Sourced

\* The date of a moment of the day of an anchor.
LEMMA BoundaryDated ==
  ASSUME anchor \in Anchors, NEW time \in TimesOfDay
  PROVE  BoundaryAt(time) \in Dates
<1>1. <<anchor.day, time>> \in DOMAIN DateTexts  BY CalendarAssumption DEF LegalCalendar
<1>2. BoundaryAt(time) \in Range(DateTexts)  BY <1>1 DEF BoundaryAt, Range
<1>3. QED  BY <1>2, CalendarAssumption

LEMMA StartTyped ==
  ASSUME NEW date \in Dates
  PROVE  IsCommon(StartingAt(date))
<1> DEFINE c == StartingAt(date)
<1>1. c = [id |-> None, start_boundary |-> Some(date), end_boundary |-> None,
           enabled |-> TRUE, execution_time_limit |-> None, repetition |-> None]
  <2> DEFINE d == TriggerCommon
  <2>1. d = [id |-> None, start_boundary |-> None, end_boundary |-> None,
             enabled |-> TRUE, execution_time_limit |-> None, repetition |-> None]
    BY DEF TriggerCommon
  <2>2. c = [d EXCEPT !.start_boundary = Some(date)]  BY DEF StartingAt
  <2> HIDE DEF d, c
  <2>3. QED  BY <2>1, <2>2
<1> HIDE DEF c
<1>2. /\ c.id = None /\ c.start_boundary = Some(date) /\ c.end_boundary = None
      /\ c.enabled = TRUE /\ c.execution_time_limit = None /\ c.repetition = None
  BY <1>1
<1>3. IsOption(None) /\ ToSet(None) = {}  BY DEF IsOption, None, ToSet
<1>4. IsOption(Some(date)) /\ ToSet(Some(date)) = {date}
  BY DEF IsOption, Some, ToSet
<1>5. IsCommon(c)  BY <1>1, <1>2, <1>3, <1>4 DEF IsCommon
<1>6. QED  BY <1>5 DEF c

LEMMA FieldsNamed ==
  ASSUME Parsed
  PROVE  /\ WeekdaysOf(fields.dow.values) \subseteq ToSet(Weekdays)
         /\ MonthsOf(fields.month.values) \subseteq ToSet(Months)
         /\ fields.dom.values \subseteq 0..U8
<1>1. /\ fields["dow"].values \subseteq 0..6 /\ fields["month"].values \subseteq 1..12
      /\ fields["dom"].values \subseteq 1..31
  BY FieldValues DEF Names, Values
<1>2. \A v \in 0..6 : v + 1 \in DOMAIN Weekdays  BY DEF Weekdays
<1>3. 1..12 \subseteq DOMAIN Months  BY DEF Months
<1>4. WeekdaysOf(fields.dow.values) \subseteq ToSet(Weekdays)
  BY <1>1, <1>2 DEF WeekdaysOf, ToSet
<1>5. MonthsOf(fields.month.values) \subseteq ToSet(Months)
  BY <1>1, <1>3 DEF MonthsOf, ToSet
<1>6. fields.dom.values \subseteq 0..U8  BY <1>1 DEF U8
<1>7. QED  BY <1>4, <1>5, <1>6

\* The calendar triggers, field by field.
LEMMA CalendarAllowed ==
  ASSUME NEW t, IsCommon(t.common), IsCalendar(t), t.kind \in ToSet(Calendar), NEW S
  PROVE  IsTrigger(t, S)
BY CalendarNames DEF IsTrigger, TriggerNames

LEMMA DayAllowed ==
  ASSUME NEW c, IsCommon(c), NEW S
  PROVE  IsTrigger(DayRecord(c, None, 1), S)
<1> DEFINE t == DayRecord(c, None, 1)
<1>0. t = DayRecord(c, None, 1)  OBVIOUS
<1>1. /\ t.kind = "ScheduleByDay" /\ t.common = c /\ t.random_delay = None
      /\ t.days_interval = 1
  BY DEF DayRecord
<1> HIDE DEF t
<1>2. t = DayBuilt(t.common, t.random_delay, t.days_interval)  BY <1>0, <1>1, DayForm
<1>3. IsDelay(None) /\ IsNumber(1) /\ 1 <= U16
  BY TaskXmlAssumption DEF IsDelay, IsOption, None, ToSet, U16
<1>4. IsCalendar(t)  BY <1>1, <1>2, <1>3 DEF IsCalendar, DayBuilt
<1>5. IsTrigger(t, S)  BY <1>1, <1>4, CalendarAllowed, CalendarNames
<1>6. QED  BY <1>5 DEF t

LEMMA WeekAllowed ==
  ASSUME NEW c, IsCommon(c), NEW days, days \subseteq ToSet(Weekdays), NEW S
  PROVE  IsTrigger(WeekRecord(c, None, days, 1), S)
<1> DEFINE t == WeekRecord(c, None, days, 1)
<1>0. t = WeekRecord(c, None, days, 1)  OBVIOUS
<1>1. /\ t.kind = "ScheduleByWeek" /\ t.common = c /\ t.random_delay = None
      /\ t.weeks_interval = 1 /\ t.days_of_week = days
  BY DEF WeekRecord
<1> HIDE DEF t
<1>2. t = WeekBuilt(t.common, t.random_delay, t.days_of_week, t.weeks_interval)
  BY <1>0, <1>1, WeekForm
<1>3. IsDelay(None) /\ IsNumber(1) /\ 1 <= U16
  BY TaskXmlAssumption DEF IsDelay, IsOption, None, ToSet, U16
<1>4. IsCalendar(t)  BY <1>1, <1>2, <1>3 DEF IsCalendar, WeekBuilt
<1>5. IsTrigger(t, S)  BY <1>1, <1>4, CalendarAllowed, CalendarNames
<1>6. QED  BY <1>5 DEF t

LEMMA MonthAllowed ==
  ASSUME NEW c, IsCommon(c), NEW days, days \subseteq 0..U8,
         NEW months, months \subseteq ToSet(Months),
         NEW last \in BOOLEAN, NEW S
  PROVE  IsTrigger(MonthRecord(c, None, days, months, last), S)
<1> DEFINE t == MonthRecord(c, None, days, months, last)
<1>0. t = MonthRecord(c, None, days, months, last)  OBVIOUS
<1>1. /\ t.kind = "ScheduleByMonth" /\ t.common = c /\ t.random_delay = None
      /\ t.days_of_month = days /\ t.months = months /\ t.run_on_last_day = last
  BY DEF MonthRecord
<1> HIDE DEF t
<1>2. t = MonthBuilt(t.common, t.random_delay, t.days_of_month, t.months, t.run_on_last_day)
  BY <1>0, <1>1, MonthForm
<1>3. IsDelay(None)  BY DEF IsDelay, IsOption, None, ToSet
<1>4. IsCalendar(t)  BY <1>1, <1>2, <1>3 DEF IsCalendar, MonthBuilt
<1>5. IsTrigger(t, S)  BY <1>1, <1>4, CalendarAllowed, CalendarNames
<1>6. QED  BY <1>5 DEF t

LEMMA DowAllowed ==
  ASSUME NEW c, IsCommon(c), NEW days, days \subseteq ToSet(Weekdays),
         NEW months, months \subseteq ToSet(Months),
         NEW last \in BOOLEAN, NEW S
  PROVE  IsTrigger(DowRecord(c, None, ToSet(WeeksOfMonth), days, months, last), S)
<1> DEFINE t == DowRecord(c, None, ToSet(WeeksOfMonth), days, months, last)
<1>0. t = DowRecord(c, None, ToSet(WeeksOfMonth), days, months, last)  OBVIOUS
<1>1. /\ t.kind = "ScheduleByMonthDayOfWeek" /\ t.common = c /\ t.random_delay = None
      /\ t.weeks_of_month = ToSet(WeeksOfMonth) /\ t.days_of_week = days
      /\ t.months = months /\ t.run_on_last_week = last
  BY DEF DowRecord
<1> HIDE DEF t
<1>2. t = DowBuilt(t.common, t.random_delay, t.weeks_of_month, t.days_of_week, t.months,
                   t.run_on_last_week)
  BY <1>0, <1>1, DowForm
<1>3. IsDelay(None)  BY DEF IsDelay, IsOption, None, ToSet
<1>4. IsCalendar(t)  BY <1>1, <1>2, <1>3 DEF IsCalendar, DowBuilt
<1>5. IsTrigger(t, S)  BY <1>1, <1>4, CalendarAllowed, CalendarNames
<1>6. QED  BY <1>5 DEF t

\* What compile makes of one time of the day.
LEMMA CalendarForm ==
  ASSUME NEW date
  PROVE  LET c == StartingAt(date)
             days == WeekdaysOf(fields.dow.values)
             months == MonthsOf(fields.month.values)
         IN \/ CalendarTrigger(date) = DayRecord(c, None, 1)
            \/ CalendarTrigger(date) = WeekRecord(c, None, days, 1)
            \/ CalendarTrigger(date)
                 = DowRecord(c, None, ToSet(WeeksOfMonth), days, months, TRUE)
            \/ CalendarTrigger(date) = MonthRecord(c, None, fields.dom.values, months, FALSE)
<1> DEFINE c == StartingAt(date)
           days == WeekdaysOf(fields.dow.values)
           months == MonthsOf(fields.month.values)
           dow == MonthlyDowTrigger(date, ToSet(WeeksOfMonth), days, months)
<1>1. DailyTrigger(date) = DayRecord(c, None, 1)  BY DEF DailyTrigger, DayRecord
<1>2. WeeklyTrigger(date, days) = WeekRecord(c, None, days, 1)
  BY DEF WeeklyTrigger, WeekRecord
<1>3. MonthlyTrigger(date, fields.dom.values, months)
        = MonthRecord(c, None, fields.dom.values, months, FALSE)
  BY DEF MonthlyTrigger, MonthRecord
<1>4. MonthlyRule(date) = [dow EXCEPT !.run_on_last_week = TRUE]  BY DEF MonthlyRule
<1>5. dow = DowRecord(c, None, ToSet(WeeksOfMonth), days, months, FALSE)
  BY DEF MonthlyDowTrigger, DowRecord
<1> HIDE DEF c, days, months, dow
<1>6. MonthlyRule(date) = DowRecord(c, None, ToSet(WeeksOfMonth), days, months, TRUE)
  BY <1>4, <1>5 DEF DowRecord
<1>7. \/ CalendarTrigger(date) = DailyTrigger(date)
      \/ CalendarTrigger(date) = WeeklyTrigger(date, days)
      \/ CalendarTrigger(date) = MonthlyRule(date)
      \/ CalendarTrigger(date) = MonthlyTrigger(date, fields.dom.values, months)
  BY DEF CalendarTrigger, days, months
<1>8. QED  BY <1>1, <1>2, <1>3, <1>6, <1>7 DEF c, days, months

LEMMA CompiledAllowed ==
  ASSUME Parsed, anchor \in Anchors, NEW time \in TimesOfDay, NEW S
  PROVE  IsTrigger(CalendarTrigger(BoundaryAt(time)), S)
<1> DEFINE date == BoundaryAt(time)
           c == StartingAt(date)
           days == WeekdaysOf(fields.dow.values)
           months == MonthsOf(fields.month.values)
           dom == fields.dom.values
<1>1. IsCommon(c)  BY BoundaryDated, StartTyped
<1>2. days \subseteq ToSet(Weekdays) /\ months \subseteq ToSet(Months) /\ dom \subseteq 0..U8
  BY FieldsNamed
<1>3. \/ CalendarTrigger(date) = DayRecord(c, None, 1)
      \/ CalendarTrigger(date) = WeekRecord(c, None, days, 1)
      \/ CalendarTrigger(date) = DowRecord(c, None, ToSet(WeeksOfMonth), days, months, TRUE)
      \/ CalendarTrigger(date) = MonthRecord(c, None, dom, months, FALSE)
  BY CalendarForm
<1> HIDE DEF date, c, days, months, dom
<1>4. IsTrigger(CalendarTrigger(date), S)
  BY <1>1, <1>2, <1>3, DayAllowed, WeekAllowed, DowAllowed, MonthAllowed
<1>5. QED  BY <1>4 DEF date

AllAllowed(ts) == IsList(ts) /\ \A i \in DOMAIN ts : IsTrigger(ts[i], ToSet(Unread))

\* A list that is given by its values.
LEMMA ListOf ==
  ASSUME NEW s, NEW n \in Nat, DOMAIN s = 1..n, s = [i \in DOMAIN s |-> s[i]]
  PROVE  IsList(s)
BY DEF IsList, ToSet

LEMMA CompileAllowed ==
  ASSUME Parsed, anchor \in Anchors, Compile, pc' = "compiled"
  PROVE  AllAllowed(triggers')
<1> DEFINE ts == [i \in DOMAIN Times |-> CalendarTrigger(BoundaryAt(Times[i]))]
<1>1. triggers' = ts  BY DEF Compile
<1>2. \A i \in DOMAIN Times : Times[i] \in TimesOfDay
  BY TimesListed DEF Wanted
<1>3. \A i \in DOMAIN Times : IsTrigger(CalendarTrigger(BoundaryAt(Times[i])), ToSet(Unread))
  BY <1>2, CompiledAllowed
<1>4. DOMAIN Times = 1..Cardinality(Moments) /\ Cardinality(Moments) \in Nat
  <2>1. IsFiniteSet(Moments) /\ Moments \subseteq Nat  BY MomentsOfTimes
  <2>2. DOMAIN InOrder(Moments) = 1..Cardinality(Moments)  BY <2>1, AllListed
  <2>3. Cardinality(Moments) \in Nat  BY <2>1, FS_CardinalityType
  <2>4. DOMAIN Times = DOMAIN InOrder(Moments)  BY DEF Times
  <2>5. QED  BY <2>2, <2>3, <2>4
<1>5. DOMAIN ts = DOMAIN Times /\ ts = [i \in DOMAIN ts |-> ts[i]]
      /\ \A i \in DOMAIN ts : ts[i] = CalendarTrigger(BoundaryAt(Times[i]))
  OBVIOUS
<1> HIDE DEF ts
<1>6. IsList(ts)  BY <1>4, <1>5, ListOf
<1>7. QED  BY <1>1, <1>3, <1>5, <1>6 DEF AllAllowed

LEMMA CollectedForm ==
  ASSUME NEW program, NEW more
  PROVE  Collected(program, more)
           = [schema_version |-> "1.6", registration |-> DefaultRegistration,
              triggers |-> more \o program.triggers, principal |-> program.principal,
              settings |-> program.settings, data |-> None, actions |-> program.actions,
              extensions |-> <<>>]
<1> DEFINE d == DefaultDefinition
           list == more \o program.triggers
<1>1. d = [schema_version |-> "1.6", registration |-> DefaultRegistration,
           triggers |-> <<>>, principal |-> DefaultPrincipal,
           settings |-> DefaultSettings, data |-> None, actions |-> <<>>,
           extensions |-> <<>>]
  BY DEF DefaultDefinition
<1>2. Collected(program, more)
        = [d EXCEPT !.actions = program.actions, !.triggers = list,
                    !.principal = program.principal, !.settings = program.settings]
  BY DEF Collected
<1> HIDE DEF d, list
<1>3. Collected(program, more)
        = [schema_version |-> "1.6", registration |-> DefaultRegistration,
           triggers |-> list, principal |-> program.principal,
           settings |-> program.settings, data |-> None, actions |-> program.actions,
           extensions |-> <<>>]
  BY <1>1, <1>2
<1>4. QED  BY <1>3 DEF list

LEMMA AssembledAllowed ==
  ASSUME NEW program \in Programs, NEW ts, AllAllowed(ts),
         NEW d, d = Collected(program, ts), WithinLimits(d.triggers, d.actions)
  PROVE  IsDefinition(d, ToSet(Unread))
<1> DEFINE S == ToSet(Unread)
           e == Collected(program, <<>>)
           own == program.triggers
<1>1. IsList(own) /\ IsDefinition(e, S)  BY ProgramsAssumption
<1>2. /\ e.registration = DefaultRegistration /\ e.triggers = <<>> \o own
      /\ e.principal = program.principal /\ e.settings = program.settings
      /\ e.data = None /\ e.actions = program.actions /\ e.extensions = <<>>
  BY CollectedForm
<1>3. d = [schema_version |-> "1.6", registration |-> DefaultRegistration,
           triggers |-> ts \o own, principal |-> program.principal,
           settings |-> program.settings, data |-> None, actions |-> program.actions,
           extensions |-> <<>>]
  BY CollectedForm
<1> HIDE DEF e, own, S
<1>4. /\ d.registration = DefaultRegistration /\ d.triggers = ts \o own
      /\ d.principal = program.principal /\ d.settings = program.settings
      /\ d.data = None /\ d.actions = program.actions /\ d.extensions = <<>>
      /\ d.schema_version = "1.6"
  BY <1>3
<1>5. <<>> \o own = own
  <2>1. own \in Seq(ToSet(own))  BY <1>1 DEF IsList
  <2>2. QED  BY <2>1, ConcatEmptySeq
<1>6. IsList(own) /\ \A i \in DOMAIN own : IsTrigger(own[i], S)
  BY <1>1, <1>2, <1>5 DEF IsDefinition, ToSet
<1>7. IsList(ts) /\ \A i \in DOMAIN ts : IsTrigger(ts[i], S)  BY DEF AllAllowed, S
<1>8. IsList(ts \o own) /\ \A t \in ToSet(ts \o own) : IsTrigger(t, S)
  <2>1. /\ IsList(ts \o own) /\ Len(ts \o own) = Len(ts) + Len(own)
        /\ Len(ts) \in Nat /\ Len(own) \in Nat
        /\ DOMAIN ts = 1..Len(ts) /\ DOMAIN own = 1..Len(own)
    BY <1>6, <1>7, Concat, ListParts
  <2>2. /\ \A i \in 1..Len(ts) : (ts \o own)[i] = ts[i]
        /\ \A i \in (Len(ts) + 1)..(Len(ts) + Len(own)) : (ts \o own)[i] = own[i - Len(ts)]
    <3>1. ts \in Seq(ToSet(ts) \union ToSet(own)) /\ own \in Seq(ToSet(ts) \union ToSet(own))
      <4>1. ts \in Seq(ToSet(ts)) /\ own \in Seq(ToSet(own))  BY <1>6, <1>7 DEF IsList
      <4>2. QED  BY <4>1
    <3>2. QED  BY <2>1, <3>1, ConcatProperties
  <2>3. \A i \in DOMAIN (ts \o own) : IsTrigger((ts \o own)[i], S)
    <3>1. TAKE i \in DOMAIN (ts \o own)
    <3>2. i \in 1..(Len(ts) + Len(own))  BY <2>1, ListParts
    <3>3. CASE i \in 1..Len(ts)
      <4>1. (ts \o own)[i] = ts[i] /\ i \in DOMAIN ts  BY <2>1, <2>2, <3>3
      <4>2. QED  BY <1>7, <4>1
    <3>4. CASE i \in (Len(ts) + 1)..(Len(ts) + Len(own))
      <4>1. (ts \o own)[i] = own[i - Len(ts)] /\ i - Len(ts) \in DOMAIN own
        BY <2>1, <2>2, <3>4
      <4>2. QED  BY <1>6, <4>1
    <3>5. QED  BY <2>1, <3>2, <3>3, <3>4
  <2>4. QED  BY <2>1, <2>3 DEF ToSet
<1>9. IsDefinition(d, S)
  <2>1. /\ IsRegistration(d.registration) /\ IsPrincipal(d.principal)
        /\ IsSettings(d.settings) /\ IsOption(d.data)
        /\ IsList(d.actions) /\ \A a \in ToSet(d.actions) : IsAction(a, S)
        /\ IsList(d.extensions) /\ \A x \in ToSet(d.extensions) : IsExtension(x, S)
    BY <1>1, <1>2, <1>4 DEF IsDefinition
  <2>2. IsList(d.triggers) /\ \A t \in ToSet(d.triggers) : IsTrigger(t, S)
    BY <1>4, <1>8
  <2>3. d = [schema_version |-> d.schema_version, registration |-> d.registration,
             triggers |-> d.triggers, principal |-> d.principal, settings |-> d.settings,
             data |-> d.data, actions |-> d.actions, extensions |-> d.extensions]
    BY <1>3, <1>4
  <2>4. QED  BY <2>1, <2>2, <2>3 DEF IsDefinition
<1>10. QED  BY <1>9 DEF S

LEMMA AssembledSourced ==
  ASSUME NEW program \in Programs, AllAllowed(triggers), Buildable(Assembled(program))
  PROVE  Sourced(Assembled(program))
<1>1. Assembled(program) = Collected(program, triggers)  BY DEF Assembled
<1>2. WithinLimits(Assembled(program).triggers, Assembled(program).actions)
  BY DEF Buildable
<1>3. IsDefinition(Assembled(program), ToSet(Unread))  BY <1>1, <1>2, AssembledAllowed
<1>4. QED  BY <1>3, UnreadStands DEF Sourced

(***************************************************************************)
(* What is read back of a valid definition is valid.                       *)
(***************************************************************************)
LEMMA IdsOfNone ==
  Ids(None) = None
BY DEF Ids, Each, None

LEMMA CommonSame ==
  ASSUME NEW c, IsCommon(c)
  PROVE  /\ CanonicalCommon(c).id = Ids(c.id)
         /\ CanonicalCommon(c).start_boundary = c.start_boundary
         /\ CanonicalCommon(c).repetition = c.repetition
         /\ c.execution_time_limit = None /\ c.id = None => CanonicalCommon(c) = c
<1> DEFINE l == Each(c.execution_time_limit, CanonicalLimit)
           u == Ids(c.id)
<1>1. c = [id |-> c.id, start_boundary |-> c.start_boundary,
           end_boundary |-> c.end_boundary, enabled |-> c.enabled,
           execution_time_limit |-> c.execution_time_limit, repetition |-> c.repetition]
  BY DEF IsCommon
<1>2. CanonicalCommon(c) = [c EXCEPT !.id = u, !.execution_time_limit = l]
  BY DEF CanonicalCommon
<1>3. c.execution_time_limit = None => l = None  BY DEF Each, None
<1>4. c.id = None => u = None  BY IdsOfNone
<1> HIDE DEF l, u
<1>5. CanonicalCommon(c)
        = [id |-> u, start_boundary |-> c.start_boundary, end_boundary |-> c.end_boundary,
           enabled |-> c.enabled, execution_time_limit |-> l, repetition |-> c.repetition]
  BY <1>1, <1>2
<1>6. CanonicalCommon(c).id = u  BY <1>5
<1>7. QED  BY <1>1, <1>3, <1>4, <1>5, <1>6 DEF u

\* What validation looks at in a trigger is read back.
SameTrigger(t, c) ==
  /\ c.kind = t.kind
  /\ t.kind /= "unknown" => c.common = CanonicalCommon(t.common)
  /\ t.kind = "EventTrigger" => c.subscription = ReadText(t.subscription)
  /\ t.kind = "ScheduleByDay" => c.days_interval = t.days_interval
  /\ t.kind = "ScheduleByWeek" =>
       c.weeks_interval = t.weeks_interval /\ c.days_of_week = t.days_of_week
  /\ t.kind = "ScheduleByMonth" =>
       /\ c.days_of_month = t.days_of_month /\ c.months = t.months
       /\ c.run_on_last_day = t.run_on_last_day
  /\ t.kind = "ScheduleByMonthDayOfWeek" =>
       /\ c.weeks_of_month = t.weeks_of_month /\ c.days_of_week = t.days_of_week
       /\ c.months = t.months /\ c.run_on_last_week = t.run_on_last_week

LEMMA CalendarSame ==
  ASSUME NEW t, IsCalendar(t), t.kind \in ToSet(Calendar)
  PROVE  SameTrigger(t, CanonicalTrigger(t))
<1> DEFINE x == CanonicalCommon(t.common)
           c == CanonicalTrigger(t)
<1>1. c = [t EXCEPT !.common = x]  BY CalendarNames DEF CanonicalTrigger
<1> HIDE DEF c, x
<1>2. CASE t.kind = "ScheduleByDay"
  <2>1. t = DayBuilt(t.common, t.random_delay, t.days_interval)
    BY <1>2 DEF IsCalendar, DayBuilt
  <2>2. t = DayRecord(t.common, t.random_delay, t.days_interval)  BY <2>1, DayForm
  <2>3. c.kind = t.kind /\ c.common = x /\ c.days_interval = t.days_interval
    BY <1>1, <2>2 DEF DayRecord
  <2>4. QED  BY <1>2, <2>3 DEF SameTrigger, c, x
<1>3. CASE t.kind = "ScheduleByWeek"
  <2>1. t = WeekBuilt(t.common, t.random_delay, t.days_of_week, t.weeks_interval)
    BY <1>3 DEF IsCalendar, WeekBuilt
  <2>2. t = WeekRecord(t.common, t.random_delay, t.days_of_week, t.weeks_interval)
    BY <2>1, WeekForm
  <2>3. /\ c.kind = t.kind /\ c.common = x /\ c.weeks_interval = t.weeks_interval
        /\ c.days_of_week = t.days_of_week
    BY <1>1, <2>2 DEF WeekRecord
  <2>4. QED  BY <1>3, <2>3 DEF SameTrigger, c, x
<1>4. CASE t.kind = "ScheduleByMonth"
  <2>1. t = MonthBuilt(t.common, t.random_delay, t.days_of_month, t.months, t.run_on_last_day)
    BY <1>4 DEF IsCalendar, MonthBuilt
  <2>2. t = MonthRecord(t.common, t.random_delay, t.days_of_month, t.months,
                        t.run_on_last_day)
    BY <2>1, MonthForm
  <2>3. /\ c.kind = t.kind /\ c.common = x /\ c.days_of_month = t.days_of_month
        /\ c.months = t.months /\ c.run_on_last_day = t.run_on_last_day
    BY <1>1, <2>2 DEF MonthRecord
  <2>4. QED  BY <1>4, <2>3 DEF SameTrigger, c, x
<1>5. CASE t.kind = "ScheduleByMonthDayOfWeek"
  <2>1. t = DowBuilt(t.common, t.random_delay, t.weeks_of_month, t.days_of_week, t.months,
                     t.run_on_last_week)
    BY <1>5 DEF IsCalendar, DowBuilt
  <2>2. t = DowRecord(t.common, t.random_delay, t.weeks_of_month, t.days_of_week, t.months,
                      t.run_on_last_week)
    BY <2>1, DowForm
  <2>3. /\ c.kind = t.kind /\ c.common = x /\ c.weeks_of_month = t.weeks_of_month
        /\ c.days_of_week = t.days_of_week /\ c.months = t.months
        /\ c.run_on_last_week = t.run_on_last_week
    BY <1>1, <2>2 DEF DowRecord
  <2>4. QED  BY <1>5, <2>3 DEF SameTrigger, c, x
<1>6. QED  BY <1>2, <1>3, <1>4, <1>5, CalendarNames

LEMMA EventSame ==
  ASSUME NEW t, IsEventTrigger(t), t.kind = "EventTrigger"
  PROVE  SameTrigger(t, CanonicalTrigger(t))
<1> DEFINE x == CanonicalCommon(t.common)
           u == ReadText(t.subscription)
           q == CanonicalQueries(t.value_queries)
           m == Texts(t.matching_element)
           c == CanonicalTrigger(t)
<1>1. t = [kind |-> "EventTrigger", common |-> t.common, subscription |-> t.subscription,
           value_queries |-> t.value_queries, delay |-> t.delay,
           period_of_occurrence |-> t.period_of_occurrence,
           number_of_occurrences |-> t.number_of_occurrences,
           matching_element |-> t.matching_element]
  BY DEF IsEventTrigger, EventTrigger
<1>2. c = [t EXCEPT !.common = x, !.subscription = u, !.value_queries = q,
                    !.matching_element = m]
  BY <1>1 DEF CanonicalTrigger
<1> HIDE DEF x, u, q, m, c
<1>3. c.kind = t.kind /\ c.common = x /\ c.subscription = u  BY <1>1, <1>2
<1>4. QED  BY <1>3 DEF SameTrigger, c, x, u

LEMMA SimpleSame ==
  ASSUME NEW t, NEW S, IsTrigger(t, S),
         t.kind \in {"BootTrigger", "RegistrationTrigger", "IdleTrigger", "TimeTrigger"}
  PROVE  SameTrigger(t, CanonicalTrigger(t))
<1> DEFINE x == CanonicalCommon(t.common)
           c == CanonicalTrigger(t)
<1>1. c = [t EXCEPT !.common = x]  BY DEF CanonicalTrigger
<1> HIDE DEF c, x
<1>2. CASE t.kind \in {"BootTrigger", "RegistrationTrigger"}
  <2>1. t = [kind |-> t.kind, common |-> t.common, delay |-> t.delay]
    BY <1>2 DEF IsTrigger, BootTrigger, RegistrationTrigger
  <2>2. c.kind = t.kind /\ c.common = x  BY <1>1, <2>1
  <2>3. QED  BY <1>2, <2>2 DEF SameTrigger, c, x
<1>3. CASE t.kind = "IdleTrigger"
  <2>1. t = [kind |-> t.kind, common |-> t.common]  BY <1>3 DEF IsTrigger, IdleTrigger
  <2>2. c.kind = t.kind /\ c.common = x  BY <1>1, <2>1
  <2>3. QED  BY <1>3, <2>2 DEF SameTrigger, c, x
<1>4. CASE t.kind = "TimeTrigger"
  <2>1. t = [kind |-> t.kind, common |-> t.common, random_delay |-> t.random_delay]
    BY <1>4 DEF IsTrigger, TimeTrigger
  <2>2. c.kind = t.kind /\ c.common = x  BY <1>1, <2>1
  <2>3. QED  BY <1>4, <2>2 DEF SameTrigger, c, x
<1>5. QED  BY <1>2, <1>3, <1>4

LEMMA UserSame ==
  ASSUME NEW t, NEW S, IsTrigger(t, S),
         t.kind \in {"LogonTrigger", "SessionStateChangeTrigger"}
  PROVE  SameTrigger(t, CanonicalTrigger(t))
<1> DEFINE x == CanonicalCommon(t.common)
           u == Texts(t.user_id)
           c == CanonicalTrigger(t)
<1>1. c = [t EXCEPT !.common = x, !.user_id = u]  BY DEF CanonicalTrigger
<1> HIDE DEF c, x, u
<1>2. CASE t.kind = "LogonTrigger"
  <2>1. t = [kind |-> t.kind, common |-> t.common, user_id |-> t.user_id,
             delay |-> t.delay]
    BY <1>2 DEF IsTrigger, LogonTrigger
  <2>2. c.kind = t.kind /\ c.common = x  BY <1>1, <2>1
  <2>3. QED  BY <1>2, <2>2 DEF SameTrigger, c, x
<1>3. CASE t.kind = "SessionStateChangeTrigger"
  <2>1. t = [kind |-> t.kind, common |-> t.common, state_change |-> t.state_change,
             user_id |-> t.user_id, delay |-> t.delay]
    BY <1>3 DEF IsTrigger, IsSessionTrigger, SessionStateChangeTrigger
  <2>2. c.kind = t.kind /\ c.common = x  BY <1>1, <2>1
  <2>3. QED  BY <1>3, <2>2 DEF SameTrigger, c, x
<1>4. QED  BY <1>2, <1>3

LEMMA EverySame ==
  ASSUME NEW t, NEW S, IsTrigger(t, S)
  PROVE  SameTrigger(t, CanonicalTrigger(t))
<1>1. t.kind \in {"BootTrigger", "RegistrationTrigger", "IdleTrigger", "TimeTrigger",
                  "EventTrigger", "LogonTrigger", "SessionStateChangeTrigger", "unknown"}
                   \union ToSet(Calendar)
  BY DEF IsTrigger, TriggerNames
<1>2. CASE t.kind = "unknown"
  <2> DEFINE x == AsRead(t.xml)
  <2>1. CanonicalTrigger(t) = UnknownTrigger(x)  BY <1>2 DEF CanonicalTrigger
  <2> HIDE DEF x
  <2>2. CanonicalTrigger(t).kind = "unknown"  BY <2>1 DEF UnknownTrigger
  <2>3. QED  BY <1>2, <2>2 DEF SameTrigger
<1>3. CASE t.kind = "EventTrigger"
  <2>1. IsEventTrigger(t)  BY <1>3 DEF IsTrigger
  <2>2. QED  BY <1>3, <2>1, EventSame
<1>4. CASE t.kind \in ToSet(Calendar)
  <2>1. IsCalendar(t)  BY <1>4 DEF IsTrigger
  <2>2. QED  BY <1>4, <2>1, CalendarSame
<1>5. QED  BY <1>1, <1>2, <1>3, <1>4, SimpleSame, UserSame

LEMMA TriggerStaysValid ==
  ASSUME NEW t, NEW S, IsTrigger(t, S), NEW c, c = CanonicalTrigger(t)
  PROVE  ValidTrigger(t) => ValidTrigger(c)
<1>1. SameTrigger(t, c)  BY EverySame
<1>2. c.kind = t.kind  BY <1>1 DEF SameTrigger
<1>3. CASE t.kind = "unknown"
  <2>1. c.kind = "unknown"  BY <1>2, <1>3
  <2>2. CommonOf(c) = None  BY <2>1 DEF CommonOf
  <2>3. \A x : x \notin ToSet(CommonOf(c))  BY <2>2 DEF None, ToSet
  <2>4. QED  BY <2>1, <2>3 DEF ValidTrigger
<1>4. CASE t.kind # "unknown"
  <2>1. IsCommon(t.common)  BY <1>4 DEF IsTrigger
  <2>2. c.common = CanonicalCommon(t.common)  BY <1>1, <1>4 DEF SameTrigger
  <2>3. /\ c.common.repetition = t.common.repetition
        /\ c.common.start_boundary = t.common.start_boundary
    BY <2>1, <2>2, CommonSame
  <2>4. CommonOf(t) = <<t.common>> /\ CommonOf(c) = <<c.common>>
    BY <1>2, <1>4 DEF CommonOf, Some
  <2>6. ToSet(CommonOf(t)) = {t.common} /\ ToSet(CommonOf(c)) = {c.common}
    BY <2>4 DEF ToSet
  <2>7. ASSUME ValidTrigger(t) PROVE ValidTrigger(c)
    <3>1. \A r \in ToSet(t.common.repetition) : r.interval # "PT0S"
      BY <2>6, <2>7 DEF ValidTrigger
    <3>2. \A x \in ToSet(CommonOf(c)) : \A r \in ToSet(x.repetition) : r.interval # "PT0S"
      BY <2>3, <2>6, <3>1
    <3>3. c.kind = "TimeTrigger" => c.common.start_boundary # None
      BY <1>2, <2>3, <2>7 DEF ValidTrigger
    <3>4. c.kind = "EventTrigger" => c.subscription # ""
      <4>1. SUFFICES ASSUME c.kind = "EventTrigger" PROVE c.subscription # ""  OBVIOUS
      <4>2. c.subscription = ReadText(t.subscription)  BY <1>1, <1>2, <4>1 DEF SameTrigger
      <4>3. t.subscription # ""  BY <1>2, <2>7, <4>1 DEF ValidTrigger
      <4>4. ReadText(t.subscription) # ""  BY <4>3, TextFacts
      <4>5. QED  BY <4>2, <4>4
    <3>5. /\ c.kind = "ScheduleByDay" => c.days_interval # 0
          /\ c.kind = "ScheduleByWeek" => c.weeks_interval # 0 /\ c.days_of_week # {}
      BY <1>1, <1>2, <2>7 DEF ValidTrigger, SameTrigger
    <3>6. c.kind = "ScheduleByMonth" =>
            /\ c.months # {} /\ c.days_of_month \subseteq 1..31
            /\ c.days_of_month # {} \/ c.run_on_last_day
      BY <1>1, <1>2, <2>7, Zenon DEF ValidTrigger, SameTrigger
    <3>7. c.kind = "ScheduleByMonthDayOfWeek" =>
            /\ c.months # {} /\ c.days_of_week # {}
            /\ c.weeks_of_month # {} \/ c.run_on_last_week
      BY <1>1, <1>2, <2>7, Zenon DEF ValidTrigger, SameTrigger
    <3>8. QED  BY <3>2, <3>3, <3>4, <3>5, <3>6, <3>7 DEF ValidTrigger
  <2>8. QED  BY <2>7
<1>5. QED  BY <1>3, <1>4

LEMMA ActionStaysValid ==
  ASSUME NEW a, NEW S, IsAction(a, S), NEW c, c = CanonicalAction(a)
  PROVE  /\ c.kind = a.kind
         /\ a.kind = "Exec" /\ a.command # "" => c.command # ""
<1>1. a.kind \in {"Exec", "ComHandler", "SendEmail", "ShowMessage", "unknown"}
  BY DEF IsAction, ActionNames
<1>2. CASE a.kind = "Exec"
  <2> DEFINE i == Ids(a.id)
             x == ReadText(a.command)
             y == Texts(a.arguments)
             z == Texts(a.working_directory)
  <2>1. a = [kind |-> "Exec", id |-> a.id, command |-> a.command, arguments |-> a.arguments,
             working_directory |-> a.working_directory, hide_window |-> a.hide_window]
    <3>1. a = ExecBuilt(a.id, a.command, a.arguments, a.working_directory, a.hide_window)
          /\ a.hide_window \in BOOLEAN
      BY <1>2 DEF IsAction, ExecBuilt
    <3>2. QED  BY <3>1, ExecForm DEF ExecRecord
  <2>2. c = [a EXCEPT !.id = i, !.command = x, !.arguments = y, !.working_directory = z]
    BY <1>2 DEF CanonicalAction
  <2>3. a.command # "" => x # ""  BY TextFacts
  <2> HIDE DEF i, x, y, z
  <2>4. c.kind = a.kind /\ c.command = x  BY <2>1, <2>2
  <2>5. QED  BY <1>2, <2>3, <2>4
<1>3. CASE a.kind = "ComHandler"
  <2> DEFINE i == Ids(a.id)
             x == Texts(a.data)
  <2>1. a = [kind |-> "ComHandler", id |-> a.id, class_id |-> a.class_id, data |-> a.data]
    <3>1. a = HandlerBuilt(a.id, a.class_id, a.data)  BY <1>3 DEF IsAction, HandlerBuilt
    <3>2. QED  BY <3>1, HandlerForm DEF HandlerRecord
  <2>2. c = [a EXCEPT !.id = i, !.data = x]  BY <1>3 DEF CanonicalAction
  <2> HIDE DEF i, x
  <2>3. c.kind = a.kind  BY <2>1, <2>2
  <2>4. QED  BY <1>3, <2>3
<1>4. CASE a.kind = "SendEmail"
  <2> DEFINE i == Ids(a.id)
             given == [n \in ToSet(EmailTexts) |-> a.texts[n]]
             x1 == ReadText(a.server)
             x2 == [n \in DOMAIN a.texts |-> Texts(a.texts[n])]
             x3 == Texts(a.body)
             x4 == Each(a.attachments, ReadText)
             x5 == Each(a.headers, LAMBDA h : [name |-> ReadText(h.name),
                                               value |-> ReadText(h.value)])
  <2>1. a = EmailBuilt(a.id, a.server, a.body, a.attachments, given, a.headers)
    BY <1>4 DEF IsAction, IsEmail, EmailBuilt
  <2>2. c = [a EXCEPT !.id = i, !.server = x1, !.texts = x2, !.body = x3,
                      !.attachments = x4, !.headers = x5]
    BY <1>4 DEF CanonicalAction
  <2> HIDE DEF i, given, x1, x2, x3, x4, x5
  <2>3. a = EmailRecord(a.id, a.server, a.body, a.attachments, given, a.headers)
    BY <2>1, EmailForm
  <2>4. c.kind = a.kind  BY <2>2, <2>3 DEF EmailRecord
  <2>5. QED  BY <1>4, <2>4
<1>5. CASE a.kind = "ShowMessage"
  <2> DEFINE i == Ids(a.id)
             x == ReadText(a.body)
             y == Texts(a.title)
  <2>1. a = MessageBuilt(a.id, a.title, a.body)  BY <1>5 DEF IsAction, MessageBuilt
  <2>2. c = [a EXCEPT !.id = i, !.body = x, !.title = y]  BY <1>5 DEF CanonicalAction
  <2> HIDE DEF i, x, y
  <2>3. a = MessageRecord(a.id, a.title, a.body)  BY <2>1, MessageForm
  <2>4. c.kind = a.kind  BY <2>2, <2>3 DEF MessageRecord
  <2>5. QED  BY <1>5, <2>4
<1>6. CASE a.kind = "unknown"
  <2> DEFINE x == AsRead(a.xml)
  <2>1. c = UnknownAction(x)  BY <1>6 DEF CanonicalAction
  <2> HIDE DEF x
  <2>2. QED  BY <1>6, <2>1 DEF UnknownAction
<1>7. QED  BY <1>1, <1>2, <1>3, <1>4, <1>5, <1>6

LEMMA FieldsKept ==
  ASSUME NEW d, NEW S, IsDefinition(d, S), NEW e, NEW U, IsDefinition(e, U),
         WithoutExtensions(e) = WithoutExtensions(Canonical(d))
  PROVE  /\ e.triggers = Each(d.triggers, CanonicalTrigger)
         /\ e.actions = Each(d.actions, CanonicalAction)
         /\ e.principal = CanonicalPrincipal(d.principal)
         /\ e.settings = CanonicalSettings(d.settings)
         /\ e.schema_version = ReadAttribute(d.schema_version)
<1> DEFINE x0 == ReadAttribute(d.schema_version)
           x1 == [name \in DOMAIN d.registration |-> Texts(d.registration[name])]
           x2 == CanonicalPrincipal(d.principal)
           x3 == CanonicalSettings(d.settings)
           x4 == Each(d.triggers, CanonicalTrigger)
           x5 == Texts(d.data)
           x6 == Each(d.actions, CanonicalAction)
           c == Canonical(d)
           none == <<>>
<1>1. d = [schema_version |-> d.schema_version, registration |-> d.registration,
           triggers |-> d.triggers, principal |-> d.principal, settings |-> d.settings,
           data |-> d.data, actions |-> d.actions, extensions |-> d.extensions]
  BY DEF IsDefinition
<1>2. e = [schema_version |-> e.schema_version, registration |-> e.registration,
           triggers |-> e.triggers, principal |-> e.principal, settings |-> e.settings,
           data |-> e.data, actions |-> e.actions, extensions |-> e.extensions]
  BY DEF IsDefinition
<1>3. c = [d EXCEPT !.schema_version = x0, !.registration = x1, !.principal = x2, !.settings = x3,
                    !.triggers = x4, !.data = x5, !.actions = x6]
  BY DEF Canonical
<1>4. [e EXCEPT !.extensions = none] = [c EXCEPT !.extensions = none]
  BY DEF WithoutExtensions
<1> HIDE DEF x0, x1, x2, x3, x4, x5, x6, c, none
<1>5. c = [schema_version |-> x0, registration |-> x1, triggers |-> x4,
           principal |-> x2, settings |-> x3, data |-> x5, actions |-> x6,
           extensions |-> d.extensions]
  BY <1>1, <1>3
<1>6. [c EXCEPT !.extensions = none]
        = [schema_version |-> x0, registration |-> x1, triggers |-> x4,
           principal |-> x2, settings |-> x3, data |-> x5, actions |-> x6,
           extensions |-> none]
  BY <1>5
<1>7. [e EXCEPT !.extensions = none]
        = [schema_version |-> e.schema_version, registration |-> e.registration,
           triggers |-> e.triggers, principal |-> e.principal, settings |-> e.settings,
           data |-> e.data, actions |-> e.actions, extensions |-> none]
  BY <1>2
<1> DEFINE l == [e EXCEPT !.extensions = none]
<1>8. /\ l.schema_version = x0 /\ l.triggers = x4 /\ l.principal = x2
      /\ l.settings = x3 /\ l.actions = x6
  BY <1>4, <1>6
<1>9. /\ l.schema_version = e.schema_version /\ l.triggers = e.triggers
      /\ l.principal = e.principal /\ l.settings = e.settings /\ l.actions = e.actions
  BY <1>7
<1>10. QED  BY <1>8, <1>9 DEF x0, x2, x3, x4, x6

LEMMA PrincipalSame ==
  ASSUME NEW p, IsPrincipal(p), NEW c, c = CanonicalPrincipal(p)
  PROVE  /\ p.id # "" => c.id # ""
         /\ c.required_privileges = p.required_privileges
<1> DEFINE i == ReadAttribute(p.id)
           x == CanonicalIdentity(p.identity)
           y == Texts(p.display_name)
           z == IF LogonElement(p.logon_type) = <<>>
                THEN ImpliedLogon(CanonicalIdentity(p.identity)) ELSE p.logon_type
<1>1. p = [id |-> p.id, display_name |-> p.display_name, identity |-> p.identity,
           logon_type |-> p.logon_type, run_level |-> p.run_level,
           process_token_sid_type |-> p.process_token_sid_type,
           required_privileges |-> p.required_privileges]
  BY DEF IsPrincipal
<1>2. c = [p EXCEPT !.id = i, !.identity = x, !.display_name = y, !.logon_type = z]
  BY DEF CanonicalPrincipal
<1>3. p.id # "" => i # ""  BY NormalizedAssumption DEF ReadAttribute
<1> HIDE DEF i, x, y, z
<1>4. QED  BY <1>1, <1>2, <1>3

LEMMA SettingsSame ==
  ASSUME NEW s, IsSettings(s), NEW c, c = CanonicalSettings(s)
  PROVE  c.priority = s.priority /\ c.flags = s.flags /\ c.maintenance = s.maintenance
<1> DEFINE x == CanonicalLimit(s.execution_time_limit)
           y == Each(s.network, LAMBDA n : [id |-> Texts(n.id), name |-> Texts(n.name)])
<1>1. s = [flags |-> s.flags, restart_on_failure |-> s.restart_on_failure,
           multiple_instances |-> s.multiple_instances, network |-> s.network,
           execution_time_limit |-> s.execution_time_limit,
           delete_expired_after |-> s.delete_expired_after, priority |-> s.priority,
           idle |-> s.idle, maintenance |-> s.maintenance]
  BY DEF IsSettings
<1>2. c = [s EXCEPT !.execution_time_limit = x, !.network = y]  BY DEF CanonicalSettings
<1> HIDE DEF x, y
<1>3. QED  BY <1>1, <1>2

\* What from_xml makes of a written definition passes TaskDefinition::validate
\* again, and so to_xml writes it, if its principal has a logon that fits its
\* identity and its ids still differ. Without this it need not: an account's
\* name may be spelled like a service account's, and reading takes it for the
\* service account; and ids that differ only in tabs and line ends become one,
\* for attributes are read with spaces in their place.
THEOREM ReadIsValid ==
  ASSUME NEW d, NEW S, IsDefinition(d, S), NEW e, NEW U, IsDefinition(e, U),
         WithoutExtensions(e) = WithoutExtensions(Canonical(d)),
         Valid(d), LogonFits(CanonicalPrincipal(d.principal)),
         Distinct(ActionIds(Each(d.actions, CanonicalAction))),
         Distinct(TriggerIds(Each(d.triggers, CanonicalTrigger)))
  PROVE  Valid(e)
<1> DEFINE as == d.actions
           ts == d.triggers
<1>1. /\ e.triggers = Each(ts, CanonicalTrigger) /\ e.actions = Each(as, CanonicalAction)
      /\ e.principal = CanonicalPrincipal(d.principal)
      /\ e.settings = CanonicalSettings(d.settings)
      /\ e.schema_version = ReadAttribute(d.schema_version)
  BY FieldsKept
<1>2. /\ DOMAIN e.triggers = DOMAIN ts
      /\ \A i \in DOMAIN ts : e.triggers[i] = CanonicalTrigger(ts[i])
  BY <1>1 DEF Each
<1>3. /\ DOMAIN e.actions = DOMAIN as
      /\ \A i \in DOMAIN as : e.actions[i] = CanonicalAction(as[i])
  BY <1>1 DEF Each
<1>4. /\ \A i \in DOMAIN ts : IsTrigger(ts[i], S)
      /\ \A i \in DOMAIN as : IsAction(as[i], S)
  BY DEF IsDefinition, ToSet
<1>5. \A i \in DOMAIN ts : ValidTrigger(ts[i]) => ValidTrigger(e.triggers[i])
  BY <1>2, <1>4, TriggerStaysValid
<1>6. \A i \in DOMAIN as :
        /\ e.actions[i].kind = as[i].kind
        /\ as[i].kind = "Exec" /\ as[i].command # "" => e.actions[i].command # ""
  BY <1>3, <1>4, ActionStaysValid
<1>7. e.actions # <<>>
  <2>1. as # <<>> /\ IsList(as)  BY DEF Valid, IsDefinition
  <2>2. 1 \in DOMAIN as  BY <2>1, ListParts, EmptySeq DEF IsList
  <2>3. DOMAIN <<>> = {}  OBVIOUS
  <2>4. QED  BY <1>3, <2>2, <2>3
<1>8. Distinct(ActionIds(e.actions))  BY <1>1
<1>9. Distinct(TriggerIds(e.triggers))  BY <1>1
<1>10. ValidTriggers(e.triggers)
  <2>1. \A i \in DOMAIN ts : ValidTrigger(ts[i])  BY DEF Valid, ValidTriggers
  <2>2. QED  BY <1>2, <1>5, <2>1 DEF ValidTriggers
<1>11. ValidActions(e.actions)
  <2>1. \A i \in DOMAIN as : as[i].kind = "Exec" => as[i].command # ""
    BY DEF Valid, ValidActions
  <2>2. QED  BY <1>3, <1>6, <2>1 DEF ValidActions
<1>12. ValidPrincipal(e.principal)
  <2>1. IsPrincipal(d.principal) /\ ValidPrincipal(d.principal)
    BY DEF IsDefinition, Valid
  <2>2. /\ d.principal.id # "" => e.principal.id # ""
        /\ e.principal.required_privileges = d.principal.required_privileges
    BY <1>1, <2>1, PrincipalSame
  <2>3. QED  BY <1>1, <2>1, <2>2 DEF ValidPrincipal
<1>13. e.settings.priority <= 10 /\ ValidSchema(e)
  <2>1. IsSettings(d.settings) /\ d.settings.priority <= 10 /\ ValidSchema(d)
    BY DEF IsDefinition, Valid
  <2>2. /\ e.settings.priority = d.settings.priority /\ e.settings.flags = d.settings.flags
        /\ e.settings.maintenance = d.settings.maintenance
    BY <1>1, <2>1, SettingsSame
  <2>3. Generation(e.schema_version) = Generation(d.schema_version)
    <3> DEFINE v == d.schema_version
               w == ReadAttribute(v)
               versions == {"1.2", "1.3", "1.4", "1.5"}
    <3>1. w = v \/ {v, w} \intersect versions = {}
      BY NormalizedAssumption, Zenon DEF ReadAttribute
    <3>2. e.schema_version = w  BY <1>1
    <3> HIDE DEF w, v
    <3>3. w # v => v \notin versions /\ w \notin versions  BY <3>1, Zenon
    <3>4. Generation(w) = Generation(v)  BY <3>3 DEF Generation
    <3>5. QED  BY <3>2, <3>4 DEF v
  <2>4. QED  BY <2>1, <2>2, <2>3 DEF ValidSchema
<1>14. QED
  BY <1>7, <1>8, <1>9, <1>10, <1>11, <1>12, <1>13 DEF Valid

\* A compiled trigger is written as it is read, and has no id.
LEMMA CompiledCanonical ==
  ASSUME NEW date \in Dates
  PROVE  /\ CanonicalTrigger(CalendarTrigger(date)) = CalendarTrigger(date)
         /\ CalendarTrigger(date).common.id = None
<1> DEFINE c == StartingAt(date)
           t == CalendarTrigger(date)
           days == WeekdaysOf(fields.dow.values)
           months == MonthsOf(fields.month.values)
           dom == fields.dom.values
           weeks == ToSet(WeeksOfMonth)
<1>1. \/ t = DayRecord(c, None, 1)
      \/ t = WeekRecord(c, None, days, 1)
      \/ t = DowRecord(c, None, weeks, days, months, TRUE)
      \/ t = MonthRecord(c, None, dom, months, FALSE)
  BY CalendarForm
<1>2. CanonicalCommon(c) = c /\ c.id = None
  <2>1. IsCommon(c)  BY StartTyped
  <2>2. c.execution_time_limit = None /\ c.id = None
    <3> DEFINE k == TriggerCommon
    <3>1. k = [id |-> None, start_boundary |-> None, end_boundary |-> None,
               enabled |-> TRUE, execution_time_limit |-> None, repetition |-> None]
      BY DEF TriggerCommon
    <3>2. c = [k EXCEPT !.start_boundary = Some(date)]  BY DEF StartingAt
    <3> HIDE DEF k, c
    <3>3. QED  BY <3>1, <3>2
  <2>3. QED  BY <2>1, <2>2, CommonSame
<1> HIDE DEF c, t, days, months, dom, weeks
<1>3. t.kind \in ToSet(Calendar) /\ t.common = c
  BY <1>1, CalendarNames DEF DayRecord, WeekRecord, DowRecord, MonthRecord
<1>4. CanonicalTrigger(t) = [t EXCEPT !.common = c]
  BY <1>2, <1>3, CalendarNames DEF CanonicalTrigger
<1>5. [t EXCEPT !.common = c] = t
  <2>1. t = [x \in DOMAIN t |-> t[x]]
    BY <1>1 DEF DayRecord, WeekRecord, DowRecord, MonthRecord
  <2>2. QED  BY <1>3, <2>1
<1>6. QED  BY <1>2, <1>3, <1>4, <1>5 DEF t

\* What compile returns, and its place in a definition.
Settles(t) == CanonicalTrigger(t) = t /\ t.common.id = None
Compiles(ts) == AllAllowed(ts) /\ \A i \in DOMAIN ts : Settles(ts[i])

LEMMA CompileReturns ==
  ASSUME Parsed, anchor \in Anchors, Compile, pc' = "compiled"
  PROVE  Compiles(triggers')
<1> DEFINE ts == [i \in DOMAIN Times |-> CalendarTrigger(BoundaryAt(Times[i]))]
<1>1. triggers' = ts  BY DEF Compile
<1>2. \A i \in DOMAIN Times : Times[i] \in TimesOfDay  BY TimesListed DEF Wanted
<1>3. \A i \in DOMAIN Times : BoundaryAt(Times[i]) \in Dates  BY <1>2, BoundaryDated
<1>4. \A i \in DOMAIN ts : ts[i] = CalendarTrigger(BoundaryAt(Times[i])) /\ i \in DOMAIN Times
  OBVIOUS
<1> HIDE DEF ts
<1>5. \A i \in DOMAIN ts : Settles(ts[i])
  BY <1>3, <1>4, CompiledCanonical DEF Settles
<1>6. AllAllowed(ts)  BY <1>1, CompileAllowed
<1>7. QED  BY <1>1, <1>5, <1>6 DEF Compiles

LEMMA FirstOnes ==
  ASSUME NEW a, NEW b, IsList(a), IsList(b), NEW g, g = Each(a \o b, CanonicalTrigger),
         \A i \in DOMAIN a : CanonicalTrigger(a[i]) = a[i]
  PROVE  SubSeq(g, 1, Len(a)) = a
<1> DEFINE c == a \o b
           n == Len(a)
           h == [i \in DOMAIN c |-> CanonicalTrigger(c[i])]
<1>1. /\ IsList(c) /\ Len(c) = n + Len(b) /\ \A i \in 1..n : c[i] = a[i]
      /\ n \in Nat /\ Len(b) \in Nat /\ DOMAIN a = 1..n
  BY Concat, ListParts
<1>2. DOMAIN c = 1..(n + Len(b))  BY <1>1, ListParts
<1>3. g = h  BY DEF Each
<1> HIDE DEF c, n
<1>4. IsList(h) /\ DOMAIN h = DOMAIN c /\ Len(h) = Len(c)
  <2>1. DOMAIN h = DOMAIN c /\ h = [i \in DOMAIN c |-> h[i]]  OBVIOUS
  <2> HIDE DEF h
  <2>2. QED  BY <1>1, <2>1, Mapped
<1>5. \A i \in 1..n : h[i] = a[i]
  <2>1. \A i \in 1..n : i \in DOMAIN c  BY <1>1, <1>2
  <2>2. QED  BY <1>1, <2>1
<1> HIDE DEF h
<1>6. h \in Seq(ToSet(h)) /\ n <= Len(h)  BY <1>1, <1>4 DEF IsList
<1>7. /\ SubSeq(h, 1, n) \in Seq(ToSet(h)) /\ Len(SubSeq(h, 1, n)) = n
      /\ \A i \in 1..n : SubSeq(h, 1, n)[i] = h[i]
  BY <1>1, <1>6
<1> DEFINE s == SubSeq(h, 1, n)
<1> HIDE DEF s
<1>8. IsList(s) /\ Len(s) = n /\ \A i \in 1..n : s[i] = a[i]
  BY <1>5, <1>7, ToList DEF s
<1>9. s = a
  <2>1. Len(s) = Len(a)  BY <1>8 DEF n
  <2>2. \A i \in 1..Len(s) : s[i] = a[i]  BY <1>8
  <2>3. QED  BY <1>8, <2>1, <2>2, SameList
<1>10. QED  BY <1>3, <1>9 DEF s, n

LEMMA ScheduledKept ==
  ASSUME Compiles(triggers), NEW program \in Programs,
         NEW d, d.triggers = Each(Assembled(program).triggers, CanonicalTrigger)
  PROVE  Scheduled(d) = triggers
<1>1. Assembled(program).triggers = triggers \o program.triggers
  BY CollectedForm DEF Assembled
<1>2. IsList(program.triggers)  BY ProgramsAssumption
<1>3. IsList(triggers) /\ \A i \in DOMAIN triggers : CanonicalTrigger(triggers[i]) = triggers[i]
  BY DEF Compiles, Settles, AllAllowed
<1> DEFINE g == d.triggers
<1>4. g = Each(triggers \o program.triggers, CanonicalTrigger)  BY <1>1
<1> HIDE DEF g
<1>5. SubSeq(g, 1, Len(triggers)) = triggers  BY <1>2, <1>3, <1>4, FirstOnes
<1>6. QED  BY <1>5 DEF Scheduled, g

-----------------------------------------------------------------------------
(***************************************************************************)
(* From the expression to the second document.                             *)
(***************************************************************************)
\* How many definitions and documents there are at each stage, and that a
\* document that is read for the second time is the definition as written.
Stages ==
  /\ IsList(foreign) /\ IsList(docs) /\ IsList(defs)
  /\ \A i \in DOMAIN defs : Sourced(defs[i])
  /\ Len(defs) \in 0..2
  /\ stage \in {"unbuilt", "unbuildable", "bytes", "raw"} => defs = <<>> /\ Written = 0
  /\ stage = "reading" => Len(defs) = Written /\ Written \in {0, 1}
  /\ stage = "typed" => Len(defs) = Written + 1 /\ Written \in {0, 1}
  /\ stage = "reading" /\ Written = 1 =>
       Valid(defs[1]) /\ text = WriteDefinition(defs[1])
  /\ RoundTrip

\* What the schedule left, and what came of it.
Compiled ==
  \/ Unscheduled /\ stage \notin {"unbuilt", "unbuildable"}
  \/ /\ ScheduleInv /\ pc # "none"
     /\ pc = "compiled" => Compiles(triggers)
     /\ stage \notin {"bytes", "raw", "untyped", "invalid"}
     /\ stage = "reading" => Written = 1
     /\ stage = "refused" => ~WellFormed
     /\ defs # <<>> =>
          /\ pc = "compiled"
          /\ \E program \in Programs : defs[1] = Assembled(program) /\ Valid(defs[1])

TaskInv == ReaderInv /\ Grows /\ Stages /\ Compiled

LEMMA ReadKeeps == ReaderInv /\ Read => ReaderInv'
BY TakesStart, TakesEmpty, TakesEnd, TakesText, TakesReference, TakesIllegal,
   TakesComment, TakesEof DEF Read

LEMMA SameForm == UNCHANGED readerVars => (WellFormed' <=> WellFormed)
BY DEF WellFormed, TopLevel, OpenAfter, CountOf, readerVars

LEMMA ReaderStays ==
  ASSUME ReaderInv, Grows, UNCHANGED readerVars
  PROVE  ReaderInv' /\ Grows'
BY Stays, GrowsOn

\* One more at the end of a list.
LEMMA Longer ==
  ASSUME NEW s, IsList(s), NEW x
  PROVE  /\ IsList(Append(s, x)) /\ Len(Append(s, x)) = Len(s) + 1
         /\ Len(s) \in Nat /\ DOMAIN s = 1..Len(s)
         /\ \A i \in 1..Len(s) : Append(s, x)[i] = s[i]
         /\ Append(s, x)[Len(s) + 1] = x
         /\ DOMAIN Append(s, x) = 1..(Len(s) + 1)
<1>1. s \in Seq(ToSet(s) \union {x}) /\ x \in ToSet(s) \union {x}
  <2>1. s \in Seq(ToSet(s))  BY DEF IsList
  <2>2. QED  BY <2>1
<1>2. /\ Append(s, x) \in Seq(ToSet(s) \union {x}) /\ Len(Append(s, x)) = Len(s) + 1
      /\ \A i \in 1..Len(s) : Append(s, x)[i] = s[i]
      /\ Append(s, x)[Len(s) + 1] = x
  BY <1>1, AppendProperties
<1>3. IsList(Append(s, x))  BY <1>2, ToList
<1>4. QED  BY <1>2, <1>3, ListParts

\* Opening a document that is a list of events, within bounds.
LEMMA Opened ==
  ASSUME NEW events, IsList(events), NEW bounds \in Bounds, Open(events, bounds)
  PROVE  ReaderInv' /\ Grows'
<1>1. Reopen  BY DEF Reopen
<1>2. QED  BY <1>1, Reopened, OpenGrows

LEMMA DefaultBounds == DefaultLimits \in Bounds
BY DefinitionsAssumption DEF Bounds

-----------------------------------------------------------------------------
\* The beginning.
LEMMA TaskBegins == InitTask => TaskInv
<1> SUFFICES ASSUME InitTask PROVE TaskInv  OBVIOUS
<1>0. IsList(<<>>) /\ Len(<<>>) = 0 /\ DOMAIN <<>> = {}  BY DEF IsList, ToSet
<1>1. CASE Unscheduled /\ Init
  <2>1. CASE /\ stage = "typed" /\ foreign = None
             /\ defs \in {<<d>> : d \in Definitions} /\ docs = <<>>
             /\ Closed(<<>>, DefaultLimits)
    <3>1. PICK d \in Definitions : defs = <<d>>  BY <2>1
    <3>2. /\ IsList(defs) /\ Len(defs) = 1 /\ \A i \in DOMAIN defs : defs[i] = d
      BY <3>1 DEF IsList, ToSet
    <3>3. Written = 0  BY <1>0, <2>1 DEF Written, None
    <3>4. Stages
      BY <1>0, <2>1, <3>2, <3>3, ProgramsSource DEF Stages, RoundTrip, None
    <3>5. ReaderInv /\ Grows
      BY <1>0, <2>1, DefaultBounds
      DEF Closed, ReaderInv, Following, AcceptsWellFormed, Grows, Answering
    <3>6. QED  BY <1>1, <2>1, <3>4, <3>5 DEF TaskInv, Compiled
  <2>2. CASE \E document \in Documents :
               /\ stage = "bytes" /\ foreign = Some(document.encoding)
               /\ defs = <<>> /\ docs = <<document.events>>
               /\ Closed(document.events, document.limits)
    <3>1. PICK document \in Documents :
               /\ stage = "bytes" /\ foreign = Some(document.encoding)
               /\ defs = <<>> /\ docs = <<document.events>>
               /\ Closed(document.events, document.limits)
      BY <2>2
    <3>2. IsList(document.events) /\ document.limits \in Bounds
      BY DefinitionsAssumption DEF Bounds
    <3>3. /\ IsList(docs) /\ Len(docs) = 1 /\ IsList(foreign) /\ Len(foreign) = 1
      BY <3>1 DEF IsList, ToSet, Some
    <3>4. Written = 0  BY <3>3 DEF Written
    <3>5. Stages  BY <1>0, <3>1, <3>3, <3>4 DEF Stages, RoundTrip
    <3>6. ReaderInv /\ Grows
      BY <3>1, <3>2
      DEF Closed, ReaderInv, Following, AcceptsWellFormed, Grows, Answering
    <3>7. QED  BY <1>1, <3>1, <3>5, <3>6 DEF TaskInv, Compiled
  <2>3. QED  BY <1>1, <2>1, <2>2 DEF Init
<1>2. CASE /\ ScheduleInit
           /\ stage = "unbuilt" /\ foreign = None /\ defs = <<>> /\ docs = <<>>
           /\ Closed(<<>>, DefaultLimits)
  <2>1. ScheduleInv /\ pc = "text"
    BY <1>2 DEF ScheduleInit, ScheduleInv, CompiledAsWritten, RefusalExplained
  <2>2. Written = 0  BY <1>0, <1>2 DEF Written, None
  <2>3. Stages  BY <1>0, <1>2, <2>2 DEF Stages, RoundTrip, None
  <2>4. ReaderInv /\ Grows
    BY <1>0, <1>2, DefaultBounds
    DEF Closed, ReaderInv, Following, AcceptsWellFormed, Grows, Answering
  <2>5. QED  BY <1>2, <2>1, <2>3, <2>4 DEF TaskInv, Compiled
<1>3. QED  BY <1>1, <1>2 DEF InitTask

\* The whole of Stages, one part after the other, with the lists as they are.
StagesOf(f, ds, es, st, t, w, untidy) ==
  /\ IsList(f) /\ IsList(ds) /\ IsList(es)
  /\ \A i \in DOMAIN es : Sourced(es[i])
  /\ Len(es) \in 0..2
  /\ st \in {"unbuilt", "unbuildable", "bytes", "raw"} => es = <<>> /\ w = 0
  /\ st = "reading" => Len(es) = w /\ w \in {0, 1}
  /\ st = "typed" => Len(es) = w + 1 /\ w \in {0, 1}
  /\ st = "reading" /\ w = 1 => Valid(es[1]) /\ t = WriteDefinition(es[1])
  /\ st = "untyped" => w = 0
  /\ st = "refused" /\ w > 0 => untidy
  /\ Len(es) = 2 => WithoutExtensions(es[2]) = WithoutExtensions(Canonical(es[1]))

LEMMA StagesAre ==
  Stages <=> StagesOf(foreign, docs, defs, stage, text, Len(docs) - Len(foreign), ~WellFormed)
BY DEF Stages, StagesOf, RoundTrip, Written

LEMMA StagesNext ==
  ASSUME StagesOf(foreign', docs', defs', stage', text', Len(docs') - Len(foreign'),
                  ~WellFormed')
  PROVE  Stages'
<1>1. (Stages <=> StagesOf(foreign, docs, defs, stage, text, Len(docs) - Len(foreign),
                           ~WellFormed))'
  BY DEF Stages, StagesOf, RoundTrip, Written
<1>2. QED  BY <1>1

LEMMA StagesStay == Stages /\ UNCHANGED vars => Stages'
<1> SUFFICES ASSUME Stages, UNCHANGED vars PROVE Stages'  OBVIOUS
<1>1. UNCHANGED <<stage, foreign, defs, docs, readerVars>>  BY DEF vars
<1>2. text' = text /\ (WellFormed' <=> WellFormed)  BY <1>1, SameForm DEF readerVars
<1>3. StagesOf(foreign, docs, defs, stage, text, Len(docs) - Len(foreign), ~WellFormed)
  BY StagesAre
<1>4. QED  BY <1>1, <1>2, <1>3, StagesNext DEF StagesOf

\* Parse and compile: nothing is built yet.
LEMMA CompiledSchedules ==
  ASSUME Compiled, Stages, ScheduleStep
  PROVE  Compiled'
<1>1. stage = "unbuilt" /\ UNCHANGED vars /\ (Parse \/ Compile)
  BY DEF ScheduleStep, ScheduleNext
<1>2. ScheduleInv /\ pc # "none" /\ defs = <<>>  BY <1>1 DEF Compiled, Stages
<1>3. ScheduleInv'  BY <1>1, <1>2, Lawful, ParseKeeps, CompileKeeps
<1>4. pc' # "none"  BY <1>1 DEF Parse, Compile
<1>5. pc' = "compiled" => Compiles(triggers')
  <2>1. CASE Parse  BY <2>1 DEF Parse
  <2>2. CASE Compile
    <3>1. Parsed /\ anchor \in Anchors  BY <1>2, <2>2 DEF Compile, ScheduleInv
    <3>2. QED  BY <2>2, <3>1, CompileReturns
  <2>3. QED  BY <1>1, <2>1, <2>2
<1>6. stage' = "unbuilt" /\ defs' = <<>>  BY <1>1, <1>2 DEF vars
<1>7. (pc = "compiled" => Compiles(triggers))'  BY <1>5
<1>8. QED  BY <1>3, <1>4, <1>6, <1>7 DEF Compiled

LEMMA ScheduleStepKeeps == TaskInv /\ ScheduleStep => TaskInv'
<1> SUFFICES ASSUME TaskInv, ScheduleStep PROVE TaskInv'  OBVIOUS
<1>1. UNCHANGED vars /\ UNCHANGED readerVars  BY DEF ScheduleStep, vars
<1>2. ReaderInv /\ Grows /\ Stages /\ Compiled  BY DEF TaskInv
<1>3. ReaderInv' /\ Grows'  BY <1>1, <1>2, ReaderStays
<1>4. Stages'  BY <1>1, <1>2, StagesStay
<1>5. Compiled'  BY <1>2, CompiledSchedules
<1>6. QED  BY <1>3, <1>4, <1>5 DEF TaskInv

\* Nothing happens.
LEMMA CompiledStays == Compiled /\ UNCHANGED <<vars, scheduleVars>> => Compiled'
<1> SUFFICES ASSUME Compiled, UNCHANGED <<vars, scheduleVars>> PROVE Compiled'  OBVIOUS
<1>1. UNCHANGED <<stage, foreign, defs, docs, readerVars>> /\ UNCHANGED scheduleVars
      /\ UNCHANGED <<pc, expression, fields, anchor, triggers>>
  BY DEF vars, scheduleVars
<1>2. (WellFormed' <=> WellFormed)  BY <1>1, SameForm
<1>3. Written' = Written  BY <1>1 DEF Written
<1>4. CASE Unscheduled /\ stage \notin {"unbuilt", "unbuildable"}
  <2>1. Unscheduled'  BY <1>1, <1>4 DEF Unscheduled
  <2>2. QED  BY <1>1, <1>4, <2>1 DEF Compiled
<1>5. CASE ~Unscheduled
  <2>1. ScheduleInv'  BY <1>1, <1>5, ScheduleStays DEF Compiled
  <2>2. \A program : Assembled(program)' = Assembled(program)  BY <1>1 DEF Assembled
  <2>3. (pc = "compiled" => Compiles(triggers))'
    <3>1. pc = "compiled" => Compiles(triggers)  BY <1>5 DEF Compiled
    <3>2. pc' = "compiled" => Compiles(triggers')  BY <1>1, <3>1
    <3>3. QED  BY <3>2
  <2>4. (defs # <<>> =>
           /\ pc = "compiled"
           /\ \E program \in Programs : defs[1] = Assembled(program) /\ Valid(defs[1]))'
    BY <1>1, <1>5, <2>2 DEF Compiled
  <2>5. QED  BY <1>1, <1>2, <1>3, <1>5, <2>1, <2>3, <2>4 DEF Compiled
<1>6. QED  BY <1>4, <1>5 DEF Compiled, Unscheduled

LEMMA NothingKeeps == TaskInv /\ UNCHANGED <<vars, scheduleVars>> => TaskInv'
<1> SUFFICES ASSUME TaskInv, UNCHANGED <<vars, scheduleVars>> PROVE TaskInv'  OBVIOUS
<1>1. UNCHANGED vars /\ UNCHANGED readerVars  BY DEF vars
<1>2. ReaderInv /\ Grows /\ Stages /\ Compiled  BY DEF TaskInv
<1>3. ReaderInv' /\ Grows'  BY <1>1, <1>2, ReaderStays
<1>4. Stages' /\ Compiled'  BY <1>1, <1>2, StagesStay, CompiledStays
<1>5. QED  BY <1>3, <1>4 DEF TaskInv

\* A definition is built.
LEMMA One ==
  ASSUME NEW x
  PROVE  /\ IsList(<<x>>) /\ Len(<<x>>) = 1 /\ DOMAIN <<x>> = {1} /\ <<x>>[1] = x
         /\ <<x>> # <<>>
BY DEF IsList, ToSet

LEMMA BuildKeeps == TaskInv /\ Build => TaskInv'
<1> SUFFICES ASSUME TaskInv, Build PROVE TaskInv'  OBVIOUS
<1>1. PICK program \in Programs :
        /\ stage = "unbuilt" /\ pc = "compiled"
        /\ IF Buildable(Assembled(program))
           THEN defs' = <<Assembled(program)>> /\ stage' = "typed"
           ELSE stage' = "unbuildable" /\ UNCHANGED defs
        /\ UNCHANGED <<foreign, docs, readerVars, scheduleVars>>
  BY DEF Build
<1> DEFINE built == Assembled(program)
<1>2. ReaderInv /\ Grows /\ Stages /\ Compiled  BY DEF TaskInv
<1>3. ReaderInv' /\ Grows'  BY <1>1, <1>2, ReaderStays
<1>4. /\ ScheduleInv /\ Compiles(triggers)
      /\ defs = <<>> /\ Written = 0
      /\ IsList(foreign) /\ IsList(docs)
  BY <1>1, <1>2 DEF Compiled, Stages, Unscheduled
<1>5. ScheduleInv'  BY <1>1, <1>4, ScheduleStays
<1>6. /\ UNCHANGED <<pc, triggers>> /\ Written' = Written
      /\ Assembled(program)' = built
      /\ text' = text
  BY <1>1 DEF scheduleVars, Written, Assembled, readerVars
<1>7. Len(docs) - Len(foreign) = 0  BY <1>4 DEF Written
<1>8. (pc = "compiled" => Compiles(triggers))'  BY <1>4, <1>6
<1>9. CASE Buildable(built)
  <2>1. defs' = <<built>> /\ stage' = "typed"  BY <1>1, <1>9
  <2>2. Sourced(built) /\ Valid(built)
    BY <1>4, <1>9, AssembledSourced DEF Compiles, Buildable
  <2> HIDE DEF built
  <2>3. Stages'
    <3>1. StagesOf(foreign', docs', defs', stage', text', 0, ~WellFormed')
      BY <1>1, <1>4, <2>1, <2>2, One DEF StagesOf
    <3>2. Len(docs') - Len(foreign') = 0  BY <1>1, <1>7
    <3>3. QED  BY <3>1, <3>2, StagesNext
  <2>4. defs'[1] = built /\ Valid(defs'[1]) /\ defs' # <<>>  BY <2>1, <2>2, One
  <2>5. (\E other \in Programs : defs[1] = Assembled(other) /\ Valid(defs[1]))'
    BY <1>6, <2>4
  <2>6. Compiled'
    BY <1>1, <1>5, <1>6, <1>8, <2>1, <2>5 DEF Compiled
  <2>7. QED  BY <1>3, <2>3, <2>6 DEF TaskInv
<1>10. CASE ~Buildable(built)
  <2>1. defs' = <<>> /\ stage' = "unbuildable"  BY <1>1, <1>4, <1>10
  <2>2. Stages'
    <3>1. IsList(<<>>) /\ Len(<<>>) = 0 /\ DOMAIN <<>> = {}  BY DEF IsList, ToSet
    <3>2. StagesOf(foreign', docs', defs', stage', text', 0, ~WellFormed')
      BY <1>1, <1>4, <2>1, <3>1 DEF StagesOf
    <3>3. Len(docs') - Len(foreign') = 0  BY <1>1, <1>7
    <3>4. QED  BY <3>2, <3>3, StagesNext
  <2>3. Compiled'  BY <1>1, <1>5, <1>6, <1>8, <2>1 DEF Compiled
  <2>4. QED  BY <1>3, <2>2, <2>3 DEF TaskInv
<1>11. QED  BY <1>9, <1>10

\* A step of the codec leaves what the schedule left.
LEMMA CompiledOn ==
  ASSUME Compiled, UNCHANGED scheduleVars,
         stage' \notin {"unbuilt", "unbuildable"},
         ~Unscheduled => stage' \notin {"bytes", "raw", "untyped", "invalid"},
         ~Unscheduled => (stage' = "reading" => Written' = 1),
         ~Unscheduled => (stage' = "refused" => ~WellFormed'),
         ~Unscheduled => (defs' # <<>> => defs # <<>> /\ defs'[1] = defs[1])
  PROVE  Compiled'
<1>1. UNCHANGED <<pc, expression, fields, anchor, triggers>>  BY DEF scheduleVars
<1>2. CASE Unscheduled
  <2>1. Unscheduled'  BY <1>1, <1>2 DEF Unscheduled
  <2>2. QED  BY <2>1 DEF Compiled
<1>3. CASE ~Unscheduled
  <2>1. ScheduleInv'  BY <1>3, ScheduleStays DEF Compiled
  <2>2. \A program : Assembled(program)' = Assembled(program)  BY <1>1 DEF Assembled
  <2>3. (pc = "compiled" => Compiles(triggers))'
    <3>1. pc = "compiled" => Compiles(triggers)  BY <1>3 DEF Compiled
    <3>2. pc' = "compiled" => Compiles(triggers')  BY <1>1, <3>1
    <3>3. QED  BY <3>2
  <2>4. (defs # <<>> =>
           /\ pc = "compiled"
           /\ \E program \in Programs : defs[1] = Assembled(program) /\ Valid(defs[1]))'
    BY <1>1, <1>3, <2>2 DEF Compiled
  <2>5. pc' # "none"  BY <1>1, <1>3 DEF Compiled
  <2>6. QED  BY <1>3, <2>1, <2>3, <2>4, <2>5 DEF Compiled
<1>4. QED  BY <1>2, <1>3

LEMMA ReadTakes == Read => text' = text
BY DEF Read, Start, Empty, End, Text, Reference, Illegal, Comment, Eof, Consume

LEMMA ReadOnKeeps == TaskInv /\ ReadOn /\ UNCHANGED scheduleVars => TaskInv'
<1> SUFFICES ASSUME TaskInv, ReadOn, UNCHANGED scheduleVars PROVE TaskInv'  OBVIOUS
<1>1. /\ stage \in {"raw", "reading"} /\ Read
      /\ UNCHANGED <<stage, foreign, defs, docs>>
  BY DEF ReadOn
<1>2. ReaderInv /\ Grows /\ Stages /\ Compiled  BY DEF TaskInv
<1>3. ReaderInv' /\ Grows'  BY <1>1, <1>2, ReadKeeps, ReadGrows DEF ReaderInv
<1>4. text' = text  BY <1>1, ReadTakes
<1>5. Stages'
  <2>1. StagesOf(foreign, docs, defs, stage, text, Len(docs) - Len(foreign), ~WellFormed)
    BY <1>2, StagesAre
  <2>2. QED  BY <1>1, <1>4, <2>1, StagesNext DEF StagesOf
<1>6. Compiled'
  <2>1. Written' = Written  BY <1>1 DEF Written
  <2>2. ~Unscheduled => stage # "raw" /\ Written = 1
    BY <1>1, <1>2 DEF Compiled
  <2>3. QED  BY <1>1, <1>2, <2>1, <2>2, CompiledOn
<1>7. QED  BY <1>3, <1>5, <1>6 DEF TaskInv

\* The bytes of a document are decoded: it is not ours.
LEMMA DecodeKeeps == TaskInv /\ Decode /\ UNCHANGED scheduleVars => TaskInv'
<1> SUFFICES ASSUME TaskInv, Decode, UNCHANGED scheduleVars PROVE TaskInv'  OBVIOUS
<1>1. /\ stage = "bytes" /\ UNCHANGED <<foreign, defs, docs>>
      /\ \/ stage' = "refused" /\ UNCHANGED readerVars
         \/ stage' = "raw" /\ Open(text, limits)
  BY DEF Decode
<1>2. ReaderInv /\ Grows /\ Stages /\ Compiled  BY DEF TaskInv
<1>3. ReaderInv' /\ Grows'
  <2>1. IsList(text) /\ limits \in Bounds  BY <1>2 DEF ReaderInv
  <2>2. QED  BY <1>1, <1>2, <2>1, ReaderStays, Opened
<1>4. Stages'
  <2>1. StagesOf(foreign, docs, defs, stage, text, Len(docs) - Len(foreign), ~WellFormed)
    BY <1>2, StagesAre
  <2>2. defs = <<>> /\ Len(docs) - Len(foreign) = 0 /\ Len(<<>>) = 0
    BY <1>1, <2>1 DEF StagesOf
  <2>3. StagesOf(foreign, docs, defs, stage', text', 0, ~WellFormed')
    BY <1>1, <2>1, <2>2 DEF StagesOf
  <2>4. QED  BY <1>1, <2>2, <2>3, StagesNext
<1>5. Compiled'
  <2>1. Unscheduled  BY <1>1, <1>2 DEF Compiled
  <2>2. stage' \notin {"unbuilt", "unbuildable"}  BY <1>1
  <2>3. QED  BY <1>2, <2>1, <2>2, CompiledOn
<1>6. QED  BY <1>3, <1>4, <1>5 DEF TaskInv

\* A document is retained, and opened again to be understood.
LEMMA RetainKeeps == TaskInv /\ Retain /\ UNCHANGED scheduleVars => TaskInv'
<1> SUFFICES ASSUME TaskInv, Retain, UNCHANGED scheduleVars PROVE TaskInv'  OBVIOUS
<1>1. /\ stage = "raw" /\ UNCHANGED <<foreign, defs, docs>>
      /\ stage' = "reading" /\ Open(text, DefaultLimits)
  BY DEF Retain
<1>2. ReaderInv /\ Grows /\ Stages /\ Compiled  BY DEF TaskInv
<1>3. ReaderInv' /\ Grows'
  <2>1. IsList(text)  BY <1>2 DEF ReaderInv
  <2>2. QED  BY <1>1, <2>1, DefaultBounds, Opened
<1>4. Stages'
  <2>1. StagesOf(foreign, docs, defs, stage, text, Len(docs) - Len(foreign), ~WellFormed)
    BY <1>2, StagesAre
  <2>2. defs = <<>> /\ Len(docs) - Len(foreign) = 0 /\ Len(<<>>) = 0
    BY <1>1, <2>1 DEF StagesOf
  <2>3. StagesOf(foreign, docs, defs, stage', text', 0, ~WellFormed')
    BY <1>1, <2>1, <2>2 DEF StagesOf
  <2>4. QED  BY <1>1, <2>2, <2>3, StagesNext
<1>5. Compiled'
  <2>1. Unscheduled  BY <1>1, <1>2 DEF Compiled
  <2>2. stage' \notin {"unbuilt", "unbuildable"}  BY <1>1
  <2>3. QED  BY <1>2, <2>1, <2>2, CompiledOn
<1>6. QED  BY <1>3, <1>4, <1>5 DEF TaskInv

\* What the reader refuses is not well formed.
LEMMA RejectKeeps == TaskInv /\ Reject /\ UNCHANGED scheduleVars => TaskInv'
<1> SUFFICES ASSUME TaskInv, Reject, UNCHANGED scheduleVars PROVE TaskInv'  OBVIOUS
<1>1. /\ stage \in {"raw", "reading"} /\ outcome = "refused" /\ stage' = "refused"
      /\ UNCHANGED <<foreign, defs, docs, readerVars>>
  BY DEF Reject
<1>2. ReaderInv /\ Grows /\ Stages /\ Compiled  BY DEF TaskInv
<1>3. ReaderInv' /\ Grows'  BY <1>1, <1>2, ReaderStays
<1>4. ~WellFormed'
  <2>1. ~WellFormed  BY <1>1, <1>2 DEF ReaderInv, AcceptsWellFormed
  <2>2. QED  BY <1>1, <2>1, SameForm
<1>5. Stages'
  <2>1. StagesOf(foreign, docs, defs, stage, text, Len(docs) - Len(foreign), ~WellFormed)
    BY <1>2, StagesAre
  <2>2. StagesOf(foreign, docs, defs, stage', text', Len(docs) - Len(foreign), ~WellFormed')
    BY <1>1, <1>4, <2>1 DEF StagesOf
  <2>3. QED  BY <1>1, <2>2, StagesNext
<1>6. Compiled'  BY <1>1, <1>2, <1>4, CompiledOn
<1>7. QED  BY <1>3, <1>5, <1>6 DEF TaskInv

\* A definition is written, and the document is opened.
LEMMA WrittenOpens ==
  ASSUME NEW d, Sourced(d), Valid(d), Open(WriteDefinition(d), DefaultLimits)
  PROVE  ReaderInv' /\ Grows' /\ text' = WriteDefinition(d)
<1>1. PICK S : Hereditary(S) /\ IsDefinition(d, S)  BY DEF Sourced
<1>2. DefinitionKept(d)  BY <1>1, EveryDefinitionKept
<1>3. IsList(WriteDefinition(d))  BY <1>2, ReadsIt DEF DefinitionKept
<1>4. QED  BY <1>3, DefaultBounds, Opened DEF Open

\* What validation looks at in the ids of triggers.
LEMMA TriggerIdsOf ==
  ASSUME NEW ts, NEW i \in DOMAIN ts
  PROVE  /\ i \in DOMAIN TriggerIds(ts) /\ DOMAIN TriggerIds(ts) = DOMAIN ts
         /\ ts[i].common.id = None => TriggerIds(ts)[i] = None
         /\ \A us, j : j \in DOMAIN us /\ us[j] = ts[i] => TriggerIds(us)[j] = TriggerIds(ts)[i]
BY DEF TriggerIds

\* Triggers without an id change nothing of whether ids differ.
LEMMA OwnIdsDiffer ==
  ASSUME NEW a, NEW b, IsList(a), IsList(b), \A i \in DOMAIN a : a[i].common.id = None
  PROVE  Distinct(TriggerIds(a \o b)) <=> Distinct(TriggerIds(b))
<1> DEFINE c == a \o b
           n == Len(a)
           k == Len(b)
<1>1. /\ IsList(c) /\ Len(c) = n + k /\ n \in Nat /\ k \in Nat
      /\ DOMAIN a = 1..n /\ DOMAIN b = 1..k
      /\ \A i \in 1..n : c[i] = a[i]
      /\ \A i \in 1..k : c[n + i] = b[i]
  BY Concat, ListParts
<1>2. DOMAIN c = 1..(n + k)  BY <1>1, ListParts
<1> HIDE DEF c, n, k
<1> DEFINE p == TriggerIds(c)
           q == TriggerIds(b)
<1>3. DOMAIN p = 1..(n + k) /\ DOMAIN q = 1..k  BY <1>1, <1>2 DEF TriggerIds
<1>4. \A i \in 1..n : p[i] = None
  <2> TAKE i \in 1..n
  <2>1. i \in DOMAIN c /\ c[i].common.id = None  BY <1>1, <1>2
  <2>2. QED  BY <2>1, TriggerIdsOf
<1>5. \A i \in 1..k : p[n + i] = q[i]
  <2> TAKE i \in 1..k
  <2>1. i \in DOMAIN b /\ n + i \in DOMAIN c /\ c[n + i] = b[i]  BY <1>1, <1>2
  <2>2. QED  BY <2>1, TriggerIdsOf
<1> HIDE DEF p, q
<1>6. ASSUME Distinct(p) PROVE Distinct(q)
  <2> SUFFICES ASSUME NEW i \in 1..k, NEW j \in 1..k, q[i] = q[j], q[i] # None PROVE i = j
    BY <1>3 DEF Distinct
  <2>1. n + i \in 1..(n + k) /\ n + j \in 1..(n + k)  BY <1>1
  <2>2. n + i = n + j  BY <1>3, <1>5, <1>6, <2>1 DEF Distinct
  <2>3. QED  BY <1>1, <2>2
<1>7. ASSUME Distinct(q) PROVE Distinct(p)
  <2> SUFFICES ASSUME NEW i \in 1..(n + k), NEW j \in 1..(n + k), p[i] = p[j], p[i] # None
               PROVE  i = j
    BY <1>3 DEF Distinct
  <2>1. i > n /\ j > n  BY <1>1, <1>4
  <2> DEFINE x == i - n
             y == j - n
  <2>2. x \in 1..k /\ y \in 1..k /\ i = n + x /\ j = n + y  BY <1>1, <2>1
  <2> HIDE DEF x, y
  <2>3. q[x] = q[y] /\ q[x] # None  BY <1>5, <2>2
  <2>4. x = y  BY <1>3, <1>7, <2>2, <2>3 DEF Distinct
  <2>5. QED  BY <2>2, <2>4
<1>8. QED  BY <1>6, <1>7 DEF p, q, c

\* A program is as valid without the triggers of its schedule.
LEMMA ProgramValid ==
  ASSUME NEW program \in Programs, Compiles(triggers), Valid(Assembled(program))
  PROVE  Valid(Collected(program, <<>>))
<1> DEFINE own == program.triggers
           c == triggers \o own
           none == <<>>
           d == Assembled(program)
           e == Collected(program, none)
<1>1. IsList(own) /\ IsList(triggers)
  BY ProgramsAssumption DEF Compiles, AllAllowed
<1>2. none \o own = own
  <2>1. own \in Seq(ToSet(own))  BY <1>1 DEF IsList
  <2>2. QED  BY <2>1, ConcatEmptySeq
<1> HIDE DEF none
<1>3. /\ d.schema_version = "1.6" /\ d.triggers = c /\ d.principal = program.principal
      /\ d.settings = program.settings /\ d.actions = program.actions
  BY CollectedForm DEF Assembled
<1>4. /\ e.schema_version = "1.6" /\ e.triggers = none \o own
      /\ e.principal = program.principal
      /\ e.settings = program.settings /\ e.actions = program.actions
  BY CollectedForm
<1>5. e.triggers = own  BY <1>2, <1>4
<1>6. Valid(d)  OBVIOUS
<1>7. Distinct(TriggerIds(own))
  <2>1. Distinct(TriggerIds(c))  BY <1>3, <1>6 DEF Valid
  <2>2. \A i \in DOMAIN triggers : triggers[i].common.id = None  BY DEF Compiles, Settles
  <2>3. QED  BY <1>1, <2>1, <2>2, OwnIdsDiffer
<1>8. ValidTriggers(own)
  <2>1. \A i \in DOMAIN c : ValidTrigger(c[i])  BY <1>3, <1>6 DEF Valid, ValidTriggers
  <2>2. /\ \A i \in 1..Len(own) : c[Len(triggers) + i] = own[i]
        /\ Len(c) = Len(triggers) + Len(own) /\ IsList(c)
        /\ Len(triggers) \in Nat /\ Len(own) \in Nat
        /\ DOMAIN own = 1..Len(own)
    BY <1>1, Concat, ListParts
  <2>3. DOMAIN c = 1..(Len(triggers) + Len(own))  BY <2>2, ListParts
  <2> HIDE DEF c, own
  <2>4. \A i \in 1..Len(own) : Len(triggers) + i \in DOMAIN c  BY <2>2, <2>3
  <2>5. QED  BY <2>1, <2>2, <2>4 DEF ValidTriggers
<1> HIDE DEF d, e, own, c
<1>9. ValidSchema(e)  BY <1>3, <1>4, <1>6 DEF Valid, ValidSchema
<1>10. Valid(e)  BY <1>3, <1>4, <1>5, <1>6, <1>7, <1>8, <1>9 DEF Valid
<1>11. QED  BY <1>10 DEF e, none

\* What validation asks of the definition that is read back of a program with
\* the triggers of its schedule.
LEMMA AssembledStays ==
  ASSUME NEW program \in Programs, Compiles(triggers), NEW d, d = Assembled(program), Valid(d)
  PROVE  /\ LogonFits(CanonicalPrincipal(d.principal))
         /\ Distinct(ActionIds(Each(d.actions, CanonicalAction)))
         /\ Distinct(TriggerIds(Each(d.triggers, CanonicalTrigger)))
<1> DEFINE own == program.triggers
           none == <<>>
           e == Collected(program, none)
           f == Canonical(e)
           g == Each(own, CanonicalTrigger)
           h == Each(triggers \o own, CanonicalTrigger)
<1>1. IsList(own) /\ IsList(triggers) /\ \A i \in DOMAIN triggers : Settles(triggers[i])
  BY ProgramsAssumption DEF Compiles, AllAllowed
<1>2. none \o own = own
  <2>1. own \in Seq(ToSet(own))  BY <1>1 DEF IsList
  <2>2. QED  BY <2>1, ConcatEmptySeq
<1>3. Valid(f)  BY ProgramValid, ProgramsAssumption
<1>4. d.principal = program.principal /\ d.actions = program.actions
      /\ d.triggers = triggers \o own
  BY CollectedForm DEF Assembled
<1>5. /\ f.principal = CanonicalPrincipal(program.principal)
      /\ f.actions = Each(program.actions, CanonicalAction)
      /\ f.triggers = g
  <2> HIDE DEF none
  <2> DEFINE x0 == ReadAttribute(e.schema_version)
             x1 == [name \in DOMAIN e.registration |-> Texts(e.registration[name])]
             x2 == CanonicalPrincipal(e.principal)
             x3 == CanonicalSettings(e.settings)
             x4 == Each(e.triggers, CanonicalTrigger)
             x5 == Texts(e.data)
             x6 == Each(e.actions, CanonicalAction)
  <2>1. f = [e EXCEPT !.schema_version = x0, !.registration = x1, !.principal = x2,
                      !.settings = x3, !.triggers = x4, !.data = x5, !.actions = x6]
    BY DEF Canonical
  <2>2. e = [schema_version |-> "1.6", registration |-> DefaultRegistration,
             triggers |-> none \o own, principal |-> program.principal,
             settings |-> program.settings, data |-> None, actions |-> program.actions,
             extensions |-> <<>>]
    BY CollectedForm
  <2>3. /\ x2 = CanonicalPrincipal(program.principal)
        /\ x6 = Each(program.actions, CanonicalAction) /\ x4 = g
    BY <1>2, <2>2
  <2> HIDE DEF f, e, x0, x1, x2, x3, x4, x5, x6
  <2>4. f.principal = x2 /\ f.actions = x6 /\ f.triggers = x4  BY <2>1, <2>2
  <2>5. QED  BY <2>3, <2>4
<1> HIDE DEF f, e, g
<1>6. /\ LogonFits(f.principal) /\ Distinct(ActionIds(f.actions))
      /\ Distinct(TriggerIds(f.triggers))
  BY <1>3 DEF Valid, ValidPrincipal
<1>7. h = triggers \o g
  <2> DEFINE c == triggers \o own
             m == triggers \o g
             n == Len(triggers)
             k == Len(own)
  <2>1. DOMAIN g = DOMAIN own /\ (\A i \in DOMAIN own : g[i] = CanonicalTrigger(own[i]))
        /\ g = [i \in DOMAIN own |-> g[i]]
    BY DEF g, Each
  <2>2. IsList(g) /\ Len(g) = k  BY <1>1, <2>1, Mapped
  <2>3. /\ IsList(c) /\ Len(c) = n + k /\ n \in Nat /\ k \in Nat
        /\ DOMAIN triggers = 1..n /\ DOMAIN own = 1..k
        /\ \A i \in 1..n : c[i] = triggers[i]
        /\ \A i \in 1..k : c[n + i] = own[i]
    BY <1>1, Concat, ListParts
  <2>4. /\ IsList(m) /\ Len(m) = n + k
        /\ \A i \in 1..n : m[i] = triggers[i]
        /\ \A i \in 1..k : m[n + i] = g[i]
    BY <1>1, <2>2, Concat
  <2>5. DOMAIN c = 1..(n + k)  BY <2>3, ListParts
  <2>6. DOMAIN h = DOMAIN c /\ (\A i \in DOMAIN c : h[i] = CanonicalTrigger(c[i]))
        /\ h = [i \in DOMAIN c |-> h[i]]
    BY DEF Each
  <2> HIDE DEF h, c
  <2>7. IsList(h) /\ Len(h) = n + k  BY <2>3, <2>6, Mapped
  <2> HIDE DEF m, n, k, own
  <2>8. ASSUME NEW i \in 1..(n + k) PROVE h[i] = m[i]
    <3>1. CASE i <= n
      <4>1. i \in 1..n /\ i \in DOMAIN c  BY <2>3, <2>5, <3>1
      <4>2. Settles(triggers[i])  BY <1>1, <2>3, <4>1
      <4>3. QED  BY <2>3, <2>4, <2>6, <4>1, <4>2 DEF Settles
    <3>2. CASE i > n
      <4> DEFINE j == i - n
      <4>1. j \in 1..k /\ i = n + j  BY <2>3, <3>2
      <4> HIDE DEF j
      <4>2. c[i] = own[j] /\ m[i] = g[j]  BY <2>3, <2>4, <4>1
      <4>3. QED  BY <2>1, <2>3, <2>5, <2>6, <4>1, <4>2
    <3>3. QED  BY <2>3, <3>1, <3>2
  <2>9. h = m  BY <2>4, <2>7, <2>8, SameList
  <2>10. QED  BY <2>9 DEF m
<1>8. IsList(g)
  <2>1. g = [i \in DOMAIN own |-> g[i]]  BY DEF g, Each
  <2>2. QED  BY <1>1, <2>1, Mapped
<1>9. Distinct(TriggerIds(h))
  <2>1. \A i \in DOMAIN triggers : triggers[i].common.id = None  BY <1>1 DEF Settles
  <2>2. Distinct(TriggerIds(g))  BY <1>5, <1>6
  <2>3. Distinct(TriggerIds(triggers \o g))  BY <1>1, <1>8, <2>1, <2>2, OwnIdsDiffer
  <2>4. QED  BY <1>7, <2>3
<1>10. QED  BY <1>4, <1>5, <1>6, <1>9

\* What came from a schedule is valid when it is written for the second time.
LEMMA StaysValid ==
  ASSUME Stages, Compiled, ~Unscheduled, stage = "typed"
  PROVE  Valid(defs[Len(defs)])
<1>1. StagesOf(foreign, docs, defs, stage, text, Len(docs) - Len(foreign), ~WellFormed)
  BY StagesAre
<1>2. /\ IsList(defs) /\ Len(defs) \in {1, 2}
      /\ \A i \in DOMAIN defs : Sourced(defs[i])
      /\ Len(defs) = 2 =>
           WithoutExtensions(defs[2]) = WithoutExtensions(Canonical(defs[1]))
  BY <1>1 DEF StagesOf
<1>3. DOMAIN defs = 1..Len(defs)  BY <1>2, ListParts
<1>4. defs # <<>>
  <2>1. Len(<<>>) = 0  OBVIOUS
  <2>2. QED  BY <1>2, <2>1
<1>5. PICK program \in Programs : defs[1] = Assembled(program) /\ Valid(defs[1])
  BY <1>4 DEF Compiled
<1>6. CASE Len(defs) = 1  BY <1>5, <1>6
<1>7. CASE Len(defs) = 2
  <2>1. PICK S : IsDefinition(defs[1], S)  BY <1>2, <1>3, <1>7 DEF Sourced
  <2>2. PICK U : IsDefinition(defs[2], U)  BY <1>2, <1>3, <1>7 DEF Sourced
  <2>3. Compiles(triggers)  BY <1>4 DEF Compiled
  <2>4. /\ LogonFits(CanonicalPrincipal(defs[1].principal))
        /\ Distinct(ActionIds(Each(defs[1].actions, CanonicalAction)))
        /\ Distinct(TriggerIds(Each(defs[1].triggers, CanonicalTrigger)))
    BY <1>5, <2>3, AssembledStays
  <2>5. Valid(defs[2])  BY <1>2, <1>5, <1>7, <2>1, <2>2, <2>4, ReadIsValid
  <2>6. QED  BY <1>7, <2>5
<1>8. QED  BY <1>2, <1>6, <1>7

LEMMA SerializeKeeps == TaskInv /\ Serialize /\ UNCHANGED scheduleVars => TaskInv'
<1> SUFFICES ASSUME TaskInv, Serialize, UNCHANGED scheduleVars PROVE TaskInv'  OBVIOUS
<1>1. ReaderInv /\ Grows /\ Stages /\ Compiled  BY DEF TaskInv
<1>2. StagesOf(foreign, docs, defs, stage, text, Len(docs) - Len(foreign), ~WellFormed)
  BY <1>1, StagesAre
<1>3. stage = "typed" /\ UNCHANGED <<defs, foreign>>  BY DEF Serialize
<1>4. /\ IsList(defs) /\ Len(defs) = Written + 1 /\ Written \in {0, 1}
      /\ \A i \in DOMAIN defs : Sourced(defs[i])
      /\ IsList(docs) /\ IsList(foreign)
  BY <1>2, <1>3 DEF StagesOf, Written
<1>5. DOMAIN defs = 1..Len(defs) /\ Len(docs) \in Nat /\ Len(foreign) \in Nat
  BY <1>4, ListParts
<1> DEFINE d == defs[Len(defs)]
<1>6. Sourced(d)  BY <1>4, <1>5
<1>7. Last(defs) = d  BY DEF Last
<1>8. CASE ~Valid(d)
  <2>1. stage' = "invalid" /\ UNCHANGED <<docs, readerVars>>
    BY <1>7, <1>8 DEF Serialize
  <2>2. ReaderInv' /\ Grows'  BY <1>1, <2>1, ReaderStays
  <2>3. Stages'
    <3>1. StagesOf(foreign, docs, defs, stage', text', Len(docs) - Len(foreign),
                   ~WellFormed')
      BY <1>2, <2>1 DEF StagesOf
    <3>2. QED  BY <1>3, <2>1, <3>1, StagesNext
  <2>4. Unscheduled  BY <1>1, <1>3, <1>8, StaysValid
  <2>5. stage' \notin {"unbuilt", "unbuildable"}  BY <2>1
  <2>6. Compiled'  BY <1>1, <2>4, <2>5, CompiledOn
  <2>7. QED  BY <2>2, <2>3, <2>6 DEF TaskInv
<1>9. CASE Valid(d)
  <2> DEFINE document == WriteDefinition(d)
             stage1 == IF Written = 0 THEN "reading" ELSE "done"
  <2>1. docs' = Append(docs, document) /\ Open(document, DefaultLimits)
        /\ stage' = stage1
    BY <1>7, <1>9 DEF Serialize
  <2>2. ReaderInv' /\ Grows' /\ text' = document  BY <1>6, <1>9, <2>1, WrittenOpens
  <2>3. IsList(docs') /\ Len(docs') = Len(docs) + 1  BY <1>4, <2>1, Longer
  <2>4. Len(docs') - Len(foreign') = Written + 1  BY <1>3, <1>5, <2>3 DEF Written
  <2>5. Stages'
    <3>1. CASE Written = 0
      <4>1. stage' = "reading" /\ Len(defs) = 1 /\ defs[1] = d
        BY <1>4, <2>1, <3>1
      <4>2. StagesOf(foreign, docs', defs, stage', text', 1, ~WellFormed')
        BY <1>2, <1>9, <2>2, <2>3, <4>1 DEF StagesOf
      <4>3. QED  BY <1>3, <2>4, <3>1, <4>2, StagesNext
    <3>2. CASE Written = 1
      <4>1. stage' = "done"  BY <2>1, <3>2
      <4>2. StagesOf(foreign, docs', defs, stage', text', 2, ~WellFormed')
        BY <1>2, <2>3, <4>1 DEF StagesOf
      <4>3. QED  BY <1>3, <2>4, <3>2, <4>2, StagesNext
    <3>3. QED  BY <1>4, <3>1, <3>2
  <2>6. Compiled'
    <3>1. stage' \in {"reading", "done"}  BY <2>1
    <3>2. stage' = "reading" => Written' = 1  BY <2>1, <2>4 DEF Written
    <3>3. QED  BY <1>1, <1>3, <3>1, <3>2, CompiledOn
  <2>7. QED  BY <2>2, <2>5, <2>6 DEF TaskInv
<1>10. QED  BY <1>8, <1>9

-----------------------------------------------------------------------------
\* A definition that is read back of the document that was written of one.
LEMMA UnderstoodAgain ==
  ASSUME Grows, outcome = "accepted", NEW d, Sourced(d), Valid(d),
         text = WriteDefinition(d)
  PROVE  /\ Readable(root[1])
         /\ WithoutExtensions(DefinitionOf(root[1])) = WithoutExtensions(Canonical(d))
<1>1. PICK S : Hereditary(S) /\ IsDefinition(d, S)  BY DEF Sourced
<1>2. DefinitionKept(d)  BY <1>1, EveryDefinitionKept
<1>3. Reads(text, NodeOf(text))  BY <1>2, ReadsIt DEF DefinitionKept
<1>4. root = <<NodeOf(text)>>  BY <1>3, ReadAsWritten
<1>5. root[1] = NodeOf(text)  BY <1>4
<1>6. QED  BY <1>2, <1>5 DEF DefinitionKept

LEMMA UnderstoodTyped ==
  ASSUME Grows, outcome = "accepted", Readable(root[1])
  PROVE  Sourced(DefinitionOf(root[1]))
<1>1. PICK S : Hereditary(S) /\ \E n \in S : root = <<n>>  BY RootStands
<1>2. PICK n \in S : root = <<n>>  BY <1>1
<1>3. root[1] = n  BY <1>2
<1>4. IsDefinition(DefinitionOf(n), S)  BY <1>1, <1>3, DefinitionTyped
<1>5. QED  BY <1>1, <1>3, <1>4 DEF Sourced

LEMMA UnderstandKeeps == TaskInv /\ Understand /\ UNCHANGED scheduleVars => TaskInv'
<1> SUFFICES ASSUME TaskInv, Understand, UNCHANGED scheduleVars PROVE TaskInv'  OBVIOUS
<1>1. ReaderInv /\ Grows /\ Stages /\ Compiled  BY DEF TaskInv
<1>2. StagesOf(foreign, docs, defs, stage, text, Len(docs) - Len(foreign), ~WellFormed)
  BY <1>1, StagesAre
<1>3. /\ stage = "reading" /\ outcome = "accepted"
      /\ UNCHANGED <<foreign, docs, readerVars>>
  BY DEF Understand
<1>4. ReaderInv' /\ Grows'  BY <1>1, <1>3, ReaderStays
<1>5. /\ IsList(defs) /\ Len(defs) = Written /\ Written \in {0, 1}
      /\ \A i \in DOMAIN defs : Sourced(defs[i])
      /\ Written = 1 => Valid(defs[1]) /\ text = WriteDefinition(defs[1])
  BY <1>2, <1>3 DEF StagesOf, Written
<1>6. DOMAIN defs = 1..Len(defs)  BY <1>5, ListParts
<1> DEFINE e == DefinitionOf(root[1])
<1>7. Written = 1 =>
        /\ Sourced(defs[1])
        /\ Readable(root[1]) /\ WithoutExtensions(e) = WithoutExtensions(Canonical(defs[1]))
  BY <1>1, <1>3, <1>5, <1>6, UnderstoodAgain
<1>8. Len(docs') - Len(foreign') = Written /\ Written' = Written
  BY <1>3 DEF Written
<1>9. CASE Readable(root[1])
  <2>1. defs' = Append(defs, e) /\ stage' = "typed"  BY <1>9 DEF Understand
  <2>2. Sourced(e)  BY <1>1, <1>3, <1>9, UnderstoodTyped
  <2> HIDE DEF e
  <2>3. /\ IsList(defs') /\ Len(defs') = Len(defs) + 1
        /\ DOMAIN defs' = 1..(Len(defs) + 1)
        /\ \A i \in 1..Len(defs) : defs'[i] = defs[i]
        /\ defs'[Len(defs) + 1] = e
    BY <1>5, <2>1, Longer
  <2>4. CASE Written = 0
    <3>1. Len(defs') = 1 /\ \A i \in DOMAIN defs' : Sourced(defs'[i])
      BY <1>5, <2>2, <2>3, <2>4
    <3>2. StagesOf(foreign', docs', defs', stage', text', 0, ~WellFormed')
      BY <1>2, <1>3, <2>1, <2>3, <3>1 DEF StagesOf
    <3>3. Stages'  BY <1>8, <2>4, <3>2, StagesNext
    <3>4. Unscheduled  BY <1>1, <1>3, <2>4 DEF Compiled
    <3>5. Compiled'  BY <1>1, <2>1, <3>4, CompiledOn
    <3>6. QED  BY <1>4, <3>3, <3>5 DEF TaskInv
  <2>5. CASE Written = 1
    <3>1. /\ Len(defs') = 2 /\ defs'[1] = defs[1] /\ defs'[2] = e
          /\ DOMAIN defs' = {1, 2}
      BY <1>5, <2>3, <2>5
    <3>2. \A i \in DOMAIN defs' : Sourced(defs'[i])  BY <1>7, <2>2, <2>5, <3>1
    <3>3. WithoutExtensions(defs'[2]) = WithoutExtensions(Canonical(defs'[1]))
      BY <1>7, <2>5, <3>1
    <3>4. StagesOf(foreign', docs', defs', stage', text', 1, ~WellFormed')
      BY <1>2, <1>3, <2>1, <2>3, <3>1, <3>2, <3>3 DEF StagesOf
    <3>5. Stages'  BY <1>8, <2>5, <3>4, StagesNext
    <3>6. defs # <<>>
      <4>1. Len(<<>>) = 0  OBVIOUS
      <4>2. QED  BY <1>5, <2>5, <4>1
    <3>7. Compiled'  BY <1>1, <2>1, <3>1, <3>6, CompiledOn
    <3>8. QED  BY <1>4, <3>5, <3>7 DEF TaskInv
  <2>6. QED  BY <1>5, <2>4, <2>5
<1>10. CASE ~Readable(root[1])
  <2>1. stage' = "untyped" /\ defs' = defs /\ Written = 0
    BY <1>5, <1>7, <1>10 DEF Understand
  <2>2. StagesOf(foreign', docs', defs', stage', text', 0, ~WellFormed')
    BY <1>2, <1>3, <2>1 DEF StagesOf
  <2>3. Stages'  BY <1>8, <2>1, <2>2, StagesNext
  <2>4. Unscheduled  BY <1>1, <1>3, <2>1 DEF Compiled
  <2>5. Compiled'  BY <1>1, <2>1, <2>4, CompiledOn
  <2>6. QED  BY <1>4, <2>3, <2>5 DEF TaskInv
<1>11. QED  BY <1>9, <1>10

-----------------------------------------------------------------------------
LEMMA CodecKeeps == TaskInv /\ CodecStep => TaskInv'
BY DecodeKeeps, SerializeKeeps, ReadOnKeeps, RetainKeeps, RejectKeeps, UnderstandKeeps
DEF CodecStep, Next

\* What is true of every state on the way from an expression, a definition or
\* a foreign document to the second document.
THEOREM TaskKeeps == SpecTask => []TaskInv
<1>1. TaskInv /\ [NextTask]_<<vars, scheduleVars>> => TaskInv'
  BY ScheduleStepKeeps, BuildKeeps, CodecKeeps, NothingKeeps DEF NextTask
<1>2. QED  BY <1>1, TaskBegins, PTL DEF SpecTask

\* to_xml and then from_xml give the definition again in its canonical form,
\* whatever its size and the elements it carries unread.  The canonical form
\* is what RoundTrip allows to change: built-in accounts, derived logons, zero
\* limits, line ends, and tabs and line ends in attributes, where two value
\* queries may come to have one name.  What may go wrong on the way is that
\* the document is larger than the reader allows.
THEOREM WrittenAndReadBack == SpecTask => []RoundTrip
<1>1. TaskInv => RoundTrip  BY DEF TaskInv, Stages
<1>2. QED  BY <1>1, TaskKeeps, PTL

\* from_xml, with its decoding, the retained document and the limits on nodes,
\* depth and bytes, accepts a document exactly if it is well formed and within
\* the limits (parse_dom), whatever was written or read before it.
THEOREM DocumentsAccepted == SpecTask => []AcceptsWellFormed
<1>1. TaskInv => AcceptsWellFormed  BY DEF TaskInv, ReaderInv
<1>2. QED  BY <1>1, TaskKeeps, PTL

LEMMA RunsOnce == TaskInv => ExactOnce
<1> SUFFICES ASSUME TaskInv PROVE ExactOnce  OBVIOUS
<1>1. CASE Unscheduled
  BY <1>1 DEF ExactOnce, Unscheduled, CompiledAsWritten
<1>2. CASE ~Unscheduled
  <2>1. CompiledAsWritten  BY <1>2 DEF TaskInv, Compiled, ScheduleInv
  <2>2. ASSUME pc = "compiled", Len(defs) > 1  PROVE RunsAsWritten(Scheduled(defs[2]))
    <3>1. /\ IsList(defs) /\ Len(defs) = 2
          /\ \A i \in DOMAIN defs : Sourced(defs[i])
          /\ WithoutExtensions(defs[2]) = WithoutExtensions(Canonical(defs[1]))
      <4>1. /\ IsList(defs) /\ Len(defs) \in 0..2 /\ RoundTrip
            /\ \A i \in DOMAIN defs : Sourced(defs[i])
        BY DEF TaskInv, Stages
      <4>2. Len(defs) = 2
        <5> DEFINE n == Len(defs)
        <5>1. n \in 0..2 /\ n > 1  BY <2>2, <4>1
        <5> HIDE DEF n
        <5>2. n = 2  BY ONLY <5>1
        <5>3. QED  BY <5>2 DEF n
      <4>3. QED  BY <4>1, <4>2 DEF RoundTrip
    <3>2. DOMAIN defs = 1..2 /\ defs # <<>>
      <4>1. Len(<<>>) = 0  OBVIOUS
      <4>2. QED  BY <3>1, <4>1, ListParts
    <3>3. Compiles(triggers)  BY <1>2, <2>2 DEF TaskInv, Compiled
    <3>4. PICK program \in Programs : defs[1] = Assembled(program)
      BY <1>2, <3>2 DEF TaskInv, Compiled
    <3>5. PICK S : IsDefinition(defs[1], S)  BY <3>1, <3>2 DEF Sourced
    <3>6. PICK U : IsDefinition(defs[2], U)  BY <3>1, <3>2 DEF Sourced
    <3>7. defs[2].triggers = Each(Assembled(program).triggers, CanonicalTrigger)
      BY <3>1, <3>4, <3>5, <3>6, FieldsKept
    <3>8. Scheduled(defs[2]) = triggers  BY <3>3, <3>7, ScheduledKept
    <3>9. RunsAsWritten(triggers)  BY <2>1, <2>2 DEF CompiledAsWritten
    <3>10. QED  BY <3>8, <3>9
  <2>3. QED  BY <2>1, <2>2 DEF ExactOnce
<1>3. QED  BY <1>1, <1>2

\* A task whose triggers CronExpr::compile has made runs at the minutes that its
\* expression matches and at no other, and at each of them one trigger only
\* starts it; also after the definition was written and read back.
THEOREM RunsExactlyOnce == SpecTask => []ExactOnce
BY RunsOnce, TaskKeeps, PTL

\* The compiler refuses an expression for one of two causes only: both of its
\* day fields are restricted, or it names more times of the day than a task has
\* triggers.  And a definition that the builder accepted is refused on the way to a
\* document and back for nothing but the size of the document, if the program
\* without its schedule is valid as it is read (ProgramsAssumption).
THEOREM RefusedWithCause == SpecTask => []RefusedForCause
<1>1. TaskInv => RefusedForCause
  <2> SUFFICES ASSUME TaskInv PROVE RefusedForCause  OBVIOUS
  <2>1. CASE Unscheduled
    BY <2>1 DEF RefusedForCause, RefusalExplained, Unscheduled
  <2>2. CASE ~Unscheduled
    BY <2>2 DEF TaskInv, Compiled, ScheduleInv, RefusedForCause
  <2>3. QED  BY <2>1, <2>2
<1>2. QED  BY <1>1, TaskKeeps, PTL

-----------------------------------------------------------------------------
(***************************************************************************)
(* The extensions of the three parts of a document.                          *)
(***************************************************************************)
\* The extensions of a parent.
ExtOf(exts, p) ==
  FlattenSeq([i \in DOMAIN exts |-> IF exts[i].parent = p THEN <<exts[i]>> ELSE <<>>])

LEMMA WhereOf ==
  ASSUME NEW exts, NEW p, NEW K
  PROVE  /\ Where(exts, LAMBDA e : e.parent = p) = ExtOf(exts, p)
         /\ MergeExtensions(p, K, exts) = Merge(K, ExtOf(exts, p))
<1>1. Where(exts, LAMBDA e : e.parent = p) = ExtOf(exts, p)  BY DEF Where, ExtOf
<1>2. QED  BY <1>1 DEF MergeExtensions

\* Extensions of one parent only.
AllOf(s, q) == IsList(s) /\ \A i \in DOMAIN s : s[i].parent = q

LEMMA OfKnown ==
  ASSUME NEW s, IsList(s), NEW p, NEW W, \A i \in DOMAIN s : s[i] \in W <=> s[i].parent = p
  PROVE  ExtOf(s, p) = KnownOf(s, W)
<1>1. [i \in DOMAIN s |-> IF s[i].parent = p THEN <<s[i]>> ELSE <<>>]
        = [i \in DOMAIN s |-> IF s[i] \in W THEN <<s[i]>> ELSE <<>>]
  OBVIOUS
<1>2. QED  BY <1>1 DEF ExtOf, KnownOf

LEMMA OfConcat ==
  ASSUME NEW a, NEW b, IsList(a), IsList(b), NEW p
  PROVE  ExtOf(a \o b, p) = ExtOf(a, p) \o ExtOf(b, p)
<1> DEFINE s == a \o b
           W == {e \in ToSet(s) : e.parent = p}
<1>1. IsList(s) /\ ToSet(s) = ToSet(a) \union ToSet(b)  BY Concat
<1>2. KnownOf(s, W) = KnownOf(a, W) \o KnownOf(b, W)  BY KnownConcat
<1> HIDE DEF s
<1>3. /\ \A i \in DOMAIN s : s[i] \in W <=> s[i].parent = p
      /\ \A i \in DOMAIN a : a[i] \in W <=> a[i].parent = p
      /\ \A i \in DOMAIN b : b[i] \in W <=> b[i].parent = p
  BY <1>1 DEF ToSet
<1> HIDE DEF W
<1>4. /\ ExtOf(s, p) = KnownOf(s, W) /\ ExtOf(a, p) = KnownOf(a, W)
      /\ ExtOf(b, p) = KnownOf(b, W)
  BY <1>1, <1>3, OfKnown
<1>5. QED  BY <1>2, <1>4 DEF s

LEMMA OfOne ==
  ASSUME NEW s, NEW q, AllOf(s, q), NEW p
  PROVE  /\ p = q => ExtOf(s, p) = s
         /\ p # q => ExtOf(s, p) = <<>>
<1> DEFINE P == [i \in DOMAIN s |-> IF s[i].parent = p THEN <<s[i]>> ELSE <<>>]
<1>1. ExtOf(s, p) = FlattenSeq(P) /\ IsList(s)  BY DEF ExtOf, AllOf
<1>2. P = [i \in DOMAIN s |-> P[i]] /\ \A i \in DOMAIN s : P[i] = <<>> \/ \E x : P[i] = <<x>>
  OBVIOUS
<1>3. /\ p = q => \A i \in DOMAIN s : P[i] = <<s[i]>>
      /\ p # q => \A i \in DOMAIN s : P[i] = <<>>
  BY DEF AllOf
<1> HIDE DEF P
<1>4. Lists(P) /\ Len(P) = Len(s) /\ DOMAIN P = DOMAIN s  BY <1>1, <1>2, ShortLists
<1>5. IsList(P) /\ DOMAIN s = 1..Len(s)  BY <1>1, <1>4, ListParts DEF Lists
<1>6. CASE p = q
  <2>1. \A i \in 1..Len(P) : P[i] = <<s[i]>>  BY <1>3, <1>4, <1>5, <1>6
  <2>2. FlattenSeq(P) = s  BY <1>1, <1>4, <1>5, <2>1, FlatSingles
  <2>3. QED  BY <1>1, <1>6, <2>2
<1>7. CASE p # q
  <2>1. FlattenSeq(P) = <<>>  BY <1>3, <1>4, <1>5, <1>7, FlatNothing
  <2>2. QED  BY <1>1, <1>7, <2>1
<1>8. QED  BY <1>6, <1>7

\* Extensions of three parents, one after the other.
Sorts(a, b, c, p, q, r) ==
  /\ IsList((a \o b) \o c)
  /\ ExtOf((a \o b) \o c, p) = a /\ ExtOf((a \o b) \o c, q) = b
  /\ ExtOf((a \o b) \o c, r) = c

LEMMA OfThree ==
  ASSUME NEW a, NEW b, NEW c, NEW p, NEW q, NEW r, AllOf(a, p), AllOf(b, q), AllOf(c, r),
         p # q, p # r, q # r
  PROVE  Sorts(a, b, c, p, q, r)
<1> DEFINE s == a \o b
<1>1. IsList(a) /\ IsList(b) /\ IsList(c)  BY DEF AllOf
<1>2. IsList(s)  BY <1>1, Concat
<1>3. /\ ExtOf(s, p) = ExtOf(a, p) \o ExtOf(b, p) /\ ExtOf(s, q) = ExtOf(a, q) \o ExtOf(b, q)
      /\ ExtOf(s, r) = ExtOf(a, r) \o ExtOf(b, r)
  BY <1>1, OfConcat
<1> HIDE DEF s
<1>4. /\ ExtOf(s \o c, p) = ExtOf(s, p) \o ExtOf(c, p)
      /\ ExtOf(s \o c, q) = ExtOf(s, q) \o ExtOf(c, q)
      /\ ExtOf(s \o c, r) = ExtOf(s, r) \o ExtOf(c, r)
  BY <1>1, <1>2, OfConcat
<1>5. ExtOf(a, p) = a /\ ExtOf(b, p) = <<>> /\ ExtOf(c, p) = <<>>  BY OfOne
<1>6. ExtOf(a, q) = <<>> /\ ExtOf(b, q) = b /\ ExtOf(c, q) = <<>>  BY OfOne
<1>7. ExtOf(a, r) = <<>> /\ ExtOf(b, r) = <<>> /\ ExtOf(c, r) = c  BY OfOne
<1>8. /\ a \o <<>> = a /\ <<>> \o b = b /\ b \o <<>> = b /\ <<>> \o c = c
      /\ <<>> \o <<>> = <<>>
  <2>1. IsList(<<>>)  BY DEF IsList
  <2>2. a \o <<>> = a  BY <1>1, BothEnds
  <2>3. <<>> \o b = b /\ b \o <<>> = b  BY <1>1, BothEnds
  <2>4. <<>> \o c = c  BY <1>1, BothEnds
  <2>5. <<>> \o <<>> = <<>>  BY <2>1, BothEnds
  <2>6. QED  BY <2>2, <2>3, <2>4, <2>5
<1>9. IsList(s \o c)  BY <1>1, <1>2, Concat
<1>10. QED  BY <1>3, <1>4, <1>5, <1>6, <1>7, <1>8, <1>9 DEF s, Sorts

\* The elements of a list that have a known name.
Sieve(s, N) == {x \in ToSet(s) : NodeOf(x).name \in N}

\* The elements that an element's children are made of, as far as extensions
\* see them.
StandsFor(s, node, N) ==
  /\ IsList(s) /\ IsList(node.kids) /\ DOMAIN s = DOMAIN node.kids
  /\ \A i \in DOMAIN s : /\ NodeOf(s[i]).name = node.kids[i].name
                         /\ node.kids[i].name \notin N => node.kids[i].xml = s[i]

LEMMA ExtensionsSift ==
  ASSUME NEW s, NEW node, NEW N, StandsFor(s, node, N), NEW p
  PROVE  ExtensionsFor(node, p, N) = OthersOf(s, Sieve(s, N), p, 0)
<1>1. DOMAIN s = DOMAIN node.kids /\ DOMAIN s = 1..Len(s) /\ Len(s) \in Nat
      /\ \A i \in 1..Len(s) : s[i] \in ToSet(s)
  BY ListParts DEF StandsFor
<1>2. \A i \in DOMAIN s :
        /\ s[i] \in Sieve(s, N) <=> node.kids[i].name \in N
        /\ s[i] \notin Sieve(s, N) => node.kids[i].xml = s[i]
  BY <1>1 DEF StandsFor, Sieve
<1>3. \A i \in DOMAIN s : 0 + i - 1 = i - 1  BY <1>1
<1>4. [i \in DOMAIN node.kids |->
         IF node.kids[i].name \in N THEN <<>>
         ELSE <<XmlExtension(p, i - 1, node.kids[i].xml)>>]
      = [i \in DOMAIN s |-> IF s[i] \in Sieve(s, N) THEN <<>>
                            ELSE <<XmlExtension(p, 0 + i - 1, s[i])>>]
  BY <1>1, <1>2, <1>3
<1>5. QED  BY <1>4 DEF ExtensionsFor, OthersOf

\* A node that was read of any document.
LEMMA GrownStands ==
  ASSUME NEW S, NEW n, Grown(n, S), NEW N
  PROVE  \E s : StandsFor(s, n, N)
<1> DEFINE k == n.kids
           s == [i \in DOMAIN k |-> k[i].xml]
<1>1. IsList(k) /\ ToSet(k) \subseteq S /\ Hereditary(S)  BY DEF Grown
<1>2. s = [i \in DOMAIN k |-> s[i]] /\ \A i \in DOMAIN k : s[i] = k[i].xml  OBVIOUS
<1> HIDE DEF s
<1>3. IsList(s) /\ DOMAIN s = DOMAIN k  BY <1>1, <1>2, Mapped
<1>4. ASSUME NEW i \in DOMAIN k  PROVE NodeOf(s[i]).name = k[i].name
  <2>1. k[i] \in S  BY <1>1 DEF ToSet
  <2>2. Reads(k[i].xml, Mirror(k[i]))  BY <1>1, <2>1 DEF Hereditary
  <2>3. NodeOf(s[i]) = Mirror(k[i])  BY <1>2, <2>2, ReadsUnique
  <2>4. QED  BY <2>3 DEF Mirror
<1>5. StandsFor(s, n, N)  BY <1>1, <1>2, <1>3, <1>4 DEF StandsFor
<1>6. QED  BY <1>5

\* What extensions say of their places.
Ranks(u, p) == AllOf(u, p) /\ Rising(u)

LEMMA OthersRank ==
  ASSUME NEW s, IsList(s), NEW W, NEW p
  PROVE  Ranks(OthersOf(s, W, p, 0), p)
<1> DEFINE u == OthersOf(s, W, p, 0)
<1>1. Placed(u, s, W, p, 0, Len(s))
  <2>1. 0 \in Nat  OBVIOUS
  <2>2. QED  BY <2>1, OthersPlaced
<1> HIDE DEF u
<1>2. IsList(u) /\ Rising(u) /\ DOMAIN u = 1..Len(u)  BY <1>1, ListParts DEF Placed
<1>3. \A j \in 1..Len(u) : u[j].parent = p
  <2>1. ASSUME NEW j \in 1..Len(u)  PROVE u[j].parent = p
    <3>1. u[j] = XmlExtension(p, u[j].ordinal, u[j].xml)  BY <1>1 DEF Placed
    <3> DEFINE e == u[j]
    <3>2. e = [parent |-> p, ordinal |-> e.ordinal, xml |-> e.xml]  BY <3>1 DEF XmlExtension
    <3> HIDE DEF e
    <3>3. e.parent = p  BY <3>2
    <3>4. QED  BY <3>3 DEF e
  <2>2. QED  BY <2>1
<1>4. QED  BY <1>2, <1>3 DEF Ranks, AllOf, u

\* An option of elements: nothing, or the extensions of the one.
LEMMA OneOrNone ==
  ASSUME NEW v, NEW p, NEW N, NEW P, P = [i \in DOMAIN v |-> ExtensionsFor(v[i], p, N)]
  PROVE  /\ v = <<>> => FlattenSeq(P) = <<>>
         /\ \A r : v = <<r>> /\ IsList(ExtensionsFor(r, p, N)) =>
                     FlattenSeq(P) = ExtensionsFor(r, p, N)
<1>1. CASE v = <<>>
  <2>1. P = <<>>  BY <1>1
  <2>2. IsList(<<>>) /\ \A i \in DOMAIN <<>> : <<>>[i] = <<>>  BY DEF IsList
  <2>3. FlattenSeq(<<>>) = <<>>  BY <2>2, FlatNothing
  <2>4. QED  BY <1>1, <2>1, <2>3
<1>2. ASSUME NEW r, v = <<r>>, IsList(ExtensionsFor(r, p, N))
      PROVE  FlattenSeq(P) = ExtensionsFor(r, p, N)
  <2> DEFINE x == ExtensionsFor(r, p, N)
  <2>1. P = <<x>>
    <3>1. DOMAIN v = {1} /\ v[1] = r  BY <1>2
    <3>2. P = [i \in {1} |-> x]  BY <3>1
    <3>3. [i \in {1} |-> x] = <<x>>  OBVIOUS
    <3>4. QED  BY <3>2, <3>3
  <2> HIDE DEF x
  <2>2. IsList(x)  BY <1>2 DEF x
  <2>3. FlattenSeq(P) = x  BY <2>1, <2>2, FlatOne
  <2>4. QED  BY <2>3 DEF x
<1>3. QED  BY <1>1, <1>2
\* Extensions as they are when they are read and written again.
ReadExt(u) ==
  [j \in DOMAIN u |-> XmlExtension(u[j].parent, u[j].ordinal, AsRead(u[j].xml))]

ReadOne(e) == XmlExtension(e.parent, e.ordinal, AsRead(e.xml))

LEMMA ReadExtParts ==
  ASSUME NEW u, IsList(u)
  PROVE  /\ IsList(ReadExt(u)) /\ Len(ReadExt(u)) = Len(u)
         /\ \A i \in 1..Len(u) : ReadExt(u)[i] = ReadOne(u[i])
<1> DEFINE g == ReadExt(u)
<1>1. g = [i \in DOMAIN u |-> ReadOne(u[i])]  BY DEF ReadExt, ReadOne
<1>2. g = [i \in DOMAIN u |-> g[i]]  BY <1>1
<1>3. Len(u) \in Nat /\ DOMAIN u = 1..Len(u)  BY ListParts
<1>4. \A i \in 1..Len(u) : g[i] = ReadOne(u[i])  BY <1>1, <1>3
<1> HIDE DEF g
<1>5. IsList(g) /\ Len(g) = Len(u)  BY <1>2, Mapped
<1>6. QED  BY <1>4, <1>5 DEF g

LEMMA ReadExtConcat ==
  ASSUME NEW a, NEW b, IsList(a), IsList(b)
  PROVE  ReadExt(a \o b) = ReadExt(a) \o ReadExt(b)
<1> DEFINE s == a \o b
           ra == ReadExt(a)
           rb == ReadExt(b)
           rs == ReadExt(s)
<1>1. /\ IsList(s) /\ Len(s) = Len(a) + Len(b)
      /\ \A i \in 1..Len(a) : s[i] = a[i]
      /\ \A i \in 1..Len(b) : s[Len(a) + i] = b[i]
  BY Concat
<1> HIDE DEF s
<1>2. /\ IsList(ra) /\ Len(ra) = Len(a) /\ \A i \in 1..Len(a) : ra[i] = ReadOne(a[i])
      /\ IsList(rb) /\ Len(rb) = Len(b) /\ \A i \in 1..Len(b) : rb[i] = ReadOne(b[i])
      /\ IsList(rs) /\ Len(rs) = Len(s) /\ \A i \in 1..Len(s) : rs[i] = ReadOne(s[i])
  BY <1>1, ReadExtParts
<1> HIDE DEF ra, rb, rs
<1> DEFINE t == ra \o rb
<1>3. /\ IsList(t) /\ Len(t) = Len(a) + Len(b)
      /\ \A i \in 1..Len(a) : t[i] = ra[i]
      /\ \A i \in 1..Len(b) : t[Len(a) + i] = rb[i]
  BY <1>2, Concat
<1> HIDE DEF t
<1>4. Len(a) \in Nat /\ Len(b) \in Nat  BY ListParts
<1>5. ASSUME NEW i \in 1..Len(s)  PROVE rs[i] = t[i]
  <2>1. CASE i <= Len(a)
    <3>1. i \in 1..Len(a)  BY <1>1, <1>4, <2>1
    <3>2. QED  BY <1>1, <1>2, <1>3, <3>1
  <2>2. CASE ~(i <= Len(a))
    <3> DEFINE k == i - Len(a)
    <3>1. k \in 1..Len(b) /\ i = Len(a) + k  BY <1>1, <1>4, <2>2
    <3> HIDE DEF k
    <3>2. s[i] = b[k] /\ t[i] = rb[k]  BY <1>1, <1>3, <3>1
    <3>3. QED  BY <1>2, <3>1, <3>2
  <2>3. QED  BY <2>1, <2>2
<1>6. rs = t  BY <1>1, <1>2, <1>3, <1>5, SameList
<1>7. QED  BY <1>6 DEF rs, t, ra, rb, s

LEMMA ReadExtShort ==
  /\ ReadExt(<<>>) = <<>>
  /\ \A p, k, x : ReadExt(<<XmlExtension(p, k, x)>>) = <<XmlExtension(p, k, AsRead(x))>>
<1>1. ReadExt(<<>>) = <<>>  BY DEF ReadExt
<1>2. ASSUME NEW p, NEW k, NEW x
      PROVE  ReadExt(<<XmlExtension(p, k, x)>>) = <<XmlExtension(p, k, AsRead(x))>>
  <2> DEFINE e == XmlExtension(p, k, x)
             y == XmlExtension(p, k, AsRead(x))
  <2>1. e.parent = p /\ e.ordinal = k /\ e.xml = x  BY DEF XmlExtension
  <2> HIDE DEF e
  <2>2. ReadExt(<<e>>) = [i \in {1} |-> y]  BY <2>1 DEF ReadExt
  <2> HIDE DEF y
  <2>3. [i \in {1} |-> y] = <<y>>  OBVIOUS
  <2>4. QED  BY <2>2, <2>3 DEF e, y
<1>3. QED  BY <1>1, <1>2

LEMMA ReadExtFlat ==
  ASSUME NEW P, Lists(P), NEW Q, Lists(Q), Len(Q) = Len(P),
         \A i \in 1..Len(P) : Q[i] = ReadExt(P[i])
  PROVE  ReadExt(FlattenSeq(P)) = FlattenSeq(Q)
<1>1. Len(P) \in Nat /\ DOMAIN P = 1..Len(P)  BY ListParts DEF Lists
<1>2. PICK f : /\ f[0] = <<>> /\ FlattenSeq(P) = f[Len(P)]
               /\ \A i \in 1..Len(P) : f[i] = f[i - 1] \o P[i]
               /\ \A i \in 0..Len(P) : IsList(f[i])
  BY FlatSolves
<1>3a. \E g : /\ g[0] = <<>> /\ FlattenSeq(Q) = g[Len(Q)]
              /\ \A i \in 1..Len(Q) : g[i] = g[i - 1] \o Q[i]
              /\ \A i \in 0..Len(Q) : IsList(g[i])
  BY FlatSolves
<1>3. PICK g : /\ g[0] = <<>> /\ FlattenSeq(Q) = g[Len(P)]
               /\ \A i \in 1..Len(P) : g[i] = g[i - 1] \o Q[i]
  BY <1>3a
<1> DEFINE B == {k \in 0..Len(P) : ReadExt(f[k]) = g[k]}
<1>4. 0 \in B  BY <1>1, <1>2, <1>3, ReadExtShort
<1>5. ASSUME NEW k \in 1..Len(P), k - 1 \in B  PROVE k \in B
  <2>1. k \in 0..Len(P) /\ k - 1 \in 0..Len(P) /\ ReadExt(f[k - 1]) = g[k - 1]
    BY <1>1, <1>5
  <2>2. IsList(f[k - 1]) /\ IsList(P[k]) /\ f[k] = f[k - 1] \o P[k]
    BY <1>1, <1>2, <2>1 DEF Lists
  <2>3. ReadExt(f[k]) = ReadExt(f[k - 1]) \o ReadExt(P[k])  BY <2>2, ReadExtConcat
  <2>4. g[k] = g[k - 1] \o Q[k] /\ Q[k] = ReadExt(P[k])  BY <1>3
  <2>5. QED  BY <2>1, <2>3, <2>4
<1> HIDE DEF B
<1>6. \A k \in 0..Len(P) : k \in B  BY <1>1, <1>4, <1>5, Upward
<1>7. Len(P) \in B
  <2>1. Len(P) \in 0..Len(P)  BY <1>1
  <2>2. QED  BY <1>6, <2>1
<1>8. QED  BY <1>2, <1>3, <1>7 DEF B

\* The elements that were written, as an element that was read of them has
\* them.
ReadFrom(s, node, N) ==
  /\ IsList(s) /\ IsList(node.kids) /\ DOMAIN s = DOMAIN node.kids
  /\ \A i \in DOMAIN s : /\ NodeOf(s[i]).name = node.kids[i].name
                         /\ node.kids[i].name \notin N => node.kids[i].xml = AsRead(s[i])

LEMMA ReadSift ==
  ASSUME NEW s, NEW node, NEW N, ReadFrom(s, node, N), NEW p
  PROVE  ExtensionsFor(node, p, N) = ReadExt(OthersOf(s, Sieve(s, N), p, 0))
<1> DEFINE W == Sieve(s, N)
           P == [i \in DOMAIN s |-> IF s[i] \in W THEN <<>>
                                    ELSE <<XmlExtension(p, 0 + i - 1, s[i])>>]
           Q == [i \in DOMAIN node.kids |->
                   IF node.kids[i].name \in N THEN <<>>
                   ELSE <<XmlExtension(p, i - 1, node.kids[i].xml)>>]
<1>1. /\ DOMAIN s = DOMAIN node.kids /\ DOMAIN s = 1..Len(s) /\ Len(s) \in Nat
      /\ \A i \in 1..Len(s) : s[i] \in ToSet(s) /\ 0 + i - 1 = i - 1
  BY ListParts DEF ReadFrom
<1>2. \A i \in 1..Len(s) :
        /\ s[i] \in W <=> node.kids[i].name \in N
        /\ s[i] \notin W => node.kids[i].xml = AsRead(s[i])
  BY <1>1 DEF ReadFrom, Sieve
<1>3. OthersOf(s, W, p, 0) = FlattenSeq(P) /\ ExtensionsFor(node, p, N) = FlattenSeq(Q)
  BY DEF OthersOf, ExtensionsFor
<1>4. \A i \in 1..Len(s) :
        /\ s[i] \in W => P[i] = <<>> /\ Q[i] = <<>>
        /\ s[i] \notin W => /\ P[i] = <<XmlExtension(p, i - 1, s[i])>>
                            /\ Q[i] = <<XmlExtension(p, i - 1, AsRead(s[i]))>>
  BY <1>1, <1>2
<1>5. P = [i \in DOMAIN s |-> P[i]] /\ Q = [i \in DOMAIN s |-> Q[i]]  BY <1>1
<1> HIDE DEF P, Q, W
<1>6. IsList(s)  BY DEF ReadFrom
<1>7. Lists(P) /\ Len(P) = Len(s)  BY <1>1, <1>4, <1>5, <1>6, ShortLists
<1>8. Lists(Q) /\ Len(Q) = Len(s)  BY <1>1, <1>4, <1>5, <1>6, ShortLists
<1>9. \A i \in 1..Len(P) : Q[i] = ReadExt(P[i])
  <2>1. ASSUME NEW i \in 1..Len(s)  PROVE Q[i] = ReadExt(P[i])
    <3>1. CASE s[i] \in W  BY <1>4, <3>1, ReadExtShort
    <3>2. CASE s[i] \notin W
      <4> DEFINE k == i - 1
      <4>1. P[i] = <<XmlExtension(p, k, s[i])>> /\ Q[i] = <<XmlExtension(p, k, AsRead(s[i]))>>
        BY <1>4, <3>2
      <4> HIDE DEF k
      <4>2. QED  BY <4>1, ReadExtShort
    <3>3. QED  BY <3>1, <3>2
  <2>2. QED  BY <1>7, <2>1
<1>10. QED  BY <1>3, <1>7, <1>8, <1>9, ReadExtFlat DEF W

\* Extensions whose elements read as they are written.
Still(exts) == \A i \in DOMAIN exts : AsRead(exts[i].xml) = exts[i].xml

LEMMA ReadStill ==
  ASSUME NEW u, IsList(u), NEW p, \A j \in 1..Len(u) : u[j] = XmlExtension(p, u[j].ordinal, u[j].xml),
         Still(u)
  PROVE  ReadExt(u) = u
<1> DEFINE r == ReadExt(u)
<1>1. IsList(r) /\ Len(r) = Len(u) /\ \A i \in 1..Len(u) : r[i] = ReadOne(u[i])
  BY ReadExtParts
<1>2. DOMAIN u = 1..Len(u)  BY ListParts
<1>3. ASSUME NEW i \in 1..Len(u)  PROVE ReadOne(u[i]) = u[i]
  <2> DEFINE e == u[i]
             k == e.ordinal
             x == e.xml
  <2>1. e = [parent |-> p, ordinal |-> k, xml |-> x]  BY DEF XmlExtension
  <2>2. AsRead(e.xml) = x  BY <1>2 DEF Still
  <2> HIDE DEF e, k, x
  <2>3. e.parent = p /\ e.ordinal = k /\ e.xml = x  BY <2>1
  <2>4. ReadOne(e) = [parent |-> p, ordinal |-> k, xml |-> x]
    BY <2>2, <2>3 DEF ReadOne, XmlExtension
  <2>5. QED  BY <2>1, <2>4 DEF e
<1> HIDE DEF r
<1>4. r = u  BY <1>1, <1>3, SameList
<1>5. QED  BY <1>4 DEF r

\* Extensions that elements of S are carried by.
Carried(exts, p, N, S) ==
  /\ IsList(exts)
  /\ \A e \in ToSet(exts) : e.parent = p =>
       e.ordinal \in Nat /\ \E node \in S : e.xml = node.xml /\ node.name \notin N

LEMMA OfParts ==
  ASSUME NEW exts, IsList(exts), NEW p
  PROVE  /\ IsList(ExtOf(exts, p))
         /\ \A x : x \in ToSet(ExtOf(exts, p)) <=> x \in ToSet(exts) /\ x.parent = p
<1> DEFINE W == {e \in ToSet(exts) : e.parent = p}
<1>1. \A i \in DOMAIN exts : exts[i] \in W <=> exts[i].parent = p  BY DEF ToSet
<1>2. \A x : x \in W <=> x \in ToSet(exts) /\ x.parent = p  OBVIOUS
<1> HIDE DEF W
<1>3. ExtOf(exts, p) = KnownOf(exts, W)  BY <1>1, OfKnown
<1>4. /\ IsList(KnownOf(exts, W))
      /\ \A x : x \in ToSet(KnownOf(exts, W)) <=> x \in ToSet(exts) /\ x \in W
  BY SiftLists
<1>5. QED  BY <1>2, <1>3, <1>4

\* What is written between known elements is read as it was, or nearer to the
\* front, and written again where it is.
Settled(exts, p, K, u, R) ==
  /\ Ranks(u, p)
  /\ Rising(ExtOf(exts, p)) => Returned(u, ReadExt(ExtOf(exts, p)), Len(ExtOf(exts, p)))
  /\ Still(exts) => Merge(K, u) = R
  /\ u = <<>> => ExtOf(exts, p) = <<>>

LEMMA ReadFields ==
  ASSUME NEW e
  PROVE  /\ ReadOne(e).parent = e.parent /\ ReadOne(e).ordinal = e.ordinal
         /\ ReadOne(e).xml = AsRead(e.xml)
<1> DEFINE x == AsRead(e.xml)
<1>1. ReadOne(e) = [parent |-> e.parent, ordinal |-> e.ordinal, xml |-> x]
  BY DEF ReadOne, XmlExtension
<1> HIDE DEF x
<1>2. QED  BY <1>1 DEF x

LEMMA RanksRead ==
  ASSUME NEW o, NEW p, Ranks(o, p)
  PROVE  Ranks(ReadExt(o), p)
<1> DEFINE u == ReadExt(o)
<1>1. IsList(o) /\ Len(o) \in Nat /\ DOMAIN o = 1..Len(o)  BY ListParts DEF Ranks, AllOf
<1>2. IsList(u) /\ Len(u) = Len(o) /\ \A i \in 1..Len(o) : u[i] = ReadOne(o[i])
  BY <1>1, ReadExtParts
<1> HIDE DEF u
<1>3. \A i \in 1..Len(o) : u[i].parent = o[i].parent /\ u[i].ordinal = o[i].ordinal
  BY <1>2, ReadFields
<1>4. DOMAIN u = 1..Len(o)  BY <1>2, ListParts
<1>5. AllOf(u, p)  BY <1>1, <1>2, <1>3, <1>4 DEF Ranks, AllOf
<1>6. Rising(u)  BY <1>2, <1>3 DEF Ranks, Rising
<1>7. QED  BY <1>5, <1>6 DEF Ranks, u

LEMMA ReturnedRead ==
  ASSUME NEW o, NEW E, IsList(E), Returned(o, E, Len(E))
  PROVE  Returned(ReadExt(o), ReadExt(E), Len(E))
<1> DEFINE u == ReadExt(o)
           R == ReadExt(E)
<1>1. IsList(o) /\ Len(o) = Len(E)
      /\ \A i \in 1..Len(E) : o[i].xml = E[i].xml /\ o[i].ordinal <= E[i].ordinal
  BY DEF Returned
<1>2. /\ IsList(u) /\ Len(u) = Len(E) /\ \A i \in 1..Len(E) : u[i] = ReadOne(o[i])
      /\ \A i \in 1..Len(E) : R[i] = ReadOne(E[i])
  BY <1>1, ReadExtParts
<1> HIDE DEF u, R
<1>3. \A i \in 1..Len(E) : /\ u[i].xml = AsRead(o[i].xml) /\ u[i].ordinal = o[i].ordinal
                           /\ R[i].xml = AsRead(E[i].xml) /\ R[i].ordinal = E[i].ordinal
  BY <1>2, ReadFields
<1>4. QED  BY <1>1, <1>2, <1>3 DEF Returned, u, R

LEMMA Settling ==
  ASSUME NEW K, NEW N, Menu(K, N), NEW S, Hereditary(S), NEW exts, NEW p, Carried(exts, p, N, S),
         NEW R, R = MergeExtensions(p, K, exts), NEW m, m.kids = Nodes(R)
  PROVE  Settled(exts, p, K, ExtensionsFor(m, p, N), R)
<1> DEFINE E == ExtOf(exts, p)
           W == Sieve(R, N)
           u == ExtensionsFor(m, p, N)
<1>1. IsList(exts) /\ IsList(K) /\ \A x \in ToSet(K) : NodeOf(x).name \in N
  BY DEF Carried, Menu, Elements
<1>2. R = Merge(K, E)  BY WhereOf
<1>3. /\ IsList(E) /\ DOMAIN E = 1..Len(E) /\ Len(E) \in Nat
      /\ \A i \in DOMAIN E : E[i] \in ToSet(exts) /\ E[i].parent = p
  <2>1. IsList(E) /\ \A x : x \in ToSet(E) <=> x \in ToSet(exts) /\ x.parent = p
    BY <1>1, OfParts
  <2> HIDE DEF E
  <2>2. DOMAIN E = 1..Len(E) /\ Len(E) \in Nat /\ \A i \in 1..Len(E) : E[i] \in ToSet(E)
    BY <2>1, ListParts
  <2>3. QED  BY <2>1, <2>2
<1> HIDE DEF E
<1>4. \A i \in DOMAIN E :
        /\ E[i].ordinal \in Nat
        /\ \E node \in S : E[i].xml = node.xml /\ node.name \notin N
  BY <1>3 DEF Carried
<1>5. \A i \in DOMAIN E :
        NodeOf(E[i].xml).name \notin N /\ NodeOf(E[i].xml).xml = AsRead(E[i].xml)
  <2>1. ASSUME NEW i \in DOMAIN E
        PROVE  NodeOf(E[i].xml).name \notin N /\ NodeOf(E[i].xml).xml = AsRead(E[i].xml)
    <3>1. PICK node \in S : E[i].xml = node.xml /\ node.name \notin N  BY <1>4
    <3>2. Reads(node.xml, Mirror(node))  BY DEF Hereditary
    <3>3. NodeOf(E[i].xml) = Mirror(node)  BY <3>1, <3>2, ReadsUnique
    <3>4. Mirror(node).name = node.name /\ Mirror(node).xml = AsRead(node.xml)  BY DEF Mirror
    <3>5. QED  BY <3>1, <3>3, <3>4
  <2>2. QED  BY <2>1
<1>6. Ordinals(E)  BY <1>4 DEF Ordinals
<1>7. /\ IsList(R)
      /\ \A x : x \in ToSet(R) <=>
                  x \in ToSet(K) \/ \E i \in DOMAIN E : x = E[i].xml
  BY <1>1, <1>2, <1>3, <1>4, Merged
<1>8. ToSet(K) \subseteq W /\ Foreign(E, W)
  <2>1. ToSet(K) \subseteq W  BY <1>1, <1>7 DEF Sieve
  <2>2. Foreign(E, W)  BY <1>5 DEF Foreign, Sieve
  <2>3. QED  BY <2>1, <2>2
<1>9. ReadFrom(R, m, N)
  <2> DEFINE k == m.kids
  <2>1. k = [i \in DOMAIN R |-> k[i]] /\ \A i \in DOMAIN R : k[i] = NodeOf(R[i])
    BY DEF Nodes
  <2> HIDE DEF k
  <2>2. IsList(k) /\ DOMAIN k = DOMAIN R  BY <1>7, <2>1, Mapped
  <2>3. ASSUME NEW i \in DOMAIN R
        PROVE  /\ NodeOf(R[i]).name = k[i].name
               /\ k[i].name \notin N => k[i].xml = AsRead(R[i])
    <3>1. k[i] = NodeOf(R[i]) /\ R[i] \in ToSet(R)  BY <2>1 DEF ToSet
    <3>2. CASE R[i] \in ToSet(K)  BY <1>1, <3>1, <3>2
    <3>3. CASE \E j \in DOMAIN E : R[i] = E[j].xml  BY <1>5, <3>1, <3>3
    <3>4. QED  BY <1>7, <3>1, <3>2, <3>3
  <2>4. QED  BY <1>7, <2>2, <2>3 DEF ReadFrom, k
<1> DEFINE o == OthersOf(R, W, p, 0)
<1>10. u = ReadExt(o)  BY <1>9, ReadSift
<1>10a. Placed(o, R, W, p, 0, Len(R))
  <2>1. 0 \in Nat  BY Zenon
  <2>2. QED  BY <1>7, <2>1, OthersPlaced
<1>10b. Ranks(o, p)  BY <1>7, OthersRank
<1>10c. Rising(E) => Returned(o, E, Len(E))
  <2>1. ASSUME Rising(E)  PROVE Returned(OthersOf(Merge(K, E), W, p, 0), E, Len(E))
    BY <1>1, <1>3, <1>6, <1>8, <2>1, MergeSifts
  <2>2. QED  BY <1>2, <2>1
<1>10d. Merge(K, o) = R
  <2>1. KnownOf(R, W) = K  BY <1>1, <1>2, <1>3, <1>6, <1>8, MergeKnown
  <2>2. Merge(KnownOf(R, W), OthersOf(R, W, p, 0)) = R  BY <1>7, MergeAgain
  <2>3. QED  BY <2>1, <2>2
<1> HIDE DEF W, u, o
<1>11. Ranks(u, p)  BY <1>10, <1>10b, RanksRead
<1>12. Rising(E) => Returned(u, ReadExt(E), Len(E))  BY <1>3, <1>10, <1>10c, ReturnedRead
<1>13. Still(exts) => Merge(K, u) = R
  <2>1. ASSUME Still(exts)  PROVE ReadExt(o) = o
    <3>1. \A i \in DOMAIN E : AsRead(E[i].xml) = E[i].xml
      BY <1>3, <2>1 DEF Still, ToSet
    <3>2. IsList(o) /\ DOMAIN o = 1..Len(o)  BY <1>10a, ListParts DEF Placed
    <3>3. ASSUME NEW j \in 1..Len(o)  PROVE AsRead(o[j].xml) = o[j].xml
      <4>1. o[j].xml \in ToSet(R) /\ o[j].xml \notin W  BY <1>10a DEF Placed
      <4>2. o[j].xml \notin ToSet(K)  BY <1>8, <4>1
      <4>3. PICK i \in DOMAIN E : o[j].xml = E[i].xml  BY <1>7, <4>1, <4>2
      <4>4. QED  BY <3>1, <4>3
    <3>4. Still(o)  BY <3>2, <3>3 DEF Still
    <3>5. \A j \in 1..Len(o) : o[j] = XmlExtension(p, o[j].ordinal, o[j].xml)
      BY <1>10a DEF Placed
    <3>6. QED  BY <3>2, <3>4, <3>5, ReadStill
  <2>2. QED  BY <1>10, <1>10d, <2>1
<1>14. u = <<>> => E = <<>>
  <2>1. ASSUME u = <<>>, E # <<>>  PROVE FALSE
    <3> DEFINE z == <<>>
    <3>1. IsList(z) /\ DOMAIN z = {} /\ Len(z) = 0  BY DEF IsList
    <3>1a. o = z
      <4>1. IsList(o)  BY <1>10a DEF Placed
      <4>2. Len(o) = 0  BY <1>10, <2>1, <3>1, <4>1, ReadExtParts
      <4>3. QED  BY <4>1, <4>2 DEF IsList
    <3>2. R = Merge(K, z)  BY <1>10d, <3>1a
    <3> HIDE DEF z
    <3>3. \A i \in DOMAIN z : z[i].ordinal \in Nat  BY <3>1
    <3>4. \A x : x \in ToSet(R) <=> x \in ToSet(K) \/ \E i \in DOMAIN z : x = z[i].xml
      BY <1>1, <3>1, <3>2, <3>3, Merged
    <3>5. 1 \in DOMAIN E
      <4>1. Len(E) # 0  BY <1>3, <2>1 DEF IsList
      <4>2. QED  BY <1>3, <4>1
    <3>6. E[1].xml \in ToSet(R)  BY <1>7, <3>5
    <3>7. E[1].xml \in ToSet(K)  BY <3>1, <3>4, <3>6
    <3>8. QED  BY <1>8, <3>5, <3>7 DEF Foreign
  <2>2. QED  BY <2>1
<1>15. QED  BY <1>11, <1>12, <1>13, <1>14 DEF Settled, u, E

\* The extensions of the three parts of a document.
RegistrationExt(v) ==
  FlattenSeq([i \in DOMAIN v |->
                ExtensionsFor(v[i], "Task/RegistrationInfo", ToSet(RegistrationTexts))])
SettingsExt(v) ==
  FlattenSeq([i \in DOMAIN v |-> ExtensionsFor(v[i], "Task/Settings", SettingNames)])

LEMMA NoExt ==
  ASSUME NEW v, v = <<>>
  PROVE  RegistrationExt(v) = <<>> /\ SettingsExt(v) = <<>>
<1> DEFINE P == [i \in DOMAIN v |->
                   ExtensionsFor(v[i], "Task/RegistrationInfo", ToSet(RegistrationTexts))]
           Q == [i \in DOMAIN v |-> ExtensionsFor(v[i], "Task/Settings", SettingNames)]
<1>1. RegistrationExt(v) = FlattenSeq(P) /\ SettingsExt(v) = FlattenSeq(Q)
  BY DEF RegistrationExt, SettingsExt
<1>2. P = [i \in DOMAIN v |-> P[i]] /\ Q = [i \in DOMAIN v |-> Q[i]]  OBVIOUS
<1> HIDE DEF P, Q
<1>3. IsList(v) /\ DOMAIN v = {}  BY DEF IsList
<1>4. IsList(P) /\ DOMAIN P = DOMAIN v  BY <1>2, <1>3, Mapped
<1>5. IsList(Q) /\ DOMAIN Q = DOMAIN v  BY <1>2, <1>3, Mapped
<1>6. FlattenSeq(P) = <<>> /\ FlattenSeq(Q) = <<>>  BY <1>3, <1>4, <1>5, FlatNothing
<1>7. QED  BY <1>1, <1>6

LEMMA ByParent ==
  ASSUME NEW t, NEW a, NEW b, NEW c,
         a = ExtensionsFor(t, "Task", RootNames),
         b = RegistrationExt(Child(t, "RegistrationInfo")),
         c = SettingsExt(Child(t, "Settings")),
         AllOf(a, "Task"), AllOf(b, "Task/RegistrationInfo"), AllOf(c, "Task/Settings")
  PROVE  /\ IsList(ExtensionsOf(t))
         /\ ExtOf(ExtensionsOf(t), "Task") = a
         /\ ExtOf(ExtensionsOf(t), "Task/RegistrationInfo") = b
         /\ ExtOf(ExtensionsOf(t), "Task/Settings") = c
<1>1. ExtensionsOf(t) = (a \o b) \o c  BY DEF ExtensionsOf, Each, RegistrationExt, SettingsExt
<1>2. Sorts(a, b, c, "Task", "Task/RegistrationInfo", "Task/Settings")  BY OfThree
<1>3. QED  BY <1>1, <1>2 DEF Sorts

Parents == {"Task", "Task/RegistrationInfo", "Task/Settings"}
Ranked(d) == \A p \in Parents : Rising(ExtOf(d.extensions, p))

LEMMA GrownRanks ==
  ASSUME NEW S, NEW n, Grown(n, S), NEW p, NEW N
  PROVE  Ranks(ExtensionsFor(n, p, N), p)
<1>1. PICK s : StandsFor(s, n, N)  BY GrownStands
<1>2. ExtensionsFor(n, p, N) = OthersOf(s, Sieve(s, N), p, 0)  BY <1>1, ExtensionsSift
<1>3. IsList(s)  BY <1>1 DEF StandsFor
<1>4. QED  BY <1>2, <1>3, OthersRank

LEMMA NoneRank ==
  ASSUME NEW p
  PROVE  Ranks(<<>>, p)
<1>1. IsList(<<>>) /\ Len(<<>>) = 0 /\ DOMAIN <<>> = {}  BY DEF IsList
<1>2. 1..0 = {}  OBVIOUS
<1>3. QED  BY <1>1, <1>2 DEF Ranks, AllOf, Rising

\* The places in a definition that was read rise.
LEMMA ReadRanked ==
  ASSUME NEW S, NEW n, Grown(n, S)
  PROVE  Ranked(DefinitionOf(n))
<1> DEFINE v == Child(n, "RegistrationInfo")
           w == Child(n, "Settings")
           a == ExtensionsFor(n, "Task", RootNames)
           b == RegistrationExt(v)
           c == SettingsExt(w)
<1>1. Ranks(a, "Task")  BY GrownRanks
<1>2. /\ IsOption(v) /\ \A kid \in ToSet(v) : Grown(kid, S)
      /\ IsOption(w) /\ \A kid \in ToSet(w) : Grown(kid, S)
  BY ChildFound
<1> HIDE DEF v, w
<1>3. Ranks(b, "Task/RegistrationInfo")
  <2>1. CASE v = <<>>
    <3>1. b = <<>>  BY <2>1, NoExt
    <3>2. QED  BY <3>1, NoneRank
  <2>2. CASE v # <<>>
    <3>1. v = <<v[1]>> /\ v[1] \in ToSet(v)  BY <1>2, <2>2, Options DEF None
    <3>2. Ranks(ExtensionsFor(v[1], "Task/RegistrationInfo", ToSet(RegistrationTexts)),
                "Task/RegistrationInfo")
      BY <1>2, <3>1, GrownRanks
    <3>3. b = ExtensionsFor(v[1], "Task/RegistrationInfo", ToSet(RegistrationTexts))
      BY <3>1, <3>2, OneOrNone DEF RegistrationExt, Ranks, AllOf
    <3>4. QED  BY <3>2, <3>3
  <2>3. QED  BY <2>1, <2>2
<1>4. Ranks(c, "Task/Settings")
  <2>1. CASE w = <<>>
    <3>1. c = <<>>  BY <2>1, NoExt
    <3>2. QED  BY <3>1, NoneRank
  <2>2. CASE w # <<>>
    <3>1. w = <<w[1]>> /\ w[1] \in ToSet(w)  BY <1>2, <2>2, Options DEF None
    <3>2. Ranks(ExtensionsFor(w[1], "Task/Settings", SettingNames), "Task/Settings")
      BY <1>2, <3>1, GrownRanks
    <3>3. c = ExtensionsFor(w[1], "Task/Settings", SettingNames)
      BY <3>1, <3>2, OneOrNone DEF SettingsExt, Ranks, AllOf
    <3>4. QED  BY <3>2, <3>3
  <2>3. QED  BY <2>1, <2>2
<1> HIDE DEF a, b, c
<1> DEFINE x == ExtensionsOf(n)
<1>5. /\ ExtOf(x, "Task") = a /\ ExtOf(x, "Task/RegistrationInfo") = b
      /\ ExtOf(x, "Task/Settings") = c
  BY <1>1, <1>3, <1>4, ByParent DEF Ranks, a, b, c, v, w
<1>6. DefinitionOf(n).extensions = x  BY DEF DefinitionOf
<1> HIDE DEF x
<1>7. QED  BY <1>1, <1>3, <1>4, <1>5, <1>6 DEF Ranks, Ranked, Parents

-----------------------------------------------------------------------------
(***************************************************************************)
(* What was written and read is written as it was: triggers, actions, the    *)
(* principal, the settings.                                                  *)
(***************************************************************************)
\* A text is written again as it was written.
LEMMA TextAgain ==
  ASSUME NEW name, NEW attrs, NEW t, NEW kids
  PROVE  /\ Container(name, attrs, ReadText(t), kids) = Container(name, attrs, t, kids)
         /\ Element(name, ReadText(t)) = Element(name, t)
<1>1. TextEvents(ReadText(t)) = TextEvents(t)  BY TextFacts
<1>2. QED  BY <1>1 DEF Container, Element

LEMMA OptionAgain ==
  ASSUME NEW name, NEW v
  PROVE  OptionalElement(name, Texts(v)) = OptionalElement(name, v)
<1>1. \A t : Element(name, ReadText(t)) = Element(name, t)  BY TextAgain
<1>2. DOMAIN Texts(v) = DOMAIN v /\ \A i \in DOMAIN v : Texts(v)[i] = ReadText(v[i])
  BY DEF Texts, Each
<1>3. [i \in DOMAIN Texts(v) |-> Element(name, Texts(v)[i])]
        = [i \in DOMAIN v |-> Element(name, v[i])]
  BY <1>1, <1>2
<1>4. QED  BY <1>3 DEF OptionalElement, Each

LEMMA LimitAgain ==
  ASSUME NEW v
  PROVE  Each(Each(v, CanonicalLimit), LimitText) = Each(v, LimitText)
<1>1. \A l : LimitText(CanonicalLimit(l)) = LimitText(l)  BY DEF LimitText, CanonicalLimit
<1>2. QED  BY <1>1 DEF Each

LEMMA CommonAgain ==
  ASSUME NEW c, IsCommon(c), Ids(c.id) = c.id
  PROVE  /\ CommonElements(CanonicalCommon(c)) = CommonElements(c)
         /\ CanonicalCommon(c).id = c.id
<1> DEFINE l == Each(c.execution_time_limit, CanonicalLimit)
           b == CanonicalCommon(c)
<1>1. c = [id |-> c.id, start_boundary |-> c.start_boundary,
           end_boundary |-> c.end_boundary, enabled |-> c.enabled,
           execution_time_limit |-> c.execution_time_limit, repetition |-> c.repetition]
  BY DEF IsCommon
<1> DEFINE y == Ids(c.id)
<1>2. b = [c EXCEPT !.id = y, !.execution_time_limit = l]  BY DEF CanonicalCommon
<1>3. Each(l, LimitText) = Each(c.execution_time_limit, LimitText)  BY LimitAgain
<1>3a. y = c.id  OBVIOUS
<1> HIDE DEF l, b, y
<1>4. /\ b.id = c.id /\ b.start_boundary = c.start_boundary /\ b.end_boundary = c.end_boundary
      /\ b.enabled = c.enabled /\ b.repetition = c.repetition /\ b.execution_time_limit = l
  BY <1>1, <1>2, <1>3a
<1>5. Each(b.repetition, RepetitionElement) = Each(c.repetition, RepetitionElement)
  BY <1>4 DEF Each
<1>6. CommonElements(b) = CommonElements(c)
  BY <1>3, <1>4, <1>5 DEF CommonElements
<1>7. QED  BY <1>4, <1>6 DEF b

\* A trigger is written again as it was written.
TriggerAgain(t) == WriteTrigger(CanonicalTrigger(t)) = WriteTrigger(t)

LEMMA OtherAgain ==
  ASSUME NEW t, IsCommon(t.common), t.kind \notin ToSet(Calendar), t.kind # "unknown",
         ~RespacedTrigger(t),
         NEW u, u = CanonicalTrigger(t), u.kind = t.kind,
         u.common = CanonicalCommon(t.common), SpecificElements(u) = SpecificElements(t)
  PROVE  TriggerAgain(t)
<1>1. /\ CommonElements(u.common) = CommonElements(t.common) /\ u.common.id = t.common.id
  BY CommonAgain DEF RespacedTrigger
<1>2. QED  BY <1>1 DEF TriggerAgain, WriteTrigger

LEMMA BootAgain ==
  ASSUME NEW t, NEW unread, IsTrigger(t, unread), ~RespacedTrigger(t),
         t.kind \in {"BootTrigger", "RegistrationTrigger", "IdleTrigger", "TimeTrigger"}
  PROVE  TriggerAgain(t)
<1> DEFINE u == CanonicalTrigger(t)
           c == CanonicalCommon(t.common)
<1>1. IsCommon(t.common) /\ t.kind \notin ToSet(Calendar) /\ t.kind # "unknown"
  BY CalendarNames DEF IsTrigger
<1>2. u = [t EXCEPT !.common = c]  BY <1>1 DEF CanonicalTrigger
<1> HIDE DEF u, c
<1>3. u.kind = t.kind /\ u.common = c /\ SpecificElements(u) = SpecificElements(t)
  <2>1. CASE t.kind = "BootTrigger"
    <3>1. t = [BootTrigger EXCEPT !.common = t.common, !.delay = t.delay]
      BY <2>1 DEF IsTrigger
    <3>2. u.kind = t.kind /\ u.common = c /\ u.delay = t.delay  BY <1>2, <3>1 DEF BootTrigger
    <3>3. QED  BY <2>1, <3>2 DEF SpecificElements
  <2>2. CASE t.kind = "RegistrationTrigger"
    <3>1. t = [RegistrationTrigger EXCEPT !.common = t.common, !.delay = t.delay]
      BY <2>2 DEF IsTrigger
    <3>2. u.kind = t.kind /\ u.common = c /\ u.delay = t.delay
      BY <1>2, <3>1 DEF RegistrationTrigger
    <3>3. QED  BY <2>2, <3>2 DEF SpecificElements
  <2>3. CASE t.kind = "IdleTrigger"
    <3>1. t = [IdleTrigger EXCEPT !.common = t.common]  BY <2>3 DEF IsTrigger
    <3>2. u.kind = t.kind /\ u.common = c  BY <1>2, <3>1 DEF IdleTrigger
    <3>3. QED  BY <2>3, <3>2 DEF SpecificElements
  <2>4. CASE t.kind = "TimeTrigger"
    <3>1. t = [TimeTrigger("") EXCEPT !.common = t.common, !.random_delay = t.random_delay]
      BY <2>4 DEF IsTrigger
    <3>2. u.kind = t.kind /\ u.common = c /\ u.random_delay = t.random_delay
      BY <1>2, <3>1 DEF TimeTrigger
    <3>3. QED  BY <2>4, <3>2 DEF SpecificElements
  <2>5. QED  BY <2>1, <2>2, <2>3, <2>4
<1>4. QED  BY <1>1, <1>3, OtherAgain DEF u, c

LEMMA LogonAgain ==
  ASSUME NEW t, NEW unread, IsTrigger(t, unread), ~RespacedTrigger(t), t.kind = "LogonTrigger"
  PROVE  TriggerAgain(t)
<1> DEFINE u == CanonicalTrigger(t)
           c == CanonicalCommon(t.common)
           v == Texts(t.user_id)
<1>1. IsCommon(t.common) /\ t.kind \notin ToSet(Calendar) /\ t.kind # "unknown"
  BY CalendarNames DEF IsTrigger
<1>2. u = [t EXCEPT !.common = c, !.user_id = v]  BY DEF CanonicalTrigger
<1>3. OptionalElement("UserId", v) = OptionalElement("UserId", t.user_id)  BY OptionAgain
<1> HIDE DEF u, c, v
<1>4. t = [LogonTrigger EXCEPT !.common = t.common, !.delay = t.delay, !.user_id = t.user_id]
  BY DEF IsTrigger
<1>5. u.kind = t.kind /\ u.common = c /\ u.delay = t.delay /\ u.user_id = v
  BY <1>2, <1>4 DEF LogonTrigger
<1>6. SpecificElements(u) = SpecificElements(t)  BY <1>3, <1>5 DEF SpecificElements
<1>7. QED  BY <1>1, <1>5, <1>6, OtherAgain DEF u, c

LEMMA SessionAgain ==
  ASSUME NEW t, NEW unread, IsTrigger(t, unread), ~RespacedTrigger(t), t.kind = "SessionStateChangeTrigger"
  PROVE  TriggerAgain(t)
<1> DEFINE u == CanonicalTrigger(t)
           c == CanonicalCommon(t.common)
           v == Texts(t.user_id)
<1>1. IsCommon(t.common) /\ t.kind \notin ToSet(Calendar) /\ t.kind # "unknown"
  BY CalendarNames DEF IsTrigger
<1>2. u = [t EXCEPT !.common = c, !.user_id = v]  BY DEF CanonicalTrigger
<1>3. OptionalElement("UserId", v) = OptionalElement("UserId", t.user_id)  BY OptionAgain
<1> HIDE DEF u, c, v
<1>4. t = [SessionStateChangeTrigger(t.state_change) EXCEPT
             !.common = t.common, !.delay = t.delay, !.user_id = t.user_id]
  BY DEF IsTrigger, IsSessionTrigger
<1>5. /\ u.kind = t.kind /\ u.common = c /\ u.delay = t.delay /\ u.user_id = v
      /\ u.state_change = t.state_change
  BY <1>2, <1>4 DEF SessionStateChangeTrigger
<1>6. SpecificElements(u) = SpecificElements(t)  BY <1>3, <1>5 DEF SpecificElements
<1>7. QED  BY <1>1, <1>5, <1>6, OtherAgain DEF u, c

LEMMA QueriesAgain ==
  ASSUME NEW queries, IsFiniteSet(DOMAIN queries),
         NEW again, again = [n \in DOMAIN queries |-> ReadText(queries[n])]
  PROVE  ValueQueries(again) = ValueQueries(queries)
<1> DEFINE names == SetToSeq(DOMAIN queries)
<1>1. DOMAIN again = DOMAIN queries /\ \A n \in DOMAIN queries : again[n] = ReadText(queries[n])
  OBVIOUS
<1>2. IsList(names) /\ ToSet(names) = DOMAIN queries  BY SetList
<1>3. SetToSeq(DOMAIN again) = names  BY <1>1
<1> HIDE DEF names
<1>4. ValueList(again, names) = ValueList(queries, names)
  <2>1. ASSUME NEW i \in DOMAIN names
        PROVE  ValueElement(again, names[i]) = ValueElement(queries, names[i])
    <3>1. names[i] \in DOMAIN queries  BY <1>2 DEF ToSet
    <3>2. again[names[i]] = ReadText(queries[names[i]])  BY <1>1, <3>1
    <3>3. QED  BY <3>2, TextAgain DEF ValueElement
  <2>2. QED  BY <2>1 DEF ValueList
<1>5. /\ Each(names, LAMBDA n : Container("Value", Attribute("name", n), again[n], <<>>))
           = ValueList(again, names)
      /\ Each(names, LAMBDA n : Container("Value", Attribute("name", n), queries[n], <<>>))
           = ValueList(queries, names)
  BY DEF Each, ValueList, ValueElement
<1>6. QED  BY <1>1, <1>3, <1>4, <1>5 DEF ValueQueries, names

LEMMA QueriesStay ==
  ASSUME NEW queries, IsFiniteSet(DOMAIN queries),
         \A n \in DOMAIN queries : ReadAttribute(n) = n
  PROVE  CanonicalQueries(queries) = [n \in DOMAIN queries |-> ReadText(queries[n])]
<1> DEFINE D == DOMAIN queries
           names == SetToSeq(D)
           A == {ReadAttribute(m) : m \in D}
           L(n) == {i \in DOMAIN names : ReadAttribute(names[i]) = n}
           Q(n) == ReadText(queries[names[Max(L(n))]])
<1>1. IsList(names) /\ ToSet(names) = D  BY SetList
<1>2. CanonicalQueries(queries) = [n \in A |-> Q(n)]  BY DEF CanonicalQueries
<1>3. A = D  OBVIOUS
<1> HIDE DEF names
<1>4. Len(names) \in Nat /\ DOMAIN names = 1..Len(names)  BY <1>1, ListParts
<1>5. \A n \in D : Q(n) = ReadText(queries[n])
  <2>1. ASSUME NEW n \in D  PROVE names[Max(L(n))] = n
    <3>1. \A i \in DOMAIN names : names[i] \in D /\ ReadAttribute(names[i]) = names[i]
      BY <1>1 DEF ToSet
    <3>2. PICK i \in DOMAIN names : names[i] = n  BY <1>1, <2>1 DEF ToSet
    <3> DEFINE T == L(n)
    <3>3. i \in T /\ T \subseteq 1..Len(names) /\ \A j \in T : names[j] = n
      BY <1>4, <3>1, <3>2
    <3> HIDE DEF T
    <3>4. Max(T) \in T
      <4>1. T # {} /\ T \subseteq 1..Len(names)  BY <3>3
      <4>2. QED  BY <1>4, <4>1, LastOf
    <3>5. names[Max(T)] = n  BY <3>3, <3>4
    <3>6. QED  BY <3>5 DEF T
  <2>2. QED  BY <2>1
<1> HIDE DEF A, Q, L, D
<1>6. [n \in A |-> Q(n)] = [n \in D |-> ReadText(queries[n])]  BY <1>3, <1>5
<1>7. QED  BY <1>2, <1>6 DEF D

LEMMA EventAgain ==
  ASSUME NEW t, NEW unread, IsTrigger(t, unread), ~RespacedTrigger(t), t.kind = "EventTrigger"
  PROVE  TriggerAgain(t)
<1> DEFINE u == CanonicalTrigger(t)
           c == CanonicalCommon(t.common)
           q == [m \in DOMAIN t.value_queries |-> ReadText(t.value_queries[m])]
           v == Texts(t.matching_element)
           r == ReadText(t.subscription)
<1>1. /\ IsCommon(t.common) /\ t.kind \notin ToSet(Calendar) /\ t.kind # "unknown"
      /\ IsFiniteSet(DOMAIN t.value_queries)
  BY CalendarNames DEF IsTrigger, IsEventTrigger
<1>2. t = [kind |-> "EventTrigger", common |-> t.common, subscription |-> t.subscription,
           value_queries |-> t.value_queries, delay |-> t.delay,
           period_of_occurrence |-> t.period_of_occurrence,
           number_of_occurrences |-> t.number_of_occurrences,
           matching_element |-> t.matching_element]
  BY DEF IsTrigger, IsEventTrigger, EventTrigger
<1>2a. CanonicalQueries(t.value_queries) = q
  <2> DEFINE queries == t.value_queries
  <2>1. \A n \in DOMAIN queries : ReadAttribute(n) = n  BY <1>1 DEF RespacedTrigger
  <2>2. IsFiniteSet(DOMAIN queries)  BY <1>1
  <2> HIDE DEF queries
  <2>3. CanonicalQueries(queries) = [n \in DOMAIN queries |-> ReadText(queries[n])]
    BY <2>1, <2>2, QueriesStay
  <2>4. QED  BY <2>3 DEF queries
<1>3. u = [t EXCEPT !.common = c, !.subscription = r, !.value_queries = q,
                    !.matching_element = v]
  <2> HIDE DEF q
  <2>1. QED  BY <1>2, <1>2a DEF CanonicalTrigger
<1>4. OptionalElement("MatchingElement", v) = OptionalElement("MatchingElement", t.matching_element)
  BY OptionAgain
<1>5. ValueQueries(q) = ValueQueries(t.value_queries)  BY <1>1, QueriesAgain
<1>6. Element("Subscription", r) = Element("Subscription", t.subscription)  BY TextAgain
<1> HIDE DEF u, c, q, v, r
<1>7. /\ u.kind = t.kind /\ u.common = c /\ u.delay = t.delay /\ u.subscription = r
      /\ u.value_queries = q /\ u.matching_element = v
      /\ u.period_of_occurrence = t.period_of_occurrence
      /\ u.number_of_occurrences = t.number_of_occurrences
  BY <1>2, <1>3
<1>8. Each(u.number_of_occurrences, ToString) = Each(t.number_of_occurrences, ToString)
  BY <1>7 DEF Each
<1>9. SpecificElements(u) = SpecificElements(t)
  BY <1>4, <1>5, <1>6, <1>7, <1>8 DEF SpecificElements
<1>10. QED  BY <1>1, <1>7, <1>9, OtherAgain DEF u, c

LEMMA CalendarAgain ==
  ASSUME NEW t, IsCommon(t.common), IsCalendar(t), t.kind \in ToSet(Calendar),
         ~RespacedTrigger(t)
  PROVE  TriggerAgain(t)
<1> DEFINE u == CanonicalTrigger(t)
           c == CanonicalCommon(t.common)
<1>1. u = [t EXCEPT !.common = c] /\ t.kind # "unknown"  BY CalendarNames DEF CanonicalTrigger
<1>2. CommonElements(c) = CommonElements(t.common) /\ c.id = t.common.id
  <2>1. Ids(t.common.id) = t.common.id  BY <1>1 DEF RespacedTrigger
  <2>2. QED  BY <2>1, CommonAgain
<1> HIDE DEF u, c
<1>3. /\ u.kind = t.kind /\ u.common = c /\ u.random_delay = t.random_delay
      /\ ScheduleElement(u) = ScheduleElement(t)
  <2>1. CASE t.kind = "ScheduleByDay"
    <3>1. t = DayBuilt(t.common, t.random_delay, t.days_interval)
      BY <2>1 DEF IsCalendar, DayBuilt
    <3>2. t = DayRecord(t.common, t.random_delay, t.days_interval)  BY <3>1, DayForm
    <3>3. /\ u.kind = t.kind /\ u.common = c /\ u.random_delay = t.random_delay
          /\ u.days_interval = t.days_interval
      BY <1>1, <3>2 DEF DayRecord
    <3>4. QED  BY <2>1, <3>3 DEF ScheduleElement
  <2>2. CASE t.kind = "ScheduleByWeek"
    <3>1. t = WeekBuilt(t.common, t.random_delay, t.days_of_week, t.weeks_interval)
      BY <2>2 DEF IsCalendar, WeekBuilt
    <3>2. t = WeekRecord(t.common, t.random_delay, t.days_of_week, t.weeks_interval)
      BY <3>1, WeekForm
    <3>3. /\ u.kind = t.kind /\ u.common = c /\ u.random_delay = t.random_delay
          /\ u.days_of_week = t.days_of_week /\ u.weeks_interval = t.weeks_interval
      BY <1>1, <3>2 DEF WeekRecord
    <3>4. QED  BY <2>2, <3>3 DEF ScheduleElement
  <2>3. CASE t.kind = "ScheduleByMonth"
    <3>1. t = MonthBuilt(t.common, t.random_delay, t.days_of_month, t.months, t.run_on_last_day)
      BY <2>3 DEF IsCalendar, MonthBuilt
    <3>2. t = MonthRecord(t.common, t.random_delay, t.days_of_month, t.months, t.run_on_last_day)
      BY <3>1, MonthForm
    <3>3. /\ u.kind = t.kind /\ u.common = c /\ u.random_delay = t.random_delay
          /\ u.days_of_month = t.days_of_month /\ u.months = t.months
          /\ u.run_on_last_day = t.run_on_last_day
      BY <1>1, <3>2 DEF MonthRecord
    <3>4. QED  BY <2>3, <3>3 DEF ScheduleElement
  <2>4. CASE t.kind = "ScheduleByMonthDayOfWeek"
    <3>1. t = DowBuilt(t.common, t.random_delay, t.weeks_of_month, t.days_of_week, t.months,
                       t.run_on_last_week)
      BY <2>4 DEF IsCalendar, DowBuilt
    <3>2. t = DowRecord(t.common, t.random_delay, t.weeks_of_month, t.days_of_week, t.months,
                        t.run_on_last_week)
      BY <3>1, DowForm
    <3>3. /\ u.kind = t.kind /\ u.common = c /\ u.random_delay = t.random_delay
          /\ u.weeks_of_month = t.weeks_of_month /\ u.days_of_week = t.days_of_week
          /\ u.months = t.months /\ u.run_on_last_week = t.run_on_last_week
      BY <1>1, <3>2 DEF DowRecord
    <3>4. QED  BY <2>4, <3>3 DEF ScheduleElement
  <2>5. QED  BY <2>1, <2>2, <2>3, <2>4, CalendarNames
<1>4. WriteCalendarTrigger(u) = WriteCalendarTrigger(t)
  BY <1>2, <1>3 DEF WriteCalendarTrigger
<1>5. QED  BY <1>1, <1>3, <1>4 DEF TriggerAgain, WriteTrigger, u

LEMMA EveryTriggerAgain ==
  ASSUME NEW t, NEW S, IsTrigger(t, S), ~RespacedTrigger(t)
  PROVE  TriggerAgain(t)
<1>1. \/ t.kind \in {"BootTrigger", "RegistrationTrigger", "IdleTrigger", "TimeTrigger"}
      \/ t.kind = "EventTrigger" \/ t.kind = "LogonTrigger"
      \/ t.kind = "SessionStateChangeTrigger"
      \/ t.kind \in ToSet(Calendar) \/ t.kind = "unknown"
  BY DEF IsTrigger, TriggerNames
<1>2. CASE t.kind \in {"BootTrigger", "RegistrationTrigger", "IdleTrigger", "TimeTrigger"}
  BY <1>2, BootAgain
<1>3. CASE t.kind = "EventTrigger"  BY <1>3, EventAgain
<1>4. CASE t.kind = "LogonTrigger"  BY <1>4, LogonAgain
<1>5. CASE t.kind = "SessionStateChangeTrigger"  BY <1>5, SessionAgain
<1>6. CASE t.kind \in ToSet(Calendar)
  <2>1. IsCommon(t.common) /\ IsCalendar(t)
    <3>1. t.kind # "unknown"  BY <1>6, CalendarNames
    <3>2. QED  BY <1>6, <3>1 DEF IsTrigger
  <2>2. QED  BY <1>6, <2>1, CalendarAgain
<1>7. CASE t.kind = "unknown"
  <2> DEFINE x == t.xml
  <2>1. CanonicalTrigger(t) = UnknownTrigger(x)
    <3>1. CanonicalTrigger(t) = UnknownTrigger(AsRead(t.xml))  BY <1>7 DEF CanonicalTrigger
    <3>2. AsRead(t.xml) = x  BY <1>7 DEF RespacedTrigger
    <3>3. QED  BY <3>1, <3>2
  <2>1a. \A w : w.kind = "unknown" => WriteTrigger(w) = w.xml
    <3>1. "unknown" \notin ToSet(Calendar)  BY CalendarNames
    <3>2. QED  BY <3>1 DEF WriteTrigger
  <2>2. WriteTrigger(t) = x  BY <1>7, <2>1a
  <2> HIDE DEF x
  <2>3. UnknownTrigger(x).kind = "unknown" /\ UnknownTrigger(x).xml = x  BY DEF UnknownTrigger
  <2>4. WriteTrigger(UnknownTrigger(x)) = x  BY <2>1a, <2>3
  <2>5. QED  BY <2>1, <2>2, <2>4 DEF TriggerAgain
<1>8. QED  BY <1>1, <1>2, <1>3, <1>4, <1>5, <1>6, <1>7

\* An action is written again as it was written.
ActionAgain(a) == WriteAction(CanonicalAction(a)) = WriteAction(a)

LEMMA ExecAgain ==
  ASSUME NEW a, NEW S, IsAction(a, S), a.kind = "Exec", ~RespacedAction(a)
  PROVE  ActionAgain(a)
<1> DEFINE u == CanonicalAction(a)
           c == ReadText(a.command)
           g == Texts(a.arguments)
           w == Texts(a.working_directory)
<1>1. a = ExecRecord(a.id, a.command, a.arguments, a.working_directory, a.hide_window)
  <2>1. a = ExecBuilt(a.id, a.command, a.arguments, a.working_directory, a.hide_window)
    BY DEF IsAction, ExecBuilt
  <2>2. QED  BY <2>1, ExecForm
<1> DEFINE y == Ids(a.id)
<1>1b. y = a.id  BY DEF RespacedAction
<1>2. u = [a EXCEPT !.id = y, !.command = c, !.arguments = g, !.working_directory = w]
  BY DEF CanonicalAction
<1>3. /\ Element("Command", c) = Element("Command", a.command)
      /\ OptionalElement("Arguments", g) = OptionalElement("Arguments", a.arguments)
      /\ OptionalElement("WorkingDirectory", w)
           = OptionalElement("WorkingDirectory", a.working_directory)
  BY TextAgain, OptionAgain
<1> HIDE DEF u, c, g, w, y
<1>4. /\ u.kind = a.kind /\ u.id = a.id /\ u.command = c /\ u.arguments = g
      /\ u.working_directory = w /\ u.hide_window = a.hide_window
  BY <1>1, <1>1b, <1>2 DEF ExecRecord
<1>5. WriteAction(u) = WriteAction(a)  BY <1>3, <1>4 DEF WriteAction
<1>6. QED  BY <1>5 DEF ActionAgain, u

LEMMA HandlerAgain ==
  ASSUME NEW a, NEW S, IsAction(a, S), a.kind = "ComHandler", ~RespacedAction(a)
  PROVE  ActionAgain(a)
<1> DEFINE u == CanonicalAction(a)
           v == Texts(a.data)
<1>1. a = HandlerRecord(a.id, a.class_id, a.data)
  <2>1. a = HandlerBuilt(a.id, a.class_id, a.data)  BY DEF IsAction, HandlerBuilt
  <2>2. QED  BY <2>1, HandlerForm
<1> DEFINE y == Ids(a.id)
<1>1b. y = a.id  BY DEF RespacedAction
<1>2. u = [a EXCEPT !.id = y, !.data = v]  BY DEF CanonicalAction
<1>3. OptionalElement("Data", v) = OptionalElement("Data", a.data)  BY OptionAgain
<1> HIDE DEF u, v, y
<1>4. u.kind = a.kind /\ u.id = a.id /\ u.class_id = a.class_id /\ u.data = v
  BY <1>1, <1>1b, <1>2 DEF HandlerRecord
<1>5. WriteAction(u) = WriteAction(a)  BY <1>3, <1>4 DEF WriteAction
<1>6. QED  BY <1>5 DEF ActionAgain, u

LEMMA MessageAgain ==
  ASSUME NEW a, NEW S, IsAction(a, S), a.kind = "ShowMessage", ~RespacedAction(a)
  PROVE  ActionAgain(a)
<1> DEFINE u == CanonicalAction(a)
           b == ReadText(a.body)
           v == Texts(a.title)
<1>1. a = MessageRecord(a.id, a.title, a.body)
  <2>1. a = MessageBuilt(a.id, a.title, a.body)  BY DEF IsAction, MessageBuilt
  <2>2. QED  BY <2>1, MessageForm
<1> DEFINE y == Ids(a.id)
<1>1b. y = a.id  BY DEF RespacedAction
<1>2. u = [a EXCEPT !.id = y, !.body = b, !.title = v]  BY DEF CanonicalAction
<1>3. /\ Element("Body", b) = Element("Body", a.body)
      /\ OptionalElement("Title", v) = OptionalElement("Title", a.title)
  BY TextAgain, OptionAgain
<1> HIDE DEF u, b, v, y
<1>4. u.kind = a.kind /\ u.id = a.id /\ u.title = v /\ u.body = b
  BY <1>1, <1>1b, <1>2 DEF MessageRecord
<1>5. WriteAction(u) = WriteAction(a)  BY <1>3, <1>4 DEF WriteAction
<1>6. QED  BY <1>5 DEF ActionAgain, u

LEMMA EmailAgain ==
  ASSUME NEW a, NEW S, IsAction(a, S), a.kind = "SendEmail", ~RespacedAction(a)
  PROVE  ActionAgain(a)
<1> DEFINE u == CanonicalAction(a)
           r == ReadText(a.server)
           x == [n \in DOMAIN a.texts |-> Texts(a.texts[n])]
           v == Texts(a.body)
           f == Each(a.attachments, ReadText)
           h == Each(a.headers, LAMBDA y : [name |-> ReadText(y.name), value |-> ReadText(y.value)])
<1>1. a = EmailRecord(a.id, a.server, a.body, a.attachments,
                      [n \in ToSet(EmailTexts) |-> a.texts[n]], a.headers)
  <2>1. a = EmailBuilt(a.id, a.server, a.body, a.attachments,
                       [n \in ToSet(EmailTexts) |-> a.texts[n]], a.headers)
    BY DEF IsAction, IsEmail, EmailBuilt
  <2>2. QED  BY <2>1, EmailForm
<1>2. DOMAIN a.texts = ToSet(EmailTexts)
  <2> DEFINE g == [n \in ToSet(EmailTexts) |-> a.texts[n]]
  <2>1. DOMAIN g = ToSet(EmailTexts)  OBVIOUS
  <2> HIDE DEF g
  <2>2. a.texts = g  BY <1>1 DEF EmailRecord, g
  <2>3. QED  BY <2>1, <2>2
<1> DEFINE z == Ids(a.id)
<1>2b. z = a.id  BY <1>1 DEF RespacedAction
<1>3. u = [a EXCEPT !.id = z, !.server = r, !.texts = x, !.body = v, !.attachments = f, !.headers = h]
  BY <1>1 DEF CanonicalAction, EmailRecord
<1>4. /\ Element("Server", r) = Element("Server", a.server)
      /\ OptionalElement("Body", v) = OptionalElement("Body", a.body)
  BY TextAgain, OptionAgain
<1>5. Each(EmailTexts, LAMBDA n : OptionalElement(n, x[n]))
        = Each(EmailTexts, LAMBDA n : OptionalElement(n, a.texts[n]))
  <2> DEFINE texts == EmailTexts
  <2>1. \A i \in DOMAIN texts : texts[i] \in DOMAIN a.texts  BY <1>2 DEF ToSet
  <2>2. \A i \in DOMAIN texts : x[texts[i]] = Texts(a.texts[texts[i]])  BY <2>1
  <2> HIDE DEF texts, x
  <2>3. \A i \in DOMAIN texts :
          OptionalElement(texts[i], x[texts[i]]) = OptionalElement(texts[i], a.texts[texts[i]])
    BY <2>2, OptionAgain
  <2>4. [i \in DOMAIN texts |-> OptionalElement(texts[i], x[texts[i]])]
          = [i \in DOMAIN texts |-> OptionalElement(texts[i], a.texts[texts[i]])]
    BY <2>3
  <2>5. QED  BY <2>4 DEF Each, texts
<1>6. Each(f, LAMBDA file : Element("File", file))
        = Each(a.attachments, LAMBDA file : Element("File", file))
  <2>1. DOMAIN f = DOMAIN a.attachments
        /\ \A i \in DOMAIN a.attachments : f[i] = ReadText(a.attachments[i])
    BY DEF Each
  <2>2. \A t : Element("File", ReadText(t)) = Element("File", t)  BY TextAgain
  <2> HIDE DEF f
  <2>3. QED  BY <2>1, <2>2 DEF Each
<1>7. Each(h, HeaderElement) = Each(a.headers, HeaderElement)
  <2>1. /\ DOMAIN h = DOMAIN a.headers
        /\ \A i \in DOMAIN a.headers : /\ h[i].name = ReadText(a.headers[i].name)
                                       /\ h[i].value = ReadText(a.headers[i].value)
    BY DEF Each
  <2> HIDE DEF h
  <2>2. \A i \in DOMAIN a.headers : HeaderElement(h[i]) = HeaderElement(a.headers[i])
    BY <2>1, TextAgain DEF HeaderElement
  <2>3. QED  BY <2>1, <2>2 DEF Each
<1> HIDE DEF u, r, x, v, f, h, z
<1>8. /\ u.kind = a.kind /\ u.id = a.id /\ u.server = r /\ u.texts = x /\ u.body = v
      /\ u.attachments = f /\ u.headers = h
  BY <1>1, <1>2b, <1>3 DEF EmailRecord
<1>9. /\ Each(EmailTexts, LAMBDA n : OptionalElement(n, u.texts[n]))
           = Each(EmailTexts, LAMBDA n : OptionalElement(n, a.texts[n]))
      /\ Each(u.attachments, LAMBDA file : Element("File", file))
           = Each(a.attachments, LAMBDA file : Element("File", file))
      /\ Each(u.headers, HeaderElement) = Each(a.headers, HeaderElement)
  BY <1>5, <1>6, <1>7, <1>8
<1> DEFINE E(b, y1, y2, y3) ==
             WithId("SendEmail", b.id, FlattenSeq(
               <<<<Element("Server", b.server)>>, FlattenSeq(y1), ListElement("HeaderFields", y2),
                 OptionalElement("Body", b.body), ListElement("Attachments", y3)>>))
<1>10. \A b : b.kind = "SendEmail" =>
         WriteAction(b) = E(b, Each(EmailTexts, LAMBDA n : OptionalElement(n, b.texts[n])),
                            Each(b.headers, HeaderElement),
                            Each(b.attachments, LAMBDA file : Element("File", file)))
  BY DEF WriteAction
<1>11. \A y1, y2, y3 : E(u, y1, y2, y3) = E(a, y1, y2, y3)  BY <1>4, <1>8
<1> HIDE DEF E
<1>12. WriteAction(u) = WriteAction(a)  BY <1>8, <1>9, <1>10, <1>11
<1>13. QED  BY <1>12 DEF ActionAgain, u

LEMMA EveryActionAgain ==
  ASSUME NEW a, NEW S, IsAction(a, S), ~RespacedAction(a)
  PROVE  ActionAgain(a)
<1>1. \/ a.kind = "Exec" \/ a.kind = "ComHandler" \/ a.kind = "SendEmail"
      \/ a.kind = "ShowMessage" \/ a.kind = "unknown"
  BY DEF IsAction, ActionNames
<1>2. CASE a.kind = "Exec"  BY <1>2, ExecAgain
<1>3. CASE a.kind = "ComHandler"  BY <1>3, HandlerAgain
<1>4. CASE a.kind = "SendEmail"  BY <1>4, EmailAgain
<1>5. CASE a.kind = "ShowMessage"  BY <1>5, MessageAgain
<1>6. CASE a.kind = "unknown"
  <2> DEFINE x == a.xml
  <2>1. CanonicalAction(a) = UnknownAction(x)
    <3>1. CanonicalAction(a) = UnknownAction(AsRead(a.xml))  BY <1>6 DEF CanonicalAction
    <3>2. AsRead(a.xml) = x  BY <1>6 DEF RespacedAction
    <3>3. QED  BY <3>1, <3>2
  <2>2. \A b : b.kind = "unknown" => WriteAction(b) = b.xml  BY DEF WriteAction
  <2>3. WriteAction(a) = x  BY <1>6, <2>2
  <2> HIDE DEF x
  <2>4. UnknownAction(x).kind = "unknown" /\ UnknownAction(x).xml = x  BY DEF UnknownAction
  <2>5. QED  BY <2>1, <2>2, <2>3, <2>4 DEF ActionAgain
<1>7. QED  BY <1>1, <1>2, <1>3, <1>4, <1>5, <1>6

LEMMA PrincipalAgain ==
  ASSUME NEW p, IsPrincipal(p), ~Respelled(p.identity), ReadAttribute(p.id) = p.id
  PROVE  /\ WritePrincipal(CanonicalPrincipal(p)) = WritePrincipal(p)
         /\ CanonicalPrincipal(p).id = p.id
<1> DEFINE u == CanonicalPrincipal(p)
           i == CanonicalIdentity(p.identity)
           v == Texts(p.display_name)
           l == IF LogonElement(p.logon_type) = <<>> THEN ImpliedLogon(i) ELSE p.logon_type
<1>1. p = [id |-> p.id, display_name |-> p.display_name, identity |-> p.identity,
           logon_type |-> p.logon_type, run_level |-> p.run_level,
           process_token_sid_type |-> p.process_token_sid_type,
           required_privileges |-> p.required_privileges]
  BY DEF IsPrincipal
<1> DEFINE k == ReadAttribute(p.id)
<1>2. u = [p EXCEPT !.id = k, !.identity = i, !.display_name = v, !.logon_type = l]
  BY <1>1 DEF CanonicalPrincipal
<1>3. IdentityElement(i) = IdentityElement(p.identity)  BY DEF Respelled
<1>4. OptionalElement("DisplayName", v) = OptionalElement("DisplayName", p.display_name)
  BY OptionAgain
<1>5. LogonElement(l) = LogonElement(p.logon_type)
  <2>1. LogonElement(ImpliedLogon(i)) = <<>>  BY DEF LogonElement, ImpliedLogon
  <2> HIDE DEF i
  <2>2. QED  BY <2>1
<1>5a. k = p.id  OBVIOUS
<1> HIDE DEF u, i, v, l, k
<1>6. /\ u.id = p.id /\ u.display_name = v /\ u.identity = i /\ u.logon_type = l
      /\ u.run_level = p.run_level /\ u.process_token_sid_type = p.process_token_sid_type
      /\ u.required_privileges = p.required_privileges
  BY <1>1, <1>2, <1>5a
<1>7. Each(u.required_privileges, LAMBDA y : Element("Privilege", y))
        = Each(p.required_privileges, LAMBDA y : Element("Privilege", y))
  BY <1>6
<1> DEFINE E(b, y) ==
      Plain("Principals",
        <<Container("Principal", Attribute("id", b.id), "", FlattenSeq(
            <<IdentityElement(b.identity), OptionalElement("DisplayName", b.display_name),
              LogonElement(b.logon_type), <<Element("RunLevel", b.run_level)>>,
              SidElement(b.process_token_sid_type), ListElement("RequiredPrivileges", y)>>))>>)
<1>8. \A b : WritePrincipal(b) = E(b, Each(b.required_privileges, LAMBDA y : Element("Privilege", y)))
  BY DEF WritePrincipal
<1>9. \A y : E(u, y) = E(p, y)  BY <1>3, <1>4, <1>5, <1>6
<1> HIDE DEF E
<1>10. WritePrincipal(u) = WritePrincipal(p)  BY <1>7, <1>8, <1>9
<1>11. QED  BY <1>6, <1>10 DEF u

LEMMA SettingsAgain ==
  ASSUME NEW d, IsSettings(d.settings), NEW e, e.settings = CanonicalSettings(d.settings),
         e.schema_version = d.schema_version
  PROVE  SettingsElements(e) = SettingsElements(d)
<1> DEFINE s == d.settings
           u == e.settings
           w == Each(s.network, LAMBDA n : [id |-> Texts(n.id), name |-> Texts(n.name)])
           l == CanonicalLimit(s.execution_time_limit)
<1>1. s = [flags |-> s.flags, restart_on_failure |-> s.restart_on_failure,
           multiple_instances |-> s.multiple_instances, network |-> s.network,
           execution_time_limit |-> s.execution_time_limit,
           delete_expired_after |-> s.delete_expired_after, priority |-> s.priority,
           idle |-> s.idle, maintenance |-> s.maintenance]
      /\ IsOption(s.network)
  BY DEF IsSettings
<1>2. u = [s EXCEPT !.execution_time_limit = l, !.network = w]  BY DEF CanonicalSettings
<1>3. LimitText(l) = LimitText(s.execution_time_limit)  BY DEF LimitText, CanonicalLimit
<1>4. DOMAIN w = DOMAIN s.network
      /\ \A i \in DOMAIN w : w[i].id = Texts(s.network[i].id)
                             /\ w[i].name = Texts(s.network[i].name)
  BY DEF Each
<1>5. w # None <=> s.network # None
  <2>1. IsOption(s.network) /\ w = [i \in DOMAIN s.network |-> w[i]]  BY <1>1 DEF Each
  <2> HIDE DEF w
  <2>2. w = None <=> s.network = None  BY <2>1, OptionEach
  <2>3. QED  BY <2>2
<1> HIDE DEF w, l
<1>6. Each(w, NetworkElement) = Each(s.network, NetworkElement)
  <2>1. \A i \in DOMAIN w : NetworkElement(w[i]) = NetworkElement(s.network[i])
    BY <1>4, OptionAgain DEF NetworkElement
  <2>2. QED  BY <1>4, <2>1 DEF Each
<1>7. e.schema_version = d.schema_version  OBVIOUS
<1> HIDE DEF s, u
<1>8. /\ u.flags = s.flags /\ u.restart_on_failure = s.restart_on_failure
      /\ u.multiple_instances = s.multiple_instances /\ u.network = w
      /\ u.execution_time_limit = l /\ u.delete_expired_after = s.delete_expired_after
      /\ u.priority = s.priority /\ u.idle = s.idle /\ u.maintenance = s.maintenance
  BY <1>1, <1>2
<1>9. SettingsParts(e) = SettingsParts(d)
  <2>1. /\ Each(u.network, NetworkElement) = Each(s.network, NetworkElement)
        /\ BoolElement("RunOnlyIfNetworkAvailable", u.network # None)
             = BoolElement("RunOnlyIfNetworkAvailable", s.network # None)
        /\ Element("ExecutionTimeLimit", LimitText(u.execution_time_limit))
             = Element("ExecutionTimeLimit", LimitText(s.execution_time_limit))
    BY <1>3, <1>5, <1>6, <1>8
  <2>2. /\ Each(u.restart_on_failure, RestartElement) = Each(s.restart_on_failure, RestartElement)
        /\ Each(u.idle, IdleElement) = Each(s.idle, IdleElement)
        /\ Each(u.maintenance, MaintenanceElement) = Each(s.maintenance, MaintenanceElement)
    BY <1>8
  <2>3. QED  BY <1>7, <1>8, <2>1, <2>2 DEF SettingsParts, s, u
<1>10. SettingsElements(e) = FlattenSeq(SettingsParts(e))
       /\ SettingsElements(d) = FlattenSeq(SettingsParts(d))
  BY DEF SettingsElements, SettingsParts
<1>11. QED  BY <1>9, <1>10

LEMMA RegistrationAgain ==
  ASSUME NEW d, IsRegistration(d.registration), NEW e,
         e.registration = [name \in DOMAIN d.registration |-> Texts(d.registration[name])]
  PROVE  RegistrationParts(e) = RegistrationParts(d)
<1> DEFINE names == RegistrationTexts
           r == d.registration
           q == e.registration
<1>1. DOMAIN r = ToSet(names)  BY DEF IsRegistration
<1>2. \A i \in DOMAIN names : names[i] \in DOMAIN r  BY <1>1 DEF ToSet
<1>3. \A i \in DOMAIN names : q[names[i]] = Texts(r[names[i]])  BY <1>2
<1> HIDE DEF names, r, q
<1>4. \A i \in DOMAIN names :
        OptionalElement(names[i], q[names[i]]) = OptionalElement(names[i], r[names[i]])
  BY <1>3, OptionAgain
<1>5. [i \in DOMAIN names |-> OptionalElement(names[i], q[names[i]])]
        = [i \in DOMAIN names |-> OptionalElement(names[i], r[names[i]])]
  BY <1>4
<1>6. QED  BY <1>5 DEF RegistrationParts, names, r, q

-----------------------------------------------------------------------------
(***************************************************************************)
(* A definition that was written and read is written as it was, and its      *)
(* extensions are in their places.                                           *)
(***************************************************************************)
\* The extensions of a parent stay, from a definition that is written to the
\* one that is read, and so does what is written of the parent.
StaysAt(d, e, p, K) ==
  /\ Ranks(ExtOf(e.extensions, p), p)
  /\ Rising(ExtOf(d.extensions, p)) =>
       Returned(ExtOf(e.extensions, p), ReadExt(ExtOf(d.extensions, p)),
                Len(ExtOf(d.extensions, p)))
  /\ Still(d.extensions) =>
       MergeExtensions(p, K, e.extensions) = MergeExtensions(p, K, d.extensions)
  /\ ExtOf(e.extensions, p) = <<>> => ExtOf(d.extensions, p) = <<>>

LEMMA SettledStays ==
  ASSUME NEW d, NEW e, NEW p, NEW K, NEW u,
         Settled(d.extensions, p, K, u, MergeExtensions(p, K, d.extensions)),
         ExtOf(e.extensions, p) = u
  PROVE  StaysAt(d, e, p, K)
<1>1. MergeExtensions(p, K, e.extensions) = Merge(K, u)  BY WhereOf
<1>2. QED  BY <1>1 DEF StaysAt, Settled

LEMMA NoneStays ==
  ASSUME NEW d, NEW e, NEW p, NEW K, NEW u, u = <<>>,
         ExtOf(e.extensions, p) = u, ExtOf(d.extensions, p) = u
  PROVE  StaysAt(d, e, p, K)
<1>1. MergeExtensions(p, K, e.extensions) = Merge(K, u)
      /\ MergeExtensions(p, K, d.extensions) = Merge(K, u)
  BY WhereOf
<1>2. Ranks(u, p)  BY NoneRank
<1>3. Returned(u, ReadExt(u), Len(u))
  <2>1. IsList(u) /\ Len(u) = 0  BY DEF IsList
  <2>2. \A i \in 1..Len(u) : FALSE  BY <2>1
  <2>3. QED  BY <2>1, <2>2 DEF Returned
<1>4. QED  BY <1>1, <1>2, <1>3 DEF StaysAt

\* The extensions of a definition can be read again where they stand.
LEMMA DefinitionCarries ==
  ASSUME NEW d, NEW S, IsDefinition(d, S)
  PROVE  /\ Carried(d.extensions, "Task", RootNames, S)
         /\ Carried(d.extensions, "Task/RegistrationInfo", ToSet(RegistrationTexts), S)
         /\ Carried(d.extensions, "Task/Settings", SettingNames, S)
<1>1. IsList(d.extensions) /\ \A x \in ToSet(d.extensions) : IsExtension(x, S)
  BY DEF IsDefinition
<1>2. QED  BY <1>1 DEF Carried, IsExtension, XmlExtension

\* An element with known elements and extensions.
LEMMA PartSettled ==
  ASSUME NEW K, NEW N, Menu(K, N), NEW S, Hereditary(S), NEW exts, NEW p, Carried(exts, p, N, S),
         NEW R, R = MergeExtensions(p, K, exts), NEW name, NEW e, e = Plain(name, R)
  PROVE  /\ IsElement(e) /\ NodeOf(e).name = name
         /\ Settled(exts, p, K, ExtensionsFor(NodeOf(e), p, N), R)
<1>1. Elements(R)  BY MergedElements DEF Carried
<1>2. IsElement(e) /\ NodeOf(e).name = name /\ NodeOf(e).kids = Nodes(R)  BY <1>1, PlainReads
<1>3. QED  BY <1>2, Settling

\* What is known of settings, and of the root.
LEMMA SettingsMenu ==
  ASSUME NEW d, IsSettings(d.settings)
  PROVE  Menu(SettingsElements(d), SettingNames)
<1> DEFINE names == SettingsOrder
           N == SettingNames
           P == SettingsParts(d)
<1>1. SettingsElements(d) = FlattenSeq(P)  BY DEF SettingsElements, SettingsParts
<1>2. IsList(P) /\ DOMAIN P = 1..21 /\ \A i \in 1..21 : PartOf(P[i], names[i])
  BY SettingsParted
<1>3. /\ DOMAIN names = 1..21 /\ ToSet(names) = N
      /\ \A i, j \in DOMAIN names : names[i] = names[j] => i = j
  BY SettingsNames
<1> HIDE DEF names, N, P
<1>4. Menu(FlattenSeq(P), ToSet(names))
  <2>1. /\ DOMAIN P = DOMAIN names /\ \A i \in DOMAIN P : PartOf(P[i], names[i])
        /\ \A i, j \in DOMAIN P : names[i] = names[j] => i = j
    BY <1>2, <1>3
  <2>2. QED  BY <1>2, <2>1, NamedParts
<1>5. QED  BY <1>1, <1>3, <1>4 DEF N

LEMMA RootMenu ==
  ASSUME NEW d, NEW S, Hereditary(S), IsDefinition(d, S), Valid(d)
  PROVE  /\ RootElements(d) = FlattenSeq(RootParts(d))
         /\ Menu(RootElements(d), RootNames)
<1> DEFINE p1 == RegistrationOut(d)
           p2 == TriggersOut(d)
           p3 == PrincipalOut(d)
           p4 == SettingsOut(d)
           p5 == DataOut(d)
           p6 == ActionsOut(d)
           n1 == "RegistrationInfo"
           n2 == "Triggers"
           n3 == "Principals"
           n4 == "Settings"
           n5 == "Data"
           n6 == "Actions"
           N == RootNames
           known == FlattenSeq(<<p1, p2, p3, p4, p5, p6>>)
<1>1. RootElements(d) = known
  <2>1. Each(d.triggers, WriteTrigger) = TriggerList(d.triggers)  BY DEF Each, TriggerList
  <2>2. QED
    BY <2>1 DEF RootElements, RegistrationOut, TriggersOut, PrincipalOut, SettingsOut, DataOut,
       ActionsOut
<1>2. /\ PartOf(p1, n1) /\ PartOf(p2, n2) /\ PartOf(p3, n3) /\ PartOf(p4, n4) /\ PartOf(p5, n5)
      /\ PartOf(p6, n6)
  BY RegistrationParted, TriggersParted, PrincipalParted, SettingsOnce, DataParted,
     ActionsParted
<1>3. N = {n1, n2, n3, n4, n5, n6}  BY DEF RootNames
<1>4. /\ n1 # n2 /\ n1 # n3 /\ n1 # n4 /\ n1 # n5 /\ n1 # n6 /\ n2 # n3 /\ n2 # n4
      /\ n2 # n5 /\ n2 # n6 /\ n3 # n4 /\ n3 # n5 /\ n3 # n6 /\ n4 # n5 /\ n4 # n6 /\ n5 # n6
  OBVIOUS
<1>5. known = FlattenSeq(RootParts(d))  BY DEF RootParts
<1> HIDE DEF p1, p2, p3, p4, p5, p6, n1, n2, n3, n4, n5, n6, N
<1>6. Menu(known, {n1, n2, n3, n4, n5, n6})
  BY ONLY <1>2, <1>4, Parts6
<1> HIDE DEF known
<1>7. QED  BY <1>1, <1>3, <1>5, <1>6 DEF N

\* The document of a definition, and where its extensions are.
LEMMA RootRead ==
  ASSUME NEW d, NEW S, Hereditary(S), IsDefinition(d, S), Valid(d),
         NEW n, n = NodeOf(WriteDefinition(d)),
         NEW R, R = MergeExtensions("Task", RootElements(d), d.extensions)
  PROVE  n.kids = Nodes(R) /\ RootFound(n, d)
<1> DEFINE attrs == Attribute("version", d.schema_version)
           blank == ""
           e == Container("Task", attrs, blank, R)
<1>1. WriteDefinition(d) = e  BY DEF WriteDefinition
<1>2. Elements(R) /\ \A node : node.kids = Nodes(R) => RootFound(node, d)  BY RootWritten
<1> HIDE DEF attrs, blank
<1>3. NodeOf(e).kids = Nodes(R)  BY <1>2, PlainElement
<1>4. QED  BY <1>1, <1>2, <1>3

LEMMA RegistrationSettled ==
  ASSUME NEW d, NEW S, Hereditary(S), IsDefinition(d, S), NEW n,
         Child(n, "RegistrationInfo") = Nodes(RegistrationOut(d)),
         NEW u, u = RegistrationExt(Child(n, "RegistrationInfo")),
         NEW K, K = FlattenSeq(RegistrationParts(d)), NEW p, p = "Task/RegistrationInfo"
  PROVE  /\ RegistrationNeeded(d) => Settled(d.extensions, p, K, u, MergeExtensions(p, K, d.extensions))
         /\ ~RegistrationNeeded(d) => u = <<>> /\ ExtOf(d.extensions, p) = <<>>
<1> DEFINE N == ToSet(RegistrationTexts)
           R == MergeExtensions(p, K, d.extensions)
           v == Child(n, "RegistrationInfo")
           e == WriteRegistration(d)
           P == [i \in DOMAIN v |-> ExtensionsFor(v[i], p, N)]
<1>1. u = FlattenSeq(P)  BY DEF RegistrationExt
<1>2. CASE RegistrationNeeded(d)
  <2>1. RegistrationOut(d) = <<e>>  BY <1>2 DEF RegistrationOut
  <2>2. e = Plain("RegistrationInfo", R)
    <3>1. Each(RegistrationTexts, LAMBDA name : OptionalElement(name, d.registration[name]))
            = RegistrationParts(d)
      BY DEF Each, RegistrationParts
    <3>2. QED  BY <3>1 DEF WriteRegistration
  <2>3. Menu(K, N)  BY RegistrationWritten DEF IsDefinition
  <2>4. Carried(d.extensions, p, N, S)  BY DefinitionCarries
  <2> HIDE DEF N, R, P, e
  <2>5. /\ IsElement(e) /\ NodeOf(e).name = "RegistrationInfo"
        /\ Settled(d.extensions, p, K, ExtensionsFor(NodeOf(e), p, N), R)
    BY <2>2, <2>3, <2>4, PartSettled DEF R
  <2>6. v = <<NodeOf(e)>>  BY <2>1, <2>5, OneNode
  <2>7. IsList(ExtensionsFor(NodeOf(e), p, N))  BY <2>5 DEF Settled, Ranks, AllOf
  <2> HIDE DEF v
  <2>8. FlattenSeq(P) = ExtensionsFor(NodeOf(e), p, N)  BY <2>6, <2>7, OneOrNone DEF P
  <2>9. QED  BY <1>1, <1>2, <2>5, <2>8 DEF R
<1>3. CASE ~RegistrationNeeded(d)
  <2>1. RegistrationOut(d) = <<>>  BY <1>3 DEF RegistrationOut
  <2>2. v = <<>>  BY <2>1, NoPart
  <2>3. u = <<>>  BY <2>2, NoExt
  <2>4. \A i \in DOMAIN d.extensions : d.extensions[i].parent # p
    BY <1>3 DEF RegistrationNeeded, HasExtensions
  <2> DEFINE exts == d.extensions
             Q == [i \in DOMAIN exts |-> IF exts[i].parent = p THEN <<exts[i]>> ELSE <<>>]
  <2>5. IsList(exts)  BY DEF IsDefinition
  <2>6. \A i \in DOMAIN exts : Q[i] = <<>>  BY <2>4
  <2>7. Q = [i \in DOMAIN exts |-> Q[i]] /\ ExtOf(exts, p) = FlattenSeq(Q)  BY DEF ExtOf
  <2> HIDE DEF Q, exts
  <2>8. IsList(Q) /\ DOMAIN Q = DOMAIN exts  BY <2>5, <2>7, Mapped
  <2>9. ExtOf(exts, p) = <<>>  BY <2>6, <2>7, <2>8, FlatNothing
  <2>10. QED  BY <1>3, <2>3, <2>9 DEF exts
<1>4. QED  BY <1>2, <1>3

LEMMA SettingsSettled ==
  ASSUME NEW d, NEW S, Hereditary(S), IsDefinition(d, S), NEW n,
         Child(n, "Settings") = Nodes(SettingsOut(d)),
         NEW u, u = SettingsExt(Child(n, "Settings")),
         NEW K, K = SettingsElements(d), NEW p, p = "Task/Settings"
  PROVE  Settled(d.extensions, p, K, u, MergeExtensions(p, K, d.extensions))
<1> DEFINE N == SettingNames
           R == MergeExtensions(p, K, d.extensions)
           v == Child(n, "Settings")
           e == WriteSettings(d)
           P == [i \in DOMAIN v |-> ExtensionsFor(v[i], p, N)]
<1>1. u = FlattenSeq(P)  BY DEF SettingsExt
<1>2. SettingsOut(d) = <<e>>  BY DEF SettingsOut
<1>3. e = Plain("Settings", R)  BY DEF WriteSettings
<1>4. Menu(K, N)  BY SettingsMenu DEF IsDefinition
<1>5. Carried(d.extensions, p, N, S)  BY DefinitionCarries
<1> HIDE DEF N, R, P, e
<1>6. /\ IsElement(e) /\ NodeOf(e).name = "Settings"
      /\ Settled(d.extensions, p, K, ExtensionsFor(NodeOf(e), p, N), R)
  BY <1>3, <1>4, <1>5, PartSettled DEF R
<1>7. v = <<NodeOf(e)>>  BY <1>2, <1>6, OneNode
<1>8. IsList(ExtensionsFor(NodeOf(e), p, N))  BY <1>6 DEF Settled, Ranks, AllOf
<1> HIDE DEF v
<1>9. FlattenSeq(P) = ExtensionsFor(NodeOf(e), p, N)  BY <1>7, <1>8, OneOrNone DEF P
<1>10. QED  BY <1>1, <1>6, <1>9 DEF R

\* All extensions of a definition stay when it is written and read.
LEMMA AllStay ==
  ASSUME NEW d, NEW S, Hereditary(S), IsDefinition(d, S), Valid(d),
         NEW e, e = DefinitionOf(NodeOf(WriteDefinition(d)))
  PROVE  /\ StaysAt(d, e, "Task", RootElements(d))
         /\ StaysAt(d, e, "Task/RegistrationInfo", FlattenSeq(RegistrationParts(d)))
         /\ StaysAt(d, e, "Task/Settings", SettingsElements(d))
         /\ ~RegistrationNeeded(d) => ExtOf(e.extensions, "Task/RegistrationInfo") = <<>>
<1> DEFINE n == NodeOf(WriteDefinition(d))
           p == "Task"
           q == "Task/RegistrationInfo"
           r == "Task/Settings"
           K == RootElements(d)
           L == FlattenSeq(RegistrationParts(d))
           M == SettingsElements(d)
           R == MergeExtensions(p, K, d.extensions)
           a == ExtensionsFor(n, p, RootNames)
           b == RegistrationExt(Child(n, "RegistrationInfo"))
           c == SettingsExt(Child(n, "Settings"))
<1>1. n.kids = Nodes(R) /\ RootFound(n, d)  BY RootRead
<1>2. Settled(d.extensions, p, K, a, R)
  <2>1. Menu(K, RootNames) /\ Carried(d.extensions, p, RootNames, S)
    BY RootMenu, DefinitionCarries
  <2> HIDE DEF n, K, R, p
  <2>2. R = MergeExtensions(p, K, d.extensions)  BY DEF R
  <2>3. QED  BY <1>1, <2>1, <2>2, Settling
<1>3. /\ RegistrationNeeded(d) => Settled(d.extensions, q, L, b, MergeExtensions(q, L, d.extensions))
      /\ ~RegistrationNeeded(d) => b = <<>> /\ ExtOf(d.extensions, q) = <<>>
  BY <1>1, RegistrationSettled DEF RootFound
<1>4. Settled(d.extensions, r, M, c, MergeExtensions(r, M, d.extensions))
  BY <1>1, SettingsSettled DEF RootFound
<1>5. AllOf(a, p) /\ AllOf(c, r)  BY <1>2, <1>4 DEF Settled, Ranks
<1>6. AllOf(b, q)
  <2> HIDE DEF b, q
  <2>1. CASE RegistrationNeeded(d)  BY <1>3, <2>1 DEF Settled, Ranks
  <2>2. CASE ~RegistrationNeeded(d)
    <3>1. Ranks(b, q)  BY <1>3, <2>2, NoneRank
    <3>2. QED  BY <3>1 DEF Ranks
  <2>3. QED  BY <2>1, <2>2
<1>7. e.extensions = ExtensionsOf(n)  BY DEF DefinitionOf
<1>8. ExtOf(e.extensions, p) = a /\ ExtOf(e.extensions, q) = b /\ ExtOf(e.extensions, r) = c
  BY <1>5, <1>6, <1>7, ByParent
<1> HIDE DEF a, b, c, n, K, L, M, p, q, r
<1>9. StaysAt(d, e, p, K)  BY <1>2, <1>8, SettledStays DEF R
<1>10. StaysAt(d, e, r, M)  BY <1>4, <1>8, SettledStays
<1>11. StaysAt(d, e, q, L)
  <2>1. CASE RegistrationNeeded(d)  BY <1>3, <1>8, <2>1, SettledStays
  <2>2. CASE ~RegistrationNeeded(d)  BY <1>3, <1>8, <2>2, NoneStays
  <2>3. QED  BY <2>1, <2>2
<1>12. ~RegistrationNeeded(d) => ExtOf(e.extensions, q) = <<>>  BY <1>3, <1>8
<1>13. QED  BY <1>9, <1>10, <1>11, <1>12 DEF K, L, M, p, q, r

\* What is read of an extension that stays.
LEMMA KeptThere ==
  ASSUME NEW d, NEW e, NEW p, NEW K, StaysAt(d, e, p, K), IsList(d.extensions),
         Rising(ExtOf(d.extensions, p))
  PROVE  /\ Kept(e, p) = Each(Kept(d, p), AsRead)
         /\ \A i \in DOMAIN PlacesOf(e, p) : PlacesOf(e, p)[i] <= PlacesOf(d, p)[i]
<1> DEFINE o == ExtOf(e.extensions, p)
           E == ExtOf(d.extensions, p)
<1>1. Where(e.extensions, LAMBDA x : x.parent = p) = o
      /\ Where(d.extensions, LAMBDA x : x.parent = p) = E
  BY WhereOf
<1>2. /\ Kept(e, p) = [i \in DOMAIN o |-> o[i].xml] /\ Kept(d, p) = [i \in DOMAIN E |-> E[i].xml]
      /\ PlacesOf(e, p) = [i \in DOMAIN o |-> o[i].ordinal]
      /\ PlacesOf(d, p) = [i \in DOMAIN E |-> E[i].ordinal]
  BY <1>1 DEF Kept, PlacesOf
<1>3. IsList(E)  BY OfParts
<1>4. Returned(o, ReadExt(E), Len(E))  BY DEF StaysAt
<1> DEFINE k == [i \in DOMAIN E |-> E[i].xml]
<1>4a. /\ DOMAIN k = DOMAIN E /\ \A i \in DOMAIN E : k[i] = E[i].xml
       /\ Each(k, AsRead) = [i \in DOMAIN k |-> AsRead(k[i])]
  BY DEF Each
<1> HIDE DEF o, E, k
<1>4b. \A i \in 1..Len(E) : ReadExt(E)[i].xml = AsRead(E[i].xml)
                            /\ ReadExt(E)[i].ordinal = E[i].ordinal
  BY <1>3, ReadExtParts, ReadFields
<1>5. IsList(o) /\ Len(o) = Len(E)
      /\ \A i \in 1..Len(E) : o[i].xml = AsRead(E[i].xml) /\ o[i].ordinal <= E[i].ordinal
  BY <1>4, <1>4b DEF Returned
<1>6. DOMAIN o = 1..Len(E) /\ DOMAIN E = 1..Len(E)  BY <1>3, <1>5, ListParts
<1>7. [i \in DOMAIN o |-> o[i].xml] = [i \in DOMAIN k |-> AsRead(k[i])]
  <2>1. DOMAIN o = DOMAIN k /\ \A i \in DOMAIN o : o[i].xml = AsRead(k[i])
    BY <1>4a, <1>5, <1>6
  <2>2. QED  BY <2>1
<1>8. \A i \in DOMAIN o : o[i].ordinal <= E[i].ordinal  BY <1>5, <1>6
<1>9. Kept(e, p) = Each(Kept(d, p), AsRead)  BY <1>2, <1>4a, <1>7 DEF k
<1>10. QED  BY <1>2, <1>6, <1>8, <1>9

\* The fields of a definition that was written and read.
LEMMA FieldsRead ==
  ASSUME NEW d, NEW S, IsDefinition(d, S), NEW n, NEW e, e = DefinitionOf(n),
         WithoutExtensions(e) = WithoutExtensions(Canonical(d))
  PROVE  /\ e.registration = [name \in DOMAIN d.registration |-> Texts(d.registration[name])]
         /\ e.triggers = Each(d.triggers, CanonicalTrigger)
         /\ e.actions = Each(d.actions, CanonicalAction)
         /\ e.principal = CanonicalPrincipal(d.principal)
         /\ e.settings = CanonicalSettings(d.settings)
         /\ e.data = Texts(d.data)
         /\ e.schema_version = ReadAttribute(d.schema_version)
<1> DEFINE x0 == ReadAttribute(d.schema_version)
           x1 == [name \in DOMAIN d.registration |-> Texts(d.registration[name])]
           x2 == CanonicalPrincipal(d.principal)
           x3 == CanonicalSettings(d.settings)
           x4 == Each(d.triggers, CanonicalTrigger)
           x5 == Texts(d.data)
           x6 == Each(d.actions, CanonicalAction)
           c == Canonical(d)
           none == <<>>
<1>1. d = [schema_version |-> d.schema_version, registration |-> d.registration,
           triggers |-> d.triggers, principal |-> d.principal, settings |-> d.settings,
           data |-> d.data, actions |-> d.actions, extensions |-> d.extensions]
  BY DEF IsDefinition
<1>2. \E y1, y2, y3, y4, y5, y6, y7, y8 :
        e = [schema_version |-> y1, registration |-> y2, triggers |-> y3, principal |-> y4,
             settings |-> y5, data |-> y6, actions |-> y7, extensions |-> y8]
  BY DEF DefinitionOf
<1>3. c = [d EXCEPT !.schema_version = x0, !.registration = x1, !.principal = x2, !.settings = x3, !.triggers = x4,
                    !.data = x5, !.actions = x6]
  BY DEF Canonical
<1>4. [e EXCEPT !.extensions = none] = [c EXCEPT !.extensions = none]
  BY DEF WithoutExtensions
<1> HIDE DEF x0, x1, x2, x3, x4, x5, x6, c, none
<1>5. PICK y1, y2, y3, y4, y5, y6, y7, y8 :
        e = [schema_version |-> y1, registration |-> y2, triggers |-> y3, principal |-> y4,
             settings |-> y5, data |-> y6, actions |-> y7, extensions |-> y8]
  BY <1>2
<1>6. [c EXCEPT !.extensions = none]
        = [schema_version |-> x0, registration |-> x1, triggers |-> x4,
           principal |-> x2, settings |-> x3, data |-> x5, actions |-> x6,
           extensions |-> none]
  <2>1. c = [schema_version |-> x0, registration |-> x1, triggers |-> x4,
             principal |-> x2, settings |-> x3, data |-> x5, actions |-> x6,
             extensions |-> d.extensions]
    BY <1>1, <1>3
  <2>2. QED  BY <2>1
<1>7. [e EXCEPT !.extensions = none]
        = [schema_version |-> y1, registration |-> y2, triggers |-> y3,
           principal |-> y4, settings |-> y5, data |-> y6, actions |-> y7,
           extensions |-> none]
  BY <1>5
<1>8. /\ y1 = x0 /\ y2 = x1 /\ y3 = x4 /\ y4 = x2 /\ y5 = x3 /\ y6 = x5 /\ y7 = x6
  BY <1>4, <1>6, <1>7
<1>9. QED  BY <1>5, <1>8 DEF x0, x1, x2, x3, x4, x5, x6

\* A registration with nothing to say has nothing to say when it is read.
LEMMA DefaultsRead ==
  ASSUME NEW r, IsRegistration(r), NEW q, q = [name \in DOMAIN r |-> Texts(r[name])]
  PROVE  q = DefaultRegistration <=> r = DefaultRegistration
<1> DEFINE N == ToSet(RegistrationTexts)
<1>1. r = [name \in N |-> r[name]] /\ \A name \in N : IsOption(r[name])  BY DEF IsRegistration
<1>2. DefaultRegistration = [name \in N |-> None]  BY DEF DefaultRegistration
<1>3. \A v : IsOption(v) => (Texts(v) = None <=> v = None)
  <2>1. ASSUME NEW v, IsOption(v)  PROVE Texts(v) = None <=> v = None
    <3> DEFINE g == Texts(v)
    <3>1. g = [i \in DOMAIN v |-> g[i]]  BY DEF Texts, Each
    <3> HIDE DEF g
    <3>2. g = None <=> v = None  BY <2>1, <3>1, OptionEach
    <3>3. QED  BY <3>2 DEF g
  <2>2. QED  BY <2>1
<1> HIDE DEF N
<1>4. \A name \in N : q[name] = None <=> r[name] = None
  <2>1. DOMAIN r = N  BY <1>1
  <2>2. \A name \in N : q[name] = Texts(r[name])  BY <2>1
  <2>3. QED  BY <1>1, <1>3, <2>2
<1>5. q = [name \in N |-> q[name]]
  <2>1. DOMAIN r = N  BY <1>1
  <2>2. QED  BY <2>1
<1>6. QED  BY <1>1, <1>2, <1>4, <1>5

\* The registration is written again if it was written.
LEMMA NeededAgain ==
  ASSUME NEW d, NEW S, IsDefinition(d, S), NEW e, IsList(e.extensions),
         NEW K, StaysAt(d, e, "Task/RegistrationInfo", K),
         e.registration = [name \in DOMAIN d.registration |-> Texts(d.registration[name])],
         ~RegistrationNeeded(d) => ExtOf(e.extensions, "Task/RegistrationInfo") = <<>>
  PROVE  RegistrationNeeded(e) <=> RegistrationNeeded(d)
<1> DEFINE p == "Task/RegistrationInfo"
<1>1. \A x : IsList(x.extensions) =>
               (HasExtensions(x, p) <=> ExtOf(x.extensions, p) # <<>>)
  <2>1. ASSUME NEW x, IsList(x.extensions)
        PROVE  HasExtensions(x, p) <=> ExtOf(x.extensions, p) # <<>>
    <3> DEFINE E == x.extensions
               o == ExtOf(E, p)
    <3>1. HasExtensions(x, p) <=> \E y \in ToSet(E) : y.parent = p
      BY <2>1, ListParts DEF HasExtensions, ToSet
    <3>2. IsList(E)  BY <2>1
    <3> HIDE DEF p, E
    <3>3. IsList(o) /\ \A y : y \in ToSet(o) <=> y \in ToSet(E) /\ y.parent = p
      BY <3>2, OfParts
    <3> HIDE DEF o
    <3>4. o # <<>> <=> ToSet(o) # {}
      <4>1. CASE o = <<>>  BY <4>1 DEF ToSet
      <4>2. CASE o # <<>>
        <5>1. Len(o) \in Nat /\ \A i \in 1..Len(o) : o[i] \in ToSet(o)  BY <3>3, ListParts
        <5>2. Len(o) # 0  BY <3>3, <4>2 DEF IsList
        <5>3. 1 \in 1..Len(o)  BY <5>1, <5>2
        <5>4. QED  BY <4>2, <5>1, <5>3
      <4>3. QED  BY <4>1, <4>2
    <3>5. QED  BY <3>1, <3>3, <3>4 DEF o, E, p
  <2>2. QED  BY <2>1
<1>2. HasExtensions(e, p) <=> ExtOf(e.extensions, p) # <<>>  BY <1>1
<1>3. HasExtensions(d, p) <=> ExtOf(d.extensions, p) # <<>>  BY <1>1 DEF IsDefinition
<1>4. e.registration = DefaultRegistration <=> d.registration = DefaultRegistration
  BY DefaultsRead DEF IsDefinition
<1>5. ExtOf(e.extensions, p) = <<>> => ExtOf(d.extensions, p) = <<>>  BY DEF StaysAt
<1>6. QED  BY <1>2, <1>3, <1>4, <1>5 DEF RegistrationNeeded

LEMMA RootForm ==
  ASSUME NEW d
  PROVE  RootElements(d) = FlattenSeq(RootParts(d))
<1>1. Each(d.triggers, WriteTrigger) = TriggerList(d.triggers)  BY DEF Each, TriggerList
<1>2. QED
  BY <1>1 DEF RootElements, RootParts, RegistrationOut, TriggersOut, PrincipalOut, SettingsOut,
     DataOut, ActionsOut

LEMMA RegistrationForm2 ==
  ASSUME NEW d
  PROVE  WriteRegistration(d)
           = Plain("RegistrationInfo",
                   MergeExtensions("Task/RegistrationInfo", FlattenSeq(RegistrationParts(d)),
                                   d.extensions))
<1>1. Each(RegistrationTexts, LAMBDA name : OptionalElement(name, d.registration[name]))
        = RegistrationParts(d)
  BY DEF Each, RegistrationParts
<1>2. QED  BY <1>1 DEF WriteRegistration

LEMMA TriggersAgain ==
  ASSUME NEW ts, IsList(ts), NEW S, \A t \in ToSet(ts) : IsTrigger(t, S),
         \A i \in DOMAIN ts : ~RespacedTrigger(ts[i]),
         NEW again, again = Each(ts, CanonicalTrigger)
  PROVE  TriggerList(again) = TriggerList(ts)
<1>1. DOMAIN again = DOMAIN ts
      /\ \A i \in DOMAIN ts : again[i] = CanonicalTrigger(ts[i])
  BY DEF Each
<1>2. \A i \in DOMAIN ts : WriteTrigger(again[i]) = WriteTrigger(ts[i])
  <2>1. ASSUME NEW i \in DOMAIN ts
        PROVE  WriteTrigger(again[i]) = WriteTrigger(ts[i])
    <3>1. IsTrigger(ts[i], S)  BY DEF ToSet
    <3>2. TriggerAgain(ts[i])  BY <3>1, EveryTriggerAgain
    <3>3. QED  BY <1>1, <3>2 DEF TriggerAgain
  <2>2. QED  BY <2>1
<1>3. QED  BY <1>1, <1>2 DEF TriggerList

LEMMA ActionsAgain ==
  ASSUME NEW actions, IsList(actions), NEW S, \A a \in ToSet(actions) : IsAction(a, S),
         \A i \in DOMAIN actions : ~RespacedAction(actions[i]),
         NEW again, again = Each(actions, CanonicalAction)
  PROVE  Each(again, WriteAction) = Each(actions, WriteAction)
<1>1. DOMAIN again = DOMAIN actions
      /\ \A i \in DOMAIN actions : again[i] = CanonicalAction(actions[i])
  BY DEF Each
<1>2. \A i \in DOMAIN actions : WriteAction(again[i]) = WriteAction(actions[i])
  <2>1. ASSUME NEW i \in DOMAIN actions
        PROVE  WriteAction(again[i]) = WriteAction(actions[i])
    <3>1. IsAction(actions[i], S)  BY DEF ToSet
    <3>2. ActionAgain(actions[i])  BY <3>1, EveryActionAgain
    <3>3. QED  BY <1>1, <3>2 DEF ActionAgain
  <2>2. QED  BY <2>1
<1>3. QED  BY <1>1, <1>2 DEF Each

\* A definition that was written and read is written as it was, unless reading
\* respells or respaces something in it.
LEMMA WrittenAgain ==
  ASSUME NEW d, NEW S, Hereditary(S), IsDefinition(d, S), Valid(d),
         ~Respelled(d.principal.identity), ~Respaced(d),
         NEW n, n = NodeOf(WriteDefinition(d)), NEW e, e = DefinitionOf(n), IsList(e.extensions)
  PROVE  WriteDefinition(e) = WriteDefinition(d)
<1> DEFINE p == "Task"
           q == "Task/RegistrationInfo"
           r == "Task/Settings"
           L == FlattenSeq(RegistrationParts(d))
           M == SettingsElements(d)
           K == RootElements(d)
<1>1. /\ StaysAt(d, e, p, K) /\ StaysAt(d, e, q, L) /\ StaysAt(d, e, r, M)
      /\ ~RegistrationNeeded(d) => ExtOf(e.extensions, q) = <<>>
  BY AllStay
<1>2. WithoutExtensions(e) = WithoutExtensions(Canonical(d))
  BY EveryDefinitionKept DEF DefinitionKept
<1>3. /\ e.registration = [name \in DOMAIN d.registration |-> Texts(d.registration[name])]
      /\ e.triggers = Each(d.triggers, CanonicalTrigger)
      /\ e.actions = Each(d.actions, CanonicalAction)
      /\ e.principal = CanonicalPrincipal(d.principal)
      /\ e.settings = CanonicalSettings(d.settings)
      /\ e.data = Texts(d.data)
      /\ e.schema_version = ReadAttribute(d.schema_version)
  BY <1>2, FieldsRead
<1>3a. /\ ReadAttribute(d.schema_version) = d.schema_version
       /\ ReadAttribute(d.principal.id) = d.principal.id
       /\ \A i \in DOMAIN d.triggers : ~RespacedTrigger(d.triggers[i])
       /\ \A i \in DOMAIN d.actions : ~RespacedAction(d.actions[i])
       /\ Still(d.extensions)
  BY DEF Respaced, Still
<1>4. RegistrationOut(e) = RegistrationOut(d)
  <2>1. RegistrationNeeded(e) <=> RegistrationNeeded(d)  BY <1>1, <1>3, NeededAgain
  <2>2. RegistrationParts(e) = RegistrationParts(d)
    BY <1>3, RegistrationAgain DEF IsDefinition
  <2>3. MergeExtensions(q, L, e.extensions) = MergeExtensions(q, L, d.extensions)
    BY <1>1, <1>3a DEF StaysAt
  <2>4. WriteRegistration(e) = WriteRegistration(d)  BY <2>2, <2>3, RegistrationForm2
  <2>5. QED  BY <2>1, <2>4 DEF RegistrationOut
<1>5. TriggersOut(e) = TriggersOut(d)
  <2>1. TriggerList(e.triggers) = TriggerList(d.triggers)
    BY <1>3, <1>3a, TriggersAgain DEF IsDefinition
  <2>2. QED  BY <2>1 DEF TriggersOut
<1>6. PrincipalOut(e) = PrincipalOut(d) /\ e.principal.id = d.principal.id
  BY <1>3, <1>3a, PrincipalAgain DEF PrincipalOut, IsDefinition
<1>7. SettingsOut(e) = SettingsOut(d)
  <2>1. SettingsElements(e) = M  BY <1>3, <1>3a, SettingsAgain DEF IsDefinition
  <2>2. MergeExtensions(r, M, e.extensions) = MergeExtensions(r, M, d.extensions)
    BY <1>1, <1>3a DEF StaysAt
  <2>3. QED  BY <2>1, <2>2 DEF SettingsOut, WriteSettings
<1>8. DataOut(e) = DataOut(d)  BY <1>3, OptionAgain DEF DataOut
<1>9. ActionsOut(e) = ActionsOut(d)
  <2>1. Each(e.actions, WriteAction) = Each(d.actions, WriteAction)
    BY <1>3, <1>3a, ActionsAgain DEF IsDefinition
  <2>2. QED  BY <1>6, <2>1 DEF ActionsOut, WriteActions
<1>10. RootElements(e) = K
  <2>1. RootParts(e) = RootParts(d)  BY <1>4, <1>5, <1>6, <1>7, <1>8, <1>9 DEF RootParts
  <2>2. QED  BY <2>1, RootForm
<1>11. MergeExtensions(p, K, e.extensions) = MergeExtensions(p, K, d.extensions)
  BY <1>1, <1>3a DEF StaysAt
<1>12. QED  BY <1>3, <1>3a, <1>10, <1>11 DEF WriteDefinition

\* The extensions of a definition that was written and read are what reading
\* makes of them, in the same order and not further back; the places rise.
LEMMA ExtensionsStay ==
  ASSUME NEW d, NEW S, Hereditary(S), IsDefinition(d, S), Valid(d),
         NEW n, n = NodeOf(WriteDefinition(d)), NEW e, e = DefinitionOf(n),
         Ranked(d)
  PROVE  \A p \in Parents :
           /\ Kept(e, p) = Each(Kept(d, p), AsRead)
           /\ \A i \in DOMAIN PlacesOf(e, p) : PlacesOf(e, p)[i] <= PlacesOf(d, p)[i]
<1>1. /\ StaysAt(d, e, "Task", RootElements(d))
      /\ StaysAt(d, e, "Task/RegistrationInfo", FlattenSeq(RegistrationParts(d)))
      /\ StaysAt(d, e, "Task/Settings", SettingsElements(d))
  BY AllStay
<1>2. IsList(d.extensions)  BY DEF IsDefinition
<1>3. \A p \in Parents : Rising(ExtOf(d.extensions, p))  BY DEF Ranked
<1>4. ASSUME NEW p \in Parents, NEW K, StaysAt(d, e, p, K)
      PROVE  /\ Kept(e, p) = Each(Kept(d, p), AsRead)
             /\ \A i \in DOMAIN PlacesOf(e, p) : PlacesOf(e, p)[i] <= PlacesOf(d, p)[i]
  BY <1>2, <1>3, <1>4, KeptThere
<1>5. QED  BY <1>1, <1>4 DEF Parents

-----------------------------------------------------------------------------
(***************************************************************************)
(* Extensions and the second document, on every way there.                   *)
(***************************************************************************)
\* What was written so far, and of what; a document that is not ours gives a
\* definition whose extensions stand in the order of their places.
WritesOf(f, ds, es, st, w) ==
  /\ st = "unbuilt" => f = None
  /\ f # None /\ Len(es) >= 1 => Ranked(es[1])
  /\ w = 1 => Len(es) >= 1 /\ Valid(es[1]) /\ ds[Len(ds)] = WriteDefinition(es[1])
  /\ w = 2 => /\ Len(es) = 2
              /\ ds[Len(ds) - 1] = WriteDefinition(es[1])
              /\ ds[Len(ds)] = WriteDefinition(es[2])
  /\ Len(es) = 2 => Valid(es[1]) /\ es[2] = DefinitionOf(NodeOf(WriteDefinition(es[1])))
  /\ st = "done" => w = 2

Writes == WritesOf(foreign, docs, defs, stage, Written)

ExtensionsInv == TaskInv /\ Writes

LEMMA WritesBegin == TaskInv /\ InitTask => Writes
<1> SUFFICES ASSUME TaskInv, InitTask PROVE Writes  OBVIOUS
<1>1. Stages  BY DEF TaskInv
<1>2. Len(<<>>) = 0  OBVIOUS
<1>3. ASSUME stage = "typed", foreign = None  PROVE Writes
  <2>1. Len(defs) = 1 /\ Written = 0
    <3>1. CASE docs = <<>>  BY <1>1, <1>2, <1>3, <3>1 DEF Stages, Written, None
    <3>2. QED  BY <1>3, <3>1 DEF InitTask, Init
  <2>2. QED  BY <1>3, <2>1 DEF Writes, WritesOf
<1>4. ASSUME stage \in {"bytes", "unbuilt"}, stage = "unbuilt" => foreign = None
      PROVE  Writes
  <2>1. Len(defs) = 0 /\ Written = 0  BY <1>1, <1>2, <1>4 DEF Stages
  <2>2. QED  BY <1>4, <2>1 DEF Writes, WritesOf
<1>5. CASE Unscheduled /\ Init  BY <1>3, <1>4, <1>5 DEF Init
<1>6. CASE stage = "unbuilt" /\ foreign = None  BY <1>4, <1>6
<1>7. QED  BY <1>5, <1>6 DEF InitTask

LEMMA WritesStay ==
  ASSUME Writes, UNCHANGED <<foreign, defs, docs>>, stage' \notin {"done", "unbuilt"} \/ stage' = stage
  PROVE  Writes'
<1>1. Written' = Written  BY DEF Written
<1>2. WritesOf(foreign, docs, defs, stage', Written)  BY DEF Writes, WritesOf
<1>3. QED  BY <1>1, <1>2 DEF Writes

LEMMA WritesBuilt == TaskInv /\ Writes /\ Build => Writes'
<1> SUFFICES ASSUME TaskInv, Writes, Build PROVE Writes'  OBVIOUS
<1>1. PICK program \in Programs :
        /\ stage = "unbuilt" /\ pc = "compiled"
        /\ IF Buildable(Assembled(program))
           THEN defs' = <<Assembled(program)>> /\ stage' = "typed"
           ELSE stage' = "unbuildable" /\ UNCHANGED defs
        /\ UNCHANGED <<foreign, docs, readerVars, scheduleVars>>
  BY DEF Build
<1>2. CASE stage' = "unbuildable" /\ UNCHANGED defs  BY <1>1, <1>2, WritesStay
<1> DEFINE built == Assembled(program)
<1>3. CASE defs' = <<built>> /\ stage' = "typed"
  <2> HIDE DEF built
  <2>1. Len(defs') = 1  BY <1>3, One
  <2>2. Written' = 0 /\ foreign' = None
    <3>1. Written = 0 /\ foreign = None
      BY <1>1 DEF TaskInv, Stages, Writes, WritesOf
    <3>2. QED  BY <1>1, <3>1 DEF Written
  <2>3. QED  BY <1>3, <2>1, <2>2 DEF Writes, WritesOf
<1>4. QED  BY <1>1, <1>2, <1>3

LEMMA WritesOn == TaskInv /\ Writes /\ Serialize => Writes'
<1> SUFFICES ASSUME TaskInv, Writes, Serialize PROVE Writes'  OBVIOUS
<1>1. stage = "typed" /\ UNCHANGED <<defs, foreign>>  BY DEF Serialize
<1>2. /\ IsList(defs) /\ Len(defs) = Written + 1 /\ Written \in {0, 1}
      /\ IsList(docs) /\ IsList(foreign)
  BY <1>1 DEF TaskInv, Stages
<1> DEFINE d == defs[Len(defs)]
<1>3. Last(defs) = d  BY DEF Last
<1>4. CASE ~Valid(d)
  <2>1. stage' = "invalid" /\ UNCHANGED docs  BY <1>3, <1>4 DEF Serialize
  <2>2. QED  BY <1>1, <2>1, WritesStay
<1>5. CASE Valid(d)
  <2> DEFINE document == WriteDefinition(d)
             stage1 == IF Written = 0 THEN "reading" ELSE "done"
  <2>1. docs' = Append(docs, document) /\ stage' = stage1
    BY <1>3, <1>5 DEF Serialize
  <2> HIDE DEF document
  <2>2. /\ IsList(docs') /\ Len(docs') = Len(docs) + 1
        /\ Len(docs) \in Nat
        /\ \A i \in 1..Len(docs) : docs'[i] = docs[i]
        /\ docs'[Len(docs) + 1] = document
    BY <1>2, <2>1, Longer
  <2>3. Len(foreign) \in Nat  BY <1>2, ListParts
  <2>4. Written' = Written + 1  BY <1>1, <2>2, <2>3 DEF Written
  <2>5. docs'[Len(docs')] = document  BY <2>2
  <2>6. CASE Written = 0
    <3>1. Len(defs) = 1 /\ defs[1] = d /\ stage' = "reading"  BY <1>2, <2>1, <2>6
    <3>2. Written' = 1  BY <2>4, <2>6
    <3>3. docs'[Len(docs')] = WriteDefinition(defs[1]) /\ Valid(defs[1])
      BY <1>5, <2>5, <3>1 DEF document
    <3>4. foreign # None => Ranked(defs[1])  BY <3>1 DEF Writes, WritesOf
    <3>5. WritesOf(foreign, docs', defs, stage', 1)
      BY <3>1, <3>3, <3>4 DEF WritesOf
    <3>6. QED  BY <1>1, <3>2, <3>5 DEF Writes
  <2>7. CASE Written = 1
    <3>1. Len(defs) = 2 /\ defs[2] = d /\ stage' = "done"  BY <1>2, <2>1, <2>7
    <3>2. Written' = 2  BY <2>4, <2>7
    <3>3. docs'[Len(docs')] = WriteDefinition(defs[2])
      BY <2>5, <3>1 DEF document
    <3>4. docs[Len(docs)] = WriteDefinition(defs[1])  BY <2>7 DEF Writes, WritesOf
    <3>5. docs'[Len(docs') - 1] = docs[Len(docs)]
      <4>1. Len(docs) >= 1  BY <2>2, <2>3, <2>7 DEF Written
      <4>2. Len(docs') - 1 = Len(docs)  BY <2>2
      <4>3. QED  BY <2>2, <4>1, <4>2
    <3>6. WritesOf(foreign, docs', defs, stage', 2)
      BY <3>1, <3>3, <3>4, <3>5 DEF Writes, WritesOf
    <3>7. QED  BY <1>1, <3>2, <3>6 DEF Writes
  <2>8. QED  BY <1>2, <2>6, <2>7
<1>6. QED  BY <1>4, <1>5

\* The definition that is read again is read from the document as it was written.
LEMMA ReadsWritten ==
  ASSUME Grows, outcome = "accepted", NEW d, Sourced(d), Valid(d),
         text = WriteDefinition(d)
  PROVE  root[1] = NodeOf(WriteDefinition(d))
<1>1. PICK S : Hereditary(S) /\ IsDefinition(d, S)  BY DEF Sourced
<1>2. DefinitionKept(d)  BY <1>1, EveryDefinitionKept
<1>3. Reads(text, NodeOf(text))  BY <1>2, ReadsIt DEF DefinitionKept
<1>4. root = <<NodeOf(text)>>  BY <1>3, ReadAsWritten
<1>5. QED  BY <1>4

LEMMA UnderstoodRanked ==
  ASSUME Grows, outcome = "accepted"
  PROVE  Ranked(DefinitionOf(root[1]))
<1>1. PICK S : Hereditary(S) /\ \E n \in S : root = <<n>>  BY RootStands
<1>2. PICK n \in S : root = <<n>>  BY <1>1
<1>3. root[1] = n  BY <1>2
<1>4. Grown(n, S)  BY <1>1, <1>2 DEF Grown, Hereditary
<1>5. QED  BY <1>3, <1>4, ReadRanked

LEMMA WritesUnderstood == TaskInv /\ Writes /\ Understand => Writes'
<1> SUFFICES ASSUME TaskInv, Writes, Understand PROVE Writes'  OBVIOUS
<1>1. Grows /\ Stages  BY DEF TaskInv
<1>2. /\ stage = "reading" /\ outcome = "accepted"
      /\ UNCHANGED <<foreign, docs>>
  BY DEF Understand
<1>3. /\ IsList(defs) /\ Len(defs) = Written /\ Written \in {0, 1}
      /\ \A i \in DOMAIN defs : Sourced(defs[i])
      /\ Written = 1 => Valid(defs[1]) /\ text = WriteDefinition(defs[1])
  BY <1>1, <1>2 DEF Stages
<1>4. DOMAIN defs = 1..Len(defs)  BY <1>3, ListParts
<1> DEFINE e == DefinitionOf(root[1])
<1>5. Written' = Written  BY <1>2 DEF Written
<1>6. CASE ~Readable(root[1])
  <2>1. stage' = "untyped" /\ UNCHANGED defs  BY <1>6 DEF Understand
  <2>2. QED  BY <1>2, <2>1, WritesStay
<1>7. CASE Readable(root[1])
  <2>1. defs' = Append(defs, e) /\ stage' = "typed"  BY <1>7 DEF Understand
  <2>2. Ranked(e)  BY <1>1, <1>2, UnderstoodRanked
  <2>3. Written = 1 => e = DefinitionOf(NodeOf(WriteDefinition(defs[1])))
    <3>1. SUFFICES ASSUME Written = 1
                   PROVE  root[1] = NodeOf(WriteDefinition(defs[1]))
      OBVIOUS
    <3>2. Sourced(defs[1]) /\ Valid(defs[1]) /\ text = WriteDefinition(defs[1])
      BY <1>3, <1>4, <3>1
    <3>3. QED  BY <1>1, <1>2, <3>2, ReadsWritten
  <2> HIDE DEF e
  <2>4. /\ Len(defs') = Len(defs) + 1
        /\ \A i \in 1..Len(defs) : defs'[i] = defs[i]
        /\ defs'[Len(defs) + 1] = e
    BY <1>3, <2>1, Longer
  <2>5. CASE Written = 0
    <3>1. Len(defs') = 1 /\ defs'[1] = e  BY <1>3, <2>4, <2>5
    <3>2. WritesOf(foreign, docs, defs', stage', 0)
      BY <2>1, <2>2, <3>1 DEF WritesOf
    <3>3. QED  BY <1>2, <1>5, <2>5, <3>2 DEF Writes
  <2>6. CASE Written = 1
    <3>1. Len(defs') = 2 /\ defs'[1] = defs[1] /\ defs'[2] = e
      BY <1>3, <2>4, <2>6
    <3>2. /\ foreign # None => Ranked(defs[1])
          /\ docs[Len(docs)] = WriteDefinition(defs[1])
      BY <1>3, <2>6 DEF Writes, WritesOf
    <3>3. WritesOf(foreign, docs, defs', stage', 1)
      BY <1>3, <2>1, <2>3, <2>6, <3>1, <3>2 DEF WritesOf
    <3>4. QED  BY <1>2, <1>5, <2>6, <3>3 DEF Writes
  <2>7. QED  BY <1>3, <2>5, <2>6
<1>8. QED  BY <1>6, <1>7

LEMMA WritesKept ==
  TaskInv /\ Writes /\ [NextTask]_<<vars, scheduleVars>> => Writes'
<1> SUFFICES ASSUME TaskInv, Writes, [NextTask]_<<vars, scheduleVars>> PROVE Writes'
  OBVIOUS
<1>1. CASE ScheduleStep  BY <1>1, WritesStay DEF ScheduleStep, vars
<1>2. CASE Build  BY <1>2, WritesBuilt
<1>3. CASE Serialize  BY <1>3, WritesOn
<1>4. CASE Understand  BY <1>4, WritesUnderstood
<1>5. CASE Decode  BY <1>5, WritesStay DEF Decode
<1>6. CASE ReadOn  BY <1>6, WritesStay DEF ReadOn
<1>7. CASE Retain  BY <1>7, WritesStay DEF Retain
<1>8. CASE Reject  BY <1>8, WritesStay DEF Reject
<1>9. CASE UNCHANGED <<vars, scheduleVars>>  BY <1>9, WritesStay DEF vars
<1>10. QED
  BY <1>1, <1>2, <1>3, <1>4, <1>5, <1>6, <1>7, <1>8, <1>9 DEF NextTask, CodecStep, Next

LEMMA KeptAsWritten == TaskInv /\ Writes => ExtensionsKept
<1> SUFFICES ASSUME TaskInv, Writes PROVE ExtensionsKept  OBVIOUS
<1>1. IsList(defs) /\ \A i \in DOMAIN defs : Sourced(defs[i])  BY DEF TaskInv, Stages
<1>2. DOMAIN defs = 1..Len(defs)  BY <1>1, ListParts
<1>3. ASSUME Len(defs) = 2
      PROVE  /\ Valid(defs[1]) /\ defs[2] = DefinitionOf(NodeOf(WriteDefinition(defs[1])))
             /\ \E S : Hereditary(S) /\ IsDefinition(defs[1], S)
             /\ IsList(defs[2].extensions)
  <2>1. Sourced(defs[1]) /\ Sourced(defs[2])  BY <1>1, <1>2, <1>3
  <2>2. PICK U : IsDefinition(defs[2], U)  BY <2>1 DEF Sourced
  <2>3. IsList(defs[2].extensions)  BY <2>2 DEF IsDefinition
  <2>4. QED  BY <1>3, <2>1, <2>3 DEF Sourced, Writes, WritesOf
<1>4. ASSUME foreign # None, Len(defs) = 2
      PROVE  \A p \in Parents :
               /\ Kept(defs[2], p) = Each(Kept(defs[1], p), AsRead)
               /\ \A i \in DOMAIN PlacesOf(defs[2], p) :
                    PlacesOf(defs[2], p)[i] <= PlacesOf(defs[1], p)[i]
  <2>1. PICK S : Hereditary(S) /\ IsDefinition(defs[1], S)  BY <1>3, <1>4
  <2>2. Ranked(defs[1])  BY <1>4 DEF Writes, WritesOf
  <2>3. QED  BY <1>3, <1>4, <2>1, <2>2, ExtensionsStay
<1>5. ASSUME stage = "done", ~Respelled(defs[1].principal.identity), ~Respaced(defs[1])
      PROVE  docs[Len(docs)] = docs[Len(docs) - 1]
  <2>1. /\ Len(defs) = 2
        /\ docs[Len(docs) - 1] = WriteDefinition(defs[1])
        /\ docs[Len(docs)] = WriteDefinition(defs[2])
    BY <1>5 DEF Writes, WritesOf
  <2>2. PICK S : Hereditary(S) /\ IsDefinition(defs[1], S)  BY <1>3, <2>1
  <2>3. WriteDefinition(defs[2]) = WriteDefinition(defs[1])
    BY <1>3, <1>5, <2>1, <2>2, WrittenAgain
  <2>4. QED  BY <2>1, <2>3
<1>6. QED  BY <1>4, <1>5 DEF ExtensionsKept, Parents

\* What a foreign document holds beyond the known elements is kept as reading
\* makes it, in its order and never further back; and what was written, read
\* and written again is the same document, unless its user is another spelling
\* of a built-in account or an attribute holds a tab or a line end.
THEOREM ExtensionsStayInPlace == SpecTask => []ExtensionsKept
<1>1. InitTask => ExtensionsInv  BY TaskBegins, WritesBegin DEF ExtensionsInv
<1>2. ExtensionsInv /\ [NextTask]_<<vars, scheduleVars>> => ExtensionsInv'
  <2>1. TaskInv /\ [NextTask]_<<vars, scheduleVars>> => TaskInv'
    BY ScheduleStepKeeps, BuildKeeps, CodecKeeps, NothingKeeps DEF NextTask
  <2>2. QED  BY <2>1, WritesKept DEF ExtensionsInv
<1>3. ExtensionsInv => ExtensionsKept  BY KeptAsWritten DEF ExtensionsInv
<1>4. QED  BY <1>1, <1>2, <1>3, PTL DEF SpecTask

-----------------------------------------------------------------------------
(***************************************************************************)
(* Conditions: what a document states of them, and what is stated after it   *)
(* was understood and written.                                               *)
(***************************************************************************)
\* A condition of the settings, in an element that stands for a task: the text
\* of the first element of this name, or the default of the schema.
Condition(task, name) ==
  LET settings == Child(task, "Settings")
  IN IF settings = None \/ ~Has(settings[1], name) THEN name \in SchemaTrue
     ELSE TextOf(settings[1], name) \in {"true", "1"}

LEMMA ChildIs ==
  ASSUME NEW node, NEW name
  PROVE  Child(node, name) = None \/ \E x : Child(node, name) = <<x>>
BY DEF Child, None, Some

LEMMA NothingHolds ==
  ASSUME NEW name
  PROVE  Child(Nothing, name) = None
<1>1. Nothing.kids = <<>>  BY DEF Nothing, Node, Tag
<1>2. QED  BY <1>1 DEF Child

LEMMA BoolIs ==
  ASSUME NEW node, NEW name, NEW default
  PROVE  BoolOf(node, name, default)
           = IF Has(node, name) THEN TextOf(node, name) \in {"true", "1"} ELSE default
<1> DEFINE c == Child(node, name)
           t == ChildText(node, name)
           b == Each(t, LAMBDA x : x \in {"true", "1"})
<1>1. BoolOf(node, name, default) = OrElse(b, default)  BY DEF BoolOf
<1>2. t = [i \in DOMAIN c |-> c[i].text] /\ b = [i \in DOMAIN t |-> t[i] \in {"true", "1"}]
  BY DEF ChildText, Each
<1>3. CASE c = None
  <2>1. DOMAIN c = {}  BY <1>3 DEF None
  <2>2. b = <<>>  BY <1>2, <2>1
  <2>3. QED  BY <1>1, <1>3, <2>2 DEF OrElse, None, Has
<1>4. ASSUME NEW x, c = <<x>>  PROVE BoolOf(node, name, default) = (x.text \in {"true", "1"})
  <2>1. DOMAIN c = {1} /\ c[1] = x  BY <1>4
  <2> HIDE DEF c, t, b
  <2>2. DOMAIN b = {1} /\ b[1] = (x.text \in {"true", "1"})  BY <1>2, <2>1
  <2>3. b # <<>>  BY <2>2
  <2>4. QED  BY <1>1, <2>2, <2>3 DEF OrElse, None
<1>5. ASSUME NEW x, c = <<x>>
      PROVE  Has(node, name) /\ TextOf(node, name) = x.text
  <2>1. c # <<>> /\ c[1] = x  BY <1>5
  <2>2. QED  BY <2>1 DEF Has, TextOf, None
<1>6. c = None \/ \E x : c = <<x>>  BY ChildIs
<1>7. QED  BY <1>3, <1>4, <1>5, <1>6 DEF Has

\* The settings that definition_from_node reads.
SettingsNode(task) == OrElse(Child(task, "Settings"), Nothing)

LEMMA BoolTyped ==
  ASSUME NEW node, NEW name, NEW default \in BOOLEAN
  PROVE  BoolOf(node, name, default) \in BOOLEAN
<1>1. CASE Has(node, name)
  <2>1. BoolOf(node, name, default) = (TextOf(node, name) \in {"true", "1"})
    BY <1>1, BoolIs
  <2>2. QED  BY <2>1
<1>2. CASE ~Has(node, name)
  <2>1. BoolOf(node, name, default) = default  BY <1>2, BoolIs
  <2>2. QED  BY <2>1
<1>3. QED  BY <1>1, <1>2

LEMMA ConditionIs ==
  ASSUME NEW n, NEW name, NEW default \in BOOLEAN, default <=> name \in SchemaTrue
  PROVE  BoolOf(SettingsNode(n), name, default) <=> Condition(n, name)
<1> DEFINE c == Child(n, "Settings")
<1>1. CASE c = None
  <2>1. SettingsNode(n) = Nothing  BY <1>1 DEF SettingsNode, OrElse
  <2>2. ~Has(Nothing, name)  BY NothingHolds DEF Has
  <2>3. Condition(n, name) <=> name \in SchemaTrue  BY <1>1 DEF Condition
  <2>4. BoolOf(Nothing, name, default) = default  BY <2>2, BoolIs
  <2>5. QED  BY <2>1, <2>3, <2>4
<1>2. CASE c # None
  <2>1. SettingsNode(n) = c[1]  BY <1>2 DEF SettingsNode, OrElse
  <2>2. CASE Has(c[1], name)
    <3>1. BoolOf(c[1], name, default) = (TextOf(c[1], name) \in {"true", "1"})
      BY <2>2, BoolIs
    <3>2. Condition(n, name) <=> TextOf(c[1], name) \in {"true", "1"}
      BY <1>2, <2>2 DEF Condition
    <3>3. QED  BY <2>1, <3>1, <3>2
  <2>3. CASE ~Has(c[1], name)
    <3>1. BoolOf(c[1], name, default) = default  BY <2>3, BoolIs
    <3>2. Condition(n, name) <=> name \in SchemaTrue  BY <1>2, <2>3 DEF Condition
    <3>3. QED  BY <2>1, <3>1, <3>2
  <2>4. QED  BY <2>2, <2>3
<1>3. QED  BY <1>1, <1>2

\* The defaults that parse_settings takes are those of the schema.
LEMMA AbsentIsSchema ==
  ASSUME NEW name \in DOMAIN DefaultFlags
  PROVE  /\ DOMAIN AbsentFlags = DOMAIN DefaultFlags
         /\ AbsentFlags[name] \in BOOLEAN
         /\ AbsentFlags[name] <=> name \in SchemaTrue
<1>1. DOMAIN AbsentFlags = DOMAIN DefaultFlags  BY SettingsNames
<1> DEFINE f == DefaultFlags
           last == "UseUnifiedSchedulingEngine"
<1>2. f[name] \in BOOLEAN /\ (f[name] <=> name \in SchemaTrue \union {last})
  <2> DEFINE off == {"StartWhenAvailable", "WakeToRun", "Hidden",
                     "DisallowStartOnRemoteAppSession", "Volatile"}
  <2>1. \A x \in SchemaTrue \union {last} : f[x] = TRUE
    BY DEF DefaultFlags, SchemaTrue
  <2>2. \A x \in off : f[x] = FALSE /\ x \notin SchemaTrue \union {last}
    BY DEF DefaultFlags, SchemaTrue
  <2>3. name \in SchemaTrue \union {last} \union off  BY DEF DefaultFlags, SchemaTrue
  <2> HIDE DEF f, last, off
  <2>4. CASE name \in SchemaTrue \union {last}  BY <2>1, <2>4
  <2>5. CASE name \in off  BY <2>2, <2>5
  <2>6. QED  BY <2>3, <2>4, <2>5
<1>3. AbsentFlags = [f EXCEPT ![last] = FALSE]  BY DEF AbsentFlags
<1>4. last \notin SchemaTrue  BY DEF SchemaTrue
<1> HIDE DEF f, last
<1>5. CASE name = last
  <2>1. AbsentFlags[name] = FALSE  BY <1>3, <1>5 DEF f
  <2>2. QED  BY <1>1, <1>4, <1>5, <2>1
<1>6. CASE name # last
  <2>1. AbsentFlags[name] = f[name]  BY <1>3, <1>6 DEF f
  <2>2. QED  BY <1>1, <1>2, <1>6, <2>1
<1>7. QED  BY <1>5, <1>6

\* The flags among the conditions.
LEMMA FlagIs ==
  ASSUME NEW n, NEW name \in DOMAIN DefaultFlags
  PROVE  DefinitionOf(n).settings.flags[name] <=> Condition(n, name)
<1> DEFINE s == SettingsNode(n)
           a == AbsentFlags[name]
<1>1. DefinitionOf(n).settings = SettingsOf(s)  BY DEF DefinitionOf, SettingsNode
<1> HIDE DEF s
<1>2. SettingsOf(s).flags = [x \in DOMAIN AbsentFlags |-> BoolOf(s, x, AbsentFlags[x])]
  BY DEF SettingsOf
<1>3. name \in DOMAIN AbsentFlags /\ a \in BOOLEAN /\ (a <=> name \in SchemaTrue)
  BY AbsentIsSchema
<1>4. SettingsOf(s).flags[name] = BoolOf(s, name, a)  BY <1>2, <1>3
<1> HIDE DEF a
<1>5. BoolOf(s, name, a) <=> Condition(n, name)  BY <1>3, ConditionIs DEF s
<1>6. QED  BY <1>1, <1>4, <1>5

\* The two conditions that are elements of their own.
LEMMA IdleIs ==
  ASSUME NEW n
  PROVE  DefinitionOf(n).settings.idle # None <=> Condition(n, "RunOnlyIfIdle")
<1> DEFINE s == SettingsNode(n)
           b == BoolOf(s, "RunOnlyIfIdle", FALSE)
<1>1. DefinitionOf(n).settings = SettingsOf(s)  BY DEF DefinitionOf, SettingsNode
<1>2. b <=> Condition(n, "RunOnlyIfIdle")
  <2>1. FALSE <=> "RunOnlyIfIdle" \in SchemaTrue  BY DEF SchemaTrue
  <2>2. QED  BY <2>1, ConditionIs
<1> HIDE DEF s
<1>3. SettingsOf(s).idle = IdleOf(s)  BY DEF SettingsOf
<1>4. ~b => IdleOf(s) = None  BY DEF IdleOf
<1>5. b => IdleOf(s) # None
  <2>1. b => \E x : IdleOf(s) = Some(x)  BY DEF IdleOf
  <2>2. \A x : Some(x) # None  BY DEF Some, None
  <2>3. QED  BY <2>1, <2>2
<1>6. QED  BY <1>1, <1>2, <1>3, <1>4, <1>5

LEMMA NetworkIs ==
  ASSUME NEW n, ~Has(SettingsNode(n), "NetworkSettings")
  PROVE  DefinitionOf(n).settings.network # None <=> Condition(n, "RunOnlyIfNetworkAvailable")
<1> DEFINE s == SettingsNode(n)
           name == "RunOnlyIfNetworkAvailable"
           b == BoolOf(s, name, FALSE)
<1>1. DefinitionOf(n).settings = SettingsOf(s)  BY DEF DefinitionOf, SettingsNode
<1>2. b <=> Condition(n, name)
  <2>1. FALSE <=> name \in SchemaTrue  BY DEF SchemaTrue
  <2>2. QED  BY <2>1, ConditionIs
<1>3. ~Has(s, "NetworkSettings")  OBVIOUS
<1> HIDE DEF s
<1>4. SettingsOf(s).network = NetworkOf(s)  BY DEF SettingsOf
<1>5. ~b => NetworkOf(s) = None  BY <1>3 DEF NetworkOf
<1>6. b => NetworkOf(s) # None
  <2>1. b => \E x : NetworkOf(s) = Some(x)  BY DEF NetworkOf
  <2>2. \A x : Some(x) # None  BY DEF Some, None
  <2>3. QED  BY <2>1, <2>2
<1>7. QED  BY <1>1, <1>2, <1>4, <1>5, <1>6

\* The settings of a written definition.
LEMMA WrittenSettings ==
  ASSUME NEW d, NEW S, Hereditary(S), IsDefinition(d, S), Valid(d),
         NEW m, m = NodeOf(WriteDefinition(d))
  PROVE  SettingsFound(SettingsNode(m), d)
<1> DEFINE e == WriteSettings(d)
<1>1. IsElement(e) /\ NodeOf(e).name = "Settings" /\ SettingsFound(NodeOf(e), d)
  BY SettingsStand DEF Valid
<1>2. Child(m, "Settings") = Nodes(<<e>>)  BY RootRead DEF RootFound, SettingsOut
<1> HIDE DEF e
<1>3. Nodes(<<e>>) = <<NodeOf(e)>>  BY <1>1, OneNode
<1>4. SettingsNode(m) = NodeOf(e)  BY <1>2, <1>3 DEF SettingsNode, OrElse, None
<1>5. QED  BY <1>1, <1>4

LEMMA NetworkStated ==
  ASSUME NEW d, NEW S, Hereditary(S), IsDefinition(d, S), Valid(d),
         NEW m, m = NodeOf(WriteDefinition(d))
  PROVE  d.settings.network # None <=> Condition(m, "RunOnlyIfNetworkAvailable")
<1> DEFINE s == SettingsNode(m)
           b == d.settings.network # None
           name == "RunOnlyIfNetworkAvailable"
<1>1. SettingsFound(s, d)  BY WrittenSettings
<1> HIDE DEF s
<1>2. Child(s, SettingsOrder[11]) = Nodes(SettingsParts(d)[11])  BY <1>1 DEF SettingsFound
<1>3. Child(s, name) = Nodes(<<BoolElement(name, b)>>)
  BY <1>2 DEF SettingsOrder, SettingsParts
<1>4. b \in BOOLEAN  OBVIOUS
<1> HIDE DEF b
<1>5. BoolOf(s, name, FALSE) = b  BY <1>3, <1>4, FlagFound DEF FlagRead
<1>6. FALSE <=> name \in SchemaTrue  BY DEF SchemaTrue
<1>7. BoolOf(s, name, FALSE) <=> Condition(m, name)  BY <1>6, ConditionIs DEF s
<1>8. QED  BY <1>5, <1>7 DEF b

\* A document that is understood and written states the conditions, under which
\* the task starts and runs, that it stated before or left to the defaults of
\* the schema (parse_settings and write_settings of xml.rs), whatever else it
\* holds; only a document that describes a network and does not require it
\* requires it afterwards.
THEOREM ConditionsStay ==
  ASSUME NEW S, Hereditary(S), NEW n \in S, Readable(n),
         NEW d, d = DefinitionOf(n), Valid(d), NEW m, m = NodeOf(WriteDefinition(d)), NEW name \in Conditions
  PROVE  \/ Condition(m, name) <=> Condition(n, name)
         \/ /\ name = "RunOnlyIfNetworkAvailable"
            /\ Has(SettingsNode(n), "NetworkSettings")
<1>1. IsDefinition(d, S)  BY DefinitionTyped
<1> DEFINE e == DefinitionOf(m)
<1>2. e.settings = CanonicalSettings(d.settings)
  <2>1. WithoutExtensions(e) = WithoutExtensions(Canonical(d))
    BY <1>1, EveryDefinitionKept DEF DefinitionKept
  <2>2. QED  BY <1>1, <2>1, FieldsRead
<1>3. IsSettings(d.settings)  BY <1>1 DEF IsDefinition
<1>4. e.settings.flags = d.settings.flags  BY <1>2, <1>3, SettingsSame
<1>5. e.settings.idle = d.settings.idle
  <2> DEFINE s == d.settings
             l == CanonicalLimit(s.execution_time_limit)
             w == Each(s.network, LAMBDA x : [id |-> Texts(x.id), name |-> Texts(x.name)])
  <2>1. CanonicalSettings(s) = [s EXCEPT !.execution_time_limit = l, !.network = w]
    BY DEF CanonicalSettings
  <2>2. s = [flags |-> s.flags, restart_on_failure |-> s.restart_on_failure,
             multiple_instances |-> s.multiple_instances, network |-> s.network,
             execution_time_limit |-> s.execution_time_limit,
             delete_expired_after |-> s.delete_expired_after, priority |-> s.priority,
             idle |-> s.idle, maintenance |-> s.maintenance]
    BY <1>3 DEF IsSettings
  <2> HIDE DEF s, l, w
  <2>3. CanonicalSettings(s).idle = s.idle  BY <2>1, <2>2
  <2>4. QED  BY <1>2, <2>3 DEF s
<1>6. CASE name \in DOMAIN DefaultFlags
  <2>1. e.settings.flags[name] <=> Condition(m, name)  BY <1>6, FlagIs
  <2>2. d.settings.flags[name] <=> Condition(n, name)  BY <1>6, FlagIs
  <2>3. QED  BY <1>4, <2>1, <2>2
<1>7. CASE name = "RunOnlyIfIdle"
  <2>1. e.settings.idle # None <=> Condition(m, name)  BY <1>7, IdleIs
  <2>2. d.settings.idle # None <=> Condition(n, name)  BY <1>7, IdleIs
  <2>3. QED  BY <1>5, <2>1, <2>2
<1>8. CASE name = "RunOnlyIfNetworkAvailable"
  <2>1. d.settings.network # None <=> Condition(m, name)  BY <1>1, <1>8, NetworkStated
  <2>2. CASE ~Has(SettingsNode(n), "NetworkSettings")
    <3>1. d.settings.network # None <=> Condition(n, name)  BY <1>8, <2>2, NetworkIs
    <3>2. QED  BY <2>1, <3>1
  <2>3. QED  BY <1>8, <2>2
<1>9. QED  BY <1>6, <1>7, <1>8 DEF Conditions
=============================================================================
