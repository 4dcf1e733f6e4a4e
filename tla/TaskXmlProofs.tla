--------------------------- MODULE TaskXmlProofs ----------------------------
(***************************************************************************)
(* Proofs about the Task XML codec as it writes: every definition of the   *)
(* types that the library has, of any size, that validates is written as   *)
(* one element; and what the parsers of xml.rs make of this element is the *)
(* definition in its canonical form, whatever the texts, the lists, the    *)
(* names and the extensions in it.                                         *)
(*                                                                         *)
(* An element is the sequence of its events.  Reads(e, n) says that a      *)
(* reader in any state that takes these events has received one more node  *)
(* n; the parts of an element are the lists of its children by name.       *)
(***************************************************************************)
EXTENDS TaskXml, FiniteSetTheorems, SequenceTheorems, NaturalsInduction,
        WellFoundedInduction, TLAPS

-----------------------------------------------------------------------------
(***************************************************************************)
(* Lists, and what is written one after the other.                           *)
(***************************************************************************)
\* A set of natural numbers has a least one, so a statement about them with
\* a counterexample has a first one.
LEMMA Least ==
  ASSUME NEW T \in SUBSET Nat, T # {}
  PROVE  \E n \in T : \A m \in T : n <= m
<1> DEFINE R == {p \in Nat \X Nat : p[1] < p[2]}
<1>1. IsWellFoundedOn(R, Nat)  BY NatLessThanWellFounded DEF OpToRel
<1>2. PICK n \in T : \A m \in T : <<m, n>> \notin R  BY <1>1, WFMin
<1>3. \A m \in T : ~(m < n)  BY <1>2
<1>4. QED  BY <1>3

\* Induction up to a bound, on a set.
LEMMA Upward ==
  ASSUME NEW n \in Nat, NEW B, 0 \in B, \A k \in 1..n : k - 1 \in B => k \in B
  PROVE  \A k \in 0..n : k \in B
<1> DEFINE T == {k \in 0..n : k \notin B}
<1>1. ASSUME NEW k \in T, \A m \in T : k <= m  PROVE FALSE
  <2>1. k \in 0..n /\ k \notin B /\ k # 0  BY <1>1
  <2>2. k \in 1..n /\ k - 1 \in 0..n /\ ~(k <= k - 1)  BY <2>1
  <2>3. k - 1 \in B  BY <1>1, <2>2
  <2>4. QED  BY <2>1, <2>2, <2>3
<1>2. T \in SUBSET Nat  OBVIOUS
<1>3. T = {}  BY <1>1, <1>2, Least
<1>4. QED  BY <1>3

LEMMA ListParts ==
  ASSUME NEW s, IsList(s)
  PROVE  Len(s) \in Nat /\ DOMAIN s = 1..Len(s) /\ \A i \in 1..Len(s) : s[i] \in ToSet(s)
BY DEF IsList

LEMMA ToList ==
  ASSUME NEW E, NEW s \in Seq(E)
  PROVE  IsList(s)
BY DEF IsList, ToSet

LEMMA Concat ==
  ASSUME NEW a, NEW b, IsList(a), IsList(b)
  PROVE  /\ IsList(a \o b) /\ Len(a \o b) = Len(a) + Len(b)
         /\ \A i \in 1..Len(a) : (a \o b)[i] = a[i]
         /\ \A i \in 1..Len(b) : (a \o b)[Len(a) + i] = b[i]
         /\ ToSet(a \o b) = ToSet(a) \union ToSet(b)
<1> DEFINE U == ToSet(a) \union ToSet(b)
<1>1. a \in Seq(U) /\ b \in Seq(U)  BY DEF IsList, ToSet
<1>2. /\ a \o b \in Seq(U) /\ Len(a \o b) = Len(a) + Len(b)
      /\ Len(a) \in Nat /\ Len(b) \in Nat
      /\ DOMAIN a = 1..Len(a) /\ DOMAIN b = 1..Len(b)
      /\ DOMAIN (a \o b) = 1..(Len(a) + Len(b))
      /\ \A i \in 1..Len(a) : (a \o b)[i] = a[i]
      /\ \A i \in 1..Len(b) : (a \o b)[Len(a) + i] = b[i]
  BY <1>1
<1>3. ToSet(a \o b) \subseteq U
  <2>1. \A i \in 1..(Len(a) + Len(b)) : (a \o b)[i] \in U  BY <1>2
  <2>2. QED  BY <1>2, <2>1 DEF ToSet
<1>4. U \subseteq ToSet(a \o b)
  <2>1. ASSUME NEW i \in 1..Len(a)  PROVE a[i] \in ToSet(a \o b)
    <3>1. i \in 1..(Len(a) + Len(b))  BY <1>2
    <3>2. QED  BY <1>2, <3>1 DEF ToSet
  <2>2. ASSUME NEW i \in 1..Len(b)  PROVE b[i] \in ToSet(a \o b)
    <3>1. Len(a) + i \in 1..(Len(a) + Len(b))  BY <1>2
    <3>2. QED  BY <1>2, <3>1 DEF ToSet
  <2>3. QED  BY <1>2, <2>1, <2>2 DEF ToSet
<1>5. QED  BY <1>2, <1>3, <1>4, ToList

\* A list of lists, one after the other.
Lists(P) == IsList(P) /\ \A i \in DOMAIN P : IsList(P[i])

Flattens(f, P, n) ==
  f = [i \in 1..n |-> IF i = 1 THEN P[i] ELSE f[i - 1] \o P[i]]

LEMMA FlatExists ==
  ASSUME NEW P, NEW l \in Nat
  PROVE  \E f : Flattens(f, P, l)
<1> DEFINE T == {n \in Nat : ~\E f : Flattens(f, P, n)}
<1>1. ASSUME NEW n \in T, \A m \in T : n <= m  PROVE FALSE
  <2>1. CASE n = 0
    <3> DEFINE f == [i \in 1..0 |-> <<>>]
    <3>1. Flattens(f, P, 0)  BY DEF Flattens
    <3>2. QED  BY <1>1, <2>1, <3>1
  <2>2. CASE n # 0
    <3>1. n - 1 \in Nat /\ n - 1 \notin T  BY <1>1, <2>2
    <3>2. PICK g : Flattens(g, P, n - 1)  BY <3>1
    <3> DEFINE last == IF n = 1 THEN P[n] ELSE g[n - 1] \o P[n]
               f == [i \in 1..n |-> IF i = n THEN last ELSE g[i]]
               h == [i \in 1..n |-> IF i = 1 THEN P[i] ELSE f[i - 1] \o P[i]]
    <3>3. \A i \in 1..(n - 1) : f[i] = g[i] /\ f[n] = last  BY <3>1, <1>1
    <3>3a. f[n] = last  BY <3>1, <1>1
    <3>4. \A i \in 1..(n - 1) : g[i] = IF i = 1 THEN P[i] ELSE g[i - 1] \o P[i]
      BY <3>2 DEF Flattens
    <3> HIDE DEF last
    <3>5. ASSUME NEW i \in 1..n  PROVE f[i] = h[i]
      <4>1. CASE i = n
        <5>1. n # 1 => n - 1 \in 1..(n - 1)  BY <3>1
        <5>2. n # 1 => f[n - 1] = g[n - 1]  BY <3>3, <5>1
        <5>3. h[n] = IF n = 1 THEN P[n] ELSE f[n - 1] \o P[n]  BY <4>1
        <5>4. QED  BY <3>3a, <4>1, <5>2, <5>3 DEF last
      <4>2. CASE i # n
        <5>1. i \in 1..(n - 1) /\ (i # 1 => i - 1 \in 1..(n - 1))  BY <3>1, <4>2
        <5>2. f[i] = g[i] /\ (i # 1 => f[i - 1] = g[i - 1])  BY <3>3, <5>1
        <5>3. h[i] = IF i = 1 THEN P[i] ELSE f[i - 1] \o P[i]  OBVIOUS
        <5>4. g[i] = IF i = 1 THEN P[i] ELSE g[i - 1] \o P[i]  BY <3>4, <5>1
        <5>5. QED  BY <5>2, <5>3, <5>4
      <4>3. QED  BY <4>1, <4>2
    <3>6. f = h  BY <3>5
    <3>7. Flattens(f, P, n)  BY <3>6 DEF Flattens
    <3>8. QED  BY <1>1, <3>7
  <2>3. QED  BY <2>1, <2>2
<1>2. T = {}  BY <1>1, Least
<1>3. QED  BY <1>2

\* The lists that FlattenSeq passes on its way, an empty one first.
LEMMA FlatSolves ==
  ASSUME NEW P, Lists(P)
  PROVE  \E f : /\ f[0] = <<>> /\ FlattenSeq(P) = f[Len(P)]
                /\ \A i \in 1..Len(P) : f[i] = f[i - 1] \o P[i]
                /\ \A i \in 0..Len(P) : IsList(f[i])
<1>1. Len(P) \in Nat /\ DOMAIN P = 1..Len(P)  BY ListParts DEF Lists
<1>2. CASE Len(P) = 0
  <2> DEFINE f == [i \in 0..0 |-> <<>>]
  <2>1. P = <<>>  BY <1>2 DEF Lists, IsList
  <2>2. FlattenSeq(P) = <<>>  BY <1>2, <2>1 DEF FlattenSeq
  <2>3. IsList(<<>>)  BY DEF IsList
  <2>4. /\ f[0] = <<>> /\ FlattenSeq(P) = f[Len(P)]
        /\ \A i \in 1..Len(P) : f[i] = f[i - 1] \o P[i]
        /\ \A i \in 0..Len(P) : IsList(f[i])
    BY <1>2, <2>2, <2>3
  <2> HIDE DEF f
  <2>5. QED  BY <2>4
<1>3. CASE Len(P) # 0
  <2> DEFINE g == CHOOSE h : Flattens(h, P, Len(P))
             f == [i \in 0..Len(P) |-> IF i = 0 THEN <<>> ELSE g[i]]
  <2>1. Flattens(g, P, Len(P))  BY <1>1, FlatExists
  <2>2. FlattenSeq(P) = g[Len(P)]  BY <1>3 DEF FlattenSeq, Flattens
  <2> HIDE DEF g
  <2>3. f[0] = <<>> /\ FlattenSeq(P) = f[Len(P)]  BY <1>1, <1>3, <2>2
  <2>4. \A i \in 1..Len(P) : f[i] = g[i] /\ (i # 1 => f[i - 1] = g[i - 1])
    BY <1>1
  <2>5. \A i \in 1..Len(P) : g[i] = IF i = 1 THEN P[i] ELSE g[i - 1] \o P[i]
    BY <2>1 DEF Flattens
  <2> HIDE DEF f
  <2>6. \A i \in 1..Len(P) : f[i] = f[i - 1] \o P[i]
    <3>1. <<>> \o P[1] = P[1]  BY <1>1, <1>3 DEF Lists, IsList
    <3>2. ASSUME NEW i \in 1..Len(P)  PROVE f[i] = f[i - 1] \o P[i]
      <4>1. CASE i = 1
        <5>1. f[1] = g[1] /\ g[1] = P[1]  BY <2>4, <2>5, <4>1
        <5>2. f[1 - 1] = <<>>  BY <2>3
        <5>3. QED  BY <3>1, <4>1, <5>1, <5>2
      <4>2. CASE i # 1  BY <2>4, <2>5, <4>2
      <4>3. QED  BY <4>1, <4>2
    <3>3. QED  BY <3>2
  <2>7. \A i \in 0..Len(P) : IsList(f[i])
    <3> DEFINE B == {n \in 0..Len(P) : IsList(f[n])}
    <3>1. IsList(<<>>)  BY DEF IsList
    <3>2. 0 \in B  BY <1>1, <2>3, <3>1
    <3>3. ASSUME NEW n \in 1..Len(P), n - 1 \in B  PROVE n \in B
      <4>1. IsList(f[n - 1]) /\ IsList(P[n])  BY <1>1, <3>3 DEF Lists
      <4>2. f[n] = f[n - 1] \o P[n]  BY <2>6
      <4>3. IsList(f[n])  BY <4>1, <4>2, Concat
      <4>4. n \in 0..Len(P)  BY <1>1
      <4>5. QED  BY <4>3, <4>4
    <3> HIDE DEF B
    <3>4. \A n \in 0..Len(P) : n \in B  BY <1>1, <3>2, <3>3, Upward
    <3>5. QED  BY <3>4 DEF B
  <2>8. QED  BY <2>3, <2>6, <2>7
<1>4. QED  BY <1>2, <1>3

LEMMA FlatParts ==
  ASSUME NEW P, Lists(P)
  PROVE  /\ IsList(FlattenSeq(P))
         /\ \A x : x \in ToSet(FlattenSeq(P)) <=> \E i \in DOMAIN P : x \in ToSet(P[i])
<1>1. Len(P) \in Nat /\ DOMAIN P = 1..Len(P)  BY ListParts DEF Lists
<1>2. PICK f : /\ f[0] = <<>> /\ FlattenSeq(P) = f[Len(P)]
               /\ \A i \in 1..Len(P) : f[i] = f[i - 1] \o P[i]
               /\ \A i \in 0..Len(P) : IsList(f[i])
  BY FlatSolves
<1> DEFINE Good(n) == \A x : x \in ToSet(f[n]) <=> \E i \in 1..n : x \in ToSet(P[i])
           B == {n \in 0..Len(P) : Good(n)}
<1>3. 0 \in B
  <2>1. ToSet(f[0]) = {}  BY <1>2 DEF ToSet
  <2>2. QED  BY <1>1, <2>1
<1>4. ASSUME NEW n \in 1..Len(P), n - 1 \in B  PROVE n \in B
  <2>1. Good(n - 1)  BY <1>4
  <2>2. n - 1 \in 0..Len(P) /\ n \in 0..Len(P)  BY <1>1
  <2>3. IsList(f[n - 1]) /\ IsList(P[n]) /\ f[n] = f[n - 1] \o P[n]
    BY <1>1, <1>2, <2>2 DEF Lists
  <2>4. ToSet(f[n]) = ToSet(f[n - 1]) \union ToSet(P[n])  BY <2>3, Concat
  <2>5. \A i : i \in 1..n <=> i \in 1..(n - 1) \/ i = n  BY <1>1
  <2>6. Good(n)  BY <2>1, <2>4, <2>5
  <2>7. QED  BY <2>2, <2>6
<1> HIDE DEF B
<1>5. \A n \in 0..Len(P) : n \in B  BY <1>1, <1>3, <1>4, Upward
<1>6. Len(P) \in B /\ IsList(f[Len(P)])
  <2>1. Len(P) \in 0..Len(P)  BY <1>1
  <2>2. QED  BY <1>2, <1>5, <2>1
<1>7. QED  BY <1>1, <1>2, <1>6 DEF B

LEMMA FlatNothing ==
  ASSUME NEW P, IsList(P), \A i \in DOMAIN P : P[i] = <<>>
  PROVE  FlattenSeq(P) = <<>>
<1>1. Lists(P)
  <2>1. IsList(<<>>)  BY DEF IsList
  <2>2. QED  BY <2>1 DEF Lists
<1>2. ToSet(<<>>) = {}  BY DEF ToSet
<1>3. ToSet(FlattenSeq(P)) = {} /\ IsList(FlattenSeq(P))  BY <1>1, <1>2, FlatParts
<1>4. Len(FlattenSeq(P)) = 0  BY <1>3, ListParts DEF ToSet
<1>5. QED  BY <1>3, <1>4 DEF IsList

LEMMA ListIs ==
  ASSUME NEW s, IsList(s)
  PROVE  s = [i \in 1..Len(s) |-> s[i]]
BY DEF IsList

\* A list of single elements is their list.
LEMMA FlatSingles ==
  ASSUME NEW P, NEW Q, IsList(P), IsList(Q), Len(P) = Len(Q),
         \A i \in 1..Len(P) : P[i] = <<Q[i]>>
  PROVE  FlattenSeq(P) = Q
<1>1. Len(P) \in Nat /\ DOMAIN P = 1..Len(P) /\ Q = [i \in 1..Len(P) |-> Q[i]]
  BY ListParts DEF IsList
<1>2. Lists(P)
  <2>1. \A v : IsList(<<v>>)  BY DEF IsList, ToSet
  <2>2. QED  BY <1>1, <2>1 DEF Lists
<1>3. PICK f : /\ f[0] = <<>> /\ FlattenSeq(P) = f[Len(P)]
               /\ \A i \in 1..Len(P) : f[i] = f[i - 1] \o P[i]
               /\ \A i \in 0..Len(P) : IsList(f[i])
  BY <1>2, FlatSolves
<1> DEFINE Good(n) == Len(f[n]) = n /\ \A i \in 1..n : f[n][i] = Q[i]
           B == {n \in 0..Len(P) : Good(n)}
<1>4. 0 \in B
  <2>1. Good(0)  BY <1>3
  <2>2. QED  BY <1>1, <2>1
<1>5. ASSUME NEW n \in 1..Len(P), n - 1 \in B  PROVE n \in B
  <2>1. Good(n - 1)  BY <1>5
  <2>2. n - 1 \in 0..Len(P) /\ n \in 0..Len(P)  BY <1>1
  <2>3. IsList(f[n - 1]) /\ IsList(P[n]) /\ f[n] = f[n - 1] \o P[n] /\ P[n] = <<Q[n]>>
    BY <1>1, <1>2, <1>3, <2>2 DEF Lists
  <2>4. /\ Len(f[n]) = Len(f[n - 1]) + Len(P[n])
        /\ \A i \in 1..Len(f[n - 1]) : f[n][i] = f[n - 1][i]
        /\ \A i \in 1..Len(P[n]) : f[n][Len(f[n - 1]) + i] = P[n][i]
    BY <2>3, Concat
  <2>5. Len(P[n]) = 1 /\ P[n][1] = Q[n]  BY <2>3
  <2>6. Len(f[n]) = n /\ f[n][n] = Q[n]
    <3>1. Len(f[n]) = n  BY <1>1, <2>1, <2>4, <2>5
    <3>2. 1 \in 1..Len(P[n]) /\ Len(f[n - 1]) + 1 = n  BY <1>1, <2>1, <2>5
    <3>3. f[n][Len(f[n - 1]) + 1] = P[n][1]  BY <2>4, <3>2
    <3>4. QED  BY <2>5, <3>1, <3>2, <3>3
  <2>7. \A i \in 1..(n - 1) : f[n][i] = Q[i]  BY <2>1, <2>4
  <2>8. \A i \in 1..n : i \in 1..(n - 1) \/ i = n  BY <1>1
  <2>9. Good(n)  BY <2>6, <2>7, <2>8
  <2>10. QED  BY <2>2, <2>9
<1> HIDE DEF B
<1>6. \A n \in 0..Len(P) : n \in B  BY <1>1, <1>4, <1>5, Upward
<1>7. Len(P) \in B /\ IsList(f[Len(P)])
  <2>1. Len(P) \in 0..Len(P)  BY <1>1
  <2>2. QED  BY <1>3, <1>6, <2>1
<1>8. Good(Len(P))  BY <1>7 DEF B
<1>9. f[Len(P)] = Q
  <2> DEFINE s == f[Len(P)]
  <2>1. IsList(s) /\ Len(s) = Len(P) /\ \A i \in 1..Len(P) : s[i] = Q[i]  BY <1>7, <1>8
  <2> HIDE DEF s
  <2>2. s = [i \in 1..Len(s) |-> s[i]]  BY <2>1, ListIs
  <2>3. s = Q  BY <1>1, <2>1, <2>2
  <2>4. QED  BY <2>3 DEF s
<1>10. QED  BY <1>3, <1>9

\* Two lists with the same elements in the same places.
LEMMA SameList ==
  ASSUME NEW s, NEW t, IsList(s), IsList(t), Len(s) = Len(t),
         \A i \in 1..Len(s) : s[i] = t[i]
  PROVE  s = t
<1>1. s = [i \in 1..Len(s) |-> s[i]] /\ t = [i \in 1..Len(t) |-> t[i]]  BY ListIs
<1>2. QED  BY <1>1

\* A function of the places of a list.
LEMMA Mapped ==
  ASSUME NEW s, NEW g, IsList(s), g = [i \in DOMAIN s |-> g[i]]
  PROVE  /\ IsList(g) /\ Len(g) = Len(s) /\ DOMAIN g = DOMAIN s
         /\ \A x : x \in ToSet(g) <=> \E i \in DOMAIN s : x = g[i]
<1>1. Len(s) \in Nat /\ DOMAIN s = 1..Len(s)  BY ListParts
<1>2. g = [i \in 1..Len(s) |-> g[i]]  BY <1>1
<1>3. \A x : x \in ToSet(g) <=> \E i \in DOMAIN s : x = g[i]  BY <1>1, <1>2 DEF ToSet
<1>4. g \in Seq(ToSet(g))
  <2>1. \A i \in 1..Len(s) : g[i] \in ToSet(g)  BY <1>1, <1>3
  <2>2. QED  BY <1>1, <1>2, <2>1
<1>5. Len(g) = Len(s)  BY <1>1, <1>2
<1>6. QED  BY <1>1, <1>2, <1>3, <1>4, <1>5 DEF IsList

\* The values of a list at some places.
LEMMA Selected ==
  ASSUME NEW s, NEW K, IsList(s),
         NEW P, P = [i \in DOMAIN s |-> IF i \in K THEN <<s[i]>> ELSE <<>>]
  PROVE  /\ IsList(FlattenSeq(P))
         /\ \A x : x \in ToSet(FlattenSeq(P)) <=> \E i \in DOMAIN s : i \in K /\ x = s[i]
         /\ DOMAIN s \subseteq K => FlattenSeq(P) = s
         /\ (\A i \in DOMAIN s : i \notin K) => FlattenSeq(P) = <<>>
<1>1. P = [i \in DOMAIN s |-> P[i]]
  <2>1. \A i \in DOMAIN s : P[i] = IF i \in K THEN <<s[i]>> ELSE <<>>  OBVIOUS
  <2>2. QED  BY <2>1
<1>2. IsList(P) /\ Len(P) = Len(s) /\ DOMAIN P = DOMAIN s  BY <1>1, Mapped
<1>3. Lists(P)
  <2>1. \A v : IsList(<<v>>)  BY DEF IsList, ToSet
  <2>2. IsList(<<>>)  BY DEF IsList
  <2>3. QED  BY <1>2, <2>1, <2>2 DEF Lists
<1>4. /\ IsList(FlattenSeq(P))
      /\ \A x : x \in ToSet(FlattenSeq(P)) <=> \E i \in DOMAIN P : x \in ToSet(P[i])
  BY <1>3, FlatParts
<1>5. \A i \in DOMAIN s : \A x : x \in ToSet(P[i]) <=> i \in K /\ x = s[i]
  <2>1. \A v, x : x \in ToSet(<<v>>) <=> x = v  BY DEF ToSet
  <2>2. ToSet(<<>>) = {}  BY DEF ToSet
  <2>3. QED  BY <2>1, <2>2
<1>6. ASSUME DOMAIN s \subseteq K  PROVE FlattenSeq(P) = s
  <2>1. \A i \in 1..Len(P) : P[i] = <<s[i]>>  BY <1>2, <1>6, ListParts
  <2>2. QED  BY <1>2, <2>1, FlatSingles
<1>7. ASSUME \A i \in DOMAIN s : i \notin K  PROVE FlattenSeq(P) = <<>>
  <2>1. \A i \in DOMAIN P : P[i] = <<>>  BY <1>2, <1>7
  <2>2. QED  BY <1>2, <2>1, FlatNothing
<1>8. ASSUME NEW x
      PROVE  x \in ToSet(FlattenSeq(P)) <=> \E i \in DOMAIN s : i \in K /\ x = s[i]
  <2>1. x \in ToSet(FlattenSeq(P)) <=> \E i \in DOMAIN s : x \in ToSet(P[i])
    BY <1>2, <1>4
  <2>2. \A i \in DOMAIN s : x \in ToSet(P[i]) <=> i \in K /\ x = s[i]  BY <1>5
  <2>3. QED  BY <2>1, <2>2
<1>9. IsList(FlattenSeq(P))  BY <1>4
<1> HIDE DEF ToSet
<1>10. QED  BY <1>6, <1>7, <1>8, <1>9

-----------------------------------------------------------------------------
TextKinds == {"text", "blank", "cdata", "reference"}

JoinsUpTo(f, events, n) ==
  f = [k \in 0..n |-> IF k = 0 THEN "" ELSE Joined(f[k - 1], events[k].text)]

LEMMA JoinsExists ==
  ASSUME NEW events, NEW l \in Nat
  PROVE  \E f : JoinsUpTo(f, events, l)
<1> DEFINE T == {n \in Nat : ~\E f : JoinsUpTo(f, events, n)}
<1>1. ASSUME NEW n \in T, \A m \in T : n <= m  PROVE FALSE
  <2>1. CASE n = 0
    <3> DEFINE f == [k \in 0..0 |-> ""]
               h == [k \in 0..0 |-> IF k = 0 THEN "" ELSE Joined(f[k - 1], events[k].text)]
    <3>1. \A k \in 0..0 : f[k] = h[k]  OBVIOUS
    <3>2. f = h  BY <3>1
    <3>3. JoinsUpTo(f, events, 0)  BY <3>2 DEF JoinsUpTo
    <3>4. QED  BY <1>1, <2>1, <3>3
  <2>2. CASE n # 0
    <3>1. n - 1 \in Nat /\ n - 1 \notin T  BY <1>1, <2>2
    <3>2. PICK g : JoinsUpTo(g, events, n - 1)  BY <3>1
    <3> DEFINE last == Joined(g[n - 1], events[n].text)
               f == [k \in 0..n |-> IF k = n THEN last ELSE g[k]]
               h == [k \in 0..n |-> IF k = 0 THEN "" ELSE Joined(f[k - 1], events[k].text)]
    <3>3. \A k \in 0..(n - 1) : f[k] = g[k]  BY <3>1, <1>1
    <3>4. f[n] = last  BY <1>1
    <3>5. \A k \in 0..(n - 1) :
            g[k] = IF k = 0 THEN "" ELSE Joined(g[k - 1], events[k].text)
      BY <3>2 DEF JoinsUpTo
    <3> HIDE DEF last
    <3>6. ASSUME NEW k \in 0..n  PROVE f[k] = h[k]
      <4>1. CASE k = n
        <5>1. n - 1 \in 0..(n - 1)  BY <3>1
        <5>2. f[n - 1] = g[n - 1]  BY <3>3, <5>1
        <5>3. h[n] = Joined(f[n - 1], events[n].text)  BY <2>2, <4>1
        <5>4. QED  BY <3>4, <4>1, <5>2, <5>3 DEF last
      <4>2. CASE k # n
        <5>1. k \in 0..(n - 1) /\ (k # 0 => k - 1 \in 0..(n - 1))  BY <3>1, <4>2
        <5>2. f[k] = g[k] /\ (k # 0 => f[k - 1] = g[k - 1])  BY <3>3, <5>1
        <5>3. QED  BY <3>5, <5>1, <5>2
      <4>3. QED  BY <4>1, <4>2
    <3>7. f = h  BY <3>6
    <3>8. JoinsUpTo(f, events, n)  BY <3>7 DEF JoinsUpTo
    <3>9. QED  BY <1>1, <3>8
  <2>3. QED  BY <2>1, <2>2
<1>2. T = {}  BY <1>1, Least
<1>3. QED  BY <1>2

\* ReadText joins the pieces one after the other.
LEMMA Reading ==
  ASSUME NEW t, NEW events, events = TextEvents(t), IsList(events)
  PROVE  \E f : /\ f[0] = "" /\ f[Len(events)] = ReadText(t)
                /\ \A k \in 1..Len(events) : f[k] = Joined(f[k - 1], events[k].text)
<1> DEFINE f == CHOOSE f : JoinsUpTo(f, events, Len(events))
<1>1. Len(events) \in Nat  BY ListParts
<1>2. JoinsUpTo(f, events, Len(events))  BY <1>1, JoinsExists
<1>3. f[Len(events)] = ReadText(t)  BY DEF ReadText, JoinsUpTo
<1> HIDE DEF f
<1>4. \A k \in 0..Len(events) :
        f[k] = IF k = 0 THEN "" ELSE Joined(f[k - 1], events[k].text)
  BY <1>2 DEF JoinsUpTo
<1>5. f[0] = ""
  <2>1. 0 \in 0..Len(events)  BY <1>1
  <2>2. QED  BY <1>4, <2>1
<1>6. ASSUME NEW k \in 1..Len(events)  PROVE f[k] = Joined(f[k - 1], events[k].text)
  <2>1. k \in 0..Len(events) /\ k # 0  BY <1>1
  <2>2. QED  BY <1>4, <2>1
<1>7. QED  BY <1>3, <1>5, <1>6

\* Texts: what escaping does to them.
LEMMA TextFacts ==
  ASSUME NEW t
  PROVE  /\ IsList(TextEvents(t))
         /\ \A i \in 1..Len(TextEvents(t)) : TextEvents(t)[i].kind \in TextKinds
         /\ ReadText("") = ""
         /\ t \notin DOMAIN Pieces => ReadText(t) = t
         /\ TextEvents(ReadText(t)) = TextEvents(t)
         /\ ReadText(t) = "" <=> t = ""
<1>1. \A u : IsList(TextEvents(u)) /\ \A e \in ToSet(TextEvents(u)) : e.kind \in TextKinds
  <2> SUFFICES ASSUME NEW u
               PROVE  IsList(TextEvents(u)) /\ \A e \in ToSet(TextEvents(u)) : e.kind \in TextKinds
    OBVIOUS
  <2>1. CASE u = ""
    <3>1. TextEvents(u) = <<>>  BY <2>1 DEF TextEvents
    <3>2. QED  BY <3>1 DEF IsList, ToSet
  <2>2. CASE u # "" /\ u \in DOMAIN Pieces
    <3>1. TextEvents(u) = Pieces[u]  BY <2>2 DEF TextEvents
    <3>2. QED  BY <2>2, <3>1, PiecesAssumption DEF TextKinds
  <2>3. CASE u # "" /\ u \notin DOMAIN Pieces
    <3>1. TextEvents(u) = <<[kind |-> "text", text |-> u]>>  BY <2>3 DEF TextEvents
    <3> DEFINE e == [kind |-> "text", text |-> u]
    <3>2. e.kind \in TextKinds  BY DEF TextKinds
    <3> HIDE DEF e
    <3>3. IsList(<<e>>) /\ ToSet(<<e>>) = {e}  BY DEF IsList, ToSet
    <3>4. QED  BY <3>1, <3>2, <3>3 DEF e
  <2>4. QED  BY <2>1, <2>2, <2>3
<1>2. \A u : u \notin DOMAIN Pieces => ReadText(u) = u
  <2> SUFFICES ASSUME NEW u, u \notin DOMAIN Pieces  PROVE ReadText(u) = u
    OBVIOUS
  <2> DEFINE events == TextEvents(u)
  <2>1. IsList(events)  BY <1>1
  <2>2. PICK f : /\ f[0] = "" /\ f[Len(events)] = ReadText(u)
                 /\ \A k \in 1..Len(events) : f[k] = Joined(f[k - 1], events[k].text)
    BY <2>1, Reading
  <2>3. CASE u = ""
    <3>1. Len(events) = 0  BY <2>3 DEF TextEvents
    <3>2. QED  BY <2>2, <2>3, <3>1
  <2>4. CASE u # ""
    <3>1. events = <<[kind |-> "text", text |-> u]>>  BY <2>4 DEF TextEvents
    <3>2. Len(events) = 1 /\ events[1].text = u  BY <3>1
    <3>3. 1 \in 1..Len(events) /\ 1 - 1 = 0  BY <3>2
    <3>4. f[1] = Joined(f[0], u)  BY <2>2, <3>2, <3>3
    <3>5. QED  BY <2>2, <3>2, <3>4 DEF Joined
  <2>5. QED  BY <2>3, <2>4
<1>3. ReadText("") = ""  BY <1>2, PiecesAssumption
<1>4. TextEvents(ReadText(t)) = TextEvents(t)
  <2>1. CASE t \in DOMAIN Pieces  BY <2>1, PiecesAssumption DEF TextEvents
  <2>2. CASE t \notin DOMAIN Pieces  BY <2>2, <1>2
  <2>3. QED  BY <2>1, <2>2
<1>5. ReadText(t) = "" <=> t = ""
  <2>1. CASE t \in DOMAIN Pieces
    <3>1. TextEvents(t) = Pieces[t] /\ Pieces[t] # <<>> /\ t # ""
      BY <2>1, PiecesAssumption DEF TextEvents
    <3>2. TextEvents("") = <<>>  BY DEF TextEvents
    <3>3. QED  BY <1>4, <3>1, <3>2
  <2>2. CASE t \notin DOMAIN Pieces  BY <2>2, <1>2
  <2>3. QED  BY <2>1, <2>2
<1>6. \A i \in 1..Len(TextEvents(t)) : TextEvents(t)[i].kind \in TextKinds
  BY <1>1, ListParts
<1>7. QED  BY <1>1, <1>2, <1>3, <1>4, <1>5, <1>6

-----------------------------------------------------------------------------
(***************************************************************************)
(* Elements: the events that are written, and the node that a reader makes   *)
(* of them wherever they stand.                                              *)
(***************************************************************************)
\* What the reader holds: the open elements and the root.
IsConfig(c) == c = [stack |-> c.stack, root |-> c.root] /\ IsList(c.stack)

OpenNode(name, attrs, kids, t) ==
  [name |-> name, attrs |-> attrs, kids |-> kids, text |-> t, xml |-> <<>>]

Push(c, node) == [stack |-> Append(c.stack, node), root |-> c.root]

Receive(c, n) ==
  IF c.stack = <<>> THEN [stack |-> <<>>, root |-> <<n>>]
  ELSE [stack |-> [c.stack EXCEPT ![Len(c.stack)].kids = Append(@, n)], root |-> c.root]

After(c, e) ==
  IF e.kind = "start" THEN Push(c, Node(e))
  ELSE IF e.kind = "empty" THEN Receive(c, Finished(Node(e)))
  ELSE IF e.kind = "end"
  THEN Receive([stack |-> Front(c.stack), root |-> c.root], Finished(c.stack[Len(c.stack)]))
  ELSE IF e.kind \in TextKinds /\ c.stack # <<>>
  THEN [stack |-> [c.stack EXCEPT ![Len(c.stack)].text = Joined(@, e.text)], root |-> c.root]
  ELSE c

Runs(e, c, d) ==
  \E f : /\ f[0] = c /\ f[Len(e)] = d
         /\ \A k \in 1..Len(e) : f[k] = After(f[k - 1], e[k])

LEMMA RunsNone ==
  ASSUME NEW c
  PROVE  Runs(<<>>, c, c)
<1> DEFINE f == [k \in 0..0 |-> c]
<1>1. f[0] = c /\ f[Len(<<>>)] = c /\ \A k \in 1..Len(<<>>) : f[k] = After(f[k - 1], <<>>[k])
  OBVIOUS
<1> HIDE DEF f
<1>2. QED  BY <1>1 DEF Runs

LEMMA RunsOne ==
  ASSUME NEW c, NEW e
  PROVE  Runs(<<e>>, c, After(c, e))
<1> DEFINE d == After(c, e)
           f == [k \in 0..1 |-> IF k = 0 THEN c ELSE d]
<1> HIDE DEF d
<1>1. f[0] = c /\ f[1] = d  OBVIOUS
<1> HIDE DEF f
<1>2. Len(<<e>>) = 1 /\ <<e>>[1] = e  OBVIOUS
<1>3. \A k \in 1..Len(<<e>>) : f[k] = After(f[k - 1], <<e>>[k])
  <2>1. f[1 - 1] = c  BY <1>1
  <2>2. f[1] = After(f[1 - 1], <<e>>[1])  BY <1>1, <1>2, <2>1 DEF d
  <2>3. \A k \in 1..Len(<<e>>) : k = 1  BY <1>2
  <2>4. QED  BY <2>2, <2>3
<1>4. Runs(<<e>>, c, d)  BY <1>1, <1>2, <1>3 DEF Runs
<1>5. QED  BY <1>4 DEF d

LEMMA RunsThen ==
  ASSUME NEW a, NEW b, NEW c, NEW c1, NEW c2, IsList(a), IsList(b),
         Runs(a, c, c1), Runs(b, c1, c2)
  PROVE  Runs(a \o b, c, c2)
<1>1. PICK f : /\ f[0] = c /\ f[Len(a)] = c1
               /\ \A k \in 1..Len(a) : f[k] = After(f[k - 1], a[k])
  BY DEF Runs
<1>2. PICK g : /\ g[0] = c1 /\ g[Len(b)] = c2
               /\ \A k \in 1..Len(b) : g[k] = After(g[k - 1], b[k])
  BY DEF Runs
<1> DEFINE h == [k \in 0..(Len(a) + Len(b)) |-> IF k <= Len(a) THEN f[k] ELSE g[k - Len(a)]]
<1>3. Len(a) \in Nat /\ Len(b) \in Nat  BY ListParts
<1>4. /\ Len(a \o b) = Len(a) + Len(b)
      /\ \A i \in 1..Len(a) : (a \o b)[i] = a[i]
      /\ \A i \in 1..Len(b) : (a \o b)[Len(a) + i] = b[i]
  BY Concat
<1>5. \A k \in 0..Len(a) : h[k] = f[k]  BY <1>3
<1>6. \A k \in 1..Len(b) : h[Len(a) + k] = g[k]
  <2>1. ASSUME NEW k \in 1..Len(b)  PROVE h[Len(a) + k] = g[k]
    <3>1. Len(a) + k \in 0..(Len(a) + Len(b)) /\ ~(Len(a) + k <= Len(a)) /\ Len(a) + k - Len(a) = k
      BY <1>3
    <3>2. QED  BY <3>1
  <2>2. QED  BY <2>1
<1> HIDE DEF h
<1>7. h[Len(a)] = g[0]  BY <1>1, <1>2, <1>3, <1>5
<1>8. h[0] = c  BY <1>1, <1>3, <1>5
<1>9. h[Len(a \o b)] = c2
  <2>1. CASE Len(b) = 0  BY <1>2, <1>3, <1>4, <1>7, <2>1
  <2>2. CASE Len(b) # 0
    <3>1. Len(b) \in 1..Len(b)  BY <1>3, <2>2
    <3>2. QED  BY <1>2, <1>4, <1>6, <3>1
  <2>3. QED  BY <2>1, <2>2
<1>10. ASSUME NEW k \in 1..Len(a \o b)  PROVE h[k] = After(h[k - 1], (a \o b)[k])
  <2>1. CASE k <= Len(a)
    <3>1. k \in 1..Len(a) /\ k \in 0..Len(a) /\ k - 1 \in 0..Len(a)  BY <1>3, <1>4, <2>1
    <3>2. h[k] = f[k] /\ h[k - 1] = f[k - 1] /\ (a \o b)[k] = a[k]  BY <1>4, <1>5, <3>1
    <3>3. f[k] = After(f[k - 1], a[k])  BY <1>1, <3>1
    <3>4. QED  BY <3>2, <3>3
  <2>2. CASE ~(k <= Len(a))
    <3> DEFINE m == k - Len(a)
    <3>1. m \in 1..Len(b) /\ k = Len(a) + m  BY <1>3, <1>4, <2>2
    <3>2. h[k] = g[m] /\ (a \o b)[k] = b[m]  BY <1>4, <1>6, <3>1
    <3>3. h[k - 1] = g[m - 1]
      <4>1. CASE m = 1
        <5>1. k - 1 = Len(a) /\ m - 1 = 0  BY <1>3, <3>1, <4>1
        <5>2. QED  BY <1>7, <5>1
      <4>2. CASE m # 1
        <5>1. m - 1 \in 1..Len(b) /\ k - 1 = Len(a) + (m - 1)  BY <1>3, <3>1, <4>2
        <5>2. QED  BY <1>6, <5>1
      <4>3. QED  BY <4>1, <4>2
    <3>4. g[m] = After(g[m - 1], b[m])  BY <1>2, <3>1
    <3>5. QED  BY <3>2, <3>3, <3>4
  <2>3. QED  BY <2>1, <2>2
<1>11. QED  BY <1>8, <1>9, <1>10 DEF Runs

\* The reader is deterministic.
LEMMA RunsUnique ==
  ASSUME NEW e, NEW c, NEW d1, NEW d2, IsList(e), Runs(e, c, d1), Runs(e, c, d2)
  PROVE  d1 = d2
<1>1. PICK f : /\ f[0] = c /\ f[Len(e)] = d1
               /\ \A k \in 1..Len(e) : f[k] = After(f[k - 1], e[k])
  BY DEF Runs
<1>2. PICK g : /\ g[0] = c /\ g[Len(e)] = d2
               /\ \A k \in 1..Len(e) : g[k] = After(g[k - 1], e[k])
  BY DEF Runs
<1> DEFINE B == {k \in 0..Len(e) : f[k] = g[k]}
<1>3. Len(e) \in Nat  BY ListParts
<1>4. 0 \in B  BY <1>1, <1>2, <1>3
<1>5. ASSUME NEW k \in 1..Len(e), k - 1 \in B  PROVE k \in B
  <2>1. f[k - 1] = g[k - 1] /\ k \in 0..Len(e)  BY <1>3, <1>5
  <2>2. f[k] = After(f[k - 1], e[k]) /\ g[k] = After(g[k - 1], e[k])  BY <1>1, <1>2
  <2>3. QED  BY <2>1, <2>2
<1> HIDE DEF B
<1>6. \A k \in 0..Len(e) : k \in B  BY <1>3, <1>4, <1>5, Upward
<1>7. Len(e) \in B
  <2>1. Len(e) \in 0..Len(e)  BY <1>3
  <2>2. QED  BY <1>6, <2>1
<1>8. QED  BY <1>1, <1>2, <1>7 DEF B

-----------------------------------------------------------------------------
LEMMA Stacks ==
  ASSUME NEW c, IsConfig(c), NEW node
  PROVE  /\ IsConfig(Push(c, node))
         /\ Push(c, node).stack # <<>>
         /\ Push(c, node).stack[Len(Push(c, node).stack)] = node
         /\ Front(Push(c, node).stack) = c.stack
         /\ Push(c, node).root = c.root
         /\ \A other : [Push(c, node).stack EXCEPT ![Len(Push(c, node).stack)] = other]
                         = Push(c, other).stack
<1> DEFINE s == c.stack
<1>1. IsList(s) /\ Len(s) \in Nat /\ DOMAIN s = 1..Len(s)  BY ListParts DEF IsConfig
<1> HIDE DEF s
<1>2. \A n : IsList(Append(s, n)) /\ Append(s, n) # <<>> /\ Len(Append(s, n)) = Len(s) + 1
             /\ Append(s, n)[Len(s) + 1] = n
             /\ \A i \in 1..Len(s) : Append(s, n)[i] = s[i]
  <2> SUFFICES ASSUME NEW n
               PROVE  /\ IsList(Append(s, n)) /\ Append(s, n) # <<>>
                      /\ Len(Append(s, n)) = Len(s) + 1
                      /\ Append(s, n)[Len(s) + 1] = n
                      /\ \A i \in 1..Len(s) : Append(s, n)[i] = s[i]
    OBVIOUS
  <2> DEFINE E == ToSet(s) \union {n}
  <2>1. s \in Seq(E)  BY <1>1 DEF IsList, ToSet
  <2>2. Append(s, n) \in Seq(E)  BY <2>1
  <2>3. IsList(Append(s, n))  BY <2>2, ToList
  <2>4. QED  BY <2>1, <2>3
<1>3. Front(Append(s, node)) = s
  <2>1. Front(Append(s, node)) = SubSeq(Append(s, node), 1, Len(s))  BY <1>1, <1>2 DEF Front
  <2>2. SubSeq(Append(s, node), 1, Len(s)) = [i \in 1..Len(s) |-> Append(s, node)[i]]
    <3> DEFINE a == Append(s, node)
    <3>1. IsList(a) /\ Len(s) \in 0..Len(a)  BY <1>1, <1>2
    <3> HIDE DEF a
    <3>2. SubSeq(a, 1, Len(s)) = [i \in 1..Len(s) |-> a[i]]  BY <1>1, <3>1 DEF IsList
    <3>3. QED  BY <3>2 DEF a
  <2>3. [i \in 1..Len(s) |-> Append(s, node)[i]] = [i \in 1..Len(s) |-> s[i]]  BY <1>2
  <2>4. QED  BY <1>1, <2>1, <2>2, <2>3, ListIs
<1>4. ASSUME NEW other
      PROVE  [Append(s, node) EXCEPT ![Len(s) + 1] = other] = Append(s, other)
  <2> DEFINE a == Append(s, node)
             b == Append(s, other)
             x == [a EXCEPT ![Len(s) + 1] = other]
  <2>1. DOMAIN a = 1..(Len(s) + 1) /\ DOMAIN b = 1..(Len(s) + 1)  BY <1>2, ListParts
  <2>2. b = [i \in 1..(Len(s) + 1) |-> b[i]]
    <3>1. IsList(b) /\ Len(b) = Len(s) + 1  BY <1>2
    <3> HIDE DEF b
    <3>2. QED  BY <3>1, ListIs
  <2>3. \A i \in 1..Len(s) : a[i] = s[i] /\ b[i] = s[i]  BY <1>2
  <2>4. b[Len(s) + 1] = other  BY <1>2
  <2> HIDE DEF a, b
  <2>5. x = [i \in 1..(Len(s) + 1) |-> IF i = Len(s) + 1 THEN other ELSE a[i]]  BY <2>1
  <2>6. \A i \in 1..(Len(s) + 1) : i # Len(s) + 1 => i \in 1..Len(s)  BY <1>1
  <2>7. \A i \in 1..(Len(s) + 1) : (IF i = Len(s) + 1 THEN other ELSE a[i]) = b[i]
    BY <2>3, <2>4, <2>6
  <2>8. x = b  BY <2>2, <2>5, <2>7
  <2>9. QED  BY <2>8 DEF a, b
<1>5. Push(c, node) = [stack |-> Append(s, node), root |-> c.root]  BY DEF Push, s
<1>6. \A other : Push(c, other).stack = Append(s, other)  BY DEF Push, s
<1>7. IsConfig(Push(c, node))  BY <1>2, <1>5 DEF IsConfig
<1>8. /\ Push(c, node).stack = Append(s, node) /\ Push(c, node).root = c.root
      /\ Len(Push(c, node).stack) = Len(s) + 1
  BY <1>2, <1>5
<1> DEFINE p == Push(c, node)
<1>9. /\ p.stack = Append(s, node) /\ p.root = c.root /\ Len(p.stack) = Len(s) + 1
      /\ IsConfig(p)
  BY <1>7, <1>8
<1> HIDE DEF p
<1>10. p.stack # <<>> /\ p.stack[Len(p.stack)] = node /\ Front(p.stack) = s
  BY <1>2, <1>3, <1>9
<1>11. ASSUME NEW other
       PROVE  [p.stack EXCEPT ![Len(p.stack)] = other] = Push(c, other).stack
  BY <1>4, <1>6, <1>9
<1>12. QED  BY <1>9, <1>10, <1>11 DEF s, p

LEMMA PushedText ==
  ASSUME NEW c, IsConfig(c), NEW name, NEW attrs, NEW kids, NEW t, NEW e,
         e.kind \in TextKinds
  PROVE  After(Push(c, OpenNode(name, attrs, kids, t)), e)
           = Push(c, OpenNode(name, attrs, kids, Joined(t, e.text)))
<1> DEFINE node == OpenNode(name, attrs, kids, t)
           next == OpenNode(name, attrs, kids, Joined(t, e.text))
           p == Push(c, node)
<1>1. e.kind \notin {"start", "empty", "end"}  BY DEF TextKinds
<1>2. /\ p.stack # <<>> /\ p.stack[Len(p.stack)] = node /\ p.root = c.root
      /\ \A other : [p.stack EXCEPT ![Len(p.stack)] = other] = Push(c, other).stack
  BY Stacks
<1>3. [node EXCEPT !.text = Joined(@, e.text)] = next  BY DEF OpenNode
<1> HIDE DEF p
<1>4. After(p, e)
        = [stack |-> [p.stack EXCEPT ![Len(p.stack)].text = Joined(@, e.text)], root |-> p.root]
  BY <1>1, <1>2 DEF After
<1>5. [p.stack EXCEPT ![Len(p.stack)].text = Joined(@, e.text)]
        = [p.stack EXCEPT ![Len(p.stack)] = [node EXCEPT !.text = Joined(@, e.text)]]
  BY <1>2
<1> HIDE DEF node, next
<1>6. After(p, e) = [stack |-> Push(c, next).stack, root |-> c.root]  BY <1>2, <1>3, <1>4, <1>5
<1>7. Push(c, next) = [stack |-> Push(c, next).stack, root |-> c.root]  BY DEF Push
<1>8. After(p, e) = Push(c, next)  BY <1>6, <1>7
<1>9. QED  BY <1>8 DEF p, node, next

LEMMA PushedKid ==
  ASSUME NEW c, IsConfig(c), NEW name, NEW attrs, NEW kids, NEW t, NEW n
  PROVE  Receive(Push(c, OpenNode(name, attrs, kids, t)), n)
           = Push(c, OpenNode(name, attrs, Append(kids, n), t))
<1> DEFINE node == OpenNode(name, attrs, kids, t)
           next == OpenNode(name, attrs, Append(kids, n), t)
           p == Push(c, node)
<1>2. /\ p.stack # <<>> /\ p.stack[Len(p.stack)] = node /\ p.root = c.root
      /\ \A other : [p.stack EXCEPT ![Len(p.stack)] = other] = Push(c, other).stack
  BY Stacks
<1>3. [node EXCEPT !.kids = Append(@, n)] = next  BY DEF OpenNode
<1> HIDE DEF p
<1>4. Receive(p, n)
        = [stack |-> [p.stack EXCEPT ![Len(p.stack)].kids = Append(@, n)], root |-> p.root]
  BY <1>2 DEF Receive
<1>5. [p.stack EXCEPT ![Len(p.stack)].kids = Append(@, n)]
        = [p.stack EXCEPT ![Len(p.stack)] = [node EXCEPT !.kids = Append(@, n)]]
  BY <1>2
<1> HIDE DEF node, next
<1>6. Receive(p, n) = [stack |-> Push(c, next).stack, root |-> c.root]
  BY <1>2, <1>3, <1>4, <1>5
<1>7. Push(c, next) = [stack |-> Push(c, next).stack, root |-> c.root]  BY DEF Push
<1>8. Receive(p, n) = Push(c, next)  BY <1>6, <1>7
<1>9. QED  BY <1>8 DEF p, node, next

LEMMA PushedEnd ==
  ASSUME NEW c, IsConfig(c), NEW node, NEW e, e.kind = "end"
  PROVE  After(Push(c, node), e) = Receive(c, Finished(node))
<1> DEFINE p == Push(c, node)
<1>1. p.stack[Len(p.stack)] = node /\ Front(p.stack) = c.stack /\ p.root = c.root  BY Stacks
<1> HIDE DEF p
<1>2. After(p, e) = Receive([stack |-> c.stack, root |-> c.root], Finished(node))
  BY <1>1 DEF After
<1>3. [stack |-> c.stack, root |-> c.root] = c  BY DEF IsConfig
<1>4. QED  BY <1>2, <1>3 DEF p

-----------------------------------------------------------------------------
\* The events e are those of one element, and n is what is made of them.
Reads(e, n) ==
  IsList(e) /\ \A c : IsConfig(c) => Runs(e, c, Receive(c, n))

IsElement(e) == \E n : Reads(e, n)
NodeOf(e) == CHOOSE n : Reads(e, n)
Nodes(elements) == [i \in DOMAIN elements |-> NodeOf(elements[i])]

Elements(list) == IsList(list) /\ \A e \in ToSet(list) : IsElement(e)

LEMMA ReadsUnique ==
  ASSUME NEW e, NEW n, Reads(e, n)
  PROVE  IsElement(e) /\ NodeOf(e) = n /\ IsList(e)
<1> DEFINE c == [stack |-> <<>>, root |-> <<>>]
<1>1. IsConfig(c)  BY DEF IsConfig, IsList
<1>2. Reads(e, NodeOf(e))  BY DEF NodeOf
<1>3. Receive(c, n) = [stack |-> <<>>, root |-> <<n>>]  BY DEF Receive
<1>4. Receive(c, NodeOf(e)) = [stack |-> <<>>, root |-> <<NodeOf(e)>>]  BY DEF Receive
<1> HIDE DEF c
<1>5. Runs(e, c, Receive(c, n)) /\ Runs(e, c, Receive(c, NodeOf(e))) /\ IsList(e)
  BY <1>1, <1>2 DEF Reads
<1>6. Receive(c, n) = Receive(c, NodeOf(e))  BY <1>5, RunsUnique
<1>7. <<n>> = <<NodeOf(e)>>  BY <1>3, <1>4, <1>6
<1>8. n = NodeOf(e)  BY <1>7
<1>9. QED  BY <1>5, <1>8 DEF IsElement

LEMMA ReadsIt ==
  ASSUME NEW e, IsElement(e)
  PROVE  Reads(e, NodeOf(e)) /\ IsList(e)
BY DEF IsElement, NodeOf, Reads

\* The texts of an open element are joined.
LEMMA RunsText ==
  ASSUME NEW c, IsConfig(c), NEW name, NEW attrs, NEW t
  PROVE  Runs(TextEvents(t), Push(c, OpenNode(name, attrs, <<>>, "")),
              Push(c, OpenNode(name, attrs, <<>>, ReadText(t))))
<1> DEFINE events == TextEvents(t)
<1>1. IsList(events) /\ Len(events) \in Nat
      /\ \A i \in 1..Len(events) : events[i].kind \in TextKinds
  BY TextFacts, ListParts
<1>2. PICK f : /\ f[0] = "" /\ f[Len(events)] = ReadText(t)
               /\ \A k \in 1..Len(events) : f[k] = Joined(f[k - 1], events[k].text)
  BY <1>1, Reading
<1> HIDE DEF events
<1> DEFINE g == [k \in 0..Len(events) |-> Push(c, OpenNode(name, attrs, <<>>, f[k]))]
<1>3. \A k \in 0..Len(events) : g[k] = Push(c, OpenNode(name, attrs, <<>>, f[k]))  OBVIOUS
<1> HIDE DEF g
<1>4. g[0] = Push(c, OpenNode(name, attrs, <<>>, ""))
  <2>1. 0 \in 0..Len(events)  BY <1>1
  <2>2. QED  BY <1>2, <1>3, <2>1
<1>5. g[Len(events)] = Push(c, OpenNode(name, attrs, <<>>, ReadText(t)))
  <2>1. Len(events) \in 0..Len(events)  BY <1>1
  <2>2. QED  BY <1>2, <1>3, <2>1
<1>6. ASSUME NEW k \in 1..Len(events)  PROVE g[k] = After(g[k - 1], events[k])
  <2>1. k \in 0..Len(events) /\ k - 1 \in 0..Len(events)  BY <1>1
  <2>2. After(Push(c, OpenNode(name, attrs, <<>>, f[k - 1])), events[k])
          = Push(c, OpenNode(name, attrs, <<>>, Joined(f[k - 1], events[k].text)))
    BY <1>1, PushedText
  <2>3. QED  BY <1>2, <1>3, <2>1, <2>2
<1>7. QED  BY <1>4, <1>5, <1>6 DEF Runs, events

\* The children of an open element are received one after the other.
LEMMA RunsKids ==
  ASSUME NEW c, IsConfig(c), NEW name, NEW attrs, NEW t, NEW list, Elements(list)
  PROVE  Runs(FlattenSeq(list), Push(c, OpenNode(name, attrs, <<>>, t)),
              Push(c, OpenNode(name, attrs, Nodes(list), t)))
<1>1. Len(list) \in Nat /\ DOMAIN list = 1..Len(list)
      /\ \A i \in 1..Len(list) : IsElement(list[i])
  BY ListParts DEF Elements
<1>2. Lists(list)  BY <1>1, ReadsIt DEF Lists, Elements
<1>3. PICK f : /\ f[0] = <<>> /\ FlattenSeq(list) = f[Len(list)]
               /\ \A i \in 1..Len(list) : f[i] = f[i - 1] \o list[i]
               /\ \A i \in 0..Len(list) : IsList(f[i])
  BY <1>2, FlatSolves
<1> DEFINE Q(k) == [i \in 1..k |-> NodeOf(list[i])]
           Good(k) == Runs(f[k], Push(c, OpenNode(name, attrs, <<>>, t)),
                           Push(c, OpenNode(name, attrs, Q(k), t)))
           B == {k \in 0..Len(list) : Good(k)}
<1>4. 0 \in B
  <2>1. Q(0) = <<>>  OBVIOUS
  <2>2. Good(0)  BY <1>3, <2>1, RunsNone
  <2>3. QED  BY <1>1, <2>2
<1>5. ASSUME NEW k \in 1..Len(list), k - 1 \in B  PROVE k \in B
  <2>1. k \in 0..Len(list) /\ k - 1 \in 0..Len(list) /\ Good(k - 1)  BY <1>1, <1>5
  <2>2. Append(Q(k - 1), NodeOf(list[k])) = Q(k)
    <3> DEFINE q == Q(k - 1)
               n == NodeOf(list[k])
    <3>1. IsList(q) /\ Len(q) = k - 1 /\ \A i \in 1..(k - 1) : q[i] = NodeOf(list[i])
      <4>1. \A i \in 1..(k - 1) : q[i] \in ToSet(q)  BY DEF ToSet
      <4>2. q \in Seq(ToSet(q))  BY <1>1, <4>1
      <4>3. QED  BY <1>1, <4>2 DEF IsList
    <3> HIDE DEF q
    <3>2. Append(q, n) = [i \in 1..k |-> IF i = k THEN n ELSE q[i]]
      <4>1. Append(q, n) = [i \in 1..(Len(q) + 1) |-> IF i = Len(q) + 1 THEN n ELSE q[i]]
        BY <3>1 DEF IsList
      <4>2. Len(q) + 1 = k  BY <1>1, <3>1
      <4>3. QED  BY <4>1, <4>2
    <3>3. \A i \in 1..k : i # k => i \in 1..(k - 1)  BY <1>1
    <3>4. \A i \in 1..k : (IF i = k THEN n ELSE q[i]) = NodeOf(list[i])  BY <3>1, <3>3
    <3>5. Append(q, n) = Q(k)  BY <3>2, <3>4
    <3>6. QED  BY <3>5 DEF q
  <2> DEFINE p == Push(c, OpenNode(name, attrs, Q(k - 1), t))
  <2>3. IsConfig(p)  BY Stacks
  <2>4. Receive(p, NodeOf(list[k])) = Push(c, OpenNode(name, attrs, Q(k), t))
    <3> DEFINE a == Q(k - 1)
               n == NodeOf(list[k])
    <3> HIDE DEF a, n
    <3>1. Receive(Push(c, OpenNode(name, attrs, a, t)), n)
            = Push(c, OpenNode(name, attrs, Append(a, n), t))
      BY PushedKid
    <3>2. QED  BY <2>2, <3>1 DEF a, n
  <2>5. Runs(list[k], p, Receive(p, NodeOf(list[k])))  BY <1>1, <2>3, ReadsIt DEF Reads
  <2>6. IsList(f[k - 1]) /\ IsList(list[k]) /\ f[k] = f[k - 1] \o list[k]
    BY <1>2, <1>1, <1>3, <2>1 DEF Lists
  <2> HIDE DEF p
  <2>7. Runs(f[k - 1], Push(c, OpenNode(name, attrs, <<>>, t)), p)  BY <2>1 DEF p
  <2>8. Runs(f[k], Push(c, OpenNode(name, attrs, <<>>, t)), Receive(p, NodeOf(list[k])))
    BY <2>5, <2>6, <2>7, RunsThen
  <2>9. Good(k)  BY <2>4, <2>8 DEF p
  <2>10. QED  BY <2>1, <2>9
<1> HIDE DEF B
<1>6. \A k \in 0..Len(list) : k \in B  BY <1>1, <1>4, <1>5, Upward
<1>7. Len(list) \in B
  <2>1. Len(list) \in 0..Len(list)  BY <1>1
  <2>2. QED  BY <1>6, <2>1
<1>8. Nodes(list) = Q(Len(list))  BY <1>1 DEF Nodes
<1>9. QED  BY <1>3, <1>7, <1>8 DEF B

ReadNode(name, attrs, list, t) ==
  Finished(OpenNode(name, ReadAttributes(attrs), Nodes(list), ReadText(t)))

\* What a reader makes of an element that was written.
LEMMA ContainerReads ==
  ASSUME NEW name, NEW attrs, NEW t, NEW list, Elements(list)
  PROVE  Reads(Container(name, attrs, t, list), ReadNode(name, attrs, list, t))
<1> DEFINE first == Tag("start", name, attrs)
           final == [kind |-> "end"]
           words == TextEvents(t)
           kids == FlattenSeq(list)
<1>1. IsList(words)  BY TextFacts
<1>2. Lists(list)
  <2>1. \A i \in DOMAIN list : IsElement(list[i])  BY ListParts DEF Elements
  <2>2. QED  BY <2>1, ReadsIt DEF Lists, Elements
<1>3. IsList(kids)  BY <1>2, FlatParts
<1>4. IsList(<<first>>) /\ IsList(<<final>>)
  <2>1. \A v : IsList(<<v>>)  BY DEF IsList, ToSet
  <2>2. QED  BY <2>1
<1>5. Container(name, attrs, t, list) = <<first>> \o words \o kids \o <<final>>
  BY DEF Container
<1> HIDE DEF words, kids
<1>6. /\ IsList(<<first>> \o words) /\ IsList((<<first>> \o words) \o kids)
      /\ IsList(((<<first>> \o words) \o kids) \o <<final>>)
  BY <1>1, <1>3, <1>4, Concat
<1>7. ASSUME NEW c, IsConfig(c)
      PROVE  Runs(((<<first>> \o words) \o kids) \o <<final>>, c,
                  Receive(c, ReadNode(name, attrs, list, t)))
  <2> DEFINE read == ReadAttributes(attrs)
             p0 == Push(c, OpenNode(name, read, <<>>, ""))
             p1 == Push(c, OpenNode(name, read, <<>>, ReadText(t)))
             p2 == Push(c, OpenNode(name, read, Nodes(list), ReadText(t)))
             p3 == Receive(c, ReadNode(name, attrs, list, t))
  <2>1. After(c, first) = p0
    <3>1. first.kind = "start" /\ Node(first) = OpenNode(name, read, <<>>, "")
      BY DEF Tag, Node, OpenNode
    <3>2. QED  BY <3>1 DEF After
  <2>2. After(p2, final) = p3
    <3>1. final.kind = "end"  OBVIOUS
    <3>2. QED  BY <1>7, <3>1, PushedEnd DEF ReadNode
  <2>3. Runs(<<first>>, c, p0)  BY <2>1, RunsOne
  <2>4. Runs(words, p0, p1)  BY <1>7, RunsText DEF words
  <2>5. Runs(kids, p1, p2)  BY <1>7, RunsKids DEF kids
  <2>6. Runs(<<final>>, p2, p3)  BY <2>2, RunsOne
  <2> HIDE DEF p0, p1, p2, p3, first, final
  <2>7. Runs(<<first>> \o words, c, p1)  BY <1>1, <1>4, <2>3, <2>4, RunsThen
  <2>8. Runs((<<first>> \o words) \o kids, c, p2)  BY <1>3, <1>6, <2>5, <2>7, RunsThen
  <2>9. Runs(((<<first>> \o words) \o kids) \o <<final>>, c, p3)
    BY <1>4, <1>6, <2>6, <2>8, RunsThen
  <2>10. QED  BY <2>9 DEF p3, first, final
<1> HIDE DEF first, final
<1>8. QED  BY <1>5, <1>6, <1>7 DEF Reads

LEMMA EmptyReads ==
  ASSUME NEW name, NEW attrs
  PROVE  Reads(<<Tag("empty", name, attrs)>>, ReadNode(name, attrs, <<>>, ""))
<1> DEFINE e == Tag("empty", name, attrs)
           n == ReadNode(name, attrs, <<>>, "")
<1>1. Nodes(<<>>) = <<>>  BY DEF Nodes
<1>2. e.kind = "empty" /\ Finished(Node(e)) = n
  BY <1>1, TextFacts DEF Tag, Node, ReadNode, OpenNode
<1>3. \A c : After(c, e) = Receive(c, n)  BY <1>2 DEF After
<1> HIDE DEF e, n
<1>4. IsList(<<e>>)  BY DEF IsList, ToSet
<1>5. \A c : Runs(<<e>>, c, Receive(c, n))  BY <1>3, RunsOne
<1>6. Reads(<<e>>, n)  BY <1>4, <1>5 DEF Reads
<1>7. QED  BY <1>6 DEF e, n

-----------------------------------------------------------------------------
\* Events as they are when they are read and written again.
LEMMA AsReadParts ==
  ASSUME NEW e, IsList(e)
  PROVE  /\ IsList(AsRead(e)) /\ Len(AsRead(e)) = Len(e)
         /\ \A i \in 1..Len(e) : AsRead(e)[i] = TagAsRead(e[i])
         /\ \A x : x \in ToSet(AsRead(e)) <=> \E y \in ToSet(e) : x = TagAsRead(y)
<1> DEFINE g == AsRead(e)
<1>1. g = [i \in DOMAIN e |-> TagAsRead(e[i])]  BY DEF AsRead, Each
<1>2. g = [i \in DOMAIN e |-> g[i]]  BY <1>1
<1>3. Len(e) \in Nat /\ DOMAIN e = 1..Len(e)  BY ListParts
<1>4. \A i \in 1..Len(e) : g[i] = TagAsRead(e[i])  BY <1>1, <1>3
<1> HIDE DEF g
<1>5. IsList(g) /\ Len(g) = Len(e)
      /\ \A x : x \in ToSet(g) <=> \E i \in DOMAIN e : x = g[i]
  BY <1>2, Mapped
<1>6. \A y : y \in ToSet(e) <=> \E i \in DOMAIN e : y = e[i]  BY DEF ToSet
<1>7. \A x : x \in ToSet(g) <=> \E y \in ToSet(e) : x = TagAsRead(y)
  BY <1>3, <1>4, <1>5, <1>6
<1>8. QED  BY <1>4, <1>5, <1>7 DEF g

LEMMA AsReadConcat ==
  ASSUME NEW a, NEW b, IsList(a), IsList(b)
  PROVE  AsRead(a \o b) = AsRead(a) \o AsRead(b)
<1> DEFINE s == a \o b
           ra == AsRead(a)
           rb == AsRead(b)
           rs == AsRead(s)
<1>1. /\ IsList(s) /\ Len(s) = Len(a) + Len(b)
      /\ \A i \in 1..Len(a) : s[i] = a[i]
      /\ \A i \in 1..Len(b) : s[Len(a) + i] = b[i]
  BY Concat
<1> HIDE DEF s
<1>2. /\ IsList(ra) /\ Len(ra) = Len(a) /\ \A i \in 1..Len(a) : ra[i] = TagAsRead(a[i])
      /\ IsList(rb) /\ Len(rb) = Len(b) /\ \A i \in 1..Len(b) : rb[i] = TagAsRead(b[i])
      /\ IsList(rs) /\ Len(rs) = Len(s) /\ \A i \in 1..Len(s) : rs[i] = TagAsRead(s[i])
  BY <1>1, AsReadParts
<1> HIDE DEF ra, rb, rs
<1> DEFINE t == ra \o rb
<1>3. /\ IsList(t) /\ Len(t) = Len(a) + Len(b)
      /\ \A i \in 1..Len(a) : t[i] = ra[i]
      /\ \A i \in 1..Len(b) : t[Len(a) + i] = rb[i]
  BY <1>2, Concat
<1> HIDE DEF t
<1>4. Len(a) \in Nat /\ Len(b) \in Nat  BY ListParts
<1>5. ASSUME NEW i \in 1..Len(s)  PROVE rs[i] = t[i]
  <2>1. CASE i <= Len(a)
    <3>1. i \in 1..Len(a)  BY <1>1, <1>4, <2>1
    <3>2. QED  BY <1>1, <1>2, <1>3, <3>1
  <2>2. CASE ~(i <= Len(a))
    <3> DEFINE k == i - Len(a)
    <3>1. k \in 1..Len(b) /\ i = Len(a) + k  BY <1>1, <1>4, <2>2
    <3> HIDE DEF k
    <3>2. s[i] = b[k] /\ t[i] = rb[k]  BY <1>1, <1>3, <3>1
    <3>3. QED  BY <1>2, <3>1, <3>2
  <2>3. QED  BY <2>1, <2>2
<1>6. rs = t  BY <1>1, <1>2, <1>3, <1>5, SameList
<1>7. QED  BY <1>6 DEF rs, t, ra, rb, s

LEMMA AsReadNone ==
  AsRead(<<>>) = <<>> /\ \A e : AsRead(<<e>>) = <<TagAsRead(e)>>
<1>1. AsRead(<<>>) = <<>>  BY DEF AsRead, Each
<1>2. ASSUME NEW e  PROVE AsRead(<<e>>) = <<TagAsRead(e)>>
  <2> DEFINE x == TagAsRead(e)
  <2>1. AsRead(<<e>>) = [i \in {1} |-> x]  BY DEF AsRead, Each
  <2> HIDE DEF x
  <2>2. [i \in {1} |-> x] = <<x>>  OBVIOUS
  <2>3. QED  BY <2>1, <2>2 DEF x
<1>3. QED  BY <1>1, <1>2

LEMMA AsReadText ==
  ASSUME NEW t
  PROVE  AsRead(TextEvents(t)) = TextEvents(t)
<1> DEFINE e == TextEvents(t)
<1>1. IsList(e) /\ \A i \in 1..Len(e) : e[i].kind \in TextKinds  BY TextFacts
<1> HIDE DEF e
<1>2. \A i \in 1..Len(e) : TagAsRead(e[i]) = e[i]  BY <1>1 DEF TagAsRead, TextKinds
<1>3. IsList(AsRead(e)) /\ Len(AsRead(e)) = Len(e) /\ \A i \in 1..Len(e) : AsRead(e)[i] = e[i]
  BY <1>1, <1>2, AsReadParts
<1>4. AsRead(e) = e  BY <1>1, <1>3, SameList
<1>5. QED  BY <1>4 DEF e

LEMMA AsReadFlat ==
  ASSUME NEW P, Lists(P), NEW Q, Q = [i \in DOMAIN P |-> AsRead(P[i])]
  PROVE  AsRead(FlattenSeq(P)) = FlattenSeq(Q) /\ Lists(Q)
<1>1. Len(P) \in Nat /\ DOMAIN P = 1..Len(P) /\ IsList(P)  BY ListParts DEF Lists
<1>2. \A i \in DOMAIN P : Q[i] = AsRead(P[i])  OBVIOUS
<1>3. Q = [i \in DOMAIN P |-> Q[i]]  BY <1>2
<1>4. IsList(Q) /\ Len(Q) = Len(P) /\ DOMAIN Q = DOMAIN P  BY <1>1, <1>3, Mapped
<1>5. Lists(Q)  BY <1>2, <1>4, AsReadParts DEF Lists
<1>6. PICK f : /\ f[0] = <<>> /\ FlattenSeq(P) = f[Len(P)]
               /\ \A i \in 1..Len(P) : f[i] = f[i - 1] \o P[i]
               /\ \A k \in 0..Len(P) : IsList(f[k])
  BY FlatSolves
<1>7a. \E g : /\ g[0] = <<>> /\ FlattenSeq(Q) = g[Len(Q)]
               /\ \A i \in 1..Len(Q) : g[i] = g[i - 1] \o Q[i]
               /\ \A k \in 0..Len(Q) : IsList(g[k])
  BY <1>5, FlatSolves
<1>7. PICK g : /\ g[0] = <<>> /\ FlattenSeq(Q) = g[Len(P)]
               /\ \A i \in 1..Len(P) : g[i] = g[i - 1] \o Q[i]
  BY <1>4, <1>7a
<1> DEFINE B == {k \in 0..Len(P) : AsRead(f[k]) = g[k]}
<1>8. 0 \in B  BY <1>1, <1>6, <1>7, AsReadNone
<1>9. ASSUME NEW k \in 1..Len(P), k - 1 \in B  PROVE k \in B
  <2>1. k \in 0..Len(P) /\ k - 1 \in 0..Len(P) /\ AsRead(f[k - 1]) = g[k - 1]  BY <1>1, <1>9
  <2>2. IsList(f[k - 1]) /\ IsList(P[k]) /\ f[k] = f[k - 1] \o P[k]
    BY <1>1, <1>6, <2>1 DEF Lists
  <2>3. AsRead(f[k]) = AsRead(f[k - 1]) \o AsRead(P[k])  BY <2>2, AsReadConcat
  <2>4. g[k] = g[k - 1] \o Q[k] /\ Q[k] = AsRead(P[k])  BY <1>1, <1>2, <1>7
  <2>5. QED  BY <2>1, <2>3, <2>4
<1> HIDE DEF B
<1>10. \A k \in 0..Len(P) : k \in B  BY <1>1, <1>8, <1>9, Upward
<1>11. Len(P) \in B
  <2>1. Len(P) \in 0..Len(P)  BY <1>1
  <2>2. QED  BY <1>10, <2>1
<1>12. QED  BY <1>5, <1>6, <1>7, <1>11 DEF B

LEMMA ContainerAsRead ==
  ASSUME NEW name, NEW attrs, NEW t, NEW list, Lists(list),
         NEW kids, kids = [i \in DOMAIN list |-> AsRead(list[i])]
  PROVE  AsRead(Container(name, attrs, t, list))
           = Container(name, ReadAttributes(attrs), t, kids)
<1> DEFINE first == Tag("start", name, attrs)
           final == [kind |-> "end"]
           words == TextEvents(t)
           flat == FlattenSeq(list)
<1>1. TagAsRead(first) = Tag("start", name, ReadAttributes(attrs))  BY DEF TagAsRead, Tag
<1>2. TagAsRead(final) = final  BY DEF TagAsRead
<1>3. IsList(words) /\ AsRead(words) = words  BY TextFacts, AsReadText
<1>4. IsList(flat) /\ AsRead(flat) = FlattenSeq(kids)  BY FlatParts, AsReadFlat
<1>5. Container(name, attrs, t, list) = ((<<first>> \o words) \o flat) \o <<final>>
  BY DEF Container
<1>6. Container(name, ReadAttributes(attrs), t, kids)
        = ((<<TagAsRead(first)>> \o words) \o FlattenSeq(kids)) \o <<final>>
  BY <1>1 DEF Container
<1> HIDE DEF first, final, words, flat
<1>7. IsList(<<first>>) /\ IsList(<<final>>)
  <2>1. \A v : IsList(<<v>>)  BY DEF IsList, ToSet
  <2>2. QED  BY <2>1
<1> DEFINE opened == <<first>> \o words
           filled == opened \o flat
<1>8. IsList(opened)  BY <1>3, <1>7, Concat
<1>9. AsRead(opened) = <<TagAsRead(first)>> \o words
  <2>1. AsRead(<<first>> \o words) = AsRead(<<first>>) \o AsRead(words)
    BY <1>3, <1>7, AsReadConcat
  <2>2. AsRead(<<first>>) = <<TagAsRead(first)>>  BY AsReadNone
  <2>3. QED  BY <1>3, <2>1, <2>2
<1> HIDE DEF opened
<1>10. IsList(filled) /\ AsRead(filled) = AsRead(opened) \o FlattenSeq(kids)
  BY <1>4, <1>8, AsReadConcat, Concat
<1> HIDE DEF filled
<1>11. AsRead(filled \o <<final>>) = AsRead(filled) \o <<final>>
  <2>1. AsRead(filled \o <<final>>) = AsRead(filled) \o AsRead(<<final>>)
    BY <1>7, <1>10, AsReadConcat
  <2>2. AsRead(<<final>>) = <<final>>  BY <1>2, AsReadNone
  <2>3. QED  BY <2>1, <2>2
<1>12. QED  BY <1>5, <1>6, <1>9, <1>10, <1>11 DEF opened, filled

-----------------------------------------------------------------------------
\* Elements that are carried unread: what is written for them is an element
\* again, and reading it gives their name, text and children, and their
\* attributes as they are read.
Mirror(n) ==
  [name |-> n.name, attrs |-> ReadAttributes(n.attrs),
   kids |-> [i \in DOMAIN n.kids |-> NodeOf(n.kids[i].xml)],
   text |-> ReadText(n.text), xml |-> AsRead(n.xml)]

Hereditary(S) ==
  \A n \in S :
    /\ n = [name |-> n.name, attrs |-> n.attrs, kids |-> n.kids, text |-> n.text,
            xml |-> n.xml]
    /\ IsList(n.kids) /\ ToSet(n.kids) \subseteq S
    /\ Reads(n.xml, Mirror(n))

LEMMA MirrorReads ==
  ASSUME NEW S, Hereditary(S), NEW n,
         n = [name |-> n.name, attrs |-> n.attrs, kids |-> n.kids, text |-> n.text,
              xml |-> NodeXml(n)],
         IsList(n.kids), ToSet(n.kids) \subseteq S
  PROVE  Reads(n.xml, Mirror(n)) /\ Hereditary(S \union {n})
<1> DEFINE xmls == [i \in DOMAIN n.kids |-> n.kids[i].xml]
           m == ReadNode(n.name, n.attrs, xmls, n.text)
<1>1. /\ Len(n.kids) \in Nat /\ DOMAIN n.kids = 1..Len(n.kids)
      /\ \A i \in DOMAIN n.kids : n.kids[i] \in S
  BY ListParts
<1>2. IsList(xmls) /\ Len(xmls) = Len(n.kids) /\ DOMAIN xmls = DOMAIN n.kids
      /\ \A x : x \in ToSet(xmls) <=> \E i \in DOMAIN n.kids : x = xmls[i]
  <2>1. \A i \in DOMAIN n.kids : xmls[i] = n.kids[i].xml  OBVIOUS
  <2>2. xmls = [i \in DOMAIN n.kids |-> xmls[i]]  BY <2>1
  <2> HIDE DEF xmls
  <2>3. QED  BY <2>2, Mapped
<1>3. \A i \in DOMAIN n.kids : xmls[i] = n.kids[i].xml  OBVIOUS
<1>4. ASSUME NEW i \in DOMAIN n.kids
      PROVE  /\ IsElement(n.kids[i].xml) /\ IsList(n.kids[i].xml)
             /\ NodeOf(n.kids[i].xml).xml = AsRead(n.kids[i].xml)
  <2>1. Reads(n.kids[i].xml, Mirror(n.kids[i]))  BY <1>1 DEF Hereditary
  <2>2. /\ IsElement(n.kids[i].xml) /\ NodeOf(n.kids[i].xml) = Mirror(n.kids[i])
        /\ IsList(n.kids[i].xml)
    BY <2>1, ReadsUnique
  <2>3. QED  BY <2>2 DEF Mirror
<1>5. Elements(xmls) /\ Lists(xmls)  BY <1>2, <1>3, <1>4 DEF Elements, Lists
<1>6. Nodes(xmls) = [i \in DOMAIN n.kids |-> NodeOf(n.kids[i].xml)]  BY <1>2, <1>3 DEF Nodes
<1> DEFINE reads == [i \in DOMAIN xmls |-> AsRead(xmls[i])]
<1>7. [i \in DOMAIN Nodes(xmls) |-> Nodes(xmls)[i].xml] = reads  BY <1>2, <1>3, <1>4, <1>6
<1> HIDE DEF xmls
<1>8. Each(n.kids, LAMBDA kid : kid.xml) = xmls  BY DEF xmls, Each
<1>9. Each(Nodes(xmls), LAMBDA kid : kid.xml) = reads  BY <1>7 DEF Each
<1>10. n.kids = <<>> <=> Nodes(xmls) = <<>>
  <2>1. DOMAIN Nodes(xmls) = DOMAIN n.kids  BY <1>6
  <2>2. n.kids = <<>> => Nodes(xmls) = <<>>  BY <1>6
  <2>3. ASSUME Nodes(xmls) = <<>>  PROVE Len(n.kids) = 0
    <3>1. DOMAIN n.kids = {}  BY <2>1, <2>3
    <3> DEFINE k == Len(n.kids)
    <3>2. k \in Nat /\ 1..k = {}  BY <1>1, <3>1
    <3> HIDE DEF k
    <3>3. k = 0  BY ONLY <3>2
    <3>4. QED  BY <3>3 DEF k
  <2>4. Len(n.kids) = 0 => n.kids = <<>>  BY DEF IsList
  <2>5. QED  BY <2>2, <2>3, <2>4
<1>11. ReadText(n.text) = "" <=> n.text = ""  BY TextFacts
<1>12. TextEvents(ReadText(n.text)) = TextEvents(n.text)  BY TextFacts
<1> DEFINE attrs == ReadAttributes(n.attrs)
           open == OpenNode(n.name, attrs, Nodes(xmls), ReadText(n.text))
<1>13. NodeXml(open) = AsRead(NodeXml(n))
  <2>1. /\ open.kids = Nodes(xmls) /\ open.text = ReadText(n.text)
        /\ open.name = n.name /\ open.attrs = attrs
    BY DEF OpenNode
  <2> HIDE DEF open
  <2>2. Container(open.name, open.attrs, open.text, reads)
          = AsRead(Container(n.name, n.attrs, n.text, xmls))
    <3>1. AsRead(Container(n.name, n.attrs, n.text, xmls))
            = Container(n.name, attrs, n.text, reads)
      BY <1>5, ContainerAsRead
    <3> HIDE DEF attrs, reads
    <3>2. Container(open.name, open.attrs, open.text, reads)
            = Container(n.name, attrs, n.text, reads)
      BY <1>12, <2>1 DEF Container
    <3>3. QED  BY <3>1, <3>2
  <2>3. <<Tag("empty", open.name, open.attrs)>> = AsRead(<<Tag("empty", n.name, n.attrs)>>)
    <3>1. TagAsRead(Tag("empty", n.name, n.attrs)) = Tag("empty", n.name, attrs)
      BY DEF TagAsRead, Tag
    <3>2. QED  BY <2>1, <3>1, AsReadNone
  <2> HIDE DEF attrs, reads
  <2>4. NodeXml(open) = IF open.kids = <<>> /\ open.text = ""
                        THEN <<Tag("empty", open.name, open.attrs)>>
                        ELSE Container(open.name, open.attrs, open.text, reads)
    BY <1>9, <2>1 DEF NodeXml
  <2>5. NodeXml(n) = IF n.kids = <<>> /\ n.text = ""
                     THEN <<Tag("empty", n.name, n.attrs)>>
                     ELSE Container(n.name, n.attrs, n.text, xmls)
    BY <1>8 DEF NodeXml
  <2>6. QED  BY <1>10, <1>11, <2>1, <2>2, <2>3, <2>4, <2>5
<1>14. m = Mirror(n)
  <2>1. n.xml = NodeXml(n)  OBVIOUS
  <2>2. m = [open EXCEPT !.xml = NodeXml(open)]  BY DEF ReadNode, Finished
  <2>3. m = [name |-> n.name, attrs |-> attrs, kids |-> Nodes(xmls),
             text |-> ReadText(n.text), xml |-> NodeXml(open)]
    BY <2>2 DEF OpenNode
  <2>4. QED  BY <1>6, <1>13, <2>1, <2>3 DEF Mirror
<1>15. Reads(n.xml, m)
  <2>1. n.xml = NodeXml(n)  OBVIOUS
  <2>2. CASE n.kids = <<>> /\ n.text = ""
    <3>1. n.xml = <<Tag("empty", n.name, n.attrs)>>  BY <2>1, <2>2 DEF NodeXml
    <3>2. Nodes(xmls) = <<>>  BY <1>10, <2>2
    <3>3. Nodes(<<>>) = <<>>  BY DEF Nodes
    <3>4. m = ReadNode(n.name, n.attrs, <<>>, "")  BY <2>2, <3>2, <3>3, TextFacts DEF ReadNode
    <3>5. QED  BY <3>1, <3>4, EmptyReads
  <2>3. CASE ~(n.kids = <<>> /\ n.text = "")
    <3>1. n.xml = Container(n.name, n.attrs, n.text, xmls)  BY <1>8, <2>1, <2>3 DEF NodeXml
    <3>2. QED  BY <1>5, <3>1, ContainerReads
  <2>4. QED  BY <2>2, <2>3
<1>16. Reads(n.xml, Mirror(n))  BY <1>14, <1>15
<1>17. ASSUME NEW o \in S \union {n}
       PROVE  /\ o = [name |-> o.name, attrs |-> o.attrs, kids |-> o.kids,
                      text |-> o.text, xml |-> o.xml]
              /\ IsList(o.kids) /\ ToSet(o.kids) \subseteq S \union {n}
              /\ Reads(o.xml, Mirror(o))
  <2>1. CASE o \in S  BY <2>1 DEF Hereditary
  <2>2. CASE o = n
    <3>1. n = [name |-> n.name, attrs |-> n.attrs, kids |-> n.kids, text |-> n.text,
               xml |-> n.xml]
      OBVIOUS
    <3>2. QED  BY <1>16, <2>2, <3>1
  <2>3. QED  BY <2>1, <2>2
<1>18. QED  BY <1>16, <1>17 DEF Hereditary

-----------------------------------------------------------------------------
(***************************************************************************)
(* The parts of an element: lists of children that are found again under     *)
(* their names, options, and the elements that triggers have in common.      *)
(***************************************************************************)
\* Lists that are written down: the elements of all their parts.
LEMMA Flat2 ==
  ASSUME NEW p1, NEW p2, IsList(p1), IsList(p2)
  PROVE  /\ IsList(FlattenSeq(<<p1, p2>>))
         /\ \A x : x \in ToSet(FlattenSeq(<<p1, p2>>)) <=>
                     x \in ToSet(p1) \/ x \in ToSet(p2)
<1> DEFINE P == <<p1, p2>>
<1>1. IsList(P) /\ DOMAIN P = 1..2  BY DEF IsList, ToSet
<1>2. P[1] = p1 /\ P[2] = p2
  OBVIOUS
<1> HIDE DEF P
<1>3. Lists(P)  BY <1>1, <1>2 DEF Lists
<1>4. IsList(FlattenSeq(P))  BY <1>3, FlatParts
<1>5. \A x : x \in ToSet(FlattenSeq(P)) <=> \E i \in 1..2 : x \in ToSet(P[i])
  BY <1>1, <1>3, FlatParts
<1>6. \A x : (\E i \in 1..2 : x \in ToSet(P[i])) <=>
              x \in ToSet(p1) \/ x \in ToSet(p2)
  BY <1>2
<1>7. QED  BY <1>4, <1>5, <1>6 DEF P

LEMMA Flat3 ==
  ASSUME NEW p1, NEW p2, NEW p3, IsList(p1), IsList(p2), IsList(p3)
  PROVE  /\ IsList(FlattenSeq(<<p1, p2, p3>>))
         /\ \A x : x \in ToSet(FlattenSeq(<<p1, p2, p3>>)) <=>
                     x \in ToSet(p1) \/ x \in ToSet(p2) \/ x \in ToSet(p3)
<1> DEFINE P == <<p1, p2, p3>>
<1>1. IsList(P) /\ DOMAIN P = 1..3  BY DEF IsList, ToSet
<1>2. P[1] = p1 /\ P[2] = p2 /\ P[3] = p3
  OBVIOUS
<1> HIDE DEF P
<1>3. Lists(P)  BY <1>1, <1>2 DEF Lists
<1>4. IsList(FlattenSeq(P))  BY <1>3, FlatParts
<1>5. \A x : x \in ToSet(FlattenSeq(P)) <=> \E i \in 1..3 : x \in ToSet(P[i])
  BY <1>1, <1>3, FlatParts
<1>6. \A x : (\E i \in 1..3 : x \in ToSet(P[i])) <=>
              x \in ToSet(p1) \/ x \in ToSet(p2) \/ x \in ToSet(p3)
  BY <1>2
<1>7. QED  BY <1>4, <1>5, <1>6 DEF P

LEMMA Flat4 ==
  ASSUME NEW p1, NEW p2, NEW p3, NEW p4, IsList(p1), IsList(p2), IsList(p3),
         IsList(p4)
  PROVE  /\ IsList(FlattenSeq(<<p1, p2, p3, p4>>))
         /\ \A x : x \in ToSet(FlattenSeq(<<p1, p2, p3, p4>>)) <=>
                     x \in ToSet(p1) \/ x \in ToSet(p2) \/ x \in ToSet(p3) \/
                     x \in ToSet(p4)
<1> DEFINE P == <<p1, p2, p3, p4>>
<1>1. IsList(P) /\ DOMAIN P = 1..4  BY DEF IsList, ToSet
<1>2. P[1] = p1 /\ P[2] = p2 /\ P[3] = p3 /\ P[4] = p4
  OBVIOUS
<1> HIDE DEF P
<1>3. Lists(P)  BY <1>1, <1>2 DEF Lists
<1>4. IsList(FlattenSeq(P))  BY <1>3, FlatParts
<1>5. \A x : x \in ToSet(FlattenSeq(P)) <=> \E i \in 1..4 : x \in ToSet(P[i])
  BY <1>1, <1>3, FlatParts
<1>6. \A x : (\E i \in 1..4 : x \in ToSet(P[i])) <=>
              x \in ToSet(p1) \/ x \in ToSet(p2) \/ x \in ToSet(p3) \/
              x \in ToSet(p4)
  BY <1>2
<1>7. QED  BY <1>4, <1>5, <1>6 DEF P

LEMMA Flat5 ==
  ASSUME NEW p1, NEW p2, NEW p3, NEW p4, NEW p5, IsList(p1), IsList(p2),
         IsList(p3), IsList(p4), IsList(p5)
  PROVE  /\ IsList(FlattenSeq(<<p1, p2, p3, p4, p5>>))
         /\ \A x : x \in ToSet(FlattenSeq(<<p1, p2, p3, p4, p5>>)) <=>
                     x \in ToSet(p1) \/ x \in ToSet(p2) \/ x \in ToSet(p3) \/
                     x \in ToSet(p4) \/ x \in ToSet(p5)
<1> DEFINE P == <<p1, p2, p3, p4, p5>>
<1>1. IsList(P) /\ DOMAIN P = 1..5  BY DEF IsList, ToSet
<1>2. P[1] = p1 /\ P[2] = p2 /\ P[3] = p3 /\ P[4] = p4 /\ P[5] = p5
  OBVIOUS
<1> HIDE DEF P
<1>3. Lists(P)  BY <1>1, <1>2 DEF Lists
<1>4. IsList(FlattenSeq(P))  BY <1>3, FlatParts
<1>5. \A x : x \in ToSet(FlattenSeq(P)) <=> \E i \in 1..5 : x \in ToSet(P[i])
  BY <1>1, <1>3, FlatParts
<1>6. \A x : (\E i \in 1..5 : x \in ToSet(P[i])) <=>
              x \in ToSet(p1) \/ x \in ToSet(p2) \/ x \in ToSet(p3) \/
              x \in ToSet(p4) \/ x \in ToSet(p5)
  BY <1>2
<1>7. QED  BY <1>4, <1>5, <1>6 DEF P

LEMMA Flat6 ==
  ASSUME NEW p1, NEW p2, NEW p3, NEW p4, NEW p5, NEW p6, IsList(p1), IsList(p2),
         IsList(p3), IsList(p4), IsList(p5), IsList(p6)
  PROVE  /\ IsList(FlattenSeq(<<p1, p2, p3, p4, p5, p6>>))
         /\ \A x : x \in ToSet(FlattenSeq(<<p1, p2, p3, p4, p5, p6>>)) <=>
                     x \in ToSet(p1) \/ x \in ToSet(p2) \/ x \in ToSet(p3) \/
                     x \in ToSet(p4) \/ x \in ToSet(p5) \/ x \in ToSet(p6)
<1> DEFINE P == <<p1, p2, p3, p4, p5, p6>>
<1>1. IsList(P) /\ DOMAIN P = 1..6  BY DEF IsList, ToSet
<1>2. P[1] = p1 /\ P[2] = p2 /\ P[3] = p3 /\ P[4] = p4 /\ P[5] = p5 /\ P[6] = p6
  OBVIOUS
<1> HIDE DEF P
<1>3. Lists(P)  BY <1>1, <1>2 DEF Lists
<1>4. IsList(FlattenSeq(P))  BY <1>3, FlatParts
<1>5. \A x : x \in ToSet(FlattenSeq(P)) <=> \E i \in 1..6 : x \in ToSet(P[i])
  BY <1>1, <1>3, FlatParts
<1>6. \A x : (\E i \in 1..6 : x \in ToSet(P[i])) <=>
              x \in ToSet(p1) \/ x \in ToSet(p2) \/ x \in ToSet(p3) \/
              x \in ToSet(p4) \/ x \in ToSet(p5) \/ x \in ToSet(p6)
  BY <1>2
<1>7. QED  BY <1>4, <1>5, <1>6 DEF P

LEMMA Flat21 ==
  ASSUME NEW p1, NEW p2, NEW p3, NEW p4, NEW p5, NEW p6, NEW p7, NEW p8, NEW p9,
         NEW p10, NEW p11, NEW p12, NEW p13, NEW p14, NEW p15, NEW p16, NEW p17,
         NEW p18, NEW p19, NEW p20, NEW p21, IsList(p1), IsList(p2), IsList(p3),
         IsList(p4), IsList(p5), IsList(p6), IsList(p7), IsList(p8), IsList(p9),
         IsList(p10), IsList(p11), IsList(p12), IsList(p13), IsList(p14),
         IsList(p15), IsList(p16), IsList(p17), IsList(p18), IsList(p19),
         IsList(p20), IsList(p21)
  PROVE  /\ IsList(FlattenSeq(<<p1, p2, p3, p4, p5, p6, p7, p8, p9, p10, p11, p12, p13, p14, p15, p16, p17, p18, p19, p20, p21>>))
         /\ \A x : x \in ToSet(FlattenSeq(<<p1, p2, p3, p4, p5, p6, p7, p8, p9, p10, p11, p12, p13, p14, p15, p16, p17, p18, p19, p20, p21>>)) <=>
                     x \in ToSet(p1) \/ x \in ToSet(p2) \/ x \in ToSet(p3) \/
                     x \in ToSet(p4) \/ x \in ToSet(p5) \/ x \in ToSet(p6) \/
                     x \in ToSet(p7) \/ x \in ToSet(p8) \/ x \in ToSet(p9) \/
                     x \in ToSet(p10) \/ x \in ToSet(p11) \/ x \in ToSet(p12) \/
                     x \in ToSet(p13) \/ x \in ToSet(p14) \/ x \in ToSet(p15) \/
                     x \in ToSet(p16) \/ x \in ToSet(p17) \/ x \in ToSet(p18) \/
                     x \in ToSet(p19) \/ x \in ToSet(p20) \/ x \in ToSet(p21)
<1> DEFINE P == <<p1, p2, p3, p4, p5, p6, p7, p8, p9, p10, p11, p12, p13, p14, p15, p16, p17, p18, p19, p20, p21>>
<1>1. IsList(P) /\ DOMAIN P = 1..21  BY DEF IsList, ToSet
<1>2. P[1] = p1 /\ P[2] = p2 /\ P[3] = p3 /\ P[4] = p4 /\ P[5] = p5 /\ P[6] = p6 /\
      P[7] = p7 /\ P[8] = p8 /\ P[9] = p9 /\ P[10] = p10 /\ P[11] = p11 /\
      P[12] = p12 /\ P[13] = p13 /\ P[14] = p14 /\ P[15] = p15 /\ P[16] = p16 /\
      P[17] = p17 /\ P[18] = p18 /\ P[19] = p19 /\ P[20] = p20 /\ P[21] = p21
  OBVIOUS
<1> HIDE DEF P
<1>3. Lists(P)  BY <1>1, <1>2 DEF Lists
<1>4. IsList(FlattenSeq(P))  BY <1>3, FlatParts
<1>5. \A x : x \in ToSet(FlattenSeq(P)) <=> \E i \in 1..21 : x \in ToSet(P[i])
  BY <1>1, <1>3, FlatParts
<1>6. \A x : (\E i \in 1..21 : x \in ToSet(P[i])) <=>
              x \in ToSet(p1) \/ x \in ToSet(p2) \/ x \in ToSet(p3) \/
              x \in ToSet(p4) \/ x \in ToSet(p5) \/ x \in ToSet(p6) \/
              x \in ToSet(p7) \/ x \in ToSet(p8) \/ x \in ToSet(p9) \/
              x \in ToSet(p10) \/ x \in ToSet(p11) \/ x \in ToSet(p12) \/
              x \in ToSet(p13) \/ x \in ToSet(p14) \/ x \in ToSet(p15) \/
              x \in ToSet(p16) \/ x \in ToSet(p17) \/ x \in ToSet(p18) \/
              x \in ToSet(p19) \/ x \in ToSet(p20) \/ x \in ToSet(p21)
  BY <1>2
<1>7. QED  BY <1>4, <1>5, <1>6 DEF P

-----------------------------------------------------------------------------
\* An option is a list of at most one value.
LEMMA Options ==
  ASSUME NEW v, IsOption(v)
  PROVE  /\ IsList(v) /\ Len(v) <= 1 /\ v = [i \in DOMAIN v |-> v[i]]
         /\ v # None => v = <<v[1]>> /\ DOMAIN v = {1} /\ ToSet(v) = {v[1]}
         /\ v = None => DOMAIN v = {} /\ ToSet(v) = {}
<1>1. CASE v = None  BY <1>1 DEF None, IsList, ToSet
<1>2. CASE v # None
  <2> DEFINE x == v[1]
  <2>1. v = <<x>>  BY <1>2 DEF IsOption, Some
  <2> HIDE DEF x
  <2>2. /\ IsList(<<x>>) /\ Len(<<x>>) <= 1 /\ DOMAIN <<x>> = {1}
        /\ <<x>> = [i \in DOMAIN <<x>> |-> <<x>>[i]] /\ ToSet(<<x>>) = {x} /\ <<x>>[1] = x
    BY DEF IsList, ToSet
  <2>3. QED  BY <1>2, <2>1, <2>2
<1>3. QED  BY <1>1, <1>2

\* What is in a list of elements under a name.
Offers(list, name, part) ==
  /\ Elements(list) /\ IsList(part) /\ Len(part) <= 1
  /\ ToSet(part) \subseteq ToSet(list)
  /\ \A e \in ToSet(list) : NodeOf(e).name = name <=> e \in ToSet(part)

\* The reader finds what was written under a name, wherever it stands.
LEMMA Lookup ==
  ASSUME NEW node, NEW list, NEW name, NEW part, node.kids = Nodes(list),
         Offers(list, name, part)
  PROVE  Child(node, name) = Nodes(part)
<1> DEFINE named == {i \in DOMAIN node.kids : node.kids[i].name = name}
<1>1. /\ Len(list) \in Nat /\ DOMAIN list = 1..Len(list)
      /\ \A i \in DOMAIN list : list[i] \in ToSet(list)
  BY ListParts DEF Offers, Elements
<1>2. DOMAIN node.kids = DOMAIN list /\ \A i \in DOMAIN list : node.kids[i] = NodeOf(list[i])
  BY DEF Nodes
<1>3. \A i \in DOMAIN list : i \in named <=> list[i] \in ToSet(part)  BY <1>1, <1>2 DEF Offers
<1>4. Len(part) \in Nat /\ DOMAIN part = 1..Len(part) /\ part = [i \in 1..Len(part) |-> part[i]]
  BY ListParts, ListIs DEF Offers
<1>5. Child(node, name) = IF named = {} THEN None ELSE Some(node.kids[Min(named)])
  BY DEF Child
<1>6. CASE Len(part) = 0
  <2>1. part = <<>>  BY <1>6 DEF Offers, IsList
  <2>2. ToSet(part) = {}  BY <2>1 DEF ToSet
  <2>3. named = {}  BY <1>2, <1>3, <2>2
  <2>4. Nodes(part) = <<>>  BY <2>1 DEF Nodes
  <2>5. QED  BY <1>5, <2>3, <2>4 DEF None
<1>7. CASE Len(part) # 0
  <2>1. Len(part) = 1  BY <1>4, <1>7 DEF Offers
  <2> DEFINE x == part[1]
  <2>2. part = <<x>>  BY <1>4, <2>1
  <2> HIDE DEF x
  <2>3. ToSet(part) = {x} /\ Nodes(part) = <<NodeOf(x)>>  BY <2>2 DEF ToSet, Nodes
  <2>4. PICK i \in DOMAIN list : list[i] = x  BY <2>3 DEF Offers, ToSet
  <2>5. i \in named  BY <1>3, <2>3, <2>4
  <2>6. named \in SUBSET Nat /\ named # {}  BY <1>1, <1>2, <2>5
  <2> HIDE DEF named
  <2>7. \E n \in named : \A m \in named : n <= m  BY <2>6, Least
  <2>8. Min(named) \in named  BY <2>7 DEF Min
  <2>9. Min(named) \in DOMAIN list  BY <1>2, <2>8 DEF named
  <2>10. list[Min(named)] = x  BY <1>3, <2>3, <2>8, <2>9
  <2>11. node.kids[Min(named)] = NodeOf(x)  BY <1>2, <2>9, <2>10
  <2>12. QED  BY <1>5, <2>3, <2>6, <2>11 DEF Some
<1>8. QED  BY <1>6, <1>7

\* Elements of one name, at most one of them.
PartOf(part, name) ==
  /\ Elements(part) /\ Len(part) <= 1
  /\ \A e \in ToSet(part) : NodeOf(e).name = name

\* What is written for an option.
LEMMA EachPart ==
  ASSUME NEW v, IsOption(v), NEW name, NEW part, part = [i \in DOMAIN v |-> part[i]],
         \A i \in DOMAIN v : IsElement(part[i]) /\ NodeOf(part[i]).name = name
  PROVE  /\ PartOf(part, name) /\ Nodes(part) = [i \in DOMAIN v |-> NodeOf(part[i])]
         /\ v = None => part = <<>>
<1>1. IsList(v) /\ Len(v) <= 1  BY Options
<1>2. IsList(part) /\ Len(part) = Len(v) /\ DOMAIN part = DOMAIN v
      /\ \A x : x \in ToSet(part) <=> \E i \in DOMAIN v : x = part[i]
  BY <1>1, Mapped
<1>3. \A x \in ToSet(part) : IsElement(x) /\ NodeOf(x).name = name  BY <1>2
<1>4. v = None => part = <<>>
  <2>1. v = None => Len(part) = 0  BY <1>2 DEF None
  <2>2. QED  BY <1>2, <2>1 DEF IsList
<1>5. QED  BY <1>1, <1>2, <1>3, <1>4 DEF PartOf, Elements, Nodes

-----------------------------------------------------------------------------
\* An element that holds a text.
LEMMA TextElement ==
  ASSUME NEW name, NEW t
  PROVE  /\ IsElement(Element(name, t)) /\ NodeOf(Element(name, t)).name = name
         /\ NodeOf(Element(name, t)).text = ReadText(t)
<1>1. Elements(<<>>)  BY DEF Elements, IsList, ToSet
<1> DEFINE n == ReadNode(name, <<>>, <<>>, t)
<1>2. n.name = name /\ n.text = ReadText(t)  BY DEF ReadNode, Finished, OpenNode
<1> HIDE DEF n
<1>3. Reads(Element(name, t), n)  BY <1>1, ContainerReads DEF Element, n
<1>4. IsElement(Element(name, t)) /\ NodeOf(Element(name, t)) = n  BY <1>3, ReadsUnique
<1>5. QED  BY <1>2, <1>4

\* An element that holds elements.
LEMMA PlainElement ==
  ASSUME NEW name, NEW attrs, NEW t, NEW list, Elements(list)
  PROVE  /\ IsElement(Container(name, attrs, t, list))
         /\ NodeOf(Container(name, attrs, t, list)).name = name
         /\ NodeOf(Container(name, attrs, t, list)).kids = Nodes(list)
         /\ NodeOf(Container(name, attrs, t, list)).attrs = ReadAttributes(attrs)
         /\ NodeOf(Container(name, attrs, t, list)).text = ReadText(t)
<1> DEFINE e == Container(name, attrs, t, list)
           n == ReadNode(name, attrs, list, t)
<1>1. /\ n.name = name /\ n.kids = Nodes(list) /\ n.attrs = ReadAttributes(attrs) /\ n.text = ReadText(t)
  BY DEF ReadNode, Finished, OpenNode
<1> HIDE DEF n
<1>2. Reads(e, n)  BY ContainerReads DEF n
<1> HIDE DEF e
<1>3. IsElement(e) /\ NodeOf(e) = n  BY <1>2, ReadsUnique
<1>4. QED  BY <1>1, <1>3 DEF e

LEMMA TextPart ==
  ASSUME NEW name, NEW v, IsOption(v)
  PROVE  /\ PartOf(OptionalElement(name, v), name)
         /\ \A node : Child(node, name) = Nodes(OptionalElement(name, v)) =>
              ChildText(node, name) = Texts(v)
<1> DEFINE part == [i \in DOMAIN v |-> Element(name, v[i])]
<1>1. OptionalElement(name, v) = part  BY DEF OptionalElement, Each
<1>2. \A i \in DOMAIN v : part[i] = Element(name, v[i])  OBVIOUS
<1>3. part = [i \in DOMAIN v |-> part[i]]  OBVIOUS
<1> HIDE DEF part
<1>4. \A i \in DOMAIN v : /\ IsElement(part[i]) /\ NodeOf(part[i]).name = name
                          /\ NodeOf(part[i]).text = ReadText(v[i])
  BY <1>2, TextElement
<1>5. PartOf(part, name) /\ Nodes(part) = [i \in DOMAIN v |-> NodeOf(part[i])]
  BY <1>3, <1>4, EachPart
<1>6. ASSUME NEW node, Child(node, name) = Nodes(part)
      PROVE  ChildText(node, name) = Texts(v)
  <2>1. ChildText(node, name)
          = [i \in DOMAIN Child(node, name) |-> Child(node, name)[i].text]
    BY DEF ChildText, Each
  <2>2. Texts(v) = [i \in DOMAIN v |-> ReadText(v[i])]  BY DEF Texts, Each
  <2>3. QED  BY <1>4, <1>5, <1>6, <2>1, <2>2
<1>7. QED  BY <1>1, <1>5, <1>6

\* One element is what is written for an option with a value.
LEMMA OnePart ==
  ASSUME NEW name, NEW t
  PROVE  <<Element(name, t)>> = OptionalElement(name, <<t>>) /\ IsOption(<<t>>)
<1>1. Each(<<t>>, LAMBDA v : Element(name, v)) = [i \in {1} |-> Element(name, t)]  BY DEF Each
<1> DEFINE e == Element(name, t)
<1> HIDE DEF e
<1>2. [i \in {1} |-> e] = <<e>>  OBVIOUS
<1>3. QED  BY <1>1, <1>2 DEF OptionalElement, IsOption, Some, e

\* The words of values are read back as they are.
LEMMA WordsKept ==
  ASSUME NEW t \in Words
  PROVE  ReadText(t) = t /\ t # ""
BY WordsAssumption, TextFacts

LEMMA TextsOfWords ==
  ASSUME NEW v, IsOption(v), ToSet(v) \subseteq Words
  PROVE  Texts(v) = v
<1>1. \A i \in DOMAIN v : ReadText(v[i]) = v[i]  BY WordsKept DEF ToSet
<1>2. Texts(v) = [i \in DOMAIN v |-> v[i]]  BY <1>1 DEF Texts, Each
<1>3. QED  BY <1>2, Options

LEMMA OptionEach ==
  ASSUME NEW v, IsOption(v), NEW g, g = [i \in DOMAIN v |-> g[i]]
  PROVE  IsOption(g) /\ (g = None <=> v = None)
<1>1. CASE v = None
  <2>1. DOMAIN v = {}  BY <1>1, Options
  <2>2. g = <<>>  BY <2>1
  <2>3. QED  BY <1>1, <2>2 DEF IsOption, None
<1>2. CASE v # None
  <2>1. DOMAIN v = {1}  BY <1>2, Options
  <2> DEFINE x == g[1]
  <2>2. g = [i \in {1} |-> x]  BY <2>1
  <2> HIDE DEF x
  <2>3. g = <<x>>  BY <2>2
  <2>4. QED  BY <1>2, <2>3 DEF IsOption, None, Some
<1>3. QED  BY <1>1, <1>2

LEMMA WordPart ==
  ASSUME NEW name, NEW v, IsOption(v), ToSet(v) \subseteq Words
  PROVE  /\ PartOf(OptionalElement(name, v), name)
         /\ \A node : Child(node, name) = Nodes(OptionalElement(name, v)) =>
              ChildText(node, name) = v
BY TextPart, TextsOfWords

LEMMA DatePart ==
  ASSUME NEW name, NEW v, IsOption(v), ToSet(v) \subseteq Dates
  PROVE  /\ PartOf(OptionalElement(name, v), name)
         /\ \A node : Child(node, name) = Nodes(OptionalElement(name, v)) =>
              DateReadable(node, name) /\ ChildText(node, name) = v
<1>1. ToSet(v) \subseteq Words  BY DEF Words
<1>2. QED  BY <1>1, WordPart DEF DateReadable

LEMMA DurationPart ==
  ASSUME NEW name, NEW v, IsDelay(v)
  PROVE  /\ PartOf(OptionalElement(name, v), name)
         /\ \A node : Child(node, name) = Nodes(OptionalElement(name, v)) =>
              DurationReadable(node, name) /\ DurationOf(node, name) = v
<1>1. IsOption(v) /\ \A t \in ToSet(v) : t \in DOMAIN Durations /\ Durations[t] = t
  BY DEF IsDelay, IsDuration
<1>2. ToSet(v) \subseteq Words  BY <1>1 DEF Words
<1>3. ASSUME NEW node, ChildText(node, name) = v
      PROVE  DurationReadable(node, name) /\ DurationOf(node, name) = v
  <2>1. DurationReadable(node, name)  BY <1>1, <1>3 DEF DurationReadable
  <2>2. DurationOf(node, name) = [i \in DOMAIN v |-> Durations[v[i]]]
    BY <1>3 DEF DurationOf, Each
  <2>3. \A i \in DOMAIN v : Durations[v[i]] = v[i]  BY <1>1 DEF ToSet
  <2>4. v = [i \in DOMAIN v |-> v[i]]  BY <1>1, Options
  <2>5. QED  BY <2>1, <2>2, <2>3, <2>4
<1>4. QED  BY <1>1, <1>2, <1>3, WordPart

LEMMA LimitPart ==
  ASSUME NEW name, NEW v, IsOption(v), \A l \in ToSet(v) : IsLimit(l)
  PROVE  LET part == OptionalElement(name, Each(v, LimitText))
         IN /\ PartOf(part, name)
            /\ \A node : Child(node, name) = Nodes(part) =>
                 /\ DurationReadable(node, name)
                 /\ LimitOf(node, name) = Each(v, CanonicalLimit)
<1> DEFINE g == [i \in DOMAIN v |-> LimitText(v[i])]
<1>1. Each(v, LimitText) = g  BY DEF Each
<1>2. \A i \in DOMAIN v : g[i] = LimitText(v[i]) /\ IsLimit(v[i])  BY DEF ToSet
<1>3. g = [i \in DOMAIN v |-> g[i]]  OBVIOUS
<1>4. DOMAIN g = DOMAIN v  OBVIOUS
<1> HIDE DEF g
<1>5. IsOption(g)  BY <1>3, OptionEach
<1>6. \A i \in DOMAIN v : IsDuration(g[i]) /\ ParseLimit(g[i]) = CanonicalLimit(v[i])
  <2>1. IsDuration("PT0S")  BY TaskXmlAssumption
  <2>2. QED  BY <1>2, <2>1 DEF IsLimit, IsDuration, LimitText, ParseLimit, CanonicalLimit
<1>7. \A t \in ToSet(g) : t \in DOMAIN Durations /\ t \in Words
  BY <1>4, <1>6 DEF ToSet, Words, IsDuration
<1>8. ASSUME NEW node, ChildText(node, name) = g
      PROVE  DurationReadable(node, name) /\ LimitOf(node, name) = Each(v, CanonicalLimit)
  <2>1. DurationReadable(node, name)  BY <1>7, <1>8 DEF DurationReadable
  <2>2. LimitOf(node, name) = [i \in DOMAIN v |-> ParseLimit(g[i])]
    BY <1>4, <1>8 DEF LimitOf, Each
  <2>3. Each(v, CanonicalLimit) = [i \in DOMAIN v |-> CanonicalLimit(v[i])]  BY DEF Each
  <2>4. QED  BY <1>6, <2>1, <2>2, <2>3
<1>9. PartOf(OptionalElement(name, g), name)
      /\ \A node : Child(node, name) = Nodes(OptionalElement(name, g)) =>
           ChildText(node, name) = g
  BY <1>5, <1>7, WordPart
<1>10. QED  BY <1>1, <1>8, <1>9

LEMMA NumberPart ==
  ASSUME NEW name, NEW v, IsOption(v), \A n \in ToSet(v) : IsNumber(n)
  PROVE  LET part == OptionalElement(name, Each(v, ToString))
         IN /\ PartOf(part, name)
            /\ \A node : Child(node, name) = Nodes(part) =>
                 /\ ToSet(ChildText(node, name)) \subseteq DOMAIN Numbers
                 /\ NumberOf(node, name) = v
                 /\ \A most : (\A n \in ToSet(v) : n <= most) =>
                      NumberReadable(node, name, most)
<1> DEFINE g == [i \in DOMAIN v |-> ToString(v[i])]
<1>1. Each(v, ToString) = g  BY DEF Each
<1>2. \A i \in DOMAIN v : g[i] = ToString(v[i]) /\ IsNumber(v[i]) /\ v[i] \in ToSet(v)
  BY DEF ToSet
<1>3. g = [i \in DOMAIN v |-> g[i]] /\ DOMAIN g = DOMAIN v  OBVIOUS
<1> HIDE DEF g
<1>4. IsOption(g)  BY <1>3, OptionEach
<1>5. \A i \in DOMAIN v : g[i] \in DOMAIN Numbers /\ Numbers[g[i]] = v[i]
  BY <1>2 DEF IsNumber
<1>6. \A t \in ToSet(g) : /\ t \in DOMAIN Numbers /\ t \in Words
                          /\ Numbers[t] \in ToSet(v)
  BY <1>2, <1>3, <1>5 DEF ToSet, Words
<1>7. ASSUME NEW node, ChildText(node, name) = g
      PROVE  /\ ToSet(ChildText(node, name)) \subseteq DOMAIN Numbers
             /\ NumberOf(node, name) = v
             /\ \A most : (\A n \in ToSet(v) : n <= most) =>
                  NumberReadable(node, name, most)
  <2>1. NumberOf(node, name) = [i \in DOMAIN v |-> Numbers[g[i]]]
    BY <1>3, <1>7 DEF NumberOf, Each
  <2>2. v = [i \in DOMAIN v |-> v[i]]  BY Options
  <2>3. NumberOf(node, name) = v  BY <1>5, <2>1, <2>2
  <2>4. QED  BY <1>6, <1>7, <2>3 DEF NumberReadable
<1>8. PartOf(OptionalElement(name, g), name)
      /\ \A node : Child(node, name) = Nodes(OptionalElement(name, g)) =>
           ChildText(node, name) = g
  BY <1>4, <1>6, WordPart
<1>9. QED  BY <1>1, <1>7, <1>8

-----------------------------------------------------------------------------
\* The text of a child that is there.
LEMMA HasText ==
  ASSUME NEW node, NEW name, NEW t, ChildText(node, name) = <<t>>
  PROVE  Has(node, name) /\ TextOf(node, name) = t
<1>1. ChildText(node, name) = [i \in DOMAIN Child(node, name) |-> Child(node, name)[i].text]
  BY DEF ChildText, Each
<1>2. DOMAIN Child(node, name) = {1}  BY <1>1
<1>3. <<t>>[1] = Child(node, name)[1].text  BY <1>1, <1>2
<1>4. Child(node, name) # <<>>  BY <1>2
<1>5. QED  BY <1>3, <1>4 DEF Has, TextOf, None

LEMMA OneText ==
  ASSUME NEW name, NEW t
  PROVE  /\ PartOf(<<Element(name, t)>>, name)
         /\ \A node : Child(node, name) = Nodes(<<Element(name, t)>>) =>
              /\ Has(node, name) /\ TextOf(node, name) = ReadText(t)
              /\ ChildText(node, name) = <<ReadText(t)>>
<1>1. <<Element(name, t)>> = OptionalElement(name, <<t>>) /\ IsOption(<<t>>)  BY OnePart
<1>2. Texts(<<t>>) = <<ReadText(t)>>
  <2> DEFINE r == ReadText(t)
  <2>1. Texts(<<t>>) = [i \in {1} |-> r]  BY DEF Texts, Each
  <2> HIDE DEF r
  <2>2. [i \in {1} |-> r] = <<r>>  OBVIOUS
  <2>3. QED  BY <2>1, <2>2 DEF r
<1>3. QED  BY <1>1, <1>2, TextPart, HasText

LEMMA OneWord ==
  ASSUME NEW name, NEW t \in Words
  PROVE  /\ PartOf(<<Element(name, t)>>, name)
         /\ \A node : Child(node, name) = Nodes(<<Element(name, t)>>) =>
              /\ Has(node, name) /\ TextOf(node, name) = t
              /\ ChildText(node, name) = <<t>>
BY OneText, WordsKept

LEMMA OneDuration ==
  ASSUME NEW name, NEW t, IsDuration(t)
  PROVE  /\ PartOf(<<Element(name, t)>>, name)
         /\ \A node : Child(node, name) = Nodes(<<Element(name, t)>>) =>
              /\ Has(node, name) /\ DurationReadable(node, name)
              /\ DurationOf(node, name) = <<t>> /\ ChildText(node, name) = <<t>>
<1>1. t \in Words  BY DEF IsDuration, Words
<1>2. ToSet(<<t>>) = {t}  BY DEF ToSet
<1>3. IsDelay(<<t>>)  BY <1>2, OnePart DEF IsDelay
<1>4. <<Element(name, t)>> = OptionalElement(name, <<t>>)  BY OnePart
<1>5. QED  BY <1>1, <1>3, <1>4, DurationPart, OneWord

LEMMA OneNumber ==
  ASSUME NEW name, NEW n, IsNumber(n)
  PROVE  /\ PartOf(<<Element(name, ToString(n))>>, name)
         /\ \A node : Child(node, name) = Nodes(<<Element(name, ToString(n))>>) =>
              /\ Has(node, name) /\ NumberOf(node, name) = <<n>>
              /\ TextOf(node, name) = ToString(n)
              /\ \A most : n <= most => NumberReadable(node, name, most)
<1> DEFINE t == ToString(n)
<1>1. t \in Words /\ t \in DOMAIN Numbers /\ Numbers[t] = n  BY DEF IsNumber, Words
<1> HIDE DEF t
<1>2. ASSUME NEW node, ChildText(node, name) = <<t>>
      PROVE  /\ NumberOf(node, name) = <<n>>
             /\ \A most : n <= most => NumberReadable(node, name, most)
  <2>1. NumberOf(node, name) = [i \in {1} |-> Numbers[t]]  BY <1>2 DEF NumberOf, Each
  <2>2. [i \in {1} |-> n] = <<n>>  OBVIOUS
  <2>3. ToSet(<<t>>) = {t}  BY DEF ToSet
  <2>4. QED  BY <1>1, <1>2, <2>1, <2>2, <2>3 DEF NumberReadable
<1>3. QED  BY <1>1, <1>2, OneWord DEF t

LEMMA BoolPart ==
  ASSUME NEW name, NEW b \in BOOLEAN
  PROVE  /\ PartOf(<<BoolElement(name, b)>>, name)
         /\ \A node : Child(node, name) = Nodes(<<BoolElement(name, b)>>) =>
              BoolReadable(node, name) /\ \A default : BoolOf(node, name, default) = b
<1> DEFINE t == IF b THEN "true" ELSE "false"
<1>1. t \in Words /\ t \in {"true", "1", "false", "0"} /\ (t \in {"true", "1"} <=> b)
  BY DEF Words
<1>2. BoolElement(name, b) = Element(name, t)  BY DEF BoolElement
<1> HIDE DEF t
<1>3. ASSUME NEW node, ChildText(node, name) = <<t>>
      PROVE  BoolReadable(node, name) /\ \A default : BoolOf(node, name, default) = b
  <2>1. ToSet(<<t>>) = {t}  BY DEF ToSet
  <2>2. BoolReadable(node, name)  BY <1>1, <1>3, <2>1 DEF BoolReadable
  <2> DEFINE o == Each(ChildText(node, name), LAMBDA u : u \in {"true", "1"})
  <2>3. o = [i \in {1} |-> t \in {"true", "1"}]  BY <1>3 DEF Each
  <2>4. o # <<>> /\ o[1] = (t \in {"true", "1"})  BY <2>3
  <2>5. ASSUME NEW default  PROVE BoolOf(node, name, default) = b
    <3>1. BoolOf(node, name, default) = IF o = <<>> THEN default ELSE o[1]
      BY DEF BoolOf, OrElse, None
    <3> HIDE DEF o
    <3>2. QED  BY <1>1, <2>4, <3>1
  <2>6. QED  BY <2>2, <2>5
<1>4. QED  BY <1>1, <1>2, <1>3, OneWord

\* What is read of a child that is not there.
LEMMA Absent ==
  ASSUME NEW node, NEW name, Child(node, name) = <<>>
  PROVE  /\ ~Has(node, name) /\ ChildText(node, name) = <<>>
         /\ BoolReadable(node, name) /\ \A default : BoolOf(node, name, default) = default
         /\ DurationReadable(node, name) /\ DurationOf(node, name) = <<>>
         /\ DateReadable(node, name) /\ LimitOf(node, name) = <<>>
         /\ NumberOf(node, name) = <<>> /\ \A most : NumberReadable(node, name, most)
<1>1. ChildText(node, name) = <<>>  BY DEF ChildText, Each
<1>2. ToSet(<<>>) = {}  BY DEF ToSet
<1>3. /\ ~Has(node, name) /\ BoolReadable(node, name) /\ DurationReadable(node, name)
      /\ DateReadable(node, name) /\ \A most : NumberReadable(node, name, most)
  BY <1>1, <1>2 DEF Has, None, BoolReadable, DurationReadable, DateReadable, NumberReadable
<1>4. DurationOf(node, name) = <<>>  BY <1>1 DEF DurationOf, Each
<1>5. LimitOf(node, name) = <<>>  BY <1>1 DEF LimitOf, Each
<1>6. NumberOf(node, name) = <<>>  BY <1>1 DEF NumberOf, Each
<1>7. \A default : BoolOf(node, name, default) = default
  <2>1. Each(ChildText(node, name), LAMBDA u : u \in {"true", "1"}) = <<>>  BY <1>1 DEF Each
  <2>2. QED  BY <2>1 DEF BoolOf, OrElse, None
<1>8. QED  BY <1>1, <1>3, <1>4, <1>5, <1>6, <1>7

LEMMA NoPart ==
  ASSUME NEW name
  PROVE  PartOf(<<>>, name) /\ Nodes(<<>>) = <<>>
BY DEF PartOf, Elements, IsList, ToSet, Nodes

LEMMA RaisedPart ==
  ASSUME NEW name, NEW b \in BOOLEAN
  PROVE  /\ PartOf(Raised(name, b), name)
         /\ \A node : Child(node, name) = Nodes(Raised(name, b)) =>
              BoolReadable(node, name) /\ BoolOf(node, name, FALSE) = b
<1>1. CASE b
  <2>1. Raised(name, b) = <<BoolElement(name, TRUE)>>  BY <1>1 DEF Raised
  <2>2. QED  BY <1>1, <2>1, BoolPart
<1>2. CASE ~b
  <2>1. Raised(name, b) = <<>>  BY <1>2 DEF Raised
  <2>2. QED  BY <1>2, <2>1, NoPart, Absent
<1>3. QED  BY <1>1, <1>2

\* The names of the elements of a list.
Menu(list, names) == Elements(list) /\ \A e \in ToSet(list) : NodeOf(e).name \in names

LEMMA NotOffered ==
  ASSUME NEW list, NEW names, Menu(list, names), NEW name, name \notin names
  PROVE  Offers(list, name, <<>>)
<1>1. IsList(<<>>) /\ Len(<<>>) = 0 /\ ToSet(<<>>) = {}  BY DEF IsList, ToSet
<1>2. QED  BY <1>1 DEF Offers, Menu

\* What is offered under a name stays so when others are added.
LEMMA OfferedAmong ==
  ASSUME NEW a, NEW list, NEW name, NEW part, Offers(a, name, part), Elements(list),
         ToSet(a) \subseteq ToSet(list),
         \A e \in ToSet(list) : e \in ToSet(a) \/ NodeOf(e).name # name
  PROVE  Offers(list, name, part)
BY DEF Offers

LEMMA OnePartMenu ==
  ASSUME NEW part, NEW name, PartOf(part, name)
  PROVE  Menu(part, {name}) /\ Offers(part, name, part)
BY DEF PartOf, Menu, Offers, Elements

\* Lists of parts with different names.
LEMMA Parts2 ==
  ASSUME NEW p1, NEW p2, NEW n1, NEW n2, PartOf(p1, n1), PartOf(p2, n2), n1 # n2
  PROVE  /\ Menu(FlattenSeq(<<p1, p2>>), {n1, n2})
         /\ Offers(FlattenSeq(<<p1, p2>>), n1, p1)
         /\ Offers(FlattenSeq(<<p1, p2>>), n2, p2)
<1> DEFINE list == FlattenSeq(<<p1, p2>>)
<1>1. IsList(p1) /\ IsList(p2)  BY DEF PartOf, Elements
<1>2. /\ IsList(list)
      /\ \A x : x \in ToSet(list) <=>
             x \in ToSet(p1) \/ x \in ToSet(p2)
  BY <1>1, Flat2
<1> HIDE DEF list
<1>3. Elements(list)  BY <1>2 DEF PartOf, Elements
<1>4. Menu(list, {n1, n2})  BY <1>2, <1>3 DEF Menu, PartOf
<1>5. Offers(list, n1, p1)  BY <1>2, <1>3 DEF Offers, PartOf, Elements
<1>6. Offers(list, n2, p2)  BY <1>2, <1>3 DEF Offers, PartOf, Elements
<1>7. QED  BY <1>4, <1>5, <1>6 DEF list

LEMMA Parts3 ==
  ASSUME NEW p1, NEW p2, NEW p3, NEW n1, NEW n2, NEW n3, PartOf(p1, n1),
         PartOf(p2, n2), PartOf(p3, n3), n1 # n2, n1 # n3, n2 # n3
  PROVE  /\ Menu(FlattenSeq(<<p1, p2, p3>>), {n1, n2, n3})
         /\ Offers(FlattenSeq(<<p1, p2, p3>>), n1, p1)
         /\ Offers(FlattenSeq(<<p1, p2, p3>>), n2, p2)
         /\ Offers(FlattenSeq(<<p1, p2, p3>>), n3, p3)
<1> DEFINE list == FlattenSeq(<<p1, p2, p3>>)
<1>1. IsList(p1) /\ IsList(p2) /\ IsList(p3)  BY DEF PartOf, Elements
<1>2. /\ IsList(list)
      /\ \A x : x \in ToSet(list) <=>
             x \in ToSet(p1) \/ x \in ToSet(p2) \/ x \in ToSet(p3)
  BY <1>1, Flat3
<1> HIDE DEF list
<1>3. Elements(list)  BY <1>2 DEF PartOf, Elements
<1>4. Menu(list, {n1, n2, n3})  BY <1>2, <1>3 DEF Menu, PartOf
<1>5. Offers(list, n1, p1)  BY <1>2, <1>3 DEF Offers, PartOf, Elements
<1>6. Offers(list, n2, p2)  BY <1>2, <1>3 DEF Offers, PartOf, Elements
<1>7. Offers(list, n3, p3)  BY <1>2, <1>3 DEF Offers, PartOf, Elements
<1>8. QED  BY <1>4, <1>5, <1>6, <1>7 DEF list

LEMMA Parts4 ==
  ASSUME NEW p1, NEW p2, NEW p3, NEW p4, NEW n1, NEW n2, NEW n3, NEW n4,
         PartOf(p1, n1), PartOf(p2, n2), PartOf(p3, n3), PartOf(p4, n4), n1 # n2, n1 # n3,
         n1 # n4, n2 # n3, n2 # n4, n3 # n4
  PROVE  /\ Menu(FlattenSeq(<<p1, p2, p3, p4>>), {n1, n2, n3, n4})
         /\ Offers(FlattenSeq(<<p1, p2, p3, p4>>), n1, p1)
         /\ Offers(FlattenSeq(<<p1, p2, p3, p4>>), n2, p2)
         /\ Offers(FlattenSeq(<<p1, p2, p3, p4>>), n3, p3)
         /\ Offers(FlattenSeq(<<p1, p2, p3, p4>>), n4, p4)
<1> DEFINE list == FlattenSeq(<<p1, p2, p3, p4>>)
<1>1. IsList(p1) /\ IsList(p2) /\ IsList(p3) /\ IsList(p4)  BY DEF PartOf, Elements
<1>2. /\ IsList(list)
      /\ \A x : x \in ToSet(list) <=>
             x \in ToSet(p1) \/ x \in ToSet(p2) \/ x \in ToSet(p3) \/
             x \in ToSet(p4)
  BY <1>1, Flat4
<1> HIDE DEF list
<1>3. Elements(list)  BY <1>2 DEF PartOf, Elements
<1>4. Menu(list, {n1, n2, n3, n4})  BY <1>2, <1>3 DEF Menu, PartOf
<1>5. Offers(list, n1, p1)  BY <1>2, <1>3 DEF Offers, PartOf, Elements
<1>6. Offers(list, n2, p2)  BY <1>2, <1>3 DEF Offers, PartOf, Elements
<1>7. Offers(list, n3, p3)  BY <1>2, <1>3 DEF Offers, PartOf, Elements
<1>8. Offers(list, n4, p4)  BY <1>2, <1>3 DEF Offers, PartOf, Elements
<1>9. QED  BY <1>4, <1>5, <1>6, <1>7, <1>8 DEF list

LEMMA Parts5 ==
  ASSUME NEW p1, NEW p2, NEW p3, NEW p4, NEW p5, NEW n1, NEW n2, NEW n3, NEW n4,
         NEW n5, PartOf(p1, n1), PartOf(p2, n2), PartOf(p3, n3), PartOf(p4, n4),
         PartOf(p5, n5), n1 # n2, n1 # n3, n1 # n4, n1 # n5, n2 # n3, n2 # n4,
         n2 # n5, n3 # n4, n3 # n5, n4 # n5
  PROVE  /\ Menu(FlattenSeq(<<p1, p2, p3, p4, p5>>), {n1, n2, n3, n4, n5})
         /\ Offers(FlattenSeq(<<p1, p2, p3, p4, p5>>), n1, p1)
         /\ Offers(FlattenSeq(<<p1, p2, p3, p4, p5>>), n2, p2)
         /\ Offers(FlattenSeq(<<p1, p2, p3, p4, p5>>), n3, p3)
         /\ Offers(FlattenSeq(<<p1, p2, p3, p4, p5>>), n4, p4)
         /\ Offers(FlattenSeq(<<p1, p2, p3, p4, p5>>), n5, p5)
<1> DEFINE list == FlattenSeq(<<p1, p2, p3, p4, p5>>)
<1>1. IsList(p1) /\ IsList(p2) /\ IsList(p3) /\ IsList(p4) /\ IsList(p5)  BY DEF PartOf, Elements
<1>2. /\ IsList(list)
      /\ \A x : x \in ToSet(list) <=>
             x \in ToSet(p1) \/ x \in ToSet(p2) \/ x \in ToSet(p3) \/
             x \in ToSet(p4) \/ x \in ToSet(p5)
  BY <1>1, Flat5
<1> HIDE DEF list
<1>3. Elements(list)  BY <1>2 DEF PartOf, Elements
<1>4. Menu(list, {n1, n2, n3, n4, n5})  BY <1>2, <1>3 DEF Menu, PartOf
<1>5. Offers(list, n1, p1)  BY <1>2, <1>3 DEF Offers, PartOf, Elements
<1>6. Offers(list, n2, p2)  BY <1>2, <1>3 DEF Offers, PartOf, Elements
<1>7. Offers(list, n3, p3)  BY <1>2, <1>3 DEF Offers, PartOf, Elements
<1>8. Offers(list, n4, p4)  BY <1>2, <1>3 DEF Offers, PartOf, Elements
<1>9. Offers(list, n5, p5)  BY <1>2, <1>3 DEF Offers, PartOf, Elements
<1>10. QED  BY <1>4, <1>5, <1>6, <1>7, <1>8, <1>9 DEF list

LEMMA Parts6 ==
  ASSUME NEW p1, NEW p2, NEW p3, NEW p4, NEW p5, NEW p6, NEW n1, NEW n2, NEW n3,
         NEW n4, NEW n5, NEW n6, PartOf(p1, n1), PartOf(p2, n2), PartOf(p3, n3),
         PartOf(p4, n4), PartOf(p5, n5), PartOf(p6, n6), n1 # n2, n1 # n3, n1 # n4,
         n1 # n5, n1 # n6, n2 # n3, n2 # n4, n2 # n5, n2 # n6, n3 # n4, n3 # n5,
         n3 # n6, n4 # n5, n4 # n6, n5 # n6
  PROVE  /\ Menu(FlattenSeq(<<p1, p2, p3, p4, p5, p6>>), {n1, n2, n3, n4, n5, n6})
         /\ Offers(FlattenSeq(<<p1, p2, p3, p4, p5, p6>>), n1, p1)
         /\ Offers(FlattenSeq(<<p1, p2, p3, p4, p5, p6>>), n2, p2)
         /\ Offers(FlattenSeq(<<p1, p2, p3, p4, p5, p6>>), n3, p3)
         /\ Offers(FlattenSeq(<<p1, p2, p3, p4, p5, p6>>), n4, p4)
         /\ Offers(FlattenSeq(<<p1, p2, p3, p4, p5, p6>>), n5, p5)
         /\ Offers(FlattenSeq(<<p1, p2, p3, p4, p5, p6>>), n6, p6)
<1> DEFINE list == FlattenSeq(<<p1, p2, p3, p4, p5, p6>>)
<1>1. IsList(p1) /\ IsList(p2) /\ IsList(p3) /\ IsList(p4) /\ IsList(p5) /\
      IsList(p6)  BY DEF PartOf, Elements
<1>2. /\ IsList(list)
      /\ \A x : x \in ToSet(list) <=>
             x \in ToSet(p1) \/ x \in ToSet(p2) \/ x \in ToSet(p3) \/
             x \in ToSet(p4) \/ x \in ToSet(p5) \/ x \in ToSet(p6)
  BY <1>1, Flat6
<1> HIDE DEF list
<1>3. Elements(list)  BY <1>2 DEF PartOf, Elements
<1>4. Menu(list, {n1, n2, n3, n4, n5, n6})  BY <1>2, <1>3 DEF Menu, PartOf
<1>5. Offers(list, n1, p1)  BY <1>2, <1>3 DEF Offers, PartOf, Elements
<1>6. Offers(list, n2, p2)  BY <1>2, <1>3 DEF Offers, PartOf, Elements
<1>7. Offers(list, n3, p3)  BY <1>2, <1>3 DEF Offers, PartOf, Elements
<1>8. Offers(list, n4, p4)  BY <1>2, <1>3 DEF Offers, PartOf, Elements
<1>9. Offers(list, n5, p5)  BY <1>2, <1>3 DEF Offers, PartOf, Elements
<1>10. Offers(list, n6, p6)  BY <1>2, <1>3 DEF Offers, PartOf, Elements
<1>11. QED  BY <1>4, <1>5, <1>6, <1>7, <1>8, <1>9, <1>10 DEF list

LEMMA PlainReads ==
  ASSUME NEW name, NEW list, Elements(list)
  PROVE  /\ IsElement(Plain(name, list)) /\ NodeOf(Plain(name, list)).name = name
         /\ NodeOf(Plain(name, list)).kids = Nodes(list)
<1> DEFINE attrs == <<>>
           t == ""
           e == Container(name, attrs, t, list)
<1>1. Plain(name, list) = e  BY DEF Plain
<1> HIDE DEF attrs, t
<1>2. IsElement(e) /\ NodeOf(e).name = name /\ NodeOf(e).kids = Nodes(list)
  BY PlainElement
<1>3. QED  BY <1>1, <1>2

-----------------------------------------------------------------------------
LEMMA RepetitionReads ==
  ASSUME NEW r, IsRepetition(r)
  PROVE  LET e == RepetitionElement(r)
         IN /\ IsElement(e) /\ NodeOf(e).name = "Repetition"
            /\ RepetitionReadable(NodeOf(e)) /\ RepetitionOf(NodeOf(e)) = r
<1> DEFINE p1 == <<Element("Interval", r.interval)>>
           p2 == OptionalElement("Duration", r.duration)
           p3 == <<BoolElement("StopAtDurationEnd", r.stop_at_duration_end)>>
           list == FlattenSeq(<<p1, p2, p3>>)
           e == Plain("Repetition", list)
           n == NodeOf(e)
<1>1. /\ PartOf(p1, "Interval")
      /\ Child(n, "Interval") = Nodes(p1) =>
           /\ Has(n, "Interval") /\ DurationReadable(n, "Interval")
           /\ DurationOf(n, "Interval") = <<r.interval>>
  BY OneDuration DEF IsRepetition
<1>2. /\ PartOf(p2, "Duration")
      /\ Child(n, "Duration") = Nodes(p2) =>
           DurationReadable(n, "Duration") /\ DurationOf(n, "Duration") = r.duration
  BY DurationPart DEF IsRepetition
<1>3. /\ PartOf(p3, "StopAtDurationEnd")
      /\ Child(n, "StopAtDurationEnd") = Nodes(p3) =>
           /\ BoolReadable(n, "StopAtDurationEnd")
           /\ BoolOf(n, "StopAtDurationEnd", FALSE) = r.stop_at_duration_end
  BY BoolPart DEF IsRepetition
<1>4. RepetitionElement(r) = e  BY DEF RepetitionElement
<1> HIDE DEF p1, p2, p3
<1>5. /\ Elements(list) /\ Offers(list, "Interval", p1) /\ Offers(list, "Duration", p2)
      /\ Offers(list, "StopAtDurationEnd", p3)
  BY <1>1, <1>2, <1>3, Parts3 DEF Menu
<1> HIDE DEF list
<1>6. IsElement(e) /\ n.name = "Repetition" /\ n.kids = Nodes(list)  BY <1>5, PlainReads
<1> HIDE DEF n, e
<1>7. /\ Child(n, "Interval") = Nodes(p1) /\ Child(n, "Duration") = Nodes(p2)
      /\ Child(n, "StopAtDurationEnd") = Nodes(p3)
  BY <1>5, <1>6, Lookup
<1>7a. DurationOf(n, "Interval")[1] = r.interval  BY <1>1, <1>7
<1>8. RepetitionReadable(n)  BY <1>1, <1>2, <1>3, <1>7 DEF RepetitionReadable
<1>9. RepetitionOf(n) = Repetition(r.interval, r.duration, r.stop_at_duration_end)
  BY <1>2, <1>3, <1>7, <1>7a DEF RepetitionOf
<1>10. RepetitionOf(n) = r  BY <1>9 DEF IsRepetition
<1>11. QED  BY <1>4, <1>6, <1>8, <1>10 DEF n

CommonNames ==
  {"Repetition", "StartBoundary", "EndBoundary", "ExecutionTimeLimit", "Enabled"}

LEMMA RepetitionPart ==
  ASSUME NEW v, IsOption(v), \A r \in ToSet(v) : IsRepetition(r)
  PROVE  /\ PartOf(Each(v, RepetitionElement), "Repetition")
         /\ \A node : Child(node, "Repetition") = Nodes(Each(v, RepetitionElement)) =>
              /\ \A r \in ToSet(Child(node, "Repetition")) : RepetitionReadable(r)
              /\ Each(Child(node, "Repetition"), RepetitionOf) = v
<1> DEFINE part == [i \in DOMAIN v |-> RepetitionElement(v[i])]
<1>1. Each(v, RepetitionElement) = part  BY DEF Each
<1>2. \A i \in DOMAIN v : part[i] = RepetitionElement(v[i]) /\ IsRepetition(v[i])
  BY DEF ToSet
<1>3. part = [i \in DOMAIN v |-> part[i]]  OBVIOUS
<1> HIDE DEF part
<1>4. \A i \in DOMAIN v : /\ IsElement(part[i]) /\ NodeOf(part[i]).name = "Repetition"
                          /\ RepetitionReadable(NodeOf(part[i]))
                          /\ RepetitionOf(NodeOf(part[i])) = v[i]
  BY <1>2, RepetitionReads
<1>5. PartOf(part, "Repetition") /\ Nodes(part) = [i \in DOMAIN v |-> NodeOf(part[i])]
  <2>1. \A i \in DOMAIN v : IsElement(part[i]) /\ NodeOf(part[i]).name = "Repetition"
    BY <1>4
  <2>2. QED  BY <1>3, <2>1, EachPart
<1>6. ASSUME NEW node, Child(node, "Repetition") = Nodes(part)
      PROVE  /\ \A r \in ToSet(Child(node, "Repetition")) : RepetitionReadable(r)
             /\ Each(Child(node, "Repetition"), RepetitionOf) = v
  <2>1. \A r \in ToSet(Child(node, "Repetition")) : RepetitionReadable(r)
    BY <1>4, <1>5, <1>6 DEF ToSet
  <2>2. Each(Child(node, "Repetition"), RepetitionOf)
          = [i \in DOMAIN v |-> RepetitionOf(NodeOf(part[i]))]
    BY <1>5, <1>6 DEF Each
  <2>3. v = [i \in DOMAIN v |-> v[i]]  BY Options
  <2>4. QED  BY <1>4, <2>1, <2>2, <2>3
<1>7. QED  BY <1>1, <1>5, <1>6

LEMMA CommonWritten ==
  ASSUME NEW c, IsCommon(c)
  PROVE  /\ Menu(CommonElements(c), CommonNames)
         /\ \A node, list :
              /\ node.kids = Nodes(list) /\ Elements(list)
              /\ ToSet(CommonElements(c)) \subseteq ToSet(list)
              /\ \A e \in ToSet(list) :
                   e \in ToSet(CommonElements(c)) \/ NodeOf(e).name \notin CommonNames
              => /\ CommonReadable(node)
                 /\ \A id : id = (IF "id" \in DOMAIN node.attrs THEN Some(node.attrs.id)
                                  ELSE None) /\ id = Ids(c.id) =>
                      ParsedCommon(node) = CanonicalCommon(c)
<1> DEFINE p1 == Each(c.repetition, RepetitionElement)
           p2 == OptionalElement("StartBoundary", c.start_boundary)
           p3 == OptionalElement("EndBoundary", c.end_boundary)
           p4 == OptionalElement("ExecutionTimeLimit", Each(c.execution_time_limit, LimitText))
           p5 == <<BoolElement("Enabled", c.enabled)>>
           own == FlattenSeq(<<p1, p2, p3, p4, p5>>)
<1>1. /\ PartOf(p1, "Repetition")
      /\ \A node : Child(node, "Repetition") = Nodes(p1) =>
           /\ \A r \in ToSet(Child(node, "Repetition")) : RepetitionReadable(r)
           /\ Each(Child(node, "Repetition"), RepetitionOf) = c.repetition
  BY RepetitionPart DEF IsCommon
<1>2. /\ PartOf(p2, "StartBoundary")
      /\ \A node : Child(node, "StartBoundary") = Nodes(p2) =>
           /\ DateReadable(node, "StartBoundary")
           /\ ChildText(node, "StartBoundary") = c.start_boundary
  BY DatePart DEF IsCommon
<1>3. /\ PartOf(p3, "EndBoundary")
      /\ \A node : Child(node, "EndBoundary") = Nodes(p3) =>
           /\ DateReadable(node, "EndBoundary")
           /\ ChildText(node, "EndBoundary") = c.end_boundary
  BY DatePart DEF IsCommon
<1>4. /\ PartOf(p4, "ExecutionTimeLimit")
      /\ \A node : Child(node, "ExecutionTimeLimit") = Nodes(p4) =>
           /\ DurationReadable(node, "ExecutionTimeLimit")
           /\ LimitOf(node, "ExecutionTimeLimit")
                = Each(c.execution_time_limit, CanonicalLimit)
  BY LimitPart DEF IsCommon
<1>5. /\ PartOf(p5, "Enabled")
      /\ \A node : Child(node, "Enabled") = Nodes(p5) =>
           BoolReadable(node, "Enabled") /\ BoolOf(node, "Enabled", TRUE) = c.enabled
  BY BoolPart DEF IsCommon
<1>6. CommonElements(c) = own  BY DEF CommonElements
<1> HIDE DEF p1, p2, p3, p4, p5
<1>7. /\ Menu(own, CommonNames)
      /\ Offers(own, "Repetition", p1) /\ Offers(own, "StartBoundary", p2)
      /\ Offers(own, "EndBoundary", p3) /\ Offers(own, "ExecutionTimeLimit", p4)
      /\ Offers(own, "Enabled", p5)
  BY <1>1, <1>2, <1>3, <1>4, <1>5, Parts5 DEF CommonNames
<1> HIDE DEF own
<1>8. ASSUME NEW node, NEW list, node.kids = Nodes(list), Elements(list),
             ToSet(own) \subseteq ToSet(list),
             \A e \in ToSet(list) : e \in ToSet(own) \/ NodeOf(e).name \notin CommonNames
      PROVE  /\ CommonReadable(node)
             /\ \A id : id = (IF "id" \in DOMAIN node.attrs THEN Some(node.attrs.id)
                              ELSE None) /\ id = Ids(c.id) =>
                  ParsedCommon(node) = CanonicalCommon(c)
  <2>1. ASSUME NEW name \in CommonNames, NEW part, Offers(own, name, part)
        PROVE  Child(node, name) = Nodes(part)
    <3>1. \A e \in ToSet(list) : e \in ToSet(own) \/ NodeOf(e).name # name  BY <1>8
    <3>2. Offers(list, name, part)  BY <1>8, <2>1, <3>1, OfferedAmong
    <3>3. QED  BY <1>8, <3>2, Lookup
  <2>2. /\ Child(node, "Repetition") = Nodes(p1) /\ Child(node, "StartBoundary") = Nodes(p2)
        /\ Child(node, "EndBoundary") = Nodes(p3)
        /\ Child(node, "ExecutionTimeLimit") = Nodes(p4) /\ Child(node, "Enabled") = Nodes(p5)
    BY <1>7, <2>1 DEF CommonNames
  <2>3. CommonReadable(node)
    BY <1>1, <1>2, <1>3, <1>4, <1>5, <2>2 DEF CommonReadable
  <2>4. ASSUME NEW id, id = (IF "id" \in DOMAIN node.attrs THEN Some(node.attrs.id)
                             ELSE None), id = Ids(c.id)
        PROVE  ParsedCommon(node) = CanonicalCommon(c)
    <3>1. ParsedCommon(node)
            = [id |-> Ids(c.id), start_boundary |-> c.start_boundary,
               end_boundary |-> c.end_boundary, enabled |-> c.enabled,
               execution_time_limit |-> Each(c.execution_time_limit, CanonicalLimit),
               repetition |-> c.repetition]
      BY <1>1, <1>2, <1>3, <1>4, <1>5, <2>2, <2>4 DEF ParsedCommon
    <3> DEFINE limit == Each(c.execution_time_limit, CanonicalLimit)
               read == Ids(c.id)
    <3>2. CanonicalCommon(c) = [c EXCEPT !.id = read, !.execution_time_limit = limit]
      BY DEF CanonicalCommon
    <3> HIDE DEF limit, read
    <3>3. c = [id |-> c.id, start_boundary |-> c.start_boundary,
               end_boundary |-> c.end_boundary, enabled |-> c.enabled,
               execution_time_limit |-> c.execution_time_limit,
               repetition |-> c.repetition]
      BY DEF IsCommon
    <3> DEFINE first == [c EXCEPT !.id = read]
    <3>4. first = [id |-> read, start_boundary |-> c.start_boundary,
                   end_boundary |-> c.end_boundary, enabled |-> c.enabled,
                   execution_time_limit |-> c.execution_time_limit,
                   repetition |-> c.repetition]
      BY <3>3
    <3>5. CanonicalCommon(c) = [first EXCEPT !.execution_time_limit = limit]  BY <3>2
    <3> HIDE DEF first
    <3>6. [first EXCEPT !.execution_time_limit = limit]
            = [id |-> read, start_boundary |-> c.start_boundary,
               end_boundary |-> c.end_boundary, enabled |-> c.enabled,
               execution_time_limit |-> limit, repetition |-> c.repetition]
      BY <3>4
    <3>7. QED  BY <3>1, <3>5, <3>6 DEF limit, read
  <2>5. QED  BY <2>3, <2>4
<1>9. QED  BY <1>6, <1>7, <1>8

\* The id of an element is read back, as attributes are.
IdIn(node) == IF "id" \in DOMAIN node.attrs THEN Some(node.attrs.id) ELSE None

LEMMA IdsOfOption ==
  Ids(<<>>) = <<>> /\ \A x : Ids(<<x>>) = <<ReadAttribute(x)>>
<1>1. Ids(<<>>) = <<>>  BY DEF Ids, Each
<1>2. ASSUME NEW x  PROVE Ids(<<x>>) = <<ReadAttribute(x)>>
  <2> DEFINE r == ReadAttribute(x)
  <2>1. Ids(<<x>>) = [i \in {1} |-> r]  BY DEF Ids, Each
  <2> HIDE DEF r
  <2>2. [i \in {1} |-> r] = <<r>>  OBVIOUS
  <2>3. QED  BY <2>1, <2>2 DEF r
<1>3. QED  BY <1>1, <1>2

LEMMA WithIdReads ==
  ASSUME NEW name, NEW id, IsOption(id), NEW list, Elements(list)
  PROVE  /\ IsElement(WithId(name, id, list)) /\ NodeOf(WithId(name, id, list)).name = name
         /\ NodeOf(WithId(name, id, list)).kids = Nodes(list)
         /\ IdIn(NodeOf(WithId(name, id, list))) = Ids(id)
<1> DEFINE attrs == IF id = <<>> THEN <<>> ELSE Attribute("id", id[1])
           t == ""
           e == Container(name, attrs, t, list)
           n == NodeOf(e)
           read == ReadAttributes(attrs)
<1>1. WithId(name, id, list) = e  BY DEF WithId
<1>2. (IF "id" \in DOMAIN read THEN Some(read["id"]) ELSE None) = Ids(id)
  <2>1. CASE id = <<>>  BY <2>1, IdsOfOption DEF None, ReadAttributes
  <2>2. CASE id # <<>>
    <3> DEFINE x == id[1]
    <3>1. id = <<x>>  BY <2>2 DEF IsOption, None, Some
    <3> HIDE DEF x
    <3>2. attrs = [k \in {"id"} |-> x]  BY <2>2 DEF Attribute, x
    <3>3. DOMAIN read = {"id"} /\ read["id"] = ReadAttribute(x)
      BY <3>2 DEF ReadAttributes
    <3> HIDE DEF attrs, read
    <3>4. Ids(id) = <<ReadAttribute(x)>>  BY <3>1, IdsOfOption
    <3>5. QED  BY <3>3, <3>4 DEF Some
  <2>3. QED  BY <2>1, <2>2
<1> HIDE DEF read
<1> HIDE DEF attrs, t
<1>3. IsElement(e) /\ n.name = name /\ n.kids = Nodes(list) /\ n.attrs = read
  BY PlainElement DEF read
<1> HIDE DEF n
<1>4. IdIn(n) = Ids(id)  BY <1>2, <1>3 DEF IdIn
<1>5. QED  BY <1>1, <1>3, <1>4 DEF n

\* Lists of single elements with different names.
LEMMA Singles2 ==
  ASSUME NEW e1, NEW e2, NEW n1, NEW n2, PartOf(<<e1>>, n1), PartOf(<<e2>>, n2),
         n1 # n2
  PROVE  /\ Menu(<<e1, e2>>, {n1, n2})
         /\ Offers(<<e1, e2>>, n1, <<e1>>)
         /\ Offers(<<e1, e2>>, n2, <<e2>>)
<1> DEFINE list == <<e1, e2>>
<1>1. \A e, name : PartOf(<<e>>, name) => /\ IsElement(e) /\ NodeOf(e).name = name
                                       /\ IsList(<<e>>) /\ Len(<<e>>) <= 1 /\ ToSet(<<e>>) = {e}
  <2>1. \A e : IsList(<<e>>) /\ Len(<<e>>) <= 1 /\ ToSet(<<e>>) = {e}  BY DEF IsList, ToSet
  <2>2. QED  BY <2>1 DEF PartOf, Elements
<1>2. IsList(list) /\ ToSet(list) = {e1, e2}  BY DEF IsList, ToSet
<1> HIDE DEF list
<1>3. Elements(list)  BY <1>1, <1>2 DEF Elements
<1>4. Menu(list, {n1, n2})  BY <1>1, <1>2, <1>3 DEF Menu
<1>5. Offers(list, n1, <<e1>>)  BY <1>1, <1>2, <1>3 DEF Offers
<1>6. Offers(list, n2, <<e2>>)  BY <1>1, <1>2, <1>3 DEF Offers
<1>7. QED  BY <1>4, <1>5, <1>6 DEF list

LEMMA Singles3 ==
  ASSUME NEW e1, NEW e2, NEW e3, NEW n1, NEW n2, NEW n3, PartOf(<<e1>>, n1),
         PartOf(<<e2>>, n2), PartOf(<<e3>>, n3), n1 # n2, n1 # n3, n2 # n3
  PROVE  /\ Menu(<<e1, e2, e3>>, {n1, n2, n3})
         /\ Offers(<<e1, e2, e3>>, n1, <<e1>>)
         /\ Offers(<<e1, e2, e3>>, n2, <<e2>>)
         /\ Offers(<<e1, e2, e3>>, n3, <<e3>>)
<1> DEFINE list == <<e1, e2, e3>>
<1>1. \A e, name : PartOf(<<e>>, name) => /\ IsElement(e) /\ NodeOf(e).name = name
                                       /\ IsList(<<e>>) /\ Len(<<e>>) <= 1 /\ ToSet(<<e>>) = {e}
  <2>1. \A e : IsList(<<e>>) /\ Len(<<e>>) <= 1 /\ ToSet(<<e>>) = {e}  BY DEF IsList, ToSet
  <2>2. QED  BY <2>1 DEF PartOf, Elements
<1>2. IsList(list) /\ ToSet(list) = {e1, e2, e3}  BY DEF IsList, ToSet
<1> HIDE DEF list
<1>3. Elements(list)  BY <1>1, <1>2 DEF Elements
<1>4. Menu(list, {n1, n2, n3})  BY <1>1, <1>2, <1>3 DEF Menu
<1>5. Offers(list, n1, <<e1>>)  BY <1>1, <1>2, <1>3 DEF Offers
<1>6. Offers(list, n2, <<e2>>)  BY <1>1, <1>2, <1>3 DEF Offers
<1>7. Offers(list, n3, <<e3>>)  BY <1>1, <1>2, <1>3 DEF Offers
<1>8. QED  BY <1>4, <1>5, <1>6, <1>7 DEF list

LEMMA Singles4 ==
  ASSUME NEW e1, NEW e2, NEW e3, NEW e4, NEW n1, NEW n2, NEW n3, NEW n4,
         PartOf(<<e1>>, n1), PartOf(<<e2>>, n2), PartOf(<<e3>>, n3), PartOf(<<e4>>, n4),
         n1 # n2, n1 # n3, n1 # n4, n2 # n3, n2 # n4, n3 # n4
  PROVE  /\ Menu(<<e1, e2, e3, e4>>, {n1, n2, n3, n4})
         /\ Offers(<<e1, e2, e3, e4>>, n1, <<e1>>)
         /\ Offers(<<e1, e2, e3, e4>>, n2, <<e2>>)
         /\ Offers(<<e1, e2, e3, e4>>, n3, <<e3>>)
         /\ Offers(<<e1, e2, e3, e4>>, n4, <<e4>>)
<1> DEFINE list == <<e1, e2, e3, e4>>
<1>1. \A e, name : PartOf(<<e>>, name) => /\ IsElement(e) /\ NodeOf(e).name = name
                                       /\ IsList(<<e>>) /\ Len(<<e>>) <= 1 /\ ToSet(<<e>>) = {e}
  <2>1. \A e : IsList(<<e>>) /\ Len(<<e>>) <= 1 /\ ToSet(<<e>>) = {e}  BY DEF IsList, ToSet
  <2>2. QED  BY <2>1 DEF PartOf, Elements
<1>2. IsList(list) /\ ToSet(list) = {e1, e2, e3, e4}  BY DEF IsList, ToSet
<1> HIDE DEF list
<1>3. Elements(list)  BY <1>1, <1>2 DEF Elements
<1>4. Menu(list, {n1, n2, n3, n4})  BY <1>1, <1>2, <1>3 DEF Menu
<1>5. Offers(list, n1, <<e1>>)  BY <1>1, <1>2, <1>3 DEF Offers
<1>6. Offers(list, n2, <<e2>>)  BY <1>1, <1>2, <1>3 DEF Offers
<1>7. Offers(list, n3, <<e3>>)  BY <1>1, <1>2, <1>3 DEF Offers
<1>8. Offers(list, n4, <<e4>>)  BY <1>1, <1>2, <1>3 DEF Offers
<1>9. QED  BY <1>4, <1>5, <1>6, <1>7, <1>8 DEF list

-----------------------------------------------------------------------------
\* Elements of one text each.
TextElements(name, g) == [i \in DOMAIN g |-> Element(name, g[i])]

LEMMA TextList ==
  ASSUME NEW name, NEW g, IsList(g), NEW list, list = TextElements(name, g)
  PROVE  /\ Elements(list) /\ DOMAIN Nodes(list) = DOMAIN g /\ Len(list) = Len(g)
         /\ IsList(Nodes(list))
         /\ \A e \in ToSet(list) : NodeOf(e).name = name
         /\ \A i \in DOMAIN g : Nodes(list)[i].text = ReadText(g[i])
<1>1. \A i \in DOMAIN g : list[i] = Element(name, g[i])  BY DEF TextElements
<1>2. list = [i \in DOMAIN g |-> list[i]]  BY DEF TextElements
<1>3. IsList(list) /\ Len(list) = Len(g) /\ DOMAIN list = DOMAIN g
      /\ \A x : x \in ToSet(list) <=> \E i \in DOMAIN g : x = list[i]
  BY <1>2, Mapped
<1>4. \A i \in DOMAIN g : /\ IsElement(list[i]) /\ NodeOf(list[i]).name = name
                          /\ NodeOf(list[i]).text = ReadText(g[i])
  BY <1>1, TextElement
<1>5. Elements(list) /\ \A e \in ToSet(list) : NodeOf(e).name = name
  BY <1>3, <1>4 DEF Elements
<1>6. Nodes(list) = [i \in DOMAIN g |-> NodeOf(list[i])]  BY <1>3 DEF Nodes
<1>7. \A i \in DOMAIN g : Nodes(list)[i].text = ReadText(g[i])  BY <1>4, <1>6
<1>8. IsList(Nodes(list))
  <2> DEFINE m == Nodes(list)
  <2>1. m = [i \in DOMAIN g |-> m[i]]  BY <1>6
  <2> HIDE DEF m
  <2>2. IsList(m)  BY <2>1, Mapped
  <2>3. QED  BY <2>2 DEF m
<1>9. QED  BY <1>3, <1>5, <1>6, <1>7, <1>8

\* Children that all have the name.
LEMMA AllChildren ==
  ASSUME NEW node, NEW name, IsList(node.kids),
         \A i \in DOMAIN node.kids : node.kids[i].name = name
  PROVE  Children(node, name) = node.kids
<1> DEFINE kids == node.kids
           K == {i \in DOMAIN kids : kids[i].name = name}
           P == [i \in DOMAIN kids |-> IF i \in K THEN <<kids[i]>> ELSE <<>>]
<1>1. Children(node, name) = FlattenSeq(P)  BY DEF Children, Where
<1>2. DOMAIN kids \subseteq K /\ IsList(kids)  OBVIOUS
<1> HIDE DEF kids, K
<1>3. FlattenSeq(P) = kids  BY <1>2, Selected
<1>4. QED  BY <1>1, <1>3 DEF kids

\* A set in an order.
LEMMA OrderedSet ==
  ASSUME NEW names, IsList(names), NEW set
  PROVE  IsList(Ordered(names, set)) /\ ToSet(Ordered(names, set)) = ToSet(names) \intersect set
<1> DEFINE K == {i \in DOMAIN names : names[i] \in set}
           P == [i \in DOMAIN names |-> IF i \in K THEN <<names[i]>> ELSE <<>>]
<1>1. Ordered(names, set) = FlattenSeq(P)  BY DEF Ordered, Where
<1> HIDE DEF K
<1>2. /\ IsList(FlattenSeq(P))
      /\ \A x : x \in ToSet(FlattenSeq(P)) <=> \E i \in DOMAIN names : i \in K /\ x = names[i]
  BY Selected
<1>3. \A x : x \in ToSet(names) <=> \E i \in DOMAIN names : x = names[i]  BY DEF ToSet
<1> HIDE DEF P
<1>4. ASSUME NEW x
      PROVE  x \in ToSet(FlattenSeq(P)) <=> x \in ToSet(names) /\ x \in set
  BY <1>2, <1>3 DEF K
<1>5. QED  BY <1>1, <1>2, <1>4

\* A set of names, as empty elements.
LEMMA NamesElement ==
  ASSUME NEW names, IsList(names), NEW set, set \subseteq ToSet(names), NEW name
  PROVE  LET e == Plain(name, Each(Ordered(names, set), EmptyElement))
         IN /\ PartOf(<<e>>, name)
            /\ \A node : Child(node, name) = Nodes(<<e>>) =>
                 Has(node, name) /\ NamesIn(node, name, names) = set
<1> DEFINE o == Ordered(names, set)
           list == [i \in DOMAIN o |-> EmptyElement(o[i])]
           e == Plain(name, list)
<1>1. Each(Ordered(names, set), EmptyElement) = list  BY DEF Each
<1>2. IsList(o) /\ ToSet(o) = set  BY OrderedSet
<1> HIDE DEF o
<1>3. \A i \in DOMAIN o : /\ IsElement(list[i]) /\ NodeOf(list[i]).name = o[i]
  <2> SUFFICES ASSUME NEW i \in DOMAIN o
               PROVE  IsElement(list[i]) /\ NodeOf(list[i]).name = o[i]
    OBVIOUS
  <2> DEFINE n == ReadNode(o[i], <<>>, <<>>, "")
  <2>1. n.name = o[i]  BY DEF ReadNode, Finished, OpenNode
  <2> HIDE DEF n
  <2>2. Reads(EmptyElement(o[i]), n)  BY EmptyReads DEF EmptyElement, n
  <2>3. list[i] = EmptyElement(o[i])  OBVIOUS
  <2> HIDE DEF list
  <2>4. IsElement(list[i]) /\ NodeOf(list[i]) = n  BY <2>2, <2>3, ReadsUnique
  <2>5. QED  BY <2>1, <2>4
<1>4. list = [i \in DOMAIN o |-> list[i]]  OBVIOUS
<1> HIDE DEF list
<1>5. IsList(list) /\ DOMAIN list = DOMAIN o
      /\ \A x : x \in ToSet(list) <=> \E i \in DOMAIN o : x = list[i]
  BY <1>2, <1>4, Mapped
<1>6. Elements(list)  BY <1>3, <1>5 DEF Elements
<1> DEFINE n == NodeOf(e)
<1>7. IsElement(e) /\ n.name = name /\ n.kids = Nodes(list)  BY <1>6, PlainReads
<1> HIDE DEF e, n
<1>8. IsList(<<e>>) /\ Len(<<e>>) <= 1 /\ ToSet(<<e>>) = {e}  BY DEF IsList, ToSet
<1>9. PartOf(<<e>>, name)  BY <1>7, <1>8 DEF PartOf, Elements, n
<1>10. Nodes(<<e>>) = <<n>>  BY DEF Nodes, n
<1>11. {kid.name : kid \in ToSet(n.kids)} = set
  <2>1. n.kids = [i \in DOMAIN o |-> NodeOf(list[i])]  BY <1>5, <1>7 DEF Nodes
  <2>2. \A x : x \in ToSet(n.kids) <=> \E i \in DOMAIN o : x = NodeOf(list[i])
    BY <2>1 DEF ToSet
  <2>3. \A x : x \in set <=> \E i \in DOMAIN o : x = o[i]  BY <1>2 DEF ToSet
  <2>4. QED  BY <1>3, <2>2, <2>3
<1>12. ASSUME NEW node, Child(node, name) = <<n>>
       PROVE  Has(node, name) /\ NamesIn(node, name, names) = set
  <2>1. Has(node, name)  BY <1>12 DEF Has, None
  <2>2. NamesIn(node, name, names)
          = ToSet(names) \intersect {kid.name : kid \in ToSet(n.kids)}
    BY <1>12 DEF NamesIn
  <2>3. QED  BY <1>11, <2>1, <2>2
<1>13. QED  BY <1>1, <1>9, <1>10, <1>12 DEF e

\* A list of texts inside an element.
LEMMA TextsElement ==
  ASSUME NEW outer, NEW inner, NEW g, IsList(g), NEW list,
         list = TextElements(inner, g)
  PROVE  LET e == Plain(outer, list)
         IN /\ PartOf(<<e>>, outer)
            /\ \A node : Child(node, outer) = Nodes(<<e>>) =>
                 /\ Has(node, outer) /\ IsList(Child(node, outer)[1].kids)
                 /\ Children(Child(node, outer)[1], inner) = Child(node, outer)[1].kids
                 /\ DOMAIN Child(node, outer)[1].kids = DOMAIN g
                 /\ \A i \in DOMAIN g : Child(node, outer)[1].kids[i].text = ReadText(g[i])
<1> DEFINE e == Plain(outer, list)
           n == NodeOf(e)
<1>1. /\ Elements(list) /\ DOMAIN Nodes(list) = DOMAIN g /\ IsList(Nodes(list))
      /\ \A x \in ToSet(list) : NodeOf(x).name = inner
      /\ \A i \in DOMAIN g : Nodes(list)[i].text = ReadText(g[i])
  BY TextList
<1>2. IsElement(e) /\ n.name = outer /\ n.kids = Nodes(list)  BY <1>1, PlainReads
<1> HIDE DEF e, n
<1>3. IsList(<<e>>) /\ Len(<<e>>) <= 1 /\ ToSet(<<e>>) = {e}  BY DEF IsList, ToSet
<1>4. PartOf(<<e>>, outer)  BY <1>2, <1>3 DEF PartOf, Elements, n
<1>5. Nodes(<<e>>) = <<n>>  BY DEF Nodes, n
<1>6. \A i \in DOMAIN n.kids : n.kids[i].name = inner  BY <1>1, <1>2 DEF Nodes, ToSet
<1>7. Children(n, inner) = n.kids  BY <1>1, <1>2, <1>6, AllChildren
<1>8. ASSUME NEW node, Child(node, outer) = <<n>>
      PROVE  /\ Has(node, outer) /\ IsList(Child(node, outer)[1].kids)
             /\ Children(Child(node, outer)[1], inner) = Child(node, outer)[1].kids
             /\ DOMAIN Child(node, outer)[1].kids = DOMAIN g
             /\ \A i \in DOMAIN g : Child(node, outer)[1].kids[i].text = ReadText(g[i])
  <2>1. Has(node, outer) /\ Child(node, outer)[1] = n  BY <1>8 DEF Has, None
  <2>2. QED  BY <1>1, <1>2, <1>7, <2>1
<1>9. QED  BY <1>4, <1>5, <1>8 DEF e

-----------------------------------------------------------------------------
(***************************************************************************)
(* Triggers: what is written of them is read back.                           *)
(***************************************************************************)
LEMMA CalendarNames ==
  /\ ToSet(Calendar) = {"ScheduleByDay", "ScheduleByWeek", "ScheduleByMonth",
                        "ScheduleByMonthDayOfWeek"}
  /\ IsList(Weekdays) /\ IsList(Months) /\ IsList(WeeksOfMonth)
  /\ ToSet(WeeksOfMonth) = {"1", "2", "3", "4"}
BY DEF Calendar, ToSet, IsList, Weekdays, Months, WeeksOfMonth

LEMMA ByDay ==
  ASSUME NEW t, IsCalendar(t), t.kind = "ScheduleByDay"
  PROVE  LET e == ScheduleElement(t)
             s == NodeOf(e)
         IN /\ PartOf(<<e>>, "ScheduleByDay") /\ s.name = "ScheduleByDay"
            /\ ScheduleReadable(s) /\ NumberOf(s, "DaysInterval") = <<t.days_interval>>
<1> DEFINE x == Element("DaysInterval", ToString(t.days_interval))
           e == Plain("ScheduleByDay", <<x>>)
           s == NodeOf(e)
<1>1. IsNumber(t.days_interval) /\ t.days_interval <= U16  BY DEF IsCalendar
<1>2. /\ PartOf(<<x>>, "DaysInterval")
      /\ \A node : Child(node, "DaysInterval") = Nodes(<<x>>) =>
           /\ Has(node, "DaysInterval") /\ NumberOf(node, "DaysInterval") = <<t.days_interval>>
           /\ NumberReadable(node, "DaysInterval", U16)
  BY <1>1, OneNumber
<1>3. ScheduleElement(t) = e  BY DEF ScheduleElement
<1> HIDE DEF x
<1>4. Offers(<<x>>, "DaysInterval", <<x>>)  BY <1>2, OnePartMenu
<1>5. Elements(<<x>>)  BY <1>2 DEF PartOf
<1>6. IsElement(e) /\ s.name = "ScheduleByDay" /\ s.kids = Nodes(<<x>>)  BY <1>5, PlainReads
<1> HIDE DEF e, s
<1>7. Child(s, "DaysInterval") = Nodes(<<x>>)  BY <1>4, <1>6, Lookup
<1>8. ScheduleReadable(s) /\ NumberOf(s, "DaysInterval") = <<t.days_interval>>
  BY <1>2, <1>6, <1>7 DEF ScheduleReadable
<1>9. PartOf(<<e>>, "ScheduleByDay")
  <2>1. IsList(<<e>>) /\ Len(<<e>>) <= 1 /\ ToSet(<<e>>) = {e}  BY DEF IsList, ToSet
  <2>2. QED  BY <1>6, <2>1 DEF PartOf, Elements, s
<1>10. QED  BY <1>3, <1>6, <1>8, <1>9 DEF s

LEMMA ByWeek ==
  ASSUME NEW t, IsCalendar(t), t.kind = "ScheduleByWeek"
  PROVE  LET e == ScheduleElement(t)
             s == NodeOf(e)
         IN /\ PartOf(<<e>>, "ScheduleByWeek") /\ s.name = "ScheduleByWeek"
            /\ ScheduleReadable(s) /\ NumberOf(s, "WeeksInterval") = <<t.weeks_interval>>
            /\ NamesIn(s, "DaysOfWeek", Weekdays) = t.days_of_week
<1> DEFINE x == Element("WeeksInterval", ToString(t.weeks_interval))
           y == WriteWeekdays(t.days_of_week)
           list == <<x, y>>
           e == Plain("ScheduleByWeek", list)
           s == NodeOf(e)
<1>1. /\ IsNumber(t.weeks_interval) /\ t.weeks_interval <= U16
      /\ t.days_of_week \subseteq ToSet(Weekdays)
  BY DEF IsCalendar
<1>2. /\ PartOf(<<x>>, "WeeksInterval")
      /\ \A node : Child(node, "WeeksInterval") = Nodes(<<x>>) =>
           /\ Has(node, "WeeksInterval")
           /\ NumberOf(node, "WeeksInterval") = <<t.weeks_interval>>
           /\ NumberReadable(node, "WeeksInterval", U16)
  BY <1>1, OneNumber
<1>3. /\ PartOf(<<y>>, "DaysOfWeek")
      /\ \A node : Child(node, "DaysOfWeek") = Nodes(<<y>>) =>
           /\ Has(node, "DaysOfWeek")
           /\ NamesIn(node, "DaysOfWeek", Weekdays) = t.days_of_week
  BY <1>1, CalendarNames, NamesElement DEF WriteWeekdays
<1>4. ScheduleElement(t) = e  BY DEF ScheduleElement
<1> HIDE DEF x, y
<1>5. Elements(list) /\ Offers(list, "WeeksInterval", <<x>>) /\ Offers(list, "DaysOfWeek", <<y>>)
  BY <1>2, <1>3, Singles2 DEF Menu
<1> HIDE DEF list
<1>6. IsElement(e) /\ s.name = "ScheduleByWeek" /\ s.kids = Nodes(list)  BY <1>5, PlainReads
<1> HIDE DEF e, s
<1>7. Child(s, "WeeksInterval") = Nodes(<<x>>) /\ Child(s, "DaysOfWeek") = Nodes(<<y>>)
  BY <1>5, <1>6, Lookup
<1>8. /\ ScheduleReadable(s) /\ NumberOf(s, "WeeksInterval") = <<t.weeks_interval>>
      /\ NamesIn(s, "DaysOfWeek", Weekdays) = t.days_of_week
  BY <1>2, <1>3, <1>6, <1>7 DEF ScheduleReadable
<1>9. PartOf(<<e>>, "ScheduleByWeek")
  <2>1. IsList(<<e>>) /\ Len(<<e>>) <= 1 /\ ToSet(<<e>>) = {e}  BY DEF IsList, ToSet
  <2>2. QED  BY <1>6, <2>1 DEF PartOf, Elements, s
<1>10. QED  BY <1>4, <1>6, <1>8, <1>9 DEF s

\* The days of a month.
LEMMA DayNumbers ==
  ASSUME NEW days, days \subseteq 1..31
  PROVE  LET e == Plain("DaysOfMonth", Each(Ordered([n \in 1..31 |-> n], days),
                                            LAMBDA day : Element("Day", ToString(day))))
         IN /\ PartOf(<<e>>, "DaysOfMonth")
            /\ \A node : Child(node, "DaysOfMonth") = Nodes(<<e>>) =>
                 /\ Has(node, "DaysOfMonth")
                 /\ \A day \in DaysIn(node) : /\ day.text \in DOMAIN Numbers
                                              /\ Numbers[day.text] <= U8
                 /\ {Numbers[day.text] : day \in DaysIn(node)} = days
<1> DEFINE all == [n \in 1..31 |-> n]
           o == Ordered(all, days)
           g == [i \in DOMAIN o |-> ToString(o[i])]
           list == TextElements("Day", g)
           e == Plain("DaysOfMonth", list)
<1>1. IsList(all) /\ ToSet(all) = 1..31
  <2>1. \A x : x \in ToSet(all) <=> \E i \in 1..31 : x = all[i]  BY DEF ToSet
  <2>2. ToSet(all) = 1..31  BY <2>1
  <2>3. all \in Seq(1..31)  OBVIOUS
  <2>4. QED  BY <2>2, <2>3 DEF IsList
<1> HIDE DEF all
<1>2. IsList(o) /\ ToSet(o) = days
  <2>1. IsList(o) /\ ToSet(o) = ToSet(all) \intersect days  BY <1>1, OrderedSet
  <2>2. QED  BY <1>1, <2>1
<1>3. Each(o, LAMBDA day : Element("Day", ToString(day))) = list  BY DEF Each, TextElements
<1> HIDE DEF o
<1>4. \A i \in DOMAIN o : g[i] = ToString(o[i])  OBVIOUS
<1>5. g = [i \in DOMAIN o |-> g[i]]  OBVIOUS
<1> HIDE DEF g
<1>6. IsList(g) /\ DOMAIN g = DOMAIN o  BY <1>2, <1>5, Mapped
<1>7. \A i \in DOMAIN o : /\ ReadText(g[i]) = g[i] /\ g[i] \in DOMAIN Numbers
                          /\ Numbers[g[i]] = o[i] /\ o[i] <= U8
  <2>1. ASSUME NEW i \in DOMAIN o
        PROVE  /\ ReadText(g[i]) = g[i] /\ g[i] \in DOMAIN Numbers
               /\ Numbers[g[i]] = o[i] /\ o[i] <= U8
    <3>1. o[i] \in 1..31  BY <1>2 DEF ToSet
    <3>2. o[i] \in 0..31 /\ o[i] <= 255  BY <3>1
    <3>3. IsNumber(o[i])  BY <3>2, TaskXmlAssumption
    <3>4. g[i] \in DOMAIN Numbers /\ Numbers[g[i]] = o[i]  BY <1>4, <3>3 DEF IsNumber
    <3>5. ReadText(g[i]) = g[i]  BY <3>4, WordsKept DEF Words
    <3>6. QED  BY <3>2, <3>4, <3>5 DEF U8
  <2>2. QED  BY <2>1
<1>8. /\ PartOf(<<e>>, "DaysOfMonth")
      /\ \A node : Child(node, "DaysOfMonth") = Nodes(<<e>>) =>
           /\ Has(node, "DaysOfMonth") /\ IsList(Child(node, "DaysOfMonth")[1].kids)
           /\ Children(Child(node, "DaysOfMonth")[1], "Day")
                = Child(node, "DaysOfMonth")[1].kids
           /\ DOMAIN Child(node, "DaysOfMonth")[1].kids = DOMAIN g
           /\ \A i \in DOMAIN g :
                Child(node, "DaysOfMonth")[1].kids[i].text = ReadText(g[i])
  <2> HIDE DEF list
  <2>1. list = TextElements("Day", g)  BY DEF list
  <2>2. QED  BY <1>6, <2>1, TextsElement
<1> HIDE DEF e
<1>9. ASSUME NEW node, Child(node, "DaysOfMonth") = Nodes(<<e>>)
      PROVE  /\ Has(node, "DaysOfMonth")
             /\ \A day \in DaysIn(node) : /\ day.text \in DOMAIN Numbers
                                          /\ Numbers[day.text] <= U8
             /\ {Numbers[day.text] : day \in DaysIn(node)} = days
  <2> DEFINE kids == Child(node, "DaysOfMonth")[1].kids
  <2>1. /\ Has(node, "DaysOfMonth") /\ DaysIn(node) = ToSet(kids) /\ DOMAIN kids = DOMAIN o
        /\ \A i \in DOMAIN o : kids[i].text = g[i]
    BY <1>6, <1>7, <1>8, <1>9 DEF DaysIn
  <2> HIDE DEF kids
  <2>2. \A day : day \in DaysIn(node) <=> \E i \in DOMAIN o : day = kids[i]
    BY <2>1 DEF ToSet
  <2>3. \A day \in DaysIn(node) : day.text \in DOMAIN Numbers /\ Numbers[day.text] <= U8
    BY <1>7, <2>1, <2>2
  <2>4. \A x : x \in days <=> \E i \in DOMAIN o : x = o[i]  BY <1>2 DEF ToSet
  <2>5. ASSUME NEW x
        PROVE  x \in days <=> \E day \in DaysIn(node) : x = Numbers[day.text]
    <3>1. ASSUME x \in days  PROVE \E day \in DaysIn(node) : x = Numbers[day.text]
      <4>1. PICK i \in DOMAIN o : x = o[i]  BY <2>4, <3>1
      <4>2. kids[i] \in DaysIn(node) /\ x = Numbers[kids[i].text]  BY <1>7, <2>1, <2>2, <4>1
      <4>3. QED  BY <4>2
    <3>2. ASSUME NEW day \in DaysIn(node), x = Numbers[day.text]  PROVE x \in days
      <4>1. PICK i \in DOMAIN o : day = kids[i]  BY <2>2
      <4>2. x = o[i]  BY <1>7, <2>1, <3>2, <4>1
      <4>3. QED  BY <2>4, <4>2
    <3>3. QED  BY <3>1, <3>2
  <2>6. {Numbers[day.text] : day \in DaysIn(node)} = days  BY <2>5
  <2>7. QED  BY <2>1, <2>3, <2>6
<1>10. QED  BY <1>3, <1>8, <1>9 DEF e, o, all

LEMMA WeekNumbers ==
  ASSUME NEW weeks, weeks \subseteq ToSet(WeeksOfMonth)
  PROVE  LET e == Plain("Weeks", Each(Ordered(WeeksOfMonth, weeks),
                                      LAMBDA week : Element("Week", week)))
         IN /\ PartOf(<<e>>, "Weeks")
            /\ \A node : Child(node, "Weeks") = Nodes(<<e>>) =>
                 Has(node, "Weeks") /\ WeeksIn(node) = weeks
<1> DEFINE o == Ordered(WeeksOfMonth, weeks)
           list == TextElements("Week", o)
           e == Plain("Weeks", list)
<1>1. IsList(o) /\ ToSet(o) = weeks  BY CalendarNames, OrderedSet
<1>2. Each(o, LAMBDA week : Element("Week", week)) = list  BY DEF Each, TextElements
<1> HIDE DEF o
<1>3. \A i \in DOMAIN o : ReadText(o[i]) = o[i]
  <2>1. \A i \in DOMAIN o : o[i] \in Words  BY <1>1 DEF ToSet, Words
  <2>2. QED  BY <2>1, WordsKept
<1>4. /\ PartOf(<<e>>, "Weeks")
      /\ \A node : Child(node, "Weeks") = Nodes(<<e>>) =>
           /\ Has(node, "Weeks") /\ IsList(Child(node, "Weeks")[1].kids)
           /\ Children(Child(node, "Weeks")[1], "Week") = Child(node, "Weeks")[1].kids
           /\ DOMAIN Child(node, "Weeks")[1].kids = DOMAIN o
           /\ \A i \in DOMAIN o : Child(node, "Weeks")[1].kids[i].text = ReadText(o[i])
  <2> HIDE DEF list
  <2>1. list = TextElements("Week", o)  BY DEF list
  <2>2. QED  BY <1>1, <2>1, TextsElement
<1> HIDE DEF e
<1>5. ASSUME NEW node, Child(node, "Weeks") = Nodes(<<e>>)
      PROVE  Has(node, "Weeks") /\ WeeksIn(node) = weeks
  <2> DEFINE kids == Child(node, "Weeks")[1].kids
  <2>1. /\ Has(node, "Weeks") /\ DOMAIN kids = DOMAIN o
        /\ \A i \in DOMAIN o : kids[i].text = o[i]
        /\ WeeksIn(node) = ToSet(WeeksOfMonth) \intersect {kid.text : kid \in ToSet(kids)}
    BY <1>3, <1>4, <1>5 DEF WeeksIn
  <2> HIDE DEF kids
  <2>2. \A x : x \in ToSet(kids) <=> \E i \in DOMAIN o : x = kids[i]  BY <2>1 DEF ToSet
  <2>3. \A x : x \in weeks <=> \E i \in DOMAIN o : x = o[i]  BY <1>1 DEF ToSet
  <2>4. {kid.text : kid \in ToSet(kids)} = weeks  BY <2>1, <2>2, <2>3
  <2>5. QED  BY <2>1, <2>4
<1>6. QED  BY <1>2, <1>4, <1>5 DEF e, o

\* One element, as a part.
LEMMA PlainPart ==
  ASSUME NEW name, NEW list, Elements(list), NEW e, e = Plain(name, list)
  PROVE  /\ PartOf(<<e>>, name) /\ Nodes(<<e>>) = <<NodeOf(e)>>
         /\ NodeOf(e).name = name /\ NodeOf(e).kids = Nodes(list)
<1>1. IsElement(e) /\ NodeOf(e).name = name /\ NodeOf(e).kids = Nodes(list)  BY PlainReads
<1>2. IsList(<<e>>) /\ Len(<<e>>) <= 1 /\ ToSet(<<e>>) = {e}  BY DEF IsList, ToSet
<1>3. Nodes(<<e>>) = <<NodeOf(e)>>  BY DEF Nodes
<1>4. QED  BY <1>1, <1>2, <1>3 DEF PartOf, Elements

\* Calendar schedules by month.
LEMMA ByMonth ==
  ASSUME NEW t, IsCalendar(t), t.kind = "ScheduleByMonth", t.days_of_month \subseteq 1..31
  PROVE  LET e == ScheduleElement(t)
             s == NodeOf(e)
         IN /\ PartOf(<<e>>, "ScheduleByMonth") /\ s.name = "ScheduleByMonth"
            /\ ScheduleReadable(s)
            /\ {Numbers[day.text] : day \in DaysIn(s)} = t.days_of_month
            /\ NamesIn(s, "Months", Months) = t.months
            /\ BoolOf(s, "RunOnLastDayOfMonth", FALSE) = t.run_on_last_day
<1> DEFINE x == Plain("DaysOfMonth", Each(Ordered([n \in 1..31 |-> n], t.days_of_month),
                                          LAMBDA day : Element("Day", ToString(day))))
           y == WriteMonths(t.months)
           z == BoolElement("RunOnLastDayOfMonth", t.run_on_last_day)
           list == <<x, y, z>>
           e == Plain("ScheduleByMonth", list)
           s == NodeOf(e)
<1>1. t.months \subseteq ToSet(Months) /\ t.run_on_last_day \in BOOLEAN  BY DEF IsCalendar
<1>2. /\ PartOf(<<x>>, "DaysOfMonth")
      /\ \A node : Child(node, "DaysOfMonth") = Nodes(<<x>>) =>
           /\ Has(node, "DaysOfMonth")
           /\ \A day \in DaysIn(node) : /\ day.text \in DOMAIN Numbers
                                        /\ Numbers[day.text] <= U8
           /\ {Numbers[day.text] : day \in DaysIn(node)} = t.days_of_month
  BY DayNumbers
<1>3. /\ PartOf(<<y>>, "Months")
      /\ \A node : Child(node, "Months") = Nodes(<<y>>) =>
           Has(node, "Months") /\ NamesIn(node, "Months", Months) = t.months
  BY <1>1, CalendarNames, NamesElement DEF WriteMonths
<1>4. /\ PartOf(<<z>>, "RunOnLastDayOfMonth")
      /\ \A node : Child(node, "RunOnLastDayOfMonth") = Nodes(<<z>>) =>
           /\ BoolReadable(node, "RunOnLastDayOfMonth")
           /\ \A default : BoolOf(node, "RunOnLastDayOfMonth", default) = t.run_on_last_day
  BY <1>1, BoolPart
<1>5. ScheduleElement(t) = e  BY DEF ScheduleElement
<1> HIDE DEF x, y, z
<1>6. /\ Elements(list) /\ Offers(list, "DaysOfMonth", <<x>>) /\ Offers(list, "Months", <<y>>)
      /\ Offers(list, "RunOnLastDayOfMonth", <<z>>)
  BY <1>2, <1>3, <1>4, Singles3 DEF Menu
<1> HIDE DEF list
<1>7. PartOf(<<e>>, "ScheduleByMonth") /\ s.name = "ScheduleByMonth" /\ s.kids = Nodes(list)
  BY <1>6, PlainPart
<1> HIDE DEF e, s
<1>8. /\ Child(s, "DaysOfMonth") = Nodes(<<x>>) /\ Child(s, "Months") = Nodes(<<y>>)
      /\ Child(s, "RunOnLastDayOfMonth") = Nodes(<<z>>)
  BY <1>6, <1>7, Lookup
<1>9. /\ ScheduleReadable(s) /\ {Numbers[day.text] : day \in DaysIn(s)} = t.days_of_month
      /\ NamesIn(s, "Months", Months) = t.months
      /\ BoolOf(s, "RunOnLastDayOfMonth", FALSE) = t.run_on_last_day
  BY <1>2, <1>3, <1>4, <1>7, <1>8 DEF ScheduleReadable
<1>10. QED  BY <1>5, <1>7, <1>9 DEF s

LEMMA ByMonthDayOfWeek ==
  ASSUME NEW t, IsCalendar(t), t.kind = "ScheduleByMonthDayOfWeek"
  PROVE  LET e == ScheduleElement(t)
             s == NodeOf(e)
         IN /\ PartOf(<<e>>, "ScheduleByMonthDayOfWeek") /\ s.name = "ScheduleByMonthDayOfWeek"
            /\ ScheduleReadable(s)
            /\ WeeksIn(s) = t.weeks_of_month
            /\ NamesIn(s, "DaysOfWeek", Weekdays) = t.days_of_week
            /\ NamesIn(s, "Months", Months) = t.months
            /\ BoolOf(s, "RunOnLastWeekOfMonth", FALSE) = t.run_on_last_week
<1> DEFINE w == Plain("Weeks", Each(Ordered(WeeksOfMonth, t.weeks_of_month),
                                    LAMBDA week : Element("Week", week)))
           x == WriteWeekdays(t.days_of_week)
           y == WriteMonths(t.months)
           z == BoolElement("RunOnLastWeekOfMonth", t.run_on_last_week)
           list == <<w, x, y, z>>
           e == Plain("ScheduleByMonthDayOfWeek", list)
           s == NodeOf(e)
<1>1. /\ t.weeks_of_month \subseteq ToSet(WeeksOfMonth) /\ t.days_of_week \subseteq ToSet(Weekdays)
      /\ t.months \subseteq ToSet(Months) /\ t.run_on_last_week \in BOOLEAN
  BY DEF IsCalendar
<1>2. /\ PartOf(<<w>>, "Weeks")
      /\ \A node : Child(node, "Weeks") = Nodes(<<w>>) =>
           Has(node, "Weeks") /\ WeeksIn(node) = t.weeks_of_month
  BY <1>1, WeekNumbers
<1>3. /\ PartOf(<<x>>, "DaysOfWeek")
      /\ \A node : Child(node, "DaysOfWeek") = Nodes(<<x>>) =>
           Has(node, "DaysOfWeek") /\ NamesIn(node, "DaysOfWeek", Weekdays) = t.days_of_week
  BY <1>1, CalendarNames, NamesElement DEF WriteWeekdays
<1>4. /\ PartOf(<<y>>, "Months")
      /\ \A node : Child(node, "Months") = Nodes(<<y>>) =>
           Has(node, "Months") /\ NamesIn(node, "Months", Months) = t.months
  BY <1>1, CalendarNames, NamesElement DEF WriteMonths
<1>5. /\ PartOf(<<z>>, "RunOnLastWeekOfMonth")
      /\ \A node : Child(node, "RunOnLastWeekOfMonth") = Nodes(<<z>>) =>
           /\ BoolReadable(node, "RunOnLastWeekOfMonth")
           /\ \A default : BoolOf(node, "RunOnLastWeekOfMonth", default) = t.run_on_last_week
  BY <1>1, BoolPart
<1>6. ScheduleElement(t) = e  BY DEF ScheduleElement
<1> HIDE DEF w, x, y, z
<1>7. /\ Elements(list) /\ Offers(list, "Weeks", <<w>>) /\ Offers(list, "DaysOfWeek", <<x>>)
      /\ Offers(list, "Months", <<y>>) /\ Offers(list, "RunOnLastWeekOfMonth", <<z>>)
  <2>1. /\ PartOf(<<w>>, "Weeks") /\ PartOf(<<x>>, "DaysOfWeek") /\ PartOf(<<y>>, "Months")
        /\ PartOf(<<z>>, "RunOnLastWeekOfMonth")
    BY <1>2, <1>3, <1>4, <1>5
  <2>2. Menu(list, {"Weeks", "DaysOfWeek", "Months", "RunOnLastWeekOfMonth"})
    BY <2>1, Singles4
  <2>3. Offers(list, "Weeks", <<w>>) /\ Offers(list, "DaysOfWeek", <<x>>)  BY <2>1, Singles4
  <2>4. Offers(list, "Months", <<y>>) /\ Offers(list, "RunOnLastWeekOfMonth", <<z>>)
    BY <2>1, Singles4
  <2>5. QED  BY <2>2, <2>3, <2>4 DEF Menu
<1> HIDE DEF list
<1>8. /\ PartOf(<<e>>, "ScheduleByMonthDayOfWeek") /\ s.name = "ScheduleByMonthDayOfWeek"
      /\ s.kids = Nodes(list)
  BY <1>7, PlainPart
<1> HIDE DEF e, s
<1>9. /\ Child(s, "Weeks") = Nodes(<<w>>) /\ Child(s, "DaysOfWeek") = Nodes(<<x>>)
      /\ Child(s, "Months") = Nodes(<<y>>) /\ Child(s, "RunOnLastWeekOfMonth") = Nodes(<<z>>)
  BY <1>7, <1>8, Lookup
<1>10. /\ ScheduleReadable(s) /\ WeeksIn(s) = t.weeks_of_month
       /\ NamesIn(s, "DaysOfWeek", Weekdays) = t.days_of_week
       /\ NamesIn(s, "Months", Months) = t.months
       /\ BoolOf(s, "RunOnLastWeekOfMonth", FALSE) = t.run_on_last_week
  BY <1>2, <1>3, <1>4, <1>5, <1>8, <1>9 DEF ScheduleReadable
<1>11. QED  BY <1>6, <1>8, <1>10 DEF s

\* The element of a trigger, from its common and its own elements.
TriggerForm(e, name, c, own, names) ==
  /\ IsElement(e) /\ NodeOf(e).name = name
  /\ CommonReadable(NodeOf(e)) /\ ParsedCommon(NodeOf(e)) = CanonicalCommon(c)
  /\ \A n, part : Offers(own, n, part) /\ n \notin CommonNames =>
       Child(NodeOf(e), n) = Nodes(part)
  /\ \A n : n \notin names /\ n \notin CommonNames => Child(NodeOf(e), n) = <<>>

LEMMA TriggerElement ==
  ASSUME NEW c, IsCommon(c), NEW own, NEW names, Menu(own, names),
         names \intersect CommonNames = {},
         NEW list, IsList(list),
         \A x : x \in ToSet(list) <=> x \in ToSet(CommonElements(c)) \/ x \in ToSet(own),
         NEW name, NEW e, e = WithId(name, c.id, list)
  PROVE  TriggerForm(e, name, c, own, names)
<1>1. Menu(CommonElements(c), CommonNames)  BY CommonWritten
<1>2. Elements(list)  BY <1>1 DEF Menu, Elements
<1>3. IsOption(c.id)  BY DEF IsCommon
<1>4. IsElement(e) /\ NodeOf(e).name = name /\ NodeOf(e).kids = Nodes(list)
      /\ IdIn(NodeOf(e)) = Ids(c.id)
  BY <1>2, <1>3, WithIdReads
<1>5. \A x \in ToSet(list) :
        x \in ToSet(CommonElements(c)) \/ NodeOf(x).name \notin CommonNames
  BY DEF Menu
<1>6. CommonReadable(NodeOf(e)) /\ ParsedCommon(NodeOf(e)) = CanonicalCommon(c)
  <2>1. ToSet(CommonElements(c)) \subseteq ToSet(list)  OBVIOUS
  <2>2. /\ CommonReadable(NodeOf(e))
        /\ \A id : id = (IF "id" \in DOMAIN NodeOf(e).attrs THEN Some(NodeOf(e).attrs.id)
                         ELSE None) /\ id = Ids(c.id) =>
             ParsedCommon(NodeOf(e)) = CanonicalCommon(c)
    BY <1>2, <1>4, <1>5, <2>1, CommonWritten
  <2>3. QED  BY <1>4, <2>2 DEF IdIn
<1>7. ASSUME NEW n, NEW part, Offers(own, n, part), n \notin CommonNames
      PROVE  Child(NodeOf(e), n) = Nodes(part)
  <2>1. ToSet(own) \subseteq ToSet(list)  OBVIOUS
  <2>2. \A x \in ToSet(list) : x \in ToSet(own) \/ NodeOf(x).name # n  BY <1>1, <1>7 DEF Menu
  <2>3. Offers(list, n, part)  BY <1>2, <1>7, <2>1, <2>2, OfferedAmong
  <2>4. QED  BY <1>4, <2>3, Lookup
<1>8. ASSUME NEW n, n \notin names, n \notin CommonNames
      PROVE  Child(NodeOf(e), n) = <<>>
  <2>1. Offers(own, n, <<>>)  BY <1>8, NotOffered
  <2>2. Child(NodeOf(e), n) = Nodes(<<>>)  BY <1>7, <1>8, <2>1
  <2>3. QED  BY <2>2, NoPart
<1>9. QED  BY <1>4, <1>6, <1>7, <1>8 DEF TriggerForm

\* What is written for a calendar trigger.
LEMMA CalendarElement ==
  ASSUME NEW t, IsCommon(t.common), IsDelay(t.random_delay),
         t.kind \in ToSet(Calendar),
         NEW x, x = ScheduleElement(t), PartOf(<<x>>, t.kind), NodeOf(x).name = t.kind,
         ScheduleReadable(NodeOf(x)), NEW n, n = NodeOf(WriteCalendarTrigger(t))
  PROVE  /\ IsElement(WriteCalendarTrigger(t)) /\ n.name = "CalendarTrigger"
         /\ TriggerReadable(n) /\ ScheduleOf(n) = <<NodeOf(x)>>
         /\ ParsedCommon(n) = CanonicalCommon(t.common)
         /\ DurationOf(n, "RandomDelay") = t.random_delay
<1> DEFINE p == <<x>>
           q == OptionalElement("RandomDelay", t.random_delay)
           c == t.common
           a == CommonElements(c)
           own == FlattenSeq(<<p, q>>)
           list == FlattenSeq(<<a, p, q>>)
           e == WithId("CalendarTrigger", c.id, list)
<1>1. /\ PartOf(q, "RandomDelay")
      /\ \A node : Child(node, "RandomDelay") = Nodes(q) =>
           DurationReadable(node, "RandomDelay") /\ DurationOf(node, "RandomDelay") = t.random_delay
  BY DurationPart
<1>2. PartOf(p, t.kind)  OBVIOUS
<1>3. WriteCalendarTrigger(t) = e  BY DEF WriteCalendarTrigger
<1>4. IsList(a)  BY CommonWritten DEF Menu, Elements
<1>5. t.kind \notin CommonNames \union {"RandomDelay"}
  BY CalendarNames DEF CommonNames
<1>6. Nodes(p) = <<NodeOf(x)>>  BY DEF Nodes
<1> HIDE DEF p, q, a
<1>7. IsList(p) /\ IsList(q)  BY <1>1, <1>2 DEF PartOf, Elements
<1>8. Menu(own, {t.kind, "RandomDelay"}) /\ Offers(own, t.kind, p) /\ Offers(own, "RandomDelay", q)
  <2>1. PartOf(q, "RandomDelay") /\ t.kind # "RandomDelay"  BY <1>1, <1>5
  <2>2. QED  BY <1>2, <2>1, Parts2
<1>9. IsList(list) /\ \A y : y \in ToSet(list) <=> y \in ToSet(a) \/ y \in ToSet(own)
  <2>1. \A y : y \in ToSet(own) <=> y \in ToSet(p) \/ y \in ToSet(q)  BY <1>7, Flat2
  <2>2. /\ IsList(list)
        /\ \A y : y \in ToSet(list) <=> y \in ToSet(a) \/ y \in ToSet(p) \/ y \in ToSet(q)
    BY <1>4, <1>7, Flat3
  <2>3. QED  BY <2>1, <2>2
<1> HIDE DEF own, list
<1> DEFINE names == {t.kind, "RandomDelay"}
<1>10. names \intersect CommonNames = {}  BY <1>5 DEF CommonNames
<1>11. Menu(own, names)  BY <1>8
<1>12. \A y : y \in ToSet(list) <=> y \in ToSet(CommonElements(c)) \/ y \in ToSet(own)
  BY <1>9 DEF a
<1> HIDE DEF names
<1>13. /\ IsElement(e) /\ NodeOf(e).name = "CalendarTrigger"
       /\ CommonReadable(NodeOf(e)) /\ ParsedCommon(NodeOf(e)) = CanonicalCommon(c)
       /\ \A m, part : Offers(own, m, part) /\ m \notin CommonNames =>
            Child(NodeOf(e), m) = Nodes(part)
       /\ \A m : m \notin names /\ m \notin CommonNames => Child(NodeOf(e), m) = <<>>
  <2>1. IsCommon(c)  OBVIOUS
  <2>2. e = WithId("CalendarTrigger", c.id, list)  OBVIOUS
  <2> HIDE DEF c, e
  <2>3. IsList(list)  BY <1>9
  <2>4. TriggerForm(e, "CalendarTrigger", c, own, names)
    BY <1>10, <1>11, <1>12, <2>1, <2>2, <2>3, TriggerElement
  <2>5. QED  BY <2>4 DEF TriggerForm
<1>14. Child(n, t.kind) = <<NodeOf(x)>> /\ Child(n, "RandomDelay") = Nodes(q)
  <2>1. "RandomDelay" \notin CommonNames  BY DEF CommonNames
  <2>2. QED  BY <1>3, <1>5, <1>6, <1>8, <1>13, <2>1
<1>15. \A m \in ToSet(Calendar) : m # t.kind => Child(n, m) = <<>>
  <2>1. \A m \in ToSet(Calendar) : m # t.kind => m \notin names /\ m \notin CommonNames
    BY CalendarNames DEF names, CommonNames
  <2>2. QED  BY <1>3, <1>13, <2>1
<1>16. ScheduleOf(n) = <<NodeOf(x)>>
  <2> DEFINE there == {i \in DOMAIN Calendar : Has(n, Calendar[i])}
  <2>1. PICK k \in DOMAIN Calendar : t.kind = Calendar[k]  BY DEF ToSet
  <2>2. \A i \in DOMAIN Calendar : Calendar[i] \in ToSet(Calendar)  BY DEF ToSet
  <2>3. DOMAIN Calendar = 1..4 /\ \A i, j \in 1..4 : Calendar[i] = Calendar[j] => i = j
    BY DEF Calendar
  <2>4. \A i \in DOMAIN Calendar : Has(n, Calendar[i]) <=> i = k
    <3>1. Has(n, Calendar[k])
      <4>1. Child(n, Calendar[k]) = <<NodeOf(x)>>  BY <1>14, <2>1
      <4>2. <<NodeOf(x)>> # <<>>  OBVIOUS
      <4>3. QED  BY <4>1, <4>2 DEF Has, None
    <3>2. ASSUME NEW i \in DOMAIN Calendar, i # k  PROVE ~Has(n, Calendar[i])
      <4>1. Calendar[i] # t.kind  BY <2>1, <2>3, <3>2
      <4>2. Child(n, Calendar[i]) = <<>>  BY <1>15, <2>2, <4>1
      <4>3. QED  BY <4>2 DEF Has, None
    <3>3. QED  BY <3>1, <3>2
  <2>5. there = {k}  BY <2>4
  <2>6. Min(there) = k  BY <2>3, <2>5 DEF Min
  <2>7. ScheduleOf(n) = Child(n, Calendar[Min(there)])  BY <2>5 DEF ScheduleOf
  <2>8. QED  BY <1>14, <2>1, <2>6, <2>7
<1>17. TriggerReadable(n)
  <2>1. ScheduleOf(n) # None /\ ScheduleReadable(ScheduleOf(n)[1])  BY <1>16 DEF None
  <2>2. DurationReadable(n, "RandomDelay")  BY <1>1, <1>14
  <2>3. CommonReadable(n) /\ n.name = "CalendarTrigger"  BY <1>3, <1>13
  <2>4. QED  BY <2>1, <2>2, <2>3 DEF TriggerReadable
<1>18. QED  BY <1>1, <1>3, <1>13, <1>14, <1>16, <1>17

\* A trigger is read back as it was written.
TriggerKept(t) ==
  /\ IsElement(WriteTrigger(t)) /\ TriggerReadable(NodeOf(WriteTrigger(t)))
  /\ TriggerOf(NodeOf(WriteTrigger(t))) = CanonicalTrigger(t)

LEMMA CalendarKept ==
  ASSUME NEW t, IsCommon(t.common), IsCalendar(t), t.kind \in ToSet(Calendar), ValidTrigger(t)
  PROVE  TriggerKept(t)
<1> DEFINE e == WriteCalendarTrigger(t)
           n == NodeOf(e)
           x == ScheduleElement(t)
           s == NodeOf(x)
<1>1. WriteTrigger(t) = e  BY CalendarNames DEF WriteTrigger
<1>2. /\ PartOf(<<x>>, t.kind) /\ s.name = t.kind /\ ScheduleReadable(s)
      /\ t.kind = "ScheduleByDay" => NumberOf(s, "DaysInterval") = <<t.days_interval>>
      /\ t.kind = "ScheduleByWeek" =>
           /\ NumberOf(s, "WeeksInterval") = <<t.weeks_interval>>
           /\ NamesIn(s, "DaysOfWeek", Weekdays) = t.days_of_week
      /\ t.kind = "ScheduleByMonth" =>
           /\ {Numbers[day.text] : day \in DaysIn(s)} = t.days_of_month
           /\ NamesIn(s, "Months", Months) = t.months
           /\ BoolOf(s, "RunOnLastDayOfMonth", FALSE) = t.run_on_last_day
      /\ t.kind = "ScheduleByMonthDayOfWeek" =>
           /\ WeeksIn(s) = t.weeks_of_month
           /\ NamesIn(s, "DaysOfWeek", Weekdays) = t.days_of_week
           /\ NamesIn(s, "Months", Months) = t.months
           /\ BoolOf(s, "RunOnLastWeekOfMonth", FALSE) = t.run_on_last_week
  <2>1. CASE t.kind = "ScheduleByDay"  BY <2>1, ByDay
  <2>2. CASE t.kind = "ScheduleByWeek"  BY <2>2, ByWeek
  <2>3. CASE t.kind = "ScheduleByMonth"
    <3>1. t.days_of_month \subseteq 1..31  BY <2>3 DEF ValidTrigger
    <3>2. QED  BY <2>3, <3>1, ByMonth
  <2>4. CASE t.kind = "ScheduleByMonthDayOfWeek"  BY <2>4, ByMonthDayOfWeek
  <2>5. QED  BY <2>1, <2>2, <2>3, <2>4, CalendarNames
<1>3. IsDelay(t.random_delay)  BY DEF IsCalendar
<1> HIDE DEF s, x, e
<1>4. /\ IsElement(e) /\ n.name = "CalendarTrigger"
      /\ TriggerReadable(n) /\ ScheduleOf(n) = <<s>>
      /\ ParsedCommon(n) = CanonicalCommon(t.common)
      /\ DurationOf(n, "RandomDelay") = t.random_delay
  BY <1>2, <1>3, CalendarElement DEF s, x, e
<1> HIDE DEF n
<1>5. TriggerOf(n) = CalendarOf(n)  BY <1>4 DEF TriggerOf
<1>6. CanonicalTrigger(t) = [t EXCEPT !.common = CanonicalCommon(t.common)]
  BY CalendarNames DEF CanonicalTrigger
<1>7. ScheduleOf(n)[1] = s  BY <1>4
<1>8. CASE t.kind = "ScheduleByDay"
  <2>1. t = [DailyTrigger("") EXCEPT !.common = t.common, !.random_delay = t.random_delay,
                                     !.days_interval = t.days_interval]
    BY <1>8 DEF IsCalendar
  <2>2. CalendarOf(n) = [DailyTrigger("") EXCEPT
                           !.days_interval = t.days_interval,
                           !.common = CanonicalCommon(t.common),
                           !.random_delay = t.random_delay]
    <3>1. s.name = "ScheduleByDay"  BY <1>2, <1>8
    <3>2. NumberOf(s, "DaysInterval")[1] = t.days_interval
      BY <1>2, <1>8
    <3>3. QED  BY <1>4, <1>7, <3>1, <3>2 DEF CalendarOf, DailyTrigger
  <2>3. CalendarOf(n) = [t EXCEPT !.common = CanonicalCommon(t.common)]
    BY <2>1, <2>2 DEF DailyTrigger
  <2>4. QED  BY <1>1, <1>4, <1>5, <1>6, <2>3 DEF TriggerKept, n
<1>9. CASE t.kind = "ScheduleByWeek"
  <2>1. t = [WeeklyTrigger("", t.days_of_week) EXCEPT
               !.common = t.common, !.random_delay = t.random_delay,
               !.weeks_interval = t.weeks_interval]
    BY <1>9 DEF IsCalendar
  <2>2. CalendarOf(n) = [WeeklyTrigger("", t.days_of_week) EXCEPT
                           !.weeks_interval = t.weeks_interval,
                           !.common = CanonicalCommon(t.common),
                           !.random_delay = t.random_delay]
    <3>1. s.name = "ScheduleByWeek"  BY <1>2, <1>9
    <3>2. /\ NumberOf(s, "WeeksInterval")[1] = t.weeks_interval
          /\ NamesIn(s, "DaysOfWeek", Weekdays) = t.days_of_week
      BY <1>2, <1>9
    <3>3. QED  BY <1>4, <1>7, <3>1, <3>2 DEF CalendarOf, WeeklyTrigger
  <2>3. CalendarOf(n) = [t EXCEPT !.common = CanonicalCommon(t.common)]
    BY <2>1, <2>2 DEF WeeklyTrigger
  <2>4. QED  BY <1>1, <1>4, <1>5, <1>6, <2>3 DEF TriggerKept, n
<1>10. CASE t.kind = "ScheduleByMonth"
  <2>1. t = [MonthlyTrigger("", t.days_of_month, t.months) EXCEPT
               !.common = t.common, !.random_delay = t.random_delay,
               !.run_on_last_day = t.run_on_last_day]
    BY <1>10 DEF IsCalendar
  <2>2. CalendarOf(n) = [MonthlyTrigger("", t.days_of_month, t.months) EXCEPT
                           !.run_on_last_day = t.run_on_last_day,
                           !.common = CanonicalCommon(t.common),
                           !.random_delay = t.random_delay]
    BY <1>2, <1>4, <1>7, <1>10 DEF CalendarOf, MonthlyTrigger
  <2>3. CalendarOf(n) = [t EXCEPT !.common = CanonicalCommon(t.common)]
    BY <2>1, <2>2 DEF MonthlyTrigger
  <2>4. QED  BY <1>1, <1>4, <1>5, <1>6, <2>3 DEF TriggerKept, n
<1>11. CASE t.kind = "ScheduleByMonthDayOfWeek"
  <2>1. t = [MonthlyDowTrigger("", t.weeks_of_month, t.days_of_week, t.months) EXCEPT
               !.common = t.common, !.random_delay = t.random_delay,
               !.run_on_last_week = t.run_on_last_week]
    BY <1>11 DEF IsCalendar
  <2>2. CalendarOf(n) = [MonthlyDowTrigger("", t.weeks_of_month, t.days_of_week, t.months) EXCEPT
                           !.run_on_last_week = t.run_on_last_week,
                           !.common = CanonicalCommon(t.common),
                           !.random_delay = t.random_delay]
    BY <1>2, <1>4, <1>7, <1>11 DEF CalendarOf, MonthlyDowTrigger
  <2>3. CalendarOf(n) = [t EXCEPT !.common = CanonicalCommon(t.common)]
    BY <2>1, <2>2 DEF MonthlyDowTrigger
  <2>4. QED  BY <1>1, <1>4, <1>5, <1>6, <2>3 DEF TriggerKept, n
<1>12. QED  BY <1>8, <1>9, <1>10, <1>11, CalendarNames

\* Some order of the elements of a finite set.
LEMMA SetList ==
  ASSUME NEW S, IsFiniteSet(S), NEW s, s = SetToSeq(S)
  PROVE  /\ IsList(s) /\ ToSet(s) = S
         /\ \A i, j \in DOMAIN s : s[i] = s[j] => i = j
<1> DEFINE m == Cardinality(S)
<1>1. m \in Nat /\ \E f \in [1..m -> S] : IsInjective(f)
  BY FS_CardinalityType DEF ExistsBijection, Bijection, Injection
<1>2. s \in [1..m -> S] /\ IsInjective(s)  BY <1>1 DEF SetToSeq
<1>3. IsFiniteSet(1..m) /\ Cardinality(1..m) = m  BY <1>1, FS_Interval
<1>4. s \in Injection(1..m, S)  BY <1>2 DEF Injection
<1>5. s \in Surjection(1..m, S)  BY <1>3, <1>4, FS_Injection
<1>6. \A x \in S : \E i \in 1..m : s[i] = x  BY <1>5 DEF Surjection
<1> HIDE DEF m
<1>7. ToSet(s) = S
  <2>1. \A x : x \in ToSet(s) <=> \E i \in 1..m : s[i] = x  BY <1>2 DEF ToSet
  <2>2. \A i \in 1..m : s[i] \in S  BY <1>2
  <2>3. QED  BY <1>6, <2>1, <2>2
<1>8. IsList(s)
  <2>1. s \in Seq(S)  BY <1>1, <1>2
  <2>2. QED  BY <2>1, ToList
<1>9. QED  BY <1>2, <1>7, <1>8 DEF IsInjective

\* The last of some places of a list.
LEMMA LastOf ==
  ASSUME NEW n \in Nat, NEW T, T \subseteq 1..n, T # {}
  PROVE  Max(T) \in T
<1> DEFINE U == {k \in 0..n : \E i \in T : k = n - i}
<1>1. U \in SUBSET Nat  OBVIOUS
<1>2. U # {}
  <2>1. PICK i \in T : TRUE  OBVIOUS
  <2>2. n - i \in 0..n  BY <2>1
  <2>3. n - i \in U  BY <2>1, <2>2
  <2>4. QED  BY <2>3
<1>3. PICK k \in U : \A m \in U : k <= m  BY <1>1, <1>2, Least
<1>4. PICK i \in T : k = n - i  BY <1>3
<1>5. ASSUME NEW j \in T  PROVE i >= j
  <2>1. n - j \in 0..n  OBVIOUS
  <2>2. n - j \in U  BY <2>1
  <2>3. k <= n - j  BY <1>3, <2>2
  <2> HIDE DEF U
  <2>4. i \in 1..n /\ j \in 1..n  OBVIOUS
  <2>5. QED  BY <1>4, <2>3, <2>4
<1> HIDE DEF U
<1>6. QED  BY <1>4, <1>5 DEF Max

ValueElement(queries, n) == Container("Value", Attribute("name", n), queries[n], <<>>)

ValueList(queries, names) == [i \in DOMAIN names |-> ValueElement(queries, names[i])]

LEMMA ValuesWritten ==
  ASSUME NEW queries, NEW names, IsList(names), NEW list, list = ValueList(queries, names)
  PROVE  /\ Elements(list) /\ IsList(Nodes(list)) /\ DOMAIN Nodes(list) = DOMAIN names
         /\ \A i \in DOMAIN names :
              /\ Nodes(list)[i].name = "Value" /\ "name" \in DOMAIN Nodes(list)[i].attrs
              /\ Nodes(list)[i].attrs.name = ReadAttribute(names[i])
              /\ Nodes(list)[i].text = ReadText(queries[names[i]])
<1>1. list = [i \in DOMAIN names |-> list[i]]  BY DEF ValueList
<1>2. \A i \in DOMAIN names : list[i] = ValueElement(queries, names[i])  BY DEF ValueList
<1> HIDE DEF ValueList
<1>3. /\ IsList(list) /\ Len(list) = Len(names) /\ DOMAIN list = DOMAIN names
      /\ \A x : x \in ToSet(list) <=> \E i \in DOMAIN names : x = list[i]
  BY <1>1, Mapped
<1>4. ASSUME NEW i \in DOMAIN names
      PROVE  /\ IsElement(list[i]) /\ NodeOf(list[i]).name = "Value"
             /\ "name" \in DOMAIN NodeOf(list[i]).attrs
             /\ NodeOf(list[i]).attrs.name = ReadAttribute(names[i])
             /\ NodeOf(list[i]).text = ReadText(queries[names[i]])
  <2> DEFINE none == <<>>
             attrs == Attribute("name", names[i])
             t == queries[names[i]]
             read == ReadAttributes(attrs)
  <2>1. Elements(none)  BY NoPart DEF PartOf
  <2>2. list[i] = Container("Value", attrs, t, none)  BY <1>2 DEF ValueElement
  <2>3. "name" \in DOMAIN read /\ read.name = ReadAttribute(names[i])
    BY DEF Attribute, ReadAttributes
  <2> HIDE DEF none, attrs, t
  <2>4. /\ IsElement(list[i]) /\ NodeOf(list[i]).name = "Value"
        /\ NodeOf(list[i]).attrs = read /\ NodeOf(list[i]).text = ReadText(t)
    BY <2>1, <2>2, PlainElement
  <2> HIDE DEF read
  <2>5. QED  BY <2>3, <2>4 DEF t
<1>5. Elements(list)  BY <1>3, <1>4 DEF Elements
<1>6. /\ Nodes(list) = [i \in DOMAIN list |-> Nodes(list)[i]]
      /\ \A i \in DOMAIN list : Nodes(list)[i] = NodeOf(list[i])
  BY DEF Nodes
<1>7. IsList(Nodes(list)) /\ DOMAIN Nodes(list) = DOMAIN list  BY <1>3, <1>6, Mapped
<1>8. QED  BY <1>3, <1>4, <1>5, <1>6, <1>7

LEMMA QueriesPart ==
  ASSUME NEW queries, IsFiniteSet(DOMAIN queries)
  PROVE  /\ PartOf(ValueQueries(queries), "ValueQueries")
         /\ \A node : Child(node, "ValueQueries") = Nodes(ValueQueries(queries)) =>
              ValueQueriesOf(node) = CanonicalQueries(queries)
<1>1. CASE DOMAIN queries = {}
  <2>1. ValueQueries(queries) = <<>>  BY <1>1 DEF ValueQueries
  <2>2. ASSUME NEW node, Child(node, "ValueQueries") = <<>>
        PROVE  ValueQueriesOf(node) = CanonicalQueries(queries)
    <3>1. NamedValues(node) = <<>>
      <4> DEFINE s == <<>>
                 P == [i \in DOMAIN s |-> IF "name" \in DOMAIN s[i].attrs THEN <<s[i]>> ELSE <<>>]
      <4>1. NamedValues(node) = FlattenSeq(P)  BY <2>2 DEF NamedValues, Where, Has, None
      <4>2. P = <<>>  OBVIOUS
      <4>3. IsList(P) /\ \A i \in DOMAIN P : P[i] = <<>>  BY <4>2 DEF IsList, ToSet
      <4>4. QED  BY <4>1, <4>3, FlatNothing
    <3>2. {v.attrs.name : v \in ToSet(NamedValues(node))} = {}  BY <3>1 DEF ToSet
    <3>3. {ReadAttribute(m) : m \in DOMAIN queries} = {}  BY <1>1
    <3>4. QED  BY <3>2, <3>3 DEF ValueQueriesOf, CanonicalQueries
  <2>3. QED  BY <2>1, <2>2, NoPart
<1>2. CASE DOMAIN queries # {}
  <2> DEFINE names == SetToSeq(DOMAIN queries)
             list == ValueList(queries, names)
             e == Plain("ValueQueries", list)
  <2>1. /\ IsList(names) /\ ToSet(names) = DOMAIN queries
        /\ \A i, j \in DOMAIN names : names[i] = names[j] => i = j
    BY SetList
  <2>2. ValueQueries(queries) = <<e>>  BY <1>2 DEF ValueQueries, Each, ValueList, ValueElement
  <2> DEFINE ReadAs(n) == {i \in DOMAIN names : ReadAttribute(names[i]) = n}
             all == {ReadAttribute(m) : m \in DOMAIN queries}
  <2>2a. CanonicalQueries(queries)
           = [n \in all |-> ReadText(queries[names[Max(ReadAs(n))]])]
    BY DEF CanonicalQueries
  <2> HIDE DEF names
  <2>3. list = ValueList(queries, names)  OBVIOUS
  <2> HIDE DEF list
  <2>4. /\ Elements(list) /\ IsList(Nodes(list)) /\ DOMAIN Nodes(list) = DOMAIN names
        /\ \A i \in DOMAIN names :
             /\ Nodes(list)[i].name = "Value" /\ "name" \in DOMAIN Nodes(list)[i].attrs
             /\ Nodes(list)[i].attrs.name = ReadAttribute(names[i])
             /\ Nodes(list)[i].text = ReadText(queries[names[i]])
    BY <2>1, <2>3, ValuesWritten
  <2>5. /\ PartOf(<<e>>, "ValueQueries") /\ Nodes(<<e>>) = <<NodeOf(e)>>
        /\ NodeOf(e).kids = Nodes(list)
    BY <2>4, PlainPart
  <2> HIDE DEF e
  <2>6. ASSUME NEW node, Child(node, "ValueQueries") = Nodes(<<e>>)
        PROVE  ValueQueriesOf(node) = CanonicalQueries(queries)
    <3> DEFINE kids == Nodes(list)
               outer == NodeOf(e)
               P == [i \in DOMAIN kids |-> IF "name" \in DOMAIN kids[i].attrs
                                           THEN <<kids[i]>> ELSE <<>>]
               K == DOMAIN kids
    <3>1. Has(node, "ValueQueries") /\ Child(node, "ValueQueries")[1] = outer
      BY <2>5, <2>6 DEF Has, None
    <3>2. Children(outer, "Value") = kids
      <4>1. outer.kids = kids /\ IsList(outer.kids)  BY <2>4, <2>5
      <4>2. \A i \in DOMAIN outer.kids : outer.kids[i].name = "Value"  BY <2>4, <4>1
      <4> HIDE DEF outer, kids
      <4>3. QED  BY <4>1, <4>2, AllChildren
    <3>3. NamedValues(node) = FlattenSeq(P)  BY <3>1, <3>2 DEF NamedValues, Where
    <3>4. P = [i \in DOMAIN kids |-> IF i \in K THEN <<kids[i]>> ELSE <<>>]  BY <2>4
    <3>5. IsList(kids)  BY <2>4
    <3> HIDE DEF P
    <3>6. NamedValues(node) = kids
      <4> HIDE DEF kids
      <4>1. DOMAIN kids \subseteq K => FlattenSeq(P) = kids  BY <3>4, <3>5, Selected
      <4>2. QED  BY <3>3, <4>1
    <3>7. {v.attrs.name : v \in ToSet(kids)} = all
      <4>1. \A v : v \in ToSet(kids) <=> \E i \in DOMAIN names : v = kids[i]  BY <2>4 DEF ToSet
      <4>2. \A n : n \in DOMAIN queries <=> \E i \in DOMAIN names : n = names[i]
        BY <2>1 DEF ToSet
      <4>3. ASSUME NEW v \in ToSet(kids)  PROVE v.attrs.name \in all
        <5>1. PICK i \in DOMAIN names : v = kids[i]  BY <4>1
        <5>2. v.attrs.name = ReadAttribute(names[i])  BY <2>4, <5>1
        <5>3. QED  BY <4>2, <5>2
      <4>4. ASSUME NEW n \in all  PROVE \E v \in ToSet(kids) : n = v.attrs.name
        <5>1. PICK i \in DOMAIN names : n = ReadAttribute(names[i])  BY <4>2
        <5>2. kids[i] \in ToSet(kids) /\ n = kids[i].attrs.name  BY <2>4, <4>1, <5>1
        <5>3. QED  BY <5>2
      <4>5. QED  BY <4>3, <4>4
    <3>8. ASSUME NEW n \in all
          PROVE  kids[Max({i \in DOMAIN kids : kids[i].attrs.name = n})].text
                   = ReadText(queries[names[Max(ReadAs(n))]])
      <4>1. PICK k \in DOMAIN names : n = ReadAttribute(names[k])  BY <2>1 DEF ToSet
      <4>2. {i \in DOMAIN kids : kids[i].attrs.name = n} = ReadAs(n)  BY <2>4
      <4>3. Len(names) \in Nat /\ DOMAIN names = 1..Len(names)  BY <2>1, ListParts
      <4>4. ReadAs(n) \subseteq 1..Len(names) /\ k \in ReadAs(n)  BY <4>1, <4>3
      <4>5. Max(ReadAs(n)) \in ReadAs(n)
        <5> DEFINE T == ReadAs(n)
        <5>1. T \subseteq 1..Len(names) /\ T # {}  BY <4>4
        <5> HIDE DEF T
        <5>2. Max(T) \in T  BY <4>3, <5>1, LastOf
        <5>3. QED  BY <5>2 DEF T
      <4>6. Max(ReadAs(n)) \in DOMAIN names  BY <4>5
      <4> HIDE DEF ReadAs
      <4>7. QED  BY <2>4, <4>2, <4>6
    <3> HIDE DEF kids, ReadAs, all
    <3>9. QED  BY <2>2a, <3>6, <3>7, <3>8 DEF ValueQueriesOf
  <2>7. QED  BY <2>2, <2>5, <2>6
<1>3. QED  BY <1>1, <1>2

\* The other triggers.
LEMMA OtherTrigger ==
  ASSUME NEW t, IsCommon(t.common), t.kind \notin ToSet(Calendar), t.kind # "unknown",
         NEW own, own = SpecificElements(t), NEW names, Menu(own, names),
         names \intersect CommonNames = {}
  PROVE  TriggerForm(WriteTrigger(t), t.kind, t.common, own, names)
<1> DEFINE c == t.common
           kind == t.kind
           list == FlattenSeq(<<CommonElements(c), own>>)
           e == WithId(kind, c.id, list)
<1>1. WriteTrigger(t) = e  BY DEF WriteTrigger
<1>2. IsList(CommonElements(c)) /\ IsList(own)  BY CommonWritten DEF Menu, Elements
<1>3. /\ IsList(list)
      /\ \A x : x \in ToSet(list) <=> x \in ToSet(CommonElements(c)) \/ x \in ToSet(own)
  BY <1>2, Flat2
<1>4. IsCommon(c) /\ e = WithId(kind, c.id, list)  OBVIOUS
<1> HIDE DEF list, c, kind, e
<1>5. TriggerForm(e, kind, c, own, names)  BY <1>3, <1>4, TriggerElement
<1>6. QED  BY <1>1, <1>5 DEF kind, c

\* A trigger with a list of nothing but a delay.
LEMMA DelayTrigger ==
  ASSUME NEW t, IsCommon(t.common), NEW name, name \in {"Delay", "RandomDelay"},
         t.kind \notin ToSet(Calendar), t.kind # "unknown",
         NEW v, IsDelay(v), SpecificElements(t) = OptionalElement(name, v),
         NEW n, n = NodeOf(WriteTrigger(t))
  PROVE  /\ IsElement(WriteTrigger(t)) /\ n.name = t.kind
         /\ CommonReadable(n) /\ ParsedCommon(n) = CanonicalCommon(t.common)
         /\ DurationReadable(n, name) /\ DurationOf(n, name) = v
<1> DEFINE p == OptionalElement(name, v)
           names == {name}
<1>1. /\ PartOf(p, name)
      /\ \A node : Child(node, name) = Nodes(p) =>
           DurationReadable(node, name) /\ DurationOf(node, name) = v
  BY DurationPart
<1>2. p = SpecificElements(t)  OBVIOUS
<1> HIDE DEF p
<1>3. Menu(p, names) /\ Offers(p, name, p)  BY <1>1, OnePartMenu
<1>4. names \intersect CommonNames = {} /\ name \notin CommonNames  BY DEF CommonNames
<1> HIDE DEF names
<1>5. TriggerForm(WriteTrigger(t), t.kind, t.common, p, names)  BY <1>2, <1>3, <1>4, OtherTrigger
<1>6. Child(n, name) = Nodes(p)  BY <1>3, <1>4, <1>5 DEF TriggerForm
<1>7. QED  BY <1>1, <1>5, <1>6 DEF TriggerForm

LEMMA BootKept ==
  ASSUME NEW t, NEW unread, IsTrigger(t, unread), t.kind \in {"BootTrigger", "RegistrationTrigger"}
  PROVE  TriggerKept(t)
<1> DEFINE n == NodeOf(WriteTrigger(t))
           d == "Delay"
<1>1. /\ IsCommon(t.common) /\ IsDelay(t.delay)
      /\ t.kind = "BootTrigger" => t = [BootTrigger EXCEPT !.common = t.common, !.delay = t.delay]
      /\ t.kind = "RegistrationTrigger" =>
           t = [RegistrationTrigger EXCEPT !.common = t.common, !.delay = t.delay]
  BY DEF IsTrigger
<1>2. t.kind \notin ToSet(Calendar) /\ t.kind # "unknown"  BY CalendarNames
<1>3. SpecificElements(t) = OptionalElement(d, t.delay)  BY DEF SpecificElements
<1>4. d \in {"Delay", "RandomDelay"}  OBVIOUS
<1> HIDE DEF d
<1>5. /\ IsElement(WriteTrigger(t)) /\ n.name = t.kind
      /\ CommonReadable(n) /\ ParsedCommon(n) = CanonicalCommon(t.common)
      /\ DurationReadable(n, d) /\ DurationOf(n, d) = t.delay
  BY <1>1, <1>2, <1>3, <1>4, DelayTrigger
<1> HIDE DEF n
<1> USE DEF d
<1>6. TriggerReadable(n)  BY <1>5 DEF TriggerReadable
<1>7. TriggerOf(n) = CanonicalTrigger(t)
  <2>1. CASE t.kind = "BootTrigger"
    BY <1>1, <1>2, <1>5, <2>1 DEF TriggerOf, CanonicalTrigger, BootTrigger
  <2>2. CASE t.kind = "RegistrationTrigger"
    BY <1>1, <1>2, <1>5, <2>2 DEF TriggerOf, CanonicalTrigger, RegistrationTrigger
  <2>3. QED  BY <2>1, <2>2
<1>8. QED  BY <1>5, <1>6, <1>7 DEF TriggerKept, n

LEMMA TimeKept ==
  ASSUME NEW t, NEW unread, IsTrigger(t, unread), t.kind = "TimeTrigger"
  PROVE  TriggerKept(t)
<1> DEFINE n == NodeOf(WriteTrigger(t))
           d == "RandomDelay"
<1>1. /\ IsCommon(t.common) /\ IsDelay(t.random_delay)
      /\ t = [TimeTrigger("") EXCEPT !.common = t.common, !.random_delay = t.random_delay]
  BY DEF IsTrigger
<1>2. t.kind \notin ToSet(Calendar) /\ t.kind # "unknown"  BY CalendarNames
<1>3. SpecificElements(t) = OptionalElement(d, t.random_delay)  BY DEF SpecificElements
<1>4. d \in {"Delay", "RandomDelay"}  OBVIOUS
<1> HIDE DEF d
<1>5. /\ IsElement(WriteTrigger(t)) /\ n.name = t.kind
      /\ CommonReadable(n) /\ ParsedCommon(n) = CanonicalCommon(t.common)
      /\ DurationReadable(n, d) /\ DurationOf(n, d) = t.random_delay
  BY <1>1, <1>2, <1>3, <1>4, DelayTrigger
<1> HIDE DEF n
<1> USE DEF d
<1>6. TriggerReadable(n)  BY <1>5 DEF TriggerReadable
<1>7. TriggerOf(n) = CanonicalTrigger(t)
  BY <1>1, <1>2, <1>5 DEF TriggerOf, CanonicalTrigger, TimeTrigger
<1>8. QED  BY <1>5, <1>6, <1>7 DEF TriggerKept, n

LEMMA IdleKept ==
  ASSUME NEW t, NEW unread, IsTrigger(t, unread), t.kind = "IdleTrigger"
  PROVE  TriggerKept(t)
<1> DEFINE n == NodeOf(WriteTrigger(t))
           own == <<>>
           names == {}
<1>1. /\ IsCommon(t.common)
      /\ t = [IdleTrigger EXCEPT !.common = t.common]
  BY DEF IsTrigger
<1>2. t.kind \notin ToSet(Calendar) /\ t.kind # "unknown"  BY CalendarNames
<1>3. own = SpecificElements(t)  BY DEF SpecificElements
<1>4. Menu(own, names)  BY NoPart DEF Menu, PartOf, ToSet
<1>5. names \intersect CommonNames = {}  OBVIOUS
<1> HIDE DEF own, names
<1>6. TriggerForm(WriteTrigger(t), t.kind, t.common, own, names)
  BY <1>1, <1>2, <1>3, <1>4, <1>5, OtherTrigger
<1>7. /\ IsElement(WriteTrigger(t)) /\ n.name = t.kind
      /\ CommonReadable(n) /\ ParsedCommon(n) = CanonicalCommon(t.common)
  BY <1>6 DEF TriggerForm
<1> HIDE DEF n
<1>8. TriggerReadable(n)  BY <1>7 DEF TriggerReadable
<1>9. TriggerOf(n) = CanonicalTrigger(t)
  BY <1>1, <1>2, <1>7 DEF TriggerOf, CanonicalTrigger, IdleTrigger
<1>10. QED  BY <1>7, <1>8, <1>9 DEF TriggerKept, n

LEMMA LogonKept ==
  ASSUME NEW t, NEW unread, IsTrigger(t, unread), t.kind = "LogonTrigger"
  PROVE  TriggerKept(t)
<1> DEFINE n == NodeOf(WriteTrigger(t))
           p1 == OptionalElement("UserId", t.user_id)
           p2 == OptionalElement("Delay", t.delay)
           own == FlattenSeq(<<p1, p2>>)
           names == {"UserId", "Delay"}
<1>1. /\ IsCommon(t.common) /\ IsDelay(t.delay) /\ IsOption(t.user_id)
      /\ t = [LogonTrigger EXCEPT !.common = t.common, !.user_id = t.user_id, !.delay = t.delay]
  BY DEF IsTrigger, LogonTrigger
<1>2. t.kind \notin ToSet(Calendar) /\ t.kind # "unknown"  BY CalendarNames
<1>3. own = SpecificElements(t)  BY DEF SpecificElements
<1>4. /\ PartOf(p1, "UserId")
      /\ \A node : Child(node, "UserId") = Nodes(p1) => ChildText(node, "UserId") = Texts(t.user_id)
  BY <1>1, TextPart
<1>5. /\ PartOf(p2, "Delay")
      /\ \A node : Child(node, "Delay") = Nodes(p2) =>
           DurationReadable(node, "Delay") /\ DurationOf(node, "Delay") = t.delay
  BY <1>1, DurationPart
<1> HIDE DEF p1, p2
<1>6. Menu(own, names) /\ Offers(own, "UserId", p1) /\ Offers(own, "Delay", p2)
  <2>1. PartOf(p1, "UserId") /\ PartOf(p2, "Delay")  BY <1>4, <1>5
  <2>2. QED  BY <2>1, Parts2
<1>7. names \intersect CommonNames = {}  BY DEF CommonNames
<1>8. "UserId" \notin CommonNames /\ "Delay" \notin CommonNames  BY DEF CommonNames
<1> HIDE DEF own, names
<1>9. TriggerForm(WriteTrigger(t), t.kind, t.common, own, names)
  BY <1>1, <1>2, <1>3, <1>6, <1>7, OtherTrigger
<1>10. /\ IsElement(WriteTrigger(t)) /\ n.name = t.kind
       /\ CommonReadable(n) /\ ParsedCommon(n) = CanonicalCommon(t.common)
       /\ Child(n, "UserId") = Nodes(p1) /\ Child(n, "Delay") = Nodes(p2)
  BY <1>6, <1>8, <1>9 DEF TriggerForm
<1> HIDE DEF n
<1>11. /\ ChildText(n, "UserId") = Texts(t.user_id)
       /\ DurationReadable(n, "Delay") /\ DurationOf(n, "Delay") = t.delay
  BY <1>4, <1>5, <1>10
<1>12. TriggerReadable(n)  BY <1>10, <1>11 DEF TriggerReadable
<1>13. TriggerOf(n) = CanonicalTrigger(t)
  BY <1>1, <1>10, <1>11 DEF TriggerOf, CanonicalTrigger, LogonTrigger
<1>14. QED  BY <1>10, <1>12, <1>13 DEF TriggerKept, n

LEMMA SessionKept ==
  ASSUME NEW t, NEW unread, IsTrigger(t, unread), t.kind = "SessionStateChangeTrigger"
  PROVE  TriggerKept(t)
<1> DEFINE n == NodeOf(WriteTrigger(t))
           p1 == <<Element("StateChange", t.state_change)>>
           p2 == OptionalElement("UserId", t.user_id)
           p3 == OptionalElement("Delay", t.delay)
           own == FlattenSeq(<<p1, p2, p3>>)
           names == {"StateChange", "UserId", "Delay"}
<1>1. /\ IsCommon(t.common) /\ IsDelay(t.delay) /\ IsOption(t.user_id)
      /\ t.state_change \in SessionStateChanges
      /\ t = [SessionStateChangeTrigger(t.state_change) EXCEPT
                !.common = t.common, !.delay = t.delay, !.user_id = t.user_id]
  BY DEF IsTrigger, IsSessionTrigger
<1>2. t.kind \notin ToSet(Calendar) /\ t.kind # "unknown"  BY CalendarNames
<1>3. own = SpecificElements(t)  BY DEF SpecificElements
<1>4. /\ PartOf(p1, "StateChange")
      /\ \A node : Child(node, "StateChange") = Nodes(p1) =>
           Has(node, "StateChange") /\ TextOf(node, "StateChange") = t.state_change
  <2>1. t.state_change \in Words  BY <1>1 DEF Words
  <2>2. QED  BY <2>1, OneWord
<1>5. /\ PartOf(p2, "UserId")
      /\ \A node : Child(node, "UserId") = Nodes(p2) => ChildText(node, "UserId") = Texts(t.user_id)
  BY <1>1, TextPart
<1>6. /\ PartOf(p3, "Delay")
      /\ \A node : Child(node, "Delay") = Nodes(p3) =>
           DurationReadable(node, "Delay") /\ DurationOf(node, "Delay") = t.delay
  BY <1>1, DurationPart
<1> HIDE DEF p1, p2, p3
<1>7. /\ Menu(own, names) /\ Offers(own, "StateChange", p1) /\ Offers(own, "UserId", p2)
      /\ Offers(own, "Delay", p3)
  <2>1. PartOf(p1, "StateChange") /\ PartOf(p2, "UserId") /\ PartOf(p3, "Delay")  BY <1>4, <1>5, <1>6
  <2>2. QED  BY <2>1, Parts3
<1>8. /\ names \intersect CommonNames = {}
      /\ "StateChange" \notin CommonNames /\ "UserId" \notin CommonNames
      /\ "Delay" \notin CommonNames
  BY DEF CommonNames
<1> HIDE DEF own, names
<1>9. TriggerForm(WriteTrigger(t), t.kind, t.common, own, names)
  BY <1>1, <1>2, <1>3, <1>7, <1>8, OtherTrigger
<1>10. /\ IsElement(WriteTrigger(t)) /\ n.name = t.kind
       /\ CommonReadable(n) /\ ParsedCommon(n) = CanonicalCommon(t.common)
       /\ Child(n, "StateChange") = Nodes(p1)
       /\ Child(n, "UserId") = Nodes(p2) /\ Child(n, "Delay") = Nodes(p3)
  BY <1>7, <1>8, <1>9 DEF TriggerForm
<1> HIDE DEF n
<1>11. /\ Has(n, "StateChange") /\ TextOf(n, "StateChange") = t.state_change
       /\ ChildText(n, "UserId") = Texts(t.user_id)
       /\ DurationReadable(n, "Delay") /\ DurationOf(n, "Delay") = t.delay
  BY <1>4, <1>5, <1>6, <1>10
<1>12. TriggerReadable(n)  BY <1>1, <1>10, <1>11 DEF TriggerReadable
<1>13. TriggerOf(n) = CanonicalTrigger(t)
  BY <1>1, <1>10, <1>11 DEF TriggerOf, CanonicalTrigger, SessionStateChangeTrigger
<1>14. QED  BY <1>10, <1>12, <1>13 DEF TriggerKept, n

LEMMA EventKept ==
  ASSUME NEW t, NEW unread, IsTrigger(t, unread), t.kind = "EventTrigger"
  PROVE  TriggerKept(t)
<1> DEFINE n == NodeOf(WriteTrigger(t))
           p1 == OptionalElement("Delay", t.delay)
           p2 == <<Element("Subscription", t.subscription)>>
           p3 == ValueQueries(t.value_queries)
           p4 == OptionalElement("PeriodOfOccurrence", t.period_of_occurrence)
           p5 == OptionalElement("NumberOfOccurrences", Each(t.number_of_occurrences, ToString))
           p6 == OptionalElement("MatchingElement", t.matching_element)
           own == FlattenSeq(<<p1, p2, p3, p4, p5, p6>>)
           names == {"Delay", "Subscription", "ValueQueries", "PeriodOfOccurrence",
                     "NumberOfOccurrences", "MatchingElement"}
<1>1. /\ IsCommon(t.common) /\ IsDelay(t.delay) /\ IsFiniteSet(DOMAIN t.value_queries)
      /\ IsDelay(t.period_of_occurrence) /\ IsOption(t.number_of_occurrences)
      /\ \A m \in ToSet(t.number_of_occurrences) : IsNumber(m)
      /\ IsOption(t.matching_element)
      /\ t = [EventTrigger(t.subscription) EXCEPT
                !.common = t.common, !.delay = t.delay,
                !.value_queries = [m \in DOMAIN t.value_queries |-> t.value_queries[m]],
                !.period_of_occurrence = t.period_of_occurrence,
                !.number_of_occurrences = t.number_of_occurrences,
                !.matching_element = t.matching_element]
  BY DEF IsTrigger, IsEventTrigger
<1>2. t.kind \notin ToSet(Calendar) /\ t.kind # "unknown"  BY CalendarNames
<1>3. own = SpecificElements(t)  BY DEF SpecificElements
<1>4. /\ PartOf(p1, "Delay")
      /\ \A node : Child(node, "Delay") = Nodes(p1) =>
           DurationReadable(node, "Delay") /\ DurationOf(node, "Delay") = t.delay
  BY <1>1, DurationPart
<1>5. /\ PartOf(p2, "Subscription")
      /\ \A node : Child(node, "Subscription") = Nodes(p2) =>
           /\ Has(node, "Subscription")
           /\ TextOf(node, "Subscription") = ReadText(t.subscription)
  BY OneText
<1>6. /\ PartOf(p3, "ValueQueries")
      /\ \A node : Child(node, "ValueQueries") = Nodes(p3) =>
           ValueQueriesOf(node) = CanonicalQueries(t.value_queries)
  BY <1>1, QueriesPart
<1>7. /\ PartOf(p4, "PeriodOfOccurrence")
      /\ \A node : Child(node, "PeriodOfOccurrence") = Nodes(p4) =>
           /\ DurationReadable(node, "PeriodOfOccurrence")
           /\ DurationOf(node, "PeriodOfOccurrence") = t.period_of_occurrence
  BY <1>1, DurationPart
<1>8. /\ PartOf(p5, "NumberOfOccurrences")
      /\ \A node : Child(node, "NumberOfOccurrences") = Nodes(p5) =>
           /\ ToSet(ChildText(node, "NumberOfOccurrences")) \subseteq DOMAIN Numbers
           /\ NumberOf(node, "NumberOfOccurrences") = t.number_of_occurrences
  BY <1>1, NumberPart
<1>9. /\ PartOf(p6, "MatchingElement")
      /\ \A node : Child(node, "MatchingElement") = Nodes(p6) =>
           ChildText(node, "MatchingElement") = Texts(t.matching_element)
  BY <1>1, TextPart
<1> HIDE DEF p1, p2, p3, p4, p5, p6
<1>10. /\ Menu(own, names) /\ Offers(own, "Delay", p1) /\ Offers(own, "Subscription", p2)
       /\ Offers(own, "ValueQueries", p3) /\ Offers(own, "PeriodOfOccurrence", p4)
       /\ Offers(own, "NumberOfOccurrences", p5) /\ Offers(own, "MatchingElement", p6)
  <2>1. /\ PartOf(p1, "Delay") /\ PartOf(p2, "Subscription") /\ PartOf(p3, "ValueQueries")
        /\ PartOf(p4, "PeriodOfOccurrence") /\ PartOf(p5, "NumberOfOccurrences")
        /\ PartOf(p6, "MatchingElement")
    BY <1>4, <1>5, <1>6, <1>7, <1>8, <1>9
  <2>2. QED  BY <2>1, Parts6
<1>11. /\ names \intersect CommonNames = {}
       /\ "Delay" \notin CommonNames /\ "Subscription" \notin CommonNames
       /\ "ValueQueries" \notin CommonNames /\ "PeriodOfOccurrence" \notin CommonNames
       /\ "NumberOfOccurrences" \notin CommonNames /\ "MatchingElement" \notin CommonNames
  BY DEF CommonNames
<1> HIDE DEF own, names
<1>12. TriggerForm(WriteTrigger(t), t.kind, t.common, own, names)
  BY <1>1, <1>2, <1>3, <1>10, <1>11, OtherTrigger
<1>13. /\ IsElement(WriteTrigger(t)) /\ n.name = t.kind
       /\ CommonReadable(n) /\ ParsedCommon(n) = CanonicalCommon(t.common)
       /\ Child(n, "Delay") = Nodes(p1) /\ Child(n, "Subscription") = Nodes(p2)
       /\ Child(n, "ValueQueries") = Nodes(p3) /\ Child(n, "PeriodOfOccurrence") = Nodes(p4)
       /\ Child(n, "NumberOfOccurrences") = Nodes(p5) /\ Child(n, "MatchingElement") = Nodes(p6)
  BY <1>10, <1>11, <1>12 DEF TriggerForm
<1> HIDE DEF n
<1>14. /\ DurationReadable(n, "Delay") /\ DurationOf(n, "Delay") = t.delay
       /\ Has(n, "Subscription") /\ TextOf(n, "Subscription") = ReadText(t.subscription)
       /\ ValueQueriesOf(n) = CanonicalQueries(t.value_queries)
       /\ DurationReadable(n, "PeriodOfOccurrence")
       /\ DurationOf(n, "PeriodOfOccurrence") = t.period_of_occurrence
       /\ ToSet(ChildText(n, "NumberOfOccurrences")) \subseteq DOMAIN Numbers
       /\ NumberOf(n, "NumberOfOccurrences") = t.number_of_occurrences
       /\ ChildText(n, "MatchingElement") = Texts(t.matching_element)
  BY <1>4, <1>5, <1>6, <1>7, <1>8, <1>9, <1>13
<1>15. TriggerReadable(n)  BY <1>13, <1>14 DEF TriggerReadable
<1>16. TriggerOf(n) = CanonicalTrigger(t)
  <2>1. TriggerOf(n) = [EventTrigger(ReadText(t.subscription)) EXCEPT
               !.common = CanonicalCommon(t.common), !.delay = t.delay,
               !.value_queries = CanonicalQueries(t.value_queries),
               !.period_of_occurrence = t.period_of_occurrence,
               !.number_of_occurrences = t.number_of_occurrences,
               !.matching_element = Texts(t.matching_element)]
    BY <1>13, <1>14 DEF TriggerOf
  <2>2. CanonicalTrigger(t) =
          [t EXCEPT !.common = CanonicalCommon(t.common), !.subscription = ReadText(t.subscription),
                    !.value_queries = CanonicalQueries(t.value_queries),
                    !.matching_element = Texts(t.matching_element)]
    <3>1. t = [kind |-> "EventTrigger", common |-> t.common, subscription |-> t.subscription,
               value_queries |-> t.value_queries, delay |-> t.delay,
               period_of_occurrence |-> t.period_of_occurrence,
               number_of_occurrences |-> t.number_of_occurrences,
               matching_element |-> t.matching_element]
      BY <1>1 DEF EventTrigger
    <3>2. QED  BY <3>1 DEF CanonicalTrigger
  <2>3. t = [kind |-> "EventTrigger", common |-> t.common, subscription |-> t.subscription,
             value_queries |-> t.value_queries, delay |-> t.delay,
             period_of_occurrence |-> t.period_of_occurrence,
             number_of_occurrences |-> t.number_of_occurrences,
             matching_element |-> t.matching_element]
    BY <1>1 DEF EventTrigger
  <2> DEFINE queries == CanonicalQueries(t.value_queries)
             read == [kind |-> "EventTrigger", common |-> CanonicalCommon(t.common),
                      subscription |-> ReadText(t.subscription),
                      value_queries |-> queries, delay |-> t.delay,
                      period_of_occurrence |-> t.period_of_occurrence,
                      number_of_occurrences |-> t.number_of_occurrences,
                      matching_element |-> Texts(t.matching_element)]
  <2> HIDE DEF queries
  <2>4. TriggerOf(n) = read  BY <2>1 DEF EventTrigger, queries
  <2>5. CanonicalTrigger(t) = read  BY <2>2, <2>3 DEF queries
  <2>6. QED  BY <2>4, <2>5
<1>17. QED  BY <1>13, <1>15, <1>16 DEF TriggerKept, n

-----------------------------------------------------------------------------
(***************************************************************************)
(* Elements that are carried unread.                                         *)
(***************************************************************************)
\* What is read of an element that was carried unread.
LEMMA MirrorChild ==
  ASSUME NEW S, Hereditary(S), NEW n \in S, NEW m, m = Mirror(n), NEW name
  PROVE  /\ Child(m, name) = [i \in DOMAIN Child(n, name) |-> Mirror(Child(n, name)[i])]
         /\ IsList(Child(n, name)) /\ Len(Child(n, name)) <= 1 /\ ToSet(Child(n, name)) \subseteq S
<1>1. IsList(n.kids) /\ ToSet(n.kids) \subseteq S  BY DEF Hereditary
<1>2. m.kids = [i \in DOMAIN n.kids |-> NodeOf(n.kids[i].xml)]  BY DEF Mirror
<1>3. \A i \in DOMAIN n.kids : n.kids[i] \in S  BY <1>1 DEF ToSet
<1>4. \A i \in DOMAIN n.kids : NodeOf(n.kids[i].xml) = Mirror(n.kids[i])
  BY <1>3, ReadsUnique DEF Hereditary
<1>5. \A i \in DOMAIN n.kids : m.kids[i] = Mirror(n.kids[i]) /\ m.kids[i].name = n.kids[i].name
  BY <1>2, <1>4 DEF Mirror
<1>6. DOMAIN m.kids = DOMAIN n.kids  BY <1>2
<1> DEFINE named == {i \in DOMAIN n.kids : n.kids[i].name = name}
           seen == {i \in DOMAIN m.kids : m.kids[i].name = name}
<1>7. seen = named  BY <1>5, <1>6
<1>8. CASE named = {}
  <2>1. Child(n, name) = <<>> /\ Child(m, name) = <<>>  BY <1>7, <1>8 DEF Child, None
  <2>2. QED  BY <2>1 DEF IsList, ToSet
<1>9. CASE named # {}
  <2> DEFINE k == Min(named)
  <2>1. named \subseteq Nat  BY <1>1, ListParts
  <2>2. PICK j \in named : \A i \in named : j <= i  BY <1>9, <2>1, Least
  <2>3. k \in named  BY <2>2 DEF Min
  <2>4. Child(n, name) = <<n.kids[k]>>  BY <1>9 DEF Child, Some
  <2>5. Child(m, name) = <<m.kids[k]>>  BY <1>7, <1>9 DEF Child, Some
  <2> HIDE DEF k
  <2>6. n.kids[k] \in S /\ m.kids[k] = Mirror(n.kids[k])  BY <1>3, <1>5, <2>3
  <2> DEFINE x == n.kids[k]
  <2> HIDE DEF x, named
  <2>7. Child(n, name) = <<x>> /\ x \in S /\ Child(m, name) = <<Mirror(x)>>
    BY <2>4, <2>5, <2>6 DEF x
  <2>8. QED  BY <2>7 DEF IsList, ToSet
<1>10. QED  BY <1>8, <1>9

LEMMA MirrorText ==
  ASSUME NEW S, Hereditary(S), NEW n \in S, NEW m, m = Mirror(n), NEW name
  PROVE  /\ Has(m, name) <=> Has(n, name)
         /\ ToSet(ChildText(n, name)) \subseteq Words => ChildText(m, name) = ChildText(n, name)
<1> DEFINE a == Child(n, name)
           b == Child(m, name)
<1>1. b = [i \in DOMAIN a |-> Mirror(a[i])] /\ IsList(a) /\ Len(a) <= 1  BY MirrorChild
<1>2. ChildText(n, name) = [i \in DOMAIN a |-> a[i].text]  BY DEF ChildText, Each
<1>3. ChildText(m, name) = [i \in DOMAIN b |-> b[i].text]  BY DEF ChildText, Each
<1>4. a = <<>> <=> b = <<>>
  <2>1. a = <<>> => b = <<>>  BY <1>1
  <2>2. b = <<>> => DOMAIN b = {}  OBVIOUS
  <2>3. DOMAIN b = DOMAIN a  BY <1>1
  <2>4. DOMAIN a = {} => a = <<>>
    <3>1. a \in Seq(ToSet(a))  BY <1>1 DEF IsList
    <3> HIDE DEF a
    <3>2. QED  BY <3>1
  <2>5. QED  BY <2>1, <2>2, <2>3, <2>4
<1> HIDE DEF a, b
<1>5. Has(m, name) <=> Has(n, name)  BY <1>4 DEF Has, None, a, b
<1>6. ASSUME ToSet(ChildText(n, name)) \subseteq Words
      PROVE  ChildText(m, name) = ChildText(n, name)
  <2>1. \A i \in DOMAIN a : a[i].text \in Words  BY <1>2, <1>6 DEF ToSet
  <2>2. \A i \in DOMAIN a : b[i].text = ReadText(a[i].text)  BY <1>1 DEF Mirror
  <2>3. \A i \in DOMAIN a : b[i].text = a[i].text  BY <2>1, <2>2, WordsKept
  <2>4. DOMAIN b = DOMAIN a  BY <1>1
  <2>5. QED  BY <1>2, <1>3, <2>3, <2>4
<1>7. QED  BY <1>5, <1>6

LEMMA MirrorReadable ==
  ASSUME NEW S, Hereditary(S), NEW n \in S, NEW m, m = Mirror(n), NEW name
  PROVE  /\ BoolReadable(n, name) => BoolReadable(m, name)
         /\ DurationReadable(n, name) => DurationReadable(m, name)
         /\ DateReadable(n, name) => DateReadable(m, name)
<1>1. ToSet(ChildText(n, name)) \subseteq Words => ChildText(m, name) = ChildText(n, name)
  BY MirrorText
<1>2. BoolReadable(n, name) => ToSet(ChildText(n, name)) \subseteq Words
  BY DEF BoolReadable, Words
<1>3. DurationReadable(n, name) => ToSet(ChildText(n, name)) \subseteq Words
  BY DEF DurationReadable, Words
<1>4. DateReadable(n, name) => ToSet(ChildText(n, name)) \subseteq Words
  BY DEF DateReadable, Words
<1>5. QED  BY <1>1, <1>2, <1>3, <1>4 DEF BoolReadable, DurationReadable, DateReadable

LEMMA MirrorCommon ==
  ASSUME NEW S, Hereditary(S), NEW n \in S, CommonReadable(n), NEW m, m = Mirror(n)
  PROVE  CommonReadable(m)
<1>1. /\ DateReadable(m, "StartBoundary") /\ DateReadable(m, "EndBoundary")
      /\ BoolReadable(m, "Enabled") /\ DurationReadable(m, "ExecutionTimeLimit")
  BY MirrorReadable DEF CommonReadable
<1>2. ASSUME NEW r \in ToSet(Child(m, "Repetition"))  PROVE RepetitionReadable(r)
  <2> DEFINE a == Child(n, "Repetition")
  <2>1. Child(m, "Repetition") = [i \in DOMAIN a |-> Mirror(a[i])] /\ ToSet(a) \subseteq S
    BY MirrorChild
  <2>2. PICK i \in DOMAIN a : r = Mirror(a[i])  BY <2>1 DEF ToSet
  <2>3. a[i] \in S /\ RepetitionReadable(a[i])  BY <2>1 DEF ToSet, CommonReadable
  <2> DEFINE x == a[i]
  <2> HIDE DEF x
  <2>4. x \in S /\ RepetitionReadable(x) /\ r = Mirror(x)  BY <2>2, <2>3 DEF x
  <2>5. /\ Has(r, "Interval") /\ DurationReadable(r, "Interval")
        /\ DurationReadable(r, "Duration") /\ BoolReadable(r, "StopAtDurationEnd")
    BY <2>4, MirrorText, MirrorReadable DEF RepetitionReadable
  <2>6. QED  BY <2>5 DEF RepetitionReadable
<1>3. QED  BY <1>1, <1>2 DEF CommonReadable

LEMMA UnknownKept ==
  ASSUME NEW t, NEW S, Hereditary(S), IsTrigger(t, S), t.kind = "unknown"
  PROVE  TriggerKept(t)
<1>1. PICK n \in S : t = UnknownTrigger(n.xml) /\ n.name \notin TriggerNames /\ CommonReadable(n)
  BY DEF IsTrigger
<1> DEFINE m == Mirror(n)
<1>2. WriteTrigger(t) = n.xml  BY <1>1, CalendarNames DEF WriteTrigger, UnknownTrigger
<1>3. Reads(n.xml, m)  BY DEF Hereditary
<1>4. IsElement(WriteTrigger(t)) /\ NodeOf(WriteTrigger(t)) = m  BY <1>2, <1>3, ReadsUnique
<1>5. m.name = n.name /\ m.xml = AsRead(n.xml)  BY DEF Mirror
<1>6. CommonReadable(m)  BY <1>1, MirrorCommon
<1> HIDE DEF m
<1>7. TriggerReadable(m)  BY <1>1, <1>5, <1>6 DEF TriggerReadable, TriggerNames
<1>8. TriggerOf(m) = UnknownTrigger(AsRead(n.xml))
  BY <1>1, <1>5 DEF TriggerOf, TriggerNames
<1>9. CanonicalTrigger(t) = UnknownTrigger(AsRead(n.xml))
  <2>1. t.kind = "unknown" /\ t.xml = n.xml  BY <1>1 DEF UnknownTrigger
  <2>2. QED  BY <2>1 DEF CanonicalTrigger
<1>10. QED  BY <1>1, <1>4, <1>7, <1>8, <1>9 DEF TriggerKept

LEMMA EveryTriggerKept ==
  ASSUME NEW t, NEW S, Hereditary(S), IsTrigger(t, S), ValidTrigger(t)
  PROVE  TriggerKept(t)
<1>1. \/ t.kind \in {"BootTrigger", "RegistrationTrigger"}
      \/ t.kind = "IdleTrigger" \/ t.kind = "TimeTrigger" \/ t.kind = "EventTrigger"
      \/ t.kind = "LogonTrigger" \/ t.kind = "SessionStateChangeTrigger"
      \/ t.kind \in ToSet(Calendar) \/ t.kind = "unknown"
  BY DEF IsTrigger, TriggerNames
<1>2. CASE t.kind \in {"BootTrigger", "RegistrationTrigger"}  BY <1>2, BootKept
<1>3. CASE t.kind = "IdleTrigger"  BY <1>3, IdleKept
<1>4. CASE t.kind = "TimeTrigger"  BY <1>4, TimeKept
<1>5. CASE t.kind = "EventTrigger"  BY <1>5, EventKept
<1>6. CASE t.kind = "LogonTrigger"  BY <1>6, LogonKept
<1>7. CASE t.kind = "SessionStateChangeTrigger"  BY <1>7, SessionKept
<1>8. CASE t.kind \in ToSet(Calendar)
  <2>1. IsCommon(t.common) /\ IsCalendar(t)
    <3>1. t.kind # "unknown"  BY <1>8, CalendarNames
    <3>2. QED  BY <1>8, <3>1 DEF IsTrigger
  <2>2. QED  BY <1>8, <2>1, CalendarKept
<1>9. CASE t.kind = "unknown"  BY <1>9, UnknownKept
<1>10. QED  BY <1>1, <1>2, <1>3, <1>4, <1>5, <1>6, <1>7, <1>8, <1>9

-----------------------------------------------------------------------------
(***************************************************************************)
(* Actions.                                                                  *)
(***************************************************************************)
\* Parts with different names, in a list.
LEMMA NamedParts ==
  ASSUME NEW P, NEW names, IsList(P), DOMAIN P = DOMAIN names,
         \A i \in DOMAIN P : PartOf(P[i], names[i]),
         \A i, j \in DOMAIN P : names[i] = names[j] => i = j
  PROVE  /\ Menu(FlattenSeq(P), ToSet(names))
         /\ \A i \in DOMAIN P : Offers(FlattenSeq(P), names[i], P[i])
<1> DEFINE list == FlattenSeq(P)
<1>1. Lists(P)  BY DEF Lists, PartOf, Elements
<1>2. IsList(list) /\ \A x : x \in ToSet(list) <=> \E i \in DOMAIN P : x \in ToSet(P[i])
  BY <1>1, FlatParts
<1> HIDE DEF list
<1>3. \A i \in DOMAIN P : \A x \in ToSet(P[i]) : IsElement(x) /\ NodeOf(x).name = names[i]
  BY DEF PartOf, Elements
<1>4. Elements(list)  BY <1>2, <1>3 DEF Elements
<1>5. \A x \in ToSet(list) : NodeOf(x).name \in ToSet(names)  BY <1>2, <1>3 DEF ToSet
<1>6. ASSUME NEW i \in DOMAIN P  PROVE Offers(list, names[i], P[i])
  <2>1. IsList(P[i]) /\ Len(P[i]) <= 1  BY DEF PartOf, Elements
  <2>2. ToSet(P[i]) \subseteq ToSet(list)  BY <1>2
  <2>3. ASSUME NEW x \in ToSet(list)
        PROVE  NodeOf(x).name = names[i] <=> x \in ToSet(P[i])
    <3>1. PICK j \in DOMAIN P : x \in ToSet(P[j])  BY <1>2
    <3>2. NodeOf(x).name = names[j]  BY <1>3, <3>1
    <3>3. QED  BY <1>3, <3>1, <3>2
  <2>4. QED  BY <1>4, <2>1, <2>2, <2>3 DEF Offers
<1>7. QED  BY <1>4, <1>5, <1>6 DEF Menu, list

\* Two lists of elements with different names, put together.
LEMMA MenusJoined ==
  ASSUME NEW a, NEW b, NEW N, NEW M, Menu(a, N), Menu(b, M), N \intersect M = {},
         NEW list, IsList(list), \A x : x \in ToSet(list) <=> x \in ToSet(a) \/ x \in ToSet(b)
  PROVE  /\ Menu(list, N \union M)
         /\ \A n, part : Offers(a, n, part) /\ n \in N => Offers(list, n, part)
         /\ \A n, part : Offers(b, n, part) /\ n \in M => Offers(list, n, part)
<1>1. Elements(list)  BY DEF Menu, Elements
<1>2. Menu(list, N \union M)  BY <1>1 DEF Menu
<1>3. ASSUME NEW n, NEW part, Offers(a, n, part), n \in N  PROVE Offers(list, n, part)
  <2>1. ToSet(a) \subseteq ToSet(list)  OBVIOUS
  <2>2. \A x \in ToSet(list) : x \in ToSet(a) \/ NodeOf(x).name # n  BY <1>3 DEF Menu
  <2>3. QED  BY <1>1, <1>3, <2>1, <2>2, OfferedAmong
<1>4. ASSUME NEW n, NEW part, Offers(b, n, part), n \in M  PROVE Offers(list, n, part)
  <2>1. ToSet(b) \subseteq ToSet(list)  OBVIOUS
  <2>2. \A x \in ToSet(list) : x \in ToSet(b) \/ NodeOf(x).name # n  BY <1>4 DEF Menu
  <2>3. QED  BY <1>1, <1>4, <2>1, <2>2, OfferedAmong
<1>5. QED  BY <1>2, <1>3, <1>4

LEMMA FlatOne ==
  ASSUME NEW s, IsList(s)
  PROVE  FlattenSeq(<<s>>) = s
<1> DEFINE P == <<s>>
<1>1. IsList(P) /\ Len(P) = 1 /\ P[1] = s /\ DOMAIN P = {1}  BY DEF IsList, ToSet
<1> HIDE DEF P
<1>2. Lists(P)  BY <1>1 DEF Lists
<1>3. PICK f : /\ f[0] = <<>> /\ FlattenSeq(P) = f[Len(P)]
               /\ \A i \in 1..Len(P) : f[i] = f[i - 1] \o P[i]
               /\ \A i \in 0..Len(P) : IsList(f[i])
  BY <1>2, FlatSolves
<1>4. f[1] = f[0] \o P[1]
  <2>1. 1 \in 1..Len(P) /\ 1 - 1 = 0  BY <1>1
  <2>2. f[1] = f[1 - 1] \o P[1]  BY <1>3, <2>1
  <2>3. QED  BY <2>1, <2>2
<1>5. <<>> \o s = s
  <2>1. s \in Seq(ToSet(s))  BY DEF IsList
  <2>2. QED  BY <2>1
<1>6. QED  BY <1>1, <1>3, <1>4, <1>5 DEF P

\* A list in a container that is left out when it is empty.
LEMMA ListedPart ==
  ASSUME NEW outer, NEW inner, NEW list, Elements(list),
         \A e \in ToSet(list) : NodeOf(e).name = inner
  PROVE  /\ PartOf(ListElement(outer, list), outer)
         /\ \A node : Child(node, outer) = Nodes(ListElement(outer, list)) =>
              Listed(node, outer, inner) = Nodes(list)
<1>1. CASE list = <<>>
  <2>1. ListElement(outer, list) = <<>> /\ Nodes(list) = <<>>
    BY <1>1, NoPart DEF ListElement
  <2>2. ASSUME NEW node, Child(node, outer) = <<>>  PROVE Listed(node, outer, inner) = <<>>
    <3> DEFINE P == [i \in DOMAIN <<>> |-> Children(<<>>[i], inner)]
    <3>1. Listed(node, outer, inner) = FlattenSeq(P)  BY <2>2 DEF Listed, Each
    <3>2. P = <<>>  OBVIOUS
    <3>3. IsList(P) /\ \A i \in DOMAIN P : P[i] = <<>>  BY <3>2 DEF IsList, ToSet
    <3>4. QED  BY <3>1, <3>3, FlatNothing
  <2>3. QED  BY <2>1, <2>2, NoPart
<1>2. CASE list # <<>>
  <2> DEFINE e == Plain(outer, list)
  <2>1. ListElement(outer, list) = <<e>>  BY <1>2 DEF ListElement
  <2>2. /\ PartOf(<<e>>, outer) /\ Nodes(<<e>>) = <<NodeOf(e)>>
        /\ NodeOf(e).kids = Nodes(list)
    BY PlainPart
  <2> HIDE DEF e
  <2>3. IsList(Nodes(list)) /\ \A i \in DOMAIN Nodes(list) : Nodes(list)[i].name = inner
    <3>1. IsList(list)  BY DEF Elements
    <3>2. Nodes(list) = [i \in DOMAIN list |-> Nodes(list)[i]]  BY DEF Nodes
    <3>3. IsList(Nodes(list)) /\ DOMAIN Nodes(list) = DOMAIN list  BY <3>1, <3>2, Mapped
    <3>4. \A i \in DOMAIN list : list[i] \in ToSet(list)  BY DEF ToSet
    <3>5. \A i \in DOMAIN list : Nodes(list)[i] = NodeOf(list[i])  BY DEF Nodes
    <3>6. QED  BY <3>3, <3>4, <3>5
  <2>4. ASSUME NEW node, Child(node, outer) = Nodes(<<e>>)
        PROVE  Listed(node, outer, inner) = Nodes(list)
    <3> DEFINE kids == Nodes(list)
               s == NodeOf(e)
    <3>1. Children(s, inner) = kids
      <4>1. s.kids = kids /\ IsList(s.kids)  BY <2>2, <2>3
      <4>2. \A i \in DOMAIN s.kids : s.kids[i].name = inner  BY <2>3, <4>1
      <4> HIDE DEF s, kids
      <4>3. QED  BY <4>1, <4>2, AllChildren
    <3>2. Child(node, outer) = <<s>>  BY <2>2, <2>4
    <3>3. Listed(node, outer, inner) = FlattenSeq([i \in DOMAIN <<s>> |-> Children(<<s>>[i], inner)])
      BY <3>2 DEF Listed, Each
    <3> HIDE DEF s, kids
    <3>4. [i \in DOMAIN <<s>> |-> Children(<<s>>[i], inner)] = <<kids>>  BY <3>1
    <3>5. IsList(kids)  BY <2>3 DEF kids
    <3>6. QED  BY <3>3, <3>4, <3>5, FlatOne DEF kids
  <2>5. QED  BY <2>1, <2>2, <2>4
<1>3. QED  BY <1>1, <1>2

\* An action is read back as it was written.
ActionKept(a) ==
  /\ IsElement(WriteAction(a)) /\ ActionReadable(NodeOf(WriteAction(a)))
  /\ ActionOf(NodeOf(WriteAction(a))) = CanonicalAction(a)

LEMMA ExecKept ==
  ASSUME NEW a, NEW unread, IsAction(a, unread), a.kind = "Exec"
  PROVE  ActionKept(a)
<1> DEFINE p1 == <<Element("Command", a.command)>>
           p2 == OptionalElement("Arguments", a.arguments)
           p3 == OptionalElement("WorkingDirectory", a.working_directory)
           p4 == Raised("HideAppWindow", a.hide_window)
           list == FlattenSeq(<<p1, p2, p3, p4>>)
           e == WithId("Exec", a.id, list)
           n == NodeOf(e)
<1>1. /\ IsOption(a.id) /\ IsOption(a.arguments) /\ IsOption(a.working_directory)
      /\ a.hide_window \in BOOLEAN
      /\ a = [kind |-> "Exec", id |-> a.id, command |-> a.command, arguments |-> a.arguments,
              working_directory |-> a.working_directory, hide_window |-> a.hide_window]
  BY DEF IsAction, ExecAction
<1>2. /\ PartOf(p1, "Command")
      /\ \A node : Child(node, "Command") = Nodes(p1) =>
           Has(node, "Command") /\ TextOf(node, "Command") = ReadText(a.command)
  BY OneText
<1>3. /\ PartOf(p2, "Arguments")
      /\ \A node : Child(node, "Arguments") = Nodes(p2) =>
           ChildText(node, "Arguments") = Texts(a.arguments)
  BY <1>1, TextPart
<1>4. /\ PartOf(p3, "WorkingDirectory")
      /\ \A node : Child(node, "WorkingDirectory") = Nodes(p3) =>
           ChildText(node, "WorkingDirectory") = Texts(a.working_directory)
  BY <1>1, TextPart
<1>5. /\ PartOf(p4, "HideAppWindow")
      /\ \A node : Child(node, "HideAppWindow") = Nodes(p4) =>
           /\ BoolReadable(node, "HideAppWindow")
           /\ BoolOf(node, "HideAppWindow", FALSE) = a.hide_window
  BY <1>1, RaisedPart
<1>6. WriteAction(a) = e  BY DEF WriteAction
<1> HIDE DEF p1, p2, p3, p4
<1>7. /\ Elements(list) /\ Offers(list, "Command", p1) /\ Offers(list, "Arguments", p2)
      /\ Offers(list, "WorkingDirectory", p3) /\ Offers(list, "HideAppWindow", p4)
  <2>1. /\ PartOf(p1, "Command") /\ PartOf(p2, "Arguments") /\ PartOf(p3, "WorkingDirectory")
        /\ PartOf(p4, "HideAppWindow")
    BY <1>2, <1>3, <1>4, <1>5
  <2>2. Menu(list, {"Command", "Arguments", "WorkingDirectory", "HideAppWindow"})
    BY <2>1, Parts4
  <2>3. Offers(list, "Command", p1) /\ Offers(list, "Arguments", p2)  BY <2>1, Parts4
  <2>4. Offers(list, "WorkingDirectory", p3) /\ Offers(list, "HideAppWindow", p4)
    BY <2>1, Parts4
  <2>5. QED  BY <2>2, <2>3, <2>4 DEF Menu
<1> HIDE DEF list
<1>8. IsElement(e) /\ n.name = "Exec" /\ n.kids = Nodes(list) /\ IdIn(n) = Ids(a.id)
  BY <1>1, <1>7, WithIdReads
<1> HIDE DEF e, n
<1>9. /\ Child(n, "Command") = Nodes(p1) /\ Child(n, "Arguments") = Nodes(p2)
      /\ Child(n, "WorkingDirectory") = Nodes(p3) /\ Child(n, "HideAppWindow") = Nodes(p4)
  BY <1>7, <1>8, Lookup
<1>10. /\ Has(n, "Command") /\ TextOf(n, "Command") = ReadText(a.command)
       /\ ChildText(n, "Arguments") = Texts(a.arguments)
       /\ ChildText(n, "WorkingDirectory") = Texts(a.working_directory)
       /\ BoolReadable(n, "HideAppWindow")
       /\ BoolOf(n, "HideAppWindow", FALSE) = a.hide_window
  BY <1>2, <1>3, <1>4, <1>5, <1>9
<1>11. ActionReadable(n)  BY <1>8, <1>10 DEF ActionReadable
<1>12. ActionOf(n) = CanonicalAction(a)
  <2>1. ActionOf(n) = [ExecAction(ReadText(a.command)) EXCEPT
               !.id = Ids(a.id), !.arguments = Texts(a.arguments),
               !.working_directory = Texts(a.working_directory),
               !.hide_window = a.hide_window]
    BY <1>8, <1>10 DEF ActionOf, IdIn
  <2>2. CanonicalAction(a) =
          [a EXCEPT !.id = Ids(a.id), !.command = ReadText(a.command), !.arguments = Texts(a.arguments),
                    !.working_directory = Texts(a.working_directory)]
    BY <1>1 DEF CanonicalAction
  <2> DEFINE read == [kind |-> "Exec", id |-> Ids(a.id), command |-> ReadText(a.command),
                      arguments |-> Texts(a.arguments),
                      working_directory |-> Texts(a.working_directory),
                      hide_window |-> a.hide_window]
  <2>3. ActionOf(n) = read  BY <2>1 DEF ExecAction
  <2>4. CanonicalAction(a) = read  BY <1>1, <2>2
  <2>5. QED  BY <2>3, <2>4
<1>13. QED  BY <1>6, <1>8, <1>11, <1>12 DEF ActionKept, n

LEMMA ComHandlerKept ==
  ASSUME NEW a, NEW unread, IsAction(a, unread), a.kind = "ComHandler"
  PROVE  ActionKept(a)
<1> DEFINE p1 == <<Element("ClassId", a.class_id)>>
           p2 == OptionalElement("Data", a.data)
           list == FlattenSeq(<<p1, p2>>)
           e == WithId("ComHandler", a.id, list)
           n == NodeOf(e)
<1>1. /\ IsOption(a.id) /\ IsOption(a.data)
      /\ a.class_id \in DOMAIN ClassIds /\ ClassIds[a.class_id] = a.class_id
      /\ a = [kind |-> "ComHandler", id |-> a.id, class_id |-> a.class_id, data |-> a.data]
  BY DEF IsAction, ComHandlerAction
<1>2. /\ PartOf(p1, "ClassId")
      /\ \A node : Child(node, "ClassId") = Nodes(p1) =>
           Has(node, "ClassId") /\ TextOf(node, "ClassId") = a.class_id
  <2>1. a.class_id \in Words  BY <1>1 DEF Words
  <2>2. QED  BY <2>1, OneWord
<1>3. /\ PartOf(p2, "Data")
      /\ \A node : Child(node, "Data") = Nodes(p2) => ChildText(node, "Data") = Texts(a.data)
  BY <1>1, TextPart
<1>4. WriteAction(a) = e  BY DEF WriteAction
<1> HIDE DEF p1, p2
<1>5. Elements(list) /\ Offers(list, "ClassId", p1) /\ Offers(list, "Data", p2)
  <2>1. PartOf(p1, "ClassId") /\ PartOf(p2, "Data")  BY <1>2, <1>3
  <2>2. Menu(list, {"ClassId", "Data"}) /\ Offers(list, "ClassId", p1) /\ Offers(list, "Data", p2)
    BY <2>1, Parts2
  <2>3. QED  BY <2>2 DEF Menu
<1> HIDE DEF list
<1>6. IsElement(e) /\ n.name = "ComHandler" /\ n.kids = Nodes(list) /\ IdIn(n) = Ids(a.id)
  BY <1>1, <1>5, WithIdReads
<1> HIDE DEF e, n
<1>7. Child(n, "ClassId") = Nodes(p1) /\ Child(n, "Data") = Nodes(p2)
  BY <1>5, <1>6, Lookup
<1>8. /\ Has(n, "ClassId") /\ TextOf(n, "ClassId") = a.class_id
      /\ ChildText(n, "Data") = Texts(a.data)
  BY <1>2, <1>3, <1>7
<1>9. ActionReadable(n)  BY <1>1, <1>6, <1>8 DEF ActionReadable
<1>10. ActionOf(n) = CanonicalAction(a)
  <2>1. ActionOf(n) = [ComHandlerAction(a.class_id) EXCEPT !.id = Ids(a.id), !.data = Texts(a.data)]
    BY <1>1, <1>6, <1>8 DEF ActionOf, IdIn
  <2>2. CanonicalAction(a) = [a EXCEPT !.id = Ids(a.id), !.data = Texts(a.data)]  BY <1>1 DEF CanonicalAction
  <2> DEFINE read == [kind |-> "ComHandler", id |-> Ids(a.id), class_id |-> a.class_id,
                      data |-> Texts(a.data)]
  <2>3. ActionOf(n) = read  BY <2>1 DEF ComHandlerAction
  <2>4. CanonicalAction(a) = read  BY <1>1, <2>2
  <2>5. QED  BY <2>3, <2>4
<1>11. QED  BY <1>4, <1>6, <1>9, <1>10 DEF ActionKept, n

LEMMA ShowMessageKept ==
  ASSUME NEW a, NEW unread, IsAction(a, unread), a.kind = "ShowMessage"
  PROVE  ActionKept(a)
<1> DEFINE p1 == OptionalElement("Title", a.title)
           p2 == <<Element("Body", a.body)>>
           list == FlattenSeq(<<p1, p2>>)
           e == WithId("ShowMessage", a.id, list)
           n == NodeOf(e)
<1>1. /\ IsOption(a.id) /\ IsOption(a.title)
      /\ a = [kind |-> "ShowMessage", id |-> a.id, title |-> a.title, body |-> a.body]
  BY DEF IsAction, ShowMessageAction
<1>2. /\ PartOf(p1, "Title")
      /\ \A node : Child(node, "Title") = Nodes(p1) => ChildText(node, "Title") = Texts(a.title)
  BY <1>1, TextPart
<1>3. /\ PartOf(p2, "Body")
      /\ \A node : Child(node, "Body") = Nodes(p2) =>
           Has(node, "Body") /\ TextOf(node, "Body") = ReadText(a.body)
  BY OneText
<1>4. WriteAction(a) = e  BY DEF WriteAction
<1> HIDE DEF p1, p2
<1>5. Elements(list) /\ Offers(list, "Title", p1) /\ Offers(list, "Body", p2)
  <2>1. PartOf(p1, "Title") /\ PartOf(p2, "Body")  BY <1>2, <1>3
  <2>2. Menu(list, {"Title", "Body"}) /\ Offers(list, "Title", p1) /\ Offers(list, "Body", p2)
    BY <2>1, Parts2
  <2>3. QED  BY <2>2 DEF Menu
<1> HIDE DEF list
<1>6. IsElement(e) /\ n.name = "ShowMessage" /\ n.kids = Nodes(list) /\ IdIn(n) = Ids(a.id)
  BY <1>1, <1>5, WithIdReads
<1> HIDE DEF e, n
<1>7. Child(n, "Title") = Nodes(p1) /\ Child(n, "Body") = Nodes(p2)
  BY <1>5, <1>6, Lookup
<1>8. /\ Has(n, "Body") /\ TextOf(n, "Body") = ReadText(a.body)
      /\ ChildText(n, "Title") = Texts(a.title)
  BY <1>2, <1>3, <1>7
<1>9. ActionReadable(n)  BY <1>6, <1>8 DEF ActionReadable
<1>10. ActionOf(n) = CanonicalAction(a)
  <2>1. ActionOf(n) = [ShowMessageAction(ReadText(a.body)) EXCEPT
                         !.id = Ids(a.id), !.title = Texts(a.title)]
    BY <1>6, <1>8 DEF ActionOf, IdIn
  <2>2. CanonicalAction(a) = [a EXCEPT !.id = Ids(a.id), !.body = ReadText(a.body),
                                          !.title = Texts(a.title)]
    BY <1>1 DEF CanonicalAction
  <2> DEFINE read == [kind |-> "ShowMessage", id |-> Ids(a.id), title |-> Texts(a.title),
                      body |-> ReadText(a.body)]
  <2>3. ActionOf(n) = read  BY <2>1 DEF ShowMessageAction
  <2>4. CanonicalAction(a) = read  BY <1>1, <2>2
  <2>5. QED  BY <2>3, <2>4
<1>11. QED  BY <1>4, <1>6, <1>9, <1>10 DEF ActionKept, n

LEMMA UnknownActionKept ==
  ASSUME NEW a, NEW S, Hereditary(S), IsAction(a, S), a.kind = "unknown"
  PROVE  ActionKept(a)
<1>1. PICK n \in S : a = UnknownAction(n.xml) /\ n.name \notin ActionNames
  BY DEF IsAction
<1> DEFINE m == Mirror(n)
<1>2. WriteAction(a) = n.xml  BY <1>1 DEF WriteAction, UnknownAction
<1>3. Reads(n.xml, m)  BY DEF Hereditary
<1>4. IsElement(WriteAction(a)) /\ NodeOf(WriteAction(a)) = m  BY <1>2, <1>3, ReadsUnique
<1>5. m.name = n.name /\ m.xml = AsRead(n.xml)  BY DEF Mirror
<1> HIDE DEF m
<1>6. ActionReadable(m)  BY <1>1, <1>5 DEF ActionReadable, ActionNames
<1>7. ActionOf(m) = UnknownAction(AsRead(n.xml))  BY <1>1, <1>5 DEF ActionOf, ActionNames
<1>8. CanonicalAction(a) = UnknownAction(AsRead(n.xml))
  <2>1. a.kind = "unknown" /\ a.xml = n.xml  BY <1>1 DEF UnknownAction
  <2>2. QED  BY <2>1 DEF CanonicalAction
<1>9. QED  BY <1>1, <1>4, <1>6, <1>7, <1>8 DEF ActionKept

\* The header fields of an e-mail.
HeaderList(headers) == [i \in DOMAIN headers |-> HeaderElement(headers[i])]

LEMMA HeaderKept ==
  ASSUME NEW h, NEW e, e = HeaderElement(h), NEW n, n = NodeOf(e)
  PROVE  /\ IsElement(e) /\ n.name = "HeaderField"
         /\ Has(n, "Name") /\ Has(n, "Value")
         /\ TextOf(n, "Name") = ReadText(h.name) /\ TextOf(n, "Value") = ReadText(h.value)
<1> DEFINE x == Element("Name", h.name)
           y == Element("Value", h.value)
           list == <<x, y>>
<1>1. /\ PartOf(<<x>>, "Name")
      /\ \A node : Child(node, "Name") = Nodes(<<x>>) =>
           Has(node, "Name") /\ TextOf(node, "Name") = ReadText(h.name)
  BY OneText
<1>2. /\ PartOf(<<y>>, "Value")
      /\ \A node : Child(node, "Value") = Nodes(<<y>>) =>
           Has(node, "Value") /\ TextOf(node, "Value") = ReadText(h.value)
  BY OneText
<1>3. e = Plain("HeaderField", list)  BY DEF HeaderElement
<1> HIDE DEF x, y
<1>4. Elements(list) /\ Offers(list, "Name", <<x>>) /\ Offers(list, "Value", <<y>>)
  <2>1. PartOf(<<x>>, "Name") /\ PartOf(<<y>>, "Value")  BY <1>1, <1>2
  <2>2. /\ Menu(list, {"Name", "Value"}) /\ Offers(list, "Name", <<x>>)
        /\ Offers(list, "Value", <<y>>)
    BY <2>1, Singles2
  <2>3. QED  BY <2>2 DEF Menu
<1> HIDE DEF list
<1>5. IsElement(e) /\ n.name = "HeaderField" /\ n.kids = Nodes(list)
  BY <1>3, <1>4, PlainReads
<1>6. Child(n, "Name") = Nodes(<<x>>) /\ Child(n, "Value") = Nodes(<<y>>)
  BY <1>4, <1>5, Lookup
<1>7. QED  BY <1>1, <1>2, <1>5, <1>6

LEMMA HeadersWritten ==
  ASSUME NEW headers, IsList(headers), NEW list, list = HeaderList(headers)
  PROVE  /\ Elements(list) /\ IsList(Nodes(list)) /\ DOMAIN Nodes(list) = DOMAIN headers
         /\ \A e \in ToSet(list) : NodeOf(e).name = "HeaderField"
         /\ \A i \in DOMAIN headers :
              /\ Has(Nodes(list)[i], "Name") /\ Has(Nodes(list)[i], "Value")
              /\ TextOf(Nodes(list)[i], "Name") = ReadText(headers[i].name)
              /\ TextOf(Nodes(list)[i], "Value") = ReadText(headers[i].value)
<1>1. /\ list = [i \in DOMAIN headers |-> list[i]]
      /\ \A i \in DOMAIN headers : list[i] = HeaderElement(headers[i])
  BY DEF HeaderList
<1> HIDE DEF HeaderList
<1>2. /\ IsList(list) /\ Len(list) = Len(headers) /\ DOMAIN list = DOMAIN headers
      /\ \A x : x \in ToSet(list) <=> \E i \in DOMAIN headers : x = list[i]
  BY <1>1, Mapped
<1>3. \A i \in DOMAIN headers :
        /\ IsElement(list[i]) /\ NodeOf(list[i]).name = "HeaderField"
        /\ Has(NodeOf(list[i]), "Name") /\ Has(NodeOf(list[i]), "Value")
        /\ TextOf(NodeOf(list[i]), "Name") = ReadText(headers[i].name)
        /\ TextOf(NodeOf(list[i]), "Value") = ReadText(headers[i].value)
  BY <1>1, HeaderKept
<1>4. Elements(list)  BY <1>2, <1>3 DEF Elements
<1>5. /\ Nodes(list) = [i \in DOMAIN list |-> Nodes(list)[i]]
      /\ \A i \in DOMAIN list : Nodes(list)[i] = NodeOf(list[i])
  BY DEF Nodes
<1>6. IsList(Nodes(list)) /\ DOMAIN Nodes(list) = DOMAIN list  BY <1>2, <1>5, Mapped
<1>7. QED  BY <1>2, <1>3, <1>4, <1>5, <1>6

\* The optional texts of an e-mail.
EmailParts(a) == [i \in DOMAIN EmailTexts |-> OptionalElement(EmailTexts[i], a.texts[EmailTexts[i]])]

LEMMA EmailTextsWritten ==
  ASSUME NEW a, IsEmail(a), NEW list, list = FlattenSeq(EmailParts(a))
  PROVE  /\ Menu(list, ToSet(EmailTexts))
         /\ \A name \in ToSet(EmailTexts) :
              \E part : /\ Offers(list, name, part)
                        /\ \A node : Child(node, name) = Nodes(part) =>
                             ChildText(node, name) = Texts(a.texts[name])
<1> DEFINE P == EmailParts(a)
<1>1. \A i \in DOMAIN EmailTexts : EmailTexts[i] \in ToSet(EmailTexts)  BY DEF ToSet
<1>2. \A name \in ToSet(EmailTexts) : IsOption(a.texts[name])  BY DEF IsEmail
<1>3. IsList(EmailTexts) /\ DOMAIN EmailTexts = 1..6
      /\ \A i, j \in 1..6 : EmailTexts[i] = EmailTexts[j] => i = j
  BY DEF EmailTexts, IsList, ToSet
<1>4. /\ P = [i \in DOMAIN EmailTexts |-> P[i]]
      /\ \A i \in DOMAIN EmailTexts :
           P[i] = OptionalElement(EmailTexts[i], a.texts[EmailTexts[i]])
  BY DEF EmailParts
<1> HIDE DEF P
<1>5. IsList(P) /\ DOMAIN P = DOMAIN EmailTexts  BY <1>3, <1>4, Mapped
<1>6. \A i \in DOMAIN P :
        /\ PartOf(P[i], EmailTexts[i])
        /\ \A node : Child(node, EmailTexts[i]) = Nodes(P[i]) =>
             ChildText(node, EmailTexts[i]) = Texts(a.texts[EmailTexts[i]])
  BY <1>1, <1>2, <1>4, <1>5, TextPart
<1>7. /\ Menu(FlattenSeq(P), ToSet(EmailTexts))
      /\ \A i \in DOMAIN P : Offers(FlattenSeq(P), EmailTexts[i], P[i])
  <2>1. \A i \in DOMAIN P : PartOf(P[i], EmailTexts[i])  BY <1>6
  <2>2. \A i, j \in DOMAIN P : EmailTexts[i] = EmailTexts[j] => i = j  BY <1>3, <1>5
  <2>3. QED  BY <1>5, <2>1, <2>2, NamedParts
<1>8. ASSUME NEW name \in ToSet(EmailTexts)
      PROVE  \E part : /\ Offers(list, name, part)
                       /\ \A node : Child(node, name) = Nodes(part) =>
                            ChildText(node, name) = Texts(a.texts[name])
  <2>1. PICK i \in DOMAIN EmailTexts : name = EmailTexts[i]  BY DEF ToSet
  <2>2. /\ Offers(list, name, P[i])
        /\ \A node : Child(node, name) = Nodes(P[i]) => ChildText(node, name) = Texts(a.texts[name])
    BY <1>5, <1>6, <1>7, <2>1 DEF P
  <2>3. QED  BY <2>2
<1>9. QED  BY <1>7, <1>8 DEF P

LEMMA SendEmailKept ==
  ASSUME NEW a, NEW unread, IsAction(a, unread), a.kind = "SendEmail"
  PROVE  ActionKept(a)
<1> DEFINE p1 == <<Element("Server", a.server)>>
           x == FlattenSeq(EmailParts(a))
           hs == HeaderList(a.headers)
           p2 == ListElement("HeaderFields", hs)
           p3 == OptionalElement("Body", a.body)
           files == TextElements("File", a.attachments)
           p4 == ListElement("Attachments", files)
           b == FlattenSeq(<<p1, p2, p3, p4>>)
           M == {"Server", "HeaderFields", "Body", "Attachments"}
           list == FlattenSeq(<<p1, x, p2, p3, p4>>)
           e == WithId("SendEmail", a.id, list)
           n == NodeOf(e)
<1>1. /\ IsOption(a.id) /\ IsEmail(a) /\ IsOption(a.body) /\ IsList(a.attachments)
      /\ IsList(a.headers)
  BY DEF IsAction, IsEmail, ActionNames
<1>2. WriteAction(a) = e
  <2>1. Each(EmailTexts, LAMBDA m : OptionalElement(m, a.texts[m])) = EmailParts(a)
    BY DEF Each, EmailParts
  <2>2. Each(a.headers, HeaderElement) = hs  BY DEF Each, HeaderList
  <2>3. Each(a.attachments, LAMBDA file : Element("File", file)) = files
    BY DEF Each, TextElements
  <2>4. QED  BY <2>1, <2>2, <2>3 DEF WriteAction
<1>3. /\ PartOf(p1, "Server")
      /\ \A node : Child(node, "Server") = Nodes(p1) =>
           Has(node, "Server") /\ TextOf(node, "Server") = ReadText(a.server)
  BY OneText
<1>4. /\ PartOf(p3, "Body")
      /\ \A node : Child(node, "Body") = Nodes(p3) => ChildText(node, "Body") = Texts(a.body)
  BY <1>1, TextPart
<1>5. /\ Elements(hs) /\ IsList(Nodes(hs)) /\ DOMAIN Nodes(hs) = DOMAIN a.headers
      /\ \A y \in ToSet(hs) : NodeOf(y).name = "HeaderField"
      /\ \A i \in DOMAIN a.headers :
           /\ Has(Nodes(hs)[i], "Name") /\ Has(Nodes(hs)[i], "Value")
           /\ TextOf(Nodes(hs)[i], "Name") = ReadText(a.headers[i].name)
           /\ TextOf(Nodes(hs)[i], "Value") = ReadText(a.headers[i].value)
  BY <1>1, HeadersWritten
<1>6. /\ Elements(files) /\ IsList(Nodes(files)) /\ DOMAIN Nodes(files) = DOMAIN a.attachments
      /\ \A y \in ToSet(files) : NodeOf(y).name = "File"
      /\ \A i \in DOMAIN a.attachments : Nodes(files)[i].text = ReadText(a.attachments[i])
  BY <1>1, TextList
<1> HIDE DEF hs, files
<1>7. /\ PartOf(p2, "HeaderFields")
      /\ \A node : Child(node, "HeaderFields") = Nodes(p2) =>
           Listed(node, "HeaderFields", "HeaderField") = Nodes(hs)
  BY <1>5, ListedPart
<1>8. /\ PartOf(p4, "Attachments")
      /\ \A node : Child(node, "Attachments") = Nodes(p4) =>
           Listed(node, "Attachments", "File") = Nodes(files)
  BY <1>6, ListedPart
<1>9. /\ Menu(x, ToSet(EmailTexts))
      /\ \A name \in ToSet(EmailTexts) :
           \E part : /\ Offers(x, name, part)
                     /\ \A node : Child(node, name) = Nodes(part) =>
                          ChildText(node, name) = Texts(a.texts[name])
  BY <1>1, EmailTextsWritten
<1> HIDE DEF p1, p2, p3, p4, x
<1>10. /\ Menu(b, M) /\ Offers(b, "Server", p1) /\ Offers(b, "HeaderFields", p2)
       /\ Offers(b, "Body", p3) /\ Offers(b, "Attachments", p4)
  <2>1. /\ PartOf(p1, "Server") /\ PartOf(p2, "HeaderFields") /\ PartOf(p3, "Body")
        /\ PartOf(p4, "Attachments")
    BY <1>3, <1>4, <1>7, <1>8
  <2>2. Menu(b, M)  BY <2>1, Parts4
  <2>3. Offers(b, "Server", p1) /\ Offers(b, "HeaderFields", p2)  BY <2>1, Parts4
  <2>4. Offers(b, "Body", p3) /\ Offers(b, "Attachments", p4)  BY <2>1, Parts4
  <2>5. QED  BY <2>2, <2>3, <2>4
<1>11. IsList(list) /\ \A y : y \in ToSet(list) <=> y \in ToSet(x) \/ y \in ToSet(b)
  <2>1. IsList(p1) /\ IsList(x) /\ IsList(p2) /\ IsList(p3) /\ IsList(p4)
    BY <1>3, <1>4, <1>7, <1>8, <1>9 DEF PartOf, Menu, Elements
  <2>2. \A y : y \in ToSet(b) <=> \/ y \in ToSet(p1) \/ y \in ToSet(p2) \/ y \in ToSet(p3)
                                  \/ y \in ToSet(p4)
    BY <2>1, Flat4
  <2>3. /\ IsList(list)
        /\ \A y : y \in ToSet(list) <=>
             \/ y \in ToSet(p1) \/ y \in ToSet(x) \/ y \in ToSet(p2) \/ y \in ToSet(p3)
             \/ y \in ToSet(p4)
    BY <2>1, Flat5
  <2>4. QED  BY <2>2, <2>3
<1>12. ToSet(EmailTexts) = {"Subject", "To", "Cc", "Bcc", "ReplyTo", "From"}
  BY DEF EmailTexts, ToSet
<1>13. ToSet(EmailTexts) \intersect M = {}  BY <1>12
<1>14. "Server" \in M /\ "HeaderFields" \in M /\ "Body" \in M /\ "Attachments" \in M  OBVIOUS
<1> HIDE DEF b, list, M
<1>15. /\ Elements(list)
       /\ \A m, part : Offers(x, m, part) /\ m \in ToSet(EmailTexts) => Offers(list, m, part)
       /\ \A m, part : Offers(b, m, part) /\ m \in M => Offers(list, m, part)
  <2> DEFINE N == ToSet(EmailTexts)
  <2> HIDE DEF N
  <2>1. Menu(x, N) /\ Menu(b, M) /\ N \intersect M = {}  BY <1>9, <1>10, <1>13 DEF N
  <2>2. /\ Menu(list, N \union M)
        /\ \A m, part : Offers(x, m, part) /\ m \in N => Offers(list, m, part)
        /\ \A m, part : Offers(b, m, part) /\ m \in M => Offers(list, m, part)
    BY <1>11, <2>1, MenusJoined
  <2>3. QED  BY <2>2 DEF N, Menu
<1>16. IsElement(e) /\ n.name = "SendEmail" /\ n.kids = Nodes(list) /\ IdIn(n) = Ids(a.id)
  BY <1>1, <1>15, WithIdReads
<1> HIDE DEF e, n
<1>17. /\ Child(n, "Server") = Nodes(p1) /\ Child(n, "HeaderFields") = Nodes(p2)
       /\ Child(n, "Body") = Nodes(p3) /\ Child(n, "Attachments") = Nodes(p4)
  <2>1. /\ Offers(list, "Server", p1) /\ Offers(list, "HeaderFields", p2)
        /\ Offers(list, "Body", p3) /\ Offers(list, "Attachments", p4)
    BY <1>10, <1>14, <1>15
  <2>2. QED  BY <1>16, <2>1, Lookup
<1>18. /\ Has(n, "Server") /\ TextOf(n, "Server") = ReadText(a.server)
       /\ ChildText(n, "Body") = Texts(a.body)
       /\ Listed(n, "HeaderFields", "HeaderField") = Nodes(hs)
       /\ Listed(n, "Attachments", "File") = Nodes(files)
  BY <1>3, <1>4, <1>7, <1>8, <1>17
<1>19. ASSUME NEW name \in ToSet(EmailTexts)  PROVE ChildText(n, name) = Texts(a.texts[name])
  <2>1. PICK part : /\ Offers(x, name, part)
                    /\ \A node : Child(node, name) = Nodes(part) =>
                         ChildText(node, name) = Texts(a.texts[name])
    BY <1>9
  <2>2. Offers(list, name, part)  BY <1>15, <2>1
  <2>3. Child(n, name) = Nodes(part)  BY <1>16, <2>2, Lookup
  <2>4. QED  BY <2>1, <2>3
<1>20. ActionReadable(n)
  <2>1. \A h \in ToSet(Nodes(hs)) : Has(h, "Name") /\ Has(h, "Value")  BY <1>5 DEF ToSet
  <2>2. QED  BY <1>16, <1>18, <2>1 DEF ActionReadable
<1>21. Each(Nodes(files), LAMBDA file : file.text) = Each(a.attachments, ReadText)
  <2>1. Each(Nodes(files), LAMBDA file : file.text)
          = [i \in DOMAIN Nodes(files) |-> Nodes(files)[i].text]
    BY DEF Each
  <2>2. Each(a.attachments, ReadText) = [i \in DOMAIN a.attachments |-> ReadText(a.attachments[i])]
    BY DEF Each
  <2>3. QED  BY <1>6, <2>1, <2>2
<1>22. Each(Nodes(hs), LAMBDA h : [name |-> TextOf(h, "Name"), value |-> TextOf(h, "Value")])
         = Each(a.headers, LAMBDA h : [name |-> ReadText(h.name), value |-> ReadText(h.value)])
  <2>1. Each(Nodes(hs), LAMBDA h : [name |-> TextOf(h, "Name"), value |-> TextOf(h, "Value")])
          = [i \in DOMAIN Nodes(hs) |-> [name |-> TextOf(Nodes(hs)[i], "Name"),
                                         value |-> TextOf(Nodes(hs)[i], "Value")]]
    BY DEF Each
  <2>2. Each(a.headers, LAMBDA h : [name |-> ReadText(h.name), value |-> ReadText(h.value)])
          = [i \in DOMAIN a.headers |-> [name |-> ReadText(a.headers[i].name),
                                         value |-> ReadText(a.headers[i].value)]]
    BY DEF Each
  <2>3. QED  BY <1>5, <2>1, <2>2
<1>23. ActionOf(n) = CanonicalAction(a)
  <2> DEFINE E == ToSet(EmailTexts)
             sent == [m \in E |-> Texts(a.texts[m])]
             att == Each(a.attachments, ReadText)
             read_id == Ids(a.id)
             heads == Each(a.headers, LAMBDA h : [name |-> ReadText(h.name),
                                                  value |-> ReadText(h.value)])
             read == [kind |-> "SendEmail", id |-> read_id, server |-> ReadText(a.server),
                      texts |-> sent, body |-> Texts(a.body), attachments |-> att,
                      headers |-> heads]
  <2>1. [m \in ToSet(EmailTexts) |-> ChildText(n, m)] = sent  BY <1>19
  <2>2. ActionOf(n) = [EmailAction(ReadText(a.server)) EXCEPT
               !.id = read_id, !.body = Texts(a.body), !.texts = sent,
               !.attachments = att, !.headers = heads]
    <3> HIDE DEF sent, att, heads, read_id
    <3>0. IdIn(n) = read_id  BY <1>16 DEF read_id
    <3>1. ActionOf(n) = [EmailAction(TextOf(n, "Server")) EXCEPT
               !.id = IdIn(n), !.body = ChildText(n, "Body"),
               !.texts = [m \in ToSet(EmailTexts) |-> ChildText(n, m)],
               !.attachments = Each(Listed(n, "Attachments", "File"), LAMBDA file : file.text),
               !.headers = Each(Listed(n, "HeaderFields", "HeaderField"),
                                LAMBDA h : [name |-> TextOf(h, "Name"),
                                            value |-> TextOf(h, "Value")])]
      BY <1>16 DEF ActionOf, IdIn
    <3>2. Each(Listed(n, "Attachments", "File"), LAMBDA file : file.text) = att
      BY <1>18, <1>21 DEF att
    <3>3. Each(Listed(n, "HeaderFields", "HeaderField"),
               LAMBDA h : [name |-> TextOf(h, "Name"), value |-> TextOf(h, "Value")]) = heads
      BY <1>18, <1>22 DEF heads
    <3>4. QED  BY <1>18, <2>1, <3>0, <3>1, <3>2, <3>3
  <2> DEFINE given == [m \in E |-> a.texts[m]]
  <2>3. a = [EmailAction(a.server) EXCEPT
               !.id = a.id, !.body = a.body, !.attachments = a.attachments,
               !.texts = given, !.headers = a.headers]
    BY <1>1 DEF IsEmail
  <2>4. a.texts = given  BY <2>3 DEF EmailAction
  <2>5. sent = [m \in DOMAIN a.texts |-> Texts(a.texts[m])]  BY <2>4
  <2>6. CanonicalAction(a) = [a EXCEPT !.id = read_id, !.server = ReadText(a.server), !.texts = sent,
               !.body = Texts(a.body), !.attachments = att, !.headers = heads]
    <3> HIDE DEF sent, given
    <3>1. a.kind = "SendEmail"  OBVIOUS
    <3>2. QED  BY <2>5, <3>1 DEF CanonicalAction
  <2> HIDE DEF sent, att, heads, given, E, read_id
  <2>7. ActionOf(n) = read  BY <2>2 DEF EmailAction
  <2>8. CanonicalAction(a) = read
    <3>1. a = [kind |-> "SendEmail", id |-> a.id, server |-> a.server, texts |-> given,
               body |-> a.body, attachments |-> a.attachments, headers |-> a.headers]
      BY <2>3 DEF EmailAction
    <3>2. QED  BY <2>6, <3>1
  <2>9. QED  BY <2>7, <2>8
<1>24. QED  BY <1>2, <1>16, <1>20, <1>23 DEF ActionKept, n

LEMMA EveryActionKept ==
  ASSUME NEW a, NEW S, Hereditary(S), IsAction(a, S)
  PROVE  ActionKept(a)
<1>1. \/ a.kind = "Exec" \/ a.kind = "ComHandler" \/ a.kind = "SendEmail"
      \/ a.kind = "ShowMessage" \/ a.kind = "unknown"
  BY DEF IsAction, ActionNames
<1>2. QED  BY <1>1, ExecKept, ComHandlerKept, SendEmailKept, ShowMessageKept, UnknownActionKept

-----------------------------------------------------------------------------
(***************************************************************************)
(* Extensions return to their places and hide nothing that is known.         *)
(***************************************************************************)
\* The extensions that come before another.
Earlier(extensions, i) ==
  {j \in DOMAIN extensions : \/ extensions[j].ordinal < extensions[i].ordinal
                             \/ extensions[j].ordinal = extensions[i].ordinal /\ j < i}

\* Sorting keeps every extension, once.
LEMMA Sorted ==
  ASSUME NEW extensions, IsList(extensions), \A i \in DOMAIN extensions : extensions[i].ordinal \in Nat,
         NEW sorted, sorted = ByPlace(extensions)
  PROVE  IsList(sorted) /\ Len(sorted) = Len(extensions) /\ ToSet(sorted) = ToSet(extensions)
<1> DEFINE D == 1..Len(extensions)
           rank == [i \in D |-> Cardinality(Earlier(extensions, i)) + 1]
<1>1. Len(extensions) \in Nat /\ DOMAIN extensions = D  BY ListParts
<1>2. IsFiniteSet(D) /\ Cardinality(D) = Len(extensions)  BY <1>1, FS_Interval
<1>3. ASSUME NEW i \in D
      PROVE  /\ IsFiniteSet(Earlier(extensions, i))
             /\ Cardinality(Earlier(extensions, i)) + 1 \in D
  <2>1. Earlier(extensions, i) \subseteq D \ {i}  BY <1>1 DEF Earlier
  <2>2. IsFiniteSet(D \ {i}) /\ Cardinality(D \ {i}) = Len(extensions) - 1
    BY <1>2, FS_RemoveElement
  <2>3. /\ IsFiniteSet(Earlier(extensions, i))
        /\ Cardinality(Earlier(extensions, i)) <= Len(extensions) - 1
    BY <2>1, <2>2, FS_Subset
  <2>4. Cardinality(Earlier(extensions, i)) \in Nat  BY <2>3, FS_CardinalityType
  <2>5. QED  BY <1>1, <2>3, <2>4
<1>4. ASSUME NEW i \in D, NEW j \in D, j \in Earlier(extensions, i)
      PROVE  Cardinality(Earlier(extensions, j)) < Cardinality(Earlier(extensions, i))
  <2>1. Earlier(extensions, j) \subseteq Earlier(extensions, i)  BY <1>1, <1>4 DEF Earlier
  <2>2. j \notin Earlier(extensions, j)  BY <1>1 DEF Earlier
  <2>3. /\ Cardinality(Earlier(extensions, j)) <= Cardinality(Earlier(extensions, i))
        /\ Cardinality(Earlier(extensions, j)) # Cardinality(Earlier(extensions, i))
    BY <1>3, <1>4, <2>1, <2>2, FS_Subset
  <2>4. /\ Cardinality(Earlier(extensions, j)) \in Nat
        /\ Cardinality(Earlier(extensions, i)) \in Nat
    BY <1>3, FS_CardinalityType
  <2>5. QED  BY <2>3, <2>4
<1>5. \A i \in D : rank[i] = Cardinality(Earlier(extensions, i)) + 1  OBVIOUS
<1>6. rank \in [D -> D]  BY <1>3
<1> HIDE DEF rank
<1>7. ASSUME NEW i \in D, NEW j \in D, rank[i] = rank[j]  PROVE i = j
  <2>1. SUFFICES ASSUME i # j  PROVE FALSE  OBVIOUS
  <2>2. j \in Earlier(extensions, i) \/ i \in Earlier(extensions, j)
    BY <1>1, <2>1 DEF Earlier
  <2>3. Cardinality(Earlier(extensions, i)) = Cardinality(Earlier(extensions, j))
    <3>1. /\ Cardinality(Earlier(extensions, j)) \in Nat
          /\ Cardinality(Earlier(extensions, i)) \in Nat
      BY <1>3, FS_CardinalityType
    <3>2. QED  BY <1>5, <1>7, <3>1
  <2>4. Cardinality(Earlier(extensions, i)) \in Nat  BY <1>3, FS_CardinalityType
  <2>5. QED  BY <1>4, <2>2, <2>3, <2>4
<1>8. rank \in Injection(D, D)  BY <1>6, <1>7 DEF Injection, IsInjective
<1>9. rank \in Surjection(D, D)  BY <1>2, <1>8, FS_Injection
<1> DEFINE from(k) == CHOOSE i \in DOMAIN extensions :
                        Cardinality(Earlier(extensions, i)) = k - 1
<1>10. ASSUME NEW k \in D
       PROVE  from(k) \in D /\ Cardinality(Earlier(extensions, from(k))) = k - 1
  <2>1. PICK i \in D : rank[i] = k  BY <1>9 DEF Surjection
  <2>2. Cardinality(Earlier(extensions, i)) = k - 1
    <3>1. Cardinality(Earlier(extensions, i)) \in Nat  BY <1>3, FS_CardinalityType
    <3>2. QED  BY <1>5, <2>1, <3>1
  <2>3. QED  BY <1>1, <2>2
<1>11. sorted = [k \in DOMAIN extensions |-> extensions[from(k)]]  BY DEF ByPlace, Earlier
<1> HIDE DEF from
<1>12. sorted = [k \in DOMAIN extensions |-> sorted[k]]  BY <1>11
<1>13. /\ IsList(sorted) /\ Len(sorted) = Len(extensions) /\ DOMAIN sorted = DOMAIN extensions
       /\ \A x : x \in ToSet(sorted) <=> \E k \in DOMAIN extensions : x = sorted[k]
  BY <1>12, Mapped
<1>14. ToSet(sorted) \subseteq ToSet(extensions)
  <2>1. \A k \in D : sorted[k] = extensions[from(k)] /\ from(k) \in D  BY <1>1, <1>10, <1>11
  <2>2. QED  BY <1>1, <1>13, <2>1 DEF ToSet
<1>15. ASSUME NEW x \in ToSet(extensions)  PROVE x \in ToSet(sorted)
  <2>1. PICK i \in D : x = extensions[i]  BY <1>1 DEF ToSet
  <2>2. rank[i] \in D  BY <1>6
  <2>3. Cardinality(Earlier(extensions, from(rank[i]))) = rank[i] - 1 /\ from(rank[i]) \in D
    BY <1>10, <2>2
  <2>4. rank[from(rank[i])] = rank[i]
    BY <1>5, <2>2, <2>3
  <2>5. from(rank[i]) = i  BY <1>7, <2>3, <2>4
  <2>6. sorted[rank[i]] = x  BY <1>1, <1>11, <2>1, <2>2, <2>5
  <2>7. QED  BY <1>1, <1>13, <2>2, <2>6
<1>16. QED  BY <1>13, <1>14, <1>15

LEMMA Inserted ==
  ASSUME NEW s, IsList(s), NEW i \in 1..(Len(s) + 1), NEW e, NEW r, r = InsertAt(s, i, e)
  PROVE  IsList(r) /\ ToSet(r) = ToSet(s) \union {e}
<1> DEFINE a == SubSeq(s, 1, i - 1)
           b == SubSeq(s, i, Len(s))
           m == <<e>>
<1>1. Len(s) \in Nat /\ DOMAIN s = 1..Len(s) /\ s \in Seq(ToSet(s))  BY ListParts DEF IsList
<1>2. a \in Seq(ToSet(s)) /\ b \in Seq(ToSet(s))  BY <1>1
<1>3. Len(a) = i - 1 /\ \A k \in 1..(i - 1) : a[k] = s[k]  BY <1>1
<1>4. Len(b) = Len(s) - i + 1 /\ \A k \in 1..(Len(s) - i + 1) : b[k] = s[k + i - 1]  BY <1>1
<1>5. IsList(a) /\ IsList(b) /\ IsList(m) /\ ToSet(m) = {e}
  <2>1. IsList(m) /\ ToSet(m) = {e}  BY DEF IsList, ToSet
  <2>2. QED  BY <1>2, <2>1, ToList
<1>6. r = a \o m \o b  BY DEF InsertAt
<1> HIDE DEF a, b, m
<1>7. IsList(a \o m) /\ ToSet(a \o m) = ToSet(a) \union {e}  BY <1>5, Concat
<1>8. IsList(r) /\ ToSet(r) = ToSet(a) \union {e} \union ToSet(b)
  <2> DEFINE c == a \o m
  <2> HIDE DEF c
  <2>1. IsList(c) /\ ToSet(c) = ToSet(a) \union {e} /\ r = c \o b  BY <1>6, <1>7 DEF c
  <2>2. IsList(c \o b) /\ ToSet(c \o b) = ToSet(c) \union ToSet(b)  BY <1>5, <2>1, Concat
  <2>3. QED  BY <2>1, <2>2
<1>9. ToSet(a) \union ToSet(b) = ToSet(s)
  <2>1. DOMAIN a = 1..(i - 1) /\ DOMAIN b = 1..(Len(s) - i + 1)
    BY <1>3, <1>4, <1>5, ListParts
  <2>2. ToSet(a) \subseteq ToSet(s)
    <3>1. \A k \in 1..(i - 1) : k \in DOMAIN s  BY <1>1
    <3>2. QED  BY <1>3, <2>1, <3>1 DEF ToSet
  <2>3. ToSet(b) \subseteq ToSet(s)
    <3>1. \A k \in 1..(Len(s) - i + 1) : k + i - 1 \in DOMAIN s  BY <1>1
    <3>2. QED  BY <1>4, <2>1, <3>1 DEF ToSet
  <2>4. ASSUME NEW x \in ToSet(s)  PROVE x \in ToSet(a) \/ x \in ToSet(b)
    <3>1. PICK k \in 1..Len(s) : x = s[k]  BY <1>1 DEF ToSet
    <3>2. CASE k <= i - 1
      <4>1. k \in 1..(i - 1) /\ x = a[k]  BY <1>1, <1>3, <3>1, <3>2
      <4>2. QED  BY <2>1, <4>1 DEF ToSet
    <3>3. CASE ~(k <= i - 1)
      <4>1. k - i + 1 \in 1..(Len(s) - i + 1) /\ (k - i + 1) + i - 1 = k  BY <1>1, <3>3
      <4>2. b[k - i + 1] = s[k]  BY <1>4, <4>1
      <4>3. QED  BY <2>1, <3>1, <4>1, <4>2 DEF ToSet
    <3>4. QED  BY <3>2, <3>3
  <2>5. QED  BY <2>2, <2>3, <2>4
<1>10. QED  BY <1>8, <1>9

MergesUpTo(f, known, sorted, n) ==
  f = [k \in 0..n |->
         IF k = 0 THEN known
         ELSE InsertAt(f[k - 1], Place(sorted[k].ordinal, Len(f[k - 1])) + 1, sorted[k].xml)]

LEMMA MergesExist ==
  ASSUME NEW known, NEW sorted, NEW l \in Nat
  PROVE  \E f : MergesUpTo(f, known, sorted, l)
<1> DEFINE T == {n \in Nat : ~\E f : MergesUpTo(f, known, sorted, n)}
           next(s, k) == InsertAt(s, Place(sorted[k].ordinal, Len(s)) + 1, sorted[k].xml)
<1>1. ASSUME NEW n \in T, \A m \in T : n <= m  PROVE FALSE
  <2>1. CASE n = 0
    <3> DEFINE f == [k \in 0..0 |-> known]
               h == [k \in 0..0 |-> IF k = 0 THEN known ELSE next(f[k - 1], k)]
    <3> HIDE DEF next
    <3>1. \A k \in 0..0 : f[k] = h[k]  OBVIOUS
    <3>2. f = h  BY <3>1
    <3>3. MergesUpTo(f, known, sorted, 0)  BY <3>2 DEF MergesUpTo, next
    <3>4. QED  BY <1>1, <2>1, <3>3
  <2>2. CASE n # 0
    <3>1. n - 1 \in Nat /\ n - 1 \notin T  BY <1>1, <2>2
    <3>2. PICK g : MergesUpTo(g, known, sorted, n - 1)  BY <3>1
    <3> DEFINE last == next(g[n - 1], n)
               f == [k \in 0..n |-> IF k = n THEN last ELSE g[k]]
               h == [k \in 0..n |-> IF k = 0 THEN known ELSE next(f[k - 1], k)]
    <3> HIDE DEF next
    <3>3. \A k \in 0..(n - 1) : f[k] = g[k]  BY <3>1, <1>1
    <3>4. f[n] = last  BY <1>1
    <3>5. \A k \in 0..(n - 1) : g[k] = IF k = 0 THEN known ELSE next(g[k - 1], k)
      BY <3>2 DEF MergesUpTo, next
    <3> HIDE DEF last
    <3>6. ASSUME NEW k \in 0..n  PROVE f[k] = h[k]
      <4>1. CASE k = n
        <5>1. n - 1 \in 0..(n - 1)  BY <3>1
        <5>2. f[n - 1] = g[n - 1]  BY <3>3, <5>1
        <5>3. h[n] = next(f[n - 1], n)  BY <2>2, <4>1
        <5>4. QED  BY <3>4, <4>1, <5>2, <5>3 DEF last
      <4>2. CASE k # n
        <5>1. k \in 0..(n - 1) /\ (k # 0 => k - 1 \in 0..(n - 1))  BY <3>1, <4>2
        <5>2. f[k] = g[k] /\ (k # 0 => f[k - 1] = g[k - 1])  BY <3>3, <5>1
        <5>3. QED  BY <3>5, <5>1, <5>2
      <4>3. QED  BY <4>1, <4>2
    <3>7. f = h  BY <3>6
    <3>8. MergesUpTo(f, known, sorted, n)  BY <3>7 DEF MergesUpTo, next
    <3>9. QED  BY <1>1, <3>8
  <2>3. QED  BY <2>1, <2>2
<1>2. T = {}  BY <1>1, Least
<1>3. QED  BY <1>2

\* Merging adds the extensions and keeps the rest.
LEMMA Merged ==
  ASSUME NEW known, IsList(known), NEW extensions, IsList(extensions),
         \A i \in DOMAIN extensions : extensions[i].ordinal \in Nat,
         NEW list, list = Merge(known, extensions)
  PROVE  /\ IsList(list)
         /\ \A x : x \in ToSet(list) <=>
                     x \in ToSet(known) \/ \E i \in DOMAIN extensions : x = extensions[i].xml
<1> DEFINE sorted == ByPlace(extensions)
           n == Len(sorted)
           f == CHOOSE f : MergesUpTo(f, known, sorted, n)
<1>1. IsList(sorted) /\ ToSet(sorted) = ToSet(extensions)  BY Sorted
<1>2. n \in Nat /\ DOMAIN sorted = 1..n  BY <1>1, ListParts
<1>3. MergesUpTo(f, known, sorted, n)  BY <1>2, MergesExist
<1>4. list = f[n]  BY DEF Merge, MergesUpTo
<1> HIDE DEF f, sorted, n
<1>5. \A k \in 0..n :
        f[k] = IF k = 0 THEN known
               ELSE InsertAt(f[k - 1], Place(sorted[k].ordinal, Len(f[k - 1])) + 1, sorted[k].xml)
  BY <1>3 DEF MergesUpTo
<1> DEFINE B == {k \in 0..n : /\ IsList(f[k])
                              /\ ToSet(f[k]) = ToSet(known) \union {sorted[j].xml : j \in 1..k}}
<1>6. 0 \in B
  <2>1. 0 \in 0..n  BY <1>2
  <2>2. f[0] = known  BY <1>5, <2>1
  <2>3. {sorted[j].xml : j \in 1..0} = {}  OBVIOUS
  <2>4. QED  BY <2>1, <2>2, <2>3
<1>7. ASSUME NEW k \in 1..n, k - 1 \in B  PROVE k \in B
  <2> DEFINE s == f[k - 1]
             i == Place(sorted[k].ordinal, Len(s)) + 1
             e == sorted[k].xml
  <2>1. IsList(s) /\ ToSet(s) = ToSet(known) \union {sorted[j].xml : j \in 1..(k - 1)}  BY <1>7
  <2>2. f[k] = InsertAt(s, i, e)
    <3>1. k \in 0..n /\ k # 0  BY <1>2
    <3>2. QED  BY <1>5, <3>1
  <2>3. sorted[k].ordinal \in Nat
    <3>1. sorted[k] \in ToSet(extensions)  BY <1>1, <1>2, ListParts
    <3>2. QED  BY <3>1 DEF ToSet
  <2> HIDE DEF s, e
  <2>4. i \in 1..(Len(s) + 1)
    <3>1. Len(s) \in Nat  BY <2>1, ListParts
    <3>2. QED  BY <2>3, <3>1 DEF Place
  <2> HIDE DEF i
  <2>5. IsList(f[k]) /\ ToSet(f[k]) = ToSet(s) \union {e}
    <3> DEFINE r == f[k]
    <3> HIDE DEF r
    <3>1. r = InsertAt(s, i, e)  BY <2>2 DEF r
    <3>2. IsList(r) /\ ToSet(r) = ToSet(s) \union {e}  BY <2>1, <2>4, <3>1, Inserted
    <3>3. QED  BY <3>2 DEF r
  <2>6. {sorted[j].xml : j \in 1..k} = {sorted[j].xml : j \in 1..(k - 1)} \union {e}
    <3>1. \A j : j \in 1..k <=> j \in 1..(k - 1) \/ j = k  BY <1>2
    <3>2. QED  BY <3>1 DEF e
  <2>7. k \in 0..n  BY <1>2
  <2>8. QED  BY <2>1, <2>5, <2>6, <2>7
<1> HIDE DEF B
<1>8. \A k \in 0..n : k \in B  BY <1>2, <1>6, <1>7, Upward
<1>9. n \in B
  <2>1. n \in 0..n  BY <1>2
  <2>2. QED  BY <1>8, <2>1
<1>10. IsList(list) /\ ToSet(list) = ToSet(known) \union {sorted[j].xml : j \in 1..n}
  BY <1>4, <1>9 DEF B
<1>11. \A x : (\E j \in 1..n : x = sorted[j].xml) <=> \E i \in DOMAIN extensions : x = extensions[i].xml
  <2>1. \A v : (\E j \in 1..n : v = sorted[j]) <=> (\E i \in DOMAIN extensions : v = extensions[i])
    BY <1>1, <1>2 DEF ToSet
  <2>2. QED  BY <2>1
<1>12. QED  BY <1>10, <1>11

\* What is offered under the names that are known stays so when extensions,
\* whose names are not known, return to their places.
LEMMA MergedElements ==
  ASSUME NEW known, NEW N, Menu(known, N), NEW S, Hereditary(S),
         NEW extensions, IsList(extensions), NEW parent,
         \A e \in ToSet(extensions) : e.parent = parent =>
           e.ordinal \in Nat /\ \E node \in S : e.xml = node.xml /\ node.name \notin N,
         NEW list, list = MergeExtensions(parent, known, extensions)
  PROVE  /\ Elements(list)
         /\ \A n, part : Offers(known, n, part) /\ n \in N => Offers(list, n, part)
<1> DEFINE K == {i \in DOMAIN extensions : extensions[i].parent = parent}
           P == [i \in DOMAIN extensions |->
                   IF i \in K THEN <<extensions[i]>> ELSE <<>>]
           of == FlattenSeq(P)
<1>1. list = Merge(known, of)
  <2>1. P = [i \in DOMAIN extensions |->
               IF extensions[i].parent = parent THEN <<extensions[i]>> ELSE <<>>]
    OBVIOUS
  <2>2. QED  BY <2>1 DEF MergeExtensions, Where
<1>2. /\ IsList(of)
      /\ \A x : x \in ToSet(of) <=> \E i \in DOMAIN extensions : i \in K /\ x = extensions[i]
  <2> HIDE DEF K
  <2>1. P = [i \in DOMAIN extensions |-> IF i \in K THEN <<extensions[i]>> ELSE <<>>]  OBVIOUS
  <2> HIDE DEF P
  <2>2. /\ IsList(FlattenSeq(P))
        /\ \A x : x \in ToSet(FlattenSeq(P)) <=>
                    \E i \in DOMAIN extensions : i \in K /\ x = extensions[i]
    BY ONLY IsList(extensions), <2>1, Selected
  <2>3. QED  BY <2>2
<1> HIDE DEF of, P
<1>3. \A x \in ToSet(of) :
        x.ordinal \in Nat /\ \E node \in S : x.xml = node.xml /\ node.name \notin N
  BY <1>2 DEF ToSet
<1>4. /\ IsList(list)
      /\ \A x : x \in ToSet(list) <=> x \in ToSet(known) \/ \E i \in DOMAIN of : x = of[i].xml
  <2>1. \A i \in DOMAIN of : of[i].ordinal \in Nat  BY <1>3 DEF ToSet
  <2>2. IsList(known)  BY DEF Menu, Elements
  <2>3. QED  BY <1>1, <1>2, <2>1, <2>2, Merged
<1>5. ASSUME NEW x \in ToSet(list)
      PROVE  IsElement(x) /\ (x \in ToSet(known) \/ NodeOf(x).name \notin N)
  <2>1. CASE x \in ToSet(known)  BY <2>1 DEF Menu, Elements
  <2>2. CASE \E i \in DOMAIN of : x = of[i].xml
    <3>1. PICK i \in DOMAIN of : x = of[i].xml  BY <2>2
    <3>2. PICK node \in S : of[i].xml = node.xml /\ node.name \notin N  BY <1>3 DEF ToSet
    <3>3. Reads(node.xml, Mirror(node))  BY DEF Hereditary
    <3>4. IsElement(x) /\ NodeOf(x) = Mirror(node)  BY <3>1, <3>2, <3>3, ReadsUnique
    <3>5. QED  BY <3>2, <3>4 DEF Mirror
  <2>3. QED  BY <1>4, <2>1, <2>2
<1>6. Elements(list)  BY <1>4, <1>5 DEF Elements
<1>7. ASSUME NEW n, NEW part, Offers(known, n, part), n \in N
      PROVE  Offers(list, n, part)
  <2>1. ToSet(known) \subseteq ToSet(list)  BY <1>4
  <2>2. \A e \in ToSet(list) : e \in ToSet(known) \/ NodeOf(e).name # n  BY <1>5, <1>7
  <2>3. QED  BY <1>6, <1>7, <2>1, <2>2, OfferedAmong
<1>8. QED  BY <1>6, <1>7

\* What is written of a registration.
RegistrationParts(d) ==
  [i \in DOMAIN RegistrationTexts |->
     OptionalElement(RegistrationTexts[i], d.registration[RegistrationTexts[i]])]

LEMMA RegistrationWritten ==
  ASSUME NEW d, IsRegistration(d.registration), NEW list, list = FlattenSeq(RegistrationParts(d))
  PROVE  /\ Menu(list, ToSet(RegistrationTexts))
         /\ \A name \in ToSet(RegistrationTexts) :
              \E part : /\ Offers(list, name, part)
                        /\ \A node : Child(node, name) = Nodes(part) =>
                             ChildText(node, name) = Texts(d.registration[name])
<1> DEFINE P == RegistrationParts(d)
           names == RegistrationTexts
<1>1. DOMAIN names = 1..8 /\ IsList(names)  BY DEF RegistrationTexts, IsList, ToSet
<1>2. \A i \in DOMAIN names : IsOption(d.registration[names[i]])
  BY DEF IsRegistration, ToSet
<1>3. \A i, j \in DOMAIN names : names[i] = names[j] => i = j  BY <1>1 DEF RegistrationTexts
<1>4. P = [i \in DOMAIN names |-> OptionalElement(names[i], d.registration[names[i]])]
  BY DEF RegistrationParts
<1>5. DOMAIN P = DOMAIN names /\ IsList(P)
  <2> HIDE DEF names
  <2>1. P = [i \in DOMAIN names |-> P[i]]  BY <1>4
  <2> HIDE DEF P
  <2>2. QED  BY <1>1, <2>1, Mapped
<1> HIDE DEF P, names
<1>6. \A i \in DOMAIN P :
        /\ PartOf(P[i], names[i])
        /\ \A node : Child(node, names[i]) = Nodes(P[i]) =>
             ChildText(node, names[i]) = Texts(d.registration[names[i]])
  BY <1>2, <1>4, <1>5, TextPart
<1>7. /\ Menu(FlattenSeq(P), ToSet(names))
      /\ \A i \in DOMAIN P : Offers(FlattenSeq(P), names[i], P[i])
  <2>1. \A i \in DOMAIN P : PartOf(P[i], names[i])  BY <1>6
  <2>2. \A i, j \in DOMAIN P : names[i] = names[j] => i = j  BY <1>3, <1>5
  <2>3. QED  BY <1>5, <2>1, <2>2, NamedParts
<1>8. ASSUME NEW name \in ToSet(names)
      PROVE  \E part : /\ Offers(list, name, part)
                       /\ \A node : Child(node, name) = Nodes(part) =>
                            ChildText(node, name) = Texts(d.registration[name])
  <2>1. PICK i \in DOMAIN names : name = names[i]  BY DEF ToSet
  <2>2. /\ Offers(list, name, P[i])
        /\ \A node : Child(node, name) = Nodes(P[i]) =>
             ChildText(node, name) = Texts(d.registration[name])
    BY <1>5, <1>6, <1>7, <2>1 DEF P
  <2>3. QED  BY <2>2
<1>9. QED  BY <1>7, <1>8 DEF P, names

\* Extensions of a registration and of settings.
LEMMA RegistrationKept ==
  ASSUME NEW d, NEW S, Hereditary(S), IsDefinition(d, S),
         NEW e, e = WriteRegistration(d), NEW n, n = NodeOf(e)
  PROVE  /\ IsElement(e) /\ n.name = "RegistrationInfo" /\ RegistrationReadable(n)
         /\ RegistrationOf(n) = [name \in DOMAIN d.registration |-> Texts(d.registration[name])]
<1> DEFINE names == ToSet(RegistrationTexts)
           r == d.registration
           known == FlattenSeq(RegistrationParts(d))
           list == MergeExtensions("Task/RegistrationInfo", known, d.extensions)
<1>1. /\ IsRegistration(d.registration) /\ IsList(d.extensions)
      /\ \A x \in ToSet(d.extensions) : IsExtension(x, S)
  BY DEF IsDefinition
<1>2. e = Plain("RegistrationInfo", list)
  <2>1. Each(RegistrationTexts, LAMBDA name : OptionalElement(name, d.registration[name]))
          = RegistrationParts(d)
    BY DEF Each, RegistrationParts
  <2>2. QED  BY <2>1 DEF WriteRegistration
<1>3. /\ Menu(known, names)
      /\ \A name \in names :
           \E part : /\ Offers(known, name, part)
                     /\ \A node : Child(node, name) = Nodes(part) =>
                          ChildText(node, name) = Texts(r[name])
  BY <1>1, RegistrationWritten
<1>4. \A x \in ToSet(d.extensions) : x.parent = "Task/RegistrationInfo" =>
        x.ordinal \in Nat /\ \E node \in S : x.xml = node.xml /\ node.name \notin names
  BY <1>1 DEF IsExtension, XmlExtension
<1> HIDE DEF known, names
<1>5. /\ Elements(list)
      /\ \A m, part : Offers(known, m, part) /\ m \in names => Offers(list, m, part)
  <2> DEFINE parent == "Task/RegistrationInfo"
             extensions == d.extensions
  <2>1. list = MergeExtensions(parent, known, extensions)  OBVIOUS
  <2>2. \A x \in ToSet(extensions) : x.parent = parent =>
          x.ordinal \in Nat /\ \E node \in S : x.xml = node.xml /\ node.name \notin names
    BY <1>4
  <2>3. IsList(extensions)  BY <1>1
  <2> HIDE DEF parent, extensions, list
  <2>4. QED  BY <1>3, <2>1, <2>2, <2>3, MergedElements
<1> HIDE DEF list
<1>6. IsElement(e) /\ n.name = "RegistrationInfo" /\ n.kids = Nodes(list)
  BY <1>2, <1>5, PlainReads
<1>7. ASSUME NEW name \in names  PROVE ChildText(n, name) = Texts(r[name])
  <2>1. PICK part : /\ Offers(known, name, part)
                    /\ \A node : Child(node, name) = Nodes(part) =>
                         ChildText(node, name) = Texts(r[name])
    BY <1>3
  <2>2. Offers(list, name, part)  BY <1>5, <2>1
  <2>3. Child(n, name) = Nodes(part)  BY <1>6, <2>2, Lookup
  <2>4. QED  BY <2>1, <2>3
<1>8. RegistrationOf(n) = [name \in DOMAIN r |-> Texts(r[name])]
  <2>1. DOMAIN r = names  BY <1>1 DEF IsRegistration, names
  <2>2. RegistrationOf(n) = [name \in names |-> ChildText(n, name)]  BY DEF RegistrationOf, names
  <2>3. QED  BY <1>7, <2>1, <2>2
<1>9. "Date" \in names /\ "SecurityDescriptor" \in names
  BY DEF names, RegistrationTexts, ToSet
<1>10. DateReadable(n, "Date")
  <2>1. IsOption(r["Date"]) /\ ToSet(r["Date"]) \subseteq Dates
    BY <1>1, <1>9 DEF IsRegistration, names
  <2>2. ToSet(r["Date"]) \subseteq Words  BY <2>1 DEF Words
  <2>3. Texts(r["Date"]) = r["Date"]  BY <2>1, <2>2, TextsOfWords
  <2>4. QED  BY <1>7, <1>9, <2>1, <2>3 DEF DateReadable
<1>11. ChildText(n, "SecurityDescriptor") # Some("")
  <2> DEFINE v == r["SecurityDescriptor"]
  <2>1. IsOption(v) /\ v # Some("")  BY <1>1, <1>9 DEF IsRegistration, names
  <2> HIDE DEF v
  <2>2. Texts(v) # Some("")
    <3>1. CASE v = None  BY <3>1 DEF Texts, Each, None, Some
    <3>2. CASE v = Some(v[1])
      <4>1. v[1] # ""  BY <2>1, <3>2
      <4>2. ReadText(v[1]) # ""  BY <4>1, TextFacts
      <4>3. Texts(v)[1] = ReadText(v[1])  BY <3>2 DEF Texts, Each, Some
      <4>4. Some("")[1] = ""  BY DEF Some
      <4>5. QED  BY <4>2, <4>3, <4>4
    <3>3. QED  BY <2>1, <3>1, <3>2 DEF IsOption
  <2>3. QED  BY <1>7, <1>9, <2>2 DEF v
<1>12. QED  BY <1>6, <1>8, <1>10, <1>11 DEF RegistrationReadable

-----------------------------------------------------------------------------
(***************************************************************************)
(* The principal.                                                            *)
(***************************************************************************)
IdentityNames == {"GroupId", "UserId"}

\* The names of the built-in accounts denote them.
LEMMA ServicesKept ==
  ASSUME NEW name \in ServiceNames
  PROVE  UserOrService(name) = ServiceAccount(name)
<1>1. ServiceAccountOf(name) = Some(name)  BY AccountsAssumption DEF ServiceAccountOf
<1>2. QED  BY <1>1 DEF UserOrService, None, Some

LEMMA IdentityWritten ==
  ASSUME NEW identity, IsIdentity(identity), NEW x, x = IdentityElement(identity)
  PROVE  /\ Menu(x, IdentityNames)
         /\ \A node :
              (\A n, part : Offers(x, n, part) /\ n \in IdentityNames =>
                              Child(node, n) = Nodes(part))
              => IdentityOf(node) = CanonicalIdentity(identity)
<1>1. CASE identity = NoIdentity
  <2> DEFINE none == <<>>
  <2>1. x = none  BY <1>1 DEF IdentityElement, NoIdentity
  <2>2. PartOf(none, "GroupId") /\ Nodes(none) = <<>>  BY NoPart
  <2>3. Elements(none) /\ ToSet(none) = {}  BY <2>2 DEF PartOf, ToSet
  <2> HIDE DEF none
  <2>4. Menu(x, IdentityNames)  BY <2>1, <2>3 DEF Menu
  <2>5. Menu(x, {})  BY <2>1, <2>3 DEF Menu
  <2>6. Offers(x, "GroupId", <<>>) /\ Offers(x, "UserId", <<>>)
    <3> DEFINE N == {}
    <3>1. Menu(x, N) /\ "GroupId" \notin N /\ "UserId" \notin N  BY <2>5
    <3> HIDE DEF N
    <3>2. QED  BY <3>1, NotOffered
  <2>7. ASSUME NEW node,
               \A n, part : Offers(x, n, part) /\ n \in IdentityNames =>
                              Child(node, n) = Nodes(part)
        PROVE  IdentityOf(node) = CanonicalIdentity(identity)
    <3>1. Child(node, "GroupId") = <<>> /\ Child(node, "UserId") = <<>>
      BY <2>2, <2>6, <2>7 DEF IdentityNames, none
    <3>2. ~Has(node, "GroupId") /\ ~Has(node, "UserId")  BY <3>1 DEF Has, None
    <3>3. IdentityOf(node) = NoIdentity  BY <3>2 DEF IdentityOf
    <3>4. CanonicalIdentity(identity) = NoIdentity
      BY <1>1 DEF CanonicalIdentity, NoIdentity
    <3>5. QED  BY <3>3, <3>4
  <2>8. QED  BY <2>4, <2>7
<1>2. CASE identity = Group(identity.name)
  <2> DEFINE t == identity.name
             p == <<Element("GroupId", t)>>
  <2>0. identity.type = "group"  BY <1>2 DEF Group
  <2>1. x = p  BY <2>0 DEF IdentityElement
  <2>2. /\ PartOf(p, "GroupId")
        /\ \A node : Child(node, "GroupId") = Nodes(p) =>
             Has(node, "GroupId") /\ TextOf(node, "GroupId") = ReadText(t)
    BY OneText
  <2> HIDE DEF p
  <2>3. Menu(x, {"GroupId"}) /\ Offers(x, "GroupId", p)  BY <2>1, <2>2, OnePartMenu
  <2>4. Menu(x, IdentityNames)  BY <2>3 DEF Menu, IdentityNames
  <2>5. ASSUME NEW node,
               \A n, part : Offers(x, n, part) /\ n \in IdentityNames =>
                              Child(node, n) = Nodes(part)
        PROVE  IdentityOf(node) = CanonicalIdentity(identity)
    <3>1. Child(node, "GroupId") = Nodes(p)  BY <2>3, <2>5 DEF IdentityNames
    <3>2. Has(node, "GroupId") /\ TextOf(node, "GroupId") = ReadText(t)  BY <2>2, <3>1
    <3>3. IdentityOf(node) = Group(ReadText(t))  BY <3>2 DEF IdentityOf
    <3>4. CanonicalIdentity(identity) = Group(ReadText(t))  BY <2>0 DEF CanonicalIdentity
    <3>5. QED  BY <3>3, <3>4
  <2>6. QED  BY <2>4, <2>5
<1>3. CASE \/ identity = User(identity.name)
           \/ identity = ServiceAccount(identity.name) /\ identity.name \in ServiceNames
  <2> DEFINE t == identity.name
             p == <<Element("UserId", t)>>
  <2>0. identity.type # "none" /\ identity.type # "group"  BY <1>3 DEF User, ServiceAccount
  <2>1. x = p  BY <2>0 DEF IdentityElement
  <2>2. /\ PartOf(p, "UserId")
        /\ \A node : Child(node, "UserId") = Nodes(p) =>
             Has(node, "UserId") /\ TextOf(node, "UserId") = ReadText(t)
    BY OneText
  <2> HIDE DEF p
  <2>3. Menu(x, {"UserId"}) /\ Offers(x, "UserId", p)  BY <2>1, <2>2, OnePartMenu
  <2>4. Menu(x, IdentityNames)  BY <2>3 DEF Menu, IdentityNames
  <2>5. Offers(x, "GroupId", <<>>)
    <3> DEFINE N == {"UserId"}
    <3>1. Menu(x, N) /\ "GroupId" \notin N  BY <2>3
    <3> HIDE DEF N
    <3>2. QED  BY <3>1, NotOffered
  <2>6. CanonicalIdentity(identity) = UserOrService(ReadText(t))
    <3>1. CASE identity = User(t)
      <4>1. identity.type = "user"  BY <3>1 DEF User
      <4>2. QED  BY <4>1 DEF CanonicalIdentity
    <3>2. CASE identity = ServiceAccount(t) /\ t \in ServiceNames
      <4>1. identity.type = "service"  BY <3>2 DEF ServiceAccount
      <4>2. CanonicalIdentity(identity) = identity  BY <4>1 DEF CanonicalIdentity
      <4>3. ReadText(t) = t
        <5>1. t \in Words  BY <3>2 DEF Words
        <5>2. QED  BY <5>1, WordsKept
      <4>4. UserOrService(t) = ServiceAccount(t)  BY <3>2, ServicesKept
      <4>5. QED  BY <3>2, <4>2, <4>3, <4>4
    <3>3. QED  BY <1>3, <3>1, <3>2
  <2>7. ASSUME NEW node,
               \A n, part : Offers(x, n, part) /\ n \in IdentityNames =>
                              Child(node, n) = Nodes(part)
        PROVE  IdentityOf(node) = CanonicalIdentity(identity)
    <3>1. Child(node, "UserId") = Nodes(p)  BY <2>3, <2>7 DEF IdentityNames
    <3>2. Has(node, "UserId") /\ TextOf(node, "UserId") = ReadText(t)  BY <2>2, <3>1
    <3>3. Child(node, "GroupId") = Nodes(<<>>)  BY <2>5, <2>7 DEF IdentityNames
    <3>4. ~Has(node, "GroupId")  BY <3>3, NoPart DEF Has, None
    <3>5. IdentityOf(node) = UserOrService(ReadText(t))  BY <3>2, <3>4 DEF IdentityOf
    <3>6. QED  BY <2>6, <3>5
  <2>8. QED  BY <2>4, <2>7
<1>4. \/ identity = NoIdentity \/ identity = Group(identity.name)
      \/ identity = User(identity.name)
      \/ identity = ServiceAccount(identity.name) /\ identity.name \in ServiceNames
  BY DEF IsIdentity, ServiceAccount
<1>5. QED  BY <1>1, <1>2, <1>3, <1>4

\* A word that is written unless it is the one that is understood without it.
WordOf(part, name, t, W) ==
  /\ PartOf(part, name)
  /\ \A node : Child(node, name) = Nodes(part) =>
       /\ ToSet(ChildText(node, name)) \subseteq W
       /\ \A default : OrElse(ChildText(node, name), default)
                         = IF part = <<>> THEN default ELSE t

LEMMA WordOrDefault ==
  ASSUME NEW name, NEW t \in Words, NEW W, t \in W, NEW part,
         \/ part = <<Element(name, t)>>
         \/ part = <<>>
  PROVE  WordOf(part, name, t, W)
<1>1. CASE part = <<Element(name, t)>>
  <2> DEFINE e == Element(name, t)
             p == <<e>>
  <2>0. p # <<>>  OBVIOUS
  <2>1. /\ PartOf(p, name)
        /\ \A node : Child(node, name) = Nodes(p) => ChildText(node, name) = <<t>>
    BY OneWord
  <2> HIDE DEF p, e
  <2>2. ASSUME NEW node, Child(node, name) = Nodes(part)
        PROVE  /\ ToSet(ChildText(node, name)) \subseteq W
               /\ \A default : OrElse(ChildText(node, name), default)
                                 = IF part = <<>> THEN default ELSE t
    <3>1. part = p  BY <1>1 DEF p, e
    <3>2. ChildText(node, name) = <<t>>  BY <2>1, <2>2, <3>1
    <3>3. ToSet(<<t>>) = {t}  BY DEF ToSet
    <3>4. \A default : OrElse(<<t>>, default) = t  BY DEF OrElse, None
    <3>5. QED  BY <2>0, <3>1, <3>2, <3>3, <3>4
  <2>3. QED  BY <1>1, <2>1, <2>2 DEF p, e, WordOf
<1>2. CASE part = <<>>
  <2>1. PartOf(<<>>, name) /\ Nodes(<<>>) = <<>>  BY NoPart
  <2>2. ASSUME NEW node, Child(node, name) = <<>>
        PROVE  /\ ToSet(ChildText(node, name)) \subseteq W
               /\ \A default : OrElse(ChildText(node, name), default) = default
    <3>1. ChildText(node, name) = <<>>  BY <2>2, Absent
    <3>2. QED  BY <3>1 DEF ToSet, OrElse, None
  <2>3. QED  BY <1>2, <2>1, <2>2 DEF WordOf
<1>3. QED  BY <1>1, <1>2 DEF WordOf

\* The elements of a principal after its identity.
PrincipalNames ==
  {"DisplayName", "LogonType", "RunLevel", "ProcessTokenSidType", "RequiredPrivileges"}

PrincipalElements(p) ==
  FlattenSeq(
    <<IdentityElement(p.identity), OptionalElement("DisplayName", p.display_name),
      LogonElement(p.logon_type), <<Element("RunLevel", p.run_level)>>,
      SidElement(p.process_token_sid_type),
      ListElement("RequiredPrivileges", TextElements("Privilege", p.required_privileges))>>)

\* What is read under the names of a principal.
PrincipalRead(n, p) ==
  /\ IdentityOf(n) = CanonicalIdentity(p.identity)
  /\ ChildText(n, "DisplayName") = Texts(p.display_name)
  /\ ToSet(ChildText(n, "LogonType")) \subseteq LogonTypes
  /\ \A default : OrElse(ChildText(n, "LogonType"), default)
                    = IF LogonElement(p.logon_type) = <<>> THEN default ELSE p.logon_type
  /\ ToSet(ChildText(n, "RunLevel")) \subseteq RunLevels
  /\ OrElse(ChildText(n, "RunLevel"), "LeastPrivilege") = p.run_level
  /\ ToSet(ChildText(n, "ProcessTokenSidType")) \subseteq SidTypes
  /\ OrElse(ChildText(n, "ProcessTokenSidType"), "Default") = p.process_token_sid_type
  /\ LET list == Listed(n, "RequiredPrivileges", "Privilege")
     IN /\ DOMAIN list = DOMAIN p.required_privileges
        /\ \A i \in DOMAIN list : list[i].text = p.required_privileges[i]

LEMMA PrincipalWritten ==
  ASSUME NEW p, IsPrincipal(p), NEW list, list = PrincipalElements(p)
  PROVE  /\ Elements(list)
         /\ \A n : n.kids = Nodes(list) => PrincipalRead(n, p)
<1> DEFINE x == IdentityElement(p.identity)
           p2 == OptionalElement("DisplayName", p.display_name)
           p3 == LogonElement(p.logon_type)
           p4 == <<Element("RunLevel", p.run_level)>>
           p5 == SidElement(p.process_token_sid_type)
           vs == TextElements("Privilege", p.required_privileges)
           p6 == ListElement("RequiredPrivileges", vs)
           b == FlattenSeq(<<p2, p3, p4, p5, p6>>)
           M == PrincipalNames
<1>1. /\ IsOption(p.display_name) /\ IsIdentity(p.identity) /\ p.logon_type \in LogonTypes
      /\ p.run_level \in RunLevels /\ p.process_token_sid_type \in SidTypes
      /\ IsList(p.required_privileges) /\ ToSet(p.required_privileges) \subseteq Privileges
  BY DEF IsPrincipal
<1>2. /\ p.logon_type \in Words /\ p.run_level \in Words /\ p.process_token_sid_type \in Words
      /\ \A i \in DOMAIN p.required_privileges : p.required_privileges[i] \in Words
  BY <1>1 DEF Words, ToSet
<1>3. /\ Menu(x, IdentityNames)
      /\ \A node :
           (\A n, part : Offers(x, n, part) /\ n \in IdentityNames => Child(node, n) = Nodes(part))
           => IdentityOf(node) = CanonicalIdentity(p.identity)
  BY <1>1, IdentityWritten
<1>4. /\ PartOf(p2, "DisplayName")
      /\ \A node : Child(node, "DisplayName") = Nodes(p2) =>
           ChildText(node, "DisplayName") = Texts(p.display_name)
  BY <1>1, TextPart
<1>5. /\ PartOf(p3, "LogonType")
      /\ \A node : Child(node, "LogonType") = Nodes(p3) =>
           /\ ToSet(ChildText(node, "LogonType")) \subseteq LogonTypes
           /\ \A default : OrElse(ChildText(node, "LogonType"), default)
                             = IF p3 = <<>> THEN default ELSE p.logon_type
  <2>1. p3 = <<Element("LogonType", p.logon_type)>> \/ p3 = <<>>  BY DEF LogonElement
  <2> HIDE DEF p3
  <2>2. WordOf(p3, "LogonType", p.logon_type, LogonTypes)  BY <1>1, <1>2, <2>1, WordOrDefault
  <2>3. QED  BY <2>2 DEF WordOf
<1>6. /\ PartOf(p4, "RunLevel")
      /\ \A node : Child(node, "RunLevel") = Nodes(p4) =>
           /\ ToSet(ChildText(node, "RunLevel")) \subseteq RunLevels
           /\ \A default : OrElse(ChildText(node, "RunLevel"), default)
                             = IF p4 = <<>> THEN default ELSE p.run_level
  <2>1. p4 = <<Element("RunLevel", p.run_level)>>  OBVIOUS
  <2> HIDE DEF p4
  <2>2. WordOf(p4, "RunLevel", p.run_level, RunLevels)  BY <1>1, <1>2, <2>1, WordOrDefault
  <2>3. QED  BY <2>2 DEF WordOf
<1>7. /\ PartOf(p5, "ProcessTokenSidType")
      /\ \A node : Child(node, "ProcessTokenSidType") = Nodes(p5) =>
           /\ ToSet(ChildText(node, "ProcessTokenSidType")) \subseteq SidTypes
           /\ \A default : OrElse(ChildText(node, "ProcessTokenSidType"), default)
                             = IF p5 = <<>> THEN default ELSE p.process_token_sid_type
  <2>1. p5 = <<Element("ProcessTokenSidType", p.process_token_sid_type)>> \/ p5 = <<>>
    BY DEF SidElement
  <2> HIDE DEF p5
  <2>2. WordOf(p5, "ProcessTokenSidType", p.process_token_sid_type, SidTypes)  BY <1>1, <1>2, <2>1, WordOrDefault
  <2>3. QED  BY <2>2 DEF WordOf
<1>8. p4 # <<>> /\ (p5 = <<>> => p.process_token_sid_type = "Default")
  BY DEF SidElement
<1>9. /\ Elements(vs) /\ DOMAIN Nodes(vs) = DOMAIN p.required_privileges
      /\ \A e \in ToSet(vs) : NodeOf(e).name = "Privilege"
      /\ \A i \in DOMAIN p.required_privileges : Nodes(vs)[i].text = p.required_privileges[i]
  <2> DEFINE g == p.required_privileges
  <2> HIDE DEF vs
  <2>1. vs = TextElements("Privilege", g) /\ IsList(g)  BY <1>1 DEF vs
  <2>2. \A i \in DOMAIN g : ReadText(g[i]) = g[i]  BY <1>2, WordsKept
  <2> HIDE DEF g
  <2>3. /\ Elements(vs) /\ DOMAIN Nodes(vs) = DOMAIN g
        /\ \A e \in ToSet(vs) : NodeOf(e).name = "Privilege"
        /\ \A i \in DOMAIN g : Nodes(vs)[i].text = ReadText(g[i])
    BY <2>1, TextList
  <2>4. QED  BY <2>2, <2>3 DEF g
<1> HIDE DEF vs
<1>10. /\ PartOf(p6, "RequiredPrivileges")
       /\ \A node : Child(node, "RequiredPrivileges") = Nodes(p6) =>
            Listed(node, "RequiredPrivileges", "Privilege") = Nodes(vs)
  BY <1>9, ListedPart
<1> HIDE DEF x, p2, p3, p4, p5, p6
<1>11. /\ Menu(b, M) /\ Offers(b, "DisplayName", p2) /\ Offers(b, "LogonType", p3)
       /\ Offers(b, "RunLevel", p4) /\ Offers(b, "ProcessTokenSidType", p5)
       /\ Offers(b, "RequiredPrivileges", p6)
  <2>1. /\ PartOf(p2, "DisplayName") /\ PartOf(p3, "LogonType") /\ PartOf(p4, "RunLevel")
        /\ PartOf(p5, "ProcessTokenSidType") /\ PartOf(p6, "RequiredPrivileges")
    BY <1>4, <1>5, <1>6, <1>7, <1>10
  <2>2. Menu(b, M)  BY <2>1, Parts5 DEF PrincipalNames
  <2>3. Offers(b, "DisplayName", p2) /\ Offers(b, "LogonType", p3)  BY <2>1, Parts5
  <2>4. Offers(b, "RunLevel", p4) /\ Offers(b, "ProcessTokenSidType", p5)  BY <2>1, Parts5
  <2>5. Offers(b, "RequiredPrivileges", p6)  BY <2>1, Parts5
  <2>6. QED  BY <2>2, <2>3, <2>4, <2>5
<1>12. IsList(list) /\ \A y : y \in ToSet(list) <=> y \in ToSet(x) \/ y \in ToSet(b)
  <2>1. IsList(p2) /\ IsList(p3) /\ IsList(p4) /\ IsList(p5) /\ IsList(p6) /\ IsList(x)
    BY <1>3, <1>4, <1>5, <1>6, <1>7, <1>10 DEF PartOf, Menu, Elements
  <2>2. \A y : y \in ToSet(b) <=> \/ y \in ToSet(p2) \/ y \in ToSet(p3) \/ y \in ToSet(p4)
                                  \/ y \in ToSet(p5) \/ y \in ToSet(p6)
    BY <2>1, Flat5
  <2>3. list = FlattenSeq(<<x, p2, p3, p4, p5, p6>>)
    BY DEF PrincipalElements, x, p2, p3, p4, p5, p6, vs
  <2>4. /\ IsList(list)
        /\ \A y : y \in ToSet(list) <=>
             \/ y \in ToSet(x) \/ y \in ToSet(p2) \/ y \in ToSet(p3) \/ y \in ToSet(p4)
             \/ y \in ToSet(p5) \/ y \in ToSet(p6)
    BY <2>1, <2>3, Flat6
  <2>5. QED  BY <2>2, <2>4
<1>13. /\ "DisplayName" \in M /\ "LogonType" \in M /\ "RunLevel" \in M
       /\ "ProcessTokenSidType" \in M /\ "RequiredPrivileges" \in M
       /\ IdentityNames \intersect M = {}
  BY DEF PrincipalNames, IdentityNames
<1> HIDE DEF b, M
<1>14. /\ Elements(list)
       /\ \A m, part : Offers(x, m, part) /\ m \in IdentityNames => Offers(list, m, part)
       /\ \A m, part : Offers(b, m, part) /\ m \in M => Offers(list, m, part)
  <2>1. Menu(x, IdentityNames) /\ Menu(b, M) /\ IdentityNames \intersect M = {}
    BY <1>3, <1>11, <1>13
  <2>2. /\ Menu(list, IdentityNames \union M)
        /\ \A m, part : Offers(x, m, part) /\ m \in IdentityNames => Offers(list, m, part)
        /\ \A m, part : Offers(b, m, part) /\ m \in M => Offers(list, m, part)
    BY <1>12, <2>1, MenusJoined
  <2>3. QED  BY <2>2 DEF Menu
<1>15. ASSUME NEW n, n.kids = Nodes(list)  PROVE PrincipalRead(n, p)
  <2>1. \A m, part : Offers(list, m, part) => Child(n, m) = Nodes(part)  BY <1>15, Lookup
  <2>2. /\ Child(n, "DisplayName") = Nodes(p2) /\ Child(n, "LogonType") = Nodes(p3)
        /\ Child(n, "RunLevel") = Nodes(p4)
    BY <1>11, <1>13, <1>14, <2>1
  <2>3. /\ Child(n, "ProcessTokenSidType") = Nodes(p5)
        /\ Child(n, "RequiredPrivileges") = Nodes(p6)
    BY <1>11, <1>13, <1>14, <2>1
  <2>4. IdentityOf(n) = CanonicalIdentity(p.identity)  BY <1>3, <1>14, <2>1
  <2>5. ChildText(n, "DisplayName") = Texts(p.display_name)  BY <1>4, <2>2
  <2>6. /\ ToSet(ChildText(n, "LogonType")) \subseteq LogonTypes
        /\ \A default : OrElse(ChildText(n, "LogonType"), default)
                          = IF LogonElement(p.logon_type) = <<>> THEN default ELSE p.logon_type
    BY <1>5, <2>2 DEF p3
  <2>7. /\ ToSet(ChildText(n, "RunLevel")) \subseteq RunLevels
        /\ OrElse(ChildText(n, "RunLevel"), "LeastPrivilege") = p.run_level
    BY <1>6, <1>8, <2>2
  <2>8. /\ ToSet(ChildText(n, "ProcessTokenSidType")) \subseteq SidTypes
        /\ OrElse(ChildText(n, "ProcessTokenSidType"), "Default") = p.process_token_sid_type
    BY <1>7, <1>8, <2>3
  <2>9. Listed(n, "RequiredPrivileges", "Privilege") = Nodes(vs)  BY <1>10, <2>3
  <2>10. QED  BY <1>9, <2>4, <2>5, <2>6, <2>7, <2>8, <2>9 DEF PrincipalRead
<1>16. QED  BY <1>14, <1>15

\* A principal is read back as it was written.
LEMMA PrincipalKept ==
  ASSUME NEW p, IsPrincipal(p)
  PROVE  /\ PartOf(<<WritePrincipal(p)>>, "Principals")
         /\ \A node : Child(node, "Principals") = Nodes(<<WritePrincipal(p)>>) =>
              \E m : /\ PrincipalNode(node) = <<m>> /\ PrincipalReadable(m)
                     /\ PrincipalOf(m) = CanonicalPrincipal(p)
<1> DEFINE list == PrincipalElements(p)
           attrs == Attribute("id", p.id)
           blank == ""
           e == Container("Principal", attrs, blank, list)
           m == NodeOf(e)
           w == Plain("Principals", <<e>>)
<1>1. WritePrincipal(p) = w
  <2>1. Each(p.required_privileges, LAMBDA v : Element("Privilege", v))
          = TextElements("Privilege", p.required_privileges)
    BY DEF Each, TextElements
  <2>2. QED  BY <2>1 DEF WritePrincipal, PrincipalElements
<1>2. Elements(list) /\ \A n : n.kids = Nodes(list) => PrincipalRead(n, p)
  BY PrincipalWritten
<1> HIDE DEF list, attrs, blank
<1>3. IsElement(e) /\ m.name = "Principal" /\ m.kids = Nodes(list) /\ m.attrs = ReadAttributes(attrs)
  BY <1>2, PlainElement
<1> HIDE DEF e
<1>4. PrincipalRead(m, p)  BY <1>2, <1>3
<1>5. "id" \in DOMAIN m.attrs /\ m.attrs.id = ReadAttribute(p.id)
  <2>1. attrs = [k \in {"id"} |-> p.id]  BY DEF attrs, Attribute
  <2>2. QED  BY <1>3, <2>1 DEF ReadAttributes
<1> DEFINE in == <<e>>
<1>6. Elements(in) /\ Nodes(in) = <<m>> /\ PartOf(in, "Principal")
  <2>1. IsList(in) /\ ToSet(in) = {e} /\ Len(in) = 1  BY DEF IsList, ToSet
  <2>2. Nodes(in) = <<m>>
    <3>1. DOMAIN in = {1} /\ in[1] = e  OBVIOUS
    <3>2. Nodes(in) = [i \in {1} |-> m]
      <4>1. \A i \in DOMAIN in : NodeOf(in[i]) = m  BY <3>1
      <4> HIDE DEF in, m
      <4>2. QED  BY <3>1, <4>1 DEF Nodes
    <3> HIDE DEF m, in
    <3>3. QED  BY <3>2
  <2> HIDE DEF in
  <2>3. QED  BY <1>3, <2>1, <2>2 DEF Elements, PartOf
<1> HIDE DEF m, in
<1>7. /\ PartOf(<<w>>, "Principals") /\ Nodes(<<w>>) = <<NodeOf(w)>> /\ NodeOf(w).kids = Nodes(in)
  <2>1. w = Plain("Principals", in)  BY DEF in
  <2> HIDE DEF w
  <2>2. QED  BY <1>6, <2>1, PlainPart
<1> HIDE DEF w
<1>8. ASSUME NEW node, Child(node, "Principals") = Nodes(<<w>>)
      PROVE  PrincipalNode(node) = <<m>>
  <2> DEFINE q == NodeOf(w)
  <2>1. Child(node, "Principals") = <<q>> /\ q.kids = Nodes(in)  BY <1>7, <1>8
  <2>2. Offers(in, "Principal", in)  BY <1>6, OnePartMenu
  <2> HIDE DEF q
  <2>3. Child(q, "Principal") = <<m>>  BY <1>6, <2>1, <2>2, Lookup
  <2>4. Each(<<q>>, LAMBDA y : Child(y, "Principal")) = <<<<m>>>>
    <3> DEFINE s == <<q>>
               d == <<m>>
    <3>1. DOMAIN s = {1} /\ s[1] = q  OBVIOUS
    <3>2. Each(s, LAMBDA y : Child(y, "Principal")) = [i \in DOMAIN s |-> Child(s[i], "Principal")]
      BY DEF Each
    <3> HIDE DEF s, d
    <3>3. Child(q, "Principal") = d  BY <2>3 DEF d
    <3>4. [i \in DOMAIN s |-> Child(s[i], "Principal")] = [i \in {1} |-> d]  BY <3>1, <3>3
    <3>5. [i \in {1} |-> d] = <<d>>  OBVIOUS
    <3>6. QED  BY <3>2, <3>4, <3>5 DEF s, d
  <2>5. FlattenSeq(<<<<m>>>>) = <<m>>
    <3> DEFINE d == <<m>>
    <3>1. IsList(d)  BY DEF IsList, ToSet
    <3> HIDE DEF d
    <3>2. FlattenSeq(<<d>>) = d  BY <3>1, FlatOne
    <3>3. QED  BY <3>2 DEF d
  <2>6. QED  BY <2>1, <2>4, <2>5 DEF PrincipalNode
<1>9. PrincipalReadable(m)
  <2> DEFINE read == Listed(m, "RequiredPrivileges", "Privilege")
  <2>1. \A y \in ToSet(read) : y.text \in Privileges
    <3>1. /\ DOMAIN read = DOMAIN p.required_privileges
          /\ \A i \in DOMAIN read : read[i].text = p.required_privileges[i]
      BY <1>4 DEF PrincipalRead
    <3>2. ToSet(p.required_privileges) \subseteq Privileges  BY DEF IsPrincipal
    <3> HIDE DEF read
    <3>3. QED  BY <3>1, <3>2 DEF ToSet
  <2>2. QED  BY <1>4, <2>1 DEF PrincipalRead, PrincipalReadable
<1>10. PrincipalOf(m) = CanonicalPrincipal(p)
  <2> DEFINE listed == Listed(m, "RequiredPrivileges", "Privilege")
             who == CanonicalIdentity(p.identity)
             logon == IF LogonElement(p.logon_type) = <<>> THEN ImpliedLogon(who)
                      ELSE p.logon_type
             shown == Texts(p.display_name)
             named == ReadAttribute(p.id)
             read == [id |-> named, display_name |-> shown, identity |-> who,
                      logon_type |-> logon, run_level |-> p.run_level,
                      process_token_sid_type |-> p.process_token_sid_type,
                      required_privileges |-> p.required_privileges]
  <2>1. Each(listed, LAMBDA v : v.text) = p.required_privileges
    <3>1. /\ DOMAIN listed = DOMAIN p.required_privileges
          /\ \A i \in DOMAIN listed : listed[i].text = p.required_privileges[i]
      BY <1>4 DEF PrincipalRead
    <3>2. Each(listed, LAMBDA v : v.text) = [i \in DOMAIN listed |-> listed[i].text]  BY DEF Each
    <3>3. p.required_privileges = [i \in DOMAIN p.required_privileges |-> p.required_privileges[i]]
      <4>1. IsList(p.required_privileges)  BY DEF IsPrincipal
      <4>2. QED  BY <4>1, ListIs, ListParts
    <3> HIDE DEF listed
    <3>4. QED  BY <3>1, <3>2, <3>3
  <2>2. /\ IdentityOf(m) = who /\ ChildText(m, "DisplayName") = shown
        /\ OrElse(ChildText(m, "LogonType"), ImpliedLogon(who)) = logon
        /\ OrElse(ChildText(m, "RunLevel"), "LeastPrivilege") = p.run_level
        /\ OrElse(ChildText(m, "ProcessTokenSidType"), "Default") = p.process_token_sid_type
    BY <1>4 DEF PrincipalRead
  <2>3. PrincipalOf(m) = read
    <3> HIDE DEF shown, who, logon, named
    <3>1. PrincipalOf(m) =
            [id |-> IF "id" \in DOMAIN m.attrs THEN m.attrs.id ELSE "Author",
             display_name |-> ChildText(m, "DisplayName"), identity |-> IdentityOf(m),
             logon_type |-> OrElse(ChildText(m, "LogonType"), ImpliedLogon(IdentityOf(m))),
             run_level |-> OrElse(ChildText(m, "RunLevel"), "LeastPrivilege"),
             process_token_sid_type |-> OrElse(ChildText(m, "ProcessTokenSidType"), "Default"),
             required_privileges |-> Each(listed, LAMBDA v : v.text)]
      BY DEF PrincipalOf
    <3>2. (IF "id" \in DOMAIN m.attrs THEN m.attrs.id ELSE "Author") = named  BY <1>5 DEF named
    <3> HIDE DEF listed
    <3>3. OrElse(ChildText(m, "LogonType"), ImpliedLogon(IdentityOf(m))) = logon  BY <2>2
    <3>4. QED  BY <2>1, <2>2, <3>1, <3>2, <3>3
  <2>4. CanonicalPrincipal(p) = [p EXCEPT !.id = named, !.identity = who, !.display_name = shown,
                                          !.logon_type = logon]
    BY DEF CanonicalPrincipal
  <2>5. p = [id |-> p.id, display_name |-> p.display_name, identity |-> p.identity,
             logon_type |-> p.logon_type, run_level |-> p.run_level,
             process_token_sid_type |-> p.process_token_sid_type,
             required_privileges |-> p.required_privileges]
    BY DEF IsPrincipal
  <2> HIDE DEF shown, who, logon, named
  <2>6. CanonicalPrincipal(p) = read  BY <2>4, <2>5
  <2>7. QED  BY <2>3, <2>6
<1>11. QED  BY <1>1, <1>7, <1>8, <1>9, <1>10

-----------------------------------------------------------------------------
(***************************************************************************)
(* The settings.                                                             *)
(***************************************************************************)
\* What is read of the elements of settings that hold others.
RestartRead(n, r) ==
  /\ RestartReadable(n)
  /\ DurationOf(n, "Interval")[1] = r.interval /\ NumberOf(n, "Count")[1] = r.count

IdleRead(n, idle) ==
  /\ IdleReadable(n)
  /\ OrElse(DurationOf(n, "Duration"), DefaultIdle.duration) = idle.duration
  /\ OrElse(DurationOf(n, "WaitTimeout"), DefaultIdle.wait_timeout) = idle.wait_timeout
  /\ BoolOf(n, "StopOnIdleEnd", DefaultIdle.stop_on_idle_end) = idle.stop_on_idle_end
  /\ BoolOf(n, "RestartOnIdle", DefaultIdle.restart_on_idle) = idle.restart_on_idle

NetworkRead(n, w) ==
  ChildText(n, "Id") = Texts(w.id) /\ ChildText(n, "Name") = Texts(w.name)

MaintenanceRead(n, m) ==
  /\ MaintenanceReadable(n)
  /\ DurationOf(n, "Period")[1] = m.period /\ DurationOf(n, "Deadline")[1] = m.deadline
  /\ BoolOf(n, "Exclusive", FALSE) = m.exclusive

LEMMA RestartKept ==
  ASSUME NEW r, IsRestart(r), NEW e, e = RestartElement(r)
  PROVE  IsElement(e) /\ NodeOf(e).name = "RestartOnFailure" /\ RestartRead(NodeOf(e), r)
<1> DEFINE x == Element("Interval", r.interval)
           y == Element("Count", ToString(r.count))
           list == <<x, y>>
           n == NodeOf(e)
<1>1. IsDuration(r.interval) /\ IsNumber(r.count) /\ r.count <= U8  BY DEF IsRestart
<1>2. /\ PartOf(<<x>>, "Interval")
      /\ \A node : Child(node, "Interval") = Nodes(<<x>>) =>
           /\ Has(node, "Interval") /\ DurationReadable(node, "Interval")
           /\ DurationOf(node, "Interval") = <<r.interval>>
  BY <1>1, OneDuration
<1>3. /\ PartOf(<<y>>, "Count")
      /\ \A node : Child(node, "Count") = Nodes(<<y>>) =>
           /\ Has(node, "Count") /\ NumberReadable(node, "Count", U8)
           /\ NumberOf(node, "Count") = <<r.count>>
  BY <1>1, OneNumber
<1>4. e = Plain("RestartOnFailure", list)  BY DEF RestartElement
<1> HIDE DEF x, y
<1>5. Elements(list) /\ Offers(list, "Interval", <<x>>) /\ Offers(list, "Count", <<y>>)
  BY <1>2, <1>3, Singles2 DEF Menu
<1> HIDE DEF list
<1>6. IsElement(e) /\ n.name = "RestartOnFailure" /\ n.kids = Nodes(list)
  BY <1>4, <1>5, PlainReads
<1> HIDE DEF n
<1>7. Child(n, "Interval") = Nodes(<<x>>) /\ Child(n, "Count") = Nodes(<<y>>)
  BY <1>5, <1>6, Lookup
<1>8. DurationOf(n, "Interval")[1] = r.interval /\ NumberOf(n, "Count")[1] = r.count
  BY <1>2, <1>3, <1>7
<1>9. RestartReadable(n)  BY <1>2, <1>3, <1>7 DEF RestartReadable
<1>10. QED  BY <1>6, <1>8, <1>9 DEF RestartRead, n

\* One duration is what stands in the place of a default.
LEMMA DurationOrElse ==
  ASSUME NEW node, NEW name, NEW t, DurationOf(node, name) = <<t>>, NEW default
  PROVE  OrElse(DurationOf(node, name), default) = t
BY DEF OrElse, None

LEMMA IdleElementKept ==
  ASSUME NEW idle, IsIdle(idle), NEW e, e = IdleElement(idle)
  PROVE  IsElement(e) /\ NodeOf(e).name = "IdleSettings" /\ IdleRead(NodeOf(e), idle)
<1> DEFINE x1 == Element("Duration", idle.duration)
           x2 == Element("WaitTimeout", idle.wait_timeout)
           x3 == BoolElement("StopOnIdleEnd", idle.stop_on_idle_end)
           x4 == BoolElement("RestartOnIdle", idle.restart_on_idle)
           list == <<x1, x2, x3, x4>>
           n == NodeOf(e)
<1>1. /\ IsDuration(idle.duration) /\ IsDuration(idle.wait_timeout)
      /\ idle.stop_on_idle_end \in BOOLEAN /\ idle.restart_on_idle \in BOOLEAN
  BY DEF IsIdle
<1>2. /\ PartOf(<<x1>>, "Duration")
      /\ \A node : Child(node, "Duration") = Nodes(<<x1>>) =>
           /\ DurationReadable(node, "Duration")
           /\ DurationOf(node, "Duration") = <<idle.duration>>
  BY <1>1, OneDuration
<1>3. /\ PartOf(<<x2>>, "WaitTimeout")
      /\ \A node : Child(node, "WaitTimeout") = Nodes(<<x2>>) =>
           /\ DurationReadable(node, "WaitTimeout")
           /\ DurationOf(node, "WaitTimeout") = <<idle.wait_timeout>>
  BY <1>1, OneDuration
<1>4. /\ PartOf(<<x3>>, "StopOnIdleEnd")
      /\ \A node : Child(node, "StopOnIdleEnd") = Nodes(<<x3>>) =>
           /\ BoolReadable(node, "StopOnIdleEnd")
           /\ \A default : BoolOf(node, "StopOnIdleEnd", default) = idle.stop_on_idle_end
  BY <1>1, BoolPart
<1>5. /\ PartOf(<<x4>>, "RestartOnIdle")
      /\ \A node : Child(node, "RestartOnIdle") = Nodes(<<x4>>) =>
           /\ BoolReadable(node, "RestartOnIdle")
           /\ \A default : BoolOf(node, "RestartOnIdle", default) = idle.restart_on_idle
  BY <1>1, BoolPart
<1>6. e = Plain("IdleSettings", list)  BY DEF IdleElement
<1> HIDE DEF x1, x2, x3, x4
<1>7. /\ Elements(list) /\ Offers(list, "Duration", <<x1>>) /\ Offers(list, "WaitTimeout", <<x2>>)
      /\ Offers(list, "StopOnIdleEnd", <<x3>>) /\ Offers(list, "RestartOnIdle", <<x4>>)
  <2>1. /\ PartOf(<<x1>>, "Duration") /\ PartOf(<<x2>>, "WaitTimeout")
        /\ PartOf(<<x3>>, "StopOnIdleEnd") /\ PartOf(<<x4>>, "RestartOnIdle")
    BY <1>2, <1>3, <1>4, <1>5
  <2>2. Menu(list, {"Duration", "WaitTimeout", "StopOnIdleEnd", "RestartOnIdle"})
    BY <2>1, Singles4
  <2>3. Offers(list, "Duration", <<x1>>) /\ Offers(list, "WaitTimeout", <<x2>>)
    BY <2>1, Singles4
  <2>4. Offers(list, "StopOnIdleEnd", <<x3>>) /\ Offers(list, "RestartOnIdle", <<x4>>)
    BY <2>1, Singles4
  <2>5. QED  BY <2>2, <2>3, <2>4 DEF Menu
<1> HIDE DEF list
<1>8. IsElement(e) /\ n.name = "IdleSettings" /\ n.kids = Nodes(list)
  BY <1>6, <1>7, PlainReads
<1> HIDE DEF n
<1>9. /\ Child(n, "Duration") = Nodes(<<x1>>) /\ Child(n, "WaitTimeout") = Nodes(<<x2>>)
      /\ Child(n, "StopOnIdleEnd") = Nodes(<<x3>>) /\ Child(n, "RestartOnIdle") = Nodes(<<x4>>)
  BY <1>7, <1>8, Lookup
<1>10. IdleReadable(n)  BY <1>2, <1>3, <1>4, <1>5, <1>9 DEF IdleReadable
<1>11. /\ OrElse(DurationOf(n, "Duration"), DefaultIdle.duration) = idle.duration
       /\ OrElse(DurationOf(n, "WaitTimeout"), DefaultIdle.wait_timeout) = idle.wait_timeout
  BY <1>2, <1>3, <1>9, DurationOrElse
<1>12. QED  BY <1>4, <1>5, <1>8, <1>9, <1>10, <1>11 DEF IdleRead, n

LEMMA NetworkKept ==
  ASSUME NEW w, IsNetwork(w), NEW e, e = NetworkElement(w)
  PROVE  IsElement(e) /\ NodeOf(e).name = "NetworkSettings" /\ NetworkRead(NodeOf(e), w)
<1> DEFINE p1 == OptionalElement("Name", w.name)
           p2 == OptionalElement("Id", w.id)
           list == FlattenSeq(<<p1, p2>>)
           n == NodeOf(e)
<1>1. IsOption(w.id) /\ IsOption(w.name)  BY DEF IsNetwork
<1>2. /\ PartOf(p1, "Name")
      /\ \A node : Child(node, "Name") = Nodes(p1) => ChildText(node, "Name") = Texts(w.name)
  BY <1>1, TextPart
<1>3. /\ PartOf(p2, "Id")
      /\ \A node : Child(node, "Id") = Nodes(p2) => ChildText(node, "Id") = Texts(w.id)
  BY <1>1, TextPart
<1>4. e = Plain("NetworkSettings", list)  BY DEF NetworkElement
<1> HIDE DEF p1, p2
<1>5. Elements(list) /\ Offers(list, "Name", p1) /\ Offers(list, "Id", p2)
  BY <1>2, <1>3, Parts2 DEF Menu
<1> HIDE DEF list
<1>6. IsElement(e) /\ n.name = "NetworkSettings" /\ n.kids = Nodes(list)
  BY <1>4, <1>5, PlainReads
<1> HIDE DEF n
<1>7. Child(n, "Name") = Nodes(p1) /\ Child(n, "Id") = Nodes(p2)  BY <1>5, <1>6, Lookup
<1>8. QED  BY <1>2, <1>3, <1>6, <1>7 DEF NetworkRead, n

LEMMA MaintenanceKept ==
  ASSUME NEW m, IsMaintenance(m), NEW e, e = MaintenanceElement(m)
  PROVE  /\ IsElement(e) /\ NodeOf(e).name = "MaintenanceSettings"
         /\ MaintenanceRead(NodeOf(e), m)
<1> DEFINE x1 == Element("Period", m.period)
           x2 == Element("Deadline", m.deadline)
           x3 == BoolElement("Exclusive", m.exclusive)
           list == <<x1, x2, x3>>
           n == NodeOf(e)
<1>1. IsDuration(m.period) /\ IsDuration(m.deadline) /\ m.exclusive \in BOOLEAN
  BY DEF IsMaintenance
<1>2. /\ PartOf(<<x1>>, "Period")
      /\ \A node : Child(node, "Period") = Nodes(<<x1>>) =>
           /\ Has(node, "Period") /\ DurationReadable(node, "Period")
           /\ DurationOf(node, "Period") = <<m.period>>
  BY <1>1, OneDuration
<1>3. /\ PartOf(<<x2>>, "Deadline")
      /\ \A node : Child(node, "Deadline") = Nodes(<<x2>>) =>
           /\ Has(node, "Deadline") /\ DurationReadable(node, "Deadline")
           /\ DurationOf(node, "Deadline") = <<m.deadline>>
  BY <1>1, OneDuration
<1>4. /\ PartOf(<<x3>>, "Exclusive")
      /\ \A node : Child(node, "Exclusive") = Nodes(<<x3>>) =>
           BoolReadable(node, "Exclusive") /\ BoolOf(node, "Exclusive", FALSE) = m.exclusive
  BY <1>1, BoolPart
<1>5. e = Plain("MaintenanceSettings", list)  BY DEF MaintenanceElement
<1> HIDE DEF x1, x2, x3
<1>6. /\ Elements(list) /\ Offers(list, "Period", <<x1>>) /\ Offers(list, "Deadline", <<x2>>)
      /\ Offers(list, "Exclusive", <<x3>>)
  <2>1. PartOf(<<x1>>, "Period") /\ PartOf(<<x2>>, "Deadline") /\ PartOf(<<x3>>, "Exclusive")
    BY <1>2, <1>3, <1>4
  <2>2. Menu(list, {"Period", "Deadline", "Exclusive"})  BY <2>1, Singles3
  <2>3. Offers(list, "Period", <<x1>>) /\ Offers(list, "Deadline", <<x2>>)  BY <2>1, Singles3
  <2>4. Offers(list, "Exclusive", <<x3>>)  BY <2>1, Singles3
  <2>5. QED  BY <2>2, <2>3, <2>4 DEF Menu
<1> HIDE DEF list
<1>7. IsElement(e) /\ n.name = "MaintenanceSettings" /\ n.kids = Nodes(list)
  BY <1>5, <1>6, PlainReads
<1> HIDE DEF n
<1>8. /\ Child(n, "Period") = Nodes(<<x1>>) /\ Child(n, "Deadline") = Nodes(<<x2>>)
      /\ Child(n, "Exclusive") = Nodes(<<x3>>)
  BY <1>6, <1>7, Lookup
<1>9. DurationOf(n, "Period")[1] = m.period /\ DurationOf(n, "Deadline")[1] = m.deadline
  BY <1>2, <1>3, <1>8
<1>10. MaintenanceReadable(n)  BY <1>2, <1>3, <1>4, <1>8 DEF MaintenanceReadable
<1>11. QED  BY <1>4, <1>7, <1>8, <1>9, <1>10 DEF MaintenanceRead, n

-----------------------------------------------------------------------------
\* The same, of the options that hold them.
LEMMA RestartPart ==
  ASSUME NEW v, IsOption(v), \A r \in ToSet(v) : IsRestart(r)
  PROVE  /\ PartOf(Each(v, RestartElement), "RestartOnFailure")
         /\ \A node : Child(node, "RestartOnFailure") = Nodes(Each(v, RestartElement)) =>
              /\ \A r \in ToSet(Child(node, "RestartOnFailure")) : RestartReadable(r)
              /\ Each(Child(node, "RestartOnFailure"),
                      LAMBDA r : [interval |-> DurationOf(r, "Interval")[1],
                                  count |-> NumberOf(r, "Count")[1]]) = v
<1> DEFINE name == "RestartOnFailure"
           part == [i \in DOMAIN v |-> RestartElement(v[i])]
<1>1. Each(v, RestartElement) = part  BY DEF Each
<1>2. \A i \in DOMAIN v : part[i] = RestartElement(v[i]) /\ IsRestart(v[i])  BY DEF ToSet
<1>3. part = [i \in DOMAIN v |-> part[i]]  OBVIOUS
<1> HIDE DEF part
<1>4. \A i \in DOMAIN v : /\ IsElement(part[i]) /\ NodeOf(part[i]).name = name
                          /\ RestartRead(NodeOf(part[i]), v[i])
  BY <1>2, RestartKept
<1> HIDE DEF name
<1>5. PartOf(part, name) /\ Nodes(part) = [i \in DOMAIN v |-> NodeOf(part[i])]
  BY <1>3, <1>4, EachPart
<1>6. ASSUME NEW node, Child(node, name) = Nodes(part)
      PROVE  /\ \A r \in ToSet(Child(node, name)) : RestartReadable(r)
             /\ Each(Child(node, name),
                     LAMBDA r : [interval |-> DurationOf(r, "Interval")[1],
                                 count |-> NumberOf(r, "Count")[1]]) = v
  <2>1. \A r \in ToSet(Child(node, name)) : RestartReadable(r)
    <3>1. \A i \in DOMAIN v : RestartReadable(NodeOf(part[i]))  BY <1>4 DEF RestartRead
    <3>2. QED  BY <1>5, <1>6, <3>1 DEF ToSet
  <2>2. Each(Child(node, name),
             LAMBDA r : [interval |-> DurationOf(r, "Interval")[1],
                         count |-> NumberOf(r, "Count")[1]])
          = [i \in DOMAIN v |-> [interval |-> DurationOf(NodeOf(part[i]), "Interval")[1],
                                 count |-> NumberOf(NodeOf(part[i]), "Count")[1]]]
    BY <1>5, <1>6 DEF Each
  <2>3. v = [i \in DOMAIN v |-> v[i]]  BY Options
  <2>4. \A i \in DOMAIN v :
          [interval |-> DurationOf(NodeOf(part[i]), "Interval")[1],
           count |-> NumberOf(NodeOf(part[i]), "Count")[1]] = v[i]
    BY <1>2, <1>4 DEF RestartRead, IsRestart
  <2>5. QED  BY <2>1, <2>2, <2>3, <2>4
<1>7. QED  BY <1>1, <1>5, <1>6 DEF name

LEMMA IdlePart ==
  ASSUME NEW v, IsOption(v), \A x \in ToSet(v) : IsIdle(x)
  PROVE  /\ PartOf(Each(v, IdleElement), "IdleSettings")
         /\ \A node : Child(node, "IdleSettings") = Nodes(Each(v, IdleElement)) =>
              /\ DOMAIN Child(node, "IdleSettings") = DOMAIN v
              /\ \A i \in DOMAIN v : IdleRead(Child(node, "IdleSettings")[i], v[i])
<1> DEFINE name == "IdleSettings"
           part == [i \in DOMAIN v |-> IdleElement(v[i])]
<1>1. Each(v, IdleElement) = part  BY DEF Each
<1>2. \A i \in DOMAIN v : part[i] = IdleElement(v[i]) /\ IsIdle(v[i])  BY DEF ToSet
<1>3. part = [i \in DOMAIN v |-> part[i]]  OBVIOUS
<1> HIDE DEF part
<1>4. \A i \in DOMAIN v : /\ IsElement(part[i]) /\ NodeOf(part[i]).name = name
                          /\ IdleRead(NodeOf(part[i]), v[i])
  BY <1>2, IdleElementKept
<1> HIDE DEF name
<1>5. PartOf(part, name) /\ Nodes(part) = [i \in DOMAIN v |-> NodeOf(part[i])]
  BY <1>3, <1>4, EachPart
<1>6. QED  BY <1>1, <1>4, <1>5 DEF name

LEMMA NetworkPart ==
  ASSUME NEW v, IsOption(v), \A x \in ToSet(v) : IsNetwork(x)
  PROVE  /\ PartOf(Each(v, NetworkElement), "NetworkSettings")
         /\ \A node : Child(node, "NetworkSettings") = Nodes(Each(v, NetworkElement)) =>
              /\ DOMAIN Child(node, "NetworkSettings") = DOMAIN v
              /\ \A i \in DOMAIN v : NetworkRead(Child(node, "NetworkSettings")[i], v[i])
<1> DEFINE name == "NetworkSettings"
           part == [i \in DOMAIN v |-> NetworkElement(v[i])]
<1>1. Each(v, NetworkElement) = part  BY DEF Each
<1>2. \A i \in DOMAIN v : part[i] = NetworkElement(v[i]) /\ IsNetwork(v[i])  BY DEF ToSet
<1>3. part = [i \in DOMAIN v |-> part[i]]  OBVIOUS
<1> HIDE DEF part
<1>4. \A i \in DOMAIN v : /\ IsElement(part[i]) /\ NodeOf(part[i]).name = name
                          /\ NetworkRead(NodeOf(part[i]), v[i])
  BY <1>2, NetworkKept
<1> HIDE DEF name
<1>5. PartOf(part, name) /\ Nodes(part) = [i \in DOMAIN v |-> NodeOf(part[i])]
  BY <1>3, <1>4, EachPart
<1>6. QED  BY <1>1, <1>4, <1>5 DEF name

LEMMA MaintenancePart ==
  ASSUME NEW v, IsOption(v), \A m \in ToSet(v) : IsMaintenance(m)
  PROVE  /\ PartOf(Each(v, MaintenanceElement), "MaintenanceSettings")
         /\ \A node : Child(node, "MaintenanceSettings") = Nodes(Each(v, MaintenanceElement)) =>
              /\ \A m \in ToSet(Child(node, "MaintenanceSettings")) : MaintenanceReadable(m)
              /\ Each(Child(node, "MaintenanceSettings"),
                      LAMBDA m : [period |-> DurationOf(m, "Period")[1],
                                  deadline |-> DurationOf(m, "Deadline")[1],
                                  exclusive |-> BoolOf(m, "Exclusive", FALSE)]) = v
<1> DEFINE name == "MaintenanceSettings"
           part == [i \in DOMAIN v |-> MaintenanceElement(v[i])]
<1>1. Each(v, MaintenanceElement) = part  BY DEF Each
<1>2. \A i \in DOMAIN v : part[i] = MaintenanceElement(v[i]) /\ IsMaintenance(v[i])
  BY DEF ToSet
<1>3. part = [i \in DOMAIN v |-> part[i]]  OBVIOUS
<1> HIDE DEF part
<1>4. \A i \in DOMAIN v : /\ IsElement(part[i]) /\ NodeOf(part[i]).name = name
                          /\ MaintenanceRead(NodeOf(part[i]), v[i])
  BY <1>2, MaintenanceKept
<1> HIDE DEF name
<1>5. PartOf(part, name) /\ Nodes(part) = [i \in DOMAIN v |-> NodeOf(part[i])]
  BY <1>3, <1>4, EachPart
<1>6. ASSUME NEW node, Child(node, name) = Nodes(part)
      PROVE  /\ \A m \in ToSet(Child(node, name)) : MaintenanceReadable(m)
             /\ Each(Child(node, name),
                     LAMBDA m : [period |-> DurationOf(m, "Period")[1],
                                 deadline |-> DurationOf(m, "Deadline")[1],
                                 exclusive |-> BoolOf(m, "Exclusive", FALSE)]) = v
  <2>1. \A m \in ToSet(Child(node, name)) : MaintenanceReadable(m)
    <3>1. \A i \in DOMAIN v : MaintenanceReadable(NodeOf(part[i]))  BY <1>4 DEF MaintenanceRead
    <3>2. QED  BY <1>5, <1>6, <3>1 DEF ToSet
  <2>2. Each(Child(node, name),
             LAMBDA m : [period |-> DurationOf(m, "Period")[1],
                         deadline |-> DurationOf(m, "Deadline")[1],
                         exclusive |-> BoolOf(m, "Exclusive", FALSE)])
          = [i \in DOMAIN v |-> [period |-> DurationOf(NodeOf(part[i]), "Period")[1],
                                 deadline |-> DurationOf(NodeOf(part[i]), "Deadline")[1],
                                 exclusive |-> BoolOf(NodeOf(part[i]), "Exclusive", FALSE)]]
    BY <1>5, <1>6 DEF Each
  <2>3. v = [i \in DOMAIN v |-> v[i]]  BY Options
  <2>4. \A i \in DOMAIN v :
          [period |-> DurationOf(NodeOf(part[i]), "Period")[1],
           deadline |-> DurationOf(NodeOf(part[i]), "Deadline")[1],
           exclusive |-> BoolOf(NodeOf(part[i]), "Exclusive", FALSE)] = v[i]
    BY <1>2, <1>4 DEF MaintenanceRead, IsMaintenance
  <2>5. QED  BY <2>1, <2>2, <2>3, <2>4
<1>7. QED  BY <1>1, <1>5, <1>6 DEF name

\* The elements of settings under their names, in the writer's order.
SettingsOrder ==
  <<"AllowStartOnDemand", "DisallowStartIfOnBatteries", "StopIfGoingOnBatteries",
    "RestartOnFailure", "MultipleInstancesPolicy", "StartWhenAvailable",
    "AllowHardTerminate", "IdleSettings", "RunOnlyIfIdle",
    "NetworkSettings", "RunOnlyIfNetworkAvailable", "WakeToRun",
    "Enabled", "Hidden", "DeleteExpiredTaskAfter",
    "ExecutionTimeLimit", "Priority", "UseUnifiedSchedulingEngine",
    "DisallowStartOnRemoteAppSession", "MaintenanceSettings", "Volatile">>

SettingsParts(d) ==
  <<<<BoolElement("AllowStartOnDemand", d.settings.flags["AllowStartOnDemand"])>>,
    <<BoolElement("DisallowStartIfOnBatteries", d.settings.flags["DisallowStartIfOnBatteries"])>>,
    <<BoolElement("StopIfGoingOnBatteries", d.settings.flags["StopIfGoingOnBatteries"])>>,
    Each(d.settings.restart_on_failure, RestartElement),
    <<Element("MultipleInstancesPolicy", d.settings.multiple_instances)>>,
    <<BoolElement("StartWhenAvailable", d.settings.flags["StartWhenAvailable"])>>,
    <<BoolElement("AllowHardTerminate", d.settings.flags["AllowHardTerminate"])>>,
    Each(d.settings.idle, IdleElement),
    <<BoolElement("RunOnlyIfIdle", d.settings.idle # None)>>,
    Each(d.settings.network, NetworkElement),
    <<BoolElement("RunOnlyIfNetworkAvailable", d.settings.network # None)>>,
    <<BoolElement("WakeToRun", d.settings.flags["WakeToRun"])>>,
    <<BoolElement("Enabled", d.settings.flags["Enabled"])>>,
    <<BoolElement("Hidden", d.settings.flags["Hidden"])>>,
    OptionalElement("DeleteExpiredTaskAfter", d.settings.delete_expired_after),
    <<Element("ExecutionTimeLimit", LimitText(d.settings.execution_time_limit))>>,
    <<Element("Priority", ToString(d.settings.priority))>>,
    IF d.schema_version = "1.2" THEN <<>>
    ELSE <<BoolElement("UseUnifiedSchedulingEngine",
                       d.settings.flags["UseUnifiedSchedulingEngine"])>>,
    Raised("DisallowStartOnRemoteAppSession", d.settings.flags.DisallowStartOnRemoteAppSession),
    Each(d.settings.maintenance, MaintenanceElement),
    Raised("Volatile", d.settings.flags.Volatile)>>

LEMMA SettingsNames ==
  /\ IsList(SettingsOrder) /\ DOMAIN SettingsOrder = 1..21
  /\ ToSet(SettingsOrder) = SettingNames
  /\ \A i, j \in DOMAIN SettingsOrder : SettingsOrder[i] = SettingsOrder[j] => i = j
  /\ DOMAIN AbsentFlags = DOMAIN DefaultFlags
<1>1. IsList(SettingsOrder) /\ DOMAIN SettingsOrder = 1..21
  BY DEF SettingsOrder, IsList, ToSet
<1>2. ToSet(SettingsOrder) = SettingNames
  BY DEF SettingsOrder, ToSet, SettingNames, DefaultFlags
<1>3. \A i, j \in DOMAIN SettingsOrder : SettingsOrder[i] = SettingsOrder[j] => i = j
  BY DEF SettingsOrder
<1>4. DOMAIN AbsentFlags = DOMAIN DefaultFlags  BY DEF AbsentFlags, DefaultFlags
<1>5. QED  BY <1>1, <1>2, <1>3, <1>4

LEMMA OneLimit ==
  ASSUME NEW name, NEW l, IsLimit(l), NEW part, part = <<Element(name, LimitText(l))>>
  PROVE  /\ PartOf(part, name)
         /\ \A node : Child(node, name) = Nodes(part) =>
              /\ DurationReadable(node, name)
              /\ \A default : OrElse(LimitOf(node, name), default) = CanonicalLimit(l)
<1> DEFINE v == <<l>>
<1>1. IsOption(v) /\ \A x \in ToSet(v) : IsLimit(x)  BY DEF IsOption, Some, ToSet
<1>2. Each(v, LimitText) = <<LimitText(l)>> /\ Each(v, CanonicalLimit) = <<CanonicalLimit(l)>>
  BY DEF Each
<1>3. part = OptionalElement(name, Each(v, LimitText))  BY <1>2 DEF OptionalElement, Each
<1> HIDE DEF v
<1>4. /\ PartOf(part, name)
      /\ \A node : Child(node, name) = Nodes(part) =>
           DurationReadable(node, name) /\ LimitOf(node, name) = Each(v, CanonicalLimit)
  BY <1>1, <1>3, LimitPart
<1>5. \A default : OrElse(<<CanonicalLimit(l)>>, default) = CanonicalLimit(l)
  BY DEF OrElse, None
<1>6. QED  BY <1>2, <1>4, <1>5

\* Each is a part.
LEMMA SettingsParted ==
  ASSUME NEW d, IsSettings(d.settings)
  PROVE  /\ IsList(SettingsParts(d)) /\ DOMAIN SettingsParts(d) = 1..21
         /\ \A i \in 1..21 : PartOf(SettingsParts(d)[i], SettingsOrder[i])
<1> DEFINE s == d.settings
           P == SettingsParts(d)
<1>1. IsList(P) /\ DOMAIN P = 1..21
  <2> DEFINE p1 == <<BoolElement("AllowStartOnDemand", d.settings.flags["AllowStartOnDemand"])>>
             p2 == <<BoolElement("DisallowStartIfOnBatteries", d.settings.flags["DisallowStartIfOnBatteries"])>>
             p3 == <<BoolElement("StopIfGoingOnBatteries", d.settings.flags["StopIfGoingOnBatteries"])>>
             p4 == Each(d.settings.restart_on_failure, RestartElement)
             p5 == <<Element("MultipleInstancesPolicy", d.settings.multiple_instances)>>
             p6 == <<BoolElement("StartWhenAvailable", d.settings.flags["StartWhenAvailable"])>>
             p7 == <<BoolElement("AllowHardTerminate", d.settings.flags["AllowHardTerminate"])>>
             p8 == Each(d.settings.idle, IdleElement)
             p9 == <<BoolElement("RunOnlyIfIdle", d.settings.idle # None)>>
             p10 == Each(d.settings.network, NetworkElement)
             p11 == <<BoolElement("RunOnlyIfNetworkAvailable", d.settings.network # None)>>
             p12 == <<BoolElement("WakeToRun", d.settings.flags["WakeToRun"])>>
             p13 == <<BoolElement("Enabled", d.settings.flags["Enabled"])>>
             p14 == <<BoolElement("Hidden", d.settings.flags["Hidden"])>>
             p15 == OptionalElement("DeleteExpiredTaskAfter", d.settings.delete_expired_after)
             p16 == <<Element("ExecutionTimeLimit", LimitText(d.settings.execution_time_limit))>>
             p17 == <<Element("Priority", ToString(d.settings.priority))>>
             p18 == IF d.schema_version = "1.2" THEN <<>>
                   ELSE <<BoolElement("UseUnifiedSchedulingEngine",
                                      d.settings.flags["UseUnifiedSchedulingEngine"])>>
             p19 == Raised("DisallowStartOnRemoteAppSession", d.settings.flags.DisallowStartOnRemoteAppSession)
             p20 == Each(d.settings.maintenance, MaintenanceElement)
             p21 == Raised("Volatile", d.settings.flags.Volatile)
  <2>1. P = <<p1, p2, p3, p4, p5, p6, p7, p8, p9, p10, p11, p12, p13, p14, p15, p16, p17, p18, p19, p20, p21>>  BY DEF SettingsParts
  <2> HIDE DEF p1, p2, p3, p4, p5, p6, p7, p8, p9, p10, p11, p12, p13, p14, p15, p16, p17, p18, p19, p20, p21
  <2>2. IsList(P) /\ DOMAIN P = 1..21  BY <2>1 DEF IsList, ToSet
  <2>3. QED  BY <2>2
<1>2. /\ \A name \in DOMAIN DefaultFlags : s.flags[name] \in BOOLEAN
      /\ IsOption(s.restart_on_failure) /\ \A r \in ToSet(s.restart_on_failure) : IsRestart(r)
      /\ s.multiple_instances \in InstancePolicies
      /\ IsOption(s.network) /\ \A n \in ToSet(s.network) : IsNetwork(n)
      /\ IsLimit(s.execution_time_limit) /\ IsDelay(s.delete_expired_after)
      /\ IsNumber(s.priority)
      /\ IsOption(s.idle) /\ \A idle \in ToSet(s.idle) : IsIdle(idle)
      /\ IsOption(s.maintenance) /\ \A m \in ToSet(s.maintenance) : IsMaintenance(m)
  BY DEF IsSettings
<1>3. PartOf(P[1], "AllowStartOnDemand")
  <2>1. s.flags["AllowStartOnDemand"] \in BOOLEAN  BY <1>2 DEF DefaultFlags
  <2>2. PartOf(<<BoolElement("AllowStartOnDemand", s.flags["AllowStartOnDemand"])>>, "AllowStartOnDemand")  BY <2>1, BoolPart
  <2>3. P[1] = <<BoolElement("AllowStartOnDemand", s.flags["AllowStartOnDemand"])>>  BY DEF SettingsParts
  <2>4. QED  BY <2>2, <2>3
<1>4. PartOf(P[2], "DisallowStartIfOnBatteries")
  <2>1. s.flags["DisallowStartIfOnBatteries"] \in BOOLEAN  BY <1>2 DEF DefaultFlags
  <2>2. PartOf(<<BoolElement("DisallowStartIfOnBatteries", s.flags["DisallowStartIfOnBatteries"])>>, "DisallowStartIfOnBatteries")  BY <2>1, BoolPart
  <2>3. P[2] = <<BoolElement("DisallowStartIfOnBatteries", s.flags["DisallowStartIfOnBatteries"])>>  BY DEF SettingsParts
  <2>4. QED  BY <2>2, <2>3
<1>5. PartOf(P[3], "StopIfGoingOnBatteries")
  <2>1. s.flags["StopIfGoingOnBatteries"] \in BOOLEAN  BY <1>2 DEF DefaultFlags
  <2>2. PartOf(<<BoolElement("StopIfGoingOnBatteries", s.flags["StopIfGoingOnBatteries"])>>, "StopIfGoingOnBatteries")  BY <2>1, BoolPart
  <2>3. P[3] = <<BoolElement("StopIfGoingOnBatteries", s.flags["StopIfGoingOnBatteries"])>>  BY DEF SettingsParts
  <2>4. QED  BY <2>2, <2>3
<1>6. PartOf(P[4], "RestartOnFailure")
  <2>1. PartOf(Each(s.restart_on_failure, RestartElement), "RestartOnFailure")  BY <1>2, RestartPart
  <2>2. P[4] = Each(s.restart_on_failure, RestartElement)  BY DEF SettingsParts
  <2>3. QED  BY <2>1, <2>2
<1>7. PartOf(P[5], "MultipleInstancesPolicy")
  <2>1. s.multiple_instances \in Words  BY <1>2 DEF Words
  <2>2. PartOf(<<Element("MultipleInstancesPolicy", s.multiple_instances)>>, "MultipleInstancesPolicy")  BY <2>1, OneWord
  <2>3. P[5] = <<Element("MultipleInstancesPolicy", s.multiple_instances)>>  BY DEF SettingsParts
  <2>4. QED  BY <2>2, <2>3
<1>8. PartOf(P[6], "StartWhenAvailable")
  <2>1. s.flags["StartWhenAvailable"] \in BOOLEAN  BY <1>2 DEF DefaultFlags
  <2>2. PartOf(<<BoolElement("StartWhenAvailable", s.flags["StartWhenAvailable"])>>, "StartWhenAvailable")  BY <2>1, BoolPart
  <2>3. P[6] = <<BoolElement("StartWhenAvailable", s.flags["StartWhenAvailable"])>>  BY DEF SettingsParts
  <2>4. QED  BY <2>2, <2>3
<1>9. PartOf(P[7], "AllowHardTerminate")
  <2>1. s.flags["AllowHardTerminate"] \in BOOLEAN  BY <1>2 DEF DefaultFlags
  <2>2. PartOf(<<BoolElement("AllowHardTerminate", s.flags["AllowHardTerminate"])>>, "AllowHardTerminate")  BY <2>1, BoolPart
  <2>3. P[7] = <<BoolElement("AllowHardTerminate", s.flags["AllowHardTerminate"])>>  BY DEF SettingsParts
  <2>4. QED  BY <2>2, <2>3
<1>10. PartOf(P[8], "IdleSettings")
  <2>1. PartOf(Each(s.idle, IdleElement), "IdleSettings")  BY <1>2, IdlePart
  <2>2. P[8] = Each(s.idle, IdleElement)  BY DEF SettingsParts
  <2>3. QED  BY <2>1, <2>2
<1>11. PartOf(P[9], "RunOnlyIfIdle")
  <2>1. (s.idle # None) \in BOOLEAN  OBVIOUS
  <2>2. PartOf(<<BoolElement("RunOnlyIfIdle", s.idle # None)>>, "RunOnlyIfIdle")  BY <2>1, BoolPart
  <2>3. P[9] = <<BoolElement("RunOnlyIfIdle", s.idle # None)>>  BY DEF SettingsParts
  <2>4. QED  BY <2>2, <2>3
<1>12. PartOf(P[10], "NetworkSettings")
  <2>1. PartOf(Each(s.network, NetworkElement), "NetworkSettings")  BY <1>2, NetworkPart
  <2>2. P[10] = Each(s.network, NetworkElement)  BY DEF SettingsParts
  <2>3. QED  BY <2>1, <2>2
<1>13. PartOf(P[11], "RunOnlyIfNetworkAvailable")
  <2>1. (s.network # None) \in BOOLEAN  OBVIOUS
  <2>2. PartOf(<<BoolElement("RunOnlyIfNetworkAvailable", s.network # None)>>, "RunOnlyIfNetworkAvailable")  BY <2>1, BoolPart
  <2>3. P[11] = <<BoolElement("RunOnlyIfNetworkAvailable", s.network # None)>>  BY DEF SettingsParts
  <2>4. QED  BY <2>2, <2>3
<1>14. PartOf(P[12], "WakeToRun")
  <2>1. s.flags["WakeToRun"] \in BOOLEAN  BY <1>2 DEF DefaultFlags
  <2>2. PartOf(<<BoolElement("WakeToRun", s.flags["WakeToRun"])>>, "WakeToRun")  BY <2>1, BoolPart
  <2>3. P[12] = <<BoolElement("WakeToRun", s.flags["WakeToRun"])>>  BY DEF SettingsParts
  <2>4. QED  BY <2>2, <2>3
<1>15. PartOf(P[13], "Enabled")
  <2>1. s.flags["Enabled"] \in BOOLEAN  BY <1>2 DEF DefaultFlags
  <2>2. PartOf(<<BoolElement("Enabled", s.flags["Enabled"])>>, "Enabled")  BY <2>1, BoolPart
  <2>3. P[13] = <<BoolElement("Enabled", s.flags["Enabled"])>>  BY DEF SettingsParts
  <2>4. QED  BY <2>2, <2>3
<1>16. PartOf(P[14], "Hidden")
  <2>1. s.flags["Hidden"] \in BOOLEAN  BY <1>2 DEF DefaultFlags
  <2>2. PartOf(<<BoolElement("Hidden", s.flags["Hidden"])>>, "Hidden")  BY <2>1, BoolPart
  <2>3. P[14] = <<BoolElement("Hidden", s.flags["Hidden"])>>  BY DEF SettingsParts
  <2>4. QED  BY <2>2, <2>3
<1>17. PartOf(P[15], "DeleteExpiredTaskAfter")
  <2>1. PartOf(OptionalElement("DeleteExpiredTaskAfter", s.delete_expired_after), "DeleteExpiredTaskAfter")  BY <1>2, DurationPart
  <2>2. P[15] = OptionalElement("DeleteExpiredTaskAfter", s.delete_expired_after)  BY DEF SettingsParts
  <2>3. QED  BY <2>1, <2>2
<1>18. PartOf(P[16], "ExecutionTimeLimit")
  <2>1. PartOf(<<Element("ExecutionTimeLimit", LimitText(s.execution_time_limit))>>, "ExecutionTimeLimit")  BY <1>2, OneLimit
  <2>2. P[16] = <<Element("ExecutionTimeLimit", LimitText(s.execution_time_limit))>>  BY DEF SettingsParts
  <2>3. QED  BY <2>1, <2>2
<1>19. PartOf(P[17], "Priority")
  <2>1. PartOf(<<Element("Priority", ToString(s.priority))>>, "Priority")  BY <1>2, OneNumber
  <2>2. P[17] = <<Element("Priority", ToString(s.priority))>>  BY DEF SettingsParts
  <2>3. QED  BY <2>1, <2>2
<1>20. PartOf(P[18], "UseUnifiedSchedulingEngine")
  <2>1. s.flags["UseUnifiedSchedulingEngine"] \in BOOLEAN  BY <1>2 DEF DefaultFlags
  <2>2. PartOf(<<BoolElement("UseUnifiedSchedulingEngine", s.flags["UseUnifiedSchedulingEngine"])>>, "UseUnifiedSchedulingEngine")  BY <2>1, BoolPart
  <2>3. PartOf(<<>>, "UseUnifiedSchedulingEngine")  BY NoPart
  <2>4. \/ P[18] = <<BoolElement("UseUnifiedSchedulingEngine", s.flags["UseUnifiedSchedulingEngine"])>> \/ P[18] = <<>>
    BY DEF SettingsParts
  <2>5. QED  BY <2>2, <2>3, <2>4
<1>21. PartOf(P[19], "DisallowStartOnRemoteAppSession")
  <2>1. s.flags.DisallowStartOnRemoteAppSession \in BOOLEAN  BY <1>2 DEF DefaultFlags
  <2>2. PartOf(Raised("DisallowStartOnRemoteAppSession", s.flags.DisallowStartOnRemoteAppSession), "DisallowStartOnRemoteAppSession")  BY <2>1, RaisedPart
  <2>3. P[19] = Raised("DisallowStartOnRemoteAppSession", s.flags.DisallowStartOnRemoteAppSession)  BY DEF SettingsParts
  <2>4. QED  BY <2>2, <2>3
<1>22. PartOf(P[20], "MaintenanceSettings")
  <2>1. PartOf(Each(s.maintenance, MaintenanceElement), "MaintenanceSettings")  BY <1>2, MaintenancePart
  <2>2. P[20] = Each(s.maintenance, MaintenanceElement)  BY DEF SettingsParts
  <2>3. QED  BY <2>1, <2>2
<1>23. PartOf(P[21], "Volatile")
  <2>1. s.flags.Volatile \in BOOLEAN  BY <1>2 DEF DefaultFlags
  <2>2. PartOf(Raised("Volatile", s.flags.Volatile), "Volatile")  BY <2>1, RaisedPart
  <2>3. P[21] = Raised("Volatile", s.flags.Volatile)  BY DEF SettingsParts
  <2>4. QED  BY <2>2, <2>3
<1>24. \A i \in 1..21 : PartOf(P[i], SettingsOrder[i])
  <2> HIDE DEF P
  <2>1. \A i \in 1..21 : i = 1 \/ i = 2 \/ i = 3 \/ i = 4 \/ i = 5 \/ i = 6 \/ i = 7
                           \/ i = 8 \/ i = 9 \/ i = 10 \/ i = 11 \/ i = 12 \/ i = 13 \/ i = 14
                           \/ i = 15 \/ i = 16 \/ i = 17 \/ i = 18 \/ i = 19 \/ i = 20 \/ i = 21
    OBVIOUS
  <2>2. PartOf(P[1], SettingsOrder[1])  BY <1>3 DEF SettingsOrder
  <2>3. PartOf(P[2], SettingsOrder[2])  BY <1>4 DEF SettingsOrder
  <2>4. PartOf(P[3], SettingsOrder[3])  BY <1>5 DEF SettingsOrder
  <2>5. PartOf(P[4], SettingsOrder[4])  BY <1>6 DEF SettingsOrder
  <2>6. PartOf(P[5], SettingsOrder[5])  BY <1>7 DEF SettingsOrder
  <2>7. PartOf(P[6], SettingsOrder[6])  BY <1>8 DEF SettingsOrder
  <2>8. PartOf(P[7], SettingsOrder[7])  BY <1>9 DEF SettingsOrder
  <2>9. PartOf(P[8], SettingsOrder[8])  BY <1>10 DEF SettingsOrder
  <2>10. PartOf(P[9], SettingsOrder[9])  BY <1>11 DEF SettingsOrder
  <2>11. PartOf(P[10], SettingsOrder[10])  BY <1>12 DEF SettingsOrder
  <2>12. PartOf(P[11], SettingsOrder[11])  BY <1>13 DEF SettingsOrder
  <2>13. PartOf(P[12], SettingsOrder[12])  BY <1>14 DEF SettingsOrder
  <2>14. PartOf(P[13], SettingsOrder[13])  BY <1>15 DEF SettingsOrder
  <2>15. PartOf(P[14], SettingsOrder[14])  BY <1>16 DEF SettingsOrder
  <2>16. PartOf(P[15], SettingsOrder[15])  BY <1>17 DEF SettingsOrder
  <2>17. PartOf(P[16], SettingsOrder[16])  BY <1>18 DEF SettingsOrder
  <2>18. PartOf(P[17], SettingsOrder[17])  BY <1>19 DEF SettingsOrder
  <2>19. PartOf(P[18], SettingsOrder[18])  BY <1>20 DEF SettingsOrder
  <2>20. PartOf(P[19], SettingsOrder[19])  BY <1>21 DEF SettingsOrder
  <2>21. PartOf(P[20], SettingsOrder[20])  BY <1>22 DEF SettingsOrder
  <2>22. PartOf(P[21], SettingsOrder[21])  BY <1>23 DEF SettingsOrder
  <2>23. QED  BY <2>1, <2>2, <2>3, <2>4, <2>5, <2>6, <2>7, <2>8, <2>9, <2>10, <2>11, <2>12, <2>13, <2>14, <2>15, <2>16, <2>17, <2>18, <2>19, <2>20, <2>21, <2>22
<1>25. QED  BY <1>1, <1>24

\* What stands under each name of the settings.
SettingsFound(n, d) ==
  \A i \in 1..21 : Child(n, SettingsOrder[i]) = Nodes(SettingsParts(d)[i])

FlagRead(n, name, b) ==
  BoolReadable(n, name) /\ \A default : BoolOf(n, name, default) = b

LEMMA FlagFound ==
  ASSUME NEW n, NEW name, NEW b \in BOOLEAN, Child(n, name) = Nodes(<<BoolElement(name, b)>>)
  PROVE  FlagRead(n, name, b)
<1> DEFINE part == <<BoolElement(name, b)>>
<1>1. \A node : Child(node, name) = Nodes(part) =>
        BoolReadable(node, name) /\ \A default : BoolOf(node, name, default) = b
  BY BoolPart
<1> HIDE DEF part
<1>2. Child(n, name) = Nodes(part)  BY DEF part
<1>3. QED  BY <1>1, <1>2 DEF FlagRead

LEMMA FlagsKept ==
  ASSUME NEW d, IsSettings(d.settings), ValidSchema(d), NEW n, SettingsFound(n, d)
  PROVE  \A name \in DOMAIN AbsentFlags :
           /\ BoolReadable(n, name)
           /\ BoolOf(n, name, AbsentFlags[name]) = d.settings.flags[name]
<1> DEFINE s == d.settings
<1>1. \A name \in DOMAIN DefaultFlags : s.flags[name] \in BOOLEAN  BY DEF IsSettings
<1>2. DOMAIN AbsentFlags = {"AllowStartOnDemand", "DisallowStartIfOnBatteries", "StopIfGoingOnBatteries", "AllowHardTerminate", "StartWhenAvailable", "Enabled",
                           "WakeToRun", "Hidden", "UseUnifiedSchedulingEngine", "DisallowStartOnRemoteAppSession", "Volatile"}
  BY DEF AbsentFlags, DefaultFlags
<1>3. /\ BoolReadable(n, "AllowStartOnDemand")
        /\ BoolOf(n, "AllowStartOnDemand", AbsentFlags["AllowStartOnDemand"]) = s.flags["AllowStartOnDemand"]
  <2>1. s.flags["AllowStartOnDemand"] \in BOOLEAN  BY <1>1 DEF DefaultFlags
  <2>2. Child(n, "AllowStartOnDemand") = Nodes(<<BoolElement("AllowStartOnDemand", s.flags["AllowStartOnDemand"])>>)
    <3>1. Child(n, SettingsOrder[1]) = Nodes(SettingsParts(d)[1])  BY DEF SettingsFound
    <3>2. QED  BY <3>1 DEF SettingsOrder, SettingsParts
  <2>3. FlagRead(n, "AllowStartOnDemand", s.flags["AllowStartOnDemand"])  BY <2>1, <2>2, FlagFound
  <2>4. QED  BY <2>3 DEF FlagRead
<1>4. /\ BoolReadable(n, "DisallowStartIfOnBatteries")
        /\ BoolOf(n, "DisallowStartIfOnBatteries", AbsentFlags["DisallowStartIfOnBatteries"]) = s.flags["DisallowStartIfOnBatteries"]
  <2>1. s.flags["DisallowStartIfOnBatteries"] \in BOOLEAN  BY <1>1 DEF DefaultFlags
  <2>2. Child(n, "DisallowStartIfOnBatteries") = Nodes(<<BoolElement("DisallowStartIfOnBatteries", s.flags["DisallowStartIfOnBatteries"])>>)
    <3>1. Child(n, SettingsOrder[2]) = Nodes(SettingsParts(d)[2])  BY DEF SettingsFound
    <3>2. QED  BY <3>1 DEF SettingsOrder, SettingsParts
  <2>3. FlagRead(n, "DisallowStartIfOnBatteries", s.flags["DisallowStartIfOnBatteries"])  BY <2>1, <2>2, FlagFound
  <2>4. QED  BY <2>3 DEF FlagRead
<1>5. /\ BoolReadable(n, "StopIfGoingOnBatteries")
        /\ BoolOf(n, "StopIfGoingOnBatteries", AbsentFlags["StopIfGoingOnBatteries"]) = s.flags["StopIfGoingOnBatteries"]
  <2>1. s.flags["StopIfGoingOnBatteries"] \in BOOLEAN  BY <1>1 DEF DefaultFlags
  <2>2. Child(n, "StopIfGoingOnBatteries") = Nodes(<<BoolElement("StopIfGoingOnBatteries", s.flags["StopIfGoingOnBatteries"])>>)
    <3>1. Child(n, SettingsOrder[3]) = Nodes(SettingsParts(d)[3])  BY DEF SettingsFound
    <3>2. QED  BY <3>1 DEF SettingsOrder, SettingsParts
  <2>3. FlagRead(n, "StopIfGoingOnBatteries", s.flags["StopIfGoingOnBatteries"])  BY <2>1, <2>2, FlagFound
  <2>4. QED  BY <2>3 DEF FlagRead
<1>6. /\ BoolReadable(n, "AllowHardTerminate")
        /\ BoolOf(n, "AllowHardTerminate", AbsentFlags["AllowHardTerminate"]) = s.flags["AllowHardTerminate"]
  <2>1. s.flags["AllowHardTerminate"] \in BOOLEAN  BY <1>1 DEF DefaultFlags
  <2>2. Child(n, "AllowHardTerminate") = Nodes(<<BoolElement("AllowHardTerminate", s.flags["AllowHardTerminate"])>>)
    <3>1. Child(n, SettingsOrder[7]) = Nodes(SettingsParts(d)[7])  BY DEF SettingsFound
    <3>2. QED  BY <3>1 DEF SettingsOrder, SettingsParts
  <2>3. FlagRead(n, "AllowHardTerminate", s.flags["AllowHardTerminate"])  BY <2>1, <2>2, FlagFound
  <2>4. QED  BY <2>3 DEF FlagRead
<1>7. /\ BoolReadable(n, "StartWhenAvailable")
        /\ BoolOf(n, "StartWhenAvailable", AbsentFlags["StartWhenAvailable"]) = s.flags["StartWhenAvailable"]
  <2>1. s.flags["StartWhenAvailable"] \in BOOLEAN  BY <1>1 DEF DefaultFlags
  <2>2. Child(n, "StartWhenAvailable") = Nodes(<<BoolElement("StartWhenAvailable", s.flags["StartWhenAvailable"])>>)
    <3>1. Child(n, SettingsOrder[6]) = Nodes(SettingsParts(d)[6])  BY DEF SettingsFound
    <3>2. QED  BY <3>1 DEF SettingsOrder, SettingsParts
  <2>3. FlagRead(n, "StartWhenAvailable", s.flags["StartWhenAvailable"])  BY <2>1, <2>2, FlagFound
  <2>4. QED  BY <2>3 DEF FlagRead
<1>8. /\ BoolReadable(n, "Enabled")
        /\ BoolOf(n, "Enabled", AbsentFlags["Enabled"]) = s.flags["Enabled"]
  <2>1. s.flags["Enabled"] \in BOOLEAN  BY <1>1 DEF DefaultFlags
  <2>2. Child(n, "Enabled") = Nodes(<<BoolElement("Enabled", s.flags["Enabled"])>>)
    <3>1. Child(n, SettingsOrder[13]) = Nodes(SettingsParts(d)[13])  BY DEF SettingsFound
    <3>2. QED  BY <3>1 DEF SettingsOrder, SettingsParts
  <2>3. FlagRead(n, "Enabled", s.flags["Enabled"])  BY <2>1, <2>2, FlagFound
  <2>4. QED  BY <2>3 DEF FlagRead
<1>9. /\ BoolReadable(n, "WakeToRun")
        /\ BoolOf(n, "WakeToRun", AbsentFlags["WakeToRun"]) = s.flags["WakeToRun"]
  <2>1. s.flags["WakeToRun"] \in BOOLEAN  BY <1>1 DEF DefaultFlags
  <2>2. Child(n, "WakeToRun") = Nodes(<<BoolElement("WakeToRun", s.flags["WakeToRun"])>>)
    <3>1. Child(n, SettingsOrder[12]) = Nodes(SettingsParts(d)[12])  BY DEF SettingsFound
    <3>2. QED  BY <3>1 DEF SettingsOrder, SettingsParts
  <2>3. FlagRead(n, "WakeToRun", s.flags["WakeToRun"])  BY <2>1, <2>2, FlagFound
  <2>4. QED  BY <2>3 DEF FlagRead
<1>10. /\ BoolReadable(n, "Hidden")
        /\ BoolOf(n, "Hidden", AbsentFlags["Hidden"]) = s.flags["Hidden"]
  <2>1. s.flags["Hidden"] \in BOOLEAN  BY <1>1 DEF DefaultFlags
  <2>2. Child(n, "Hidden") = Nodes(<<BoolElement("Hidden", s.flags["Hidden"])>>)
    <3>1. Child(n, SettingsOrder[14]) = Nodes(SettingsParts(d)[14])  BY DEF SettingsFound
    <3>2. QED  BY <3>1 DEF SettingsOrder, SettingsParts
  <2>3. FlagRead(n, "Hidden", s.flags["Hidden"])  BY <2>1, <2>2, FlagFound
  <2>4. QED  BY <2>3 DEF FlagRead
<1>11. /\ BoolReadable(n, "UseUnifiedSchedulingEngine")
        /\ BoolOf(n, "UseUnifiedSchedulingEngine", AbsentFlags["UseUnifiedSchedulingEngine"]) = s.flags["UseUnifiedSchedulingEngine"]
  <2>1. s.flags["UseUnifiedSchedulingEngine"] \in BOOLEAN  BY <1>1 DEF DefaultFlags
  <2>2. Child(n, SettingsOrder[18]) = Nodes(SettingsParts(d)[18])  BY DEF SettingsFound
  <2>3. CASE d.schema_version = "1.2"
    <3>1. SettingsOrder[18] = "UseUnifiedSchedulingEngine" /\ SettingsParts(d)[18] = <<>>
      BY <2>3 DEF SettingsOrder, SettingsParts
    <3>2. Child(n, "UseUnifiedSchedulingEngine") = <<>>  BY <2>2, <3>1, NoPart
    <3>3. /\ BoolReadable(n, "UseUnifiedSchedulingEngine")
          /\ BoolOf(n, "UseUnifiedSchedulingEngine", AbsentFlags["UseUnifiedSchedulingEngine"]) = AbsentFlags["UseUnifiedSchedulingEngine"]
      BY <3>2, Absent
    <3>4. AbsentFlags["UseUnifiedSchedulingEngine"] = FALSE  BY DEF AbsentFlags, DefaultFlags
    <3>5. Generation(d.schema_version) = 2  BY <2>3 DEF Generation
    <3>6. s.flags["UseUnifiedSchedulingEngine"] = FALSE  BY <2>1, <3>5 DEF ValidSchema
    <3>7. QED  BY <3>3, <3>4, <3>6
  <2>4. CASE d.schema_version # "1.2"
    <3>1. Child(n, "UseUnifiedSchedulingEngine") = Nodes(<<BoolElement("UseUnifiedSchedulingEngine", s.flags["UseUnifiedSchedulingEngine"])>>)
      BY <2>2, <2>4 DEF SettingsOrder, SettingsParts
    <3>2. FlagRead(n, "UseUnifiedSchedulingEngine", s.flags["UseUnifiedSchedulingEngine"])  BY <2>1, <3>1, FlagFound
    <3>3. QED  BY <3>2 DEF FlagRead
  <2>5. QED  BY <2>3, <2>4
<1>12. /\ BoolReadable(n, "DisallowStartOnRemoteAppSession")
        /\ BoolOf(n, "DisallowStartOnRemoteAppSession", AbsentFlags["DisallowStartOnRemoteAppSession"]) = s.flags["DisallowStartOnRemoteAppSession"]
  <2>1. s.flags.DisallowStartOnRemoteAppSession \in BOOLEAN  BY <1>1 DEF DefaultFlags
  <2>2. Child(n, "DisallowStartOnRemoteAppSession") = Nodes(Raised("DisallowStartOnRemoteAppSession", s.flags.DisallowStartOnRemoteAppSession))
    <3>1. Child(n, SettingsOrder[19]) = Nodes(SettingsParts(d)[19])  BY DEF SettingsFound
    <3>2. QED  BY <3>1 DEF SettingsOrder, SettingsParts
  <2>3. BoolReadable(n, "DisallowStartOnRemoteAppSession") /\ BoolOf(n, "DisallowStartOnRemoteAppSession", FALSE) = s.flags.DisallowStartOnRemoteAppSession
    BY <2>1, <2>2, RaisedPart
  <2>4. AbsentFlags["DisallowStartOnRemoteAppSession"] = FALSE  BY DEF AbsentFlags, DefaultFlags
  <2>5. QED  BY <2>3, <2>4
<1>13. /\ BoolReadable(n, "Volatile")
        /\ BoolOf(n, "Volatile", AbsentFlags["Volatile"]) = s.flags["Volatile"]
  <2>1. s.flags.Volatile \in BOOLEAN  BY <1>1 DEF DefaultFlags
  <2>2. Child(n, "Volatile") = Nodes(Raised("Volatile", s.flags.Volatile))
    <3>1. Child(n, SettingsOrder[21]) = Nodes(SettingsParts(d)[21])  BY DEF SettingsFound
    <3>2. QED  BY <3>1 DEF SettingsOrder, SettingsParts
  <2>3. BoolReadable(n, "Volatile") /\ BoolOf(n, "Volatile", FALSE) = s.flags.Volatile
    BY <2>1, <2>2, RaisedPart
  <2>4. AbsentFlags["Volatile"] = FALSE  BY DEF AbsentFlags, DefaultFlags
  <2>5. QED  BY <2>3, <2>4
<1>14. QED  BY <1>2, <1>3, <1>4, <1>5, <1>6, <1>7, <1>8, <1>9, <1>10, <1>11, <1>12, <1>13

LEMMA IdleKeptIn ==
  ASSUME NEW d, IsSettings(d.settings), NEW n, SettingsFound(n, d)
  PROVE  /\ BoolReadable(n, "RunOnlyIfIdle")
         /\ BoolOf(n, "RunOnlyIfIdle", FALSE) =>
              \A idle \in ToSet(Child(n, "IdleSettings")) : IdleReadable(idle)
         /\ IdleOf(n) = d.settings.idle
<1> DEFINE v == d.settings.idle
           c == Child(n, "IdleSettings")
<1>1. IsOption(v) /\ \A idle \in ToSet(v) : IsIdle(idle)  BY DEF IsSettings
<1>2. Child(n, "RunOnlyIfIdle") = Nodes(<<BoolElement("RunOnlyIfIdle", v # None)>>)
  <2>1. Child(n, SettingsOrder[9]) = Nodes(SettingsParts(d)[9])  BY DEF SettingsFound
  <2>2. QED  BY <2>1 DEF SettingsOrder, SettingsParts
<1>3. c = Nodes(Each(v, IdleElement))
  <2>1. Child(n, SettingsOrder[8]) = Nodes(SettingsParts(d)[8])  BY DEF SettingsFound
  <2>2. QED  BY <2>1 DEF SettingsOrder, SettingsParts
<1>4. BoolReadable(n, "RunOnlyIfIdle") /\ BoolOf(n, "RunOnlyIfIdle", FALSE) = (v # None)
  <2>1. (v # None) \in BOOLEAN  OBVIOUS
  <2>2. QED  BY <1>2, <2>1, BoolPart
<1>5. DOMAIN c = DOMAIN v /\ \A i \in DOMAIN v : IdleRead(c[i], v[i])
  BY <1>1, <1>3, IdlePart
<1> HIDE DEF v, c
<1>6. \A idle \in ToSet(c) : IdleReadable(idle)
  <2>1. \A i \in DOMAIN c : IdleReadable(c[i])  BY <1>5 DEF IdleRead
  <2>2. QED  BY <2>1 DEF ToSet
<1>7. IdleOf(n) = v
  <2>1. CASE v = None
    <3>1. ~BoolOf(n, "RunOnlyIfIdle", FALSE)  BY <1>4, <2>1
    <3>2. QED  BY <2>1, <3>1 DEF IdleOf
  <2>2. CASE v # None
    <3>1. v = <<v[1]>> /\ DOMAIN v = {1} /\ ToSet(v) = {v[1]}  BY <1>1, <2>2, Options
    <3> DEFINE idle == v[1]
               m == c[1]
    <3>2. IdleRead(m, idle) /\ IsIdle(idle)  BY <1>1, <1>5, <3>1
    <3>3. c # None  BY <1>5, <3>1 DEF None
    <3>4. OrElse(c, Nothing) = m  BY <3>3 DEF OrElse
    <3>5. BoolOf(n, "RunOnlyIfIdle", FALSE)  BY <1>4, <2>2
    <3> HIDE DEF idle, m
    <3>6. IdleOf(n) =
            Some([duration |-> OrElse(DurationOf(m, "Duration"), DefaultIdle.duration),
                  wait_timeout |-> OrElse(DurationOf(m, "WaitTimeout"),
                                          DefaultIdle.wait_timeout),
                  stop_on_idle_end |-> BoolOf(m, "StopOnIdleEnd",
                                              DefaultIdle.stop_on_idle_end),
                  restart_on_idle |-> BoolOf(m, "RestartOnIdle",
                                             DefaultIdle.restart_on_idle)])
      BY <3>4, <3>5 DEF IdleOf, c
    <3>7. IdleOf(n) = Some(idle)  BY <3>2, <3>6 DEF IdleRead, IsIdle
    <3>8. QED  BY <3>1, <3>7 DEF Some, idle
  <2>3. QED  BY <2>1, <2>2
<1>8. QED  BY <1>4, <1>6, <1>7 DEF v, c

LEMMA NetworkKeptIn ==
  ASSUME NEW d, IsSettings(d.settings), NEW n, SettingsFound(n, d)
  PROVE  /\ BoolReadable(n, "RunOnlyIfNetworkAvailable")
         /\ NetworkOf(n) = CanonicalSettings(d.settings).network
<1> DEFINE v == d.settings.network
           c == Child(n, "NetworkSettings")
<1>1. IsOption(v) /\ \A w \in ToSet(v) : IsNetwork(w)  BY DEF IsSettings
<1>2. Child(n, "RunOnlyIfNetworkAvailable")
        = Nodes(<<BoolElement("RunOnlyIfNetworkAvailable", v # None)>>)
  <2>1. Child(n, SettingsOrder[11]) = Nodes(SettingsParts(d)[11])  BY DEF SettingsFound
  <2>2. QED  BY <2>1 DEF SettingsOrder, SettingsParts
<1>3. c = Nodes(Each(v, NetworkElement))
  <2>1. Child(n, SettingsOrder[10]) = Nodes(SettingsParts(d)[10])  BY DEF SettingsFound
  <2>2. QED  BY <2>1 DEF SettingsOrder, SettingsParts
<1>4. /\ BoolReadable(n, "RunOnlyIfNetworkAvailable")
      /\ BoolOf(n, "RunOnlyIfNetworkAvailable", FALSE) = (v # None)
  <2>1. (v # None) \in BOOLEAN  OBVIOUS
  <2>2. QED  BY <1>2, <2>1, BoolPart
<1>5. DOMAIN c = DOMAIN v /\ \A i \in DOMAIN v : NetworkRead(c[i], v[i])
  BY <1>1, <1>3, NetworkPart
<1>6. c = None \/ DOMAIN c = {1}
  <2>1. c = <<>> \/ \E x : c = <<x>>  BY DEF Child, None, Some
  <2>2. QED  BY <2>1 DEF None
<1>7. CanonicalSettings(d.settings).network
        = [i \in DOMAIN v |-> [id |-> Texts(v[i].id), name |-> Texts(v[i].name)]]
  <2>1. CanonicalSettings(d.settings).network
          = Each(v, LAMBDA w : [id |-> Texts(w.id), name |-> Texts(w.name)])
    <3> DEFINE s == d.settings
    <3>1. s = [flags |-> s.flags, restart_on_failure |-> s.restart_on_failure,
               multiple_instances |-> s.multiple_instances, network |-> s.network,
               execution_time_limit |-> s.execution_time_limit,
               delete_expired_after |-> s.delete_expired_after, priority |-> s.priority,
               idle |-> s.idle, maintenance |-> s.maintenance]
      BY DEF IsSettings
    <3> DEFINE y == Each(v, LAMBDA w : [id |-> Texts(w.id), name |-> Texts(w.name)])
               l == CanonicalLimit(s.execution_time_limit)
    <3>2. CanonicalSettings(s) = [s EXCEPT !.execution_time_limit = l, !.network = y]
      BY DEF CanonicalSettings
    <3> HIDE DEF y, l, s
    <3>3. CanonicalSettings(s).network = y  BY <3>1, <3>2
    <3>4. QED  BY <3>3 DEF y, s
  <2>2. QED  BY <2>1 DEF Each
<1> HIDE DEF v, c
<1>8. CASE v = None
  <2>1. DOMAIN v = {}  BY <1>1, <1>8, Options
  <2>2. c = None  BY <1>5, <1>6, <2>1
  <2>3. NetworkOf(n) = None  BY <1>4, <1>8, <2>2 DEF NetworkOf, Has, c
  <2>4. CanonicalSettings(d.settings).network = <<>>  BY <1>7, <2>1
  <2>5. QED  BY <1>4, <2>3, <2>4 DEF None
<1>9. CASE v # None
  <2>1. DOMAIN v = {1}  BY <1>1, <1>9, Options
  <2> DEFINE w == v[1]
             m == c[1]
             read == [id |-> Texts(w.id), name |-> Texts(w.name)]
  <2>2. NetworkRead(m, w)  BY <1>5, <2>1
  <2>3. c # None  BY <1>5, <2>1 DEF None
  <2>4. OrElse(c, Nothing) = m  BY <2>3 DEF OrElse
  <2> HIDE DEF m
  <2>5. NetworkOf(n) = Some([id |-> ChildText(m, "Id"), name |-> ChildText(m, "Name")])
    <3>1. Has(n, "NetworkSettings")  BY <2>3 DEF Has, c
    <3>2. QED  BY <2>4, <3>1 DEF NetworkOf, c
  <2>6. NetworkOf(n) = <<read>>  BY <2>2, <2>5 DEF NetworkRead, Some
  <2>7. CanonicalSettings(d.settings).network = [i \in {1} |-> read]  BY <1>7, <2>1
  <2> HIDE DEF read
  <2>8. [i \in {1} |-> read] = <<read>>  OBVIOUS
  <2>9. QED  BY <1>4, <2>6, <2>7, <2>8
<1>10. QED  BY <1>8, <1>9

\* The rest of what is read of settings.
LEMMA ValuesKept ==
  ASSUME NEW d, IsSettings(d.settings), NEW n, SettingsFound(n, d)
  PROVE  /\ ToSet(ChildText(n, "MultipleInstancesPolicy")) \subseteq InstancePolicies
         /\ OrElse(ChildText(n, "MultipleInstancesPolicy"), "IgnoreNew")
              = d.settings.multiple_instances
         /\ DurationReadable(n, "ExecutionTimeLimit")
         /\ OrElse(LimitOf(n, "ExecutionTimeLimit"), DefaultLimit)
              = CanonicalLimit(d.settings.execution_time_limit)
         /\ DurationReadable(n, "DeleteExpiredTaskAfter")
         /\ DurationOf(n, "DeleteExpiredTaskAfter") = d.settings.delete_expired_after
         /\ NumberReadable(n, "Priority", U8)
         /\ OrElse(NumberOf(n, "Priority"), 7) = d.settings.priority
<1> DEFINE s == d.settings
<1>1. /\ s.multiple_instances \in InstancePolicies
      /\ IsLimit(s.execution_time_limit) /\ IsDelay(s.delete_expired_after)
      /\ IsNumber(s.priority) /\ s.priority <= U8
  BY DEF IsSettings
<1>2. /\ ToSet(ChildText(n, "MultipleInstancesPolicy")) \subseteq InstancePolicies
      /\ OrElse(ChildText(n, "MultipleInstancesPolicy"), "IgnoreNew") = s.multiple_instances
  <2> DEFINE t == s.multiple_instances
             part == <<Element("MultipleInstancesPolicy", t)>>
  <2>1. t \in Words  BY <1>1 DEF Words
  <2>2. Child(n, "MultipleInstancesPolicy") = Nodes(part)
    <3>1. Child(n, SettingsOrder[5]) = Nodes(SettingsParts(d)[5])  BY DEF SettingsFound
    <3>2. QED  BY <3>1 DEF SettingsOrder, SettingsParts
  <2>3. part # <<>>  OBVIOUS
  <2>4. part = <<Element("MultipleInstancesPolicy", t)>>  OBVIOUS
  <2> HIDE DEF t, part
  <2>5. WordOf(part, "MultipleInstancesPolicy", t, InstancePolicies)
    BY <1>1, <2>1, <2>4, WordOrDefault DEF t
  <2>6. QED  BY <2>2, <2>3, <2>5 DEF WordOf, t
<1>3. /\ DurationReadable(n, "ExecutionTimeLimit")
      /\ OrElse(LimitOf(n, "ExecutionTimeLimit"), DefaultLimit)
           = CanonicalLimit(s.execution_time_limit)
  <2> DEFINE l == s.execution_time_limit
             part == <<Element("ExecutionTimeLimit", LimitText(l))>>
  <2>1. Child(n, "ExecutionTimeLimit") = Nodes(part)
    <3>1. Child(n, SettingsOrder[16]) = Nodes(SettingsParts(d)[16])  BY DEF SettingsFound
    <3>2. QED  BY <3>1 DEF SettingsOrder, SettingsParts
  <2>2. IsLimit(l) /\ part = <<Element("ExecutionTimeLimit", LimitText(l))>>  BY <1>1
  <2> HIDE DEF l, part
  <2>3. \A node : Child(node, "ExecutionTimeLimit") = Nodes(part) =>
          /\ DurationReadable(node, "ExecutionTimeLimit")
          /\ \A default : OrElse(LimitOf(node, "ExecutionTimeLimit"), default) = CanonicalLimit(l)
    BY <2>2, OneLimit
  <2>4. QED  BY <2>1, <2>3 DEF l
<1>4. /\ DurationReadable(n, "DeleteExpiredTaskAfter")
      /\ DurationOf(n, "DeleteExpiredTaskAfter") = s.delete_expired_after
  <2>1. Child(n, "DeleteExpiredTaskAfter")
          = Nodes(OptionalElement("DeleteExpiredTaskAfter", s.delete_expired_after))
    <3>1. Child(n, SettingsOrder[15]) = Nodes(SettingsParts(d)[15])  BY DEF SettingsFound
    <3>2. QED  BY <3>1 DEF SettingsOrder, SettingsParts
  <2>2. QED  BY <1>1, <2>1, DurationPart
<1>5. /\ NumberReadable(n, "Priority", U8)
      /\ OrElse(NumberOf(n, "Priority"), 7) = s.priority
  <2>1. Child(n, "Priority") = Nodes(<<Element("Priority", ToString(s.priority))>>)
    <3>1. Child(n, SettingsOrder[17]) = Nodes(SettingsParts(d)[17])  BY DEF SettingsFound
    <3>2. QED  BY <3>1 DEF SettingsOrder, SettingsParts
  <2>2. NumberReadable(n, "Priority", U8) /\ NumberOf(n, "Priority") = <<s.priority>>
    BY <1>1, <2>1, OneNumber
  <2>3. OrElse(<<s.priority>>, 7) = s.priority  BY DEF OrElse, None
  <2>4. QED  BY <2>2, <2>3
<1>6. QED  BY <1>2, <1>3, <1>4, <1>5

LEMMA SettingsRead ==
  ASSUME NEW d, IsSettings(d.settings), ValidSchema(d), NEW n, SettingsFound(n, d)
  PROVE  SettingsReadable(n) /\ SettingsOf(n) = CanonicalSettings(d.settings)
<1> DEFINE s == d.settings
           restart == Each(Child(n, "RestartOnFailure"),
                           LAMBDA r : [interval |-> DurationOf(r, "Interval")[1],
                                       count |-> NumberOf(r, "Count")[1]])
           upkeep == Each(Child(n, "MaintenanceSettings"),
                          LAMBDA m : [period |-> DurationOf(m, "Period")[1],
                                      deadline |-> DurationOf(m, "Deadline")[1],
                                      exclusive |-> BoolOf(m, "Exclusive", FALSE)])
           raised == [name \in DOMAIN AbsentFlags |-> BoolOf(n, name, AbsentFlags[name])]
<1>1. \A name \in DOMAIN AbsentFlags :
        BoolReadable(n, name) /\ BoolOf(n, name, AbsentFlags[name]) = s.flags[name]
  BY FlagsKept
<1>2. /\ BoolReadable(n, "RunOnlyIfIdle")
      /\ BoolOf(n, "RunOnlyIfIdle", FALSE) =>
           \A idle \in ToSet(Child(n, "IdleSettings")) : IdleReadable(idle)
      /\ IdleOf(n) = s.idle
  BY IdleKeptIn
<1>3. BoolReadable(n, "RunOnlyIfNetworkAvailable") /\ NetworkOf(n) = CanonicalSettings(s).network
  BY NetworkKeptIn
<1>4. /\ \A r \in ToSet(Child(n, "RestartOnFailure")) : RestartReadable(r)
      /\ restart = s.restart_on_failure
  <2>1. Child(n, "RestartOnFailure") = Nodes(Each(s.restart_on_failure, RestartElement))
    <3>1. Child(n, SettingsOrder[4]) = Nodes(SettingsParts(d)[4])  BY DEF SettingsFound
    <3>2. QED  BY <3>1 DEF SettingsOrder, SettingsParts
  <2>2. IsOption(s.restart_on_failure) /\ \A r \in ToSet(s.restart_on_failure) : IsRestart(r)
    BY DEF IsSettings
  <2>3. QED  BY <2>1, <2>2, RestartPart
<1>5. /\ \A m \in ToSet(Child(n, "MaintenanceSettings")) : MaintenanceReadable(m)
      /\ upkeep = s.maintenance
  <2>1. Child(n, "MaintenanceSettings") = Nodes(Each(s.maintenance, MaintenanceElement))
    <3>1. Child(n, SettingsOrder[20]) = Nodes(SettingsParts(d)[20])  BY DEF SettingsFound
    <3>2. QED  BY <3>1 DEF SettingsOrder, SettingsParts
  <2>2. IsOption(s.maintenance) /\ \A m \in ToSet(s.maintenance) : IsMaintenance(m)
    BY DEF IsSettings
  <2>3. QED  BY <2>1, <2>2, MaintenancePart
<1>6. /\ ToSet(ChildText(n, "MultipleInstancesPolicy")) \subseteq InstancePolicies
      /\ OrElse(ChildText(n, "MultipleInstancesPolicy"), "IgnoreNew") = s.multiple_instances
      /\ DurationReadable(n, "ExecutionTimeLimit")
      /\ OrElse(LimitOf(n, "ExecutionTimeLimit"), DefaultLimit)
           = CanonicalLimit(s.execution_time_limit)
      /\ DurationReadable(n, "DeleteExpiredTaskAfter")
      /\ DurationOf(n, "DeleteExpiredTaskAfter") = s.delete_expired_after
      /\ NumberReadable(n, "Priority", U8)
      /\ OrElse(NumberOf(n, "Priority"), 7) = s.priority
  BY ValuesKept
<1>7. SettingsReadable(n)
  BY <1>1, <1>2, <1>3, <1>4, <1>5, <1>6 DEF SettingsReadable
<1>8. raised = s.flags
  <2>1. s.flags \in [DOMAIN DefaultFlags -> BOOLEAN]  BY DEF IsSettings
  <2>2. s.flags = [name \in DOMAIN AbsentFlags |-> s.flags[name]]  BY <2>1, SettingsNames
  <2>3. QED  BY <1>1, <2>2
<1>9. SettingsOf(n) = CanonicalSettings(s)
  <2> DEFINE l == CanonicalLimit(s.execution_time_limit)
             w == CanonicalSettings(s).network
             y == Each(s.network, LAMBDA x : [id |-> Texts(x.id), name |-> Texts(x.name)])
             policy == OrElse(ChildText(n, "MultipleInstancesPolicy"), "IgnoreNew")
             rank == OrElse(NumberOf(n, "Priority"), 7)
             bound == OrElse(LimitOf(n, "ExecutionTimeLimit"), DefaultLimit)
             read == [flags |-> s.flags, restart_on_failure |-> s.restart_on_failure,
                      multiple_instances |-> s.multiple_instances, network |-> y,
                      execution_time_limit |-> l,
                      delete_expired_after |-> s.delete_expired_after,
                      priority |-> s.priority, idle |-> s.idle,
                      maintenance |-> s.maintenance]
  <2>1. s = [flags |-> s.flags, restart_on_failure |-> s.restart_on_failure,
             multiple_instances |-> s.multiple_instances, network |-> s.network,
             execution_time_limit |-> s.execution_time_limit,
             delete_expired_after |-> s.delete_expired_after, priority |-> s.priority,
             idle |-> s.idle, maintenance |-> s.maintenance]
    BY DEF IsSettings
  <2>2. CanonicalSettings(s) = [s EXCEPT !.execution_time_limit = l, !.network = y]
    BY DEF CanonicalSettings
  <2>3. CanonicalSettings(s) = read
    <3> HIDE DEF l, y, s
    <3>1. QED  BY <2>1, <2>2
  <2>4. w = y
    <3> HIDE DEF l, y, s
    <3>1. QED  BY <2>3
  <2>5. SettingsOf(n) =
          [flags |-> raised, restart_on_failure |-> restart, multiple_instances |-> policy,
           network |-> NetworkOf(n), execution_time_limit |-> bound,
           delete_expired_after |-> DurationOf(n, "DeleteExpiredTaskAfter"),
           priority |-> rank, idle |-> IdleOf(n), maintenance |-> upkeep]
    BY DEF SettingsOf
  <2>6. policy = s.multiple_instances /\ rank = s.priority /\ bound = l  BY <1>6
  <2> HIDE DEF raised, restart, upkeep, policy, rank, bound, l, y, w
  <2>7. NetworkOf(n) = y  BY <1>3, <2>4 DEF w
  <2>8. SettingsOf(n) = read  BY <1>2, <1>4, <1>5, <1>6, <1>8, <2>5, <2>6, <2>7
  <2>9. QED  BY <2>3, <2>8
<1>10. QED  BY <1>7, <1>9

\* What is written of settings stands under its names.
LEMMA SettingsStand ==
  ASSUME NEW d, NEW S, Hereditary(S), IsDefinition(d, S), ValidSchema(d),
         NEW e, e = WriteSettings(d), NEW n, n = NodeOf(e)
  PROVE  /\ IsElement(e) /\ n.name = "Settings"
         /\ SettingsFound(n, d)
<1> DEFINE names == SettingsOrder
           N == SettingNames
           P == SettingsParts(d)
           known == FlattenSeq(P)
           list == MergeExtensions("Task/Settings", known, d.extensions)
<1>1. /\ IsSettings(d.settings) /\ IsList(d.extensions)
      /\ \A x \in ToSet(d.extensions) : IsExtension(x, S)
  BY DEF IsDefinition
<1>2. e = Plain("Settings", list)
  <2>1. SettingsElements(d) = known  BY DEF SettingsElements, SettingsParts
  <2>2. QED  BY <2>1 DEF WriteSettings
<1>3. /\ Menu(known, N) /\ \A i \in 1..21 : Offers(known, names[i], P[i])
  <2>1. IsList(P) /\ DOMAIN P = 1..21 /\ \A i \in 1..21 : PartOf(P[i], names[i])
    BY <1>1, SettingsParted
  <2>2. /\ DOMAIN names = 1..21 /\ ToSet(names) = N
        /\ \A i, j \in DOMAIN names : names[i] = names[j] => i = j
    BY SettingsNames
  <2> HIDE DEF names, N, P
  <2>3. /\ Menu(FlattenSeq(P), ToSet(names))
        /\ \A i \in DOMAIN P : Offers(FlattenSeq(P), names[i], P[i])
    <3>1. /\ DOMAIN P = DOMAIN names /\ \A i \in DOMAIN P : PartOf(P[i], names[i])
          /\ \A i, j \in DOMAIN P : names[i] = names[j] => i = j
      BY <2>1, <2>2
    <3>2. QED  BY <2>1, <3>1, NamedParts
  <2>4. QED  BY <2>1, <2>2, <2>3
<1>4. \A x \in ToSet(d.extensions) : x.parent = "Task/Settings" =>
        x.ordinal \in Nat /\ \E node \in S : x.xml = node.xml /\ node.name \notin N
  BY <1>1 DEF IsExtension, XmlExtension
<1> HIDE DEF known, N
<1>5. /\ Elements(list)
      /\ \A m, part : Offers(known, m, part) /\ m \in N => Offers(list, m, part)
  <2> DEFINE parent == "Task/Settings"
             extensions == d.extensions
  <2>1. list = MergeExtensions(parent, known, extensions)  OBVIOUS
  <2>2. \A x \in ToSet(extensions) : x.parent = parent =>
          x.ordinal \in Nat /\ \E node \in S : x.xml = node.xml /\ node.name \notin N
    BY <1>4
  <2>3. IsList(extensions)  BY <1>1
  <2> HIDE DEF parent, extensions, list
  <2>4. QED  BY <1>3, <2>1, <2>2, <2>3, MergedElements
<1> HIDE DEF list
<1>6. IsElement(e) /\ n.name = "Settings" /\ n.kids = Nodes(list)
  BY <1>2, <1>5, PlainReads
<1>7. SettingsFound(n, d)
  <2>1. \A i \in 1..21 : names[i] \in N
    BY SettingsNames DEF ToSet, N
  <2>2. \A i \in 1..21 : Offers(list, names[i], P[i])  BY <1>3, <1>5, <2>1
  <2> HIDE DEF names, P
  <2>3. \A i \in 1..21 : Child(n, names[i]) = Nodes(P[i])  BY <1>6, <2>2, Lookup
  <2>4. QED  BY <2>3 DEF SettingsFound, names, P
<1>8. QED  BY <1>6, <1>7

\* Settings are read back as they were written.
LEMMA SettingsKept ==
  ASSUME NEW d, NEW S, Hereditary(S), IsDefinition(d, S), ValidSchema(d),
         NEW e, e = WriteSettings(d), NEW n, n = NodeOf(e)
  PROVE  /\ IsElement(e) /\ n.name = "Settings"
         /\ SettingsReadable(n) /\ SettingsOf(n) = CanonicalSettings(d.settings)
BY SettingsStand, SettingsRead DEF IsDefinition

-----------------------------------------------------------------------------
(***************************************************************************)
(* Definitions.                                                              *)
(***************************************************************************)
\* One element is a part.
LEMMA OneNode ==
  ASSUME NEW e, IsElement(e), NEW name, NodeOf(e).name = name
  PROVE  PartOf(<<e>>, name) /\ Nodes(<<e>>) = <<NodeOf(e)>>
<1> DEFINE in == <<e>>
           m == NodeOf(e)
<1>1. IsList(in) /\ ToSet(in) = {e} /\ Len(in) = 1 /\ DOMAIN in = {1} /\ in[1] = e
  BY DEF IsList, ToSet
<1>2. Nodes(in) = <<m>>
  <2>1. \A i \in DOMAIN in : NodeOf(in[i]) = m  BY <1>1
  <2>2. Nodes(in) = [i \in {1} |-> m]
    <3> HIDE DEF in, m
    <3>1. QED  BY <1>1, <2>1 DEF Nodes
  <2> HIDE DEF m, in
  <2>3. QED  BY <2>2
<1> HIDE DEF in
<1>3. PartOf(in, name)  BY <1>1 DEF PartOf, Elements
<1>4. QED  BY <1>2, <1>3 DEF in

\* The children of a container, which may be left out when there are none.
KidsForm(part, outer, attrs, list) ==
  \/ part = <<Container(outer, attrs, "", list)>>
  \/ part = <<>> /\ list = <<>>

LEMMA KidsFound ==
  ASSUME NEW m, NEW list, Elements(list), m.kids = Nodes(list), NEW node, NEW outer,
         Child(node, outer) = <<m>>
  PROVE  KidsOf(node, outer) = Nodes(list)
<1> DEFINE s == <<m>>
           kids == Nodes(list)
           P == <<kids>>
<1>1. DOMAIN s = {1} /\ s[1] = m  OBVIOUS
<1>2. Each(s, LAMBDA c : c.kids) = [i \in DOMAIN s |-> s[i].kids]  BY DEF Each
<1>3. Child(node, outer) = s  OBVIOUS
<1>4. m.kids = kids  OBVIOUS
<1>5. [i \in {1} |-> kids] = P  OBVIOUS
<1>6. IsList(kids)
  <2>1. IsList(list)  BY DEF Elements
  <2>2. kids = [i \in DOMAIN list |-> kids[i]]  BY DEF Nodes
  <2> HIDE DEF kids
  <2>3. QED  BY <2>1, <2>2, Mapped
<1>7. FlattenSeq(P) = kids
  <2> HIDE DEF kids
  <2>1. QED  BY <1>6, FlatOne
<1> HIDE DEF s, kids, P
<1>8. [i \in DOMAIN s |-> s[i].kids] = [i \in {1} |-> kids]  BY <1>1, <1>4
<1>9. Each(s, LAMBDA c : c.kids) = P  BY <1>2, <1>5, <1>8
<1>10. KidsOf(node, outer) = FlattenSeq(P)  BY <1>3, <1>9 DEF KidsOf
<1>11. QED  BY <1>7, <1>10 DEF kids

LEMMA NoKids ==
  ASSUME NEW node, NEW outer, Child(node, outer) = <<>>
  PROVE  KidsOf(node, outer) = <<>>
<1> DEFINE nil == <<>>
<1>1. Each(nil, LAMBDA c : c.kids) = [i \in DOMAIN nil |-> nil[i].kids]  BY DEF Each
<1>2. [i \in DOMAIN nil |-> nil[i].kids] = nil  OBVIOUS
<1>3. IsList(nil)  BY DEF IsList, ToSet
<1>4. \A i \in DOMAIN nil : nil[i] = <<>>  OBVIOUS
<1>5. Child(node, outer) = nil  OBVIOUS
<1>6. FlattenSeq(nil) = nil
  <2> HIDE DEF nil
  <2>1. FlattenSeq(nil) = <<>>  BY <1>3, <1>4, FlatNothing
  <2>2. QED  BY <2>1 DEF nil
<1> HIDE DEF nil
<1>7. KidsOf(node, outer) = nil  BY <1>1, <1>2, <1>5, <1>6 DEF KidsOf
<1>8. QED  BY <1>7 DEF nil

LEMMA KidsPart ==
  ASSUME NEW outer, NEW attrs, NEW list, Elements(list), NEW part,
         KidsForm(part, outer, attrs, list)
  PROVE  /\ PartOf(part, outer)
         /\ \A node : Child(node, outer) = Nodes(part) => KidsOf(node, outer) = Nodes(list)
<1> DEFINE blank == ""
           e == Container(outer, attrs, blank, list)
           m == NodeOf(e)
<1>1. CASE part = <<Container(outer, attrs, "", list)>>
  <2>0. part = <<e>>  BY <1>1
  <2> HIDE DEF blank
  <2>1. IsElement(e) /\ m.name = outer /\ m.kids = Nodes(list)  BY PlainElement
  <2> HIDE DEF e
  <2>2. PartOf(<<e>>, outer) /\ Nodes(<<e>>) = <<m>>  BY <2>1, OneNode
  <2> HIDE DEF m
  <2>3. QED  BY <2>0, <2>1, <2>2, KidsFound
<1>2. CASE part = <<>> /\ list = <<>>
  <2> DEFINE nil == <<>>
  <2>1. PartOf(nil, outer) /\ Nodes(nil) = nil  BY NoPart
  <2>2. \A node : Child(node, outer) = nil => KidsOf(node, outer) = nil  BY NoKids
  <2>3. part = nil /\ list = nil  BY <1>2
  <2> HIDE DEF nil
  <2>4. QED  BY <2>1, <2>2, <2>3
<1>3. QED  BY <1>1, <1>2 DEF KidsForm

\* The triggers of a definition.
TriggerList(triggers) == [i \in DOMAIN triggers |-> WriteTrigger(triggers[i])]

LEMMA TriggersKept ==
  ASSUME NEW triggers, IsList(triggers), \A i \in DOMAIN triggers : TriggerKept(triggers[i]),
         NEW part, part = ListElement("Triggers", TriggerList(triggers)),
         Len(triggers) <= MaxTriggers
  PROVE  /\ PartOf(part, "Triggers")
         /\ \A node : Child(node, "Triggers") = Nodes(part) =>
              /\ TriggersReadable(node)
              /\ Each(KidsOf(node, "Triggers"), TriggerOf) = Each(triggers, CanonicalTrigger)
<1> DEFINE list == TriggerList(triggers)
           nil == <<>>
<1>1. list = [i \in DOMAIN triggers |-> list[i]] /\ \A i \in DOMAIN triggers :
        list[i] = WriteTrigger(triggers[i])
  BY DEF TriggerList
<1>2. KidsForm(part, "Triggers", nil, list)
  <2> HIDE DEF list
  <2>1. part = IF list = <<>> THEN <<>> ELSE <<Container("Triggers", <<>>, "", list)>>
    BY DEF list, ListElement, Plain
  <2>2. QED  BY <2>1 DEF KidsForm
<1> HIDE DEF list, nil
<1>3. /\ IsList(list) /\ Len(list) = Len(triggers) /\ DOMAIN list = DOMAIN triggers
      /\ \A x : x \in ToSet(list) <=> \E i \in DOMAIN triggers : x = list[i]
  BY <1>1, Mapped
<1>4. \A i \in DOMAIN triggers :
        /\ IsElement(list[i]) /\ TriggerReadable(NodeOf(list[i]))
        /\ TriggerOf(NodeOf(list[i])) = CanonicalTrigger(triggers[i])
  BY <1>1 DEF TriggerKept
<1>5. Elements(list)  BY <1>3, <1>4 DEF Elements
<1>6. /\ PartOf(part, "Triggers")
      /\ \A node : Child(node, "Triggers") = Nodes(part) =>
           KidsOf(node, "Triggers") = Nodes(list)
  BY <1>2, <1>5, KidsPart
<1> DEFINE kids == Nodes(list)
<1>7. /\ DOMAIN kids = DOMAIN triggers /\ \A i \in DOMAIN triggers : kids[i] = NodeOf(list[i])
      /\ IsList(kids) /\ Len(kids) = Len(triggers)
  <2>1. kids = [i \in DOMAIN list |-> kids[i]] /\ \A i \in DOMAIN list : kids[i] = NodeOf(list[i])
    BY DEF Nodes
  <2> HIDE DEF kids
  <2>2. IsList(kids) /\ Len(kids) = Len(list) /\ DOMAIN kids = DOMAIN list
    BY <1>3, <2>1, Mapped
  <2>3. QED  BY <1>3, <2>1, <2>2
<1> HIDE DEF kids
<1>8. ASSUME NEW node, KidsOf(node, "Triggers") = kids
      PROVE  /\ TriggersReadable(node)
             /\ Each(KidsOf(node, "Triggers"), TriggerOf) = Each(triggers, CanonicalTrigger)
  <2>1. \A t \in ToSet(kids) : TriggerReadable(t)  BY <1>4, <1>7 DEF ToSet
  <2>2. TriggersReadable(node)  BY <1>7, <1>8, <2>1 DEF TriggersReadable
  <2>3. Each(kids, TriggerOf) = [i \in DOMAIN kids |-> TriggerOf(kids[i])]  BY DEF Each
  <2>4. Each(triggers, CanonicalTrigger)
          = [i \in DOMAIN triggers |-> CanonicalTrigger(triggers[i])]
    BY DEF Each
  <2>5. \A i \in DOMAIN triggers : TriggerOf(kids[i]) = CanonicalTrigger(triggers[i])
    BY <1>4, <1>7
  <2>6. [i \in DOMAIN kids |-> TriggerOf(kids[i])]
          = [i \in DOMAIN triggers |-> CanonicalTrigger(triggers[i])]
    BY <1>7, <2>5, Zenon
  <2>7. QED  BY <1>8, <2>2, <2>3, <2>4, <2>6
<1>9. QED  BY <1>6, <1>8 DEF kids

\* The actions of a definition.
ActionList(actions) == [i \in DOMAIN actions |-> WriteAction(actions[i])]

LEMMA ActionsKept ==
  ASSUME NEW d, IsList(d.actions), \A i \in DOMAIN d.actions : ActionKept(d.actions[i]),
         NEW part, part = <<WriteActions(d)>>, Len(d.actions) <= MaxActions
  PROVE  /\ PartOf(part, "Actions")
         /\ \A node : Child(node, "Actions") = Nodes(part) =>
              /\ ActionsReadable(node)
              /\ Each(KidsOf(node, "Actions"), ActionOf) = Each(d.actions, CanonicalAction)
<1> DEFINE actions == d.actions
           list == ActionList(actions)
           attrs == Attribute("Context", d.principal.id)
<1>1. list = [i \in DOMAIN actions |-> list[i]] /\ \A i \in DOMAIN actions :
        list[i] = WriteAction(actions[i])
  BY DEF ActionList
<1>2. KidsForm(part, "Actions", attrs, list)
  <2>1. Each(d.actions, WriteAction) = list  BY DEF Each, ActionList
  <2>2. QED  BY <2>1 DEF WriteActions, KidsForm
<1>3. IsList(actions) /\ (\A i \in DOMAIN actions : ActionKept(actions[i])) /\ Len(actions) <= MaxActions
  OBVIOUS
<1> HIDE DEF list, attrs, actions
<1>4. /\ IsList(list) /\ Len(list) = Len(actions) /\ DOMAIN list = DOMAIN actions
      /\ \A x : x \in ToSet(list) <=> \E i \in DOMAIN actions : x = list[i]
  BY <1>1, <1>3, Mapped
<1>5. \A i \in DOMAIN actions :
        /\ IsElement(list[i]) /\ ActionReadable(NodeOf(list[i]))
        /\ ActionOf(NodeOf(list[i])) = CanonicalAction(actions[i])
  BY <1>1, <1>3 DEF ActionKept
<1>6. Elements(list)  BY <1>4, <1>5 DEF Elements
<1>7. /\ PartOf(part, "Actions")
      /\ \A node : Child(node, "Actions") = Nodes(part) =>
           KidsOf(node, "Actions") = Nodes(list)
  BY <1>2, <1>6, KidsPart
<1> DEFINE kids == Nodes(list)
<1>8. /\ DOMAIN kids = DOMAIN actions /\ \A i \in DOMAIN actions : kids[i] = NodeOf(list[i])
      /\ IsList(kids) /\ Len(kids) = Len(actions)
  <2>1. kids = [i \in DOMAIN list |-> kids[i]] /\ \A i \in DOMAIN list : kids[i] = NodeOf(list[i])
    BY DEF Nodes
  <2> HIDE DEF kids
  <2>2. IsList(kids) /\ Len(kids) = Len(list) /\ DOMAIN kids = DOMAIN list
    BY <1>4, <2>1, Mapped
  <2>3. QED  BY <1>4, <2>1, <2>2
<1> HIDE DEF kids
<1>9. ASSUME NEW node, KidsOf(node, "Actions") = kids
      PROVE  /\ ActionsReadable(node)
             /\ Each(KidsOf(node, "Actions"), ActionOf) = Each(actions, CanonicalAction)
  <2>1. \A t \in ToSet(kids) : ActionReadable(t)  BY <1>5, <1>8 DEF ToSet
  <2>2. ActionsReadable(node)  BY <1>3, <1>8, <1>9, <2>1 DEF ActionsReadable
  <2>3. Each(kids, ActionOf) = [i \in DOMAIN kids |-> ActionOf(kids[i])]  BY DEF Each
  <2>4. Each(actions, CanonicalAction)
          = [i \in DOMAIN actions |-> CanonicalAction(actions[i])]
    BY DEF Each
  <2>5. \A i \in DOMAIN actions : ActionOf(kids[i]) = CanonicalAction(actions[i])
    BY <1>5, <1>8
  <2>6. [i \in DOMAIN kids |-> ActionOf(kids[i])]
          = [i \in DOMAIN actions |-> CanonicalAction(actions[i])]
    BY <1>8, <2>5, Zenon
  <2>7. QED  BY <1>9, <2>2, <2>3, <2>4, <2>6
<1>10. QED  BY <1>7, <1>9 DEF kids, actions

\* The registration is left out when there is nothing to say.
LEMMA RegistrationPart ==
  ASSUME NEW d, NEW S, Hereditary(S), IsDefinition(d, S), NEW part,
         part = IF RegistrationNeeded(d) THEN <<WriteRegistration(d)>> ELSE <<>>
  PROVE  /\ PartOf(part, "RegistrationInfo")
         /\ \A node : Child(node, "RegistrationInfo") = Nodes(part) =>
              /\ \A r \in ToSet(Child(node, "RegistrationInfo")) : RegistrationReadable(r)
              /\ OrElse(Each(Child(node, "RegistrationInfo"), RegistrationOf),
                        DefaultRegistration)
                   = [name \in DOMAIN d.registration |-> Texts(d.registration[name])]
<1> DEFINE e == WriteRegistration(d)
           n == NodeOf(e)
           r == [name \in DOMAIN d.registration |-> Texts(d.registration[name])]
<1>1. /\ IsElement(e) /\ n.name = "RegistrationInfo" /\ RegistrationReadable(n)
      /\ RegistrationOf(n) = r
  BY RegistrationKept
<1>2. PartOf(<<e>>, "RegistrationInfo") /\ Nodes(<<e>>) = <<n>>
  <2> HIDE DEF e
  <2>1. QED  BY <1>1, OneNode
<1> HIDE DEF e, n
<1>3. CASE RegistrationNeeded(d)
  <2>1. part = <<e>>  BY <1>3 DEF e
  <2> DEFINE s == <<n>>
  <2>2. Each(s, RegistrationOf) = <<r>>
    <3>1. Each(s, RegistrationOf) = [i \in DOMAIN s |-> RegistrationOf(s[i])]  BY DEF Each
    <3>2. DOMAIN s = {1} /\ s[1] = n  OBVIOUS
    <3> HIDE DEF s, r
    <3>3. [i \in DOMAIN s |-> RegistrationOf(s[i])] = [i \in {1} |-> r]  BY <1>1, <3>2
    <3>4. QED  BY <3>1, <3>3
  <2>3. \A x \in ToSet(s) : RegistrationReadable(x)  BY <1>1 DEF ToSet
  <2> HIDE DEF s, r
  <2>4. \A default : OrElse(<<r>>, default) = r  BY DEF OrElse, None
  <2>5. ASSUME NEW node, Child(node, "RegistrationInfo") = Nodes(part)
        PROVE  /\ \A x \in ToSet(Child(node, "RegistrationInfo")) : RegistrationReadable(x)
               /\ OrElse(Each(Child(node, "RegistrationInfo"), RegistrationOf),
                         DefaultRegistration) = r
    <3>1. Child(node, "RegistrationInfo") = s  BY <1>2, <2>1, <2>5 DEF s
    <3>2. QED  BY <2>2, <2>3, <2>4, <3>1
  <2>6. QED  BY <1>2, <2>1, <2>5 DEF r
<1>4. CASE ~RegistrationNeeded(d)
  <2>1. part = <<>>  BY <1>4
  <2>2. PartOf(<<>>, "RegistrationInfo") /\ Nodes(<<>>) = <<>>  BY NoPart
  <2>3. r = DefaultRegistration
    <3>1. d.registration = DefaultRegistration  BY <1>4 DEF RegistrationNeeded
    <3>2. Texts(None) = None  BY DEF Texts, Each, None
    <3>3. QED  BY <3>1, <3>2 DEF DefaultRegistration
  <2> HIDE DEF r
  <2>4. Each(<<>>, RegistrationOf) = <<>>  BY DEF Each
  <2>5. OrElse(<<>>, DefaultRegistration) = DefaultRegistration  BY DEF OrElse, None
  <2>6. ASSUME NEW node, Child(node, "RegistrationInfo") = Nodes(part)
        PROVE  /\ \A x \in ToSet(Child(node, "RegistrationInfo")) : RegistrationReadable(x)
               /\ OrElse(Each(Child(node, "RegistrationInfo"), RegistrationOf),
                         DefaultRegistration) = r
    <3>1. Child(node, "RegistrationInfo") = <<>>  BY <2>1, <2>2, <2>6
    <3>2. QED  BY <2>3, <2>4, <2>5, <3>1 DEF ToSet
  <2>7. QED  BY <2>1, <2>2, <2>6 DEF r
<1>5. QED  BY <1>3, <1>4

\* What is read under the names of a definition.
RegistrationRead(n, d) ==
  /\ \A r \in ToSet(Child(n, "RegistrationInfo")) : RegistrationReadable(r)
  /\ OrElse(Each(Child(n, "RegistrationInfo"), RegistrationOf), DefaultRegistration)
       = [name \in DOMAIN d.registration |-> Texts(d.registration[name])]

TriggersRead(n, d) ==
  /\ TriggersReadable(n)
  /\ Each(KidsOf(n, "Triggers"), TriggerOf) = Each(d.triggers, CanonicalTrigger)

PrincipalsRead(n, d) ==
  \E m : /\ PrincipalNode(n) = <<m>> /\ PrincipalReadable(m)
         /\ PrincipalOf(m) = CanonicalPrincipal(d.principal)

SettingsIn(n, d) ==
  \E m : /\ Child(n, "Settings") = <<m>> /\ SettingsReadable(m)
         /\ SettingsOf(m) = CanonicalSettings(d.settings)

ActionsRead(n, d) ==
  /\ ActionsReadable(n)
  /\ Each(KidsOf(n, "Actions"), ActionOf) = Each(d.actions, CanonicalAction)

\* The parts of a definition.
RegistrationOut(d) == IF RegistrationNeeded(d) THEN <<WriteRegistration(d)>> ELSE <<>>
TriggersOut(d) == ListElement("Triggers", TriggerList(d.triggers))
PrincipalOut(d) == <<WritePrincipal(d.principal)>>
SettingsOut(d) == <<WriteSettings(d)>>
DataOut(d) == OptionalElement("Data", d.data)
ActionsOut(d) == <<WriteActions(d)>>

LEMMA RegistrationParted ==
  ASSUME NEW d, NEW S, Hereditary(S), IsDefinition(d, S)
  PROVE  /\ PartOf(RegistrationOut(d), "RegistrationInfo")
         /\ \A n : Child(n, "RegistrationInfo") = Nodes(RegistrationOut(d)) =>
              RegistrationRead(n, d)
BY RegistrationPart DEF RegistrationOut, RegistrationRead

LEMMA TriggersParted ==
  ASSUME NEW d, NEW S, Hereditary(S), IsDefinition(d, S), Valid(d)
  PROVE  /\ PartOf(TriggersOut(d), "Triggers")
         /\ \A n : Child(n, "Triggers") = Nodes(TriggersOut(d)) => TriggersRead(n, d)
<1>1. /\ IsList(d.triggers) /\ \A t \in ToSet(d.triggers) : IsTrigger(t, S)
      /\ Len(d.triggers) <= MaxTriggers
  BY DEF IsDefinition, WithinLimits
<1>2. \A i \in DOMAIN d.triggers : ValidTrigger(d.triggers[i])
  BY DEF Valid, ValidTriggers
<1>3. \A i \in DOMAIN d.triggers : IsTrigger(d.triggers[i], S)
  BY <1>1, ListParts
<1>4. \A i \in DOMAIN d.triggers : TriggerKept(d.triggers[i])
  BY <1>2, <1>3, EveryTriggerKept
<1>5. QED  BY <1>1, <1>4, TriggersKept DEF TriggersOut, TriggersRead

LEMMA PrincipalParted ==
  ASSUME NEW d, NEW S, IsDefinition(d, S)
  PROVE  /\ PartOf(PrincipalOut(d), "Principals")
         /\ \A n : Child(n, "Principals") = Nodes(PrincipalOut(d)) => PrincipalsRead(n, d)
<1>1. IsPrincipal(d.principal)  BY DEF IsDefinition
<1>2. QED  BY <1>1, PrincipalKept DEF PrincipalOut, PrincipalsRead

LEMMA SettingsOnce ==
  ASSUME NEW d, NEW S, Hereditary(S), IsDefinition(d, S), Valid(d)
  PROVE  /\ PartOf(SettingsOut(d), "Settings")
         /\ \A n : Child(n, "Settings") = Nodes(SettingsOut(d)) => SettingsIn(n, d)
<1> DEFINE e == WriteSettings(d)
           m == NodeOf(e)
<1>1. ValidSchema(d)  BY DEF Valid
<1>2. /\ IsElement(e) /\ m.name = "Settings"
      /\ SettingsReadable(m) /\ SettingsOf(m) = CanonicalSettings(d.settings)
  BY <1>1, SettingsKept
<1>3. SettingsOut(d) = <<e>>  BY DEF SettingsOut
<1> HIDE DEF e
<1>4. PartOf(<<e>>, "Settings") /\ Nodes(<<e>>) = <<m>>  BY <1>2, OneNode
<1> HIDE DEF m
<1>5. QED  BY <1>2, <1>3, <1>4 DEF SettingsIn

LEMMA DataParted ==
  ASSUME NEW d, NEW S, IsDefinition(d, S)
  PROVE  /\ PartOf(DataOut(d), "Data")
         /\ \A n : Child(n, "Data") = Nodes(DataOut(d)) => ChildText(n, "Data") = Texts(d.data)
<1>1. IsOption(d.data)  BY DEF IsDefinition
<1>2. QED  BY <1>1, TextPart DEF DataOut

LEMMA ActionsParted ==
  ASSUME NEW d, NEW S, Hereditary(S), IsDefinition(d, S)
  PROVE  /\ PartOf(ActionsOut(d), "Actions")
         /\ \A n : Child(n, "Actions") = Nodes(ActionsOut(d)) => ActionsRead(n, d)
<1>1. /\ IsList(d.actions) /\ \A a \in ToSet(d.actions) : IsAction(a, S)
      /\ Len(d.actions) <= MaxActions
  BY DEF IsDefinition, WithinLimits
<1>2. \A i \in DOMAIN d.actions : IsAction(d.actions[i], S)
  BY <1>1, ListParts
<1>3. \A i \in DOMAIN d.actions : ActionKept(d.actions[i])
  BY <1>2, EveryActionKept
<1>4. QED  BY <1>1, <1>3, ActionsKept DEF ActionsOut, ActionsRead

RootParts(d) ==
  <<RegistrationOut(d), TriggersOut(d), PrincipalOut(d), SettingsOut(d), DataOut(d),
    ActionsOut(d)>>

\* Nothing is lost on the way to the children of the root.
RootFound(n, d) ==
  /\ Child(n, "RegistrationInfo") = Nodes(RegistrationOut(d))
  /\ Child(n, "Triggers") = Nodes(TriggersOut(d))
  /\ Child(n, "Principals") = Nodes(PrincipalOut(d))
  /\ Child(n, "Settings") = Nodes(SettingsOut(d))
  /\ Child(n, "Data") = Nodes(DataOut(d))
  /\ Child(n, "Actions") = Nodes(ActionsOut(d))

LEMMA RootWritten ==
  ASSUME NEW d, NEW S, Hereditary(S), IsDefinition(d, S), Valid(d),
         NEW list, list = MergeExtensions("Task", RootElements(d), d.extensions)
  PROVE  Elements(list) /\ \A n : n.kids = Nodes(list) => RootFound(n, d)
<1> DEFINE p1 == RegistrationOut(d)
           p2 == TriggersOut(d)
           p3 == PrincipalOut(d)
           p4 == SettingsOut(d)
           p5 == DataOut(d)
           p6 == ActionsOut(d)
           n1 == "RegistrationInfo"
           n2 == "Triggers"
           n3 == "Principals"
           n4 == "Settings"
           n5 == "Data"
           n6 == "Actions"
           N == RootNames
           known == FlattenSeq(<<p1, p2, p3, p4, p5, p6>>)
           parent == "Task"
           extensions == d.extensions
<1>1. RootElements(d) = known
  <2>1. Each(d.triggers, WriteTrigger) = TriggerList(d.triggers)  BY DEF Each, TriggerList
  <2>2. QED
    BY <2>1 DEF RootElements, RegistrationOut, TriggersOut, PrincipalOut, SettingsOut, DataOut,
       ActionsOut
<1>2. /\ PartOf(p1, n1) /\ PartOf(p2, n2) /\ PartOf(p3, n3) /\ PartOf(p4, n4) /\ PartOf(p5, n5)
      /\ PartOf(p6, n6)
  BY RegistrationParted, TriggersParted, PrincipalParted, SettingsOnce, DataParted,
     ActionsParted
<1>3. N = {n1, n2, n3, n4, n5, n6}  BY DEF RootNames
<1>4. /\ n1 # n2 /\ n1 # n3 /\ n1 # n4 /\ n1 # n5 /\ n1 # n6 /\ n2 # n3 /\ n2 # n4
      /\ n2 # n5 /\ n2 # n6 /\ n3 # n4 /\ n3 # n5 /\ n3 # n6 /\ n4 # n5 /\ n4 # n6 /\ n5 # n6
  OBVIOUS
<1>5. \A x \in ToSet(extensions) : x.parent = parent =>
        x.ordinal \in Nat /\ \E node \in S : x.xml = node.xml /\ node.name \notin N
  BY DEF IsDefinition, IsExtension, XmlExtension
<1>6. IsList(extensions)  BY DEF IsDefinition
<1>7. list = MergeExtensions(parent, known, extensions)  BY <1>1
<1>8. /\ Child(list, n1) = Child(list, "RegistrationInfo")
      /\ \A n : RootFound(n, d) <=>
           /\ Child(n, n1) = Nodes(p1) /\ Child(n, n2) = Nodes(p2) /\ Child(n, n3) = Nodes(p3)
           /\ Child(n, n4) = Nodes(p4) /\ Child(n, n5) = Nodes(p5) /\ Child(n, n6) = Nodes(p6)
  BY DEF RootFound
<1> HIDE DEF p1, p2, p3, p4, p5, p6, n1, n2, n3, n4, n5, n6, N, parent, extensions
<1>9. Menu(known, {n1, n2, n3, n4, n5, n6})
  BY ONLY <1>2, <1>4, Parts6
<1>10. Offers(known, n1, p1) /\ Offers(known, n2, p2)  BY ONLY <1>2, <1>4, Parts6
<1>11. Offers(known, n3, p3) /\ Offers(known, n4, p4)  BY ONLY <1>2, <1>4, Parts6
<1>12. Offers(known, n5, p5) /\ Offers(known, n6, p6)  BY ONLY <1>2, <1>4, Parts6
<1> HIDE DEF known
<1>13. /\ Elements(list)
       /\ \A m, part : Offers(known, m, part) /\ m \in N => Offers(list, m, part)
  BY <1>3, <1>5, <1>6, <1>7, <1>9, MergedElements
<1>14. Offers(list, n1, p1) /\ Offers(list, n2, p2) /\ Offers(list, n3, p3)
  BY <1>3, <1>10, <1>11, <1>13
<1>15. Offers(list, n4, p4) /\ Offers(list, n5, p5) /\ Offers(list, n6, p6)
  BY <1>3, <1>11, <1>12, <1>13
<1>16. ASSUME NEW n, n.kids = Nodes(list)  PROVE RootFound(n, d)
  <2>1. Child(n, n1) = Nodes(p1) /\ Child(n, n2) = Nodes(p2) /\ Child(n, n3) = Nodes(p3)
    BY <1>14, <1>16, Lookup
  <2>2. Child(n, n4) = Nodes(p4) /\ Child(n, n5) = Nodes(p5) /\ Child(n, n6) = Nodes(p6)
    BY <1>15, <1>16, Lookup
  <2>3. QED  BY <1>8, <2>1, <2>2
<1>17. QED  BY <1>13, <1>16

\* A definition that is valid is read back as it was written.
DefinitionKept(d) ==
  /\ IsElement(WriteDefinition(d))
  /\ Readable(NodeOf(WriteDefinition(d)))
  /\ WithoutExtensions(DefinitionOf(NodeOf(WriteDefinition(d))))
       = WithoutExtensions(Canonical(d))

\* A definition of the library's types, however many triggers, actions and
\* extensions it has and whatever its texts, that validate_definition accepts
\* is written as one element (write_definition); definition_from_node returns
\* no error for this element, and what it returns is the definition in its
\* canonical form: its texts with line ends normalized, its ids, the names of
\* its value queries and its schema version as attributes are read, and
\* unknown triggers and actions with their attributes as they are read;
\* extensions are left out of the comparison.
THEOREM EveryDefinitionKept ==
  ASSUME NEW d, NEW S, Hereditary(S), IsDefinition(d, S), Valid(d)
  PROVE  DefinitionKept(d)
<1> DEFINE list == MergeExtensions("Task", RootElements(d), d.extensions)
           attrs == Attribute("version", d.schema_version)
           blank == ""
           e == Container("Task", attrs, blank, list)
           n == NodeOf(e)
           given == ReadAttributes(attrs)
           version == ReadAttribute(d.schema_version)
<1>1. WriteDefinition(d) = e  BY DEF WriteDefinition
<1>2. Elements(list) /\ \A node : node.kids = Nodes(list) => RootFound(node, d)
  BY RootWritten
<1>3. "version" \in DOMAIN given /\ given.version = version
  <2>1. attrs = [k \in {"version"} |-> d.schema_version]  BY DEF Attribute
  <2>2. QED  BY <2>1 DEF ReadAttributes
<1> HIDE DEF given, version
<1> HIDE DEF list, attrs, blank
<1>4. IsElement(e) /\ n.name = "Task" /\ n.kids = Nodes(list) /\ n.attrs = given
  BY <1>2, PlainElement DEF given
<1> HIDE DEF e
<1>5. RootFound(n, d)  BY <1>2, <1>4
<1> HIDE DEF n
<1>6. RegistrationRead(n, d)  BY <1>5, RegistrationParted DEF RootFound
<1>7. TriggersRead(n, d)  BY <1>5, TriggersParted DEF RootFound
<1>8. PICK m : /\ PrincipalNode(n) = <<m>> /\ PrincipalReadable(m)
               /\ PrincipalOf(m) = CanonicalPrincipal(d.principal)
  BY <1>5, PrincipalParted DEF RootFound, PrincipalsRead
<1>9. PICK s : /\ Child(n, "Settings") = <<s>> /\ SettingsReadable(s)
               /\ SettingsOf(s) = CanonicalSettings(d.settings)
  BY <1>5, SettingsOnce DEF RootFound, SettingsIn
<1>10. ChildText(n, "Data") = Texts(d.data)  BY <1>5, DataParted DEF RootFound
<1>11. ActionsRead(n, d)  BY <1>5, ActionsParted DEF RootFound
<1>12. Readable(n)
  <2>1. \A p \in ToSet(PrincipalNode(n)) : PrincipalReadable(p)  BY <1>8 DEF ToSet
  <2>2. \A x \in ToSet(Child(n, "Settings")) : SettingsReadable(x)  BY <1>9 DEF ToSet
  <2>3. QED
    BY <1>4, <1>6, <1>7, <1>11, <2>1, <2>2 DEF Readable, RegistrationRead, TriggersRead,
       ActionsRead
<1> DEFINE registration == [name \in DOMAIN d.registration |-> Texts(d.registration[name])]
           triggers == Each(d.triggers, CanonicalTrigger)
           principal == CanonicalPrincipal(d.principal)
           settings == CanonicalSettings(d.settings)
           data == Texts(d.data)
           actions == Each(d.actions, CanonicalAction)
           read == [schema_version |-> version, registration |-> registration,
                    triggers |-> triggers, principal |-> principal, settings |-> settings,
                    data |-> data, actions |-> actions, extensions |-> <<>>]
<1>13. WithoutExtensions(DefinitionOf(n)) = read
  <2>1. OrElse(Each(Child(n, "RegistrationInfo"), RegistrationOf), DefaultRegistration)
          = registration
    BY <1>6 DEF RegistrationRead
  <2>2. Each(KidsOf(n, "Triggers"), TriggerOf) = triggers  BY <1>7 DEF TriggersRead
  <2>3. OrElse(Each(PrincipalNode(n), PrincipalOf), DefaultPrincipal) = principal
    <3> DEFINE l == <<m>>
               w == <<principal>>
    <3>1. Each(l, PrincipalOf) = [i \in DOMAIN l |-> PrincipalOf(l[i])]  BY DEF Each
    <3>2. DOMAIN l = {1} /\ l[1] = m  OBVIOUS
    <3>3. [i \in {1} |-> principal] = w /\ w[1] = principal /\ w # <<>>  OBVIOUS
    <3> HIDE DEF l, principal
    <3>4. PrincipalOf(m) = principal  BY <1>8 DEF principal
    <3>5. [i \in DOMAIN l |-> PrincipalOf(l[i])] = [i \in {1} |-> principal]  BY <3>2, <3>4
    <3>6. Each(PrincipalNode(n), PrincipalOf) = w  BY <1>8, <3>1, <3>3, <3>5 DEF l
    <3>7. OrElse(w, DefaultPrincipal) = principal  BY <3>3 DEF OrElse, None
    <3>8. QED  BY <3>6, <3>7
  <2>4. SettingsOf(OrElse(Child(n, "Settings"), Nothing)) = settings
    BY <1>9 DEF OrElse, None
  <2>5. Each(KidsOf(n, "Actions"), ActionOf) = actions  BY <1>11 DEF ActionsRead
  <2>6. (IF "version" \in DOMAIN n.attrs THEN n.attrs.version ELSE "1.2") = version
    BY <1>3, <1>4
  <2> HIDE DEF registration, triggers, principal, settings, data, actions
  <2>7. DefinitionOf(n) =
          [schema_version |-> version, registration |-> registration,
           triggers |-> triggers, principal |-> principal, settings |-> settings,
           data |-> data, actions |-> actions, extensions |-> ExtensionsOf(n)]
    BY <1>10, <2>1, <2>2, <2>3, <2>4, <2>5, <2>6 DEF DefinitionOf, data
  <2>8. QED  BY <2>7 DEF WithoutExtensions
<1>14. WithoutExtensions(Canonical(d)) = read
  <2>1. d = [schema_version |-> d.schema_version, registration |-> d.registration,
             triggers |-> d.triggers, principal |-> d.principal, settings |-> d.settings,
             data |-> d.data, actions |-> d.actions, extensions |-> d.extensions]
    BY DEF IsDefinition
  <2>2. Canonical(d) =
          [d EXCEPT !.schema_version = version, !.registration = registration, !.principal = principal,
                    !.settings = settings, !.triggers = triggers, !.data = data,
                    !.actions = actions]
    BY DEF Canonical, version
  <2> HIDE DEF registration, triggers, principal, settings, data, actions
  <2>3. Canonical(d) =
          [schema_version |-> version, registration |-> registration,
           triggers |-> triggers, principal |-> principal, settings |-> settings,
           data |-> data, actions |-> actions, extensions |-> d.extensions]
    BY <2>1, <2>2
  <2>4. QED  BY <2>3 DEF WithoutExtensions
<1>15. WithoutExtensions(DefinitionOf(n)) = WithoutExtensions(Canonical(d))
  BY <1>13, <1>14
<1>16. n = NodeOf(WriteDefinition(d)) /\ IsElement(WriteDefinition(d))  BY <1>1, <1>4 DEF n
<1>17. QED  BY <1>12, <1>15, <1>16 DEF DefinitionKept

-----------------------------------------------------------------------------
(***************************************************************************)
(* Sifting and merging: the elements that are not known are taken out of a   *)
(* list with their places, and put back in. What was sifted out of a list    *)
(* goes back where it was; what was put in is found again, in its order      *)
(* and no further back.                                                      *)
(***************************************************************************)
LEMMA Associative ==
  ASSUME NEW a, NEW b, NEW c, IsList(a), IsList(b), IsList(c)
  PROVE  (a \o b) \o c = a \o (b \o c)
<1> DEFINE E == ToSet(a) \union ToSet(b) \union ToSet(c)
<1>1. a \in Seq(E) /\ b \in Seq(E) /\ c \in Seq(E)
  <2>1. a \in Seq(ToSet(a)) /\ b \in Seq(ToSet(b)) /\ c \in Seq(ToSet(c))  BY DEF IsList
  <2> DEFINE A == ToSet(a)
             B == ToSet(b)
             C == ToSet(c)
  <2> HIDE DEF A, B, C
  <2>2. a \in Seq(A \union B \union C)  BY <2>1 DEF A
  <2>3. b \in Seq(A \union B \union C)  BY <2>1 DEF B
  <2>4. c \in Seq(A \union B \union C)  BY <2>1 DEF C
  <2>5. QED  BY <2>2, <2>3, <2>4 DEF A, B, C
<1> HIDE DEF E
<1>2. QED  BY <1>1

\* A list that begins like one list and goes on like another.
BothIn(R, P, Q) ==
  /\ IsList(R) /\ IsList(P) /\ IsList(Q) /\ Len(R) = Len(P) + Len(Q)
  /\ \A i \in 1..Len(P) : R[i] = P[i]
  /\ \A i \in 1..Len(Q) : R[Len(P) + i] = Q[i]

LEMMA Parted ==
  ASSUME NEW R, NEW P, NEW Q, BothIn(R, P, Q)
  PROVE  R = P \o Q
<1> DEFINE m == Len(P)
           n == Len(Q)
           S == P \o Q
<1>1. m \in Nat /\ n \in Nat /\ IsList(P) /\ IsList(Q) /\ IsList(R)  BY ListParts DEF BothIn
<1>2. /\ IsList(S) /\ Len(S) = m + n
      /\ \A i \in 1..m : S[i] = P[i]
      /\ \A i \in 1..n : S[m + i] = Q[i]
  BY <1>1, Concat
<1>3. Len(R) = m + n /\ (\A i \in 1..m : R[i] = P[i]) /\ \A i \in 1..n : R[m + i] = Q[i]
  BY DEF BothIn
<1> HIDE DEF m, n, S
<1>4. ASSUME NEW i \in 1..(m + n)  PROVE R[i] = S[i]
  <2>1. CASE i <= m
    <3>1. i \in 1..m  BY <1>1, <2>1
    <3>2. QED  BY <1>2, <1>3, <3>1
  <2>2. CASE ~(i <= m)
    <3>1. i - m \in 1..n /\ m + (i - m) = i  BY <1>1, <2>2
    <3>2. R[m + (i - m)] = S[m + (i - m)]  BY <1>2, <1>3, <3>1
    <3>3. QED  BY <3>1, <3>2
  <2>3. QED  BY <2>1, <2>2
<1>5. R = S  BY <1>1, <1>2, <1>3, <1>4, SameList
<1>6. QED  BY <1>5 DEF S

\* One list after the other, of lists of lists.
LEMMA FlatConcat ==
  ASSUME NEW P, NEW Q, Lists(P), Lists(Q)
  PROVE  FlattenSeq(P \o Q) = FlattenSeq(P) \o FlattenSeq(Q)
<1> DEFINE R == P \o Q
           m == Len(P)
           n == Len(Q)
<1>1. IsList(P) /\ IsList(Q) /\ m \in Nat /\ n \in Nat /\ DOMAIN P = 1..m /\ DOMAIN Q = 1..n
  BY ListParts DEF Lists
<1>2. /\ IsList(R) /\ Len(R) = m + n
      /\ \A i \in 1..m : R[i] = P[i]
      /\ \A i \in 1..n : R[m + i] = Q[i]
  BY <1>1, Concat
<1>3. Lists(R)
  <2>1. DOMAIN R = 1..(m + n)  BY <1>2, ListParts
  <2>2. ASSUME NEW i \in 1..(m + n)  PROVE IsList(R[i])
    <3>1. CASE i <= m
      <4>1. i \in 1..m  BY <1>1, <3>1
      <4>2. QED  BY <1>1, <1>2, <4>1 DEF Lists
    <3>2. CASE ~(i <= m)
      <4>1. i - m \in 1..n /\ m + (i - m) = i  BY <1>1, <3>2
      <4>2. R[i] = Q[i - m]  BY <1>2, <4>1
      <4>3. QED  BY <1>1, <4>1, <4>2 DEF Lists
    <3>3. QED  BY <3>1, <3>2
  <2>3. QED  BY <1>2, <2>1, <2>2 DEF Lists
<1> HIDE DEF R
<1>4. PICK f : /\ f[0] = <<>> /\ FlattenSeq(P) = f[m]
               /\ \A i \in 1..m : f[i] = f[i - 1] \o P[i]
               /\ \A i \in 0..m : IsList(f[i])
  BY FlatSolves
<1>5. PICK g : /\ g[0] = <<>> /\ FlattenSeq(Q) = g[n]
               /\ \A i \in 1..n : g[i] = g[i - 1] \o Q[i]
               /\ \A i \in 0..n : IsList(g[i])
  BY FlatSolves
<1>6. PICK h : /\ h[0] = <<>> /\ FlattenSeq(R) = h[Len(R)]
               /\ \A i \in 1..Len(R) : h[i] = h[i - 1] \o R[i]
               /\ \A i \in 0..Len(R) : IsList(h[i])
  BY <1>3, FlatSolves
<1> HIDE DEF m, n
<1>7. h[m] = f[m]
  <2> DEFINE B == {k \in 0..m : h[k] = f[k]}
  <2>1. 0 \in B  BY <1>1, <1>4, <1>6
  <2>2. ASSUME NEW k \in 1..m, k - 1 \in B  PROVE k \in B
    <3>1. h[k - 1] = f[k - 1]  BY <2>2
    <3>2. k \in 1..Len(R) /\ k \in 0..m  BY <1>1, <1>2
    <3>3. h[k] = h[k - 1] \o R[k] /\ f[k] = f[k - 1] \o P[k]  BY <1>4, <1>6, <3>2
    <3>4. R[k] = P[k]  BY <1>2
    <3>5. QED  BY <3>1, <3>2, <3>3, <3>4
  <2> HIDE DEF B
  <2>3. \A k \in 0..m : k \in B  BY <1>1, <2>1, <2>2, Upward
  <2>4. m \in 0..m  BY <1>1
  <2>5. QED  BY <2>3, <2>4 DEF B
<1>8. IsList(f[m])
  <2>1. m \in 0..m  BY <1>1
  <2>2. QED  BY <1>4, <2>1
<1>9. h[m + n] = f[m] \o g[n]
  <2> DEFINE B == {k \in 0..n : h[m + k] = f[m] \o g[k]}
  <2>1. 0 \in B
    <3>1. f[m] \o <<>> = f[m]  BY <1>8 DEF IsList
    <3>2. m + 0 = m /\ 0 \in 0..n  BY <1>1
    <3>3. QED  BY <1>5, <1>7, <3>1, <3>2
  <2>2. ASSUME NEW k \in 1..n, k - 1 \in B  PROVE k \in B
    <3>1. h[m + (k - 1)] = f[m] \o g[k - 1]  BY <2>2
    <3>2. m + k \in 1..Len(R) /\ (m + k) - 1 = m + (k - 1) /\ k \in 0..n /\ k - 1 \in 0..n
      BY <1>1, <1>2
    <3>3. h[m + k] = h[m + (k - 1)] \o R[m + k]  BY <1>6, <3>2
    <3>4. R[m + k] = Q[k] /\ g[k] = g[k - 1] \o Q[k]  BY <1>2, <1>5
    <3>5. IsList(g[k - 1]) /\ IsList(Q[k])  BY <1>1, <1>5, <3>2 DEF Lists
    <3>6. (f[m] \o g[k - 1]) \o Q[k] = f[m] \o (g[k - 1] \o Q[k])
      <4> DEFINE a == f[m]
                 b == g[k - 1]
                 c == Q[k]
      <4>1. IsList(a) /\ IsList(b) /\ IsList(c)  BY <1>8, <3>5
      <4> HIDE DEF a, b, c
      <4>2. (a \o b) \o c = a \o (b \o c)  BY <4>1, Associative
      <4>3. QED  BY <4>2 DEF a, b, c
    <3>7. QED  BY <3>1, <3>2, <3>3, <3>4, <3>6
  <2> HIDE DEF B
  <2>3. \A k \in 0..n : k \in B  BY <1>1, <2>1, <2>2, Upward
  <2>4. n \in 0..n  BY <1>1
  <2>5. QED  BY <2>3, <2>4 DEF B
<1>10. QED  BY <1>2, <1>4, <1>5, <1>6, <1>9 DEF R

\* The known elements of a list, and the others with their places, counted from
\* a number; the known ones are in W.
KnownOf(s, W) ==
  FlattenSeq([i \in DOMAIN s |-> IF s[i] \in W THEN <<s[i]>> ELSE <<>>])

OthersOf(s, W, parent, from) ==
  FlattenSeq([i \in DOMAIN s |-> IF s[i] \in W THEN <<>>
                                ELSE <<XmlExtension(parent, from + i - 1, s[i])>>])

LEMMA ShortLists ==
  ASSUME NEW s, NEW P, IsList(s), P = [i \in DOMAIN s |-> P[i]],
         \A i \in DOMAIN s : P[i] = <<>> \/ \E x : P[i] = <<x>>
  PROVE  Lists(P) /\ Len(P) = Len(s) /\ DOMAIN P = DOMAIN s
<1>1. IsList(P) /\ Len(P) = Len(s) /\ DOMAIN P = DOMAIN s  BY Mapped
<1>2. IsList(<<>>)  BY DEF IsList
<1>3. \A x : IsList(<<x>>)  BY DEF IsList, ToSet
<1>4. QED  BY <1>1, <1>2, <1>3 DEF Lists

\* Two parts of a list are sifted one after the other.
LEMMA KnownConcat ==
  ASSUME NEW a, NEW b, IsList(a), IsList(b), NEW W
  PROVE  KnownOf(a \o b, W) = KnownOf(a, W) \o KnownOf(b, W)
<1> DEFINE s == a \o b
           P == [i \in DOMAIN a |-> IF a[i] \in W THEN <<a[i]>> ELSE <<>>]
           Q == [i \in DOMAIN b |-> IF b[i] \in W THEN <<b[i]>> ELSE <<>>]
           R == [i \in DOMAIN s |-> IF s[i] \in W THEN <<s[i]>> ELSE <<>>]
           m == Len(a)
           n == Len(b)
<1>1. /\ m \in Nat /\ n \in Nat /\ DOMAIN a = 1..m /\ DOMAIN b = 1..n
      /\ IsList(s) /\ Len(s) = m + n /\ DOMAIN s = 1..(m + n)
      /\ \A i \in 1..m : s[i] = a[i]
      /\ \A i \in 1..n : s[m + i] = b[i]
  <2>1. IsList(s) /\ Len(s) = m + n  BY Concat
  <2>2. DOMAIN s = 1..Len(s)  BY <2>1, ListParts
  <2>3. QED  BY <2>1, <2>2, Concat, ListParts
<1> HIDE DEF s
<1>2. /\ Lists(P) /\ Len(P) = m /\ Lists(Q) /\ Len(Q) = n
      /\ Lists(R) /\ Len(R) = m + n
  <2>1. P = [i \in DOMAIN a |-> P[i]] /\ \A i \in DOMAIN a : P[i] = <<>> \/ \E x : P[i] = <<x>>
    OBVIOUS
  <2>2. Q = [i \in DOMAIN b |-> Q[i]] /\ \A i \in DOMAIN b : Q[i] = <<>> \/ \E x : Q[i] = <<x>>
    OBVIOUS
  <2>3. R = [i \in DOMAIN s |-> R[i]] /\ \A i \in DOMAIN s : R[i] = <<>> \/ \E x : R[i] = <<x>>
    OBVIOUS
  <2> HIDE DEF P, Q, R
  <2>4. Lists(P) /\ Len(P) = m  BY <2>1, ShortLists
  <2>5. Lists(Q) /\ Len(Q) = n  BY <2>2, ShortLists
  <2>6. Lists(R) /\ Len(R) = m + n  BY <1>1, <2>3, ShortLists
  <2>7. QED  BY <2>4, <2>5, <2>6
<1>3. \A i \in 1..m : R[i] = P[i]  BY <1>1
<1>4. \A i \in 1..n : R[m + i] = Q[i]
  <2>1. \A i \in 1..n : m + i \in 1..(m + n)  BY <1>1
  <2>2. QED  BY <1>1, <2>1
<1>5. KnownOf(a, W) = FlattenSeq(P) /\ KnownOf(b, W) = FlattenSeq(Q) /\ KnownOf(s, W) = FlattenSeq(R)
  BY DEF KnownOf
<1> HIDE DEF P, Q, R, m, n
<1>6. R = P \o Q
  <2>1. IsList(R) /\ IsList(P) /\ IsList(Q)  BY <1>2 DEF Lists
  <2>2. Len(R) = Len(P) + Len(Q)  BY <1>2
  <2>3. \A i \in 1..Len(P) : R[i] = P[i]  BY <1>2, <1>3
  <2>4. \A i \in 1..Len(Q) : R[Len(P) + i] = Q[i]  BY <1>2, <1>4
  <2>5. BothIn(R, P, Q)  BY <2>1, <2>2, <2>3, <2>4 DEF BothIn
  <2>6. QED  BY <2>5, Parted
<1>7. QED  BY <1>2, <1>5, <1>6, FlatConcat DEF s

LEMMA OthersConcat ==
  ASSUME NEW a, NEW b, IsList(a), IsList(b), NEW W, NEW p, NEW z \in Nat
  PROVE  OthersOf(a \o b, W, p, z) = OthersOf(a, W, p, z) \o OthersOf(b, W, p, z + Len(a))
<1> DEFINE s == a \o b
           m == Len(a)
           n == Len(b)
           P == [i \in DOMAIN a |-> IF a[i] \in W THEN <<>>
                                    ELSE <<XmlExtension(p, z + i - 1, a[i])>>]
           Q == [i \in DOMAIN b |-> IF b[i] \in W THEN <<>>
                                    ELSE <<XmlExtension(p, z + m + i - 1, b[i])>>]
           R == [i \in DOMAIN s |-> IF s[i] \in W THEN <<>>
                                    ELSE <<XmlExtension(p, z + i - 1, s[i])>>]
<1>1. /\ m \in Nat /\ n \in Nat /\ DOMAIN a = 1..m /\ DOMAIN b = 1..n
      /\ IsList(s) /\ Len(s) = m + n /\ DOMAIN s = 1..(m + n)
      /\ \A i \in 1..m : s[i] = a[i]
      /\ \A i \in 1..n : s[m + i] = b[i]
  <2>1. IsList(s) /\ Len(s) = m + n  BY Concat
  <2>2. DOMAIN s = 1..Len(s)  BY <2>1, ListParts
  <2>3. QED  BY <2>1, <2>2, Concat, ListParts
<1> HIDE DEF s, m, n
<1>2. /\ Lists(P) /\ Len(P) = m /\ Lists(Q) /\ Len(Q) = n
      /\ Lists(R) /\ Len(R) = m + n
  <2>1. P = [i \in DOMAIN a |-> P[i]] /\ \A i \in DOMAIN a : P[i] = <<>> \/ \E x : P[i] = <<x>>
    OBVIOUS
  <2>2. Q = [i \in DOMAIN b |-> Q[i]] /\ \A i \in DOMAIN b : Q[i] = <<>> \/ \E x : Q[i] = <<x>>
    OBVIOUS
  <2>3. R = [i \in DOMAIN s |-> R[i]] /\ \A i \in DOMAIN s : R[i] = <<>> \/ \E x : R[i] = <<x>>
    OBVIOUS
  <2> HIDE DEF P, Q, R
  <2>4. Lists(P) /\ Len(P) = m  BY <2>1, ShortLists DEF m
  <2>5. Lists(Q) /\ Len(Q) = n  BY <2>2, ShortLists DEF n
  <2>6. Lists(R) /\ Len(R) = m + n  BY <1>1, <2>3, ShortLists
  <2>7. QED  BY <2>4, <2>5, <2>6
<1>3. \A i \in 1..m : R[i] = P[i]  BY <1>1
<1>4. \A i \in 1..n : R[m + i] = Q[i]
  <2>1. \A i \in 1..n : m + i \in 1..(m + n) /\ z + (m + i) - 1 = z + m + i - 1  BY <1>1
  <2>2. QED  BY <1>1, <2>1
<1>5. /\ OthersOf(a, W, p, z) = FlattenSeq(P) /\ OthersOf(b, W, p, z + m) = FlattenSeq(Q)
      /\ OthersOf(s, W, p, z) = FlattenSeq(R)
  BY DEF OthersOf
<1> HIDE DEF P, Q, R
<1>6. R = P \o Q
  <2>1. IsList(R) /\ IsList(P) /\ IsList(Q)  BY <1>2 DEF Lists
  <2>2. Len(R) = Len(P) + Len(Q)  BY <1>2
  <2>3. \A i \in 1..Len(P) : R[i] = P[i]  BY <1>2, <1>3
  <2>4. \A i \in 1..Len(Q) : R[Len(P) + i] = Q[i]  BY <1>2, <1>4
  <2>5. BothIn(R, P, Q)  BY <2>1, <2>2, <2>3, <2>4 DEF BothIn
  <2>6. QED  BY <2>5, Parted
<1>7. QED  BY <1>2, <1>5, <1>6, FlatConcat DEF s, m

\* One element, and nothing but known elements.
LEMMA SiftOne ==
  ASSUME NEW x, NEW W, NEW p, NEW z \in Nat
  PROVE  /\ x \in W => KnownOf(<<x>>, W) = <<x>> /\ OthersOf(<<x>>, W, p, z) = <<>>
         /\ x \notin W => /\ KnownOf(<<x>>, W) = <<>>
                         /\ OthersOf(<<x>>, W, p, z) = <<XmlExtension(p, z, x)>>
<1> DEFINE s == <<x>>
           e == XmlExtension(p, z, x)
<1>1. DOMAIN s = {1} /\ s[1] = x  OBVIOUS
<1> HIDE DEF s, e
<1>2. [i \in DOMAIN s |-> <<s[i]>>] = <<<<x>>>>  BY <1>1
<1>3. [i \in DOMAIN s |-> <<>>] = <<<<>>>>  BY <1>1
<1>4. [i \in DOMAIN s |-> <<XmlExtension(p, z + i - 1, s[i])>>] = <<<<e>>>>
  <2>1. z + 1 - 1 = z  OBVIOUS
  <2>2. QED  BY <1>1, <2>1 DEF e
<1>5. IsList(<<x>>) /\ IsList(<<>>) /\ IsList(<<e>>)  BY DEF IsList, ToSet
<1>6. FlattenSeq(<<<<x>>>>) = <<x>> /\ FlattenSeq(<<<<>>>>) = <<>> /\ FlattenSeq(<<<<e>>>>) = <<e>>
  BY <1>5, FlatOne
<1>7. CASE x \in W
  <2>1. [i \in DOMAIN s |-> IF s[i] \in W THEN <<s[i]>> ELSE <<>>] = <<<<x>>>>
    BY <1>1, <1>2, <1>7
  <2>2. [i \in DOMAIN s |-> IF s[i] \in W THEN <<>> ELSE <<XmlExtension(p, z + i - 1, s[i])>>]
          = <<<<>>>>
    BY <1>1, <1>3, <1>7
  <2>3. QED  BY <1>6, <1>7, <2>1, <2>2 DEF KnownOf, OthersOf, s
<1>8. CASE x \notin W
  <2>1. [i \in DOMAIN s |-> IF s[i] \in W THEN <<s[i]>> ELSE <<>>] = <<<<>>>>
    BY <1>1, <1>3, <1>8
  <2>2. [i \in DOMAIN s |-> IF s[i] \in W THEN <<>> ELSE <<XmlExtension(p, z + i - 1, s[i])>>]
          = <<<<e>>>>
    BY <1>1, <1>4, <1>8
  <2>3. QED  BY <1>6, <1>8, <2>1, <2>2 DEF KnownOf, OthersOf, s, e
<1>9. QED  BY <1>7, <1>8

LEMMA SiftKnown ==
  ASSUME NEW s, IsList(s), NEW W, ToSet(s) \subseteq W, NEW p, NEW z
  PROVE  KnownOf(s, W) = s /\ OthersOf(s, W, p, z) = <<>>
<1>1. \A i \in DOMAIN s : s[i] \in W  BY DEF ToSet
<1> DEFINE P == [i \in DOMAIN s |-> <<s[i]>>]
           Q == [i \in DOMAIN s |-> <<>>]
<1>2. KnownOf(s, W) = FlattenSeq(P)
  <2>1. [i \in DOMAIN s |-> IF s[i] \in W THEN <<s[i]>> ELSE <<>>] = P  BY <1>1
  <2>2. QED  BY <2>1 DEF KnownOf
<1>3. OthersOf(s, W, p, z) = FlattenSeq(Q)
  <2>1. [i \in DOMAIN s |-> IF s[i] \in W THEN <<>> ELSE <<XmlExtension(p, z + i - 1, s[i])>>]
          = Q
    BY <1>1
  <2>2. QED  BY <2>1 DEF OthersOf
<1>4. /\ P = [i \in DOMAIN s |-> P[i]] /\ \A i \in DOMAIN s : P[i] = <<s[i]>>
      /\ Q = [i \in DOMAIN s |-> Q[i]] /\ \A i \in DOMAIN s : Q[i] = <<>>
  OBVIOUS
<1> HIDE DEF P, Q
<1>5. Lists(P) /\ Len(P) = Len(s) /\ Lists(Q) /\ DOMAIN Q = DOMAIN s
  <2>1. \A i \in DOMAIN s : \E x : P[i] = <<x>>  BY <1>4
  <2>2. QED  BY <1>4, <2>1, ShortLists
<1>6. FlattenSeq(P) = s
  <2>1. DOMAIN s = 1..Len(s)  BY ListParts
  <2>2. QED  BY <1>4, <1>5, <2>1, FlatSingles DEF Lists
<1>7. FlattenSeq(Q) = <<>>  BY <1>4, <1>5, FlatNothing DEF Lists
<1>8. QED  BY <1>2, <1>3, <1>6, <1>7

\* The first elements of a list, and the rest of it.
Upto(s, i) == SubSeq(s, 1, i)
Beyond(s, i) == SubSeq(s, i + 1, Len(s))

LEMMA Pieced ==
  ASSUME NEW s, IsList(s), NEW i \in 0..Len(s)
  PROVE  /\ IsList(Upto(s, i)) /\ Len(Upto(s, i)) = i
         /\ \A k \in 1..i : Upto(s, i)[k] = s[k]
         /\ IsList(Beyond(s, i)) /\ Len(Beyond(s, i)) = Len(s) - i
         /\ \A k \in 1..(Len(s) - i) : Beyond(s, i)[k] = s[i + k]
<1>1. Len(s) \in Nat /\ s \in Seq(ToSet(s))  BY ListParts DEF IsList
<1>2. Upto(s, i) \in Seq(ToSet(s)) /\ Beyond(s, i) \in Seq(ToSet(s))  BY <1>1 DEF Upto, Beyond
<1>3. Len(Upto(s, i)) = i /\ \A k \in 1..i : Upto(s, i)[k] = s[k]  BY <1>1 DEF Upto
<1>4. Len(Beyond(s, i)) = Len(s) - i /\ \A k \in 1..(Len(s) - i) : Beyond(s, i)[k] = s[i + k]
  BY <1>1 DEF Beyond
<1>5. IsList(Upto(s, i)) /\ IsList(Beyond(s, i))  BY <1>2, ToList
<1>6. QED  BY <1>3, <1>4, <1>5

LEMMA Cut ==
  ASSUME NEW s, IsList(s), NEW i \in 0..Len(s)
  PROVE  s = Upto(s, i) \o Beyond(s, i)
<1> DEFINE a == Upto(s, i)
           b == Beyond(s, i)
<1>1. /\ IsList(a) /\ Len(a) = i /\ \A k \in 1..i : a[k] = s[k]
      /\ IsList(b) /\ Len(b) = Len(s) - i /\ \A k \in 1..(Len(s) - i) : b[k] = s[i + k]
  BY Pieced
<1>2. Len(s) \in Nat  BY ListParts
<1> HIDE DEF a, b
<1>3. BothIn(s, a, b)
  <2>1. Len(s) = Len(a) + Len(b)  BY <1>1, <1>2
  <2>2. QED  BY <1>1, <2>1 DEF BothIn
<1>4. QED  BY <1>3, Parted DEF a, b

\* One element further.
LEMMA Onward ==
  ASSUME NEW s, IsList(s), NEW i \in 1..Len(s)
  PROVE  /\ Upto(s, i) = Upto(s, i - 1) \o <<s[i]>>
         /\ Beyond(s, i - 1) = <<s[i]>> \o Beyond(s, i)
<1> DEFINE a == Upto(s, i - 1)
           b == Beyond(s, i)
           c == Upto(s, i)
           d == Beyond(s, i - 1)
           m == <<s[i]>>
           n == Len(s)
<1>1. n \in Nat /\ i \in 0..n /\ i - 1 \in 0..n  BY ListParts
<1>2. /\ IsList(c) /\ Len(c) = i /\ \A k \in 1..i : c[k] = s[k]
      /\ IsList(b) /\ Len(b) = n - i /\ \A k \in 1..(n - i) : b[k] = s[i + k]
  BY <1>1, Pieced
<1>3. /\ IsList(a) /\ Len(a) = i - 1 /\ \A k \in 1..(i - 1) : a[k] = s[k]
      /\ IsList(d) /\ Len(d) = n - (i - 1) /\ \A k \in 1..(n - (i - 1)) : d[k] = s[(i - 1) + k]
  BY <1>1, Pieced
<1>4. IsList(m) /\ Len(m) = 1 /\ m[1] = s[i]  BY DEF IsList, ToSet
<1> HIDE DEF a, b, c, d, m, n
<1>5. BothIn(c, a, m)
  <2>1. Len(c) = Len(a) + Len(m)  BY <1>1, <1>2, <1>3, <1>4
  <2>2. \A k \in 1..Len(a) : c[k] = a[k]  BY <1>1, <1>2, <1>3
  <2>3. \A k \in 1..Len(m) : c[Len(a) + k] = m[k]
    <3>1. \A k \in 1..Len(m) : k = 1 /\ Len(a) + k = i  BY <1>1, <1>3, <1>4
    <3>2. c[i] = s[i]  BY <1>1, <1>2
    <3>3. QED  BY <1>4, <3>1, <3>2
  <2>4. QED  BY <1>2, <1>3, <1>4, <2>1, <2>2, <2>3 DEF BothIn
<1>6. BothIn(d, m, b)
  <2>1. Len(d) = Len(m) + Len(b)  BY <1>1, <1>2, <1>3, <1>4
  <2>2. \A k \in 1..Len(m) : d[k] = m[k]
    <3>1. \A k \in 1..Len(m) : k = 1  BY <1>4
    <3>2. d[1] = s[i]
      <4>1. 1 \in 1..(n - (i - 1)) /\ (i - 1) + 1 = i
        <5>1. i \in 1..n  BY DEF n
        <5>2. QED  BY <1>1, <5>1
      <4>2. QED  BY <1>3, <4>1
    <3>3. QED  BY <1>4, <3>1, <3>2
  <2>3. \A k \in 1..Len(b) : d[Len(m) + k] = b[k]
    <3>1. \A k \in 1..Len(b) : /\ k \in 1..(n - i) /\ 1 + k \in 1..(n - (i - 1))
                               /\ (i - 1) + (1 + k) = i + k
      BY <1>1, <1>2
    <3>2. ASSUME NEW k \in 1..Len(b)  PROVE d[Len(m) + k] = b[k]
      <4>1. b[k] = s[i + k]  BY <1>2, <3>1
      <4>2. d[1 + k] = s[(i - 1) + (1 + k)]  BY <1>3, <3>1
      <4>3. QED  BY <1>4, <3>1, <4>1, <4>2
    <3>3. QED  BY <3>2
  <2>4. QED  BY <1>2, <1>3, <1>4, <2>1, <2>2, <2>3 DEF BothIn
<1>7. c = a \o m /\ d = m \o b  BY <1>5, <1>6, Parted
<1>8. QED  BY <1>7 DEF a, b, c, d, m

LEMMA BothEnds ==
  ASSUME NEW s, IsList(s)
  PROVE  /\ Upto(s, 0) = <<>> /\ Upto(s, Len(s)) = s /\ Beyond(s, 0) = s /\ Beyond(s, Len(s)) = <<>>
         /\ IsList(<<>>) /\ Len(<<>>) = 0 /\ s \o <<>> = s /\ <<>> \o s = s
<1>1. Len(s) \in Nat /\ s \in Seq(ToSet(s))  BY ListParts DEF IsList
<1>2. IsList(<<>>) /\ Len(<<>>) = 0  BY DEF IsList
<1>3. QED  BY <1>1, <1>2 DEF Upto, Beyond

\* An element is inserted between two parts.
LEMMA InsertBetween ==
  ASSUME NEW a, NEW b, IsList(a), IsList(b), NEW x
  PROVE  InsertAt(a \o b, Len(a) + 1, x) = (a \o <<x>>) \o b
<1> DEFINE s == a \o b
           m == Len(a)
<1>1. /\ IsList(s) /\ Len(s) = m + Len(b) /\ m \in Nat /\ Len(b) \in Nat
      /\ \A k \in 1..m : s[k] = a[k]
      /\ \A k \in 1..Len(b) : s[m + k] = b[k]
  BY Concat, ListParts
<1> HIDE DEF s, m
<1>2. m \in 0..Len(s)  BY <1>1
<1>3. /\ IsList(Upto(s, m)) /\ Len(Upto(s, m)) = m
      /\ \A k \in 1..m : Upto(s, m)[k] = s[k]
      /\ IsList(Beyond(s, m)) /\ Len(Beyond(s, m)) = Len(s) - m
      /\ \A k \in 1..(Len(s) - m) : Beyond(s, m)[k] = s[m + k]
  BY <1>1, <1>2, Pieced
<1>4. Upto(s, m) = a
  <2>1. Len(Upto(s, m)) = Len(a)  BY <1>3 DEF m
  <2>2. \A k \in 1..Len(Upto(s, m)) : Upto(s, m)[k] = a[k]  BY <1>1, <1>3
  <2>3. QED  BY <1>3, <2>1, <2>2, SameList
<1>5. Beyond(s, m) = b
  <2>1. Len(Beyond(s, m)) = Len(b)  BY <1>1, <1>3
  <2>2. \A k \in 1..Len(Beyond(s, m)) : Beyond(s, m)[k] = b[k]  BY <1>1, <1>3, <2>1
  <2>3. QED  BY <1>3, <2>1, <2>2, SameList
<1>6. InsertAt(s, m + 1, x) = (Upto(s, m) \o <<x>>) \o Beyond(s, m)
  <2>1. ASSUME NEW i, i = m + 1
        PROVE  InsertAt(s, i, x) = (Upto(s, m) \o <<x>>) \o SubSeq(s, i, Len(s))
    <3>1. i - 1 = m  BY <1>1, <2>1
    <3>2. InsertAt(s, i, x) = (SubSeq(s, 1, i - 1) \o <<x>>) \o SubSeq(s, i, Len(s))
      BY DEF InsertAt
    <3>3. QED  BY <3>1, <3>2 DEF Upto
  <2>2. QED  BY <2>1 DEF Beyond
<1>7. QED  BY <1>4, <1>5, <1>6 DEF s, m

LEMMA SiftLists ==
  ASSUME NEW s, IsList(s), NEW W, NEW p, NEW z
  PROVE  /\ IsList(KnownOf(s, W)) /\ IsList(OthersOf(s, W, p, z))
         /\ \A x : x \in ToSet(KnownOf(s, W)) <=> x \in ToSet(s) /\ x \in W
<1> DEFINE P == [i \in DOMAIN s |-> IF s[i] \in W THEN <<s[i]>> ELSE <<>>]
           Q == [i \in DOMAIN s |-> IF s[i] \in W THEN <<>>
                                    ELSE <<XmlExtension(p, z + i - 1, s[i])>>]
<1>1. KnownOf(s, W) = FlattenSeq(P) /\ OthersOf(s, W, p, z) = FlattenSeq(Q)
  BY DEF KnownOf, OthersOf
<1>2. Lists(P) /\ Lists(Q) /\ DOMAIN P = DOMAIN s
  <2>1. P = [i \in DOMAIN s |-> P[i]] /\ \A i \in DOMAIN s : P[i] = <<>> \/ \E x : P[i] = <<x>>
    OBVIOUS
  <2>2. Q = [i \in DOMAIN s |-> Q[i]] /\ \A i \in DOMAIN s : Q[i] = <<>> \/ \E x : Q[i] = <<x>>
    OBVIOUS
  <2> HIDE DEF P, Q
  <2>3. Lists(P) /\ DOMAIN P = DOMAIN s  BY <2>1, ShortLists
  <2>4. Lists(Q)  BY <2>2, ShortLists
  <2>5. QED  BY <2>3, <2>4
<1>3. \A i \in DOMAIN s : P[i] = IF s[i] \in W THEN <<s[i]>> ELSE <<>>  OBVIOUS
<1> HIDE DEF P, Q
<1>4. \A x : x \in ToSet(FlattenSeq(P)) <=> \E i \in DOMAIN s : x \in ToSet(P[i])
  BY <1>2, FlatParts
<1>5. ASSUME NEW x  PROVE x \in ToSet(FlattenSeq(P)) <=> x \in ToSet(s) /\ x \in W
  <2>1. \A i \in DOMAIN s : x \in ToSet(P[i]) <=> s[i] \in W /\ x = s[i]
    <3>1. \A y : ToSet(<<y>>) = {y}  BY DEF ToSet
    <3>2. ToSet(<<>>) = {}  BY DEF ToSet
    <3>3. ASSUME NEW i \in DOMAIN s  PROVE x \in ToSet(P[i]) <=> s[i] \in W /\ x = s[i]
      <4>1. CASE s[i] \in W
        <5>1. P[i] = <<s[i]>>  BY <1>3, <4>1
        <5>2. QED  BY <3>1, <4>1, <5>1
      <4>2. CASE s[i] \notin W
        <5>1. P[i] = <<>>  BY <1>3, <4>2
        <5>2. QED  BY <3>2, <4>2, <5>1
      <4>3. QED  BY <4>1, <4>2
    <3>4. QED  BY <3>3
  <2>2. x \in ToSet(s) <=> \E i \in DOMAIN s : x = s[i]  BY DEF ToSet
  <2>3. QED  BY <1>4, <2>1, <2>2
<1>6. QED  BY <1>1, <1>2, <1>5, FlatParts

LEMMA OthersNext ==
  ASSUME NEW s, IsList(s), NEW i \in 1..Len(s), NEW W, NEW p, NEW z \in Nat
  PROVE  /\ s[i] \in W =>
              OthersOf(Upto(s, i), W, p, z) = OthersOf(Upto(s, i - 1), W, p, z)
         /\ s[i] \notin W =>
              OthersOf(Upto(s, i), W, p, z)
                = OthersOf(Upto(s, i - 1), W, p, z) \o <<XmlExtension(p, z + i - 1, s[i])>>
<1> DEFINE a == Upto(s, i - 1)
           x == s[i]
           m == <<x>>
           y == z + Len(a)
<1>1. Len(s) \in Nat /\ i - 1 \in 0..Len(s)  BY ListParts
<1>2. IsList(a) /\ Len(a) = i - 1  BY <1>1, Pieced
<1>3. Upto(s, i) = a \o m  BY Onward
<1>4. y \in Nat /\ y = z + i - 1  BY <1>1, <1>2
<1>5. IsList(m)  BY DEF IsList, ToSet
<1>6. IsList(OthersOf(a, W, p, z))  BY <1>2, SiftLists
<1> HIDE DEF a, m, x
<1>7. OthersOf(Upto(s, i), W, p, z) = OthersOf(a, W, p, z) \o OthersOf(m, W, p, y)
  <2>1. OthersOf(a \o m, W, p, z) = OthersOf(a, W, p, z) \o OthersOf(m, W, p, z + Len(a))
    BY <1>2, <1>5, OthersConcat
  <2>2. QED  BY <1>3, <2>1
<1> HIDE DEF y
<1>8. /\ x \in W => OthersOf(m, W, p, y) = <<>>
      /\ x \notin W => OthersOf(m, W, p, y) = <<XmlExtension(p, y, x)>>
  BY <1>4, SiftOne DEF m
<1>9. OthersOf(a, W, p, z) \o <<>> = OthersOf(a, W, p, z)  BY <1>6, BothEnds
<1>10. QED  BY <1>4, <1>7, <1>8, <1>9 DEF a, x

\* The places are those of the elements, in their order.
Rising(u) == \A i, j \in 1..Len(u) : i < j => u[i].ordinal < u[j].ordinal

Placed(u, s, W, p, z, n) ==
  /\ IsList(u) /\ Rising(u)
  /\ \A j \in 1..Len(u) :
       /\ u[j] = XmlExtension(p, u[j].ordinal, u[j].xml)
       /\ u[j].ordinal \in z..(z + n - 1)
       /\ u[j].xml \in ToSet(s) \ W

LEMMA OthersPlaced ==
  ASSUME NEW s, IsList(s), NEW W, NEW p, NEW z \in Nat
  PROVE  Placed(OthersOf(s, W, p, z), s, W, p, z, Len(s))
<1> DEFINE n == Len(s)
           U(k) == OthersOf(Upto(s, k), W, p, z)
           B == {k \in 0..n : Placed(U(k), s, W, p, z, k)}
<1>1. n \in Nat /\ DOMAIN s = 1..n /\ \A i \in 1..n : s[i] \in ToSet(s)  BY ListParts
<1>2. 0 \in B
  <2>1. Upto(s, 0) = <<>> /\ IsList(<<>>) /\ Len(<<>>) = 0 /\ ToSet(<<>>) \subseteq W
    BY BothEnds DEF ToSet
  <2>2. U(0) = <<>>
    <3>1. OthersOf(<<>>, W, p, z) = <<>>  BY <2>1, SiftKnown
    <3>2. QED  BY <2>1, <3>1
  <2>3. Placed(<<>>, s, W, p, z, 0)
    <3>1. \A j : j \notin 1..Len(<<>>)  BY <2>1
    <3>2. QED  BY <2>1, <3>1 DEF Placed, Rising
  <2>4. 0 \in 0..n  BY <1>1
  <2> HIDE DEF U
  <2>5. QED  BY <2>2, <2>3, <2>4
<1>3. ASSUME NEW k \in 1..n, k - 1 \in B  PROVE k \in B
  <2> DEFINE u == U(k - 1)
             v == U(k)
             e == XmlExtension(p, z + k - 1, s[k])
  <2>1. Placed(u, s, W, p, z, k - 1)  BY <1>3
  <2>2. k \in 0..n /\ k \in 1..Len(s)  BY <1>1
  <2>3. (s[k] \in W => v = u) /\ (s[k] \notin W => v = u \o <<e>>)  BY <2>2, OthersNext
  <2>4. e.ordinal = z + k - 1 /\ e.xml = s[k] /\ e = XmlExtension(p, e.ordinal, e.xml)
    BY DEF XmlExtension
  <2> HIDE DEF u, v, e, U
  <2>5. IsList(u) /\ Len(u) \in Nat /\ Rising(u)
        /\ \A j \in 1..Len(u) : /\ u[j] = XmlExtension(p, u[j].ordinal, u[j].xml)
                                /\ u[j].ordinal \in z..(z + (k - 1) - 1)
                                /\ u[j].xml \in ToSet(s) \ W
    BY <2>1, ListParts DEF Placed
  <2>6. z..(z + (k - 1) - 1) \subseteq z..(z + k - 1) /\ z + k - 1 \in z..(z + k - 1)
    BY <1>1
  <2>7. CASE s[k] \in W
    <3>1. Placed(u, s, W, p, z, k)  BY <2>5, <2>6 DEF Placed
    <3>2. QED  BY <2>2, <2>3, <2>7, <3>1 DEF v
  <2>8. CASE s[k] \notin W
    <3> DEFINE m == <<e>>
               l == Len(u)
    <3>1. IsList(m) /\ Len(m) = 1 /\ m[1] = e  BY DEF IsList, ToSet
    <3>2. v = u \o m  BY <2>3, <2>8
    <3> HIDE DEF m
    <3>3. /\ IsList(v) /\ Len(v) = l + 1
          /\ \A j \in 1..l : v[j] = u[j]
          /\ v[l + 1] = e
      <4>1. /\ IsList(u \o m) /\ Len(u \o m) = Len(u) + Len(m)
            /\ \A j \in 1..Len(u) : (u \o m)[j] = u[j]
            /\ \A j \in 1..Len(m) : (u \o m)[Len(u) + j] = m[j]
        <5>1. IsList(u) /\ IsList(m)  BY <2>5, <3>1
        <5>2. QED  BY <5>1, Concat
      <4>2. 1 \in 1..Len(m)  BY <3>1
      <4>3. QED  BY <3>1, <3>2, <4>1, <4>2
    <3>4. \A j \in 1..Len(v) : j \in 1..l \/ j = l + 1  BY <2>5, <3>3
    <3>5. \A j \in 1..Len(v) : /\ v[j] = XmlExtension(p, v[j].ordinal, v[j].xml)
                               /\ v[j].ordinal \in z..(z + k - 1)
                               /\ v[j].xml \in ToSet(s) \ W
      <4>1. s[k] \in ToSet(s) \ W  BY <1>1, <2>8
      <4>2. QED  BY <2>4, <2>5, <2>6, <3>3, <3>4, <4>1
    <3>6. Rising(v)
      <4>1. ASSUME NEW i \in 1..Len(v), NEW j \in 1..Len(v), i < j
            PROVE  v[i].ordinal < v[j].ordinal
        <5>1. i \in 1..l  BY <2>5, <3>3, <3>4, <4>1
        <5>2. CASE j \in 1..l
          <6>1. u[i].ordinal < u[j].ordinal  BY <2>5, <4>1, <5>1, <5>2 DEF Rising
          <6>2. QED  BY <3>3, <5>1, <5>2, <6>1
        <5>3. CASE j = l + 1
          <6>1. v[j].ordinal = z + k - 1  BY <2>4, <3>3, <5>3
          <6>2. v[i].ordinal \in z..(z + (k - 1) - 1)  BY <2>5, <3>3, <5>1
          <6>3. QED  BY <1>1, <6>1, <6>2
        <5>4. QED  BY <3>4, <5>2, <5>3
      <4>2. QED  BY <4>1 DEF Rising
    <3>7. Placed(v, s, W, p, z, k)  BY <3>3, <3>5, <3>6 DEF Placed
    <3>8. QED  BY <2>2, <3>7 DEF v
  <2>9. QED  BY <2>7, <2>8
<1> HIDE DEF B
<1>4. \A k \in 0..n : k \in B  BY <1>1, <1>2, <1>3, Upward
<1>5. n \in 0..n  BY <1>1
<1>6. Placed(U(n), s, W, p, z, n)  BY <1>4, <1>5 DEF B
<1>7. Upto(s, n) = s  BY BothEnds
<1>8. QED  BY <1>6, <1>7

LEMMA Halves ==
  ASSUME NEW a, NEW b, IsList(a), IsList(b)
  PROVE  /\ IsList(a \o b) /\ Len(a \o b) = Len(a) + Len(b) /\ Len(a) \in 0..Len(a \o b)
         /\ Upto(a \o b, Len(a)) = a /\ Beyond(a \o b, Len(a)) = b
<1> DEFINE s == a \o b
           m == Len(a)
<1>1. /\ IsList(s) /\ Len(s) = m + Len(b) /\ m \in Nat /\ Len(b) \in Nat
      /\ \A k \in 1..m : s[k] = a[k]
      /\ \A k \in 1..Len(b) : s[m + k] = b[k]
  BY Concat, ListParts
<1> HIDE DEF s, m
<1>2. m \in 0..Len(s)  BY <1>1
<1>3. /\ IsList(Upto(s, m)) /\ Len(Upto(s, m)) = m
      /\ \A k \in 1..m : Upto(s, m)[k] = s[k]
      /\ IsList(Beyond(s, m)) /\ Len(Beyond(s, m)) = Len(s) - m
      /\ \A k \in 1..(Len(s) - m) : Beyond(s, m)[k] = s[m + k]
  BY <1>1, <1>2, Pieced
<1>4. Upto(s, m) = a
  <2>1. Len(Upto(s, m)) = Len(a)  BY <1>3 DEF m
  <2>2. \A k \in 1..Len(Upto(s, m)) : Upto(s, m)[k] = a[k]  BY <1>1, <1>3
  <2>3. QED  BY <1>3, <2>1, <2>2, SameList
<1>5. Beyond(s, m) = b
  <2>1. Len(Beyond(s, m)) = Len(b)  BY <1>1, <1>3
  <2>2. \A k \in 1..Len(Beyond(s, m)) : Beyond(s, m)[k] = b[k]  BY <1>1, <1>3, <2>1
  <2>3. QED  BY <1>3, <2>1, <2>2, SameList
<1>6. QED  BY <1>1, <1>2, <1>4, <1>5 DEF s, m

Ordinals(E) == \A i \in DOMAIN E : E[i].ordinal \in Nat

\* Sorting changes nothing when the places already rise.
LEMMA SortedAlready ==
  ASSUME NEW E, IsList(E), Ordinals(E), Rising(E)
  PROVE  ByPlace(E) = E
<1> DEFINE n == Len(E)
           D == 1..n
           r == ByPlace(E)
<1>1. n \in Nat /\ DOMAIN E = D /\ \A i \in D : E[i].ordinal \in Nat
  BY ListParts DEF Ordinals
<1>2. ASSUME NEW i \in D  PROVE Cardinality(Earlier(E, i)) = i - 1
  <2>1. Earlier(E, i) = 1..(i - 1)
    <3>1. ASSUME NEW j \in Earlier(E, i)  PROVE j \in 1..(i - 1)
      <4>1. j \in D /\ ~(i < j)  BY <1>1, <3>1 DEF Earlier, Rising
      <4>2. i # j  BY <1>1, <3>1 DEF Earlier
      <4>3. QED  BY <1>1, <4>1, <4>2
    <3>2. ASSUME NEW j \in 1..(i - 1)  PROVE j \in Earlier(E, i)
      <4>1. j \in D /\ j < i  BY <1>1
      <4>2. QED  BY <1>1, <4>1 DEF Earlier, Rising
    <3>3. QED  BY <3>1, <3>2
  <2>2. Cardinality(1..(i - 1)) = i - 1  BY <1>1, FS_Interval
  <2>3. QED  BY <2>1, <2>2
<1>3. r = [k \in D |-> E[CHOOSE i \in D : Cardinality(Earlier(E, i)) = k - 1]]
  BY <1>1 DEF ByPlace, Earlier
<1>4. ASSUME NEW k \in D  PROVE r[k] = E[k]
  <2> DEFINE c == CHOOSE i \in D : Cardinality(Earlier(E, i)) = k - 1
  <2>1. c \in D /\ Cardinality(Earlier(E, c)) = k - 1  BY <1>2
  <2>2. r[k] = E[c]  BY <1>3
  <2> HIDE DEF c
  <2>3. c - 1 = k - 1  BY <1>2, <2>1
  <2>4. c = k  BY <1>1, <2>1, <2>3
  <2>5. QED  BY <2>2, <2>4
<1>5. IsList(r) /\ Len(r) = n
  <2>1. \A i \in DOMAIN E : E[i].ordinal \in Nat  BY DEF Ordinals
  <2>2. QED  BY <2>1, Sorted
<1> HIDE DEF r
<1>6. r = E  BY <1>1, <1>4, <1>5, SameList
<1>7. QED  BY <1>6 DEF r

\* The lists that merging goes through.
Solves(f, known, u) ==
  /\ f[0] = known
  /\ \A k \in 0..Len(u) : IsList(f[k])
  /\ \A k \in 1..Len(u) :
       /\ Place(u[k].ordinal, Len(f[k - 1])) \in 0..Len(f[k - 1])
       /\ f[k] = (Upto(f[k - 1], Place(u[k].ordinal, Len(f[k - 1]))) \o <<u[k].xml>>)
                   \o Beyond(f[k - 1], Place(u[k].ordinal, Len(f[k - 1])))

LEMMA MergeSolves ==
  ASSUME NEW known, IsList(known), NEW E, IsList(E), Ordinals(E)
  PROVE  \E f : Solves(f, known, ByPlace(E)) /\ Merge(known, E) = f[Len(ByPlace(E))]
<1> DEFINE u == ByPlace(E)
           n == Len(u)
           f == CHOOSE f : MergesUpTo(f, known, u, n)
<1>1. IsList(u) /\ ToSet(u) = ToSet(E)
  <2>1. \A i \in DOMAIN E : E[i].ordinal \in Nat  BY DEF Ordinals
  <2>2. QED  BY <2>1, Sorted
<1>2. n \in Nat /\ DOMAIN u = 1..n  BY <1>1, ListParts
<1>3. MergesUpTo(f, known, u, n)  BY <1>2, MergesExist
<1>4. Merge(known, E) = f[n]  BY DEF Merge, MergesUpTo
<1> HIDE DEF f, u, n
<1>5. \A k \in 0..n :
        f[k] = IF k = 0 THEN known
               ELSE InsertAt(f[k - 1], Place(u[k].ordinal, Len(f[k - 1])) + 1, u[k].xml)
  BY <1>3 DEF MergesUpTo
<1>6. \A k \in 1..n : u[k].ordinal \in Nat
  <2>1. \A k \in 1..n : u[k] \in ToSet(E)  BY <1>1, <1>2 DEF ToSet
  <2>2. QED  BY <2>1 DEF ToSet, Ordinals
<1>7. ASSUME NEW k \in 1..n, IsList(f[k - 1])
      PROVE  /\ IsList(f[k])
             /\ Place(u[k].ordinal, Len(f[k - 1])) \in 0..Len(f[k - 1])
             /\ f[k] = (Upto(f[k - 1], Place(u[k].ordinal, Len(f[k - 1]))) \o <<u[k].xml>>)
                         \o Beyond(f[k - 1], Place(u[k].ordinal, Len(f[k - 1])))
  <2> DEFINE s == f[k - 1]
             m == Place(u[k].ordinal, Len(s))
             a == Upto(s, m)
             b == Beyond(s, m)
             x == u[k].xml
             o == <<x>>
  <2>1. IsList(s) /\ Len(s) \in Nat  BY <1>7, ListParts
  <2>2. m \in 0..Len(s)  BY <1>6, <2>1 DEF Place
  <2>3. f[k] = InsertAt(s, m + 1, x)
    <3>1. k \in 0..n /\ k # 0  BY <1>2
    <3>2. QED  BY <1>5, <3>1
  <2> HIDE DEF s, m, x
  <2>4. IsList(a) /\ Len(a) = m /\ IsList(b)  BY <2>1, <2>2, Pieced
  <2>5. s = a \o b  BY <2>1, <2>2, Cut
  <2>6. IsList(o)  BY DEF IsList, ToSet
  <2> HIDE DEF a, b
  <2>7. InsertAt(a \o b, Len(a) + 1, x) = (a \o o) \o b  BY <2>4, InsertBetween
  <2>8. f[k] = (a \o o) \o b  BY <2>3, <2>4, <2>5, <2>7
  <2> HIDE DEF o
  <2>9. IsList(a \o o)  BY <2>4, <2>6, Concat
  <2>10. IsList((a \o o) \o b)
    <3> DEFINE c == a \o o
    <3>1. IsList(c)  BY <2>9
    <3> HIDE DEF c
    <3>2. IsList(c \o b)  BY <2>4, <3>1, Concat
    <3>3. QED  BY <3>2 DEF c
  <2>11. QED  BY <2>2, <2>8, <2>10 DEF s, m, a, b, o, x
<1> DEFINE B == {k \in 0..n : IsList(f[k])}
<1>8. f[0] = known
  <2>1. 0 \in 0..n  BY <1>2
  <2>2. QED  BY <1>5, <2>1
<1>9. 0 \in B
  <2>1. 0 \in 0..n  BY <1>2
  <2>2. QED  BY <1>8, <2>1
<1>10. ASSUME NEW k \in 1..n, k - 1 \in B  PROVE k \in B
  <2>1. k \in 0..n  BY <1>2
  <2>2. QED  BY <1>7, <1>10, <2>1
<1> HIDE DEF B
<1>11. \A k \in 0..n : k \in B  BY <1>2, <1>9, <1>10, Upward
<1>12. \A k \in 0..n : IsList(f[k])  BY <1>11 DEF B
<1>13. \A k \in 1..n : IsList(f[k - 1])
  <2>1. \A k \in 1..n : k - 1 \in 0..n  BY <1>2
  <2>2. QED  BY <1>12, <2>1
<1>14. Solves(f, known, u)  BY <1>7, <1>8, <1>12, <1>13 DEF Solves, n
<1>15. QED  BY <1>4, <1>14 DEF u, n

\* What is merged is unknown, and what it is merged with is known.
Foreign(E, W) == \A i \in DOMAIN E : E[i].xml \notin W

\* The same elements, none further back.
Returned(o, E, n) ==
  /\ IsList(o) /\ Len(o) = n
  /\ \A i \in 1..n : o[i].xml = E[i].xml /\ o[i].ordinal <= E[i].ordinal

\* The last unknown element has been put in, and what follows is known.
Behind(s, E, k, W) ==
  \E b \in 0..Len(s) :
    /\ b # 0 => k > 0 /\ b <= E[k].ordinal + 1
    /\ \A i \in (b + 1)..Len(s) : s[i] \in W

\* A list goes on like another after one element more.
FollowedBy(r, m, b) ==
  Len(r) = m + 1 + Len(b) /\ \A i \in 1..Len(b) : r[m + 1 + i] = b[i]

\* A list that is written as three parts, of which the second is one element.
LEMMA InThree ==
  ASSUME NEW a, NEW o, NEW b, IsList(a), IsList(b), IsList(o), Len(o) = 1
  PROVE  FollowedBy((a \o o) \o b, Len(a), b)
<1> DEFINE c == a \o o
<1>1. IsList(c) /\ Len(c) = Len(a) + 1  BY Concat
<1> HIDE DEF c
<1>2. Len(c \o b) = Len(c) + Len(b) /\ \A i \in 1..Len(b) : (c \o b)[Len(c) + i] = b[i]
  BY <1>1, Concat
<1>3. FollowedBy(c \o b, Len(a), b)  BY <1>1, <1>2 DEF FollowedBy
<1>4. QED  BY <1>3 DEF c

LEMMA InThreeKnown ==
  ASSUME NEW a, NEW o, NEW b, IsList(a), IsList(b), IsList(o), NEW W
  PROVE  KnownOf((a \o o) \o b, W) = (KnownOf(a, W) \o KnownOf(o, W)) \o KnownOf(b, W)
<1> DEFINE c == a \o o
<1>1. IsList(c)  BY Concat
<1>2. KnownOf(c, W) = KnownOf(a, W) \o KnownOf(o, W)  BY KnownConcat
<1> HIDE DEF c
<1>3. KnownOf(c \o b, W) = KnownOf(c, W) \o KnownOf(b, W)  BY <1>1, KnownConcat
<1>4. QED  BY <1>2, <1>3 DEF c

LEMMA InThreeOthers ==
  ASSUME NEW a, NEW o, NEW b, IsList(a), IsList(b), IsList(o), Len(o) = 1, NEW W, NEW p
  PROVE  OthersOf((a \o o) \o b, W, p, 0)
           = (OthersOf(a, W, p, 0) \o OthersOf(o, W, p, Len(a)))
               \o OthersOf(b, W, p, Len(a) + 1)
<1> DEFINE c == a \o o
<1>1. IsList(c) /\ Len(c) = Len(a) + 1  BY Concat
<1>2. Len(a) \in Nat  BY ListParts
<1>3. OthersOf(c, W, p, 0) = OthersOf(a, W, p, 0) \o OthersOf(o, W, p, Len(a))
  <2>1. OthersOf(c, W, p, 0) = OthersOf(a, W, p, 0) \o OthersOf(o, W, p, 0 + Len(a))
    BY OthersConcat
  <2>2. 0 + Len(a) = Len(a)  BY <1>2
  <2>3. QED  BY <2>1, <2>2
<1> HIDE DEF c
<1>4. OthersOf(c \o b, W, p, 0) = OthersOf(c, W, p, 0) \o OthersOf(b, W, p, Len(a) + 1)
  <2>1. OthersOf(c \o b, W, p, 0) = OthersOf(c, W, p, 0) \o OthersOf(b, W, p, 0 + Len(c))
    BY <1>1, OthersConcat
  <2>2. 0 + Len(c) = Len(a) + 1  BY <1>1, <1>2
  <2>3. QED  BY <2>1, <2>2
<1>5. QED  BY <1>3, <1>4 DEF c

\* Merging leaves the known elements as they are.
LEMMA MergeKnown ==
  ASSUME NEW K, IsList(K), NEW E, IsList(E), Ordinals(E), NEW W,
         ToSet(K) \subseteq W, Foreign(E, W)
  PROVE  KnownOf(Merge(K, E), W) = K
<1> DEFINE u == ByPlace(E)
           n == Len(u)
<1>1. PICK f : Solves(f, K, u) /\ Merge(K, E) = f[n]  BY MergeSolves
<1>2. IsList(u) /\ ToSet(u) = ToSet(E)
  <2>1. \A i \in DOMAIN E : E[i].ordinal \in Nat  BY DEF Ordinals
  <2>2. QED  BY <2>1, Sorted
<1>3. n \in Nat /\ DOMAIN u = 1..n  BY <1>2, ListParts
<1>4. \A k \in 1..n : u[k].xml \notin W
  <2>1. \A k \in 1..n : u[k] \in ToSet(E)  BY <1>2, <1>3 DEF ToSet
  <2>2. QED  BY <2>1 DEF ToSet, Foreign
<1> HIDE DEF u, n
<1> DEFINE B == {k \in 0..n : KnownOf(f[k], W) = K}
<1>5. 0 \in B
  <2>1. f[0] = K /\ 0 \in 0..n  BY <1>1, <1>3 DEF Solves
  <2>2. KnownOf(K, W) = K  BY SiftKnown
  <2>3. QED  BY <2>1, <2>2
<1>6. ASSUME NEW k \in 1..n, k - 1 \in B  PROVE k \in B
  <2> DEFINE s == f[k - 1]
             m == Place(u[k].ordinal, Len(s))
             a == Upto(s, m)
             b == Beyond(s, m)
             x == u[k].xml
             o == <<x>>
  <2>1. k \in 0..n /\ k - 1 \in 0..n  BY <1>3
  <2>2. IsList(s) /\ m \in 0..Len(s) /\ f[k] = (a \o o) \o b
    BY <1>1, <2>1 DEF Solves, n
  <2>3. KnownOf(s, W) = K  BY <1>6
  <2>4. x \notin W /\ IsList(o)  BY <1>4 DEF IsList, ToSet
  <2> HIDE DEF s, m, x
  <2>5. IsList(a) /\ IsList(b) /\ s = a \o b  BY <2>2, Pieced, Cut
  <2> HIDE DEF a, b
  <2>6. K = KnownOf(a, W) \o KnownOf(b, W)  BY <2>3, <2>5, KnownConcat
  <2>8. KnownOf(o, W) = <<>>
    <3>1. 0 \in Nat  OBVIOUS
    <3>2. QED  BY <2>4, <3>1, SiftOne
  <2> HIDE DEF o
  <2>7. KnownOf(f[k], W) = (KnownOf(a, W) \o KnownOf(o, W)) \o KnownOf(b, W)
    BY <2>2, <2>4, <2>5, InThreeKnown
  <2>9. KnownOf(a, W) \o <<>> = KnownOf(a, W)
    <3>1. IsList(KnownOf(a, W))  BY <2>5, SiftLists
    <3>2. QED  BY <3>1, BothEnds
  <2>10. QED  BY <2>1, <2>6, <2>7, <2>8, <2>9
<1> HIDE DEF B
<1>7. \A k \in 0..n : k \in B  BY <1>3, <1>5, <1>6, Upward
<1>8. n \in 0..n  BY <1>3
<1>9. QED  BY <1>1, <1>7, <1>8 DEF B

\* What was merged is found again in its order, and none of it further back.
LEMMA MergeSifts ==
  ASSUME NEW K, IsList(K), NEW E, IsList(E), Ordinals(E), Rising(E), NEW W, NEW p,
         ToSet(K) \subseteq W, Foreign(E, W)
  PROVE  Returned(OthersOf(Merge(K, E), W, p, 0), E, Len(E))
<1> DEFINE n == Len(E)
<1>1. PICK f : Solves(f, K, E) /\ Merge(K, E) = f[n]  BY MergeSolves, SortedAlready
<1>2. n \in Nat /\ DOMAIN E = 1..n /\ \A k \in 1..n : E[k].ordinal \in Nat /\ E[k].xml \notin W
  BY ListParts DEF Ordinals, Foreign
<1>3. \A k \in 2..n : E[k - 1].ordinal < E[k].ordinal
  <2>1. \A k \in 2..n : k - 1 \in 1..n /\ k \in 1..n /\ k - 1 < k  BY <1>2
  <2>2. QED  BY <2>1 DEF Rising
<1> HIDE DEF n
<1> DEFINE O(k) == OthersOf(f[k], W, p, 0)
           B == {k \in 0..n : Returned(O(k), E, k) /\ Behind(f[k], E, k, W)}
<1>4. 0 \in B
  <2>1. f[0] = K /\ 0 \in 0..n  BY <1>1, <1>2 DEF Solves
  <2>2. OthersOf(K, W, p, 0) = <<>>  BY SiftKnown
  <2>3. Returned(<<>>, E, 0)
    <3>1. IsList(<<>>) /\ Len(<<>>) = 0  BY DEF IsList
    <3>2. QED  BY <3>1 DEF Returned
  <2>4. Behind(K, E, 0, W)
    <3>1. Len(K) \in Nat /\ 0 \in 0..Len(K) /\ 0 + 1 = 1  BY ListParts
    <3>2. \A i \in 1..Len(K) : K[i] \in W  BY ListParts DEF ToSet
    <3>3. QED  BY <3>1, <3>2 DEF Behind
  <2>5. QED  BY <2>1, <2>2, <2>3, <2>4
<1>5. ASSUME NEW k \in 1..n, k - 1 \in B  PROVE k \in B
  <2> DEFINE s == f[k - 1]
             z == E[k].ordinal
             m == Place(z, Len(s))
             a == Upto(s, m)
             c == Beyond(s, m)
             x == E[k].xml
             r == f[k]
             l == Len(s)
             o == O(k - 1)
             e == XmlExtension(p, m, x)
             q == <<x>>
  <2>1. k \in 0..n /\ k - 1 \in 0..n  BY <1>2
  <2>2. IsList(s) /\ m \in 0..l /\ r = (a \o q) \o c /\ IsList(r)
    BY <1>1, <2>1 DEF Solves, n
  <2>3. o = OthersOf(s, W, p, 0) /\ Returned(o, E, k - 1) /\ Behind(s, E, k - 1, W)
    BY <1>5
  <2>4. x \notin W /\ z \in Nat  BY <1>2
  <2>5. PICK b \in 0..l : /\ b # 0 => k - 1 > 0 /\ b <= E[k - 1].ordinal + 1
                          /\ \A i \in (b + 1)..l : s[i] \in W
    BY <2>3 DEF Behind
  <2>6. m <= z /\ l \in Nat /\ m \in Nat /\ b <= m
    <3>1. l \in Nat  BY <2>2, ListParts
    <3>2. b <= z
      <4>1. CASE b = 0  BY <2>4, <4>1
      <4>2. CASE b # 0
        <5>1. k \in 2..n /\ k - 1 \in 1..n  BY <2>5, <4>2, <1>2
        <5>2. E[k - 1].ordinal < z /\ E[k - 1].ordinal \in Nat  BY <1>2, <1>3, <5>1
        <5>3. b <= E[k - 1].ordinal + 1  BY <2>5, <4>2
        <5>4. QED  BY <2>4, <2>5, <3>1, <5>2, <5>3
      <4>3. QED  BY <4>1, <4>2
    <3>3. QED  BY <2>4, <2>5, <3>1, <3>2 DEF Place
  <2> HIDE DEF s, m, x, z, r, l, o, O
  <2>7. /\ IsList(a) /\ Len(a) = m /\ s = a \o c
        /\ IsList(c) /\ Len(c) = l - m /\ \A i \in 1..(l - m) : c[i] = s[m + i]
    BY <2>2, Pieced, Cut DEF l
  <2>8. ToSet(c) \subseteq W
    <3>1. DOMAIN c = 1..(l - m)  BY <2>7, ListParts
    <3>2. \A i \in 1..(l - m) : m + i \in (b + 1)..l  BY <2>5, <2>6
    <3>3. \A i \in 1..(l - m) : c[i] \in W  BY <2>5, <2>7, <3>2
    <3>4. QED  BY <3>1, <3>3 DEF ToSet
  <2>15. IsList(a) /\ IsList(c)  BY <2>7
  <2> HIDE DEF a, c
  <2>16. IsList(q) /\ Len(q) = 1  BY DEF IsList, ToSet
  <2>17. OthersOf(q, W, p, Len(a)) = <<e>>  BY <2>4, <2>6, <2>7, SiftOne
  <2> HIDE DEF q
  <2>9. o = OthersOf(a, W, p, 0)
    <3>1. OthersOf(a \o c, W, p, 0) = OthersOf(a, W, p, 0) \o OthersOf(c, W, p, 0 + Len(a))
      BY <2>15, OthersConcat
    <3>2. OthersOf(c, W, p, 0 + Len(a)) = <<>>  BY <2>8, <2>15, SiftKnown
    <3>3. OthersOf(a, W, p, 0) \o <<>> = OthersOf(a, W, p, 0)
      <4>1. IsList(OthersOf(a, W, p, 0))  BY <2>15, SiftLists
      <4>2. QED  BY <4>1, BothEnds
    <3>4. QED  BY <2>3, <2>7, <3>1, <3>2, <3>3
  <2>10. OthersOf(r, W, p, 0) = o \o <<e>>
    <3>1. OthersOf((a \o q) \o c, W, p, 0)
            = (OthersOf(a, W, p, 0) \o OthersOf(q, W, p, Len(a))) \o OthersOf(c, W, p, Len(a) + 1)
      BY <2>15, <2>16, InThreeOthers
    <3>3. OthersOf(c, W, p, Len(a) + 1) = <<>>  BY <2>8, <2>15, SiftKnown
    <3>4. IsList(o \o <<e>>)
      <4>1. IsList(o) /\ IsList(<<e>>)  BY <2>3 DEF IsList, ToSet, Returned
      <4>2. QED  BY <4>1, Concat
    <3>5. (o \o <<e>>) \o <<>> = o \o <<e>>  BY <3>4, BothEnds
    <3>6. QED  BY <2>2, <2>9, <2>17, <3>1, <3>3, <3>5
  <2>11. e.xml = x /\ e.ordinal = m  BY DEF XmlExtension
  <2>12. Returned(O(k), E, k)
    <3> DEFINE g == <<e>>
               t == o \o g
    <3>1. IsList(o) /\ Len(o) = k - 1 /\ IsList(g) /\ Len(g) = 1 /\ g[1] = e
      BY <2>3 DEF IsList, ToSet, Returned
    <3> HIDE DEF g, e
    <3>9. IsList(o) /\ IsList(g)  BY <3>1
    <3>2. IsList(t) /\ Len(t) = Len(o) + Len(g) /\ (\A i \in 1..Len(o) : t[i] = o[i])
          /\ \A i \in 1..Len(g) : t[Len(o) + i] = g[i]
      BY <3>9, Concat
    <3> HIDE DEF t
    <3>3. Len(t) = k  BY <3>1, <3>2
    <3>4. t[k] = e
      <4>1. 1 \in 1..Len(g) /\ Len(o) + 1 = k  BY <3>1
      <4>2. QED  BY <3>1, <3>2, <4>1
    <3>5. ASSUME NEW i \in 1..k  PROVE t[i].xml = E[i].xml /\ t[i].ordinal <= E[i].ordinal
      <4>1. CASE i = k  BY <2>6, <2>11, <3>4, <4>1 DEF x, z
      <4>2. CASE i # k
        <5>1. i \in 1..(k - 1)  BY <4>2
        <5>2. t[i] = o[i]  BY <3>1, <3>2, <5>1
        <5>3. QED  BY <2>3, <5>1, <5>2 DEF Returned
      <4>3. QED  BY <4>1, <4>2
    <3>6. Returned(t, E, k)  BY <3>2, <3>3, <3>5 DEF Returned
    <3>7. O(k) = t  BY <2>10 DEF O, r, t, g
    <3>8. QED  BY <3>6, <3>7
  <2>13. Behind(f[k], E, k, W)
    <3>1. /\ Len(r) = m + 1 + (l - m)
          /\ \A i \in 1..(l - m) : r[m + 1 + i] = c[i]
      <4>1. FollowedBy((a \o q) \o c, Len(a), c)  BY <2>15, <2>16, InThree
      <4>2. FollowedBy(r, m, c)  BY <2>2, <2>7, <4>1
      <4>3. QED  BY <2>7, <4>2 DEF FollowedBy
    <3>2. \A i \in 1..(l - m) : c[i] \in W
      <4>1. DOMAIN c = 1..(l - m)  BY <2>7, ListParts
      <4>2. QED  BY <2>8, <4>1 DEF ToSet
    <3>3. m + 1 \in 0..Len(r) /\ k > 0 /\ m + 1 <= z + 1
      BY <2>2, <2>4, <2>6, <3>1
    <3>4. ASSUME NEW i \in ((m + 1) + 1)..Len(r)  PROVE r[i] \in W
      <4>1. i - (m + 1) \in 1..(l - m) /\ m + 1 + (i - (m + 1)) = i  BY <2>2, <2>6, <3>1
      <4>2. r[m + 1 + (i - (m + 1))] = c[i - (m + 1)]  BY <3>1, <4>1
      <4>3. QED  BY <3>2, <4>1, <4>2
    <3>5. Behind(r, E, k, W)  BY <3>3, <3>4 DEF Behind, z
    <3>6. QED  BY <3>5 DEF r
  <2>14. QED  BY <2>1, <2>12, <2>13
<1> HIDE DEF B
<1>6. \A k \in 0..n : k \in B  BY <1>2, <1>4, <1>5, Upward
<1>7. n \in 0..n  BY <1>2
<1>8. QED  BY <1>1, <1>6, <1>7 DEF B, n

Regroups(a, b, c) == (a \o b) \o c = a \o (b \o c)

LEMMA Regrouping ==
  ASSUME NEW a, NEW b, NEW c, IsList(a), IsList(b), IsList(c)
  PROVE  Regroups(a, b, c)
BY Associative DEF Regroups

\* What was sifted out of a list goes back where it was.
LEMMA MergeAgain ==
  ASSUME NEW R, IsList(R), NEW W, NEW p
  PROVE  Merge(KnownOf(R, W), OthersOf(R, W, p, 0)) = R
<1> DEFINE n == Len(R)
           K == KnownOf(R, W)
           E == OthersOf(R, W, p, 0)
           U(j) == OthersOf(Upto(R, j), W, p, 0)
           M(j) == KnownOf(Beyond(R, j), W)
<1>1. n \in Nat /\ IsList(R) /\ IsList(K) /\ IsList(E)  BY ListParts, SiftLists
<1>2. Ordinals(E) /\ Rising(E)
  <2>1. 0 \in Nat  OBVIOUS
  <2>2. Placed(E, R, W, p, 0, n)  BY <2>1, OthersPlaced
  <2>3. DOMAIN E = 1..Len(E)  BY <1>1, ListParts
  <2> HIDE DEF E, n
  <2>4. \A j \in 1..Len(E) : E[j].ordinal \in 0..(0 + n - 1)  BY <2>2 DEF Placed
  <2>5. 0..(0 + n - 1) \subseteq Nat  BY <1>1
  <2>6. QED  BY <2>2, <2>3, <2>4, <2>5 DEF Placed, Ordinals
<1>3. PICK f : Solves(f, K, E) /\ Merge(K, E) = f[Len(E)]
  BY <1>1, <1>2, MergeSolves, SortedAlready
<1>4. ASSUME NEW j \in 0..n
      PROVE  /\ IsList(U(j)) /\ Len(U(j)) \in 0..Len(E) /\ IsList(M(j))
             /\ \A i \in 1..Len(U(j)) : E[i] = U(j)[i]
  <2> DEFINE a == Upto(R, j)
             b == Beyond(R, j)
             y == 0 + Len(a)
             v == OthersOf(b, W, p, y)
             u == U(j)
  <2>1. IsList(a) /\ IsList(b) /\ R = a \o b  BY <1>1, Pieced, Cut
  <2>2. IsList(u) /\ IsList(v) /\ IsList(M(j))
    <3>1. IsList(OthersOf(a, W, p, 0)) /\ IsList(v) /\ IsList(KnownOf(b, W))
      BY <2>1, SiftLists
    <3>2. QED  BY <3>1
  <2>3. E = u \o v
    <3>1. 0 \in Nat  OBVIOUS
    <3>2. OthersOf(a \o b, W, p, 0) = OthersOf(a, W, p, 0) \o OthersOf(b, W, p, 0 + Len(a))
      <4> HIDE DEF a, b
      <4>1. QED  BY <2>1, <3>1, OthersConcat
    <3>3. QED  BY <2>1, <3>2
  <2> HIDE DEF u, v, E, U, M
  <2>4. Len(E) = Len(u) + Len(v) /\ \A i \in 1..Len(u) : E[i] = u[i]  BY <2>2, <2>3, Concat
  <2>5. Len(u) \in Nat /\ Len(v) \in Nat  BY <2>2, ListParts
  <2>6. Len(u) \in 0..Len(E)  BY <2>4, <2>5
  <2>7. QED  BY <2>2, <2>4, <2>6 DEF u
<1> DEFINE B == {j \in 0..n : f[Len(U(j))] = Upto(R, j) \o M(j)}
<1>5. 0 \in B
  <2>1. 0 \in 0..n  BY <1>1
  <2>2. Upto(R, 0) = <<>> /\ Beyond(R, 0) = R  BY <1>1, BothEnds
  <2>3. U(0) = <<>>
    <3>1. IsList(<<>>) /\ ToSet(<<>>) \subseteq W  BY DEF IsList, ToSet
    <3>2. OthersOf(<<>>, W, p, 0) = <<>>  BY <3>1, SiftKnown
    <3>3. QED  BY <2>2, <3>2
  <2>4. M(0) = K  BY <2>2
  <2>5. f[0] = K  BY <1>3 DEF Solves
  <2> HIDE DEF U, M, K
  <2>6. Len(U(0)) = 0  BY <2>3
  <2>7. <<>> \o K = K  BY <1>1, BothEnds
  <2>8. QED  BY <2>1, <2>2, <2>4, <2>5, <2>6, <2>7
<1>6. ASSUME NEW j \in 1..n, j - 1 \in B  PROVE j \in B
  <2> DEFINE x == R[j]
             o == <<x>>
             a == Upto(R, j - 1)
             c == Beyond(R, j)
             k == KnownOf(c, W)
             l == Len(U(j - 1))
             s == f[l]
             e == XmlExtension(p, j - 1, x)
  <2>1. j \in 0..n /\ j - 1 \in 0..n /\ j \in 1..Len(R)  BY <1>1
  <2>2. IsList(a) /\ Len(a) = j - 1 /\ IsList(c)  BY <1>1, <2>1, Pieced
  <2>3. Upto(R, j) = a \o o /\ Beyond(R, j - 1) = o \o c  BY <1>1, <2>1, Onward
  <2>4. /\ x \in W => U(j) = U(j - 1)
        /\ x \notin W => U(j) = U(j - 1) \o <<e>>
    <3>1. 0 \in Nat /\ 0 + j - 1 = j - 1  BY <2>1
    <3>2. /\ x \in W => U(j) = U(j - 1)
          /\ x \notin W => U(j) = U(j - 1) \o <<XmlExtension(p, 0 + j - 1, R[j])>>
      BY <1>1, <2>1, <3>1, OthersNext
    <3>3. QED  BY <3>1, <3>2
  <2>5. IsList(o)  BY DEF IsList, ToSet
  <2>6. (x \in W => KnownOf(o, W) = o) /\ (x \notin W => KnownOf(o, W) = <<>>)
    <3>1. 0 \in Nat  OBVIOUS
    <3>2. QED  BY <3>1, SiftOne
  <2>7. IsList(k)  BY <2>2, SiftLists
  <2>8. s = a \o M(j - 1)  BY <1>6
  <2>9. e.ordinal = j - 1 /\ e.xml = x  BY DEF XmlExtension
  <2> HIDE DEF o, a, c, e, x
  <2>10. M(j - 1) = KnownOf(o, W) \o k
    <3>1. KnownOf(o \o c, W) = KnownOf(o, W) \o KnownOf(c, W)  BY <2>2, <2>5, KnownConcat
    <3>2. QED  BY <2>3, <3>1
  <2>11. M(j) = k  BY DEF c
  <2>12. IsList(U(j - 1)) /\ IsList(U(j)) /\ l \in Nat
         /\ Len(U(j)) \in 0..Len(E) /\ \A i \in 1..Len(U(j)) : E[i] = U(j)[i]
    BY <1>4, <2>1, ListParts
  <2> HIDE DEF M, k, U, l, E
  <2>13. CASE x \in W
    <3>1. f[Len(U(j))] = a \o (o \o k)  BY <2>4, <2>6, <2>8, <2>10, <2>13 DEF l
    <3>2. a \o (o \o k) = (a \o o) \o k
      <4>1. IsList(a) /\ IsList(o) /\ IsList(k)  BY <2>2, <2>5, <2>7
      <4>2. Regroups(a, o, k)  BY <4>1, Regrouping
      <4>3. QED  BY <4>2 DEF Regroups
    <3>3. QED  BY <2>1, <2>3, <2>11, <3>1, <3>2
  <2>14. CASE x \notin W
    <3> DEFINE g == <<e>>
               v == U(j)
    <3>1. IsList(g) /\ Len(g) = 1 /\ g[1] = e  BY DEF IsList, ToSet
    <3>2. v = U(j - 1) \o g  BY <2>4, <2>14
    <3> HIDE DEF g
    <3>3. Len(v) = l + 1 /\ v[l + 1] = e
      <4> DEFINE w == U(j - 1)
      <4>1. IsList(w) /\ IsList(g)  BY <2>12, <3>1
      <4> HIDE DEF w
      <4>2. Len(w \o g) = Len(w) + Len(g) /\ \A i \in 1..Len(g) : (w \o g)[Len(w) + i] = g[i]
        BY <4>1, Concat
      <4>3. 1 \in 1..Len(g)  BY <3>1
      <4>4. QED  BY <3>1, <3>2, <4>2, <4>3 DEF w, l
    <3>4. E[l + 1] = e /\ l + 1 \in 1..Len(E)
      <4>1. l + 1 \in 1..Len(v) /\ l + 1 \in 1..Len(E)
        <5>1. Len(v) \in 0..Len(E)  BY <2>12
        <5>2. QED  BY <2>12, <3>3, <5>1
      <4>2. QED  BY <2>12, <3>3, <4>1
    <3>5. s = a \o k
      <4>1. <<>> \o k = k  BY <2>7, BothEnds
      <4>2. QED  BY <2>6, <2>8, <2>10, <2>14, <4>1
    <3>6. /\ Len(s) = Len(a) + Len(k) /\ Len(k) \in Nat
          /\ Upto(s, j - 1) = a /\ Beyond(s, j - 1) = k
      <4>1. /\ Len(a \o k) = Len(a) + Len(k)
            /\ Upto(a \o k, Len(a)) = a /\ Beyond(a \o k, Len(a)) = k
        BY <2>2, <2>7, Halves
      <4>2. QED  BY <2>2, <2>7, <3>5, <4>1, ListParts
    <3>7. Place(e.ordinal, Len(s)) = j - 1
      <4>1. j - 1 \in Nat  BY <2>1
      <4>2. QED  BY <2>2, <2>9, <3>6, <4>1 DEF Place
    <3>8. f[l + 1] = (Upto(f[l], Place(e.ordinal, Len(f[l]))) \o <<e.xml>>)
                       \o Beyond(f[l], Place(e.ordinal, Len(f[l])))
      <4>1. (l + 1) - 1 = l  BY <2>12
      <4>2. \A i \in 1..Len(E) :
              f[i] = (Upto(f[i - 1], Place(E[i].ordinal, Len(f[i - 1]))) \o <<E[i].xml>>)
                       \o Beyond(f[i - 1], Place(E[i].ordinal, Len(f[i - 1])))
        BY <1>3 DEF Solves
      <4>3. QED  BY <3>4, <4>1, <4>2
    <3>9. f[l + 1] = (a \o o) \o k  BY <2>9, <3>6, <3>7, <3>8 DEF o
    <3>10. QED  BY <2>1, <2>3, <2>11, <3>3, <3>9
  <2>15. QED  BY <2>13, <2>14
<1> HIDE DEF B
<1>7. \A j \in 0..n : j \in B  BY <1>1, <1>5, <1>6, Upward
<1>8. f[Len(U(n))] = Upto(R, n) \o M(n)
  <2>1. n \in 0..n  BY <1>1
  <2>2. QED  BY <1>7, <2>1 DEF B
<1>9. Upto(R, n) = R /\ Beyond(R, n) = <<>> /\ R \o <<>> = R  BY <1>1, BothEnds
<1>10. M(n) = <<>>
  <2>1. IsList(<<>>) /\ ToSet(<<>>) \subseteq W  BY DEF IsList, ToSet
  <2>2. KnownOf(<<>>, W) = <<>>  BY <2>1, SiftKnown
  <2>3. QED  BY <1>9, <2>2
<1>11. U(n) = E  BY <1>9
<1>12. QED  BY <1>3, <1>8, <1>9, <1>10, <1>11
=============================================================================
