---------------------------- MODULE SequenceLemmas ----------------------------
(***************************************************************************)
(* What the sequence operators of the models return: RemoveFirst of the    *)
(* community modules (the nudges kept for an absent host and the ledger of *)
(* messages pushed to a session lose one entry and keep the others),       *)
(* KeepAt, FlattenSeq, the entries of a sequence taken as a set, and       *)
(* SetToSeq.                                                               *)
(*                                                                         *)
(* KeepAt and FlattenSeq are recursive functions.  A fact about one of     *)
(* them is an induction over its run, and the induction is over a SET of   *)
(* numbers (InductionOnNat), which needs no operator parameter: it comes   *)
(* from the library's theorem that < is well founded on the naturals.      *)
(***************************************************************************)
EXTENDS Integers, Sequences, SequencesExt, SequenceParts, SequenceTheorems,
        FiniteSetTheorems, WellFoundedInduction, TLAPS

\* The first of some positions.
LEMMA FirstPosition ==
  ASSUME NEW I \in SUBSET Nat, I # {}
  PROVE  Min(I) \in I
<1>1. PICK m \in I : \A n \in I : ~ (<<n, m>> \in OpToRel(<, Nat))
  BY NatLessThanWellFounded, WFMin
<1>2. \A n \in I : ~ (n < m)  BY <1>1, Zenon DEF OpToRel
<1>3. \A n \in I : m =< n  BY <1>2
<1> QED  BY <1>3 DEF Min

\* Induction, said of a set of numbers.
LEMMA InductionOnNat ==
  ASSUME NEW S, 0 \in S, \A n \in Nat : n \in S => n + 1 \in S
  PROVE  \A n \in Nat : n \in S
<1> DEFINE T == {n \in Nat : n \notin S}
<1>1. SUFFICES ASSUME T # {} PROVE FALSE  OBVIOUS
<1>2. PICK x \in T : \A n \in T : ~ (<<n, x>> \in OpToRel(<, Nat))
  BY <1>1, NatLessThanWellFounded, WFMin
<1>3. \A n \in T : ~ (n < x)  BY <1>2, Zenon DEF OpToRel
<1>4. x \in Nat /\ x # 0 /\ x \notin S  BY <1>2
<1>5. x - 1 \in Nat /\ x - 1 + 1 = x /\ x - 1 < x  BY <1>4
<1>6. x - 1 \in S  BY <1>3, <1>5
<1> QED  BY <1>4, <1>5, <1>6

\* One entry goes, and only one that equals what is removed.
LEMMA RemoveFirstFacts ==
  ASSUME NEW S, NEW s \in Seq(S), NEW e
  PROVE  /\ RemoveFirst(s, e) \in Seq(S)
         /\ Len(RemoveFirst(s, e)) =< Len(s)
         /\ \A x \in S : Contains(RemoveFirst(s, e), x) => Contains(s, x)
         /\ \A x \in S : Contains(s, x) /\ x # e => Contains(RemoveFirst(s, e), x)
<1>1. CASE ~ \E i \in 1 .. Len(s) : s[i] = e
  BY <1>1 DEF RemoveFirst
<1>2. CASE \E i \in 1 .. Len(s) : s[i] = e
  <2> DEFINE I == {i \in 1 .. Len(s) : s[i] = e}
  <2>1. PICK k : k = Min(I)  OBVIOUS
  <2>2. k \in 1 .. Len(s) /\ s[k] = e
    <3>1. I \in SUBSET Nat /\ I # {}  BY <1>2
    <3> QED  BY <2>1, <3>1, FirstPosition
  <2>3. RemoveFirst(s, e) = SubSeq(s, 1, k - 1) \o SubSeq(s, k + 1, Len(s))
    <3>1. SelectInSeq(s, LAMBDA v : v = e) = k  BY <1>2, <2>1 DEF SelectInSeq
    <3> QED  BY <1>2, <3>1 DEF RemoveFirst, RemoveAt
  <2> DEFINE a == SubSeq(s, 1, k - 1)  b == SubSeq(s, k + 1, Len(s))
  <2>4. /\ a \in Seq(S) /\ Len(a) = k - 1 /\ \A i \in 1 .. k - 1 : a[i] = s[i]
    BY <2>2, SubSeqProperties
  <2>5. /\ b \in Seq(S) /\ Len(b) = Len(s) - k /\ \A i \in 1 .. Len(s) - k : b[i] = s[k + i]
    BY <2>2, SubSeqProperties
  <2> HIDE DEF a, b
  <2>6. PICK t : t = a \o b  OBVIOUS
  <2>7. /\ t \in Seq(S) /\ Len(t) = Len(s) - 1
        /\ \A i \in 1 .. Len(t) : t[i] = IF i =< k - 1 THEN s[i] ELSE s[i + 1]
    <3>1. /\ a \o b \in Seq(S) /\ Len(a \o b) = Len(a) + Len(b)
          /\ \A i \in 1 .. Len(a) + Len(b) : (a \o b)[i] = IF i <= Len(a) THEN a[i] ELSE b[i - Len(a)]
      BY <2>4, <2>5, ConcatProperties, Zenon
    <3>2. t \in Seq(S) /\ Len(t) = Len(s) - 1  BY <2>2, <2>4, <2>5, <2>6, <3>1
    <3>3. ASSUME NEW i \in 1 .. Len(t) PROVE t[i] = IF i =< k - 1 THEN s[i] ELSE s[i + 1]
      <4>1. t[i] = IF i <= k - 1 THEN a[i] ELSE b[i - (k - 1)]
        BY <2>2, <2>4, <2>5, <2>6, <3>1, <3>2
      <4>2. i > k - 1 => b[i - (k - 1)] = s[k + (i - (k - 1))] /\ k + (i - (k - 1)) = i + 1
        BY <2>2, <2>5, <3>2
      <4> QED  BY <2>2, <2>4, <4>1, <4>2
    <3> QED  BY <3>2, <3>3
  <2>8. ASSUME NEW x, Contains(t, x) PROVE Contains(s, x)
    <3>1. PICK i \in 1 .. Len(t) : t[i] = x  BY <2>8 DEF Contains
    <3>2. /\ i \in 1 .. Len(s) /\ i + 1 \in 1 .. Len(s)
          /\ s[i] = x \/ s[i + 1] = x
      BY <2>2, <2>7, <3>1
    <3> QED  BY <3>2 DEF Contains
  <2>9. ASSUME NEW x, x # e, Contains(s, x) PROVE Contains(t, x)
    <3>1. PICK i \in 1 .. Len(s) : s[i] = x  BY <2>9 DEF Contains
    <3>2. i # k  BY <2>2, <2>9, <3>1
    <3>3. CASE i < k
      <4>1. i \in 1 .. Len(t) /\ t[i] = x  BY <2>2, <2>7, <3>1, <3>3
      <4> QED  BY <4>1 DEF Contains
    <3>4. CASE i > k
      <4>1. i - 1 \in 1 .. Len(t) /\ t[i - 1] = x  BY <2>2, <2>7, <3>1, <3>4
      <4> QED  BY <4>1 DEF Contains
    <3> QED  BY <2>2, <3>2, <3>3, <3>4
  <2>10. RemoveFirst(s, e) = t  BY <2>3, <2>6 DEF a, b
  <2> QED  BY <2>7, <2>8, <2>9, <2>10
<1> QED  BY <1>1, <1>2

-----------------------------------------------------------------------------
\* A part of the sequence, as a run of KeepAt has it after n entries.
IsPart(S, s, I, n, t, g) ==
  /\ t \in Seq(S)
  /\ \A k \in 1 .. Len(t) : g[k] \in 1 .. n /\ g[k] \in I /\ t[k] = s[g[k]]
  /\ \A j, k \in 1 .. Len(t) : j < k => g[j] < g[k]
  /\ \A i \in 1 .. n : i \in I => \E k \in 1 .. Len(t) : g[k] = i

KeepStep(s, I, n, t) == IF n \in I THEN Append(t, s[n]) ELSE t

\* One more entry of the sequence is one more step of the run.
LEMMA PartStep ==
  ASSUME NEW S, NEW s \in Seq(S), NEW I, NEW n \in Nat, n + 1 <= Len(s), NEW t, NEW g, IsPart(S, s, I, n, t, g)
  PROVE  \E gg : IsPart(S, s, I, n + 1, KeepStep(s, I, n + 1, t), gg)
<1>0. /\ t \in Seq(S) /\ Len(t) \in Nat
      /\ \A k \in 1 .. Len(t) : g[k] \in 1 .. n /\ g[k] \in I /\ t[k] = s[g[k]]
      /\ \A j, k \in 1 .. Len(t) : j < k => g[j] < g[k]
      /\ \A i \in 1 .. n : i \in I => \E k \in 1 .. Len(t) : g[k] = i
  BY DEF IsPart
<1>1. CASE n + 1 \in I
  <2>1. PICK l \in Nat : l = Len(t)  BY <1>0
  <2>2. PICK last : last = Append(t, s[n + 1])  OBVIOUS
  <2>3. PICK gg : gg = [k \in 1 .. l + 1 |-> IF k <= l THEN g[k] ELSE n + 1]  OBVIOUS
  <2>4. /\ last \in Seq(S) /\ Len(last) = l + 1
        /\ \A k \in 1 .. l : last[k] = t[k]
        /\ last[l + 1] = s[n + 1]
    BY <1>0, <2>1, <2>2
  <2>5. /\ \A k \in 1 .. l : gg[k] = g[k]
        /\ gg[l + 1] = n + 1
    BY <2>3
  <2>6. \A k \in 1 .. l : g[k] \in 1 .. n  BY <1>0, <2>1
  <2>7. ASSUME NEW k \in 1 .. l + 1 PROVE gg[k] \in 1 .. n + 1 /\ gg[k] \in I /\ last[k] = s[gg[k]]
    <3>1. CASE k \in 1 .. l  BY <1>0, <2>1, <2>4, <2>5, <2>6, <3>1
    <3>2. CASE k = l + 1  BY <1>1, <2>4, <2>5, <3>2
    <3> QED  BY <3>1, <3>2
  <2>8. ASSUME NEW j \in 1 .. l + 1, NEW k \in 1 .. l + 1, j < k PROVE gg[j] < gg[k]
    <3>1. CASE k \in 1 .. l
      <4>1. j \in 1 .. l /\ gg[j] = g[j] /\ gg[k] = g[k]  BY <2>5, <2>8, <3>1
      <4> QED  BY <1>0, <2>1, <2>8, <3>1, <4>1
    <3>2. CASE k = l + 1
      <4>1. j \in 1 .. l /\ gg[j] = g[j] /\ gg[k] = n + 1  BY <2>5, <2>8, <3>2
      <4>2. g[j] \in 1 .. n  BY <2>6, <4>1
      <4> QED  BY <4>1, <4>2
    <3> QED  BY <3>1, <3>2
  <2>9. ASSUME NEW i \in 1 .. n + 1, i \in I PROVE \E k \in 1 .. l + 1 : gg[k] = i
    <3>1. CASE i = n + 1  BY <2>5, <3>1
    <3>2. CASE i \in 1 .. n
      <4>1. PICK k \in 1 .. l : g[k] = i  BY <1>0, <2>1, <2>9, <3>2
      <4> QED  BY <2>5, <4>1
    <3> QED  BY <3>1, <3>2
  <2>10. IsPart(S, s, I, n + 1, last, gg)  BY <2>4, <2>7, <2>8, <2>9 DEF IsPart
  <2> QED  BY <1>1, <2>2, <2>10 DEF KeepStep
<1>2. CASE n + 1 \notin I
  <2>1. \A k \in 1 .. Len(t) : g[k] \in 1 .. n + 1  BY <1>0
  <2>2. ASSUME NEW i \in 1 .. n + 1, i \in I PROVE \E k \in 1 .. Len(t) : g[k] = i
    <3>1. i \in 1 .. n  BY <1>2, <2>2
    <3> QED  BY <1>0, <2>2, <3>1
  <2>3. IsPart(S, s, I, n + 1, t, g)  BY <1>0, <2>1, <2>2 DEF IsPart
  <2> QED  BY <1>2, <2>3 DEF KeepStep
<1> QED  BY <1>1, <1>2

\* KeepAt is the last value of a run that takes one entry at a time.
LEMMA KeepAtRun ==
  ASSUME NEW s, NEW I, Len(s) \in Nat
  PROVE  \E run : /\ run[0] = <<>>
                  /\ \A n \in 1 .. Len(s) : run[n] = KeepStep(s, I, n, run[n - 1])
                  /\ KeepAt(s, I) = run[Len(s)]
<1> DEFINE Runs(n, g) == g = [m \in 0 .. n |-> IF m = 0 THEN <<>> ELSE KeepStep(s, I, m, g[m - 1])]
           S == {n \in Nat : \E g : Runs(n, g)}
<1>1. 0 \in S
  <2>1. Runs(0, [m \in 0 .. 0 |-> <<>>])  OBVIOUS
  <2> QED  BY <2>1
<1>2. ASSUME NEW n \in Nat, n \in S PROVE n + 1 \in S
  <2>1. PICK g : Runs(n, g)  BY <1>2
  <2> DEFINE h == [m \in 0 .. n + 1 |-> IF m <= n THEN g[m] ELSE KeepStep(s, I, n + 1, g[n])]
  <2>2. \A m \in 0 .. n : h[m] = g[m] /\ m \in 0 .. n + 1  OBVIOUS
  <2>3. h[n + 1] = KeepStep(s, I, n + 1, g[n])  OBVIOUS
  <2>4. g[0] = <<>> /\ \A m \in 1 .. n : g[m] = KeepStep(s, I, m, g[m - 1])  BY <2>1
  <2>5. h = [m \in 0 .. n + 1 |-> h[m]]  OBVIOUS
  <2> HIDE DEF h
  <2>6. ASSUME NEW m \in 0 .. n + 1
        PROVE  h[m] = IF m = 0 THEN <<>> ELSE KeepStep(s, I, m, h[m - 1])
    <3>1. CASE m = 0  BY <2>2, <2>4, <3>1
    <3>2. CASE m \in 1 .. n
      <4>1. h[m] = g[m] /\ h[m - 1] = g[m - 1] /\ m # 0  BY <2>2, <3>2
      <4> QED  BY <2>4, <3>2, <4>1
    <3>3. CASE m = n + 1
      <4>1. h[m] = KeepStep(s, I, m, g[n]) /\ h[m - 1] = g[n] /\ m # 0  BY <2>2, <2>3, <3>3
      <4> QED  BY <4>1
    <3> QED  BY <3>1, <3>2, <3>3
  <2>7. Runs(n + 1, h)  BY <2>5, <2>6
  <2> QED  BY <2>7
<1>3. Len(s) \in S
  <2>1. \A n \in Nat : n \in S => n + 1 \in S  BY <1>2
  <2> HIDE DEF S
  <2> QED  BY <1>1, <2>1, InductionOnNat
<1>4. PICK run : run = CHOOSE g : Runs(Len(s), g)  OBVIOUS
<1>5. Runs(Len(s), run)
  <2>1. \E g : Runs(Len(s), g)  BY <1>3
  <2> HIDE DEF Runs
  <2> QED  BY <1>4, <2>1
<1>6. KeepAt(s, I) = run[Len(s)]  BY <1>4 DEF KeepAt, KeepStep
<1>7. run[0] = <<>> /\ \A n \in 1 .. Len(s) : run[n] = KeepStep(s, I, n, run[n - 1])
  BY <1>5
<1> QED  BY <1>6, <1>7

\* What KeepAt returns: entries of the sequence, those at the positions, in their order.
LEMMA KeepAtFacts ==
  ASSUME NEW S, NEW s \in Seq(S), NEW I
  PROVE  \E g : IsPart(S, s, I, Len(s), KeepAt(s, I), g)
<1>0. Len(s) \in Nat  OBVIOUS
<1>1. PICK run : /\ run[0] = <<>>
                 /\ \A n \in 1 .. Len(s) : run[n] = KeepStep(s, I, n, run[n - 1])
                 /\ KeepAt(s, I) = run[Len(s)]
  BY <1>0, KeepAtRun
<1> DEFINE P == {n \in Nat : n <= Len(s) => \E g : IsPart(S, s, I, n, run[n], g)}
<1>2. 0 \in P
  <2>1. IsPart(S, s, I, 0, run[0], <<>>)  BY <1>1 DEF IsPart
  <2> QED  BY <2>1
<1>3. ASSUME NEW n \in Nat, n \in P PROVE n + 1 \in P
  <2>1. SUFFICES ASSUME n + 1 <= Len(s) PROVE \E g : IsPart(S, s, I, n + 1, run[n + 1], g)
    OBVIOUS
  <2>2. PICK g : IsPart(S, s, I, n, run[n], g)  BY <1>0, <1>3, <2>1
  <2>3. run[n + 1] = KeepStep(s, I, n + 1, run[n])  BY <1>0, <1>1, <2>1
  <2>4. PICK t : t = run[n]  OBVIOUS
  <2>5. \E gg : IsPart(S, s, I, n + 1, KeepStep(s, I, n + 1, t), gg)
    BY <2>1, <2>2, <2>4, PartStep
  <2> QED  BY <2>3, <2>4, <2>5
<1>4. Len(s) \in P
  <2>1. \A n \in Nat : n \in P => n + 1 \in P  BY <1>3
  <2> HIDE DEF P
  <2> QED  BY <1>0, <1>2, <2>1, InductionOnNat
<1> QED  BY <1>0, <1>1, <1>4

\* The entries of a sequence, as a set.
LEMMA ToSetOfSeq ==
  ASSUME NEW S, NEW s \in Seq(S)
  PROVE  /\ ToSet(s) = {s[k] : k \in 1 .. Len(s)}
         /\ ToSet(s) \subseteq S
BY DEF ToSet

\* The entries of two sequences, one after the other.
LEMMA ToSetOfConcat ==
  ASSUME NEW S, NEW s \in Seq(S), NEW t \in Seq(S)
  PROVE  s \o t \in Seq(S) /\ ToSet(s \o t) = ToSet(s) \cup ToSet(t)
<1>1. PICK u : u = s \o t  OBVIOUS
<1>2. /\ u \in Seq(S) /\ Len(u) = Len(s) + Len(t)
      /\ \A i \in 1 .. Len(s) + Len(t) : u[i] = IF i <= Len(s) THEN s[i] ELSE t[i - Len(s)]
  BY <1>1, ConcatProperties, Zenon
<1>3. PICK l \in Nat, r \in Nat : l = Len(s) /\ r = Len(t)  OBVIOUS
<1>4. /\ ToSet(s) = {s[k] : k \in 1 .. l} /\ ToSet(t) = {t[k] : k \in 1 .. r}
      /\ ToSet(u) = {u[k] : k \in 1 .. l + r}
  BY <1>2, <1>3, ToSetOfSeq
<1>5. ASSUME NEW x \in ToSet(u) PROVE x \in ToSet(s) \cup ToSet(t)
  <2>1. PICK k \in 1 .. l + r : x = u[k]  BY <1>4, <1>5
  <2>2. CASE k <= l  BY <1>2, <1>3, <1>4, <2>1, <2>2
  <2>3. CASE k > l
    <3>1. k - l \in 1 .. r /\ u[k] = t[k - l]  BY <1>2, <1>3, <2>1, <2>3
    <3> QED  BY <1>4, <2>1, <3>1
  <2> QED  BY <2>1, <2>2, <2>3
<1>6. ASSUME NEW x \in ToSet(s) PROVE x \in ToSet(u)
  <2>1. PICK k \in 1 .. l : x = s[k]  BY <1>4, <1>6
  <2>2. k \in 1 .. l + r /\ u[k] = s[k]  BY <1>2, <1>3, <2>1
  <2> QED  BY <1>4, <2>1, <2>2
<1>7. ASSUME NEW x \in ToSet(t) PROVE x \in ToSet(u)
  <2>1. PICK k \in 1 .. r : x = t[k]  BY <1>4, <1>7
  <2>2. l + k \in 1 .. l + r /\ u[l + k] = t[k]
    <3>1. l + k \in 1 .. l + r /\ ~ (l + k <= l) /\ l + k - l = k  BY <2>1
    <3> QED  BY <1>2, <1>3, <3>1
  <2> QED  BY <1>4, <2>1, <2>2
<1> QED  BY <1>1, <1>2, <1>5, <1>6, <1>7

\* The entries after an append.
LEMMA ToSetOfAppend ==
  ASSUME NEW S, NEW s \in Seq(S), NEW e \in S
  PROVE  /\ Append(s, e) \in Seq(S)
         /\ ToSet(Append(s, e)) = ToSet(s) \cup {e}
<1>1. PICK u : u = Append(s, e)  OBVIOUS
<1>2. PICK l \in Nat : l = Len(s)  OBVIOUS
<1>3. /\ u \in Seq(S) /\ Len(u) = l + 1
      /\ \A i \in 1 .. l : u[i] = s[i]
      /\ u[l + 1] = e
  BY <1>1, <1>2
<1>4. ToSet(s) = {s[k] : k \in 1 .. l} /\ ToSet(u) = {u[k] : k \in 1 .. l + 1}
  BY <1>2, <1>3, ToSetOfSeq
<1>5. \A x \in ToSet(u) : x \in ToSet(s) \cup {e}  BY <1>3, <1>4
<1>6. \A x \in ToSet(s) \cup {e} : x \in ToSet(u)  BY <1>3, <1>4
<1> QED  BY <1>1, <1>3, <1>5, <1>6

LEMMA ToSetOfOne ==
  ASSUME NEW S, NEW e \in S
  PROVE  <<e>> \in Seq(S) /\ ToSet(<<e>>) = {e}
BY DEF ToSet

\* The entries KeepAt keeps.
LEMMA ToSetOfKeepAt ==
  ASSUME NEW S, NEW s \in Seq(S), NEW I
  PROVE  /\ KeepAt(s, I) \in Seq(S)
         /\ ToSet(KeepAt(s, I)) = {s[i] : i \in I \cap 1 .. Len(s)}
<1>1. PICK t : t = KeepAt(s, I)  OBVIOUS
<1>2. PICK g : /\ t \in Seq(S)
               /\ \A k \in 1 .. Len(t) : g[k] \in 1 .. Len(s) /\ g[k] \in I /\ t[k] = s[g[k]]
               /\ \A j, k \in 1 .. Len(t) : j < k => g[j] < g[k]
               /\ \A i \in 1 .. Len(s) : i \in I => \E k \in 1 .. Len(t) : g[k] = i
  <2>1. \E g : IsPart(S, s, I, Len(s), t, g)  BY <1>1, KeepAtFacts, Zenon
  <2> QED  BY <2>1 DEF IsPart
<1>3. ToSet(t) = {t[k] : k \in 1 .. Len(t)}  BY <1>2, ToSetOfSeq
<1>4. \A x \in ToSet(t) : x \in {s[i] : i \in I \cap 1 .. Len(s)}  BY <1>2, <1>3
<1>5. ASSUME NEW i \in I \cap 1 .. Len(s) PROVE s[i] \in ToSet(t)
  <2>1. PICK k \in 1 .. Len(t) : g[k] = i  BY <1>2
  <2> QED  BY <1>2, <1>3, <2>1
<1> QED  BY <1>1, <1>2, <1>4, <1>5

\* The entries of a sequence: its head, and those of its tail.
LEMMA ToSetOfTail ==
  ASSUME NEW S, NEW s \in Seq(S), s # <<>>
  PROVE  /\ Tail(s) \in Seq(S) /\ Head(s) \in S
         /\ Len(Tail(s)) = Len(s) - 1
         /\ ToSet(s) = {Head(s)} \cup ToSet(Tail(s))
<1>1. PICK l \in Nat : l = Len(s) /\ l # 0  OBVIOUS
<1>2. PICK u : u = Tail(s)  OBVIOUS
<1>3. /\ u \in Seq(S) /\ Len(u) = l - 1
      /\ \A i \in 1 .. l - 1 : u[i] = s[i + 1]
      /\ Head(s) = s[1] /\ Head(s) \in S
  BY <1>1, <1>2
<1>4. ToSet(s) = {s[k] : k \in 1 .. l} /\ ToSet(u) = {u[k] : k \in 1 .. l - 1}
  BY <1>1, <1>3, ToSetOfSeq
<1>5. ASSUME NEW x \in ToSet(s) PROVE x \in {Head(s)} \cup ToSet(u)
  <2>1. PICK k \in 1 .. l : x = s[k]  BY <1>4, <1>5
  <2>2. CASE k = 1  BY <1>3, <2>1, <2>2
  <2>3. CASE k # 1
    <3>1. k - 1 \in 1 .. l - 1 /\ u[k - 1] = s[k]
      <4>1. k - 1 \in 1 .. l - 1 /\ k - 1 + 1 = k  BY <2>1, <2>3
      <4> QED  BY <1>3, <4>1
    <3> QED  BY <1>4, <2>1, <3>1
  <2> QED  BY <2>2, <2>3
<1>6. ASSUME NEW x \in {Head(s)} \cup ToSet(u) PROVE x \in ToSet(s)
  <2>1. CASE x = Head(s)  BY <1>1, <1>3, <1>4, <2>1
  <2>2. CASE x \in ToSet(u)
    <3>1. PICK k \in 1 .. l - 1 : x = u[k]  BY <1>4, <2>2
    <3>2. k + 1 \in 1 .. l /\ u[k] = s[k + 1]  BY <1>3, <3>1
    <3> QED  BY <1>4, <3>1, <3>2
  <2> QED  BY <1>6, <2>1, <2>2
<1> QED  BY <1>1, <1>2, <1>3, <1>5, <1>6

Concat(a, b) == a \o b

\* FlattenSeq is the last value of a run that adds one sequence at a time.
LEMMA FlattenRun ==
  ASSUME NEW ss, Len(ss) \in Nat, Len(ss) # 0
  PROVE  \E run : /\ run[1] = ss[1]
                  /\ \A n \in 2 .. Len(ss) : run[n] = Concat(run[n - 1], ss[n])
                  /\ FlattenSeq(ss) = run[Len(ss)]
<1> DEFINE Runs(n, g) == g = [m \in 1 .. n |-> IF m = 1 THEN ss[m] ELSE Concat(g[m - 1], ss[m])]
           S == {n \in Nat : \E g : Runs(n, g)}
<1>1. 0 \in S
  <2>1. Runs(0, [m \in 1 .. 0 |-> <<>>])  OBVIOUS
  <2> QED  BY <2>1
<1>2. ASSUME NEW n \in Nat, n \in S PROVE n + 1 \in S
  <2>1. PICK g : Runs(n, g)  BY <1>2
  <2> DEFINE h == [m \in 1 .. n + 1 |-> IF m <= n THEN g[m] ELSE IF m = 1 THEN ss[m] ELSE Concat(g[n], ss[n + 1])]
  <2>2. \A m \in 1 .. n : h[m] = g[m] /\ m \in 1 .. n + 1  OBVIOUS
  <2>3. h[n + 1] = IF n = 0 THEN ss[n + 1] ELSE Concat(g[n], ss[n + 1])  OBVIOUS
  <2>4. \A m \in 1 .. n : g[m] = IF m = 1 THEN ss[m] ELSE Concat(g[m - 1], ss[m])  BY <2>1
  <2>5. h = [m \in 1 .. n + 1 |-> h[m]]  OBVIOUS
  <2> HIDE DEF h
  <2>6. ASSUME NEW m \in 1 .. n + 1
        PROVE  h[m] = IF m = 1 THEN ss[m] ELSE Concat(h[m - 1], ss[m])
    <3>1. CASE m = 1 /\ n # 0  BY <2>2, <2>4, <3>1
    <3>2. CASE m = 1 /\ n = 0  BY <2>3, <3>2
    <3>3. CASE m \in 2 .. n
      <4>1. h[m] = g[m] /\ h[m - 1] = g[m - 1] /\ m # 1  BY <2>2, <3>3
      <4> QED  BY <2>4, <3>3, <4>1
    <3>4. CASE m = n + 1 /\ n # 0
      <4>1. h[m] = Concat(g[n], ss[m]) /\ h[m - 1] = g[n] /\ m # 1  BY <2>2, <2>3, <3>4
      <4> QED  BY <4>1
    <3> QED  BY <3>1, <3>2, <3>3, <3>4
  <2>7. Runs(n + 1, h)  BY <2>5, <2>6
  <2> QED  BY <2>7
<1>3. Len(ss) \in S
  <2>1. \A n \in Nat : n \in S => n + 1 \in S  BY <1>2
  <2> HIDE DEF S
  <2> QED  BY <1>1, <2>1, InductionOnNat
<1>4. PICK run : run = CHOOSE g : Runs(Len(ss), g)  OBVIOUS
<1>5. Runs(Len(ss), run)
  <2>1. \E g : Runs(Len(ss), g)  BY <1>3
  <2> HIDE DEF Runs
  <2> QED  BY <1>4, <2>1
<1>6. FlattenSeq(ss) = run[Len(ss)]  BY <1>4 DEF FlattenSeq, Concat
<1>7. run[1] = ss[1] /\ \A n \in 2 .. Len(ss) : run[n] = Concat(run[n - 1], ss[n])
  BY <1>5
<1> QED  BY <1>6, <1>7

\* The entries of a flattened sequence of sequences.
LEMMA ToSetOfFlatten ==
  ASSUME NEW S, NEW ss, Len(ss) \in Nat, Len(ss) = 0 => ss = <<>>,
         \A n \in 1 .. Len(ss) : ss[n] \in Seq(S)
  PROVE  /\ FlattenSeq(ss) \in Seq(S)
         /\ ToSet(FlattenSeq(ss)) = UNION {ToSet(ss[n]) : n \in 1 .. Len(ss)}
<1>1. CASE Len(ss) = 0
  <2>1. FlattenSeq(ss) = <<>>  BY <1>1 DEF FlattenSeq
  <2>2. ToSet(<<>>) = {}  BY DEF ToSet
  <2> QED  BY <1>1, <2>1, <2>2
<1>2. CASE Len(ss) # 0
  <2>1. PICK run : /\ run[1] = ss[1]
                   /\ \A n \in 2 .. Len(ss) : run[n] = Concat(run[n - 1], ss[n])
                   /\ FlattenSeq(ss) = run[Len(ss)]
    BY <1>2, FlattenRun
  <2> DEFINE U(n) == UNION {ToSet(ss[m]) : m \in 1 .. n}
             P == {n \in Nat : n + 1 <= Len(ss) => run[n + 1] \in Seq(S) /\ ToSet(run[n + 1]) = U(n + 1)}
  <2>2. 0 \in P  BY <1>2, <2>1
  <2>3. ASSUME NEW n \in Nat, n \in P PROVE n + 1 \in P
    <3>1. SUFFICES ASSUME n + 1 + 1 <= Len(ss) PROVE run[n + 1 + 1] \in Seq(S) /\ ToSet(run[n + 1 + 1]) = U(n + 1 + 1)
      OBVIOUS
    <3>2. run[n + 1] \in Seq(S) /\ ToSet(run[n + 1]) = U(n + 1)  BY <2>3, <3>1
    <3>3. ss[n + 1 + 1] \in Seq(S) /\ run[n + 1 + 1] = Concat(run[n + 1], ss[n + 1 + 1])
      <4>1. n + 1 + 1 \in 2 .. Len(ss) /\ n + 1 + 1 \in 1 .. Len(ss) /\ n + 1 + 1 - 1 = n + 1  BY <3>1
      <4>2. PICK k : k = n + 1 + 1  OBVIOUS
      <4>3. run[k] = Concat(run[k - 1], ss[k]) /\ ss[k] \in Seq(S)  BY <2>1, <4>1, <4>2
      <4> QED  BY <4>1, <4>2, <4>3
    <3>4. PICK a, b : a = run[n + 1] /\ b = ss[n + 1 + 1]  OBVIOUS
    <3>5. a \o b \in Seq(S) /\ ToSet(a \o b) = ToSet(a) \cup ToSet(b)  BY <3>2, <3>3, <3>4, ToSetOfConcat
    <3>6. U(n + 1 + 1) = U(n + 1) \cup ToSet(ss[n + 1 + 1])  OBVIOUS
    <3> QED  BY <3>2, <3>3, <3>4, <3>5, <3>6 DEF Concat
  <2>4. Len(ss) - 1 \in P
    <3>1. \A n \in Nat : n \in P => n + 1 \in P  BY <2>3
    <3> HIDE DEF P
    <3> QED  BY <1>2, <2>2, <3>1, InductionOnNat
  <2>5. Len(ss) - 1 + 1 = Len(ss)  OBVIOUS
  <2> QED  BY <1>2, <2>1, <2>4, <2>5
<1> QED  BY <1>1, <1>2

-----------------------------------------------------------------------------
(* Finite sets *)

\* The largest of finitely many numbers is one of them.
LEMMA LargestNumber ==
  ASSUME NEW S \in SUBSET Nat, IsFiniteSet(S), S # {}
  PROVE  Max(S) \in S /\ \A x \in S : Max(S) >= x
<1> DEFINE Has(s) == \E m \in s : \A x \in s : m >= x
           P == {n \in Nat : \A s \in SUBSET Nat : IsFiniteSet(s) /\ Cardinality(s) = n + 1 => Has(s)}
<1>1. 0 \in P
  <2>1. SUFFICES ASSUME NEW s \in SUBSET Nat, IsFiniteSet(s), Cardinality(s) = 0 + 1 PROVE Has(s)
    OBVIOUS
  <2>2. s # {}  BY <2>1, FS_EmptySet
  <2>3. PICK x \in s : TRUE  BY <2>2
  <2>4. IsFiniteSet(s \ {x}) /\ Cardinality(s \ {x}) = Cardinality(s) - 1  BY <2>1, <2>3, FS_RemoveElement
  <2>5. s \ {x} = {}  BY <2>1, <2>4, FS_EmptySet
  <2>6. \A y \in s : y = x  BY <2>5
  <2>7. x \in Nat  OBVIOUS
  <2> QED  BY <2>3, <2>6, <2>7
<1>2. ASSUME NEW n \in Nat, n \in P PROVE n + 1 \in P
  <2>1. SUFFICES ASSUME NEW s \in SUBSET Nat, IsFiniteSet(s), Cardinality(s) = n + 1 + 1 PROVE Has(s)
    OBVIOUS
  <2>2. s # {}  BY <2>1, FS_EmptySet
  <2>3. PICK x \in s : TRUE  BY <2>2
  <2>4. IsFiniteSet(s \ {x}) /\ Cardinality(s \ {x}) = n + 1
    BY <2>1, <2>3, FS_RemoveElement
  <2>5. s \ {x} \in SUBSET Nat  OBVIOUS
  <2>6. PICK m \in s \ {x} : \A y \in s \ {x} : m >= y  BY <1>2, <2>4, <2>5
  <2>7. m \in Nat /\ x \in Nat /\ \A y \in s : y \in Nat  OBVIOUS
  <2>8. CASE m >= x  BY <2>6, <2>7, <2>8
  <2>9. CASE ~ (m >= x)
    <3>1. \A y \in s : x >= y  BY <2>6, <2>7, <2>9
    <3> QED  BY <2>3, <3>1
  <2> QED  BY <2>8, <2>9
<1>3. \A n \in Nat : n \in P
  <2>1. \A n \in Nat : n \in P => n + 1 \in P  BY <1>2
  <2> HIDE DEF P
  <2> QED  BY <1>1, <2>1, InductionOnNat
<1>4. Cardinality(S) \in Nat /\ Cardinality(S) # 0  BY FS_CardinalityType, FS_EmptySet
<1>5. Cardinality(S) - 1 \in P /\ Cardinality(S) - 1 + 1 = Cardinality(S)  BY <1>3, <1>4
<1>6. \E m \in S : \A x \in S : m >= x  BY <1>5
<1> QED  BY <1>6 DEF Max

\* SetToSeq lists every member, once.
LEMMA SetToSeqFacts ==
  ASSUME NEW S, IsFiniteSet(S)
  PROVE  /\ Cardinality(S) \in Nat
         /\ \A n \in 1 .. Cardinality(S) : SetToSeq(S)[n] \in S
         /\ \A x \in S : \E n \in 1 .. Cardinality(S) : SetToSeq(S)[n] = x
<1>1. Cardinality(S) \in Nat /\ ExistsBijection(1 .. Cardinality(S), S)  BY FS_CardinalityType
<1>2. PICK N : N = 1 .. Cardinality(S)  OBVIOUS
<1>3. IsFiniteSet(N) /\ Cardinality(N) = Cardinality(S)
  <2>1. 1 \in Nat /\ 1 .. Cardinality(S) = N  BY <1>2
  <2>2. ExistsBijection(1 .. Cardinality(S), N)
    <3>1. [n \in N |-> n] \in Bijection(N, N)  BY DEF Bijection, Injection, Surjection, IsInjective
    <3> QED  BY <1>2, <3>1 DEF ExistsBijection
  <2> QED  BY <1>1, <2>2, FS_NatBijection, FS_CountingElements
<1>4. PICK f : f = SetToSeq(S)  OBVIOUS
<1>5. f \in [N -> S] /\ IsInjective(f)
  <2>1. \E g \in [N -> S] : IsInjective(g)
    BY <1>1, <1>2 DEF ExistsBijection, Bijection, Injection
  <2> QED  BY <1>2, <1>4, <2>1 DEF SetToSeq
<1>6. f \in Surjection(N, S)
  <2>1. f \in Injection(N, S)  BY <1>5 DEF Injection, IsInjective
  <2> QED  BY <1>3, <2>1, FS_Injection
<1> QED  BY <1>1, <1>2, <1>4, <1>5, <1>6 DEF Surjection

===============================================================================
