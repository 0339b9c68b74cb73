------------------------- MODULE LogSequencesProofs -------------------------
(***************************************************************************)
(* What SumSeq and Picked compute, for sequences of any length.  Each is   *)
(* a recursive function: its equation is shown to have a solution, and     *)
(* what it computes follows by induction on the prefix looked at.          *)
(***************************************************************************)
EXTENDS LogSequences, Integers, SequenceTheorems, WellFoundedInduction, TLAPS

\* A set of numbers has a least one.
LEMMA LeastOfSet ==
  ASSUME NEW T, T \subseteq Nat, T # {}
  PROVE  \E x \in T : \A y \in T : x <= y
<1> DEFINE R == OpToRel(<, Nat)
<1>1. IsWellFoundedOn(R, Nat)
  BY NatLessThanWellFounded
<1>2. PICK x \in T : \A y \in T : ~ (<<y, x>> \in R)
  <2> HIDE DEF R
  <2> QED
    BY ZenonT(30), <1>1, WFMin
<1>3. \A y \in T : ~ (y < x)
  BY ZenonT(30), <1>2 DEF OpToRel
<1> QED
  BY <1>3

(***************************************************************************)
(* Induction over a set of numbers: the smallest number outside of S would *)
(* be 0 or the successor of a number in S.                                 *)
(***************************************************************************)
LEMMA InductionOverSet ==
  ASSUME NEW S, 0 \in S, \A n \in Nat : n \in S => n + 1 \in S
  PROVE  \A n \in Nat : n \in S
<1> DEFINE T == Nat \ S
<1> SUFFICES ASSUME T # {} PROVE FALSE
  OBVIOUS
<1>1. PICK x \in T : \A y \in T : x <= y
  <2>1. T \subseteq Nat
    OBVIOUS
  <2> HIDE DEF T
  <2> QED
    BY ZenonT(30), <2>1, LeastOfSet
<1>2. x # 0 /\ x - 1 \in Nat /\ x - 1 < x
  OBVIOUS
<1>3. x - 1 \in S
  BY <1>1, <1>2
<1> QED
  BY <1>2, <1>3

-----------------------------------------------------------------------------
(* SumSeq. *)

\* f is the running total of s.
Totals(f, s, n) ==
  /\ f \in [0..n -> Nat] /\ f[0] = 0
  /\ \A i \in 1..n : s[i] \in Nat /\ f[i] = f[i - 1] + s[i]

\* There are running totals.
LEMMA TotalsExist ==
  ASSUME NEW s \in Seq(Nat)
  PROVE  \E f : Totals(f, s, Len(s))
<1> DEFINE S == {n \in Nat : n <= Len(s) => \E f : Totals(f, s, n)}
<1>1. 0 \in S
  <2>1. Totals([i \in 0..0 |-> 0], s, 0)
    BY DEF Totals
  <2> QED
    BY <2>1
<1>2. ASSUME NEW n \in Nat, n \in S
      PROVE  n + 1 \in S
  <2> SUFFICES ASSUME n + 1 <= Len(s) PROVE \E f : Totals(f, s, n + 1)
    OBVIOUS
  <2>1. PICK f : Totals(f, s, n)
    BY <1>2
  <2> DEFINE g == [i \in 0..(n + 1) |-> IF i <= n THEN f[i] ELSE f[n] + s[n + 1]]
  <2>2. s[n + 1] \in Nat
    BY ElementOfSeq
  <2>3. Totals(g, s, n + 1)
    BY SMTT(30), <2>1, <2>2 DEF Totals
  <2> QED
    BY <2>3
<1>3. Len(s) \in S
  <2> HIDE DEF S
  <2> QED
    BY SMTT(30), <1>1, <1>2, InductionOverSet
<1> QED
  BY <1>3

\* SumSeq is the last of the running totals.
LEMMA SumSeqTotals ==
  ASSUME NEW s \in Seq(Nat)
  PROVE  \E f : Totals(f, s, Len(s)) /\ SumSeq(s) = f[Len(s)]
<1> DEFINE upTo == CHOOSE f : f = [i \in 0..Len(s) |-> IF i = 0 THEN 0 ELSE f[i - 1] + s[i]]
<1>1. PICK f : Totals(f, s, Len(s))
  BY TotalsExist
<1>2. f = [i \in 0..Len(s) |-> IF i = 0 THEN 0 ELSE f[i - 1] + s[i]]
  BY <1>1 DEF Totals
<1>3. upTo = [i \in 0..Len(s) |-> IF i = 0 THEN 0 ELSE upTo[i - 1] + s[i]]
  BY ZenonT(30), <1>2
<1>4. SumSeq(s) = upTo[Len(s)]
  BY DEF SumSeq
<1> HIDE DEF upTo
<1>5. \A i \in 0..Len(s) : upTo[i] = f[i]
  <2> DEFINE S == {n \in Nat : n <= Len(s) => upTo[n] = f[n]}
  <2>1. 0 \in S
    BY <1>1, <1>3 DEF Totals
  <2>2. ASSUME NEW n \in Nat, n \in S
        PROVE  n + 1 \in S
    BY <1>2, <1>3, <2>2
  <2>3. \A n \in Nat : n \in S
    <3> HIDE DEF S
    <3> QED
      BY SMTT(30), <2>1, <2>2, InductionOverSet
  <2> QED
    BY <2>3
<1> QED
  BY <1>1, <1>4, <1>5

\* A sum of numbers is one.
LEMMA SumSeqType ==
  ASSUME NEW s \in Seq(Nat)
  PROVE  SumSeq(s) \in Nat
  BY SumSeqTotals DEF Totals

\* The sum of no numbers.
LEMMA SumSeqEmpty ==
  ASSUME NEW s \in Seq(Nat), Len(s) = 0
  PROVE  SumSeq(s) = 0
  BY ZenonT(30), SumSeqTotals DEF Totals

\* The sum of a sequence is that of any of its heads and that of the rest.
LEMMA SumSeqSplit ==
  ASSUME NEW s \in Seq(Nat), NEW p \in Seq(Nat), NEW q \in Seq(Nat),
         Len(s) = Len(p) + Len(q),
         \A i \in 1..Len(p) : p[i] = s[i],
         \A i \in 1..Len(q) : q[i] = s[Len(p) + i]
  PROVE  SumSeq(s) = SumSeq(p) + SumSeq(q)
<1>1. PICK f : Totals(f, s, Len(s)) /\ SumSeq(s) = f[Len(s)]
  BY ZenonT(30), SumSeqTotals
<1>2. PICK g : Totals(g, p, Len(p)) /\ SumSeq(p) = g[Len(p)]
  BY SumSeqTotals
<1>3. PICK h : Totals(h, q, Len(q)) /\ SumSeq(q) = h[Len(q)]
  BY SumSeqTotals
<1> DEFINE m == Len(p)
           n == Len(q)
           all == Len(s)
<1>4. /\ m \in Nat /\ n \in Nat /\ all = m + n
      /\ Totals(f, s, all) /\ Totals(g, p, m) /\ Totals(h, q, n)
      /\ \A i \in 1..m : p[i] = s[i]
      /\ \A i \in 1..n : q[i] = s[m + i]
  BY <1>1, <1>2, <1>3, LenProperties
<1> HIDE DEF m, n, all
<1>5. f[m] = g[m] /\ f[m] \in Nat
  <2> DEFINE S == {k \in Nat : k <= m => f[k] = g[k]}
  <2>1. 0 \in S
    BY <1>4 DEF Totals
  <2>2. ASSUME NEW k \in Nat, k \in S
        PROVE  k + 1 \in S
    <3> SUFFICES ASSUME k + 1 <= m PROVE f[k + 1] = g[k + 1]
      BY <1>4
    <3>1. k + 1 \in 1..m /\ k + 1 \in 1..all /\ (k + 1) - 1 = k /\ k <= m
      BY <1>4
    <3>2. f[k + 1] = f[k] + s[k + 1] /\ g[k + 1] = g[k] + p[k + 1]
      BY ZenonT(30), <1>4, <3>1 DEF Totals
    <3>3. f[k] = g[k] /\ p[k + 1] = s[k + 1]
      BY <1>4, <2>2, <3>1
    <3> QED
      BY <3>2, <3>3
  <2>3. m \in S
    <3> HIDE DEF S
    <3> QED
      BY ZenonT(30), <2>1, <2>2, <1>4, InductionOverSet
  <2> QED
    BY <1>4, <2>3 DEF Totals
<1>6. f[all] = f[m] + h[n]
  <2> DEFINE S == {k \in Nat : k <= n => f[m + k] = f[m] + h[k]}
  <2>1. 0 \in S
    BY <1>4, <1>5 DEF Totals
  <2>2. ASSUME NEW k \in Nat, k \in S
        PROVE  k + 1 \in S
    <3> SUFFICES ASSUME k + 1 <= n PROVE f[m + (k + 1)] = f[m] + h[k + 1]
      BY <1>4
    <3>1. /\ k + 1 \in 1..n /\ m + (k + 1) \in 1..all /\ (k + 1) - 1 = k /\ k <= n
          /\ (m + (k + 1)) - 1 = m + k /\ k \in 0..n
      BY <1>4
    <3>2. f[m + (k + 1)] = f[m + k] + s[m + (k + 1)] /\ h[k + 1] = h[k] + q[k + 1]
      BY ZenonT(30), <1>4, <3>1 DEF Totals
    <3>3. f[m + k] = f[m] + h[k] /\ q[k + 1] = s[m + (k + 1)]
      BY <1>4, <2>2, <3>1
    <3>4. h[k] \in Nat /\ q[k + 1] \in Nat
      BY SMTT(30), <1>4, <3>1 DEF Totals
    <3> QED
      BY <1>5, <3>2, <3>3, <3>4
  <2>3. n \in S
    <3> HIDE DEF S
    <3> QED
      BY ZenonT(30), <2>1, <2>2, <1>4, InductionOverSet
  <2> QED
    BY <1>4, <2>3
<1> QED
  BY <1>1, <1>2, <1>3, <1>5, <1>6 DEF m, n, all

-----------------------------------------------------------------------------
(* Picked. *)

\* F[i] is what has been picked of the first i elements of s.
Picks(F, s, T, n) ==
  /\ F \in [0..n -> Seq(T)] /\ F[0] = <<>>
  /\ \A i \in 1..n : F[i] = IF s[i] \in T THEN Append(F[i - 1], s[i]) ELSE F[i - 1]

\* There is such a function.
LEMMA PicksExist ==
  ASSUME NEW s, NEW T, Len(s) \in Nat
  PROVE  \E F : Picks(F, s, T, Len(s))
<1> DEFINE S == {n \in Nat : n <= Len(s) => \E F : Picks(F, s, T, n)}
<1>1. 0 \in S
  <2>1. Picks([i \in 0..0 |-> <<>>], s, T, 0)
    BY DEF Picks
  <2> QED
    BY <2>1
<1>2. ASSUME NEW n \in Nat, n \in S
      PROVE  n + 1 \in S
  <2> SUFFICES ASSUME n + 1 <= Len(s) PROVE \E F : Picks(F, s, T, n + 1)
    OBVIOUS
  <2>1. PICK F : Picks(F, s, T, n)
    BY <1>2
  <2> DEFINE last == IF s[n + 1] \in T THEN Append(F[n], s[n + 1]) ELSE F[n]
             G == [i \in 0..(n + 1) |-> IF i <= n THEN F[i] ELSE last]
  <2>2. last \in Seq(T)
    BY <2>1, AppendProperties DEF Picks
  <2>3. Picks(G, s, T, n + 1)
    <3> HIDE DEF last
    <3>1. G \in [0..(n + 1) -> Seq(T)] /\ G[0] = <<>>
      BY <2>1, <2>2 DEF Picks
    <3>2. ASSUME NEW i \in 1..n
          PROVE  G[i] = IF s[i] \in T THEN Append(G[i - 1], s[i]) ELSE G[i - 1]
      <4>1. G[i] = F[i] /\ G[i - 1] = F[i - 1]
        OBVIOUS
      <4> QED
        BY SMTT(30), <2>1, <4>1 DEF Picks
    <3>3. G[n + 1] = IF s[n + 1] \in T THEN Append(G[n], s[n + 1]) ELSE G[n]
      <4>1. G[n + 1] = last /\ G[n] = F[n]
        OBVIOUS
      <4> QED
        BY <4>1 DEF last
    <3> HIDE DEF G
    <3>4. \A i \in 1..(n + 1) : i \in 1..n \/ i = n + 1
      OBVIOUS
    <3>5. (n + 1) - 1 = n
      OBVIOUS
    <3> QED
      BY ZenonT(30), <3>1, <3>2, <3>3, <3>4, <3>5 DEF Picks
  <2> QED
    BY <2>3
<1>3. Len(s) \in S
  <2> HIDE DEF S
  <2> QED
    BY <1>1, <1>2, InductionOverSet
<1> QED
  BY <1>3

\* Picked is the last of them.
LEMMA PickedPicks ==
  ASSUME NEW s, NEW T, Len(s) \in Nat
  PROVE  \E F : Picks(F, s, T, Len(s)) /\ Picked(s, T) = F[Len(s)]
<1> DEFINE upTo == CHOOSE f : f = [i \in 0..Len(s) |->
                     IF i = 0 THEN <<>>
                     ELSE IF s[i] \in T THEN Append(f[i - 1], s[i]) ELSE f[i - 1]]
<1>1. PICK F : Picks(F, s, T, Len(s))
  BY PicksExist
<1>2. F = [i \in 0..Len(s) |->
             IF i = 0 THEN <<>>
             ELSE IF s[i] \in T THEN Append(F[i - 1], s[i]) ELSE F[i - 1]]
  <2>1. F = [i \in 0..Len(s) |-> F[i]]
    BY <1>1 DEF Picks
  <2>2. \A i \in 0..Len(s) : i = 0 \/ i \in 1..Len(s)
    OBVIOUS
  <2>3. \A i \in 0..Len(s) :
          F[i] = IF i = 0 THEN <<>>
                 ELSE IF s[i] \in T THEN Append(F[i - 1], s[i]) ELSE F[i - 1]
    BY ZenonT(30), <1>1, <2>2 DEF Picks
  <2> QED
    BY ZenonT(30), <2>1, <2>3
<1>3. upTo = [i \in 0..Len(s) |->
                IF i = 0 THEN <<>>
                ELSE IF s[i] \in T THEN Append(upTo[i - 1], s[i]) ELSE upTo[i - 1]]
  BY ZenonT(30), <1>2
<1>4. Picked(s, T) = upTo[Len(s)]
  BY DEF Picked
<1> HIDE DEF upTo
<1>5. upTo[Len(s)] = F[Len(s)]
  <2> DEFINE S == {n \in Nat : n <= Len(s) => upTo[n] = F[n]}
  <2>1. 0 \in S
    BY <1>2, <1>3
  <2>2. ASSUME NEW n \in Nat, n \in S
        PROVE  n + 1 \in S
    <3> SUFFICES ASSUME n + 1 <= Len(s) PROVE upTo[n + 1] = F[n + 1]
      OBVIOUS
    <3>1. n + 1 \in 0..Len(s) /\ n + 1 # 0 /\ (n + 1) - 1 = n /\ upTo[n] = F[n]
      BY <2>2
    <3>2. upTo[n + 1] = IF s[n + 1] \in T THEN Append(upTo[n], s[n + 1]) ELSE upTo[n]
      BY ZenonT(30), <1>3, <3>1
    <3>3. F[n + 1] = IF s[n + 1] \in T THEN Append(F[n], s[n + 1]) ELSE F[n]
      BY ZenonT(30), <1>2, <3>1
    <3> QED
      BY <3>1, <3>2, <3>3
  <2>3. Len(s) \in S
    <3> HIDE DEF S
    <3> QED
      BY <2>1, <2>2, InductionOverSet
  <2> QED
    BY <2>3
<1> QED
  BY <1>1, <1>4, <1>5

\* What is picked is in T.
LEMMA PickedType ==
  ASSUME NEW s, NEW T, Len(s) \in Nat
  PROVE  Picked(s, T) \in Seq(T)
  BY PickedPicks DEF Picks

\* Nothing is picked from nothing.
LEMMA PickedEmpty ==
  ASSUME NEW s, NEW T, Len(s) = 0
  PROVE  Picked(s, T) = <<>>
  BY PickedPicks DEF Picks

\* Appending to a concatenation appends to its second part.
LEMMA AppendAfter ==
  ASSUME NEW T, NEW a \in Seq(T), NEW b \in Seq(T), NEW x \in T
  PROVE  Append(a \o b, x) = a \o Append(b, x)
<1> DEFINE l == Append(a \o b, x)
           r == a \o Append(b, x)
<1>1. /\ Len(a) \in Nat /\ Len(b) \in Nat
      /\ a \o b \in Seq(T) /\ Len(a \o b) = Len(a) + Len(b)
      /\ Append(b, x) \in Seq(T) /\ Len(Append(b, x)) = Len(b) + 1
  BY LenProperties, ConcatProperties, AppendProperties
<1>2. /\ l \in Seq(T) /\ Len(l) = Len(a) + Len(b) + 1
      /\ r \in Seq(T) /\ Len(r) = Len(a) + (Len(b) + 1)
  BY <1>1, ConcatProperties, AppendProperties
<1>3. ASSUME NEW i \in 1..Len(l) PROVE l[i] = r[i]
  <2>1. CASE i <= Len(a)
    BY <1>1, <1>2, <2>1, ConcatProperties, AppendProperties
  <2>2. CASE i > Len(a) /\ i <= Len(a) + Len(b)
    BY <1>1, <1>2, <2>2, ConcatProperties, AppendProperties
  <2>3. CASE i = Len(a) + Len(b) + 1
    BY <1>1, <1>2, <2>3, ConcatProperties, AppendProperties
  <2> QED
    BY <1>1, <1>2, <2>1, <2>2, <2>3
<1> QED
  BY SMTT(30), <1>1, <1>2, <1>3, SeqEqual

\* What is picked of a sequence is what is picked of any of its heads, and then of the rest.
LEMMA PickedSplit ==
  ASSUME NEW T, NEW s, NEW p, NEW q, Len(s) \in Nat, Len(p) \in Nat, Len(q) \in Nat,
         Len(s) = Len(p) + Len(q),
         \A i \in 1..Len(p) : p[i] = s[i],
         \A i \in 1..Len(q) : q[i] = s[Len(p) + i]
  PROVE  Picked(s, T) = Picked(p, T) \o Picked(q, T)
<1>1. PICK F : Picks(F, s, T, Len(s)) /\ Picked(s, T) = F[Len(s)]
  BY ZenonT(30), PickedPicks
<1>2. PICK G : Picks(G, p, T, Len(p)) /\ Picked(p, T) = G[Len(p)]
  BY PickedPicks
<1>3. PICK H : Picks(H, q, T, Len(q)) /\ Picked(q, T) = H[Len(q)]
  BY PickedPicks
<1> DEFINE m == Len(p)
           n == Len(q)
           all == Len(s)
<1>4. /\ m \in Nat /\ n \in Nat /\ all = m + n
      /\ Picks(F, s, T, all) /\ Picks(G, p, T, m) /\ Picks(H, q, T, n)
      /\ \A i \in 1..m : p[i] = s[i]
      /\ \A i \in 1..n : q[i] = s[m + i]
  BY <1>1, <1>2, <1>3
<1> HIDE DEF m, n, all
<1>5. F[m] = G[m] /\ F[m] \in Seq(T)
  <2> DEFINE S == {k \in Nat : k <= m => F[k] = G[k]}
  <2>1. 0 \in S
    BY <1>4 DEF Picks
  <2>2. ASSUME NEW k \in Nat, k \in S
        PROVE  k + 1 \in S
    <3> SUFFICES ASSUME k + 1 <= m PROVE F[k + 1] = G[k + 1]
      BY <1>4
    <3>1. k + 1 \in 1..m /\ k + 1 \in 1..all /\ (k + 1) - 1 = k /\ k <= m
      BY <1>4
    <3>2. F[k + 1] = IF s[k + 1] \in T THEN Append(F[k], s[k + 1]) ELSE F[k]
      BY <1>4, <3>1 DEF Picks
    <3>3. G[k + 1] = IF p[k + 1] \in T THEN Append(G[k], p[k + 1]) ELSE G[k]
      BY ZenonT(30), <1>4, <3>1 DEF Picks
    <3>4. F[k] = G[k] /\ p[k + 1] = s[k + 1]
      BY <1>4, <2>2, <3>1
    <3> QED
      BY <3>2, <3>3, <3>4
  <2>3. m \in S
    <3> HIDE DEF S
    <3> QED
      BY SMTT(30), <2>1, <2>2, <1>4, InductionOverSet
  <2> QED
    BY <1>4, <2>3 DEF Picks
<1>6. F[all] = F[m] \o H[n]
  <2> DEFINE Joined(k) == F[m + k] = F[m] \o H[k]
             S == {k \in Nat : k <= n => Joined(k)}
  <2>1. 0 \in S
    <3>1. H[0] = <<>> /\ m + 0 = m
      BY <1>4 DEF Picks
    <3>2. F[m] \o <<>> = F[m]
      BY <1>5, ConcatEmptySeq
    <3> QED
      BY ZenonT(30), <3>1, <3>2
  <2>2. ASSUME NEW k \in Nat, k \in S
        PROVE  k + 1 \in S
    <3> SUFFICES ASSUME k + 1 <= n PROVE Joined(k + 1)
      <4> HIDE DEF Joined
      <4> QED
        OBVIOUS
    <3>1. /\ k + 1 \in 1..n /\ m + (k + 1) \in 1..all /\ (k + 1) - 1 = k /\ k <= n
          /\ (m + (k + 1)) - 1 = m + k /\ k \in 0..n
      BY <1>4
    <3> DEFINE x == s[m + (k + 1)]
    <3>2. F[m + (k + 1)] = IF x \in T THEN Append(F[m + k], x) ELSE F[m + k]
      BY ZenonT(30), <1>4, <3>1 DEF Picks
    <3>3. F[m + k] = F[m] \o H[k] /\ q[k + 1] = x
      BY ZenonT(30), <1>4, <2>2, <3>1
    <3>4. H[k + 1] = IF x \in T THEN Append(H[k], x) ELSE H[k]
      BY ZenonT(30), <1>4, <3>1, <3>3 DEF Picks
    <3>5. H[k] \in Seq(T)
      BY <1>4, <3>1 DEF Picks
    <3> HIDE DEF x
    <3>6. CASE x \in T
      <4>1. Append(F[m] \o H[k], x) = F[m] \o Append(H[k], x)
        <5> DEFINE a == F[m]
                   b == H[k]
        <5>1. a \in Seq(T) /\ b \in Seq(T) /\ x \in T
          BY <1>5, <3>5, <3>6
        <5> HIDE DEF a, b
        <5>2. Append(a \o b, x) = a \o Append(b, x)
          BY SMTT(30), <5>1, AppendAfter
        <5> QED
          BY <5>2 DEF a, b
      <4> QED
        BY ZenonT(30), <3>2, <3>3, <3>4, <3>6, <4>1
    <3>7. CASE x \notin T
      BY ZenonT(30), <3>2, <3>3, <3>4, <3>7
    <3> QED
      BY ZenonT(30), <3>6, <3>7
  <2>3. n \in S
    <3> HIDE DEF S
    <3> QED
      BY SMTT(30), <2>1, <2>2, <1>4, InductionOverSet
  <2>4. n <= n /\ m + n = all
    BY <1>4
  <2>5. F[m + n] = F[m] \o H[n]
    BY ZenonT(30), <2>3, <2>4
  <2> QED
    BY ZenonT(30), <2>4, <2>5
<1> QED
  BY <1>1, <1>2, <1>3, <1>5, <1>6 DEF m, n, all

\* When all of a sequence is in T all of it is picked, when none of it is nothing is.
LEMMA PickedAll ==
  ASSUME NEW T, NEW s \in Seq(T)
  PROVE  Picked(s, T) = s
<1>1. PICK F : Picks(F, s, T, Len(s)) /\ Picked(s, T) = F[Len(s)]
  BY PickedPicks, LenProperties
<1> DEFINE n == Len(s)
<1>2. /\ n \in Nat /\ Picks(F, s, T, n) /\ \A i \in 1..n : s[i] \in T
  BY <1>1, LenProperties, ElementOfSeq
<1> HIDE DEF n
<1> DEFINE S == {k \in Nat : k <= n => Len(F[k]) = k /\ \A i \in 1..k : F[k][i] = s[i]}
<1>3. 0 \in S
  <2>1. F[0] = <<>> /\ Len(<<>>) = 0
    BY <1>2 DEF Picks
  <2> QED
    BY <2>1
<1>4. ASSUME NEW k \in Nat, k \in S
      PROVE  k + 1 \in S
  <2> SUFFICES ASSUME k + 1 <= n
               PROVE  Len(F[k + 1]) = k + 1 /\ \A i \in 1..(k + 1) : F[k + 1][i] = s[i]
    OBVIOUS
  <2>1. k + 1 \in 1..n /\ (k + 1) - 1 = k /\ k \in 0..n
    BY <1>2
  <2>2. F[k + 1] = Append(F[k], s[k + 1]) /\ F[k] \in Seq(T) /\ s[k + 1] \in T
    BY ZenonT(30), <1>2, <2>1 DEF Picks
  <2>3. Len(F[k]) = k /\ \A i \in 1..k : F[k][i] = s[i]
    BY <1>2, <1>4, <2>1
  <2> QED
    BY <2>2, <2>3, AppendProperties
<1>5. n \in S
  <2> HIDE DEF S
  <2> QED
    BY <1>2, <1>3, <1>4, InductionOverSet
<1>6. F[n] \in Seq(T) /\ Len(F[n]) = n /\ \A i \in 1..n : F[n][i] = s[i]
  BY <1>2, <1>5 DEF Picks
<1>7. F[n] = s
  BY <1>6, SeqEqual DEF n
<1> QED
  BY <1>1, <1>7 DEF n

\* Nothing is picked when nothing is wanted.
LEMMA PickedNone ==
  ASSUME NEW T, NEW s, Len(s) \in Nat, \A i \in 1..Len(s) : s[i] \notin T
  PROVE  Picked(s, T) = <<>>
<1>1. PICK F : Picks(F, s, T, Len(s)) /\ Picked(s, T) = F[Len(s)]
  BY PickedPicks
<1> DEFINE S == {k \in Nat : k <= Len(s) => F[k] = <<>>}
<1>2. 0 \in S
  BY <1>1 DEF Picks
<1>3. ASSUME NEW k \in Nat, k \in S
      PROVE  k + 1 \in S
  <2> SUFFICES ASSUME k + 1 <= Len(s) PROVE F[k + 1] = <<>>
    OBVIOUS
  <2>1. k + 1 \in 1..Len(s) /\ (k + 1) - 1 = k /\ k <= Len(s)
    OBVIOUS
  <2> QED
    BY <1>1, <1>3, <2>1 DEF Picks
<1>4. Len(s) \in S
  <2> HIDE DEF S
  <2> QED
    BY <1>2, <1>3, InductionOverSet
<1> QED
  BY <1>1, <1>4

\* What is picked was there.
LEMMA PickedIn ==
  ASSUME NEW T, NEW E, NEW s \in Seq(E)
  PROVE  Picked(s, T) \in Seq(E)
<1>0. Len(s) \in Nat /\ \A i \in 1..Len(s) : s[i] \in E
  BY LenProperties, ElementOfSeq
<1>1. PICK F : Picks(F, s, T, Len(s)) /\ Picked(s, T) = F[Len(s)]
  BY <1>0, PickedPicks
<1> DEFINE S == {k \in Nat : k <= Len(s) => F[k] \in Seq(E)}
<1>2. 0 \in S
  <2>1. F[0] = <<>>
    BY <1>1 DEF Picks
  <2> QED
    BY ZenonT(30), <2>1, EmptySeq
<1>3. ASSUME NEW k \in Nat, k \in S
      PROVE  k + 1 \in S
  <2> SUFFICES ASSUME k + 1 <= Len(s) PROVE F[k + 1] \in Seq(E)
    OBVIOUS
  <2>1. k + 1 \in 1..Len(s) /\ (k + 1) - 1 = k /\ k <= Len(s)
    BY <1>0
  <2>2. F[k] \in Seq(E) /\ s[k + 1] \in E
    BY <1>0, <1>3, <2>1
  <2>3. F[k + 1] = Append(F[k], s[k + 1]) \/ F[k + 1] = F[k]
    BY ZenonT(30), <1>1, <2>1 DEF Picks
  <2> QED
    BY ZenonT(30), <2>2, <2>3, AppendProperties
<1>4. Len(s) \in S
  <2> HIDE DEF S
  <2> QED
    BY <1>0, <1>2, <1>3, InductionOverSet
<1> QED
  BY <1>0, <1>1, <1>4
=============================================================================
