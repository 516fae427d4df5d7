--------------------------- MODULE SyncDataProofs ---------------------------
(***************************************************************************)
(* Proofs about the sync data, for any range of milestones and any table.  *)
(*                                                                         *)
(* The facts about runs come first: what a set of milestones becomes, as   *)
(* runs, when a milestone or a block is added below it; then those about   *)
(* stacks.  With them a row of the scan is one of four cases, and what is  *)
(* taken is seen to be a run as soon as nothing on the stacks continues it. *)
(***************************************************************************)
EXTENDS SyncData, FiniteSetTheorems, WellFoundedInduction, TLAPS

\* A set of natural numbers has a least element.
LEMMA LeastNat ==
  ASSUME NEW S \in SUBSET Nat, S # {}
  PROVE  \E x \in S : \A y \in S : x <= y
<1>. DEFINE R == {ss \in Nat \X Nat : ss[1] < ss[2]}
<1>1. IsWellFoundedOn(R, Nat)
  <2>1. R = OpToRel(<, Nat) BY DEF OpToRel
  <2> QED BY <2>1, NatLessThanWellFounded
<1>2. PICK x \in S : \A y \in S : ~ (<<y, x>> \in R)
  <2> HIDE DEF R
  <2> QED BY <1>1, WFMin, Zenon
<1>3. \A y \in S : ~ (y < x)
  BY <1>2
<1> QED BY <1>3

\* One that is bounded has a greatest.
LEMMA GreatestNat ==
  ASSUME NEW N \in Nat, NEW S \in SUBSET Nat, S # {}, \A x \in S : x <= N
  PROVE  \E x \in S : \A y \in S : y <= x
<1>. DEFINE T == {N - x : x \in S}
<1>1. T \in SUBSET Nat /\ T # {}
  <2>1. \A x \in S : x \in Nat /\ x <= N /\ N - x \in Nat
    OBVIOUS
  <2>2. T # {} /\ \A u \in T : \E x \in S : u = N - x
    OBVIOUS
  <2>. HIDE DEF T
  <2> QED BY <2>1, <2>2
<1>2. PICK t \in T : \A u \in T : t <= u
  <2> HIDE DEF T
  <2> QED BY <1>1, LeastNat
<1>3. PICK x \in S : t = N - x
  OBVIOUS
<1>4. \A y \in S : N - y \in T
  OBVIOUS
<1>5. \A y \in S : N - x <= N - y
  <2>. HIDE DEF T
  <2> QED BY <1>2, <1>3, <1>4
<1>6. \A y \in S : y \in Nat /\ (N - x <= N - y => y <= x)
  OBVIOUS
<1> QED BY <1>5, <1>6

-----------------------------------------------------------------------------
(* Runs.                                                                   *)

LEMMA RangeType == From \in Nat /\ To \in Nat /\ 1 <= From /\ From < To
BY RangeAssumption

\* A run has its milestones between its ends.
LEMMA RunIs ==
  ASSUME NEW S, NEW r \in Runs(S)
  PROVE  /\ r \in Range2 /\ r = <<r[1], r[2]>>
         /\ r[1] \in Int /\ r[2] \in Int /\ From <= r[1] /\ r[1] < r[2] /\ r[2] <= To
         /\ \A m \in Int : r[1] <= m /\ m < r[2] => m \in S
         /\ r[1] - 1 \notin S /\ r[2] \notin S
<1>1. r \in Milestones \X ((From + 1) .. To) /\ r[1] < r[2] /\ r[1] .. (r[2] - 1) \subseteq S
      /\ r[1] - 1 \notin S /\ r[2] \notin S
  BY DEF Runs, Range2
<1>2. r = <<r[1], r[2]>> /\ r[1] \in From .. (To - 1) /\ r[2] \in (From + 1) .. To
  BY <1>1 DEF Milestones
<1>3. r[1] \in Int /\ r[2] \in Int /\ From <= r[1] /\ r[2] <= To
  BY <1>2, RangeType
<1>4. \A m \in Int : r[1] <= m /\ m < r[2] => m \in S
  BY <1>1, <1>3
<1> QED BY <1>1, <1>2, <1>3, <1>4 DEF Range2

LEMMA IsRun ==
  ASSUME NEW S, NEW a \in Int, NEW b \in Int, From <= a, a < b, b <= To,
         \A m \in Int : a <= m /\ m < b => m \in S, a - 1 \notin S, b \notin S
  PROVE  <<a, b>> \in Runs(S)
<1>1. a \in From .. (To - 1) /\ b \in (From + 1) .. To
  BY RangeType
<1>2. a .. (b - 1) \subseteq S
  OBVIOUS
<1> QED BY <1>1, <1>2 DEF Runs, Range2, Milestones

\* Two runs are apart.
LEMMA RunsApart ==
  ASSUME NEW S, NEW q \in Runs(S), NEW r \in Runs(S)
  PROVE  q = r \/ q[2] < r[1] \/ r[2] < q[1]
<1>1. ASSUME NEW x \in Runs(S), NEW y \in Runs(S), x[1] <= y[1], ~(x[2] < y[1])
      PROVE  x = y
  <2>1. x[1] \in Int /\ x[2] \in Int /\ y[1] \in Int /\ y[2] \in Int /\ x[1] < x[2] /\ y[1] < y[2]
        /\ x = <<x[1], x[2]>> /\ y = <<y[1], y[2]>>
        /\ (\A m \in Int : x[1] <= m /\ m < x[2] => m \in S) /\ x[2] \notin S
        /\ (\A m \in Int : y[1] <= m /\ m < y[2] => m \in S) /\ y[1] - 1 \notin S /\ y[2] \notin S
    BY RunIs
  <2>2. x[1] = y[1]
    <3>1. ~(x[1] <= y[1] - 1 /\ y[1] - 1 < x[2])
      BY <2>1
    <3> QED BY <1>1, <2>1, <3>1
  <2>3. ~(x[2] < y[2])
    <3>1. ~(y[1] <= x[2] /\ x[2] < y[2])
      BY <2>1
    <3> QED BY <2>1, <2>2, <3>1
  <2>4. ~(y[2] < x[2])
    <3>1. ~(x[1] <= y[2] /\ y[2] < x[2])
      BY <2>1
    <3> QED BY <2>1, <2>2, <3>1
  <2> QED BY <2>1, <2>2, <2>3, <2>4
<1>2. q[1] \in Int /\ r[1] \in Int
  BY RunIs
<1> QED BY <1>1, <1>2

\* Every milestone of a set is in a run of it.
LEMMA RunAt ==
  ASSUME NEW S, S \subseteq Milestones, NEW m \in S
  PROVE  \E r \in Runs(S) : r[1] <= m /\ m < r[2]
<1>1. m \in Nat /\ From <= m /\ m < To /\ To \notin S /\ From - 1 \notin S
  BY RangeType DEF Milestones
<1>. DEFINE B == {x \in Nat : m < x /\ x \notin S}
            A == {x \in Nat : x < m /\ x \notin S}
<1>2. PICK b \in B : \A y \in B : b <= y
  <2>1. To \in B /\ B \in SUBSET Nat
    BY <1>1, RangeType
  <2>. HIDE DEF B
  <2> QED BY <2>1, LeastNat
<1>3. PICK a \in A : \A y \in A : y <= a
  <2>1. From - 1 \in A /\ A \in SUBSET Nat /\ \A x \in A : x <= m
    BY <1>1, RangeType
  <2>. HIDE DEF A
  <2> QED BY <1>1, <2>1, GreatestNat
<1>4. a \in Nat /\ b \in Nat /\ a < m /\ m < b /\ a \notin S /\ b \notin S
      /\ To \in B /\ From - 1 \in A
  BY <1>1, RangeType
<1>5. \A x \in Nat : a < x /\ x < b => x \in S
  <2>. SUFFICES ASSUME NEW x \in Nat, a < x, x < b, x \notin S PROVE FALSE
    OBVIOUS
  <2>1. x # m
    OBVIOUS
  <2>2. x \in A \/ x \in B
    BY <1>1, <2>1
  <2>. HIDE DEF A, B
  <2> QED BY <1>2, <1>3, <1>4, <2>2
<1>6. From - 1 <= a /\ b <= To
  <2>. HIDE DEF A, B
  <2> QED BY <1>2, <1>3, <1>4
<1>. HIDE DEF A, B
<1>7. <<a + 1, b>> \in Runs(S)
  <2>1. a + 1 \in Int /\ b \in Int /\ From <= a + 1 /\ a + 1 < b /\ (a + 1) - 1 = a
    BY <1>1, <1>4, <1>6, RangeType
  <2>2. \A x \in Int : a + 1 <= x /\ x < b => x \in S
    BY <1>4, <1>5
  <2> QED BY <1>4, <1>6, <2>1, <2>2, IsRun
<1> QED BY <1>1, <1>4, <1>7

\* A block added below a set, not next to it, is a run more.
LEMMA AddBlock ==
  ASSUME NEW S, NEW a \in Int, NEW b \in Int, From <= a, a < b, b <= To,
         S \subseteq (b + 1) .. (To - 1)
  PROVE  Runs(S \cup a .. (b - 1)) = Runs(S) \cup {<<a, b>>}
<1>. DEFINE T == S \cup a .. (b - 1)
<1>0. From \in Int /\ To \in Int
  BY RangeType
<1>1. \A m \in Int : m \in T <=> m \in S \/ (a <= m /\ m < b)
  OBVIOUS
<1>2. \A m \in S : m \in Int /\ b < m
  BY <1>0
<1>. HIDE DEF T
<1>3. <<a, b>> \in Runs(T)
  <2>1. a - 1 \notin T /\ b \notin T
    BY <1>1, <1>2
  <2> QED BY <1>1, <2>1, IsRun
<1>4. ASSUME NEW r \in Runs(S) PROVE r \in Runs(T)
  <2>1. /\ r = <<r[1], r[2]>> /\ r[1] \in Int /\ r[2] \in Int
        /\ From <= r[1] /\ r[1] < r[2] /\ r[2] <= To
        /\ \A m \in Int : r[1] <= m /\ m < r[2] => m \in S
        /\ r[1] - 1 \notin S /\ r[2] \notin S
    BY RunIs
  <2>2. r[1] \in S
    BY <2>1
  <2>3. b < r[1] /\ r[1] - 1 \notin T /\ r[2] \notin T
    BY <1>1, <1>2, <2>1, <2>2
  <2>4. \A m \in Int : r[1] <= m /\ m < r[2] => m \in T
    BY <1>1, <2>1
  <2>5. <<r[1], r[2]>> \in Runs(T)
    BY <2>1, <2>3, <2>4, IsRun
  <2> QED BY <2>1, <2>5
<1>5. ASSUME NEW r \in Runs(T), r # <<a, b>> PROVE r \in Runs(S)
  <2>1. /\ r = <<r[1], r[2]>> /\ r[1] \in Int /\ r[2] \in Int
        /\ From <= r[1] /\ r[1] < r[2] /\ r[2] <= To
        /\ \A m \in Int : r[1] <= m /\ m < r[2] => m \in T
        /\ r[1] - 1 \notin T /\ r[2] \notin T
    BY RunIs
  <2>2. r[2] < a \/ b < r[1]
    <3>1. <<a, b>>[1] = a /\ <<a, b>>[2] = b
      OBVIOUS
    <3> QED BY <1>3, <1>5, <3>1, RunsApart
  <2>3. b < r[1]
    <3>1. r[1] \in T
      BY <2>1
    <3> QED BY <1>1, <1>2, <2>1, <2>2, <3>1
  <2>4. \A m \in Int : r[1] <= m /\ m < r[2] => m \in S
    BY <1>1, <2>1, <2>3
  <2>5. r[1] - 1 \notin S /\ r[2] \notin S
    BY <1>1, <2>1
  <2>6. <<r[1], r[2]>> \in Runs(S)
    BY <2>1, <2>4, <2>5, IsRun
  <2> QED BY <2>1, <2>6
<1> QED BY <1>3, <1>4, <1>5 DEF T

\* A milestone added below a set, next to its lowest run, extends that run.
LEMMA ExtendRun ==
  ASSUME NEW S, NEW m \in Int, From <= m, \A k \in S : k \in Int /\ m < k,
         NEW e \in Int, NEW l, l \in Runs(S), l = <<m + 1, e>>
  PROVE  Runs(S \cup {m}) = (Runs(S) \ {l}) \cup {<<m, e>>}
<1>. DEFINE T == S \cup {m}
<1>0. From \in Int /\ To \in Int
  BY RangeType
<1>1. /\ l = <<m + 1, e>> /\ l[1] = m + 1 /\ l[2] = e /\ e \in Int /\ m + 1 < e /\ e <= To
      /\ (\A k \in Int : m + 1 <= k /\ k < e => k \in S) /\ e \notin S
  BY RunIs
<1>2. \A k \in S : k \in Int /\ m < k
  OBVIOUS
<1>3. \A k : k \in T <=> k \in S \/ k = m
  OBVIOUS
<1>. HIDE DEF T
<1>4. <<m, e>> \in Runs(T)
  <2>1. m - 1 \notin T /\ e \notin T /\ m < e
    BY <1>1, <1>2, <1>3
  <2>2. \A k \in Int : m <= k /\ k < e => k \in T
    BY <1>1, <1>3
  <2> QED BY <1>1, <2>1, <2>2, IsRun
<1>5. ASSUME NEW r \in Runs(S), r # l PROVE r \in Runs(T)
  <2>1. /\ r = <<r[1], r[2]>> /\ r[1] \in Int /\ r[2] \in Int
        /\ From <= r[1] /\ r[1] < r[2] /\ r[2] <= To
        /\ \A k \in Int : r[1] <= k /\ k < r[2] => k \in S
        /\ r[1] - 1 \notin S /\ r[2] \notin S
    BY RunIs
  <2>2. r[1] \in S
    BY <2>1
  <2>4. r[2] < l[1] \/ l[2] < r[1]
    BY <1>5, RunsApart
  <2>5. e < r[1]
    BY <1>1, <1>2, <2>1, <2>2, <2>4
  <2>6. r[1] - 1 \notin T /\ r[2] \notin T
    BY <1>1, <1>3, <2>1, <2>5
  <2>7. \A k \in Int : r[1] <= k /\ k < r[2] => k \in T
    BY <1>3, <2>1
  <2>8. <<r[1], r[2]>> \in Runs(T)
    BY <2>1, <2>6, <2>7, IsRun
  <2> QED BY <2>1, <2>8
<1>6. ASSUME NEW r \in Runs(T), r # <<m, e>> PROVE r \in Runs(S) /\ r # l
  <2>1. /\ r = <<r[1], r[2]>> /\ r[1] \in Int /\ r[2] \in Int
        /\ From <= r[1] /\ r[1] < r[2] /\ r[2] <= To
        /\ \A k \in Int : r[1] <= k /\ k < r[2] => k \in T
        /\ r[1] - 1 \notin T /\ r[2] \notin T
    BY RunIs
  <2>2. r[2] < m \/ e < r[1]
    <3>1. <<m, e>>[1] = m /\ <<m, e>>[2] = e
      OBVIOUS
    <3> QED BY <1>4, <1>6, <3>1, RunsApart
  <2>3. e < r[1]
    <3>1. r[1] \in T
      BY <2>1
    <3> QED BY <1>2, <1>3, <2>1, <2>2, <3>1
  <2>4. \A k \in Int : r[1] <= k /\ k < r[2] => k \in S
    BY <1>1, <1>3, <2>1, <2>3
  <2>5. r[1] - 1 \notin S /\ r[2] \notin S
    BY <1>3, <2>1
  <2>6. <<r[1], r[2]>> \in Runs(S)
    BY <2>1, <2>4, <2>5, IsRun
  <2>7. r # l
    BY <1>1, <2>1, <2>3
  <2> QED BY <2>1, <2>6, <2>7
<1> QED BY <1>4, <1>5, <1>6 DEF T

-----------------------------------------------------------------------------
(* Stacks of ranges.                                                       *)

\* Pushing a range below all others.
LEMMA Pushed ==
  ASSUME NEW s \in Seq(Range2), NEW R, Stacked(s, R), NEW r \in Range2,
         \A x \in R : r[1] < x[1]
  PROVE  Append(s, r) \in Seq(Range2) /\ Stacked(Append(s, r), R \cup {r})
<1>. DEFINE t == Append(s, r)
<1>1. /\ t \in Seq(Range2) /\ Len(t) = Len(s) + 1 /\ Len(s) \in Nat
      /\ DOMAIN s = 1 .. Len(s) /\ DOMAIN t = 1 .. (Len(s) + 1)
      /\ \A i \in 1 .. (Len(s) + 1) : t[i] = IF i = Len(s) + 1 THEN r ELSE s[i]
  OBVIOUS
<1>. HIDE DEF t
<1>2. ToSet(s) = R /\ \A i, j \in 1 .. Len(s) : i < j => s[j][1] < s[i][1]
  BY <1>1 DEF Stacked
<1>3. \A i \in 1 .. Len(s) : s[i] \in R
  BY <1>1, <1>2 DEF ToSet
<1>4. ToSet(t) = R \cup {r}
  <2>1. \A i \in 1 .. (Len(s) + 1) : t[i] \in R \cup {r}
    BY <1>1, <1>3
  <2>2. \A x \in R : \E i \in 1 .. (Len(s) + 1) : t[i] = x
    <3>1. \A x \in R : \E i \in 1 .. Len(s) : s[i] = x
      BY <1>1, <1>2 DEF ToSet
    <3> QED BY <1>1, <3>1
  <2>3. t[Len(s) + 1] = r /\ Len(s) + 1 \in 1 .. (Len(s) + 1)
    BY <1>1
  <2> QED BY <1>1, <2>1, <2>2, <2>3 DEF ToSet
<1>5. ASSUME NEW i \in DOMAIN t, NEW j \in DOMAIN t, i < j PROVE t[j][1] < t[i][1]
  <2>1. i \in 1 .. Len(s) /\ t[i] = s[i]
    BY <1>1, <1>5
  <2>2. CASE j = Len(s) + 1
    BY <1>1, <1>3, <2>1, <2>2
  <2>3. CASE j # Len(s) + 1
    BY <1>1, <1>2, <1>5, <2>1, <2>3
  <2> QED BY <2>2, <2>3
<1> QED BY <1>1, <1>4, <1>5 DEF Stacked, t

\* Popping takes the lowest range.
LEMMA PoppedIs ==
  ASSUME NEW s \in Seq(Range2), NEW R, Stacked(s, R), s # <<>>
  PROVE  /\ Last(s) \in R /\ Last(s) \in Range2 /\ \A x \in R : x = Last(s) \/ Last(s)[1] < x[1]
         /\ Front(s) \in Seq(Range2) /\ Stacked(Front(s), R \ {Last(s)})
<1>. DEFINE n == Len(s)
            f == Front(s)
<1>1. n \in Nat /\ n >= 1 /\ DOMAIN s = 1 .. n /\ \A i \in 1 .. n : s[i] \in Range2
  OBVIOUS
<1>2. Last(s) = s[n]
  BY DEF Last
<1>3. f \in Seq(Range2) /\ DOMAIN f = 1 .. (n - 1) /\ \A i \in 1 .. (n - 1) : f[i] = s[i]
  BY <1>1 DEF Front
<1>. HIDE DEF n, f
<1>4. ToSet(s) = R /\ \A i, j \in 1 .. n : i < j => s[j][1] < s[i][1]
  BY <1>1 DEF Stacked
<1>5. s[n] \in R /\ \A x \in R : \E i \in 1 .. n : s[i] = x
  BY <1>1, <1>4 DEF ToSet
<1>6. \A i \in 1 .. n : i = n \/ s[n][1] < s[i][1]
  BY <1>1, <1>4
<1>7. \A x \in R : x = s[n] \/ s[n][1] < x[1]
  BY <1>5, <1>6
<1>8. s[n][1] \in Int
  <2>1. s[n] \in Range2
    BY <1>1
  <2> QED BY <2>1, RangeType DEF Range2, Milestones
<1>9. ToSet(f) = R \ {s[n]}
  <2>1. \A i \in 1 .. (n - 1) : f[i] \in R \ {s[n]}
    <3>1. \A i \in 1 .. (n - 1) : i \in 1 .. n /\ i # n /\ f[i] = s[i]
      BY <1>1, <1>3
    <3>2. \A i \in 1 .. (n - 1) : s[i] \in R
      BY <1>1, <1>4, <3>1 DEF ToSet
    <3>3. \A i \in 1 .. (n - 1) : s[i] # s[n]
      BY <1>6, <1>8, <3>1
    <3> QED BY <3>1, <3>2, <3>3
  <2>2. \A x \in R \ {s[n]} : \E i \in 1 .. (n - 1) : f[i] = x
    <3>. SUFFICES ASSUME NEW x \in R, x # s[n] PROVE \E i \in 1 .. (n - 1) : f[i] = x
      OBVIOUS
    <3>1. PICK i \in 1 .. n : s[i] = x
      BY <1>5
    <3>2. i # n
      BY <3>1
    <3>3. i \in 1 .. (n - 1)
      BY <1>1, <3>1, <3>2
    <3> QED BY <1>3, <3>1, <3>3
  <2> QED BY <1>3, <2>1, <2>2 DEF ToSet
<1>10. Stacked(f, R \ {s[n]})
  <2>1. ASSUME NEW i \in 1 .. (n - 1), NEW j \in 1 .. (n - 1), i < j PROVE f[j][1] < f[i][1]
    <3>1. i \in 1 .. n /\ j \in 1 .. n
      BY <1>1
    <3> QED BY <1>3, <1>4, <2>1, <3>1
  <2> QED BY <1>3, <1>9, <2>1 DEF Stacked
<1>11. s[n] \in Range2
  BY <1>1
<1> QED BY <1>2, <1>3, <1>5, <1>7, <1>10, <1>11 DEF f

\* The first range of a stack is the highest.
LEMMA BottomIs ==
  ASSUME NEW s \in Seq(Range2), NEW R, Stacked(s, R), s # <<>>
  PROVE  Head(s) \in R /\ \A x \in R : x = Head(s) \/ x[1] < Head(s)[1]
<1>1. Len(s) \in Nat /\ Len(s) >= 1 /\ DOMAIN s = 1 .. Len(s) /\ Head(s) = s[1]
  OBVIOUS
<1>2. ToSet(s) = R /\ \A i, j \in 1 .. Len(s) : i < j => s[j][1] < s[i][1]
  BY <1>1 DEF Stacked
<1>3. s[1] \in R /\ \A x \in R : \E i \in 1 .. Len(s) : s[i] = x
  BY <1>1, <1>2 DEF ToSet
<1>4. \A i \in 1 .. Len(s) : i = 1 \/ s[i][1] < s[1][1]
  BY <1>1, <1>2
<1> QED BY <1>1, <1>3, <1>4

\* A range above all that was taken.
LEMMA TakenIs ==
  ASSUME NEW s \in Seq(Range2), Ascending(s), NEW r \in Range2, \A x \in ToSet(s) : x[1] < r[1]
  PROVE  /\ Append(s, r) \in Seq(Range2) /\ Ascending(Append(s, r))
         /\ ToSet(Append(s, r)) = ToSet(s) \cup {r}
         /\ Append(s, r) # <<>> /\ Last(Append(s, r)) = r
<1>. DEFINE t == Append(s, r)
<1>1. /\ t \in Seq(Range2) /\ Len(t) = Len(s) + 1 /\ Len(s) \in Nat
      /\ DOMAIN s = 1 .. Len(s) /\ DOMAIN t = 1 .. (Len(s) + 1)
      /\ \A i \in 1 .. (Len(s) + 1) : t[i] = IF i = Len(s) + 1 THEN r ELSE s[i]
  OBVIOUS
<1>. HIDE DEF t
<1>2. \A i, j \in 1 .. Len(s) : i < j => s[i][1] < s[j][1]
  BY <1>1 DEF Ascending
<1>3. \A i \in 1 .. Len(s) : s[i] \in ToSet(s)
  BY <1>1 DEF ToSet
<1>4. ToSet(t) = ToSet(s) \cup {r}
  <2>1. \A i \in 1 .. (Len(s) + 1) : t[i] \in ToSet(s) \cup {r}
    BY <1>1, <1>3
  <2>2. \A x \in ToSet(s) : \E i \in 1 .. (Len(s) + 1) : t[i] = x
    <3>1. \A x \in ToSet(s) : \E i \in 1 .. Len(s) : s[i] = x
      BY <1>1 DEF ToSet
    <3> QED BY <1>1, <3>1
  <2>3. t[Len(s) + 1] = r /\ Len(s) + 1 \in 1 .. (Len(s) + 1)
    BY <1>1
  <2> QED BY <1>1, <2>1, <2>2, <2>3, ZenonT(60) DEF ToSet
<1>5. ASSUME NEW i \in DOMAIN t, NEW j \in DOMAIN t, i < j PROVE t[i][1] < t[j][1]
  <2>1. i \in 1 .. Len(s) /\ t[i] = s[i]
    BY <1>1, <1>5
  <2>2. CASE j = Len(s) + 1
    BY <1>1, <1>3, <2>1, <2>2
  <2>3. CASE j # Len(s) + 1
    BY <1>1, <1>2, <1>5, <2>1, <2>3
  <2> QED BY <2>2, <2>3
<1>6. t # <<>> /\ Last(t) = r
  BY <1>1 DEF Last
<1> QED BY <1>1, <1>4, <1>5, <1>6 DEF Ascending, t

-----------------------------------------------------------------------------
(* The scan.                                                               *)

\* What the scan finds, and what is taken of it.
Inductive == TypeOK /\ Scanning /\ ScanExact /\ TakeExact

LEMMA NoRuns == Runs({}) = {}
<1>1. ASSUME NEW r \in Runs({}) PROVE FALSE
  <2>1. r[1] \in Int /\ r[1] < r[2] /\ (\A m \in Int : r[1] <= m /\ m < r[2] => m \in {})
    BY RunIs
  <2> QED BY <2>1
<1> QED BY <1>1

LEMMA EmptyStack == Stacked(<<>>, {}) /\ Ascending(<<>>) /\ ToSet(<<>>) = {} /\ <<>> \in Seq(Range2)
BY DEF Stacked, Ascending, ToSet

LEMMA InitInductive ==
  ASSUME Init
  PROVE  Inductive
<1>1. /\ table \in [Milestones -> {"missing", "synced", "logged"}] /\ phase = "scan"
      /\ rest = {m \in Milestones : table[m] # "missing"} /\ preMs = To /\ preLogged = FALSE
      /\ completed = <<>> /\ unlogged = <<>> /\ gaps = <<>> /\ range = None /\ taken = <<>>
  BY DEF Init
<1>2. TypeOK
  <2>1. {completed, unlogged, gaps, taken} \subseteq Seq(Range2)
    BY <1>1, EmptyStack
  <2>2. preMs \in From .. To
    BY <1>1, RangeType
  <2> QED BY <1>1, <2>1, <2>2 DEF TypeOK
<1>3. Scanning
  BY <1>1 DEF Scanning, Milestones
<1>4. ScanExact
  <2>1. \A kind : Past(kind) = {}
    BY <1>1, RangeType DEF Past
  <2>2. \A kind : Runs(Past(kind)) = {}
    BY <2>1, NoRuns
  <2> QED BY <1>1, <2>2, EmptyStack DEF ScanExact
<1>5. TakeExact
  BY <1>1 DEF TakeExact
<1> QED BY <1>2, <1>3, <1>4, <1>5 DEF Inductive

\* Such a run with the milestone before it.
LEMMA ExtendsTo ==
  ASSUME NEW S, NEW m \in Milestones, \A k \in S : k \in Int /\ m < k,
         NEW l \in Runs(S), l[1] = m + 1
  PROVE  Runs(S \cup {m}) = (Runs(S) \ {l}) \cup {<<m, l[2]>>}
<1>. DEFINE e == l[2]
<1>1. m \in Int /\ From <= m
  BY RangeType DEF Milestones
<1>2. l = <<m + 1, e>> /\ e \in Int
  BY RunIs
<1>. HIDE DEF e
<1>3. Runs(S \cup {m}) = (Runs(S) \ {l}) \cup {<<m, e>>}
  BY <1>1, <1>2, ExtendRun
<1> QED BY <1>3 DEF e

\* A milestone below all of its kind so far extends its kind's lowest run, or is
\* a run of its own; that a row of another kind came between is as good as a gap.
LEMMA ProceedIs ==
  ASSUME NEW s \in Seq(Range2), NEW S, NEW m \in Milestones, S \subseteq (m + 1) .. (To - 1),
         Stacked(s, Runs(S)), NEW check, m + 1 \in S => check
  PROVE  Proceed(s, m, check) \in Seq(Range2) /\ Stacked(Proceed(s, m, check), Runs(S \cup {m}))
<1>1. m \in Int /\ From <= m /\ m < To /\ From \in Int /\ To \in Int
  BY RangeType DEF Milestones
<1>2. \A k \in S : k \in Int /\ m < k
  BY <1>1
<1>3. ASSUME NEW x \in Runs(S) PROVE x[1] \in S /\ x[1] \in Int /\ m < x[1]
  <2>1. x[1] \in Int /\ x[1] < x[2] /\ \A k \in Int : x[1] <= k /\ k < x[2] => k \in S
    BY RunIs
  <2> QED BY <1>2, <2>1
<1>4. CASE s # <<>> /\ check /\ Last(s)[1] = m + 1
  <2>. DEFINE l == Last(s)
              e == l[2]
  <2>1. /\ l \in Runs(S) /\ \A x \in Runs(S) : x = l \/ l[1] < x[1]
        /\ Front(s) \in Seq(Range2) /\ Stacked(Front(s), Runs(S) \ {l})
    BY <1>4, PoppedIs
  <2>2. l = <<m + 1, e>> /\ e \in Int /\ e <= To /\ m + 1 < e
    BY <1>4, <2>1, RunIs
  <2>. HIDE DEF l, e
  <2>3. Runs(S \cup {m}) = (Runs(S) \ {l}) \cup {<<m, e>>}
    <3>1. l \in Runs(S) /\ l[1] = m + 1
      BY <1>4, <2>1 DEF l
    <3>2. \A x \in Runs(S) : x[1] = m + 1 => Runs(S \cup {m}) = (Runs(S) \ {x}) \cup {<<m, x[2]>>}
      BY <1>2, ExtendsTo, ZenonT(60)
    <3> QED BY <3>1, <3>2 DEF e
  <2>4. <<m, e>> \in Range2
    BY <1>1, <2>2 DEF Range2, Milestones
  <2>5. \A x \in Runs(S) \ {l} : <<m, e>>[1] < x[1]
    BY <1>3
  <2>6. Proceed(s, m, check) = Append(Front(s), <<m, e>>)
    BY <1>4 DEF Proceed, l, e
  <2>. DEFINE w == <<m, e>>
              R == Runs(S) \ {l}
  <2>7. w \in Range2 /\ (\A x \in R : w[1] < x[1]) /\ Stacked(Front(s), R)
    BY <2>1, <2>4, <2>5
  <2>. HIDE DEF w, R
  <2>8. Append(Front(s), w) \in Seq(Range2) /\ Stacked(Append(Front(s), w), R \cup {w})
    BY <2>1, <2>7, Pushed
  <2> QED BY <2>3, <2>6, <2>8 DEF w, R
<1>5. CASE ~(s # <<>> /\ check /\ Last(s)[1] = m + 1)
  <2>1. m + 1 \notin S
    <3>. SUFFICES ASSUME m + 1 \in S PROVE FALSE
      OBVIOUS
    <3>1. S \subseteq Milestones
      BY <1>1 DEF Milestones
    <3>2. PICK r \in Runs(S) : r[1] <= m + 1 /\ m + 1 < r[2]
      BY <3>1, RunAt
    <3>3. r[1] = m + 1
      BY <1>1, <1>3, <3>2
    <3>4. s # <<>>
      BY EmptyStack, <3>2 DEF Stacked
    <3>5. Last(s) \in Runs(S) /\ (r = Last(s) \/ Last(s)[1] < r[1])
      BY <3>4, PoppedIs
    <3>6. Last(s)[1] = m + 1
      BY <1>1, <1>3, <3>3, <3>5
    <3> QED BY <1>5, <3>4, <3>6
  <2>2. S \subseteq ((m + 1) + 1) .. (To - 1)
    BY <1>1, <2>1
  <2>3. m .. ((m + 1) - 1) = {m}
    BY <1>1
  <2>4. Runs(S \cup {m}) = Runs(S) \cup {<<m, m + 1>>}
    <3>. DEFINE b == m + 1
    <3>1. b \in Int /\ m < b /\ b <= To /\ S \subseteq (b + 1) .. (To - 1)
      BY <1>1, <2>2
    <3>. HIDE DEF b
    <3>2. Runs(S \cup m .. (b - 1)) = Runs(S) \cup {<<m, b>>}
      BY <1>1, <3>1, AddBlock, ZenonT(60)
    <3> QED BY <2>3, <3>2 DEF b
  <2>5. <<m, m + 1>> \in Range2
    BY <1>1 DEF Range2, Milestones
  <2>6. \A x \in Runs(S) : <<m, m + 1>>[1] < x[1]
    BY <1>3
  <2>7. Proceed(s, m, check) = Append(s, <<m, m + 1>>)
    BY <1>5 DEF Proceed
  <2>. DEFINE w == <<m, m + 1>>
  <2>8. w \in Range2 /\ \A x \in Runs(S) : w[1] < x[1]
    BY <2>5, <2>6
  <2>. HIDE DEF w
  <2>9. Append(s, w) \in Seq(Range2) /\ Stacked(Append(s, w), Runs(S) \cup {w})
    BY <2>8, Pushed
  <2> QED BY <2>4, <2>7, <2>9 DEF w
<1> QED BY <1>4, <1>5

\* What is missing between the row scanned last and the next is a run of the gaps.
LEMMA GapIs ==
  ASSUME gaps \in Seq(Range2), preMs \in From .. To, NEW low \in Int, From - 1 <= low, low < preMs,
         NEW S, S \subseteq (preMs + 1) .. (To - 1), Stacked(gaps, Runs(S))
  PROVE  /\ WithGap(low) \in Seq(Range2)
         /\ Stacked(WithGap(low), Runs(S \cup (low + 1) .. (preMs - 1)))
<1>1. preMs \in Int /\ preMs <= To /\ From \in Int /\ To \in Int
  BY RangeType
<1>2. CASE low + 1 = preMs
  <2>1. (low + 1) .. (preMs - 1) = {}
    BY <1>1, <1>2
  <2>2. S \cup (low + 1) .. (preMs - 1) = S
    BY <2>1
  <2> QED BY <1>2, <2>2 DEF WithGap
<1>3. CASE low + 1 # preMs
  <2>1. low + 1 < preMs /\ low + 1 \in Int /\ From <= low + 1
    BY <1>1, <1>3
  <2>2. Runs(S \cup (low + 1) .. (preMs - 1)) = Runs(S) \cup {<<low + 1, preMs>>}
    BY <1>1, <2>1, AddBlock, ZenonT(60)
  <2>3. <<low + 1, preMs>> \in Range2
    BY <1>1, <2>1 DEF Range2, Milestones
  <2>4. ASSUME NEW x \in Runs(S) PROVE low + 1 < x[1]
    <3>1. x[1] \in Int /\ x[1] < x[2] /\ \A k \in Int : x[1] <= k /\ k < x[2] => k \in S
      BY RunIs
    <3>2. x[1] \in S
      BY <3>1
    <3>3. \A k \in S : preMs < k
      BY <1>1
    <3> QED BY <1>1, <2>1, <3>1, <3>2, <3>3
  <2>5. \A x \in Runs(S) : <<low + 1, preMs>>[1] < x[1]
    BY <2>4
  <2>6. WithGap(low) = Append(gaps, <<low + 1, preMs>>)
    BY <1>3 DEF WithGap
  <2>. DEFINE w == <<low + 1, preMs>>
  <2>7. w \in Range2 /\ \A x \in Runs(S) : w[1] < x[1]
    BY <2>3, <2>5
  <2>. HIDE DEF w
  <2>8. Append(gaps, w) \in Seq(Range2) /\ Stacked(Append(gaps, w), Runs(S) \cup {w})
    BY <2>7, Pushed
  <2> QED BY <2>2, <2>6, <2>8 DEF w
<1> QED BY <1>2, <1>3

\* Where the scan is, in numbers.
LEMMA ScanIs ==
  ASSUME Inductive, phase = "scan"
  PROVE  /\ table \in [Milestones -> {"missing", "synced", "logged"}]
         /\ preMs \in From .. To /\ preMs \in Int /\ preLogged \in BOOLEAN
         /\ completed \in Seq(Range2) /\ unlogged \in Seq(Range2) /\ gaps \in Seq(Range2)
         /\ range = None /\ taken = <<>>
         /\ rest = {m \in From .. (preMs - 1) : table[m] # "missing"}
         /\ preMs # To => table[preMs] # "missing" /\ preLogged = (table[preMs] = "logged")
         /\ Stacked(completed, Runs(Past("logged")))
         /\ Stacked(unlogged, Runs(Past("synced")))
         /\ Stacked(gaps, Runs(Past("missing")))
         /\ Past("missing") \subseteq (preMs + 1) .. (To - 1)
         /\ \A kind : Past(kind) \subseteq preMs .. (To - 1)
<1>1. TypeOK /\ Scanning /\ ScanExact
  BY DEF Inductive
<1>2. preMs \in From .. To /\ preMs \in Int
  BY <1>1, RangeType DEF TypeOK
<1>3. preMs # To => table[preMs] # "missing"
  BY <1>1 DEF Scanning
<1>4. \A kind : Past(kind) \subseteq preMs .. (To - 1)
  BY DEF Past
<1>5. preMs \notin Past("missing")
  BY <1>2, <1>3, RangeType DEF Past, Kind, Milestones
<1>6. Past("missing") \subseteq (preMs + 1) .. (To - 1)
  BY <1>2, <1>4, <1>5, RangeType
<1> QED BY <1>1, <1>2, <1>4, <1>6 DEF TypeOK, Scanning, ScanExact

LEMMA NextRow ==
  ASSUME Inductive, NEW m \in Milestones, Row(m)
  PROVE  Inductive'
<1>1. /\ phase = "scan" /\ m \in rest /\ (\A k \in rest : k <= m) /\ gaps' = WithGap(m)
      /\ rest' = rest \ {m} /\ preMs' = m /\ preLogged' = (table[m] = "logged")
      /\ table' = table /\ phase' = phase /\ range' = range /\ taken' = taken
  BY DEF Row
<1>2. \/ /\ table[m] = "logged" /\ unlogged' = unlogged
         /\ completed' = Proceed(completed, m, preLogged)
      \/ /\ table[m] = "synced" /\ completed' = completed
         /\ unlogged' = Proceed(unlogged, m, ~preLogged)
  BY DEF Row
<1>3. /\ table \in [Milestones -> {"missing", "synced", "logged"}]
      /\ preMs \in From .. To /\ preMs \in Int /\ preLogged \in BOOLEAN
      /\ completed \in Seq(Range2) /\ unlogged \in Seq(Range2) /\ gaps \in Seq(Range2)
      /\ range = None /\ taken = <<>>
      /\ rest = {k \in From .. (preMs - 1) : table[k] # "missing"}
      /\ preMs # To => table[preMs] # "missing" /\ preLogged = (table[preMs] = "logged")
      /\ Stacked(completed, Runs(Past("logged")))
      /\ Stacked(unlogged, Runs(Past("synced")))
      /\ Stacked(gaps, Runs(Past("missing")))
      /\ Past("missing") \subseteq (preMs + 1) .. (To - 1)
      /\ \A kind : Past(kind) \subseteq preMs .. (To - 1)
  BY <1>1, ScanIs
<1>4. /\ m \in Int /\ From <= m /\ m < preMs /\ preMs <= To /\ From \in Int /\ To \in Int
      /\ preMs \in Int /\ table[m] # "missing"
  BY <1>1, <1>3, RangeType
<1>5. \A k \in Int : m < k /\ k < preMs => k \in Milestones /\ table[k] = "missing"
  <2>. SUFFICES ASSUME NEW k \in Int, m < k, k < preMs
                PROVE  k \in Milestones /\ table[k] = "missing"
    OBVIOUS
  <2>1. k \in From .. (preMs - 1) /\ k \in Milestones
    BY <1>4 DEF Milestones
  <2>2. k \notin rest
    BY <1>1, <1>4
  <2> QED BY <1>3, <2>1, <2>2
<1>6. \A kind : Past(kind)' = Kind(kind) \cap (m .. (To - 1))
  BY <1>1 DEF Past, Kind
<1>7. Past("missing")' = Past("missing") \cup (m + 1) .. (preMs - 1)
  <2>1. ASSUME NEW k \in Kind("missing") \cap (m .. (To - 1))
        PROVE  k \in Past("missing") \cup (m + 1) .. (preMs - 1)
    BY <1>4 DEF Past, Kind
  <2>2. ASSUME NEW k \in Past("missing") PROVE k \in Kind("missing") \cap (m .. (To - 1))
    BY <1>4 DEF Past
  <2>3. ASSUME NEW k \in (m + 1) .. (preMs - 1) PROVE k \in Kind("missing") \cap (m .. (To - 1))
    BY <1>4, <1>5 DEF Kind
  <2> QED BY <1>6, <2>1, <2>2, <2>3
<1>8. ASSUME NEW kind \in {"logged", "synced"}
      PROVE  Past(kind)' = IF table[m] = kind THEN Past(kind) \cup {m} ELSE Past(kind)
  <2>1. ASSUME NEW k \in Kind(kind) \cap (m .. (To - 1)), k # m PROVE k \in Past(kind)
    BY <1>4, <1>5, <2>1 DEF Past, Kind
  <2>2. ASSUME NEW k \in Past(kind) PROVE k \in Kind(kind) \cap (m .. (To - 1))
    BY <1>4 DEF Past
  <2>3. m \in Kind(kind) \cap (m .. (To - 1)) <=> table[m] = kind
    BY <1>4 DEF Kind
  <2>4. table[m] # kind => m \notin Past(kind)
    BY DEF Past, Kind
  <2> QED BY <1>6, <2>1, <2>2, <2>3, <2>4
<1>9. gaps' \in Seq(Range2) /\ Stacked(gaps', Runs(Past("missing")'))
  BY <1>1, <1>3, <1>4, <1>7, GapIs
<1>10. \A kind \in {"logged", "synced"} :
         /\ Past(kind) \subseteq (m + 1) .. (To - 1)
         /\ m + 1 \in Past(kind) => preMs = m + 1 /\ table[preMs] = kind /\ preMs # To
  BY <1>3, <1>4 DEF Past, Kind
<1>11. completed' \in Seq(Range2) /\ Stacked(completed', Runs(Past("logged")'))
  <2>1. CASE table[m] = "logged"
    <3>1. m + 1 \in Past("logged") => preLogged
      BY <1>3, <1>10
    <3>2. completed' = Proceed(completed, m, preLogged)
      BY <1>2, <2>1
    <3>3. Past("logged")' = Past("logged") \cup {m}
      BY <1>8, <2>1
    <3> QED BY <1>3, <1>10, <3>1, <3>2, <3>3, ProceedIs
  <2>2. CASE table[m] # "logged"
    <3>1. completed' = completed
      BY <1>2, <2>2
    <3>2. Past("logged")' = Past("logged")
      BY <1>8, <2>2
    <3> QED BY <1>3, <3>1, <3>2
  <2> QED BY <2>1, <2>2
<1>12. unlogged' \in Seq(Range2) /\ Stacked(unlogged', Runs(Past("synced")'))
  <2>1. CASE table[m] = "synced"
    <3>1. m + 1 \in Past("synced") => ~preLogged
      BY <1>3, <1>10
    <3>2. unlogged' = Proceed(unlogged, m, ~preLogged)
      BY <1>2, <2>1
    <3>3. Past("synced")' = Past("synced") \cup {m}
      BY <1>8, <2>1
    <3>. DEFINE check == ~preLogged
                S == Past("synced")
    <3>4. /\ S \subseteq (m + 1) .. (To - 1) /\ (m + 1 \in S => check)
          /\ Stacked(unlogged, Runs(S)) /\ unlogged \in Seq(Range2)
      BY <1>3, <1>10, <3>1
    <3>. HIDE DEF check, S
    <3>5. /\ Proceed(unlogged, m, check) \in Seq(Range2)
          /\ Stacked(Proceed(unlogged, m, check), Runs(S \cup {m}))
      BY <3>4, ProceedIs
    <3> QED BY <3>2, <3>3, <3>5 DEF check, S
  <2>2. CASE table[m] # "synced"
    <3>1. unlogged' = unlogged
      BY <1>2, <2>2
    <3>2. Past("synced")' = Past("synced")
      BY <1>8, <2>2
    <3> QED BY <1>3, <3>1, <3>2
  <2> QED BY <2>1, <2>2
<1>13. TypeOK'
  <2>1. preMs' \in From .. To /\ preLogged' \in BOOLEAN
    BY <1>1, <1>4
  <2>2. rest' \subseteq Milestones
    BY <1>1 DEF Inductive, TypeOK
  <2>3. phase' \in {"scan", "complete", "fillgaps"} /\ range' \in Range2 \cup {None}
        /\ table' \in [Milestones -> {"missing", "synced", "logged"}]
    BY <1>1, <1>3
  <2>4. {completed', unlogged', gaps', taken'} \subseteq Seq(Range2)
    BY <1>1, <1>3, <1>9, <1>11, <1>12, EmptyStack
  <2> QED BY <2>1, <2>2, <2>3, <2>4 DEF TypeOK
<1>14. Scanning'
  <2>1. rest' = {k \in From .. (m - 1) : table[k] # "missing"}
    <3>1. ASSUME NEW k \in rest \ {m} PROVE k \in From .. (m - 1) /\ table[k] # "missing"
      BY <1>1, <1>3, <1>4
    <3>2. ASSUME NEW k \in From .. (m - 1), table[k] # "missing" PROVE k \in rest \ {m}
      BY <1>3, <1>4, <3>2
    <3> QED BY <1>1, <3>1, <3>2
  <2> QED BY <1>1, <1>3, <1>4, <2>1 DEF Scanning
<1>15. ScanExact'
  BY <1>9, <1>11, <1>12 DEF ScanExact, Stacked
<1>16. TakeExact'
  BY <1>1 DEF TakeExact
<1> QED BY <1>13, <1>14, <1>15, <1>16 DEF Inductive

LEMMA NextEndOfTable ==
  ASSUME Inductive, EndOfTable
  PROVE  Inductive'
<1>1. /\ phase = "scan" /\ rest = {} /\ gaps' = WithGap(From - 1)
      /\ phase' \in {"complete", "fillgaps"}
      /\ table' = table /\ rest' = rest /\ preMs' = preMs /\ preLogged' = preLogged
      /\ completed' = completed /\ unlogged' = unlogged /\ range' = range /\ taken' = taken
  BY DEF EndOfTable
<1>2. /\ table \in [Milestones -> {"missing", "synced", "logged"}]
      /\ preMs \in From .. To /\ preMs \in Int /\ preLogged \in BOOLEAN
      /\ completed \in Seq(Range2) /\ unlogged \in Seq(Range2) /\ gaps \in Seq(Range2)
      /\ range = None /\ taken = <<>>
      /\ rest = {k \in From .. (preMs - 1) : table[k] # "missing"}
      /\ Stacked(unlogged, Runs(Past("synced")))
      /\ Stacked(gaps, Runs(Past("missing")))
      /\ Past("missing") \subseteq (preMs + 1) .. (To - 1)
  BY <1>1, ScanIs
<1>3. From \in Int /\ To \in Int /\ preMs \in Int /\ From <= preMs /\ preMs <= To
  BY <1>2, RangeType
<1>4. \A k \in From .. (preMs - 1) : k \in Milestones /\ table[k] = "missing"
  <2>. SUFFICES ASSUME NEW k \in From .. (preMs - 1) PROVE k \in Milestones /\ table[k] = "missing"
    OBVIOUS
  <2>1. k \in Milestones
    BY <1>3 DEF Milestones
  <2>2. k \notin rest
    BY <1>1
  <2> QED BY <1>2, <2>1, <2>2
<1>5. Kind("missing") = Past("missing") \cup ((From - 1) + 1) .. (preMs - 1)
  <2>1. ASSUME NEW k \in Kind("missing") PROVE k \in Past("missing") \cup From .. (preMs - 1)
    BY <1>3 DEF Past, Kind, Milestones
  <2>2. ASSUME NEW k \in From .. (preMs - 1) PROVE k \in Kind("missing")
    BY <1>4 DEF Kind
  <2>3. Past("missing") \subseteq Kind("missing") /\ (From - 1) + 1 = From
    BY <1>3 DEF Past
  <2> QED BY <2>1, <2>2, <2>3
<1>6. gaps' \in Seq(Range2) /\ Stacked(gaps', Runs(Kind("missing")))
  <2>1. From - 1 \in Int /\ From - 1 <= From - 1 /\ From - 1 < preMs
    BY <1>3
  <2> QED BY <1>1, <1>2, <1>5, <2>1, GapIs
<1>7. Past("synced") = Kind("synced")
  <2>1. ASSUME NEW k \in Kind("synced") PROVE k \in preMs .. (To - 1)
    BY <1>3, <1>4 DEF Kind, Milestones
  <2> QED BY <2>1 DEF Past
<1>8. \A kind : Kind(kind)' = Kind(kind)
  BY <1>1 DEF Kind
<1>9. Reached' = From
  BY <1>1, <1>2 DEF Reached
<1>10. \A S : \A r \in Runs(S) : r[1] >= From /\ ~(r[1] < From)
  BY <1>3, RunIs
<1>11. \A kind : Left(kind)' = Runs(Kind(kind))
  BY <1>8, <1>9, <1>10 DEF Left
<1>12. TypeOK'
  <2>1. {completed', unlogged', gaps', taken'} \subseteq Seq(Range2)
    BY <1>1, <1>2, <1>6, EmptyStack
  <2> QED BY <1>1, <1>2, <2>1 DEF TypeOK
<1>13. TakeExact'
  <2>1. Stacked(gaps', Left("missing")') /\ Stacked(unlogged', Left("synced")')
    BY <1>1, <1>2, <1>6, <1>7, <1>11
  <2>2. ToSet(taken') = {r \in Runs(Todo') : r[1] < Reached'} /\ Ascending(taken')
    <3>1. {r \in Runs(Todo') : r[1] < From} = {}
      BY <1>10
    <3> QED BY <1>1, <1>2, <1>9, <3>1, EmptyStack
  <2>3. range' = None
    BY <1>1, <1>2
  <2>4. \A S : \A r \in Runs(S) : ~(r[1] < Reached')
    BY <1>9, <1>10
  <2> QED BY <2>1, <2>2, <2>3, <2>4, Zenon DEF TakeExact, Stacked, Ascending
<1>14. Scanning' /\ ScanExact'
  BY <1>1 DEF Scanning, ScanExact
<1> QED BY <1>12, <1>13, <1>14 DEF Inductive

-----------------------------------------------------------------------------
(* What is to be taken.                                                    *)

KindRuns == Runs(Kind("missing")) \cup (IF phase = "complete" THEN Runs(Kind("synced")) ELSE {})

\* A milestone is to be taken when it is in a run of one of the kinds, ...
LEMMA InKind ==
  ASSUME NEW m \in Int
  PROVE  m \in Todo <=> \E q \in KindRuns : q[1] <= m /\ m < q[2]
<1>1. Kind("missing") \subseteq Milestones /\ Kind("synced") \subseteq Milestones
  BY DEF Kind
<1>2. ASSUME NEW kind \in {"missing", "synced"}
      PROVE  m \in Kind(kind) <=> \E q \in Runs(Kind(kind)) : q[1] <= m /\ m < q[2]
  <2>1. m \in Kind(kind) => \E q \in Runs(Kind(kind)) : q[1] <= m /\ m < q[2]
    BY <1>1, RunAt
  <2>2. \A q \in Runs(Kind(kind)) : q[1] <= m /\ m < q[2] => m \in Kind(kind)
    BY RunIs
  <2> QED BY <2>1, <2>2
<1>3. CASE phase = "complete"
  BY <1>2, <1>3 DEF Todo, KindRuns
<1>4. CASE phase # "complete"
  BY <1>2, <1>4 DEF Todo, KindRuns
<1> QED BY <1>3, <1>4

\* ... which do not overlap.
LEMMA KindsApart ==
  ASSUME NEW q \in KindRuns, NEW r \in KindRuns
  PROVE  /\ q \in Range2 /\ q = <<q[1], q[2]>>
         /\ q[1] \in Int /\ q[2] \in Int /\ From <= q[1] /\ q[1] < q[2] /\ q[2] <= To
         /\ q = r \/ q[2] <= r[1] \/ r[2] <= q[1]
<1>1. \A x \in KindRuns : x \in Range2 /\ x = <<x[1], x[2]>>
        /\ x[1] \in Int /\ x[2] \in Int /\ From <= x[1] /\ x[1] < x[2] /\ x[2] <= To
  BY RunIs DEF KindRuns
<1>2. ASSUME NEW S, NEW x \in Runs(S), NEW y \in Runs(S), x \in KindRuns, y \in KindRuns
      PROVE  x = y \/ x[2] <= y[1] \/ y[2] <= x[1]
  <2>1. x = y \/ x[2] < y[1] \/ y[2] < x[1]
    BY RunsApart
  <2> QED BY <1>1, <1>2, <2>1
<1>3. ASSUME NEW x \in Runs(Kind("missing")), NEW y \in Runs(Kind("synced"))
      PROVE  x[2] <= y[1] \/ y[2] <= x[1]
  <2>1. /\ x[1] \in Int /\ x[2] \in Int /\ x[1] < x[2]
        /\ \A m \in Int : x[1] <= m /\ m < x[2] => m \in Kind("missing")
    BY RunIs
  <2>2. /\ y[1] \in Int /\ y[2] \in Int /\ y[1] < y[2]
        /\ \A m \in Int : y[1] <= m /\ m < y[2] => m \in Kind("synced")
    BY RunIs
  <2>3. \A m : ~(m \in Kind("missing") /\ m \in Kind("synced"))
    BY DEF Kind
  <2>4. CASE x[1] <= y[1]
    <3>1. ~(y[1] < x[2])
      BY <2>1, <2>2, <2>3, <2>4
    <3> QED BY <2>1, <2>2, <3>1
  <2>5. CASE y[1] <= x[1]
    <3>1. ~(x[1] < y[2])
      BY <2>1, <2>2, <2>3, <2>5
    <3> QED BY <2>1, <2>2, <3>1
  <2> QED BY <2>1, <2>2, <2>4, <2>5
<1>4. q \in Runs(Kind("missing")) \/ q \in Runs(Kind("synced"))
  BY DEF KindRuns
<1>5. r \in Runs(Kind("missing")) \/ r \in Runs(Kind("synced"))
  BY DEF KindRuns
<1>6. q = r \/ q[2] <= r[1] \/ r[2] <= q[1]
  BY <1>2, <1>3, <1>4, <1>5
<1> QED BY <1>1, <1>6

\* The state while ranges are taken, in numbers.
LEMMA TakeIs ==
  ASSUME Inductive, phase # "scan"
  PROVE  /\ gaps \in Seq(Range2) /\ unlogged \in Seq(Range2) /\ taken \in Seq(Range2)
         /\ Reached \in Int /\ From <= Reached
         /\ Stacked(gaps, Left("missing"))
         /\ phase = "complete" => Stacked(unlogged, Left("synced"))
         /\ \A q \in KindRuns : q[1] < Reached => q[2] <= Reached
         /\ range # None => /\ phase = "complete" /\ range = <<range[1], range[2]>>
                            /\ range \in Range2 /\ Reached = range[2]
                            /\ range[1] \in Int /\ range[2] \in Int /\ From <= range[1]
                            /\ range[1] < range[2] /\ range[2] <= To /\ range[1] - 1 \notin Todo
                            /\ \A m \in Int : range[1] <= m /\ m < range[2] => m \in Todo
         /\ ToSet(taken) = {r \in Runs(Todo) : r[1] < IF range # None THEN range[1] ELSE Reached}
         /\ Ascending(taken)
         /\ range = None => Reached = From \/ Reached \notin Todo
<1>1. TypeOK /\ TakeExact
  BY DEF Inductive
<1>2. gaps \in Seq(Range2) /\ unlogged \in Seq(Range2) /\ taken \in Seq(Range2)
      /\ range \in Range2 \cup {None}
  BY <1>1 DEF TypeOK
<1>3. /\ Stacked(gaps, Left("missing"))
      /\ phase = "complete" => Stacked(unlogged, Left("synced"))
      /\ \A q \in KindRuns : q[1] < Reached => q[2] <= Reached
      /\ range # None => /\ phase = "complete" /\ range[1] < range[2]
                         /\ range[1] .. (range[2] - 1) \subseteq Todo /\ range[1] - 1 \notin Todo
      /\ ToSet(taken) = {r \in Runs(Todo) : r[1] < IF range # None THEN range[1] ELSE Reached}
      /\ Ascending(taken)
  BY <1>1 DEF TakeExact, KindRuns
<1>4. \A r \in Range2 : r = <<r[1], r[2]>> /\ r[1] \in Int /\ r[2] \in Int
                        /\ From <= r[1] /\ From <= r[2] /\ r[2] <= To
  BY RangeType DEF Range2, Milestones
<1>5. range # None =>
        /\ range = <<range[1], range[2]>> /\ range \in Range2 /\ Reached = range[2]
        /\ range[1] \in Int /\ range[2] \in Int /\ From <= range[1] /\ From <= range[2] /\ range[2] <= To
        /\ \A m \in Int : range[1] <= m /\ m < range[2] => m \in Todo
  <2>. SUFFICES ASSUME range # None
                PROVE  /\ range = <<range[1], range[2]>> /\ range \in Range2 /\ Reached = range[2]
                       /\ range[1] \in Int /\ range[2] \in Int /\ From <= range[1]
                       /\ From <= range[2] /\ range[2] <= To
                       /\ \A m \in Int : range[1] <= m /\ m < range[2] => m \in Todo
    OBVIOUS
  <2>1. range \in Range2 /\ Reached = range[2]
    BY <1>2 DEF Reached
  <2>2. /\ range = <<range[1], range[2]>> /\ range[1] \in Int /\ range[2] \in Int
        /\ From <= range[1] /\ From <= range[2] /\ range[2] <= To
    BY <1>4, <2>1
  <2>3. \A m \in Int : range[1] <= m /\ m < range[2] => m \in Todo
    BY <1>3, <2>2
  <2> QED BY <2>1, <2>2, <2>3
<1>6. ASSUME range = None, taken # <<>>
      PROVE  Reached \in Int /\ From <= Reached /\ Reached \notin Todo
  <2>1. Len(taken) \in Nat /\ Len(taken) >= 1 /\ DOMAIN taken = 1 .. Len(taken)
    BY <1>2, <1>6
  <2>2. Reached = taken[Len(taken)][2] /\ taken[Len(taken)] \in ToSet(taken)
    BY <1>6, <2>1 DEF Reached, Last, ToSet
  <2>3. taken[Len(taken)] \in Runs(Todo)
    BY <1>3, <2>2
  <2> QED BY <2>2, <2>3, RunIs, RangeType
<1>7. range = None /\ taken = <<>> => Reached = From
  BY DEF Reached
<1>8. Reached \in Int /\ From <= Reached
  BY <1>5, <1>6, <1>7, RangeType
<1>9. range = None => Reached = From \/ Reached \notin Todo
  BY <1>6, <1>7
<1> QED BY <1>2, <1>3, <1>5, <1>8, <1>9, Zenon

\* The steps that take ranges leave the table, and so what is to be taken, alone.
LEMMA Unchanged ==
  ASSUME table' = table, phase' = phase
  PROVE  /\ \A kind : Kind(kind)' = Kind(kind)
         /\ Todo' = Todo /\ KindRuns' = KindRuns
BY DEF Kind, Todo, KindRuns

\* The lowest range of both stacks is the lowest run of either kind that is left,
\* and when it is popped those that start at its end or above are left.
LEMMA LowestIs ==
  ASSUME Inductive, phase = "complete", MoreToTake
  PROVE  /\ Lowest \in KindRuns /\ Lowest[1] >= Reached
         /\ \A q \in KindRuns : q[1] < Lowest[2] => q = Lowest \/ q[1] < Reached
         /\ Pop => /\ gaps' \in Seq(Range2) /\ unlogged' \in Seq(Range2)
                   /\ Stacked(gaps', {r \in Runs(Kind("missing")) : r[1] >= Lowest[2]})
                   /\ Stacked(unlogged', {r \in Runs(Kind("synced")) : r[1] >= Lowest[2]})
<1>. DEFINE Gaps == Runs(Kind("missing"))
            Unlogged == Runs(Kind("synced"))
            k == Lowest
<1>1. /\ gaps \in Seq(Range2) /\ unlogged \in Seq(Range2) /\ Reached \in Int
      /\ Stacked(gaps, Left("missing")) /\ Stacked(unlogged, Left("synced"))
  BY TakeIs
<1>2. Left("missing") = {r \in Gaps : r[1] >= Reached} /\ Left("synced") = {r \in Unlogged : r[1] >= Reached}
  BY DEF Left
<1>3. KindRuns = Gaps \cup Unlogged
  BY DEF KindRuns
<1>4. \A q, r \in KindRuns : /\ q[1] \in Int /\ q[2] \in Int /\ q[1] < q[2]
                             /\ q = r \/ q[2] <= r[1] \/ r[2] <= q[1]
  BY KindsApart
<1>5. Gaps \cap Unlogged = {}
  <2>1. ASSUME NEW r \in Gaps, r \in Unlogged PROVE FALSE
    <3>1. r[1] \in Kind("missing") /\ r[1] \in Kind("synced")
      BY <2>1, RunIs
    <3> QED BY <3>1 DEF Kind
  <2> QED BY <2>1
<1>6. gaps # <<>> =>
        /\ Last(gaps) \in Left("missing")
        /\ \A x \in Left("missing") : x = Last(gaps) \/ Last(gaps)[1] < x[1]
        /\ Front(gaps) \in Seq(Range2) /\ Stacked(Front(gaps), Left("missing") \ {Last(gaps)})
  BY <1>1, PoppedIs
<1>7. unlogged # <<>> =>
        /\ Last(unlogged) \in Left("synced")
        /\ \A x \in Left("synced") : x = Last(unlogged) \/ Last(unlogged)[1] < x[1]
        /\ Front(unlogged) \in Seq(Range2) /\ Stacked(Front(unlogged), Left("synced") \ {Last(unlogged)})
  BY <1>1, PoppedIs
<1>8. (gaps = <<>> => Left("missing") = {}) /\ (unlogged = <<>> => Left("synced") = {})
  BY <1>1, EmptyStack DEF Stacked
<1>. HIDE DEF Gaps, Unlogged
<1>9. CASE GapIsLowest
  <2>1. k = Last(gaps) /\ gaps # <<>> /\ (unlogged = <<>> \/ Last(gaps)[1] < Last(unlogged)[1])
    BY <1>9 DEF GapIsLowest, Lowest
  <2>. HIDE DEF k
  <2>2. k \in Gaps /\ k \in KindRuns /\ k[1] >= Reached
    BY <1>2, <1>3, <1>6, <2>1
  <2>3. ASSUME NEW q \in KindRuns, q[1] >= Reached, q # k PROVE k[1] < q[1]
    <3>1. q \in Left("missing") \/ q \in Left("synced")
      BY <1>2, <1>3, <2>3
    <3>2. CASE q \in Left("missing")
      BY <1>6, <2>1, <2>3, <3>2
    <3>3. CASE q \in Left("synced")
      <4>1. unlogged # <<>> /\ Last(unlogged) \in Left("synced")
            /\ (q = Last(unlogged) \/ Last(unlogged)[1] < q[1])
        BY <1>7, <1>8, <3>3
      <4>2. Last(unlogged) \in KindRuns
        BY <1>2, <1>3, <4>1
      <4> QED BY <1>4, <2>1, <2>2, <4>1, <4>2
    <3> QED BY <3>1, <3>2, <3>3
  <2>4. \A q \in KindRuns : q[1] >= Reached /\ q # k <=> q[1] >= k[2]
    <3>1. ASSUME NEW q \in KindRuns, q[1] >= Reached, q # k PROVE q[1] >= k[2]
      BY <1>4, <2>2, <2>3, <3>1
    <3>2. ASSUME NEW q \in KindRuns, q[1] >= k[2] PROVE q[1] >= Reached /\ q # k
      BY <1>1, <1>4, <2>2, <3>2
    <3> QED BY <3>1, <3>2
  <2>5. Left("missing") \ {k} = {r \in Gaps : r[1] >= k[2]}
    BY <1>2, <1>3, <2>4
  <2>6. Left("synced") = {r \in Unlogged : r[1] >= k[2]}
    <3>1. k \notin Unlogged
      BY <1>5, <2>2
    <3> QED BY <1>2, <1>3, <2>4, <3>1
  <2>7. ASSUME NEW q \in KindRuns, q[1] < k[2] PROVE q = k \/ q[1] < Reached
    BY <1>1, <1>4, <2>2, <2>4, <2>7
  <2>8. ASSUME Pop
        PROVE  /\ gaps' \in Seq(Range2) /\ unlogged' \in Seq(Range2)
               /\ Stacked(gaps', {r \in Gaps : r[1] >= k[2]})
               /\ Stacked(unlogged', {r \in Unlogged : r[1] >= k[2]})
    <3>1. gaps' = Front(gaps) /\ unlogged' = unlogged
      BY <1>9, <2>8 DEF Pop
    <3> QED BY <1>1, <1>6, <2>1, <2>5, <2>6, <3>1
  <2> QED BY <2>2, <2>7, <2>8 DEF k, Gaps, Unlogged
<1>10. CASE ~GapIsLowest
  <2>1. k = Last(unlogged) /\ unlogged # <<>> /\ (gaps = <<>> \/ ~(Last(gaps)[1] < Last(unlogged)[1]))
    BY <1>10 DEF GapIsLowest, Lowest, MoreToTake
  <2>. HIDE DEF k
  <2>2. k \in Unlogged /\ k \in KindRuns /\ k[1] >= Reached
    BY <1>2, <1>3, <1>7, <2>1
  <2>3. ASSUME NEW q \in KindRuns, q[1] >= Reached, q # k PROVE k[1] < q[1]
    <3>1. q \in Left("missing") \/ q \in Left("synced")
      BY <1>2, <1>3, <2>3
    <3>2. CASE q \in Left("synced")
      BY <1>7, <2>1, <2>3, <3>2
    <3>3. CASE q \in Left("missing")
      <4>1. gaps # <<>> /\ Last(gaps) \in Left("missing")
            /\ (q = Last(gaps) \/ Last(gaps)[1] < q[1])
        BY <1>6, <1>8, <3>3
      <4>2. Last(gaps) \in KindRuns
        BY <1>2, <1>3, <4>1
      <4>3. k[1] <= Last(gaps)[1]
        BY <1>4, <2>1, <2>2, <4>1, <4>2
      <4>4. k[1] <= q[1]
        BY <1>4, <2>2, <4>1, <4>2, <4>3
      <4> QED BY <1>4, <2>2, <2>3, <4>4
    <3> QED BY <3>1, <3>2, <3>3
  <2>4. \A q \in KindRuns : q[1] >= Reached /\ q # k <=> q[1] >= k[2]
    <3>1. ASSUME NEW q \in KindRuns, q[1] >= Reached, q # k PROVE q[1] >= k[2]
      BY <1>4, <2>2, <2>3, <3>1
    <3>2. ASSUME NEW q \in KindRuns, q[1] >= k[2] PROVE q[1] >= Reached /\ q # k
      BY <1>1, <1>4, <2>2, <3>2
    <3> QED BY <3>1, <3>2
  <2>5. Left("synced") \ {k} = {r \in Unlogged : r[1] >= k[2]}
    BY <1>2, <1>3, <2>4
  <2>6. Left("missing") = {r \in Gaps : r[1] >= k[2]}
    <3>1. k \notin Gaps
      BY <1>5, <2>2
    <3> QED BY <1>2, <1>3, <2>4, <3>1
  <2>7. ASSUME NEW q \in KindRuns, q[1] < k[2] PROVE q = k \/ q[1] < Reached
    BY <1>1, <1>4, <2>2, <2>4, <2>7
  <2>8. ASSUME Pop
        PROVE  /\ gaps' \in Seq(Range2) /\ unlogged' \in Seq(Range2)
               /\ Stacked(gaps', {r \in Gaps : r[1] >= k[2]})
               /\ Stacked(unlogged', {r \in Unlogged : r[1] >= k[2]})
    <3>1. unlogged' = Front(unlogged) /\ gaps' = gaps
      BY <1>10, <2>8 DEF Pop
    <3> QED BY <1>1, <1>7, <2>1, <2>5, <2>6, <3>1
  <2> QED BY <2>2, <2>7, <2>8 DEF k, Gaps, Unlogged
<1> QED BY <1>9, <1>10

\* Nothing is left when both stacks are empty.
LEMMA NothingLeft ==
  ASSUME Inductive, phase = "complete", ~MoreToTake
  PROVE  \A q \in KindRuns : q[1] < Reached
<1>1. gaps = <<>> /\ unlogged = <<>>
  BY DEF MoreToTake
<1>2. Left("missing") = {} /\ Left("synced") = {} /\ Reached \in Int
  BY <1>1, TakeIs, EmptyStack DEF Stacked
<1>3. \A q \in KindRuns : q[1] \in Int /\ ~(q[1] >= Reached)
  BY <1>2, KindsApart DEF KindRuns, Left
<1> QED BY <1>2, <1>3

\* What a step that takes ranges must establish.
LEMMA TakeStep ==
  ASSUME Inductive, phase # "scan", phase' = phase, table' = table, rest' = rest,
         preMs' = preMs, preLogged' = preLogged, completed' = completed,
         gaps' \in Seq(Range2), unlogged' \in Seq(Range2), taken' \in Seq(Range2),
         range' \in Range2 \cup {None}, NEW r2, Reached' = r2,
         Stacked(gaps', {r \in Runs(Kind("missing")) : r[1] >= r2}),
         phase = "complete" => Stacked(unlogged', {r \in Runs(Kind("synced")) : r[1] >= r2}),
         \A q \in KindRuns : q[1] < r2 => q[2] <= r2,
         range' # None => /\ phase = "complete" /\ range'[1] < range'[2]
                          /\ range'[1] .. (range'[2] - 1) \subseteq Todo /\ range'[1] - 1 \notin Todo,
         ToSet(taken') = {r \in Runs(Todo) : r[1] < IF range' # None THEN range'[1] ELSE r2},
         Ascending(taken')
  PROVE  Inductive'
<1>1. TypeOK'
  BY DEF Inductive, TypeOK
<1>2. Scanning' /\ ScanExact'
  BY DEF Scanning, ScanExact
<1>3. TakeExact'
  <2>1. /\ \A kind : Kind(kind)' = Kind(kind)
        /\ Todo' = Todo /\ KindRuns' = KindRuns
    BY Unchanged
  <2>2. \A kind : Left(kind)' = {r \in Runs(Kind(kind)) : r[1] >= r2}
    BY <2>1 DEF Left
  <2>3. Stacked(gaps', Left("missing")') /\ (phase = "complete" => Stacked(unlogged', Left("synced")'))
    BY <2>2
  <2>4. \A q \in KindRuns' : q[1] < Reached' => q[2] <= Reached'
    BY <2>1
  <2>5. ToSet(taken') = {r \in Runs(Todo') : r[1] < IF range' # None THEN range'[1] ELSE Reached'}
    BY <2>1
  <2> QED BY <2>1, <2>3, <2>4, <2>5 DEF TakeExact, KindRuns, Stacked, Ascending
<1> QED BY <1>1, <1>2, <1>3 DEF Inductive

LEMMA NextTakeLowestGap ==
  ASSUME Inductive, TakeLowestGap
  PROVE  Inductive'
<1>1. /\ phase = "fillgaps" /\ gaps # <<>> /\ taken' = Append(taken, Last(gaps)) /\ gaps' = Front(gaps)
      /\ table' = table /\ phase' = phase /\ rest' = rest /\ preMs' = preMs /\ preLogged' = preLogged
      /\ completed' = completed /\ unlogged' = unlogged /\ range' = range
  BY DEF TakeLowestGap
<1>. DEFINE k == Last(gaps)
<1>2. /\ gaps \in Seq(Range2) /\ unlogged \in Seq(Range2) /\ taken \in Seq(Range2)
      /\ Reached \in Int /\ Stacked(gaps, Left("missing")) /\ range = None
      /\ \A q \in KindRuns : q[1] < Reached => q[2] <= Reached
      /\ ToSet(taken) = {r \in Runs(Todo) : r[1] < Reached} /\ Ascending(taken)
  BY <1>1, TakeIs
<1>3. KindRuns = Runs(Todo) /\ Todo = Kind("missing")
  BY <1>1 DEF KindRuns, Todo
<1>4. /\ k \in Left("missing") /\ k \in Range2 /\ \A x \in Left("missing") : x = k \/ k[1] < x[1]
      /\ Front(gaps) \in Seq(Range2) /\ Stacked(Front(gaps), Left("missing") \ {k})
  BY <1>1, <1>2, PoppedIs
<1>. HIDE DEF k
<1>5. Left("missing") = {r \in Runs(Todo) : r[1] >= Reached}
  BY <1>3 DEF Left
<1>6. \A q, r \in Runs(Todo) : /\ q[1] \in Int /\ q[2] \in Int /\ q[1] < q[2]
                               /\ q = r \/ q[2] <= r[1] \/ r[2] <= q[1]
  BY <1>3, KindsApart
<1>7. k \in Runs(Todo) /\ k[1] >= Reached /\ k[1] < k[2] /\ k[1] \in Int /\ k[2] \in Int
  BY <1>4, <1>5, <1>6
<1>8. \A q \in Runs(Todo) : /\ q[1] \in Int
                            /\ q[1] >= Reached /\ q # k <=> q[1] >= k[2]
                            /\ q[1] < Reached \/ q = k <=> q[1] < k[2]
  <2>1. ASSUME NEW q \in Runs(Todo), q[1] >= Reached, q # k PROVE q[1] >= k[2]
    BY <1>4, <1>5, <1>6, <1>7, <2>1
  <2>2. ASSUME NEW q \in Runs(Todo), q[1] >= k[2] PROVE q[1] >= Reached /\ q # k
    BY <1>2, <1>6, <1>7, <2>2
  <2>3. ASSUME NEW q \in Runs(Todo) PROVE q[1] < Reached \/ q = k <=> q[1] < k[2]
    <3>1. (q[1] >= Reached /\ q # k) <=> q[1] >= k[2]
      BY <2>1, <2>2
    <3>2. q[1] \in Int
      BY <1>6
    <3> QED BY <1>2, <1>7, <3>1, <3>2
  <2> QED BY <1>6, <2>1, <2>2, <2>3, Zenon
<1>9. Left("missing") \ {k} = {r \in Runs(Kind("missing")) : r[1] >= k[2]}
  BY <1>3, <1>5, <1>8
<1>10. \A x \in ToSet(taken) : x[1] < k[1]
  BY <1>2, <1>6, <1>7
<1>11. /\ Append(taken, k) \in Seq(Range2) /\ Ascending(Append(taken, k))
       /\ ToSet(Append(taken, k)) = ToSet(taken) \cup {k}
       /\ Append(taken, k) # <<>> /\ Last(Append(taken, k)) = k
  BY <1>2, <1>4, <1>10, TakenIs
<1>12. taken' = Append(taken, k)
  BY <1>1 DEF k
<1>13. Reached' = k[2]
  BY <1>1, <1>2, <1>11, <1>12 DEF Reached
<1>14. ToSet(taken') = {r \in Runs(Todo) : r[1] < k[2]}
  BY <1>2, <1>7, <1>8, <1>11, <1>12
<1>15. \A q \in KindRuns : q[1] < k[2] => q[2] <= k[2]
  <2>. SUFFICES ASSUME NEW q \in Runs(Todo), q[1] < k[2] PROVE q[2] <= k[2]
    BY <1>3
  <2>1. q = k \/ q[1] < Reached
    BY <1>8
  <2>2. q[1] < Reached => q[2] <= Reached
    BY <1>2, <1>3
  <2> QED BY <1>2, <1>6, <1>7, <2>1, <2>2
<1>16. Stacked(gaps', {r \in Runs(Kind("missing")) : r[1] >= k[2]}) /\ gaps' \in Seq(Range2)
  BY <1>1, <1>4, <1>9
<1>. DEFINE r2 == k[2]
<1>17. /\ Reached' = r2 /\ Stacked(gaps', {r \in Runs(Kind("missing")) : r[1] >= r2})
       /\ \A q \in KindRuns : q[1] < r2 => q[2] <= r2
       /\ ToSet(taken') = {r \in Runs(Todo) : r[1] < r2}
  BY <1>13, <1>14, <1>15, <1>16
<1>18. /\ phase # "scan" /\ phase # "complete" /\ range' = None /\ unlogged' \in Seq(Range2)
       /\ taken' \in Seq(Range2) /\ Ascending(taken')
  BY <1>1, <1>2, <1>11, <1>12
<1>. HIDE DEF r2
<1> QED BY <1>1, <1>16, <1>17, <1>18, TakeStep

\* The lowest range starts where nothing to be taken comes before, unless what was
\* taken ends there.
LEMMA LowestBegins ==
  ASSUME Inductive, phase = "complete", MoreToTake
  PROVE  /\ Lowest \in Range2 /\ Lowest = <<Lowest[1], Lowest[2]>>
         /\ Lowest[1] \in Int /\ Lowest[2] \in Int /\ Lowest[1] < Lowest[2] /\ Reached <= Lowest[1]
         /\ \A m \in Int : Lowest[1] <= m /\ m < Lowest[2] => m \in Todo
         /\ \A m \in Int : Reached <= m /\ m < Lowest[1] => m \notin Todo
         /\ \A q \in KindRuns : q[1] < Lowest[2] => q[2] <= Lowest[2]
<1>. DEFINE k == Lowest
<1>1. /\ k \in KindRuns /\ k[1] >= Reached
      /\ \A q \in KindRuns : q[1] < k[2] => q = k \/ q[1] < Reached
  BY LowestIs
<1>2. Reached \in Int /\ \A q \in KindRuns : q[1] < Reached => q[2] <= Reached
  BY TakeIs
<1>. HIDE DEF k
<1>3. \A q \in KindRuns : q \in Range2 /\ q = <<q[1], q[2]>> /\ q[1] \in Int /\ q[2] \in Int /\ q[1] < q[2]
  BY KindsApart
<1>4. \A m \in Int : k[1] <= m /\ m < k[2] => m \in Todo
  BY <1>1, InKind
<1>5. ASSUME NEW m \in Int, Reached <= m, m < k[1], m \in Todo PROVE FALSE
  <2>1. PICK q \in KindRuns : q[1] <= m /\ m < q[2]
    BY <1>5, InKind
  <2>2. q # k /\ q[1] < k[2]
    BY <1>1, <1>3, <1>5, <2>1
  <2>3. q[2] <= Reached
    BY <1>1, <1>2, <2>2
  <2> QED BY <1>2, <1>3, <1>5, <2>1, <2>3
<1>6. \A q \in KindRuns : q[1] < k[2] => q[2] <= k[2]
  <2>. SUFFICES ASSUME NEW q \in KindRuns, q[1] < k[2] PROVE q[2] <= k[2]
    OBVIOUS
  <2>1. q = k \/ q[2] <= Reached
    BY <1>1, <1>2
  <2> QED BY <1>1, <1>2, <1>3, <2>1
<1> QED BY <1>1, <1>2, <1>3, <1>4, <1>5, <1>6 DEF k

LEMMA NextTakeLowestUncomplete ==
  ASSUME Inductive, TakeLowestUncomplete
  PROVE  Inductive'
<1>. DEFINE k == Lowest
            r2 == k[2]
<1>1. /\ phase = "complete" /\ range = None /\ MoreToTake /\ range' = k /\ Pop
      /\ table' = table /\ phase' = phase /\ rest' = rest /\ preMs' = preMs /\ preLogged' = preLogged
      /\ completed' = completed /\ taken' = taken
  BY DEF TakeLowestUncomplete
<1>2. /\ k \in Range2 /\ k = <<k[1], k[2]>> /\ k[1] \in Int /\ k[2] \in Int /\ k[1] < k[2]
      /\ Reached <= k[1]
      /\ \A m \in Int : k[1] <= m /\ m < k[2] => m \in Todo
      /\ \A m \in Int : Reached <= m /\ m < k[1] => m \notin Todo
      /\ \A q \in KindRuns : q[1] < r2 => q[2] <= r2
  BY <1>1, LowestBegins
<1>3. /\ gaps' \in Seq(Range2) /\ unlogged' \in Seq(Range2)
      /\ Stacked(gaps', {r \in Runs(Kind("missing")) : r[1] >= r2})
      /\ Stacked(unlogged', {r \in Runs(Kind("synced")) : r[1] >= r2})
  BY <1>1, LowestIs
<1>4. /\ taken \in Seq(Range2) /\ Reached \in Int /\ From <= Reached
      /\ ToSet(taken) = {r \in Runs(Todo) : r[1] < Reached} /\ Ascending(taken)
      /\ Reached = From \/ Reached \notin Todo
      /\ \A q \in KindRuns : q[1] < Reached => q[2] <= Reached
  BY <1>1, TakeIs
<1>. HIDE DEF k, r2
<1>5. range' # None /\ Reached' = r2
  <2>1. range' # None
    BY <1>1, <1>2 DEF None
  <2> QED BY <1>1, <2>1 DEF Reached, r2
<1>6. k[1] - 1 \notin Todo
  <2>. SUFFICES ASSUME k[1] - 1 \in Todo PROVE FALSE
    OBVIOUS
  <2>1. PICK q \in KindRuns : q[1] <= k[1] - 1 /\ k[1] - 1 < q[2]
    BY <1>2, InKind
  <2>2. q[1] \in Int /\ q[2] \in Int /\ From <= q[1]
    BY KindsApart
  <2>3. ~(Reached <= k[1] - 1)
    BY <1>2
  <2>4. Reached = k[1]
    BY <1>2, <1>4, <2>3
  <2>5. q[1] < Reached
    BY <1>2, <2>1, <2>2, <2>4
  <2>6. k[1] \in Todo
    BY <1>2
  <2>7. Reached = From
    BY <1>4, <2>4, <2>6
  <2> QED BY <1>4, <2>2, <2>5, <2>7
<1>7. range'[1] < range'[2] /\ range'[1] .. (range'[2] - 1) \subseteq Todo /\ range'[1] - 1 \notin Todo
      /\ range'[1] = k[1]
  <2>1. k[1] .. (k[2] - 1) \subseteq Todo
    BY <1>2
  <2> QED BY <1>1, <1>2, <1>6, <2>1
<1>8. ToSet(taken') = {r \in Runs(Todo) : r[1] < k[1]}
  <2>1. \A r \in Runs(Todo) : r[1] < k[1] <=> r[1] < Reached
    <3>. SUFFICES ASSUME NEW r \in Runs(Todo) PROVE r[1] < k[1] <=> r[1] < Reached
      OBVIOUS
    <3>1. r[1] \in Int /\ r[1] \in Todo
      BY RunIs
    <3>2. ~(Reached <= r[1] /\ r[1] < k[1])
      BY <1>2, <3>1
    <3> QED BY <1>2, <1>4, <3>1, <3>2
  <2> QED BY <1>1, <1>4, <2>1
<1>9. ToSet(taken') = {r \in Runs(Todo) : r[1] < IF range' # None THEN range'[1] ELSE r2}
  BY <1>5, <1>7, <1>8
<1>10. /\ phase # "scan" /\ range' \in Range2 \cup {None} /\ taken' \in Seq(Range2) /\ Ascending(taken')
  BY <1>1, <1>2, <1>4
<1> QED BY <1>1, <1>2, <1>3, <1>5, <1>7, <1>9, <1>10, TakeStep

LEMMA NextExtendRange ==
  ASSUME Inductive, ExtendRange
  PROVE  Inductive'
<1>. DEFINE k == Lowest
            r2 == k[2]
<1>1. /\ range # None /\ MoreToTake /\ k[1] = range[2] /\ range' = <<range[1], k[2]>> /\ Pop
      /\ table' = table /\ phase' = phase /\ rest' = rest /\ preMs' = preMs /\ preLogged' = preLogged
      /\ completed' = completed /\ taken' = taken
  BY DEF ExtendRange
<1>2. phase # "scan"
  BY <1>1 DEF Inductive, Scanning
<1>3. /\ taken \in Seq(Range2) /\ phase = "complete" /\ range \in Range2 /\ range = <<range[1], range[2]>>
      /\ range[1] \in Int /\ range[2] \in Int /\ range[1] < range[2]
      /\ (\A m \in Int : range[1] <= m /\ m < range[2] => m \in Todo) /\ range[1] - 1 \notin Todo
      /\ ToSet(taken) = {r \in Runs(Todo) : r[1] < range[1]} /\ Ascending(taken)
  BY <1>1, <1>2, TakeIs
<1>4. /\ k \in Range2 /\ k[1] \in Int /\ k[2] \in Int /\ k[1] < k[2]
      /\ \A m \in Int : k[1] <= m /\ m < k[2] => m \in Todo
      /\ \A q \in KindRuns : q[1] < r2 => q[2] <= r2
  BY <1>1, <1>3, LowestBegins
<1>5. /\ gaps' \in Seq(Range2) /\ unlogged' \in Seq(Range2)
      /\ Stacked(gaps', {r \in Runs(Kind("missing")) : r[1] >= r2})
      /\ Stacked(unlogged', {r \in Runs(Kind("synced")) : r[1] >= r2})
  BY <1>1, <1>3, LowestIs
<1>. HIDE DEF k, r2
<1>6. range' # None /\ Reached' = r2 /\ range'[1] = range[1] /\ range'[2] = k[2]
  <2>1. range' # None
    BY <1>1 DEF None
  <2>2. range'[1] = range[1] /\ range'[2] = k[2]
    BY <1>1
  <2> QED BY <2>1, <2>2 DEF Reached, r2
<1>7. range'[1] < range'[2] /\ range'[1] .. (range'[2] - 1) \subseteq Todo /\ range'[1] - 1 \notin Todo
  <2>1. range[1] .. (k[2] - 1) \subseteq Todo
    BY <1>1, <1>3, <1>4
  <2> QED BY <1>1, <1>3, <1>4, <1>6, <2>1
<1>8. ToSet(taken') = {r \in Runs(Todo) : r[1] < IF range' # None THEN range'[1] ELSE r2}
  BY <1>1, <1>3, <1>6
<1>9. range' \in Range2 \cup {None}
  <2>1. range[1] \in Milestones /\ k[2] \in (From + 1) .. To
    BY <1>3, <1>4 DEF Range2
  <2> QED BY <1>1, <2>1 DEF Range2
<1>10. taken' \in Seq(Range2) /\ Ascending(taken')
  BY <1>1, <1>3
<1> QED BY <1>1, <1>2, <1>3, <1>4, <1>5, <1>6, <1>7, <1>8, <1>9, <1>10, TakeStep

\* What is returned is a run: nothing that is left starts where it ends.
LEMMA NextReturnRange ==
  ASSUME Inductive, ReturnRange
  PROVE  Inductive'
<1>1. /\ range # None /\ ~(MoreToTake /\ Lowest[1] = range[2])
      /\ taken' = Append(taken, range) /\ range' = None
      /\ table' = table /\ phase' = phase /\ rest' = rest /\ preMs' = preMs /\ preLogged' = preLogged
      /\ completed' = completed /\ unlogged' = unlogged /\ gaps' = gaps
  BY DEF ReturnRange, scanned
<1>2. phase # "scan"
  BY <1>1 DEF Inductive, Scanning
<1>. DEFINE r2 == range[2]
<1>3. /\ gaps \in Seq(Range2) /\ unlogged \in Seq(Range2) /\ taken \in Seq(Range2)
      /\ Stacked(gaps, Left("missing")) /\ Stacked(unlogged, Left("synced"))
      /\ \A q \in KindRuns : q[1] < Reached => q[2] <= Reached
      /\ phase = "complete" /\ range = <<range[1], range[2]>> /\ range \in Range2 /\ Reached = r2
      /\ range[1] \in Int /\ range[2] \in Int /\ From <= range[1]
      /\ range[1] < range[2] /\ range[2] <= To /\ range[1] - 1 \notin Todo
      /\ \A m \in Int : range[1] <= m /\ m < range[2] => m \in Todo
      /\ ToSet(taken) = {r \in Runs(Todo) : r[1] < range[1]} /\ Ascending(taken)
  BY <1>1, <1>2, TakeIs
<1>4. range[2] \notin Todo
  <2>. SUFFICES ASSUME range[2] \in Todo PROVE FALSE
    OBVIOUS
  <2>1. PICK q \in KindRuns : q[1] <= range[2] /\ range[2] < q[2]
    BY <1>3, InKind
  <2>2. q[1] \in Int /\ q[2] \in Int
    BY KindsApart
  <2>3. q[1] = range[2]
    BY <1>3, <2>1, <2>2
  <2>4. MoreToTake
    BY <1>3, <2>2, <2>3, NothingLeft
  <2>5. Reached <= Lowest[1] /\ Lowest[1] \in Int /\ Lowest[2] \in Int /\ Lowest[1] < Lowest[2]
        /\ (q[1] < Lowest[2] => q = Lowest \/ q[1] < Reached)
        /\ \A m \in Int : Reached <= m /\ m < Lowest[1] => m \notin Todo
    BY <1>3, <2>4, LowestBegins, LowestIs
  <2>6. ~(range[2] < Lowest[1])
    BY <1>3, <2>5
  <2> QED BY <1>1, <1>3, <2>4, <2>5, <2>6
<1>5. range \in Runs(Todo)
  <2>1. <<range[1], range[2]>> \in Runs(Todo)
    BY <1>3, <1>4, IsRun
  <2> QED BY <1>3, <2>1
<1>6. \A x \in ToSet(taken) : x[1] < range[1]
  BY <1>3
<1>7. /\ taken' \in Seq(Range2) /\ Ascending(taken') /\ ToSet(taken') = ToSet(taken) \cup {range}
      /\ taken' # <<>> /\ Last(taken') = range
  BY <1>1, <1>3, <1>6, TakenIs
<1>8. Reached' = r2
  BY <1>1, <1>7 DEF Reached
<1>9. ToSet(taken') = {r \in Runs(Todo) : r[1] < r2}
  <2>1. ASSUME NEW r \in Runs(Todo) PROVE r[1] < range[2] <=> r[1] < range[1] \/ r = range
    <3>1. r = range \/ r[2] < range[1] \/ range[2] < r[1]
      BY <1>5, RunsApart
    <3>2. r[1] \in Int /\ r[2] \in Int /\ r[1] < r[2]
      BY RunIs
    <3> QED BY <1>3, <3>1, <3>2
  <2> QED BY <1>3, <1>5, <1>7, <2>1
<1>10. Stacked(gaps, {r \in Runs(Kind("missing")) : r[1] >= r2})
       /\ Stacked(unlogged, {r \in Runs(Kind("synced")) : r[1] >= r2})
  BY <1>3 DEF Left
<1>11. \A q \in KindRuns : q[1] < r2 => q[2] <= r2
  BY <1>3
<1>. HIDE DEF r2
<1>12. /\ Stacked(gaps', {r \in Runs(Kind("missing")) : r[1] >= r2})
       /\ Stacked(unlogged', {r \in Runs(Kind("synced")) : r[1] >= r2})
       /\ gaps' \in Seq(Range2) /\ unlogged' \in Seq(Range2)
  BY <1>1, <1>3, <1>10
<1> QED BY <1>1, <1>2, <1>7, <1>8, <1>9, <1>11, <1>12, TakeStep

LEMMA NextInductive ==
  ASSUME Inductive, [Next]_vars
  PROVE  Inductive'
<1>1. CASE \E m \in Milestones : Row(m)
  BY <1>1, NextRow
<1>2. CASE EndOfTable
  BY <1>2, NextEndOfTable
<1>3. CASE TakeLowestGap
  BY <1>3, NextTakeLowestGap
<1>4. CASE TakeLowestUncomplete
  BY <1>4, NextTakeLowestUncomplete
<1>5. CASE ExtendRange
  BY <1>5, NextExtendRange
<1>6. CASE ReturnRange
  BY <1>6, NextReturnRange
<1>7. CASE UNCHANGED vars
  <2>1. /\ table' = table /\ phase' = phase /\ rest' = rest /\ preMs' = preMs /\ preLogged' = preLogged
        /\ completed' = completed /\ unlogged' = unlogged /\ gaps' = gaps
        /\ range' = range /\ taken' = taken
    BY <1>7 DEF vars, scanned
  <2>2. (\A kind : Kind(kind)' = Kind(kind)) /\ Todo' = Todo
    BY <2>1, Unchanged
  <2>3. Reached' = Reached
    BY <2>1 DEF Reached
  <2>4. \A kind : Left(kind)' = Left(kind) /\ Past(kind)' = Past(kind)
    BY <2>1, <2>2, <2>3 DEF Left, Past
  <2>5. TypeOK' /\ Scanning'
    BY <2>1 DEF Inductive, TypeOK, Scanning
  <2>6. ScanExact'
    BY <2>1, <2>4 DEF Inductive, ScanExact, Stacked
  <2>7. TakeExact'
    BY <2>1, <2>2, <2>3, <2>4 DEF Inductive, TakeExact, Stacked, Ascending
  <2> QED BY <2>5, <2>6, <2>7 DEF Inductive
<1> QED BY <1>1, <1>2, <1>3, <1>4, <1>5, <1>6, <1>7 DEF Next

-----------------------------------------------------------------------------
(* What follows.                                                           *)

\* The run that reaches the top is at the bottom of the stack as long as any is left.
LEMMA OpenGap ==
  ASSUME Inductive
  PROVE  OpenGapFirst
<1>. SUFFICES ASSUME phase # "scan", gaps # <<>>, table[To - 1] = "missing"
              PROVE  Head(gaps)[2] = To /\ \A m \in Milestones : table[m] # "missing" => m < Head(gaps)[1]
  BY DEF OpenGapFirst
<1>. DEFINE Gaps == Runs(Kind("missing"))
            h == Head(gaps)
<1>1. /\ gaps \in Seq(Range2) /\ Reached \in Int /\ Stacked(gaps, Left("missing"))
  BY TakeIs
<1>2. Left("missing") = {r \in Gaps : r[1] >= Reached}
  BY DEF Left
<1>3. h \in Left("missing") /\ \A x \in Left("missing") : x = h \/ x[1] < h[1]
  BY <1>1, BottomIs
<1>. HIDE DEF h
<1>4. To \in Int /\ From \in Int /\ To - 1 \in Milestones
  BY RangeType DEF Milestones
<1>5. PICK g \in Gaps : g[1] <= To - 1 /\ To - 1 < g[2]
  <2>1. Kind("missing") \subseteq Milestones /\ To - 1 \in Kind("missing")
    BY <1>4 DEF Kind
  <2> QED BY <2>1, RunAt
<1>6. \A r \in Gaps : /\ r[1] \in Int /\ r[2] \in Int /\ r[1] < r[2] /\ r[2] <= To
                      /\ \A m \in Int : r[1] <= m /\ m < r[2] => m \in Kind("missing")
  BY RunIs
<1>7. g[2] = To
  BY <1>4, <1>5, <1>6
<1>8. h = g
  <2>1. h = g \/ h[2] < g[1] \/ g[2] < h[1]
    BY <1>2, <1>3, RunsApart
  <2>2. ~(g[2] < h[1])
    BY <1>2, <1>3, <1>4, <1>6, <1>7
  <2>3. ~(h[2] < g[1])
    <3>1. ASSUME h[2] < g[1] PROVE FALSE
      <4>1. g \in Left("missing") /\ g # h /\ h[1] < g[1]
        BY <1>1, <1>2, <1>3, <1>5, <1>6, <3>1
      <4> QED BY <1>2, <1>3, <1>6, <4>1
    <3> QED BY <3>1
  <2> QED BY <2>1, <2>2, <2>3
<1>9. ASSUME NEW m \in Milestones, table[m] # "missing" PROVE m < g[1]
  <2>1. m \in Int /\ m < To
    BY <1>4 DEF Milestones
  <2>2. m \notin Kind("missing")
    BY <1>9 DEF Kind
  <2> QED BY <1>6, <1>7, <2>1, <2>2
<1> QED BY <1>7, <1>8, <1>9 DEF h

LEMMA Ascends ==
  ASSUME Inductive
  PROVE  TakenAscending
<1>. SUFFICES ASSUME phase # "scan"
              PROVE  /\ Ascending(taken) /\ ToSet(taken) \subseteq Runs(Todo)
                     /\ \A r \in Runs(Todo) \ ToSet(taken), t \in ToSet(taken) : t[2] < r[1]
  BY DEF TakenAscending
<1>. DEFINE b == IF range # None THEN range[1] ELSE Reached
<1>1. ToSet(taken) = {r \in Runs(Todo) : r[1] < b} /\ Ascending(taken) /\ b \in Int
  BY TakeIs
<1>. HIDE DEF b
<1>2. ASSUME NEW r \in Runs(Todo) \ ToSet(taken), NEW t \in ToSet(taken) PROVE t[2] < r[1]
  <2>1. t \in Runs(Todo) /\ t[1] < b /\ ~(r[1] < b) /\ r # t
    BY <1>1
  <2>2. t[1] \in Int /\ r[1] \in Int /\ r[2] \in Int /\ r[1] < r[2] /\ t[2] \in Int
    BY <2>1, RunIs
  <2>3. t[2] < r[1] \/ r[2] < t[1]
    BY <2>1, RunsApart
  <2> QED BY <1>1, <2>1, <2>2, <2>3
<1> QED BY <1>1, <1>2

\* Whatever the table: the scan sorts it into maximal runs, the stacks give them
\* back lowest first, and the open gap is where the solidifiers look for it.
THEOREM ScannedAndTaken == Spec => []SyncDataInv
<1>1. Inductive => SyncDataInv
  BY OpenGap DEF Inductive, SyncDataInv
<1> QED BY <1>1, InitInductive, NextInductive, PTL DEF Spec

\* No range that is taken touches another one, repeats one or jumps one.
THEOREM TakenInOrder == Spec => []TakenAscending
BY Ascends, InitInductive, NextInductive, PTL DEF Spec

=============================================================================
