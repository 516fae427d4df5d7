---------------------------- MODULE SyncerProofs ----------------------------
(***************************************************************************)
(* Proofs about the syncer, for any number of milestones and solidifiers   *)
(* and any window.                                                         *)
(*                                                                         *)
(* SyncerInv is inductive.  Its parts depend on each other: the count of   *)
(* the answers (PendingExact) says when the last one has come, the heap    *)
(* (HeapAhead) that everything of the gap has been sent by then, so that   *)
(* the next gap is taken with nothing left of the one before (Taken), and  *)
(* that makes the window of the next one exact again.                      *)
(***************************************************************************)
EXTENDS Syncer, FiniteSetTheorems, WellFoundedInduction, SequenceTheorems, TLAPS

\* A set of natural numbers has a least element.
LEMMA LeastNat ==
  ASSUME NEW S \in SUBSET Nat, S # {}
  PROVE  \E x \in S : \A y \in S : x <= y
<1>. DEFINE R == {ss \in Nat \X Nat : ss[1] < ss[2]}
<1>1. IsWellFoundedOn(R, Nat)
  <2>1. R = OpToRel(<, Nat) BY DEF OpToRel
  <2> QED BY <2>1, NatLessThanWellFounded
<1>2. PICK x \in S : \A y \in S : ~ (<<y, x>> \in R)
  <2> HIDE DEF R
  <2> QED BY <1>1, WFMin, Zenon
<1>3. \A y \in S : ~ (y < x)
  BY <1>2
<1> QED BY <1>3

\* One that is bounded has a greatest.
LEMMA GreatestNat ==
  ASSUME NEW N \in Nat, NEW S \in SUBSET Nat, S # {}, \A x \in S : x <= N
  PROVE  \E x \in S : \A y \in S : y <= x
<1>. DEFINE T == {N - x : x \in S}
<1>1. T \in SUBSET Nat /\ T # {}
  <2>1. \A x \in S : x \in Nat /\ x <= N /\ N - x \in Nat
    OBVIOUS
  <2>2. T # {} /\ \A u \in T : \E x \in S : u = N - x
    OBVIOUS
  <2>. HIDE DEF T
  <2> QED BY <2>1, <2>2
<1>2. PICK t \in T : \A u \in T : t <= u
  <2> HIDE DEF T
  <2> QED BY <1>1, LeastNat
<1>3. PICK x \in S : t = N - x
  OBVIOUS
<1>4. \A y \in S : N - y \in T
  OBVIOUS
<1>5. \A y \in S : N - x <= N - y
  <2>. HIDE DEF T
  <2> QED BY <1>2, <1>3, <1>4
<1>6. \A y \in S : y \in Nat /\ (N - x <= N - y => y <= x)
  OBVIOUS
<1> QED BY <1>5, <1>6

\* The sequence s has the elements of S in ascending order of their keys.
Sorts(s, S, key) ==
  /\ s \in [1 .. Cardinality(S) -> S]
  /\ \A k, l \in 1 .. Cardinality(S) : k < l => key[s[k]] < key[s[l]]

\* A finite set whose elements have distinct keys can be sorted.
LEMMA SortedExists ==
  ASSUME NEW S, IsFiniteSet(S), NEW key \in [S -> Nat],
         \A x, y \in S : key[x] = key[y] => x = y
  PROVE  \E s : Sorts(s, S, key)
<1>. DEFINE Unsorted(T) == ~ \E s : Sorts(s, T, key)
            Bad == {n \in Nat : \E T \in SUBSET S : Cardinality(T) = n /\ Unsorted(T)}
<1>1. SUFFICES ASSUME Unsorted(S) PROVE FALSE
  OBVIOUS
<1>2. Cardinality(S) \in Bad
  BY <1>1, FS_CardinalityType
<1>3. PICK n \in Bad : \A m \in Bad : n <= m
  <2>1. Bad \in SUBSET Nat /\ Bad # {}
    BY <1>2
  <2>. HIDE DEF Bad
  <2> QED BY <2>1, LeastNat
<1>4. PICK T \in SUBSET S : Cardinality(T) = n /\ Unsorted(T)
  BY <1>3
<1>5. IsFiniteSet(T) /\ n \in Nat
  BY FS_Subset, <1>3
<1>6. T # {}
  <2>. SUFFICES ASSUME T = {} PROVE FALSE
    OBVIOUS
  <2>1. n = 0
    BY FS_EmptySet, <1>4
  <2>2. Sorts(<<>>, T, key)
    BY <2>1, <1>4 DEF Sorts
  <2> QED BY <2>2, <1>4
<1>7. PICK t \in T : \A x \in T : key[t] <= key[x]
  <2>. DEFINE K == {key[x] : x \in T}
  <2>1. K \in SUBSET Nat /\ K # {}
    BY <1>6
  <2>2. PICK k \in K : \A l \in K : k <= l
    <3> HIDE DEF K
    <3> QED BY <2>1, LeastNat
  <2> QED BY <2>2
<1>8. /\ IsFiniteSet(T \ {t})
      /\ Cardinality(T \ {t}) = n - 1 /\ n - 1 \in Nat
  <2>1. IsFiniteSet(T \ {t}) /\ Cardinality(T \ {t}) = n - 1
    BY <1>4, <1>5, FS_RemoveElement, Zenon
  <2>2. Cardinality(T \ {t}) \in Nat
    BY <2>1, FS_CardinalityType, Zenon
  <2> QED BY <2>1, <2>2
<1>9. ~ Unsorted(T \ {t})
  BY <1>3, <1>8
<1>10. PICK r : Sorts(r, T \ {t}, key)
  BY <1>9
<1>. DEFINE s == [k \in 1 .. n |-> IF k = 1 THEN t ELSE r[k - 1]]
<1>11. \A k \in 1 .. n : k # 1 => r[k - 1] \in T \ {t}
  <2>1. r \in [1 .. n - 1 -> T \ {t}]
    BY <1>8, <1>10, Zenon DEF Sorts
  <2>2. \A k \in 1 .. n : k # 1 => k - 1 \in 1 .. n - 1
    BY <1>5
  <2> QED BY <2>1, <2>2
<1>12. \A k, l \in 1 .. n : k < l => key[s[k]] < key[s[l]]
  <2>. SUFFICES ASSUME NEW k \in 1 .. n, NEW l \in 1 .. n, k < l
                PROVE  key[s[k]] < key[s[l]]
    OBVIOUS
  <2>1. s[l] = r[l - 1] /\ s[l] \in T \ {t}
    BY <1>5, <1>11
  <2>2. CASE k = 1
    <3>1. s[k] = t
      BY <2>2
    <3>2. key[t] <= key[s[l]] /\ key[t] # key[s[l]]
      BY <2>1, <1>7
    <3>3. key[t] \in Nat /\ key[s[l]] \in Nat
      BY <2>1
    <3>. HIDE DEF s
    <3> QED BY <3>1, <3>2, <3>3
  <2>3. CASE k # 1
    <3>1. s[k] = r[k - 1]
      BY <2>3
    <3>2. k - 1 \in 1 .. n - 1 /\ l - 1 \in 1 .. n - 1 /\ k - 1 < l - 1
      BY <2>3, <1>5
    <3> QED BY <3>1, <3>2, <2>1, <1>8, <1>10 DEF Sorts
  <2> QED BY <2>2, <2>3
<1>13. s \in [1 .. n -> T]
  BY <1>11
<1>14. Sorts(s, T, key)
  <2>. HIDE DEF s
  <2> QED BY <1>12, <1>13, <1>4 DEF Sorts
<1> QED BY <1>14, <1>4

USE SyncerAssumption, NoneAssumption

-----------------------------------------------------------------------------
(* The operators. *)

\* There is a lowest gap.
LEMMA LowestIs ==
  ASSUME NEW D \in SUBSET Gap, D # {}
  PROVE  Lowest(D) \in D /\ \A h \in D : Lowest(D).start <= h.start
<1>. DEFINE S == {g.start : g \in D}
<1>1. S \in SUBSET Nat /\ S # {}
  BY DEF Gap, Index
<1>2. PICK n \in S : \A m \in S : n <= m
  <2>. HIDE DEF S
  <2> QED BY <1>1, LeastNat
<1>3. \E g \in D : \A h \in D : g.start <= h.start
  BY <1>2
<1> QED BY <1>3 DEF Lowest

\* Ready is the first milestone from n on that is not in S.
LEMMA ReadyIs ==
  ASSUME NEW n \in 1 .. MaxIndex + 1, NEW S \in SUBSET Index
  PROVE  /\ Ready(S, n) \in n .. (MaxIndex + 1)
         /\ Ready(S, n) \notin S
         /\ n .. (Ready(S, n) - 1) \subseteq S
<1>. DEFINE T == {m \in n .. (MaxIndex + 1) : m \notin S}
<1>1. T \in SUBSET Nat
  OBVIOUS
<1>2. MaxIndex + 1 \in T
  BY DEF Index
<1>3. PICK m \in T : \A k \in T : m <= k
  <2>. HIDE DEF T
  <2> QED BY <1>1, <1>2, LeastNat
<1>4. n .. (m - 1) \subseteq S
  <2>. SUFFICES ASSUME NEW k \in n .. (m - 1), k \notin S PROVE FALSE
    OBVIOUS
  <2>1. k \in T
    OBVIOUS
  <2> QED BY <2>1, <1>3
<1> QED BY <1>3, <1>4 DEF Ready

\* A window of numbers has as many as it is wide.
LEMMA WindowSize ==
  ASSUME NEW a \in Nat, NEW k \in Nat
  PROVE  IsFiniteSet(a .. (a + k - 1)) /\ Cardinality(a .. (a + k - 1)) = k
BY FS_Interval


\* What is sent to the archiver are messages: of a gap, ...
LEMMA FromToIs ==
  ASSUME NEW a \in Index, NEW b \in a .. (MaxIndex + 1), NEW u \in 2 .. OpenEnd
  PROVE  /\ FromTo(a, b, u) \in Seq(Message)
         /\ Len(FromTo(a, b, u)) = b - a
         /\ DOMAIN FromTo(a, b, u) = 1 .. (b - a)
         /\ \A k \in 1 .. (b - a) : FromTo(a, b, u)[k] = Data(a + k - 1, u)
<1>1. b - a \in Nat
  BY DEF Index
<1>2. \A k \in 1 .. (b - a) : Data(a + k - 1, u) \in Message
  BY DEF Index, Data, Message
<1>3. FromTo(a, b, u) \in Seq(Message)
  BY <1>1, <1>2, IsASeq DEF FromTo
<1> QED BY <1>1, <1>3 DEF FromTo

\* ... followed by the Close of its file, ...
LEMMA AppendClose ==
  ASSUME NEW out \in Seq(Message), NEW n \in 2 .. MaxIndex + 1
  PROVE  Append(out, Close(n)) \in Seq(Message)
<1>1. Close(n) \in Message
  BY DEF Close, Message
<1> QED BY <1>1

\* ... and of the first milestones.
LEMMA FirstMessagesAre ==
  ASSUME NEW S \in SUBSET Index
  PROVE  FirstMessages(S) \in Seq(Message)
<1>. DEFINE G == {j \in S : j + 1 \notin S}
            C == {Close(i + 1) : i \in G}
            B == {Data(i, NoLimit) : i \in S}
            M == B \cup C
            key == [m \in M |-> m.index]
<1>1. IsFiniteSet(S) /\ IsFiniteSet(G)
  <2>1. IsFiniteSet(Index)
    BY FS_Interval DEF Index
  <2>2. G \in SUBSET Index
    OBVIOUS
  <2> QED BY <2>1, <2>2, FS_Subset
<1>2. IsFiniteSet(M)
  <2>1. IsFiniteSet(B)
    <3>. DEFINE f == [i \in S |-> Data(i, NoLimit)]
    <3>1. B = {f[i] : i \in S} /\ f \in [S -> B]
      OBVIOUS
    <3>2. f \in Surjection(S, B)
      BY <3>1, Zenon DEF Surjection
    <3> QED BY <1>1, <3>2, FS_Surjection, Zenon
  <2>2. IsFiniteSet(C)
    <3>. DEFINE f == [i \in G |-> Close(i + 1)]
    <3>1. C = {f[i] : i \in G} /\ f \in [G -> C]
      OBVIOUS
    <3>2. f \in Surjection(G, C)
      BY <3>1, Zenon DEF Surjection
    <3> QED BY <1>1, <3>2, FS_Surjection, Zenon
  <2> QED BY <2>1, <2>2, FS_Union
<1>3. M \in SUBSET Message
  BY DEF Message, Data, Close, Index
<1>4. key \in [M -> Nat]
  BY DEF Data, Close, Index
<1>5. \A x, y \in M : key[x] = key[y] => x = y
  <2>1. \A x \in B : x.index \in S /\ x = Data(x.index, NoLimit)
    BY DEF Data
  <2>2. \A x \in C : x.index \notin S /\ x = Close(x.index)
    BY DEF Close
  <2>. HIDE DEF B, C
  <2> QED BY <2>1, <2>2
<1>. HIDE DEF M, key
<1>6. PICK s : Sorts(s, M, key)
  BY <1>2, <1>4, <1>5, SortedExists
<1>7. /\ s \in [1 .. Cardinality(M) -> M]
      /\ \A k, l \in DOMAIN s : k < l => s[k].index < s[l].index
  BY <1>6, <1>4 DEF Sorts, key
<1>8. FirstMessages(S) \in [1 .. Cardinality(M) -> M]
  BY <1>7 DEF FirstMessages, M
<1>9. Cardinality(M) \in Nat
  BY <1>2, FS_CardinalityType
<1> QED BY <1>3, <1>8, <1>9, IsASeq

\* A set of milestones has a greatest, which Max returns.
LEMMA MaxIndexIs ==
  ASSUME NEW S \in SUBSET Index, S # {}
  PROVE  Max(S) \in S /\ \A x \in S : x <= Max(S)
<1>1. S \in SUBSET Nat /\ \A x \in S : x <= MaxIndex
  BY DEF Index
<1>2. PICK m \in S : \A x \in S : x <= m
  BY <1>1, GreatestNat
<1>3. \A x \in S : m >= x
  BY <1>1, <1>2
<1>4. Max(S) \in S /\ \A x \in S : Max(S) >= x
  BY <1>3 DEF Max
<1> QED BY <1>1, <1>4

\* What is observed first begins with a milestone after a glitch.
LEMMA HighestIs ==
  ASSUME NEW S \in SUBSET Index, S # {}
  PROVE  Max({j \in S : j - 1 \notin S}) \in Index
<1>. DEFINE T == {j \in S : j - 1 \notin S}
<1>1. PICK j \in S : \A k \in S : j <= k
  BY LeastNat DEF Index
<1>2. j \in T
  BY <1>1 DEF Index
<1>3. T \in SUBSET Index /\ T # {}
  BY <1>2
<1>. HIDE DEF T
<1>4. Max(T) \in T
  BY <1>3, MaxIndexIs
<1> QED BY <1>3, <1>4 DEF T

-----------------------------------------------------------------------------
(* The next gap. *)

\* A gap is active of which only the first milestones have been requested.
Taken ==
  /\ active' \in [start : 1 .. OpenEnd, end : 2 .. OpenEnd]
  /\ next' \in Index /\ gapStart' = next' /\ gapEnd' \in 2 .. MaxIndex
  /\ active'.end = gapEnd' /\ active'.start <= active'.end
  /\ requests' = next' .. (active'.start - 1) /\ requests' \subseteq Index
  /\ next' \in requests'
  /\ pending' \in Nat /\ pending' = Cardinality(requests') /\ pending' <= Parallelism
  /\ eof' = FALSE

\* The end of the sync data is reached, with no request left.
Ended(n) ==
  /\ active' = NoGap /\ requests' = {} /\ pending' = 0 /\ eof' = TRUE
  /\ next' = n /\ UNCHANGED <<gapStart, gapEnd>>

\* With no request open, complete() and fill_gaps() do either of these.
LEMMA NextGapIs ==
  ASSUME NEW D \in SUBSET Gap, \A g \in D : GapSound(g),
         NEW high \in Index, NEW n, NextGap(D, high, n, {})
  PROVE  /\ syncData' \subseteq D
         /\ CanTake(D, high) => Taken
         /\ ~CanTake(D, high) => Ended(n)
<1>1. syncData' \subseteq D
  BY DEF NextGap
<1>2. ASSUME CanTake(D, high) PROVE Taken
  <2>. DEFINE l == Lowest(D)
              e == End(l, high)
              k == Least(Parallelism, e - l.start)
  <2>1. l \in Gap /\ GapSound(l) /\ l.start < e
    BY <1>2, LowestIs DEF CanTake
  <2>2. l.start \in Index /\ e \in Index /\ e \in 2 .. MaxIndex
    BY <2>1 DEF Gap, GapSound, End, Index
  <2>. DEFINE g == [l EXCEPT !.end = e]
  <2>3. g = [start |-> l.start, end |-> e]
    BY <2>1 DEF Gap
  <2>4. k \in Nat /\ 0 < k /\ k <= Parallelism /\ l.start + k <= e
    BY <2>1, <2>2 DEF Least, Index
  <2>5. /\ eof' = FALSE
        /\ next' = g.start /\ gapStart' = g.start /\ gapEnd' = g.end
        /\ Request(g, Least(Parallelism, g.end - g.start), {})
        /\ pending' = Least(Parallelism, g.end - g.start)
    BY <1>2 DEF NextGap
  <2>. HIDE DEF l, e
  <2>6. g.start = l.start /\ g.end = e
    BY <2>3
  <2>7. /\ next' = l.start /\ gapStart' = l.start /\ gapEnd' = e /\ pending' = k
        /\ Request(g, k, {})
    BY <2>5, <2>6
  <2>8. active' = [start |-> l.start + k, end |-> e] /\ requests' = l.start .. (l.start + k - 1)
    BY <2>3, <2>7 DEF Request
  <2>. HIDE DEF g, k
  <2>9. Cardinality(requests') = k
    <3>1. l.start \in Nat /\ k \in Nat
      BY <2>2, <2>4 DEF Index
    <3>2. Cardinality(l.start .. (l.start + k - 1)) = k
      BY <3>1, WindowSize, Zenon
    <3> QED BY <2>8, <3>2
  <2> QED BY <2>2, <2>4, <2>5, <2>7, <2>8, <2>9 DEF Taken, Index
<1>3. ASSUME ~CanTake(D, high) PROVE Ended(n)
  BY <1>3 DEF NextGap, Ended
<1> QED BY <1>1, <1>2, <1>3

\* A gap that has just been taken is in order, with an empty heap.
LEMMA TakenKeeps ==
  ASSUME Taken, milestones' = {}
  PROVE  PendingExact' /\ WindowBounded' /\ HeapAhead'
<1>1. active' # NoGap
  <2>1. active' = [start |-> active'.start, end |-> active'.end]
    BY DEF Taken
  <2>2. active'.start \in Index /\ active'.end \in 2 .. OpenEnd
    BY DEF Taken, Index
  <2> QED BY <2>1, <2>2 DEF Gap
<1> QED BY <1>1 DEF Taken, PendingExact, WindowBounded, HeapAhead

-----------------------------------------------------------------------------
(* The steps. *)

\* The gaps of a table are proper, and end in the table or never.
LEMMA GapsOfSound ==
  ASSUME NEW rows \in SUBSET Index
  PROVE  GapsOf(rows) \in SUBSET Gap /\ \A g \in GapsOf(rows) : GapSound(g)
<1>1. \A g \in GapsOf(rows) : g \in Gap /\ g.start < g.end /\ (g.end = OpenEnd \/ g.end \in rows)
  BY DEF GapsOf
<1>2. \A e \in rows : e <= MaxIndex
  BY DEF Index
<1> QED BY <1>1, <1>2 DEF GapSound

LEMMA InitKeeps == Init => SyncerInv
<1>. SUFFICES ASSUME Init PROVE SyncerInv
  OBVIOUS
<1>1. PICK rows \in SUBSET Index :
        /\ syncData = GapsOf(rows)
        /\ requests \in kSubset(SolidifierCount, Index)
  BY DEF Init
<1>2. requests \subseteq Index /\ Cardinality(requests) = SolidifierCount
  BY <1>1 DEF kSubset
<1>3. syncData \subseteq Gap /\ \A g \in syncData : GapSound(g)
  BY <1>1, GapsOfSound
<1>a. /\ active = NoGap /\ milestones = {} /\ highest = 0 /\ pending = SolidifierCount
      /\ eof = FALSE /\ skip = FALSE
      /\ next = 0 /\ gapStart = 0 /\ gapEnd = 0 /\ prevClosed = 0
      /\ oneshot = 0 /\ timers = 0 /\ task = "running" /\ sent = <<>>
  BY DEF Init
<1>4. TypeOK
  <2>1. eof \in BOOLEAN /\ skip \in BOOLEAN /\ task \in {"running", "stopped", "panicked"}
    BY <1>a
  <2>2. sent \in Seq(Message)
    BY <1>a
  <2>3. /\ highest \in 0 .. MaxIndex /\ pending \in Nat /\ timers \in Nat
        /\ next \in 0 .. OpenEnd /\ gapStart \in 0 .. OpenEnd /\ gapEnd \in 0 .. OpenEnd
        /\ prevClosed \in 0 .. OpenEnd /\ oneshot \in 0 .. OpenEnd
    BY <1>a
  <2> QED BY <1>2, <1>3, <1>a, <2>1, <2>2, <2>3, Zenon DEF TypeOK
<1>5. PendingExact /\ WindowBounded /\ HeapAhead /\ WillWake /\ GapInTurn
  BY <1>2, <1>3 DEF Init, PendingExact, WindowBounded, HeapAhead, WillWake, GapInTurn
<1> QED BY <1>4, <1>5 DEF SyncerInv

\* Answering takes one off the requests, and the last answer leaves none.
LEMMA LeftIs ==
  ASSUME SyncerInv, NEW i \in Index, Answer(i)
  PROVE  /\ IsFiniteSet(requests) /\ pending \in Nat \ {0}
         /\ Left(i) \subseteq Index /\ i \notin Left(i)
         /\ IsFiniteSet(Left(i)) /\ Cardinality(Left(i)) = pending - 1
         /\ pending = 1 <=> Left(i) = {}
<1>1. IsFiniteSet(Index)
  BY FS_Interval DEF Index
<1>2. requests \subseteq Index /\ i \in requests /\ pending = Cardinality(requests)
  BY DEF SyncerInv, TypeOK, PendingExact, Answer
<1>3. IsFiniteSet(requests)
  BY <1>1, <1>2, FS_Subset
<1>4. IsFiniteSet(Left(i)) /\ Cardinality(Left(i)) = pending - 1
  BY <1>2, <1>3, FS_RemoveElement DEF Left
<1>5. pending \in Nat /\ Cardinality(Left(i)) \in Nat
  BY <1>2, <1>3, <1>4, FS_CardinalityType
<1>6. Left(i) = {} <=> Cardinality(Left(i)) = 0
  BY <1>4, FS_EmptySet
<1> QED BY <1>2, <1>3, <1>4, <1>5, <1>6 DEF Left

LEMMA FirstMilestoneKeeps ==
  ASSUME SyncerInv, NEW i \in Index, FirstMilestone(i)
  PROVE  SyncerInv'
<1>1. Answer(i)
  BY DEF FirstMilestone
<1>2. Left(i) \subseteq Index /\ Cardinality(Left(i)) = pending - 1 /\ pending \in Nat \ {0}
  BY <1>1, LeftIs
<1>3. highest = 0 /\ active = NoGap
  BY DEF SyncerInv, GapInTurn, FirstMilestone
<1>4. TypeOK'
  BY <1>2 DEF SyncerInv, TypeOK, FirstMilestone, gap
<1>5. PendingExact' /\ WindowBounded' /\ HeapAhead' /\ WillWake' /\ GapInTurn'
  BY <1>2, <1>3 DEF SyncerInv, PendingExact, WindowBounded, HeapAhead, WillWake, GapInTurn,
                    FirstMilestone, gap
<1> QED BY <1>4, <1>5 DEF SyncerInv

\* With no request left, whatever takes the next gap of D, or finds the end of it
\* and schedules up to two timers, restores the invariant.
LEMMA NextGapKeeps ==
  ASSUME TypeOK,
         NEW D \in SUBSET Gap, \A g \in D : GapSound(g),
         NEW high \in Index, NEW n \in 0 .. OpenEnd, NextGap(D, high, n, {}),
         highest' = high, milestones' = {}, sent' \in Seq(Message),
         oneshot' \in 0 .. OpenEnd, prevClosed' \in 0 .. OpenEnd,
         skip' \in BOOLEAN, task' = task,
         CanTake(D, high) => timers' \in 0 .. 1,
         ~CanTake(D, high) => timers' \in 1 .. 2
  PROVE  SyncerInv'
<1>1. /\ syncData' \subseteq D
      /\ CanTake(D, high) => Taken
      /\ ~CanTake(D, high) => Ended(n)
  BY NextGapIs
<1>2. /\ syncData' \subseteq Gap /\ milestones' \subseteq Index
      /\ \A g \in syncData' : GapSound(g)
  BY <1>1
<1>3. highest' \in 0 .. MaxIndex /\ highest' # 0 /\ timers' \in Nat
  BY DEF Index
<1>4. skip' \in BOOLEAN /\ task' \in {"running", "stopped", "panicked"}
  BY Zenon DEF TypeOK
<1>5. (\A g \in syncData : GapSound(g))'
  BY <1>2 DEF GapSound
<1>6. CASE CanTake(D, high)
  <2>1. Taken
    BY <1>1, <1>6
  <2>2. PendingExact' /\ WindowBounded' /\ HeapAhead'
    BY <2>1, TakenKeeps
  <2>3. TypeOK'
    <3>1. /\ active' \in [start : 1 .. OpenEnd, end : 2 .. OpenEnd]
          /\ requests' \subseteq Index /\ pending' \in Nat
          /\ next' \in 0 .. OpenEnd /\ gapStart' \in 0 .. OpenEnd /\ gapEnd' \in 0 .. OpenEnd
      BY <2>1 DEF Taken, Index
    <3>2. eof' \in BOOLEAN
      BY <2>1 DEF Taken
    <3> QED BY <1>2, <1>3, <1>4, <3>1, <3>2, Zenon DEF TypeOK
  <2>4. /\ active' # NoGap /\ 0 < gapStart' /\ gapStart' <= next' /\ gapEnd' <= MaxIndex
        /\ timers' <= 1
    BY <1>6, <2>1 DEF Taken, Index, Gap
  <2>5. WillWake' /\ GapInTurn'
    BY <1>3, <1>5, <1>6, <2>4 DEF WillWake, GapInTurn
  <2> QED BY <2>2, <2>3, <2>5 DEF SyncerInv
<1>7. CASE ~CanTake(D, high)
  <2>1. Ended(n)
    BY <1>1, <1>7
  <2>2. PendingExact' /\ WindowBounded' /\ HeapAhead'
    BY <2>1, FS_EmptySet DEF PendingExact, WindowBounded, HeapAhead, Ended
  <2>3. TypeOK'
    <3>1. active' = NoGap /\ requests' \subseteq Index /\ pending' \in Nat
      BY <2>1 DEF Ended
    <3>2. next' \in 0 .. OpenEnd /\ gapStart' \in 0 .. OpenEnd /\ gapEnd' \in 0 .. OpenEnd
      BY <2>1 DEF Ended, TypeOK
    <3>3. eof' \in BOOLEAN
      BY <2>1 DEF Ended
    <3> QED BY <1>2, <1>3, <1>4, <3>1, <3>2, <3>3, Zenon DEF TypeOK
  <2>4. active' = NoGap /\ eof' /\ timers' \in 1 .. 2
    BY <1>7, <2>1 DEF Ended
  <2>5. WillWake' /\ GapInTurn'
    BY <1>3, <1>5, <2>4 DEF WillWake, GapInTurn
  <2> QED BY <2>2, <2>3, <2>5 DEF SyncerInv
<1> QED BY <1>6, <1>7

LEMMA FirstMilestonesKeep ==
  ASSUME SyncerInv, NEW i \in Index, FirstMilestones(i)
  PROVE  SyncerInv'
<1>. DEFINE S == milestones \cup {i}
            high == Max({j \in S : j - 1 \notin S})
<1>1. Answer(i) /\ pending = 1 /\ highest = 0
  BY DEF FirstMilestones
<1>2. Left(i) = {}
  BY <1>1, LeftIs
<1>3. S \in SUBSET Index /\ S # {}
  BY DEF SyncerInv, TypeOK
<1>4. /\ highest' = high /\ oneshot' = Max(S) + 1 /\ sent' = FirstMessages(S)
      /\ NextGap(syncData, high, next, {}) /\ Schedule(syncData, high, 2)
      /\ milestones' = {} /\ skip' = skip /\ prevClosed' = prevClosed /\ task' = task
  BY <1>2 DEF FirstMilestones
<1>. HIDE DEF S, high
<1>5. high \in Index
  BY <1>3, HighestIs DEF S, high
<1>6. oneshot' \in 0 .. OpenEnd
  <2>1. Max(S) \in Index
    BY <1>3, MaxIndexIs, Zenon
  <2> QED BY <1>4, <2>1 DEF Index
<1>7. sent' \in Seq(Message)
  BY <1>3, <1>4, FirstMessagesAre
<1>8. syncData \in SUBSET Gap /\ \A g \in syncData : GapSound(g)
  BY DEF SyncerInv, TypeOK, GapInTurn
<1>9. timers = 0
  BY <1>1 DEF SyncerInv, GapInTurn
<1>10. /\ CanTake(syncData, high) => timers' \in 0 .. 1
       /\ ~CanTake(syncData, high) => timers' \in 1 .. 2
  BY <1>4, <1>9 DEF Schedule
<1>11. /\ TypeOK /\ next \in 0 .. OpenEnd
       /\ skip' \in BOOLEAN /\ prevClosed' \in 0 .. OpenEnd
  BY <1>4, Zenon DEF SyncerInv, TypeOK
<1> QED BY <1>4, <1>5, <1>6, <1>7, <1>8, <1>10, <1>11, NextGapKeeps, Zenon

\* What an answer changes in the window of the active gap: n is the next to be
\* sent then, and R what is still to be answered.
LEMMA WindowIs ==
  ASSUME SyncerInv, NEW i \in Index, Answer(i), active # NoGap, ~skip,
         NEW S, S = milestones \cup {i}, NEW n, n = Ready(S, next)
  PROVE  /\ next \in Index /\ 0 < gapStart /\ gapStart <= next /\ gapEnd \in 2 .. MaxIndex
         /\ active \in [start : 2 .. MaxIndex, end : 2 .. MaxIndex]
         /\ active.start <= active.end /\ active.end = gapEnd
         /\ n \in next .. active.start /\ n \in Index /\ n \notin S
         /\ S \subseteq next .. (active.start - 1) /\ next .. (n - 1) \subseteq S
         /\ Left(i) = (n .. (active.start - 1)) \ S
         /\ pending = 1 => n = active.start
<1>1. /\ active # NoGap /\ 0 < gapStart /\ gapStart <= next /\ gapEnd <= MaxIndex
      /\ active.start <= active.end /\ active.end = gapEnd
      /\ requests \cup milestones \subseteq next .. (active.start - 1)
      /\ requests = (next .. (active.start - 1)) \ milestones /\ next \in requests
      /\ i \in requests
  BY DEF SyncerInv, WindowBounded, HeapAhead, GapInTurn, Answer
<1>2. /\ active \in [start : 1 .. OpenEnd, end : 2 .. OpenEnd]
      /\ next \in 0 .. OpenEnd /\ gapStart \in 0 .. OpenEnd /\ gapEnd \in 0 .. OpenEnd
      /\ milestones \subseteq Index /\ requests \subseteq Index
  BY <1>1 DEF SyncerInv, TypeOK
<1>3. /\ next \in Index /\ next <= active.start - 1 /\ gapEnd \in 2 .. MaxIndex
      /\ active \in [start : 2 .. MaxIndex, end : 2 .. MaxIndex]
  BY <1>1, <1>2 DEF Index
<1>4. S \subseteq next .. (active.start - 1) /\ S \in SUBSET Index
  BY <1>1, <1>2
<1>5. n \in next .. (MaxIndex + 1) /\ n \notin S /\ next .. (n - 1) \subseteq S
  BY <1>3, <1>4, ReadyIs DEF Index
<1>6. n <= active.start
  <2>1. active.start \notin S
    BY <1>3, <1>4
  <2>2. ~(active.start \in next .. (n - 1))
    BY <2>1, <1>5
  <2> QED BY <2>2, <1>3, <1>5 DEF Index
<1>7. Left(i) = (n .. (active.start - 1)) \ S
  <2>1. Left(i) = (next .. (active.start - 1)) \ S
    BY <1>1 DEF Left
  <2>2. \A x \in next .. (active.start - 1) : x \notin S => x \in n .. (active.start - 1)
    BY <1>3, <1>5 DEF Index
  <2>3. \A x \in n .. (active.start - 1) : x \in next .. (active.start - 1)
    BY <1>3, <1>5 DEF Index
  <2> QED BY <2>1, <2>2, <2>3
<1>8. pending = 1 => n = active.start
  <2>. SUFFICES ASSUME pending = 1, n # active.start PROVE FALSE
    OBVIOUS
  <2>1. Left(i) = {}
    BY LeftIs
  <2>2. n \in n .. (active.start - 1)
    BY <1>3, <1>5, <1>6 DEF Index
  <2> QED BY <2>1, <2>2, <1>5, <1>7
<1>9. n \in Index /\ n \in next .. active.start
  BY <1>3, <1>5, <1>6 DEF Index
<1> QED BY <1>1, <1>3, <1>4, <1>5, <1>7, <1>8, <1>9

\* The end of a gap sends at most one Close, after `out`.
LEMMA CloseGapIs ==
  ASSUME TypeOK, NEW n \in 2 .. MaxIndex, NEW out \in Seq(Message), CloseGap(n, out)
  PROVE  /\ prevClosed' \in 0 .. OpenEnd
         /\ sent' \in Seq(Message)
         /\ sent' \in {out, Append(out, Close(n))}
<1>1. sent' \in {out, Append(out, Close(n))} /\ prevClosed' \in {gapStart, 0}
  BY DEF CloseGap
<1>2. Append(out, Close(n)) \in Seq(Message)
  BY AppendClose
<1>3. prevClosed' \in 0 .. OpenEnd
  BY <1>1 DEF TypeOK
<1> QED BY <1>1, <1>2, <1>3

LEMMA MilestoneKeeps ==
  ASSUME SyncerInv, NEW i \in Index, Milestone(i)
  PROVE  SyncerInv'
<1>. DEFINE S   == milestones \cup {i}
            n   == Ready(S, next)
            out == FromTo(next, n, gapEnd)
<1>1. /\ Answer(i) /\ highest # 0 /\ ~skip /\ active # NoGap
      /\ milestones' = S \ (next .. (n - 1))
      /\ highest' = highest /\ skip' = skip /\ oneshot' = oneshot /\ task' = task
  BY DEF Milestone
<1>2. \/ /\ active.start < active.end
         /\ Request(active, 1, Left(i)) /\ next' = n /\ sent' = out
         /\ UNCHANGED <<syncData, pending, eof, gapStart, gapEnd, prevClosed, timers>>
      \/ /\ active.start >= active.end /\ pending # 1
         /\ next' = n /\ sent' = out /\ requests' = Left(i) /\ pending' = pending - 1
         /\ UNCHANGED <<active, syncData, eof, gapStart, gapEnd, prevClosed, timers>>
      \/ /\ active.start >= active.end /\ pending = 1
         /\ CloseGap(n, out) /\ NextGap(syncData, highest, n, Left(i))
         /\ Schedule(syncData, highest, 1)
  BY DEF Milestone
<1>3. /\ next \in Index /\ 0 < gapStart /\ gapStart <= next /\ gapEnd \in 2 .. MaxIndex
      /\ active \in [start : 2 .. MaxIndex, end : 2 .. MaxIndex]
      /\ active.start <= active.end /\ active.end = gapEnd
      /\ n \in next .. active.start /\ n \in Index /\ n \notin S
      /\ S \subseteq next .. (active.start - 1) /\ next .. (n - 1) \subseteq S
      /\ Left(i) = (n .. (active.start - 1)) \ S
      /\ pending = 1 => n = active.start
  <2>. HIDE DEF S, n
  <2>1. S = milestones \cup {i} /\ n = Ready(S, next)
    BY DEF S, n
  <2> QED BY <1>1, <2>1, WindowIs
<1>4. /\ IsFiniteSet(requests) /\ pending \in Nat \ {0}
      /\ Left(i) \subseteq Index /\ i \notin Left(i)
      /\ IsFiniteSet(Left(i)) /\ Cardinality(Left(i)) = pending - 1
      /\ pending = 1 <=> Left(i) = {}
  BY <1>1, LeftIs
<1>5. out \in Seq(Message)
  <2>1. n \in next .. (MaxIndex + 1) /\ gapEnd \in 2 .. OpenEnd
    BY <1>3 DEF Index
  <2>. HIDE DEF n
  <2> QED BY <1>3, <2>1, FromToIs DEF out
<1>6. S \in SUBSET Index
  BY DEF SyncerInv, TypeOK
<1>7. /\ WillWake /\ GapInTurn /\ TypeOK /\ PendingExact /\ Cardinality(requests) <= Parallelism
      /\ timers <= 1 /\ timers \in Nat /\ gapStart \in Nat
  BY <1>1 DEF SyncerInv, WindowBounded, GapInTurn, TypeOK
<1>. HIDE DEF S, n, out
<1>8. milestones' = S \cap (n .. (active.start - 1))
  <2>1. \A x \in S : x \notin next .. (n - 1) <=> x \in n .. (active.start - 1)
    BY <1>3 DEF Index
  <2> QED BY <1>1, <2>1
<1>9. CASE active.start < active.end
  <2>1. /\ active' = [active EXCEPT !.start = @ + 1]
        /\ requests' = Left(i) \cup (active.start .. active.start)
        /\ next' = n /\ sent' = out
        /\ UNCHANGED <<syncData, pending, eof, gapStart, gapEnd, prevClosed, timers>>
    BY <1>2, <1>3, <1>9 DEF Request
  <2>2. requests' = Left(i) \cup {active.start} /\ active.start \in 2 .. MaxIndex
    BY <1>3, <2>1
  <2>3. active' = [start |-> active.start + 1, end |-> active.end]
    BY <1>3, <2>1
  <2>4. active' # NoGap
    <3>1. active.start + 1 \in Index /\ active.end \in 2 .. OpenEnd
      BY <1>3, <1>9 DEF Index
    <3> QED BY <2>3, <3>1 DEF Gap
  <2>5. active.start \notin Left(i) /\ active.start \notin milestones'
    BY <1>3, <1>8
  <2>6. Cardinality(requests') = pending
    <3>1. Cardinality(Left(i) \cup {active.start}) = Cardinality(Left(i)) + 1
      BY <1>4, <2>5, FS_AddElement, Zenon
    <3> QED BY <1>4, <2>2, <3>1
  <2>7. requests' = (next' .. (active'.start - 1)) \ milestones'
    <3>1. \A x : x \in n .. active.start <=> x \in n .. (active.start - 1) \/ x = active.start
      BY <1>3 DEF Index
    <3>2. active'.start - 1 = active.start
      BY <1>3, <2>3
    <3>3. requests' = ((n .. (active.start - 1)) \ S) \cup {active.start}
      BY <1>3, <2>2
    <3> QED BY <1>8, <2>1, <2>5, <3>1, <3>2, <3>3
  <2>8. next' \in requests'
    <3>1. n \in n .. (active.start - 1) \/ n = active.start
      BY <1>3 DEF Index
    <3> QED BY <1>3, <2>1, <2>2, <3>1
  <2>9. TypeOK'
    <3>1. active' \in [start : 1 .. OpenEnd, end : 2 .. OpenEnd]
      BY <1>3, <2>3
    <3>2. requests' \subseteq Index /\ milestones' \subseteq Index /\ next' \in 0 .. OpenEnd
      BY <1>3, <1>4, <1>6, <1>8, <2>1, <2>2 DEF Index
    <3> QED BY <1>1, <1>5, <1>7, <2>1, <3>1, <3>2, Zenon DEF TypeOK
  <2>10. PendingExact' /\ WindowBounded' /\ HeapAhead'
    <3>1. requests' \cup milestones' \subseteq next' .. (active'.start - 1)
      BY <1>3, <1>8, <2>1, <2>3, <2>7
    <3>2. active'.start <= active'.end /\ active'.end = gapEnd'
      BY <1>3, <1>9, <2>1, <2>3
    <3>3. Cardinality(requests') <= Parallelism /\ requests' # {}
      BY <1>7, <2>6, <2>8 DEF PendingExact
    <3> QED BY <2>1, <2>4, <2>6, <2>7, <2>8, <3>1, <3>2, <3>3
            DEF PendingExact, WindowBounded, HeapAhead
  <2>11. WillWake' /\ GapInTurn'
    <3>1. \A g \in syncData' : GapSound(g)
      BY <1>7, <2>1 DEF GapInTurn
    <3>2. (\A g \in syncData : GapSound(g))'
      BY <3>1 DEF GapSound
    <3>4. /\ next' = n /\ gapStart' = gapStart /\ gapEnd' = gapEnd /\ timers' = timers
          /\ gapStart <= n
      <4>1. gapStart <= n
        BY <1>3, <1>7 DEF Index
      <4> QED BY <2>1, <4>1
    <3>3. /\ highest' # 0 /\ active' # NoGap /\ 0 < gapStart' /\ gapStart' <= next'
          /\ gapEnd' <= MaxIndex /\ timers' <= 1 /\ timers' <= 2
      BY <1>1, <1>3, <1>7, <2>4, <3>4
    <3> QED BY <3>2, <3>3 DEF WillWake, GapInTurn
  <2> QED BY <2>9, <2>10, <2>11 DEF SyncerInv
<1>10. CASE active.start >= active.end /\ pending # 1
  <2>1. /\ next' = n /\ sent' = out /\ requests' = Left(i) /\ pending' = pending - 1
        /\ UNCHANGED <<active, syncData, eof, gapStart, gapEnd, prevClosed, timers>>
    BY <1>2, <1>3, <1>10
  <2>2. Left(i) # {}
    BY <1>4, <1>10
  <2>3. requests' = (next' .. (active'.start - 1)) \ milestones'
    BY <1>3, <1>8, <2>1
  <2>4. next' \in requests'
    <3>1. n \in n .. (active.start - 1)
      BY <1>3, <2>2 DEF Index
    <3> QED BY <1>3, <2>1, <3>1
  <2>5. TypeOK'
    <3>2. requests' \subseteq Index /\ milestones' \subseteq Index /\ next' \in 0 .. OpenEnd
      BY <1>3, <1>4, <1>6, <1>8, <2>1 DEF Index
    <3>3. pending' \in Nat
      BY <1>4, <2>1
    <3> QED BY <1>1, <1>5, <1>7, <2>1, <3>2, <3>3, Zenon DEF TypeOK
  <2>6. PendingExact' /\ WindowBounded' /\ HeapAhead'
    <3>1. requests' \cup milestones' \subseteq next' .. (active'.start - 1)
      BY <1>3, <1>8, <2>1
    <3>2. Cardinality(requests') = pending' /\ Cardinality(requests') <= Parallelism
      BY <1>4, <1>7, <2>1 DEF PendingExact
    <3> QED BY <1>1, <1>3, <2>1, <2>3, <2>4, <3>1, <3>2
            DEF PendingExact, WindowBounded, HeapAhead
  <2>7. WillWake' /\ GapInTurn'
    <3>1. \A g \in syncData' : GapSound(g)
      BY <1>7, <2>1 DEF GapInTurn
    <3>2. (\A g \in syncData : GapSound(g))'
      BY <3>1 DEF GapSound
    <3>3. /\ highest' # 0 /\ active' # NoGap /\ 0 < gapStart' /\ gapStart' <= next'
          /\ gapEnd' <= MaxIndex /\ timers' <= 1 /\ timers' <= 2
      BY <1>1, <1>3, <1>7, <2>1
    <3> QED BY <3>2, <3>3 DEF WillWake, GapInTurn
  <2> QED BY <2>5, <2>6, <2>7 DEF SyncerInv
<1>11. CASE active.start >= active.end /\ pending = 1
  <2>1. /\ CloseGap(n, out) /\ NextGap(syncData, highest, n, {})
        /\ Schedule(syncData, highest, 1)
    <3>1. Left(i) = {}
      BY <1>4, <1>11
    <3>2. /\ CloseGap(n, out) /\ NextGap(syncData, highest, n, Left(i))
          /\ Schedule(syncData, highest, 1)
      BY <1>2, <1>3, <1>11
    <3> QED BY <3>1, <3>2, Zenon
  <2>2. n = active.start /\ milestones' = {}
    BY <1>3, <1>8, <1>11
  <2>3. n \in 2 .. MaxIndex /\ n \in 0 .. OpenEnd
    BY <1>3, <2>2
  <2>4. prevClosed' \in 0 .. OpenEnd /\ sent' \in Seq(Message)
    BY <1>5, <1>7, <2>1, <2>3, CloseGapIs
  <2>5. highest \in Index /\ highest' = highest
    BY <1>1, <1>7 DEF TypeOK, Index
  <2>6. syncData \in SUBSET Gap /\ \A g \in syncData : GapSound(g)
    BY <1>7 DEF TypeOK, GapInTurn
  <2>7. /\ CanTake(syncData, highest) => timers' \in 0 .. 1
        /\ ~CanTake(syncData, highest) => timers' \in 1 .. 2
    BY <1>7, <2>1 DEF Schedule
  <2>8. oneshot' \in 0 .. OpenEnd /\ skip' \in BOOLEAN
    BY <1>1, <1>7, Zenon DEF TypeOK
  <2> QED BY <1>1, <1>7, <2>1, <2>2, <2>3, <2>4, <2>5, <2>6, <2>7, <2>8, NextGapKeeps, Zenon
<1> QED BY <1>2, <1>9, <1>10, <1>11

LEMMA SkippingKeeps ==
  ASSUME SyncerInv, NEW i \in Index, NEW S, Skipping(i, S),
         S \in {milestones, milestones \cup {i}}
  PROVE  SyncerInv'
<1>1. /\ Answer(i) /\ highest' = highest /\ oneshot' = oneshot
      /\ S \subseteq Index
  BY DEF Skipping, SyncerInv, TypeOK
<1>2. \/ /\ pending # 1 /\ skip' = TRUE /\ milestones' = S
         /\ requests' = Left(i) /\ pending' = pending - 1 /\ sent' = <<>>
         /\ UNCHANGED <<active, syncData, eof, gap, prevClosed, timers, task>>
      \/ /\ pending = 1 /\ active # NoGap
         /\ skip' = SkipAfterGap /\ milestones' = {} /\ CloseGap(next, <<>>)
         /\ NextGap(syncData, highest, next, Left(i)) /\ Schedule(syncData, highest, 1)
         /\ task' = task
      \/ /\ pending = 1 /\ active = NoGap /\ task' = "panicked" /\ skip' = TRUE
         /\ milestones' = {} /\ requests' = Left(i) /\ pending' = 0 /\ sent' = <<>>
         /\ UNCHANGED <<active, syncData, eof, gap, prevClosed, timers>>
  BY DEF Skipping
<1>3. /\ pending \in Nat \ {0} /\ Left(i) \subseteq Index
      /\ Cardinality(Left(i)) = pending - 1 /\ IsFiniteSet(requests)
      /\ pending = 1 <=> Left(i) = {}
  BY <1>1, LeftIs
<1>4. TypeOK /\ PendingExact /\ WindowBounded /\ WillWake /\ GapInTurn
  BY DEF SyncerInv
<1>5. i \in requests /\ Left(i) \subseteq requests
  BY <1>1 DEF Answer, Left
<1>6. /\ timers \in Nat /\ pending \in Nat /\ pending = Cardinality(requests)
  BY <1>4 DEF TypeOK, PendingExact
<1>7. CASE pending # 1
  <2>1. /\ skip' = TRUE /\ milestones' = S /\ highest' = highest /\ oneshot' = oneshot
        /\ requests' = Left(i) /\ pending' = pending - 1 /\ sent' = <<>>
        /\ active' = active /\ syncData' = syncData /\ eof' = eof /\ next' = next
        /\ gapStart' = gapStart /\ gapEnd' = gapEnd /\ prevClosed' = prevClosed
        /\ timers' = timers /\ task' = task
    BY <1>1, <1>2, <1>7 DEF gap
  <2>2. TypeOK'
    <3>1. sent' \in Seq(Message) /\ pending' \in Nat /\ skip' \in BOOLEAN
      BY <1>3, <2>1
    <3> QED BY <1>1, <1>3, <1>4, <2>1, <3>1, Zenon DEF TypeOK
  <2>3. PendingExact' /\ HeapAhead'
    BY <1>3, <2>1 DEF PendingExact, HeapAhead
  <2>4. WindowBounded'
    <3>1. Left(i) # {} /\ requests # {} /\ Cardinality(Left(i)) <= Cardinality(requests)
      BY <1>3, <1>5, <1>6, <1>7
    <3>2. active # NoGap =>
            Cardinality(Left(i)) <= Parallelism /\ Left(i) \cup S \subseteq next .. (active.start - 1)
      BY <1>3, <1>4, <1>5, <1>6 DEF WindowBounded
    <3> QED BY <1>4, <2>1, <3>1, <3>2 DEF WindowBounded
  <2>5. WillWake' /\ GapInTurn'
    <3>1. (highest # 0 /\ active = NoGap => milestones = {})'
      BY <1>4, <1>5, <2>1 DEF WindowBounded
    <3> QED BY <1>4, <2>1, <3>1, Zenon DEF WillWake, GapInTurn, GapSound
  <2> QED BY <2>2, <2>3, <2>4, <2>5 DEF SyncerInv
<1>8. CASE pending = 1 /\ active # NoGap
  <2>1. /\ skip' = SkipAfterGap /\ milestones' = {} /\ CloseGap(next, <<>>)
        /\ NextGap(syncData, highest, next, {}) /\ Schedule(syncData, highest, 1)
        /\ task' = task
    <3>1. Left(i) = {}
      BY <1>3, <1>8
    <3>2. /\ skip' = SkipAfterGap /\ milestones' = {} /\ CloseGap(next, <<>>)
          /\ NextGap(syncData, highest, next, Left(i)) /\ Schedule(syncData, highest, 1)
          /\ task' = task
      BY <1>2, <1>8
    <3> QED BY <3>1, <3>2, Zenon
  <2>2. highest \in Index /\ timers <= 1 /\ next \in Index /\ next <= MaxIndex - 1
    BY <1>4, <1>5, <1>8 DEF TypeOK, GapInTurn, WindowBounded, Index
  <2>3. prevClosed' \in 0 .. OpenEnd /\ sent' \in Seq(Message)
    <3>1. CASE next = 1
      <4>1. gapStart = 1
        BY <1>4, <1>8, <3>1 DEF GapInTurn, TypeOK
      <4>2. prevClosed' = 0 /\ sent' = <<>>
        BY <2>1, <3>1, <4>1 DEF CloseGap
      <4> QED BY <4>2
    <3>2. CASE next # 1
      <4>1. next \in 2 .. MaxIndex /\ <<>> \in Seq(Message)
        BY <2>2, <3>2 DEF Index
      <4> QED BY <1>4, <2>1, <4>1, CloseGapIs
    <3> QED BY <3>1, <3>2
  <2>4. syncData \in SUBSET Gap /\ \A g \in syncData : GapSound(g)
    BY <1>4 DEF TypeOK, GapInTurn
  <2>5. /\ CanTake(syncData, highest) => timers' \in 0 .. 1
        /\ ~CanTake(syncData, highest) => timers' \in 1 .. 2
    BY <1>6, <2>1, <2>2 DEF Schedule
  <2>6. oneshot' \in 0 .. OpenEnd /\ skip' \in BOOLEAN /\ next \in 0 .. OpenEnd
    BY <1>1, <1>4, <2>1 DEF TypeOK, SkipAfterGap
  <2> QED BY <1>1, <1>4, <2>1, <2>2, <2>3, <2>4, <2>5, <2>6, NextGapKeeps, Zenon
<1>9. CASE pending = 1 /\ active = NoGap
  <2>1. /\ task' = "panicked" /\ skip' = TRUE /\ milestones' = {} /\ highest' = highest
        /\ oneshot' = oneshot /\ requests' = {} /\ pending' = 0 /\ sent' = <<>>
        /\ active' = active /\ syncData' = syncData /\ eof' = eof /\ next' = next
        /\ gapStart' = gapStart /\ gapEnd' = gapEnd /\ prevClosed' = prevClosed
        /\ timers' = timers
    BY <1>1, <1>2, <1>3, <1>9 DEF gap
  <2>2. TypeOK'
    <3>1. sent' \in Seq(Message) /\ pending' \in Nat /\ skip' \in BOOLEAN
          /\ requests' \subseteq Index /\ milestones' \subseteq Index
          /\ task' \in {"running", "stopped", "panicked"}
      BY <2>1
    <3> QED BY <1>4, <2>1, <3>1, Zenon DEF TypeOK
  <2>3. PendingExact' /\ WindowBounded' /\ HeapAhead'
    BY <1>9, <2>1, FS_EmptySet DEF PendingExact, WindowBounded, HeapAhead
  <2>4. WillWake' /\ GapInTurn'
    <3>1. (\A g \in syncData : GapSound(g))'
      BY <1>4, <2>1, Zenon DEF GapInTurn, GapSound
    <3> QED BY <1>4, <1>9, <2>1, <3>1 DEF WillWake, GapInTurn
  <2> QED BY <2>2, <2>3, <2>4 DEF SyncerInv
<1> QED BY <1>7, <1>8, <1>9

LEMMA UpdateKeeps ==
  ASSUME SyncerInv, NEW rows \in SUBSET Index, Update(rows)
  PROVE  SyncerInv'
<1>. DEFINE D == GapsOf(rows)
<1>1. /\ task = "running" /\ timers > 0 /\ active = NoGap /\ eof
      /\ NextGap(D, highest, next, requests)
      /\ timers' = (IF CanTake(D, highest) THEN timers - 1 ELSE timers)
      /\ sent' = <<>> /\ milestones' = milestones /\ highest' = highest /\ skip' = skip
      /\ prevClosed' = prevClosed /\ oneshot' = oneshot /\ task' = task
  BY DEF Update, Wake
<1>2. requests = {} /\ highest # 0
  BY <1>1 DEF SyncerInv, WindowBounded, GapInTurn
<1>3. NextGap(D, highest, next, {})
  BY <1>1, <1>2, Zenon
<1>4. milestones' = {}
  BY <1>1, <1>2 DEF SyncerInv, GapInTurn
<1>5. D \in SUBSET Gap /\ \A g \in D : GapSound(g)
  BY GapsOfSound
<1>. HIDE DEF D
<1>6. TypeOK /\ highest \in Index /\ timers \in 1 .. 2 /\ next \in 0 .. OpenEnd
  BY <1>1, <1>2 DEF SyncerInv, TypeOK, WillWake, Index
<1>7. /\ CanTake(D, highest) => timers' \in 0 .. 1
      /\ ~CanTake(D, highest) => timers' \in 1 .. 2
  BY <1>1, <1>6
<1>8. /\ oneshot' \in 0 .. OpenEnd /\ prevClosed' \in 0 .. OpenEnd /\ skip' \in BOOLEAN
      /\ sent' \in Seq(Message)
  BY <1>1, <1>6 DEF TypeOK
<1> QED BY <1>1, <1>3, <1>4, <1>5, <1>6, <1>7, <1>8, NextGapKeeps, Zenon

LEMMA IgnoredOrFailedKeeps ==
  ASSUME SyncerInv, UpdateIgnored \/ UpdateFails \/ Shutdown \/ UNCHANGED vars
  PROVE  SyncerInv'
<1>1. /\ active' = active /\ syncData' = syncData /\ milestones' = milestones
      /\ highest' = highest /\ pending' = pending /\ eof' = eof /\ skip' = skip
      /\ next' = next /\ gapStart' = gapStart /\ gapEnd' = gapEnd
      /\ prevClosed' = prevClosed /\ oneshot' = oneshot /\ requests' = requests
  BY DEF UpdateIgnored, UpdateFails, Shutdown, vars, gap
<1>2. /\ timers' \in Nat /\ timers' <= timers
      /\ timers' = timers \/ active # NoGap
      /\ sent' \in Seq(Message) /\ task' \in {task, "stopped"}
  <2>1. timers \in Nat /\ sent \in Seq(Message)
    BY DEF SyncerInv, TypeOK
  <2>2. CASE UpdateIgnored
    BY <2>1, <2>2 DEF UpdateIgnored, Wake
  <2>3. CASE UpdateFails
    BY <2>1, <2>3 DEF UpdateFails
  <2>4. CASE Shutdown
    BY <2>1, <2>4 DEF Shutdown
  <2>5. CASE UNCHANGED vars
    BY <2>1, <2>5 DEF vars
  <2> QED BY <2>2, <2>3, <2>4, <2>5
<1>3. TypeOK'
  <2>1. task' \in {"running", "stopped", "panicked"}
    BY <1>2 DEF SyncerInv, TypeOK
  <2> QED BY <1>1, <1>2, <2>1, Zenon DEF SyncerInv, TypeOK
<1>4. PendingExact' /\ WindowBounded' /\ HeapAhead'
  BY <1>1, Zenon DEF SyncerInv, PendingExact, WindowBounded, HeapAhead
<1>5. WillWake' /\ GapInTurn'
  <2>1. (\A g \in syncData : GapSound(g))'
    BY <1>1, Zenon DEF SyncerInv, GapInTurn, GapSound
  <2>2. timers \in Nat
    BY DEF SyncerInv, TypeOK
  <2>3. /\ timers' <= 2
        /\ active # NoGap => timers' <= 1
        /\ highest = 0 => timers' = 0
        /\ (highest # 0 /\ active = NoGap /\ task' = "running") => eof /\ timers' > 0
    BY <1>2, <2>2 DEF SyncerInv, WillWake, GapInTurn
  <2> QED BY <1>1, <2>1, <2>3, Zenon DEF SyncerInv, WillWake, GapInTurn
<1> QED BY <1>3, <1>4, <1>5 DEF SyncerInv

\* Every step of the syncer keeps the invariant.
LEMMA StepKeeps == SyncerInv /\ [Next]_vars => SyncerInv'
<1>. SUFFICES ASSUME SyncerInv, [Next]_vars PROVE SyncerInv'
  OBVIOUS
<1>1. ASSUME NEW i \in Index, Answered(i) PROVE SyncerInv'
  <2>1. CASE FirstMilestone(i)
    BY <2>1, FirstMilestoneKeeps
  <2>2. CASE FirstMilestones(i)
    BY <2>2, FirstMilestonesKeep
  <2>3. CASE Milestone(i)
    BY <2>3, MilestoneKeeps
  <2>4. CASE SkippedMilestone(i)
    BY <2>4, SkippingKeeps DEF SkippedMilestone
  <2>5. CASE Unreachable(i)
    BY <2>5, SkippingKeeps DEF Unreachable
  <2> QED BY <1>1, <2>1, <2>2, <2>3, <2>4, <2>5 DEF Answered
<1>2. CASE UpdateIgnored \/ UpdateFails \/ Shutdown \/ UNCHANGED vars
  BY <1>2, IgnoredOrFailedKeeps
<1>3. ASSUME NEW rows \in SUBSET Index, Update(rows) PROVE SyncerInv'
  BY <1>3, UpdateKeeps
<1> QED BY <1>1, <1>2, <1>3 DEF Next

\* What the syncer keeps of its window is consistent between any two events.
THEOREM Invariance == Spec => []SyncerInv
<1>1. Init => SyncerInv
  BY InitKeeps
<1>2. SyncerInv /\ [Next]_vars => SyncerInv'
  BY StepKeeps
<1> QED BY <1>1, <1>2, PTL DEF Spec

-----------------------------------------------------------------------------
(* What is sent. *)

\* One message in its turn, after `at` others of the gap [.., e).
Turn(m, k, len, at, e) ==
  IF m.type = "data" THEN m = Data(at + k - 1, e) /\ m.index < e
                     ELSE k = len /\ m.index = at + k - 1

LEMMA MilestoneInOrder ==
  ASSUME SyncerInv, NEW i \in Index, Milestone(i), NEW k \in DOMAIN sent'
  PROVE  Turn(sent'[k], k, Len(sent'), next, gapEnd)
<1>. DEFINE n == Ready(milestones \cup {i}, next)
            out == FromTo(next, n, gapEnd)
<1>1. /\ Answer(i) /\ ~skip /\ active # NoGap
      /\ sent' = out \/ (CloseGap(n, out) /\ pending = 1)
  BY DEF Milestone
<1>2. /\ next \in Index /\ gapEnd \in 2 .. MaxIndex /\ gapStart <= next /\ 0 < gapStart
      /\ n \in Index /\ next <= n /\ n <= gapEnd
      /\ gapStart \in Nat
      /\ sent \in Seq(Message) /\ TypeOK
  <2>. DEFINE S == milestones \cup {i}
  <2>1. S = milestones \cup {i} /\ n = Ready(S, next)
    OBVIOUS
  <2>. HIDE DEF S, n
  <2>2. /\ next \in Index /\ 0 < gapStart /\ gapStart <= next /\ gapEnd \in 2 .. MaxIndex
        /\ active \in [start : 2 .. MaxIndex, end : 2 .. MaxIndex]
        /\ active.start <= active.end /\ active.end = gapEnd
        /\ n \in next .. active.start /\ n \in Index
    BY <1>1, <2>1, WindowIs
  <2> QED BY <2>2 DEF SyncerInv, TypeOK, Index
<1>. HIDE DEF n
<1>3. /\ out \in Seq(Message) /\ Len(out) = n - next /\ DOMAIN out = 1 .. (n - next)
      /\ \A l \in 1 .. (n - next) : out[l] = Data(next + l - 1, gapEnd)
  <2>1. n \in next .. (MaxIndex + 1) /\ gapEnd \in 2 .. OpenEnd
    BY <1>2 DEF Index
  <2> QED BY <1>2, <2>1, FromToIs, Zenon
<1>. HIDE DEF out
<1>4. \A l \in 1 .. (n - next) : next + l - 1 < gapEnd
  BY <1>2 DEF Index
<1>5. ASSUME k \in 1 .. (n - next), sent'[k] = out[k]
      PROVE  Turn(sent'[k], k, Len(sent'), next, gapEnd)
  <2>1. sent'[k] = Data(next + k - 1, gapEnd)
    BY <1>3, <1>5
  <2>2. sent'[k].type = "data" /\ sent'[k].index = next + k - 1
    BY <2>1 DEF Data
  <2> QED BY <1>4, <1>5, <2>1, <2>2 DEF Turn
<1>6. CASE sent' = out
  BY <1>3, <1>5, <1>6
<1>7. CASE sent' = Append(out, Close(n))
  <2>1. /\ k \in 1 .. (n - next) + 1 /\ Len(sent') = (n - next) + 1
        /\ sent'[(n - next) + 1] = Close(n)
        /\ k # (n - next) + 1 => sent'[k] = out[k]
    <3>1. Close(n) \in Message \cup {Close(n)} /\ out \in Seq(Message \cup {Close(n)})
      BY <1>3
    <3>2. /\ Append(out, Close(n)) \in Seq(Message \cup {Close(n)})
          /\ Len(Append(out, Close(n))) = Len(out) + 1
          /\ \A l \in 1 .. Len(out) : Append(out, Close(n))[l] = out[l]
          /\ Append(out, Close(n))[Len(out) + 1] = Close(n)
      BY <3>1
    <3>3. DOMAIN sent' = 1 .. (Len(out) + 1)
      BY <1>7, <3>2
    <3>4. k \in 1 .. (n - next) + 1
      BY <1>3, <3>3
    <3> QED BY <1>3, <1>7, <3>2, <3>4
  <2>2. CASE k = (n - next) + 1
    <3>1. sent'[k] = Close(n) /\ Len(sent') = k /\ n = next + k - 1
      BY <1>2, <2>1, <2>2 DEF Index
    <3>2. sent'[k].type # "data" /\ sent'[k].index = n
      BY <3>1 DEF Close
    <3> QED BY <3>1, <3>2 DEF Turn
  <2>3. CASE k # (n - next) + 1
    BY <1>2, <1>5, <2>1, <2>3 DEF Index
  <2> QED BY <2>2, <2>3
<1> QED BY <1>1, <1>6, <1>7 DEF CloseGap

LEMMA SkippingInOrder ==
  ASSUME SyncerInv, NEW i \in Index, NEW S, Skipping(i, S), NEW k \in DOMAIN sent'
  PROVE  Turn(sent'[k], k, Len(sent'), next, gapEnd)
<1>1. sent' = <<>> \/ sent' = Append(<<>>, Close(next))
  BY DEF Skipping, CloseGap
<1>2. CASE sent' = <<>>
  BY <1>2
<1>3. CASE sent' = Append(<<>>, Close(next))
  <2>1. k = 1 /\ Len(sent') = 1 /\ sent'[1] = Close(next)
    BY <1>3
  <2>2. sent'[k].type # "data" /\ sent'[k].index = next
    BY <2>1 DEF Close
  <2>3. next = next + 1 - 1
    BY DEF SyncerInv, TypeOK
  <2> QED BY <2>1, <2>2, <2>3 DEF Turn
<1> QED BY <1>1, <1>2, <1>3

LEMMA InOrderStep ==
  ASSUME SyncerInv, Next, highest # 0, NEW k \in DOMAIN sent'
  PROVE  Turn(sent'[k], k, Len(sent'), next, gapEnd)
<1>1. ASSUME NEW i \in Index, Answered(i) PROVE Turn(sent'[k], k, Len(sent'), next, gapEnd)
  <2>1. ~FirstMilestone(i) /\ ~FirstMilestones(i)
    BY DEF FirstMilestone, FirstMilestones
  <2>2. CASE Milestone(i)
    BY <2>2, MilestoneInOrder
  <2>3. CASE SkippedMilestone(i)
    BY <2>3, SkippingInOrder DEF SkippedMilestone
  <2>4. CASE Unreachable(i)
    BY <2>4, SkippingInOrder DEF Unreachable
  <2> QED BY <1>1, <2>1, <2>2, <2>3, <2>4 DEF Answered
<1>2. ASSUME UpdateIgnored \/ UpdateFails \/ Shutdown \/ (\E rows \in SUBSET Index : Update(rows))
      PROVE  Turn(sent'[k], k, Len(sent'), next, gapEnd)
  <2>1. sent' = <<>>
    BY <1>2 DEF UpdateIgnored, UpdateFails, Shutdown, Update
  <2> QED BY <2>1
<1> QED BY <1>1, <1>2 DEF Next

\* The archiver gets the milestones of a gap in ascending order, each once, with
\* the end of the gap, and a Close only when all that was sent lies below it.
THEOREM SentInOrder == Spec => InOrder
<1>1. SyncerInv /\ [Next]_vars
        => [\A k \in DOMAIN sent' : highest # 0 =>
              IF sent'[k].type = "data"
                THEN sent'[k] = Data(next + k - 1, gapEnd) /\ sent'[k].index < gapEnd
                ELSE k = Len(sent') /\ sent'[k].index = next + k - 1]_vars
  BY InOrderStep DEF Turn
<1> QED BY <1>1, Invariance, PTL DEF Spec, InOrder

\* A gap that follows another is never skipped for a milestone of the one before.
THEOREM SkipEnds == Spec => SkipEndsWithGap
<1>1. ASSUME SyncerInv, Next, active # NoGap, syncData' # syncData PROVE ~skip'
  <2>1. ASSUME NEW i \in Index, NEW S, Skipping(i, S) PROVE ~skip'
    BY <1>1, <2>1 DEF Skipping, SkipAfterGap
  <2>2. ASSUME NEW i \in Index, Answered(i) PROVE ~skip'
    <3>1. CASE SkippedMilestone(i) \/ Unreachable(i)
      BY <2>1, <3>1 DEF SkippedMilestone, Unreachable
    <3>2. CASE Milestone(i)
      BY <3>2 DEF Milestone
    <3>3. ~FirstMilestone(i) /\ ~FirstMilestones(i)
      BY <1>1 DEF FirstMilestone, FirstMilestones, SyncerInv, GapInTurn
    <3> QED BY <2>2, <3>1, <3>2, <3>3 DEF Answered
  <2>3. ~UpdateIgnored /\ ~UpdateFails /\ ~Shutdown
    BY <1>1 DEF UpdateIgnored, UpdateFails, Shutdown
  <2>4. \A rows \in SUBSET Index : ~Update(rows)
    BY <1>1 DEF Update
  <2> QED BY <1>1, <2>2, <2>3, <2>4 DEF Next
<1>2. SyncerInv /\ [Next]_vars => [(active # NoGap /\ syncData' # syncData) => ~skip']_vars
  BY <1>1
<1> QED BY <1>2, Invariance, PTL DEF Spec, SkipEndsWithGap

=============================================================================
