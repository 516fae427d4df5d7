--------------------------- MODULE ArchiverProofs ---------------------------
(***************************************************************************)
(* Proofs about the archiver, for every value of its constants.            *)
(*                                                                         *)
(* The types come first (TypeCorrect).  Then the inductive invariant:      *)
(* Sound says what a set of logs and sealed files may look like, Tidy that *)
(* the archiver's are sound and every log has room.  Each handler keeps    *)
(* Tidy when the milestone it is given is admitted (Admits), which the     *)
(* event loop ensures for the incoming flow and the syncer for its gaps;   *)
(* a handler that fails half way still leaves no overlap.                  *)
(***************************************************************************)
EXTENDS Archiver, WellFoundedInduction, TLAPS

USE ArchiverAssumption

\* A set of natural numbers has a least element, which Min returns.
LEMMA MinNat ==
  ASSUME NEW S \in SUBSET Nat, S # {}
  PROVE  Min(S) \in S /\ \A x \in S : Min(S) <= x
<1>. DEFINE R == {ss \in Nat \X Nat : ss[1] < ss[2]}
<1>1. IsWellFoundedOn(R, Nat)
  <2>1. R = OpToRel(<, Nat) BY DEF OpToRel
  <2> QED BY <2>1, NatLessThanWellFounded
<1>2. PICK x \in S : \A y \in S : ~ (<<y, x>> \in R)
  <2> HIDE DEF R
  <2> QED BY <1>1, WFMin, Zenon
<1>3. \A a, b \in Nat : a < b => <<a, b>> \in R
  OBVIOUS
<1>4. \A y \in S : x <= y
  <2> SUFFICES ASSUME NEW y \in S PROVE x <= y OBVIOUS
  <2>1. ~ (y < x) BY <1>2, <1>3
  <2> QED BY <2>1
<1> QED BY <1>4 DEF Min

-----------------------------------------------------------------------------
(* Sets of logs and of sealed files (Sound, see Archiver).                 *)

\* The adjusted upper limit of a log: its own, or the start of a file after it.
LEMMA NewUpperIs ==
  ASSUME NEW L \in SUBSET Log, NEW l \in Log
  PROVE  /\ NewUpper(l, L) \in Limit
         /\ NewUpper(l, L) <= l.upper
         /\ \A k \in L : k.from > l.from => NewUpper(l, L) <= k.from
         /\ NewUpper(l, L) = l.upper \/ \E k \in L : k.from > l.from /\ NewUpper(l, L) = k.from
<1>. DEFINE S == {l.upper} \cup {k.from : k \in {m \in L : m.from > l.from}}
<1>1. S \in SUBSET Limit
  BY DEF Log, Index, Limit
<1>2. S \in SUBSET Nat /\ S # {}
  BY <1>1 DEF Limit
<1>3. Min(S) \in S /\ \A x \in S : Min(S) <= x
  <2> HIDE DEF S
  <2> QED BY <1>2, MinNat
<1>4. NewUpper(l, L) = Min(S)
  BY DEF NewUpper
<1>5. NewUpper(l, L) \in S /\ \A x \in S : NewUpper(l, L) <= x
  <2> HIDE DEF S
  <2> QED BY <1>3, <1>4
<1>6. \A k \in L : k.from > l.from => k.from \in S
  OBVIOUS
<1>7. \A x \in S : x = l.upper \/ \E k \in L : k.from > l.from /\ x = k.from
  OBVIOUS
<1>8. l.upper \in S
  OBVIOUS
<1>. HIDE DEF S
<1> QED BY <1>1, <1>5, <1>6, <1>7, <1>8

\* Sealing some of the logs keeps the rest sound.
LEMMA SealSound ==
  ASSUME NEW L, NEW D, Sound(L, D), NEW S \in SUBSET L,
         NEW E, E \subseteq D \cup Names(S)
  PROVE  Sound(L \ S, E)
<1>1. \A e \in E : e \in D \/ \E l \in S : e = <<l.from, l.to>>
  BY DEF Names, FileName
<1>2. L \ S \in SUBSET Log /\ E \in SUBSET Name
  BY <1>1 DEF Sound, Log, Name
<1>3. \A e \in E : e[1] < e[2]
  BY <1>1 DEF Sound
<1>4. \A l \in L \ S, e \in E : Apart(FileName(l), e)
  <2>. SUFFICES ASSUME NEW l \in L \ S, NEW e \in E PROVE Apart(FileName(l), e)
    OBVIOUS
  <2>1. CASE e \in D
    BY <2>1, Zenon DEF Sound
  <2>2. CASE e \notin D
    <3>1. PICK k \in S : e = FileName(k)
      BY <1>1, <2>2 DEF FileName
    <3>2. k # l /\ k \in L
      OBVIOUS
    <3> QED BY <3>1, <3>2, Zenon DEF Sound
  <2> QED BY <2>1, <2>2
<1>5. AllApart(E)
  <2>. SUFFICES ASSUME NEW a \in E, NEW b \in E PROVE a = b \/ Apart(a, b)
    BY DEF AllApart
  <2>1. CASE a \in D /\ b \in D
    BY <2>1, Zenon DEF Sound, AllApart
  <2>2. CASE a \in D /\ b \notin D
    BY <1>1, <2>2 DEF Sound, FileName, Apart
  <2>3. CASE a \notin D /\ b \in D
    BY <1>1, <2>3 DEF Sound, FileName, Apart
  <2>4. CASE a \notin D /\ b \notin D
    BY <1>1, <2>4 DEF Sound, FileName, Apart
  <2> QED BY <2>1, <2>2, <2>3, <2>4
<1>6. \A l \in L \ S, e \in E : l.to <= e[1] => l.upper <= e[1]
  BY <1>1 DEF Sound
<1> QED BY <1>2, <1>3, <1>4, <1>5, <1>6, Zenon DEF Sound

\* So does adding a log that is apart from all others and has no sealed file in
\* its room, once the upper limits are adjusted.
LEMMA CreateSound ==
  ASSUME NEW L, NEW D, Sound(L, D), NEW n \in Log,
         n.from < n.to, n.to <= n.upper,
         \A l \in L : Apart(FileName(l), FileName(n)),
         \A d \in D : Apart(d, FileName(n)),
         \A d \in D : n.to <= d[1] => n.upper <= d[1]
  PROVE  /\ Sound(Adjusted(L \cup {n}), D)
         /\ \A a \in Adjusted(L \cup {n}) :
              \E l \in L \cup {n} : a.from = l.from /\ a.to = l.to
<1>. DEFINE M == L \cup {n}
            A == Adjusted(M)
<1>1. M \in SUBSET Log
  BY DEF Sound
<1>2. \A k, l \in M : k = l \/ Apart(FileName(k), FileName(l))
  BY DEF Sound, Apart
<1>3. \A l \in M, d \in D : /\ Apart(FileName(l), d)
                            /\ l.to <= d[1] => l.upper <= d[1]
  BY DEF Sound, Apart
<1>4. \A l \in M : l.from < l.to /\ l.to <= l.upper
  BY DEF Sound
<1>5. \A a \in A : \E l \in M :
         /\ a = [l EXCEPT !.upper = NewUpper(l, M)]
         /\ a \in Log /\ a.from = l.from /\ a.to = l.to /\ a.upper = NewUpper(l, M)
  <2>. SUFFICES ASSUME NEW l \in M,
                       NEW a, a = [l EXCEPT !.upper = NewUpper(l, M)]
                PROVE  a \in Log /\ a.from = l.from /\ a.to = l.to /\ a.upper = NewUpper(l, M)
    BY Zenon DEF Adjusted
  <2>1. NewUpper(l, M) \in Limit
    BY <1>1, NewUpperIs
  <2> QED BY <1>1, <2>1 DEF Log
<1>6. \A l \in M : /\ l.to <= NewUpper(l, M)
                   /\ NewUpper(l, M) <= l.upper
                   /\ NewUpper(l, M) \in Limit
                   /\ \A k \in M : l.to <= k.from => NewUpper(l, M) <= k.from
  <2>. SUFFICES ASSUME NEW l \in M
                PROVE  /\ l.to <= NewUpper(l, M)
                       /\ NewUpper(l, M) <= l.upper
                       /\ NewUpper(l, M) \in Limit
                       /\ \A k \in M : l.to <= k.from => NewUpper(l, M) <= k.from
    OBVIOUS
  <2>. HIDE DEF M
  <2>1. /\ NewUpper(l, M) \in Limit
        /\ NewUpper(l, M) <= l.upper
        /\ \A k \in M : k.from > l.from => NewUpper(l, M) <= k.from
        /\ NewUpper(l, M) = l.upper \/ \E k \in M : k.from > l.from /\ NewUpper(l, M) = k.from
    BY <1>1, NewUpperIs
  <2>2. \A k \in M : k.from > l.from => l.to <= k.from
    <3>. SUFFICES ASSUME NEW k \in M, k.from > l.from PROVE l.to <= k.from
      OBVIOUS
    <3>1. k \in Log /\ l \in Log /\ k # l
      BY <1>1 DEF Log, Index, Limit
    <3>2. k.to <= l.from \/ l.to <= k.from
      BY <1>2, <3>1 DEF Apart, FileName
    <3>3. k.from < k.to
      BY <1>4
    <3> QED BY <3>1, <3>2, <3>3 DEF Log, Index, Limit
  <2> QED BY <1>1, <1>4, <2>1, <2>2, SMTT(60) DEF Log, Index, Limit
<1>. HIDE DEF M, A
<1>7. A \in SUBSET Log /\ \A a \in A : a.from < a.to /\ a.to <= a.upper
  BY <1>4, <1>5, <1>6
<1>8. \A a, b \in A : a = b \/ Apart(FileName(a), FileName(b))
  <2>. SUFFICES ASSUME NEW a \in A, NEW b \in A PROVE a = b \/ Apart(FileName(a), FileName(b))
    OBVIOUS
  <2>1. PICK k \in M : a = [k EXCEPT !.upper = NewUpper(k, M)] /\ a.from = k.from /\ a.to = k.to
    BY <1>5
  <2>2. PICK l \in M : b = [l EXCEPT !.upper = NewUpper(l, M)] /\ b.from = l.from /\ b.to = l.to
    BY <1>5
  <2>3. CASE k = l
    BY <2>1, <2>2, <2>3
  <2>4. CASE k # l
    BY <1>2, <2>1, <2>2, <2>4 DEF FileName
  <2> QED BY <2>3, <2>4
<1>9. \A a \in A, d \in D : Apart(FileName(a), d)
  BY <1>3, <1>5 DEF FileName
<1>10. \A a, b \in A : b.to <= a.from => b.upper <= a.from
  BY <1>5, <1>6
<1>11. \A a \in A, d \in D : a.to <= d[1] => a.upper <= d[1]
  <2>. SUFFICES ASSUME NEW a \in A, NEW d \in D, a.to <= d[1] PROVE a.upper <= d[1]
    OBVIOUS
  <2>1. PICK l \in M : a.to = l.to /\ a.upper = NewUpper(l, M)
    BY <1>5
  <2>2. d[1] \in Int /\ l.upper \in Int
    BY <1>1 DEF Sound, Name, Index, Log, Limit
  <2>3. l.upper <= d[1] /\ NewUpper(l, M) <= l.upper /\ NewUpper(l, M) \in Int
    BY <1>3, <1>6, <2>1 DEF Limit
  <2> QED BY <2>1, <2>2, <2>3
<1>12. Sound(A, D)
  BY <1>7, <1>8, <1>9, <1>10, <1>11, Zenon DEF Sound
<1>13. \A a \in A : \E l \in M : a.from = l.from /\ a.to = l.to
  BY <1>5
<1> QED BY <1>12, <1>13 DEF A, M

\* A log that still has room may take one more milestone.
LEMMA ExtendSound ==
  ASSUME NEW L, NEW D, Sound(L, D), NEW l \in L, l.to < l.upper, NEW m \in Log,
         m.from = l.from, m.to = l.to + 1, m.upper = l.upper
  PROVE  Sound((L \ {l}) \cup {m}, D)
<1>. DEFINE M == (L \ {l}) \cup {m}
<1>1. L \in SUBSET Log /\ M \in SUBSET Log /\ D \in SUBSET Name
  BY DEF Sound
<1>2. \A k \in M : k.from < k.to /\ k.to <= k.upper
  BY <1>1 DEF Sound, Log, Index, Limit
<1>3. \A k \in L \ {l} : k.to <= m.from \/ (m.to <= k.from /\ m.upper <= k.from)
  <2>. SUFFICES ASSUME NEW k \in L \ {l}
                PROVE  k.to <= m.from \/ (m.to <= k.from /\ m.upper <= k.from)
    OBVIOUS
  <2>1. k.to <= l.from \/ l.to <= k.from
    BY DEF Sound, Apart, FileName
  <2>2. l.to <= k.from => l.upper <= k.from
    BY DEF Sound
  <2> QED BY <1>1, <2>1, <2>2 DEF Log, Index, Limit
<1>4. \A d \in D : d[2] <= m.from \/ (m.to <= d[1] /\ m.upper <= d[1])
  <2>. SUFFICES ASSUME NEW d \in D
                PROVE  d[2] <= m.from \/ (m.to <= d[1] /\ m.upper <= d[1])
    OBVIOUS
  <2>1. l.to <= d[1] \/ d[2] <= l.from
    BY DEF Sound, Apart, FileName
  <2>2. l.to <= d[1] => l.upper <= d[1]
    BY DEF Sound
  <2>3. d[1] \in Int /\ d[2] \in Int
    BY <1>1 DEF Name, Index, Limit
  <2> QED BY <1>1, <2>1, <2>2, <2>3 DEF Log, Index, Limit
<1>5. \A j, k \in M : j = k \/ Apart(FileName(j), FileName(k))
  <2>. SUFFICES ASSUME NEW j \in M, NEW k \in M, j # k PROVE Apart(FileName(j), FileName(k))
    OBVIOUS
  <2>1. CASE j = m
    BY <1>3, <2>1 DEF Apart, FileName
  <2>2. CASE k = m
    BY <1>3, <2>2 DEF Apart, FileName
  <2>3. CASE j # m /\ k # m
    BY <2>3 DEF Sound
  <2> QED BY <2>1, <2>2, <2>3
<1>6. \A k \in M, d \in D : Apart(FileName(k), d)
  BY <1>4 DEF Sound, Apart, FileName
<1>7. \A j, k \in M : k.to <= j.from => k.upper <= j.from
  <2>. SUFFICES ASSUME NEW j \in M, NEW k \in M, k.to <= j.from PROVE k.upper <= j.from
    OBVIOUS
  <2>1. CASE k = m /\ j = m
    BY <1>1, <1>2, <2>1 DEF Log, Index, Limit
  <2>2. CASE k = m /\ j # m
    <3>1. j \in L \ {l} /\ j.from < j.to
      BY <1>2, <2>2
    <3> QED BY <1>1, <1>2, <1>3, <2>2, <3>1 DEF Log, Index, Limit
  <2>3. CASE k # m /\ j = m
    BY <2>3 DEF Sound
  <2>4. CASE k # m /\ j # m
    BY <2>4 DEF Sound
  <2> QED BY <2>1, <2>2, <2>3, <2>4
<1>8. \A k \in M, d \in D : k.to <= d[1] => k.upper <= d[1]
  <2>. SUFFICES ASSUME NEW k \in M, NEW d \in D, k.to <= d[1] PROVE k.upper <= d[1]
    OBVIOUS
  <2>1. CASE k = m
    <3>1. d[1] < d[2] /\ d[1] \in Int /\ d[2] \in Int
      BY <1>1 DEF Sound, Name, Index, Limit
    <3> QED BY <1>1, <1>2, <1>4, <2>1, <3>1 DEF Log, Index, Limit
  <2>2. CASE k # m
    BY <2>2 DEF Sound
  <2> QED BY <2>1, <2>2
<1>9. (\A d \in D : d[1] < d[2]) /\ AllApart(D)
  BY DEF Sound
<1>. HIDE DEF M
<1>10. Sound(M, D)
  BY <1>1, <1>2, <1>5, <1>6, <1>7, <1>8, <1>9, Zenon DEF Sound
<1> QED BY <1>10 DEF M

\* A log without room may be added as it is, when nobody else's room holds it.
LEMMA AddFullSound ==
  ASSUME NEW L, NEW D, Sound(L, D), NEW n \in Log,
         n.from < n.to, n.to = n.upper,
         \A l \in L : Apart(FileName(l), FileName(n)),
         \A l \in L : l.to <= n.from => l.upper <= n.from,
         \A d \in D : Apart(d, FileName(n))
  PROVE  Sound(L \cup {n}, D)
<1>. DEFINE M == L \cup {n}
<1>1. M \in SUBSET Log /\ D \in SUBSET Name
  BY DEF Sound
<1>2. \A k \in M : k.from < k.to /\ k.to <= k.upper
  BY DEF Sound, Log, Limit
<1>3. \A j, k \in M : j = k \/ Apart(FileName(j), FileName(k))
  BY DEF Sound, Apart
<1>4. \A k \in M, d \in D : Apart(FileName(k), d)
  BY DEF Sound, Apart
<1>5. \A j, k \in M : k.to <= j.from => k.upper <= j.from
  BY DEF Sound
<1>6. \A k \in M, d \in D : k.to <= d[1] => k.upper <= d[1]
  BY DEF Sound
<1>7. (\A d \in D : d[1] < d[2]) /\ AllApart(D)
  BY DEF Sound
<1>. HIDE DEF M
<1>8. Sound(M, D)
  BY <1>1, <1>2, <1>3, <1>4, <1>5, <1>6, <1>7, Zenon DEF Sound
<1> QED BY <1>8 DEF M

-----------------------------------------------------------------------------
(* Type correctness.                                                       *)

LogsOK == logs \in SUBSET Log /\ processed \in SUBSET Name
DiskOK == part \in [Index -> Seq(Line)] /\ sealed \in [Name -> Seq(Line)]

\* Renaming files keeps the types of the disk.
LEMMA RenamedType ==
  ASSUME DiskOK, NEW S, NEW p \in [Index -> Seq(Line)]
  PROVE  Parts(p, S) \in [Index -> Seq(Line)] /\ Renamed(p, S) \in [Name -> Seq(Line)]
<1>1. \A n \in Name : n[1] \in Index
  BY DEF Name
<1>2. <<>> \in Seq(Line)
  OBVIOUS
<1> QED BY <1>1, <1>2 DEF DiskOK, Parts, Renamed

\* Writing a line keeps the type of the files in progress.
LEMMA WrittenType ==
  ASSUME DiskOK, NEW f \in Index, NEW line \in Line
  PROVE  Written(f, line) \in [Index -> Seq(Line)]
BY DEF DiskOK, Written

\* What an append leaves is a line.
LEMMA OutcomesType ==
  ASSUME NEW i \in Index
  PROVE  Outcomes(i) \subseteq Line
BY DEF Outcomes, Line

\* A new log file is well formed.
LEMMA NewLogType ==
  ASSUME NEW i \in Index, NEW u \in Limit
  PROVE  NewLog(i, u) \in Log /\ LineLen[i] \in Nat
BY DEF NewLog, Log, Index, Limit, ArchiverAssumption

\* A log with room takes a line: only `to` and `len` grow.
LEMMA ExtendedType ==
  ASSUME NEW l \in Log, NEW i \in Index, l.to < l.upper
  PROVE  /\ Extended(l, i) \in Log
         /\ Extended(l, i).from = l.from /\ Extended(l, i).to = l.to + 1
         /\ Extended(l, i).upper = l.upper
<1>1. LineLen[i] \in Nat
  BY DEF ArchiverAssumption
<1>2. l.to + 1 \in Limit
  BY DEF Log, Index, Limit
<1>3. l.len + LineLen[i] \in Nat
  BY <1>1 DEF Log
<1> QED BY <1>2, <1>3 DEF Extended, Log

\* Adjusting the upper limits keeps the logs well formed.
LEMMA AdjustedType ==
  ASSUME NEW L \in SUBSET Log
  PROVE  Adjusted(L) \in SUBSET Log
<1>1. \A l \in L : [l EXCEPT !.upper = NewUpper(l, L)] \in Log
  <2>. SUFFICES ASSUME NEW l \in L PROVE [l EXCEPT !.upper = NewUpper(l, L)] \in Log
    OBVIOUS
  <2>1. NewUpper(l, L) \in Limit
    BY NewUpperIs
  <2> QED BY <2>1 DEF Log
<1> QED BY <1>1 DEF Adjusted

\* Sealing logs keeps the types of the logs and of the disk.
LEMMA SettleType ==
  ASSUME LogsOK, DiskOK, NEW L \in SUBSET Log, NEW S \in SUBSET Log,
         NEW p \in [Index -> Seq(Line)], Settle(L, S, p)
  PROVE  LogsOK' /\ DiskOK'
<1>1. \A l \in S : FileName(l) \in Name
  BY DEF FileName, Name, Log
<1>2. LogsOK'
  BY <1>1 DEF Settle, LogsOK
<1>3. DiskOK'
  BY RenamedType DEF Settle, DiskOK
<1> QED BY <1>2, <1>3

\* create_and_append keeps them.
LEMMA CreateType ==
  ASSUME LogsOK, DiskOK, NEW i \in Index, NEW u \in Limit, NEW S \in SUBSET Log,
         Create(i, u, S)
  PROVE  LogsOK' /\ DiskOK'
<1>. DEFINE new == NewLog(i, u)
            all == Adjusted(logs \cup {new})
<1>1. new \in Log /\ logs \cup {new} \in SUBSET Log
  BY NewLogType DEF LogsOK
<1>2. all \in SUBSET Log
  BY <1>1, AdjustedType
<1>3. PICK p \in [Index -> Seq(Line)] :
         \/ u = i + 1 /\ Settle(logs \cup {new}, S \cup {new}, p)
         \/ /\ u # i + 1
            /\ Settle(all, Full(all) \cup {a \in all : \E l \in S : l.from = a.from}, p)
  <2>1. \A line \in Outcomes(i) : Written(i, line) \in [Index -> Seq(Line)]
    BY WrittenType, OutcomesType
  <2> QED BY <2>1 DEF Create
<1>4. CASE u = i + 1
  <2>1. Settle(logs \cup {new}, S \cup {new}, p)
    BY <1>3, <1>4
  <2>. HIDE DEF new
  <2> QED BY <1>1, <1>3, <2>1, SettleType
<1>5. CASE u # i + 1
  <2>. DEFINE T == Full(all) \cup {a \in all : \E l \in S : l.from = a.from}
  <2>1. Settle(all, T, p)
    BY <1>3, <1>5
  <2>2. T \in SUBSET Log
    BY <1>2 DEF Full
  <2>. HIDE DEF all, T
  <2> QED BY <1>2, <1>3, <2>1, <2>2, SettleType
<1> QED BY <1>4, <1>5

\* handle_milestone_data keeps them.
LEMMA HandleType ==
  ASSUME LogsOK, DiskOK, NEW i \in Index, NEW u \in Limit, Handle(i, u)
  PROVE  LogsOK' /\ DiskOK'
<1>1. ASSUME NEW l \in logs, Extends(l, i), AppendTo(l, i)
      PROVE  LogsOK' /\ DiskOK'
  <2>. DEFINE m == Extended(l, i)
              S == IF m.upper = m.to THEN {m} ELSE {}
  <2>1. l \in Log /\ l.to < l.upper
    BY <1>1 DEF LogsOK, Extends
  <2>2. m \in Log
    BY <2>1, ExtendedType
  <2>3. (logs \ {l}) \cup {m} \in SUBSET Log /\ S \in SUBSET Log
    BY <2>2 DEF LogsOK
  <2>4. \A line \in Outcomes(i) : Written(l.from, line) \in [Index -> Seq(Line)]
    BY <2>1, WrittenType, OutcomesType DEF Log
  <2>5. PICK p \in [Index -> Seq(Line)] : Settle((logs \ {l}) \cup {m}, S, p)
    BY <1>1, <2>4 DEF AppendTo
  <2>. HIDE DEF m, S
  <2> QED BY <2>3, <2>4, <2>5, SettleType
<1>2. ASSUME NEW l \in logs, Settle(logs, {l}, part)
      PROVE  LogsOK' /\ DiskOK'
  BY <1>2, SettleType DEF LogsOK, DiskOK
<1>3. ASSUME NEW l \in logs, Create(i, l.upper, {l})
      PROVE  LogsOK' /\ DiskOK'
  <2>1. l.upper \in Limit /\ {l} \in SUBSET Log
    BY DEF LogsOK, Log
  <2> QED BY <1>3, <2>1, CreateType
<1>4. ASSUME Create(i, u, {})
      PROVE  LogsOK' /\ DiskOK'
  BY <1>4, CreateType
<1>5. ASSUME UNCHANGED <<logs, processed, part, sealed>>
      PROVE  LogsOK' /\ DiskOK'
  BY <1>5 DEF LogsOK, DiskOK
<1> QED BY <1>1, <1>2, <1>3, <1>4, <1>5, Zenon DEF Handle

\* So does a handler that gives up with the logs L.
LEMMA FailType ==
  ASSUME LogsOK, DiskOK, NEW L \in SUBSET Log, NEW S,
         NEW p \in [Index -> Seq(Line)], Fail(L, S, p)
  PROVE  LogsOK' /\ DiskOK'
BY RenamedType DEF Fail, LogsOK, DiskOK

\* A failure in create_and_append keeps the types.
LEMMA FailCreateType ==
  ASSUME LogsOK, DiskOK, NEW i \in Index, NEW u \in Limit, NEW S, FailCreate(i, u, S)
  PROVE  LogsOK' /\ DiskOK'
<1>. DEFINE new == NewLog(i, u)
            all == Adjusted(logs \cup {new})
<1>1. all \in SUBSET Log
  BY NewLogType, AdjustedType DEF LogsOK
<1>2. \A line \in Line : Written(i, line) \in [Index -> Seq(Line)]
  BY WrittenType
<1>3. \/ \E q \in {part, Written(i, Torn)} : Fail(logs, S, q)
      \/ \E line \in Outcomes(i) : \E U : Fail(logs, U, Written(i, line))
      \/ \E line \in Outcomes(i) : \E U : Fail(all, U, Written(i, line))
  BY Zenon DEF FailCreate
<1>. HIDE DEF all
<1>4. ASSUME NEW q \in {part, Written(i, Torn)}, Fail(logs, S, q) PROVE LogsOK' /\ DiskOK'
  <2>1. q \in [Index -> Seq(Line)]
    BY <1>2 DEF DiskOK, Line
  <2> QED BY <1>4, <2>1, FailType DEF LogsOK
<1>5. ASSUME NEW line \in Outcomes(i), NEW U, Fail(logs, U, Written(i, line))
      PROVE  LogsOK' /\ DiskOK'
  <2>1. Written(i, line) \in [Index -> Seq(Line)]
    BY <1>2, OutcomesType
  <2> QED BY <1>5, <2>1, FailType DEF LogsOK
<1>6. ASSUME NEW line \in Outcomes(i), NEW U, Fail(all, U, Written(i, line))
      PROVE  LogsOK' /\ DiskOK'
  <2>1. Written(i, line) \in [Index -> Seq(Line)]
    BY <1>2, OutcomesType
  <2> QED BY <1>1, <1>6, <2>1, FailType
<1> QED BY <1>3, <1>4, <1>5, <1>6

\* A failure in handle_milestone_data keeps the types.
LEMMA FailHandleType ==
  ASSUME LogsOK, DiskOK, NEW i \in Index, NEW u \in Limit, FailHandle(i, u)
  PROVE  LogsOK' /\ DiskOK'
<1>1. ASSUME NEW l \in logs, Fail(logs, {}, Written(l.from, Torn))
      PROVE  LogsOK' /\ DiskOK'
  <2>1. Written(l.from, Torn) \in [Index -> Seq(Line)] /\ logs \in SUBSET Log
    BY WrittenType DEF LogsOK, Log, Line
  <2> QED BY <1>1, <2>1, FailType
<1>2. ASSUME NEW l \in logs, Extends(l, i), NEW T, NEW line \in Outcomes(i),
             Fail((logs \ {l}) \cup {Extended(l, i)}, T, Written(l.from, line))
      PROVE  LogsOK' /\ DiskOK'
  <2>1. l \in Log /\ l.to < l.upper /\ l.from \in Index
    BY <1>2 DEF LogsOK, Log, Extends
  <2>2. (logs \ {l}) \cup {Extended(l, i)} \in SUBSET Log
    BY <2>1, ExtendedType DEF LogsOK
  <2>3. Written(l.from, line) \in [Index -> Seq(Line)]
    BY <2>1, WrittenType, OutcomesType
  <2> QED BY <1>2, <2>2, <2>3, FailType
<1>3. ASSUME NEW T, Fail(logs, T, part) PROVE LogsOK' /\ DiskOK'
  BY <1>3, FailType DEF LogsOK, DiskOK
<1>4. ASSUME NEW l \in logs, FailCreate(i, l.upper, {l}) PROVE LogsOK' /\ DiskOK'
  <2>1. l.upper \in Limit
    BY DEF LogsOK, Log
  <2> QED BY <1>4, <2>1, FailCreateType
<1>5. ASSUME FailCreate(i, u, {}) PROVE LogsOK' /\ DiskOK'
  BY <1>5, FailCreateType
<1> QED BY <1>1, <1>2, <1>3, <1>4, <1>5, Zenon DEF FailHandle

\* close_log_file keeps the types, done or failed.
LEMMA CloseType ==
  ASSUME LogsOK, DiskOK, NEW m, CloseLog(m) \/ FailClose(m)
  PROVE  LogsOK' /\ DiskOK'
<1>1. \/ \E S \in SUBSET logs : Settle(logs, S, part) \/ Fail(logs, S, part)
      \/ UNCHANGED <<logs, processed, part, sealed>>
  BY DEF CloseLog, FailClose, EndsAt
<1>2. ASSUME NEW S \in SUBSET logs, Settle(logs, S, part) PROVE LogsOK' /\ DiskOK'
  BY <1>2, SettleType DEF LogsOK, DiskOK
<1>3. ASSUME NEW S \in SUBSET logs, Fail(logs, S, part) PROVE LogsOK' /\ DiskOK'
  BY <1>3, FailType DEF LogsOK, DiskOK
<1>4. ASSUME UNCHANGED <<logs, processed, part, sealed>> PROVE LogsOK' /\ DiskOK'
  BY <1>4 DEF LogsOK, DiskOK
<1> QED BY <1>1, <1>2, <1>3, <1>4

\* The heap is a bag of indices.
HeapOK == IsABag(heap) /\ DOMAIN heap \subseteq Index

\* A push keeps the heap a bag of indices.
LEMMA PushType ==
  ASSUME HeapOK, NEW i \in Index, heap' = heap (+) SetToBag({i})
  PROVE  HeapOK'
BY DEF HeapOK, IsABag, (+), SetToBag

\* So does a pop, which adds no index.
LEMMA PopType ==
  ASSUME HeapOK, NEW i \in Index, Pop(i)
  PROVE  HeapOK' /\ DOMAIN heap' \subseteq DOMAIN heap
BY DEF HeapOK, IsABag, Pop, (-), SetToBag

\* The empty heap is a bag of indices.
LEMMA EmptyType == ASSUME heap' = EmptyBag PROVE HeapOK'
BY DEF HeapOK, IsABag, EmptyBag, SetToBag

\* The type invariant by parts, one for each group of variables.
LEMMA TypeIs ==
  TypeOK <=> /\ pc \in {"waiting", "running", "draining", "skipping", "failed", "stopped"}
             /\ next \in Nat /\ HeapOK /\ LogsOK /\ DiskOK
BY DEF TypeOK, HeapOK, LogsOK, DiskOK

\* The archiver starts with values of the declared types.
LEMMA InitType == Init => TypeOK
<1>. SUFFICES ASSUME Init PROVE TypeOK
  OBVIOUS
<1>1. HeapOK
  BY DEF Init, HeapOK, IsABag, EmptyBag, SetToBag
<1>2. LogsOK /\ DiskOK
  BY DEF Init, LogsOK, DiskOK
<1> QED BY <1>1, <1>2, TypeIs DEF Init

\* Every step of the archiver, a failed one included, keeps the types.
LEMMA NextType == TypeOK /\ [Next]_vars => TypeOK'
<1>. SUFFICES ASSUME TypeOK, [Next]_vars PROVE TypeOK'
  OBVIOUS
<1>. USE TypeIs
<1>. DEFINE pcs == {"waiting", "running", "draining", "skipping", "failed", "stopped"}
            Goal == pc' \in pcs /\ next' \in Nat /\ HeapOK' /\ LogsOK' /\ DiskOK'
<1>0. /\ pc \in pcs /\ next \in Nat /\ HeapOK /\ LogsOK /\ DiskOK
      /\ \A i \in Index : i + 1 \in Nat
      /\ NoLimit \in Limit
  BY DEF Index, Limit
<1>1. ASSUME NEW n \in Index, Start(n) PROVE Goal
  BY <1>0, <1>1 DEF Start, HeapOK, LogsOK, DiskOK, Index
<1>2. ASSUME NEW m \in Index, Close(m) PROVE Goal
  BY <1>0, <1>2, CloseType DEF Close, HeapOK
<1>3. ASSUME NEW m \in Index, CloseFails(m) PROVE Goal
  BY <1>0, <1>3, CloseType, EmptyType DEF CloseFails, FailClose, Fail
<1>4. ASSUME NEW i \in Index, SyncerAtNext(i) PROVE Goal
  BY <1>0, <1>4, HandleType DEF SyncerAtNext, HeapOK
<1>5. ASSUME NEW i \in Index, SyncerAhead(i) PROVE Goal
  BY <1>0, <1>5, PushType DEF SyncerAhead, LogsOK, DiskOK
<1>6. ASSUME NEW i \in Index, NEW u \in Limit, FailHandle(i, u) PROVE Goal
  <2>1. pc' = "failed" /\ heap' = EmptyBag /\ next' = next
    BY <1>6, Zenon DEF FailHandle, FailCreate, Fail
  <2> QED BY <1>0, <1>6, <2>1, FailHandleType, EmptyType
<1>7. ASSUME NEW i \in Index, AtNextFails(i) PROVE Goal
  <2>1. FailHandle(i, NoLimit)
    BY <1>7 DEF AtNextFails
  <2> QED BY <1>0, <1>6, <2>1
<1>8. ASSUME NEW i \in Index, Incoming(i) PROVE Goal
  BY <1>0, <1>8, PushType DEF Incoming, LogsOK, DiskOK
<1>9. ASSUME NEW i \in Index, DrainNext(i) PROVE Goal
  BY <1>0, <1>9, HandleType, PopType DEF DrainNext
<1>10. ASSUME NEW i \in Index, DrainGap(i) PROVE Goal
  BY <1>0, <1>10, CloseType DEF DrainGap, HeapOK
<1>11. ASSUME NEW i \in Index, SkipGap(i) PROVE Goal
  BY <1>0, <1>11, HandleType, PopType DEF SkipGap
<1>12. ASSUME NEW i \in Index, DrainStale(i) PROVE Goal
  BY <1>0, <1>12, PopType DEF DrainStale, LogsOK, DiskOK
<1>13. ASSUME NEW i \in Index, DrainFails(i) PROVE Goal
  <2>1. CASE FailHandle(i, NoLimit)
    BY <1>0, <1>6, <2>1
  <2>2. CASE FailClose(next)
    BY <1>0, <2>2, CloseType, EmptyType DEF FailClose, Fail
  <2> QED BY <1>13, <2>1, <2>2 DEF DrainFails
<1>14. ASSUME DrainEnd PROVE Goal
  BY <1>0, <1>14 DEF DrainEnd, HeapOK, LogsOK, DiskOK
<1>15. ASSUME Terminate PROVE Goal
  <2>1. LogsOK' /\ DiskOK'
    BY <1>0, <1>15, RenamedType DEF Terminate, LogsOK, DiskOK
  <2> QED BY <1>0, <1>15, <2>1, EmptyType DEF Terminate
<1>16. ASSUME NEW i \in Index, NEW u \in Limit, SyncerBehind(i, u) PROVE Goal
  BY <1>0, <1>16, HandleType DEF SyncerBehind, HeapOK
<1>17. ASSUME NEW i \in Index, NEW u \in Limit, BehindFails(i, u) PROVE Goal
  BY <1>0, <1>6, <1>17 DEF BehindFails
<1>18. ASSUME UNCHANGED vars PROVE Goal
  BY <1>0, <1>18 DEF vars, HeapOK, LogsOK, DiskOK
<1>19. Goal
  <2>. HIDE DEF Goal
  <2> QED BY Zenon, <1>1, <1>2, <1>3, <1>4, <1>5, <1>7, <1>8, <1>9, <1>10, <1>11, <1>12, <1>13,
             <1>14, <1>15, <1>16, <1>17, <1>18 DEF Next, Step, Drain, Behind
<1> QED BY <1>19 DEF TypeOK, HeapOK, LogsOK, DiskOK

\* Whatever the sizes of the lines and the limits, all variables keep their types:
\* logs and files only have milestones and limits in their names.
THEOREM TypeCorrect == Spec => []TypeOK
<1>1. Init => TypeOK
  BY InitType
<1>2. TypeOK /\ [Next]_vars => TypeOK'
  BY NextType
<1> QED BY <1>1, <1>2, PTL DEF Spec

-----------------------------------------------------------------------------
(* No milestone is in two files.  While the archiver works, its logs and   *)
(* the sealed files are sound, every log has room, no file reaches past    *)
(* the incoming flow, and a gap is only skipped towards higher milestones. *)
(* After a failure only NoOverlap itself is left.                          *)

\* Sound logs and files hold no milestone twice.
LEMMA SoundApart ==
  ASSUME NEW L, NEW D, Sound(L, D)
  PROVE  AllApart(Names(L) \cup D)
<1>1. \A a \in Names(L) : \E l \in L : a = FileName(l)
  BY DEF Names
<1>2. \A a, b \in Names(L) : a = b \/ Apart(a, b)
  BY <1>1, ZenonT(60) DEF Sound
<1>3. \A a \in Names(L), b \in D : Apart(a, b)
  BY <1>1, ZenonT(60) DEF Sound
<1>4. \A a, b \in D : a = b \/ Apart(a, b)
  BY Zenon DEF Sound, AllApart
<1> QED BY <1>2, <1>3, <1>4 DEF AllApart, Apart

\* Files is what the next lemmas take apart.
LEMMA FilesAre == Files = Names(logs) \cup OnDisk
BY DEF Files, Names

\* What sealing the logs S adds to the disk and takes from the logs.
LEMMA SettleDisk ==
  ASSUME NEW L, NEW S \in SUBSET L, NEW p, Settle(L, S, p)
  PROVE  /\ OnDisk' \subseteq OnDisk \cup Names(S)
         /\ logs' = L \ S
         /\ processed' = processed \cup Names(S)
         /\ Files' \subseteq Names(L) \cup OnDisk
<1>1. OnDisk' \subseteq OnDisk \cup Names(S)
  BY DEF Settle, OnDisk, Renamed, Names
<1>2. logs' = L \ S /\ processed' = processed \cup Names(S)
  BY DEF Settle, Names
<1>3. Names(S) \subseteq Names(L) /\ Names(L \ S) \subseteq Names(L)
  BY DEF Names
<1>4. Files' = Names(logs') \cup OnDisk'
  BY DEF Files, Names
<1> QED BY <1>1, <1>2, <1>3, <1>4

\* After a failure there are the logs L and what has been renamed, no other file.
LEMMA FailDisk ==
  ASSUME NEW L, NEW S, NEW p, Fail(L, S, p)
  PROVE  /\ Files' \subseteq Names(L) \cup OnDisk \cup Names(S)
         /\ pc' = "failed"
<1>1. OnDisk' \subseteq OnDisk \cup Names(S)
  BY DEF Fail, OnDisk, Renamed, Names
<1>2. logs' = L
  BY DEF Fail
<1>3. Files' = Names(logs') \cup OnDisk'
  BY DEF Files, Names
<1> QED BY <1>1, <1>2, <1>3 DEF Fail

\* When all logs without room are sealed, a sound result is tidy.
LEMMA SettleTidy ==
  ASSUME NEW L, NEW S \in SUBSET L, NEW p, Settle(L, S, p), Sound(L, OnDisk),
         OnDisk \subseteq processed, \A l \in L \ S : l.to < l.upper
  PROVE  Tidy'
<1>1. /\ OnDisk' \subseteq OnDisk \cup Names(S)
      /\ logs' = L \ S
      /\ processed' = processed \cup Names(S)
  BY SettleDisk
<1>2. Sound(L \ S, OnDisk')
  BY <1>1, SealSound
<1>3. Sound(logs, OnDisk)'
  BY <1>1, <1>2 DEF Sound, AllApart
<1>4. (\A l \in logs : l.to < l.upper)' /\ (OnDisk \subseteq processed)'
  BY <1>1
<1> QED BY <1>3, <1>4 DEF Tidy

\* What an append of milestone i may do to the files: one of them ends at i + 1.
Grown(i) == \A f \in Files' : f \in Files \/ f[2] = i + 1

\* Appending a milestone to the log that ends there keeps the files tidy.
LEMMA AppendTidy ==
  ASSUME Tidy, NEW i \in Index, NEW l \in logs, Extends(l, i)
  PROVE  /\ Sound((logs \ {l}) \cup {Extended(l, i)}, OnDisk)
         /\ FileName(Extended(l, i)) = <<l.from, i + 1>>
         /\ AppendTo(l, i) => Tidy' /\ Grown(i)
<1>. DEFINE m == Extended(l, i)
            L == (logs \ {l}) \cup {m}
            S == IF m.upper = m.to THEN {m} ELSE {}
<1>1. l \in Log /\ l.to = i /\ l.to < l.upper
  BY DEF Tidy, Sound, Extends
<1>2. m \in Log /\ m.from = l.from /\ m.to = l.to + 1 /\ m.upper = l.upper
  BY <1>1, ExtendedType
<1>. HIDE DEF m
<1>3. Sound(L, OnDisk)
  BY <1>1, <1>2, ExtendSound DEF Tidy
<1>4. FileName(m) = <<l.from, i + 1>>
  BY <1>1, <1>2 DEF FileName
<1>5. ASSUME AppendTo(l, i) PROVE Tidy' /\ Grown(i)
  <2>1. PICK p : Settle(L, S, p)
    BY <1>5 DEF AppendTo, m
  <2>2. S \in SUBSET L
    OBVIOUS
  <2>3. \A k \in L \ S : k.to < k.upper
    <3>1. m \notin S => m.to < m.upper
      BY <1>1, <1>2 DEF Log, Index, Limit
    <3> QED BY <3>1 DEF Tidy
  <2>4. OnDisk \subseteq processed
    BY DEF Tidy
  <2>. HIDE DEF L, S
  <2>5. Tidy'
    BY <1>3, <2>1, <2>2, <2>3, <2>4, SettleTidy
  <2>6. Files' \subseteq Names(L) \cup OnDisk
    BY <2>1, <2>2, SettleDisk
  <2>7. Names(L) \subseteq Names(logs) \cup {<<l.from, i + 1>>}
    BY <1>4 DEF L, Names
  <2>8. Grown(i)
    BY <2>6, <2>7, FilesAre DEF Grown
  <2> QED BY <2>5, <2>8
<1> QED BY <1>3, <1>4, <1>5 DEF m

\* What create_and_append relies on when it is called for milestone i with upper
\* limit u, after the logs S have been finished.
Fresh(i, u, S) ==
  /\ i < u /\ S \in SUBSET logs
  /\ \A k \in logs : k.to <= i \/ i < k.from
  /\ \A d \in OnDisk : (d[2] <= i \/ i < d[1]) /\ (i + 1 <= d[1] => u <= d[1])
  /\ u = i + 1 => \A k \in logs \ S : k.to <= i => k.upper <= i

\* A new log for a fresh milestone overlaps nothing and has nothing in its room.
LEMMA FreshApart ==
  ASSUME Tidy, NEW i \in Index, NEW u \in Limit, NEW S, Fresh(i, u, S)
  PROVE  LET n == NewLog(i, u)
         IN /\ n \in Log /\ n.from = i /\ n.to = i + 1 /\ n.upper = u
            /\ n.from < n.to /\ n.to <= n.upper
            /\ FileName(n) = <<i, i + 1>>
            /\ \A l \in logs : Apart(FileName(l), FileName(n))
            /\ \A d \in OnDisk : Apart(d, FileName(n))
            /\ \A d \in OnDisk : n.to <= d[1] => n.upper <= d[1]
<1>. DEFINE n == NewLog(i, u)
<1>1. n \in Log /\ n.from = i /\ n.to = i + 1 /\ n.upper = u
  BY NewLogType DEF NewLog
<1>2. i \in Int /\ u \in Int /\ n.from < n.to /\ n.to <= n.upper
  BY <1>1 DEF Fresh, Index, Limit
<1>3. FileName(n) = <<i, i + 1>>
  BY <1>1 DEF FileName
<1>. HIDE DEF n
<1>4. ASSUME NEW l \in logs PROVE Apart(FileName(l), FileName(n))
  <2>1. l.from \in Int /\ l.to \in Int
    BY DEF Tidy, Sound, Log, Index, Limit
  <2> QED BY <1>2, <1>3, <2>1 DEF Fresh, Apart, FileName
<1>5. ASSUME NEW d \in OnDisk
      PROVE  Apart(d, FileName(n)) /\ (n.to <= d[1] => n.upper <= d[1])
  <2>1. d[1] \in Int /\ d[2] \in Int
    BY DEF Tidy, Sound, Name, Index, Limit
  <2> QED BY <1>1, <1>2, <1>3, <2>1 DEF Fresh, Apart
<1> QED BY <1>1, <1>2, <1>3, <1>4, <1>5 DEF n

\* create_and_append of a fresh milestone keeps the files tidy.
LEMMA CreateTidy ==
  ASSUME Tidy, NEW i \in Index, NEW u \in Limit, NEW S, Fresh(i, u, S), Create(i, u, S)
  PROVE  Tidy' /\ Grown(i)
<1>. DEFINE n   == NewLog(i, u)
            all == Adjusted(logs \cup {n})
<1>1. /\ n \in Log /\ n.from = i /\ n.to = i + 1 /\ n.upper = u
      /\ n.from < n.to /\ n.to <= n.upper
      /\ FileName(n) = <<i, i + 1>>
      /\ \A l \in logs : Apart(FileName(l), FileName(n))
      /\ \A d \in OnDisk : Apart(d, FileName(n))
      /\ \A d \in OnDisk : n.to <= d[1] => n.upper <= d[1]
  BY FreshApart
<1>2. PICK p :
      \/ u = i + 1 /\ Settle(logs \cup {n}, S \cup {n}, p)
      \/ u # i + 1 /\ Settle(all, Full(all) \cup {a \in all : \E l \in S : l.from = a.from}, p)
  BY DEF Create
<1>3. S \in SUBSET logs /\ Sound(logs, OnDisk) /\ OnDisk \subseteq processed
  BY DEF Fresh, Tidy
<1>4. Names(logs \cup {n}) \subseteq Names(logs) \cup {<<i, i + 1>>}
  BY <1>1 DEF Names
<1>. HIDE DEF n, all
<1>5. CASE u = i + 1
  <2>. DEFINE L == logs \ S
              E == OnDisk \cup Names(S)
  <2>1. Settle(logs \cup {n}, S \cup {n}, p)
    BY <1>2, <1>5
  <2>2. /\ OnDisk' \subseteq OnDisk \cup Names(S \cup {n})
        /\ logs' = (logs \cup {n}) \ (S \cup {n})
        /\ processed' = processed \cup Names(S \cup {n})
        /\ Files' \subseteq Names(logs \cup {n}) \cup OnDisk
    <3>1. S \cup {n} \in SUBSET (logs \cup {n})
      BY <1>3
    <3>. HIDE DEF L, E
    <3> QED BY <2>1, <3>1, SettleDisk
  <2>3. Sound(L, E)
    BY <1>3, SealSound
  <2>4. Sound(L \cup {n}, E)
    <3>1. \A l \in L : Apart(FileName(l), FileName(n))
      BY <1>1
    <3>2. \A l \in L : l.to <= n.from => l.upper <= n.from
      BY <1>1, <1>5 DEF Fresh
    <3>3. \A e \in E : Apart(e, FileName(n))
      BY <1>1, <1>3 DEF Names
    <3>4. n.to = n.upper
      BY <1>1, <1>5
    <3>. HIDE DEF L, E
    <3> QED BY <1>1, <2>3, <3>1, <3>2, <3>3, <3>4, AddFullSound
  <2>5. OnDisk' \subseteq E \cup Names({n}) /\ logs' = (L \cup {n}) \ {n}
    BY <2>2 DEF Names
  <2>6. Sound(logs', OnDisk')
    <3>. HIDE DEF L, E
    <3> QED BY <2>4, <2>5, SealSound
  <2>7. Sound(logs, OnDisk)'
    BY <2>6 DEF Sound, AllApart
  <2>8. (\A l \in logs : l.to < l.upper)'
    BY <2>2 DEF Tidy
  <2>9. (OnDisk \subseteq processed)'
    BY <1>3, <2>2
  <2>10. Grown(i)
    <3>1. Files' \subseteq Names(logs) \cup {<<i, i + 1>>} \cup OnDisk
      BY <1>4, <2>2
    <3>. HIDE DEF L, E
    <3> QED BY <3>1, FilesAre DEF Grown
  <2> QED BY <2>7, <2>8, <2>9, <2>10 DEF Tidy
<1>6. CASE u # i + 1
  <2>. DEFINE T == Full(all) \cup {a \in all : \E l \in S : l.from = a.from}
  <2>1. Settle(all, T, p) /\ T \in SUBSET all
    BY <1>2, <1>6 DEF Full
  <2>2. /\ Sound(all, OnDisk)
        /\ \A a \in all : \E l \in logs \cup {n} : a.from = l.from /\ a.to = l.to
    BY <1>1, <1>3, CreateSound DEF all
  <2>3. \A a \in all \ T : a.to < a.upper
    <3>1. \A a \in all : a.to \in Int /\ a.upper \in Int /\ a.to <= a.upper
      BY <2>2 DEF Sound, Log, Limit
    <3> QED BY <3>1 DEF Full
  <2>. HIDE DEF T
  <2>4. Tidy'
    BY <1>3, <2>1, <2>2, <2>3, SettleTidy
  <2>5. Files' \subseteq Names(all) \cup OnDisk
    BY <2>1, SettleDisk
  <2>6. Names(all) \subseteq Names(logs \cup {n})
    BY <2>2 DEF Names, FileName
  <2>7. Grown(i)
    <3>1. Files' \subseteq Names(logs) \cup {<<i, i + 1>>} \cup OnDisk
      BY <1>4, <2>5, <2>6
    <3> QED BY <3>1, FilesAre DEF Grown
  <2> QED BY <2>4, <2>7
<1> QED BY <1>5, <1>6

\* A log that is finished for its size makes way for one that starts where it ends.
LEMMA RolloverFresh ==
  ASSUME Tidy, NEW i \in Index, NEW l \in logs, Extends(l, i)
  PROVE  Fresh(i, l.upper, {l}) /\ l.upper \in Limit
<1>1. l.to = i /\ i < l.upper /\ l \in Log
  BY DEF Extends, Tidy, Sound
<1>2. ASSUME NEW k \in logs \ {l} PROVE (k.to <= i /\ k.upper <= i) \/ (i < k.from /\ l.upper <= k.from)
  <2>1. k \in Log /\ k.from < k.to
    BY DEF Tidy, Sound
  <2>2. k.to <= l.from \/ l.to <= k.from
    BY DEF Tidy, Sound, Apart, FileName
  <2>3. (k.to <= l.from => k.upper <= l.from) /\ (l.to <= k.from => l.upper <= k.from)
    BY DEF Tidy, Sound
  <2>4. l.from < l.to
    BY DEF Tidy, Sound
  <2>5. k.to <= k.upper
    BY DEF Tidy, Sound
  <2> QED BY <1>1, <2>1, <2>2, <2>3, <2>4, <2>5 DEF Log, Index, Limit
<1>3. \A k \in logs : k.to <= i \/ i < k.from
  BY <1>1, <1>2 DEF Index
<1>4. ASSUME NEW d \in OnDisk
      PROVE  (d[2] <= i \/ i < d[1]) /\ (i + 1 <= d[1] => l.upper <= d[1])
  <2>1. d[1] \in Int /\ d[2] \in Int /\ d[1] < d[2]
    BY DEF Tidy, Sound, Name, Index, Limit
  <2>2. l.to <= d[1] \/ d[2] <= l.from
    BY DEF Tidy, Sound, Apart, FileName
  <2>3. l.to <= d[1] => l.upper <= d[1]
    BY DEF Tidy, Sound
  <2>4. l.from < l.to
    BY DEF Tidy, Sound
  <2> QED BY <1>1, <2>1, <2>2, <2>3, <2>4 DEF Log, Index, Limit
<1>5. l.upper = i + 1 => \A k \in logs \ {l} : k.to <= i => k.upper <= i
  <2>. SUFFICES ASSUME NEW k \in logs \ {l}, k.to <= i PROVE k.upper <= i
    OBVIOUS
  <2>1. k \in Log /\ k.from < k.to
    BY DEF Tidy, Sound
  <2> QED BY <1>2, <2>1, SMTT(60) DEF Log, Index, Limit
<1> QED BY <1>1, <1>3, <1>4, <1>5 DEF Fresh, Log

\* What the event loop knows of a milestone when it hands it to the handler.
Admits(i, u) ==
  \/ Covered(i) /\ \A l \in logs : ~Extends(l, i)
  \/ /\ i < u
     /\ \A l \in logs : l.to <= i \/ i < l.from
     /\ \A d \in OnDisk : d[2] <= i \/ u <= d[1]
     /\ u = i + 1 => \A l \in logs : l.to = i \/ l.upper <= i \/ i < l.from

\* At most one log ends at i, and while the files are tidy it has room for i.
LEMMA OneEnd ==
  ASSUME Tidy, NEW i \in Index, NEW k \in logs, k.to = i
  PROVE  Extends(k, i)
<1>1. k.upper > i
  BY DEF Tidy, Sound, Log, Index, Limit
<1>2. ASSUME NEW j \in logs, j.to = i PROVE j = k
  <2>1. j.from < j.to /\ k.from < k.to /\ j \in Log /\ k \in Log
    BY DEF Tidy, Sound
  <2>2. j = k \/ j.to <= k.from \/ k.to <= j.from
    BY DEF Tidy, Sound, Apart, FileName
  <2> QED BY <1>2, <2>1, <2>2 DEF Log, Index, Limit
<1>3. \A j \in logs : (j.to = i /\ j.upper > i) => k.from <= j.from
  BY <1>2 DEF Tidy, Sound, Log, Index
<1> QED BY <1>1, <1>3 DEF Extends

\* Without a log to extend, an admitted milestone is fresh.
LEMMA PlainFresh ==
  ASSUME Tidy, NEW i \in Index, NEW u \in Limit, Admits(i, u),
         ~ \E l \in logs : Extends(l, i), ~Covered(i)
  PROVE  Fresh(i, u, {})
<1>1. /\ i < u
      /\ \A l \in logs : l.to <= i \/ i < l.from
      /\ \A d \in OnDisk : d[2] <= i \/ u <= d[1]
      /\ u = i + 1 => \A l \in logs : l.to = i \/ l.upper <= i \/ i < l.from
  BY DEF Admits
<1>2. \A l \in logs : l.to # i
  BY OneEnd
<1>3. ASSUME NEW d \in OnDisk
      PROVE  (d[2] <= i \/ i < d[1]) /\ (i + 1 <= d[1] => u <= d[1])
  <2>1. d[1] \in Int /\ d[2] \in Int /\ d[1] < d[2]
    BY DEF Tidy, Sound, Name, Index, Limit
  <2> QED BY <1>1, <2>1 DEF Index, Limit
<1>4. u = i + 1 => \A k \in logs : k.to <= i => k.upper <= i
  <2>. SUFFICES ASSUME u = i + 1, NEW k \in logs, k.to <= i PROVE k.upper <= i
    OBVIOUS
  <2>1. k \in Log /\ k.from < k.to
    BY DEF Tidy, Sound
  <2> QED BY <1>1, <1>2, <2>1, SMTT(60) DEF Log, Index, Limit
<1> QED BY <1>1, <1>3, <1>4 DEF Fresh

\* handle_milestone_data of an admitted milestone keeps the files tidy.
LEMMA HandleTidy ==
  ASSUME Tidy, NEW i \in Index, NEW u \in Limit, Admits(i, u), Handle(i, u)
  PROVE  Tidy' /\ Grown(i)
<1>1. ASSUME NEW l \in logs, Extends(l, i), AppendTo(l, i) PROVE Tidy' /\ Grown(i)
  BY <1>1, AppendTidy
<1>2. ASSUME NEW l \in logs, Settle(logs, {l}, part) PROVE Tidy' /\ Grown(i)
  <2>1. Tidy'
    BY <1>2, SettleTidy DEF Tidy
  <2>2. Files' \subseteq Names(logs) \cup OnDisk
    <3>1. {l} \in SUBSET logs
      OBVIOUS
    <3> QED BY <1>2, <3>1, SettleDisk
  <2> QED BY <2>1, <2>2, FilesAre DEF Grown
<1>3. ASSUME NEW l \in logs, Extends(l, i), Create(i, l.upper, {l}) PROVE Tidy' /\ Grown(i)
  BY <1>3, RolloverFresh, CreateTidy
<1>4. ASSUME ~ \E l \in logs : Extends(l, i), ~Covered(i), Create(i, u, {})
      PROVE  Tidy' /\ Grown(i)
  BY <1>4, PlainFresh, CreateTidy
<1>5. ASSUME UNCHANGED <<logs, processed, part, sealed>> PROVE Tidy' /\ Grown(i)
  BY <1>5 DEF Tidy, Sound, AllApart, Grown, Files, Names, OnDisk
<1> QED BY <1>1, <1>2, <1>3, <1>4, <1>5, Zenon DEF Handle

\* close_log_file keeps the files tidy and adds none.
LEMMA CloseTidy ==
  ASSUME Tidy, NEW m, CloseLog(m)
  PROVE  Tidy' /\ Files' \subseteq Files
<1>1. ASSUME NEW l \in logs, Settle(logs, {l}, part) PROVE Tidy' /\ Files' \subseteq Files
  <2>1. Tidy'
    BY <1>1, SettleTidy DEF Tidy
  <2>2. Files' \subseteq Names(logs) \cup OnDisk
    <3>1. {l} \in SUBSET logs
      OBVIOUS
    <3> QED BY <1>1, <3>1, SettleDisk
  <2> QED BY <2>1, <2>2, FilesAre
<1>2. ASSUME UNCHANGED <<logs, processed, part, sealed>> PROVE Tidy' /\ Files' \subseteq Files
  BY <1>2 DEF Tidy, Sound, AllApart, Files, Names, OnDisk
<1> QED BY <1>1, <1>2 DEF CloseLog

-----------------------------------------------------------------------------
(* The failures leave no overlap.                                          *)

\* Tidy files do not overlap.
LEMMA TidyApart == Tidy => NoOverlap
BY SoundApart, FilesAre DEF Tidy, NoOverlap, AllApart

\* Removing files makes no overlap.
LEMMA SubsetApart ==
  ASSUME NEW F, AllApart(F), Files' \subseteq F
  PROVE  NoOverlap'
BY DEF NoOverlap, AllApart, Apart

\* Where create_and_append may fail: at the write, at the renaming of the files
\* S \cup T of a new log that takes one milestone, or at that of full ones.
LEMMA FailCreateCases ==
  ASSUME NEW i, NEW u, NEW S, FailCreate(i, u, S)
  PROVE  LET n   == NewLog(i, u)
             all == Adjusted(logs \cup {n})
         IN \/ \E q \in {part, Written(i, Torn)} : Fail(logs, S, q)
            \/ \E line \in Outcomes(i) : \E T \in SUBSET {n} :
                 Fail(logs, S \cup T, Written(i, line))
            \/ \E line \in Outcomes(i) : \E T \in SUBSET all :
                 Fail(all, S \cup T, Written(i, line))
<1>. DEFINE n   == NewLog(i, u)
            all == Adjusted(logs \cup {n})
<1>1. CASE \E q \in {part, Written(i, Torn)} : Fail(logs, S, q)
  BY <1>1
<1>2. ASSUME NEW line \in Outcomes(i), NEW T \in {{}, {n}},
             Fail(logs, S \cup T, Written(i, line))
      PROVE  \E U \in SUBSET {n} : Fail(logs, S \cup U, Written(i, line))
  BY <1>2
<1>3. ASSUME NEW p, NEW due \in SUBSET all, NEW k \in due, NEW T \in {{}, {k}},
             Fail(all, S \cup T \cup {a \in due : a.from > k.from}, p)
      PROVE  \E U \in SUBSET all : Fail(all, S \cup U, p)
  <2>. DEFINE U == T \cup {a \in due : a.from > k.from}
  <2>1. U \in SUBSET all
    BY <1>3
  <2>2. S \cup T \cup {a \in due : a.from > k.from} = S \cup U
    OBVIOUS
  <2>. HIDE DEF U, all
  <2> QED BY <1>3, <2>1, <2>2
<1>4. {a \in Full(all) : \A l \in S : l.from # a.from} \in SUBSET all
  BY DEF Full
<1>5. CASE \E line \in Outcomes(i) : \E T \in {{}, {n}} : Fail(logs, S \cup T, Written(i, line))
  BY <1>2, <1>5
<1>6. CASE \E line \in Outcomes(i) :
             LET due == {a \in Full(all) : \A l \in S : l.from # a.from}
             IN \E k \in due : \E T \in {{}, {k}} :
                  Fail(all, S \cup T \cup {a \in due : a.from > k.from}, Written(i, line))
  <2>. DEFINE due == {a \in Full(all) : \A l \in S : l.from # a.from}
  <2>1. PICK line \in Outcomes(i), k \in due : \E T \in {{}, {k}} :
          Fail(all, S \cup T \cup {a \in due : a.from > k.from}, Written(i, line))
    BY <1>6
  <2>2. due \in SUBSET all
    BY <1>4
  <2>. HIDE DEF due, all
  <2>3. \E U \in SUBSET all : Fail(all, S \cup U, Written(i, line))
    BY <2>1, <2>2, <1>3
  <2> QED BY <2>3 DEF all
<1>7. \/ \E q \in {part, Written(i, Torn)} : Fail(logs, S, q)
      \/ \E line \in Outcomes(i) : \E T \in {{}, {n}} : Fail(logs, S \cup T, Written(i, line))
      \/ \E line \in Outcomes(i) :
            LET due == {a \in Full(all) : \A l \in S : l.from # a.from}
            IN \E k \in due : \E T \in {{}, {k}} :
                 Fail(all, S \cup T \cup {a \in due : a.from > k.from}, Written(i, line))
  BY Zenon DEF FailCreate
<1> QED BY <1>1, <1>5, <1>6, <1>7

\* A failure anywhere in create_and_append leaves no overlap.
LEMMA FailCreateApart ==
  ASSUME Tidy, NEW i \in Index, NEW u \in Limit, NEW S, Fresh(i, u, S), FailCreate(i, u, S)
  PROVE  NoOverlap' /\ pc' = "failed"
<1>. DEFINE n   == NewLog(i, u)
            all == Adjusted(logs \cup {n})
            F   == Names(logs) \cup {FileName(n)} \cup OnDisk
<1>1. /\ n \in Log /\ n.from < n.to /\ n.to <= n.upper
      /\ \A l \in logs : Apart(FileName(l), FileName(n))
      /\ \A d \in OnDisk : Apart(d, FileName(n))
      /\ \A d \in OnDisk : n.to <= d[1] => n.upper <= d[1]
  BY FreshApart
<1>2. AllApart(F)
  <2>1. AllApart(Names(logs) \cup OnDisk)
    BY SoundApart DEF Tidy
  <2>2. \A a \in Names(logs) \cup OnDisk : Apart(a, FileName(n)) /\ Apart(FileName(n), a)
    BY <1>1 DEF Names, Apart
  <2>. HIDE DEF n
  <2> QED BY <2>1, <2>2 DEF AllApart
<1>3. \A a \in all : \E l \in logs \cup {n} : a.from = l.from /\ a.to = l.to
  <2>1. Sound(logs, OnDisk)
    BY DEF Tidy
  <2>. HIDE DEF n
  <2> QED BY <1>1, <2>1, CreateSound
<1>4. \A a \in all : FileName(a) \in F
  BY <1>3 DEF FileName, Names
<1>5. S \in SUBSET logs
  BY DEF Fresh
<1>6. \/ \E q : Fail(logs, S, q)
      \/ \E p : \E T \in SUBSET {n} : Fail(logs, S \cup T, p)
      \/ \E p : \E T \in SUBSET all : Fail(all, S \cup T, p)
  BY FailCreateCases, Zenon
<1>. HIDE DEF n, all
<1>7. ASSUME NEW q, Fail(logs, S, q) PROVE NoOverlap' /\ pc' = "failed"
  <2>1. Files' \subseteq Names(logs) \cup OnDisk \cup Names(S) /\ pc' = "failed"
    BY <1>7, FailDisk
  <2>2. Files' \subseteq F
    BY <1>5, <2>1 DEF Names
  <2> QED BY <1>2, <2>1, <2>2, SubsetApart
<1>8. ASSUME NEW p, NEW T \in SUBSET {n}, Fail(logs, S \cup T, p)
      PROVE  NoOverlap' /\ pc' = "failed"
  <2>1. Files' \subseteq Names(logs) \cup OnDisk \cup Names(S \cup T) /\ pc' = "failed"
    BY <1>8, FailDisk
  <2>2. Names(S \cup T) \subseteq F
    BY <1>5 DEF Names
  <2>3. Files' \subseteq F
    BY <2>1, <2>2
  <2> QED BY <1>2, <2>1, <2>3, SubsetApart
<1>9. ASSUME NEW p, NEW T \in SUBSET all, Fail(all, S \cup T, p)
      PROVE  NoOverlap' /\ pc' = "failed"
  <2>1. Files' \subseteq Names(all) \cup OnDisk \cup Names(S \cup T) /\ pc' = "failed"
    BY <1>9, FailDisk
  <2>2. Names(all) \subseteq F /\ Names(S \cup T) \subseteq F
    BY <1>4, <1>5 DEF Names
  <2>3. Files' \subseteq F
    BY <2>1, <2>2
  <2> QED BY <1>2, <2>1, <2>3, SubsetApart
<1> QED BY <1>6, <1>7, <1>8, <1>9

\* A failure to seal logs leaves no overlap.
LEMMA FailLogsApart ==
  ASSUME Tidy, NEW S \in SUBSET logs, NEW p, Fail(logs, S, p)
  PROVE  NoOverlap' /\ pc' = "failed"
<1>1. Files' \subseteq Names(logs) \cup OnDisk \cup Names(S) /\ pc' = "failed"
  BY FailDisk
<1>2. Files' \subseteq Names(logs) \cup OnDisk
  BY <1>1 DEF Names
<1>3. AllApart(Names(logs) \cup OnDisk)
  BY SoundApart DEF Tidy
<1> QED BY <1>1, <1>2, <1>3, SubsetApart

\* A failure anywhere in handle_milestone_data leaves no overlap.
LEMMA FailHandleApart ==
  ASSUME Tidy, NEW i \in Index, NEW u \in Limit, Admits(i, u), FailHandle(i, u)
  PROVE  NoOverlap' /\ pc' = "failed"
<1>1. ASSUME NEW S \in SUBSET logs, NEW p, Fail(logs, S, p) PROVE NoOverlap' /\ pc' = "failed"
  BY <1>1, FailLogsApart
<1>2. ASSUME NEW l \in logs, Extends(l, i), NEW T \in {{}, {Extended(l, i)}}, NEW p,
             Fail((logs \ {l}) \cup {Extended(l, i)}, T, p)
      PROVE  NoOverlap' /\ pc' = "failed"
  <2>. DEFINE L == (logs \ {l}) \cup {Extended(l, i)}
  <2>1. Sound(L, OnDisk)
    BY <1>2, AppendTidy
  <2>2. AllApart(Names(L) \cup OnDisk)
    BY <2>1, SoundApart
  <2>3. Files' \subseteq Names(L) \cup OnDisk \cup Names(T) /\ pc' = "failed"
    BY <1>2, FailDisk
  <2>4. Names(T) \subseteq Names(L)
    BY <1>2 DEF Names
  <2> QED BY <2>2, <2>3, <2>4, SubsetApart
<1>3. ASSUME NEW l \in logs, Extends(l, i), FailCreate(i, l.upper, {l})
      PROVE  NoOverlap' /\ pc' = "failed"
  BY <1>3, RolloverFresh, FailCreateApart
<1>4. ASSUME ~ \E l \in logs : Extends(l, i), ~Covered(i), FailCreate(i, u, {})
      PROVE  NoOverlap' /\ pc' = "failed"
  BY <1>4, PlainFresh, FailCreateApart
<1>5. {} \in SUBSET logs /\ \A l \in logs : \A T \in {{}, {l}} : T \in SUBSET logs
  OBVIOUS
<1> QED BY <1>1, <1>2, <1>3, <1>4, <1>5, Zenon DEF FailHandle

\* A failure in close_log_file leaves no overlap.
LEMMA FailCloseApart ==
  ASSUME Tidy, NEW m, FailClose(m)
  PROVE  NoOverlap' /\ pc' = "failed"
BY FailLogsApart DEF FailClose

-----------------------------------------------------------------------------
(* What the event loop hands to the handlers is admitted.                  *)

\* Data at the end of the incoming flow, or behind a gap of it.
LEMMA AheadAdmits ==
  ASSUME Tidy, Bounded(next), next \in Nat, NEW i \in Index, next <= i
  PROVE  Admits(i, NoLimit) /\ NoLimit \in Limit
<1>1. ASSUME NEW l \in logs PROVE l.to <= i
  <2>1. l.to <= next
    <3>1. FileName(l) \in Files
      BY DEF Files, Names
    <3>2. FileName(l)[2] <= next
      BY <3>1 DEF Bounded
    <3> QED BY <3>2 DEF FileName
  <2> QED BY <2>1 DEF Tidy, Sound, Log, Index, Limit
<1>2. ASSUME NEW d \in OnDisk PROVE d[2] <= i
  <2>1. d[2] <= next
    BY DEF Bounded, Files, Names
  <2> QED BY <2>1 DEF Tidy, Sound, Name, Index, Limit
<1> QED BY <1>1, <1>2 DEF Admits, Index, Limit

\* Data of a gap, as the syncer promises it, and data that is sent once more.
LEMMA BehindAdmits ==
  ASSUME Tidy, NEW i \in Index, NEW u \in Limit, Resent(i) \/ GapFree(i, u)
  PROVE  Admits(i, u)
<1>1. CASE Resent(i)
  <2>1. PICK n \in OnDisk : Within(i, n)
    BY <1>1 DEF Resent
  <2>2. Covered(i)
    BY <2>1 DEF Covered, Tidy
  <2>3. ASSUME NEW l \in logs, Extends(l, i) PROVE FALSE
    <3>1. n[1] \in Int /\ n[2] \in Int /\ n[1] <= i /\ i < n[2]
      BY <2>1 DEF Tidy, Sound, Name, Index, Limit, Within
    <3>2. l.to = i /\ i < l.upper /\ l.from < l.to /\ l \in Log
      BY <2>3 DEF Extends, Tidy, Sound
    <3>3. l.to <= n[1] \/ n[2] <= l.from
      BY DEF Tidy, Sound, Apart, FileName
    <3>4. l.to <= n[1] => l.upper <= n[1]
      BY DEF Tidy, Sound
    <3> QED BY <3>1, <3>2, <3>3, <3>4 DEF Log, Index, Limit
  <2> QED BY <2>2, <2>3 DEF Admits
<1>2. CASE GapFree(i, u)
  <2>1. ASSUME NEW l \in logs PROVE l.to <= i \/ i < l.from
    <3>1. l.to = i \/ l.upper <= i \/ i < l.from
      BY <1>2 DEF GapFree
    <3>2. l.to <= l.upper /\ l \in Log
      BY DEF Tidy, Sound
    <3> QED BY <3>1, <3>2 DEF Log, Index, Limit
  <2> QED BY <1>2, <2>1 DEF Admits, GapFree
<1> QED BY <1>1, <1>2

-----------------------------------------------------------------------------
(* The invariant.                                                          *)

\* A milestone below the new `next` lets no file reach past it.
LEMMA GrownBounded ==
  ASSUME Tidy, Bounded(next), next \in Nat, next' \in Nat, next <= next',
         NEW i \in Index, i < next', Grown(i)
  PROVE  Bounded(next)'
<1>1. \A f \in Files : f[2] \in Int
  BY DEF Files, Names, FileName, OnDisk, Tidy, Sound, Log, Name, Limit
<1>2. ASSUME NEW f \in Files' PROVE f[2] <= next'
  <2>1. CASE f \in Files
    BY <1>1, <2>1 DEF Bounded
  <2>2. CASE f[2] = i + 1
    BY <2>2 DEF Index
  <2> QED BY <2>1, <2>2 DEF Grown
<1> QED BY <1>2 DEF Bounded

\* Steps of the event loop that touch no file keep them tidy.
LEMMA SameTidy ==
  ASSUME UNCHANGED <<logs, processed, part, sealed>>
  PROVE  Files' = Files /\ (Tidy => Tidy')
BY DEF Files, Names, OnDisk, Tidy, Sound, AllApart

\* A step that leaves the invariant's conditions on the files in place.
Kept == Tidy' /\ Bounded(next)' /\ Working /\ pc' # "waiting"

\* A step that keeps the conditions on the files keeps the invariant.
LEMMA KeptInv ==
  ASSUME Kept, pc' = "skipping" => \A j \in DOMAIN heap' : next' <= j
  PROVE  ArchiverInv'
<1>1. NoOverlap'
  <2>1. (Files = Names(logs) \cup OnDisk)'
    BY DEF Files, Names
  <2>2. AllApart(Names(logs') \cup OnDisk')
    <3>1. Sound(logs', OnDisk')
      BY DEF Kept, Tidy, Sound, AllApart
    <3> QED BY <3>1, SoundApart
  <2>3. Names(logs') \cup OnDisk' = Files'
    BY <2>1 DEF Names
  <2> QED BY <2>2, <2>3 DEF NoOverlap, AllApart, Apart
<1> QED BY <1>1 DEF Kept, ArchiverInv

\* After a failure NoOverlap is all the invariant asks for.
LEMMA FailedInv ==
  ASSUME NoOverlap', pc' \in {"failed", "stopped"}
  PROVE  ArchiverInv'
BY DEF ArchiverInv, Working

\* The archiver starts without a file.
LEMMA InitInv == Init => ArchiverInv
<1>. SUFFICES ASSUME Init PROVE ArchiverInv
  OBVIOUS
<1>1. OnDisk = {} /\ logs = {} /\ Files = {}
  BY DEF Init, OnDisk, Files, Names
<1>2. Tidy
  BY <1>1 DEF Tidy, Sound, AllApart
<1>3. DOMAIN heap = {}
  BY DEF Init, EmptyBag, SetToBag
<1> QED BY <1>1, <1>2, <1>3 DEF Init, ArchiverInv, NoOverlap, AllApart, Bounded

\* Every step keeps the inductive invariant: one case for each action.
LEMMA NextInv == TypeOK /\ TypeOK' /\ ArchiverInv /\ [Next]_vars => ArchiverInv'
<1>. SUFFICES ASSUME TypeOK, TypeOK', ArchiverInv, [Next]_vars PROVE ArchiverInv'
  OBVIOUS
<1>0. /\ next \in Nat /\ next' \in Nat /\ DOMAIN heap \subseteq Index
      /\ Working => Tidy /\ Bounded(next)
      /\ NoLimit \in Limit
      /\ \A i \in Index : i \in Nat /\ i + 1 \in Nat
  BY DEF TypeOK, ArchiverInv, Index, Limit
<1>1. ASSUME NEW n \in Index, Start(n) PROVE ArchiverInv'
  <2>1. pc = "waiting" /\ pc' = "running" /\ UNCHANGED <<logs, processed, part, sealed>>
    BY <1>1 DEF Start
  <2>2. Files' = {} /\ Tidy'
    BY <1>0, <2>1, SameTidy DEF ArchiverInv, Working
  <2>3. Kept
    BY <2>1, <2>2 DEF Kept, Working, Bounded
  <2> QED BY <2>1, <2>3, KeptInv
<1>2. ASSUME NEW m \in Index, Close(m) PROVE ArchiverInv'
  <2>1. pc = "running" /\ CloseLog(m) /\ UNCHANGED <<pc, next, heap>>
    BY <1>2 DEF Close
  <2>2. Tidy' /\ Files' \subseteq Files /\ Working /\ Bounded(next)
    BY <1>0, <2>1, CloseTidy DEF Working
  <2>3. Kept
    BY <2>1, <2>2 DEF Kept, Bounded
  <2> QED BY <2>1, <2>3, KeptInv
<1>3. ASSUME NEW m \in Index, CloseFails(m) PROVE ArchiverInv'
  <2>1. Tidy /\ FailClose(m)
    BY <1>0, <1>3 DEF CloseFails, Working
  <2> QED BY <2>1, FailCloseApart, FailedInv
<1>4. ASSUME NEW i \in Index, SyncerAtNext(i) PROVE ArchiverInv'
  <2>1. /\ pc = "running" /\ pc' = "running" /\ i = next /\ next' = next + 1
        /\ Handle(i, NoLimit)
    BY <1>4 DEF SyncerAtNext
  <2>2. Tidy /\ Bounded(next)
    BY <1>0, <2>1 DEF Working
  <2>3. Tidy' /\ Grown(i)
    BY <1>0, <2>1, <2>2, AheadAdmits, HandleTidy
  <2>4. Kept
    BY <1>0, <2>1, <2>2, <2>3, GrownBounded DEF Kept, Working
  <2> QED BY <2>1, <2>4, KeptInv
<1>5. ASSUME NEW i \in Index, AtNextFails(i) PROVE ArchiverInv'
  <2>1. Tidy /\ Admits(i, NoLimit) /\ FailHandle(i, NoLimit)
    BY <1>0, <1>5, AheadAdmits DEF AtNextFails, Working
  <2> QED BY <1>0, <2>1, FailHandleApart, FailedInv
<1>6. ASSUME UNCHANGED <<logs, processed, part, sealed, next>>, Working, pc' # "waiting",
             pc' # "skipping"
      PROVE  ArchiverInv'
  <2>1. Kept
    BY <1>0, <1>6, SameTidy DEF Kept, Bounded
  <2> QED BY <1>6, <2>1, KeptInv
<1>7. ASSUME NEW i \in Index, SyncerAhead(i) PROVE ArchiverInv'
  BY <1>6, <1>7 DEF SyncerAhead, Working
<1>8. ASSUME NEW i \in Index, Incoming(i) PROVE ArchiverInv'
  BY <1>6, <1>8 DEF Incoming, Working
<1>9. ASSUME NEW i \in Index, DrainNext(i) PROVE ArchiverInv'
  <2>1. /\ pc = "draining" /\ pc' = "draining" /\ i = next /\ next' = next + 1
        /\ Handle(i, NoLimit)
    BY <1>9 DEF DrainNext
  <2>2. Tidy /\ Bounded(next)
    BY <1>0, <2>1 DEF Working
  <2>3. Tidy' /\ Grown(i)
    BY <1>0, <2>1, <2>2, AheadAdmits, HandleTidy
  <2>4. Kept
    BY <1>0, <2>1, <2>2, <2>3, GrownBounded DEF Kept, Working
  <2> QED BY <2>1, <2>4, KeptInv
<1>10. ASSUME NEW i \in Index, DrainGap(i) PROVE ArchiverInv'
  <2>1. /\ pc = "draining" /\ CloseLog(next) /\ pc' = "skipping" /\ UNCHANGED <<next, heap>>
        /\ i > next /\ \A j \in DOMAIN heap : i <= j
    BY <1>10 DEF DrainGap, Lowest, BagToSet
  <2>2. Tidy' /\ Files' \subseteq Files /\ Bounded(next) /\ Working
    BY <1>0, <2>1, CloseTidy DEF Working
  <2>3. Kept
    BY <2>1, <2>2 DEF Kept, Bounded
  <2>4. \A j \in DOMAIN heap' : next' <= j
    BY <1>0, <2>1 DEF Index
  <2> QED BY <2>3, <2>4, KeptInv
<1>11. ASSUME NEW i \in Index, SkipGap(i) PROVE ArchiverInv'
  <2>1. /\ pc = "skipping" /\ pc' = "draining" /\ next' = i + 1 /\ i \in DOMAIN heap
        /\ Handle(i, NoLimit)
    BY <1>11 DEF SkipGap, Lowest, BagIn, BagToSet
  <2>2. Tidy /\ Bounded(next) /\ next <= i
    BY <1>0, <2>1 DEF Working, ArchiverInv
  <2>3. Tidy' /\ Grown(i)
    BY <1>0, <2>1, <2>2, AheadAdmits, HandleTidy
  <2>4. Kept
    BY <1>0, <2>1, <2>2, <2>3, GrownBounded DEF Kept, Working
  <2> QED BY <2>1, <2>4, KeptInv
<1>12. ASSUME NEW i \in Index, DrainStale(i) PROVE ArchiverInv'
  BY <1>6, <1>12 DEF DrainStale, Working
<1>13. ASSUME NEW i \in Index, DrainFails(i) PROVE ArchiverInv'
  <2>1. CASE pc = "draining" /\ i = next /\ FailHandle(i, NoLimit)
    <3>1. Tidy /\ Admits(i, NoLimit)
      BY <1>0, <2>1, AheadAdmits DEF Working
    <3> QED BY <1>0, <2>1, <3>1, FailHandleApart, FailedInv
  <2>2. CASE pc = "draining" /\ FailClose(next)
    <3>1. Tidy
      BY <1>0, <2>2 DEF Working
    <3> QED BY <2>2, <3>1, FailCloseApart, FailedInv
  <2>3. CASE pc = "skipping" /\ FailHandle(i, NoLimit)
    <3>1. Tidy /\ Bounded(next) /\ next <= i
      BY <1>0, <1>13, <2>3 DEF Working, ArchiverInv, DrainFails, Lowest, BagIn, BagToSet
    <3>2. Admits(i, NoLimit)
      BY <1>0, <3>1, AheadAdmits
    <3> QED BY <1>0, <2>3, <3>1, <3>2, FailHandleApart, FailedInv
  <2> QED BY <1>13, <2>1, <2>2, <2>3 DEF DrainFails
<1>14. ASSUME DrainEnd PROVE ArchiverInv'
  BY <1>6, <1>14 DEF DrainEnd, Working
<1>15. ASSUME Terminate PROVE ArchiverInv'
  <2>1. PICK S \in SUBSET logs : sealed' = Renamed(part, S) /\ logs' = logs /\ pc' = "stopped"
    BY <1>15 DEF Terminate
  <2>2. OnDisk' \subseteq OnDisk \cup Names(S)
    BY <2>1 DEF OnDisk, Renamed, Names
  <2>3. Files' = Names(logs') \cup OnDisk'
    BY DEF Files, Names
  <2>4. Files' \subseteq Files
    BY <2>1, <2>2, <2>3, FilesAre DEF Names
  <2>5. AllApart(Files)
    BY DEF ArchiverInv, NoOverlap, AllApart
  <2> QED BY <2>1, <2>4, <2>5, SubsetApart, FailedInv
<1>16. ASSUME NEW i \in Index, NEW u \in Limit, Resent(i) \/ GapFree(i, u), SyncerBehind(i, u)
       PROVE  ArchiverInv'
  <2>1. pc = "running" /\ i < next /\ Handle(i, u) /\ UNCHANGED <<pc, next, heap>>
    BY <1>16 DEF SyncerBehind
  <2>2. Tidy /\ Bounded(next)
    BY <1>0, <2>1 DEF Working
  <2>3. Tidy' /\ Grown(i)
    BY <1>16, <2>1, <2>2, BehindAdmits, HandleTidy
  <2>4. Kept
    BY <1>0, <2>1, <2>2, <2>3, GrownBounded DEF Kept, Working
  <2> QED BY <2>1, <2>4, KeptInv
<1>17. ASSUME NEW i \in Index, NEW u \in Limit, Resent(i) \/ GapFree(i, u), BehindFails(i, u)
       PROVE  ArchiverInv'
  <2>1. Tidy /\ FailHandle(i, u)
    BY <1>0, <1>17 DEF BehindFails, Working
  <2> QED BY <1>17, <2>1, BehindAdmits, FailHandleApart, FailedInv
<1>18. ASSUME UNCHANGED vars PROVE ArchiverInv'
  <2>1. Files' = Files /\ (Tidy => Tidy')
    BY <1>18, SameTidy DEF vars
  <2> QED BY <1>18, <2>1 DEF vars, ArchiverInv, NoOverlap, Apart, Bounded, Working
<1> QED BY <1>1, <1>2, <1>3, <1>4, <1>5, <1>7, <1>8, <1>9, <1>10, <1>11, <1>12, <1>13,
           <1>14, <1>15, <1>16, <1>17, <1>18, Zenon DEF Next, Step, Drain, Behind

\* The inductive invariant holds for every number of milestones, every size of
\* lines and files, any bound on the heap and wherever the disk fails.
THEOREM Invariance == Spec => []ArchiverInv
<1>1. TypeOK /\ ArchiverInv /\ [Next]_vars => TypeOK' /\ ArchiverInv'
  BY NextType, NextInv
<1>2. Init => TypeOK /\ ArchiverInv
  BY InitType, InitInv
<1> QED BY <1>1, <1>2, PTL DEF Spec

\* No milestone belongs to two log files, in progress or sealed.
THEOREM FilesApart == Spec => []NoOverlap
<1>1. ArchiverInv => NoOverlap
  BY DEF ArchiverInv
<1> QED BY <1>1, Invariance, PTL

\* While the archiver runs, nothing lies in the room of a log in progress.
THEOREM RoomKept == Spec => []RoomAhead
<1>1. ArchiverInv => RoomAhead
  <2>. SUFFICES ASSUME ArchiverInv, pc \in {"running", "draining"}, NEW l \in logs
                PROVE  /\ l.to < l.upper
                       /\ \A n \in Files \ {FileName(l)} : l.to <= n[1] => l.upper <= n[1]
    BY DEF RoomAhead
  <2>1. Tidy
    BY DEF ArchiverInv, Working
  <2>2. \A n \in Files : n \in OnDisk \/ \E k \in logs : n = FileName(k)
    BY DEF Files, Names
  <2> QED BY <2>1, <2>2 DEF Tidy, Sound, FileName
<1> QED BY <1>1, Invariance, PTL

\* A step never takes the incoming flow past a milestone that waits in the heap.
THEOREM NothingJumped == Spec => JumpsNothing
<1>1. TypeOK /\ ArchiverInv /\ [Next]_vars
        => [\A j \in BagToSet(heap) : next <= j => next' <= j + 1]_vars
  <2>. SUFFICES ASSUME TypeOK, ArchiverInv, Next, NEW j \in DOMAIN heap, next <= j
                PROVE  next' <= j + 1
    BY DEF BagToSet
  <2>1. j \in Nat /\ next \in Nat /\ pc # "waiting"
    BY DEF TypeOK, ArchiverInv, Index
  <2>2. CASE next' = next \/ next' = next + 1
    BY <2>1, <2>2
  <2>3. ASSUME NEW i \in Index, SkipGap(i) PROVE next' <= j + 1
    BY <2>1, <2>3 DEF SkipGap, Lowest, BagToSet, Index
  <2>5. ASSUME NEW i \in Index, NEW u, FailHandle(i, u) PROVE next' = next
    BY <2>5, Zenon DEF FailHandle, FailCreate, Fail
  <2>6. ASSUME NEW m, FailClose(m) PROVE next' = next
    BY <2>6, Zenon DEF FailClose, Fail
  <2>7. ASSUME NEW i \in Index, SyncerAtNext(i) \/ DrainNext(i) PROVE next' = next + 1
    BY <2>7 DEF SyncerAtNext, DrainNext
  <2>8. ASSUME NEW i \in Index, \/ SyncerAhead(i) \/ AtNextFails(i) \/ Incoming(i)
                               \/ DrainGap(i) \/ DrainStale(i) \/ DrainFails(i)
                               \/ Close(i) \/ CloseFails(i)
        PROVE  next' = next
    BY <2>5, <2>6, <2>8, Zenon DEF SyncerAhead, AtNextFails, Incoming, DrainGap, DrainStale,
       DrainFails, Close, CloseFails
  <2>9. ASSUME NEW i \in Index, NEW u \in Limit, Behind(i, u) PROVE next' = next
    BY <2>5, <2>9, Zenon DEF Behind, SyncerBehind, BehindFails
  <2>10. ASSUME DrainEnd \/ Terminate PROVE next' = next
    BY <2>10 DEF DrainEnd, Terminate
  <2>11. ASSUME NEW n \in Index, Start(n) PROVE FALSE
    BY <2>1, <2>11 DEF Start
  <2>12. \/ \E i \in Index : SkipGap(i)
         \/ next' = next \/ next' = next + 1
    BY <2>7, <2>8, <2>9, <2>10, <2>11, Zenon DEF Next, Step, Drain
  <2> QED BY <2>2, <2>3, <2>12
<1> QED BY <1>1, TypeCorrect, Invariance, PTL DEF Spec, JumpsNothing


-----------------------------------------------------------------------------
(* A sealed file holds the milestones of its name.  While the archiver     *)
(* works, the file of every log in progress holds the run from .. to-1,    *)
(* but for its last line, when that got lost, and no other file is in      *)
(* progress.  After a failure the file of a log may be gone or end in a    *)
(* torn line, which Terminate seals.                                       *)

RunOf(l) == Run(FileName(l))

\* What may be in the file that is named, or is to be named, n.
LinesOf(n) == {Run(n)} \cup (IF DiskFails THEN {LastLost(n)} ELSE {})

DiskExact == \A n \in OnDisk : sealed[n] \in LinesOf(n)
Whole(L, p) == \A l \in L : p[l.from] \in LinesOf(FileName(l))
NoOther(L, p) == \A f \in Index : p[f] # <<>> => \E l \in L : l.from = f
OneEach(L) == \A k, l \in L : k.from = l.from => k = l
TornBehind(n, c) == DiskFails /\ c = Append(Run(n), Torn)
Left(l, c) == c = <<>> \/ c \in LinesOf(FileName(l)) \/ TornBehind(FileName(l), c)

Exact == DiskExact /\ Whole(logs, part) /\ NoOther(logs, part)
Remains == DiskExact /\ \A l \in logs : Left(l, part[l.from])

Contents ==
  /\ Working => Exact
  /\ pc = "failed" => Remains
  /\ pc = "stopped" =>
       \A n \in OnDisk : sealed[n] \in LinesOf(n) \/ TornBehind(n, sealed[n])

\* A run is a sequence, and takes the next milestone at its end.
LEMMA RunGrows ==
  ASSUME NEW f \in Index, NEW t \in Nat, f <= t
  PROVE  /\ Run(<<f, t>>) \in Seq(Nat)
         /\ Append(Run(<<f, t>>), t) = Run(<<f, t + 1>>)
         /\ Append(Run(<<f, t>>), Torn) = LastLost(<<f, t + 1>>)
<1>. DEFINE n == t - f
            r == [k \in 1 .. n |-> f + k - 1]
            s == [k \in 1 .. n + 1 |-> f + k - 1]
<1>1. f \in Nat /\ n \in Nat /\ (t + 1) - f = n + 1 /\ f + (n + 1) - 1 = t
  BY DEF Index
<1>2. Run(<<f, t>>) = r /\ Run(<<f, t + 1>>) = s
  BY <1>1 DEF Run
<1>. HIDE DEF n
<1>3. r \in Seq(Nat) /\ Len(r) = n
  BY <1>1
<1>4. Append(r, t) = s
  BY <1>1, <1>3
<1>5. Append(r, Torn) = [s EXCEPT ![n + 1] = Torn]
  BY <1>1, <1>3
<1>6. LastLost(<<f, t + 1>>) = [s EXCEPT ![n + 1] = Torn]
  BY <1>1, <1>2 DEF LastLost
<1> QED BY <1>2, <1>3, <1>4, <1>5, <1>6

\* An append makes of a run what may be in the file of the next run.
LEMMA RunTakes ==
  ASSUME NEW f \in Index, NEW i \in Index, f <= i, NEW line \in Outcomes(i)
  PROVE  Append(Run(<<f, i>>), line) \in LinesOf(<<f, i + 1>>)
<1>1. i \in Nat
  BY DEF Index
<1> QED BY <1>1, RunGrows DEF Outcomes, LinesOf

\* The run of no milestone is empty.
LEMMA RunNone ==
  ASSUME NEW i \in Index
  PROVE  Run(<<i, i>>) = <<>>
BY DEF Run, Index

\* A file that has lost its last line is broken.
LEMMA NotBroken ==
  ASSUME NEW l \in Log, l.from < l.to, part[l.from] \in LinesOf(FileName(l)), ~Broken(l)
  PROVE  part[l.from] = RunOf(l)
<1>. SUFFICES ASSUME part[l.from] = LastLost(FileName(l)) PROVE Broken(l)
  BY DEF LinesOf, RunOf
<1>. DEFINE t == l.to - 1
            r == Run(<<l.from, t>>)
<1>1. l.from \in Index /\ t \in Nat /\ l.from <= t /\ t + 1 = l.to
  BY DEF Log, Index, Limit
<1>. HIDE DEF t
<1>2. r \in Seq(Nat) /\ Append(r, Torn) = LastLost(<<l.from, t + 1>>)
  BY <1>1, RunGrows
<1>. HIDE DEF r
<1>3. part[l.from] = Append(r, Torn)
  BY <1>1, <1>2 DEF FileName
<1>4. Append(r, Torn) # <<>> /\ Append(r, Torn)[Len(Append(r, Torn))] = Torn
  BY <1>2
<1> QED BY <1>3, <1>4 DEF Broken

\* Sound logs start at milestones of their own.
LEMMA SoundOneEach ==
  ASSUME NEW L, NEW D, Sound(L, D)
  PROVE  OneEach(L)
<1>. SUFFICES ASSUME NEW k \in L, NEW l \in L, k.from = l.from, k # l PROVE FALSE
  BY DEF OneEach
<1>1. k \in Log /\ l \in Log /\ k.from < k.to /\ l.from < l.to
  BY DEF Sound
<1>2. k.to <= l.from \/ l.to <= k.from
  BY DEF Sound, Apart, FileName
<1> QED BY <1>1, <1>2 DEF Log, Index, Limit

\* Sealing whole files leaves the disk exact.
LEMMA RenamedExact ==
  ASSUME DiskExact, NEW S \in SUBSET Log, NEW p, Whole(S, p), sealed' = Renamed(p, S)
  PROVE  DiskExact'
<1>. SUFFICES ASSUME NEW n \in Name, sealed'[n] # <<>> PROVE sealed'[n] \in LinesOf(n)
  BY DEF DiskExact, OnDisk, LinesOf, LastLost, Run
<1>1. CASE \E l \in S : FileName(l) = n
  <2>1. PICK l \in S : FileName(l) = n
    BY <1>1
  <2>2. sealed'[n] = p[l.from]
    BY <1>1, <2>1 DEF Renamed, FileName
  <2>3. p[l.from] \in LinesOf(n)
    BY <2>1 DEF Whole
  <2> QED BY <2>2, <2>3
<1>2. CASE ~ \E l \in S : FileName(l) = n
  <2>1. sealed'[n] = sealed[n]
    BY <1>2 DEF Renamed
  <2> QED BY <2>1 DEF DiskExact, OnDisk
<1> QED BY <1>1, <1>2

\* Sealing some of the logs, all of which are whole, keeps everything exact.
LEMMA SettleExact ==
  ASSUME DiskExact, NEW L \in SUBSET Log, NEW S \in SUBSET L, NEW p,
         Settle(L, S, p), OneEach(L), Whole(L, p), NoOther(L, p)
  PROVE  Exact'
<1>1. logs' = L \ S /\ part' = Parts(p, S) /\ sealed' = Renamed(p, S)
  BY DEF Settle
<1>2. DiskExact'
  BY <1>1, RenamedExact DEF Whole
<1>3. ASSUME NEW l \in L \ S PROVE part'[l.from] \in LinesOf(FileName(l))
  <2>1. l.from \in Index /\ ~ \E k \in S : k.from = l.from
    BY DEF OneEach, Log
  <2> QED BY <1>1, <2>1 DEF Parts, Whole
<1>4. ASSUME NEW f \in Index, part'[f] # <<>> PROVE \E l \in L \ S : l.from = f
  <2>1. (~ \E k \in S : k.from = f) /\ p[f] # <<>>
    BY <1>1, <1>4 DEF Parts
  <2> QED BY <2>1 DEF NoOther
<1>5. Whole(logs, part)' /\ NoOther(logs, part)'
  BY <1>1, <1>3, <1>4 DEF Whole, NoOther, LinesOf, LastLost, FileName, Run
<1> QED BY <1>2, <1>5 DEF Exact

\* A handler that gives up after it has sealed whole files.
LEMMA FailRemains ==
  ASSUME DiskExact, NEW L \in SUBSET Log, NEW S \in SUBSET Log, NEW p,
         Fail(L, S, p), Whole(S, p), \A l \in L : Left(l, p[l.from])
  PROVE  Remains' /\ pc' = "failed"
<1>1. logs' = L /\ part' = Parts(p, S) /\ sealed' = Renamed(p, S) /\ pc' = "failed"
  BY DEF Fail
<1>2. DiskExact'
  BY <1>1, RenamedExact
<1>3. ASSUME NEW l \in L PROVE Left(l, part'[l.from])
  <2>1. part'[l.from] = <<>> \/ part'[l.from] = p[l.from]
    BY <1>1 DEF Parts, Log
  <2> QED BY <2>1 DEF Left
<1>4. \A l \in logs' : Left(l, part'[l.from])
  BY <1>1, <1>3
<1>5. (\A l \in logs : Left(l, part[l.from]))'
  BY <1>4 DEF Left, TornBehind, LinesOf, LastLost, FileName, Run
<1> QED BY <1>1, <1>2, <1>5 DEF Remains

\* Whole files are among what may be left of them.
LEMMA WholeLeft ==
  ASSUME NEW L, NEW p, Whole(L, p)
  PROVE  \A l \in L : Left(l, p[l.from])
BY DEF Whole, Left

\* The files when milestone i has been appended to the log that ends there.
LEMMA AppendLines ==
  ASSUME Tidy, Exact, DiskOK, NEW i \in Index, NEW l \in logs, Extends(l, i), ~Broken(l),
         NEW L, L = (logs \ {l}) \cup {Extended(l, i)},
         NEW line \in Outcomes(i), NEW p, p = Written(l.from, line)
  PROVE  L \in SUBSET Log /\ OneEach(L) /\ Whole(L, p) /\ NoOther(L, p)
<1>. DEFINE m == Extended(l, i)
<1>1. l \in Log /\ l.to = i /\ l.to < l.upper /\ l.from < l.to
  BY DEF Tidy, Sound, Extends
<1>2. m \in Log /\ m.from = l.from /\ m.to = l.to + 1
  BY <1>1, ExtendedType
<1>3. Sound(L, OnDisk)
  BY AppendTidy
<1>4. L \in SUBSET Log /\ OneEach(L)
  BY <1>3, SoundOneEach DEF Sound
<1>5. L = (logs \ {l}) \cup {m}
  OBVIOUS
<1>. HIDE DEF m
<1>6. l.from \in Index /\ i \in Nat /\ l.from <= i
  BY <1>1 DEF Log, Index, Limit
<1>7. p[l.from] = Append(part[l.from], line) /\ \A f \in Index \ {l.from} : p[f] = part[f]
  BY <1>6 DEF Written, DiskOK
<1>8. p[m.from] \in LinesOf(FileName(m))
  <2>1. part[l.from] = Run(<<l.from, i>>)
    BY <1>1, NotBroken DEF Exact, Whole, RunOf, FileName
  <2>2. FileName(m) = <<l.from, i + 1>>
    BY <1>1, <1>2 DEF FileName
  <2>3. Append(Run(<<l.from, i>>), line) \in LinesOf(<<l.from, i + 1>>)
    BY <1>6, RunTakes
  <2> QED BY <1>2, <1>7, <2>1, <2>2, <2>3
<1>9. ASSUME NEW k \in logs \ {l} PROVE p[k.from] \in LinesOf(FileName(k))
  <2>1. k.from # l.from /\ k.from \in Index
    BY SoundOneEach DEF Tidy, Sound, OneEach, Log
  <2> QED BY <1>7, <2>1 DEF Exact, Whole
<1>10. Whole(L, p)
  BY <1>5, <1>8, <1>9 DEF Whole
<1>11. ASSUME NEW f \in Index, p[f] # <<>> PROVE \E k \in L : k.from = f
  <2>1. CASE f = l.from
    BY <1>2, <1>5, <2>1
  <2>2. CASE f # l.from
    BY <1>5, <1>7, <1>11, <2>2 DEF Exact, NoOther
  <2> QED BY <2>1, <2>2
<1> QED BY <1>4, <1>10, <1>11 DEF NoOther

\* The files when a fresh milestone i has got a file of its own.
LEMMA CreateLines ==
  ASSUME Tidy, Exact, DiskOK, NEW i \in Index, NEW u \in Limit, NEW S, Fresh(i, u, S),
         NEW M, M = logs \cup {NewLog(i, u)},
         NEW line \in Outcomes(i), NEW p, p = Written(i, line)
  PROVE  /\ M \in SUBSET Log /\ OneEach(M) /\ Whole(M, p) /\ NoOther(M, p)
         /\ Adjusted(M) \in SUBSET Log /\ OneEach(Adjusted(M))
         /\ Whole(Adjusted(M), p) /\ NoOther(Adjusted(M), p)
         /\ \A l \in logs : l.from # i
<1>. DEFINE n   == NewLog(i, u)
            all == Adjusted(M)
<1>1. /\ n \in Log /\ n.from = i /\ n.to = i + 1 /\ n.upper = u
      /\ n.from < n.to /\ n.to <= n.upper
      /\ FileName(n) = <<i, i + 1>>
      /\ \A l \in logs : Apart(FileName(l), FileName(n))
      /\ \A d \in OnDisk : Apart(d, FileName(n))
      /\ \A d \in OnDisk : n.to <= d[1] => n.upper <= d[1]
  BY FreshApart
<1>2. M = logs \cup {n}
  OBVIOUS
<1>. HIDE DEF n
<1>3. Sound(logs, OnDisk) /\ OneEach(logs) /\ logs \in SUBSET Log
  BY SoundOneEach DEF Tidy, Sound
<1>4. ASSUME NEW l \in logs PROVE l.from # i
  <2>1. l \in Log /\ l.from < l.to /\ (l.to <= i \/ i + 1 <= l.from)
    BY <1>1 DEF Tidy, Sound, Apart, FileName
  <2> QED BY <2>1 DEF Log, Index, Limit
<1>5. M \in SUBSET Log /\ OneEach(M)
  BY <1>1, <1>2, <1>3, <1>4 DEF OneEach
<1>6. part[i] = <<>>
  BY <1>4 DEF Exact, NoOther
<1>7. p[i] = Append(part[i], line) /\ \A f \in Index \ {i} : p[f] = part[f]
  BY DEF Written, DiskOK
<1>8. p[n.from] \in LinesOf(FileName(n))
  <2>1. part[i] = Run(<<i, i>>) /\ i <= i
    BY <1>6, RunNone DEF Index
  <2> QED BY <1>1, <1>7, <2>1, RunTakes
<1>9. \A l \in logs : p[l.from] \in LinesOf(FileName(l))
  BY <1>3, <1>4, <1>7 DEF Exact, Whole, Log
<1>10. Whole(M, p)
  BY <1>2, <1>8, <1>9 DEF Whole
<1>11. NoOther(M, p)
  BY <1>1, <1>2, <1>7 DEF Exact, NoOther
<1>12. Sound(all, OnDisk) /\ \A a \in all : \E l \in M : a.from = l.from /\ a.to = l.to
  BY <1>1, <1>2, <1>3, CreateSound
<1>13. all \in SUBSET Log /\ OneEach(all)
  BY <1>12, SoundOneEach DEF Sound
<1>14. Whole(all, p)
  BY <1>10, <1>12, ZenonT(60) DEF Whole, FileName
<1>15. \A l \in M : \E a \in all : a.from = l.from
  <2>. SUFFICES ASSUME NEW l \in M PROVE \E a \in all : a.from = l.from
    OBVIOUS
  <2>1. [l EXCEPT !.upper = NewUpper(l, M)] \in all
    BY DEF Adjusted
  <2>2. [l EXCEPT !.upper = NewUpper(l, M)].from = l.from
    BY <1>5 DEF Log
  <2>. HIDE DEF all
  <2> QED BY <2>1, <2>2
<1>. HIDE DEF all
<1>16. NoOther(all, p)
  BY <1>11, <1>15 DEF NoOther
<1> QED BY <1>4, <1>5, <1>10, <1>11, <1>13, <1>14, <1>16 DEF all

\* create_and_append of a fresh milestone leaves whole files.
LEMMA CreateExact ==
  ASSUME Tidy, Exact, DiskOK, NEW i \in Index, NEW u \in Limit, NEW S, Fresh(i, u, S),
         Create(i, u, S)
  PROVE  Exact'
<1>. DEFINE n   == NewLog(i, u)
            M   == logs \cup {n}
            all == Adjusted(M)
            T   == Full(all) \cup {a \in all : \E l \in S : l.from = a.from}
<1>0. PICK line \in Outcomes(i) : \/ Settle(M, S \cup {n}, Written(i, line))
                                  \/ Settle(all, T, Written(i, line))
  BY DEF Create
<1>. DEFINE p == Written(i, line)
<1>1. /\ M \in SUBSET Log /\ OneEach(M) /\ Whole(M, p) /\ NoOther(M, p)
      /\ all \in SUBSET Log /\ OneEach(all) /\ Whole(all, p) /\ NoOther(all, p)
  <2>1. M = logs \cup {NewLog(i, u)} /\ p = Written(i, line) /\ all = Adjusted(M)
    OBVIOUS
  <2>. HIDE DEF n, M, all, T, p
  <2> QED BY <2>1, CreateLines
<1>2. \/ Settle(M, S \cup {n}, p)
      \/ Settle(all, T, p)
  BY <1>0
<1>3. T \in SUBSET all /\ S \cup {n} \in SUBSET M /\ DiskExact
  BY DEF Full, Fresh, Exact
<1>. HIDE DEF n, M, all, T, p
<1> QED BY <1>1, <1>2, <1>3, SettleExact

\* Sealing a log in progress, as it is, leaves the rest whole.
LEMMA SealExact ==
  ASSUME Tidy, Exact, NEW S \in SUBSET logs, Settle(logs, S, part)
  PROVE  Exact'
BY SoundOneEach, SettleExact DEF Tidy, Sound, Exact

\* handle_milestone_data of an admitted milestone leaves whole files.
LEMMA HandleExact ==
  ASSUME Tidy, Exact, DiskOK, NEW i \in Index, NEW u \in Limit, Admits(i, u), Handle(i, u)
  PROVE  Exact'
<1>1. ASSUME NEW l \in logs, Extends(l, i), AppendTo(l, i) PROVE Exact'
  <2>. DEFINE m == Extended(l, i)
              L == (logs \ {l}) \cup {m}
              S == IF m.upper = m.to THEN {m} ELSE {}
  <2>0. PICK line \in Outcomes(i) : Settle(L, S, Written(l.from, line)) /\ ~Broken(l)
    BY <1>1 DEF AppendTo
  <2>. DEFINE p == Written(l.from, line)
  <2>1. L \in SUBSET Log /\ OneEach(L) /\ Whole(L, p) /\ NoOther(L, p)
    BY <1>1, <2>0, AppendLines
  <2>2. Settle(L, S, p) /\ S \in SUBSET L /\ DiskExact
    BY <2>0 DEF Exact
  <2>. HIDE DEF m, L, S, p
  <2> QED BY <2>1, <2>2, SettleExact
<1>2. ASSUME NEW l \in logs, Settle(logs, {l}, part) PROVE Exact'
  BY <1>2, SealExact
<1>3. ASSUME NEW l \in logs, Extends(l, i), Create(i, l.upper, {l}) PROVE Exact'
  BY <1>3, RolloverFresh, CreateExact
<1>4. ASSUME ~ \E l \in logs : Extends(l, i), ~Covered(i), Create(i, u, {}) PROVE Exact'
  BY <1>4, PlainFresh, CreateExact
<1>5. ASSUME UNCHANGED <<logs, processed, part, sealed>> PROVE Exact'
  BY <1>5 DEF Exact, DiskExact, OnDisk, Whole, NoOther, LinesOf, LastLost, FileName, Run
<1> QED BY <1>1, <1>2, <1>3, <1>4, <1>5, Zenon DEF Handle

\* close_log_file leaves whole files.
LEMMA CloseExact ==
  ASSUME Tidy, Exact, NEW m, CloseLog(m)
  PROVE  Exact'
<1>1. ASSUME UNCHANGED <<logs, processed, part, sealed>> PROVE Exact'
  BY <1>1 DEF Exact, DiskExact, OnDisk, Whole, NoOther, LinesOf, LastLost, FileName, Run
<1> QED BY <1>1, SealExact DEF CloseLog

\* A failure to seal logs as they are leaves them, whole or gone.
LEMMA FailSeal ==
  ASSUME Tidy, Exact, NEW S \in SUBSET logs, Fail(logs, S, part)
  PROVE  Remains' /\ pc' = "failed"
<1>1. DiskExact /\ logs \in SUBSET Log /\ S \in SUBSET Log /\ Whole(S, part)
  BY DEF Exact, Whole, Tidy, Sound
<1>2. \A l \in logs : Left(l, part[l.from])
  BY WholeLeft DEF Exact
<1> QED BY <1>1, <1>2, FailRemains

\* A failure anywhere in create_and_append leaves whole files and at most one
\* torn line, in a file that no log is about.
LEMMA FailCreateRemains ==
  ASSUME Tidy, Exact, DiskOK, NEW i \in Index, NEW u \in Limit, NEW S, Fresh(i, u, S),
         FailCreate(i, u, S)
  PROVE  Remains' /\ pc' = "failed"
<1>. DEFINE n   == NewLog(i, u)
            M   == logs \cup {n}
            all == Adjusted(M)
<1>0. \A line \in Outcomes(i) :
         /\ M \in SUBSET Log /\ Whole(M, Written(i, line))
         /\ all \in SUBSET Log /\ Whole(all, Written(i, line))
         /\ \A l \in logs : l.from # i
  BY CreateLines
<1>1. M \in SUBSET Log /\ all \in SUBSET Log /\ \A l \in logs : l.from # i
  BY <1>0 DEF Outcomes
<1>2. \/ \E q \in {part, Written(i, Torn)} : Fail(logs, S, q)
      \/ \E line \in Outcomes(i) : \E T \in SUBSET {n} : Fail(logs, S \cup T, Written(i, line))
      \/ \E line \in Outcomes(i) : \E T \in SUBSET all : Fail(all, S \cup T, Written(i, line))
  BY FailCreateCases, Zenon
<1>3. S \in SUBSET logs /\ logs \in SUBSET Log /\ logs \in SUBSET M /\ DiskExact
  BY DEF Fresh, Tidy, Sound, Exact
<1>4. ASSUME NEW q \in {part, Written(i, Torn)}, Fail(logs, S, q)
      PROVE  Remains' /\ pc' = "failed"
  <2>1. \A l \in logs : q[l.from] = part[l.from]
    BY <1>1, <1>3 DEF Written, DiskOK, Log
  <2>2. Whole(logs, q) /\ Whole(S, q)
    BY <1>3, <2>1 DEF Exact, Whole
  <2>3. \A l \in logs : Left(l, q[l.from])
    BY <2>2, WholeLeft
  <2>4. S \in SUBSET Log
    BY <1>3
  <2> QED BY <1>3, <1>4, <2>2, <2>3, <2>4, FailRemains
<1>5. n \in M
  OBVIOUS
<1>. HIDE DEF n, M, all
<1>6. ASSUME NEW line \in Outcomes(i), NEW T \in SUBSET {n},
             NEW p, p = Written(i, line), Fail(logs, S \cup T, p)
      PROVE  Remains' /\ pc' = "failed"
  <2>1. Whole(logs, p) /\ Whole(S \cup T, p) /\ S \cup T \in SUBSET Log
    BY <1>0, <1>1, <1>3, <1>5, <1>6 DEF Whole
  <2>2. \A l \in logs : Left(l, p[l.from])
    BY <2>1, WholeLeft
  <2> QED BY <1>3, <1>6, <2>1, <2>2, FailRemains
<1>7. ASSUME NEW line \in Outcomes(i), NEW T \in SUBSET all,
             NEW p, p = Written(i, line), Fail(all, S \cup T, p)
      PROVE  Remains' /\ pc' = "failed"
  <2>1. Whole(M, p) /\ Whole(all, p)
    BY <1>0, <1>7
  <2>2. Whole(S \cup T, p) /\ S \cup T \in SUBSET Log
    BY <1>1, <1>3, <2>1 DEF Whole
  <2>3. \A l \in all : Left(l, p[l.from])
    BY <2>1, WholeLeft
  <2> QED BY <1>1, <1>3, <1>7, <2>2, <2>3, FailRemains
<1> QED BY <1>2, <1>4, <1>6, <1>7

\* A failure anywhere in handle_milestone_data leaves whole files, but for the
\* torn line of the log that was to take the milestone.
LEMMA FailHandleRemains ==
  ASSUME Tidy, Exact, DiskOK, NEW i \in Index, NEW u \in Limit, Admits(i, u),
         FailHandle(i, u)
  PROVE  Remains' /\ pc' = "failed"
<1>0. logs \in SUBSET Log /\ OneEach(logs) /\ DiskExact
  BY SoundOneEach DEF Tidy, Sound, Exact
<1>1. ASSUME NEW l \in logs, ~Broken(l), NEW q, q = Written(l.from, Torn), Fail(logs, {}, q)
      PROVE  Remains' /\ pc' = "failed"
  <2>0. part[l.from] = RunOf(l) /\ DiskFails
    BY <1>0, <1>1, NotBroken DEF Exact, Whole, Tidy, Sound, Fail
  <2>1. ASSUME NEW k \in logs PROVE Left(k, q[k.from])
    <3>1. part[k.from] \in LinesOf(FileName(k)) /\ k.from \in Index
      BY <1>0 DEF Exact, Whole, Log
    <3>2. CASE k = l
      BY <1>0, <1>1, <2>0, <3>1, <3>2 DEF Left, TornBehind, RunOf, Written, DiskOK
    <3>3. CASE k # l
      BY <1>0, <1>1, <3>1, <3>3 DEF Left, Written, DiskOK, OneEach
    <3> QED BY <3>2, <3>3
  <2>2. Whole({}, q)
    BY DEF Whole
  <2> QED BY <1>0, <1>1, <2>1, <2>2, FailRemains
<1>2. ASSUME NEW l \in logs, Extends(l, i), ~Broken(l), NEW T \in {{}, {Extended(l, i)}},
             NEW line \in Outcomes(i),
             Fail((logs \ {l}) \cup {Extended(l, i)}, T, Written(l.from, line))
      PROVE  Remains' /\ pc' = "failed"
  <2>. DEFINE m == Extended(l, i)
              L == (logs \ {l}) \cup {m}
              p == Written(l.from, line)
  <2>1. L \in SUBSET Log /\ Whole(L, p)
    BY <1>2, AppendLines
  <2>2. T \in SUBSET L /\ Fail(L, T, p)
    BY <1>2
  <2>. HIDE DEF m, L, p
  <2>3. T \in SUBSET Log /\ Whole(T, p)
    BY <2>1, <2>2 DEF Whole
  <2>4. \A k \in L : Left(k, p[k.from])
    BY <2>1, WholeLeft
  <2> QED BY <1>0, <2>1, <2>2, <2>3, <2>4, FailRemains
<1>3. ASSUME NEW l \in logs, NEW T \in {{}, {l}}, Fail(logs, T, part)
      PROVE  Remains' /\ pc' = "failed"
  BY <1>3, FailSeal
<1>4. ASSUME NEW l \in logs, Extends(l, i), FailCreate(i, l.upper, {l})
      PROVE  Remains' /\ pc' = "failed"
  BY <1>4, RolloverFresh, FailCreateRemains
<1>5. ASSUME ~ \E l \in logs : Extends(l, i), ~Covered(i), FailCreate(i, u, {})
      PROVE  Remains' /\ pc' = "failed"
  BY <1>5, PlainFresh, FailCreateRemains
<1> QED BY <1>1, <1>2, <1>3, <1>4, <1>5, Zenon DEF FailHandle

\* A failure in close_log_file leaves whole files.
LEMMA FailCloseRemains ==
  ASSUME Tidy, Exact, NEW m, FailClose(m)
  PROVE  Remains' /\ pc' = "failed"
BY FailSeal DEF FailClose

\* Terminate seals what is left: runs, or a run and a torn line.
LEMMA TerminateLeft ==
  ASSUME logs \in SUBSET Log, Remains, Terminate
  PROVE  Contents'
<1>1. PICK S \in SUBSET logs : sealed' = Renamed(part, S)
  BY DEF Terminate
<1>2. pc' = "stopped"
  BY DEF Terminate
<1>3. ASSUME NEW n \in Name, sealed'[n] # <<>>
      PROVE  sealed'[n] \in LinesOf(n) \/ TornBehind(n, sealed'[n])
  <2>1. CASE \E l \in S : FileName(l) = n
    <3>1. PICK l \in S : FileName(l) = n
      BY <2>1
    <3>2. sealed'[n] = part[l.from]
      BY <1>1, <2>1, <3>1 DEF Renamed, FileName
    <3> QED BY <1>3, <3>1, <3>2 DEF Remains, Left
  <2>2. CASE ~ \E l \in S : FileName(l) = n
    <3>1. sealed'[n] = sealed[n]
      BY <1>1, <2>2 DEF Renamed
    <3> QED BY <1>3, <3>1 DEF Remains, DiskExact, OnDisk
  <2> QED BY <2>1, <2>2
<1>4. ~Working' /\ pc' # "failed"
  BY <1>2 DEF Working
<1>5. (pc = "stopped" =>
         \A n \in OnDisk : sealed[n] \in LinesOf(n) \/ TornBehind(n, sealed[n]))'
  BY <1>3 DEF OnDisk, TornBehind, LinesOf, LastLost, Run
<1> QED BY <1>4, <1>5 DEF Contents

\* While nothing is in progress or sealed, everything is exact.
LEMMA InitContents == Init => Contents
<1>. SUFFICES ASSUME Init PROVE Contents
  OBVIOUS
<1>1. OnDisk = {} /\ logs = {} /\ \A f \in Index : part[f] = <<>>
  BY DEF Init, OnDisk
<1>2. pc = "waiting"
  BY DEF Init
<1> QED BY <1>1, <1>2 DEF Contents, Exact, DiskExact, Whole, NoOther

\* Every step keeps the contents of the files: one case for each action.
LEMMA NextContents ==
  TypeOK /\ TypeOK' /\ ArchiverInv /\ Contents /\ [Next]_vars => Contents'
<1>. SUFFICES ASSUME TypeOK, TypeOK', ArchiverInv, Contents, [Next]_vars PROVE Contents'
  OBVIOUS
<1>0. /\ next \in Nat /\ DiskOK /\ logs \in SUBSET Log /\ NoLimit \in Limit
      /\ Working => Tidy /\ Bounded(next) /\ Exact
  BY DEF TypeOK, DiskOK, ArchiverInv, Contents, Index, Limit
<1>1. ASSUME Working, Exact', pc' # "failed", pc' # "stopped" PROVE Contents'
  BY <1>1 DEF Contents
<1>2. ASSUME Remains' /\ pc' = "failed" PROVE Contents'
  <2>1. ~Working' /\ pc' # "stopped"
    BY <1>2 DEF Working
  <2> QED BY <1>2, <2>1 DEF Contents
<1>3. ASSUME Working, UNCHANGED <<logs, part, sealed>>, pc' # "failed", pc' # "stopped"
      PROVE  Contents'
  <2>1. Exact'
    BY <1>0, <1>3 DEF Exact, DiskExact, OnDisk, Whole, NoOther, LinesOf, LastLost, FileName, Run
  <2> QED BY <1>1, <1>3, <2>1
<1>4. ASSUME NEW i \in Index, NEW u \in Limit, Working, Admits(i, u),
             Handle(i, u) \/ FailHandle(i, u), FailHandle(i, u) \/ pc' \notin {"failed", "stopped"}
      PROVE  Contents'
  <2>1. CASE Handle(i, u) /\ pc' \notin {"failed", "stopped"}
    <3>1. Exact'
      BY <1>0, <1>4, <2>1, HandleExact
    <3> QED BY <1>1, <1>4, <2>1, <3>1
  <2>2. CASE FailHandle(i, u)
    BY <1>0, <1>2, <1>4, <2>2, FailHandleRemains
  <2> QED BY <1>4, <2>1, <2>2
<1>5. ASSUME NEW m, Working, CloseLog(m) \/ FailClose(m),
             FailClose(m) \/ pc' \notin {"failed", "stopped"}
      PROVE  Contents'
  <2>1. CASE CloseLog(m) /\ pc' \notin {"failed", "stopped"}
    <3>1. Exact'
      BY <1>0, <1>5, <2>1, CloseExact
    <3> QED BY <1>1, <1>5, <2>1, <3>1
  <2>2. CASE FailClose(m)
    BY <1>0, <1>2, <1>5, <2>2, FailCloseRemains
  <2> QED BY <1>5, <2>1, <2>2
<1>6. ASSUME NEW i \in Index, SyncerAtNext(i) \/ AtNextFails(i) PROVE Contents'
  <2>1. pc = "running" /\ i = next
    BY <1>6 DEF SyncerAtNext, AtNextFails
  <2>2. Working /\ Admits(i, NoLimit)
    BY <1>0, <2>1, AheadAdmits DEF Working
  <2>3. \/ Handle(i, NoLimit) /\ pc' = "running"
        \/ FailHandle(i, NoLimit)
    BY <1>6 DEF SyncerAtNext, AtNextFails
  <2> QED BY <1>0, <1>4, <2>2, <2>3
<1>7. ASSUME NEW m \in Index, Close(m) \/ CloseFails(m) PROVE Contents'
  BY <1>5, <1>7 DEF Close, CloseFails, Working
<1>8. ASSUME NEW i \in Index, NEW u \in Limit, Resent(i) \/ GapFree(i, u), Behind(i, u)
      PROVE  Contents'
  <2>1. /\ pc = "running"
        /\ \/ Handle(i, u) /\ pc' = "running"
           \/ FailHandle(i, u)
    BY <1>8 DEF Behind, SyncerBehind, BehindFails
  <2>2. Working /\ Admits(i, u)
    BY <1>0, <1>8, <2>1, BehindAdmits DEF Working
  <2> QED BY <1>4, <2>1, <2>2
<1>9. ASSUME NEW i \in Index, DrainNext(i) PROVE Contents'
  <2>1. pc = "draining" /\ pc' = "draining" /\ i = next /\ Handle(i, NoLimit)
    BY <1>9 DEF DrainNext
  <2>2. Working /\ Admits(i, NoLimit)
    BY <1>0, <2>1, AheadAdmits DEF Working
  <2> QED BY <1>0, <1>4, <2>1, <2>2
<1>10. ASSUME NEW i \in Index, DrainGap(i) PROVE Contents'
  BY <1>5, <1>10 DEF DrainGap, Working
<1>11. ASSUME NEW i \in Index, pc = "skipping", Lowest(i),
              \/ Handle(i, NoLimit) /\ pc' = "draining"
              \/ FailHandle(i, NoLimit)
       PROVE  Contents'
  <2>1. Working /\ next <= i
    BY <1>11 DEF Working, ArchiverInv, Lowest, BagIn, BagToSet
  <2>2. Admits(i, NoLimit)
    BY <1>0, <2>1, AheadAdmits
  <2> QED BY <1>0, <1>4, <1>11, <2>1, <2>2
<1>12. ASSUME NEW i \in Index, DrainFails(i) PROVE Contents'
  <2>1. CASE pc = "draining" /\ i = next /\ FailHandle(i, NoLimit)
    <3>1. Working /\ Admits(i, NoLimit)
      BY <1>0, <2>1, AheadAdmits DEF Working
    <3> QED BY <1>0, <1>4, <2>1, <3>1
  <2>2. CASE pc = "draining" /\ FailClose(next)
    BY <1>5, <2>2 DEF Working
  <2>3. CASE pc = "skipping" /\ FailHandle(i, NoLimit)
    BY <1>11, <1>12, <2>3 DEF DrainFails
  <2> QED BY <1>12, <2>1, <2>2, <2>3 DEF DrainFails
<1>13. ASSUME NEW i \in Index, SkipGap(i) PROVE Contents'
  BY <1>11, <1>13 DEF SkipGap
<1>14. ASSUME NEW i \in Index,
              Start(i) \/ SyncerAhead(i) \/ Incoming(i) \/ DrainStale(i) \/ DrainEnd
       PROVE  Contents'
  BY <1>3, <1>14 DEF Start, SyncerAhead, Incoming, DrainStale, DrainEnd, Working
<1>15. ASSUME Terminate PROVE Contents'
  <2>1. pc = "failed" \/ Working
    BY <1>15 DEF Terminate, Working
  <2>2. Exact => Remains
    BY WholeLeft DEF Exact, Remains
  <2>3. Remains
    BY <1>0, <2>1, <2>2 DEF Contents
  <2> QED BY <1>0, <1>15, <2>3, TerminateLeft
<1>16. ASSUME UNCHANGED vars PROVE Contents'
  BY <1>16 DEF vars, Contents, Working, Exact, Remains, DiskExact, OnDisk, Whole, NoOther,
     Left, TornBehind, LinesOf, LastLost, FileName, Run
<1>17. 1 \in Index
  BY DEF Index
<1> QED BY <1>6, <1>7, <1>8, <1>9, <1>10, <1>12, <1>13, <1>14, <1>15, <1>16, <1>17, Zenon
        DEF Next, Step, Drain

\* Whatever the order of the two flows, the sizes of lines and files and the
\* failures of the disk: a sealed file holds the milestones of its name, all of
\* them when the disk works, and all but the last when a write has failed
\* unnoticed; a torn line behind them is left only by the write that stops the
\* archiver.
THEOREM SealedAreExact == Spec => []SealedExact
<1>1. TypeOK /\ ArchiverInv /\ Contents /\ [Next]_vars => Contents'
  BY NextType, NextContents
<1>2. TypeOK /\ Contents => SealedExact
  <2>. SUFFICES ASSUME TypeOK, Contents, NEW n \in OnDisk
                PROVE  \/ sealed[n] = Run(n)
                       \/ DiskFails /\ sealed[n] = LastLost(n)
                       \/ DiskFails /\ sealed[n] = Append(Run(n), Torn) /\ pc = "stopped"
    BY DEF SealedExact
  <2>1. Working \/ pc = "failed" \/ pc = "stopped"
    BY DEF TypeOK, Working
  <2>2. sealed[n] \in LinesOf(n) \/ (TornBehind(n, sealed[n]) /\ pc = "stopped")
    BY <2>1 DEF Contents, Exact, Remains, DiskExact
  <2> QED BY <2>2 DEF LinesOf, TornBehind
<1> QED BY <1>1, <1>2, InitContents, TypeCorrect, Invariance, PTL DEF Spec

=============================================================================
