--------------------------- MODULE ImporterProofs ---------------------------
(***************************************************************************)
(* Proofs about the importer, for any log file, any messages, any range    *)
(* and parallelism, and any number of failures.                            *)
(*                                                                         *)
(* ImporterInv and ReportsExact are inductive together; with them every    *)
(* step of the importer is a step of Import, what an import promises, or   *)
(* changes nothing of it.                                                  *)
(***************************************************************************)
EXTENDS Importer, FiniteSetTheorems, WellFoundedInduction, SequenceTheorems, TLAPS

\* A set of natural numbers has a least element.
LEMMA LeastNat ==
  ASSUME NEW S \in SUBSET Nat, S # {}
  PROVE  \E x \in S : \A y \in S : x <= y
<1>. DEFINE R == {ss \in Nat \X Nat : ss[1] < ss[2]}
<1>1. IsWellFoundedOn(R, Nat)
  <2>1. R = OpToRel(<, Nat) BY DEF OpToRel
  <2> QED BY <2>1, NatLessThanWellFounded
<1>2. PICK x \in S : \A y \in S : ~ (<<y, x>> \in R)
  <2> HIDE DEF R
  <2> QED BY <1>1, WFMin, Zenon
<1>3. \A y \in S : ~ (y < x)
  BY <1>2
<1> QED BY <1>3

USE ImporterAssumption

-----------------------------------------------------------------------------
(* The rows. *)

\* The table of a row is the first part of its key.
Marks == {"analytics", "sync"}

\* The statements of a message write neither analytics nor sync records.
LEMMA StatementRows ==
  ASSUME NEW msg, NEW ms, NEW s \in insert_message_with_metadata(msg, ms), NEW r \in s
  PROVE  r.key[1] \notin Marks
<1>1. \A table, key, id : table \notin Marks => 
        \A t \in Found(table, key, ms, id) : \A q \in t : q.key[1] \notin Marks
  BY DEF Found, PartitionedRow, HintRow, Row, Marks
<1>2. \A tx, idx, variant, id : TransactionRow(tx, idx, variant, id).key[1] \notin Marks
  BY DEF TransactionRow, Row, Marks
<1>3. \A i, id : MilestoneRow(i, id).key[1] \notin Marks
  BY DEF MilestoneRow, Row, Marks
<1>4. \A id : MessageRow(id).key[1] \notin Marks /\ MetadataRow(id).key[1] \notin Marks
  BY DEF MessageRow, MetadataRow, Row, Marks
<1>. DEFINE Clean(S) == \A t \in S : \A q \in t : q.key[1] \notin Marks
<1>5. Clean(insert_parents(msg, ms))
  BY <1>1 DEF insert_parents, Marks
<1>6. \A id, index : Clean(insert_index(id, index, ms))
  BY <1>1 DEF insert_index, Marks
<1>7. \A tx : Clean(insert_transaction(msg, tx, ms))
  <2>. TAKE tx
  <2>1. \A i : Clean(insert_input(tx, i, msg.id))
    BY <1>2 DEF insert_input
  <2>2. \A t, i : Clean(insert_unlock(t, i, msg.id))
    BY <1>2 DEF insert_unlock
  <2>3. \A o : Clean(insert_output(tx, o, msg.id))
    BY <1>2 DEF insert_output
  <2>4. \A o : Clean(insert_address(tx, o, ms))
    BY <1>1 DEF insert_address, Marks
  <2>. HIDE DEF Clean
  <2>5. \A S, T : Clean(S) /\ Clean(T) => Clean(S \cup T)
    BY DEF Clean
  <2>6. Clean({})
    BY DEF Clean
  <2>7. Clean(UNION {insert_input(tx, i[1], msg.id) \cup insert_unlock(i[2], i[3], msg.id) : i \in tx.inputs})
    <3>1. \A i : Clean(insert_input(tx, i[1], msg.id) \cup insert_unlock(i[2], i[3], msg.id))
      BY <2>1, <2>2, <2>5
    <3> QED BY <3>1 DEF Clean
  <2>8. Clean(UNION {insert_input(tx, i, msg.id) : i \in tx.treasury})
    BY <2>1 DEF Clean
  <2>9. Clean(UNION {insert_output(tx, o, msg.id) \cup insert_address(tx, o, ms) : o \in tx.outputs})
    <3>1. \A o : Clean(insert_output(tx, o, msg.id) \cup insert_address(tx, o, ms))
      BY <2>3, <2>4, <2>5
    <3> QED BY <3>1 DEF Clean
  <2>10. Clean(IF tx.payload.kind = "index" THEN insert_index(msg.id, tx.payload.index, ms) ELSE {})
    BY <1>6, <2>6
  <2>. DEFINE I == UNION {insert_input(tx, i[1], msg.id) \cup insert_unlock(i[2], i[3], msg.id) : i \in tx.inputs}
              T == UNION {insert_input(tx, i, msg.id) : i \in tx.treasury}
              O == UNION {insert_output(tx, o, msg.id) \cup insert_address(tx, o, ms) : o \in tx.outputs}
              P == IF tx.payload.kind = "index" THEN insert_index(msg.id, tx.payload.index, ms) ELSE {}
  <2>11. insert_transaction(msg, tx, ms) = I \cup T \cup O \cup P
    BY DEF insert_transaction
  <2>12. Clean(I) /\ Clean(T) /\ Clean(O) /\ Clean(P)
    BY <2>7, <2>8, <2>9, <2>10
  <2>. HIDE DEF I, T, O, P
  <2>13. Clean((I \cup T) \cup O)
    BY <2>5, <2>12
  <2> QED BY <2>5, <2>11, <2>12, <2>13
<1>8. Clean(insert_payload(msg, ms))
  <2>1. CASE msg.payload.kind = "index"
    BY <1>6, <2>1 DEF insert_payload
  <2>2. CASE msg.payload.kind = "transaction"
    BY <1>7, <2>2 DEF insert_payload
  <2>3. CASE msg.payload.kind = "milestone" /\ msg.payload.parents_check
    BY <1>3, <2>3 DEF insert_payload
  <2>4. CASE /\ msg.payload.kind # "index" /\ msg.payload.kind # "transaction"
             /\ ~(msg.payload.kind = "milestone" /\ msg.payload.parents_check)
    BY <2>4 DEF insert_payload
  <2> QED BY <2>1, <2>2, <2>3, <2>4
<1> QED BY <1>4, <1>5, <1>8 DEF insert_message_with_metadata

\* Writing a statement adds its keys.
LEMMA WriteKeys ==
  ASSUME NEW s
  PROVE  Keys(Write(db, s)) = Keys(db) \cup Keys(s)
BY DEF Keys, Write

\* The marks of a milestone are not the rows of anything else.
LEMMA MarkRows ==
  ASSUME NEW m, NEW n
  PROVE  /\ AnalyticRow(m).key = AnalyticRow(n).key => AnalyticRow(m) = AnalyticRow(n)
         /\ SyncRow(m).key = SyncRow(n).key => SyncRow(m) = SyncRow(n)
         /\ AnalyticRow(m) = AnalyticRow(n) => m = n
         /\ SyncRow(m) = SyncRow(n) => m = n
         /\ AnalyticRow(m).key # SyncRow(n).key
         /\ AnalyticRow(m).key[1] \in Marks /\ SyncRow(m).key[1] \in Marks
BY DEF AnalyticRow, SyncRow, Row, Marks

\* What a worker can write.
Statement(s) ==
  \/ \E m \in Lines : \E k \in DOMAIN Messages[m] : s \in Statements(m, k)
  \/ \E m \in Lines : s = {AnalyticRow(m)} \/ s = {SyncRow(m)}

\* A mark stays, and appears only when it is written.
LEMMA WriteMarks ==
  ASSUME NEW s, Statement(s), NEW m
  PROVE  /\ AnalyticRow(m) \in Write(db, s) <=> AnalyticRow(m) \in db \/ s = {AnalyticRow(m)}
         /\ SyncRow(m) \in Write(db, s) <=> SyncRow(m) \in db \/ s = {SyncRow(m)}
<1>1. CASE \E n \in Lines : \E k \in DOMAIN Messages[n] : s \in Statements(n, k)
  <2>1. \A r \in s : r.key[1] \notin Marks
    BY <1>1, StatementRows DEF Statements
  <2>2. \A r \in s : r.key # AnalyticRow(m).key /\ r.key # SyncRow(m).key
    BY <2>1, MarkRows
  <2>3. /\ AnalyticRow(m) \notin s /\ SyncRow(m) \notin s
        /\ AnalyticRow(m).key \notin Keys(s) /\ SyncRow(m).key \notin Keys(s)
    BY <2>2 DEF Keys
  <2> QED BY <2>3 DEF Write
<1>2. ASSUME NEW n \in Lines, s = {AnalyticRow(n)} \/ s = {SyncRow(n)}
      PROVE  /\ AnalyticRow(m) \in Write(db, s) <=> AnalyticRow(m) \in db \/ s = {AnalyticRow(m)}
             /\ SyncRow(m) \in Write(db, s) <=> SyncRow(m) \in db \/ s = {SyncRow(m)}
  <2>0. /\ AnalyticRow(m).key = AnalyticRow(n).key => AnalyticRow(m) = AnalyticRow(n)
        /\ SyncRow(m).key = SyncRow(n).key => SyncRow(m) = SyncRow(n)
        /\ AnalyticRow(m).key # SyncRow(n).key /\ AnalyticRow(n).key # SyncRow(m).key
        /\ AnalyticRow(m) # SyncRow(n) /\ AnalyticRow(n) # SyncRow(m)
    BY MarkRows
  <2>1. CASE s = {AnalyticRow(n)}
    <3>1. Keys(s) = {AnalyticRow(n).key}
      BY <2>1 DEF Keys
    <3>2. s = {AnalyticRow(m)} <=> AnalyticRow(m) \in s
      BY <2>1
    <3>3. s # {SyncRow(m)}
      BY <2>0, <2>1
    <3> QED BY <2>0, <2>1, <3>1, <3>2, <3>3 DEF Write
  <2>2. CASE s = {SyncRow(n)}
    <3>1. Keys(s) = {SyncRow(n).key}
      BY <2>2 DEF Keys
    <3>2. s = {SyncRow(m)} <=> SyncRow(m) \in s
      BY <2>2
    <3>3. s # {AnalyticRow(m)}
      BY <2>0, <2>2
    <3> QED BY <2>0, <2>2, <3>1, <3>2, <3>3 DEF Write
  <2> QED BY <1>2, <2>1, <2>2
<1> QED BY <1>1, <1>2 DEF Statement

-----------------------------------------------------------------------------
(* The inbox. *)

LEMMA InboxPushes ==
  ASSUME NEW q \in Seq(Events), Apart(q), NEW e \in Events, \A x \in ToSet(q) : x.ms # e.ms
  PROVE  /\ q \o <<e>> \in Seq(Events) /\ Apart(q \o <<e>>)
         /\ ToSet(q \o <<e>>) = ToSet(q) \cup {e}
<1>. DEFINE n == Len(q)
            p == q \o <<e>>
<1>1. n \in Nat /\ DOMAIN q = 1..n /\ \A i \in 1..n : q[i] \in Events
  BY LenProperties, ElementOfSeq
<1>2. /\ p \in Seq(Events) /\ Len(p) = n + 1
      /\ \A i \in 1..n : p[i] = q[i]
      /\ p[n + 1] = e
  <2>1. <<e>> \in Seq(Events) /\ Len(<<e>>) = 1 /\ <<e>>[1] = e
    OBVIOUS
  <2>2. /\ p \in Seq(Events) /\ Len(p) = n + 1
        /\ \A i \in 1..n + 1 : p[i] = IF i <= n THEN q[i] ELSE <<e>>[i - n]
    BY <2>1, ConcatProperties
  <2>. HIDE DEF p, n
  <2> QED BY <1>1, <2>1, <2>2
<1>3. DOMAIN p = 1..n + 1
  BY <1>2, LenProperties
<1>. HIDE DEF p, n
<1>4. \A i \in 1..n : q[i] \in ToSet(q) /\ p[i].ms # e.ms
  BY <1>1, <1>2 DEF ToSet
<1>5. \A i \in 1..n + 1 : i \in 1..n \/ i = n + 1
  BY <1>1
<1>6. Apart(p)
  BY <1>1, <1>2, <1>3, <1>4, <1>5 DEF Apart
<1>7. ToSet(p) = ToSet(q) \cup {e}
  <2>1. \A x \in ToSet(p) : x \in ToSet(q) \/ x = e
    BY <1>2, <1>3, <1>4, <1>5 DEF ToSet
  <2>2. \A x \in ToSet(q) : x \in ToSet(p)
    <3>1. \A i \in 1..n : i \in 1..n + 1
      BY <1>1
    <3> QED BY <1>1, <1>2, <1>3, <3>1 DEF ToSet
  <2>3. e \in ToSet(p)
    <3>1. n + 1 \in 1..n + 1
      BY <1>1
    <3> QED BY <1>2, <1>3, <3>1 DEF ToSet
  <2> QED BY <2>1, <2>2, <2>3
<1> QED BY <1>2, <1>6, <1>7 DEF p

LEMMA InboxPops ==
  ASSUME NEW q \in Seq(Events), Apart(q), q # <<>>
  PROVE  /\ Head(q) \in Events /\ Head(q) \in ToSet(q)
         /\ Tail(q) \in Seq(Events) /\ Apart(Tail(q))
         /\ ToSet(Tail(q)) = ToSet(q) \ {Head(q)}
         /\ \A x \in ToSet(Tail(q)) : x.ms # Head(q).ms
<1>. DEFINE n == Len(q)
            p == Tail(q)
<1>1. /\ n \in Nat \ {0} /\ DOMAIN q = 1..n
      /\ Head(q) \in Events /\ p \in Seq(Events) /\ Len(p) = n - 1
      /\ \A i \in 1..n - 1 : p[i] = q[i + 1]
  BY LenProperties, HeadTailProperties, EmptySeq
<1>2. DOMAIN p = 1..n - 1 /\ Head(q) = q[1]
  BY <1>1, LenProperties
<1>. HIDE DEF p, n
<1>3. 1 \in 1..n /\ \A i \in 1..n - 1 : i + 1 \in 1..n /\ i + 1 # 1
  BY <1>1
<1>4. \A i \in 1..n : i = 1 \/ (i - 1 \in 1..n - 1 /\ i = (i - 1) + 1)
  BY <1>1
<1>5. Head(q) \in ToSet(q)
  BY <1>1, <1>2, <1>3 DEF ToSet
<1>6. Apart(p)
  <2>1. \A i, j \in 1..n - 1 : i + 1 = j + 1 => i = j
    BY <1>1
  <2>2. \A i, j \in 1..n - 1 : q[i + 1].ms = q[j + 1].ms => i + 1 = j + 1
    BY <1>1, <1>3 DEF Apart
  <2>3. ASSUME NEW i \in 1..n - 1, NEW j \in 1..n - 1, p[i].ms = p[j].ms PROVE i = j
    <3>1. p[i] = q[i + 1] /\ p[j] = q[j + 1]
      BY <1>1
    <3>2. q[i + 1].ms = q[j + 1].ms
      BY <2>3, <3>1
    <3> QED BY <2>1, <2>2, <3>2
  <2> QED BY <1>2, <2>3 DEF Apart
<1>7. \A i \in 1..n - 1 : p[i].ms # Head(q).ms
  BY <1>1, <1>2, <1>3, ZenonT(60) DEF Apart
<1>8. ToSet(p) = ToSet(q) \ {Head(q)}
  <2>1. \A x \in ToSet(p) : x \in ToSet(q) /\ x # Head(q)
    BY <1>1, <1>2, <1>3, <1>7, ZenonT(60) DEF ToSet
  <2>2. \A x \in ToSet(q) : x # Head(q) => x \in ToSet(p)
    <3>. SUFFICES ASSUME NEW i \in 1..n, q[i] # q[1] PROVE q[i] \in ToSet(p)
      BY <1>1, <1>2 DEF ToSet
    <3>1. i - 1 \in 1..n - 1 /\ q[i] = p[i - 1]
      BY <1>1, <1>4
    <3> QED BY <1>2, <3>1 DEF ToSet
  <2> QED BY <2>1, <2>2
<1>9. \A x \in ToSet(p) : x.ms # Head(q).ms
  BY <1>2, <1>7 DEF ToSet
<1> QED BY <1>1, <1>5, <1>6, <1>8, <1>9 DEF p

-----------------------------------------------------------------------------
(* The lines. *)

LEMMA LogIs ==
  /\ Len(Log) \in Nat /\ DOMAIN Log = 1..Len(Log)
  /\ \A i \in 1..Len(Log) : Log[i] \in Lines /\ Log[i] \in Nat \ {0}
  /\ \A m \in Lines : \E i \in 1..Len(Log) : m = Log[i]
  /\ \A i, j \in 1..Len(Log) : Log[i] = Log[j] => i = j
<1>1. Len(Log) \in Nat /\ DOMAIN Log = 1..Len(Log)
  BY LenProperties
<1>2. \A i \in 1..Len(Log) : Log[i] \in Nat \ {0}
  BY ElementOfSeq
<1> QED BY <1>1, <1>2 DEF Lines, ToSet, IsInjective

LEMMA LinesAre == IsFiniteSet(Lines) /\ Lines \subseteq Nat \ {0}
<1>1. IsFiniteSet(1..Len(Log)) 
  BY LogIs, FS_Interval
<1>2. Log \in Surjection(1..Len(Log), Lines)
  <2>1. Log \in [1..Len(Log) -> Lines]
    BY LogIs
  <2> QED BY <2>1, LogIs DEF Surjection
<1>3. IsFiniteSet(Lines)
  BY <1>1, <1>2, FS_Surjection, Zenon
<1> QED BY <1>3, LogIs

LEMMA MessagesAre ==
  ASSUME NEW m \in Lines
  PROVE  Len(Messages[m]) \in Nat \ {0} /\ DOMAIN Messages[m] = 1..Len(Messages[m])
<1>1. Messages[m] \in Seq(ToSet(Messages[m])) /\ Messages[m] # <<>>
  BY DEF Lines
<1> QED BY <1>1, LenProperties, EmptySeq

\* A line more makes at most its own milestone wanted.
LEMMA WantedGrows ==
  ASSUME line \in 0..Len(Log), NEW l \in line..Len(Log)
  PROVE  /\ Wanted(l) \in SUBSET Lines /\ IsFiniteSet(Wanted(l)) /\ Cardinality(Wanted(l)) \in Nat
         /\ l = line => Wanted(l) = {}
         /\ l # line => Wanted(l) \subseteq Wanted(l - 1) \cup {Log[l]}
<1>1. Wanted(l) \in SUBSET Lines
  BY LogIs DEF Wanted
<1>2. IsFiniteSet(Wanted(l)) /\ Cardinality(Wanted(l)) \in Nat
  BY <1>1, LinesAre, FS_Subset, FS_CardinalityType
<1>3. l = line => Wanted(l) = {}
  BY LogIs DEF Wanted
<1>4. l # line => Wanted(l) \subseteq Wanted(l - 1) \cup {Log[l]}
  <2>1. \A j \in line + 1..l : j = l \/ j \in line + 1..l - 1
    BY LogIs
  <2> QED BY <2>1 DEF Wanted
<1> QED BY <1>1, <1>2, <1>3, <1>4

\* The n-th milestone is found, or the file has ended with fewer.
LEMMA NthLineIs ==
  ASSUME line \in 0..Len(Log), NEW n \in Nat \ {0}
  PROVE  /\ NthLine(n) \in line..Len(Log)
         /\ Cardinality(Wanted(NthLine(n))) <= n
         /\ Wanted(NthLine(n)) = {} => NthLine(n) = Len(Log)
<1>. DEFINE found == {l \in line..Len(Log) : Cardinality(Wanted(l)) = n}
<1>1. CASE found # {}
  <2>1. NthLine(n) = Min(found)
    BY <1>1 DEF NthLine
  <2>2. found \in SUBSET Nat
    BY LogIs
  <2>. HIDE DEF found
  <2>3. \E x \in found : \A y \in found : x <= y
    BY <1>1, <2>2, LeastNat
  <2>4. Min(found) \in found
    BY <2>3 DEF Min
  <2>5. NthLine(n) \in line..Len(Log) /\ Cardinality(Wanted(NthLine(n))) = n
    BY <2>1, <2>4 DEF found
  <2>6. Wanted(NthLine(n)) # {}
    BY <2>5, FS_EmptySet
  <2> QED BY <2>5, <2>6
<1>2. CASE found = {}
  <2>1. NthLine(n) = Len(Log)
    BY <1>2 DEF NthLine
  <2>. DEFINE over == {l \in line..Len(Log) : Cardinality(Wanted(l)) > n}
  <2>2. over = {}
    <3>. SUFFICES ASSUME over # {} PROVE FALSE
      OBVIOUS
    <3>1. over \in SUBSET Nat
      BY LogIs
    <3>. HIDE DEF over
    <3>2. PICK l \in over : \A y \in over : l <= y
      BY <3>1, LeastNat
    <3>3. l \in line..Len(Log) /\ Cardinality(Wanted(l)) > n
      BY DEF over
    <3>4. l # line
      BY <3>3, WantedGrows, FS_EmptySet
    <3>5. l - 1 \in line..Len(Log)
      BY <3>3, <3>4, LogIs
    <3>6. /\ IsFiniteSet(Wanted(l - 1)) /\ Cardinality(Wanted(l - 1)) \in Nat
          /\ Wanted(l) \subseteq Wanted(l - 1) \cup {Log[l]}
      BY <3>3, <3>4, <3>5, WantedGrows
    <3>7. /\ IsFiniteSet(Wanted(l - 1) \cup {Log[l]})
          /\ Cardinality(Wanted(l - 1) \cup {Log[l]}) <= Cardinality(Wanted(l - 1)) + 1
      <4>. DEFINE W == Wanted(l - 1)
      <4>1. /\ IsFiniteSet(W \cup {Log[l]})
            /\ Cardinality(W \cup {Log[l]}) = IF Log[l] \in W THEN Cardinality(W) ELSE Cardinality(W) + 1
        BY <3>6, FS_AddElement, Zenon
      <4> QED BY <3>6, <4>1
    <3>8. Cardinality(Wanted(l)) <= Cardinality(Wanted(l - 1) \cup {Log[l]})
      BY <3>6, <3>7, FS_Subset
    <3>9. Cardinality(Wanted(l)) \in Nat /\ Cardinality(Wanted(l - 1) \cup {Log[l]}) \in Nat
      BY <3>3, <3>7, WantedGrows, FS_CardinalityType
    <3>10. Cardinality(Wanted(l - 1)) >= n
      BY <3>3, <3>6, <3>7, <3>8, <3>9
    <3>11. l - 1 \notin over
      BY <3>2, <3>3, LogIs
    <3>12. Cardinality(Wanted(l - 1)) = n
      BY <3>5, <3>6, <3>10, <3>11 DEF over
    <3> QED BY <1>2, <3>5, <3>12
  <2>3. Len(Log) \in line..Len(Log)
    BY LogIs
  <2>4. ~(Cardinality(Wanted(Len(Log))) > n) /\ Cardinality(Wanted(Len(Log))) \in Nat
    BY <2>2, <2>3, WantedGrows
  <2> QED BY <2>1, <2>3, <2>4
<1> QED BY <1>1, <1>2

-----------------------------------------------------------------------------
(* What the steps have in common. *)

Inv == ImporterInv /\ ReportsExact

\* The parameters of the import do not change.
Same == UNCHANGED <<mode, resume, importRange, completed>>

LEMMA SkipsSame ==
  ASSUME Same, NEW m
  PROVE  Skips(m)' <=> Skips(m)
BY DEF Same, Skips

\* A chunk that is not empty has workers, one for each of its statements.
LEMMA ChunkWorkersAre ==
  ASSUME NEW m \in Lines, NEW i \in 1..Len(Messages[m]), NEW j \in i..Len(Messages[m])
  PROVE  /\ ChunkWorkers(m, i, j) \subseteq Workers
         /\ \E w \in ChunkWorkers(m, i, j) : TRUE
         /\ \A w \in ChunkWorkers(m, i, j) :
              /\ w.kind = "row" /\ w.ms = m /\ w.id \in i..j
              /\ w.statement \in Statements(m, w.id)
         /\ \A k \in i..j : \A s \in Statements(m, k) :
              \E w \in ChunkWorkers(m, i, j) : w.id = k /\ w.statement = s
<1>1. /\ Len(Messages[m]) \in Nat /\ DOMAIN Messages[m] = 1..Len(Messages[m])
      /\ \A k \in i..j : k \in DOMAIN Messages[m] /\ k \in Nat
  BY MessagesAre
<1>2. \A w \in ChunkWorkers(m, i, j) : \E k \in i..j : \E s \in Statements(m, k) : w = Worker("row", m, k, s)
  BY DEF ChunkWorkers
<1>3. \A k \in i..j : \A s \in Statements(m, k) : Worker("row", m, k, s) \in ChunkWorkers(m, i, j)
  BY DEF ChunkWorkers
<1>4. ASSUME NEW k \in i..j, NEW s \in Statements(m, k)
      PROVE  Worker("row", m, k, s) \in Workers
  <2>1. s \in UNION {(UNION {Statements(n, l) : l \in DOMAIN Messages[n]})
                        \cup {{AnalyticRow(n)}, {SyncRow(n)}} : n \in Lines}
    BY <1>1
  <2> QED BY <1>1, <2>1 DEF Worker, Workers
<1>5. \E w \in ChunkWorkers(m, i, j) : TRUE
  <2>1. i \in i..j
    BY <1>1
  <2>2. {MessageRow(Messages[m][i].id), MetadataRow(Messages[m][i].id)} \in Statements(m, i)
    BY DEF Statements, insert_message_with_metadata
  <2> QED BY <1>3, <2>1, <2>2
<1>6. ChunkWorkers(m, i, j) \subseteq Workers
  BY <1>2, <1>4
<1>7. \A w \in ChunkWorkers(m, i, j) :
        w.kind = "row" /\ w.ms = m /\ w.id \in i..j /\ w.statement \in Statements(m, w.id)
  BY <1>2 DEF Worker
<1>8. ASSUME NEW k \in i..j, NEW s \in Statements(m, k)
      PROVE  \E w \in ChunkWorkers(m, i, j) : w.id = k /\ w.statement = s
  <2>1. Worker("row", m, k, s).id = k /\ Worker("row", m, k, s).statement = s
    BY DEF Worker
  <2> QED BY <1>3, <2>1, Zenon
<1> QED BY <1>5, <1>6, <1>7, <1>8

\* The workers of the analytics.
LEMMA MarkWorkersAre ==
  ASSUME NEW m \in Lines
  PROVE  /\ AnalyzeWorker(m) \in Workers /\ AnalyzeAndSyncWorker(m) \in Workers
         /\ AnalyzeWorker(m).ms = m /\ AnalyzeWorker(m).kind = "analyze"
         /\ AnalyzeWorker(m).statement = {AnalyticRow(m)}
         /\ AnalyzeAndSyncWorker(m).ms = m /\ AnalyzeAndSyncWorker(m).kind = "analyzeAndSync"
         /\ AnalyzeAndSyncWorker(m).statement = {AnalyticRow(m)}
<1>1. {AnalyticRow(m)} \in UNION {(UNION {Statements(n, l) : l \in DOMAIN Messages[n]})
                                    \cup {{AnalyticRow(n)}, {SyncRow(n)}} : n \in Lines}
  OBVIOUS
<1> QED BY <1>1 DEF AnalyzeWorker, AnalyzeAndSyncWorker, Worker, Workers

\* What the invariant says of a worker.
LEMMA WorkerIs ==
  ASSUME TypeOK, InTurn, NEW w \in flight
  PROVE  /\ w \in Workers /\ w.ms \in Lines /\ ~Skips(w.ms) /\ Statement(w.statement)
         /\ w = [kind |-> w.kind, ms |-> w.ms, id |-> w.id, statement |-> w.statement,
                 retries |-> w.retries]
         /\ w.kind \in {"row", "analyzeAndSync", "analyze"} /\ w.id \in Nat /\ w.retries \in 0..Retries
<1>1. w \in Workers
  BY DEF TypeOK
<1>2. Statement(w.statement)
  BY <1>1 DEF Workers, Statement
<1> QED BY <1>1, <1>2 DEF Workers, InTurn, WorkersInTurn

\* Whatever is read of the file, when the milestones `done' are complete and nothing
\* of them is under way any more.
LEMMA ReadKeeps ==
  ASSUME Inv, Same, db' = db,
         NEW l \in line..Len(Log), NEW done \in SUBSET DOMAIN taken,
         NEW others, DOMAIN others = DOMAIN taken \ done,
         \A o \in DOMAIN others : others[o] = taken[o],
         \A w \in flight : w.ms \notin done, \A m \in done : IsComplete(m),
         ReadTo(l, others, done),
         inbox' \in Seq(Events), Apart(inbox'), ToSet(inbox') \subseteq ToSet(inbox),
         \A e \in ToSet(inbox') : e.ms \notin done
  PROVE  /\ line' \in 0..Len(Log)
         /\ DOMAIN taken' \subseteq Lines /\ \A m \in DOMAIN taken' : taken'[m] \in 0..Len(Messages[m])
         /\ flight' \subseteq Workers /\ anyError' \in [Lines -> BOOLEAN]
         /\ reports' \in [Lines -> 0..1]
         /\ AtMostOneDriver' /\ InTurn' /\ LinesRead'
         /\ \A m \in Lines : reports'[m] = 1 => Skips(m)' \/ IsComplete(m)'
         /\ DOMAIN taken' = Wanted(l) \cup (DOMAIN taken \ done)
         /\ {w.ms : w \in flight'} = Wanted(l) \cup {w.ms : w \in flight}
<1>. DEFINE W == Wanted(l)
            New == IF mode = "All" THEN UNION {ChunkWorkers(m, 1, FirstChunk(m)) : m \in W}
                                   ELSE {AnalyzeWorker(m) : m \in W}
            Seen == {Log[i] : i \in line + 1..l}
<1>1. TypeOK /\ OneDriver /\ AtMostOneDriver /\ InTurn /\ LinesRead /\ ReportsExact
  BY DEF Inv, ImporterInv, OneDriver, LinesInTurn
<1>2. line \in 0..Len(Log) /\ Len(Log) \in Nat /\ l \in 0..Len(Log)
  BY <1>1, LogIs DEF TypeOK
<1>3. /\ W \subseteq Lines /\ W \subseteq Seen /\ W \cap DOMAIN taken = {}
      /\ \A m \in W : ~Skips(m)
      /\ \A m \in Seen : m \notin W => Skips(m)
  <2>1. W \subseteq Lines
    BY <1>2, WantedGrows
  <2>2. W \subseteq Seen /\ (\A m \in W : ~Skips(m)) /\ \A m \in Seen : m \notin W => Skips(m)
    BY DEF Wanted
  <2>3. \A i \in line + 1..l : i \in 1..Len(Log) /\ ~(i <= line)
    BY <1>2
  <2>4. \A m \in Seen : m \notin DOMAIN taken
    BY <1>1, <2>3 DEF LinesRead
  <2> QED BY <2>1, <2>2, <2>4
<1>4. \A m \in W : FirstChunk(m) \in 1..Len(Messages[m]) /\ 1 \in 1..Len(Messages[m])
  BY <1>3, MessagesAre DEF FirstChunk, LeastOf
<1>5. /\ New \subseteq Workers
      /\ \A w \in New :
           /\ w.ms \in W
           /\ w.kind = "row" => /\ mode = "All" /\ w.id \in 1..FirstChunk(w.ms)
                                /\ w.statement \in Statements(w.ms, w.id)
           /\ w.kind # "row" => w.kind = "analyze" /\ mode # "All" /\ w.statement = {AnalyticRow(w.ms)}
      /\ \A m \in W : \E w \in New : w.ms = m
      /\ \A v, w \in New : v.ms = w.ms => v = w \/ (v.kind = "row" /\ w.kind = "row")
      /\ mode = "All" => \A m \in W : \A k \in 1..FirstChunk(m) : \A s \in Statements(m, k) :
           \E v \in New : v.kind = "row" /\ v.ms = m /\ v.id = k /\ v.statement = s
  <2>1. CASE mode = "All"
    <3>1. New = UNION {ChunkWorkers(m, 1, FirstChunk(m)) : m \in W}
      BY <2>1
    <3>2. ASSUME NEW m \in W
          PROVE  /\ ChunkWorkers(m, 1, FirstChunk(m)) \subseteq Workers
                 /\ \E w \in ChunkWorkers(m, 1, FirstChunk(m)) : TRUE
                 /\ \A w \in ChunkWorkers(m, 1, FirstChunk(m)) :
                      /\ w.kind = "row" /\ w.ms = m /\ w.id \in 1..FirstChunk(m)
                      /\ w.statement \in Statements(m, w.id)
                 /\ \A k \in 1..FirstChunk(m) : \A s \in Statements(m, k) :
                      \E w \in ChunkWorkers(m, 1, FirstChunk(m)) : w.id = k /\ w.statement = s
      BY <1>3, <1>4, ChunkWorkersAre
    <3>. HIDE DEF New, W
    <3>3. \A w \in New : \E m \in W : w \in ChunkWorkers(m, 1, FirstChunk(m))
      BY <3>1
    <3>4. \A m \in W : \A w \in ChunkWorkers(m, 1, FirstChunk(m)) : w \in New
      BY <3>1
    <3>5. New \subseteq Workers
      BY <3>2, <3>3
    <3>6. \A w \in New : /\ w.ms \in W /\ w.kind = "row" /\ w.id \in 1..FirstChunk(w.ms)
                         /\ w.statement \in Statements(w.ms, w.id)
      BY <3>2, <3>3
    <3>7. \A m \in W : \E w \in New : w.ms = m
      BY <3>2, <3>4
    <3>8. \A m \in W : \A k \in 1..FirstChunk(m) : \A s \in Statements(m, k) :
            \E v \in New : v.kind = "row" /\ v.ms = m /\ v.id = k /\ v.statement = s
      BY <3>2, <3>4
    <3> QED BY <2>1, <3>5, <3>6, <3>7, <3>8
  <2>2. CASE mode # "All"
    <3>1. New = {AnalyzeWorker(m) : m \in W}
      BY <2>2
    <3>2. \A m \in W : /\ AnalyzeWorker(m) \in Workers /\ AnalyzeWorker(m).ms = m
                       /\ AnalyzeWorker(m).kind = "analyze"
                       /\ AnalyzeWorker(m).statement = {AnalyticRow(m)}
      BY <1>3, MarkWorkersAre
    <3>. HIDE DEF New, W
    <3> QED BY <2>2, <3>1, <3>2
  <2> QED BY <2>1, <2>2
<1>6. /\ taken' = [m \in W \cup DOMAIN others |->
                     IF m \notin W THEN others[m] ELSE IF mode = "All" THEN FirstChunk(m) ELSE 0]
      /\ flight' = flight \cup New
      /\ anyError' = [m \in Lines |-> m \notin W /\ anyError[m]]
      /\ line' = l
      /\ reports' = [m \in Lines |-> IF m \in done \cup (Seen \ W) THEN reports[m] + 1 ELSE reports[m]]
  BY DEF ReadTo, HandleMilestoneData, Report
<1>. HIDE DEF W, New, Seen
<1>7. /\ DOMAIN taken' = W \cup (DOMAIN taken \ done)
      /\ \A m \in DOMAIN taken \ done : taken'[m] = taken[m]
      /\ \A m \in W : taken'[m] = IF mode = "All" THEN FirstChunk(m) ELSE 0
  <2>1. \A m \in DOMAIN taken \ done : m \notin W /\ m \in DOMAIN others
    BY <1>3
  <2> QED BY <1>6, <2>1
<1>8. /\ DOMAIN taken' \subseteq Lines
      /\ \A m \in DOMAIN taken' : taken'[m] \in 0..Len(Messages[m])
  <2>1. DOMAIN taken \subseteq Lines /\ \A m \in DOMAIN taken : taken[m] \in 0..Len(Messages[m])
    BY <1>1 DEF TypeOK
  <2>2. \A m \in W : 0 \in 0..Len(Messages[m]) /\ FirstChunk(m) \in 0..Len(Messages[m])
    BY <1>3, <1>4, MessagesAre
  <2> QED BY <1>3, <1>7, <2>1, <2>2
<1>9. /\ \A w \in flight : w.ms \in DOMAIN taken \ done
      /\ \A e \in ToSet(inbox') : e.ms = 0 \/ e.ms \in DOMAIN taken \ done
      /\ \A e \in ToSet(inbox') : e \in Events
  <2>1. \A w \in flight : w.ms \in DOMAIN taken
    BY <1>1 DEF AtMostOneDriver, UnderWay
  <2>2. \A e \in ToSet(inbox') : e \in Events
    BY LenProperties, ElementOfSeq DEF ToSet
  <2>3. \A e \in ToSet(inbox') : e = Event("Shutdown", 0) \/ e.ms \in DOMAIN taken
    BY <1>1 DEF AtMostOneDriver, UnderWay
  <2>4. Event("Shutdown", 0).ms = 0
    BY DEF Event
  <2> QED BY <2>1, <2>2, <2>3, <2>4
<1>10. {w.ms : w \in flight'} = W \cup {w.ms : w \in flight}
  BY <1>5, <1>6
<1>11. AtMostOneDriver'
  <2>1. \A v, w \in flight' : v.ms = w.ms => v = w \/ (v.kind = "row" /\ w.kind = "row")
    <3>1. \A v, w \in flight : v.ms = w.ms => v = w \/ (v.kind = "row" /\ w.kind = "row")
      BY <1>1 DEF AtMostOneDriver
    <3>2. \A v \in flight, w \in New : v.ms # w.ms
      BY <1>3, <1>5, <1>9
    <3> QED BY <1>5, <1>6, <3>1, <3>2
  <2>2. \A w \in flight', e \in ToSet(inbox') : w.ms # e.ms
    <3>1. \A w \in flight, e \in ToSet(inbox') : w.ms # e.ms
      BY <1>1 DEF AtMostOneDriver
    <3>2. \A w \in New : w.ms \in W /\ w.ms # 0
      BY <1>3, <1>5, LinesAre
    <3>3. \A w \in New, e \in ToSet(inbox') : w.ms # e.ms
      BY <1>3, <1>9, <3>2
    <3> QED BY <1>6, <3>1, <3>3
  <2>3. UnderWay' \subseteq DOMAIN taken'
    <3>1. \A e \in ToSet(inbox') \ {Event("Shutdown", 0)} : e.ms \in DOMAIN taken \ done
      <4>1. \A e \in ToSet(inbox') : e = Event("Shutdown", 0) \/ e.ms \in DOMAIN taken
        BY <1>1 DEF AtMostOneDriver, UnderWay
      <4> QED BY <4>1
    <3>2. \A m \in {w.ms : w \in flight'} : m \in DOMAIN taken'
      BY <1>7, <1>9, <1>10
    <3> QED BY <1>7, <3>1, <3>2 DEF UnderWay
  <2>4. Apart(inbox)'
    BY DEF Apart
  <2> QED BY <2>1, <2>2, <2>3, <2>4 DEF AtMostOneDriver
<1>16. /\ \A m : Skips(m)' <=> Skips(m)
       /\ \A m : IsComplete(m)' <=> IsComplete(m)
       /\ mode' = mode /\ db' = db
       /\ mode \in {"All", "Analytics"}
  BY <1>1, SkipsSame DEF Same, IsComplete, TypeOK, Modes
<1>17. \A w \in flight : taken'[w.ms] = taken[w.ms] /\ w.ms \in Lines /\ w.ms \notin W
  <2>1. \A m \in DOMAIN taken : m \in Lines
    BY <1>1 DEF TypeOK
  <2> QED BY <1>3, <1>7, <1>9, <2>1
<1>12. InTurn'
  <2>1. WorkersInTurn'
    <3>. SUFFICES ASSUME NEW w \in flight'
                  PROVE  /\ ~Skips(w.ms)'
                         /\ w.kind = "row" =>
                              /\ mode = "All" /\ w.id \in 1..taken'[w.ms]
                              /\ w.statement \in Statements(w.ms, w.id)
                         /\ w.kind = "analyzeAndSync" =>
                              /\ mode = "All" /\ Keys(RowsOf(w.ms)) \subseteq Keys(db)
                              /\ \/ w.statement = {AnalyticRow(w.ms)}
                                 \/ w.statement = {SyncRow(w.ms)} /\ AnalyticRow(w.ms) \in db
                         /\ w.kind = "analyze" =>
                              mode = "Analytics" /\ w.statement = {AnalyticRow(w.ms)}
      BY <1>16, Zenon DEF WorkersInTurn
    <3>1. CASE w \in flight
      BY <1>1, <1>16, <1>17, <3>1, Zenon DEF InTurn, WorkersInTurn
    <3>2. CASE w \in New
      BY <1>3, <1>5, <1>7, <1>16, <3>2
    <3>3. w \in flight \/ w \in New
      BY <1>6
    <3> QED BY <3>1, <3>2, <3>3, Zenon
  <2>2. EventsInTurn'
    <3>1. ASSUME NEW e \in ToSet(inbox')
          PROVE  /\ e.type = "CqlOk" => IsComplete(e.ms)'
                 /\ e.type = "ProcessMore" => mode = "All" /\ TakenStored(e.ms)'
      <4>1. /\ e.type = "CqlOk" => IsComplete(e.ms)
            /\ e.type = "ProcessMore" => mode = "All" /\ TakenStored(e.ms)
        BY <1>1 DEF InTurn, EventsInTurn
      <4>2. ASSUME e.type = "ProcessMore" PROVE TakenStored(e.ms)'
        <5>1. e.ms # 0
          BY <1>9, <4>2, LinesAre DEF Events
        <5>2. taken'[e.ms] = taken[e.ms]
          BY <1>7, <1>9, <5>1
        <5> QED BY <1>16, <4>1, <4>2, <5>2, Zenon DEF TakenStored
      <4> QED BY <1>16, <4>1, <4>2, Zenon
    <3>2. ToSet(inbox)' = ToSet(inbox')
      BY DEF ToSet
    <3> QED BY <1>16, <3>1, <3>2, Zenon DEF EventsInTurn
  <2>3. ChunksInTurn'
    <3>. SUFFICES ASSUME NEW w \in flight', w.kind = "row"
                  PROVE  \/ anyError'[w.ms]
                         \/ \A k \in 1..taken'[w.ms] : \A s \in Statements(w.ms, k) :
                              Keys(s) \subseteq Keys(db) \/ Writing(w.ms, k, s)'
      BY <1>16, Zenon DEF ChunksInTurn
    <3>1. CASE w \in flight
      <4>1. anyError'[w.ms] = anyError[w.ms]
        <5>1. anyError'[w.ms] = (w.ms \notin W /\ anyError[w.ms])
          BY <1>6, <1>17, <3>1, Zenon
        <5>2. anyError[w.ms] \in BOOLEAN
          BY <1>1, <1>17, <3>1 DEF TypeOK
        <5> QED BY <1>17, <3>1, <5>1, <5>2, Zenon
      <4>2. \/ anyError[w.ms]
            \/ \A k \in 1..taken[w.ms] : \A s \in Statements(w.ms, k) :
                 Keys(s) \subseteq Keys(db) \/ Writing(w.ms, k, s)
        BY <1>1, <3>1, Zenon DEF InTurn, ChunksInTurn
      <4>3. \A k, s : Writing(w.ms, k, s) => Writing(w.ms, k, s)'
        BY <1>6 DEF Writing
      <4> QED BY <1>17, <3>1, <4>1, <4>2, <4>3, Zenon
    <3>2. CASE w \in New
      <4>1. w.ms \in W /\ mode = "All"
        BY <1>5, <3>2, Zenon
      <4>2. taken'[w.ms] = FirstChunk(w.ms)
        BY <1>7, <4>1
      <4>3. \A k \in 1..FirstChunk(w.ms) : \A s \in Statements(w.ms, k) :
              \E v \in New : v.kind = "row" /\ v.ms = w.ms /\ v.id = k /\ v.statement = s
        <5>1. \A m \in W : \A k \in 1..FirstChunk(m) : \A s \in Statements(m, k) :
                \E v \in New : v.kind = "row" /\ v.ms = m /\ v.id = k /\ v.statement = s
          BY <1>5, <4>1
        <5> QED BY <4>1, <5>1
      <4>4. \A v \in New : v \in flight'
        BY <1>6
      <4>5. \A k \in 1..FirstChunk(w.ms) : \A s \in Statements(w.ms, k) : Writing(w.ms, k, s)'
        BY <4>3, <4>4 DEF Writing
      <4> QED BY <4>2, <4>5, Zenon
    <3>3. w \in flight \/ w \in New
      BY <1>6
    <3> QED BY <3>1, <3>2, <3>3, Zenon
  <2>4. SyncAfterRows'
    BY <1>1, <1>16, Zenon DEF InTurn, SyncAfterRows
  <2> QED BY <2>1, <2>2, <2>3, <2>4 DEF InTurn
<1>13. LinesRead' /\ reports' \in [Lines -> 0..1]
  <2>1. ASSUME NEW i \in 1..Len(Log)
        PROVE  IF i <= l THEN reports'[Log[i]] = (IF Log[i] \in DOMAIN taken' THEN 0 ELSE 1)
                         ELSE reports'[Log[i]] = 0 /\ Log[i] \notin DOMAIN taken'
    <3>1. /\ Log[i] \in Lines
          /\ IF i <= line THEN reports[Log[i]] = (IF Log[i] \in DOMAIN taken THEN 0 ELSE 1)
                          ELSE reports[Log[i]] = 0 /\ Log[i] \notin DOMAIN taken
      BY <1>1, LogIs DEF LinesRead
    <3>2. Log[i] \in Seen <=> i \in line + 1..l
      <4>1. \A j \in line + 1..l : j \in 1..Len(Log)
        BY <1>2
      <4> QED BY <4>1, LogIs DEF Seen
    <3>3. reports'[Log[i]] = IF Log[i] \in done \cup (Seen \ W) THEN reports[Log[i]] + 1
                             ELSE reports[Log[i]]
      BY <1>6, <3>1
    <3>4. CASE i <= line
      <4>1. Log[i] \notin Seen /\ Log[i] \notin W /\ i <= l
        BY <1>2, <1>3, <3>2, <3>4
      <4>2. Log[i] \in DOMAIN taken' <=> Log[i] \in DOMAIN taken /\ Log[i] \notin done
        BY <1>7, <4>1
      <4> QED BY <3>1, <3>3, <3>4, <4>1, <4>2
    <3>5. CASE line < i /\ i <= l
      <4>1. Log[i] \in Seen /\ Log[i] \notin DOMAIN taken /\ reports[Log[i]] = 0
        BY <1>2, <3>1, <3>2, <3>5
      <4> QED BY <1>7, <3>3, <3>5, <4>1
    <3>6. CASE l < i
      <4>1. Log[i] \notin Seen /\ Log[i] \notin W /\ Log[i] \notin DOMAIN taken /\ reports[Log[i]] = 0
        BY <1>2, <1>3, <3>1, <3>2, <3>6
      <4> QED BY <1>2, <1>7, <3>3, <3>6, <4>1
    <3> QED BY <1>2, <3>4, <3>5, <3>6
  <2>2. \A m \in DOMAIN taken' : ~Skips(m)'
    <3>1. \A m \in DOMAIN taken : ~Skips(m)
      BY <1>1 DEF LinesRead
    <3> QED BY <1>3, <1>7, <3>1, SkipsSame
  <2>3. reports' \in [Lines -> 0..1]
    <3>1. \A m \in Lines : reports'[m] \in 0..1
      BY <2>1, LogIs
    <3> QED BY <1>6, <3>1
  <2> QED BY <1>6, <2>1, <2>2, <2>3 DEF LinesRead
<1>14. ASSUME NEW m \in Lines, reports'[m] = 1 PROVE Skips(m)' \/ IsComplete(m)'
  <2>1. reports[m] = 1 => Skips(m) \/ IsComplete(m)
    BY <1>1 DEF ReportsExact
  <2>2. m \in done \/ m \in Seen \ W \/ reports[m] = 1
    BY <1>6, <1>14
  <2>3. Skips(m) \/ IsComplete(m)
    BY <1>3, <2>1, <2>2
  <2> QED BY <2>3, SkipsSame DEF IsComplete, Same
<1>15. flight' \subseteq Workers /\ anyError' \in [Lines -> BOOLEAN] /\ line' \in 0..Len(Log)
  <2>1. flight' \subseteq Workers
    BY <1>1, <1>5, <1>6 DEF TypeOK
  <2>2. anyError' \in [Lines -> BOOLEAN]
    BY <1>6
  <2> QED BY <1>2, <1>6, <2>1, <2>2
<1> QED BY <1>7, <1>8, <1>10, <1>11, <1>12, <1>13, <1>14, <1>15 DEF W

\* The parts of the invariant, put together after a step.
LEMMA Assembles ==
  ASSUME Inv, Same,
         line' \in 0..Len(Log), DOMAIN taken' \subseteq Lines,
         \A m \in DOMAIN taken' : taken'[m] \in 0..Len(Messages[m]),
         flight' \subseteq Workers, inbox' \in Seq(Events), anyError' \in [Lines -> BOOLEAN],
         reports' \in [Lines -> 0..1], faults' \in 0..MaxFaults,
         status' \in {"Initializing", "Running", "Stopping", "Stopped"}, handle' \in BOOLEAN,
         outcome' \in {"none", "done", "failed"},
         AtMostOneDriver', InTurn', LinesRead',
         \A m \in Lines : reports'[m] = 1 => Skips(m)' \/ IsComplete(m)',
         status' = "Running" => /\ UnderWay' = DOMAIN taken'
                                /\ Cardinality(DOMAIN taken') \in 1..Parallelism,
         outcome' = "none" <=> status' # "Stopped",
         outcome' = "done" => line' = Len(Log) /\ DOMAIN taken' = {},
         status' = "Initializing" => line' = 0 /\ DOMAIN taken' = {} /\ flight' = {}
  PROVE  Inv'
<1>1. TypeOK'
  <2>1. mode' \in Modes /\ importRange' \in Ranges /\ completed' \subseteq Lines
    BY DEF Inv, ImporterInv, TypeOK, Same
  <2>2. resume' \in BOOLEAN
    BY Zenon DEF Inv, ImporterInv, TypeOK, Same
  <2> QED BY <2>1, <2>2, Zenon DEF TypeOK
<1>2. OneDriver'
  BY Zenon DEF OneDriver
<1>3. LinesInTurn'
  BY Zenon DEF LinesInTurn
<1>4. outcome' = "done" => \A m \in Lines : reports'[m] = 1
  <2>. SUFFICES ASSUME outcome' = "done", NEW m \in Lines PROVE reports'[m] = 1
    OBVIOUS
  <2>1. PICK i \in 1..Len(Log) : m = Log[i]
    BY LogIs
  <2>2. i <= line'
    BY LogIs
  <2>3. IF i <= line' THEN reports'[Log[i]] = (IF Log[i] \in DOMAIN taken' THEN 0 ELSE 1)
                      ELSE reports'[Log[i]] = 0 /\ Log[i] \notin DOMAIN taken'
    BY DEF LinesRead
  <2> QED BY <2>1, <2>2, <2>3
<1>5. ReportsExact'
  BY <1>4, Zenon DEF ReportsExact
<1> QED BY <1>1, <1>2, <1>3, <1>5, Zenon DEF Inv, ImporterInv

\* An event less, or a request to shut down more, and nothing else of the work.
LEMMA QuietKeeps ==
  ASSUME Inv, Same, UNCHANGED <<db, line, taken, flight, anyError, reports>>,
         inbox' \in Seq(Events), Apart(inbox'),
         \A e \in ToSet(inbox') : e \in ToSet(inbox) \/ e = Event("Shutdown", 0)
  PROVE  /\ line' \in 0..Len(Log)
         /\ DOMAIN taken' \subseteq Lines /\ \A m \in DOMAIN taken' : taken'[m] \in 0..Len(Messages[m])
         /\ flight' \subseteq Workers /\ anyError' \in [Lines -> BOOLEAN]
         /\ reports' \in [Lines -> 0..1]
         /\ AtMostOneDriver' /\ InTurn' /\ LinesRead'
         /\ \A m \in Lines : reports'[m] = 1 => Skips(m)' \/ IsComplete(m)'
<1>1. TypeOK /\ AtMostOneDriver /\ InTurn /\ LinesRead /\ ReportsExact
  BY DEF Inv, ImporterInv, OneDriver, LinesInTurn
<1>2. /\ \A m : Skips(m)' <=> Skips(m)
      /\ \A m : IsComplete(m)' <=> IsComplete(m)
      /\ mode' = mode /\ db' = db
  BY SkipsSame DEF Same, IsComplete
<1>3. /\ Event("Shutdown", 0).ms = 0 /\ Event("Shutdown", 0).type = "Shutdown"
      /\ ToSet(inbox)' = ToSet(inbox')
  BY DEF Event, ToSet
<1>4. \A w \in flight : w.ms \in Lines /\ w.ms # 0
  BY <1>1, WorkerIs, LinesAre
<1>5. AtMostOneDriver'
  <2>1. Apart(inbox)'
    BY DEF Apart
  <2>2. \A v, w \in flight' : v.ms = w.ms => v = w \/ (v.kind = "row" /\ w.kind = "row")
    BY <1>1 DEF AtMostOneDriver
  <2>3. \A w \in flight', e \in ToSet(inbox') : w.ms # e.ms
    BY <1>1, <1>3, <1>4 DEF AtMostOneDriver
  <2>4. UnderWay' \subseteq DOMAIN taken'
    BY <1>1, <1>3 DEF AtMostOneDriver, UnderWay
  <2> QED BY <1>3, <2>1, <2>2, <2>3, <2>4 DEF AtMostOneDriver
<1>6. InTurn'
  <2>1. WorkersInTurn'
    BY <1>1, <1>2, Zenon DEF InTurn, WorkersInTurn
  <2>2. EventsInTurn'
    <3>1. \A m : TakenStored(m) => TakenStored(m)'
      BY DEF TakenStored
    <3>2. ASSUME NEW e \in ToSet(inbox')
          PROVE  /\ e.type = "CqlOk" => IsComplete(e.ms)'
                 /\ e.type = "ProcessMore" => mode' = "All" /\ TakenStored(e.ms)'
      <4>1. CASE e \in ToSet(inbox)
        BY <1>1, <1>2, <3>1, <4>1, Zenon DEF InTurn, EventsInTurn
      <4>2. CASE e = Event("Shutdown", 0)
        BY <1>3, <4>2
      <4> QED BY <4>1, <4>2
    <3> QED BY <1>3, <3>2, Zenon DEF EventsInTurn
  <2>3. ChunksInTurn'
    <3>1. \A m, k, s : Writing(m, k, s)' <=> Writing(m, k, s)
      BY DEF Writing
    <3> QED BY <1>1, <3>1, Zenon DEF InTurn, ChunksInTurn
  <2>4. SyncAfterRows'
    BY <1>1, <1>2, Zenon DEF InTurn, SyncAfterRows
  <2> QED BY <2>1, <2>2, <2>3, <2>4 DEF InTurn
<1>7. LinesRead'
  BY <1>1, <1>2, Zenon DEF LinesRead
<1>8. \A m \in Lines : reports'[m] = 1 => Skips(m)' \/ IsComplete(m)'
  BY <1>1, <1>2, Zenon DEF ReportsExact
<1> QED BY <1>1, <1>5, <1>6, <1>7, <1>8 DEF TypeOK

-----------------------------------------------------------------------------
(* The steps of the importer. *)

LEMMA InitKeeps == ASSUME Init PROVE Inv
<1>0. DOMAIN taken = {} /\ inbox = <<>> /\ ToSet(inbox) = {} /\ DOMAIN inbox = {}
  BY DEF Init, ToSet
<1>1. TypeOK
  <2>1. PICK s \in Stored : completed = IF resume THEN s ELSE {}
    BY DEF Init
  <2>2. completed \subseteq Lines
    BY <2>1 DEF Lines
  <2>3. mode \in Modes /\ importRange \in Ranges
    BY DEF Init
  <2>4. resume \in BOOLEAN
    BY Zenon DEF Init
  <2>5. handle \in BOOLEAN
    BY DEF Init
  <2>6. status \in {"Initializing", "Running", "Stopping", "Stopped"} /\ outcome \in {"none", "done", "failed"}
    BY DEF Init
  <2>7. line \in 0..Len(Log) /\ faults \in 0..MaxFaults
    BY LogIs DEF Init
  <2>8. flight \subseteq Workers
    BY DEF Init
  <2>9. inbox \in Seq(Events)
    BY <1>0, EmptySeq
  <2>10. anyError \in [Lines -> BOOLEAN] /\ reports \in [Lines -> 0..1]
    BY DEF Init
  <2>11. DOMAIN taken \subseteq Lines /\ \A m \in DOMAIN taken : taken[m] \in 0..Len(Messages[m])
    BY <1>0
  <2> QED BY <2>2, <2>3, <2>4, <2>5, <2>6, <2>7, <2>8, <2>9, <2>10, <2>11, Zenon DEF TypeOK
<1>2. OneDriver
  BY <1>0 DEF OneDriver, AtMostOneDriver, Apart, UnderWay, Init
<1>3. InTurn
  <2>1. WorkersInTurn /\ EventsInTurn /\ ChunksInTurn
    BY <1>0 DEF WorkersInTurn, EventsInTurn, ChunksInTurn, Init
  <2>2. ASSUME NEW m \in Lines, SyncRow(m) \in db PROVE Keys(RowsOf(m)) \subseteq Keys(db)
    <3>1. PICK s \in Stored : db = UNION {RowsOf(n) \cup {AnalyticRow(n), SyncRow(n)} : n \in s}
      BY DEF Init
    <3>2. PICK n \in s : SyncRow(m) \in RowsOf(n) \cup {AnalyticRow(n), SyncRow(n)}
      BY <2>2, <3>1
    <3>3. SyncRow(m) \notin RowsOf(n)
      <4>1. \A r \in RowsOf(n) : r.key[1] \notin Marks
        BY StatementRows DEF RowsOf, Statements
      <4> QED BY <4>1, MarkRows
    <3>4. SyncRow(m) # AnalyticRow(n)
      BY MarkRows
    <3>5. m = n
      BY <3>2, <3>3, <3>4, MarkRows
    <3>6. RowsOf(m) \subseteq db
      BY <3>1, <3>5
    <3> QED BY <3>6 DEF Keys
  <2> QED BY <2>1, <2>2 DEF InTurn, SyncAfterRows
<1>4. LinesInTurn
  <2>1. LinesRead
    <3>1. \A i \in 1..Len(Log) : ~(i <= line) /\ reports[Log[i]] = 0
      BY LogIs DEF Init
    <3> QED BY <1>0, <3>1 DEF LinesRead
  <2> QED BY <1>0, <2>1 DEF LinesInTurn, Init
<1>5. ReportsExact
  BY DEF ReportsExact, Init
<1> QED BY <1>1, <1>2, <1>3, <1>4, <1>5 DEF Inv, ImporterInv

\* What the importer does first, reading up to line l.
LEMMA StartKeeps ==
  ASSUME Inv, Same, db' = db, status = "Initializing",
         NEW l \in line..Len(Log), ReadTo(l, taken, {}),
         faults' \in 0..MaxFaults,
         \/ Stop("failed")
         \/ Stop("done") /\ l = Len(Log) /\ Wanted(l) = {}
         \/ /\ status' = "Running" /\ UNCHANGED <<handle, outcome, inbox>>
            /\ Wanted(l) # {} /\ Cardinality(Wanted(l)) <= Parallelism
  PROVE  Inv'
<1>1. TypeOK /\ OneDriver /\ AtMostOneDriver /\ LinesInTurn
  BY DEF Inv, ImporterInv, OneDriver
<1>2. line = 0 /\ DOMAIN taken = {} /\ flight = {} /\ outcome = "none"
  BY <1>1 DEF LinesInTurn
<1>3. inbox \in Seq(Events) /\ Apart(inbox)
  BY <1>1 DEF TypeOK, AtMostOneDriver
<1>4. inbox' = inbox \/ inbox' = <<>>
  BY Zenon DEF Stop
<1>5. /\ inbox' \in Seq(Events) /\ Apart(inbox')
      /\ ToSet(inbox') \subseteq ToSet(inbox) /\ \A e \in ToSet(inbox') : e.ms \notin {}
  <2>1. CASE inbox' = <<>>
    BY <2>1 DEF ToSet, Apart
  <2> QED BY <1>3, <1>4, <2>1
<1>6. /\ line' \in 0..Len(Log)
      /\ DOMAIN taken' \subseteq Lines /\ \A m \in DOMAIN taken' : taken'[m] \in 0..Len(Messages[m])
      /\ flight' \subseteq Workers /\ anyError' \in [Lines -> BOOLEAN]
      /\ reports' \in [Lines -> 0..1]
      /\ AtMostOneDriver' /\ InTurn' /\ LinesRead'
      /\ \A m \in Lines : reports'[m] = 1 => Skips(m)' \/ IsComplete(m)'
      /\ DOMAIN taken' = Wanted(l) \cup (DOMAIN taken \ {})
      /\ {w.ms : w \in flight'} = Wanted(l) \cup {w.ms : w \in flight}
  <2>1. {} \in SUBSET DOMAIN taken /\ DOMAIN taken = DOMAIN taken \ {}
    OBVIOUS
  <2>2. /\ \A o \in DOMAIN taken : taken[o] = taken[o]
        /\ \A w \in flight : w.ms \notin {}
        /\ \A m \in {} : IsComplete(m)
    OBVIOUS
  <2> QED BY <1>5, <2>1, <2>2, ReadKeeps, Zenon
<1>7. DOMAIN taken' = Wanted(l) /\ line' = l /\ {w.ms : w \in flight'} = Wanted(l)
  BY <1>2, <1>6 DEF ReadTo
<1>8. status' = "Running" => /\ UnderWay' = DOMAIN taken'
                             /\ Cardinality(DOMAIN taken') \in 1..Parallelism
  <2>. SUFFICES ASSUME status' = "Running" PROVE /\ UnderWay' = DOMAIN taken'
                                                 /\ Cardinality(DOMAIN taken') \in 1..Parallelism
    OBVIOUS
  <2>1. Wanted(l) # {} /\ Cardinality(Wanted(l)) <= Parallelism /\ inbox' = inbox
    BY DEF Stop
  <2>2. IsFiniteSet(Wanted(l)) /\ Cardinality(Wanted(l)) \in Nat
    <3>1. line \in 0..Len(Log)
      BY <1>1 DEF TypeOK
    <3> QED BY <3>1, WantedGrows
  <2>3. Cardinality(Wanted(l)) # 0
    BY <2>1, <2>2, FS_EmptySet
  <2>4. \A e \in ToSet(inbox) : e = Event("Shutdown", 0)
    BY <1>1, <1>2 DEF AtMostOneDriver, UnderWay
  <2>5. UnderWay' = Wanted(l)
    BY <1>7, <2>1, <2>4 DEF UnderWay, ToSet
  <2> QED BY <1>7, <2>1, <2>2, <2>3, <2>5
<1>9. /\ status' \in {"Initializing", "Running", "Stopping", "Stopped"}
      /\ outcome' \in {"none", "done", "failed"}
      /\ outcome' = "none" <=> status' # "Stopped"
  BY <1>2 DEF Stop
<1>10. handle' \in BOOLEAN
  <2>1. handle \in BOOLEAN
    BY <1>1, Zenon DEF TypeOK
  <2>2. handle' = handle \/ handle' = FALSE
    BY Zenon DEF Stop
  <2> QED BY <2>1, <2>2
<1>11. outcome' = "done" => line' = Len(Log) /\ DOMAIN taken' = {}
  BY <1>2, <1>7 DEF Stop
<1>12. status' # "Initializing"
  BY DEF Stop
<1> QED BY <1>5, <1>6, <1>8, <1>9, <1>10, <1>11, <1>12, Assembles, Zenon

\* The milestone of an event is in progress, and nothing else of it is under way.
LEMMA EventIs ==
  ASSUME Inv, inbox # <<>>, Head(inbox).type # "Shutdown"
  PROVE  /\ Head(inbox) \in ToSet(inbox) /\ Head(inbox) \in Events
         /\ Head(inbox).ms \in DOMAIN taken /\ Head(inbox).ms \in Lines /\ ~Skips(Head(inbox).ms)
         /\ \A w \in flight : w.ms # Head(inbox).ms
         /\ Tail(inbox) \in Seq(Events) /\ Apart(Tail(inbox))
         /\ ToSet(Tail(inbox)) = ToSet(inbox) \ {Head(inbox)}
         /\ \A e \in ToSet(Tail(inbox)) : e.ms # Head(inbox).ms
<1>1. TypeOK /\ AtMostOneDriver /\ LinesRead
  BY DEF Inv, ImporterInv, OneDriver, LinesInTurn
<1>2. inbox \in Seq(Events) /\ Apart(inbox)
  BY <1>1 DEF TypeOK, AtMostOneDriver
<1>3. /\ Head(inbox) \in Events /\ Head(inbox) \in ToSet(inbox)
      /\ Tail(inbox) \in Seq(Events) /\ Apart(Tail(inbox))
      /\ ToSet(Tail(inbox)) = ToSet(inbox) \ {Head(inbox)}
      /\ \A e \in ToSet(Tail(inbox)) : e.ms # Head(inbox).ms
  BY <1>2, InboxPops, Zenon
<1>. DEFINE h == Head(inbox)
<1>. HIDE DEF h
<1>4. h \in Events /\ h \in ToSet(inbox) /\ h.type # "Shutdown"
  BY <1>3 DEF h
<1>5. h # Event("Shutdown", 0)
  BY <1>4 DEF Event
<1>6. h.ms \in DOMAIN taken /\ h.ms \in Lines
  BY <1>1, <1>4, <1>5 DEF AtMostOneDriver, UnderWay, TypeOK
<1>7. \A w \in flight : w.ms # h.ms
  BY <1>1, <1>4 DEF AtMostOneDriver
<1>8. ~Skips(h.ms)
  BY <1>1, <1>6 DEF LinesRead
<1> QED BY <1>3, <1>6, <1>7, <1>8 DEF h

\* The event of a milestone is handled, and the milestone not in progress any more.
LEMMA OthersUnderWay ==
  ASSUME Inv, inbox # <<>>, Head(inbox).type # "Shutdown", inbox' = Tail(inbox)
  PROVE  {e.ms : e \in ToSet(inbox') \ {Event("Shutdown", 0)}} \cup {w.ms : w \in flight}
           = UnderWay \ {Head(inbox).ms}
<1>. DEFINE h == Head(inbox)
            t == ToSet(Tail(inbox))
<1>1. /\ h \in ToSet(inbox) /\ t = ToSet(inbox) \ {h}
      /\ \A w \in flight : w.ms # h.ms
      /\ \A e \in t : e.ms # h.ms
  BY EventIs, Zenon
<1>2. h # Event("Shutdown", 0)
  BY DEF Event
<1>. HIDE DEF h, t
<1>3. ToSet(inbox') = t
  BY DEF t
<1>4. UnderWay = {w.ms : w \in flight} \cup {e.ms : e \in t \ {Event("Shutdown", 0)}} \cup {h.ms}
  BY <1>1, <1>2 DEF UnderWay
<1>5. {w.ms : w \in flight} \cup {e.ms : e \in t \ {Event("Shutdown", 0)}} = UnderWay \ {h.ms}
  BY <1>1, <1>4
<1> QED BY <1>3, <1>5 DEF h

LEMMA HandleCqlOkKeeps ==
  ASSUME Inv, HandleCqlOk
  PROVE  Inv'
<1>. DEFINE m == Head(inbox).ms
            others == [o \in DOMAIN taken \ {m} |-> taken[o]]
<1>1. TypeOK /\ OneDriver /\ AtMostOneDriver /\ InTurn /\ LinesInTurn
  BY DEF Inv, ImporterInv, OneDriver
<1>2. /\ status \in {"Running", "Stopping"} /\ inbox # <<>> /\ Head(inbox).type = "CqlOk"
      /\ Same /\ db' = db
  BY DEF HandleCqlOk, Received, Handled, Same
<1>3. /\ Head(inbox) \in ToSet(inbox) /\ m \in DOMAIN taken /\ m \in Lines
      /\ \A w \in flight : w.ms # m
      /\ Tail(inbox) \in Seq(Events) /\ Apart(Tail(inbox))
      /\ ToSet(Tail(inbox)) = ToSet(inbox) \ {Head(inbox)}
      /\ \A e \in ToSet(Tail(inbox)) : e.ms # m
  <2>1. Head(inbox).type # "Shutdown"
    BY <1>2
  <2> QED BY <1>2, <2>1, EventIs, Zenon
<1>4. IsComplete(m)
  BY <1>1, <1>2, <1>3 DEF InTurn, EventsInTurn
<1>5. line \in 0..Len(Log) /\ Len(Log) \in Nat
  BY <1>1, LogIs DEF TypeOK
<1>6. \E l \in line..Len(Log) :
        /\ ReadTo(l, others, {m})
        /\ \/ /\ status = "Stopping" /\ inbox' = Tail(inbox) /\ UNCHANGED <<status, handle, outcome, faults>>
           \/ Stop("failed") /\ faults' \in 0..MaxFaults
           \/ /\ Stop("done") /\ faults' = faults
              /\ l = Len(Log) /\ Wanted(l) = {} /\ DOMAIN others = {}
           \/ /\ status = "Running" /\ inbox' = Tail(inbox) /\ UNCHANGED <<status, handle, outcome, faults>>
              /\ Cardinality(Wanted(l)) <= 1 /\ ~(Wanted(l) = {} /\ DOMAIN others = {})
  <2>1. CASE /\ status = "Stopping"
             /\ taken' = others /\ reports' = Report({m}) /\ inbox' = Tail(inbox)
             /\ UNCHANGED <<status, handle, outcome, line, flight, anyError, faults>>
    <3>1. line \in line..Len(Log)
      BY <1>5
    <3>2. Wanted(line) = {} /\ {Log[i] : i \in line + 1..line} = {}
      BY <1>5 DEF Wanted
    <3>3. taken' = [o \in {} \cup DOMAIN others |->
                      IF o \notin {} THEN others[o] ELSE IF mode = "All" THEN FirstChunk(o) ELSE 0]
      <4>1. DOMAIN others = DOMAIN taken \ {m} /\ \A o \in DOMAIN others : others[o] = taken[o]
        OBVIOUS
      <4> QED BY <2>1
    <3>4. anyError' = [o \in Lines |-> o \notin {} /\ anyError[o]]
      <4>1. anyError \in [Lines -> BOOLEAN]
        BY <1>1 DEF TypeOK
      <4>2. anyError = [o \in Lines |-> anyError[o]]
        BY <4>1
      <4>3. \A o \in Lines : (o \notin {} /\ anyError[o]) = anyError[o]
        BY <4>1
      <4>4. [o \in Lines |-> o \notin {} /\ anyError[o]] = [o \in Lines |-> anyError[o]]
        BY <4>3, Zenon
      <4> QED BY <2>1, <4>2, <4>4, Zenon
    <3>5. flight' = flight \cup
            (IF mode = "All" THEN UNION {ChunkWorkers(o, 1, FirstChunk(o)) : o \in {}}
                             ELSE {AnalyzeWorker(o) : o \in {}})
      BY <2>1
    <3>6. {m} = {m} \cup ({Log[i] : i \in line + 1..line} \ Wanted(line))
      BY <3>2
    <3>7. reports' = Report({m} \cup ({Log[i] : i \in line + 1..line} \ Wanted(line)))
      BY <2>1, <3>6
    <3>. HIDE DEF m, others
    <3>8. HandleMilestoneData(Wanted(line), others)
      BY <3>2, <3>3, <3>4, <3>5, Zenon DEF HandleMilestoneData
    <3>9. ReadTo(line, others, {m})
      BY <2>1, <3>7, <3>8 DEF ReadTo
    <3> QED BY <2>1, <3>1, <3>9, Zenon
  <2>2. CASE /\ status = "Running"
             /\ ReadTo(NthLine(1), others, {m})
             /\ IF Wanted(NthLine(1)) = {} /\ DOMAIN others = {}
                THEN Stop("done")
                ELSE inbox' = Tail(inbox) /\ UNCHANGED <<status, handle, outcome>>
             /\ UNCHANGED faults
    <3>1. /\ NthLine(1) \in line..Len(Log) /\ Cardinality(Wanted(NthLine(1))) <= 1
          /\ Wanted(NthLine(1)) = {} => NthLine(1) = Len(Log)
      BY <1>5, NthLineIs
    <3>. HIDE DEF m, others
    <3> QED BY <2>2, <3>1, Zenon
  <2>3. CASE /\ status = "Running"
             /\ faults < MaxFaults /\ faults' = faults + 1
             /\ \E l \in line .. Len(Log) : Wanted(l) = {} /\ ReadTo(l, others, {m})
             /\ Stop("failed")
    <3>1. faults' \in 0..MaxFaults
      BY <1>1, <2>3 DEF TypeOK
    <3>. HIDE DEF m, others
    <3> QED BY <2>3, <3>1, Zenon
  <2> QED BY <2>1, <2>2, <2>3, Zenon DEF HandleCqlOk
<1>7. PICK l \in line..Len(Log) :
        /\ ReadTo(l, others, {m})
        /\ \/ /\ status = "Stopping" /\ inbox' = Tail(inbox) /\ UNCHANGED <<status, handle, outcome, faults>>
           \/ Stop("failed") /\ faults' \in 0..MaxFaults
           \/ /\ Stop("done") /\ faults' = faults
              /\ l = Len(Log) /\ Wanted(l) = {} /\ DOMAIN others = {}
           \/ /\ status = "Running" /\ inbox' = Tail(inbox) /\ UNCHANGED <<status, handle, outcome, faults>>
              /\ Cardinality(Wanted(l)) <= 1 /\ ~(Wanted(l) = {} /\ DOMAIN others = {})
  BY <1>6, Zenon
<1>8. DOMAIN others = DOMAIN taken \ {m} /\ \A o \in DOMAIN others : others[o] = taken[o]
  OBVIOUS
<1>. HIDE DEF m, others
<1>9. inbox' = Tail(inbox) \/ inbox' = <<>>
  BY <1>7, Zenon DEF Stop
<1>10. /\ inbox' \in Seq(Events) /\ Apart(inbox')
       /\ ToSet(inbox') \subseteq ToSet(inbox) /\ \A e \in ToSet(inbox') : e.ms \notin {m}
  <2>1. CASE inbox' = <<>>
    BY <2>1 DEF ToSet, Apart
  <2>2. CASE inbox' = Tail(inbox)
    BY <1>3, <2>2
  <2> QED BY <1>9, <2>1, <2>2
<1>11. /\ line' \in 0..Len(Log)
       /\ DOMAIN taken' \subseteq Lines /\ \A o \in DOMAIN taken' : taken'[o] \in 0..Len(Messages[o])
       /\ flight' \subseteq Workers /\ anyError' \in [Lines -> BOOLEAN]
       /\ reports' \in [Lines -> 0..1]
       /\ AtMostOneDriver' /\ InTurn' /\ LinesRead'
       /\ \A o \in Lines : reports'[o] = 1 => Skips(o)' \/ IsComplete(o)'
       /\ DOMAIN taken' = Wanted(l) \cup (DOMAIN taken \ {m})
       /\ {w.ms : w \in flight'} = Wanted(l) \cup {w.ms : w \in flight}
  <2>1. /\ {m} \in SUBSET DOMAIN taken
        /\ \A w \in flight : w.ms \notin {m}
        /\ \A o \in {m} : IsComplete(o)
    BY <1>3, <1>4
  <2> QED BY <1>2, <1>7, <1>8, <1>10, <2>1, ReadKeeps, Zenon
<1>12. status' = "Running" => /\ UnderWay' = DOMAIN taken'
                              /\ Cardinality(DOMAIN taken') \in 1..Parallelism
  <2>. SUFFICES ASSUME status' = "Running" PROVE /\ UnderWay' = DOMAIN taken'
                                                 /\ Cardinality(DOMAIN taken') \in 1..Parallelism
    OBVIOUS
  <2>1. /\ status = "Running" /\ inbox' = Tail(inbox)
        /\ Cardinality(Wanted(l)) <= 1 /\ ~(Wanted(l) = {} /\ DOMAIN others = {})
    BY <1>7 DEF Stop
  <2>2. UnderWay = DOMAIN taken /\ Cardinality(DOMAIN taken) \in 1..Parallelism
    BY <1>1, <2>1 DEF OneDriver
  <2>3. {e.ms : e \in ToSet(inbox') \ {Event("Shutdown", 0)}} \cup {w.ms : w \in flight}
          = UnderWay \ {m}
    <3>1. Head(inbox).type # "Shutdown"
      BY <1>2
    <3>2. {e.ms : e \in ToSet(inbox') \ {Event("Shutdown", 0)}} \cup {w.ms : w \in flight}
            = UnderWay \ {Head(inbox).ms}
      BY <1>2, <2>1, <3>1, OthersUnderWay, Zenon
    <3> QED BY <3>2 DEF m
  <2>4. UnderWay' = {w.ms : w \in flight'} \cup {e.ms : e \in ToSet(inbox') \ {Event("Shutdown", 0)}}
    BY DEF UnderWay, ToSet, Event
  <2>5. UnderWay' = DOMAIN taken'
    BY <1>11, <2>2, <2>3, <2>4
  <2>6. IsFiniteSet(DOMAIN taken) /\ IsFiniteSet(Wanted(l)) /\ Cardinality(Wanted(l)) \in Nat
    <3>1. DOMAIN taken \subseteq Lines
      BY <1>1 DEF TypeOK
    <3> QED BY <1>5, <3>1, LinesAre, FS_Subset, WantedGrows
  <2>7. /\ IsFiniteSet(DOMAIN taken \ {m})
        /\ Cardinality(DOMAIN taken \ {m}) = Cardinality(DOMAIN taken) - 1
    BY <1>3, <2>6, FS_RemoveElement
  <2>. DEFINE A == Wanted(l)
              B == DOMAIN taken \ {m}
  <2>8. IsFiniteSet(A) /\ IsFiniteSet(B) /\ DOMAIN taken' = A \cup B
    BY <1>11, <2>6, <2>7
  <2>. HIDE DEF A, B
  <2>9. /\ IsFiniteSet(A \cup B) /\ Cardinality(A \cup B) \in Nat
        /\ Cardinality(A \cap B) \in Nat
        /\ Cardinality(A \cup B) = Cardinality(A) + Cardinality(B) - Cardinality(A \cap B)
    BY <2>8, FS_Union, FS_Intersection, FS_CardinalityType
  <2>10. A \cup B # {}
    BY <1>8, <2>1 DEF A, B
  <2>11. Cardinality(A \cup B) # 0
    BY <2>9, <2>10, FS_EmptySet
  <2>12. Cardinality(A \cup B) <= Parallelism
    BY <2>1, <2>2, <2>6, <2>7, <2>9 DEF A, B
  <2> QED BY <2>5, <2>8, <2>9, <2>11, <2>12
<1>13. outcome = "none"
  BY <1>1, <1>2 DEF LinesInTurn
<1>14. /\ status' \in {"Running", "Stopping", "Stopped"}
       /\ outcome' \in {"none", "done", "failed"}
       /\ outcome' = "none" <=> status' # "Stopped"
  BY <1>2, <1>7, <1>13 DEF Stop
<1>15. handle' \in BOOLEAN
  <2>1. handle \in BOOLEAN
    BY <1>1, Zenon DEF TypeOK
  <2>2. handle' = handle \/ handle' = FALSE
    BY <1>7, Zenon DEF Stop
  <2> QED BY <2>1, <2>2
<1>16. outcome' = "done" => line' = Len(Log) /\ DOMAIN taken' = {}
  BY <1>7, <1>8, <1>11, <1>13 DEF Stop, ReadTo
<1>17. faults' \in 0..MaxFaults
  BY <1>1, <1>7 DEF TypeOK
<1>18. /\ status' \in {"Initializing", "Running", "Stopping", "Stopped"}
       /\ status' # "Initializing"
  BY <1>14
<1> QED BY <1>2, <1>10, <1>11, <1>12, <1>14, <1>15, <1>16, <1>17, <1>18, Assembles, Zenon

LEMMA InitializeKeeps == ASSUME Inv, Initialize PROVE Inv'
<1>. DEFINE l == NthLine(Parallelism)
<1>1. TypeOK
  BY DEF Inv, ImporterInv
<1>2. line \in 0..Len(Log)
  BY <1>1 DEF TypeOK
<1>3. l \in line..Len(Log) /\ Cardinality(Wanted(l)) <= Parallelism /\ (Wanted(l) = {} => l = Len(Log))
  BY <1>2, NthLineIs
<1>. HIDE DEF l
<1>4. Same /\ db' = db /\ status = "Initializing" /\ ReadTo(l, taken, {}) /\ faults' = faults
  BY DEF Initialize, Same, l
<1>5. faults' \in 0..MaxFaults
  BY <1>1, <1>4 DEF TypeOK
<1>6. \/ Stop("done") /\ Wanted(l) = {}
      \/ status' = "Running" /\ UNCHANGED <<handle, outcome, inbox>> /\ Wanted(l) # {}
  BY Zenon DEF Initialize, l
<1> QED BY <1>3, <1>4, <1>5, <1>6, StartKeeps, Zenon

LEMMA InitFailsKeeps == ASSUME Inv, InitFails PROVE Inv'
<1>1. TypeOK
  BY DEF Inv, ImporterInv
<1>2. PICK l \in line..Len(Log) : ReadTo(l, taken, {})
  BY DEF InitFails
<1>3. Same /\ db' = db /\ status = "Initializing" /\ Stop("failed")
  BY DEF InitFails, Same
<1>4. faults' \in 0..MaxFaults
  BY <1>1 DEF TypeOK, InitFails
<1> QED BY <1>2, <1>3, <1>4, StartKeeps, Zenon

\* The inbox only, the status, and who may speak to the importer.
LEMMA TurnKeeps ==
  ASSUME Inv, Same, UNCHANGED <<db, line, taken, flight, anyError, reports, faults>>,
         inbox' \in Seq(Events), Apart(inbox'),
         \A e \in ToSet(inbox') : e \in ToSet(inbox) \/ e = Event("Shutdown", 0),
         handle' \in BOOLEAN,
         \/ Stop("failed")
         \/ status' = "Stopping" /\ status # "Stopped" /\ outcome' = outcome
         \/ /\ UNCHANGED <<status, outcome>>
            /\ status = "Running" => \A e \in ToSet(inbox) : e \in ToSet(inbox')
  PROVE  Inv'
<1>1. TypeOK /\ OneDriver /\ LinesInTurn
  BY DEF Inv, ImporterInv
<1>2. /\ line' \in 0..Len(Log)
      /\ DOMAIN taken' \subseteq Lines /\ \A m \in DOMAIN taken' : taken'[m] \in 0..Len(Messages[m])
      /\ flight' \subseteq Workers /\ anyError' \in [Lines -> BOOLEAN]
      /\ reports' \in [Lines -> 0..1]
      /\ AtMostOneDriver' /\ InTurn' /\ LinesRead'
      /\ \A m \in Lines : reports'[m] = 1 => Skips(m)' \/ IsComplete(m)'
  BY QuietKeeps, Zenon
<1>3. status' = "Running" => UnderWay' = DOMAIN taken' /\ Cardinality(DOMAIN taken') \in 1..Parallelism
  <2>. SUFFICES ASSUME status' = "Running"
                PROVE  UnderWay' = DOMAIN taken' /\ Cardinality(DOMAIN taken') \in 1..Parallelism
    OBVIOUS
  <2>1. status = "Running" /\ \A e \in ToSet(inbox) : e \in ToSet(inbox')
    BY DEF Stop
  <2>2. UnderWay = DOMAIN taken /\ Cardinality(DOMAIN taken) \in 1..Parallelism
    BY <1>1, <2>1 DEF OneDriver
  <2>3. ToSet(inbox') \ {Event("Shutdown", 0)} = ToSet(inbox) \ {Event("Shutdown", 0)}
    BY <2>1
  <2>4. UnderWay' = UnderWay
    BY <2>3 DEF UnderWay, ToSet, Event
  <2> QED BY <2>2, <2>4
<1>4. /\ status' \in {"Initializing", "Running", "Stopping", "Stopped"}
      /\ outcome' \in {"none", "done", "failed"} /\ faults' \in 0..MaxFaults
  BY <1>1 DEF TypeOK, Stop
<1>5. outcome' = "none" <=> status' # "Stopped"
  BY <1>1 DEF LinesInTurn, Stop
<1>6. /\ outcome' = "done" => line' = Len(Log) /\ DOMAIN taken' = {}
      /\ status' = "Initializing" => line' = 0 /\ DOMAIN taken' = {} /\ flight' = {}
  BY <1>1 DEF LinesInTurn, Stop
<1> QED BY <1>2, <1>3, <1>4, <1>5, <1>6, Assembles, Zenon

LEMMA HandleCqlErrKeeps == ASSUME Inv, HandleCqlErr PROVE Inv'
<1>1. Stop("failed") /\ Same /\ UNCHANGED <<db, line, taken, flight, anyError, reports, faults>>
  BY DEF HandleCqlErr, Handled, Same
<1>2. inbox' = <<>> /\ handle' = FALSE
  BY <1>1 DEF Stop
<1>3. /\ inbox' \in Seq(Events) /\ Apart(inbox')
      /\ \A e \in ToSet(inbox') : e \in ToSet(inbox) \/ e = Event("Shutdown", 0)
  BY <1>2 DEF Apart, ToSet
<1>4. handle' \in BOOLEAN
  BY <1>2
<1> QED BY <1>1, <1>3, <1>4, TurnKeeps, Zenon

LEMMA InboxClosedKeeps == ASSUME Inv, InboxClosed PROVE Inv'
<1>1. Stop("failed") /\ Same /\ UNCHANGED <<db, line, taken, flight, anyError, reports, faults>>
  BY DEF InboxClosed, Handled, Same
<1>2. inbox' = <<>> /\ handle' = FALSE
  BY <1>1 DEF Stop
<1>3. /\ inbox' \in Seq(Events) /\ Apart(inbox')
      /\ \A e \in ToSet(inbox') : e \in ToSet(inbox) \/ e = Event("Shutdown", 0)
  BY <1>2 DEF Apart, ToSet
<1>4. handle' \in BOOLEAN
  BY <1>2
<1> QED BY <1>1, <1>3, <1>4, TurnKeeps, Zenon

LEMMA HandleShutdownKeeps == ASSUME Inv, HandleShutdown PROVE Inv'
<1>1. /\ Same /\ UNCHANGED <<db, line, taken, flight, anyError, reports, faults>>
      /\ status' = "Stopping" /\ status # "Stopped" /\ outcome' = outcome
      /\ handle' \in BOOLEAN /\ inbox # <<>> /\ inbox' = Tail(inbox)
  BY DEF HandleShutdown, Handled, Same, Received
<1>2. inbox \in Seq(Events) /\ Apart(inbox)
  BY DEF Inv, ImporterInv, TypeOK, OneDriver, AtMostOneDriver
<1>3. /\ inbox' \in Seq(Events) /\ Apart(inbox')
      /\ \A e \in ToSet(inbox') : e \in ToSet(inbox) \/ e = Event("Shutdown", 0)
  BY <1>1, <1>2, InboxPops
<1> QED BY <1>1, <1>3, TurnKeeps, Zenon

\* A milestone is not 0.
LEMMA EventsAre ==
  ASSUME inbox \in Seq(Events), NEW e \in ToSet(inbox)
  PROVE  /\ e \in Events
         /\ e # Event("Shutdown", 0) => e.ms \in Lines /\ e.ms # 0
<1>1. e \in Events
  BY ElementOfSeq, LenProperties DEF ToSet
<1>2. e # Event("Shutdown", 0) => e.ms \in Lines
  BY <1>1 DEF Events, Event
<1> QED BY <1>1, <1>2, LinesAre

LEMMA AskShutdownKeeps == ASSUME Inv, AskShutdown PROVE Inv'
<1>1. /\ Same /\ UNCHANGED <<db, line, taken, flight, anyError, reports, faults>>
      /\ UNCHANGED <<status, outcome>> /\ handle' = TRUE
      /\ Event("Shutdown", 0) \notin ToSet(inbox)
      /\ inbox' = IF status = "Stopped" THEN inbox ELSE inbox \o <<Event("Shutdown", 0)>>
  BY DEF AskShutdown, Same, Send
<1>2. inbox \in Seq(Events) /\ Apart(inbox)
  BY DEF Inv, ImporterInv, TypeOK, OneDriver, AtMostOneDriver
<1>3. Event("Shutdown", 0) \in Events /\ \A x \in ToSet(inbox) : x.ms # Event("Shutdown", 0).ms
  <2>1. Event("Shutdown", 0) \in Events /\ Event("Shutdown", 0).ms = 0
    BY DEF Event, Events
  <2> QED BY <1>1, <1>2, <2>1, EventsAre
<1>. DEFINE sent == inbox \o <<Event("Shutdown", 0)>>
<1>4. /\ sent \in Seq(Events) /\ Apart(sent)
      /\ ToSet(sent) = ToSet(inbox) \cup {Event("Shutdown", 0)}
  BY <1>2, <1>3, InboxPushes, Zenon
<1>5. inbox' = inbox \/ inbox' = sent
  BY <1>1
<1>. HIDE DEF sent
<1>6. /\ inbox' \in Seq(Events) /\ Apart(inbox')
      /\ \A e \in ToSet(inbox') : e \in ToSet(inbox) \/ e = Event("Shutdown", 0)
      /\ \A e \in ToSet(inbox) : e \in ToSet(inbox')
  BY <1>2, <1>4, <1>5
<1>7. handle' \in BOOLEAN
  BY <1>1
<1> QED BY <1>1, <1>6, <1>7, TurnKeeps, Zenon

LEMMA HandleProcessMoreKeeps == ASSUME Inv, HandleProcessMore PROVE Inv'
<1>. DEFINE m == Head(inbox).ms
            upto == LeastOf(taken[m] + Parallelism, Len(Messages[m]))
            New == IF upto > taken[m] THEN ChunkWorkers(m, taken[m] + 1, upto)
                                      ELSE {AnalyzeAndSyncWorker(m)}
<1>1. TypeOK /\ OneDriver /\ AtMostOneDriver /\ InTurn /\ LinesInTurn /\ LinesRead /\ ReportsExact
  BY DEF Inv, ImporterInv, OneDriver, LinesInTurn
<1>2. /\ status \in {"Running", "Stopping"} /\ inbox # <<>> /\ Head(inbox).type = "ProcessMore"
      /\ inbox' = Tail(inbox) /\ Same /\ db' = db
      /\ UNCHANGED <<status, handle, line, reports, outcome, faults>>
  BY DEF HandleProcessMore, Received, Handled, Same
<1>3. Head(inbox).type # "Shutdown"
  BY <1>2
<1>4. /\ Head(inbox) \in ToSet(inbox) /\ m \in DOMAIN taken /\ m \in Lines /\ ~Skips(m)
      /\ \A w \in flight : w.ms # m
      /\ Tail(inbox) \in Seq(Events) /\ Apart(Tail(inbox))
      /\ ToSet(Tail(inbox)) = ToSet(inbox) \ {Head(inbox)}
      /\ \A e \in ToSet(Tail(inbox)) : e.ms # m
  BY <1>2, <1>3, EventIs, Zenon
<1>5. CASE status = "Stopping"
  <2>1. UNCHANGED <<db, line, taken, flight, anyError, reports, faults>> /\ UNCHANGED <<status, outcome>>
    BY <1>2, <1>5 DEF HandleProcessMore
  <2>2. handle' \in BOOLEAN
    BY <1>1, <1>2, Zenon DEF TypeOK
  <2>3. /\ inbox' \in Seq(Events) /\ Apart(inbox')
        /\ \A e \in ToSet(inbox') : e \in ToSet(inbox) \/ e = Event("Shutdown", 0)
    BY <1>2, <1>4
  <2>4. status # "Running"
    BY <1>5
  <2> QED BY <1>2, <2>1, <2>2, <2>3, <2>4, TurnKeeps, Zenon
<1>6. CASE status = "Running"
  <2>1. /\ taken' = [taken EXCEPT ![m] = upto]
        /\ anyError' = [anyError EXCEPT ![m] = FALSE]
        /\ flight' = flight \cup New
    BY <1>2, <1>6 DEF HandleProcessMore
  <2>2. mode = "All" /\ TakenStored(m)
    BY <1>1, <1>2, <1>4 DEF InTurn, EventsInTurn
  <2>3. /\ taken[m] \in 0..Len(Messages[m]) /\ Len(Messages[m]) \in Nat \ {0}
        /\ DOMAIN Messages[m] = 1..Len(Messages[m])
    BY <1>1, <1>4, MessagesAre DEF TypeOK
  <2>4. /\ upto \in 0..Len(Messages[m]) /\ upto >= taken[m]
        /\ upto > taken[m] \/ (upto = taken[m] /\ taken[m] = Len(Messages[m]))
    BY <2>3, SMTT(60) DEF LeastOf
  <2>5. /\ New \subseteq Workers
        /\ \E w \in New : TRUE
        /\ \A w \in New : w.ms = m
        /\ \A v, w \in New : v = w \/ (v.kind = "row" /\ w.kind = "row")
        /\ \A w \in New :
             \/ /\ w.kind = "row" /\ w.id \in 1..upto /\ w.statement \in Statements(m, w.id)
             \/ /\ w.kind = "analyzeAndSync" /\ w.statement = {AnalyticRow(m)}
                /\ taken[m] = Len(Messages[m])
        /\ upto > taken[m] => \A k \in taken[m] + 1..upto : \A s \in Statements(m, k) :
             \E v \in New : v.kind = "row" /\ v.ms = m /\ v.id = k /\ v.statement = s
        /\ upto = taken[m] => \A w \in New : w.kind # "row"
    <3>1. CASE upto > taken[m]
      <4>1. New = ChunkWorkers(m, taken[m] + 1, upto)
        BY <3>1
      <4>2. taken[m] + 1 \in 1..Len(Messages[m]) /\ upto \in taken[m] + 1..Len(Messages[m])
        BY <2>3, <2>4, <3>1
      <4>. HIDE DEF New, m, upto
      <4>3. /\ New \subseteq Workers
            /\ \E w \in New : TRUE
            /\ \A w \in New :
                 /\ w.kind = "row" /\ w.ms = m /\ w.id \in taken[m] + 1..upto
                 /\ w.statement \in Statements(m, w.id)
            /\ \A k \in taken[m] + 1..upto : \A s \in Statements(m, k) :
                 \E w \in New : w.id = k /\ w.statement = s
        <5>1. m \in Lines
          BY <1>4 DEF m
        <5> QED BY <4>1, <4>2, <5>1, ChunkWorkersAre
      <4>4. \A k \in taken[m] + 1..upto : k \in 1..upto
        BY <2>3, <2>4
      <4>5. \A k \in taken[m] + 1..upto : \A s \in Statements(m, k) :
             \E v \in New : v.kind = "row" /\ v.ms = m /\ v.id = k /\ v.statement = s
        BY <4>3
      <4>6. upto # taken[m]
        BY <2>3, <2>4, <3>1
      <4>7. \A w \in New : w.kind = "row" /\ w.ms = m /\ w.id \in 1..upto /\ w.statement \in Statements(m, w.id)
        BY <4>3, <4>4
      <4> QED BY <4>3, <4>5, <4>6, <4>7, Zenon
    <3>2. CASE upto = taken[m]
      <4>1. New = {AnalyzeAndSyncWorker(m)}
        BY <2>3, <3>2
      <4>2. ~(upto > taken[m])
        BY <2>3, <3>2
      <4>3. taken[m] = Len(Messages[m])
        BY <2>4, <4>2
      <4>. HIDE DEF New, m, upto
      <4> QED BY <1>4, <4>1, <4>2, <4>3, MarkWorkersAre
    <3> QED BY <2>4, <3>1, <3>2, ZenonT(60)
  <2>6. taken[m] = Len(Messages[m]) => Keys(RowsOf(m)) \subseteq Keys(db)
    <3>. SUFFICES ASSUME taken[m] = Len(Messages[m]), NEW r \in RowsOf(m) PROVE r.key \in Keys(db)
      BY DEF Keys
    <3>1. PICK k \in DOMAIN Messages[m] : \E s \in Statements(m, k) : r \in s
      BY DEF RowsOf
    <3>2. PICK s \in Statements(m, k) : r \in s
      BY <3>1
    <3>3. k \in 1..taken[m]
      BY <2>3
    <3>4. Keys(s) \subseteq Keys(db)
      BY <2>2, <3>3 DEF TakenStored
    <3> QED BY <3>2, <3>4 DEF Keys
  <2>. HIDE DEF New, upto, m
  <2>7. /\ DOMAIN taken' = DOMAIN taken
        /\ taken'[m] = upto
        /\ \A o \in DOMAIN taken : o # m => taken'[o] = taken[o]
    BY <1>4, <2>1
  <2>8. /\ DOMAIN taken' \subseteq Lines
        /\ \A o \in DOMAIN taken' : taken'[o] \in 0..Len(Messages[o])
    BY <1>1, <2>4, <2>7 DEF TypeOK
  <2>9. /\ \A o : Skips(o)' <=> Skips(o)
        /\ \A o : IsComplete(o)' <=> IsComplete(o)
        /\ mode' = mode /\ db' = db
    BY <1>2, SkipsSame DEF Same, IsComplete
  <2>10. /\ inbox' \in Seq(Events) /\ Apart(inbox)'
         /\ ToSet(inbox)' = ToSet(inbox')
         /\ ToSet(inbox') = ToSet(inbox) \ {Head(inbox)}
         /\ \A e \in ToSet(inbox') : e.ms # m
    <3>1. Apart(inbox)' = Apart(inbox') /\ ToSet(inbox)' = ToSet(inbox')
      BY DEF Apart, ToSet
    <3>2. /\ Tail(inbox) \in Seq(Events) /\ Apart(Tail(inbox))
          /\ ToSet(Tail(inbox)) = ToSet(inbox) \ {Head(inbox)}
          /\ \A e \in ToSet(Tail(inbox)) : e.ms # m
      BY <1>4 DEF m
    <3> QED BY <1>2, <3>1, <3>2
  <2>11. anyError' \in [Lines -> BOOLEAN] /\ \A o \in Lines : o # m => anyError'[o] = anyError[o]
    <3>1. anyError \in [Lines -> BOOLEAN]
      BY <1>1 DEF TypeOK
    <3>2. anyError' \in [Lines -> BOOLEAN]
      BY <2>1, <3>1
    <3>3. \A o \in Lines : o # m => anyError'[o] = anyError[o]
      BY <2>1, <3>1, Zenon
    <3> QED BY <3>2, <3>3
  <2>12. flight' \subseteq Workers
    BY <1>1, <2>1, <2>5 DEF TypeOK
  <2>13. UnderWay' = UnderWay
    <3>1. {e.ms : e \in ToSet(inbox') \ {Event("Shutdown", 0)}} \cup {w.ms : w \in flight}
            = UnderWay \ {m}
      <4>1. {e.ms : e \in ToSet(inbox') \ {Event("Shutdown", 0)}} \cup {w.ms : w \in flight}
              = UnderWay \ {Head(inbox).ms}
        BY <1>2, <1>3, OthersUnderWay, Zenon
      <4> QED BY <4>1 DEF m
    <3>2. {w.ms : w \in flight'} = {m} \cup {w.ms : w \in flight}
      BY <2>1, <2>5
    <3>3. UnderWay' = {w.ms : w \in flight'} \cup {e.ms : e \in ToSet(inbox') \ {Event("Shutdown", 0)}}
      BY DEF UnderWay, ToSet, Event
    <3>4. m \in UnderWay
      <4>1. Head(inbox) # Event("Shutdown", 0)
        BY <1>3 DEF Event
      <4> QED BY <1>4, <4>1 DEF UnderWay, m
    <3> QED BY <3>1, <3>2, <3>3, <3>4
  <2>14. AtMostOneDriver'
    <3>1. \A v, w \in flight' : v.ms = w.ms => v = w \/ (v.kind = "row" /\ w.kind = "row")
      BY <1>1, <1>4, <2>1, <2>5 DEF AtMostOneDriver
    <3>2. \A w \in flight', e \in ToSet(inbox') : w.ms # e.ms
      BY <1>1, <2>1, <2>5, <2>10 DEF AtMostOneDriver
    <3>3. UnderWay' \subseteq DOMAIN taken'
      BY <1>1, <2>7, <2>13 DEF AtMostOneDriver
    <3> QED BY <2>10, <3>1, <3>2, <3>3 DEF AtMostOneDriver
  <2>15. InTurn'
    <3>0. \A w \in flight : w.ms \in DOMAIN taken /\ w.ms # m /\ w.ms \in Lines /\ taken'[w.ms] = taken[w.ms]
      <4>1. \A w \in flight : w.ms \in DOMAIN taken /\ w.ms # m
        BY <1>1, <1>4 DEF AtMostOneDriver, UnderWay
      <4> QED BY <2>7, <2>8, <4>1
    <3>1. WorkersInTurn'
      <4>. SUFFICES ASSUME NEW w \in flight'
                    PROVE  /\ ~Skips(w.ms)'
                           /\ w.kind = "row" =>
                                /\ mode = "All" /\ w.id \in 1..taken'[w.ms]
                                /\ w.statement \in Statements(w.ms, w.id)
                           /\ w.kind = "analyzeAndSync" =>
                                /\ mode = "All" /\ Keys(RowsOf(w.ms)) \subseteq Keys(db)
                                /\ \/ w.statement = {AnalyticRow(w.ms)}
                                   \/ w.statement = {SyncRow(w.ms)} /\ AnalyticRow(w.ms) \in db
                           /\ w.kind = "analyze" =>
                                mode = "Analytics" /\ w.statement = {AnalyticRow(w.ms)}
        BY <2>9, Zenon DEF WorkersInTurn
      <4>1. CASE w \in flight
        BY <1>1, <2>9, <3>0, <4>1, Zenon DEF InTurn, WorkersInTurn
      <4>2. CASE w \in New
        <5>1. w.ms = m
          BY <2>5, <4>2
        <5>2. \/ w.kind = "row" /\ w.id \in 1..upto /\ w.statement \in Statements(m, w.id)
              \/ /\ w.kind = "analyzeAndSync" /\ w.statement = {AnalyticRow(m)}
                 /\ taken[m] = Len(Messages[m])
          BY <2>5, <4>2
        <5>3. ~Skips(w.ms)'
          <6>1. ~Skips(w.ms)
            BY <1>4, <5>1 DEF m
          <6> QED BY <2>9, <6>1
        <5>4. taken'[w.ms] = upto
          BY <2>7, <5>1
        <5>5. CASE w.kind = "row" /\ w.id \in 1..upto /\ w.statement \in Statements(m, w.id)
          BY <2>2, <5>1, <5>3, <5>4, <5>5
        <5>6. CASE /\ w.kind = "analyzeAndSync" /\ w.statement = {AnalyticRow(m)}
                   /\ taken[m] = Len(Messages[m])
          BY <2>2, <2>6, <5>1, <5>3, <5>6
        <5> QED BY <5>2, <5>5, <5>6, Zenon
      <4>3. w \in flight \/ w \in New
        BY <2>1
      <4> QED BY <4>1, <4>2, <4>3, Zenon
    <3>2. EventsInTurn'
      <4>1. ASSUME NEW e \in ToSet(inbox')
            PROVE  /\ e.type = "CqlOk" => IsComplete(e.ms)'
                   /\ e.type = "ProcessMore" => mode' = "All" /\ TakenStored(e.ms)'
        <5>1. /\ e \in ToSet(inbox) /\ e.ms # m
              /\ e.type = "CqlOk" => IsComplete(e.ms)
              /\ e.type = "ProcessMore" => mode = "All" /\ TakenStored(e.ms)
          BY <1>1, <2>10 DEF InTurn, EventsInTurn
        <5>2. ASSUME e.type = "ProcessMore" PROVE TakenStored(e.ms)'
          <6>1. e # Event("Shutdown", 0)
            BY <5>2 DEF Event
          <6>2. e.ms \in DOMAIN taken
            BY <1>1, <5>1, <6>1 DEF AtMostOneDriver, UnderWay
          <6>3. taken'[e.ms] = taken[e.ms]
            BY <2>7, <5>1, <6>2
          <6> QED BY <2>9, <5>1, <5>2, <6>3, Zenon DEF TakenStored
        <5> QED BY <2>9, <5>1, <5>2, Zenon
      <4> QED BY <2>10, <4>1, Zenon DEF EventsInTurn
    <3>3. ChunksInTurn'
      <4>. SUFFICES ASSUME NEW w \in flight', w.kind = "row"
                    PROVE  \/ anyError'[w.ms]
                           \/ \A k \in 1..taken'[w.ms] : \A s \in Statements(w.ms, k) :
                                Keys(s) \subseteq Keys(db) \/ Writing(w.ms, k, s)'
        BY <2>9, Zenon DEF ChunksInTurn
      <4>1. CASE w \in flight
        <5>1. anyError'[w.ms] = anyError[w.ms]
          BY <2>11, <3>0, <4>1, Zenon
        <5>2. \/ anyError[w.ms]
              \/ \A k \in 1..taken[w.ms] : \A s \in Statements(w.ms, k) :
                   Keys(s) \subseteq Keys(db) \/ Writing(w.ms, k, s)
          BY <1>1, <4>1, Zenon DEF InTurn, ChunksInTurn
        <5>3. \A k, s : Writing(w.ms, k, s) => Writing(w.ms, k, s)'
          BY <2>1 DEF Writing
        <5> QED BY <3>0, <4>1, <5>1, <5>2, <5>3, Zenon
      <4>2. CASE w \in New
        <5>1. w.ms = m /\ upto > taken[m] /\ taken'[w.ms] = upto
          BY <2>4, <2>5, <2>7, <4>2
        <5>2. ASSUME NEW k \in 1..upto, NEW s \in Statements(m, k)
              PROVE  Keys(s) \subseteq Keys(db) \/ Writing(w.ms, k, s)'
          <6>1. k \in 1..taken[m] \/ k \in taken[m] + 1..upto
            BY <2>3, <2>4
          <6>2. CASE k \in 1..taken[m]
            BY <2>2, <6>2, Zenon DEF TakenStored
          <6>3. CASE k \in taken[m] + 1..upto
            <7>1. \E v \in New : v.kind = "row" /\ v.ms = w.ms /\ v.id = k /\ v.statement = s
              BY <2>5, <5>1, <6>3
            <7>2. \A v \in New : v \in flight'
              BY <2>1
            <7>3. \E v \in flight' : v.kind = "row" /\ v.ms = w.ms /\ v.id = k /\ v.statement = s
              BY <7>1, <7>2, Zenon
            <7> QED BY <7>3, Zenon DEF Writing
          <6> QED BY <6>1, <6>2, <6>3
        <5> QED BY <5>1, <5>2
      <4>3. w \in flight \/ w \in New
        BY <2>1
      <4> QED BY <4>1, <4>2, <4>3, Zenon
    <3>4. SyncAfterRows'
      BY <1>1, <2>9, Zenon DEF InTurn, SyncAfterRows
    <3> QED BY <3>1, <3>2, <3>3, <3>4 DEF InTurn
  <2>16. LinesRead'
    BY <1>1, <1>2, <2>7, <2>9, Zenon DEF LinesRead
  <2>17. \A o \in Lines : reports'[o] = 1 => Skips(o)' \/ IsComplete(o)'
    BY <1>1, <1>2, <2>9, Zenon DEF ReportsExact
  <2>18. UnderWay' = DOMAIN taken' /\ Cardinality(DOMAIN taken') \in 1..Parallelism
    BY <1>1, <1>6, <2>7, <2>13 DEF OneDriver
  <2>19. /\ line' \in 0..Len(Log) /\ reports' \in [Lines -> 0..1] /\ faults' \in 0..MaxFaults
         /\ status' \in {"Initializing", "Running", "Stopping", "Stopped"}
         /\ outcome' \in {"none", "done", "failed"}
    BY <1>1, <1>2 DEF TypeOK
  <2>20. handle' \in BOOLEAN
    BY <1>1, <1>2, Zenon DEF TypeOK
  <2>21. /\ outcome' = "none" <=> status' # "Stopped"
         /\ outcome' = "done" => line' = Len(Log) /\ DOMAIN taken' = {}
    BY <1>1, <1>2, <2>7 DEF LinesInTurn
  <2>22. status' # "Initializing"
    BY <1>2
  <2> QED BY <1>2, <2>8, <2>10, <2>11, <2>12, <2>14, <2>15, <2>16, <2>17, <2>18, <2>19, <2>20, <2>21, <2>22,
             Assembles, Zenon
<1> QED BY <1>2, <1>5, <1>6

-----------------------------------------------------------------------------
(* The steps of the workers. *)

\* Only what the worker says is written, and nothing that is stored is lost.
LEMMA Written ==
  ASSUME Inv, Same, taken' = taken, NEW w \in flight, db' \in {db, Write(db, w.statement)}
  PROVE  /\ Keys(db) \subseteq Keys(db')
         /\ \A m : AnalyticRow(m) \in db => AnalyticRow(m) \in db'
         /\ \A m : IsComplete(m) => IsComplete(m)'
         /\ \A m : TakenStored(m) => TakenStored(m)'
         /\ SyncAfterRows'
<1>1. TypeOK /\ InTurn /\ Statement(w.statement)
  BY WorkerIs DEF Inv, ImporterInv
<1>2. Keys(db) \subseteq Keys(db')
  BY WriteKeys
<1>3. \A m : /\ AnalyticRow(m) \in db => AnalyticRow(m) \in db'
             /\ SyncRow(m) \in db => SyncRow(m) \in db'
             /\ SyncRow(m) \in db' => SyncRow(m) \in db \/ w.statement = {SyncRow(m)}
  <2>. TAKE m
  <2>1. CASE db' = db
    BY <2>1
  <2>2. CASE db' = Write(db, w.statement)
    <3>1. /\ AnalyticRow(m) \in Write(db, w.statement) <=> AnalyticRow(m) \in db \/ w.statement = {AnalyticRow(m)}
          /\ SyncRow(m) \in Write(db, w.statement) <=> SyncRow(m) \in db \/ w.statement = {SyncRow(m)}
      BY <1>1, WriteMarks, Zenon
    <3> QED BY <2>2, <3>1
  <2> QED BY <2>1, <2>2
<1>4. \A m : IsComplete(m) => IsComplete(m)'
  <2>. TAKE m
  <2>1. mode' = mode
    BY DEF Same
  <2> QED BY <1>3, <2>1 DEF IsComplete
<1>5. \A m : TakenStored(m) => TakenStored(m)'
  <2>. TAKE m
  <2>. SUFFICES ASSUME TakenStored(m), NEW k \in 1..taken[m], NEW s \in Statements(m, k)
                PROVE  Keys(s) \subseteq Keys(db')
    BY DEF TakenStored, Keys
  <2>1. Keys(s) \subseteq Keys(db)
    BY DEF TakenStored
  <2> QED BY <1>2, <2>1
<1>6. SyncAfterRows'
  <2>. SUFFICES ASSUME mode = "All", NEW m \in Lines, SyncRow(m) \in db'
                PROVE  Keys(RowsOf(m)) \subseteq Keys(db')
    BY DEF SyncAfterRows, Same, Keys
  <2>1. CASE SyncRow(m) \in db
    BY <1>1, <1>2, <2>1 DEF InTurn, SyncAfterRows
  <2>2. CASE w.statement = {SyncRow(m)}
    <3>1. w.kind # "row"
      <4>1. w.kind = "row" => w.statement \in Statements(w.ms, w.id)
        BY <1>1 DEF InTurn, WorkersInTurn
      <4>2. SyncRow(m) \in w.statement /\ SyncRow(m).key[1] \in Marks
        BY <2>2, MarkRows
      <4> QED BY <4>1, <4>2, StatementRows DEF Statements
    <3>2. w.statement # {AnalyticRow(w.ms)}
      <4>1. SyncRow(m) # AnalyticRow(w.ms)
        BY MarkRows
      <4> QED BY <2>2, <4>1
    <3>3. w.kind = "analyzeAndSync"
      BY <1>1, <3>1, <3>2, WorkerIs DEF InTurn, WorkersInTurn
    <3>4. Keys(RowsOf(w.ms)) \subseteq Keys(db) /\ w.statement = {SyncRow(w.ms)}
      BY <1>1, <3>2, <3>3 DEF InTurn, WorkersInTurn
    <3>5. m = w.ms
      <4>1. SyncRow(m) = SyncRow(w.ms)
        BY <2>2, <3>4
      <4> QED BY <4>1, MarkRows
    <3> QED BY <1>2, <3>4, <3>5
  <2> QED BY <1>3, <2>1, <2>2
<1> QED BY <1>2, <1>3, <1>4, <1>5, <1>6

\* A worker is gone, or another one is there in its place.
Follows(w, next) ==
  /\ next \in SUBSET Workers /\ flight' = (flight \ {w}) \cup next
  /\ \A u, v \in next : u = v
  /\ \A v \in next : v.ms = w.ms /\ v.kind = w.kind /\ v.id = w.id
  /\ \A v \in next : v.kind = "analyzeAndSync" =>
       v.statement = w.statement \/ (v.statement = {SyncRow(w.ms)} /\ AnalyticRow(w.ms) \in db')
  /\ \A v \in next : v.kind # "analyzeAndSync" => v.statement = w.statement

\* The event that says of a milestone that nothing else of it is under way.
Tells(w, events) ==
  /\ events \in SUBSET Events /\ inbox' \in Seq(Events) /\ Apart(inbox')
  /\ ToSet(inbox') = ToSet(inbox) \cup events
  /\ \A e \in events : /\ e.ms = w.ms /\ \A v \in flight' : v.ms # w.ms
                       /\ e.type = "CqlOk" => IsComplete(e.ms)'
                       /\ e.type = "ProcessMore" => mode = "All" /\ TakenStored(e.ms)'
  /\ status = "Running" => (\E v \in flight' : v.ms = w.ms) \/ (\E e \in events : TRUE)

\* A statement that nobody is writing any more is stored or known as given up.
Accounted(w, next) ==
  /\ anyError' \in [Lines -> BOOLEAN] /\ \A m \in Lines : anyError[m] => anyError'[m]
  /\ w.kind = "row" => \/ anyError'[w.ms] \/ Keys(w.statement) \subseteq Keys(db')
                       \/ \E v \in next : TRUE

\* A worker is gone, replaced, or followed by an event of its milestone.
LEMMA AnswerKeeps ==
  ASSUME Inv, Same, UNCHANGED <<status, handle, line, taken, reports, outcome>>,
         faults' \in 0..MaxFaults,
         NEW w \in flight, db' \in {db, Write(db, w.statement)},
         NEW next, Follows(w, next), Accounted(w, next), NEW events, Tells(w, events)
  PROVE  Inv'
<1>. USE DEF Follows, Accounted, Tells
<1>1. TypeOK /\ OneDriver /\ AtMostOneDriver /\ InTurn /\ LinesInTurn /\ LinesRead /\ ReportsExact
  BY DEF Inv, ImporterInv, OneDriver, LinesInTurn
<1>2. /\ \A m : Skips(m)' <=> Skips(m)
      /\ mode' = mode /\ taken' = taken
      /\ Apart(inbox)' = Apart(inbox') /\ ToSet(inbox)' = ToSet(inbox')
  BY SkipsSame DEF Same, Apart, ToSet
<1>3. /\ Keys(db) \subseteq Keys(db')
      /\ \A m : AnalyticRow(m) \in db => AnalyticRow(m) \in db'
      /\ \A m : IsComplete(m) => IsComplete(m)'
      /\ \A m : TakenStored(m) => TakenStored(m)'
      /\ SyncAfterRows'
  BY Written, Zenon
<1>4. w.ms \in Lines /\ w.ms # 0 /\ ~Skips(w.ms) /\ w.ms \in DOMAIN taken
  <2>1. w.ms \in Lines /\ w.ms # 0 /\ ~Skips(w.ms)
    BY <1>1, WorkerIs, LinesAre
  <2>2. w.ms \in DOMAIN taken
    BY <1>1 DEF AtMostOneDriver, UnderWay
  <2> QED BY <2>1, <2>2
<1>5. \A v \in flight' : (v \in flight /\ v # w) \/ v \in next
  OBVIOUS
<1>6. \A v \in flight' : \E u \in flight : v.ms = u.ms /\ v.kind = u.kind
  BY <1>5
<1>7. AtMostOneDriver'
  <2>1. \A u, v \in flight' : u.ms = v.ms => u = v \/ (u.kind = "row" /\ v.kind = "row")
    <3>1. \A u, v \in flight : u.ms = v.ms => u = v \/ (u.kind = "row" /\ v.kind = "row")
      BY <1>1 DEF AtMostOneDriver
    <3>2. ASSUME NEW u \in flight, u # w, NEW v \in next, u.ms = v.ms
          PROVE  u.kind = "row" /\ v.kind = "row"
      BY <3>1, <3>2
    <3> QED BY <1>5, <3>1, <3>2
  <2>2. \A v \in flight', e \in ToSet(inbox') : v.ms # e.ms
    <3>1. \A v \in flight, e \in ToSet(inbox) : v.ms # e.ms
      BY <1>1 DEF AtMostOneDriver
    <3>2. \A v \in flight', e \in ToSet(inbox) : v.ms # e.ms
      BY <1>6, <3>1
    <3> QED BY <3>2
  <2>3. UnderWay' \subseteq DOMAIN taken'
    <3>1. \A v \in flight' : v.ms \in DOMAIN taken
      BY <1>1, <1>6 DEF AtMostOneDriver, UnderWay
    <3>2. \A e \in ToSet(inbox') \ {Event("Shutdown", 0)} : e.ms \in DOMAIN taken
      BY <1>1, <1>4 DEF AtMostOneDriver, UnderWay
    <3> QED BY <1>2, <3>1, <3>2 DEF UnderWay
  <2> QED BY <1>2, <2>1, <2>2, <2>3 DEF AtMostOneDriver
<1>8. WorkersInTurn'
  <2>. SUFFICES ASSUME NEW v \in flight'
                PROVE  /\ ~Skips(v.ms)
                       /\ v.kind = "row" =>
                            /\ mode = "All" /\ v.id \in 1..taken[v.ms]
                            /\ v.statement \in Statements(v.ms, v.id)
                       /\ v.kind = "analyzeAndSync" =>
                            /\ mode = "All" /\ Keys(RowsOf(v.ms)) \subseteq Keys(db')
                            /\ \/ v.statement = {AnalyticRow(v.ms)}
                               \/ v.statement = {SyncRow(v.ms)} /\ AnalyticRow(v.ms) \in db'
                       /\ v.kind = "analyze" =>
                            mode = "Analytics" /\ v.statement = {AnalyticRow(v.ms)}
    <3>1. Keys(db)' = Keys(db')
      BY DEF Keys
    <3> QED BY <1>2, <3>1, Zenon DEF WorkersInTurn
  <2>1. \A u \in flight :
          /\ ~Skips(u.ms)
          /\ u.kind = "row" =>
               /\ mode = "All" /\ u.id \in 1..taken[u.ms]
               /\ u.statement \in Statements(u.ms, u.id)
          /\ u.kind = "analyzeAndSync" =>
               /\ mode = "All" /\ Keys(RowsOf(u.ms)) \subseteq Keys(db')
               /\ \/ u.statement = {AnalyticRow(u.ms)}
                  \/ u.statement = {SyncRow(u.ms)} /\ AnalyticRow(u.ms) \in db'
          /\ u.kind = "analyze" =>
               mode = "Analytics" /\ u.statement = {AnalyticRow(u.ms)}
    BY <1>1, <1>3 DEF InTurn, WorkersInTurn
  <2>2. CASE v \in flight
    BY <2>1, <2>2
  <2>3. CASE v \in next
    <3>1. v.ms = w.ms /\ v.kind = w.kind /\ v.id = w.id
      BY <2>3
    <3>2. v.kind # "analyzeAndSync" => v.statement = w.statement
      BY <2>3
    <3>3. v.kind = "analyzeAndSync" =>
            v.statement = w.statement \/ (v.statement = {SyncRow(w.ms)} /\ AnalyticRow(w.ms) \in db')
      BY <2>3
    <3> QED BY <2>1, <3>1, <3>2, <3>3
  <2> QED BY <1>5, <2>2, <2>3
<1>9. EventsInTurn'
  <2>1. ASSUME NEW e \in ToSet(inbox')
        PROVE  /\ e.type = "CqlOk" => IsComplete(e.ms)'
               /\ e.type = "ProcessMore" => mode' = "All" /\ TakenStored(e.ms)'
    <3>1. CASE e \in ToSet(inbox)
      <4>1. /\ e.type = "CqlOk" => IsComplete(e.ms)
            /\ e.type = "ProcessMore" => mode = "All" /\ TakenStored(e.ms)
        BY <1>1, <3>1 DEF InTurn, EventsInTurn
      <4> QED BY <1>2, <1>3, <4>1, Zenon
    <3>2. CASE e \in events
      BY <1>2, <3>2, Zenon
    <3> QED BY <3>1, <3>2
  <2> QED BY <1>2, <2>1, Zenon DEF EventsInTurn
<1>10. ChunksInTurn'
  <2>. SUFFICES ASSUME NEW v \in flight', v.kind = "row", ~anyError'[v.ms],
                       NEW k \in 1..taken[v.ms], NEW s \in Statements(v.ms, k)
                PROVE  Keys(s) \subseteq Keys(db') \/ Writing(v.ms, k, s)'
    <3>1. Keys(db)' = Keys(db')
      BY DEF Keys
    <3> QED BY <1>2, <3>1, Zenon DEF ChunksInTurn
  <2>1. PICK u \in flight : u.ms = v.ms /\ u.kind = "row"
    BY <1>6
  <2>2. ~anyError[v.ms]
    BY <1>1, <2>1, WorkerIs
  <2>3. Keys(s) \subseteq Keys(db) \/ Writing(v.ms, k, s)
    <3>1. \/ anyError[u.ms]
          \/ \A j \in 1..taken[u.ms] : \A t \in Statements(u.ms, j) :
               Keys(t) \subseteq Keys(db) \/ Writing(u.ms, j, t)
      BY <1>1, <2>1, Zenon DEF InTurn, ChunksInTurn
    <3> QED BY <2>1, <2>2, <3>1
  <2>4. CASE Keys(s) \subseteq Keys(db)
    BY <1>3, <2>4
  <2>5. ASSUME NEW x \in flight, x.kind = "row", x.ms = v.ms, x.id = k, x.statement = s
        PROVE  Keys(s) \subseteq Keys(db') \/ Writing(v.ms, k, s)'
    <3>1. CASE x # w
      <4>1. x \in flight'
        BY <3>1
      <4> QED BY <2>5, <4>1 DEF Writing
    <3>2. CASE x = w
      <4>1. CASE \E y \in next : TRUE
        <5>1. PICK y \in next : TRUE
          BY <4>1
        <5>2. y \in flight' /\ y.kind = "row" /\ y.ms = v.ms /\ y.id = k /\ y.statement = s
          BY <2>5, <3>2, <5>1
        <5> QED BY <5>2 DEF Writing
      <4>2. CASE Keys(w.statement) \subseteq Keys(db')
        BY <2>5, <3>2, <4>2
      <4> QED BY <2>5, <3>2, <4>1, <4>2
    <3> QED BY <3>1, <3>2
  <2> QED BY <2>3, <2>4, <2>5 DEF Writing
<1>11. InTurn'
  BY <1>3, <1>8, <1>9, <1>10 DEF InTurn
<1>12. LinesRead'
  BY <1>1, <1>2, Zenon DEF LinesRead
<1>13. \A m \in Lines : reports'[m] = 1 => Skips(m)' \/ IsComplete(m)'
  BY <1>1, <1>2, <1>3, Zenon DEF ReportsExact
<1>14. status' = "Running" => UnderWay' = DOMAIN taken' /\ Cardinality(DOMAIN taken') \in 1..Parallelism
  <2>. SUFFICES ASSUME status = "Running"
                PROVE  UnderWay' = DOMAIN taken /\ Cardinality(DOMAIN taken) \in 1..Parallelism
    OBVIOUS
  <2>1. UnderWay = DOMAIN taken /\ Cardinality(DOMAIN taken) \in 1..Parallelism
    BY <1>1 DEF OneDriver
  <2>2. UnderWay' \subseteq DOMAIN taken
    BY <1>2, <1>7 DEF AtMostOneDriver
  <2>3. ASSUME NEW m \in UnderWay PROVE m \in UnderWay'
    <3>1. CASE m = w.ms
      <4>1. CASE \E v \in flight' : v.ms = w.ms
        BY <3>1, <4>1 DEF UnderWay
      <4>2. CASE \E e \in events : TRUE
        <5>1. PICK e \in events : TRUE
          BY <4>2
        <5>2. e \in ToSet(inbox') /\ e.ms = w.ms
          BY <5>1
        <5>3. e # Event("Shutdown", 0)
          BY <1>4, <5>2 DEF Event
        <5>4. Event("Shutdown", 0)' = Event("Shutdown", 0)
          BY DEF Event
        <5> QED BY <1>2, <3>1, <5>2, <5>3, <5>4 DEF UnderWay
      <4> QED BY <4>1, <4>2
    <3>2. CASE m # w.ms /\ \E v \in flight : v.ms = m
      <4>1. PICK v \in flight : v.ms = m
        BY <3>2
      <4>2. v \in flight'
        BY <3>2, <4>1
      <4> QED BY <4>1, <4>2 DEF UnderWay
    <3>3. CASE \E e \in ToSet(inbox) \ {Event("Shutdown", 0)} : e.ms = m
      <4>1. PICK e \in ToSet(inbox) \ {Event("Shutdown", 0)} : e.ms = m
        BY <3>3
      <4>2. e \in ToSet(inbox') \ {Event("Shutdown", 0)}
        BY <4>1
      <4>3. Event("Shutdown", 0)' = Event("Shutdown", 0)
        BY DEF Event
      <4> QED BY <1>2, <4>1, <4>2, <4>3 DEF UnderWay
    <3> QED BY <3>1, <3>2, <3>3 DEF UnderWay
  <2> QED BY <2>1, <2>2, <2>3
<1>15. /\ line' \in 0..Len(Log) /\ reports' \in [Lines -> 0..1]
       /\ DOMAIN taken' \subseteq Lines /\ \A m \in DOMAIN taken' : taken'[m] \in 0..Len(Messages[m])
       /\ status' \in {"Initializing", "Running", "Stopping", "Stopped"}
       /\ outcome' \in {"none", "done", "failed"}
  BY <1>1 DEF TypeOK
<1>16. handle' \in BOOLEAN
  BY <1>1, Zenon DEF TypeOK
<1>17. flight' \subseteq Workers
  BY <1>1 DEF TypeOK
<1>18. /\ outcome' = "none" <=> status' # "Stopped"
       /\ outcome' = "done" => line' = Len(Log) /\ DOMAIN taken' = {}
  BY <1>1 DEF LinesInTurn
<1>19. status' # "Initializing"
  BY <1>1 DEF LinesInTurn
<1> QED BY <1>7, <1>11, <1>12, <1>13, <1>14, <1>15, <1>16, <1>17, <1>18, <1>19, Assembles, Zenon

\* A worker sends the event of its milestone, or none.
LEMMA Sends ==
  ASSUME Inv, NEW w \in flight, NEW e \in Events, e.ms = w.ms, Send(<<e>>)
  PROVE  /\ inbox' \in Seq(Events) /\ Apart(inbox')
         /\ ToSet(inbox') = ToSet(inbox) \cup (IF status = "Stopped" THEN {} ELSE {e})
<1>1. inbox \in Seq(Events) /\ Apart(inbox) /\ \A x \in ToSet(inbox) : x.ms # e.ms
  <2>1. inbox \in Seq(Events) /\ Apart(inbox)
    BY DEF Inv, ImporterInv, TypeOK, OneDriver, AtMostOneDriver
  <2>2. \A x \in ToSet(inbox) : w.ms # x.ms
    BY DEF Inv, ImporterInv, OneDriver, AtMostOneDriver
  <2> QED BY <2>1, <2>2
<1>2. CASE status = "Stopped"
  <2>1. inbox' = inbox
    BY <1>2 DEF Send
  <2> QED BY <1>1, <1>2, <2>1
<1>3. CASE status # "Stopped"
  <2>1. inbox' = inbox \o <<e>>
    BY <1>3 DEF Send
  <2>2. /\ inbox \o <<e>> \in Seq(Events) /\ Apart(inbox \o <<e>>)
        /\ ToSet(inbox \o <<e>>) = ToSet(inbox) \cup {e}
    BY <1>1, InboxPushes, Zenon
  <2> QED BY <1>3, <2>1, <2>2
<1> QED BY <1>2, <1>3

LEMMA SendsNothing ==
  ASSUME Inv, Send(<<>>) \/ inbox' = inbox
  PROVE  /\ inbox' \in Seq(Events) /\ Apart(inbox')
         /\ ToSet(inbox') = ToSet(inbox) \cup {}
<1>1. inbox \in Seq(Events) /\ Apart(inbox)
  BY DEF Inv, ImporterInv, TypeOK, OneDriver, AtMostOneDriver
<1>2. inbox \o <<>> = inbox
  BY <1>1, ConcatEmptySeq
<1>3. inbox' = inbox
  BY <1>2 DEF Send
<1> QED BY <1>1, <1>3

\* What a worker sends in the end, of its milestone only.
LEMMA EventsOf ==
  ASSUME NEW m \in Lines, NEW type \in {"ProcessMore", "CqlOk", "CqlErr"}
  PROVE  Event(type, m) \in Events /\ Event(type, m).ms = m /\ Event(type, m).type = type
BY DEF Event, Events

\* The end of a worker that answers for its whole milestone.
LEMMA MarkEnds ==
  ASSUME Inv, Same, UNCHANGED <<status, handle, line, taken, reports, outcome>>,
         faults' \in 0..MaxFaults, anyError' = anyError,
         NEW w \in flight, db' \in {db, Write(db, w.statement)},
         w.kind # "row", flight' = flight \ {w},
         NEW type \in {"CqlOk", "CqlErr"}, Send(<<Event(type, w.ms)>>),
         type = "CqlOk" => IsComplete(w.ms)'
  PROVE  Inv'
<1>1. TypeOK /\ AtMostOneDriver /\ w.ms \in Lines
  BY WorkerIs DEF Inv, ImporterInv, OneDriver
<1>. DEFINE e == Event(type, w.ms)
            events == IF status = "Stopped" THEN {} ELSE {e}
<1>2. e \in Events /\ e.ms = w.ms /\ e.type = type
  BY <1>1, EventsOf
<1>. HIDE DEF e
<1>3. /\ inbox' \in Seq(Events) /\ Apart(inbox')
      /\ ToSet(inbox') = ToSet(inbox) \cup events
  <2>1. Send(<<e>>)
    BY DEF e
  <2> QED BY <1>2, <2>1, Sends, Zenon
<1>4. \A x \in events : /\ x.ms = w.ms /\ \A v \in flight' : v.ms # w.ms
                        /\ x.type = "CqlOk" => IsComplete(x.ms)'
                        /\ x.type = "ProcessMore" => mode = "All" /\ TakenStored(x.ms)'
  <2>1. \A x \in events : x.ms = w.ms /\ x.type = type
    BY <1>2
  <2>2. \A v \in flight : v.ms = w.ms => v = w \/ (v.kind = "row" /\ w.kind = "row")
    BY <1>1 DEF AtMostOneDriver
  <2>3. \A v \in flight' : v.ms # w.ms
    BY <2>2
  <2>4. type # "ProcessMore"
    OBVIOUS
  <2>. HIDE DEF events
  <2> QED BY <2>1, <2>3, <2>4, Zenon
<1>5. events \in SUBSET Events /\ (status = "Running" => \E x \in events : TRUE)
  BY <1>2
<1>6. anyError' \in [Lines -> BOOLEAN] /\ \A m \in Lines : anyError[m] => anyError'[m]
  BY <1>1 DEF TypeOK
<1>. HIDE DEF events
<1>7. Tells(w, events)
  BY <1>3, <1>4, <1>5, Zenon DEF Tells
<1>8. Follows(w, {})
  BY DEF Follows
<1>9. Accounted(w, {})
  BY <1>6 DEF Accounted
<1> QED BY <1>7, <1>8, <1>9, AnswerKeeps, Zenon

\* The end of a worker of a chunk, its statement stored or given up.
LEMMA RowEnds ==
  ASSUME Inv, Same, UNCHANGED <<status, handle, line, taken, reports, outcome>>,
         faults' \in 0..MaxFaults,
         NEW w \in flight, db' \in {db, Write(db, w.statement)},
         w.kind = "row", flight' = flight \ {w},
         NEW error \in BOOLEAN, Send(Released(w.ms, flight', error)),
         \/ error = anyError[w.ms] /\ anyError' = anyError /\ db' = Write(db, w.statement)
         \/ error = TRUE /\ anyError' = [anyError EXCEPT ![w.ms] = TRUE]
  PROVE  Inv'
<1>1. TypeOK /\ AtMostOneDriver /\ InTurn /\ w.ms \in Lines
  BY WorkerIs DEF Inv, ImporterInv, OneDriver
<1>2. anyError' \in [Lines -> BOOLEAN] /\ \A m \in Lines : anyError[m] => anyError'[m]
  <2>1. anyError \in [Lines -> BOOLEAN]
    BY <1>1 DEF TypeOK
  <2>2. CASE anyError' = anyError
    BY <2>1, <2>2
  <2>3. CASE anyError' = [anyError EXCEPT ![w.ms] = TRUE]
    <3>1. anyError' \in [Lines -> BOOLEAN]
      BY <2>1, <2>3
    <3>2. \A m \in Lines : m # w.ms => anyError'[m] = anyError[m]
      BY <2>1, <2>3, Zenon
    <3>3. anyError'[w.ms] = TRUE
      BY <1>1, <2>1, <2>3, Zenon
    <3>4. ASSUME NEW m \in Lines, anyError[m] PROVE anyError'[m]
      BY <3>2, <3>3, <3>4, Zenon
    <3> QED BY <3>1, <3>4
  <2> QED BY <2>2, <2>3
<1>3. anyError'[w.ms] \/ (~error /\ ~anyError[w.ms] /\ db' = Write(db, w.statement))
  <2>1. CASE error = anyError[w.ms] /\ anyError' = anyError /\ db' = Write(db, w.statement)
    BY <2>1, Zenon
  <2>2. CASE error = TRUE /\ anyError' = [anyError EXCEPT ![w.ms] = TRUE]
    <3>1. anyError \in [Lines -> BOOLEAN]
      BY <1>1 DEF TypeOK
    <3>2. anyError'[w.ms] = TRUE
      BY <1>1, <2>2, <3>1, Zenon
    <3> QED BY <3>2
  <2> QED BY <2>1, <2>2, Zenon
<1>4. anyError'[w.ms] \/ Keys(w.statement) \subseteq Keys(db')
  <2>1. Keys(Write(db, w.statement)) = Keys(db) \cup Keys(w.statement)
    BY WriteKeys
  <2>2. db' = Write(db, w.statement) => Keys(w.statement) \subseteq Keys(db')
    BY <2>1
  <2> QED BY <1>3, <2>2, Zenon
<1>5. Follows(w, {})
  BY DEF Follows
<1>6. Accounted(w, {})
  BY <1>2, <1>4, Zenon DEF Accounted
<1>7. CASE \E v \in flight' : v.kind = "row" /\ v.ms = w.ms
  <2>1. Released(w.ms, flight', error) = <<>>
    BY <1>7 DEF Released
  <2>2. Send(<<>>)
    BY <2>1, Zenon
  <2>3. /\ inbox' \in Seq(Events) /\ Apart(inbox')
        /\ ToSet(inbox') = ToSet(inbox) \cup {}
    BY <2>2, SendsNothing, Zenon
  <2>4. Tells(w, {})
    BY <1>7, <2>3 DEF Tells
  <2> QED BY <1>5, <1>6, <2>4, AnswerKeeps, Zenon
<1>8. CASE ~\E v \in flight' : v.kind = "row" /\ v.ms = w.ms
  <2>. DEFINE type == IF error THEN "CqlErr" ELSE "ProcessMore"
              e == Event(type, w.ms)
              events == IF status = "Stopped" THEN {} ELSE {e}
  <2>1. Released(w.ms, flight', error) = <<e>>
    BY <1>8 DEF Released
  <2>2. type \in {"ProcessMore", "CqlOk", "CqlErr"} /\ (type = "ProcessMore" => ~error) /\ type # "CqlOk"
    OBVIOUS
  <2>. HIDE DEF type
  <2>3. e \in Events /\ e.ms = w.ms /\ e.type = type
    BY <1>1, <2>2, EventsOf
  <2>. HIDE DEF e
  <2>4. Send(<<e>>)
    BY <2>1, Zenon
  <2>5. /\ inbox' \in Seq(Events) /\ Apart(inbox')
        /\ ToSet(inbox') = ToSet(inbox) \cup events
    BY <2>3, <2>4, Sends, Zenon
  <2>6. \A v \in flight' : v.ms # w.ms
    <3>1. \A v \in flight : v.ms = w.ms => v = w \/ (v.kind = "row" /\ w.kind = "row")
      BY <1>1 DEF AtMostOneDriver
    <3> QED BY <1>8, <3>1
  <2>7. ASSUME type = "ProcessMore" PROVE mode = "All" /\ TakenStored(w.ms)'
    <3>1. ~anyError[w.ms] /\ db' = Write(db, w.statement)
      <4>1. ~error
        BY <2>2, <2>7
      <4> QED BY <4>1, Zenon
    <3>2. mode = "All"
      BY <1>1 DEF InTurn, WorkersInTurn
    <3>3. ASSUME NEW k \in 1..taken[w.ms], NEW s \in Statements(w.ms, k)
          PROVE  Keys(s) \subseteq Keys(db')
      <4>1. Keys(s) \subseteq Keys(db) \/ Writing(w.ms, k, s)
        <5>1. \/ anyError[w.ms]
              \/ \A j \in 1..taken[w.ms] : \A t \in Statements(w.ms, j) :
                   Keys(t) \subseteq Keys(db) \/ Writing(w.ms, j, t)
          BY <1>1, Zenon DEF InTurn, ChunksInTurn
        <5> QED BY <3>1, <5>1
      <4>2. Keys(db') = Keys(db) \cup Keys(w.statement)
        BY <3>1, WriteKeys
      <4>3. ASSUME NEW x \in flight, x.kind = "row", x.ms = w.ms, x.statement = s
            PROVE  Keys(s) \subseteq Keys(db')
        <5>1. x = w
          BY <1>8, <4>3
        <5> QED BY <4>2, <4>3, <5>1
      <4> QED BY <4>1, <4>2, <4>3 DEF Writing
    <3>4. TakenStored(w.ms)'
      <4>1. taken' = taken
        OBVIOUS
      <4>2. \A k \in 1..taken[w.ms] : \A s \in Statements(w.ms, k) : Keys(s) \subseteq Keys(db')
        BY <3>3
      <4>3. Keys(db)' = Keys(db')
        BY DEF Keys
      <4> QED BY <4>1, <4>2, <4>3, Zenon DEF TakenStored
    <3> QED BY <3>2, <3>4
  <2>8. events \in SUBSET Events /\ (status = "Running" => \E x \in events : TRUE)
    BY <2>3
  <2>9. \A x \in events : x.ms = w.ms /\ x.type = type
    BY <2>3
  <2>. HIDE DEF events
  <2>10. \A x \in events : /\ x.ms = w.ms /\ \A v \in flight' : v.ms # w.ms
                           /\ x.type = "CqlOk" => IsComplete(x.ms)'
                           /\ x.type = "ProcessMore" => mode = "All" /\ TakenStored(x.ms)'
    <3>1. ASSUME NEW x \in events, x.type = "ProcessMore" PROVE mode = "All" /\ TakenStored(x.ms)'
      <4>1. type = "ProcessMore" /\ x.ms = w.ms
        BY <2>9, <3>1
      <4> QED BY <2>7, <4>1, Zenon
    <3>2. \A x \in events : x.type # "CqlOk"
      BY <2>2, <2>9
    <3> QED BY <2>6, <2>9, <3>1, <3>2, Zenon
  <2>11. Tells(w, events)
    BY <2>5, <2>8, <2>10, Zenon DEF Tells
  <2> QED BY <1>5, <1>6, <2>11, AnswerKeeps, Zenon
<1> QED BY <1>7, <1>8

\* A worker goes on with another statement or another try.
LEMMA GoesOn ==
  ASSUME Inv, Same, UNCHANGED <<status, handle, line, taken, reports, outcome>>,
         UNCHANGED <<anyError, inbox>>, faults' \in 0..MaxFaults,
         NEW w \in flight, db' \in {db, Write(db, w.statement)},
         NEW v \in Workers, flight' = (flight \ {w}) \cup {v},
         v.ms = w.ms, v.kind = w.kind, v.id = w.id,
         \/ v.statement = w.statement
         \/ v.kind = "analyzeAndSync" /\ v.statement = {SyncRow(w.ms)} /\ AnalyticRow(w.ms) \in db'
  PROVE  Inv'
<1>1. Follows(w, {v})
  BY DEF Follows
<1>2. Accounted(w, {v})
  <2>1. anyError \in [Lines -> BOOLEAN]
    BY DEF Inv, ImporterInv, TypeOK
  <2>2. anyError' \in [Lines -> BOOLEAN] /\ \A m \in Lines : anyError[m] => anyError'[m]
    BY <2>1
  <2>3. \E x \in {v} : TRUE
    OBVIOUS
  <2> QED BY <2>2, <2>3, Zenon DEF Accounted
<1>3. /\ inbox' \in Seq(Events) /\ Apart(inbox')
      /\ ToSet(inbox') = ToSet(inbox) \cup {}
  BY SendsNothing
<1>4. \E x \in flight' : x.ms = w.ms
  OBVIOUS
<1>5. Tells(w, {})
  BY <1>3, <1>4 DEF Tells
<1> QED BY <1>1, <1>2, <1>5, AnswerKeeps, Zenon

LEMMA RespondKeeps == ASSUME Inv, NEW w \in flight, Respond(w) PROVE Inv'
<1>1. TypeOK /\ InTurn
  BY DEF Inv, ImporterInv
<1>2. /\ Same /\ UNCHANGED <<status, handle, line, taken, reports, outcome>>
      /\ anyError' = anyError /\ faults' \in 0..MaxFaults
      /\ db' = Write(db, w.statement) /\ db' \in {db, Write(db, w.statement)}
  BY <1>1 DEF Respond, Responded, Same, TypeOK
<1>3. w.ms \in Lines /\ w.kind \in {"row", "analyzeAndSync", "analyze"} /\ Statement(w.statement)
  BY <1>1, WorkerIs
<1>4. /\ \A m : AnalyticRow(m) \in db' <=> AnalyticRow(m) \in db \/ w.statement = {AnalyticRow(m)}
      /\ \A m : SyncRow(m) \in db' <=> SyncRow(m) \in db \/ w.statement = {SyncRow(m)}
  BY <1>2, <1>3, WriteMarks, Zenon
<1>5. CASE /\ w.kind = "row"
           /\ flight' = flight \ {w}
           /\ Send(Released(w.ms, flight', anyError[w.ms]))
  <2>1. anyError[w.ms] \in BOOLEAN
    BY <1>1, <1>3 DEF TypeOK
  <2> QED BY <1>2, <1>5, <2>1, RowEnds, Zenon
<1>6. CASE /\ w.kind = "analyzeAndSync" /\ w.statement = {AnalyticRow(w.ms)}
           /\ flight' = (flight \ {w}) \cup {[w EXCEPT !.statement = {SyncRow(w.ms)}]}
           /\ UNCHANGED inbox
  <2>. DEFINE v == [w EXCEPT !.statement = {SyncRow(w.ms)}]
  <2>1. /\ v \in Workers /\ v.ms = w.ms /\ v.kind = w.kind /\ v.id = w.id
        /\ v.statement = {SyncRow(w.ms)}
    <3>1. w \in Workers
      BY <1>1, WorkerIs
    <3>2. {SyncRow(w.ms)} \in UNION {(UNION {Statements(m, k) : k \in DOMAIN Messages[m]})
                                       \cup {{AnalyticRow(m)}, {SyncRow(m)}} : m \in Lines}
      BY <1>3
    <3> QED BY <3>1, <3>2 DEF Workers
  <2>2. v.kind = "analyzeAndSync" /\ AnalyticRow(w.ms) \in db'
    BY <1>4, <1>6, <2>1
  <2>3. flight' = (flight \ {w}) \cup {v} /\ UNCHANGED <<anyError, inbox>>
    BY <1>2, <1>6
  <2>. HIDE DEF v
  <2> QED BY <1>2, <2>1, <2>2, <2>3, GoesOn, Zenon
<1>7. CASE /\ w.kind = "analyze" \/ w.statement = {SyncRow(w.ms)}
           /\ flight' = flight \ {w}
           /\ Send(<<Event("CqlOk", w.ms)>>)
  <2>1. w.kind # "row" /\ IsComplete(w.ms)'
    <3>1. CASE w.kind = "analyze"
      <4>1. mode = "Analytics" /\ w.statement = {AnalyticRow(w.ms)}
        BY <1>1, <3>1 DEF InTurn, WorkersInTurn
      <4>2. AnalyticRow(w.ms) \in db' /\ mode' # "All"
        BY <1>2, <1>4, <4>1 DEF Same
      <4> QED BY <3>1, <4>2 DEF IsComplete
    <3>2. CASE w.statement = {SyncRow(w.ms)}
      <4>1. w.kind # "row"
        <5>1. w.kind = "row" => w.statement \in Statements(w.ms, w.id)
          BY <1>1 DEF InTurn, WorkersInTurn
        <5>2. SyncRow(w.ms) \in w.statement /\ SyncRow(w.ms).key[1] \in Marks
          BY <3>2, MarkRows
        <5> QED BY <5>1, <5>2, StatementRows DEF Statements
      <4>2. w.statement # {AnalyticRow(w.ms)}
        <5>1. SyncRow(w.ms) # AnalyticRow(w.ms)
          BY MarkRows
        <5> QED BY <3>2, <5>1
      <4>3. w.kind # "analyze"
        BY <1>1, <4>2 DEF InTurn, WorkersInTurn
      <4>4. AnalyticRow(w.ms) \in db
        BY <1>1, <1>3, <4>1, <4>2, <4>3 DEF InTurn, WorkersInTurn
      <4>5. AnalyticRow(w.ms) \in db' /\ SyncRow(w.ms) \in db'
        BY <1>4, <3>2, <4>4
      <4> QED BY <4>1, <4>5 DEF IsComplete
    <3> QED BY <1>7, <3>1, <3>2
  <2>2. "CqlOk" \in {"CqlOk", "CqlErr"}
    OBVIOUS
  <2> QED BY <1>2, <1>7, <2>1, <2>2, MarkEnds, Zenon
<1> QED BY <1>5, <1>6, <1>7, Zenon DEF Respond, Responded

LEMMA FailKeeps == ASSUME Inv, NEW w \in flight, Fail(w) PROVE Inv'
<1>1. TypeOK /\ InTurn
  BY DEF Inv, ImporterInv
<1>2. /\ Same /\ UNCHANGED <<status, handle, line, taken, reports, outcome>>
      /\ faults' \in 0..MaxFaults /\ db' \in {db, Write(db, w.statement)}
  BY <1>1 DEF Fail, Same, TypeOK
<1>3. w \in Workers /\ w.retries \in 0..Retries
  BY <1>1, WorkerIs
<1>4. CASE w.retries > 0 /\ Retry(w)
  <2>. DEFINE v == [w EXCEPT !.retries = @ - 1]
  <2>1. /\ v \in Workers /\ v.ms = w.ms /\ v.kind = w.kind /\ v.id = w.id
        /\ v.statement = w.statement
    <3>1. w.retries - 1 \in 0..Retries
      BY <1>3, <1>4
    <3> QED BY <1>3, <3>1 DEF Workers
  <2>2. flight' = (flight \ {w}) \cup {v} /\ UNCHANGED <<anyError, inbox>>
    BY <1>4 DEF Retry
  <2>. HIDE DEF v
  <2> QED BY <1>2, <2>1, <2>2, GoesOn, Zenon
<1>5. CASE GaveUp(w)
  <2>1. flight' = flight \ {w}
    BY <1>5 DEF GaveUp
  <2>2. CASE w.kind = "row"
    <3>1. /\ anyError' = [anyError EXCEPT ![w.ms] = TRUE]
          /\ Send(Released(w.ms, flight', TRUE))
      BY <1>5, <2>2, Zenon DEF GaveUp
    <3>2. TRUE \in BOOLEAN /\ TRUE = TRUE
      OBVIOUS
    <3> QED BY <1>2, <2>1, <2>2, <3>1, <3>2, RowEnds, Zenon
  <2>3. CASE w.kind # "row"
    <3>1. anyError' = anyError /\ Send(<<Event("CqlErr", w.ms)>>)
      BY <1>5, <2>3, Zenon DEF GaveUp
    <3>2. "CqlErr" \in {"CqlOk", "CqlErr"} /\ "CqlErr" # "CqlOk"
      OBVIOUS
    <3> QED BY <1>2, <2>1, <2>3, <3>1, <3>2, MarkEnds, Zenon
  <2> QED BY <2>2, <2>3
<1> QED BY <1>4, <1>5, Zenon DEF Fail

LEMMA StepKeeps == ASSUME Inv, [Next]_vars PROVE Inv'
<1>1. CASE Handle
  BY <1>1, InitializeKeeps, InitFailsKeeps, HandleCqlOkKeeps, HandleCqlErrKeeps,
     HandleProcessMoreKeeps, HandleShutdownKeeps, InboxClosedKeeps, Zenon DEF Handle
<1>2. CASE Answer
  BY <1>2, RespondKeeps, FailKeeps, Zenon DEF Answer
<1>3. CASE AskShutdown
  BY <1>3, AskShutdownKeeps
<1>4. CASE UNCHANGED vars
  <2>1. /\ Same /\ UNCHANGED <<db, line, taken, flight, anyError, reports, faults>>
        /\ UNCHANGED <<status, outcome>> /\ inbox' = inbox /\ handle' = handle
    BY <1>4 DEF vars, Same
  <2>2. inbox \in Seq(Events) /\ Apart(inbox)
    BY DEF Inv, ImporterInv, TypeOK, OneDriver, AtMostOneDriver
  <2>3. handle \in BOOLEAN
    BY Zenon DEF Inv, ImporterInv, TypeOK
  <2>4. /\ inbox' \in Seq(Events) /\ Apart(inbox') /\ handle' \in BOOLEAN
        /\ \A e \in ToSet(inbox') : e \in ToSet(inbox) \/ e = Event("Shutdown", 0)
        /\ \A e \in ToSet(inbox) : e \in ToSet(inbox')
    BY <2>1, <2>2, <2>3, Zenon
  <2> QED BY <2>1, <2>4, TurnKeeps, Zenon
<1> QED BY <1>1, <1>2, <1>3, <1>4 DEF Next

-----------------------------------------------------------------------------
(* The theorems. *)

LEMMA Keeps == Spec => []Inv
<1>1. Init => Inv
  BY InitKeeps
<1>2. Inv /\ [Next]_vars => Inv'
  BY StepKeeps
<1> QED BY <1>1, <1>2, PTL DEF Spec

\* A running import neither stalls nor loses track of a milestone: whatever fails and
\* whenever it is asked to stop, a milestone in progress has one thing under way that
\* makes it go on, and a mark in the database comes after what it vouches for.
THEOREM Invariance == Spec => []ImporterInv
<1>1. Inv => ImporterInv
  BY DEF Inv
<1> QED BY <1>1, Keeps, PTL

\* The progress that is reported is true of the database, and an import that says it
\* is done has reported every line of its file once.
THEOREM ReportsAreExact == Spec => []ReportsExact
<1>1. Inv => ReportsExact
  BY DEF Inv
<1> QED BY <1>1, Keeps, PTL

\* Only the workers change what the promise is about.
LEMMA PromiseSame ==
  ASSUME Same, db' = db
  PROVE  UNCHANGED <<WantedLines, StoredLines, CompleteLines>>
<1>1. (\A m : Skips(m)' <=> Skips(m)) /\ mode' = mode /\ Keys(db)' = Keys(db)
  BY SkipsSame DEF Same, Keys
<1>2. WantedLines' = WantedLines
  BY <1>1 DEF WantedLines
<1>3. \A m : IsComplete(m)' <=> IsComplete(m)
  BY DEF Same, IsComplete
<1>4. StoredLines' = StoredLines
  BY <1>1, <1>2 DEF StoredLines
<1>5. CompleteLines' = CompleteLines
  BY <1>2, <1>3 DEF CompleteLines
<1> QED BY <1>2, <1>4, <1>5

\* A statement stores rows of milestones, or completes a milestone that is stored.
LEMMA PromiseWritten ==
  ASSUME Inv, Same, NEW w \in flight, db' \in {db, Write(db, w.statement)}
  PROVE  /\ WantedLines' = WantedLines
         /\ \/ /\ StoredLines \subseteq StoredLines' /\ StoredLines' \subseteq WantedLines
               /\ CompleteLines' = CompleteLines
            \/ /\ StoredLines' = StoredLines /\ w.ms \in StoredLines
               /\ CompleteLines \subseteq CompleteLines'
               /\ CompleteLines' \subseteq CompleteLines \cup {w.ms}
<1>1. TypeOK /\ InTurn
  BY DEF Inv, ImporterInv
<1>2. (\A m : Skips(m)' <=> Skips(m)) /\ mode' = mode /\ Keys(db)' = Keys(db')
  BY SkipsSame DEF Same, Keys
<1>3. WantedLines' = WantedLines
  BY <1>2 DEF WantedLines
<1>4. CASE db' = db
  <2>1. UNCHANGED <<WantedLines, StoredLines, CompleteLines>>
    BY <1>4, PromiseSame
  <2> QED BY <2>1 DEF StoredLines
<1>5. CASE db' = Write(db, w.statement)
  <2>1. w.ms \in Lines /\ ~Skips(w.ms) /\ Statement(w.statement)
        /\ w.kind \in {"row", "analyzeAndSync", "analyze"}
    BY <1>1, WorkerIs
  <2>2. /\ \A m : AnalyticRow(m) \in db' <=> AnalyticRow(m) \in db \/ w.statement = {AnalyticRow(m)}
        /\ \A m : SyncRow(m) \in db' <=> SyncRow(m) \in db \/ w.statement = {SyncRow(m)}
    BY <1>5, <2>1, WriteMarks, Zenon
  <2>3. Keys(db') = Keys(db) \cup Keys(w.statement)
    BY <1>5, WriteKeys
  <2>4. CASE w.kind = "row"
    <3>1. w.statement \in Statements(w.ms, w.id)
      BY <1>1, <2>4 DEF InTurn, WorkersInTurn
    <3>2. \A m : w.statement # {AnalyticRow(m)} /\ w.statement # {SyncRow(m)}
      <4>1. \A r \in w.statement : r.key[1] \notin Marks
        BY <3>1, StatementRows DEF Statements
      <4>2. \A m : AnalyticRow(m).key[1] \in Marks /\ SyncRow(m).key[1] \in Marks
        BY MarkRows
      <4> QED BY <4>1, <4>2
    <3>3. \A m : IsComplete(m)' <=> IsComplete(m)
      BY <1>2, <2>2, <3>2 DEF IsComplete
    <3>4. CompleteLines' = CompleteLines
      BY <1>3, <3>3 DEF CompleteLines
    <3>5. StoredLines' = {m \in WantedLines : mode = "All" => Keys(RowsOf(m)) \subseteq Keys(db')}
      BY <1>2, <1>3 DEF StoredLines
    <3>6. StoredLines \subseteq StoredLines' /\ StoredLines' \subseteq WantedLines
      BY <2>3, <3>5 DEF StoredLines
    <3> QED BY <1>3, <3>4, <3>6
  <2>5. CASE w.kind # "row"
    <3>1. w.statement = {AnalyticRow(w.ms)} \/ w.statement = {SyncRow(w.ms)}
      BY <1>1, <2>1, <2>5 DEF InTurn, WorkersInTurn
    <3>2. mode = "All" => Keys(RowsOf(w.ms)) \subseteq Keys(db)
      BY <1>1, <2>1, <2>5 DEF InTurn, WorkersInTurn
    <3>3. \A m : m # w.ms => w.statement # {AnalyticRow(m)} /\ w.statement # {SyncRow(m)}
      <4>. TAKE m
      <4>1. /\ AnalyticRow(w.ms) = AnalyticRow(m) => w.ms = m
            /\ SyncRow(w.ms) = SyncRow(m) => w.ms = m
            /\ AnalyticRow(w.ms) # SyncRow(m) /\ SyncRow(w.ms) # AnalyticRow(m)
        BY MarkRows
      <4> QED BY <3>1, <4>1
    <3>4. \A m : IsComplete(m) => IsComplete(m)'
      BY <1>2, <2>2 DEF IsComplete
    <3>5. \A m : m # w.ms => (IsComplete(m)' => IsComplete(m))
      BY <1>2, <2>2, <3>3 DEF IsComplete
    <3>6. CompleteLines \subseteq CompleteLines' /\ CompleteLines' \subseteq CompleteLines \cup {w.ms}
      BY <1>3, <3>4, <3>5 DEF CompleteLines
    <3>7. \A m : Keys(RowsOf(m)) \subseteq Keys(db') => Keys(RowsOf(m)) \subseteq Keys(db)
      <4>. SUFFICES ASSUME NEW m, NEW r \in RowsOf(m), r.key \in Keys(w.statement) PROVE FALSE
        BY <2>3 DEF Keys
      <4>1. r.key[1] \notin Marks
        BY StatementRows DEF RowsOf, Statements
      <4>2. r.key = AnalyticRow(w.ms).key \/ r.key = SyncRow(w.ms).key
        BY <3>1 DEF Keys
      <4> QED BY <4>1, <4>2, MarkRows
    <3>8. StoredLines' = {m \in WantedLines : mode = "All" => Keys(RowsOf(m)) \subseteq Keys(db')}
      BY <1>2, <1>3 DEF StoredLines
    <3>9. StoredLines' = StoredLines
      BY <2>3, <3>7, <3>8 DEF StoredLines
    <3>10. w.ms \in StoredLines
      BY <2>1, <3>2 DEF StoredLines, WantedLines
    <3> QED BY <1>3, <3>6, <3>9, <3>10
  <2> QED BY <2>4, <2>5
<1> QED BY <1>4, <1>5

LEMMA PromiseInit == ASSUME Init, Inv PROVE Promise!Init
<1>1. StoredLines \subseteq WantedLines /\ outcome = "none"
  BY DEF StoredLines, Init
<1>2. CompleteLines \subseteq StoredLines
  BY DEF Inv, ImporterInv, InTurn, SyncAfterRows, CompleteLines, StoredLines, WantedLines, IsComplete
<1> QED BY <1>1, <1>2 DEF Promise!Init

LEMMA PromiseStep ==
  ASSUME Inv, Inv', [Next]_vars
  PROVE  [Promise!Next]_Promise!vars
<1>1. CASE Handle
  <2>1. Same /\ db' = db /\ status # "Stopped"
    BY <1>1 DEF Handle, Initialize, InitFails, HandleCqlOk, HandleCqlErr, HandleProcessMore,
         HandleShutdown, InboxClosed, Received, Handled, Same
  <2>2. UNCHANGED <<WantedLines, StoredLines, CompleteLines>>
    BY <2>1, PromiseSame
  <2>3. outcome = "none" /\ outcome' \in {"none", "done", "failed"}
    BY <2>1 DEF Inv, ImporterInv, LinesInTurn, TypeOK
  <2>4. outcome' = "done" => CompleteLines = WantedLines
    <3>. SUFFICES ASSUME outcome' = "done" PROVE CompleteLines' = WantedLines'
      BY <2>2
    <3>1. \A m \in Lines : Skips(m)' \/ IsComplete(m)'
      BY DEF Inv, ReportsExact
    <3> QED BY <3>1 DEF CompleteLines, WantedLines
  <2>5. CASE outcome' = outcome
    BY <2>2, <2>5 DEF Promise!vars
  <2>6. CASE outcome' \in {"done", "failed"}
    <3>1. Promise!Finish(outcome')
      BY <2>2, <2>3, <2>4 DEF Promise!Finish
    <3> QED BY <2>6, <3>1 DEF Promise!Next
  <2> QED BY <2>3, <2>5, <2>6
<1>2. ASSUME NEW w \in flight, Respond(w) \/ Fail(w) PROVE [Promise!Next]_Promise!vars
  <2>1. Same /\ db' \in {db, Write(db, w.statement)} /\ outcome' = outcome
    BY <1>2 DEF Respond, Responded, Fail, Same
  <2>2. /\ WantedLines' = WantedLines
        /\ \/ /\ StoredLines \subseteq StoredLines' /\ StoredLines' \subseteq WantedLines
              /\ CompleteLines' = CompleteLines
           \/ /\ StoredLines' = StoredLines /\ w.ms \in StoredLines
              /\ CompleteLines \subseteq CompleteLines'
              /\ CompleteLines' \subseteq CompleteLines \cup {w.ms}
    BY <2>1, PromiseWritten, Zenon
  <2>3. CASE UNCHANGED <<StoredLines, CompleteLines>>
    BY <2>1, <2>2, <2>3 DEF Promise!vars
  <2>4. CASE /\ StoredLines \subseteq StoredLines' /\ StoredLines' \subseteq WantedLines
             /\ CompleteLines' = CompleteLines /\ StoredLines' # StoredLines
    <3>. DEFINE s == StoredLines' \ StoredLines
    <3>1. s \in SUBSET (WantedLines \ StoredLines) /\ s # {} /\ StoredLines' = StoredLines \cup s
      BY <2>4
    <3>. HIDE DEF s
    <3>2. Promise!Store(s)
      BY <2>1, <2>2, <2>4, <3>1 DEF Promise!Store
    <3> QED BY <3>1, <3>2 DEF Promise!Next
  <2>5. CASE /\ StoredLines' = StoredLines /\ w.ms \in StoredLines
             /\ CompleteLines \subseteq CompleteLines'
             /\ CompleteLines' \subseteq CompleteLines \cup {w.ms} /\ CompleteLines' # CompleteLines
    <3>1. w.ms \notin CompleteLines /\ CompleteLines' = CompleteLines \cup {w.ms}
      BY <2>5
    <3>2. w.ms \in WantedLines
      BY <2>5 DEF StoredLines
    <3>3. Promise!Complete(w.ms)
      BY <2>1, <2>2, <2>5, <3>1 DEF Promise!Complete
    <3> QED BY <3>2, <3>3 DEF Promise!Next
  <2> QED BY <2>2, <2>3, <2>4, <2>5
<1>3. CASE AskShutdown \/ UNCHANGED vars
  <2>1. Same /\ db' = db /\ outcome' = outcome
    BY <1>3 DEF AskShutdown, vars, Same
  <2>2. UNCHANGED <<WantedLines, StoredLines, CompleteLines>>
    BY <2>1, PromiseSame
  <2> QED BY <2>1, <2>2 DEF Promise!vars
<1> QED BY <1>1, <1>2, <1>3, Zenon DEF Next, Answer

\* The import implements what it promises: it makes a milestone complete only when all
\* its rows are stored, and says it is done only with every wanted milestone complete.
THEOREM Implements == Spec => Promised
<1>1. Init /\ Inv => Promise!Init
  BY PromiseInit
<1>2. Inv /\ Inv' /\ [Next]_vars => [Promise!Next]_Promise!vars
  BY PromiseStep
<1> QED BY <1>1, <1>2, Keeps, PTL DEF Spec, Promised, Promise!Spec

=============================================================================
