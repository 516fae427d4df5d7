-------------------------- MODULE SolidifierProofs --------------------------
(***************************************************************************)
(* Proofs about the solidifier, for any partition and tangle, any size of  *)
(* the caches, and any answers of the collectors and the database.         *)
(*                                                                         *)
(* The data of a milestone is Sound: it holds messages of the milestone,   *)
(* and what is missing of their ancestors is pending.  So it is complete   *)
(* when nothing is pending, what is sent and what the entry of the         *)
(* database counts to is the whole milestone, and an entry that has        *)
(* counted that far has all of it.                                         *)
(***************************************************************************)
EXTENDS Solidifier, SequenceTheorems, FiniteSetTheorems, TLAPS

USE SolidifierAssumption, NoneAssumption

-----------------------------------------------------------------------------
(* The caches. *)

\* What is taken out of a cache is no longer in it; the rest stays.
LEMMA WithoutEntry ==
  ASSUME NEW s \in Caches, NEW i \in Mine
  PROVE  /\ Without(s, i) \in Caches
         /\ ToSet(Without(s, i)) = ToSet(s) \ {i}
         /\ i \in ToSet(s) => Len(s) > 0 /\ Len(Without(s, i)) = Len(s) - 1
<1>1. CASE i \notin ToSet(s)
  BY <1>1 DEF Without
<1>2. CASE i \in ToSet(s)
  <2>. DEFINE at == CHOOSE k \in DOMAIN s : s[k] = i
              t == [k \in 1 .. Len(s) - 1 |-> IF k < at THEN s[k] ELSE s[k + 1]]
  <2>1. s \in Seq(Mine) /\ Len(s) \in Nat /\ DOMAIN s = 1 .. Len(s) /\ Len(s) <= Capacity
    BY DEF Caches
  <2>2. \A k, l \in 1 .. Len(s) : s[k] = s[l] => k = l
    BY <2>1 DEF Caches, IsInjective
  <2>3. at \in 1 .. Len(s) /\ s[at] = i
    <3>1. \E k \in DOMAIN s : s[k] = i
      BY <1>2 DEF ToSet
    <3> QED BY <2>1, <3>1
  <2>4. Without(s, i) = t
    BY <1>2 DEF Without
  <2>. HIDE DEF at
  <2>5. \A k \in 1 .. Len(s) - 1 : k \in 1 .. Len(s) /\ k + 1 \in 1 .. Len(s)
    BY <2>1
  <2>6. \A k \in 1 .. Len(s) : s[k] \in Mine
    BY <2>1
  <2>7. t \in [1 .. Len(s) - 1 -> Mine]
    BY <2>5, <2>6
  <2>8. Len(s) - 1 \in Nat
    BY <2>1, <2>3
  <2>9. t \in Seq(Mine) /\ Len(t) = Len(s) - 1 /\ DOMAIN t = 1 .. Len(s) - 1
    <3>. HIDE DEF t
    <3> QED BY <2>7, <2>8, SMTT(60)
  <2>10. \A k \in 1 .. Len(s) - 1 : t[k] = IF k < at THEN s[k] ELSE s[k + 1]
    OBVIOUS
  <2>. HIDE DEF t
  <2>11. ASSUME NEW k \in 1 .. Len(s) - 1, NEW l \in 1 .. Len(s) - 1, t[k] = t[l]
         PROVE  k = l
    <3>. DEFINE u(j) == IF j < at THEN j ELSE j + 1
    <3>1. t[k] = s[u(k)] /\ t[l] = s[u(l)] /\ u(k) \in 1 .. Len(s) /\ u(l) \in 1 .. Len(s)
      BY <2>5, <2>10
    <3>2. u(k) = u(l)
      <4>. HIDE DEF u
      <4> QED BY <2>2, <2>11, <3>1
    <3> QED BY <2>3, <3>2
  <2>12. IsInjective(t)
    BY <2>9, <2>11 DEF IsInjective
  <2>13. ToSet(t) \subseteq ToSet(s) \ {i}
    <3>1. SUFFICES ASSUME NEW k \in 1 .. Len(s) - 1
                   PROVE  t[k] \in ToSet(s) /\ t[k] # i
      BY <2>9 DEF ToSet
    <3>. DEFINE l == IF k < at THEN k ELSE k + 1
    <3>2. t[k] = s[l] /\ l \in 1 .. Len(s) /\ l # at
      BY <2>3, <2>5, <2>10
    <3>. HIDE DEF l
    <3>3. s[l] # i
      BY <2>2, <2>3, <3>2
    <3> QED BY <2>1, <3>2, <3>3 DEF ToSet
  <2>14. ToSet(s) \ {i} \subseteq ToSet(t)
    <3>1. SUFFICES ASSUME NEW k \in 1 .. Len(s), s[k] # i
                   PROVE  s[k] \in ToSet(t)
      BY <2>1 DEF ToSet
    <3>. DEFINE l == IF k < at THEN k ELSE k - 1
    <3>2. k # at
      BY <2>3, <3>1
    <3>3. l \in 1 .. Len(s) - 1 /\ t[l] = s[k]
      BY <2>3, <2>10, <3>2
    <3> QED BY <2>9, <3>3 DEF ToSet
  <2>15. t \in Caches
    BY <2>1, <2>9, <2>12 DEF Caches
  <2> QED BY <1>2, <2>1, <2>3, <2>4, <2>9, <2>13, <2>14, <2>15
<1> QED BY <1>1, <1>2

\* An entry that is added is the youngest.
LEMMA AppendEntry ==
  ASSUME NEW s \in Caches, NEW i \in Mine, i \notin ToSet(s)
  PROVE  /\ Append(s, i) \in Seq(Mine) /\ IsInjective(Append(s, i))
         /\ Len(Append(s, i)) = Len(s) + 1 /\ Len(s) \in Nat
         /\ ToSet(Append(s, i)) = ToSet(s) \cup {i}
<1>. DEFINE t == Append(s, i)
<1>1. s \in Seq(Mine) /\ Len(s) \in Nat /\ DOMAIN s = 1 .. Len(s)
  BY DEF Caches
<1>2. \A k, l \in 1 .. Len(s) : s[k] = s[l] => k = l
  BY <1>1 DEF Caches, IsInjective
<1>3. \A k \in 1 .. Len(s) : s[k] # i
  BY <1>1 DEF ToSet
<1>4. t \in Seq(Mine) /\ Len(t) = Len(s) + 1 /\ DOMAIN t = 1 .. Len(s) + 1
  BY <1>1
<1>5. t[Len(s) + 1] = i /\ \A k \in 1 .. Len(s) : t[k] = s[k]
  BY <1>1
<1>. HIDE DEF t
<1>6. \A k \in 1 .. Len(s) + 1 : k = Len(s) + 1 \/ k \in 1 .. Len(s)
  BY <1>1
<1>7. IsInjective(t)
  BY <1>2, <1>3, <1>4, <1>5, <1>6 DEF IsInjective
<1>8. ToSet(t) = ToSet(s) \cup {i}
  <2>1. ToSet(t) \subseteq ToSet(s) \cup {i}
    BY <1>1, <1>4, <1>5, <1>6 DEF ToSet
  <2>2. ToSet(s) \subseteq ToSet(t)
    <3>1. \A k \in 1 .. Len(s) : k \in 1 .. Len(s) + 1
      BY <1>1
    <3> QED BY <1>1, <1>4, <1>5, <3>1 DEF ToSet
  <2>3. Len(s) + 1 \in 1 .. Len(s) + 1
    BY <1>1
  <2>4. i \in ToSet(t)
    BY <1>4, <1>5, <2>3 DEF ToSet
  <2> QED BY <2>1, <2>2, <2>4
<1> QED BY <1>1, <1>4, <1>7, <1>8 DEF t

\* The oldest entry makes room for one that is put.
LEMMA PutEntry ==
  ASSUME NEW s \in Caches, NEW i \in Mine
  PROVE  Put(s, i) \in Caches /\ ToSet(Put(s, i)) \subseteq ToSet(s) \cup {i}
<1>. DEFINE w == Without(s, i)
            t == Append(w, i)
<1>1. w \in Caches /\ ToSet(w) = ToSet(s) \ {i}
  BY WithoutEntry
<1>. HIDE DEF w
<1>2. t \in Seq(Mine) /\ IsInjective(t) /\ Len(t) = Len(w) + 1 /\ Len(w) \in Nat
      /\ ToSet(t) = ToSet(w) \cup {i}
  <2>1. i \notin ToSet(w)
    BY <1>1
  <2> QED BY <1>1, <2>1, AppendEntry
<1>. HIDE DEF t
<1>3. Len(w) <= Capacity
  BY <1>1 DEF Caches
<1>4. CASE Len(t) > Capacity
  <2>1. Len(t) \in Nat \ {0} /\ DOMAIN t = 1 .. Len(t)
    BY <1>2
  <2>2. Tail(t) \in Seq(Mine) /\ Len(Tail(t)) = Len(t) - 1 /\ DOMAIN Tail(t) = 1 .. Len(t) - 1
    BY <1>2, <2>1
  <2>3. \A k \in 1 .. Len(t) - 1 : Tail(t)[k] = t[k + 1] /\ k + 1 \in 1 .. Len(t)
    BY <1>2, <2>1
  <2>4. \A k, l \in 1 .. Len(t) : t[k] = t[l] => k = l
    BY <1>2, <2>1 DEF IsInjective
  <2>5. ASSUME NEW k \in 1 .. Len(t) - 1, NEW l \in 1 .. Len(t) - 1, Tail(t)[k] = Tail(t)[l]
        PROVE  k = l
    <3>1. t[k + 1] = t[l + 1] /\ k + 1 \in 1 .. Len(t) /\ l + 1 \in 1 .. Len(t)
      BY <2>3, <2>5
    <3>2. k + 1 = l + 1
      BY <2>4, <3>1
    <3> QED BY <3>2
  <2>6. IsInjective(Tail(t))
    BY <2>2, <2>5 DEF IsInjective
  <2>7. ToSet(Tail(t)) \subseteq ToSet(t)
    BY <2>1, <2>2, <2>3 DEF ToSet
  <2>8. Len(Tail(t)) <= Capacity
    BY <1>2, <1>3, <2>2
  <2>9. Put(s, i) = Tail(t)
    BY <1>4 DEF Put, t, w
  <2>10. ToSet(t) \subseteq ToSet(s) \cup {i}
    BY <1>1, <1>2
  <2>11. Tail(t) \in Caches
    BY <2>2, <2>6, <2>8 DEF Caches
  <2> QED BY <2>7, <2>9, <2>10, <2>11
<1>5. CASE ~(Len(t) > Capacity)
  <2>1. Put(s, i) = t
    BY <1>5 DEF Put, t, w
  <2>2. Len(t) <= Capacity
    BY <1>2, <1>5
  <2>3. t \in Caches
    BY <1>2, <2>2 DEF Caches
  <2>4. ToSet(t) \subseteq ToSet(s) \cup {i}
    BY <1>1, <1>2
  <2> QED BY <2>1, <2>3, <2>4
<1> QED BY <1>4, <1>5

\* What is got is in the cache still, and nothing else is.
LEMMA GetEntry ==
  ASSUME NEW s \in Caches, NEW i \in Mine
  PROVE  Get(s, i) \in Caches /\ ToSet(Get(s, i)) = ToSet(s)
<1>1. CASE i \notin ToSet(s)
  BY <1>1 DEF Get
<1>2. CASE i \in ToSet(s)
  <2>. DEFINE w == Without(s, i)
              t == Append(w, i)
  <2>1. w \in Caches /\ ToSet(w) = ToSet(s) \ {i} /\ Len(w) = Len(s) - 1
    BY <1>2, WithoutEntry
  <2>. HIDE DEF w
  <2>2. t \in Seq(Mine) /\ IsInjective(t) /\ Len(t) = Len(w) + 1 /\ Len(w) \in Nat
        /\ ToSet(t) = ToSet(w) \cup {i}
    <3>1. i \notin ToSet(w)
      BY <2>1
    <3> QED BY <2>1, <3>1, AppendEntry
  <2>. HIDE DEF t
  <2>3. Get(s, i) = t
    BY <1>2 DEF Get, t, w
  <2>4. Len(s) \in Nat /\ Len(s) <= Capacity
    BY DEF Caches
  <2>5. Len(t) <= Capacity
    BY <2>1, <2>2, <2>4
  <2>6. t \in Caches
    BY <2>2, <2>5 DEF Caches
  <2>7. ToSet(t) = ToSet(s)
    BY <1>2, <2>1, <2>2
  <2> QED BY <2>3, <2>6, <2>7
<1> QED BY <1>1, <1>2
-----------------------------------------------------------------------------
(* The data of a milestone. *)

\* What Collected says of the data d of milestone i.
Sound(i, d) ==
  /\ d.messages \subseteq Cone(i)
  /\ d.milestone => MilestoneOf[i] \in d.messages
  /\ i \notin Held => \A m \in d.messages : Parents[m] \cap Cone(i) \subseteq d.messages \cup d.pending

\* Complete data is the whole milestone.
LEMMA CompleteIsCone ==
  ASSUME NEW i \in Mine \ Held, NEW d \in Data, Sound(i, d), Complete(d)
  PROVE  d.messages = Cone(i)
<1>1. d.milestone /\ d.pending = {}
  BY DEF Complete
<1>2. d.messages \in SUBSET Cone(i) /\ MilestoneOf[i] \in d.messages
  BY <1>1 DEF Sound
<1>3. \A m \in d.messages : Parents[m] \cap Cone(i) \subseteq d.messages
  BY <1>1 DEF Sound
<1>4. i \in Mine
  OBVIOUS
<1> QED BY <1>2, <1>3, <1>4, TangleAssumption

\* Data that is new is sound.
LEMMA NewIsSound ==
  ASSUME NEW i \in Mine, NEW by \in {"Incoming", "Expected", "Syncer"}
  PROVE  NewData(by) \in Data /\ Sound(i, NewData(by)) /\ NewData(by).by = by
         /\ NewData(by).messages = {} /\ NewData(by).milestone = FALSE
BY DEF NewData, Data, Sound

\* A message of the milestone keeps the data sound: its parents become pending.
LEMMA AddedIsSound ==
  ASSUME NEW i \in Mine, NEW d \in Data, Sound(i, d), NEW m \in Cone(i)
  PROVE  /\ Added(d, m) \in Data /\ Sound(i, Added(d, m))
         /\ Added(d, m).by = d.by /\ Added(d, m).messages = d.messages \cup {m}
<1>1. m \in Msgs /\ Parents[m] \subseteq Msgs
  BY DEF Cone
<1>. DEFINE e == Added(d, m)
<1>2. /\ d.by \in {"Incoming", "Expected", "Syncer"} /\ d.milestone \in BOOLEAN
      /\ d.messages \subseteq Msgs /\ d.pending \subseteq Msgs
  BY DEF Data
<1>3. /\ e.by = d.by /\ e.milestone = d.milestone /\ e.messages = d.messages \cup {m}
      /\ e.pending = (d.pending \cup (Parents[m] \ (d.messages \cup d.pending))) \ {m}
  BY DEF Data, Added, Missing
<1>4. e \in Data
  BY <1>1, <1>2 DEF Added, Missing, Data
<1>. HIDE DEF e
<1>5. e.messages \subseteq Cone(i) /\ (e.milestone => MilestoneOf[i] \in e.messages)
  BY <1>3 DEF Sound
<1>6. ASSUME i \notin Held, NEW n \in e.messages
      PROVE  Parents[n] \cap Cone(i) \subseteq e.messages \cup e.pending
  <2>1. CASE n = m
    BY <1>3, <2>1
  <2>2. CASE n \in d.messages
    <3>1. Parents[n] \cap Cone(i) \subseteq d.messages \cup d.pending
      BY <1>6, <2>2 DEF Sound
    <3>2. d.messages \cup d.pending \subseteq e.messages \cup e.pending
      BY <1>3
    <3> QED BY <3>1, <3>2
  <2> QED BY <1>3, <1>6, <2>1, <2>2
<1>7. Sound(i, e)
  BY <1>5, <1>6 DEF Sound
<1> QED BY <1>3, <1>4, <1>7 DEF e

\* The milestone's own message completes what the data says of itself.
LEMMA MilestoneIsSound ==
  ASSUME NEW i \in Mine, NEW d \in Data, Sound(i, d), MilestoneOf[i] \in d.messages,
         NEW b \in BOOLEAN
  PROVE  /\ [d EXCEPT !.milestone = b] \in Data /\ Sound(i, [d EXCEPT !.milestone = b])
         /\ [d EXCEPT !.milestone = b].by = d.by
         /\ [d EXCEPT !.milestone = b].messages = d.messages
<1>. DEFINE e == [d EXCEPT !.milestone = b]
<1>1. e \in Data
  BY DEF Data
<1>2. e.by = d.by /\ e.messages = d.messages /\ e.pending = d.pending
  BY DEF Data
<1>. HIDE DEF e
<1>3. Sound(i, e)
  BY <1>2 DEF Sound
<1> QED BY <1>1, <1>2, <1>3 DEF e

\* What is closed is not missing, for it is not of the milestone.
LEMMA ClosedIsSound ==
  ASSUME NEW i \in Mine, NEW d \in Data, Sound(i, d), NEW m, i \in Held \/ m \notin Cone(i)
  PROVE  /\ [d EXCEPT !.pending = @ \ {m}] \in Data /\ Sound(i, [d EXCEPT !.pending = @ \ {m}])
         /\ [d EXCEPT !.pending = @ \ {m}].by = d.by
         /\ [d EXCEPT !.pending = @ \ {m}].messages = d.messages
<1>. DEFINE e == [d EXCEPT !.pending = @ \ {m}]
<1>1. e \in Data
  BY DEF Data
<1>2. e.by = d.by /\ e.messages = d.messages /\ e.milestone = d.milestone /\ e.pending = d.pending \ {m}
  BY DEF Data
<1>. HIDE DEF e
<1>3. Sound(i, e)
  BY <1>2 DEF Sound
<1> QED BY <1>1, <1>2, <1>3 DEF e

-----------------------------------------------------------------------------
(* The invariant. *)

Types ==
  /\ task \in {"running", "stopped"}
  /\ first \in Mine \cup {0}
  /\ expected \in Nat
  /\ data \in [Mine -> Data \cup {None}]
  /\ inDb \in [Mine -> Entry \cup {None}]
  /\ unreachable \in Caches
  /\ lruDb \in Caches
  /\ taken \subseteq Mine
  /\ synced \subseteq Mine
  /\ owed \subseteq Mine
  /\ inserting \subseteq Msgs
  /\ stored \subseteq Msgs
  /\ analysing \in [Mine -> 0 .. MaxAnalyses]

OutType ==
  out = None \/ /\ out.type \in {"syncer", "archiver", "unreachable"} /\ out.index \in Mine
                /\ out.messages \subseteq Msgs

AllSound == \A i \in Mine : data[i] # None => Sound(i, data[i])

SyncedStored == \A i \in synced \ Held : Cone(i) \subseteq stored

\* The rows of milestone i, the payloads aside.
Tracked(i) ==
  /\ data[i] # None => data[i].messages \subseteq EntryOf(i).ids \cup inserting
  /\ EntryOf(i).len # Unknown => Cone(i) \subseteq EntryOf(i).ids \cup inserting
  /\ i \notin taken => EntryOf(i).len = Unknown
  /\ i \notin taken \/ (data[i] # None /\ data[i].by # "Syncer") =>
       Cone(i) \cap stored \subseteq EntryOf(i).ids
AllTracked == ~CachesLag => \A i \in DbAnswers \ (synced \cup Held) : Tracked(i)

\* What holds of everything but the asks.
Core ==
  /\ Types
  /\ OutType
  /\ OwedIsOwned
  /\ InTurn
  /\ AllSound
  /\ SentExact
  /\ EntriesExact
  /\ SyncedStored
  /\ AllTracked

\* What holds of the asks: a payload is on its way only while its message is inserted.
Asked ==
  /\ asks \subseteq Asks
  /\ confirmed \subseteq Msgs
  /\ \A a \in asks : a.type = "close" => a.index \in Held
  /\ \A i \in DbAnswers : Payload(i) \in asks => MilestoneOf[i] \in inserting

Inv == Core /\ Asked

\* The invariant says all that the runs check, and more of the payloads.
LEMMA InvImplies ==
  Inv => SolidifierInv /\ SentExact /\ SyncedIsStored /\ RowsAwaited
<1>. SUFFICES ASSUME Inv
     PROVE  SolidifierInv /\ SentExact /\ SyncedIsStored /\ RowsAwaited
  OBVIOUS
<1>1. /\ Types /\ OutType /\ OwedIsOwned /\ InTurn /\ AllSound /\ SentExact /\ EntriesExact
      /\ SyncedStored /\ AllTracked /\ Asked
  BY DEF Inv, Core
<1>2. TypeOK
  BY <1>1 DEF TypeOK, Types, OutType, Asked
<1>3. Collected
  BY <1>1 DEF Collected, AllSound, Sound, Asked
<1>4. SyncedIsStored
  BY <1>1 DEF SyncedIsStored, SyncedStored
<1>5. RowsAwaited
  BY <1>1 DEF RowsAwaited, RowsKept, AllTracked, Tracked, Asked
<1> QED BY <1>1, <1>2, <1>3, <1>4, <1>5 DEF SolidifierInv

-----------------------------------------------------------------------------
(* The rows in the database. *)

\* What an entry of milestone i says is so, when `there` are the messages stored.
TrueOf(i, e, there) ==
  /\ e \in Entry
  /\ e.ids \subseteq Cone(i) \cap there
  /\ i \notin Held => e.len \in {Unknown, Cardinality(Cone(i))}

LEMMA EntryIsTrue ==
  ASSUME Types, EntriesExact, NEW i \in Mine
  PROVE  TrueOf(i, EntryOf(i), stored)
<1>1. CASE inDb[i] = None
  <2>1. NewEntry \in Entry
    BY DEF NewEntry, Entry
  <2> QED BY <1>1, <2>1 DEF EntryOf, TrueOf, NewEntry
<1>2. CASE inDb[i] # None
  <2>1. inDb[i] \in Entry
    BY <1>2 DEF Types
  <2> QED BY <1>2, <2>1 DEF EntryOf, TrueOf, EntriesExact
<1> QED BY <1>1, <1>2

\* An entry of which everything is in the database has the whole milestone.
LEMMA AllIsStored ==
  ASSUME NEW i \in Mine \ Held, NEW e, NEW there, TrueOf(i, e, there), AllInDatabase(e)
  PROVE  Cone(i) \subseteq there
<1>1. IsFiniteSet(Cone(i)) /\ e.ids \subseteq Cone(i) /\ e.ids \subseteq there
  BY TangleAssumption DEF TrueOf
<1>2. IsFiniteSet(e.ids) /\ Cardinality(e.ids) \in Nat
  BY <1>1, FS_Subset, FS_CardinalityType
<1>3. e.len = Cardinality(e.ids) /\ e.len \in {Unknown, Cardinality(Cone(i))}
  BY DEF AllInDatabase, TrueOf
<1>4. Cardinality(e.ids) = Cardinality(Cone(i))
  BY <1>2, <1>3 DEF Unknown
<1>5. e.ids = Cone(i)
  BY <1>1, <1>4, FS_Subset
<1> QED BY <1>1, <1>5

\* The rows after the entry of milestone i has become e.
Recorded(i, e, there) ==
  /\ inDb' \in [Mine -> Entry \cup {None}]
  /\ lruDb' \in Caches
  /\ synced' \subseteq Mine
  /\ synced \subseteq synced'
  /\ ToSet(lruDb') \subseteq synced'
  /\ \A j \in Mine \ {i} : inDb'[j] = inDb[j] /\ (j \in synced' => j \in synced)
  /\ \A j \in Mine : inDb'[j] # None => TrueOf(j, inDb'[j], there)
  /\ \A j \in synced' \ Held : Cone(j) \subseteq there
  /\ i \in DbAnswers \ synced' => inDb'[i] = e

LEMMA RecordIsTrue ==
  ASSUME Types, EntriesExact, SyncedStored, NEW i \in Mine, NEW e, NEW there \in SUBSET Msgs,
         stored \subseteq there, TrueOf(i, e, there), Record(i, e)
  PROVE  Recorded(i, e, there)
<1>0. /\ inDb \in [Mine -> Entry \cup {None}] /\ lruDb \in Caches /\ synced \subseteq Mine
      /\ ToSet(lruDb) \subseteq synced /\ e \in Entry
  BY DEF Types, EntriesExact, TrueOf
<1>1. \A j \in Mine : inDb[j] # None => TrueOf(j, inDb[j], there)
  <2>1. ASSUME NEW j \in Mine, inDb[j] # None
        PROVE  TrueOf(j, inDb[j], there)
    <3>1. inDb[j] \in Entry
      BY <1>0, <2>1
    <3> QED BY <2>1, <3>1 DEF EntriesExact, TrueOf
  <2> QED BY <2>1
<1>2. \A j \in synced \ Held : Cone(j) \subseteq there
  BY DEF SyncedStored
<1>3. CASE i \notin DbAnswers
  <2>1. inDb' = inDb /\ lruDb' = lruDb /\ synced' = synced
    BY <1>3 DEF Record
  <2> QED BY <1>0, <1>1, <1>2, <1>3, <2>1 DEF Recorded
<1>4. CASE i \in DbAnswers /\ AllInDatabase(e)
  <2>1. inDb' = [inDb EXCEPT ![i] = None] /\ lruDb' = Put(lruDb, i) /\ synced' = synced \cup {i}
    BY <1>4 DEF Record
  <2>2. lruDb' \in Caches /\ ToSet(lruDb') \subseteq synced'
    <3>1. Put(lruDb, i) \in Caches /\ ToSet(Put(lruDb, i)) \subseteq ToSet(lruDb) \cup {i}
      BY <1>0, PutEntry
    <3> QED BY <1>0, <2>1, <3>1
  <2>3. i \notin Held => Cone(i) \subseteq there
    BY <1>4, AllIsStored
  <2>4. inDb' \in [Mine -> Entry \cup {None}] /\ inDb'[i] = None
        /\ \A j \in Mine \ {i} : inDb'[j] = inDb[j]
    BY <1>0, <2>1
  <2>5. \A j \in Mine : inDb'[j] # None => TrueOf(j, inDb'[j], there)
    BY <1>1, <2>4
  <2>6. \A j \in synced' \ Held : Cone(j) \subseteq there
    BY <1>2, <2>1, <2>3
  <2>7. i \in synced' /\ synced \subseteq synced' /\ synced' \subseteq Mine
        /\ \A j \in Mine \ {i} : j \in synced' => j \in synced
    BY <1>0, <2>1
  <2> QED BY <2>2, <2>4, <2>5, <2>6, <2>7 DEF Recorded
<1>5. CASE i \in DbAnswers /\ ~AllInDatabase(e)
  <2>1. inDb' = [inDb EXCEPT ![i] = e] /\ lruDb' = lruDb /\ synced' = synced
    BY <1>5 DEF Record
  <2>2. inDb' \in [Mine -> Entry \cup {None}] /\ inDb'[i] = e
        /\ \A j \in Mine \ {i} : inDb'[j] = inDb[j]
    BY <1>0, <2>1
  <2>3. \A j \in Mine : inDb'[j] # None => TrueOf(j, inDb'[j], there)
    BY <1>1, <2>2
  <2> QED BY <1>0, <1>2, <2>1, <2>2, <2>3 DEF Recorded
<1> QED BY <1>3, <1>4, <1>5

-----------------------------------------------------------------------------
(* The data changes. *)

\* The collectors may have more messages to insert; nothing is stored.
MoreInserted ==
  /\ inserting \subseteq inserting' /\ inserting' \subseteq Msgs
  /\ stored' = stored
  /\ \A m \in inserting' : Ref[m] \in DbAnswers

\* The messages of the data d are in the database or on their way.
Backed(i, d) ==
  (~CachesLag /\ i \in DbAnswers \ (synced \cup Held)) => d.messages \subseteq EntryOf(i).ids \cup inserting'

\* A milestone that nothing happens to is tracked as before.
LEMMA StillTracked ==
  ASSUME NEW j \in Mine, Tracked(j), MoreInserted, data'[j] = data[j], inDb'[j] = inDb[j],
         j \in taken' <=> j \in taken
  PROVE  Tracked(j)'
<1>1. EntryOf(j)' = EntryOf(j)
  BY DEF EntryOf
<1>2. inserting \subseteq inserting' /\ stored' = stored
  BY DEF MoreInserted
<1> QED BY <1>1, <1>2 DEF Tracked

\* The data of milestone i becomes d.
LEMMA KeepCollecting ==
  ASSUME Core, MoreInserted, NEW i \in Mine, data[i] # None, NEW d \in Data, Sound(i, d),
         d.by = data[i].by, Backed(i, d),
         SetData([data EXCEPT ![i] = d]), out' = None, UNCHANGED <<db, owed>>,
         UNCHANGED <<task, first, expected, unreachable>>
  PROVE  Core'
<1>1. /\ Types /\ OutType /\ OwedIsOwned /\ InTurn /\ AllSound /\ SentExact /\ EntriesExact
      /\ SyncedStored /\ AllTracked
  BY DEF Core
<1>2. /\ inDb' = inDb /\ lruDb' = lruDb /\ synced' = synced /\ analysing' = analysing
      /\ owed' = owed /\ task' = task /\ first' = first /\ expected' = expected
      /\ unreachable' = unreachable
  BY DEF db
<1>3. /\ inserting \subseteq inserting' /\ inserting' \subseteq Msgs /\ stored' = stored
      /\ \A m \in inserting' : Ref[m] \in DbAnswers
  BY DEF MoreInserted
<1>4. data \in [Mine -> Data \cup {None}] /\ taken \subseteq Mine
  BY <1>1 DEF Types
<1>5. d # None
  OBVIOUS
<1>6. /\ data' = [data EXCEPT ![i] = d]
      /\ data' \in [Mine -> Data \cup {None}]
      /\ data'[i] = d /\ \A j \in Mine \ {i} : data'[j] = data[j]
  BY <1>4 DEF SetData
<1>7. taken' = taken
  <2>1. \A j \in Mine : data'[j] # None => j \in taken
    BY <1>1, <1>6 DEF InTurn
  <2>2. taken' = taken \cup {j \in Mine : data'[j] # None}
    BY DEF SetData
  <2> QED BY <2>1, <2>2
<1>8. Types'
  BY <1>1, <1>2, <1>3, <1>6, <1>7 DEF Types
<1>9. OutType' /\ SentExact'
  BY DEF OutType, SentExact
<1>10. OwedIsOwned'
  <2>1. \A j \in Mine : (data'[j] # None /\ data'[j].by = "Syncer") <=> (data[j] # None /\ data[j].by = "Syncer")
    BY <1>5, <1>6
  <2> QED BY <1>1, <1>2, <2>1 DEF OwedIsOwned
<1>11. InTurn'
  BY <1>1, <1>2, <1>5, <1>6, <1>7 DEF InTurn
<1>12. AllSound'
  <2>1. \A j \in Mine : data'[j] # None => Sound(j, data'[j])
    BY <1>1, <1>6 DEF AllSound
  <2> QED BY <2>1 DEF AllSound
<1>13. EntriesExact' /\ SyncedStored'
  BY <1>1, <1>2, <1>3 DEF EntriesExact, SyncedStored
<1>14. AllTracked'
  <2>1. ASSUME ~CachesLag, NEW j \in DbAnswers \ (synced \cup Held)
        PROVE  Tracked(j)'
    <3>1. Tracked(j) /\ j \in Mine
      BY <1>1, <2>1 DEF AllTracked
    <3>2. CASE j # i
      BY <1>2, <1>6, <1>7, <3>1, <3>2, StillTracked
    <3>3. CASE j = i
      <4>1. EntryOf(i)' = EntryOf(i)
        BY <1>2 DEF EntryOf
      <4>2. d.messages \subseteq EntryOf(i).ids \cup inserting'
        BY <2>1, <3>3 DEF Backed
      <4>3. Tracked(i)
        BY <3>1, <3>3
      <4> QED BY <1>3, <1>6, <1>7, <3>3, <4>1, <4>2, <4>3 DEF Tracked
    <3> QED BY <3>2, <3>3
  <2> QED BY <1>2, <2>1 DEF AllTracked
<1> QED BY <1>8, <1>9, <1>10, <1>11, <1>12, <1>13, <1>14 DEF Core

\* Complete data is pushed.
LEMMA PushKeeps ==
  ASSUME Core, MoreInserted, NEW i \in Mine, data[i] # None, NEW d \in Data, Sound(i, d),
         d.by = data[i].by, Backed(i, d), Complete(d), Push(i, d),
         UNCHANGED <<task, first, expected, unreachable>>
  PROVE  Core'
<1>1. /\ Types /\ OutType /\ OwedIsOwned /\ InTurn /\ AllSound /\ SentExact /\ EntriesExact
      /\ SyncedStored /\ AllTracked
  BY DEF Core
<1>2. /\ task' = task /\ first' = first /\ expected' = expected /\ unreachable' = unreachable
  OBVIOUS
<1>3. /\ inserting \subseteq inserting' /\ inserting' \subseteq Msgs /\ stored' = stored
      /\ \A m \in inserting' : Ref[m] \in DbAnswers
  BY DEF MoreInserted
<1>4. /\ data \in [Mine -> Data \cup {None}] /\ taken \subseteq Mine
      /\ analysing \in [Mine -> 0 .. MaxAnalyses] /\ owed \subseteq Mine
  BY <1>1 DEF Types
<1>5. i \in taken /\ i \notin ToSet(unreachable) /\ analysing[i] < MaxAnalyses
  BY <1>1 DEF InTurn
<1>6. /\ data' \in [Mine -> Data \cup {None}]
      /\ data'[i] = None /\ \A j \in Mine \ {i} : data'[j] = data[j]
  <2>1. data' = [data EXCEPT ![i] = None]
    BY DEF Push, SetData
  <2> QED BY <1>4, <2>1
<1>7. taken' = taken
  <2>1. \A j \in Mine : data'[j] # None => j \in taken
    BY <1>1, <1>6 DEF InTurn
  <2>2. taken' = taken \cup {j \in Mine : data'[j] # None}
    BY DEF Push, SetData
  <2> QED BY <2>1, <2>2
<1>8. d.messages \subseteq Cone(i) /\ d.messages \subseteq Msgs
  BY DEF Sound, Cone
<1>9. IsFiniteSet(d.messages) /\ Cardinality(d.messages) \in Nat
  <2>1. IsFiniteSet(d.messages)
    BY <1>8, TangleAssumption, FS_Subset
  <2> QED BY <2>1, FS_CardinalityType
<1>10. i \notin Held => d.messages = Cone(i)
  BY CompleteIsCone
<1>11. PICK e : e = [EntryOf(i) EXCEPT !.len = Cardinality(d.messages)]
  OBVIOUS
<1>12. TrueOf(i, e, stored) /\ e.ids = EntryOf(i).ids /\ e \in Entry
  <2>1. TrueOf(i, EntryOf(i), stored)
    BY <1>1, EntryIsTrue
  <2>2. EntryOf(i) \in Entry
    BY <2>1 DEF TrueOf
  <2>3. e \in Entry /\ e.ids = EntryOf(i).ids /\ e.len = Cardinality(d.messages)
    BY <1>9, <1>11, <2>2 DEF Entry
  <2> QED BY <1>10, <2>1, <2>3 DEF TrueOf
<1>13. Recorded(i, e, stored)
  <2>1. Record(i, e)
    BY <1>11 DEF Push
  <2>2. stored \in SUBSET Msgs /\ stored \subseteq stored
    BY <1>1 DEF Types
  <2> QED BY <1>1, <1>12, <2>1, <2>2, RecordIsTrue
<1>14. /\ analysing' \in [Mine -> 0 .. MaxAnalyses]
       /\ \A j \in Mine \ {i} : analysing'[j] = analysing[j]
  <2>1. analysing' = [analysing EXCEPT ![i] = IF i \in DbAnswers THEN @ + 1 ELSE @]
    BY DEF Push
  <2>2. analysing[i] \in 0 .. MaxAnalyses /\ analysing[i] + 1 \in 0 .. MaxAnalyses
    BY <1>4, <1>5
  <2> QED BY <1>4, <2>1, <2>2
<1>15. owed' = IF d.by = "Syncer" THEN owed \ {i} ELSE owed
  BY DEF Push
<1>16. /\ inDb' \in [Mine -> Entry \cup {None}] /\ lruDb' \in Caches /\ synced' \subseteq Mine
       /\ ToSet(lruDb') \subseteq synced' /\ synced \subseteq synced'
       /\ \A j \in Mine \ {i} : inDb'[j] = inDb[j] /\ (j \in synced' => j \in synced)
       /\ \A j \in Mine : inDb'[j] # None => TrueOf(j, inDb'[j], stored)
       /\ \A j \in synced' \ Held : Cone(j) \subseteq stored
       /\ i \in DbAnswers \ synced' => inDb'[i] = e
  BY <1>13 DEF Recorded
<1>17. Types'
  <2>1. owed' \subseteq Mine
    BY <1>4, <1>15
  <2> QED BY <1>1, <1>2, <1>3, <1>6, <1>7, <1>14, <1>16, <2>1 DEF Types
<1>18. OutType' /\ SentExact'
  <2>1. out' = [type |-> IF d.by = "Syncer" THEN "syncer" ELSE "archiver", index |-> i,
                messages |-> d.messages]
    BY DEF Push, Send
  <2>2. out'.type \in {"syncer", "archiver"} /\ out'.index = i /\ out'.messages = d.messages
    BY <2>1
  <2>3. OutType'
    BY <1>8, <2>2 DEF OutType
  <2>4. SentExact'
    BY <1>10, <2>2 DEF SentExact
  <2> QED BY <2>3, <2>4
<1>19. OwedIsOwned'
  <2>1. \A j \in Mine : (data'[j] # None /\ data'[j].by = "Syncer") <=> (j \in owed /\ j # i)
    BY <1>1, <1>6 DEF OwedIsOwned
  <2>2. owed' = {j \in owed : j # i}
    BY <1>1, <1>15 DEF OwedIsOwned
  <2> QED BY <1>4, <2>1, <2>2 DEF OwedIsOwned
<1>20. InTurn'
  BY <1>1, <1>2, <1>5, <1>6, <1>7, <1>14 DEF InTurn
<1>21. AllSound'
  <2>1. \A j \in Mine : data'[j] # None => Sound(j, data'[j])
    BY <1>1, <1>6 DEF AllSound
  <2> QED BY <2>1 DEF AllSound
<1>22. EntriesExact' /\ SyncedStored'
  <2>1. EntriesExact'
    <3>1. \A m \in inserting' \cup stored' : Ref[m] \in DbAnswers
      BY <1>1, <1>3 DEF EntriesExact
    <3> QED BY <1>3, <1>16, <3>1 DEF EntriesExact, TrueOf
  <2>2. SyncedStored'
    BY <1>3, <1>16 DEF SyncedStored
  <2> QED BY <2>1, <2>2
<1>23. AllTracked'
  <2>1. ASSUME ~CachesLag, NEW j \in DbAnswers \ (synced' \cup Held)
        PROVE  Tracked(j)'
    <3>1. Tracked(j) /\ j \in Mine /\ j \notin synced
      BY <1>1, <1>16, <2>1 DEF AllTracked
    <3>2. CASE j # i
      <4>1. inDb'[j] = inDb[j] /\ data'[j] = data[j]
        BY <1>6, <1>16, <3>1, <3>2
      <4> QED BY <1>7, <3>1, <4>1, StillTracked
    <3>3. CASE j = i
      <4>1. EntryOf(i)' = e
        <5>1. inDb'[i] = e
          BY <1>16, <2>1, <3>3
        <5> QED BY <1>12, <5>1 DEF EntryOf
      <4>2. d.messages \subseteq EntryOf(i).ids \cup inserting'
        BY <2>1, <3>1, <3>3 DEF Backed
      <4>3. Cone(i) \subseteq EntryOf(i).ids \cup inserting'
        BY <1>10, <2>1, <3>3, <4>2
      <4> QED BY <1>5, <1>6, <1>7, <1>12, <3>3, <4>1, <4>3 DEF Tracked
    <3> QED BY <3>2, <3>3
  <2> QED BY <2>1 DEF AllTracked
<1> QED BY <1>17, <1>18, <1>19, <1>20, <1>21, <1>22, <1>23 DEF Core

LEMMA UpdateKeeps ==
  ASSUME Core, MoreInserted, NEW i \in Mine, data[i] # None, NEW d \in Data, Sound(i, d),
         d.by = data[i].by, Backed(i, d), Update(i, d)
  PROVE  Core'
<1>1. UNCHANGED <<task, first, expected, unreachable>>
  BY DEF Update
<1>2. CASE Complete(d) /\ Push(i, d)
  BY <1>1, <1>2, PushKeeps
<1>3. CASE ~Complete(d) /\ SetData([data EXCEPT ![i] = d]) /\ out' = None /\ UNCHANGED <<db, owed>>
  BY <1>1, <1>3, KeepCollecting
<1> QED BY <1>2, <1>3 DEF Update

\* Nothing is sent but that a milestone is unreachable.
Quiet == out' = None \/ \E i \in Mine : Send("unreachable", i, {})

LEMMA QuietIsExact ==
  ASSUME Quiet
  PROVE  OutType' /\ SentExact'
<1>1. CASE out' = None
  BY <1>1 DEF OutType, SentExact
<1>2. ASSUME NEW i \in Mine, Send("unreachable", i, {})
      PROVE  OutType' /\ SentExact'
  <2>1. out' = [type |-> "unreachable", index |-> i, messages |-> {}]
    BY <1>2 DEF Send
  <2>2. out'.type = "unreachable" /\ out'.index = i /\ out'.messages = {}
    BY <2>1
  <2> QED BY <2>2 DEF OutType, SentExact
<1> QED BY <1>1, <1>2 DEF Quiet

\* No entry changes; the caches may forget some of what was given up.
Forgets == unreachable' \in Caches /\ ToSet(unreachable') \subseteq ToSet(unreachable)

LEMMA NothingNew ==
  ASSUME Core, MoreInserted, task' \in {"running", "stopped"}, Forgets, Quiet,
         UNCHANGED <<first, expected, entries, db, owed>>
  PROVE  Core'
<1>1. /\ Types /\ OwedIsOwned /\ InTurn /\ AllSound /\ EntriesExact
      /\ SyncedStored /\ AllTracked
  BY DEF Core
<1>2. /\ inDb' = inDb /\ lruDb' = lruDb /\ synced' = synced /\ analysing' = analysing
      /\ owed' = owed /\ first' = first /\ expected' = expected
      /\ data' = data /\ taken' = taken
  BY DEF db, entries
<1>3. /\ inserting \subseteq inserting' /\ inserting' \subseteq Msgs /\ stored' = stored
      /\ \A m \in inserting' : Ref[m] \in DbAnswers
  BY DEF MoreInserted
<1>4. Types'
  BY <1>1, <1>2, <1>3 DEF Types, Forgets
<1>5. OutType' /\ SentExact'
  BY QuietIsExact
<1>6. OwedIsOwned' /\ AllSound'
  BY <1>1, <1>2 DEF OwedIsOwned, AllSound
<1>7. InTurn'
  BY <1>1, <1>2 DEF InTurn, Forgets
<1>8. EntriesExact' /\ SyncedStored'
  BY <1>1, <1>2, <1>3 DEF EntriesExact, SyncedStored
<1>9. AllTracked'
  <2>1. ASSUME ~CachesLag, NEW j \in DbAnswers \ (synced \cup Held)
        PROVE  Tracked(j)'
    <3>1. Tracked(j) /\ j \in Mine
      BY <1>1, <2>1 DEF AllTracked
    <3>2. data'[j] = data[j] /\ inDb'[j] = inDb[j] /\ (j \in taken' <=> j \in taken)
      BY <1>2
    <3> QED BY <3>1, <3>2, StillTracked
  <2> QED BY <1>2, <2>1 DEF AllTracked
<1> QED BY <1>4, <1>5, <1>6, <1>7, <1>8, <1>9 DEF Core

\* The milestones that get data in D never had any; all that had lie below what is expected.
TakesUp(D) ==
  /\ D \in [Mine -> Data \cup {None}]
  /\ \A j \in Mine : \/ D[j] = data[j]
                     \/ /\ data[j] = None /\ D[j] # None
                        /\ j \notin taken /\ j < expected'
                        /\ Sound(j, D[j]) /\ Backed(j, D[j])
  /\ \A j \in taken : j < expected'
  /\ first' \in Mine /\ expected' \in Nat
  /\ owed' = {j \in Mine : D[j] # None /\ D[j].by = "Syncer"}

LEMMA TakeUpKeeps ==
  ASSUME Core, MoreInserted, NEW D, TakesUp(D), SetData(D), Forgets, Quiet,
         UNCHANGED <<task, db>>
  PROVE  Core'
<1>1. /\ Types /\ OwedIsOwned /\ InTurn /\ AllSound /\ EntriesExact
      /\ SyncedStored /\ AllTracked
  BY DEF Core
<1>2. /\ inDb' = inDb /\ lruDb' = lruDb /\ synced' = synced /\ analysing' = analysing
      /\ task' = task /\ data' = D
  BY DEF db, SetData
<1>3. /\ inserting \subseteq inserting' /\ inserting' \subseteq Msgs /\ stored' = stored
      /\ \A m \in inserting' : Ref[m] \in DbAnswers
  BY DEF MoreInserted
<1>4. /\ taken \subseteq Mine /\ ToSet(unreachable) \subseteq taken
      /\ \A j \in Mine \ taken : analysing[j] = 0
      /\ \A j \in Mine : data[j] # None =>
           j \in taken /\ j \notin ToSet(unreachable) /\ analysing[j] < MaxAnalyses
  BY <1>1 DEF Types, InTurn
<1>5. /\ D \in [Mine -> Data \cup {None}]
      /\ first' \in Mine /\ expected' \in Nat
      /\ \A j \in taken : j < expected'
      /\ owed' = {j \in Mine : D[j] # None /\ D[j].by = "Syncer"}
  BY DEF TakesUp
<1>6. \A j \in Mine : \/ D[j] = data[j]
                      \/ /\ data[j] = None /\ D[j] # None
                         /\ j \notin taken /\ j < expected'
                         /\ Sound(j, D[j]) /\ Backed(j, D[j])
  BY DEF TakesUp
<1>7. taken' = taken \cup {j \in Mine : D[j] # None}
  BY DEF SetData
<1>8. Types'
  <2>1. taken' \subseteq Mine /\ owed' \subseteq Mine
    BY <1>4, <1>5, <1>7
  <2> QED BY <1>1, <1>2, <1>3, <1>5, <2>1 DEF Types, Forgets
<1>9. OutType' /\ SentExact'
  BY QuietIsExact
<1>10. OwedIsOwned'
  BY <1>2, <1>5 DEF OwedIsOwned
<1>11. AllSound'
  <2>1. \A j \in Mine : D[j] # None => Sound(j, D[j])
    BY <1>1, <1>6 DEF AllSound
  <2> QED BY <1>2, <2>1 DEF AllSound
<1>12. InTurn'
  <2>1. first' # 0
    BY <1>5
  <2>2. ToSet(unreachable') \subseteq taken'
    BY <1>4, <1>7 DEF Forgets
  <2>3. \A j \in taken' : j < expected'
    <3>1. ASSUME NEW j \in Mine, D[j] # None
          PROVE  j < expected'
      BY <1>4, <1>5, <1>6, <3>1
    <3> QED BY <1>5, <1>7, <3>1
  <2>4. ASSUME NEW j \in Mine, D[j] # None
        PROVE  j \in taken' /\ j \notin ToSet(unreachable') /\ analysing[j] < MaxAnalyses
    <3>1. j \in taken'
      BY <1>7, <2>4
    <3>2. CASE D[j] = data[j]
      BY <1>4, <2>4, <3>1, <3>2 DEF Forgets
    <3>3. CASE j \notin taken
      <4>1. analysing[j] = 0 /\ j \notin ToSet(unreachable)
        BY <1>4, <3>3
      <4>2. analysing[j] < MaxAnalyses
        BY <4>1
      <4> QED BY <3>1, <4>1, <4>2 DEF Forgets
    <3> QED BY <1>6, <3>2, <3>3
  <2>5. \A j \in Mine \ taken' : analysing[j] = 0
    BY <1>4, <1>7
  <2> QED BY <1>2, <2>1, <2>2, <2>3, <2>4, <2>5 DEF InTurn
<1>13. EntriesExact' /\ SyncedStored'
  BY <1>1, <1>2, <1>3 DEF EntriesExact, SyncedStored
<1>14. AllTracked'
  <2>1. ASSUME ~CachesLag, NEW j \in DbAnswers \ (synced \cup Held)
        PROVE  Tracked(j)'
    <3>1. Tracked(j) /\ j \in Mine
      BY <1>1, <2>1 DEF AllTracked
    <3>2. CASE D[j] = data[j]
      <4>1. data'[j] = data[j] /\ inDb'[j] = inDb[j]
        BY <1>2, <3>2
      <4>2. j \in taken' <=> j \in taken
        BY <1>4, <1>7, <3>1, <3>2
      <4> QED BY <3>1, <4>1, <4>2, StillTracked
    <3>3. CASE D[j] # None /\ j \notin taken /\ Backed(j, D[j])
      <4>1. EntryOf(j)' = EntryOf(j)
        BY <1>2 DEF EntryOf
      <4>2. D[j].messages \subseteq EntryOf(j).ids \cup inserting'
        BY <2>1, <3>3 DEF Backed
      <4> QED BY <1>2, <1>3, <3>1, <3>3, <4>1, <4>2 DEF Tracked
    <3> QED BY <1>6, <3>1, <3>2, <3>3
  <2> QED BY <1>2, <2>1 DEF AllTracked
<1> QED BY <1>8, <1>9, <1>10, <1>11, <1>12, <1>13, <1>14 DEF Core

-----------------------------------------------------------------------------
(* The messages. *)

\* What a message makes the solidifier ask the collectors for.
Further == {a \in Asks : a.type \in {"full", "milestone"} \/ (a.type = "close" /\ a.index \in Held)}

\* Message m of milestone i is in the database or on its way.
Backing(i, m) ==
  (~CachesLag /\ i \in DbAnswers \ (synced \cup Held)) => m \in EntryOf(i).ids \cup inserting'

\* Requests, and closes where requests are held, are all that is asked.
LEMMA RequestAsks ==
  ASSUME NEW i \in Mine, NEW d \in Data, NEW m \in Msgs, NEW open, Request(i, d, m, open)
  PROVE  asks' \subseteq open \cup Further
<1>1. PICK closed \in SUBSET {p \in Missing(d, m) : IsHeld(p, i, open)} :
        asks' = open \cup {AskFull(p, i, d.by) : p \in Missing(d, m)}
                     \cup {CloseEvent(p, i) : p \in closed}
  BY DEF Request
<1>2. Missing(d, m) \subseteq Msgs /\ d.by \in {"Incoming", "Expected", "Syncer"}
  BY DEF Missing, Data
<1>3. ASSUME NEW p \in Missing(d, m)
      PROVE  AskFull(p, i, d.by) \in Further
  <2>1. p \in Msgs
    BY <1>2
  <2>2. AskFull(p, i, d.by) \in [type : {"full"}, message : Msgs, index : Mine, by : {"Incoming", "Expected", "Syncer"}]
    BY <1>2, <2>1 DEF AskFull
  <2>3. AskFull(p, i, d.by) \in Asks /\ AskFull(p, i, d.by).type = "full"
    BY <2>2 DEF Asks, AskFull
  <2> QED BY <2>3 DEF Further
<1>4. ASSUME NEW p \in closed
      PROVE  CloseEvent(p, i) \in Further
  <2>1. p \in Msgs /\ i \in Held
    BY <1>1, <1>2, <1>4 DEF IsHeld
  <2>2. CloseEvent(p, i) \in [type : {"close"}, message : Msgs, index : Mine]
    BY <2>1 DEF CloseEvent
  <2>3. CloseEvent(p, i) \in Asks /\ CloseEvent(p, i).type = "close" /\ CloseEvent(p, i).index = i
    BY <2>2 DEF Asks, CloseEvent
  <2> QED BY <2>1, <2>3 DEF Further
<1> QED BY <1>1, <1>3, <1>4

LEMMA AskMilestoneIsFurther ==
  ASSUME NEW i \in Mine
  PROVE  AskMilestone(i) \in Further
<1>1. AskMilestone(i) \in [type : {"milestone", "payload"}, index : Mine]
  BY DEF AskMilestone
<1>2. AskMilestone(i) \in Asks /\ AskMilestone(i).type = "milestone"
  BY <1>1 DEF Asks, AskMilestone
<1> QED BY <1>2 DEF Further

\* The data that takes milestone i up with message m, as FirstEntry and IncomingEntry do.
LEMMA FirstData ==
  ASSUME NEW i \in Mine, NEW by \in {"Incoming", "Expected", "Syncer"}, NEW m \in Cone(i),
         NEW b \in BOOLEAN, b => m = MilestoneOf[i], Backing(i, m)
  PROVE  LET d == Added([NewData(by) EXCEPT !.milestone = b], m)
         IN  d \in Data /\ Sound(i, d) /\ d.by = by /\ Backed(i, d)
<1>. DEFINE n == NewData(by)
            e == [n EXCEPT !.milestone = b]
            d == Added(e, m)
<1>1. m \in Msgs /\ Parents[m] \subseteq Msgs
  BY DEF Cone
<1>2. e \in Data /\ e.by = by /\ e.milestone = b /\ e.messages = {} /\ e.pending = {}
  BY DEF NewData, Data
<1>. HIDE DEF e
<1>3. /\ d.by = e.by /\ d.milestone = e.milestone /\ d.messages = e.messages \cup {m}
      /\ d.pending = (e.pending \cup (Parents[m] \ (e.messages \cup e.pending))) \ {m}
  BY <1>2 DEF Data, Added, Missing
<1>4. d.by = by /\ d.milestone = b /\ d.messages = {m} /\ d.pending = Parents[m] \ {m}
  BY <1>2, <1>3
<1>5. d \in Data
  BY <1>1, <1>2 DEF Data, Added, Missing
<1>. HIDE DEF d
<1>6. Sound(i, d)
  BY <1>4 DEF Sound
<1>7. Backed(i, d)
  BY <1>4 DEF Backed, Backing
<1> QED BY <1>4, <1>5, <1>6, <1>7 DEF d, e

\* insert_new_entry_or_not keeps the invariant.
LEMMA NewEntryOrNotKeeps ==
  ASSUME Core, MoreInserted, NEW i \in Mine, NEW m \in Cone(i), NEW open,
         data[i] = None, Backing(i, m), NewEntryOrNot(i, m, open)
  PROVE  Core' /\ asks' \subseteq open \cup Further
<1>1. /\ Types /\ OwedIsOwned /\ InTurn /\ AllSound /\ EntriesExact
      /\ SyncedStored /\ AllTracked
  BY DEF Core
<1>2. /\ data \in [Mine -> Data \cup {None}] /\ unreachable \in Caches /\ expected \in Nat
      /\ first \in Mine \cup {0} /\ taken \subseteq Mine /\ task \in {"running", "stopped"}
      /\ m \in Msgs
  BY <1>1 DEF Types, Cone
<1>3. Forgets /\ Quiet /\ task' = task /\ UNCHANGED <<task, db>>
  <2>1. Get(unreachable, i) \in Caches /\ ToSet(Get(unreachable, i)) = ToSet(unreachable)
    BY <1>2, GetEntry
  <2> QED BY <2>1 DEF NewEntryOrNot, Forgets, Quiet
<1>4. owed = {j \in Mine : data[j] # None /\ data[j].by = "Syncer"}
  BY <1>1 DEF OwedIsOwned
<1>5. /\ first = 0 => taken = {}
      /\ \A j \in taken : j < expected
  BY <1>1 DEF InTurn
<1>6. i \in Nat \ {0} /\ \A j \in Mine : j \in Nat \ {0}
  OBVIOUS
<1>7. CASE FirstEntry(i, m, open)
  <2>. DEFINE d == Added(NewData("Syncer"), m)
              D == [data EXCEPT ![i] = d]
  <2>1. d \in Data /\ Sound(i, d) /\ d.by = "Syncer" /\ Backed(i, d)
    <3>1. NewData("Syncer") \in Data /\ Sound(i, NewData("Syncer"))
          /\ NewData("Syncer").by = "Syncer" /\ NewData("Syncer").messages = {}
      BY NewIsSound
    <3>2. d \in Data /\ Sound(i, d) /\ d.by = "Syncer" /\ d.messages = {m}
      BY <3>1, AddedIsSound
    <3>. HIDE DEF d
    <3>3. Backed(i, d)
      BY <3>2 DEF Backed, Backing
    <3> QED BY <3>2, <3>3
  <2>2. /\ first = 0 /\ first' = i /\ expected' = i + Count /\ SetData(D)
        /\ owed' = owed \cup {i}
        /\ Request(i, NewData("Syncer"), m, open \cup {AskMilestone(i)})
    BY <1>7 DEF FirstEntry
  <2>. HIDE DEF d
  <2>3. D \in [Mine -> Data \cup {None}] /\ D[i] = d /\ (\A j \in Mine \ {i} : D[j] = data[j]) /\ d # None
    BY <1>2, <2>1
  <2>4. taken = {} /\ expected' \in Nat /\ i < expected' /\ first' \in Mine
    BY <1>5, <1>6, <2>2
  <2>. HIDE DEF D
  <2>5. owed' = {j \in Mine : D[j] # None /\ D[j].by = "Syncer"}
    <3>1. \A j \in Mine : (D[j] # None /\ D[j].by = "Syncer")
                            <=> ((data[j] # None /\ data[j].by = "Syncer") \/ j = i)
      BY <2>1, <2>3
    <3> QED BY <1>4, <2>2, <3>1
  <2>6. \A j \in Mine : \/ D[j] = data[j]
                        \/ /\ data[j] = None /\ D[j] # None
                           /\ j \notin taken /\ j < expected'
                           /\ Sound(j, D[j]) /\ Backed(j, D[j])
    <3>1. /\ data[i] = None /\ D[i] # None /\ i \notin taken /\ i < expected'
          /\ Sound(i, D[i]) /\ Backed(i, D[i])
      BY <2>1, <2>3, <2>4
    <3> QED BY <2>3, <3>1, Zenon
  <2>7. TakesUp(D)
    BY <2>3, <2>4, <2>5, <2>6 DEF TakesUp
  <2>8. Core'
    BY <1>3, <2>2, <2>7, TakeUpKeeps
  <2>9. NewData("Syncer") \in Data
    BY NewIsSound
  <2>10. asks' \subseteq (open \cup {AskMilestone(i)}) \cup Further
    BY <1>2, <2>2, <2>9, RequestAsks
  <2>11. AskMilestone(i) \in Further
    BY AskMilestoneIsFurther
  <2>12. asks' \subseteq open \cup Further
    BY <2>10, <2>11
  <2> QED BY <2>8, <2>12
<1>8. CASE IncomingEntry(i, m, open)
  <2>. DEFINE n == [NewData("Incoming") EXCEPT !.milestone = (m = MilestoneOf[i])]
              d == Added(n, m)
              D == [j \in Mine |->
                      IF j = i THEN d
                      ELSE IF expected <= j /\ j < i /\ data[j] = None THEN NewData("Expected")
                      ELSE data[j]]
  <2>1. d \in Data /\ Sound(i, d) /\ d.by = "Incoming" /\ Backed(i, d)
    BY FirstData
  <2>2. /\ first # 0 /\ i >= expected /\ first' = first /\ expected' = i + Count /\ SetData(D)
        /\ owed' = owed /\ Request(i, n, m, open)
    BY <1>8 DEF IncomingEntry
  <2>3. n \in Data
    BY DEF NewData, Data
  <2>4. asks' \subseteq open \cup Further
    BY <1>2, <2>2, <2>3, RequestAsks
  <2>. HIDE DEF d, n
  <2>. DEFINE e == NewData("Expected")
  <2>5. /\ e \in Data /\ e.by = "Expected" /\ e # None
        /\ \A j \in Mine : Sound(j, e) /\ Backed(j, e)
    BY NewIsSound DEF Backed
  <2>. HIDE DEF e
  <2>6. D \in [Mine -> Data \cup {None}]
    BY <1>2, <2>1, <2>5 DEF e
  <2>7. D[i] = d /\ d # None /\ i \notin taken /\ i < expected' /\ expected' \in Nat /\ first' \in Mine
    BY <1>2, <1>5, <1>6, <2>1, <2>2
  <2>8. \A j \in Mine \ {i} : \/ D[j] = data[j]
                              \/ D[j] = e /\ data[j] = None /\ expected <= j /\ j < i
    BY DEF e
  <2>. HIDE DEF D
  <2>9. \A j \in Mine \ {i} : expected <= j /\ j < i => j \notin taken /\ j < expected'
    BY <1>2, <1>5, <1>6, <2>2
  <2>10. \A j \in Mine : \/ D[j] = data[j]
                         \/ /\ data[j] = None /\ D[j] # None
                            /\ j \notin taken /\ j < expected'
                            /\ Sound(j, D[j]) /\ Backed(j, D[j])
    <3>1. ASSUME NEW j \in Mine
          PROVE  \/ D[j] = data[j]
                 \/ /\ data[j] = None /\ D[j] # None
                    /\ j \notin taken /\ j < expected'
                    /\ Sound(j, D[j]) /\ Backed(j, D[j])
      <4>1. CASE j = i
        BY <2>1, <2>7, <4>1
      <4>2. CASE j # i
        BY <2>5, <2>8, <2>9, <4>2
      <4> QED BY <4>1, <4>2
    <3> QED BY <3>1
  <2>11. owed' = {j \in Mine : D[j] # None /\ D[j].by = "Syncer"}
    <3>1. \A j \in Mine : (D[j] # None /\ D[j].by = "Syncer") <=> (data[j] # None /\ data[j].by = "Syncer")
      <4>1. ASSUME NEW j \in Mine
            PROVE  (D[j] # None /\ D[j].by = "Syncer") <=> (data[j] # None /\ data[j].by = "Syncer")
        <5>1. CASE j = i
          BY <2>1, <2>7, <5>1
        <5>2. CASE j # i
          BY <2>5, <2>8, <5>2
        <5> QED BY <5>1, <5>2
      <4> QED BY <4>1
    <3> QED BY <1>4, <2>2, <3>1
  <2>12. \A j \in taken : j < expected'
    BY <1>2, <1>5, <1>6, <2>2
  <2>13. TakesUp(D)
    BY <2>6, <2>7, <2>10, <2>11, <2>12 DEF TakesUp
  <2>14. Core'
    BY <1>3, <2>2, <2>13, TakeUpKeeps
  <2> QED BY <2>4, <2>14
<1>9. CASE asks' = open /\ UNCHANGED <<first, expected, entries, owed>>
  <2>1. task' \in {"running", "stopped"} /\ UNCHANGED <<first, expected, entries, db, owed>>
    BY <1>2, <1>3, <1>9
  <2>2. Core'
    BY <1>3, <2>1, NothingNew
  <2> QED BY <1>9, <2>2
<1> QED BY <1>7, <1>8, <1>9 DEF NewEntryOrNot

\* A message that is added to the data is backed, as what is there already is.
LEMMA AddedIsBacked ==
  ASSUME Core, MoreInserted, NEW i \in Mine, data[i] # None, NEW m, Backing(i, m),
         NEW d, d.messages = data[i].messages \cup {m}
  PROVE  Backed(i, d)
<1>1. AllTracked /\ inserting \subseteq inserting'
  BY DEF Core, MoreInserted
<1>2. ASSUME ~CachesLag, i \in DbAnswers \ (synced \cup Held)
      PROVE  d.messages \subseteq EntryOf(i).ids \cup inserting'
  <2>1. data[i].messages \subseteq EntryOf(i).ids \cup inserting
    BY <1>1, <1>2 DEF AllTracked, Tracked
  <2>2. m \in EntryOf(i).ids \cup inserting'
    BY <1>2 DEF Backing
  <2> QED BY <1>1, <2>1, <2>2
<1> QED BY <1>2 DEF Backed

\* handle_new_msg keeps the invariant.
LEMMA NewMessageKeeps ==
  ASSUME Core, MoreInserted, NEW m \in Msgs, NEW open, Ref[m] \in Mine, Backing(Ref[m], m),
         NewMessage(m, open)
  PROVE  Core' /\ asks' \subseteq open \cup Further
<1>1. PICK i \in Mine : i = Ref[m]
  OBVIOUS
<1>2. m \in Cone(i) /\ Backing(i, m)
  BY <1>1 DEF Cone
<1>3. CASE data[i] # None /\ Request(i, data[i], m, open) /\ Update(i, Added(data[i], m))
  <2>1. data[i] \in Data /\ Sound(i, data[i])
    BY <1>3 DEF Core, Types, AllSound
  <2>. DEFINE d == Added(data[i], m)
  <2>3. d \in Data /\ Sound(i, d) /\ d.by = data[i].by /\ d.messages = data[i].messages \cup {m}
    BY <1>2, <2>1, AddedIsSound
  <2>. HIDE DEF d
  <2>4. Backed(i, d)
    BY <1>2, <1>3, <2>3, AddedIsBacked
  <2>5. Update(i, d)
    BY <1>3 DEF d
  <2>6. Core'
    BY <1>3, <2>3, <2>4, <2>5, UpdateKeeps
  <2>7. asks' \subseteq open \cup Further
    BY <1>3, <2>1, RequestAsks
  <2> QED BY <2>6, <2>7
<1>4. CASE data[i] = None /\ NewEntryOrNot(i, m, open)
  BY <1>2, <1>4, NewEntryOrNotKeeps
<1> QED BY <1>1, <1>3, <1>4 DEF NewMessage

\* handle_milestone_msg keeps the invariant.
LEMMA MilestoneMessageKeeps ==
  ASSUME Core, MoreInserted, NEW i \in Mine, NEW open, Backing(i, MilestoneOf[i]),
         MilestoneMessage(i, open)
  PROVE  Core' /\ asks' \subseteq open \cup Further
<1>1. PICK m : m = MilestoneOf[i]
  OBVIOUS
<1>2. m \in Cone(i) /\ m \in Msgs /\ Backing(i, m)
  BY <1>1 DEF Cone
<1>3. CASE data[i] # None /\ Request(i, data[i], m, open)
           /\ Update(i, [Added(data[i], m) EXCEPT !.milestone = TRUE])
  <2>1. data[i] \in Data /\ Sound(i, data[i])
    BY <1>3 DEF Core, Types, AllSound
  <2>. DEFINE e == Added(data[i], m)
              d == [e EXCEPT !.milestone = TRUE]
  <2>3. e \in Data /\ Sound(i, e) /\ e.by = data[i].by /\ e.messages = data[i].messages \cup {m}
    BY <1>2, <2>1, AddedIsSound
  <2>. HIDE DEF e
  <2>5. MilestoneOf[i] \in e.messages
    BY <1>1, <2>3
  <2>6. d \in Data /\ Sound(i, d) /\ d.by = data[i].by /\ d.messages = data[i].messages \cup {m}
    BY <2>3, <2>5, MilestoneIsSound
  <2>. HIDE DEF d
  <2>7. Backed(i, d)
    BY <1>2, <1>3, <2>6, AddedIsBacked
  <2>8. Update(i, d)
    BY <1>3 DEF d, e
  <2>9. Core'
    BY <1>3, <2>6, <2>7, <2>8, UpdateKeeps
  <2>10. asks' \subseteq open \cup Further
    BY <1>2, <1>3, <2>1, RequestAsks
  <2> QED BY <2>9, <2>10
<1>4. CASE data[i] = None /\ NewEntryOrNot(i, m, open)
  BY <1>2, <1>4, NewEntryOrNotKeeps
<1> QED BY <1>1, <1>3, <1>4 DEF MilestoneMessage

\* close_message_id keeps the invariant.
LEMMA CloseMessageKeeps ==
  ASSUME Core, MoreInserted, NEW i \in Mine, NEW m, NEW open, i \in Held \/ m \notin Cone(i),
         CloseMessage(m, i, open)
  PROVE  Core' /\ asks' \subseteq open \cup Further
<1>1. asks' = open
  BY DEF CloseMessage
<1>2. CASE data[i] # None /\ Update(i, [data[i] EXCEPT !.pending = @ \ {m}])
  <2>1. data[i] \in Data /\ Sound(i, data[i])
    BY <1>2 DEF Core, Types, AllSound
  <2>2. PICK d : d = [data[i] EXCEPT !.pending = @ \ {m}]
    OBVIOUS
  <2>3. d \in Data /\ Sound(i, d) /\ d.by = data[i].by /\ d.messages = data[i].messages
    BY <2>1, <2>2, ClosedIsSound
  <2>4. Backed(i, d)
    <3>1. AllTracked /\ inserting \subseteq inserting'
      BY DEF Core, MoreInserted
    <3> QED BY <1>2, <2>3, <3>1 DEF Backed, AllTracked, Tracked
  <2>5. Core'
    BY <1>2, <2>2, <2>3, <2>4, UpdateKeeps
  <2> QED BY <1>1, <2>5
<1>3. CASE data[i] = None /\ out' = None
           /\ UNCHANGED <<task, first, expected, entries, unreachable, db, owed>>
  <2>1. task' \in {"running", "stopped"} /\ Forgets /\ Quiet
    BY <1>3 DEF Core, Types, Forgets, Quiet
  <2>2. UNCHANGED <<first, expected, entries, db, owed>>
    BY <1>3
  <2>3. Core'
    BY <2>1, <2>2, NothingNew
  <2> QED BY <1>1, <2>3
<1> QED BY <1>2, <1>3 DEF CloseMessage

-----------------------------------------------------------------------------
(* Failures, the requests of the syncer, and the answers of the database.  *)

\* handle_solidify_failure keeps the invariant.
LEMMA FailureKeeps ==
  ASSUME Core, MoreInserted, NEW i \in Mine, NEW open, Failure(i, open)
  PROVE  Core' /\ asks' = open
<1>1. /\ Types /\ OwedIsOwned /\ InTurn /\ AllSound /\ EntriesExact
      /\ SyncedStored /\ AllTracked
  BY DEF Core
<1>2. /\ task' = task /\ first' = first /\ expected' = expected /\ synced' = synced
      /\ analysing' = analysing /\ asks' = open
  BY DEF Failure
<1>3. /\ inserting \subseteq inserting' /\ inserting' \subseteq Msgs /\ stored' = stored
      /\ \A m \in inserting' : Ref[m] \in DbAnswers
  BY DEF MoreInserted
<1>4. /\ data \in [Mine -> Data \cup {None}] /\ unreachable \in Caches /\ lruDb \in Caches
      /\ inDb \in [Mine -> Entry \cup {None}] /\ taken \subseteq Mine
      /\ task \in {"running", "stopped"} /\ owed \subseteq Mine
  BY <1>1 DEF Types
<1>5. CASE /\ i \notin ToSet(unreachable) /\ data[i] # None
           /\ SetData([data EXCEPT ![i] = None])
           /\ lruDb' = Without(lruDb, i)
           /\ inDb' = [inDb EXCEPT ![i] = None]
           /\ unreachable' = Put(unreachable, i)
           /\ \/ /\ data[i].by = "Syncer"
                 /\ Send("unreachable", i, {}) /\ owed' = owed \ {i}
              \/ data[i].by # "Syncer" /\ out' = None /\ UNCHANGED owed
  <2>1. i \in taken /\ \A j \in Mine : data[j] # None => j \in taken
    BY <1>1, <1>5 DEF InTurn
  <2>2. /\ data' \in [Mine -> Data \cup {None}]
        /\ data'[i] = None /\ \A j \in Mine \ {i} : data'[j] = data[j]
    <3>1. data' = [data EXCEPT ![i] = None]
      BY <1>5 DEF SetData
    <3> QED BY <1>4, <3>1
  <2>3. taken' = taken
    <3>1. taken' = taken \cup {j \in Mine : data'[j] # None}
      BY <1>5 DEF SetData
    <3>2. \A j \in Mine : data'[j] # None => j \in taken
      BY <2>1, <2>2
    <3> QED BY <3>1, <3>2
  <2>4. /\ inDb' \in [Mine -> Entry \cup {None}]
        /\ inDb'[i] = None /\ \A j \in Mine \ {i} : inDb'[j] = inDb[j]
    BY <1>4, <1>5
  <2>5. lruDb' \in Caches /\ ToSet(lruDb') \subseteq ToSet(lruDb)
    <3>1. Without(lruDb, i) \in Caches /\ ToSet(Without(lruDb, i)) = ToSet(lruDb) \ {i}
      BY <1>4, WithoutEntry
    <3> QED BY <1>5, <3>1
  <2>6. unreachable' \in Caches /\ ToSet(unreachable') \subseteq ToSet(unreachable) \cup {i}
    <3>1. Put(unreachable, i) \in Caches /\ ToSet(Put(unreachable, i)) \subseteq ToSet(unreachable) \cup {i}
      BY <1>4, PutEntry
    <3> QED BY <1>5, <3>1
  <2>7. owed = {j \in Mine : data[j] # None /\ data[j].by = "Syncer"}
    BY <1>1 DEF OwedIsOwned
  <2>8. owed' = {j \in Mine : data'[j] # None /\ data'[j].by = "Syncer"}
    <3>1. \A j \in Mine : (data'[j] # None /\ data'[j].by = "Syncer") <=> (j \in owed /\ j # i)
      BY <2>2, <2>7
    <3>2. owed' = {j \in owed : j # i}
      BY <1>5, <2>7
    <3> QED BY <1>4, <3>1, <3>2
  <2>9. Types'
    <3>1. owed' \subseteq Mine
      BY <2>8
    <3> QED BY <1>1, <1>2, <1>3, <2>2, <2>3, <2>4, <2>5, <2>6, <3>1 DEF Types
  <2>10. OutType' /\ SentExact'
    <3>1. Quiet
      BY <1>5 DEF Quiet
    <3> QED BY <3>1, QuietIsExact
  <2>11. OwedIsOwned'
    BY <2>8 DEF OwedIsOwned
  <2>12. AllSound'
    <3>1. \A j \in Mine : data'[j] # None => Sound(j, data'[j])
      BY <1>1, <2>2 DEF AllSound
    <3> QED BY <3>1 DEF AllSound
  <2>13. InTurn'
    <3>1. ToSet(unreachable') \subseteq taken'
      BY <1>1, <2>1, <2>3, <2>6 DEF InTurn
    <3>2. ASSUME NEW j \in Mine, data'[j] # None
          PROVE  j \in taken' /\ j \notin ToSet(unreachable') /\ analysing'[j] < MaxAnalyses
      <4>1. j # i /\ data[j] # None
        BY <2>2, <3>2
      <4> QED BY <1>1, <1>2, <2>3, <2>6, <4>1 DEF InTurn
    <3> QED BY <1>1, <1>2, <2>3, <3>1, <3>2 DEF InTurn
  <2>14. EntriesExact' /\ SyncedStored'
    <3>1. ToSet(lruDb') \subseteq synced'
      BY <1>1, <1>2, <2>5 DEF EntriesExact
    <3> QED BY <1>1, <1>2, <1>3, <2>4, <3>1 DEF EntriesExact, SyncedStored
  <2>15. AllTracked'
    <3>1. ASSUME ~CachesLag, NEW j \in DbAnswers \ (synced \cup Held)
          PROVE  Tracked(j)'
      <4>1. Tracked(j) /\ j \in Mine
        BY <1>1, <3>1 DEF AllTracked
      <4>2. CASE j # i
        <5>1. data'[j] = data[j] /\ inDb'[j] = inDb[j] /\ (j \in taken' <=> j \in taken)
          BY <2>2, <2>3, <2>4, <4>1, <4>2
        <5> QED BY <4>1, <5>1, StillTracked
      <4>3. CASE j = i
        <5>1. EntryOf(i)' = NewEntry
          BY <2>4 DEF EntryOf
        <5>2. NewEntry.len = Unknown
          BY DEF NewEntry
        <5> QED BY <2>1, <2>2, <2>3, <4>3, <5>1, <5>2 DEF Tracked
      <4> QED BY <4>2, <4>3
    <3> QED BY <1>2, <3>1 DEF AllTracked
  <2> QED BY <1>2, <2>9, <2>10, <2>11, <2>12, <2>13, <2>14, <2>15 DEF Core
<1>6. CASE /\ unreachable' = Get(unreachable, i)
           /\ out' = None
           /\ UNCHANGED <<entries, lruDb, inDb, owed>>
  <2>1. Forgets /\ Quiet
    <3>1. Get(unreachable, i) \in Caches /\ ToSet(Get(unreachable, i)) = ToSet(unreachable)
      BY <1>4, GetEntry
    <3> QED BY <1>6, <3>1 DEF Forgets, Quiet
  <2>2. task' \in {"running", "stopped"}
    BY <1>2, <1>4
  <2>3. UNCHANGED <<first, expected, entries, db, owed>>
    BY <1>2, <1>6 DEF db
  <2> QED BY <1>2, <2>1, <2>2, <2>3, NothingNew
<1> QED BY <1>5, <1>6 DEF Failure

\* handle_solidify keeps the invariant.
LEMMA SolidifyKeeps ==
  ASSUME Core, MoreInserted, NEW i \in Mine, Solidify(i)
  PROVE  Core' /\ asks' \subseteq asks \cup Further
<1>1. /\ Types /\ OwedIsOwned /\ InTurn /\ AllSound /\ EntriesExact
      /\ SyncedStored /\ AllTracked
  BY DEF Core
<1>2. /\ task' = task /\ first' = first /\ expected' = expected /\ lruDb' = lruDb
      /\ synced' = synced /\ analysing' = analysing
      /\ first # 0 /\ i \notin owed /\ analysing[i] < MaxAnalyses
  BY DEF Solidify
<1>3. /\ inserting \subseteq inserting' /\ inserting' \subseteq Msgs /\ stored' = stored
      /\ \A m \in inserting' : Ref[m] \in DbAnswers
  BY DEF MoreInserted
<1>4. /\ data \in [Mine -> Data \cup {None}] /\ unreachable \in Caches /\ lruDb \in Caches
      /\ inDb \in [Mine -> Entry \cup {None}] /\ taken \subseteq Mine
      /\ task \in {"running", "stopped"} /\ owed \subseteq Mine
  BY <1>1 DEF Types
<1>5. Without(unreachable, i) \in Caches /\ ToSet(Without(unreachable, i)) = ToSet(unreachable) \ {i}
  BY <1>4, WithoutEntry
<1>6. CASE /\ Send("unreachable", i, {}) /\ UNCHANGED <<entries, inDb, asks, owed>>
           /\ unreachable' = unreachable \/ unreachable' = Without(unreachable, i)
  <2>1. Forgets /\ Quiet
    BY <1>4, <1>5, <1>6 DEF Forgets, Quiet
  <2>2. task' \in {"running", "stopped"}
    BY <1>2, <1>4
  <2>3. UNCHANGED <<first, expected, entries, db, owed>>
    BY <1>2, <1>6 DEF db
  <2>4. Core'
    BY <2>1, <2>2, <2>3, NothingNew
  <2> QED BY <1>6, <2>4
<1>7. CASE /\ i < expected /\ Free(i)
           /\ SetData([data EXCEPT ![i] = IF data[i] = None THEN NewData("Syncer")
                                          ELSE [data[i] EXCEPT !.by = "Syncer"]])
           /\ inDb' = [inDb EXCEPT ![i] = IF i \in DbAnswers THEN EntryOf(i) ELSE None]
           /\ asks' = asks \cup {AskMilestone(i)}
           /\ owed' = owed \cup {i}
           /\ unreachable' = Without(unreachable, i)
           /\ out' = None
  <2>1. PICK d : d = IF data[i] = None THEN NewData("Syncer") ELSE [data[i] EXCEPT !.by = "Syncer"]
    OBVIOUS
  <2>2. /\ d \in Data /\ d.by = "Syncer" /\ Sound(i, d)
        /\ d.messages = IF data[i] = None THEN {} ELSE data[i].messages
    <3>1. CASE data[i] = None
      BY <2>1, <3>1, NewIsSound
    <3>2. CASE data[i] # None
      <4>1. data[i] \in Data /\ Sound(i, data[i])
        BY <1>1, <1>4, <3>2 DEF AllSound
      <4>2. d = [data[i] EXCEPT !.by = "Syncer"]
        BY <2>1, <3>2
      <4>3. d \in Data
        BY <4>1, <4>2 DEF Data
      <4>4. /\ d.by = "Syncer" /\ d.messages = data[i].messages /\ d.milestone = data[i].milestone
            /\ d.pending = data[i].pending
        BY <4>1, <4>2 DEF Data
      <4>5. Sound(i, d)
        BY <4>1, <4>4 DEF Sound
      <4> QED BY <3>2, <4>3, <4>4, <4>5
    <3> QED BY <3>1, <3>2
  <2>3. /\ data' \in [Mine -> Data \cup {None}] /\ d # None
        /\ data'[i] = d /\ \A j \in Mine \ {i} : data'[j] = data[j]
    <3>1. data' = [data EXCEPT ![i] = d]
      BY <1>7, <2>1 DEF SetData
    <3> QED BY <1>4, <2>2, <3>1
  <2>4. taken' = taken \cup {i}
    <3>1. taken' = taken \cup {j \in Mine : data'[j] # None}
      BY <1>7 DEF SetData
    <3>2. \A j \in Mine : data'[j] # None => j \in taken \cup {i}
      BY <1>1, <2>3 DEF InTurn
    <3> QED BY <2>3, <3>1, <3>2
  <2>5. EntryOf(i) \in Entry /\ EntryOf(i) # None /\ TrueOf(i, EntryOf(i), stored)
    <3>1. TrueOf(i, EntryOf(i), stored)
      BY <1>1, EntryIsTrue
    <3> QED BY <3>1 DEF TrueOf
  <2>6. /\ inDb' \in [Mine -> Entry \cup {None}]
        /\ inDb'[i] = (IF i \in DbAnswers THEN EntryOf(i) ELSE None)
        /\ \A j \in Mine \ {i} : inDb'[j] = inDb[j]
    BY <1>4, <1>7, <2>5
  <2>7. owed = {j \in Mine : data[j] # None /\ data[j].by = "Syncer"}
    BY <1>1 DEF OwedIsOwned
  <2>8. owed' = {j \in Mine : data'[j] # None /\ data'[j].by = "Syncer"}
    <3>1. \A j \in Mine : (data'[j] # None /\ data'[j].by = "Syncer")
                            <=> ((data[j] # None /\ data[j].by = "Syncer") \/ j = i)
      BY <2>2, <2>3
    <3> QED BY <1>7, <2>7, <3>1
  <2>9. Types'
    <3>1. owed' \subseteq Mine /\ taken' \subseteq Mine /\ unreachable' \in Caches
      BY <1>4, <1>5, <1>7, <2>4, <2>8
    <3> QED BY <1>1, <1>2, <1>3, <2>3, <2>6, <3>1 DEF Types
  <2>10. OutType' /\ SentExact'
    <3>1. Quiet
      BY <1>7 DEF Quiet
    <3> QED BY <3>1, QuietIsExact
  <2>11. OwedIsOwned'
    BY <2>8 DEF OwedIsOwned
  <2>12. AllSound'
    <3>1. \A j \in Mine : data'[j] # None => Sound(j, data'[j])
      BY <1>1, <2>2, <2>3 DEF AllSound
    <3> QED BY <3>1 DEF AllSound
  <2>13. InTurn'
    <3>1. ToSet(unreachable') \subseteq taken' /\ i \notin ToSet(unreachable')
          /\ ToSet(unreachable') \subseteq ToSet(unreachable)
      BY <1>1, <1>5, <1>7, <2>4 DEF InTurn
    <3>2. ASSUME NEW j \in Mine, data'[j] # None
          PROVE  j \in taken' /\ j \notin ToSet(unreachable') /\ analysing'[j] < MaxAnalyses
      <4>1. CASE j = i
        BY <1>2, <2>4, <3>1, <4>1
      <4>2. CASE j # i
        <5>1. data[j] # None
          BY <2>3, <3>2, <4>2
        <5> QED BY <1>1, <1>2, <2>4, <3>1, <5>1 DEF InTurn
      <4> QED BY <4>1, <4>2
    <3>3. \A j \in taken' : j < expected'
      BY <1>1, <1>2, <1>7, <2>4 DEF InTurn
    <3>4. \A j \in Mine \ taken' : analysing'[j] = 0
      BY <1>1, <1>2, <2>4 DEF InTurn
    <3>5. first' # 0
      BY <1>2
    <3> QED BY <3>1, <3>2, <3>3, <3>4, <3>5 DEF InTurn
  <2>14. EntriesExact' /\ SyncedStored'
    <3>1. \A j \in Mine : inDb'[j] # None =>
            /\ inDb'[j].ids \subseteq Cone(j) \cap stored
            /\ j \notin Held => inDb'[j].len \in {Unknown, Cardinality(Cone(j))}
      BY <1>1, <2>5, <2>6 DEF EntriesExact, TrueOf
    <3> QED BY <1>1, <1>2, <1>3, <3>1 DEF EntriesExact, SyncedStored
  <2>15. AllTracked'
    <3>1. ASSUME ~CachesLag, NEW j \in DbAnswers \ (synced \cup Held)
          PROVE  Tracked(j)'
      <4>1. Tracked(j) /\ j \in Mine
        BY <1>1, <3>1 DEF AllTracked
      <4>2. CASE j # i
        <5>1. data'[j] = data[j] /\ inDb'[j] = inDb[j] /\ (j \in taken' <=> j \in taken)
          BY <2>3, <2>4, <2>6, <4>1, <4>2
        <5> QED BY <4>1, <5>1, StillTracked
      <4>3. CASE j = i
        <5>1. EntryOf(i)' = EntryOf(i)
          <6>1. inDb'[i] = EntryOf(i)
            BY <2>6, <3>1, <4>3
          <6> QED BY <2>5, <6>1 DEF EntryOf
        <5>2. d.messages \subseteq EntryOf(i).ids \cup inserting
          BY <2>2, <4>1, <4>3 DEF Tracked
        <5>3. i \in taken' /\ data'[i].by = "Syncer" /\ data'[i].messages = d.messages
          BY <2>2, <2>3, <2>4
        <5> QED BY <1>3, <4>1, <4>3, <5>1, <5>2, <5>3 DEF Tracked
      <4> QED BY <4>2, <4>3
    <3> QED BY <1>2, <3>1 DEF AllTracked
  <2>16. Core'
    BY <2>9, <2>10, <2>11, <2>12, <2>13, <2>14, <2>15 DEF Core
  <2>17. AskMilestone(i) \in Further
    BY AskMilestoneIsFurther
  <2> QED BY <1>7, <2>16, <2>17
<1> QED BY <1>6, <1>7 DEF Solidify

\* The rows after an answer of the database: they are true of what is stored then,
\* and each row that is still to be completed is tracked.
RowsFollow ==
  /\ inDb' \in [Mine -> Entry \cup {None}]
  /\ lruDb' \in Caches
  /\ synced' \subseteq Mine
  /\ ToSet(lruDb') \subseteq synced'
  /\ \A j \in Mine : inDb'[j] # None => TrueOf(j, inDb'[j], stored')
  /\ \A j \in synced' \ Held : Cone(j) \subseteq stored'
  /\ AllTracked'
  /\ inserting' \subseteq Msgs
  /\ stored' \subseteq Msgs
  /\ \A m \in inserting' \cup stored' : Ref[m] \in DbAnswers
  /\ analysing' \in [Mine -> 0 .. MaxAnalyses]
  /\ \A j \in Mine : analysing'[j] <= analysing[j]

LEMMA AnswerKeeps ==
  ASSUME Core, RowsFollow, Forgets, out' = None,
         UNCHANGED <<task, first, expected, entries, owed>>
  PROVE  Core'
<1>1. /\ Types /\ OwedIsOwned /\ InTurn /\ AllSound
  BY DEF Core
<1>2. /\ task' = task /\ first' = first /\ expected' = expected
      /\ data' = data /\ taken' = taken /\ owed' = owed
  BY DEF entries
<1>3. /\ unreachable' \in Caches /\ ToSet(unreachable') \subseteq ToSet(unreachable)
  BY DEF Forgets
<1>4. Types'
  BY <1>1, <1>2, <1>3 DEF Types, RowsFollow
<1>5. OutType' /\ SentExact'
  BY QuietIsExact DEF Quiet
<1>6. OwedIsOwned' /\ AllSound'
  BY <1>1, <1>2 DEF OwedIsOwned, AllSound
<1>7. InTurn'
  <2>1. /\ analysing \in [Mine -> 0 .. MaxAnalyses] /\ analysing' \in [Mine -> 0 .. MaxAnalyses]
        /\ \A j \in Mine : analysing'[j] <= analysing[j]
    BY <1>1 DEF Types, RowsFollow
  <2>2. \A j \in Mine : analysing[j] < MaxAnalyses => analysing'[j] < MaxAnalyses
    BY <2>1
  <2>3. \A j \in Mine : analysing[j] = 0 => analysing'[j] = 0
    BY <2>1
  <2> QED BY <1>1, <1>2, <1>3, <2>2, <2>3 DEF InTurn
<1>8. EntriesExact' /\ SyncedStored'
  BY DEF EntriesExact, SyncedStored, RowsFollow, TrueOf
<1>9. AllTracked'
  BY DEF RowsFollow
<1> QED BY <1>4, <1>5, <1>6, <1>7, <1>8, <1>9 DEF Core

\* AnalyzedMilestone keeps the invariant.
LEMMA AnalyzedKeeps ==
  ASSUME Core, UNCHANGED <<inserting, stored>>, NEW i \in Mine, Analyzed(i)
  PROVE  Core'
<1>1. /\ Types /\ OwedIsOwned /\ InTurn /\ AllSound /\ EntriesExact
      /\ SyncedStored /\ AllTracked
  BY DEF Core
<1>2. /\ unreachable' = unreachable /\ data' = data /\ taken' = taken /\ analysing[i] > 0
      /\ analysing' = [analysing EXCEPT ![i] = @ - 1]
      /\ UNCHANGED <<task, first, expected, entries, owed>> /\ out' = None
  BY DEF Analyzed, entries
<1>3. /\ inserting' = inserting /\ stored' = stored
      /\ inserting \subseteq Msgs /\ stored \subseteq Msgs
      /\ \A m \in inserting \cup stored : Ref[m] \in DbAnswers
      /\ inDb \in [Mine -> Entry \cup {None}] /\ lruDb \in Caches /\ synced \subseteq Mine
      /\ ToSet(lruDb) \subseteq synced
  BY <1>1 DEF Types, EntriesExact
<1>4. /\ analysing' \in [Mine -> 0 .. MaxAnalyses]
      /\ \A j \in Mine : analysing'[j] <= analysing[j]
  <2>1. analysing \in [Mine -> 0 .. MaxAnalyses]
    BY <1>1 DEF Types
  <2>2. analysing[i] \in 0 .. MaxAnalyses /\ analysing[i] - 1 \in 0 .. MaxAnalyses
    BY <1>2, <2>1
  <2>3. \A j \in Mine : analysing[j] \in Int /\ analysing[j] - 1 <= analysing[j] /\ analysing[j] <= analysing[j]
    BY <2>1
  <2> QED BY <1>2, <2>1, <2>2, <2>3
<1>5. MoreInserted
  BY <1>3 DEF MoreInserted
<1>6. CASE inDb[i] # None /\ Record(i, [inDb[i] EXCEPT !.analyzed = TRUE])
  <2>1. PICK e : e = [inDb[i] EXCEPT !.analyzed = TRUE]
    OBVIOUS
  <2>2. TrueOf(i, EntryOf(i), stored) /\ EntryOf(i) = inDb[i]
    BY <1>1, <1>6, EntryIsTrue DEF EntryOf
  <2>3. e \in Entry /\ e.ids = inDb[i].ids /\ e.len = inDb[i].len
    BY <2>1, <2>2 DEF TrueOf, Entry
  <2>4. TrueOf(i, e, stored)
    BY <2>2, <2>3 DEF TrueOf
  <2>5. Record(i, e)
    BY <1>6, <2>1
  <2>6. stored \in SUBSET Msgs /\ stored \subseteq stored
    BY <1>3
  <2>7. Recorded(i, e, stored)
    BY <1>1, <2>4, <2>5, <2>6, RecordIsTrue
  <2>8. ASSUME ~CachesLag, NEW j \in DbAnswers \ (synced' \cup Held)
        PROVE  Tracked(j)'
    <3>1. Tracked(j) /\ j \in Mine
      BY <1>1, <2>7, <2>8 DEF AllTracked, Recorded
    <3>2. CASE j # i
      <4>1. inDb'[j] = inDb[j] /\ data'[j] = data[j] /\ (j \in taken' <=> j \in taken)
        BY <1>2, <2>7, <3>1, <3>2 DEF Recorded
      <4> QED BY <1>5, <3>1, <4>1, StillTracked
    <3>3. CASE j = i
      <4>1. inDb'[i] = e /\ e # None
        BY <2>3, <2>7, <2>8, <3>3 DEF Recorded
      <4>2. EntryOf(i)' = e
        BY <4>1 DEF EntryOf
      <4>3. e.ids = EntryOf(i).ids /\ e.len = EntryOf(i).len
        BY <2>2, <2>3
      <4> QED BY <1>2, <1>3, <3>1, <3>3, <4>2, <4>3 DEF Tracked
    <3> QED BY <3>2, <3>3
  <2>9. AllTracked'
    BY <2>8 DEF AllTracked
  <2>10. RowsFollow
    BY <1>3, <1>4, <2>7, <2>9 DEF RowsFollow, Recorded
  <2>11. Forgets
    BY <1>1, <1>2 DEF Forgets, Types
  <2> QED BY <1>2, <2>10, <2>11, AnswerKeeps
<1>7. CASE inDb[i] = None /\ UNCHANGED <<inDb, lruDb, synced>>
  <2>1. inDb' = inDb /\ lruDb' = lruDb /\ synced' = synced
    BY <1>7
  <2>2. \A j \in Mine : inDb[j] # None => TrueOf(j, inDb[j], stored)
    BY <1>1, <1>3 DEF EntriesExact, TrueOf
  <2>3. \A j \in synced \ Held : Cone(j) \subseteq stored
    BY <1>1 DEF SyncedStored
  <2>4. AllTracked'
    <3>1. ASSUME ~CachesLag, NEW j \in DbAnswers \ (synced \cup Held)
          PROVE  Tracked(j)'
      <4>1. Tracked(j) /\ j \in Mine
        BY <1>1, <3>1 DEF AllTracked
      <4>2. data'[j] = data[j] /\ inDb'[j] = inDb[j] /\ (j \in taken' <=> j \in taken)
        BY <1>2, <2>1
      <4> QED BY <1>5, <4>1, <4>2, StillTracked
    <3> QED BY <2>1, <3>1 DEF AllTracked
  <2>5. RowsFollow
    BY <1>3, <1>4, <2>1, <2>2, <2>3, <2>4 DEF RowsFollow
  <2>6. Forgets
    BY <1>1, <1>2 DEF Forgets, Types
  <2> QED BY <1>2, <2>5, <2>6, AnswerKeeps
<1> QED BY <1>6, <1>7 DEF Analyzed

\* PersistedMsg keeps the invariant: the entry of the milestone counts the message, or
\* the milestone has its row, or was given up.
LEMMA PersistedKeeps ==
  ASSUME Core, NEW m, Persisted(m)
  PROVE  Core'
<1>1. /\ Types /\ OwedIsOwned /\ InTurn /\ AllSound /\ EntriesExact
      /\ SyncedStored /\ AllTracked
  BY DEF Core
<1>2. /\ data' = data /\ taken' = taken /\ analysing' = analysing
      /\ UNCHANGED <<task, first, expected, entries, owed>> /\ out' = None
      /\ m \in inserting /\ inserting' = inserting \ {m} /\ stored' = stored \cup {m}
  BY DEF Persisted, entries
<1>3. /\ inserting \subseteq Msgs /\ stored \subseteq Msgs
      /\ \A n \in inserting \cup stored : Ref[n] \in DbAnswers
      /\ inDb \in [Mine -> Entry \cup {None}] /\ lruDb \in Caches /\ synced \subseteq Mine
      /\ unreachable \in Caches
      /\ ToSet(lruDb) \subseteq synced /\ analysing \in [Mine -> 0 .. MaxAnalyses]
  BY <1>1 DEF Types, EntriesExact
<1>4. PICK i \in Mine : i = Ref[m]
  BY <1>2, <1>3
<1>5. m \in Cone(i) /\ m \in Msgs /\ i \in DbAnswers
      /\ \A j \in Mine \ {i} : m \notin Cone(j)
  BY <1>2, <1>3, <1>4 DEF Cone
<1>6. /\ inserting' \subseteq Msgs /\ stored' \subseteq Msgs
      /\ \A n \in inserting' \cup stored' : Ref[n] \in DbAnswers
  BY <1>2, <1>3
<1>7. /\ analysing' \in [Mine -> 0 .. MaxAnalyses]
      /\ \A j \in Mine : analysing'[j] <= analysing[j]
  BY <1>2, <1>3
<1>8. TrueOf(i, EntryOf(i), stored)
  BY <1>1, EntryIsTrue
<1>9. \A j \in Mine : inDb[j] # None => TrueOf(j, inDb[j], stored')
  BY <1>1, <1>2, <1>3 DEF EntriesExact, TrueOf
<1>10. \A j \in synced \ Held : Cone(j) \subseteq stored'
  BY <1>1, <1>2 DEF SyncedStored
\* Nothing is lost of another milestone.
<1>11. ASSUME NEW j \in Mine \ {i}, Tracked(j), inDb'[j] = inDb[j]
       PROVE  Tracked(j)'
  <2>1. EntryOf(j)' = EntryOf(j)
    BY <1>11 DEF EntryOf
  <2>2. m \notin Cone(j)
    BY <1>5
  <2>3. data[j] # None => m \notin data[j].messages
    BY <1>1, <2>2 DEF AllSound, Sound
  <2> QED BY <1>2, <1>11, <2>1, <2>2, <2>3 DEF Tracked
\* The entry of milestone i has the message now.
<1>12. ASSUME Tracked(i), NEW e, EntryOf(i)' = e,
              e.ids = EntryOf(i).ids \cup {m}, e.len = EntryOf(i).len
       PROVE  Tracked(i)'
  BY <1>2, <1>12 DEF Tracked
<1>13. CASE inDb[i] # None /\ Record(i, [inDb[i] EXCEPT !.ids = @ \cup {m}]) /\ UNCHANGED unreachable
  <2>1. PICK e : e = [inDb[i] EXCEPT !.ids = @ \cup {m}]
    OBVIOUS
  <2>2. EntryOf(i) = inDb[i] /\ inDb[i] \in Entry
    BY <1>3, <1>13 DEF EntryOf
  <2>3. e \in Entry /\ e.ids = EntryOf(i).ids \cup {m} /\ e.len = EntryOf(i).len
    BY <1>5, <2>1, <2>2 DEF Entry
  <2>4. TrueOf(i, e, stored')
    BY <1>2, <1>5, <1>8, <2>3 DEF TrueOf
  <2>5. Record(i, e)
    BY <1>13, <2>1
  <2>6. stored' \in SUBSET Msgs /\ stored \subseteq stored'
    BY <1>2, <1>6
  <2>7. PICK there \in SUBSET Msgs : there = stored'
    BY <2>6
  <2>8. Recorded(i, e, there)
    <3>1. stored \subseteq there /\ TrueOf(i, e, there)
      BY <2>4, <2>6, <2>7
    <3> QED BY <1>1, <2>5, <3>1, RecordIsTrue
  <2>9. ASSUME ~CachesLag, NEW j \in DbAnswers \ (synced' \cup Held)
        PROVE  Tracked(j)'
    <3>1. Tracked(j) /\ j \in Mine
      BY <1>1, <2>8, <2>9 DEF AllTracked, Recorded
    <3>2. CASE j # i
      <4>1. inDb'[j] = inDb[j]
        BY <2>8, <3>1, <3>2 DEF Recorded
      <4> QED BY <1>11, <3>1, <3>2, <4>1
    <3>3. CASE j = i
      <4>1. inDb'[i] = e /\ e # None
        BY <2>3, <2>8, <2>9, <3>3 DEF Recorded
      <4>2. EntryOf(i)' = e
        BY <4>1 DEF EntryOf
      <4> QED BY <1>12, <2>3, <3>1, <3>3, <4>2
    <3> QED BY <3>2, <3>3
  <2>10. AllTracked'
    BY <2>9 DEF AllTracked
  <2>11. RowsFollow
    BY <1>6, <1>7, <2>7, <2>8, <2>10 DEF RowsFollow, Recorded
  <2>12. Forgets
    BY <1>3, <1>13 DEF Forgets
  <2> QED BY <1>2, <2>11, <2>12, AnswerKeeps
<1>14. CASE /\ inDb[i] = None
            /\ inDb' = [inDb EXCEPT ![i] = [NewEntry EXCEPT !.ids = {m}]]
            /\ UNCHANGED <<lruDb, synced, unreachable>>
  <2>1. PICK e : e = [NewEntry EXCEPT !.ids = {m}]
    OBVIOUS
  <2>2. EntryOf(i) = NewEntry /\ NewEntry \in Entry
    BY <1>14 DEF EntryOf, NewEntry, Entry
  <2>3. /\ e \in Entry /\ e.ids = EntryOf(i).ids \cup {m} /\ e.len = EntryOf(i).len
    <3>1. NewEntry.ids = {}
      BY DEF NewEntry
    <3>2. e \in Entry /\ e.ids = {m} /\ e.len = NewEntry.len
      BY <1>5, <2>1, <2>2 DEF Entry
    <3> QED BY <2>2, <3>1, <3>2
  <2>4. TrueOf(i, e, stored')
    BY <1>2, <1>5, <1>8, <2>3 DEF TrueOf
  <2>5. /\ inDb' \in [Mine -> Entry \cup {None}] /\ inDb'[i] = e /\ e # None
        /\ \A j \in Mine \ {i} : inDb'[j] = inDb[j]
    BY <1>3, <1>14, <2>1, <2>3
  <2>6. lruDb' = lruDb /\ synced' = synced /\ unreachable' = unreachable
    BY <1>14
  <2>7. ASSUME ~CachesLag, NEW j \in DbAnswers \ (synced \cup Held)
        PROVE  Tracked(j)'
    <3>1. Tracked(j) /\ j \in Mine
      BY <1>1, <2>7 DEF AllTracked
    <3>2. CASE j # i
      BY <1>11, <2>5, <3>1, <3>2
    <3>3. CASE j = i
      <4>1. EntryOf(i)' = e
        BY <2>5 DEF EntryOf
      <4> QED BY <1>12, <2>3, <3>1, <3>3, <4>1
    <3> QED BY <3>2, <3>3
  <2>8. AllTracked'
    BY <2>6, <2>7 DEF AllTracked
  <2>9. \A j \in Mine : inDb'[j] # None => TrueOf(j, inDb'[j], stored')
    BY <1>9, <2>4, <2>5
  <2>10. RowsFollow
    BY <1>3, <1>6, <1>7, <1>10, <2>5, <2>6, <2>8, <2>9 DEF RowsFollow
  <2>11. Forgets
    BY <1>3, <2>6 DEF Forgets
  <2> QED BY <1>2, <2>10, <2>11, AnswerKeeps
<1>15. CASE /\ inDb[i] = None /\ i \in ToSet(lruDb) \cup ToSet(unreachable)
            /\ lruDb' = Get(lruDb, i)
            /\ unreachable' = IF i \in ToSet(lruDb) THEN unreachable ELSE Get(unreachable, i)
            /\ UNCHANGED <<inDb, synced>>
  <2>1. inDb' = inDb /\ synced' = synced
    BY <1>15
  <2>2. lruDb' \in Caches /\ ToSet(lruDb') \subseteq synced'
    <3>1. Get(lruDb, i) \in Caches /\ ToSet(Get(lruDb, i)) = ToSet(lruDb)
      BY <1>3, GetEntry
    <3> QED BY <1>3, <1>15, <2>1, <3>1
  <2>3. Forgets
    <3>1. Get(unreachable, i) \in Caches /\ ToSet(Get(unreachable, i)) = ToSet(unreachable)
      BY <1>3, GetEntry
    <3> QED BY <1>3, <1>15, <3>1 DEF Forgets
  <2>4. i \in synced \/ (i \in taken /\ data[i] = None)
    BY <1>1, <1>3, <1>15 DEF InTurn
  <2>5. ASSUME ~CachesLag, NEW j \in DbAnswers \ (synced \cup Held)
        PROVE  Tracked(j)'
    <3>1. Tracked(j) /\ j \in Mine
      BY <1>1, <2>5 DEF AllTracked
    <3>2. CASE j # i
      BY <1>11, <2>1, <3>1, <3>2
    <3>3. CASE j = i
      <4>1. EntryOf(i)' = NewEntry /\ NewEntry.len = Unknown
        BY <1>15, <2>1 DEF EntryOf, NewEntry
      <4>2. i \in taken' /\ data'[i] = None
        BY <1>2, <2>4, <2>5, <3>3
      <4> QED BY <3>3, <4>1, <4>2 DEF Tracked
    <3> QED BY <3>2, <3>3
  <2>6. AllTracked'
    BY <2>1, <2>5 DEF AllTracked
  <2>7. RowsFollow
    BY <1>3, <1>6, <1>7, <1>9, <1>10, <2>1, <2>2, <2>6 DEF RowsFollow
  <2> QED BY <1>2, <2>3, <2>7, AnswerKeeps
<1>16. \/ inDb[i] # None /\ Record(i, [inDb[i] EXCEPT !.ids = @ \cup {m}]) /\ UNCHANGED unreachable
       \/ /\ inDb[i] = None
          /\ inDb' = [inDb EXCEPT ![i] = [NewEntry EXCEPT !.ids = {m}]]
          /\ UNCHANGED <<lruDb, synced, unreachable>>
       \/ /\ inDb[i] = None /\ i \in ToSet(lruDb) \cup ToSet(unreachable)
          /\ lruDb' = Get(lruDb, i)
          /\ unreachable' = IF i \in ToSet(lruDb) THEN unreachable ELSE Get(unreachable, i)
          /\ UNCHANGED <<inDb, synced>>
  BY <1>4 DEF Persisted
<1> QED BY <1>13, <1>14, <1>15, <1>16

-----------------------------------------------------------------------------
(* The events. *)

\* The asks are those there were, and payloads whose messages are being inserted.
Arrived(open) ==
  \A a \in open : \/ a \in asks
                  \/ \E i \in Mine : a = Payload(i) /\ (i \in DbAnswers => MilestoneOf[i] \in inserting')

LEMMA AskedKeeps ==
  ASSUME Asked, MoreInserted, confirmed' \subseteq Msgs, NEW open, Arrived(open),
         asks' \subseteq open \cup Further
  PROVE  Asked'
<1>1. \A i \in Mine : Payload(i) \in Asks /\ Payload(i).type = "payload"
  <2>1. ASSUME NEW i \in Mine
        PROVE  Payload(i) \in [type : {"milestone", "payload"}, index : Mine]
    BY DEF Payload
  <2> QED BY <2>1 DEF Asks, Payload
<1>2. /\ asks \subseteq Asks /\ inserting \subseteq inserting'
      /\ \A a \in asks : a.type = "close" => a.index \in Held
      /\ \A i \in DbAnswers : Payload(i) \in asks => MilestoneOf[i] \in inserting
  BY DEF Asked, MoreInserted
<1>3. \A i, j \in Mine : Payload(i) = Payload(j) => i = j
  <2>1. \A i : Payload(i).index = i
    BY DEF Payload
  <2> QED BY <2>1
<1>4. ASSUME NEW a \in asks'
      PROVE  a \in Asks /\ (a.type = "close" => a.index \in Held)
  <2>1. CASE a \in asks
    BY <1>2, <2>1
  <2>2. CASE a \in Further
    BY <2>2 DEF Further
  <2>3. CASE \E i \in Mine : a = Payload(i)
    BY <1>1, <2>3
  <2>4. a \in open \/ a \in Further
    BY <1>4
  <2> QED BY <2>1, <2>2, <2>3, <2>4 DEF Arrived
<1>5. ASSUME NEW i \in DbAnswers, Payload(i) \in asks'
      PROVE  MilestoneOf[i] \in inserting'
  <2>1. Payload(i) \notin Further
    <3>1. Payload(i).type = "payload"
      BY <1>1
    <3> QED BY <3>1 DEF Further
  <2>2. Payload(i) \in open
    BY <1>5, <2>1
  <2>3. CASE Payload(i) \in asks
    BY <1>2, <2>3
  <2>4. ASSUME NEW j \in Mine, Payload(i) = Payload(j), j \in DbAnswers => MilestoneOf[j] \in inserting'
        PROVE  MilestoneOf[i] \in inserting'
    <3>1. i = j
      BY <1>3, <2>4
    <3> QED BY <2>4, <3>1
  <2> QED BY <2>2, <2>3, <2>4 DEF Arrived
<1>6. asks' \subseteq Asks /\ \A a \in asks' : a.type = "close" => a.index \in Held
  BY <1>4
<1>7. \A i \in DbAnswers : Payload(i) \in asks' => MilestoneOf[i] \in inserting'
  BY <1>5
<1>8. \A i : Payload(i)' = Payload(i)
  BY DEF Payload
<1> QED BY <1>6, <1>7 DEF Asked, Payload

\* A message is inserted, and with it comes the payload of its milestone.
LEMMA InsertKeeps ==
  ASSUME Core, NEW m \in Msgs, Insert(m)
  PROVE  /\ MoreInserted /\ Backing(Ref[m], m)
         /\ \A open : open \subseteq asks => Arrived(open \cup Payloads(m))
<1>1. /\ inserting \subseteq Msgs /\ stored' = stored
      /\ \A n \in inserting : Ref[n] \in DbAnswers
      /\ inserting' = IF Ref[m] \in DbAnswers THEN inserting \cup {m} ELSE inserting
  BY DEF Core, Types, EntriesExact, Insert
<1>2. MoreInserted
  BY <1>1 DEF MoreInserted
<1>3. Backing(Ref[m], m)
  BY <1>1 DEF Backing
<1>4. ASSUME NEW open, open \subseteq asks
      PROVE  Arrived(open \cup Payloads(m))
  <2>1. ASSUME NEW a \in Payloads(m)
        PROVE  \E i \in Mine : a = Payload(i) /\ (i \in DbAnswers => MilestoneOf[i] \in inserting')
    <3>1. PICK i \in Mine : MilestoneOf[i] = m /\ a = Payload(i)
      BY <2>1 DEF Payloads
    <3>2. Ref[m] = i
      BY <3>1
    <3> QED BY <1>1, <3>1, <3>2
  <2> QED BY <1>4, <2>1 DEF Arrived
<1> QED BY <1>2, <1>3, <1>4

LEMMA SeenKeeps ==
  ASSUME Inv, NEW m \in Msgs, Seen(m)
  PROVE  Inv'
<1>1. Core /\ Asked
  BY DEF Inv
<1>2. /\ Ref[m] \in Mine /\ confirmed' = confirmed \cup {m} /\ Insert(m)
  BY DEF Seen
<1>3. MoreInserted /\ Backing(Ref[m], m) /\ Arrived(asks \cup Payloads(m))
  BY <1>1, <1>2, InsertKeeps
<1>4. confirmed' \subseteq Msgs
  BY <1>1, <1>2 DEF Asked
<1>5. CASE NewMessage(m, asks \cup Payloads(m))
  <2>1. Core' /\ asks' \subseteq (asks \cup Payloads(m)) \cup Further
    BY <1>1, <1>2, <1>3, <1>5, NewMessageKeeps
  <2>2. Asked'
    BY <1>1, <1>3, <1>4, <2>1, AskedKeeps
  <2> QED BY <2>1, <2>2 DEF Inv
<1>6. CASE /\ asks' = asks \cup Payloads(m) /\ out' = None
           /\ UNCHANGED <<task, first, expected, entries, unreachable, db, owed>>
  <2>1. task' \in {"running", "stopped"} /\ Forgets /\ Quiet
    BY <1>1, <1>6 DEF Core, Types, Forgets, Quiet
  <2>2. UNCHANGED <<first, expected, entries, db, owed>>
    BY <1>6
  <2>3. Core'
    BY <1>1, <1>3, <2>1, <2>2, NothingNew
  <2>4. asks' \subseteq (asks \cup Payloads(m)) \cup Further
    BY <1>6
  <2>5. Asked'
    BY <1>1, <1>3, <1>4, <2>4, AskedKeeps
  <2> QED BY <2>3, <2>5 DEF Inv
<1> QED BY <1>5, <1>6 DEF Seen

\* Where nothing is inserted.
LEMMA SameInserting ==
  ASSUME Inv, UNCHANGED <<inserting, stored>>
  PROVE  MoreInserted /\ \A a : Arrived(asks \ {a}) /\ Arrived(asks)
<1>1. MoreInserted
  BY DEF Inv, Core, Types, EntriesExact, MoreInserted
<1>2. \A a : Arrived(asks \ {a}) /\ Arrived(asks)
  BY DEF Arrived
<1> QED BY <1>1, <1>2

\* A message out of the caches is in the database or on its way.
LEMMA CachedIsBacked ==
  ASSUME Inv, NEW a, a.message \in Msgs, a.index \in Mine, Cached(a), ~MustInsert(a),
         Ref[a.message] = a.index
  PROVE  Backing(a.index, a.message)
<1>. DEFINE m == a.message
            i == a.index
<1>1. /\ Ref[m] \in DbAnswers => m \in inserting \cup stored
      /\ CachesLag \/ (data[i] # None /\ a.by = data[i].by)
      /\ inserting' = inserting
  BY DEF Cached
<1>2. a.by # "Syncer"
  BY DEF MustInsert
<1>3. m \in Cone(i)
  BY DEF Cone
<1>4. ASSUME ~CachesLag, i \in DbAnswers \ (synced \cup Held)
      PROVE  m \in EntryOf(i).ids \cup inserting'
  <2>1. Tracked(i)
    BY <1>4 DEF Inv, Core, AllTracked
  <2>2. data[i] # None /\ data[i].by # "Syncer"
    BY <1>1, <1>2, <1>4
  <2>3. Cone(i) \cap stored \subseteq EntryOf(i).ids
    BY <2>1, <2>2 DEF Tracked
  <2> QED BY <1>1, <1>3, <1>4, <2>3
<1> QED BY <1>4 DEF Backing

LEMMA RespondFullKeeps ==
  ASSUME Inv, NEW a, RespondFull(a)
  PROVE  Inv'
<1>1. Core /\ Asked
  BY DEF Inv
<1>. DEFINE m == a.message
            i == a.index
<1>2. /\ a \in asks /\ a.type = "full" /\ confirmed' = confirmed
  BY DEF RespondFull
<1>3. m \in Msgs /\ i \in Mine
  <2>1. a \in Asks
    BY <1>1, <1>2 DEF Asked
  <2> QED BY <1>2, <2>1 DEF Asks
<1>4. confirmed' \subseteq Msgs
  BY <1>1, <1>2 DEF Asked
<1>5. Ref[m] # i => m \notin Cone(i)
  BY DEF Cone
<1>. DEFINE Deliver(open) == IF Ref[m] = i THEN NewMessage(m, open) ELSE CloseMessage(m, i, open)
<1>6. \/ Deliver((asks \ {a}) \cup Payloads(m)) /\ Insert(m)
      \/ ~MustInsert(a) /\ Deliver(asks \ {a}) /\ Cached(a)
  BY DEF RespondFull
<1>7. ASSUME NEW open, Deliver(open), MoreInserted, Ref[m] = i => Backing(i, m), Arrived(open)
      PROVE  Inv'
  <2>1. CASE Ref[m] = i
    <3>1. Core' /\ asks' \subseteq open \cup Further
      BY <1>1, <1>3, <1>7, <2>1, NewMessageKeeps
    <3>2. Asked'
      BY <1>1, <1>4, <1>7, <3>1, AskedKeeps
    <3> QED BY <3>1, <3>2 DEF Inv
  <2>2. CASE Ref[m] # i
    <3>1. Core' /\ asks' \subseteq open \cup Further
      BY <1>1, <1>3, <1>5, <1>7, <2>2, CloseMessageKeeps
    <3>2. Asked'
      BY <1>1, <1>4, <1>7, <3>1, AskedKeeps
    <3> QED BY <3>1, <3>2 DEF Inv
  <2> QED BY <2>1, <2>2
<1>8. CASE Deliver((asks \ {a}) \cup Payloads(m)) /\ Insert(m)
  <2>1. MoreInserted /\ Backing(Ref[m], m) /\ Arrived((asks \ {a}) \cup Payloads(m))
    <3>1. asks \ {a} \subseteq asks
      OBVIOUS
    <3> QED BY <1>1, <1>3, <1>8, <3>1, InsertKeeps
  <2>2. Ref[m] = i => Backing(i, m)
    BY <2>1
  <2>. HIDE DEF Deliver
  <2> QED BY <1>7, <1>8, <2>1, <2>2
<1>9. CASE ~MustInsert(a) /\ Deliver(asks \ {a}) /\ Cached(a)
  <2>1. UNCHANGED <<inserting, stored>>
    BY <1>9 DEF Cached
  <2>2. MoreInserted /\ Arrived(asks \ {a})
    BY <2>1, SameInserting
  <2>3. Ref[m] = i => Backing(i, m)
    BY <1>3, <1>9, CachedIsBacked
  <2>. HIDE DEF Deliver
  <2> QED BY <1>7, <1>9, <2>2, <2>3
<1> QED BY <1>6, <1>8, <1>9

LEMMA RespondMilestoneKeeps ==
  ASSUME Inv, NEW a, RespondMilestone(a)
  PROVE  Inv'
<1>1. Core /\ Asked
  BY DEF Inv
<1>. DEFINE m == MilestoneOf[a.index]
<1>2. /\ a \in asks /\ a.type = "milestone" /\ confirmed' = confirmed
      /\ NewMessage(m, (asks \ {a}) \cup Payloads(m)) /\ Insert(m)
  BY DEF RespondMilestone
<1>3. a.index \in Mine /\ m \in Msgs /\ Ref[m] \in Mine
  <2>1. a \in Asks
    BY <1>1, <1>2 DEF Asked
  <2>2. a.index \in Mine
    BY <1>2, <2>1 DEF Asks
  <2> QED BY <2>2
<1>4. confirmed' \subseteq Msgs
  BY <1>1, <1>2 DEF Asked
<1>. HIDE DEF m
<1>5. MoreInserted /\ Backing(Ref[m], m) /\ Arrived((asks \ {a}) \cup Payloads(m))
  <2>1. asks \ {a} \subseteq asks
    OBVIOUS
  <2> QED BY <1>1, <1>2, <1>3, <2>1, InsertKeeps
<1>6. Core' /\ asks' \subseteq ((asks \ {a}) \cup Payloads(m)) \cup Further
  BY <1>1, <1>2, <1>3, <1>5, NewMessageKeeps
<1>7. Asked'
  BY <1>1, <1>4, <1>5, <1>6, AskedKeeps
<1> QED BY <1>6, <1>7 DEF Inv

LEMMA RespondPayloadKeeps ==
  ASSUME Inv, NEW a, RespondPayload(a)
  PROVE  Inv'
<1>1. Core /\ Asked
  BY DEF Inv
<1>. DEFINE i == a.index
<1>2. /\ a \in asks /\ a.type = "payload" /\ confirmed' = confirmed
      /\ MilestoneMessage(i, asks \ {a}) /\ UNCHANGED <<inserting, stored>>
  BY DEF RespondPayload
<1>3. i \in Mine /\ a = Payload(i)
  <2>1. a \in Asks
    BY <1>1, <1>2 DEF Asked
  <2>2. a \in [type : {"milestone", "payload"}, index : Mine]
    BY <1>2, <2>1 DEF Asks
  <2> QED BY <1>2, <2>2 DEF Payload
<1>4. confirmed' \subseteq Msgs
  BY <1>1, <1>2 DEF Asked
<1>5. MoreInserted /\ Arrived(asks \ {a})
  BY <1>2, SameInserting
<1>6. Backing(i, MilestoneOf[i])
  <2>1. i \in DbAnswers => MilestoneOf[i] \in inserting'
    <3>1. i \in DbAnswers => MilestoneOf[i] \in inserting
      BY <1>1, <1>2, <1>3 DEF Asked
    <3> QED BY <1>2, <3>1
  <2> QED BY <2>1 DEF Backing
<1>. HIDE DEF i
<1>7. Core' /\ asks' \subseteq (asks \ {a}) \cup Further
  BY <1>1, <1>2, <1>3, <1>5, <1>6, MilestoneMessageKeeps
<1>8. Asked'
  BY <1>1, <1>4, <1>5, <1>7, AskedKeeps
<1> QED BY <1>7, <1>8 DEF Inv

LEMMA RespondCloseKeeps ==
  ASSUME Inv, NEW a, RespondClose(a)
  PROVE  Inv'
<1>1. Core /\ Asked
  BY DEF Inv
<1>. DEFINE i == a.index
<1>2. /\ a \in asks /\ a.type = "close" /\ confirmed' = confirmed
      /\ CloseMessage(a.message, i, asks \ {a}) /\ UNCHANGED <<inserting, stored>>
  BY DEF RespondClose
<1>3. i \in Mine /\ i \in Held
  BY <1>1, <1>2 DEF Asked
<1>4. confirmed' \subseteq Msgs
  BY <1>1, <1>2 DEF Asked
<1>5. MoreInserted /\ Arrived(asks \ {a})
  BY <1>2, SameInserting
<1>. HIDE DEF i
<1>6. Core' /\ asks' \subseteq (asks \ {a}) \cup Further
  BY <1>1, <1>2, <1>3, <1>5, CloseMessageKeeps
<1>7. Asked'
  BY <1>1, <1>4, <1>5, <1>6, AskedKeeps
<1> QED BY <1>6, <1>7 DEF Inv

LEMMA RequestFailsKeeps ==
  ASSUME Inv, NEW a, RequestFails(a)
  PROVE  Inv'
<1>1. Core /\ Asked
  BY DEF Inv
<1>. DEFINE i == a.index
<1>2. /\ a \in asks /\ a.type \in {"full", "milestone"} /\ confirmed' = confirmed
      /\ Failure(i, asks \ {a}) /\ UNCHANGED <<inserting, stored>>
  BY DEF RequestFails
<1>3. i \in Mine
  <2>1. a \in Asks
    BY <1>1, <1>2 DEF Asked
  <2> QED BY <1>2, <2>1 DEF Asks
<1>4. confirmed' \subseteq Msgs
  BY <1>1, <1>2 DEF Asked
<1>5. MoreInserted /\ Arrived(asks \ {a})
  BY <1>2, SameInserting
<1>. HIDE DEF i
<1>6. Core' /\ asks' = asks \ {a}
  BY <1>1, <1>2, <1>3, <1>5, FailureKeeps
<1>7. asks' \subseteq (asks \ {a}) \cup Further
  BY <1>6
<1>8. Asked'
  BY <1>1, <1>4, <1>5, <1>7, AskedKeeps
<1> QED BY <1>6, <1>8 DEF Inv

-----------------------------------------------------------------------------
(* The theorems. *)

LEMMA InitInv == Init => Inv
<1>. SUFFICES ASSUME Init PROVE Inv
  OBVIOUS
<1>1. /\ task = "running" /\ first = 0 /\ expected = 0
      /\ data = [i \in Mine |-> None] /\ inDb = [i \in Mine |-> None]
      /\ taken = {} /\ unreachable = <<>> /\ lruDb = <<>>
      /\ synced = {} /\ asks = {} /\ confirmed = {} /\ inserting = {} /\ stored = {}
      /\ analysing = [i \in Mine |-> 0] /\ owed = {} /\ out = None
  BY DEF Init
<1>2. ToSet(<<>>) = {} /\ <<>> \in Caches
  <2>1. <<>> \in Seq(Mine) /\ Len(<<>>) = 0 /\ DOMAIN <<>> = {}
    OBVIOUS
  <2>2. ToSet(<<>>) = {}
    BY <2>1 DEF ToSet
  <2>3. IsInjective(<<>>)
    BY <2>1 DEF IsInjective
  <2> QED BY <2>1, <2>2, <2>3 DEF Caches
<1>3. \A i \in Mine : data[i] = None /\ inDb[i] = None /\ analysing[i] = 0
  BY <1>1
<1>4. Types
  <2>1. analysing \in [Mine -> 0 .. MaxAnalyses]
    BY <1>1
  <2> QED BY <1>1, <1>2, <2>1 DEF Types
<1>5. OutType /\ SentExact
  BY <1>1 DEF OutType, SentExact
<1>6. OwedIsOwned /\ AllSound
  BY <1>1, <1>3 DEF OwedIsOwned, AllSound
<1>7. InTurn
  BY <1>1, <1>2, <1>3 DEF InTurn
<1>8. EntriesExact /\ SyncedStored
  BY <1>1, <1>2, <1>3 DEF EntriesExact, SyncedStored
<1>9. AllTracked
  <2>1. NewEntry.len = Unknown
    BY DEF NewEntry
  <2>2. ASSUME NEW i \in DbAnswers
        PROVE  Tracked(i)
    <3>1. EntryOf(i) = NewEntry
      BY <1>3 DEF EntryOf
    <3> QED BY <1>1, <1>3, <2>1, <3>1 DEF Tracked
  <2> QED BY <2>2 DEF AllTracked
<1>10. Asked
  BY <1>1 DEF Asked
<1> QED BY <1>4, <1>5, <1>6, <1>7, <1>8, <1>9, <1>10 DEF Inv, Core

LEMMA NextInv == Inv /\ [Next]_vars => Inv'
<1>. SUFFICES ASSUME Inv, [Next]_vars PROVE Inv'
  OBVIOUS
<1>0. Core /\ Asked
  BY DEF Inv
<1>1. ASSUME NEW m \in Msgs, Seen(m) PROVE Inv'
  BY <1>1, SeenKeeps
<1>2. ASSUME NEW m \in Msgs, Persisted(m) PROVE Inv'
  <2>1. Core'
    BY <1>0, <1>2, PersistedKeeps
  <2>2. /\ asks' = asks /\ confirmed' = confirmed /\ inserting' = inserting \ {m}
        /\ Payloads(m) \cap asks = {}
    BY <1>2 DEF Persisted
  <2>3. ASSUME NEW i \in DbAnswers, Payload(i) \in asks
        PROVE  MilestoneOf[i] \in inserting'
    <3>1. MilestoneOf[i] \in inserting
      BY <1>0, <2>3 DEF Asked
    <3>2. MilestoneOf[i] # m
      BY <2>2, <2>3 DEF Payloads
    <3> QED BY <2>2, <3>1, <3>2
  <2>4. Asked'
    BY <1>0, <2>2, <2>3 DEF Asked, Payload
  <2> QED BY <2>1, <2>4 DEF Inv
<1>3. ASSUME NEW a \in asks, Respond(a) PROVE Inv'
  BY <1>3, RespondFullKeeps, RespondMilestoneKeeps, RespondPayloadKeeps, RespondCloseKeeps
     DEF Respond
<1>4. ASSUME NEW a \in asks, RequestFails(a) PROVE Inv'
  BY <1>4, RequestFailsKeeps
<1>5. ASSUME NEW i \in Mine, Solidify(i) PROVE Inv'
  <2>1. UNCHANGED <<inserting, stored>> /\ confirmed' = confirmed
    BY <1>5 DEF Solidify
  <2>2. MoreInserted /\ Arrived(asks)
    BY <2>1, SameInserting
  <2>3. Core' /\ asks' \subseteq asks \cup Further
    BY <1>0, <1>5, <2>2, SolidifyKeeps
  <2>4. confirmed' \subseteq Msgs
    BY <1>0, <2>1 DEF Asked
  <2>5. Asked'
    BY <1>0, <2>2, <2>3, <2>4, AskedKeeps
  <2> QED BY <2>3, <2>5 DEF Inv
<1>6. ASSUME NEW i \in Mine, Analyzed(i) PROVE Inv'
  <2>1. UNCHANGED <<inserting, stored>> /\ confirmed' = confirmed /\ asks' = asks
    BY <1>6 DEF Analyzed
  <2>2. Core'
    BY <1>0, <1>6, <2>1, AnalyzedKeeps
  <2>3. Asked'
    BY <1>0, <2>1 DEF Asked, Payload
  <2> QED BY <2>2, <2>3 DEF Inv
<1>7. CASE Stop
  <2>1. /\ UNCHANGED <<inserting, stored>> /\ confirmed' = confirmed /\ asks' = asks
        /\ UNCHANGED <<first, expected, entries, db, owed>>
        /\ task' \in {"running", "stopped"} /\ Quiet /\ unreachable' = unreachable
    BY <1>7 DEF Stop, Quiet
  <2>2. MoreInserted
    BY <2>1, SameInserting
  <2>3. Forgets
    BY <1>0, <2>1 DEF Core, Types, Forgets
  <2>4. Core'
    BY <1>0, <2>1, <2>2, <2>3, NothingNew
  <2>5. Asked'
    BY <1>0, <2>1 DEF Asked, Payload
  <2> QED BY <2>4, <2>5 DEF Inv
<1>8. CASE UNCHANGED vars
  <2>1. /\ task' = task /\ first' = first /\ expected' = expected /\ data' = data /\ taken' = taken
        /\ unreachable' = unreachable /\ inDb' = inDb /\ lruDb' = lruDb /\ synced' = synced
        /\ analysing' = analysing /\ asks' = asks /\ confirmed' = confirmed
        /\ inserting' = inserting /\ stored' = stored /\ owed' = owed /\ out' = out
    BY <1>8 DEF vars, entries, db
  <2>2. Types' /\ OutType' /\ OwedIsOwned' /\ InTurn' /\ AllSound' /\ SentExact' /\ EntriesExact'
        /\ SyncedStored'
    BY <1>0, <2>1 DEF Core, Types, OutType, OwedIsOwned, InTurn, AllSound, SentExact, EntriesExact,
       SyncedStored
  <2>3. AllTracked'
    <3>1. \A j : Tracked(j) => Tracked(j)'
      BY <2>1 DEF Tracked, EntryOf
    <3> QED BY <1>0, <2>1, <3>1 DEF Core, AllTracked
  <2>4. Asked'
    BY <1>0, <2>1 DEF Asked, Payload
  <2> QED BY <2>2, <2>3, <2>4 DEF Inv, Core
<1> QED BY <1>1, <1>2, <1>3, <1>4, <1>5, <1>6, <1>7, <1>8 DEF Next

\* The invariant holds throughout.
THEOREM Invariance == Spec => []Inv
BY InitInv, NextInv, PTL DEF Spec

\* What the syncer waits for is what is collected for it, the incoming flow only goes
\* up, and the data of a milestone holds its messages only and misses none that is not
\* pending: SolidifierInv holds of every solidifier.
THEOREM Owned == Spec => []SolidifierInv
BY Invariance, InvImplies, PTL

\* What is passed on as complete (push_to_logger, push_to_syncer) is the milestone.
THEOREM SendsWhole == Spec => []SentExact
BY Invariance, InvImplies, PTL

\* A milestone gets its row in the sync table when all its messages are stored.
THEOREM SyncsStored == Spec => []SyncedIsStored
BY Invariance, InvImplies, PTL

\* Every message of a milestone that is collected is known to be in the database, or on
\* its way there, where no answer out of a cache outlasts the retries.
THEOREM KeepsRows == Spec => []RowsAwaited
BY Invariance, InvImplies, PTL

\* The incoming flow does not take a milestone up again: one that has had data gets data
\* for the syncer only.
LEMMA StepsNotReopened ==
  Inv /\ [Next]_vars => [\A i \in taken : (data[i] = None /\ data'[i] # None) => data'[i].by = "Syncer"]_vars
<1>. SUFFICES ASSUME Inv, Next, NEW i \in taken, data[i] = None, data'[i] # None
     PROVE  data'[i].by = "Syncer"
  OBVIOUS
<1>1. /\ data \in [Mine -> Data \cup {None}] /\ taken \subseteq Mine /\ expected \in Nat
      /\ \A j \in taken : j < expected
      /\ asks \subseteq Asks
  BY DEF Inv, Core, Types, InTurn, Asked
<1>2. i \in Mine /\ i < expected /\ i \in Nat
  BY <1>1
<1>3. ASSUME NEW j \in Mine, NEW d, Update(j, d), data[j] # None
      PROVE  FALSE
  <2>1. data' = [data EXCEPT ![j] = None] \/ data' = [data EXCEPT ![j] = d]
    BY <1>3 DEF Update, Push, SetData
  <2>2. i # j
    BY <1>3
  <2> QED BY <1>1, <1>2, <2>1, <2>2
<1>4. ASSUME NEW j \in Mine, NEW m, NEW open, NewEntryOrNot(j, m, open)
      PROVE  data'[i].by = "Syncer"
  <2>1. CASE FirstEntry(j, m, open)
    <3>1. taken = {}
      BY <2>1 DEF FirstEntry, Inv, Core, InTurn
    <3> QED BY <3>1
  <2>2. CASE IncomingEntry(j, m, open)
    <3>1. j >= expected /\ j \in Nat
      BY <2>2 DEF IncomingEntry
    <3>2. ~(expected <= i) /\ i # j
      BY <1>1, <1>2, <3>1
    <3>3. \E d : data' = [k \in Mine |->
             IF k = j THEN d
             ELSE IF expected <= k /\ k < j /\ data[k] = None THEN NewData("Expected")
             ELSE data[k]]
      BY <2>2 DEF IncomingEntry, SetData
    <3>4. data'[i] = data[i]
      BY <1>2, <3>2, <3>3
    <3> QED BY <3>4
  <2>3. CASE UNCHANGED entries
    BY <2>3 DEF entries
  <2> QED BY <1>4, <2>1, <2>2, <2>3 DEF NewEntryOrNot
<1>5. ASSUME NEW m \in Msgs, NEW open, Ref[m] \in Mine, NewMessage(m, open)
      PROVE  data'[i].by = "Syncer"
  <2>1. CASE data[Ref[m]] # None /\ Update(Ref[m], Added(data[Ref[m]], m))
    BY <1>3, <1>5, <2>1
  <2>2. CASE NewEntryOrNot(Ref[m], m, open)
    BY <1>4, <1>5, <2>2
  <2> QED BY <1>5, <2>1, <2>2 DEF NewMessage
<1>6. ASSUME NEW j \in Mine, NEW open, MilestoneMessage(j, open)
      PROVE  data'[i].by = "Syncer"
  <2>1. CASE data[j] # None /\ Update(j, [Added(data[j], MilestoneOf[j]) EXCEPT !.milestone = TRUE])
    BY <1>3, <2>1
  <2>2. CASE NewEntryOrNot(j, MilestoneOf[j], open)
    BY <1>4, <2>2
  <2> QED BY <1>6, <2>1, <2>2 DEF MilestoneMessage
<1>7. ASSUME NEW j \in Mine, NEW m, NEW open, CloseMessage(m, j, open)
      PROVE  data'[i].by = "Syncer"
  <2>1. CASE data[j] # None /\ Update(j, [data[j] EXCEPT !.pending = @ \ {m}])
    BY <1>3, <2>1
  <2>2. CASE UNCHANGED entries
    BY <2>2 DEF entries
  <2> QED BY <1>7, <2>1, <2>2 DEF CloseMessage
<1>8. ASSUME NEW m \in Msgs, Seen(m) PROVE data'[i].by = "Syncer"
  <2>1. CASE UNCHANGED entries
    BY <2>1 DEF entries
  <2>2. CASE NewMessage(m, asks \cup Payloads(m))
    <3>1. Ref[m] \in Mine
      BY <1>8 DEF Seen
    <3> QED BY <1>5, <2>2, <3>1
  <2> QED BY <1>8, <2>1, <2>2 DEF Seen
<1>9. \A a \in asks : /\ a.index \in Mine
                      /\ a.type = "full" => a.message \in Msgs
  BY <1>1 DEF Asks
<1>10. ASSUME NEW a \in asks, Respond(a) PROVE data'[i].by = "Syncer"
  <2>1. CASE RespondFull(a)
    <3>1. a.index \in Mine /\ a.message \in Msgs
      BY <1>9, <2>1 DEF RespondFull
    <3>2. \E open : \/ Ref[a.message] = a.index /\ NewMessage(a.message, open)
                    \/ CloseMessage(a.message, a.index, open)
      BY <2>1 DEF RespondFull
    <3> QED BY <1>5, <1>7, <3>1, <3>2
  <2>2. CASE RespondMilestone(a)
    <3>1. \E open : NewMessage(MilestoneOf[a.index], open)
      BY <2>2 DEF RespondMilestone
    <3>2. MilestoneOf[a.index] \in Msgs /\ Ref[MilestoneOf[a.index]] \in Mine
      BY <1>9
    <3> QED BY <1>5, <3>1, <3>2
  <2>3. CASE RespondPayload(a)
    BY <1>6, <1>9, <2>3 DEF RespondPayload
  <2>4. CASE RespondClose(a)
    BY <1>7, <1>9, <2>4 DEF RespondClose
  <2> QED BY <1>10, <2>1, <2>2, <2>3, <2>4 DEF Respond
<1>11. ASSUME NEW a \in asks, RequestFails(a) PROVE data'[i].by = "Syncer"
  <2>1. data' = [data EXCEPT ![a.index] = None] \/ data' = data
    BY <1>11 DEF RequestFails, Failure, SetData, entries
  <2> QED BY <1>1, <1>2, <2>1
<1>12. ASSUME NEW j \in Mine, Solidify(j) PROVE data'[i].by = "Syncer"
  <2>1. CASE UNCHANGED entries
    BY <2>1 DEF entries
  <2>2. CASE data' = [data EXCEPT ![j] = IF data[j] = None THEN NewData("Syncer")
                                         ELSE [data[j] EXCEPT !.by = "Syncer"]]
    <3>1. i = j
      BY <1>1, <1>2, <2>2
    <3>2. data'[i] = NewData("Syncer")
      BY <1>1, <1>2, <2>2, <3>1
    <3> QED BY <3>2 DEF NewData
  <2> QED BY <1>12, <2>1, <2>2 DEF Solidify, SetData
<1>13. ASSUME UNCHANGED entries PROVE data'[i].by = "Syncer"
  BY <1>13 DEF entries
<1> QED BY <1>8, <1>10, <1>11, <1>12, <1>13 DEF Next, Persisted, Analyzed, Stop

\* Late messages of a milestone that was passed on or given up are dropped.
THEOREM NeverReopens == Spec => NotReopened
BY Invariance, StepsNotReopened, PTL DEF Spec, NotReopened

=============================================================================
