-------------------------- MODULE CollectorProofs --------------------------
(***************************************************************************)
(* Proofs about the collector and its requesters, for any messages, asks,  *)
(* capacities of the caches, requesters and endpoints.                     *)
(*                                                                         *)
(* CollectorInv is inductive: the load the collector counts for a          *)
(* requester is the number of requests in its inbox, and who has asked and *)
(* got no answer has a request held or in an inbox.  Load and Waits say so *)
(* of one requester and one ask; a step changes an inbox at its head, when *)
(* the requester is done with it, or at its end (Send, ChangeTopology).    *)
(*                                                                         *)
(* RowsInv says which rows a message has by what the two caches know of it,*)
(* as long as they have room for all: none, those under the milestone it   *)
(* was estimated to be referenced by, or those under the right one.        *)
(***************************************************************************)
EXTENDS Collector, FiniteSetTheorems, WellFoundedInduction, TLAPS

\* A set of natural numbers has a least element.
LEMMA LeastNat ==
  ASSUME NEW S \in SUBSET Nat, S # {}
  PROVE  \E x \in S : \A y \in S : x <= y
<1>. DEFINE R == {ss \in Nat \X Nat : ss[1] < ss[2]}
<1>1. IsWellFoundedOn(R, Nat)
  <2>1. R = OpToRel(<, Nat) BY DEF OpToRel
  <2> QED BY <2>1, NatLessThanWellFounded
<1>2. PICK x \in S : \A y \in S : ~ (<<y, x>> \in R)
  <2> HIDE DEF R
  <2> QED BY <1>1, WFMin, Zenon
<1>3. \A y \in S : ~ (y < x)
  BY <1>2
<1> QED BY <1>3

-----------------------------------------------------------------------------
(* Sequences.                                                              *)

\* What is left of a sequence without its i-th element.
LEMMA RemoveAtIs ==
  ASSUME NEW S, NEW s \in Seq(S), NEW i \in 1..Len(s)
  PROVE  /\ RemoveAt(s, i) \in Seq(S)
         /\ Len(RemoveAt(s, i)) = Len(s) - 1
         /\ \A k \in 1..(Len(s) - 1) :
              RemoveAt(s, i)[k] = IF k < i THEN s[k] ELSE s[k + 1]
<1>. DEFINE n == Len(s)
            a == SubSeq(s, 1, i - 1)
            b == SubSeq(s, i + 1, n)
<1>1. n \in Nat /\ i \in Nat /\ 1 <= i /\ i <= n
  OBVIOUS
<1>2. a \in Seq(S) /\ Len(a) = i - 1 /\ \A k \in 1..(i - 1) : a[k] = s[k]
  BY <1>1
<1>3. b \in Seq(S) /\ Len(b) = n - i /\ \A k \in 1..(n - i) : b[k] = s[i + k]
  BY <1>1
<1>4. RemoveAt(s, i) = a \o b
  BY DEF RemoveAt
<1>. HIDE DEF n, a, b
<1>5. a \o b \in Seq(S) /\ Len(a \o b) = n - 1
  <2>1. a \in Seq(S) /\ b \in Seq(S)
    BY <1>2, <1>3
  <2>2. a \o b \in Seq(S) /\ Len(a \o b) = Len(a) + Len(b)
    BY <2>1
  <2> QED BY <1>1, <1>2, <1>3, <2>2
<1>6. ASSUME NEW k \in 1..(n - 1) PROVE (a \o b)[k] = IF k < i THEN s[k] ELSE s[k + 1]
  <2>1. CASE k < i
    BY <1>1, <1>2, <1>3, <2>1
  <2>2. CASE ~(k < i)
    <3>1. k - (i - 1) \in 1..(n - i) /\ i + (k - (i - 1)) = k + 1
      BY <1>1, <2>2
    <3>2. (a \o b)[k] = b[k - (i - 1)]
      BY <1>1, <1>2, <1>3, <2>2
    <3> QED BY <1>3, <2>2, <3>1, <3>2
  <2> QED BY <2>1, <2>2
<1> QED BY <1>4, <1>5, <1>6 DEF n

\* A finite set as a sequence: each element once.
LEMMA SetToSeqIs ==
  ASSUME NEW S, IsFiniteSet(S)
  PROVE  /\ SetToSeq(S) \in Seq(S)
         /\ Len(SetToSeq(S)) = Cardinality(S)
         /\ ToSet(SetToSeq(S)) = S
<1>. DEFINE n == Cardinality(S)
            Fits(f) == f \in [1..n -> S] /\ IsInjective(f)
<1>1. n \in Nat /\ \E f : Fits(f)
  BY FS_CardinalityType DEF ExistsBijection, Bijection, Injection
<1>2. SetToSeq(S) = CHOOSE f \in [1..n -> S] : IsInjective(f)
  BY DEF SetToSeq
<1>. HIDE DEF n
<1>3. SetToSeq(S) \in Injection(1..n, S)
  BY <1>1, <1>2 DEF Injection
<1>4. Cardinality(1..n) = n
  <2>1. 1 \in Int /\ n \in Int
    BY <1>1
  <2> QED BY <1>1, <2>1, FS_Interval
<1>5. SetToSeq(S) \in Surjection(1..n, S)
  BY <1>3, <1>4, FS_Injection DEF n
<1>6. SetToSeq(S) \in [1..n -> S] /\ \A x \in S : \E i \in 1..n : SetToSeq(S)[i] = x
  BY <1>5 DEF Surjection
<1>7. ToSet(SetToSeq(S)) = S
  BY <1>6 DEF ToSet
<1> QED BY <1>1, <1>6, <1>7 DEF n

-----------------------------------------------------------------------------
(* The caches.                                                             *)

MsgEntry == [id : Ids, est : Nat]
RefEntry == [id : Ids]

\* Where a cached message is.
LEMMA PositionIs ==
  ASSUME NEW s, NEW id, Cached(s, id)
  PROVE  Position(s, id) \in 1..Len(s) /\ s[Position(s, id)].id = id
BY DEF Cached, Position

\* Putting an entry in a cache, or getting one, leaves a cache.
LEMMA PutCache ==
  ASSUME capacity \in Nat \ {0}, NEW E, NEW s, IsCache(s, E), NEW e \in E
  PROVE  IsCache(Put(s, e), E)
<1>. DEFINE w == Without(s, e.id)
            t == Append(w, e)
<1>1. s \in Seq(E) /\ Len(s) <= capacity /\ Len(s) \in Nat
      /\ \A i, j \in DOMAIN s : s[i].id = s[j].id => i = j
  BY DEF IsCache
<1>2. w \in Seq(E) /\ Len(w) <= capacity /\ (\A k \in 1..Len(w) : w[k].id # e.id)
      /\ \A i, j \in 1..Len(w) : w[i].id = w[j].id => i = j
  <2>1. CASE Cached(s, e.id)
    <3>. DEFINE p == Position(s, e.id)
    <3>1. p \in 1..Len(s) /\ s[p].id = e.id /\ w = RemoveAt(s, p)
      BY <2>1, PositionIs DEF Without
    <3>. HIDE DEF p, w
    <3>2. /\ w \in Seq(E) /\ Len(w) = Len(s) - 1
          /\ \A k \in 1..(Len(s) - 1) : w[k] = IF k < p THEN s[k] ELSE s[k + 1]
      BY <1>1, <3>1, RemoveAtIs
    <3>. DEFINE at(k) == IF k < p THEN k ELSE k + 1
    <3>3. \A k \in 1..Len(w) : at(k) \in 1..Len(s) /\ at(k) # p /\ w[k] = s[at(k)]
      BY <1>1, <3>1, <3>2
    <3>4. \A i, j \in 1..Len(w) : at(i) = at(j) => i = j
      BY <3>1
    <3>5. DOMAIN s = 1..Len(s)
      BY <1>1
    <3>6. Len(w) <= capacity
      BY <1>1, <3>2
    <3>. HIDE DEF at
    <3>7. \A k \in 1..Len(w) : w[k].id # e.id
      BY <1>1, <3>1, <3>3, <3>5
    <3>8. \A i, j \in 1..Len(w) : w[i].id = w[j].id => i = j
      BY <1>1, <3>3, <3>4, <3>5
    <3> QED BY <3>2, <3>6, <3>7, <3>8
  <2>2. CASE ~Cached(s, e.id)
    <3>1. w = s /\ DOMAIN s = 1..Len(s)
      BY <1>1, <2>2 DEF Without
    <3>. HIDE DEF w
    <3> QED BY <1>1, <2>2, <3>1 DEF Cached
  <2> QED BY <2>1, <2>2
<1>. HIDE DEF w
<1>3. t \in Seq(E) /\ Len(t) = Len(w) + 1 /\ Len(w) \in Nat
      /\ \A k \in 1..Len(t) : t[k] = IF k = Len(t) THEN e ELSE w[k]
  BY <1>2
<1>4. \A i, j \in 1..Len(t) : t[i].id = t[j].id => i = j
  <2>. SUFFICES ASSUME NEW i \in 1..Len(t), NEW j \in 1..Len(t), t[i].id = t[j].id PROVE i = j
    OBVIOUS
  <2>. HIDE DEF t
  <2>1. CASE i = Len(t) \/ j = Len(t)
    BY <1>2, <1>3, <2>1
  <2>2. CASE i # Len(t) /\ j # Len(t)
    <3>1. i \in 1..Len(w) /\ j \in 1..Len(w) /\ t[i] = w[i] /\ t[j] = w[j]
      BY <1>3, <2>2
    <3> QED BY <1>2, <3>1
  <2> QED BY <2>1, <2>2
<1>5. Put(s, e) = IF Len(t) > capacity THEN Tail(t) ELSE t
  BY DEF Put, w
<1>. HIDE DEF t
<1>6. DOMAIN t = 1..Len(t) /\ Len(t) >= 1
  BY <1>3
<1>7. CASE Len(t) > capacity
  <2>1. Tail(t) \in Seq(E) /\ Len(Tail(t)) = Len(t) - 1
        /\ \A k \in 1..(Len(t) - 1) : Tail(t)[k] = t[k + 1]
    BY <1>3, <1>6
  <2>2. DOMAIN Tail(t) = 1..(Len(t) - 1) /\ Len(Tail(t)) <= capacity
    BY <1>1, <1>2, <1>3, <2>1
  <2>3. \A i, j \in DOMAIN Tail(t) : Tail(t)[i].id = Tail(t)[j].id => i = j
    <3>. SUFFICES ASSUME NEW i \in 1..(Len(t) - 1), NEW j \in 1..(Len(t) - 1),
                         Tail(t)[i].id = Tail(t)[j].id
                  PROVE  i = j
      BY <2>2
    <3>1. i + 1 \in 1..Len(t) /\ j + 1 \in 1..Len(t) /\ t[i + 1].id = t[j + 1].id
      BY <1>3, <2>1
    <3>2. i + 1 = j + 1
      BY <1>4, <3>1
    <3> QED BY <3>2
  <2> QED BY <1>5, <1>7, <2>1, <2>2, <2>3 DEF IsCache
<1>8. CASE ~(Len(t) > capacity)
  <2>1. Len(t) <= capacity
    BY <1>2, <1>3, <1>8
  <2> QED BY <1>3, <1>4, <1>5, <1>6, <1>8, <2>1 DEF IsCache
<1> QED BY <1>7, <1>8

LEMMA GetCache ==
  ASSUME capacity \in Nat \ {0}, NEW E, NEW s, IsCache(s, E), NEW id
  PROVE  IsCache(Get(s, id), E)
<1>1. CASE Cached(s, id)
  <2>1. Position(s, id) \in 1..Len(s) /\ s \in Seq(E)
    BY <1>1, PositionIs DEF IsCache
  <2>2. Entry(s, id) \in E
    BY <2>1 DEF Entry
  <2> QED BY <1>1, <2>2, PutCache DEF Get
<1> QED BY <1>1 DEF Get

-----------------------------------------------------------------------------
(* The inboxes of the requesters.                                          *)

Requested(q) == {i \in DOMAIN q : q[i].type = "request"}
Load(q) == Cardinality(Requested(q))

\* A request in an inbox is one.
LEMMA RequestIs ==
  ASSUME NEW x \in Inbox, x.type = "request"
  PROVE  x.id \in Ids /\ x.ms \in Nat /\ x = Request(x.id, x.ms)
<1>1. x \notin Topologies
  BY CollectorAssumption
<1>2. x \in [type : {"request"}, id : Ids, ms : Nat]
  BY <1>1 DEF Inbox
<1> QED BY <1>2 DEF Request

\* Moving a finite set of numbers leaves its size.
LEMMA ShiftSize ==
  ASSUME NEW A \in SUBSET Nat, IsFiniteSet(A), NEW k \in Int
  PROVE  IsFiniteSet({i + k : i \in A}) /\ Cardinality({i + k : i \in A}) = Cardinality(A)
<1>. DEFINE B == {i + k : i \in A}
            f == [i \in A |-> i + k]
<1>1. f \in Surjection(A, B)
  BY DEF Surjection
<1>2. f \in Injection(A, B)
  BY DEF Injection, IsInjective
<1>. HIDE DEF f, B
<1>3. IsFiniteSet(B) /\ Cardinality(B) = Cardinality(A)
  BY <1>1, <1>2, FS_Surjection
<1> QED BY <1>3 DEF B

\* The requests of an inbox are finitely many.
LEMMA LoadType ==
  ASSUME NEW S, NEW q \in Seq(S)
  PROVE  /\ IsFiniteSet(Requested(q)) /\ Load(q) \in Nat
         /\ Requested(q) \in SUBSET (1..Len(q)) /\ Requested(q) \in SUBSET Nat
<1>1. Requested(q) \in SUBSET (1..Len(q)) /\ 1 \in Int /\ Len(q) \in Int
  BY DEF Requested
<1>2. IsFiniteSet(1..Len(q))
  BY <1>1, FS_Interval
<1>3. IsFiniteSet(Requested(q))
  BY <1>1, <1>2, FS_Subset
<1> QED BY <1>1, <1>3, FS_CardinalityType DEF Load

\* Taking the first event out of an inbox takes its load, if it is a request.
LEMMA LoadTail ==
  ASSUME NEW S, NEW q \in Seq(S), q # <<>>
  PROVE  Load(Tail(q)) = IF Head(q).type = "request" THEN Load(q) - 1 ELSE Load(q)
<1>. DEFINE A == Requested(q)
            B == Requested(Tail(q))
<1>1. q[1] = Head(q) /\ Len(q) >= 1 /\ DOMAIN q = 1..Len(q) /\ Len(q) \in Nat
  OBVIOUS
<1>2. Tail(q) \in Seq(S) /\ DOMAIN Tail(q) = 1..(Len(q) - 1)
      /\ \A i \in 1..(Len(q) - 1) : Tail(q)[i] = q[i + 1]
  OBVIOUS
<1>3. A \in SUBSET Nat /\ IsFiniteSet(A) /\ B \in SUBSET Nat /\ IsFiniteSet(B)
      /\ Cardinality(A) = Load(q) /\ Cardinality(B) = Load(Tail(q)) /\ Load(q) \in Nat
  BY <1>2, LoadType DEF Load
<1>4. A \ {1} = {i + 1 : i \in B}
  <2>1. ASSUME NEW j \in A, j # 1 PROVE j \in {i + 1 : i \in B}
    <3>1. j - 1 \in 1..(Len(q) - 1) /\ (j - 1) + 1 = j
      BY <1>1, <2>1 DEF Requested
    <3>2. j - 1 \in B
      BY <1>2, <3>1 DEF Requested
    <3>. HIDE DEF B
    <3> QED BY <3>1, <3>2
  <2>2. ASSUME NEW i \in B PROVE i + 1 \in A /\ i + 1 # 1
    BY <1>1, <1>2 DEF Requested
  <2>. HIDE DEF A, B
  <2> QED BY <2>1, <2>2
<1>5. 1 \in A <=> Head(q).type = "request"
  BY <1>1 DEF Requested
<1>. HIDE DEF A, B
<1>6. Cardinality({i + 1 : i \in B}) = Cardinality(B)
  <2>1. 1 \in Int
    OBVIOUS
  <2> QED BY <1>3, <2>1, ShiftSize
<1>7. Cardinality(A \ {1}) = IF 1 \in A THEN Cardinality(A) - 1 ELSE Cardinality(A)
  BY <1>3, FS_RemoveElement
<1> QED BY <1>3, <1>4, <1>5, <1>6, <1>7

\* Requests at the end of an inbox add to its load.
LEMMA LoadConcat ==
  ASSUME NEW S, NEW q \in Seq(S), NEW s \in Seq(S), \A i \in 1..Len(s) : s[i].type = "request"
  PROVE  Load(q \o s) = Load(q) + Len(s)
<1>. DEFINE A == Requested(q)
            C == {i + Len(q) : i \in 1..Len(s)}
<1>1. Len(q) \in Nat /\ Len(s) \in Nat /\ q \o s \in Seq(S)
      /\ DOMAIN (q \o s) = 1..(Len(q) + Len(s)) /\ DOMAIN q = 1..Len(q)
      /\ \A i \in 1..(Len(q) + Len(s)) :
           (q \o s)[i] = IF i <= Len(q) THEN q[i] ELSE s[i - Len(q)]
  OBVIOUS
<1>2. Requested(q \o s) = A \cup C
  <2>1. ASSUME NEW i \in Requested(q \o s) PROVE i \in A \cup C
    <3>1. i \in 1..(Len(q) + Len(s)) /\ (q \o s)[i].type = "request"
      BY <1>1, <2>1 DEF Requested
    <3>2. CASE i <= Len(q)
      BY <1>1, <3>1, <3>2 DEF Requested
    <3>3. CASE ~(i <= Len(q))
      <4>1. i - Len(q) \in 1..Len(s) /\ (i - Len(q)) + Len(q) = i
        BY <1>1, <3>1, <3>3
      <4> QED BY <4>1
    <3> QED BY <3>2, <3>3
  <2>2. ASSUME NEW i \in A PROVE i \in Requested(q \o s)
    BY <1>1 DEF Requested
  <2>3. ASSUME NEW j \in 1..Len(s) PROVE j + Len(q) \in Requested(q \o s)
    <3>1. j + Len(q) \in 1..(Len(q) + Len(s)) /\ ~(j + Len(q) <= Len(q)) /\ (j + Len(q)) - Len(q) = j
      BY <1>1
    <3> QED BY <1>1, <3>1 DEF Requested
  <2>. HIDE DEF A
  <2> QED BY <2>1, <2>2, <2>3
<1>3. IsFiniteSet(A) /\ Cardinality(A) = Load(q) /\ Load(q) \in Nat /\ A \in SUBSET (1..Len(q))
  BY LoadType DEF Load
<1>4. IsFiniteSet(1..Len(s)) /\ Cardinality(1..Len(s)) = Len(s)
  <2>. DEFINE m == Len(s)
  <2>1. 1 \in Int /\ m \in Int /\ m \in Nat
    BY <1>1
  <2>. HIDE DEF m
  <2>2. IsFiniteSet(1..m) /\ Cardinality(1..m) = IF 1 > m THEN 0 ELSE m - 1 + 1
    BY <2>1, FS_Interval
  <2>3. Cardinality(1..m) = m
    BY <2>1, <2>2
  <2> QED BY <2>2, <2>3 DEF m
<1>5. IsFiniteSet(C) /\ Cardinality(C) = Len(s)
  <2>1. 1..Len(s) \in SUBSET Nat /\ Len(q) \in Int
    BY <1>1
  <2> QED BY <1>4, <2>1, ShiftSize
<1>6. A \cap C = {}
  BY <1>1, <1>3
<1>. HIDE DEF A, C
<1>7. Cardinality(A \cup C) = Cardinality(A) + Cardinality(C) - Cardinality(A \cap C)
  BY <1>3, <1>5, FS_Union
<1>8. Cardinality(A \cap C) = 0
  BY <1>6, FS_EmptySet
<1> QED BY <1>1, <1>2, <1>3, <1>5, <1>7, <1>8 DEF Load

\* An event that is no request adds nothing.
LEMMA LoadAppend ==
  ASSUME NEW S, NEW q \in Seq(S), NEW x \in S, x.type # "request"
  PROVE  Load(Append(q, x)) = Load(q)
<1>1. Requested(Append(q, x)) = Requested(q)
  BY DEF Requested
<1> QED BY <1>1 DEF Load

\* What is at the end of an inbox is in it, whatever it was before.
LEMMA ComesIn ==
  ASSUME NEW S, NEW q \in Seq(S), NEW s \in Seq(S)
  PROVE  ToSet(s) \subseteq ToSet(q \o s)
<1>1. ASSUME NEW j \in 1..Len(s)
      PROVE  j + Len(q) \in DOMAIN (q \o s) /\ (q \o s)[j + Len(q)] = s[j]
  OBVIOUS
<1>2. ASSUME NEW j \in DOMAIN s PROVE s[j] \in ToSet(q \o s)
  <2>1. j \in 1..Len(s)
    OBVIOUS
  <2>2. j + Len(q) \in DOMAIN (q \o s) /\ (q \o s)[j + Len(q)] = s[j]
    BY <1>1, <2>1
  <2> QED BY <2>2, Zenon DEF ToSet
<1> QED BY <1>2 DEF ToSet

\* What is in an inbox, or comes to its end, stays; and so does all but the head.
LEMMA StaysIn ==
  ASSUME NEW S, NEW q \in Seq(S), NEW x \in ToSet(q)
  PROVE  /\ \A s \in Seq(S) : x \in ToSet(q \o s) /\ ToSet(s) \subseteq ToSet(q \o s)
         /\ \A y \in S : x \in ToSet(Append(q, y))
         /\ q # <<>> /\ (x = Head(q) \/ x \in ToSet(Tail(q)))
<1>1. PICK i \in 1..Len(q) : x = q[i]
  BY DEF ToSet
<1>2. ASSUME NEW s \in Seq(S)
      PROVE  x \in ToSet(q \o s) /\ ToSet(s) \subseteq ToSet(q \o s)
  <2>1. i \in DOMAIN (q \o s) /\ (q \o s)[i] = x
    BY <1>1
  <2>2. x \in ToSet(q \o s)
    BY <2>1 DEF ToSet
  <2> QED BY <2>2, ComesIn
<1>3. ASSUME NEW y \in S PROVE x \in ToSet(Append(q, y))
  <2>1. i \in DOMAIN Append(q, y) /\ Append(q, y)[i] = x
    BY <1>1
  <2> QED BY <2>1 DEF ToSet
<1>4. CASE i = 1
  BY <1>1, <1>2, <1>3, <1>4
<1>5. CASE i # 1
  <2>1. q # <<>> /\ i - 1 \in DOMAIN Tail(q) /\ Tail(q)[i - 1] = q[i]
    BY <1>1, <1>5
  <2>2. x \in ToSet(Tail(q))
    BY <1>1, <2>1 DEF ToSet
  <2> QED BY <1>2, <1>3, <2>1, <2>2
<1> QED BY <1>4, <1>5

\* Turning the endpoints leaves endpoints.
LEMMA RotatedType ==
  ASSUME NEW S, NEW s \in Seq(S), NEW n \in Nat
  PROVE  Rotated(s, n) \in Seq(S)
<1>. DEFINE m == Len(s)
<1>1. m \in Nat /\ \A j \in 1..m : s[j] \in S
  OBVIOUS
<1>2. Rotated(s, n) = [i \in 1..m |-> s[((i + n - 1) % m) + 1]]
  BY DEF Rotated
<1>. HIDE DEF m
<1>3. ASSUME NEW i \in 1..m PROVE s[((i + n - 1) % m) + 1] \in S
  <2>1. m > 0 /\ i + n - 1 \in Nat
    BY <1>1
  <2>2. (i + n - 1) % m \in 0..(m - 1)
    BY <1>1, <2>1
  <2>3. ((i + n - 1) % m) + 1 \in 1..m
    BY <1>1, <2>2
  <2> QED BY <1>1, <2>3
<1>4. [i \in 1..m |-> s[((i + n - 1) % m) + 1]] \in [1..m -> S]
  BY <1>3
<1> QED BY <1>1, <1>2, <1>4

-----------------------------------------------------------------------------
(* The parts of the invariant.                                             *)

HeldOK ==
  /\ pending_requests \in [DOMAIN pending_requests -> Nat]
  /\ DOMAIN pending_requests \subseteq Ids /\ IsFiniteSet(DOMAIN pending_requests)
InboxesOK ==
  /\ processed_count \in [Requesters -> Nat]
  /\ queue \in [Requesters -> Seq(Inbox)]
  /\ api_endpoints \in [Requesters -> Seq(Urls)]
CachesOK == IsCache(lru_msg, MsgEntry) /\ IsCache(lru_msg_ref, RefEntry)
FeedOK == feed \in [message : [Ids -> Nat], metadata : [Ids -> Nat]]

\* The type invariant by parts.
LEMMA TypeIs ==
  TypeOK <=> /\ capacity \in Capacities /\ est_ms \in Nat /\ ref_ms \in Nat
             /\ CachesOK /\ HeldOK /\ InboxesOK /\ FeedOK
             /\ topologies \subseteq Topologies /\ asked \subseteq Asked
             /\ owed \subseteq asked /\ persisting \subseteq Ids
BY Zenon DEF TypeOK, CachesOK, HeldOK, InboxesOK, FeedOK, MsgEntry, RefEntry

\* The load counted for every requester is that of its inbox.
LEMMA LoadIs == LoadExact <=> \A r \in Requesters : processed_count[r] = Load(queue[r])
BY DEF LoadExact, Load, Requested

\* Ask a has a request that is held, or in an inbox.
Waits(a, pending, q) ==
  \/ a.id \in DOMAIN pending /\ pending[a.id] = a.ms
  \/ \E r \in Requesters : Request(a.id, a.ms) \in ToSet(q[r])

LEMMA ForgottenIs == NobodyForgotten <=> \A a \in owed : Waits(a, pending_requests, queue)
BY DEF NobodyForgotten, Waits

\* No request leaves an inbox.
Grow == \A r \in Requesters : ToSet(queue[r]) \subseteq ToSet(queue'[r])

\* Who waits goes on waiting when no request leaves an inbox or is not held any more.
LEMMA GrowWaits ==
  ASSUME Grow, NEW a, Waits(a, pending_requests, queue),
         NEW p, a.id \in DOMAIN pending_requests /\ pending_requests[a.id] = a.ms
                  => Waits(a, p, queue')
  PROVE  Waits(a, p, queue')
BY DEF Grow, Waits

\* Requests are sent: they are in an inbox, and counted.
LEMMA SendIs ==
  ASSUME InboxesOK, LoadExact, NEW R, IsFiniteSet(R),
         R \subseteq [type : {"request"}, id : Ids, ms : Nat], Send(R)
  PROVE  /\ InboxesOK' /\ LoadExact' /\ Grow
         /\ \A x \in R : \E r \in Requesters : x \in ToSet(queue'[r])
<1>. DEFINE share(f, r) == {q \in R : f[q] = r}
<1>1. PICK f \in [R -> Requesters] :
        /\ processed_count' = [r \in Requesters |-> processed_count[r] + Cardinality(share(f, r))]
        /\ queue' = [r \in Requesters |-> queue[r] \o SetToSeq(share(f, r))]
        /\ api_endpoints' = api_endpoints
  BY DEF Send
<1>2. ASSUME NEW r \in Requesters
      PROVE  /\ Cardinality(share(f, r)) \in Nat
             /\ SetToSeq(share(f, r)) \in Seq(Inbox)
             /\ Len(SetToSeq(share(f, r))) = Cardinality(share(f, r))
             /\ ToSet(SetToSeq(share(f, r))) = share(f, r)
             /\ \A i \in 1..Len(SetToSeq(share(f, r))) :
                  SetToSeq(share(f, r))[i].type = "request"
  <2>. DEFINE X == share(f, r)
              s == SetToSeq(X)
  <2>1. X \in SUBSET R
    OBVIOUS
  <2>2. IsFiniteSet(X) /\ Cardinality(X) \in Nat
    BY <2>1, FS_Subset, FS_CardinalityType
  <2>. HIDE DEF X
  <2>3. s \in Seq(X) /\ Len(s) = Cardinality(X) /\ ToSet(s) = X
    BY <2>2, SetToSeqIs
  <2>. HIDE DEF s
  <2>4. \A i \in 1..Len(s) : s[i] \in X
    BY <2>3
  <2>5. \A x \in X : x \in Inbox /\ x.type = "request"
    BY <2>1 DEF Inbox
  <2>6. s \in Seq(Inbox)
    BY <2>3, <2>5
  <2>7. \A i \in 1..Len(s) : s[i].type = "request"
    BY <2>4, <2>5
  <2> QED BY <2>2, <2>3, <2>6, <2>7 DEF s, X
<1>. HIDE DEF share
<1>3. \A r \in Requesters : /\ processed_count[r] \in Nat /\ queue[r] \in Seq(Inbox)
                            /\ processed_count[r] = Load(queue[r])
  BY LoadIs DEF InboxesOK
<1>4. \A r \in Requesters :
        /\ processed_count'[r] = processed_count[r] + Cardinality(share(f, r))
        /\ queue'[r] = queue[r] \o SetToSeq(share(f, r))
  BY <1>1
<1>5. InboxesOK'
  <2>1. processed_count' \in [Requesters -> Nat]
    <3>1. \A r \in Requesters : processed_count[r] + Cardinality(share(f, r)) \in Nat
      BY <1>2, <1>3
    <3> QED BY <1>1, <3>1
  <2>2. queue' \in [Requesters -> Seq(Inbox)]
    <3>1. \A r \in Requesters : queue[r] \o SetToSeq(share(f, r)) \in Seq(Inbox)
      BY <1>2, <1>3
    <3> QED BY <1>1, <3>1
  <2>3. api_endpoints' \in [Requesters -> Seq(Urls)]
    BY <1>1 DEF InboxesOK
  <2> QED BY <2>1, <2>2, <2>3 DEF InboxesOK
<1>6. ASSUME NEW r \in Requesters PROVE processed_count'[r] = Load(queue'[r])
  <2>1. Load(queue[r] \o SetToSeq(share(f, r))) = Load(queue[r]) + Len(SetToSeq(share(f, r)))
    BY <1>2, <1>3, LoadConcat
  <2> QED BY <1>2, <1>3, <1>4, <2>1
<1>7. LoadExact'
  BY <1>6 DEF LoadExact, Load, Requested
<1>8. ASSUME NEW r \in Requesters
      PROVE  /\ ToSet(queue[r]) \subseteq ToSet(queue'[r])
             /\ share(f, r) \subseteq ToSet(queue'[r])
  <2>1. queue[r] \in Seq(Inbox) /\ SetToSeq(share(f, r)) \in Seq(Inbox)
    BY <1>2, <1>3
  <2>2. \A x \in ToSet(queue[r]) : x \in ToSet(queue[r] \o SetToSeq(share(f, r)))
    BY <2>1, StaysIn
  <2>3. ToSet(SetToSeq(share(f, r))) \subseteq ToSet(queue[r] \o SetToSeq(share(f, r)))
    BY <2>1, ComesIn
  <2> QED BY <1>2, <1>4, <2>2, <2>3
<1>9. \A x \in R : f[x] \in Requesters /\ x \in share(f, f[x])
  BY DEF share
<1> QED BY <1>5, <1>7, <1>8, <1>9 DEF Grow

\* Requester r is done with its first request h.
LEMMA AnsweringIs ==
  ASSUME InboxesOK, LoadExact, NEW r \in Requesters, Answering(r),
         NEW h, h = Head(queue[r]),
         processed_count' = [processed_count EXCEPT ![r] = @ - 1],
         NEW n \in Nat, api_endpoints' = [api_endpoints EXCEPT ![r] = Rotated(@, n)]
  PROVE  /\ InboxesOK' /\ LoadExact'
         /\ h.id \in Ids /\ h.ms \in Nat /\ h = Request(h.id, h.ms)
         /\ \A s \in Requesters : \A x \in ToSet(queue[s]) : x = h \/ x \in ToSet(queue'[s])
<1>1. /\ queue[r] \in Seq(Inbox) /\ queue[r] # <<>> /\ h \in Inbox /\ h.type = "request"
      /\ queue' = [queue EXCEPT ![r] = Tail(@)]
  BY DEF Answering, InboxesOK
<1>2. h.id \in Ids /\ h.ms \in Nat /\ h = Request(h.id, h.ms)
  BY <1>1, RequestIs
<1>3. Tail(queue[r]) \in Seq(Inbox) /\ Load(Tail(queue[r])) = Load(queue[r]) - 1
  BY <1>1, LoadTail
<1>4. Load(Tail(queue[r])) \in Nat /\ Load(queue[r]) \in Nat
  BY <1>1, <1>3, LoadType
<1>5. processed_count[r] = Load(queue[r]) /\ processed_count[r] - 1 \in Nat
  BY <1>3, <1>4, LoadIs
<1>6. queue' \in [Requesters -> Seq(Inbox)]
  BY <1>1, <1>3 DEF InboxesOK
<1>7. processed_count' \in [Requesters -> Nat]
  BY <1>5 DEF InboxesOK
<1>8. api_endpoints' \in [Requesters -> Seq(Urls)]
  <2>1. api_endpoints[r] \in Seq(Urls)
    BY DEF InboxesOK
  <2>2. Rotated(api_endpoints[r], n) \in Seq(Urls)
    BY <2>1, RotatedType
  <2> QED BY <2>2 DEF InboxesOK
<1>9. InboxesOK'
  BY <1>6, <1>7, <1>8 DEF InboxesOK
<1>10. ASSUME NEW s \in Requesters PROVE processed_count'[s] = Load(queue'[s])
  <2>1. CASE s = r
    <3>1. processed_count'[r] = processed_count[r] - 1 /\ queue'[r] = Tail(queue[r])
      BY <1>1 DEF InboxesOK
    <3> QED BY <1>3, <1>4, <1>5, <2>1, <3>1
  <2>2. CASE s # r
    <3>1. processed_count'[s] = processed_count[s] /\ queue'[s] = queue[s]
      BY <1>1, <2>2 DEF InboxesOK
    <3> QED BY <3>1, LoadIs
  <2> QED BY <2>1, <2>2
<1>11. LoadExact'
  BY <1>10 DEF LoadExact, Load, Requested
<1>12. ASSUME NEW s \in Requesters, NEW x \in ToSet(queue[s])
       PROVE  x = h \/ x \in ToSet(queue'[s])
  <2>1. CASE s = r
    <3>1. x = Head(queue[r]) \/ x \in ToSet(Tail(queue[r]))
      BY <1>1, <2>1, StaysIn
    <3>2. queue'[r] = Tail(queue[r])
      BY <1>1 DEF InboxesOK
    <3> QED BY <2>1, <3>1, <3>2
  <2>2. CASE s # r
    <3>1. queue'[s] = queue[s]
      BY <1>1, <2>2 DEF InboxesOK
    <3> QED BY <3>1
  <2> QED BY <2>1, <2>2
<1> QED BY <1>2, <1>9, <1>11, <1>12

\* The invariant by parts, and back.
LEMMA Parts ==
  ASSUME CollectorInv
  PROVE  /\ capacity \in Capacities /\ capacity \in Nat \ {0} /\ est_ms \in Nat /\ ref_ms \in Nat
         /\ CachesOK /\ HeldOK /\ InboxesOK /\ FeedOK
         /\ topologies \subseteq Topologies /\ asked \subseteq Asked
         /\ owed \subseteq asked /\ persisting \subseteq Ids
         /\ LoadExact /\ \A a \in owed : Waits(a, pending_requests, queue)
<1>1. TypeOK /\ LoadExact /\ NobodyForgotten
  BY DEF CollectorInv
<1>2. /\ capacity \in Capacities /\ est_ms \in Nat /\ ref_ms \in Nat
      /\ CachesOK /\ HeldOK /\ InboxesOK /\ FeedOK
      /\ topologies \subseteq Topologies /\ asked \subseteq Asked
      /\ owed \subseteq asked /\ persisting \subseteq Ids
  BY <1>1, TypeIs, Zenon
<1>3. capacity \in Nat \ {0}
  BY <1>2, CollectorAssumption
<1> QED BY <1>1, <1>2, <1>3, ForgottenIs, Zenon

LEMMA Whole ==
  ASSUME capacity' \in Capacities, est_ms' \in Nat, ref_ms' \in Nat,
         CachesOK', HeldOK', InboxesOK', FeedOK',
         topologies' \subseteq Topologies, asked' \subseteq Asked,
         owed' \subseteq asked', persisting' \subseteq Ids,
         LoadExact', \A a \in owed' : Waits(a, pending_requests', queue')
  PROVE  CollectorInv'
<1>1. TypeOK'
  BY Zenon DEF TypeOK, CachesOK, HeldOK, InboxesOK, FeedOK, MsgEntry, RefEntry
<1>2. NobodyForgotten'
  BY DEF NobodyForgotten, Waits
<1> QED BY <1>1, <1>2 DEF CollectorInv

\* The caches after a step: each as it was, with an entry put, or with one got.
CacheStep(s, t, E) ==
  \/ t = s
  \/ \E e \in E : t = Put(s, e)
  \/ \E id \in Ids : t = Get(s, id)

LEMMA NextCaches ==
  ASSUME capacity \in Nat \ {0}, CachesOK, capacity' = capacity,
         CacheStep(lru_msg, lru_msg', MsgEntry), CacheStep(lru_msg_ref, lru_msg_ref', RefEntry)
  PROVE  CachesOK'
<1>1. ASSUME NEW s, NEW t, NEW E, IsCache(s, E), CacheStep(s, t, E) PROVE IsCache(t, E)
  BY <1>1, PutCache, GetCache DEF CacheStep
<1>2. IsCache(lru_msg', MsgEntry) /\ IsCache(lru_msg_ref', RefEntry)
  BY <1>1 DEF CachesOK
<1>3. IsCache(lru_msg, MsgEntry)'
  BY <1>2 DEF IsCache, MsgEntry
<1>4. IsCache(lru_msg_ref, RefEntry)'
  BY <1>2 DEF IsCache, RefEntry
<1> QED BY <1>3, <1>4 DEF CachesOK

\* What a topology event makes of the endpoints.
LEMMA ChangedType ==
  ASSUME NEW s \in Seq(Urls), NEW t \in Topologies, NEW u \in Changed(s, t)
  PROVE  u \in Seq(Urls)
<1>. DEFINE known == {i \in 1..Len(s) : s[i] = t.url}
            grown == IF known = {} THEN <<t.url>> \o s ELSE s
<1>1. t.url \in Urls
  BY DEF Urls
<1>2. u \in IF t.type = "AddEndpoint" THEN Shuffled(grown)
            ELSE {IF known = {} THEN s ELSE RemoveAt(s, Min(known))}
  BY DEF Changed
<1>3. grown \in Seq(Urls)
  BY <1>1
<1>4. known \in SUBSET (1..Len(s)) /\ known \in SUBSET Nat
  OBVIOUS
<1>. HIDE DEF grown, known
<1>5. CASE t.type = "AddEndpoint"
  <2>1. PICK p \in Bijection(1..Len(grown), 1..Len(grown)) : u = [i \in 1..Len(grown) |-> grown[p[i]]]
    BY <1>2, <1>5 DEF Shuffled
  <2>2. p \in [1..Len(grown) -> 1..Len(grown)]
    BY <2>1 DEF Bijection, Injection
  <2>3. Len(grown) \in Nat /\ \A i \in 1..Len(grown) : grown[p[i]] \in Urls
    BY <1>3, <2>2
  <2>4. u \in [1..Len(grown) -> Urls]
    BY <2>1, <2>3
  <2> QED BY <2>3, <2>4
<1>6. CASE t.type # "AddEndpoint" /\ known # {}
  <2>1. \E x \in known : \A y \in known : x <= y
    BY <1>4, <1>6, LeastNat
  <2>2. Min(known) \in known
    BY <2>1 DEF Min
  <2>3. Min(known) \in 1..Len(s) /\ u = RemoveAt(s, Min(known))
    BY <1>2, <1>4, <1>6, <2>2
  <2> QED BY <2>3, RemoveAtIs
<1>7. CASE t.type # "AddEndpoint" /\ known = {}
  BY <1>2, <1>7
<1> QED BY <1>5, <1>6, <1>7

-----------------------------------------------------------------------------
(* The requesters keep the invariant.                                      *)

LEMMA NextTopology ==
  ASSUME CollectorInv, NEW r \in Requesters, Topology(r)
  PROVE  CollectorInv'
<1>. DEFINE h == Head(queue[r])
<1>1. /\ queue[r] \in Seq(Inbox) /\ queue[r] # <<>> /\ h \in Inbox /\ h.type # "request"
      /\ api_endpoints[r] \in Seq(Urls)
      /\ queue' = [queue EXCEPT ![r] = Tail(@)]
  BY Parts DEF Topology, InboxesOK
<1>2. h \in Topologies
  BY <1>1 DEF Inbox
<1>3. PICK s \in Changed(api_endpoints[r], h) : api_endpoints' = [api_endpoints EXCEPT ![r] = s]
  BY DEF Topology
<1>. HIDE DEF h
<1>4. s \in Seq(Urls)
  BY <1>1, <1>2, <1>3, ChangedType
<1>5. /\ capacity' = capacity /\ est_ms' = est_ms /\ ref_ms' = ref_ms /\ lru_msg' = lru_msg
      /\ lru_msg_ref' = lru_msg_ref /\ pending_requests' = pending_requests
      /\ processed_count' = processed_count /\ feed' = feed /\ topologies' = topologies
      /\ asked' = asked /\ owed' = owed /\ persisting' = {}
  BY DEF Topology, caches, env
<1>6. Tail(queue[r]) \in Seq(Inbox) /\ Load(Tail(queue[r])) = Load(queue[r])
  BY <1>1, LoadTail DEF h
<1>7. InboxesOK'
  <2>1. queue' \in [Requesters -> Seq(Inbox)]
    BY <1>1, <1>6, Parts DEF InboxesOK
  <2>2. api_endpoints' \in [Requesters -> Seq(Urls)]
    BY <1>3, <1>4, Parts DEF InboxesOK
  <2> QED BY <1>5, <2>1, <2>2, Parts DEF InboxesOK
<1>8. LoadExact'
  <2>1. ASSUME NEW q \in Requesters PROVE processed_count'[q] = Load(queue'[q])
    <3>1. queue'[q] = IF q = r THEN Tail(queue[r]) ELSE queue[q]
      BY <1>1, Parts DEF InboxesOK
    <3>2. processed_count[q] = Load(queue[q])
      BY Parts, LoadIs
    <3> QED BY <1>5, <1>6, <3>1, <3>2
  <2> QED BY <2>1 DEF LoadExact, Load, Requested
<1>9. ASSUME NEW a \in owed' PROVE Waits(a, pending_requests', queue')
  <2>1. Waits(a, pending_requests, queue)
    BY <1>5, Parts
  <2>2. ASSUME NEW q \in Requesters, Request(a.id, a.ms) \in ToSet(queue[q])
        PROVE  Request(a.id, a.ms) \in ToSet(queue'[q])
    <3>1. queue'[q] = IF q = r THEN Tail(queue[r]) ELSE queue[q]
      BY <1>1, Parts DEF InboxesOK
    <3>2. Request(a.id, a.ms).type = "request"
      BY DEF Request
    <3>3. q = r => Request(a.id, a.ms) \in ToSet(Tail(queue[r]))
      BY <1>1, <2>2, <3>2, StaysIn DEF h
    <3> QED BY <2>2, <3>1, <3>3
  <2> QED BY <1>5, <2>1, <2>2 DEF Waits
<1>10. CachesOK'
  BY <1>5, Parts, NextCaches DEF CacheStep
<1>11. HeldOK' /\ FeedOK'
  BY <1>5, Parts DEF HeldOK, FeedOK
<1> QED BY <1>5, <1>7, <1>8, <1>9, <1>10, <1>11, Parts, Whole

LEMMA NextChangeTopology ==
  ASSUME CollectorInv, NEW t \in Topologies, ChangeTopology(t)
  PROVE  CollectorInv'
<1>1. /\ queue' = [r \in Requesters |-> Append(queue[r], t)]
      /\ topologies' = topologies \ {t}
      /\ capacity' = capacity /\ est_ms' = est_ms /\ ref_ms' = ref_ms /\ lru_msg' = lru_msg
      /\ lru_msg_ref' = lru_msg_ref /\ pending_requests' = pending_requests
      /\ processed_count' = processed_count /\ api_endpoints' = api_endpoints /\ feed' = feed
      /\ asked' = asked /\ owed' = owed /\ persisting' = {}
  BY DEF ChangeTopology, caches
<1>2. t \in Inbox /\ t.type # "request"
  BY CollectorAssumption DEF Inbox
<1>3. ASSUME NEW r \in Requesters
      PROVE  /\ queue[r] \in Seq(Inbox) /\ queue'[r] = Append(queue[r], t)
             /\ queue'[r] \in Seq(Inbox) /\ Load(queue'[r]) = Load(queue[r])
             /\ processed_count[r] = Load(queue[r])
             /\ \A x \in ToSet(queue[r]) : x \in ToSet(queue'[r])
  <2>1. queue[r] \in Seq(Inbox) /\ queue'[r] = Append(queue[r], t) /\ queue'[r] \in Seq(Inbox)
    BY <1>1, <1>2, Parts DEF InboxesOK
  <2>2. Load(Append(queue[r], t)) = Load(queue[r])
    BY <1>2, <2>1, LoadAppend
  <2>3. \A x \in ToSet(queue[r]) : x \in ToSet(Append(queue[r], t))
    BY <1>2, <2>1, StaysIn
  <2>4. processed_count[r] = Load(queue[r])
    BY Parts, LoadIs
  <2> QED BY <2>1, <2>2, <2>3, <2>4
<1>4. InboxesOK'
  <2>1. queue' \in [Requesters -> Seq(Inbox)]
    BY <1>1, <1>3
  <2> QED BY <1>1, <2>1, Parts DEF InboxesOK
<1>5. LoadExact'
  BY <1>1, <1>3 DEF LoadExact, Load, Requested
<1>6. \A a \in owed' : Waits(a, pending_requests', queue')
  BY <1>1, <1>3, Parts DEF Waits
<1>7. CachesOK'
  BY <1>1, Parts, NextCaches DEF CacheStep
<1>8. HeldOK' /\ FeedOK'
  BY <1>1, Parts DEF HeldOK, FeedOK
<1>9. topologies' \subseteq Topologies /\ persisting' \subseteq Ids
  BY <1>1, Parts
<1> QED BY <1>1, <1>4, <1>5, <1>6, <1>7, <1>8, <1>9, Parts, Whole

\* The answer of a requester, or from the caches, is one to every ask for the
\* message and the milestone.
LEMMA Answers ==
  ASSUME NEW id, NEW ms, NEW a, a.id = id, a.ms = ms
  PROVE  /\ \E e \in PushOrClose(id, ms) : AnswerTo(e, a)
         /\ AnswerTo(CloseEvent(id, ms), a)
         /\ AnswerTo(Failure(ms), a)
BY DEF PushOrClose, AnswerTo, FullMessage, CloseEvent, Failure

\* Who is owed an answer after events are sent was so before, and got none.
LEMMA StillOwed ==
  ASSUME NEW events, NEW open, Solidifiers(events, open)
  PROVE  owed' \subseteq open /\ \A a \in owed' : \A e \in events : ~AnswerTo(e, a)
BY DEF Solidifiers

LEMMA RetriesType == Retries \in Nat
<1>1. Len(ApiEndpoints) \in Nat /\ RetriesPerEndpoint \in Nat
  BY CollectorAssumption
<1>. DEFINE m == Len(ApiEndpoints)
            n == RetriesPerEndpoint
<1>. HIDE DEF m, n
<1>2. m \in Nat /\ n \in Nat => m * n \in Nat
  OBVIOUS
<1> QED BY <1>1, <1>2 DEF Retries, m, n

\* The requester is done with its first request, the asks for which are answered.
LEMMA NextAnswering ==
  ASSUME CollectorInv, NEW r \in Requesters, Answering(r),
         processed_count' = [processed_count EXCEPT ![r] = @ - 1],
         NEW n \in Nat, api_endpoints' = [api_endpoints EXCEPT ![r] = Rotated(@, n)],
         NEW h, h = Head(queue[r]),
         NEW events, Solidifiers(events, owed),
         \A a : a.id = h.id /\ a.ms = h.ms => \E e \in events : AnswerTo(e, a),
         pending_requests' = pending_requests
  PROVE  /\ InboxesOK' /\ LoadExact' /\ owed' \subseteq asked'
         /\ h.id \in Ids /\ h.ms \in Nat
         /\ \A a \in owed' : Waits(a, pending_requests', queue')
<1>1. /\ InboxesOK' /\ LoadExact'
      /\ h.id \in Ids /\ h.ms \in Nat /\ h = Request(h.id, h.ms)
      /\ \A s \in Requesters : \A x \in ToSet(queue[s]) : x = h \/ x \in ToSet(queue'[s])
  <2>1. InboxesOK /\ LoadExact
    BY Parts
  <2> QED BY <2>1, AnsweringIs
<1>2. owed' \subseteq owed /\ \A a \in owed' : ~(a.id = h.id /\ a.ms = h.ms)
  BY StillOwed
<1>3. ASSUME NEW a \in owed' PROVE Waits(a, pending_requests', queue')
  <2>1. Waits(a, pending_requests, queue)
    BY <1>2, Parts
  <2>2. Request(a.id, a.ms) # h
    BY <1>1, <1>2 DEF Request
  <2> QED BY <1>1, <2>1, <2>2 DEF Waits
<1>4. asked' = asked
  BY DEF Answering, env
<1> QED BY <1>1, <1>2, <1>3, <1>4, Parts

LEMMA NextFetch ==
  ASSUME CollectorInv, NEW r \in Requesters, Fetch(r)
  PROVE  CollectorInv'
<1>. DEFINE h == Head(queue[r])
<1>1. PICK failures \in 0 .. Retries - 1 :
        api_endpoints' = [api_endpoints EXCEPT ![r] = Rotated(@, failures)]
  BY DEF Fetch
<1>2. failures \in Nat
  BY <1>1, RetriesType
<1>3. /\ Answering(r) /\ processed_count' = [processed_count EXCEPT ![r] = @ - 1]
      /\ HandleFetched(h.id, h.ms)
  BY DEF Fetch
<1>. HIDE DEF h
<1>4. /\ ref_ms' = Ref[h.id]
      /\ lru_msg' = Put(lru_msg, [id |-> h.id, est |-> Ref[h.id]])
      /\ lru_msg_ref' = Put(lru_msg_ref, [id |-> h.id])
      /\ persisting' = {h.id}
      /\ Solidifiers(PushOrClose(h.id, h.ms) \cup MilestoneEvents(h.id), owed)
      /\ est_ms' = est_ms /\ pending_requests' = pending_requests
      /\ capacity' = capacity /\ feed' = feed /\ topologies' = topologies /\ asked' = asked
  BY <1>3 DEF HandleFetched, Answering, env
<1>5. \A a : a.id = h.id /\ a.ms = h.ms =>
        \E e \in PushOrClose(h.id, h.ms) \cup MilestoneEvents(h.id) : AnswerTo(e, a)
  BY Answers
<1>6. /\ InboxesOK' /\ LoadExact' /\ owed' \subseteq asked' /\ h.id \in Ids
      /\ \A a \in owed' : Waits(a, pending_requests', queue')
  <2>1. h = Head(queue[r])
    BY DEF h
  <2> QED BY <1>1, <1>2, <1>3, <1>4, <1>5, <2>1, NextAnswering
<1>7. ref_ms' \in Nat
  BY <1>4, <1>6, CollectorAssumption
<1>8. CachesOK'
  <2>1. [id |-> h.id, est |-> Ref[h.id]] \in MsgEntry /\ [id |-> h.id] \in RefEntry
    BY <1>4, <1>6, <1>7 DEF MsgEntry, RefEntry
  <2>2. CacheStep(lru_msg, lru_msg', MsgEntry) /\ CacheStep(lru_msg_ref, lru_msg_ref', RefEntry)
    BY <1>4, <2>1 DEF CacheStep
  <2> QED BY <1>4, <2>2, Parts, NextCaches
<1>9. HeldOK' /\ FeedOK'
  BY <1>4, Parts DEF HeldOK, FeedOK
<1>10. capacity' \in Capacities /\ est_ms' \in Nat /\ topologies' \subseteq Topologies
       /\ asked' \subseteq Asked /\ persisting' \subseteq Ids
  BY <1>4, <1>6, Parts
<1> QED BY <1>6, <1>7, <1>8, <1>9, <1>10, Whole

LEMMA NextFetchFails ==
  ASSUME CollectorInv, NEW r \in Requesters, FetchFails(r)
  PROVE  CollectorInv'
<1>. DEFINE h == Head(queue[r])
<1>1. /\ Answering(r) /\ processed_count' = [processed_count EXCEPT ![r] = @ - 1]
      /\ api_endpoints' = [api_endpoints EXCEPT ![r] = Rotated(@, Retries)]
      /\ HandleNotFetched(h.ms)
  BY DEF FetchFails
<1>. HIDE DEF h
<1>2. /\ Solidifiers({Failure(h.ms)}, owed) /\ persisting' = {}
      /\ ref_ms' = ref_ms /\ lru_msg' = lru_msg /\ lru_msg_ref' = lru_msg_ref
      /\ est_ms' = est_ms /\ pending_requests' = pending_requests
      /\ capacity' = capacity /\ feed' = feed /\ topologies' = topologies /\ asked' = asked
  BY <1>1 DEF HandleNotFetched, Answering, env, caches
<1>3. \A a : a.id = h.id /\ a.ms = h.ms => \E e \in {Failure(h.ms)} : AnswerTo(e, a)
  BY Answers
<1>4. /\ InboxesOK' /\ LoadExact' /\ owed' \subseteq asked'
      /\ \A a \in owed' : Waits(a, pending_requests', queue')
  <2>1. h = Head(queue[r])
    BY DEF h
  <2> QED BY <1>1, <1>2, <1>3, <2>1, RetriesType, NextAnswering
<1>5. CachesOK'
  BY <1>2, Parts, NextCaches DEF CacheStep
<1>6. HeldOK' /\ FeedOK'
  BY <1>2, Parts DEF HeldOK, FeedOK
<1>7. capacity' \in Capacities /\ est_ms' \in Nat /\ ref_ms' \in Nat /\ topologies' \subseteq Topologies
      /\ asked' \subseteq Asked /\ persisting' \subseteq Ids
  BY <1>2, Parts
<1> QED BY <1>4, <1>5, <1>6, <1>7, Whole

-----------------------------------------------------------------------------
(* What the network delivers keeps the invariant.                          *)

\* Unless something is requested, the inboxes stay as they are.
LEMMA Unmoved ==
  ASSUME CollectorInv, UNCHANGED requesters
  PROVE  /\ InboxesOK' /\ LoadExact'
         /\ \A a : Waits(a, pending_requests, queue) => Waits(a, pending_requests, queue')
<1>1. processed_count' = processed_count /\ queue' = queue /\ api_endpoints' = api_endpoints
  BY DEF requesters
<1>2. InboxesOK'
  BY <1>1, Parts DEF InboxesOK
<1>3. LoadExact'
  BY <1>1, Parts DEF LoadExact
<1> QED BY <1>1, <1>2, <1>3

\* A delivery uses up one that was left.
LEMMA Delivered ==
  ASSUME FeedOK, NEW id \in Ids,
         \/ feed.message[id] > 0 /\ feed' = [feed EXCEPT !.message[id] = @ - 1]
         \/ feed.metadata[id] > 0 /\ feed' = [feed EXCEPT !.metadata[id] = @ - 1]
  PROVE  FeedOK'
<1>1. feed \in [message : [Ids -> Nat], metadata : [Ids -> Nat]]
  BY DEF FeedOK
<1>2. CASE feed.message[id] > 0 /\ feed' = [feed EXCEPT !.message[id] = @ - 1]
  <2>1. [feed.message EXCEPT ![id] = @ - 1] \in [Ids -> Nat]
    BY <1>1, <1>2
  <2>2. feed' \in [message : [Ids -> Nat], metadata : [Ids -> Nat]]
    BY <1>1, <1>2, <2>1
  <2> QED BY <2>2 DEF FeedOK
<1>3. CASE feed.metadata[id] > 0 /\ feed' = [feed EXCEPT !.metadata[id] = @ - 1]
  <2>1. [feed.metadata EXCEPT ![id] = @ - 1] \in [Ids -> Nat]
    BY <1>1, <1>3
  <2>2. feed' \in [message : [Ids -> Nat], metadata : [Ids -> Nat]]
    BY <1>1, <1>3, <2>1
  <2> QED BY <2>2 DEF FeedOK
<1> QED BY <1>2, <1>3

LEMMA NextMessage ==
  ASSUME CollectorInv, NEW id \in Ids, HandleMessage(id)
  PROVE  CollectorInv'
<1>1. /\ feed.message[id] > 0 /\ feed' = [feed EXCEPT !.message[id] = @ - 1]
      /\ capacity' = capacity /\ est_ms' = est_ms /\ ref_ms' = ref_ms
      /\ pending_requests' = pending_requests /\ UNCHANGED requesters
      /\ topologies' = topologies /\ asked' = asked /\ owed' = owed
  BY DEF HandleMessage
<1>2. CacheStep(lru_msg, lru_msg', MsgEntry) /\ CacheStep(lru_msg_ref, lru_msg_ref', RefEntry)
      /\ persisting' \subseteq Ids
  <2>1. CASE Cached(lru_msg, id)
    <3>1. lru_msg' = Get(lru_msg, id) /\ lru_msg_ref' = lru_msg_ref /\ persisting' = {}
      BY <2>1 DEF HandleMessage
    <3> QED BY <3>1 DEF CacheStep
  <2>2. CASE ~Cached(lru_msg, id)
    <3>1. /\ lru_msg' = Put(lru_msg, [id |-> id, est |-> est_ms])
          /\ lru_msg_ref' = Get(lru_msg_ref, id)
          /\ persisting' = IF Cached(lru_msg_ref, id) THEN {id} ELSE {}
      BY <2>2 DEF HandleMessage
    <3>2. [id |-> id, est |-> est_ms] \in MsgEntry
      BY Parts DEF MsgEntry
    <3> QED BY <3>1, <3>2 DEF CacheStep
  <2> QED BY <2>1, <2>2
<1>3. CachesOK'
  BY <1>1, <1>2, Parts, NextCaches
<1>4. FeedOK'
  BY <1>1, Parts, Delivered
<1>5. HeldOK'
  BY <1>1, Parts DEF HeldOK
<1>6. InboxesOK' /\ LoadExact' /\ \A a \in owed' : Waits(a, pending_requests', queue')
  BY <1>1, Parts, Unmoved
<1>7. capacity' \in Capacities /\ est_ms' \in Nat /\ ref_ms' \in Nat /\ topologies' \subseteq Topologies
      /\ asked' \subseteq Asked /\ owed' \subseteq asked'
  BY <1>1, Parts
<1> QED BY <1>2, <1>3, <1>4, <1>5, <1>6, <1>7, Whole

\* The greater of two milestones is one.
LEMMA MaxType ==
  ASSUME NEW m \in Nat, NEW n \in Nat
  PROVE  Max({m, n}) \in Nat
<1>1. \E x \in {m, n} : \A y \in {m, n} : x >= y
  OBVIOUS
<1>2. Max({m, n}) \in {m, n}
  BY <1>1 DEF Max
<1> QED BY <1>2

\* The requests of a finite set of messages are finitely many.
LEMMA RequestsAre ==
  ASSUME NEW O, O \subseteq Ids, IsFiniteSet(O), NEW p, \A o \in O : p[o] \in Nat
  PROVE  /\ IsFiniteSet({Request(o, p[o]) : o \in O})
         /\ {Request(o, p[o]) : o \in O} \subseteq [type : {"request"}, id : Ids, ms : Nat]
<1>. DEFINE R == {Request(o, p[o]) : o \in O}
            f == [o \in O |-> Request(o, p[o])]
<1>1. f \in Surjection(O, R)
  BY DEF Surjection
<1>2. IsFiniteSet(R)
  <2>. HIDE DEF f, R
  <2> QED BY <1>1, FS_Surjection
<1>3. \A o \in O : Request(o, p[o]) \in [type : {"request"}, id : Ids, ms : Nat]
  BY DEF Request
<1> QED BY <1>2, <1>3

\* The held request of message id is answered by its metadata, and the requests
\* for earlier milestones are sent.
LEMMA NextHeld ==
  ASSUME CollectorInv, NEW id \in Ids, HandleNewReference(id), asked' = asked
  PROVE  /\ HeldOK' /\ InboxesOK' /\ LoadExact' /\ owed' \subseteq asked'
         /\ \A a \in owed' : Waits(a, pending_requests', queue')
<1>. DEFINE ms == Ref[id]
            others == Kept(pending_requests, {id})
            due == Due(others, ms)
            R == {Request(o, others[o]) : o \in due}
            answer == IF id \in DOMAIN pending_requests
                      THEN PushOrClose(id, pending_requests[id]) ELSE {}
<1>1. pending_requests' = Kept(others, due) /\ Send(R)
  BY DEF HandleNewReference
<1>2. PICK events : answer \subseteq events /\ Solidifiers(events, owed)
  BY DEF HandleNewReference
<1>3. /\ pending_requests \in [DOMAIN pending_requests -> Nat]
      /\ DOMAIN pending_requests \subseteq Ids /\ IsFiniteSet(DOMAIN pending_requests)
  BY Parts DEF HeldOK
<1>4. /\ DOMAIN others = DOMAIN pending_requests \ {id}
      /\ \A o \in DOMAIN others : others[o] = pending_requests[o] /\ others[o] \in Nat
  BY <1>3 DEF Kept
<1>5. /\ DOMAIN Kept(others, due) = DOMAIN others \ due
      /\ \A o \in DOMAIN others \ due : Kept(others, due)[o] = others[o]
      /\ Kept(others, due) = [o \in DOMAIN others \ due |-> others[o]]
  BY DEF Kept
<1>6. due \subseteq DOMAIN others
  BY DEF Due
<1>. HIDE DEF others, due
<1>7. HeldOK'
  <2>1. DOMAIN pending_requests' \subseteq DOMAIN pending_requests
    BY <1>1, <1>4, <1>5
  <2>2. IsFiniteSet(DOMAIN pending_requests')
    BY <1>3, <2>1, FS_Subset
  <2>3. pending_requests' \in [DOMAIN others \ due -> Nat]
    BY <1>1, <1>4, <1>5
  <2>4. pending_requests' \in [DOMAIN pending_requests' -> Nat]
    BY <1>1, <1>5, <2>3
  <2>5. DOMAIN pending_requests' \subseteq Ids
    BY <1>3, <2>1
  <2> QED BY <2>2, <2>4, <2>5 DEF HeldOK
<1>8. IsFiniteSet(R) /\ R \subseteq [type : {"request"}, id : Ids, ms : Nat]
  <2>1. due \subseteq Ids /\ IsFiniteSet(due) /\ \A o \in due : others[o] \in Nat
    <3>1. due \subseteq DOMAIN pending_requests
      BY <1>4, <1>6
    <3>2. IsFiniteSet(due)
      BY <1>3, <3>1, FS_Subset
    <3> QED BY <1>3, <1>4, <1>6, <3>1, <3>2
  <2> QED BY <2>1, RequestsAre
<1>9. /\ InboxesOK' /\ LoadExact' /\ Grow
      /\ \A x \in R : \E r \in Requesters : x \in ToSet(queue'[r])
  <2>1. InboxesOK /\ LoadExact
    BY Parts
  <2>. HIDE DEF R
  <2> QED BY <1>1, <1>8, <2>1, SendIs
<1>10. owed' \subseteq owed /\ \A a \in owed' : \A e \in answer : ~AnswerTo(e, a)
  BY <1>2, StillOwed
<1>11. ASSUME NEW a \in owed' PROVE Waits(a, pending_requests', queue')
  <2>1. Waits(a, pending_requests, queue)
    BY <1>10, Parts
  <2>2. CASE a.id \in DOMAIN pending_requests /\ pending_requests[a.id] = a.ms
    <3>1. a.id # id
      <4>. SUFFICES ASSUME a.id = id PROVE FALSE
        OBVIOUS
      <4>1. \E e \in PushOrClose(id, pending_requests[id]) : AnswerTo(e, a)
        BY <2>2, Answers
      <4>2. answer = PushOrClose(id, pending_requests[id])
        BY <2>2
      <4> QED BY <1>10, <4>1, <4>2
    <3>2. a.id \in DOMAIN others /\ others[a.id] = a.ms
      BY <1>4, <2>2, <3>1
    <3>3. CASE a.id \in due
      <4>1. Request(a.id, a.ms) \in R
        BY <3>2, <3>3
      <4> QED BY <1>9, <4>1 DEF Waits
    <3>4. CASE a.id \notin due
      BY <1>1, <1>5, <3>2, <3>4 DEF Waits
    <3> QED BY <3>3, <3>4
  <2>3. CASE \E r \in Requesters : Request(a.id, a.ms) \in ToSet(queue[r])
    BY <1>9, <2>3 DEF Waits, Grow
  <2> QED BY <2>1, <2>2, <2>3 DEF Waits
<1>12. owed' \subseteq asked'
  BY <1>10, Parts
<1> QED BY <1>7, <1>9, <1>11, <1>12

LEMMA NextReferenced ==
  ASSUME CollectorInv, NEW id \in Ids, HandleReferenced(id)
  PROVE  CollectorInv'
<1>1. /\ feed.metadata[id] > 0 /\ feed' = [feed EXCEPT !.metadata[id] = @ - 1]
      /\ ref_ms' = Ref[id] /\ est_ms' = Max({est_ms, Ref[id] + 1})
      /\ capacity' = capacity /\ topologies' = topologies /\ asked' = asked
  BY DEF HandleReferenced
<1>2. Ref[id] \in Nat /\ Ref[id] + 1 \in Nat
  BY CollectorAssumption
<1>3. est_ms' \in Nat /\ ref_ms' \in Nat
  BY <1>1, <1>2, MaxType, Parts
<1>4. FeedOK'
  BY <1>1, Parts, Delivered
<1>5. /\ HeldOK' /\ InboxesOK' /\ LoadExact' /\ owed' \subseteq asked'
      /\ \A a \in owed' : Waits(a, pending_requests', queue')
      /\ CacheStep(lru_msg, lru_msg', MsgEntry) /\ CacheStep(lru_msg_ref, lru_msg_ref', RefEntry)
      /\ persisting' \subseteq Ids
  <2>1. CASE Cached(lru_msg_ref, id)
    <3>1. /\ lru_msg_ref' = Get(lru_msg_ref, id) /\ lru_msg' = lru_msg
          /\ pending_requests' = pending_requests /\ UNCHANGED requesters /\ owed' = owed
          /\ persisting' = {}
      BY <2>1 DEF HandleReferenced
    <3>2. HeldOK'
      BY <3>1, Parts DEF HeldOK
    <3>3. InboxesOK' /\ LoadExact' /\ \A a \in owed' : Waits(a, pending_requests', queue')
      BY <3>1, Parts, Unmoved
    <3>4. CacheStep(lru_msg, lru_msg', MsgEntry) /\ CacheStep(lru_msg_ref, lru_msg_ref', RefEntry)
      BY <3>1 DEF CacheStep
    <3> QED BY <1>1, <3>1, <3>2, <3>3, <3>4, Parts
  <2>2. CASE ~Cached(lru_msg_ref, id)
    <3>1. HandleNewReference(id)
      BY <2>2 DEF HandleReferenced
    <3>2. /\ lru_msg_ref' = Put(lru_msg_ref, [id |-> id])
          /\ lru_msg' = IF Cached(lru_msg, id) THEN Put(lru_msg, [id |-> id, est |-> Ref[id]])
                        ELSE lru_msg
      BY <3>1 DEF HandleNewReference
    <3>3. persisting' = {id} \/ persisting' = {}
      BY <3>1, Zenon DEF HandleNewReference
    <3>4. [id |-> id, est |-> Ref[id]] \in MsgEntry /\ [id |-> id] \in RefEntry
      BY <1>2 DEF MsgEntry, RefEntry
    <3>5. CacheStep(lru_msg, lru_msg', MsgEntry) /\ CacheStep(lru_msg_ref, lru_msg_ref', RefEntry)
      BY <3>2, <3>4 DEF CacheStep
    <3>6. persisting' \subseteq Ids
      BY <3>3
    <3> QED BY <1>1, <3>1, <3>5, <3>6, NextHeld
  <2> QED BY <2>1, <2>2
<1>6. CachesOK'
  BY <1>1, <1>5, Parts, NextCaches
<1>7. capacity' \in Capacities /\ topologies' \subseteq Topologies /\ asked' \subseteq Asked
  BY <1>1, Parts
<1> QED BY <1>3, <1>4, <1>5, <1>6, <1>7, Whole

-----------------------------------------------------------------------------
(* The asks of the solidifiers keep the invariant.                         *)

\* A request is held for the earlier of two milestones, and the later is closed.
LEMMA NextAskHeld ==
  ASSUME CollectorInv, NEW a \in Asked, AskHeld(a), asked' = asked \cup {a}
  PROVE  /\ HeldOK' /\ InboxesOK' /\ LoadExact' /\ owed' \subseteq asked'
         /\ ref_ms' = ref_ms /\ persisting' = {}
         /\ \A b \in owed' : Waits(b, pending_requests', queue')
<1>. DEFINE held == a.id \in DOMAIN pending_requests
            old == pending_requests[a.id]
            D == DOMAIN pending_requests \cup {a.id}
            earlier == held /\ old < a.ms
<1>1. /\ pending_requests' = [id \in D |-> IF id # a.id \/ earlier THEN pending_requests[id] ELSE a.ms]
      /\ Solidifiers(IF ~held THEN {} ELSE {CloseEvent(a.id, IF old < a.ms THEN a.ms ELSE old)},
                     owed \cup {a})
      /\ UNCHANGED requesters /\ ref_ms' = ref_ms /\ persisting' = {}
  BY DEF AskHeld
<1>2. /\ pending_requests \in [DOMAIN pending_requests -> Nat]
      /\ DOMAIN pending_requests \subseteq Ids /\ IsFiniteSet(DOMAIN pending_requests)
      /\ a.id \in Ids /\ a.ms \in Nat
  BY Parts DEF HeldOK, Asked
<1>3. /\ DOMAIN pending_requests' = D
      /\ \A id \in D : pending_requests'[id] = IF id # a.id \/ earlier THEN pending_requests[id] ELSE a.ms
  BY <1>1
<1>4. HeldOK'
  <2>1. IsFiniteSet(D) /\ D \subseteq Ids
    BY <1>2, FS_AddElement
  <2>2. \A id \in D : (IF id # a.id \/ earlier THEN pending_requests[id] ELSE a.ms) \in Nat
    BY <1>2
  <2>3. pending_requests' \in [D -> Nat]
    BY <1>1, <2>2
  <2> QED BY <1>3, <2>1, <2>3 DEF HeldOK
<1>5. InboxesOK' /\ LoadExact'
      /\ \A b : Waits(b, pending_requests, queue) => Waits(b, pending_requests, queue')
  BY <1>1, Unmoved
<1>6. /\ owed' \subseteq owed \cup {a}
      /\ held => \A b \in owed' : ~AnswerTo(CloseEvent(a.id, IF old < a.ms THEN a.ms ELSE old), b)
  <2>. HIDE DEF held, old
  <2> QED BY <1>1, StillOwed
<1>7. ASSUME NEW b \in owed' PROVE Waits(b, pending_requests', queue')
  <2>1. CASE b.id = a.id /\ b.ms = a.ms
    <3>1. ~earlier
      BY <1>6, <2>1, Answers
    <3> QED BY <1>3, <2>1, <3>1 DEF Waits
  <2>2. CASE ~(b.id = a.id /\ b.ms = a.ms)
    <3>1. b \in owed
      BY <1>6, <2>2
    <3>2. Waits(b, pending_requests, queue)
      BY <3>1, Parts
    <3>3. CASE b.id \in DOMAIN pending_requests /\ pending_requests[b.id] = b.ms
      <4>1. CASE b.id # a.id
        BY <1>3, <3>3, <4>1 DEF Waits
      <4>2. CASE b.id = a.id
        <5>1. held /\ old = b.ms
          BY <3>3, <4>2
        <5>2. earlier
          BY <1>6, <4>2, <5>1, Answers
        <5> QED BY <1>3, <4>2, <5>1, <5>2 DEF Waits
      <4> QED BY <4>1, <4>2
    <3>4. CASE \E r \in Requesters : Request(b.id, b.ms) \in ToSet(queue[r])
      BY <1>1, <3>4 DEF Waits, requesters
    <3> QED BY <3>2, <3>3, <3>4 DEF Waits
  <2> QED BY <2>1, <2>2
<1>8. owed' \subseteq asked'
  BY <1>6, Parts
<1> QED BY <1>1, <1>4, <1>5, <1>7, <1>8

\* What is cached is answered at once.
LEMMA NextAskCached ==
  ASSUME CollectorInv, NEW a \in Asked, AskCached(a), asked' = asked \cup {a}
  PROVE  /\ HeldOK' /\ InboxesOK' /\ LoadExact' /\ owed' \subseteq asked'
         /\ ref_ms' \in Nat /\ persisting' \subseteq Ids
         /\ \A b \in owed' : Waits(b, pending_requests', queue')
<1>1. /\ ref_ms' = (IF Ref[a.id] = a.ms /\ a.by = "Syncer" THEN a.ms ELSE ref_ms)
      /\ persisting' = (IF Ref[a.id] = a.ms /\ a.by = "Syncer" THEN {a.id} ELSE {})
      /\ \E events : PushOrClose(a.id, a.ms) \subseteq events /\ Solidifiers(events, owed \cup {a})
      /\ UNCHANGED requesters /\ pending_requests' = pending_requests
  BY DEF AskCached
<1>2. a.id \in Ids /\ a.ms \in Nat
  BY DEF Asked
<1>3. owed' \subseteq owed \cup {a} /\ a \notin owed'
  BY <1>1, StillOwed, Answers
<1>4. InboxesOK' /\ LoadExact' /\ \A b \in owed' : Waits(b, pending_requests', queue')
  BY <1>1, <1>3, Parts, Unmoved
<1>5. HeldOK'
  BY <1>1, Parts DEF HeldOK
<1>6. ref_ms' \in Nat /\ persisting' \subseteq Ids
  BY <1>1, <1>2, Parts
<1> QED BY <1>3, <1>4, <1>5, <1>6, Parts

\* A request is in an inbox.
LEMMA NextAskRequested ==
  ASSUME CollectorInv, NEW a \in Asked, AskRequested(a), asked' = asked \cup {a}
  PROVE  /\ HeldOK' /\ InboxesOK' /\ LoadExact' /\ owed' \subseteq asked'
         /\ ref_ms' = ref_ms /\ persisting' = {}
         /\ \A b \in owed' : Waits(b, pending_requests', queue')
<1>1. /\ Send({Request(a.id, a.ms)}) /\ owed' = owed \cup {a} /\ persisting' = {}
      /\ pending_requests' = pending_requests /\ ref_ms' = ref_ms
  BY DEF AskRequested
<1>2. {Request(a.id, a.ms)} \subseteq [type : {"request"}, id : Ids, ms : Nat]
      /\ IsFiniteSet({Request(a.id, a.ms)})
  <2>1. Request(a.id, a.ms) \in [type : {"request"}, id : Ids, ms : Nat]
    BY DEF Asked, Request
  <2>. HIDE DEF Request
  <2>2. IsFiniteSet({Request(a.id, a.ms)})
    BY FS_Singleton
  <2> QED BY <2>1, <2>2
<1>3. /\ InboxesOK' /\ LoadExact' /\ Grow
      /\ \E r \in Requesters : Request(a.id, a.ms) \in ToSet(queue'[r])
  <2>1. InboxesOK /\ LoadExact
    BY Parts
  <2>2. /\ InboxesOK' /\ LoadExact' /\ Grow
        /\ \A x \in {Request(a.id, a.ms)} : \E r \in Requesters : x \in ToSet(queue'[r])
    BY <1>1, <1>2, <2>1, SendIs
  <2> QED BY <2>2
<1>4. ASSUME NEW b \in owed' PROVE Waits(b, pending_requests', queue')
  <2>1. CASE b = a
    BY <1>3, <2>1 DEF Waits
  <2>2. CASE b \in owed
    <3>1. Waits(b, pending_requests, queue)
      BY <2>2, Parts
    <3> QED BY <1>1, <1>3, <3>1 DEF Waits, Grow
  <2> QED BY <1>1, <2>1, <2>2
<1>5. HeldOK'
  BY <1>1, Parts DEF HeldOK
<1> QED BY <1>1, <1>3, <1>4, <1>5, Parts

LEMMA NextAsk ==
  ASSUME CollectorInv, NEW a \in Asks, HandleAsk(a)
  PROVE  CollectorInv'
<1>1. /\ asked' = asked \cup {a} /\ lru_msg' = Get(lru_msg, a.id)
      /\ lru_msg_ref' = Get(lru_msg_ref, a.id) \/ lru_msg_ref' = lru_msg_ref
      /\ AskCached(a) \/ AskHeld(a) \/ AskRequested(a)
      /\ capacity' = capacity /\ est_ms' = est_ms /\ feed' = feed /\ topologies' = topologies
  BY Zenon DEF HandleAsk
<1>2. a \in Asked /\ a.id \in Ids
  BY CollectorAssumption DEF Asked
<1>3. /\ HeldOK' /\ InboxesOK' /\ LoadExact' /\ owed' \subseteq asked'
      /\ ref_ms' \in Nat /\ persisting' \subseteq Ids
      /\ \A b \in owed' : Waits(b, pending_requests', queue')
  <2>1. CASE AskCached(a)
    BY <1>1, <1>2, <2>1, NextAskCached
  <2>2. CASE AskHeld(a)
    BY <1>1, <1>2, <2>2, Parts, NextAskHeld
  <2>3. CASE AskRequested(a)
    BY <1>1, <1>2, <2>3, Parts, NextAskRequested
  <2> QED BY <1>1, <2>1, <2>2, <2>3
<1>4. CachesOK'
  <2>1. CacheStep(lru_msg, lru_msg', MsgEntry) /\ CacheStep(lru_msg_ref, lru_msg_ref', RefEntry)
    BY <1>1, <1>2 DEF CacheStep
  <2> QED BY <1>1, <2>1, Parts, NextCaches
<1>5. FeedOK'
  BY <1>1, Parts DEF FeedOK
<1>6. /\ capacity' \in Capacities /\ est_ms' \in Nat /\ topologies' \subseteq Topologies
      /\ asked' \subseteq Asked
  BY <1>1, <1>2, Parts
<1> QED BY <1>3, <1>4, <1>5, <1>6, Whole

LEMMA NextAskMilestone ==
  ASSUME CollectorInv, NEW ms \in Milestones, HandleAskMilestone(ms)
  PROVE  CollectorInv'
<1>. DEFINE a == [id |-> MilestoneOf[ms], ms |-> ms, by |-> "Syncer"]
<1>1. a \in Asked
  <2>1. MilestoneOf[ms] \in Ids /\ Ref[MilestoneOf[ms]] = ms /\ Ref \in [Ids -> Nat \ {0}]
    BY CollectorAssumption
  <2>2. ms \in Nat
    BY <2>1
  <2> QED BY <2>1, <2>2 DEF Asked
<1>2. /\ asked' = asked \cup {a} /\ AskRequested(a)
      /\ capacity' = capacity /\ est_ms' = est_ms /\ lru_msg' = lru_msg
      /\ lru_msg_ref' = lru_msg_ref /\ feed' = feed /\ topologies' = topologies
  BY DEF HandleAskMilestone
<1>. HIDE DEF a
<1>3. /\ HeldOK' /\ InboxesOK' /\ LoadExact' /\ owed' \subseteq asked'
      /\ ref_ms' = ref_ms /\ persisting' = {}
      /\ \A b \in owed' : Waits(b, pending_requests', queue')
  BY <1>1, <1>2, NextAskRequested
<1>4. CachesOK'
  BY <1>2, Parts, NextCaches DEF CacheStep
<1>5. FeedOK'
  BY <1>2, Parts DEF FeedOK
<1>6. /\ capacity' \in Capacities /\ est_ms' \in Nat /\ ref_ms' \in Nat
      /\ topologies' \subseteq Topologies /\ asked' \subseteq Asked /\ persisting' \subseteq Ids
  BY <1>1, <1>2, <1>3, Parts
<1> QED BY <1>3, <1>4, <1>5, <1>6, Whole

-----------------------------------------------------------------------------
(* The invariant.                                                          *)

LEMMA InitInv ==
  ASSUME Init
  PROVE  CollectorInv
<1>1. /\ capacity \in Capacities /\ est_ms = 0 /\ ref_ms = 0 /\ lru_msg = <<>> /\ lru_msg_ref = <<>>
      /\ pending_requests = <<>> /\ processed_count = [r \in Requesters |-> 0]
      /\ queue = [r \in Requesters |-> <<>>] /\ api_endpoints = [r \in Requesters |-> ApiEndpoints]
      /\ feed = Deliveries /\ topologies = Topologies /\ asked = {} /\ owed = {} /\ persisting = {}
  BY DEF Init
<1>2. capacity \in Nat \ {0}
  BY <1>1, CollectorAssumption
<1>3. CachesOK
  <2>1. ASSUME NEW E PROVE IsCache(<<>>, E)
    <3>1. <<>> \in Seq(E) /\ Len(<<>>) = 0 /\ DOMAIN <<>> = {}
      OBVIOUS
    <3> QED BY <1>2, <3>1 DEF IsCache
  <2> QED BY <1>1, <2>1 DEF CachesOK
<1>4. HeldOK
  <2>1. DOMAIN <<>> = {} /\ <<>> \in [{} -> Nat]
    OBVIOUS
  <2>2. IsFiniteSet({})
    BY FS_EmptySet
  <2> QED BY <1>1, <2>1, <2>2 DEF HeldOK
<1>5. InboxesOK
  BY <1>1, CollectorAssumption DEF InboxesOK
<1>6. FeedOK
  BY <1>1, CollectorAssumption DEF FeedOK
<1>7. TypeOK
  BY <1>1, <1>3, <1>4, <1>5, <1>6, TypeIs
<1>8. LoadExact
  <2>1. Requested(<<>>) = {}
    BY DEF Requested
  <2>2. Load(<<>>) = 0
    BY <2>1, FS_EmptySet DEF Load
  <2> QED BY <1>1, <2>2, LoadIs
<1>9. NobodyForgotten
  BY <1>1 DEF NobodyForgotten
<1> QED BY <1>7, <1>8, <1>9 DEF CollectorInv

LEMMA NextInv ==
  ASSUME CollectorInv, [Next]_vars
  PROVE  CollectorInv'
<1>1. ASSUME NEW id \in Ids, HandleMessage(id) PROVE CollectorInv'
  BY <1>1, NextMessage
<1>2. ASSUME NEW id \in Ids, HandleReferenced(id) PROVE CollectorInv'
  BY <1>2, NextReferenced
<1>3. ASSUME NEW a \in Asks, HandleAsk(a) PROVE CollectorInv'
  BY <1>3, NextAsk
<1>4. ASSUME NEW ms \in Milestones, HandleAskMilestone(ms) PROVE CollectorInv'
  BY <1>4, NextAskMilestone
<1>5. ASSUME NEW r \in Requesters, Requester(r) PROVE CollectorInv'
  <2>1. CASE Fetch(r)
    BY <2>1, NextFetch
  <2>2. CASE FetchFails(r)
    BY <2>2, NextFetchFails
  <2>3. CASE Topology(r)
    BY <2>3, NextTopology
  <2> QED BY <1>5, <2>1, <2>2, <2>3 DEF Requester
<1>6. ASSUME NEW t \in Topologies, ChangeTopology(t) PROVE CollectorInv'
  BY <1>6, NextChangeTopology
<1>7. CASE UNCHANGED vars
  <2>1. /\ capacity' = capacity /\ est_ms' = est_ms /\ ref_ms' = ref_ms /\ lru_msg' = lru_msg
        /\ lru_msg_ref' = lru_msg_ref /\ pending_requests' = pending_requests
        /\ UNCHANGED requesters /\ feed' = feed /\ topologies' = topologies
        /\ asked' = asked /\ owed' = owed /\ persisting' = persisting
    BY <1>7 DEF vars, caches, env
  <2>2. CachesOK'
    BY <2>1, Parts, NextCaches DEF CacheStep
  <2>3. HeldOK' /\ FeedOK'
    BY <2>1, Parts DEF HeldOK, FeedOK
  <2>4. InboxesOK' /\ LoadExact' /\ \A a \in owed' : Waits(a, pending_requests', queue')
    BY <2>1, Parts, Unmoved
  <2>5. /\ capacity' \in Capacities /\ est_ms' \in Nat /\ ref_ms' \in Nat
        /\ topologies' \subseteq Topologies /\ asked' \subseteq Asked
        /\ owed' \subseteq asked' /\ persisting' \subseteq Ids
    BY <2>1, Parts
  <2> QED BY <2>2, <2>3, <2>4, <2>5, Whole
<1>8. Next \/ UNCHANGED vars
  OBVIOUS
<1> QED BY <1>1, <1>2, <1>3, <1>4, <1>5, <1>6, <1>7, <1>8 DEF Next

\* However the network delivers messages and metadata, whatever the caches drop,
\* whichever endpoints fail: the counted loads are exact, so no count underflows
\* (requester/mod.rs:66), and whoever waits for a message has a request for it held
\* or at a requester (collector/event_loop.rs:186).
THEOREM Served == Spec => []CollectorInv
<1>1. Init => CollectorInv
  BY InitInv
<1>2. CollectorInv /\ [Next]_vars => CollectorInv'
  BY NextInv
<1> QED BY <1>1, <1>2, PTL DEF Spec

-----------------------------------------------------------------------------
(* What the syncer asked for is inserted when it is answered.              *)

Inserts ==
  \A a \in asked' : (a.by = "Syncer" /\ FullMessage(a.id) \in sent' /\ Ref[a.id] = a.ms
                       /\ a \in owed \cup (asked' \ asked)) => a.id \in persisting'

\* One message to the solidifiers is that with its id.
LEMMA MessageIs ==
  ASSUME NEW i, NEW id
  PROVE  /\ FullMessage(i) \in MilestoneEvents(id) => FALSE
         /\ \A ms : FullMessage(i) \in PushOrClose(id, ms) => i = id /\ Ref[id] = ms
         /\ FullMessage(i) = FullMessage(id) => i = id
         /\ \A ms : FullMessage(i) # Failure(ms) /\ FullMessage(i) # CloseEvent(id, ms)
<1>1. /\ FullMessage(i).type = "message" /\ FullMessage(i).id = i
      /\ FullMessage(id).id = id
      /\ \A ms : Failure(ms).type = "err" /\ CloseEvent(id, ms).type = "close"
      /\ MilestoneEvent(id).type = "milestone"
  BY DEF FullMessage, Failure, CloseEvent, MilestoneEvent
<1>2. FullMessage(i) \in MilestoneEvents(id) => FullMessage(i) = MilestoneEvent(id)
  BY DEF MilestoneEvents
<1>3. \A ms : FullMessage(i) \in PushOrClose(id, ms) =>
        FullMessage(i) = (IF Ref[id] = ms THEN FullMessage(id) ELSE CloseEvent(id, ms))
  BY DEF PushOrClose
<1> QED BY <1>1, <1>2, <1>3

LEMMA FetchedInserts ==
  ASSUME NEW id, NEW ms, HandleFetched(id, ms) \/ HandleNewReference(id)
  PROVE  Inserts
<1>. SUFFICES ASSUME NEW i, FullMessage(i) \in sent' PROVE i \in persisting'
  BY DEF Inserts
<1>1. CASE HandleFetched(id, ms)
  <2>1. sent' = PushOrClose(id, ms) \cup MilestoneEvents(id) /\ persisting' = {id}
    BY <1>1 DEF HandleFetched, Solidifiers
  <2> QED BY <2>1, MessageIs
<1>2. CASE HandleNewReference(id)
  <2>. DEFINE held == id \in DOMAIN pending_requests
              known == Cached(lru_msg, id) \/ held
              answer == IF held THEN PushOrClose(id, pending_requests[id]) ELSE {}
  <2>1. /\ sent' = (answer \cup (IF Cached(lru_msg, id) THEN {FullMessage(id)} ELSE {})
                           \cup (IF known THEN MilestoneEvents(id) ELSE {}))
        /\ persisting' = IF known THEN {id} ELSE {}
    BY <1>2 DEF HandleNewReference, Solidifiers
  <2>2. i = id /\ known
    BY <2>1, MessageIs
  <2> QED BY <2>1, <2>2
<1> QED BY <1>1, <1>2

LEMMA AskInserts ==
  ASSUME CollectorInv, NEW b \in Asks \ asked, ForItsFlow(b), HandleAsk(b)
  PROVE  Inserts
<1>. SUFFICES ASSUME NEW a \in asked', a.by = "Syncer", FullMessage(a.id) \in sent',
                     Ref[a.id] = a.ms, a \in owed \cup (asked' \ asked)
              PROVE  a.id \in persisting'
  BY DEF Inserts
<1>1. asked' = asked \cup {b} /\ (AskCached(b) \/ AskHeld(b) \/ AskRequested(b))
  BY Zenon DEF HandleAsk
<1>2. CASE AskCached(b)
  <2>. DEFINE again == Ref[b.id] = b.ms /\ b.by = "Syncer"
  <2>1. /\ sent' = PushOrClose(b.id, b.ms) \cup (IF again THEN MilestoneEvents(b.id) ELSE {})
        /\ persisting' = IF again THEN {b.id} ELSE {}
    BY <1>2 DEF AskCached, Solidifiers
  <2>2. a.id = b.id /\ Ref[b.id] = b.ms
    BY <2>1, MessageIs
  <2>3. b.by = "Syncer"
    <3>1. CASE a = b
      BY <3>1
    <3>2. CASE a # b
      <4>1. a \in asked
        BY <1>1, <3>2, Parts
      <4>2. b.by # "Incoming"
        BY <2>2, <4>1 DEF ForItsFlow
      <4>3. b.by \in {"Incoming", "Syncer"}
        BY CollectorAssumption DEF Asked
      <4> QED BY <4>2, <4>3
    <3> QED BY <3>1, <3>2
  <2> QED BY <2>1, <2>2, <2>3
<1>3. CASE AskHeld(b)
  <2>1. sent' = {} \/ \E ms : sent' = {CloseEvent(b.id, ms)}
    BY <1>3, Zenon DEF AskHeld, Solidifiers
  <2>2. \A ms : FullMessage(a.id) # CloseEvent(b.id, ms)
    BY MessageIs
  <2> QED BY <2>1, <2>2
<1>4. CASE AskRequested(b)
  BY <1>4 DEF AskRequested
<1> QED BY <1>1, <1>2, <1>3, <1>4

LEMMA NextInserts ==
  ASSUME CollectorInv, Next
  PROVE  Inserts
<1>1. ASSUME NEW id \in Ids, HandleMessage(id) PROVE Inserts
  <2>1. sent' \subseteq MilestoneEvents(id)
    BY <1>1, Zenon DEF HandleMessage
  <2> QED BY <2>1, MessageIs DEF Inserts
<1>2. ASSUME NEW id \in Ids, HandleReferenced(id) PROVE Inserts
  <2>1. HandleNewReference(id) \/ sent' = {}
    BY <1>2, Zenon DEF HandleReferenced
  <2> QED BY <2>1, FetchedInserts DEF Inserts
<1>3. ASSUME NEW a \in Asks \ asked, ForItsFlow(a), HandleAsk(a) PROVE Inserts
  BY <1>3, AskInserts
<1>4. ASSUME NEW ms \in Milestones, HandleAskMilestone(ms) PROVE Inserts
  <2>1. sent' = {}
    BY <1>4 DEF HandleAskMilestone, AskRequested
  <2> QED BY <2>1 DEF Inserts
<1>5. ASSUME NEW r \in Requesters, Requester(r) PROVE Inserts
  <2>1. CASE Fetch(r)
    BY <2>1, FetchedInserts DEF Fetch
  <2>2. CASE FetchFails(r)
    <3>1. sent' = {Failure(Head(queue[r]).ms)}
      BY <2>2 DEF FetchFails, HandleNotFetched, Solidifiers
    <3> QED BY <3>1, MessageIs DEF Inserts
  <2>3. CASE Topology(r)
    BY <2>3 DEF Topology, Inserts
  <2> QED BY <1>5, <2>1, <2>2, <2>3 DEF Requester
<1>6. ASSUME NEW t \in Topologies, ChangeTopology(t) PROVE Inserts
  BY <1>6 DEF ChangeTopology, Inserts
<1> QED BY <1>1, <1>2, <1>3, <1>4, <1>5, <1>6, Zenon DEF Next

\* In every step that answers the syncer with a message it asked for, the message
\* is inserted by a worker that reports to the solidifier
\* (collector/event_loop.rs:256).
THEOREM AnswersAreInserted == Spec => InsertedForSyncer
<1>1. CollectorInv /\ [Next]_vars => [Inserts]_vars
  BY NextInserts
<1>2. Spec => []CollectorInv
  BY Served
<1> QED BY <1>1, <1>2, PTL DEF Spec, InsertedForSyncer, Inserts


-----------------------------------------------------------------------------
(* Nothing is forgotten: what is in the caches then.                       *)

\* No cache is too small for all messages.
Roomy == IsFiniteSet(Ids) /\ capacity >= Cardinality(Ids)

\* The cache t knows message id like the cache s.
SameFor(s, t, id) ==
  (Cached(t, id) <=> Cached(s, id)) /\ (Cached(s, id) => Entry(t, id) = Entry(s, id))

\* An entry is found under its id.
LEMMA EntryIs ==
  ASSUME NEW E, NEW s, IsCache(s, E), NEW k \in 1..Len(s)
  PROVE  Cached(s, s[k].id) /\ Entry(s, s[k].id) = s[k]
<1>1. Cached(s, s[k].id)
  BY DEF Cached
<1>2. Position(s, s[k].id) \in 1..Len(s) /\ s[Position(s, s[k].id)].id = s[k].id
  BY <1>1, PositionIs
<1>3. Position(s, s[k].id) = k
  BY <1>2 DEF IsCache
<1> QED BY <1>1, <1>3 DEF Entry

\* And a message that is found has an entry.
LEMMA CachedIs ==
  ASSUME NEW s, NEW id, Cached(s, id)
  PROVE  \E k \in 1..Len(s) : s[k].id = id /\ Entry(s, id) = s[k]
<1>1. Position(s, id) \in 1..Len(s) /\ s[Position(s, id)].id = id
  BY PositionIs
<1> QED BY <1>1 DEF Entry

\* What is left of a cache without a message.
LEMMA WithoutIs ==
  ASSUME NEW E, NEW s, IsCache(s, E), NEW x
  PROVE  /\ Without(s, x) \in Seq(E)
         /\ \A k \in 1..Len(Without(s, x)) : \E j \in 1..Len(s) : Without(s, x)[k] = s[j] /\ s[j].id # x
         /\ \A j \in 1..Len(s) : s[j].id # x => \E k \in 1..Len(Without(s, x)) : Without(s, x)[k] = s[j]
         /\ \A i, j \in 1..Len(Without(s, x)) : Without(s, x)[i].id = Without(s, x)[j].id => i = j
<1>. DEFINE w == Without(s, x)
<1>1. s \in Seq(E) /\ Len(s) \in Nat /\ DOMAIN s = 1..Len(s)
      /\ \A i, j \in 1..Len(s) : s[i].id = s[j].id => i = j
  BY DEF IsCache
<1>2. CASE Cached(s, x)
  <2>. DEFINE p == Position(s, x)
  <2>1. p \in 1..Len(s) /\ s[p].id = x /\ w = RemoveAt(s, p)
    BY <1>2, PositionIs DEF Without
  <2>. HIDE DEF p, w
  <2>2. /\ w \in Seq(E) /\ Len(w) = Len(s) - 1
        /\ \A k \in 1..(Len(s) - 1) : w[k] = IF k < p THEN s[k] ELSE s[k + 1]
    BY <1>1, <2>1, RemoveAtIs
  <2>. DEFINE at(k) == IF k < p THEN k ELSE k + 1
              to(j) == IF j < p THEN j ELSE j - 1
  <2>3. \A k \in 1..Len(w) : at(k) \in 1..Len(s) /\ at(k) # p /\ w[k] = s[at(k)]
    BY <1>1, <2>1, <2>2
  <2>4. \A i, j \in 1..Len(w) : at(i) = at(j) => i = j
    BY <2>1
  <2>5. \A j \in 1..Len(s) : j # p => to(j) \in 1..Len(w) /\ at(to(j)) = j
    BY <1>1, <2>1, <2>2
  <2>. HIDE DEF at, to
  <2>6. \A k \in 1..Len(w) : \E j \in 1..Len(s) : w[k] = s[j] /\ s[j].id # x
    <3>1. \A j \in 1..Len(s) : j # p => s[j].id # x
      BY <1>1, <2>1
    <3> QED BY <2>3, <3>1
  <2>7. \A j \in 1..Len(s) : s[j].id # x => \E k \in 1..Len(w) : w[k] = s[j]
    <3>1. \A j \in 1..Len(s) : s[j].id # x => j # p
      BY <2>1
    <3> QED BY <2>3, <2>5, <3>1
  <2>8. \A i, j \in 1..Len(w) : w[i].id = w[j].id => i = j
    BY <1>1, <2>3, <2>4
  <2> QED BY <2>2, <2>6, <2>7, <2>8 DEF w
<1>3. CASE ~Cached(s, x)
  <2>1. w = s
    BY <1>3 DEF Without
  <2>2. \A j \in 1..Len(s) : s[j].id # x
    BY <1>3 DEF Cached
  <2>. HIDE DEF w
  <2>3. /\ w \in Seq(E)
        /\ \A k \in 1..Len(w) : \E j \in 1..Len(s) : w[k] = s[j] /\ s[j].id # x
        /\ \A j \in 1..Len(s) : s[j].id # x => \E k \in 1..Len(w) : w[k] = s[j]
        /\ \A i, j \in 1..Len(w) : w[i].id = w[j].id => i = j
    BY <1>1, <2>1, <2>2
  <2> QED BY <2>3 DEF w
<1> QED BY <1>2, <1>3

\* As many messages as are in a sequence without repetition there are.
LEMMA NotMore ==
  ASSUME Roomy, NEW t \in Seq(MsgEntry) \cup Seq(RefEntry),
         \A i, j \in 1..Len(t) : t[i].id = t[j].id => i = j
  PROVE  Len(t) <= Cardinality(Ids)
<1>. DEFINE f == [k \in 1..Len(t) |-> t[k].id]
<1>1. Len(t) \in Nat /\ \A k \in 1..Len(t) : t[k].id \in Ids
  <2>0. \A e \in MsgEntry \cup RefEntry : e.id \in Ids
    BY DEF MsgEntry, RefEntry
  <2>1. CASE t \in Seq(MsgEntry)
    <3>1. Len(t) \in Nat /\ \A k \in 1..Len(t) : t[k] \in MsgEntry
      BY <2>1
    <3> QED BY <2>0, <3>1
  <2>2. CASE t \in Seq(RefEntry)
    <3>1. Len(t) \in Nat /\ \A k \in 1..Len(t) : t[k] \in RefEntry
      BY <2>2
    <3> QED BY <2>0, <3>1
  <2> QED BY <2>1, <2>2
<1>2. f \in Injection(1..Len(t), Ids)
  BY <1>1 DEF Injection, IsInjective
<1>3. Cardinality(1..Len(t)) <= Cardinality(Ids)
  <2>. HIDE DEF f
  <2> QED BY <1>2, FS_Injection DEF Roomy
<1>4. Cardinality(1..Len(t)) = Len(t)
  <2>1. 1 \in Int /\ Len(t) \in Int
    BY <1>1
  <2>2. Cardinality(1..Len(t)) = IF 1 > Len(t) THEN 0 ELSE Len(t) - 1 + 1
    BY <2>1, FS_Interval
  <2> QED BY <1>1, <2>2
<1> QED BY <1>3, <1>4

\* Putting an entry forgets nothing.
LEMMA PutIs ==
  ASSUME Roomy, capacity \in Nat, NEW E \in {MsgEntry, RefEntry}, NEW s, IsCache(s, E), NEW e \in E
  PROVE  /\ IsCache(Put(s, e), E)
         /\ Cached(Put(s, e), e.id) /\ Entry(Put(s, e), e.id) = e
         /\ \A i : i # e.id => SameFor(s, Put(s, e), i)
<1>. DEFINE w == Without(s, e.id)
            t == Append(w, e)
<1>1. /\ w \in Seq(E)
      /\ \A k \in 1..Len(w) : \E j \in 1..Len(s) : w[k] = s[j] /\ s[j].id # e.id
      /\ \A j \in 1..Len(s) : s[j].id # e.id => \E k \in 1..Len(w) : w[k] = s[j]
      /\ \A i, j \in 1..Len(w) : w[i].id = w[j].id => i = j
  BY WithoutIs
<1>9. Put(s, e) = IF Len(t) > capacity THEN Tail(t) ELSE t
  BY DEF Put
<1>. HIDE DEF w
<1>2. t \in Seq(E) /\ Len(t) = Len(w) + 1 /\ Len(w) \in Nat
      /\ \A k \in 1..Len(t) : t[k] = IF k = Len(t) THEN e ELSE w[k]
  BY <1>1
<1>. HIDE DEF t
<1>3. \A i, j \in 1..Len(t) : t[i].id = t[j].id => i = j
  <2>. SUFFICES ASSUME NEW i \in 1..Len(t), NEW j \in 1..Len(t), t[i].id = t[j].id PROVE i = j
    OBVIOUS
  <2>0. \A k \in 1..Len(w) : w[k].id # e.id
    BY <1>1
  <2>1. CASE i = Len(t) \/ j = Len(t)
    BY <2>0, <1>2, <2>1
  <2>2. CASE i # Len(t) /\ j # Len(t)
    <3>1. i \in 1..Len(w) /\ j \in 1..Len(w) /\ t[i] = w[i] /\ t[j] = w[j]
      BY <1>2, <2>2
    <3> QED BY <1>1, <3>1
  <2> QED BY <2>1, <2>2
<1>4. Len(t) <= Cardinality(Ids)
  BY <1>2, <1>3, NotMore
<1>5. Len(t) <= capacity /\ Put(s, e) = t
  <2>1. Cardinality(Ids) \in Nat /\ Cardinality(Ids) <= capacity
    BY FS_CardinalityType DEF Roomy
  <2>2. Len(t) <= capacity
    BY <1>2, <1>4, <2>1
  <2> QED BY <1>2, <1>9, <2>2
<1>6. IsCache(t, E)
  <2>1. DOMAIN t = 1..Len(t)
    BY <1>2
  <2> QED BY <1>2, <1>3, <1>5, <2>1 DEF IsCache
<1>7. Cached(t, e.id) /\ Entry(t, e.id) = e
  <2>1. Len(t) \in 1..Len(t) /\ t[Len(t)] = e
    BY <1>2
  <2> QED BY <1>6, <2>1, EntryIs
<1>8. ASSUME NEW i, i # e.id PROVE SameFor(s, t, i)
  <2>1. ASSUME Cached(s, i) PROVE Cached(t, i) /\ Entry(t, i) = Entry(s, i)
    <3>1. PICK j \in 1..Len(s) : s[j].id = i /\ Entry(s, i) = s[j]
      BY <2>1, CachedIs
    <3>2. PICK k \in 1..Len(w) : w[k] = s[j]
      BY <1>1, <1>8, <3>1
    <3>3. k \in 1..Len(t) /\ t[k] = s[j]
      BY <1>2, <3>2
    <3> QED BY <1>6, <3>1, <3>3, EntryIs
  <2>2. ASSUME Cached(t, i) PROVE Cached(s, i)
    <3>1. PICK k \in 1..Len(t) : t[k].id = i
      BY <2>2 DEF Cached
    <3>2. k \in 1..Len(w) /\ w[k] = t[k]
      BY <1>2, <1>8, <3>1
    <3>3. PICK j \in 1..Len(s) : w[k] = s[j]
      BY <1>1, <3>2
    <3> QED BY <3>1, <3>2, <3>3 DEF Cached
  <2> QED BY <2>1, <2>2 DEF SameFor
<1> QED BY <1>5, <1>6, <1>7, <1>8

\* Nor does getting one.
LEMMA GetIs ==
  ASSUME Roomy, capacity \in Nat, NEW E \in {MsgEntry, RefEntry}, NEW s, IsCache(s, E), NEW x, NEW i
  PROVE  SameFor(s, Get(s, x), i)
<1>1. CASE Cached(s, x)
  <2>1. PICK k \in 1..Len(s) : s[k].id = x /\ Entry(s, x) = s[k]
    BY <1>1, CachedIs
  <2>2. s[k] \in E
    BY DEF IsCache
  <2>3. /\ Cached(Put(s, s[k]), x) /\ Entry(Put(s, s[k]), x) = s[k]
        /\ \A j : j # x => SameFor(s, Put(s, s[k]), j)
    BY <2>1, <2>2, PutIs
  <2>4. Get(s, x) = Put(s, s[k])
    BY <1>1, <2>1 DEF Get
  <2> QED BY <1>1, <2>1, <2>3, <2>4 DEF SameFor
<1>2. CASE ~Cached(s, x)
  BY <1>2 DEF Get, SameFor
<1> QED BY <1>1, <1>2


-----------------------------------------------------------------------------
(* The rows of a message.                                                  *)

\* The tables whose rows are named after the milestone that references a message.
Placed == {"parents", "indexes", "addresses"}

\* Whose a row under milestone ms is.
LEMMA MisplacedIs ==
  ASSUME NEW id, NEW ms, NEW r \in Misplaced(id, ms)
  PROVE  /\ r = Row(r.key, 0) /\ r.key[1] \in Placed /\ r.key[4] = ms
         /\ r.key[1] # "addresses" => r.key[5] = id
         /\ r.key[1] = "addresses" => r.key[5][1] \in Transactions(id)
<1>. DEFINE payload == Messages[id].payload
<1>1. CASE r \in delete_parents(id, ms)
  BY <1>1 DEF delete_parents, PartitionedRow, Row, Placed
<1>2. ASSUME NEW p, r \in delete_indexation(id, p, ms)
      PROVE  /\ r = Row(r.key, 0) /\ r.key[1] \in Placed /\ r.key[4] = ms
             /\ r.key[1] # "addresses" => r.key[5] = id
             /\ r.key[1] = "addresses" => r.key[5][1] \in Transactions(id)
  BY <1>2 DEF delete_indexation, PartitionedRow, Row, Placed
<1>3. CASE payload.kind = "transaction" /\ r \in delete_address(payload, ms)
  <2>1. PICK o \in payload.outputs : r = PartitionedRow("addresses", o[2], ms, <<payload.id, o[1]>>)
    BY <1>3 DEF delete_address
  <2>2. payload.id \in Transactions(id)
    BY <1>3 DEF Transactions
  <2> QED BY <2>1, <2>2 DEF PartitionedRow, Row, Placed
<1> QED BY <1>1, <1>2, <1>3 DEF Misplaced

\* No two messages, and no two milestones, share one, but for the addresses of a
\* transaction.
LEMMA MisplacedApart ==
  ASSUME NEW id \in Ids, NEW o \in Ids, NEW m, NEW n,
         (id = o /\ m # n) \/ (id # o /\ Unshared(id)),
         NEW r \in Misplaced(id, m), NEW q \in Misplaced(o, n)
  PROVE  r.key # q.key
<1>1. /\ r.key[1] \in Placed /\ r.key[4] = m
      /\ r.key[1] # "addresses" => r.key[5] = id
      /\ r.key[1] = "addresses" => r.key[5][1] \in Transactions(id)
  BY MisplacedIs
<1>2. /\ q.key[1] \in Placed /\ q.key[4] = n
      /\ q.key[1] # "addresses" => q.key[5] = o
      /\ q.key[1] = "addresses" => q.key[5][1] \in Transactions(o)
  BY MisplacedIs
<1>3. id # o => Transactions(o) \cap Transactions(id) = {}
  BY DEF Unshared
<1> QED BY <1>1, <1>2, <1>3

\* Rows that are written for message id as one of milestone ms.
Written(id, ms, R) == \A r \in R : r \in Misplaced(id, ms) \/ r.key[1] \notin Placed

LEMMA FoundIs ==
  ASSUME NEW id, NEW ms, NEW table, NEW key, NEW what, NEW r \in UNION Found(table, key, ms, what)
  PROVE  r = PartitionedRow(table, key, ms, what) \/ r.key[1] \notin Placed
BY DEF Found, HintRow, Row, Placed

LEMMA ParentsWritten ==
  ASSUME NEW id, NEW ms
  PROVE  Written(id, ms, UNION insert_parents(id, ms))
<1>. SUFFICES ASSUME NEW r \in UNION insert_parents(id, ms)
              PROVE  r \in Misplaced(id, ms) \/ r.key[1] \notin Placed
  BY DEF Written
<1>1. PICK p \in Messages[id].parents : r \in UNION Found("parents", p, ms, id)
  BY DEF insert_parents
<1>2. r = PartitionedRow("parents", p, ms, id) \/ r.key[1] \notin Placed
  BY <1>1, FoundIs
<1> QED BY <1>2 DEF Misplaced, delete_parents

LEMMA IndexWritten ==
  ASSUME NEW id, NEW ms, NEW p, p.kind = "index",
         NEW r \in UNION insert_index(id, p.index, ms)
  PROVE  r \in delete_indexation(id, p, ms) \/ r.key[1] \notin Placed
<1>1. r = PartitionedRow("indexes", p.index, ms, id) \/ r.key[1] \notin Placed
  BY FoundIs DEF insert_index
<1> QED BY <1>1 DEF delete_indexation

LEMMA TransactionWritten ==
  ASSUME NEW id, NEW ms, Messages[id].payload.kind = "transaction"
  PROVE  Written(id, ms, UNION insert_transaction(id, Messages[id].payload, ms))
<1>. DEFINE tx == Messages[id].payload
<1>. SUFFICES ASSUME NEW r \in UNION insert_transaction(id, tx, ms)
              PROVE  r \in Misplaced(id, ms) \/ r.key[1] \notin Placed
  BY DEF Written
<1>0. delete_address(tx, ms) \cup delete_indexation(id, tx.payload, ms) \subseteq Misplaced(id, ms)
  BY DEF Misplaced
<1>1. CASE r \in UNION (UNION {insert_input(tx, i[1], id) \cup insert_unlock(i[2], i[3], id) : i \in tx.inputs})
  BY <1>1 DEF insert_input, insert_unlock, TransactionRow, Row, Placed
<1>2. CASE r \in UNION (UNION {insert_input(tx, i, id) : i \in tx.treasury})
  BY <1>2 DEF insert_input, TransactionRow, Row, Placed
<1>3. CASE r \in UNION (UNION {insert_output(tx, o, id) \cup insert_address(tx, o, ms) : o \in tx.outputs})
  <2>1. PICK o \in tx.outputs : r \in UNION insert_output(tx, o, id) \/ r \in UNION insert_address(tx, o, ms)
    BY <1>3
  <2>2. CASE r \in UNION insert_output(tx, o, id)
    BY <2>2 DEF insert_output, TransactionRow, Row, Placed
  <2>3. CASE r \in UNION insert_address(tx, o, ms)
    <3>1. o[2] # NoAddress /\ r \in UNION Found("addresses", o[2], ms, <<tx.id, o[1]>>)
      BY <2>3 DEF insert_address
    <3>2. r = PartitionedRow("addresses", o[2], ms, <<tx.id, o[1]>>) \/ r.key[1] \notin Placed
      BY <3>1, FoundIs
    <3>3. PartitionedRow("addresses", o[2], ms, <<tx.id, o[1]>>) \in delete_address(tx, ms)
      BY <3>1 DEF delete_address
    <3> QED BY <1>0, <3>2, <3>3
  <2> QED BY <2>1, <2>2, <2>3
<1>4. CASE tx.payload.kind = "index" /\ r \in UNION insert_index(id, tx.payload.index, ms)
  BY <1>0, <1>4, IndexWritten
<1> QED BY <1>1, <1>2, <1>3, <1>4 DEF insert_transaction

LEMMA PayloadWritten ==
  ASSUME NEW id, NEW ms, NEW metadata \in BOOLEAN
  PROVE  Written(id, ms, UNION insert_payload(id, ms, metadata))
<1>. DEFINE p == Messages[id].payload
<1>1. CASE p.kind = "index"
  <2>1. insert_payload(id, ms, metadata) = insert_index(id, p.index, ms)
    BY <1>1 DEF insert_payload, IsMilestone
  <2>2. delete_indexation(id, p, ms) \subseteq Misplaced(id, ms)
    BY DEF Misplaced
  <2> QED BY <1>1, <2>1, <2>2, IndexWritten DEF Written
<1>2. CASE p.kind = "transaction"
  <2>1. insert_payload(id, ms, metadata) = insert_transaction(id, p, ms)
    BY <1>2 DEF insert_payload, IsMilestone
  <2> QED BY <1>2, <2>1, TransactionWritten
<1>3. CASE p.kind # "index" /\ p.kind # "transaction"
  <2>1. insert_payload(id, ms, metadata) \in {{{MilestoneRow(p.index, id)}}, {}}
    BY <1>3 DEF insert_payload, IsMilestone
  <2> QED BY <2>1 DEF Written, MilestoneRow, Row, Placed
<1> QED BY <1>1, <1>2, <1>3

\* The rows of a message whose metadata is known, and those of the metadata alone.
Full(id) == UNION insert_message_with_metadata(id)
Partial(id) == UNION insert_message_metadata(id)

LEMMA AllWritten ==
  ASSUME NEW id
  PROVE  /\ Written(id, Ref[id], Full(id)) /\ Partial(id) \subseteq Full(id)
         /\ Written(id, est_ms, UNION insert_message(id, FALSE))
<1>1. \A ms : Written(id, ms, UNION insert_parents(id, ms))
  BY ParentsWritten
<1>2. \A ms : \A b \in BOOLEAN : Written(id, ms, UNION insert_payload(id, ms, b))
  BY PayloadWritten
<1>3. MessageRow(id).key[1] \notin Placed /\ MetadataRow(id).key[1] \notin Placed
  BY DEF MessageRow, MetadataRow, Row, Placed
<1>4. Full(id) = (UNION insert_parents(id, Ref[id])) \cup (UNION insert_payload(id, Ref[id], TRUE))
                   \cup {MessageRow(id), MetadataRow(id)}
  BY DEF Full, insert_message_with_metadata
<1>5. Partial(id) = {MetadataRow(id)} \cup (UNION insert_parents(id, Ref[id]))
  BY DEF Partial, insert_message_metadata
<1>6. UNION insert_message(id, FALSE) =
        {MessageRow(id)} \cup (UNION insert_parents(id, est_ms)) \cup (UNION insert_payload(id, est_ms, FALSE))
  BY DEF insert_message
<1> QED BY <1>1, <1>2, <1>3, <1>4, <1>5, <1>6 DEF Written


-----------------------------------------------------------------------------
(* The rows in the database.                                               *)

\* Message id has no rows under a milestone; none but under ms.
Absent(d, id) == \A m : Misplaced(id, m) \cap d = {}
Under(d, id, ms) == \A m : m # ms => Misplaced(id, m) \cap d = {}
HasAll(d, R) == Keys(R) \subseteq Keys(d)

\* What the database d has of message id, by what the caches s of messages and t of
\* metadata know of it.
RowsFor(d, s, t, id) ==
  /\ Cached(t, id) => /\ Under(d, id, Ref[id])
                      /\ HasAll(d, IF Cached(s, id) THEN Full(id) ELSE Partial(id))
  /\ ~Cached(t, id) /\ Cached(s, id) => Under(d, id, Entry(s, id).est)
  /\ ~Cached(t, id) /\ ~Cached(s, id) => Absent(d, id)

RowsInv ==
  Roomy => \A id \in Ids : Unshared(id) => RowsFor(db, lru_msg, lru_msg_ref, id)

\* From d to e nothing of message id is placed, and nothing it has to have deleted.
Untouched(d, e, id) ==
  /\ \A r \in e : r \in d \/ \A m : r \notin Misplaced(id, m)
  /\ Keys(d) \cap Keys(Full(id)) \subseteq Keys(e)

LEMMA WriteIs ==
  ASSUME NEW d, NEW R
  PROVE  /\ \A r \in Write(d, R) : r \in d \/ r \in R
         /\ Keys(d) \subseteq Keys(Write(d, R)) /\ Keys(R) \subseteq Keys(Write(d, R))
<1>1. Write(d, R) = {r \in d : r.key \notin Keys(R)} \cup R
  BY DEF Write
<1>2. \A S : Keys(S) = {r.key : r \in S}
  BY DEF Keys
<1> QED BY <1>1, <1>2

\* What is written for, or deleted of, another message.
LEMMA OthersWrite ==
  ASSUME NEW id \in Ids, NEW o \in Ids, id # o, Unshared(id), NEW ms, NEW R, Written(o, ms, R),
         NEW d, NEW n, NEW X, X = {} \/ X = Misplaced(o, n)
  PROVE  Untouched(d, Write(d \ X, R), id)
<1>. DEFINE e == Write(d \ X, R)
<1>1. /\ \A r \in e : r \in d \ X \/ r \in R
      /\ Keys(d \ X) \subseteq Keys(e)
  BY WriteIs
<1>. HIDE DEF e
<1>2. ASSUME NEW r \in R, NEW m, r \in Misplaced(id, m) PROVE FALSE
  <2>1. r.key[1] \in Placed
    BY <1>2, MisplacedIs
  <2>2. r \in Misplaced(o, ms)
    BY <2>1 DEF Written
  <2> QED BY <1>2, <2>2, MisplacedApart
<1>3. ASSUME NEW k \in Keys(d), k \in Keys(Full(id)) PROVE k \in Keys(d \ X)
  <2>1. PICK r \in d : r.key = k
    BY DEF Keys
  <2>2. PICK q \in Full(id) : q.key = k
    BY <1>3 DEF Keys
  <2>3. CASE r \in X
    <3>1. r \in Misplaced(o, n)
      BY <2>3
    <3>2. q.key[1] \in Placed
      BY <3>1, <2>1, <2>2, MisplacedIs
    <3>3. q \in Misplaced(id, Ref[id])
      BY <3>2, AllWritten DEF Written
    <3>4. q.key # r.key
      BY <3>1, <3>3, MisplacedApart
    <3> QED BY <3>4, <2>1, <2>2
  <2>4. CASE r \notin X
    BY <2>1, <2>4 DEF Keys
  <2> QED BY <2>3, <2>4
<1>4. Untouched(d, e, id)
  BY <1>1, <1>2, <1>3 DEF Untouched
<1> QED BY <1>4 DEF e

\* Unless its caches and rows change, a message keeps what it has.
LEMMA RowsKept ==
  ASSUME NEW id, NEW d, NEW s, NEW t, RowsFor(d, s, t, id),
         NEW e, NEW s2, NEW t2, Untouched(d, e, id), SameFor(s, s2, id), SameFor(t, t2, id)
  PROVE  RowsFor(e, s2, t2, id)
<1>1. \A m : Misplaced(id, m) \cap d = {} => Misplaced(id, m) \cap e = {}
  BY DEF Untouched
<1>2. \A m : Under(d, id, m) => Under(e, id, m)
  BY <1>1 DEF Under
<1>3. Absent(d, id) => Absent(e, id)
  BY <1>1 DEF Absent
<1>4. \A R : R \subseteq Full(id) /\ HasAll(d, R) => HasAll(e, R)
  BY DEF HasAll, Untouched, Keys
<1>5. Partial(id) \subseteq Full(id)
  BY AllWritten
<1>6. (IF Cached(s, id) THEN Full(id) ELSE Partial(id)) \subseteq Full(id)
  BY <1>5
<1>7. /\ Cached(t2, id) <=> Cached(t, id)
      /\ Cached(s2, id) <=> Cached(s, id)
      /\ Cached(s, id) => Entry(s2, id) = Entry(s, id)
  BY DEF SameFor
<1> QED BY <1>2, <1>3, <1>4, <1>6, <1>7 DEF RowsFor

\* What is written for the message itself.
LEMMA OwnWrite ==
  ASSUME NEW id, NEW d, NEW ms, NEW R, Written(id, ms, R), Under(d, id, ms)
  PROVE  Under(Write(d, R), id, ms) /\ HasAll(Write(d, R), R)
<1>1. /\ \A r \in Write(d, R) : r \in d \/ r \in R
      /\ Keys(R) \subseteq Keys(Write(d, R))
  BY WriteIs
<1>2. ASSUME NEW m, m # ms, NEW r \in Misplaced(id, m), r \in Write(d, R) PROVE FALSE
  <2>1. r \notin d
    BY <1>2 DEF Under
  <2>2. r \in R /\ r.key[1] \in Placed
    BY <2>1, <1>1, <1>2, MisplacedIs
  <2>3. r \in Misplaced(id, ms)
    BY <2>2 DEF Written
  <2>4. r.key[4] = m /\ r.key[4] = ms
    BY <2>3, <1>2, MisplacedIs
  <2> QED BY <2>4, <1>2
<1> QED BY <1>1, <1>2 DEF Under, HasAll

\* Relocating a message, whose rows are under its estimate, puts them where they
\* belong; those of others are left alone.
LEMMA RelocatedIs ==
  ASSUME NEW id \in Ids
  PROVE  /\ RowsFor(db, lru_msg, lru_msg_ref, id) =>
              Under(Relocated(id), id, Ref[id]) /\ HasAll(Relocated(id), Full(id))
         /\ \A i \in Ids : i # id /\ Unshared(i) => Untouched(db, Relocated(id), i)
<1>. DEFINE X == IF WrongEst(id) THEN Misplaced(id, Entry(lru_msg, id).est) ELSE {}
<1>1. Relocated(id) = Write(db \ X, Full(id))
  <2>1. CASE WrongEst(id)
    BY <2>1 DEF Relocated, Full
  <2>2. CASE ~WrongEst(id)
    <3>1. db \ {} = db
      OBVIOUS
    <3> QED BY <2>2, <3>1 DEF Relocated, Full
  <2> QED BY <2>1, <2>2
<1>2. Written(id, Ref[id], Full(id))
  BY AllWritten
<1>3. ASSUME RowsFor(db, lru_msg, lru_msg_ref, id) PROVE Under(db \ X, id, Ref[id])
  <2>1. CASE Cached(lru_msg_ref, id) \/ ~Cached(lru_msg, id)
    <3>1. Under(db, id, Ref[id])
      BY <1>3, <2>1 DEF RowsFor, Under, Absent
    <3>. HIDE DEF X
    <3> QED BY <3>1 DEF Under
  <2>2. CASE ~Cached(lru_msg_ref, id) /\ Cached(lru_msg, id)
    <3>1. Under(db, id, Entry(lru_msg, id).est)
      BY <1>3, <2>2 DEF RowsFor
    <3>2. WrongEst(id) <=> Entry(lru_msg, id).est # Ref[id]
      BY <2>2 DEF WrongEst
    <3> QED BY <3>1, <3>2 DEF Under
  <2> QED BY <2>1, <2>2
<1>4. ASSUME NEW i \in Ids, i # id, Unshared(i) PROVE Untouched(db, Write(db \ X, Full(id)), i)
  <2>1. X = {} \/ X = Misplaced(id, Entry(lru_msg, id).est)
    OBVIOUS
  <2>. HIDE DEF X
  <2> QED BY <1>2, <1>4, <2>1, OthersWrite
<1>. HIDE DEF X
<1> QED BY <1>1, <1>2, <1>3, <1>4, OwnWrite

LEMMA SameIs ==
  ASSUME NEW s, NEW id, NEW d
  PROVE  SameFor(s, s, id) /\ Untouched(d, d, id)
BY DEF SameFor, Untouched


-----------------------------------------------------------------------------
(* Every step keeps the rows.                                              *)

\* What there is at the beginning of a step, for every message but one.
LEMMA RowsAre ==
  ASSUME CollectorInv, Roomy
  PROVE  /\ capacity \in Nat
         /\ MsgEntry \in {MsgEntry, RefEntry} /\ RefEntry \in {MsgEntry, RefEntry}
         /\ IsCache(lru_msg, MsgEntry) /\ IsCache(lru_msg_ref, RefEntry)
         /\ \A id \in Ids : Ref[id] \in Nat
BY Parts, CollectorAssumption DEF CachesOK

\* A step that is about message o, or none.
LEMMA RowsStep ==
  ASSUME RowsInv, capacity' = capacity, NEW o,
         ASSUME Roomy, NEW id \in Ids, Unshared(id), id # o
         PROVE  /\ Untouched(db, db', id) /\ SameFor(lru_msg, lru_msg', id)
                /\ SameFor(lru_msg_ref, lru_msg_ref', id),
         ASSUME Roomy, o \in Ids, Unshared(o), RowsFor(db, lru_msg, lru_msg_ref, o)
         PROVE  RowsFor(db', lru_msg', lru_msg_ref', o)
  PROVE  RowsInv'
<1>1. Roomy' => Roomy
  BY DEF Roomy
<1>2. ASSUME Roomy, NEW id \in Ids, Unshared(id)
      PROVE  RowsFor(db', lru_msg', lru_msg_ref', id)
  <2>1. RowsFor(db, lru_msg, lru_msg_ref, id)
    BY <1>2 DEF RowsInv
  <2>2. CASE id = o
    BY <1>2, <2>1, <2>2
  <2>3. CASE id # o
    <3>1. /\ Untouched(db, db', id) /\ SameFor(lru_msg, lru_msg', id)
          /\ SameFor(lru_msg_ref, lru_msg_ref', id)
      BY <1>2, <2>3
    <3> QED BY <2>1, <3>1, RowsKept
  <2> QED BY <2>2, <2>3
<1> QED BY <1>1, <1>2 DEF RowsInv

LEMMA RowsStill ==
  ASSUME RowsInv, capacity' = capacity, db' = db, lru_msg' = lru_msg, lru_msg_ref' = lru_msg_ref
  PROVE  RowsInv'
BY DEF RowsInv, Roomy

\* A whole message that has been relocated has all its rows.
LEMMA RowsOfRelocated ==
  ASSUME NEW o \in Ids, RowsFor(db, lru_msg, lru_msg_ref, o), db' = Relocated(o),
         Cached(lru_msg_ref', o)
  PROVE  RowsFor(db', lru_msg', lru_msg_ref', o)
<1>1. Under(db', o, Ref[o]) /\ HasAll(db', Full(o))
  BY RelocatedIs
<1>2. HasAll(db', Partial(o))
  BY <1>1, AllWritten DEF HasAll, Keys
<1>3. HasAll(db', IF Cached(lru_msg', o) THEN Full(o) ELSE Partial(o))
  BY <1>1, <1>2
<1> QED BY <1>1, <1>3 DEF RowsFor

LEMMA RowsFetched ==
  ASSUME CollectorInv, RowsInv, NEW r \in Requesters, Fetch(r)
  PROVE  RowsInv'
<1>. DEFINE o == Head(queue[r]).id
<1>1. o \in Ids
  <2>1. /\ queue[r] \in Seq(Inbox) /\ queue[r] # <<>> /\ Head(queue[r]).type = "request"
    BY Parts DEF InboxesOK, Fetch, Answering
  <2>2. Head(queue[r]) \in Inbox
    BY <2>1
  <2> QED BY <2>1, <2>2, RequestIs
<1>2. /\ lru_msg' = Put(lru_msg, [id |-> o, est |-> Ref[o]])
      /\ lru_msg_ref' = Put(lru_msg_ref, [id |-> o])
      /\ db' = Relocated(o) /\ capacity' = capacity
  BY DEF Fetch, HandleFetched, Answering
<1>. HIDE DEF o
<1>3. ASSUME Roomy
      PROVE  /\ Cached(lru_msg_ref', o)
             /\ \A id : id # o => SameFor(lru_msg, lru_msg', id) /\ SameFor(lru_msg_ref, lru_msg_ref', id)
  <2>. DEFINE e == [id |-> o, est |-> Ref[o]]
              f == [id |-> o]
  <2>1. e \in MsgEntry /\ f \in RefEntry /\ e.id = o /\ f.id = o
    BY <1>1, <1>3, RowsAre DEF MsgEntry, RefEntry
  <2>2. lru_msg' = Put(lru_msg, e) /\ lru_msg_ref' = Put(lru_msg_ref, f)
    BY <1>2
  <2>. HIDE DEF e, f
  <2>3. \A i : i # o => SameFor(lru_msg, lru_msg', i)
    BY <1>3, <2>1, <2>2, RowsAre, PutIs
  <2>4. Cached(lru_msg_ref', o) /\ \A i : i # o => SameFor(lru_msg_ref, lru_msg_ref', i)
    BY <1>3, <2>1, <2>2, RowsAre, PutIs
  <2> QED BY <2>3, <2>4
<1>4. \A i \in Ids : i # o /\ Unshared(i) => Untouched(db, db', i)
  BY <1>1, <1>2, RelocatedIs
<1>5. ASSUME Roomy, RowsFor(db, lru_msg, lru_msg_ref, o)
      PROVE  RowsFor(db', lru_msg', lru_msg_ref', o)
  BY <1>1, <1>2, <1>3, <1>5, RowsOfRelocated
<1> QED BY <1>2, <1>3, <1>4, <1>5, RowsStep

LEMMA RowsReferenced ==
  ASSUME CollectorInv, RowsInv, NEW o \in Ids, HandleReferenced(o)
  PROVE  RowsInv'
<1>1. capacity' = capacity
  BY DEF HandleReferenced
<1>2. CASE Cached(lru_msg_ref, o)
  <2>1. lru_msg_ref' = Get(lru_msg_ref, o) /\ lru_msg' = lru_msg /\ db' = db
    BY <1>2 DEF HandleReferenced
  <2>2. ASSUME Roomy, NEW id
        PROVE  /\ Untouched(db, db', id) /\ SameFor(lru_msg, lru_msg', id)
               /\ SameFor(lru_msg_ref, lru_msg_ref', id)
    BY <2>1, <2>2, SameIs, GetIs, RowsAre
  <2>3. ASSUME Roomy, RowsFor(db, lru_msg, lru_msg_ref, o)
        PROVE  RowsFor(db', lru_msg', lru_msg_ref', o)
    BY <2>2, <2>3, RowsKept
  <2> QED BY <1>1, <2>2, <2>3, RowsStep
<1>3. CASE ~Cached(lru_msg_ref, o)
  <2>. DEFINE e == [id |-> o, est |-> Ref[o]]
              f == [id |-> o]
              known == Cached(lru_msg, o) \/ o \in DOMAIN pending_requests
  <2>1. HandleNewReference(o)
    BY <1>3 DEF HandleReferenced
  <2>2. /\ lru_msg_ref' = Put(lru_msg_ref, f)
        /\ lru_msg' = IF Cached(lru_msg, o) THEN Put(lru_msg, e) ELSE lru_msg
        /\ db' = IF known THEN Relocated(o) ELSE Write(db, Partial(o))
    BY <2>1 DEF HandleNewReference, Partial
  <2>3. Ref[o] \in Nat
    BY CollectorAssumption
  <2>4. e \in MsgEntry /\ f \in RefEntry /\ e.id = o /\ f.id = o
    BY <2>3 DEF MsgEntry, RefEntry
  <2>. HIDE DEF e, f
  <2>5. ASSUME Roomy
        PROVE  /\ Cached(lru_msg_ref', o) /\ (Cached(lru_msg', o) <=> Cached(lru_msg, o))
               /\ \A i : i # o => SameFor(lru_msg, lru_msg', i) /\ SameFor(lru_msg_ref, lru_msg_ref', i)
    <3>1. Cached(lru_msg_ref', o) /\ \A i : i # o => SameFor(lru_msg_ref, lru_msg_ref', i)
      BY <2>2, <2>4, <2>5, RowsAre, PutIs
    <3>2. CASE Cached(lru_msg, o)
      <4>1. lru_msg' = Put(lru_msg, e)
        BY <2>2, <3>2
      <4>2. Cached(lru_msg', o) /\ \A i : i # o => SameFor(lru_msg, lru_msg', i)
        BY <2>4, <2>5, <4>1, RowsAre, PutIs
      <4> QED BY <3>1, <3>2, <4>2
    <3>3. CASE ~Cached(lru_msg, o)
      <4>1. lru_msg' = lru_msg
        BY <2>2, <3>3
      <4> QED BY <3>1, <4>1, SameIs
    <3> QED BY <3>2, <3>3
  <2>6. ASSUME NEW i \in Ids, i # o, Unshared(i) PROVE Untouched(db, db', i)
    <3>1. CASE known
      BY <2>2, <2>6, <3>1, RelocatedIs
    <3>2. CASE ~known
      <4>1. Written(o, Ref[o], Partial(o)) /\ db \ {} = db
        BY AllWritten DEF Written
      <4>2. Untouched(db, Write(db \ {}, Partial(o)), i)
        BY <2>6, <4>1, OthersWrite
      <4> QED BY <2>2, <3>2, <4>1, <4>2
    <3> QED BY <3>1, <3>2
  <2>7. ASSUME Roomy, RowsFor(db, lru_msg, lru_msg_ref, o)
        PROVE  RowsFor(db', lru_msg', lru_msg_ref', o)
    <3>1. CASE known
      BY <2>2, <2>5, <2>7, <3>1, RowsOfRelocated
    <3>2. CASE ~known
      <4>1. Under(db, o, Ref[o]) /\ ~Cached(lru_msg', o)
        BY <1>3, <2>5, <2>7, <3>2 DEF RowsFor, Absent, Under
      <4>2. Written(o, Ref[o], Partial(o))
        BY AllWritten DEF Written
      <4>3. Under(db', o, Ref[o]) /\ HasAll(db', Partial(o))
        BY <2>2, <3>2, <4>1, <4>2, OwnWrite
      <4> QED BY <2>5, <2>7, <4>1, <4>3 DEF RowsFor
    <3> QED BY <3>1, <3>2
  <2>. HIDE DEF known
  <2> QED BY <1>1, <2>5, <2>6, <2>7, RowsStep
<1> QED BY <1>2, <1>3

LEMMA RowsDelivered ==
  ASSUME CollectorInv, RowsInv, NEW o \in Ids, HandleMessage(o)
  PROVE  RowsInv'
<1>1. capacity' = capacity
  BY DEF HandleMessage
<1>2. CASE Cached(lru_msg, o)
  <2>1. lru_msg' = Get(lru_msg, o) /\ lru_msg_ref' = lru_msg_ref /\ db' = db
    BY <1>2 DEF HandleMessage
  <2>2. ASSUME Roomy, NEW id
        PROVE  /\ Untouched(db, db', id) /\ SameFor(lru_msg, lru_msg', id)
               /\ SameFor(lru_msg_ref, lru_msg_ref', id)
    BY <2>1, <2>2, SameIs, GetIs, RowsAre
  <2>3. ASSUME Roomy, RowsFor(db, lru_msg, lru_msg_ref, o)
        PROVE  RowsFor(db', lru_msg', lru_msg_ref', o)
    BY <2>2, <2>3, RowsKept
  <2> QED BY <1>1, <2>2, <2>3, RowsStep
<1>3. CASE ~Cached(lru_msg, o)
  <2>. DEFINE e == [id |-> o, est |-> est_ms]
              known == Cached(lru_msg_ref, o)
              R == UNION insert_message(o, known)
              ms == IF known THEN Ref[o] ELSE est_ms
  <2>1. /\ lru_msg_ref' = Get(lru_msg_ref, o) /\ lru_msg' = Put(lru_msg, e)
        /\ db' = Write(db, R)
    BY <1>3 DEF HandleMessage
  <2>2. e \in MsgEntry /\ e.id = o /\ e.est = est_ms
    BY Parts DEF MsgEntry
  <2>3. Written(o, ms, R) /\ (known => R = Full(o))
    <3>1. known => R = Full(o)
      BY DEF insert_message, Full
    <3>2. ~known => R = UNION insert_message(o, FALSE)
      BY DEF insert_message
    <3>. HIDE DEF R
    <3> QED BY <3>1, <3>2, AllWritten
  <2>. HIDE DEF e, R
  <2>4. ASSUME Roomy
        PROVE  /\ Cached(lru_msg', o) /\ Entry(lru_msg', o).est = est_ms
               /\ Cached(lru_msg_ref', o) <=> known
               /\ \A i : i # o => SameFor(lru_msg, lru_msg', i)
               /\ \A i : SameFor(lru_msg_ref, lru_msg_ref', i)
    <3>1. /\ Cached(lru_msg', o) /\ Entry(lru_msg', o) = e
          /\ \A i : i # o => SameFor(lru_msg, lru_msg', i)
      BY <2>1, <2>2, <2>4, RowsAre, PutIs
    <3>2. \A i : SameFor(lru_msg_ref, lru_msg_ref', i)
      BY <2>1, <2>4, RowsAre, GetIs
    <3>3. Cached(lru_msg_ref', o) <=> known
      BY <3>2 DEF SameFor
    <3> QED BY <2>2, <3>1, <3>2, <3>3
  <2>5. ASSUME NEW i \in Ids, i # o, Unshared(i) PROVE Untouched(db, db', i)
    <3>1. db \ {} = db
      OBVIOUS
    <3>2. Untouched(db, Write(db \ {}, R), i)
      BY <2>3, <2>5, OthersWrite
    <3> QED BY <2>1, <3>1, <3>2
  <2>6. ASSUME Roomy, RowsFor(db, lru_msg, lru_msg_ref, o)
        PROVE  RowsFor(db', lru_msg', lru_msg_ref', o)
    <3>1. Under(db, o, ms)
      BY <1>3, <2>6 DEF RowsFor, Absent, Under
    <3>2. Under(db', o, ms) /\ HasAll(db', R)
      BY <2>1, <2>3, <3>1, OwnWrite
    <3>3. known => Under(db', o, Ref[o]) /\ HasAll(db', Full(o))
      BY <2>3, <3>2
    <3>4. ~known => Under(db', o, est_ms)
      BY <3>2
    <3> QED BY <2>4, <2>6, <3>3, <3>4 DEF RowsFor
  <2> QED BY <1>1, <2>4, <2>5, <2>6, RowsStep
<1> QED BY <1>2, <1>3

LEMMA RowsAsked ==
  ASSUME CollectorInv, RowsInv, NEW a \in Asks, HandleAsk(a)
  PROVE  RowsInv'
<1>1. /\ capacity' = capacity /\ lru_msg' = Get(lru_msg, a.id)
      /\ lru_msg_ref' = lru_msg_ref \/ lru_msg_ref' = Get(lru_msg_ref, a.id)
  BY Zenon DEF HandleAsk
<1>2. ASSUME Roomy, NEW id
      PROVE  SameFor(lru_msg, lru_msg', id) /\ SameFor(lru_msg_ref, lru_msg_ref', id)
  <2>1. SameFor(lru_msg, lru_msg', id)
    BY <1>1, <1>2, GetIs, RowsAre
  <2>2. SameFor(lru_msg_ref, lru_msg_ref', id)
    BY <1>1, <1>2, GetIs, RowsAre, SameIs
  <2> QED BY <2>1, <2>2
<1>3. CASE db' = db
  <2>1. ASSUME Roomy, NEW id
        PROVE  /\ Untouched(db, db', id) /\ SameFor(lru_msg, lru_msg', id)
               /\ SameFor(lru_msg_ref, lru_msg_ref', id)
    BY <1>2, <1>3, <2>1, SameIs
  <2>2. ASSUME Roomy, RowsFor(db, lru_msg, lru_msg_ref, a.id)
        PROVE  RowsFor(db', lru_msg', lru_msg_ref', a.id)
    BY <2>1, <2>2, RowsKept
  <2> QED BY <1>1, <2>1, <2>2, RowsStep
<1>4. CASE db' # db
  <2>1. /\ Cached(lru_msg, a.id) /\ Cached(lru_msg_ref, a.id)
        /\ db' = Write(db, Full(a.id)) /\ a.id \in Ids
    <3>1. \/ Cached(lru_msg, a.id) /\ Cached(lru_msg_ref, a.id) /\ AskCached(a)
          \/ AskHeld(a) \/ AskRequested(a)
      BY Zenon DEF HandleAsk
    <3>2. ~AskHeld(a) /\ ~AskRequested(a)
      BY <1>4 DEF AskHeld, AskRequested
    <3>3. a.id \in Ids
      BY CollectorAssumption DEF Asked
    <3>4. db' = Write(db, Full(a.id))
      BY <1>4, <3>1, <3>2 DEF AskCached, Full
    <3> QED BY <3>1, <3>2, <3>3, <3>4
  <2>2. Written(a.id, Ref[a.id], Full(a.id)) /\ db \ {} = db
    BY AllWritten
  <2>3. ASSUME NEW id \in Ids, id # a.id, Unshared(id) PROVE Untouched(db, db', id)
    <3>1. Untouched(db, Write(db \ {}, Full(a.id)), id)
      BY <2>1, <2>2, <2>3, OthersWrite
    <3> QED BY <2>1, <2>2, <3>1
  <2>4. ASSUME Roomy, RowsFor(db, lru_msg, lru_msg_ref, a.id)
        PROVE  RowsFor(db', lru_msg', lru_msg_ref', a.id)
    <3>1. Under(db, a.id, Ref[a.id])
      BY <2>1, <2>4 DEF RowsFor
    <3>2. Under(db', a.id, Ref[a.id]) /\ HasAll(db', Full(a.id))
      BY <2>1, <2>2, <3>1, OwnWrite
    <3>3. Cached(lru_msg', a.id) /\ Cached(lru_msg_ref', a.id)
      BY <1>2, <2>1, <2>4 DEF SameFor
    <3> QED BY <3>2, <3>3 DEF RowsFor
  <2> QED BY <1>1, <1>2, <2>3, <2>4, RowsStep
<1> QED BY <1>3, <1>4

LEMMA RowsInit == Init => RowsInv
<1>. SUFFICES ASSUME Init, NEW id \in Ids PROVE RowsFor(db, lru_msg, lru_msg_ref, id)
  BY DEF RowsInv
<1>1. lru_msg = <<>> /\ lru_msg_ref = <<>> /\ db = {}
  BY DEF Init
<1>2. ~Cached(lru_msg, id) /\ ~Cached(lru_msg_ref, id)
  BY <1>1 DEF Cached
<1>3. Absent(db, id)
  BY <1>1 DEF Absent
<1> QED BY <1>2, <1>3 DEF RowsFor

LEMMA RowsNext ==
  ASSUME CollectorInv, RowsInv, [Next]_vars
  PROVE  RowsInv'
<1>1. ASSUME NEW id \in Ids, HandleMessage(id) PROVE RowsInv'
  BY <1>1, RowsDelivered
<1>2. ASSUME NEW id \in Ids, HandleReferenced(id) PROVE RowsInv'
  BY <1>2, RowsReferenced
<1>3. ASSUME NEW a \in Asks, HandleAsk(a) PROVE RowsInv'
  BY <1>3, RowsAsked
<1>4. ASSUME NEW ms \in Milestones, HandleAskMilestone(ms) PROVE RowsInv'
  <2>1. capacity' = capacity /\ db' = db /\ lru_msg' = lru_msg /\ lru_msg_ref' = lru_msg_ref
    BY <1>4 DEF HandleAskMilestone, AskRequested
  <2> QED BY <2>1, RowsStill
<1>5. ASSUME NEW r \in Requesters, Requester(r) PROVE RowsInv'
  <2>1. CASE Fetch(r)
    BY <2>1, RowsFetched
  <2>2. CASE FetchFails(r)
    <3>1. capacity' = capacity /\ db' = db /\ lru_msg' = lru_msg /\ lru_msg_ref' = lru_msg_ref
      BY <2>2 DEF FetchFails, Answering, HandleNotFetched, caches
    <3> QED BY <3>1, RowsStill
  <2>3. CASE Topology(r)
    <3>1. capacity' = capacity /\ db' = db /\ lru_msg' = lru_msg /\ lru_msg_ref' = lru_msg_ref
      BY <2>3 DEF Topology, caches
    <3> QED BY <3>1, RowsStill
  <2> QED BY <1>5, <2>1, <2>2, <2>3 DEF Requester
<1>6. ASSUME NEW t \in Topologies, ChangeTopology(t) PROVE RowsInv'
  <2>1. capacity' = capacity /\ db' = db /\ lru_msg' = lru_msg /\ lru_msg_ref' = lru_msg_ref
    BY <1>6 DEF ChangeTopology, caches
  <2> QED BY <2>1, RowsStill
<1>7. CASE UNCHANGED vars
  <2>1. capacity' = capacity /\ db' = db /\ lru_msg' = lru_msg /\ lru_msg_ref' = lru_msg_ref
    BY <1>7 DEF vars, caches
  <2> QED BY <2>1, RowsStill
<1> QED BY <1>1, <1>2, <1>3, <1>4, <1>5, <1>6, <1>7 DEF Next

\* In whatever order messages and metadata come, and by whatever way: as long as
\* the caches have room for all, a message whose metadata is known has all its rows
\* and none under another milestone (collector/event_loop.rs:355 deletes them),
\* when no other message carries its transaction.
THEOREM RowsAreExact == Spec => []RowsExact
<1>1. Init => CollectorInv /\ RowsInv
  BY InitInv, RowsInit
<1>2. (CollectorInv /\ RowsInv) /\ [Next]_vars => (CollectorInv /\ RowsInv)'
  BY NextInv, RowsNext
<1>3. CollectorInv /\ RowsInv => RowsExact
  <2>1. SUFFICES ASSUME RowsInv, Roomy, NEW id \in Ids, Unshared(id), Cached(lru_msg_ref, id)
                 PROVE  /\ \A ms \in 0 .. LastReference + 1 : ms # Ref[id] => Misplaced(id, ms) \cap db = {}
                        /\ Keys(UNION (IF Cached(lru_msg, id) THEN insert_message_with_metadata(id)
                                       ELSE insert_message_metadata(id))) \subseteq Keys(db)
    BY DEF RowsExact, Roomy
  <2>2. RowsFor(db, lru_msg, lru_msg_ref, id)
    BY <2>1 DEF RowsInv
  <2>3. Under(db, id, Ref[id]) /\ HasAll(db, IF Cached(lru_msg, id) THEN Full(id) ELSE Partial(id))
    BY <2>1, <2>2 DEF RowsFor
  <2>4. \A ms \in 0 .. LastReference + 1 : ms # Ref[id] => Misplaced(id, ms) \cap db = {}
    BY <2>3 DEF Under
  <2>5. UNION (IF Cached(lru_msg, id) THEN insert_message_with_metadata(id) ELSE insert_message_metadata(id))
          = IF Cached(lru_msg, id) THEN Full(id) ELSE Partial(id)
    BY DEF Full, Partial
  <2> QED BY <2>3, <2>4, <2>5 DEF HasAll
<1> QED BY <1>1, <1>2, <1>3, PTL DEF Spec

=============================================================================
