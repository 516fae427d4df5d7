---------------------------- MODULE BrokerProofs ----------------------------
(***************************************************************************)
(* What the broker keeps of its importers and clients is true, for any     *)
(* files, directories, points of parallelism and clients: the points are   *)
(* shared out and returned exactly, an import that waits has an importer   *)
(* to wait for, a client that is connected can be told to leave, and one   *)
(* in use is in the configuration.                                         *)
(***************************************************************************)
EXTENDS Broker, FiniteSetTheorems, TLAPS

-----------------------------------------------------------------------------
(* Points. *)

\* A share of n among k, handed out at most k times, is no more than n.
LEMMA ShareFits ==
  ASSUME NEW n \in Nat, NEW k \in Nat, k > 0, NEW m \in Nat, m <= k
  PROVE  (n \div k) * m <= n
<1>. DEFINE p == n \div k
<1>1. p \in Nat /\ p * k <= n
  OBVIOUS
<1>. HIDE DEF p
<1>2. k - m \in Nat /\ k = m + (k - m)
  OBVIOUS
<1>3. p * (k - m) \in Nat /\ p * k = p * m + p * (k - m)
  BY <1>1, <1>2
<1>4. p * m \in Nat
  BY <1>1
<1>5. p * m <= n
  BY <1>1, <1>3, <1>4
<1>. QED
  BY <1>5 DEF p

\* The points in use are finitely many.
LEMMA InUseFinite ==
  ASSUME NEW S, IsFiniteSet(S), NEW alive \in [S -> 1..255]
  PROVE  IsFiniteSet(PointsInUse(alive))
<1>1. IsFiniteSet(1..255)
  <2>1. 1 \in Int /\ 255 \in Int
    OBVIOUS
  <2>. QED
    BY <2>1, FS_Interval
<1>2. IsFiniteSet(S \X (1..255))
  BY <1>1, FS_Product
<1>3. PointsInUse(alive) \subseteq S \X (1..255)
  BY DEF PointsInUse
<1>. QED
  BY <1>2, <1>3, FS_Subset

\* p points for each of the files of a set.
LEMMA PointsWorth ==
  ASSUME NEW new, IsFiniteSet(new), NEW p \in 1..255
  PROVE  IsFiniteSet(new \X (1..p)) /\ Cardinality(new \X (1..p)) = p * Cardinality(new)
<1>1. IsFiniteSet(1..p) /\ Cardinality(1..p) = p
  <2>1. 1 \in Int /\ p \in Int /\ ~ (1 > p)
    OBVIOUS
  <2>2. IsFiniteSet(1..p) /\ Cardinality(1..p) = IF 1 > p THEN 0 ELSE p - 1 + 1
    BY <2>1, FS_Interval
  <2>. QED
    BY <2>1, <2>2
<1>2. IsFiniteSet(new \X (1..p)) /\ Cardinality(new \X (1..p)) = Cardinality(new) * p
  <2>. DEFINE I == 1..p
  <2>1. IsFiniteSet(I) /\ Cardinality(I) = p
    BY <1>1
  <2>. HIDE DEF I
  <2>2. IsFiniteSet(new \X I) /\ Cardinality(new \X I) = Cardinality(new) * Cardinality(I)
    BY <2>1, FS_Product
  <2>3. Cardinality(new) * Cardinality(I) = Cardinality(new) * p
    BY <2>1
  <2>. QED
    BY <2>2, <2>3 DEF I
<1>3. Cardinality(new) \in Nat /\ Cardinality(new) * p = p * Cardinality(new)
  BY FS_CardinalityType
<1>. QED
  BY <1>2, <1>3

\* The importers more are those alive, of the files S, and new ones with p points each.
Joined(S, alive, new, p, more) ==
  /\ IsFiniteSet(S) /\ alive \in [S -> 1..255]
  /\ IsFiniteSet(new) /\ S \cap new = {} /\ p \in 1..255
  /\ more \in [S \cup new -> 1..255]
  /\ \A f \in S : more[f] = alive[f]
  /\ \A f \in new : more[f] = p

\* Importers that are new have their points on top of those in use.
LEMMA PointsTaken ==
  ASSUME NEW S, NEW alive, NEW new, NEW p, NEW more, Joined(S, alive, new, p, more)
  PROVE  Cardinality(PointsInUse(more))
           = Cardinality(PointsInUse(alive)) + Cardinality(new \X (1..p))
<1>0. /\ IsFiniteSet(S) /\ alive \in [S -> 1..255]
      /\ IsFiniteSet(new) /\ S \cap new = {} /\ p \in 1..255
      /\ more \in [S \cup new -> 1..255]
      /\ \A f \in S : more[f] = alive[f]
      /\ \A f \in new : more[f] = p
  BY DEF Joined
<1>1. IsFiniteSet(PointsInUse(alive))
  BY <1>0, InUseFinite, SMTT(60)
<1>2. IsFiniteSet(new \X (1..p))
  BY <1>0, PointsWorth, ZenonT(60)
<1>4. PointsInUse(more) = PointsInUse(alive) \cup (new \X (1..p))
  <2>1. \A f \in S : {f} \X (1 .. more[f]) = {f} \X (1 .. alive[f])
    BY <1>0
  <2>2. \A f \in new : {f} \X (1 .. more[f]) = {f} \X (1..p)
    BY <1>0
  <2>3. DOMAIN more = S \cup new /\ DOMAIN alive = S
    BY <1>0
  <2>4. ASSUME NEW t \in PointsInUse(more)
        PROVE  t \in PointsInUse(alive) \cup (new \X (1..p))
    <3>1. PICK f \in S \cup new : t \in {f} \X (1 .. more[f])
      BY <2>3 DEF PointsInUse
    <3>2. CASE f \in S
      BY <2>1, <2>3, <3>1, <3>2 DEF PointsInUse
    <3>3. CASE f \in new
      BY <2>2, <3>1, <3>3
    <3>. QED
      BY <3>2, <3>3
  <2>5. ASSUME NEW t \in PointsInUse(alive)
        PROVE  t \in PointsInUse(more)
    BY <2>1, <2>3 DEF PointsInUse
  <2>6. ASSUME NEW t \in new \X (1..p)
        PROVE  t \in PointsInUse(more)
    <3>1. PICK f \in new : t \in {f} \X (1..p)
      OBVIOUS
    <3>. QED
      BY <2>2, <2>3, <3>1 DEF PointsInUse
  <2>. QED
    BY <2>4, <2>5, <2>6
<1>5. PointsInUse(alive) \cap (new \X (1..p)) = {}
  BY <1>0 DEF PointsInUse
<1>. DEFINE A == PointsInUse(alive)
            B == new \X (1..p)
<1>6. IsFiniteSet(A) /\ IsFiniteSet(B) /\ A \cap B = {} /\ Cardinality({}) = 0
  BY <1>1, <1>2, <1>5, FS_EmptySet
<1>7. PointsInUse(more) = A \cup B
  BY <1>4
<1>. HIDE DEF A, B
<1>8. Cardinality(A) \in Nat /\ Cardinality(B) \in Nat
  BY <1>6, FS_CardinalityType
<1>9. Cardinality(A \cup B) = Cardinality(A) + Cardinality(B) - Cardinality(A \cap B)
  BY <1>6, FS_Union
<1>10. Cardinality(A \cap B) = 0
  BY <1>6
<1>11. \A a, b \in Nat : \A c : c = 0 => a + b - c = a + b
  OBVIOUS
<1>12. Cardinality(A \cup B) = Cardinality(A) + Cardinality(B)
  BY <1>8, <1>9, <1>10, <1>11
<1>. QED
  BY <1>7, <1>12 DEF A, B

\* An importer that is gone has given its points back.
LEMMA PointsReturned ==
  ASSUME NEW S, IsFiniteSet(S), NEW alive \in [S -> 1..255], NEW f \in S
  PROVE  Cardinality(PointsInUse(alive))
           = Cardinality(PointsInUse(WithoutKey(alive, f))) + alive[f]
<1>. DEFINE rest == WithoutKey(alive, f)
            T == S \ {f}
<1>1. IsFiniteSet(T) /\ rest \in [T -> 1..255]
  BY FS_RemoveElement DEF WithoutKey
<1>2. IsFiniteSet({f}) /\ Cardinality({f}) = 1
  BY FS_Singleton
<1>3. T \cap {f} = {} /\ alive[f] \in 1..255
  OBVIOUS
<1>4. /\ alive \in [T \cup {f} -> 1..255]
      /\ \A g \in T : alive[g] = rest[g]
      /\ \A g \in {f} : alive[g] = alive[f]
  BY DEF WithoutKey
<1>5. Cardinality(PointsInUse(alive))
        = Cardinality(PointsInUse(rest)) + Cardinality({f} \X (1 .. alive[f]))
  <2> HIDE DEF rest, T
  <2>. DEFINE p == alive[f]
              new == {f}
  <2>1. Joined(T, rest, new, p, alive)
    BY <1>1, <1>2, <1>3, <1>4 DEF Joined
  <2>. HIDE DEF p, new
  <2>2. Cardinality(PointsInUse(alive)) = Cardinality(PointsInUse(rest)) + Cardinality(new \X (1..p))
    BY <2>1, PointsTaken
  <2>. QED
    BY <2>2 DEF p, new
<1>6. Cardinality({f} \X (1 .. alive[f])) = alive[f] * 1
  <2>. DEFINE p == alive[f]
              new == {f}
  <2>1. p \in 1..255 /\ IsFiniteSet(new)
    BY <1>2, <1>3, SMTT(60)
  <2>. HIDE DEF p, new
  <2>2. Cardinality(new \X (1..p)) = p * Cardinality(new)
    BY <2>1, PointsWorth, ZenonT(60)
  <2>. QED
    BY <2>2, <1>2 DEF p, new
<1>. QED
  BY <1>3, <1>5, <1>6

-----------------------------------------------------------------------------
(* Importers. *)

\* PointsExact, and the types it needs, of any account s of the importers.
Sound(s) ==
  /\ s \in Importers(s.alive)
  /\ DOMAIN s.alive \subseteq Files
  /\ s.alive \in [DOMAIN s.alive -> 1..255]
  /\ IsFiniteSet(DOMAIN s.alive)
  /\ s.progress = Cardinality(DOMAIN s.alive)
  /\ "Unconvertible" \notin s.errors =>
       s.points + Cardinality(PointsInUse(s.alive)) = Parallelism

\* There is an importer to wait for, or a path was wrong.
Awaited(s) == s.progress > 0 \/ s.errors # {}

\* The fields of an account are those of the record.
LEMMA Fields ==
  ASSUME NEW s, Sound(s)
  PROVE  /\ s.points \in 0..255 /\ s.progress \in Nat /\ s.pending \in Seq(Paths)
         /\ s.handles \subseteq Files
         /\ s.errors \subseteq {"Unconvertible", "NoLogFiles", "InvalidPath"}
  BY DEF Sound, Importers

\* With an importer alive there is one in progress.
LEMMA AliveIsAwaited ==
  ASSUME NEW s, Sound(s), DOMAIN s.alive # {}
  PROVE  s.progress > 0
<1>1. IsFiniteSet(DOMAIN s.alive) /\ s.progress = Cardinality(DOMAIN s.alive)
  BY DEF Sound
<1>2. s.progress \in Nat
  BY <1>1, FS_CardinalityType
<1>3. s.progress # 0
  BY <1>1, FS_EmptySet
<1>. QED
  BY <1>2, <1>3

\* Without a point left there is an importer that has them.
LEMMA PointsAreAwaited ==
  ASSUME NEW s, Sound(s), s.points = 0
  PROVE  Awaited(s)
<1>1. CASE "Unconvertible" \in s.errors
  BY <1>1 DEF Awaited
<1>2. CASE "Unconvertible" \notin s.errors
  <2>1. Parallelism \in 1..255
    BY BrokerAssumption
  <2>2. s.points + Cardinality(PointsInUse(s.alive)) = Parallelism
    BY <1>2 DEF Sound
  <2>3. CASE DOMAIN s.alive = {}
    <3>1. PointsInUse(s.alive) = {}
      BY <2>3 DEF PointsInUse
    <3>2. Cardinality(PointsInUse(s.alive)) = 0
      BY <3>1, FS_EmptySet
    <3>. QED
      BY <2>1, <2>2, <3>2
  <2>4. CASE DOMAIN s.alive # {}
    BY <2>4, AliveIsAwaited DEF Awaited
  <2>. QED
    BY <2>3, <2>4
<1>. QED
  BY <1>1, <1>2

\* Of an account that only reports one more wrong path nothing else changes.
LEMMA ErrorKeeps ==
  ASSUME NEW s, Sound(s), NEW e \in {"NoLogFiles", "InvalidPath"}
  PROVE  Sound(PathError(s, e)) /\ Awaited(PathError(s, e))
<1>. DEFINE r == PathError(s, e)
<1>1. r \in Importers(r.alive) /\ r.alive = s.alive
  BY DEF Sound, PathError, Importers
<1>2. r.points = s.points /\ r.progress = s.progress /\ r.errors = s.errors \cup {e}
  BY DEF Sound, PathError, Importers
<1>. HIDE DEF r
<1>3. Sound(r)
  BY <1>1, <1>2 DEF Sound
<1>4. Awaited(r)
  BY <1>2 DEF Awaited
<1>. QED
  BY <1>3, <1>4 DEF r

\* An import that waits longer changes the list of those that wait.
LEMMA PendingKeeps ==
  ASSUME NEW s, Sound(s), NEW q \in Seq(Paths)
  PROVE  /\ Sound([s EXCEPT !.pending = q])
         /\ Awaited(s) => Awaited([s EXCEPT !.pending = q])
<1>. DEFINE r == [s EXCEPT !.pending = q]
<1>1. r \in Importers(r.alive) /\ r.alive = s.alive
  BY DEF Sound, Importers
<1>2. r.points = s.points /\ r.progress = s.progress /\ r.errors = s.errors
  BY DEF Sound, Importers
<1>. HIDE DEF r
<1>3. Sound(r)
  BY <1>1, <1>2 DEF Sound
<1>4. Awaited(s) => Awaited(r)
  BY <1>2 DEF Awaited
<1>. QED
  BY <1>3, <1>4 DEF r

\* Handles are no part of it.
LEMMA HandlesKeep ==
  ASSUME NEW s, Sound(s), NEW h \in SUBSET Files
  PROVE  /\ Sound([s EXCEPT !.handles = h])
         /\ Awaited(s) => Awaited([s EXCEPT !.handles = h])
         /\ [s EXCEPT !.handles = h].pending = s.pending
<1>. DEFINE r == [s EXCEPT !.handles = h]
<1>1. r \in Importers(r.alive) /\ r.alive = s.alive
  BY DEF Sound, Importers
<1>2. /\ r.points = s.points /\ r.progress = s.progress /\ r.errors = s.errors
      /\ r.pending = s.pending
  BY DEF Sound, Importers
<1>. HIDE DEF r
<1>3. Sound(r)
  BY <1>1, <1>2 DEF Sound
<1>4. Awaited(s) => Awaited(r)
  BY <1>2 DEF Awaited
<1>. QED
  BY <1>2, <1>3, <1>4 DEF r

\* The account r is the account s with all but what waits changed.
Becomes(s, a, h, g, o, e, r) ==
  /\ s \in Importers(s.alive) /\ h \in SUBSET Files /\ g \in Nat /\ o \in 0..255
  /\ e \in SUBSET {"Unconvertible", "NoLogFiles", "InvalidPath"}
  /\ r = [s EXCEPT !.alive = a, !.handles = h, !.progress = g, !.points = o, !.errors = e]

\* It is an account again.
LEMMA AccountChanged ==
  ASSUME NEW s, NEW a, NEW h, NEW g, NEW o, NEW e, NEW r, Becomes(s, a, h, g, o, e, r)
  PROVE  /\ r \in Importers(r.alive)
         /\ r.alive = a /\ r.handles = h /\ r.progress = g /\ r.points = o /\ r.errors = e
         /\ r.pending = s.pending
  BY ZenonT(60) DEF Becomes, Importers

\* Importers that are started use no points but those they are given.
LEMMA SpawnKeeps ==
  ASSUME NEW s, Sound(s), NEW fs \in SUBSET Files, IsFiniteSet(fs), fs # {},
         NEW p \in 1..255, p * Cardinality(fs) <= s.points
  PROVE  /\ Sound(spawn_importer(s, fs, p)) /\ Awaited(spawn_importer(s, fs, p))
         /\ spawn_importer(s, fs, p).pending = s.pending
<1>. DEFINE bad == fs \cap Unprintable
            new == fs \ (Unprintable \cup DOMAIN s.alive)
            r == spawn_importer(s, fs, p)
            S == DOMAIN s.alive
            b == Cardinality(bad)
            n == Cardinality(new)
<1>0. s.points \in 0..255 /\ s.progress \in Nat /\ s.handles \subseteq Files
  BY Fields
<1>1. /\ s \in Importers(s.alive) /\ S \subseteq Files /\ s.alive \in [S -> 1..255]
      /\ IsFiniteSet(S) /\ s.progress = Cardinality(S)
  BY DEF Sound
<1>2. IsFiniteSet(bad) /\ IsFiniteSet(new) /\ n <= Cardinality(fs) /\ b \in Nat /\ n \in Nat
  <2>1. bad \in SUBSET fs /\ new \in SUBSET fs
    OBVIOUS
  <2>. HIDE DEF bad, new
  <2>2. IsFiniteSet(bad) /\ IsFiniteSet(new) /\ Cardinality(new) <= Cardinality(fs)
    BY <2>1, FS_Subset
  <2>. QED
    BY <2>2, FS_CardinalityType
<1>. DEFINE a == [f \in S \cup new |-> IF f \in new THEN p ELSE s.alive[f]]
            h == s.handles \cup new
            g == s.progress + n
            o == (s.points + p * b - p * n) % 256
            e == IF bad = {} THEN s.errors ELSE s.errors \cup {"Unconvertible"}
<1>3. r = [s EXCEPT !.alive = a, !.handles = h, !.progress = g, !.points = o, !.errors = e]
  BY <1>1 DEF spawn_importer, Importers
<1>4. /\ r \in Importers(r.alive)
      /\ r.alive = a /\ r.handles = h /\ r.progress = g /\ r.points = o /\ r.errors = e
      /\ r.pending = s.pending
  <2>1. o \in 0..255
    <3>. DEFINE y == p * b
                z == p * n
    <3>1. y \in Nat /\ z \in Nat
      BY <1>2
    <3>. HIDE DEF y, z
    <3>2. s.points + y - z \in Int
      BY <1>0, <3>1
    <3>3. (s.points + y - z) % 256 \in 0..255
      BY <3>2
    <3>. QED
      BY <3>3 DEF y, z
  <2>2. g \in Nat
    BY <1>0, <1>2
  <2>3. h \in SUBSET Files
    BY <1>0
  <2>4. e \in SUBSET {"Unconvertible", "NoLogFiles", "InvalidPath"}
    <3>. HIDE DEF bad
    <3>1. s.errors \subseteq {"Unconvertible", "NoLogFiles", "InvalidPath"}
      BY Fields
    <3>. QED
      BY <3>1
  <2>5. s \in Importers(s.alive)
    BY <1>1
  <2>. HIDE DEF a, h, g, o, e, r
  <2>6. Becomes(s, a, h, g, o, e, r)
    BY <1>3, <2>1, <2>2, <2>3, <2>4, <2>5 DEF Becomes
  <2>. QED
    BY <2>6, AccountChanged
<1>5. DOMAIN r.alive = S \cup new /\ DOMAIN r.alive \subseteq Files
  BY <1>1, <1>4
<1>6. r.alive \in [S \cup new -> 1..255]
  BY <1>1, <1>4
<1>7. S \cap new = {}
  OBVIOUS
<1>8. IsFiniteSet(S \cup new) /\ r.progress = Cardinality(S \cup new)
  <2>. HIDE DEF S, new
  <2>1. IsFiniteSet(S \cup new)
        /\ Cardinality(S \cup new) = Cardinality(S) + Cardinality(new) - Cardinality(S \cap new)
    BY <1>1, <1>2, FS_Union
  <2>2. Cardinality(S \cap new) = 0
    BY <1>7, FS_EmptySet
  <2>3. s.progress + n = Cardinality(S) + Cardinality(new) - 0
    BY <1>0, <1>1, <1>2
  <2>. QED
    BY <2>1, <2>2, <2>3, <1>4
<1>9. ASSUME "Unconvertible" \notin r.errors
      PROVE  r.points + Cardinality(PointsInUse(r.alive)) = Parallelism
  <2>1. bad = {} /\ "Unconvertible" \notin s.errors
    BY <1>4, <1>9
  <2>2. s.points + Cardinality(PointsInUse(s.alive)) = Parallelism
    BY <2>1 DEF Sound
  <2>3. b = 0
    BY <2>1, FS_EmptySet, SMTT(60)
  <2>4. Joined(S, s.alive, new, p, r.alive)
    BY <1>1, <1>2, <1>4, <1>6, <1>7, SMTT(60) DEF Joined
  <2>5. Cardinality(new \X (1..p)) = p * n
    BY <1>2, PointsWorth, ZenonT(60)
  <2>6. p * n \in Nat /\ p * n <= s.points
    <3>1. Cardinality(fs) \in Nat
      BY FS_CardinalityType
    <3>. HIDE DEF n
    <3>2. p * n \in Nat /\ p * n <= p * Cardinality(fs)
      BY <1>2, <3>1
    <3>3. p * Cardinality(fs) \in Nat
      BY <3>1
    <3>. QED
      BY <1>0, <3>2, <3>3
  <2>7. r.points = s.points - p * n
    <3>1. \A x \in 0..255, z \in Nat : z <= x => (x + 0 - z) % 256 = x - z
      OBVIOUS
    <3>2. p * b = 0
      BY <2>3
    <3>. HIDE DEF r, n, b
    <3>. QED
      BY <1>0, <1>4, <2>6, <3>1, <3>2, ZenonT(60)
  <2>. HIDE DEF S, new, r, n
  <2>8. Cardinality(PointsInUse(r.alive)) = Cardinality(PointsInUse(s.alive)) + Cardinality(new \X (1..p))
    BY <2>4, PointsTaken
  <2>9. Cardinality(PointsInUse(s.alive)) \in Nat
    <3>1. IsFiniteSet(PointsInUse(s.alive))
      BY <1>1, InUseFinite
    <3>. QED
      BY <3>1, FS_CardinalityType
  <2>10. \A x, y, z, q \in Nat : q <= x /\ x + y = z => (x - q) + (y + q) = z
    OBVIOUS
  <2>11. Parallelism \in Nat
    BY BrokerAssumption
  <2>. QED
    BY <1>0, <2>2, <2>5, <2>6, <2>7, <2>8, <2>9, <2>10, <2>11
<1>10. Sound(r)
  <2>. HIDE DEF r, S, new
  <2>. QED
    BY <1>4, <1>5, <1>6, <1>8, <1>9 DEF Sound
<1>11. Awaited(r)
  <2>1. CASE bad # {}
    BY <2>1, <1>4 DEF Awaited
  <2>2. CASE bad = {}
    <3>1. S \cup new # {}
      BY <2>2
    <3>. HIDE DEF r, S, new
    <3>. QED
      BY <3>1, <1>5, <1>10, AliveIsAwaited DEF Awaited
  <2>. QED
    BY <2>1, <2>2
<1>. QED
  BY <1>4, <1>10, <1>11

\* The files of a sequence are no more than its length.
LEMMA FilesOfSeq ==
  ASSUME NEW q \in Seq(Files)
  PROVE  /\ ToSet(q) \subseteq Files /\ IsFiniteSet(ToSet(q))
         /\ Cardinality(ToSet(q)) \in Nat /\ Cardinality(ToSet(q)) <= Len(q)
<1>1. ToSet(q) \subseteq Files
  BY DEF ToSet
<1>. DEFINE I == 1 .. Len(q)
            T == ToSet(q)
<1>2. IsFiniteSet(I) /\ Cardinality(I) = Len(q)
  <2>1. 1 \in Int /\ Len(q) \in Int /\ Len(q) \in Nat
    OBVIOUS
  <2>2. IsFiniteSet(I) /\ Cardinality(I) = IF 1 > Len(q) THEN 0 ELSE Len(q) - 1 + 1
    BY <2>1, FS_Interval
  <2>. QED
    BY <2>1, <2>2
<1>3. q \in Surjection(I, T)
  BY DEF Surjection, ToSet
<1>. HIDE DEF I, T
<1>4. IsFiniteSet(T) /\ Cardinality(T) <= Cardinality(I)
  BY <1>2, <1>3, FS_Surjection
<1>5. Cardinality(T) \in Nat
  BY <1>4, FS_CardinalityType
<1>. QED
  BY <1>1, <1>2, <1>4, <1>5 DEF T

\* The files of a directory take no more points than there are.
LEMMA SpawnersKeep ==
  ASSUME NEW s, Sound(s), s.points # 0, NEW files \in Seq(Files)
  PROVE  Sound(spawn_importers(s, files)) /\ Awaited(spawn_importers(s, files))
<1>. DEFINE r == spawn_importers(s, files)
<1>0. s.points \in 1..255 /\ s.pending \in Seq(Paths) /\ Len(files) \in Nat
  BY Fields
<1>. DEFINE x == s.points
            k == Len(files)
<1>a. x \in 1..255 /\ x \in Nat
  <2>1. x \in 1..255
    BY <1>0
  <2>. HIDE DEF x
  <2>. QED
    BY <2>1
<1>b. k \in Nat
  BY <1>0
<1>1. CASE files = <<>>
  <2>1. r = PathError(s, "NoLogFiles")
    BY <1>1 DEF spawn_importers
  <2>. QED
    BY <2>1, ErrorKeeps
<1>2. CASE files # <<>> /\ s.points > Len(files)
  <2>. DEFINE p == s.points \div Len(files)
              fs == ToSet(files)
  <2>1. r = spawn_importer(s, fs, p)
    BY <1>2 DEF spawn_importers
  <2>2. Len(files) > 0
    BY <1>2
  <2>3. p \in 1..255
    <3>1. k > 0 /\ x > k
      BY <1>2, <2>2
    <3>. HIDE DEF x, k
    <3>2. x \div k \in 1..255
      BY <1>a, <1>b, <3>1
    <3>. QED
      BY <3>2 DEF x, k
  <2>4. fs \in SUBSET Files /\ IsFiniteSet(fs) /\ Cardinality(fs) \in Nat
        /\ Cardinality(fs) <= Len(files)
    BY FilesOfSeq
  <2>5. fs # {}
    BY <2>2 DEF ToSet
  <2>6. p * Cardinality(fs) <= s.points
    <3>. DEFINE m == Cardinality(fs)
    <3>1. k > 0 /\ m \in Nat /\ m <= k
      BY <2>2, <2>4
    <3>. HIDE DEF x, k, m
    <3>2. (x \div k) * m <= x
      BY <1>a, <1>b, <3>1, ShareFits
    <3>. QED
      BY <3>2 DEF x, k, m
  <2>. HIDE DEF p, fs
  <2>7. Sound(spawn_importer(s, fs, p)) /\ Awaited(spawn_importer(s, fs, p))
    BY <2>3, <2>4, <2>5, <2>6, SpawnKeeps
  <2>. QED
    BY <2>1, <2>7
<1>3. CASE files # <<>> /\ ~ (s.points > Len(files))
  <2>. DEFINE p == s.points
              fs == {Last(files)}
              t == spawn_importer(s, fs, p)
              q == t.pending \o Front(files)
  <2>1. r = [t EXCEPT !.pending = q]
    BY <1>3 DEF spawn_importers
  <2>2. Len(files) > 0 /\ Last(files) \in Files /\ Front(files) \in Seq(Files)
    BY <1>3 DEF Last, Front
  <2>3. fs \in SUBSET Files /\ IsFiniteSet(fs) /\ fs # {} /\ Cardinality(fs) = 1
    BY <2>2, FS_Singleton
  <2>4. p \in 1..255 /\ p * Cardinality(fs) <= s.points
    <3>. DEFINE m == Cardinality(fs)
    <3>1. m = 1
      BY <2>3
    <3>. HIDE DEF x, m
    <3>2. x * m <= x
      BY <1>a, <3>1
    <3>. QED
      BY <1>a, <3>2 DEF x, m
  <2>5. Sound(t) /\ Awaited(t) /\ t.pending = s.pending
    <3>. HIDE DEF p, fs
    <3>. QED
      BY <2>3, <2>4, SpawnKeeps
  <2>6. q \in Seq(Paths)
    <3>1. Front(files) \in Seq(Paths)
      BY <2>2 DEF Paths
    <3>. HIDE DEF t
    <3>. QED
      BY <1>0, <2>5, <3>1
  <2>. HIDE DEF t, q
  <2>7. Sound([t EXCEPT !.pending = q]) /\ Awaited([t EXCEPT !.pending = q])
    BY <2>5, <2>6, PendingKeeps
  <2>. QED
    BY <2>1, <2>7
<1>. QED
  BY <1>1, <1>2, <1>3

\* An import is begun, waits for an importer, or is refused.
LEMMA HandleImportKeeps ==
  ASSUME NEW s, Sound(s), NEW path \in Paths
  PROVE  Sound(handle_import(s, path)) /\ (Running => Awaited(handle_import(s, path)))
<1>. DEFINE r == handle_import(s, path)
<1>0. s.points \in 0..255 /\ s.pending \in Seq(Paths)
  BY Fields
<1>. DEFINE x == s.points
<1>a. x \in 0..255
  BY <1>0
<1>1. CASE ~ Running
  BY <1>1 DEF handle_import
<1>2. CASE Running /\ s.points = 0
  <2>. DEFINE q == Append(s.pending, path)
  <2>1. r = [s EXCEPT !.pending = q]
    BY <1>2 DEF handle_import
  <2>2. Awaited(s)
    BY <1>2, PointsAreAwaited
  <2>3. q \in Seq(Paths)
    BY <1>0
  <2>. HIDE DEF q
  <2>4. Sound([s EXCEPT !.pending = q]) /\ Awaited([s EXCEPT !.pending = q])
    BY <2>2, <2>3, PendingKeeps
  <2>. QED
    BY <2>1, <2>4
<1>3. CASE Running /\ s.points # 0 /\ path \in Files
  <2>. DEFINE p == s.points
              fs == {path}
  <2>1. r = spawn_importer(s, fs, p)
    BY <1>3 DEF handle_import
  <2>2. fs \in SUBSET Files /\ IsFiniteSet(fs) /\ fs # {} /\ Cardinality(fs) = 1
    BY <1>3, FS_Singleton
  <2>3. p \in 1..255 /\ p * Cardinality(fs) <= s.points
    <3>. DEFINE m == Cardinality(fs)
    <3>1. m = 1 /\ x # 0
      BY <1>3, <2>2
    <3>. HIDE DEF x, m
    <3>2. x \in 1..255 /\ x * m <= x
      BY <1>a, <3>1
    <3>. QED
      BY <3>2 DEF x, m
  <2>. HIDE DEF p, fs
  <2>4. Sound(spawn_importer(s, fs, p)) /\ Awaited(spawn_importer(s, fs, p))
    BY <2>2, <2>3, SpawnKeeps
  <2>. QED
    BY <2>1, <2>4
<1>4. CASE Running /\ s.points # 0 /\ path \notin Files /\ path \in DOMAIN Dirs
  <2>1. r = spawn_importers(s, Dirs[path])
    BY <1>4 DEF handle_import
  <2>2. Dirs[path] \in Seq(Files)
    BY <1>4, BrokerAssumption
  <2>. QED
    BY <1>4, <2>1, <2>2, SpawnersKeep
<1>5. CASE Running /\ s.points # 0 /\ path \notin Files /\ path \notin DOMAIN Dirs
  <2>1. r = PathError(s, "InvalidPath")
    BY <1>5 DEF handle_import
  <2>. QED
    BY <2>1, ErrorKeeps
<1>. QED
  BY <1>1, <1>2, <1>3, <1>4, <1>5

\* The account without an importer that has stopped.
Freed(s, f) == [s EXCEPT !.progress = @ - 1, !.alive = WithoutKey(@, f),
                         !.points = (@ + s.alive[f]) % 256]

\* The points of an importer that has stopped are back.
LEMMA FreedKeeps ==
  ASSUME NEW s, Sound(s), NEW f \in DOMAIN s.alive
  PROVE  Sound(Freed(s, f)) /\ Freed(s, f).pending = s.pending
<1>. DEFINE a == WithoutKey(s.alive, f)
            h == s.handles
            g == s.progress - 1
            o == (s.points + s.alive[f]) % 256
            e == s.errors
            r == Freed(s, f)
            S == DOMAIN s.alive
<1>0. /\ s.points \in 0..255 /\ s.progress \in Nat /\ s.handles \subseteq Files
      /\ s.errors \subseteq {"Unconvertible", "NoLogFiles", "InvalidPath"}
  BY Fields
<1>1. /\ s \in Importers(s.alive) /\ S \subseteq Files /\ s.alive \in [S -> 1..255]
      /\ IsFiniteSet(S) /\ s.progress = Cardinality(S)
  BY DEF Sound
<1>2. s.progress > 0
  BY AliveIsAwaited
<1>3. r = [s EXCEPT !.alive = a, !.handles = h, !.progress = g, !.points = o, !.errors = e]
  BY <1>1, ZenonT(60) DEF Freed, Importers
<1>4. o \in 0..255 /\ g \in Nat /\ h \in SUBSET Files
      /\ e \in SUBSET {"Unconvertible", "NoLogFiles", "InvalidPath"}
  <2>. DEFINE x == s.points
              y == s.alive[f]
  <2>1. x \in 0..255 /\ y \in 1..255
    BY <1>0, <1>1
  <2>2. (x + y) % 256 \in 0..255
    <3>. HIDE DEF x, y
    <3>1. x + y \in Int
      BY <2>1
    <3>. QED
      BY <3>1
  <2>3. g \in Nat
    BY <1>0, <1>2
  <2>. QED
    BY <1>0, <2>2, <2>3
<1>5. Becomes(s, a, h, g, o, e, r)
  BY <1>1, <1>3, <1>4 DEF Becomes
<1>6. /\ r \in Importers(r.alive)
      /\ r.alive = a /\ r.progress = g /\ r.points = o /\ r.errors = e
      /\ r.pending = s.pending
  <2>. HIDE DEF a, h, g, o, e, r
  <2>. QED
    BY <1>5, AccountChanged
<1>7. DOMAIN r.alive = S \ {f} /\ r.alive \in [S \ {f} -> 1..255] /\ S \ {f} \subseteq Files
  BY <1>1, <1>6 DEF WithoutKey
<1>8. IsFiniteSet(S \ {f}) /\ r.progress = Cardinality(S \ {f})
  <2>1. IsFiniteSet(S \ {f}) /\ Cardinality(S \ {f}) = Cardinality(S) - 1
    BY <1>1, FS_RemoveElement
  <2>. QED
    BY <1>1, <1>6, <2>1
<1>9. ASSUME "Unconvertible" \notin r.errors
      PROVE  r.points + Cardinality(PointsInUse(r.alive)) = Parallelism
  <2>1. s.points + Cardinality(PointsInUse(s.alive)) = Parallelism
    BY <1>6, <1>9 DEF Sound
  <2>2. Cardinality(PointsInUse(s.alive)) = Cardinality(PointsInUse(a)) + s.alive[f]
    BY <1>1, PointsReturned
  <2>3. Cardinality(PointsInUse(a)) \in Nat
    <3>. HIDE DEF a, r, S
    <3>1. IsFiniteSet(PointsInUse(a))
      BY <1>6, <1>7, <1>8, InUseFinite
    <3>. QED
      BY <3>1, FS_CardinalityType
  <2>4. Parallelism \in 1..255 /\ s.alive[f] \in 1..255
    BY <1>1, BrokerAssumption
  <2>. DEFINE x == s.points
              y == s.alive[f]
              c == Cardinality(PointsInUse(a))
  <2>5. x \in 0..255 /\ y \in 1..255 /\ c \in Nat /\ x + (c + y) = Parallelism
    BY <1>0, <2>1, <2>2, <2>3, <2>4
  <2>6. r.points = (x + y) % 256 /\ Cardinality(PointsInUse(r.alive)) = c
    BY <1>6
  <2>. HIDE DEF x, y, c, r
  <2>7. x + y \in 0..255
    BY <2>4, <2>5
  <2>8. (x + y) % 256 = x + y
    BY <2>7
  <2>. QED
    BY <2>4, <2>5, <2>6, <2>8
<1>10. Sound(r)
  <2>. HIDE DEF r, S
  <2>. QED
    BY <1>6, <1>7, <1>8, <1>9 DEF Sound
<1>. QED
  BY <1>6, <1>10

-----------------------------------------------------------------------------
(* The steps. *)

\* What the broker keeps of its importers.
ImportsOK == Sound(imports) /\ PendingHasImporter

\* What it keeps of its clients.
ClientTypes ==
  /\ mqtt \in [Urls -> {"none", "starting", "up", "leaving"}]
  /\ mqtts \subseteq Urls
  /\ mqttHandles \in UNION {[S -> {"live", "stale"}] : S \in SUBSET Urls}
  /\ askedToShutdown \subseteq Urls
  /\ config \subseteq Urls
  /\ newSecond \in BOOLEAN
  /\ overwritten \in BOOLEAN
ClientsOK == ClientTypes /\ MqttReachable /\ InUseIsConfigured

\* The rest of the types.
OtherTypes ==
  /\ service \in {"Running", "Stopping", "Ended"}
  /\ status \in {"Ok", "Abort", "Restart"}
  /\ handle \in BOOLEAN
  /\ core \subseteq Core
  /\ asks \in [imports : Nat, adds : Nat]
  /\ socket \in {"none", "starting", "open", "closing"}

\* The invariant.
Inv == ImportsOK /\ ClientsOK /\ OtherTypes

\* It is what the runs check, in three parts: nothing had to be added.
LEMMA InvParts == Inv <=> BrokerInv /\ InUseIsConfigured
<1>1. BrokerInv /\ InUseIsConfigured => Inv
  <2>1. BrokerInv => Sound(imports)
    BY DEF BrokerInv, TypeOK, PointsExact, Sound
  <2>2. BrokerInv => PendingHasImporter /\ MqttReachable
    BY DEF BrokerInv
  <2>3. BrokerInv => ClientTypes
    BY DEF BrokerInv, TypeOK, ClientTypes
  <2>4. BrokerInv => OtherTypes
    BY DEF BrokerInv, TypeOK, OtherTypes
  <2>. QED
    BY <2>1, <2>2, <2>3, <2>4 DEF Inv, ImportsOK, ClientsOK
<1>2. Inv => BrokerInv /\ InUseIsConfigured
  <2>1. Inv => TypeOK
    BY DEF Inv, ImportsOK, ClientsOK, ClientTypes, OtherTypes, Sound, TypeOK
  <2>2. Inv => PointsExact
    BY DEF Inv, ImportsOK, Sound, PointsExact
  <2>. QED
    BY <2>1, <2>2 DEF Inv, ImportsOK, ClientsOK, BrokerInv
<1>. QED
  BY <1>1, <1>2

\* Nothing changes for the importers while the service goes on or stops.
LEMMA ImportsQuiet ==
  ASSUME ImportsOK, imports' = imports, Running' => Running
  PROVE  ImportsOK'
<1>1. Sound(imports)'
  BY DEF ImportsOK, Sound, Importers, Paths, PointsInUse
<1>2. PendingHasImporter'
  BY DEF ImportsOK, PendingHasImporter, Running
<1>. QED
  BY <1>1, <1>2 DEF ImportsOK

\* Nothing changes for the clients.
LEMMA ClientsQuiet ==
  ASSUME ClientsOK, UNCHANGED <<mqttVars, newSecond>>, Running' => Running
  PROVE  ClientsOK'
<1>1. ClientTypes'
  BY DEF ClientsOK, ClientTypes, mqttVars
<1>2. MqttReachable'
  BY DEF ClientsOK, MqttReachable, Running, mqttVars
<1>3. InUseIsConfigured'
  BY DEF ClientsOK, InUseIsConfigured, mqttVars
<1>. QED
  BY <1>1, <1>2, <1>3 DEF ClientsOK

\* An import is asked for.
LEMMA ImportKeeps ==
  ASSUME ImportsOK, ClientsOK, OtherTypes, NEW path \in Paths, Import(path)
  PROVE  ImportsOK' /\ ClientsOK' /\ OtherTypes'
<1>1. /\ imports' = handle_import(imports, path)
      /\ UNCHANGED <<service, status, handle, core, mqttVars, newSecond, socket>>
  BY DEF Import
<1>2. Running' = Running
  BY <1>1 DEF Running
<1>. DEFINE r == handle_import(imports, path)
<1>3. Sound(r) /\ (Running => Awaited(r))
  BY HandleImportKeeps DEF ImportsOK
<1>. HIDE DEF r
<1>4. Sound(imports)' /\ PendingHasImporter'
  <2>1. imports' = r
    BY <1>1 DEF r
  <2>2. Sound(imports)'
    BY <2>1, <1>3 DEF Sound, Importers, Paths, PointsInUse
  <2>3. PendingHasImporter'
    BY <2>1, <1>2, <1>3 DEF PendingHasImporter, Awaited
  <2>. QED
    BY <2>2, <2>3
<1>5. OtherTypes'
  <2>1. asks' \in [imports : Nat, adds : Nat]
    BY DEF Import, OtherTypes
  <2>. QED
    BY <1>1, <2>1 DEF OtherTypes
<1>6. ClientsOK'
  BY <1>1, <1>2, ClientsQuiet
<1>. QED
  BY <1>4, <1>5, <1>6 DEF ImportsOK

\* An importer stops.
LEMMA ImporterStoppedKeeps ==
  ASSUME ImportsOK, ClientsOK, OtherTypes, NEW f \in Files, ImporterStopped(f)
  PROVE  ImportsOK' /\ ClientsOK' /\ OtherTypes'
<1>. DEFINE freed == Freed(imports, f)
            next == IF freed.pending = <<>> THEN freed
                    ELSE handle_import([freed EXCEPT !.pending = Front(@)], Last(freed.pending))
            h == next.handles \ {f}
<1>1. /\ f \in DOMAIN imports.alive
      /\ imports' = [next EXCEPT !.handles = h]
      /\ UNCHANGED <<service, status, handle, core, asks, mqttVars, newSecond, socket>>
  BY DEF ImporterStopped, Freed
<1>2. Running' = Running
  BY <1>1 DEF Running
<1>3. Sound(freed) /\ freed.pending = imports.pending
  BY <1>1, FreedKeeps DEF ImportsOK
<1>4. Sound(next) /\ (Running /\ next.pending # <<>> => Awaited(next))
  <2>. HIDE DEF freed
  <2>1. CASE freed.pending = <<>>
    BY <2>1, <1>3
  <2>2. CASE freed.pending # <<>>
    <3>. DEFINE q == Front(freed.pending)
                s == [freed EXCEPT !.pending = q]
                path == Last(freed.pending)
    <3>1. freed.pending \in Seq(Paths)
      BY <1>3, Fields
    <3>2. q \in Seq(Paths) /\ path \in Paths
      <4>. DEFINE w == freed.pending
      <4>1. w \in Seq(Paths) /\ w # <<>>
        BY <3>1, <2>2
      <4>. HIDE DEF w
      <4>2. Len(w) \in Nat /\ Len(w) > 0
        BY <4>1
      <4>3. Front(w) \in Seq(Paths) /\ Last(w) \in Paths
        BY <4>1, <4>2 DEF Front, Last
      <4>. QED
        BY <4>3 DEF w
    <3>3. Sound(s)
      <4>. HIDE DEF q
      <4>. QED
        BY <3>2, <1>3, PendingKeeps
    <3>4. next = handle_import(s, path)
      BY <2>2
    <3>. HIDE DEF s, path, next
    <3>5. Sound(handle_import(s, path)) /\ (Running => Awaited(handle_import(s, path)))
      BY <3>2, <3>3, HandleImportKeeps
    <3>. QED
      BY <3>4, <3>5
  <2>. QED
    BY <2>1, <2>2
<1>5. Sound(imports)' /\ PendingHasImporter'
  <2>. HIDE DEF next
  <2>1. h \in SUBSET Files
    BY <1>4, Fields
  <2>. DEFINE r == [next EXCEPT !.handles = h]
  <2>2. Sound(r) /\ (Awaited(next) => Awaited(r)) /\ r.pending = next.pending
    <3>. HIDE DEF h
    <3>. QED
      BY <1>4, <2>1, HandlesKeep
  <2>3. imports' = r
    BY <1>1
  <2>. HIDE DEF r
  <2>4. Sound(imports)'
    BY <2>2, <2>3 DEF Sound, Importers, Paths, PointsInUse
  <2>5. PendingHasImporter'
    BY <1>2, <1>4, <2>2, <2>3 DEF PendingHasImporter, Awaited
  <2>. QED
    BY <2>4, <2>5
<1>6. OtherTypes'
  BY <1>1 DEF OtherTypes
<1>7. ClientsOK'
  BY <1>1, <1>2, ClientsQuiet
<1>. QED
  BY <1>5, <1>6, <1>7 DEF ImportsOK

\* The latest record is the one made, unless two were made in one second.
LEMMA HistoryIsUpdated ==
  ASSUME ClientTypes, NEW c \in SUBSET Urls, UpdateHistory(c)
  PROVE  /\ config' \subseteq Urls /\ newSecond' \in BOOLEAN /\ overwritten' \in BOOLEAN
         /\ ~ overwritten' => ~ overwritten /\ config' = c
<1>1. config' \subseteq Urls
  BY DEF ClientTypes, UpdateHistory
<1>2. newSecond' \in BOOLEAN
  BY DEF UpdateHistory
<1>3. overwritten' \in BOOLEAN
  BY DEF UpdateHistory
<1>4. ~ overwritten' => ~ overwritten
  BY DEF UpdateHistory
<1>5. ~ overwritten' => config' = c
  BY DEF UpdateHistory
<1>. QED
  BY <1>1, <1>2, <1>3, <1>4, <1>5

\* A handle more, or one less, and the handles are as they should be.
LEMMA HandlesAre ==
  ASSUME NEW h \in UNION {[S -> {"live", "stale"}] : S \in SUBSET Urls}, NEW u \in Urls,
         NEW v \in {"live", "stale"}
  PROVE  /\ With(h, u, v) \in UNION {[S -> {"live", "stale"}] : S \in SUBSET Urls}
         /\ WithoutKey(h, u) \in UNION {[S -> {"live", "stale"}] : S \in SUBSET Urls}
<1>1. PICK S \in SUBSET Urls : h \in [S -> {"live", "stale"}]
  OBVIOUS
<1>2. With(h, u, v) \in [S \cup {u} -> {"live", "stale"}] /\ S \cup {u} \in SUBSET Urls
  BY <1>1 DEF With
<1>3. WithoutKey(h, u) \in [S \ {u} -> {"live", "stale"}] /\ S \ {u} \in SUBSET Urls
  BY <1>1 DEF WithoutKey
<1>. QED
  BY <1>2, <1>3

\* A step that leaves the importers and the service alone and keeps the clients.
LEMMA OnlyClients ==
  ASSUME ImportsOK, OtherTypes, UNCHANGED <<service, status, handle, core, imports, socket>>,
         asks' \in [imports : Nat, adds : Nat]
  PROVE  ImportsOK' /\ OtherTypes'
<1>1. ImportsOK'
  BY ImportsQuiet DEF Running
<1>2. OtherTypes'
  BY DEF OtherTypes
<1>. QED
  BY <1>1, <1>2

\* A client is added.
LEMMA AddMqttKeeps ==
  ASSUME ClientsOK, OtherTypes, NEW u \in Urls, AddMqtt(u)
  PROVE  ClientsOK' /\ asks' \in [imports : Nat, adds : Nat]
<1>1. /\ mqtt' = [mqtt EXCEPT ![u] = "starting"] /\ mqtts' = mqtts \cup {u}
      /\ UpdateHistory(config \cup {u})
      /\ UNCHANGED <<service, mqttHandles, askedToShutdown>>
  BY DEF AddMqtt, add_mqtt
<1>2. ClientTypes
  BY DEF ClientsOK
<1>. DEFINE c == config \cup {u}
<1>3. c \in SUBSET Urls /\ UpdateHistory(c)
  BY <1>1, <1>2 DEF ClientTypes
<1>4. /\ config' \subseteq Urls /\ newSecond' \in BOOLEAN /\ overwritten' \in BOOLEAN
      /\ ~ overwritten' => ~ overwritten /\ config' = c
  <2>. HIDE DEF c
  <2>. QED
    BY <1>2, <1>3, HistoryIsUpdated
<1>5. ClientTypes'
  <2>1. mqtt' \in [Urls -> {"none", "starting", "up", "leaving"}]
    BY <1>1, <1>2 DEF ClientTypes
  <2>2. mqtts' \subseteq Urls
    BY <1>1, <1>2 DEF ClientTypes
  <2>. QED
    BY <1>1, <1>2, <1>4, <2>1, <2>2 DEF ClientTypes
<1>6. MqttReachable'
  BY <1>1, <1>2 DEF ClientsOK, MqttReachable, ClientTypes, Running
<1>7. InUseIsConfigured'
  BY <1>1, <1>2, <1>4 DEF ClientsOK, InUseIsConfigured, ClientTypes
<1>8. asks' \in [imports : Nat, adds : Nat]
  BY DEF AddMqtt, OtherTypes
<1>. QED
  BY <1>5, <1>6, <1>7, <1>8 DEF ClientsOK

\* A client is to be removed.
LEMMA RemoveMqttKeeps ==
  ASSUME ClientsOK, NEW u \in Urls, RemoveMqtt(u)
  PROVE  ClientsOK'
<1>1. askedToShutdown' = askedToShutdown \cup {u} /\ UNCHANGED <<service, mqtts>>
  BY DEF RemoveMqtt
<1>2. ClientTypes
  BY DEF ClientsOK
<1>3. CASE u \in DOMAIN mqttHandles
  <2>. DEFINE c == config \ {u}
  <2>1. /\ mqtt' = IF mqttHandles[u] = "live" THEN [mqtt EXCEPT ![u] = "leaving"] ELSE mqtt
        /\ mqttHandles' = WithoutKey(mqttHandles, u)
        /\ UpdateHistory(c)
    BY <1>3 DEF RemoveMqtt
  <2>2. /\ config' \subseteq Urls /\ newSecond' \in BOOLEAN /\ overwritten' \in BOOLEAN
        /\ ~ overwritten' => ~ overwritten /\ config' = c
    <3>1. c \in SUBSET Urls
      BY <1>2 DEF ClientTypes
    <3>. HIDE DEF c
    <3>. QED
      BY <1>2, <2>1, <3>1, HistoryIsUpdated
  <2>3. ClientTypes'
    <3>1. mqtt' \in [Urls -> {"none", "starting", "up", "leaving"}]
      BY <1>2, <2>1 DEF ClientTypes
    <3>2. mqttHandles' \in UNION {[S -> {"live", "stale"}] : S \in SUBSET Urls}
      BY <1>2, <2>1, HandlesAre DEF ClientTypes
    <3>3. askedToShutdown' \subseteq Urls
      BY <1>1, <1>2 DEF ClientTypes
    <3>. QED
      BY <1>1, <1>2, <2>2, <3>1, <3>2, <3>3 DEF ClientTypes
  <2>4. MqttReachable'
    <3>1. SUFFICES ASSUME Running, NEW w \in Urls, mqtt'[w] = "up"
                   PROVE  w \in DOMAIN mqttHandles' /\ mqttHandles'[w] = "live"
      BY <1>1 DEF MqttReachable, Running
    <3>2. mqtt[w] = "up"
      BY <1>2, <2>1, <3>1 DEF ClientTypes
    <3>3. w \in DOMAIN mqttHandles /\ mqttHandles[w] = "live"
      BY <3>1, <3>2 DEF ClientsOK, MqttReachable
    <3>4. w # u
      BY <1>2, <2>1, <3>1, <3>3 DEF ClientTypes
    <3>. QED
      BY <2>1, <3>3, <3>4 DEF WithoutKey
  <2>5. InUseIsConfigured'
    BY <1>1, <1>2, <2>1, <2>2 DEF ClientsOK, InUseIsConfigured, ClientTypes
  <2>. QED
    BY <2>3, <2>4, <2>5 DEF ClientsOK
<1>4. CASE u \notin DOMAIN mqttHandles
  <2>1. UNCHANGED <<mqtt, mqttHandles, config, newSecond, overwritten>>
    BY <1>4 DEF RemoveMqtt
  <2>2. ClientTypes'
    BY <1>1, <1>2, <2>1 DEF ClientTypes
  <2>3. MqttReachable'
    BY <1>1, <2>1 DEF ClientsOK, MqttReachable, Running
  <2>4. InUseIsConfigured'
    BY <1>1, <2>1 DEF ClientsOK, InUseIsConfigured
  <2>. QED
    BY <2>2, <2>3, <2>4 DEF ClientsOK
<1>. QED
  BY <1>3, <1>4

\* A client is connected.
LEMMA MqttUpKeeps ==
  ASSUME ClientsOK, NEW u \in Urls, MqttUp(u)
  PROVE  ClientsOK'
<1>1. /\ mqtt[u] = "starting"
      /\ mqtt' = [mqtt EXCEPT ![u] = IF Running THEN "up" ELSE "leaving"]
      /\ mqttHandles' = IF Running THEN With(mqttHandles, u, "live") ELSE mqttHandles
      /\ UNCHANGED <<service, mqtts, askedToShutdown, config, newSecond, overwritten>>
  BY DEF MqttUp
<1>2. ClientTypes
  BY DEF ClientsOK
<1>3. ClientTypes'
  <2>1. mqtt' \in [Urls -> {"none", "starting", "up", "leaving"}]
    BY <1>1, <1>2 DEF ClientTypes
  <2>2. mqttHandles' \in UNION {[S -> {"live", "stale"}] : S \in SUBSET Urls}
    BY <1>1, <1>2, HandlesAre DEF ClientTypes
  <2>. QED
    BY <1>1, <1>2, <2>1, <2>2 DEF ClientTypes
<1>4. MqttReachable'
  <2>1. SUFFICES ASSUME Running, NEW w \in Urls, mqtt'[w] = "up"
                 PROVE  w \in DOMAIN mqttHandles' /\ mqttHandles'[w] = "live"
    BY <1>1 DEF MqttReachable, Running
  <2>2. mqttHandles' = With(mqttHandles, u, "live")
    BY <1>1, <2>1
  <2>3. w # u => w \in DOMAIN mqttHandles /\ mqttHandles[w] = "live"
    BY <1>1, <1>2, <2>1 DEF ClientTypes, ClientsOK, MqttReachable
  <2>. QED
    BY <2>2, <2>3 DEF With
<1>5. InUseIsConfigured'
  BY <1>1, <1>2 DEF ClientsOK, InUseIsConfigured, ClientTypes
<1>. QED
  BY <1>3, <1>4, <1>5 DEF ClientsOK

\* A client that is gone leaves at most a handle that is stale behind.
LEMMA GoneKeeps ==
  ASSUME ClientsOK, NEW u \in Urls, NEW v \in {"none", "starting"},
         mqtt' = [mqtt EXCEPT ![u] = v], mqttHandles' \in {mqttHandles, Stale(u)},
         Running' => Running
  PROVE  /\ mqtt' \in [Urls -> {"none", "starting", "up", "leaving"}]
         /\ mqttHandles' \in UNION {[S -> {"live", "stale"}] : S \in SUBSET Urls}
         /\ MqttReachable'
<1>1. ClientTypes
  BY DEF ClientsOK
<1>2. mqtt' \in [Urls -> {"none", "starting", "up", "leaving"}]
  BY <1>1 DEF ClientTypes
<1>3. mqttHandles' \in UNION {[S -> {"live", "stale"}] : S \in SUBSET Urls}
  BY <1>1, HandlesAre DEF ClientTypes, Stale
<1>4. MqttReachable'
  <2>1. SUFFICES ASSUME Running, NEW w \in Urls, mqtt'[w] = "up"
                 PROVE  w \in DOMAIN mqttHandles' /\ mqttHandles'[w] = "live"
    BY DEF MqttReachable
  <2>2. w # u /\ mqtt[w] = "up"
    BY <1>1, <2>1 DEF ClientTypes
  <2>3. w \in DOMAIN mqttHandles /\ mqttHandles[w] = "live"
    BY <2>1, <2>2 DEF ClientsOK, MqttReachable
  <2>. QED
    BY <2>2, <2>3 DEF Stale, With
<1>. QED
  BY <1>2, <1>3, <1>4

\* A client has lost its connection.
LEMMA MqttLostKeeps ==
  ASSUME ClientsOK, NEW u \in Urls, MqttLost(u)
  PROVE  ClientsOK'
<1>1. ClientTypes
  BY DEF ClientsOK
<1>2. mqttHandles' = Stale(u) /\ UNCHANGED service
  BY DEF MqttLost
<1>3. Running' = Running
  BY <1>2 DEF Running
<1>4. CASE Running /\ u \notin askedToShutdown /\ add_mqtt(u) /\ UNCHANGED askedToShutdown
  <2>. DEFINE c == config \cup {u}
  <2>1. /\ mqtt' = [mqtt EXCEPT ![u] = "starting"] /\ mqtts' = mqtts \cup {u}
        /\ UpdateHistory(c)
    BY <1>4 DEF add_mqtt
  <2>2. /\ config' \subseteq Urls /\ newSecond' \in BOOLEAN /\ overwritten' \in BOOLEAN
        /\ ~ overwritten' => ~ overwritten /\ config' = c
    <3>1. c \in SUBSET Urls
      BY <1>1 DEF ClientTypes
    <3>. HIDE DEF c
    <3>. QED
      BY <1>1, <2>1, <3>1, HistoryIsUpdated
  <2>3. /\ mqtt' \in [Urls -> {"none", "starting", "up", "leaving"}]
        /\ mqttHandles' \in UNION {[S -> {"live", "stale"}] : S \in SUBSET Urls}
        /\ MqttReachable'
    BY <1>2, <1>3, <2>1, GoneKeeps
  <2>4. ClientTypes'
    BY <1>1, <1>4, <2>1, <2>2, <2>3 DEF ClientTypes
  <2>5. InUseIsConfigured'
    BY <1>1, <1>4, <2>1, <2>2 DEF ClientsOK, InUseIsConfigured, ClientTypes
  <2>. QED
    BY <2>3, <2>4, <2>5 DEF ClientsOK
<1>5. CASE /\ mqtt' = [mqtt EXCEPT ![u] = "none"] /\ mqtts' \subseteq mqtts
           /\ askedToShutdown' \in {askedToShutdown, askedToShutdown \ {u}}
           /\ UNCHANGED <<config, newSecond, overwritten>>
  <2>1. /\ mqtt' \in [Urls -> {"none", "starting", "up", "leaving"}]
        /\ mqttHandles' \in UNION {[S -> {"live", "stale"}] : S \in SUBSET Urls}
        /\ MqttReachable'
    BY <1>2, <1>3, <1>5, GoneKeeps
  <2>2. ClientTypes'
    BY <1>1, <1>5, <2>1 DEF ClientTypes
  <2>3. InUseIsConfigured'
    BY <1>1, <1>5 DEF ClientsOK, InUseIsConfigured, ClientTypes
  <2>. QED
    BY <2>1, <2>2, <2>3 DEF ClientsOK
<1>. QED
  BY <1>4, <1>5 DEF MqttLost

\* The stream of a client has ended, or its url is no good.
LEMMA MqttGoneKeeps ==
  ASSUME ClientsOK, NEW u \in Urls, MqttStopped(u) \/ MqttAborted(u)
  PROVE  ClientsOK'
<1>1. /\ mqtt' = [mqtt EXCEPT ![u] = "none"] /\ mqttHandles' \in {mqttHandles, Stale(u)}
      /\ mqtts' \subseteq mqtts
      /\ UNCHANGED <<service, askedToShutdown, config, newSecond, overwritten>>
  BY DEF MqttStopped, MqttAborted
<1>2. ClientTypes /\ Running' = Running
  BY <1>1 DEF ClientsOK, Running
<1>3. /\ mqtt' \in [Urls -> {"none", "starting", "up", "leaving"}]
      /\ mqttHandles' \in UNION {[S -> {"live", "stale"}] : S \in SUBSET Urls}
      /\ MqttReachable'
  BY <1>1, <1>2, GoneKeeps
<1>4. ClientTypes'
  BY <1>1, <1>2, <1>3 DEF ClientTypes
<1>5. InUseIsConfigured'
  BY <1>1, <1>2 DEF ClientsOK, InUseIsConfigured, ClientTypes
<1>. QED
  BY <1>3, <1>4, <1>5 DEF ClientsOK

\* The broker tells everyone to stop.
LEMMA ShutdownKeeps ==
  ASSUME ImportsOK, ClientsOK, OtherTypes, NEW drop \in BOOLEAN, shutdown(drop),
         UNCHANGED <<mqtts, askedToShutdown, config, newSecond, overwritten>>
  PROVE  /\ ImportsOK' /\ ClientsOK'
         /\ service' \in {"Running", "Stopping", "Ended"} /\ handle' \in BOOLEAN
         /\ socket' \in {"none", "starting", "open", "closing"}
<1>1. ClientTypes
  BY DEF ClientsOK
<1>2. CASE ~ Running
  <2>1. UNCHANGED <<service, handle, mqtt, mqttHandles, imports, socket>>
    BY <1>2 DEF shutdown
  <2>2. UNCHANGED <<mqttVars, newSecond>> /\ imports' = imports /\ (Running' => Running)
    BY <2>1 DEF mqttVars, Running
  <2>3. ImportsOK'
    BY <2>2, ImportsQuiet
  <2>4. ClientsOK'
    BY <2>2, ClientsQuiet
  <2>. QED
    BY <2>1, <2>3, <2>4 DEF OtherTypes
<1>3. CASE Running
  <2>1. /\ service' = "Stopping"
        /\ mqtt' = [u \in Urls |-> IF mqtt[u] = "up" THEN "leaving" ELSE mqtt[u]]
        /\ mqttHandles' = <<>>
        /\ socket' = IF socket = "open" THEN "closing" ELSE socket
        /\ handle' = (handle /\ ~drop)
    BY <1>3 DEF shutdown
  <2>2. ~ Running'
    BY <2>1 DEF Running
  <2>. DEFINE r == [imports EXCEPT !.handles = {}]
  <2>3. imports' = r
    BY <1>3 DEF shutdown
  <2>4. Sound(r)
    <3>1. {} \in SUBSET Files
      OBVIOUS
    <3>. QED
      BY <3>1, HandlesKeep DEF ImportsOK
  <2>5. ImportsOK'
    <3>. HIDE DEF r
    <3>1. Sound(imports)'
      BY <2>3, <2>4 DEF Sound, Importers, Paths, PointsInUse
    <3>2. PendingHasImporter'
      BY <2>2 DEF PendingHasImporter
    <3>. QED
      BY <3>1, <3>2 DEF ImportsOK
  <2>6. ClientTypes'
    <3>1. mqtt' \in [Urls -> {"none", "starting", "up", "leaving"}]
      BY <1>1, <2>1 DEF ClientTypes
    <3>2. mqttHandles' \in UNION {[S -> {"live", "stale"}] : S \in SUBSET Urls}
      <4>1. mqttHandles' \in [{} -> {"live", "stale"}] /\ {} \in SUBSET Urls
        BY <2>1
      <4>. QED
        BY <4>1
    <3>. QED
      BY <1>1, <3>1, <3>2 DEF ClientTypes
  <2>7. MqttReachable'
    BY <2>2 DEF MqttReachable
  <2>8. InUseIsConfigured'
    BY <1>1, <2>1 DEF ClientsOK, InUseIsConfigured, ClientTypes
  <2>9. handle' \in BOOLEAN
    BY <2>1
  <2>10. socket' \in {"none", "starting", "open", "closing"}
    BY <2>1 DEF OtherTypes
  <2>. QED
    BY <2>1, <2>5, <2>6, <2>7, <2>8, <2>9, <2>10 DEF ClientsOK
<1>. QED
  BY <1>2, <1>3

-----------------------------------------------------------------------------
(* Invariance. *)

\* The broker starts with all its points and its configured clients.
LEMMA InitInv == Init => Inv
<1>. SUFFICES ASSUME Init PROVE Inv
  OBVIOUS
<1>. USE DEF Init
<1>1. Sound(imports)
  <2>1. imports = [points |-> Parallelism, alive |-> <<>>, progress |-> 0, pending |-> <<>>,
                   handles |-> {}, errors |-> {}]
    BY DEF NoImports
  <2>2. Parallelism \in 1..255
    BY BrokerAssumption
  <2>3. DOMAIN imports.alive = {} /\ imports.alive \in [{} -> 1..255]
    BY <2>1
  <2>4. PointsInUse(imports.alive) = {}
    BY <2>3 DEF PointsInUse
  <2>5. IsFiniteSet({}) /\ Cardinality({}) = 0
    BY FS_EmptySet
  <2>6. imports \in Importers(imports.alive)
    BY <2>1, <2>2 DEF Importers
  <2>7. imports.points + Cardinality(PointsInUse(imports.alive)) = Parallelism
    <3>1. imports.points = Parallelism /\ Cardinality(PointsInUse(imports.alive)) = 0
      <4>1. imports.points = Parallelism
        BY <2>1
      <4>2. Cardinality(PointsInUse(imports.alive)) = 0
        BY <2>4, <2>5, Zenon
      <4>. QED
        BY <4>1, <4>2
    <3>2. \A x \in 1..255 : x + 0 = x
      OBVIOUS
    <3>. QED
      BY <2>2, <3>1, <3>2
  <2>. QED
    BY <2>1, <2>3, <2>5, <2>6, <2>7 DEF Sound
<1>2. PendingHasImporter
  BY DEF PendingHasImporter, NoImports
<1>3. ClientTypes
  <2>1. mqtt \in [Urls -> {"none", "starting", "up", "leaving"}]
    OBVIOUS
  <2>2. mqttHandles \in UNION {[S -> {"live", "stale"}] : S \in SUBSET Urls}
    <3>1. mqttHandles \in [{} -> {"live", "stale"}] /\ {} \in SUBSET Urls
      OBVIOUS
    <3>. QED
      BY <3>1
  <2>. QED
    BY <2>1, <2>2 DEF ClientTypes
<1>4. MqttReachable
  BY DEF MqttReachable
<1>5. InUseIsConfigured
  BY DEF InUseIsConfigured
<1>6. OtherTypes
  BY DEF OtherTypes
<1>. QED
  BY <1>1, <1>2, <1>3, <1>4, <1>5, <1>6 DEF Inv, ImportsOK, ClientsOK

\* Every step keeps it.
LEMMA NextInv == Inv /\ [Next]_vars => Inv'
<1>. SUFFICES ASSUME Inv, [Next]_vars PROVE Inv'
  OBVIOUS
<1>0. ImportsOK /\ ClientsOK /\ OtherTypes
  BY DEF Inv
<1>. DEFINE Kept == ImportsOK' /\ ClientsOK' /\ OtherTypes'
            Aside == /\ UNCHANGED <<mqttVars, newSecond>> /\ imports' = imports
                     /\ (Running' => Running)
<1>1. ASSUME Aside PROVE ImportsOK' /\ ClientsOK'
  BY <1>0, <1>1, ImportsQuiet, ClientsQuiet
<1>2. ASSUME NEW u \in Urls, ClientsOK',
             UNCHANGED <<service, status, handle, core, imports, socket>>,
             asks' \in [imports : Nat, adds : Nat]
      PROVE  Kept
  BY <1>0, <1>2, OnlyClients
<1>3. ASSUME NEW path \in Paths, Import(path) PROVE Kept
  BY <1>0, <1>3, ImportKeeps
<1>4. ASSUME NEW f \in Files, ImporterStopped(f) PROVE Kept
  BY <1>0, <1>4, ImporterStoppedKeeps
<1>5. ASSUME NEW u \in Urls, AddMqtt(u) PROVE Kept
  <2>1. ClientsOK' /\ asks' \in [imports : Nat, adds : Nat]
    BY <1>0, <1>5, AddMqttKeeps
  <2>2. UNCHANGED <<service, status, handle, core, imports, socket>>
    BY <1>5 DEF AddMqtt
  <2>. QED
    BY <1>2, <2>1, <2>2
<1>6. ASSUME NEW u \in Urls, RemoveMqtt(u) PROVE Kept
  <2>1. UNCHANGED <<service, status, handle, core, imports, asks, socket>>
    BY <1>6 DEF RemoveMqtt
  <2>2. ClientsOK' /\ asks' \in [imports : Nat, adds : Nat]
    BY <1>0, <1>6, <2>1, RemoveMqttKeeps DEF OtherTypes
  <2>. QED
    BY <1>2, <2>1, <2>2
<1>7. ASSUME NEW u \in Urls, MqttUp(u) PROVE Kept
  <2>1. UNCHANGED <<service, status, handle, core, imports, asks, socket>>
    BY <1>7 DEF MqttUp
  <2>2. ClientsOK' /\ asks' \in [imports : Nat, adds : Nat]
    BY <1>0, <1>7, <2>1, MqttUpKeeps DEF OtherTypes
  <2>. QED
    BY <1>2, <2>1, <2>2
<1>8. ASSUME NEW u \in Urls, MqttLost(u) PROVE Kept
  <2>1. UNCHANGED <<service, status, handle, core, imports, asks, socket>>
    BY <1>8 DEF MqttLost
  <2>2. ClientsOK' /\ asks' \in [imports : Nat, adds : Nat]
    BY <1>0, <1>8, <2>1, MqttLostKeeps DEF OtherTypes
  <2>. QED
    BY <1>2, <2>1, <2>2
<1>9. ASSUME NEW u \in Urls, MqttStopped(u) \/ MqttAborted(u) PROVE Kept
  <2>1. UNCHANGED <<service, status, handle, core, imports, asks, socket>>
    BY <1>9 DEF MqttStopped, MqttAborted
  <2>2. ClientsOK' /\ asks' \in [imports : Nat, adds : Nat]
    BY <1>0, <1>9, <2>1, MqttGoneKeeps DEF OtherTypes
  <2>. QED
    BY <1>2, <2>1, <2>2
<1>10. ASSUME Tick PROVE Kept
  <2>1. UNCHANGED <<service, status, handle, core, imports, asks, mqttVars, socket>>
        /\ newSecond' = TRUE
    BY <1>10 DEF Tick
  <2>2. ClientsOK'
    <3>1. ClientTypes'
      BY <1>0, <2>1 DEF ClientsOK, ClientTypes, mqttVars
    <3>2. MqttReachable' /\ InUseIsConfigured'
      BY <1>0, <2>1 DEF ClientsOK, MqttReachable, InUseIsConfigured, Running, mqttVars
    <3>. QED
      BY <3>1, <3>2 DEF ClientsOK
  <2>3. ImportsOK' /\ OtherTypes'
    BY <1>0, <2>1, OnlyClients DEF OtherTypes
  <2>. QED
    BY <2>2, <2>3
<1>11. ASSUME NEW c \in Core, ChildStopped(c) PROVE Kept
  <2>1. Aside /\ OtherTypes'
    BY <1>0, <1>11 DEF ChildStopped, Running, OtherTypes
  <2>. QED
    BY <1>1, <2>1
<1>12. ASSUME SocketConnects \/ SocketOpens \/ SocketCloses PROVE Kept
  <2>1. Aside /\ OtherTypes'
    BY <1>0, <1>12 DEF SocketConnects, SocketOpens, SocketCloses, Running, OtherTypes
  <2>. QED
    BY <1>1, <2>1
<1>13. ASSUME ScyllaRuns \/ InboxClosed PROVE Kept
  <2>1. Aside /\ OtherTypes'
    BY <1>0, <1>13 DEF ScyllaRuns, InboxClosed, Running, OtherTypes
  <2>. QED
    BY <1>1, <2>1
<1>14. ASSUME Shutdown PROVE Kept
  <2>1. UNCHANGED <<status, core, asks, mqtts, askedToShutdown, config, newSecond, overwritten>>
    BY <1>14 DEF Shutdown
  <2>2. CASE shutdown(TRUE)
    BY <1>0, <2>1, <2>2, ShutdownKeeps DEF OtherTypes
  <2>3. CASE handle' = FALSE /\ UNCHANGED <<service, mqtt, mqttHandles, imports, socket>>
    <3>1. Aside /\ OtherTypes'
      BY <1>0, <2>1, <2>3 DEF Running, OtherTypes, mqttVars
    <3>. QED
      BY <1>1, <3>1
  <2>. QED
    BY <1>14, <2>2, <2>3 DEF Shutdown
<1>15. ASSUME SolidifierAborted PROVE Kept
  <2>1. /\ shutdown(FALSE) /\ status' = "Restart" /\ core' = core \ {"solidifier"}
        /\ UNCHANGED <<asks, mqtts, askedToShutdown, config, newSecond, overwritten>>
    BY <1>15 DEF SolidifierAborted
  <2>. QED
    BY <1>0, <2>1, ShutdownKeeps DEF OtherTypes
<1>16. ASSUME NEW c \in Core, ChildAborted(c) PROVE Kept
  <2>1. /\ core' = core \ {c}
        /\ UNCHANGED <<asks, mqtts, askedToShutdown, config, newSecond, overwritten>>
    BY <1>16 DEF ChildAborted
  <2>2. CASE shutdown(TRUE) /\ status' = "Abort"
    BY <1>0, <2>1, <2>2, ShutdownKeeps DEF OtherTypes
  <2>3. CASE UNCHANGED <<service, status, handle, mqtt, mqttHandles, imports, socket>>
    <3>1. Aside /\ OtherTypes'
      BY <1>0, <2>1, <2>3 DEF Running, OtherTypes, mqttVars
    <3>. QED
      BY <1>1, <3>1
  <2>. QED
    BY <1>16, <2>2, <2>3 DEF ChildAborted
<1>17. ASSUME UNCHANGED vars PROVE Kept
  <2>1. Aside /\ OtherTypes'
    BY <1>0, <1>17 DEF vars, Running, OtherTypes, mqttVars
  <2>. QED
    BY <1>1, <2>1
<1>18. Kept
  <2>1. "syncer" \in Core /\ "archiver" \in Core
    BY DEF Core
  <2>2. ASSUME Topology PROVE Kept
    BY <2>2, <1>3, <1>5, <1>6 DEF Topology
  <2>3. ASSUME Children PROVE Kept
    BY <2>3, <1>4, <1>7, <1>8, <1>9, <1>11, <1>12 DEF Children
  <2>. QED
    BY <2>1, <2>2, <2>3, <1>10, <1>12, <1>13, <1>14, <1>15, <1>16, <1>17 DEF Next
<1>. QED
  BY <1>18 DEF Inv

\* What the broker keeps of its children is true in every state: no point of
\* parallelism is lost or handed out twice, no import waits for nobody, and every client
\* that is connected can be told to leave.
THEOREM Invariance == Spec => []BrokerInv
<1>1. Inv => BrokerInv
  BY InvParts
<1>. QED
  BY <1>1, InitInv, NextInv, PTL DEF Spec

\* A client in use that nobody asked to remove is in the configuration a restart
\* begins with, unless two records of one second have hidden it.
THEOREM StaysConfigured == Spec => []InUseIsConfigured
<1>1. Inv => InUseIsConfigured
  BY InvParts
<1>. QED
  BY <1>1, InitInv, NextInv, PTL DEF Spec

=============================================================================
