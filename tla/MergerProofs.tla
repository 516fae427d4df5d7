---------------------------- MODULE MergerProofs ----------------------------
(***************************************************************************)
(* Proofs about the merger, for any directories and levels, any lengths of *)
(* lines and any number of cleanups.                                       *)
(*                                                                         *)
(* Beyond the types, the inductive invariant IInv is about the directories *)
(* that NamesExact relies on, as long as no active file is opened twice.   *)
(* It says that every file holds consecutive milestones from the one its   *)
(* name begins with, and that lines are missing, or damaged, only in files *)
(* that are to be read (Files); that at most one file is active, is where  *)
(* its path says, and grows at the end that `writer' knows (WriterIs); and *)
(* that the lines of the file being consumed are below that end as far as  *)
(* they have been read (ReaderIs).  Covers is why that file can be         *)
(* removed: from the lowest milestone still to be read on, everything      *)
(* below the end of the active file is in files that are left alone from   *)
(* now on.  What a cleanup leaves is what the next one is given.           *)
(***************************************************************************)
EXTENDS Merger, WellFoundedInduction, TLAPS

\* A set of natural numbers has a least element.
LEMMA LeastNat ==
  ASSUME NEW S \in SUBSET Nat, S # {}
  PROVE  \E x \in S : \A y \in S : x <= y
<1>. DEFINE R == {ss \in Nat \X Nat : ss[1] < ss[2]}
<1>1. IsWellFoundedOn(R, Nat)
  <2>1. R = OpToRel(<, Nat) BY DEF OpToRel
  <2> QED BY <2>1, NatLessThanWellFounded
<1>2. PICK x \in S : \A y \in S : ~ (<<y, x>> \in R)
  <2> HIDE DEF R
  <2> QED BY <1>1, WFMin, Zenon
<1>3. \A y \in S : ~ (y < x)
  BY <1>2
<1> QED BY <1>3

\* One that is bounded has a greatest.
LEMMA GreatestNat ==
  ASSUME NEW N \in Nat, NEW S \in SUBSET Nat, S # {}, \A x \in S : x <= N
  PROVE  \E x \in S : \A y \in S : y <= x
<1>. DEFINE T == {N - x : x \in S}
<1>1. T \in SUBSET Nat /\ T # {}
  <2>1. \A x \in S : x \in Nat /\ x <= N /\ N - x \in Nat
    OBVIOUS
  <2>2. T # {} /\ \A u \in T : \E x \in S : u = N - x
    OBVIOUS
  <2>. HIDE DEF T
  <2> QED BY <2>1, <2>2
<1>2. PICK t \in T : \A u \in T : t <= u
  <2> HIDE DEF T
  <2> QED BY <1>1, LeastNat
<1>3. PICK x \in S : t = N - x
  OBVIOUS
<1>4. \A y \in S : N - y \in T
  OBVIOUS
<1>5. \A y \in S : N - x <= N - y
  <2>. HIDE DEF T
  <2> QED BY <1>2, <1>3, <1>4
<1>6. \A y \in S : y \in Nat /\ (N - x <= N - y => y <= x)
  OBVIOUS
<1> QED BY <1>5, <1>6

-----------------------------------------------------------------------------
(* Names and lines. *)

LEMMA Bounds == Unbounded \in Nat
BY MergerAssumption

LEMMA PathType ==
  ASSUME NEW p \in FilePath
  PROVE  /\ p.start \in Nat /\ p.start <= Unbounded
         /\ p.end \in Nat /\ p.end <= Unbounded
         /\ p.kind \in {"log", "active", "fin", "err"}
BY Bounds DEF FilePath

LEMMA PathIn ==
  ASSUME NEW s \in 0 .. Unbounded, NEW e \in 0 .. Unbounded,
         NEW kind \in {"log", "active", "fin", "err"}
  PROVE  /\ Path(s, e, kind) \in FilePath
         /\ Path(s, e, kind).start = s /\ Path(s, e, kind).end = e
         /\ Path(s, e, kind).kind = kind
BY DEF FilePath, Path

LEMMA PathIs ==
  ASSUME NEW p \in FilePath
  PROVE  p = Path(p.start, p.end, p.kind)
BY DEF FilePath, Path

\* What is popped is in the list, and nothing in it starts lower.
LEMMA PoppedIs ==
  ASSUME todo \in SUBSET FilePath, todo # {}
  PROVE  Popped \in todo /\ \A q \in todo : Popped.start <= q.start
<1>. DEFINE starts == {p.start : p \in todo}
<1>1. \A p \in todo : p.start \in Nat /\ p.end \in Nat /\ p.end <= Unbounded
  BY PathType
<1>2. PICK s \in starts : \A x \in starts : s <= x
  <2>1. starts \in SUBSET Nat /\ starts # {}
    BY <1>1
  <2>. HIDE DEF starts
  <2> QED BY <2>1, LeastNat
<1>. DEFINE ends == {p.end : p \in {q \in todo : q.start = s}}
<1>3. PICK e \in ends : \A x \in ends : x <= e
  <2>1. ends \in SUBSET Nat /\ ends # {} /\ \A x \in ends : x <= Unbounded
    BY <1>1
  <2>. HIDE DEF ends
  <2> QED BY <2>1, Bounds, GreatestNat
<1>4. PICK p \in todo : p.start = s /\ p.end = e
  OBVIOUS
<1>5. \A q \in todo : p.start < q.start \/ (p.start = q.start /\ p.end >= q.end)
  <2>1. SUFFICES ASSUME NEW q \in todo
                 PROVE  p.start < q.start \/ (p.start = q.start /\ p.end >= q.end)
    OBVIOUS
  <2>2. s <= q.start
    BY <1>2
  <2>3. q.start = s => q.end <= e
    BY <1>3
  <2> QED BY <2>2, <2>3, <1>1, <1>4
<1>6. /\ Popped \in todo
      /\ \A q \in todo : Popped.start < q.start \/ (Popped.start = q.start /\ Popped.end >= q.end)
  BY <1>5, Zenon DEF Popped
<1>7. \A q \in todo : (Popped.start < q.start \/ Popped.start = q.start) => Popped.start <= q.start
  BY <1>1, <1>6
<1> QED BY <1>6, <1>7

\* Lines that are consecutive milestones, from s on.
Run(s, ls) ==
  /\ ls \in Seq(Nat) /\ ls # <<>>
  /\ \A i \in 1 .. Len(ls) : ls[i] = s + i - 1

LEMMA RunHas ==
  ASSUME NEW s \in Nat, NEW ls, Run(s, ls), NEW k \in Nat, s <= k, k < s + Len(ls)
  PROVE  k - s + 1 \in 1 .. Len(ls) /\ ls[k - s + 1] = k
<1>1. Len(ls) \in Nat
  BY DEF Run
<1>2. k - s + 1 \in 1 .. Len(ls)
  BY <1>1
<1>3. ls[k - s + 1] = s + (k - s + 1) - 1
  BY <1>2 DEF Run
<1> QED BY <1>2, <1>3

\* A prefix of the lines of a file is there with the file.
LEMMA RunPrefix ==
  ASSUME NEW s \in Nat, NEW ls, NEW more, Run(s, ls), Run(s, more), Len(ls) <= Len(more)
  PROVE  \A i \in 1 .. Len(ls) : i \in 1 .. Len(more) /\ more[i] = ls[i]
<1>1. Len(ls) \in Nat /\ Len(more) \in Nat
  BY DEF Run
<1>2. \A i \in 1 .. Len(ls) : i \in 1 .. Len(more)
  BY <1>1
<1> QED BY <1>2 DEF Run

LEMMA RunLen ==
  ASSUME NEW s \in Nat, NEW ls, Run(s, ls)
  PROVE  Len(ls) \in Nat /\ Len(ls) > 0
BY DEF Run

LEMMA RunAppend ==
  ASSUME NEW s \in Nat, NEW ls, Run(s, ls)
  PROVE  /\ Run(s, Append(ls, s + Len(ls)))
         /\ Len(Append(ls, s + Len(ls))) = Len(ls) + 1
         /\ \A i \in 1 .. Len(ls) :
              i \in 1 .. (Len(ls) + 1) /\ Append(ls, s + Len(ls))[i] = ls[i]
<1>1. Len(ls) \in Nat /\ ls \in Seq(Nat) /\ s + Len(ls) \in Nat
  BY DEF Run
<1>. DEFINE more == Append(ls, s + Len(ls))
<1>2. /\ more \in Seq(Nat) /\ Len(more) = Len(ls) + 1
      /\ more[Len(ls) + 1] = s + Len(ls)
      /\ \A i \in 1 .. Len(ls) : more[i] = ls[i]
  BY <1>1
<1>. HIDE DEF more
<1>3. more # <<>>
  BY <1>1, <1>2
<1>4. ASSUME NEW i \in 1 .. Len(more) PROVE more[i] = s + i - 1
  <2>1. CASE i = Len(ls) + 1
    BY <2>1, <1>1, <1>2
  <2>2. CASE i # Len(ls) + 1
    <3>1. i \in 1 .. Len(ls)
      BY <2>2, <1>1, <1>2
    <3> QED BY <3>1, <1>2 DEF Run
  <2> QED BY <2>1, <2>2
<1>5. Run(s, more)
  BY <1>2, <1>3, <1>4 DEF Run
<1>6. \A i \in 1 .. Len(ls) : i \in 1 .. (Len(ls) + 1)
  BY <1>1
<1> QED BY <1>2, <1>5, <1>6 DEF more

\* A directory in which every line of d is still somewhere has lost nothing.
LEMMA LinesKept ==
  ASSUME NEW d, NEW e,
         \A p \in DOMAIN d : \A i \in 1 .. Len(d[p]) :
            \E q \in DOMAIN e : \E j \in 1 .. Len(e[q]) : e[q][j] = d[p][i]
  PROVE  Lines(d) \subseteq Lines(e)
BY DEF Lines

LEMMA LinesSame == ASSUME NEW d PROVE Lines(d) \subseteq Lines(d)
OBVIOUS

-----------------------------------------------------------------------------
(* Directories. *)

Logs(d) == {p \in DOMAIN d : p.kind \in {"log", "fin"}}

\* Every log holds consecutive milestones from the one it is named after.  Lines
\* at the end are missing only of those that are to be read; when logs may be
\* damaged, these can have any lines.
LogOK(p, ls, unread) ==
  /\ p.start < p.end
  /\ \/ given = "damaged" /\ p.kind = "log" /\ unread
     \/ /\ Run(p.start, ls) /\ p.start + Len(ls) <= p.end
        /\ given = "whole" \/ p.kind = "fin" \/ ~unread => p.start + Len(ls) = p.end

Files(d, unread) ==
  /\ DOMAIN d \subseteq FilePath /\ d \in [DOMAIN d -> Seq(Nat)]
  /\ \A p \in Logs(d) : LogOK(p, d[p], p \in unread)

\* The file p holds the milestones from its start to e.
Holds(d, p, e) == p \in DOMAIN d /\ Run(p.start, d[p]) /\ p.start + Len(d[p]) = e

\* The directory e is d with the file p renamed.
Renamed(d, p, new, e) ==
  /\ DOMAIN e = (DOMAIN d \ {p}) \cup {new} /\ e \in [DOMAIN e -> Seq(Nat)]
  /\ e[new] = d[p] /\ \A q \in DOMAIN d \ {p} : q # new => e[q] = d[q]
  /\ p = new => e = d

LEMMA RenameIs ==
  ASSUME NEW d, d \in [DOMAIN d -> Seq(Nat)], NEW p \in DOMAIN d, NEW new
  PROVE  Renamed(d, p, new, Rename(d, p, new))
<1>1. \A q \in (DOMAIN d \ {p}) \cup {new} : (IF q = new THEN d[p] ELSE d[q]) \in Seq(Nat)
  OBVIOUS
<1>2. p = new => Rename(d, p, new) = d
  <2>1. SUFFICES ASSUME p = new PROVE Rename(d, p, new) = d
    OBVIOUS
  <2>2. (DOMAIN d \ {p}) \cup {new} = DOMAIN d
    BY <2>1
  <2>3. \A q \in DOMAIN d : (IF q = new THEN d[p] ELSE d[q]) = d[q]
    BY <2>1
  <2> QED BY <2>2, <2>3 DEF Rename
<1> QED BY <1>1, <1>2 DEF Rename, Renamed

LEMMA RemoveIs ==
  ASSUME NEW d, d \in [DOMAIN d -> Seq(Nat)], NEW p
  PROVE  /\ DOMAIN Remove(d, p) = DOMAIN d \ {p}
         /\ Remove(d, p) \in [DOMAIN d \ {p} -> Seq(Nat)]
         /\ \A q \in DOMAIN d \ {p} : Remove(d, p)[q] = d[q]
BY DEF Remove

\* Fewer files are to be read.
LEMMA FilesFewer ==
  ASSUME NEW d, NEW U, NEW V, Files(d, U), V \subseteq U,
         \A p \in Logs(d) : p \in U \ V => Holds(d, p, p.end)
  PROVE  Files(d, V)
<1>1. ASSUME NEW p \in Logs(d) PROVE LogOK(p, d[p], p \in V)
  <2>1. LogOK(p, d[p], p \in U)
    BY DEF Files
  <2>2. CASE p \in U \ V
    <3>1. Run(p.start, d[p]) /\ p.start + Len(d[p]) = p.end
      BY <2>2 DEF Holds
    <3>2. p.end <= p.end
      <4>1. p \in FilePath
        BY DEF Files, Logs
      <4> QED BY <4>1, PathType
    <3> QED BY <2>1, <3>1, <3>2 DEF LogOK
  <2>3. CASE p \notin U \ V
    <3>1. (p \in U) = (p \in V)
      BY <2>3
    <3> QED BY <2>1, <3>1
  <2> QED BY <2>2, <2>3
<1> QED BY <1>1 DEF Files

LEMMA RemoveFile ==
  ASSUME NEW d, NEW U, Files(d, U), NEW p
  PROVE  Files(Remove(d, p), U \ {p})
<1>. DEFINE e == Remove(d, p)
<1>1. DOMAIN e = DOMAIN d \ {p} /\ e \in [DOMAIN e -> Seq(Nat)]
      /\ \A q \in DOMAIN e : e[q] = d[q]
  BY RemoveIs DEF Files
<1>. HIDE DEF e
<1>2. ASSUME NEW q \in Logs(e) PROVE LogOK(q, e[q], q \in U \ {p})
  <2>1. q \in Logs(d) /\ e[q] = d[q] /\ (q \in U \ {p}) = (q \in U)
    BY <1>1 DEF Logs
  <2>2. LogOK(q, d[q], q \in U)
    BY <2>1 DEF Files
  <2> QED BY <2>1, <2>2
<1>3. DOMAIN e \subseteq FilePath
  BY <1>1 DEF Files
<1> QED BY <1>1, <1>2, <1>3 DEF Files, e

\* A file that is renamed becomes active or faulty, or is named after its lines.
LEMMA RenameFile ==
  ASSUME NEW d, NEW U, Files(d, U), NEW p \in DOMAIN d, NEW new \in FilePath,
         new.kind \in {"active", "err"} \/ (new.start = p.start /\ Holds(d, p, new.end))
  PROVE  Files(Rename(d, p, new), U)
<1>1. d \in [DOMAIN d -> Seq(Nat)] /\ DOMAIN d \subseteq FilePath
  BY DEF Files
<1>2. Renamed(d, p, new, Rename(d, p, new))
  BY <1>1, RenameIs, Zenon
<1>. DEFINE e == Rename(d, p, new)
<1>3. /\ DOMAIN e = (DOMAIN d \ {p}) \cup {new} /\ e \in [DOMAIN e -> Seq(Nat)]
      /\ e[new] = d[p] /\ \A q \in DOMAIN d \ {p} : q # new => e[q] = d[q]
  BY <1>2 DEF Renamed
<1>. HIDE DEF e
<1>4. ASSUME NEW q \in Logs(e) PROVE LogOK(q, e[q], q \in U)
  <2>1. CASE q = new
    <3>1. q.kind \notin {"active", "err"}
      BY DEF Logs
    <3>2. q.start = p.start /\ Holds(d, p, q.end) /\ e[q] = d[p]
      BY <3>1, <2>1, <1>3
    <3>3. q.end \in Nat /\ q.start \in Nat
      BY <2>1, PathType
    <3>4. Run(q.start, e[q]) /\ q.start + Len(e[q]) = q.end
      BY <3>2 DEF Holds
    <3>5. Len(e[q]) \in Nat /\ Len(e[q]) > 0
      BY <3>3, <3>4, RunLen
    <3> QED BY <3>3, <3>4, <3>5 DEF LogOK
  <2>2. CASE q # new
    <3>1. q \in Logs(d) /\ e[q] = d[q]
      BY <1>3, <2>2 DEF Logs
    <3> QED BY <3>1 DEF Files
  <2> QED BY <2>1, <2>2
<1>5. DOMAIN e \subseteq FilePath
  BY <1>1, <1>3
<1> QED BY <1>3, <1>4, <1>5 DEF Files, e

\* It keeps the lines of every file when the one it replaces, if any, has a
\* prefix of them.
LEMMA RenameKeeps ==
  ASSUME NEW d, d \in [DOMAIN d -> Seq(Nat)], NEW p \in DOMAIN d, NEW new,
         new \in DOMAIN d \ {p} =>
            \A i \in 1 .. Len(d[new]) : i \in 1 .. Len(d[p]) /\ d[p][i] = d[new][i]
  PROVE  Lines(d) \subseteq Lines(Rename(d, p, new))
<1>1. Renamed(d, p, new, Rename(d, p, new))
  BY RenameIs, Zenon
<1>. DEFINE e == Rename(d, p, new)
<1>2. /\ DOMAIN e = (DOMAIN d \ {p}) \cup {new}
      /\ e[new] = d[p] /\ \A q \in DOMAIN d \ {p} : q # new => e[q] = d[q]
  BY <1>1 DEF Renamed
<1>. HIDE DEF e
<1>3. ASSUME NEW q \in DOMAIN d, NEW i \in 1 .. Len(d[q])
      PROVE  \E r \in DOMAIN e : \E j \in 1 .. Len(e[r]) : e[r][j] = d[q][i]
  <2>1. CASE q = p
    <3>1. new \in DOMAIN e /\ i \in 1 .. Len(e[new]) /\ e[new][i] = d[q][i]
      BY <2>1, <1>2
    <3> QED BY <3>1
  <2>2. CASE q # p /\ q = new
    <3>1. new \in DOMAIN e /\ i \in 1 .. Len(e[new]) /\ e[new][i] = d[q][i]
      BY <2>2, <1>2
    <3> QED BY <3>1
  <2>3. CASE q # p /\ q # new
    <3>1. q \in DOMAIN e /\ i \in 1 .. Len(e[q]) /\ e[q][i] = d[q][i]
      BY <2>3, <1>2
    <3> QED BY <3>1
  <2> QED BY <2>1, <2>2, <2>3
<1> QED BY <1>3, LinesKept DEF e

\* A log of the same start is a prefix of a file that reaches its end.
LEMMA ReplacedIsPrefix ==
  ASSUME given # "damaged", NEW d, NEW U, Files(d, U), NEW p \in DOMAIN d, NEW e \in Nat,
         Holds(d, p, e), NEW new \in Logs(d), new.start = p.start, new.end <= e
  PROVE  /\ Len(d[new]) <= Len(d[p])
         /\ \A i \in 1 .. Len(d[new]) : i \in 1 .. Len(d[p]) /\ d[p][i] = d[new][i]
<1>1. new \in FilePath /\ p \in FilePath
  BY DEF Files, Logs
<1>2. new.start \in Nat /\ new.end \in Nat /\ p.start \in Nat
  BY <1>1, PathType
<1>3. Run(new.start, d[new]) /\ new.start + Len(d[new]) <= new.end
  BY DEF Files, LogOK
<1>4. Run(new.start, d[p]) /\ new.start + Len(d[p]) = e
  BY DEF Holds
<1>5. Len(d[new]) \in Nat /\ Len(d[p]) \in Nat
  BY <1>2, <1>3, <1>4, RunLen
<1>6. Len(d[new]) <= Len(d[p])
  BY <1>2, <1>3, <1>4, <1>5
<1> QED BY <1>2, <1>3, <1>4, <1>6, RunPrefix

-----------------------------------------------------------------------------
(* The inductive invariant. *)

Active == phase \in {"next", "copy"}
Reading == phase = "copy"
Unread == todo \cup (IF Reading THEN {reader.path} ELSE {})

Relied == Trusted \/ (~reopened /\ given = "damaged" /\ level = "Full")

SettingsOK ==
  /\ given \in {"whole", "cut", "damaged"} /\ level \in Levels
  /\ given # "whole" => level = "Full"
  /\ phase \in {"first", "next", "copy", "done", "failed", "panicked"}
  /\ given = "whole" => phase \notin {"failed", "panicked"}

\* At most one file is active.
ActiveOK ==
  \A p \in DOMAIN dir : p.kind = "active" =>
     (Active /\ p = writer.path) \/ phase = "panicked"

TodoOK ==
  /\ todo \subseteq FilePath
  /\ \A p \in todo : p.kind = "log" \/ (p.kind = "fin" /\ withFin)
  /\ phase \in {"first", "next", "copy"} => todo \subseteq DOMAIN dir

LogFiles == [start : 0 .. Unbounded, end : 0 .. Unbounded, path : FilePath,
             err : BOOLEAN, finalized : BOOLEAN]

\* The active file holds what its name and its end say, unless it was adopted invalid.
WriterIs(d, f) ==
  /\ f \in LogFiles /\ f.path = ActivePath(f.start) /\ f.path \in DOMAIN d
  /\ f.start < f.end /\ ~f.finalized
  /\ IF f.err THEN given = "damaged" ELSE Holds(d, f.path, f.end)

WriterOK == IF Active THEN WriterIs(dir, writer) /\ at = {writer.path} ELSE writer = NoFile

\* The file that is read holds what `reader' says, whatever its name promises; one
\* that is renamed over it holds the same.
ReaderIs ==
  /\ reader \in LogFiles /\ reader.path \in Logs(dir) \ todo
  /\ reader.path.kind = "log" \/ withFin
  /\ ~reader.err /\ (reader.finalized <=> reader.path.kind = "fin")
  /\ reader.start = reader.path.start /\ Holds(dir, reader.path, reader.end)
  /\ reader.end <= reader.path.end
  /\ Run(reader.start, lines) /\ reader.start + Len(lines) = reader.end
  /\ pos \in 0 .. Len(lines) /\ MilestoneIndex <= writer.end

ReaderOK == IF Reading THEN ReaderIs ELSE reader = NoFile

\* The milestones from low to e are in files of d that are not to be read.
Covers(d, unread, low, e) ==
  /\ \A p \in unread : low <= p.start
  /\ \A k \in low .. e - 1 :
       \E p \in DOMAIN d \ unread :
          p.kind # "err" /\ p.start <= k /\ k < p.start + Len(d[p])

MergedOK == Active /\ ~withFin /\ given # "damaged" =>
              \E low \in 0 .. Unbounded : Covers(dir, Unread, low, writer.end)

Core == /\ SettingsOK /\ Files(dir, Unread) /\ ActiveOK /\ TodoOK
        /\ WriterOK /\ ReaderOK /\ MergedOK

DirOK(d) == DOMAIN d \subseteq FilePath /\ d \in [DOMAIN d -> Seq(Nat)]

TypeOK ==
  /\ DirOK(dir) /\ level \in Levels
  /\ phase \in {"first", "next", "copy", "done", "failed", "panicked"}
  /\ writer \in LogFiles /\ reader \in LogFiles /\ lines \in Seq(Nat) /\ pos \in Nat
  /\ ~Active => writer = NoFile
  /\ ~Reading => reader = NoFile

IInv == TypeOK /\ (Relied => Core)

-----------------------------------------------------------------------------
(* Closing a file. *)

LEMMA ClosedPathIs ==
  ASSUME NEW f \in LogFiles
  PROVE  /\ ClosedPath(f) \in FilePath
         /\ ClosedPath(f).start = f.start /\ ClosedPath(f).end = f.end
         /\ ClosedPath(f).kind = IF f.err THEN "err" ELSE IF f.finalized THEN "fin" ELSE "log"
<1>1. /\ f.start \in 0 .. Unbounded /\ f.end \in 0 .. Unbounded
      /\ f.err \in BOOLEAN /\ f.finalized \in BOOLEAN
  BY DEF LogFiles
<1>2. (IF f.err THEN "err" ELSE IF f.finalized THEN "fin" ELSE "log") \in {"log", "active", "fin", "err"}
  BY <1>1
<1> QED BY <1>1, <1>2, PathIn DEF ClosedPath

LEMMA LogFileIs ==
  ASSUME NEW s \in 0 .. Unbounded, NEW e \in 0 .. Unbounded, NEW p \in FilePath
  PROVE  /\ LogFile(s, e, p) \in LogFiles
         /\ LogFile(s, e, p).start = s /\ LogFile(s, e, p).end = e /\ LogFile(s, e, p).path = p
         /\ LogFile(s, e, p).err = (p.kind = "err")
         /\ LogFile(s, e, p).finalized = (p.kind = "fin")
BY DEF LogFile, LogFiles

\* The directory e is d with the file f closed.
Closed(d, unread, f, e) ==
  /\ Files(e, unread) /\ DOMAIN e = (DOMAIN d \ {f.path}) \cup {ClosedPath(f)}
  /\ e[ClosedPath(f)] = d[f.path]
  /\ \A q \in DOMAIN d \ {f.path} : q # ClosedPath(f) => e[q] = d[q]

\* A file that is closed has the name that its contents ask for; a log that had
\* it, and is replaced, had no other lines.
LEMMA CloseIs ==
  ASSUME NEW d, NEW U, Files(d, U), NEW f \in LogFiles, f.path \in DOMAIN d,
         f.path.start = f.start, ~f.err => Holds(d, f.path, f.end)
  PROVE  Closed(d, U, f, Close(d, f))
<1>. DEFINE p == f.path
            new == ClosedPath(f)
<1>1. Close(d, f) = Rename(d, p, new)
  BY DEF Close
<1>2. new \in FilePath /\ new.start = f.start /\ new.end = f.end
      /\ new.kind = IF f.err THEN "err" ELSE IF f.finalized THEN "fin" ELSE "log"
  BY ClosedPathIs
<1>3. new.kind \in {"active", "err"} \/ (new.start = p.start /\ Holds(d, p, new.end))
  BY <1>2
<1>4. d \in [DOMAIN d -> Seq(Nat)]
  BY DEF Files
<1>. HIDE DEF p, new
<1>5. p \in DOMAIN d
  BY DEF p
<1>6. Files(Rename(d, p, new), U)
  BY <1>2, <1>3, <1>5, RenameFile
<1>7. Renamed(d, p, new, Rename(d, p, new))
  BY <1>4, <1>5, RenameIs, Zenon
<1> QED BY <1>1, <1>6, <1>7 DEF p, new, Renamed, Closed

LEMMA CloseKeeps ==
  ASSUME given # "damaged", NEW d, NEW U, Files(d, U), NEW f \in LogFiles,
         f.path.start = f.start, ~f.err, Holds(d, f.path, f.end)
  PROVE  /\ ClosedPath(f) \in DOMAIN d => Len(d[ClosedPath(f)]) <= Len(d[f.path])
         /\ Lines(d) \subseteq Lines(Close(d, f))
<1>. DEFINE p == f.path
            new == ClosedPath(f)
<1>1. Close(d, f) = Rename(d, p, new) /\ p \in DOMAIN d
  BY DEF Close, Holds
<1>2. new \in FilePath /\ new.start = p.start /\ new.end = f.end /\ new.kind \in {"log", "fin"}
  BY ClosedPathIs
<1>3. d \in [DOMAIN d -> Seq(Nat)]
  BY DEF Files
<1>4. new.end \in Nat /\ new.end <= new.end
  BY <1>2, PathType
<1>5. Holds(d, p, new.end)
  BY <1>2
<1>. HIDE DEF p, new
<1>6. new \in DOMAIN d => new \in Logs(d)
  BY <1>2 DEF Logs
<1>7. new \in DOMAIN d =>
         /\ Len(d[new]) <= Len(d[p])
         /\ \A i \in 1 .. Len(d[new]) : i \in 1 .. Len(d[p]) /\ d[p][i] = d[new][i]
  BY <1>1, <1>2, <1>4, <1>5, <1>6, ReplacedIsPrefix
<1>8. Lines(d) \subseteq Lines(Rename(d, p, new))
  BY <1>1, <1>3, <1>7, RenameKeeps
<1> QED BY <1>1, <1>7, <1>8 DEF p, new

-----------------------------------------------------------------------------
(* Milestones that are covered. *)

\* What a file holds is in the file of its new name.
LEMMA CoversRename ==
  ASSUME NEW d, NEW U, NEW low, NEW e, Covers(d, U, low, e), d \in [DOMAIN d -> Seq(Nat)],
         NEW p \in DOMAIN d, NEW new, new \notin U, new.kind # "err", new.start = p.start,
         new.start \in Nat, low \in Nat, e \in Int,
         new \in DOMAIN d => Len(d[new]) <= Len(d[p])
  PROVE  Covers(Rename(d, p, new), U, low, e)
<1>1. Renamed(d, p, new, Rename(d, p, new))
  BY RenameIs, Zenon
<1>. DEFINE r == Rename(d, p, new)
<1>2. /\ DOMAIN r = (DOMAIN d \ {p}) \cup {new}
      /\ r[new] = d[p]
      /\ \A q \in DOMAIN d \ {p} : q # new => r[q] = d[q]
  BY <1>1 DEF Renamed
<1>. HIDE DEF r
<1>3. ASSUME NEW k \in low .. e - 1
      PROVE  \E q \in DOMAIN r \ U : q.kind # "err" /\ q.start <= k /\ k < q.start + Len(r[q])
  <2>1. PICK q \in DOMAIN d \ U : q.kind # "err" /\ q.start <= k /\ k < q.start + Len(d[q])
    BY DEF Covers
  <2>2. CASE q = p \/ q = new
    <3>1. new.start = q.start /\ Len(d[q]) <= Len(d[p])
      <4>1. Len(d[p]) \in Nat
        OBVIOUS
      <4> QED BY <2>2, <4>1
    <3>2. Len(d[p]) \in Nat /\ Len(d[q]) \in Nat /\ k \in Int
      OBVIOUS
    <3>3. new.start <= k /\ k < new.start + Len(r[new])
      BY <2>1, <3>1, <3>2, <1>2
    <3> QED BY <3>3, <1>2
  <2>3. CASE q # p /\ q # new
    <3>1. q \in DOMAIN r \ U /\ r[q] = d[q]
      BY <2>3, <1>2
    <3> QED BY <2>1, <3>1
  <2> QED BY <2>2, <2>3
<1> QED BY <1>3 DEF Covers, r

\* A file that covers what another range leaves extends it.
LEMMA CoversMore ==
  ASSUME NEW d, NEW U, NEW V, NEW low \in Nat, NEW e \in Int, Covers(d, U, low, e),
         V \subseteq U,
         NEW g \in Int, NEW p \in DOMAIN d \ V, p.kind # "err",
         NEW s \in Nat, p.start = s, s <= e, NEW n \in Nat, Len(d[p]) = n, s + n = g
  PROVE  Covers(d, V, low, g)
<1>1. ASSUME NEW k \in low .. g - 1
      PROVE  \E q \in DOMAIN d \ V : q.kind # "err" /\ q.start <= k /\ k < q.start + Len(d[q])
  <2>1. CASE s <= k
    <3>1. k < s + n
      OBVIOUS
    <3> QED BY <2>1, <3>1
  <2>2. CASE ~ (s <= k)
    <3>1. k \in low .. e - 1
      BY <2>2
    <3> QED BY <3>1 DEF Covers
  <2> QED BY <2>1, <2>2
<1>2. \A q \in V : low <= q.start
  BY DEF Covers
<1> QED BY <1>1, <1>2 DEF Covers

\* A file alone covers what it holds.
LEMMA CoversAlone ==
  ASSUME NEW d, NEW U, NEW p \in DOMAIN d \ U, p.kind # "err", NEW e \in Int,
         NEW s \in Nat, p.start = s, NEW n \in Nat, Len(d[p]) = n, s + n = e,
         \A q \in U : s <= q.start
  PROVE  Covers(d, U, s, e)
<1>1. ASSUME NEW k \in s .. e - 1
      PROVE  s <= k /\ k < s + n
  OBVIOUS
<1> QED BY <1>1 DEF Covers

-----------------------------------------------------------------------------
(* Writing to the active file. *)

\* The directory e is d with one more line x in the file p.
Extended(d, p, x, e) ==
  /\ DOMAIN e = DOMAIN d /\ e \in [DOMAIN e -> Seq(Nat)]
  /\ e[p] = Append(d[p], x) /\ \A q \in DOMAIN d \ {p} : e[q] = d[q]

LEMMA AppendedIs ==
  ASSUME NEW d, d \in [DOMAIN d -> Seq(Nat)], NEW p \in DOMAIN d, Line \in Nat
  PROVE  Extended(d, p, Line, Appended(d, {p}))
<1>. DEFINE e == Appended(d, {p})
<1>1. DOMAIN e = DOMAIN d /\ e[p] = Append(d[p], Line) /\ \A q \in DOMAIN d \ {p} : e[q] = d[q]
  BY DEF Appended
<1>2. \A q \in DOMAIN d : (IF q \in {p} THEN Append(d[q], Line) ELSE d[q]) \in Seq(Nat)
  OBVIOUS
<1>3. e \in [DOMAIN e -> Seq(Nat)]
  BY <1>2 DEF Appended
<1> QED BY <1>1, <1>3 DEF Extended

LEMMA AppendIs ==
  ASSUME NEW d, NEW U, Files(d, U), NEW p \in DOMAIN d, NEW x \in Nat, NEW e, Extended(d, p, x, e)
  PROVE  /\ p.kind = "active" => Files(e, U)
         /\ Lines(d) \subseteq Lines(e)
<1>1. d \in [DOMAIN d -> Seq(Nat)] /\ DOMAIN d \subseteq FilePath
  BY DEF Files
<1>2. /\ DOMAIN e = DOMAIN d /\ e \in [DOMAIN e -> Seq(Nat)]
      /\ e[p] = Append(d[p], x) /\ \A q \in DOMAIN d \ {p} : e[q] = d[q]
  BY DEF Extended
<1>3. d[p] \in Seq(Nat) /\ Len(Append(d[p], x)) = Len(d[p]) + 1
      /\ \A i \in 1 .. Len(d[p]) : i \in 1 .. (Len(d[p]) + 1) /\ Append(d[p], x)[i] = d[p][i]
  BY <1>1
<1>4. p.kind = "active" => \A q \in Logs(e) : q \in Logs(d) /\ e[q] = d[q]
  BY <1>2 DEF Logs
<1>5. p.kind = "active" => Files(e, U)
  BY <1>1, <1>2, <1>4 DEF Files
<1>6. ASSUME NEW q \in DOMAIN d, NEW i \in 1 .. Len(d[q])
      PROVE  \E r \in DOMAIN e : \E j \in 1 .. Len(e[r]) : e[r][j] = d[q][i]
  <2>1. i \in 1 .. Len(e[q]) /\ e[q][i] = d[q][i]
    BY <1>2, <1>3
  <2> QED BY <2>1, <1>2
<1>7. Lines(d) \subseteq Lines(e)
  BY <1>6, LinesKept
<1> QED BY <1>5, <1>7

LEMMA CreateIs ==
  ASSUME NEW d, NEW U, Files(d, U), NEW p \in FilePath, p.kind = "active", p \notin DOMAIN d
  PROVE  /\ Files(Create(d, p), U) /\ DOMAIN Create(d, p) = DOMAIN d \cup {p}
         /\ Create(d, p)[p] = <<>> /\ \A q \in DOMAIN d : Create(d, p)[q] = d[q]
         /\ Lines(d) \subseteq Lines(Create(d, p))
<1>. DEFINE e == Create(d, p)
<1>1. d \in [DOMAIN d -> Seq(Nat)] /\ DOMAIN d \subseteq FilePath
  BY DEF Files
<1>2. DOMAIN e = DOMAIN d \cup {p} /\ e[p] = <<>> /\ \A q \in DOMAIN d : e[q] = d[q]
  BY DEF Create
<1>3. \A q \in DOMAIN d \cup {p} : (IF q \in DOMAIN d THEN d[q] ELSE <<>>) \in Seq(Nat)
  BY <1>1
<1>4. e \in [DOMAIN e -> Seq(Nat)]
  BY <1>3 DEF Create
<1>. HIDE DEF e
<1>5. \A q \in Logs(e) : q \in Logs(d) /\ e[q] = d[q]
  BY <1>2 DEF Logs
<1>6. Files(e, U)
  BY <1>1, <1>2, <1>4, <1>5 DEF Files
<1>7. Lines(d) \subseteq Lines(e)
  BY <1>2, LinesKept
<1> QED BY <1>2, <1>6, <1>7 DEF e

-----------------------------------------------------------------------------
(* The invariant after a step. *)

LEMMA FilesNext ==
  ASSUME given' = given, Files(dir', Unread') PROVE Files(dir, Unread)'
BY DEF Files, LogOK, Logs

LEMMA WriterNext ==
  ASSUME given' = given, WriterIs(dir', writer') PROVE WriterIs(dir, writer)'
BY DEF WriterIs

\* When cleanup has returned or unwound.
LEMMA EndCore ==
  ASSUME Core, NEW how \in {"done", "failed", "panicked"}, NEW d, End(how, d),
         UNCHANGED settings, given = "whole" => how = "done",
         todo' \subseteq todo, Files(d, todo'),
         \A p \in DOMAIN d : p.kind = "active" => how = "panicked"
  PROVE  Core'
<1>1. phase' = how /\ dir' = d /\ writer' = NoFile /\ reader' = NoFile
      /\ given' = given /\ level' = level /\ withFin' = withFin
  BY DEF End, settings
<1>2. ~Active' /\ ~Reading' /\ Unread' = todo'
  BY <1>1 DEF Active, Reading, Unread
<1>3. SettingsOK'
  BY <1>1 DEF Core, SettingsOK
<1>4. Files(dir, Unread)'
  BY <1>1, <1>2, FilesNext
<1>5. ActiveOK'
  BY <1>1 DEF ActiveOK
<1>6. TodoOK'
  BY <1>1 DEF Core, TodoOK
<1>7. WriterOK' /\ ReaderOK' /\ MergedOK'
  BY <1>1, <1>2 DEF WriterOK, ReaderOK, MergedOK
<1> QED BY <1>3, <1>4, <1>5, <1>6, <1>7 DEF Core

\* When it goes on.
LEMMA StepCore ==
  ASSUME Core, phase' \in {"first", "next", "copy"}, UNCHANGED settings,
         todo' \subseteq todo, todo' \subseteq DOMAIN dir', Files(dir', Unread'),
         \A p \in DOMAIN dir' : p.kind = "active" => Active' /\ p = writer'.path,
         Active' => WriterIs(dir', writer') /\ at' = {writer'.path},
         ~Active' => writer' = NoFile,
         Reading' => ReaderIs', ~Reading' => reader' = NoFile, MergedOK'
  PROVE  Core'
<1>1. given' = given /\ level' = level /\ withFin' = withFin
  BY DEF settings
<1>2. SettingsOK'
  BY <1>1 DEF Core, SettingsOK
<1>3. Files(dir, Unread)'
  BY <1>1, FilesNext
<1>4. ActiveOK' /\ ReaderOK'
  BY DEF ActiveOK, ReaderOK
<1>5. TodoOK'
  BY <1>1 DEF Core, TodoOK
<1>6. WriterOK'
  BY <1>1, WriterNext DEF WriterOK
<1> QED BY <1>2, <1>3, <1>4, <1>5, <1>6 DEF Core

-----------------------------------------------------------------------------
(* A file is popped. *)

LEMMA Pop ==
  ASSUME Core, phase \in {"first", "next"}, todo # {}, todo' = todo \ {Popped}
  PROVE  /\ Popped \in todo /\ Popped \in Logs(dir) /\ Popped \in FilePath
         /\ LogOK(Popped, dir[Popped], TRUE) /\ dir[Popped] \in Seq(Nat)
         /\ Popped.kind \in {"log", "fin"} /\ (Popped.kind = "log" \/ withFin)
         /\ \A q \in todo' : Popped.start <= q.start
         /\ Popped.start \in 0 .. Unbounded /\ Popped.end \in 0 .. Unbounded
         /\ Popped.start < Popped.end
         /\ Unread = todo /\ todo' \subseteq todo /\ Popped \notin todo'
         /\ todo' \subseteq DOMAIN dir
<1>1. todo \subseteq FilePath /\ todo \subseteq DOMAIN dir
      /\ \A p \in todo : p.kind = "log" \/ (p.kind = "fin" /\ withFin)
  BY DEF Core, TodoOK
<1>2. Popped \in todo /\ \A q \in todo : Popped.start <= q.start
  BY <1>1, PoppedIs
<1>3. Unread = todo
  BY DEF Unread, Reading
<1>4. Popped \in Logs(dir) /\ Popped \in FilePath /\ Popped.kind \in {"log", "fin"}
      /\ (Popped.kind = "log" \/ withFin)
  BY <1>1, <1>2 DEF Logs
<1>5. LogOK(Popped, dir[Popped], TRUE) /\ dir[Popped] \in Seq(Nat)
  <2>1. Files(dir, todo)
    BY <1>3 DEF Core
  <2>2. LogOK(Popped, dir[Popped], Popped \in todo)
    BY <2>1, <1>4 DEF Files
  <2>3. (Popped \in todo) = TRUE
    BY <1>2
  <2>4. dir[Popped] \in Seq(Nat)
    BY <2>1, <1>1, <1>2 DEF Files
  <2> QED BY <2>2, <2>3, <2>4
<1>6. Popped.start \in 0 .. Unbounded /\ Popped.end \in 0 .. Unbounded
  BY <1>4 DEF FilePath
<1> QED BY <1>1, <1>2, <1>3, <1>4, <1>5, <1>6 DEF LogOK

\* What verify finds out about a file with the name p.
Judged(f, ls, lvl, p) ==
  /\ Verdict(f, ls, lvl) \in {"ok", "empty", "invalid"}
  /\ Verdict(f, ls, lvl) # "ok" => given = "damaged"
  /\ Verdict(f, ls, lvl) = "ok" =>
       /\ Run(p.start, ls) /\ p.start + Len(ls) <= p.end
       /\ Verified(f, ls, lvl) \in LogFiles
       /\ Verified(f, ls, lvl).end = p.start + Len(ls)
       /\ Verified(f, ls, lvl).start = f.start /\ Verified(f, ls, lvl).path = f.path
       /\ Verified(f, ls, lvl).err = f.err
       /\ Verified(f, ls, lvl).finalized = f.finalized

\* At level Full a verdict is about every line; what the level does not look at
\* is not in doubt.
LEMMA VerdictIs ==
  ASSUME Core, NEW f \in LogFiles, NEW ls \in Seq(Nat), NEW lvl,
         lvl = "Full" \/ (given = "whole" /\ lvl \in {"Basic", "JustInTime"}),
         NEW p \in FilePath, p.start = f.start, p.end = f.end, p.start < p.end,
         LogOK(p, ls, TRUE), f.finalized => p.kind = "fin"
  PROVE  Judged(f, ls, lvl, p)
<1>1. /\ p.start \in Nat /\ p.end \in Nat /\ p.end <= Unbounded /\ Unbounded \in Nat
      /\ Len(ls) \in Nat
  BY PathType, Bounds
<1>2. Verdict(f, ls, lvl) \in {"ok", "empty", "invalid"}
  BY DEF Verdict
<1>3. given \in {"whole", "cut", "damaged"}
  BY DEF Core, SettingsOK
<1>4. ASSUME Run(p.start, ls), p.start + Len(ls) <= p.end
      PROVE  Verdict(f, ls, lvl) = "ok"
  <2>1. ls # <<>>
    BY <1>4 DEF Run
  <2>2. Exact(f, ls)
    BY <1>4, <1>1 DEF Exact, Run
  <2>3. f.start < f.end
    OBVIOUS
  <2> QED BY <2>1, <2>2, <2>3 DEF Verdict
<1>5. given = "whole" \/ p.kind = "fin" => Run(p.start, ls) /\ p.start + Len(ls) = p.end
  BY <1>1 DEF LogOK
<1>6. given # "damaged" => Run(p.start, ls) /\ p.start + Len(ls) <= p.end
  BY DEF LogOK
<1>7. Verdict(f, ls, lvl) # "ok" => given = "damaged"
  BY <1>4, <1>6
<1>8. ASSUME Verdict(f, ls, lvl) = "ok"
      PROVE  Run(p.start, ls) /\ p.start + Len(ls) <= p.end
  <2>1. CASE given = "whole" \/ p.kind = "fin"
    BY <2>1, <1>5, <1>1
  <2>2. CASE given # "whole" /\ p.kind # "fin"
    <3>1. lvl = "Full" /\ ~f.finalized
      BY <2>2
    <3>2. Exact(f, ls) /\ ls # <<>>
      <4>1. ls # <<>>
        BY <1>8, <3>1 DEF Verdict
      <4>2. Exact(f, ls)
        BY <1>8, <3>1, <4>1 DEF Verdict
      <4> QED BY <4>1, <4>2
    <3>3. Len(ls) <= f.end - f.start /\ \A i \in 1 .. Len(ls) : ls[i] = f.start + i - 1
      BY <3>2 DEF Exact
    <3> QED BY <3>2, <3>3, <1>1 DEF Run
  <2> QED BY <2>1, <2>2
<1>9. ASSUME Verdict(f, ls, lvl) = "ok"
      PROVE  /\ Verified(f, ls, lvl) \in LogFiles
             /\ Verified(f, ls, lvl).end = p.start + Len(ls)
             /\ Verified(f, ls, lvl).start = f.start /\ Verified(f, ls, lvl).path = f.path
             /\ Verified(f, ls, lvl).err = f.err
             /\ Verified(f, ls, lvl).finalized = f.finalized
  <2>1. CASE f.finalized \/ lvl # "Full"
    <3>1. p.start + Len(ls) = p.end
      BY <2>1, <1>5
    <3> QED BY <2>1, <3>1 DEF Verified
  <2>2. CASE ~(f.finalized \/ lvl # "Full")
    <3>1. p.start + Len(ls) \in 0 .. Unbounded
      BY <1>1, <1>8, <1>9
    <3>2. Verified(f, ls, lvl) = [f EXCEPT !.end = p.start + Len(ls)]
      BY <2>2 DEF Verified
    <3> QED BY <3>1, <3>2 DEF LogFiles
  <2> QED BY <2>1, <2>2
<1> QED BY <1>2, <1>7, <1>8, <1>9 DEF Judged

\* open_write of the popped file.
LEMMA Open ==
  ASSUME Core, phase \in {"first", "next"}, todo # {}, todo' = todo \ {Popped},
         Opened.path \notin DOMAIN dir
  PROVE  /\ Opened \in LogFiles /\ Opened.path \in FilePath /\ Opened.path.kind = "active"
         /\ Opened.path = ActivePath(Opened.start) /\ Opened.start = Popped.start
         /\ Opened.end = Popped.end /\ ~Opened.err /\ ~Opened.finalized
         /\ Files(AfterOpen, todo')
         /\ DOMAIN AfterOpen = (DOMAIN dir \ {Popped}) \cup {Opened.path}
         /\ \A q \in DOMAIN dir \ {Popped} : AfterOpen[q] = dir[q]
         /\ Lines(dir) \subseteq Lines(AfterOpen)
         /\ OpenedVerdict \in {"ok", "empty", "invalid"}
         /\ OpenedVerdict # "ok" => given = "damaged"
         /\ OpenedVerdict = "ok" =>
              /\ WriterIs(AfterOpen, Verified(Opened, dir[Popped], WriterLevel))
              /\ Verified(Opened, dir[Popped], WriterLevel).path = Opened.path
              /\ Verified(Opened, dir[Popped], WriterLevel).start = Popped.start
              /\ ~Verified(Opened, dir[Popped], WriterLevel).err
         /\ given = "damaged" => WriterIs(AfterOpen, Faulty(Opened))
<1>. DEFINE p == Popped
            new == Opened.path
            file == Verified(Opened, dir[p], WriterLevel)
<1>1. /\ p \in todo /\ p \in Logs(dir) /\ p \in FilePath
      /\ LogOK(p, dir[p], TRUE) /\ dir[p] \in Seq(Nat)
      /\ p.kind \in {"log", "fin"} /\ p.start < p.end
      /\ p.start \in 0 .. Unbounded /\ p.end \in 0 .. Unbounded
      /\ Unread = todo /\ todo' \subseteq todo
  BY Pop
<1>2. ActivePath(p.start) \in FilePath /\ ActivePath(p.start).kind = "active"
      /\ ActivePath(p.start).start = p.start
  <2>1. Unbounded \in 0 .. Unbounded
    BY Bounds
  <2> QED BY <2>1, <1>1, PathIn DEF ActivePath
<1>3. /\ Opened \in LogFiles /\ Opened.start = p.start /\ Opened.end = p.end
      /\ Opened.path = ActivePath(p.start) /\ Opened.err = FALSE /\ Opened.finalized = FALSE
  BY <1>1, <1>2 DEF Opened, LogFile, LogFiles
<1>4. Files(dir, todo) /\ p \in DOMAIN dir /\ dir \in [DOMAIN dir -> Seq(Nat)]
  BY <1>1 DEF Core, Files, Logs
<1>5. new \in FilePath /\ new.kind = "active" /\ new # p
  BY <1>1, <1>2, <1>3
<1>6. Renamed(dir, p, new, AfterOpen)
  BY <1>4, RenameIs, Zenon DEF AfterOpen
<1>7. /\ DOMAIN AfterOpen = (DOMAIN dir \ {p}) \cup {new} /\ AfterOpen[new] = dir[p]
      /\ \A q \in DOMAIN dir \ {p} : AfterOpen[q] = dir[q]
  BY <1>6 DEF Renamed
<1>8. Files(AfterOpen, todo')
  <2>1. Files(Rename(dir, p, new), todo)
    BY <1>4, <1>5, RenameFile
  <2>2. Files(AfterOpen, todo)
    BY <2>1 DEF AfterOpen
  <2>3. \A q \in Logs(AfterOpen) : q \notin todo \ todo'
    BY <1>5, <1>7 DEF Logs
  <2> QED BY <1>1, <2>2, <2>3, FilesFewer
<1>9. Lines(dir) \subseteq Lines(AfterOpen)
  <2>1. Lines(dir) \subseteq Lines(Rename(dir, p, new))
    BY <1>4, RenameKeeps
  <2> QED BY <2>1 DEF AfterOpen
<1>10. WriterLevel = "Full" \/ (given = "whole" /\ WriterLevel \in {"Basic", "JustInTime"})
  BY DEF WriterLevel, Core, SettingsOK
<1>11. /\ OpenedVerdict \in {"ok", "empty", "invalid"}
       /\ OpenedVerdict # "ok" => given = "damaged"
       /\ OpenedVerdict = "ok" =>
            /\ Run(p.start, dir[p])
            /\ file \in LogFiles /\ file.end = p.start + Len(dir[p])
            /\ file.start = Opened.start /\ file.path = Opened.path
            /\ file.err = Opened.err /\ file.finalized = Opened.finalized
  <2>1. Opened.finalized => p.kind = "fin"
    BY <1>3
  <2>2. Judged(Opened, dir[p], WriterLevel, p)
    BY <1>1, <1>3, <1>10, <2>1, VerdictIs, Zenon
  <2> QED BY <2>2 DEF OpenedVerdict, Judged
<1>12. ASSUME OpenedVerdict = "ok" PROVE WriterIs(AfterOpen, file)
  <2>1. Holds(AfterOpen, new, file.end) /\ new \in DOMAIN AfterOpen
    BY <1>2, <1>3, <1>7, <1>11, <1>12 DEF Holds
  <2>2. file.start < file.end
    <3>1. Len(dir[p]) \in Nat /\ Len(dir[p]) > 0
      BY <1>1, <1>11, <1>12, RunLen
    <3> QED BY <3>1, <1>1, <1>3, <1>11, <1>12
  <2> QED BY <1>3, <1>11, <1>12, <2>1, <2>2 DEF WriterIs
<1>13. given = "damaged" => WriterIs(AfterOpen, Faulty(Opened))
  <2>1. Faulty(Opened) \in LogFiles /\ Faulty(Opened).err /\ Faulty(Opened).start = p.start
        /\ Faulty(Opened).end = p.end /\ Faulty(Opened).path = new /\ ~Faulty(Opened).finalized
    BY <1>3 DEF Faulty, LogFiles
  <2>2. new \in DOMAIN AfterOpen
    BY <1>7
  <2>3. new = ActivePath(p.start)
    BY <1>3
  <2> QED BY <1>1, <2>1, <2>2, <2>3 DEF WriterIs
<1> QED BY <1>3, <1>5, <1>7, <1>8, <1>9, <1>11, <1>12, <1>13

LEMMA WriterMoves ==
  ASSUME NEW d, NEW e, NEW f, WriterIs(d, f), f.path \in DOMAIN e, e[f.path] = d[f.path]
  PROVE  WriterIs(e, f)
BY DEF WriterIs, Holds

LEMMA WriterPath ==
  ASSUME NEW d, NEW f, WriterIs(d, f)
  PROVE  /\ f \in LogFiles /\ f.path \in FilePath /\ f.path \in DOMAIN d
         /\ f.path.kind = "active" /\ f.path.start = f.start /\ f.path = ActivePath(f.start)
         /\ f.start \in Nat /\ f.end \in Nat /\ f.end <= Unbounded /\ f.start < f.end
BY Bounds DEF WriterIs, LogFiles, ActivePath, Path

\* The active file covers what it holds.
LEMMA WriterCovers ==
  ASSUME NEW d, NEW U, NEW f, WriterIs(d, f), ~f.err, f.path \notin U,
         \A q \in U : f.start <= q.start
  PROVE  \E low \in 0 .. Unbounded : Covers(d, U, low, f.end)
<1>1. /\ f.path \in DOMAIN d \ U /\ f.path.kind # "err" /\ f.path.start = f.start
      /\ f.start \in Nat /\ f.end \in Nat /\ f.start \in 0 .. Unbounded
  BY WriterPath, Bounds
<1>2. Run(f.start, d[f.path]) /\ f.start + Len(d[f.path]) = f.end
  BY <1>1 DEF WriterIs, Holds
<1>3. Len(d[f.path]) \in Nat
  BY <1>1, <1>2, RunLen
<1>4. f.end \in Int
  BY <1>1
<1>5. Covers(d, U, f.start, f.end)
  BY <1>1, <1>2, <1>3, <1>4, CoversAlone
<1> QED BY <1>1, <1>5

LEMMA WriterExtends ==
  ASSUME NEW d, NEW U, NEW V, V \subseteq U, NEW low \in Nat, NEW e \in Int, Covers(d, U, low, e),
         NEW f, WriterIs(d, f), ~f.err, f.path \notin V, f.start <= e
  PROVE  Covers(d, V, low, f.end)
<1>1. /\ f.path \in DOMAIN d \ V /\ f.path.kind # "err" /\ f.path.start = f.start
      /\ f.start \in Nat /\ f.end \in Int
  BY WriterPath
<1>2. Run(f.start, d[f.path]) /\ f.start + Len(d[f.path]) = f.end
  BY <1>1 DEF WriterIs, Holds
<1>3. Len(d[f.path]) \in Nat
  BY <1>1, <1>2, RunLen
<1> QED BY <1>1, <1>2, <1>3, CoversMore

\* The active file is closed.
LEMMA CloseWriter ==
  ASSUME NEW d, NEW U, Files(d, U), NEW f, WriterIs(d, f)
  PROVE  /\ Closed(d, U, f, Close(d, f))
         /\ ClosedPath(f) \in FilePath /\ ClosedPath(f).kind \in {"log", "err"}
         /\ given # "damaged" => Lines(d) \subseteq Lines(Close(d, f))
<1>1. f \in LogFiles /\ f.path \in DOMAIN d /\ f.path.start = f.start
  BY WriterPath
<1>2. ~f.err => Holds(d, f.path, f.end)
  BY DEF WriterIs
<1>3. ~f.finalized /\ (f.err => given = "damaged")
  BY DEF WriterIs
<1>4. ClosedPath(f) \in FilePath /\ ClosedPath(f).kind \in {"log", "err"}
  BY <1>1, <1>3, ClosedPathIs
<1>5. Closed(d, U, f, Close(d, f))
  BY <1>1, <1>2, CloseIs
<1>6. given # "damaged" => Lines(d) \subseteq Lines(Close(d, f))
  BY <1>1, <1>2, <1>3, CloseKeeps
<1> QED BY <1>4, <1>5, <1>6

LEMMA OpenedPath == Opened.path.kind = "active" /\ Opened.path.start = Popped.start
BY DEF Opened, LogFile, ActivePath, Path

LEMMA TakeFirstStep ==
  ASSUME Core, TakeFirst
  PROVE  Core' /\ (given # "damaged" => Lines(dir) \subseteq Lines(dir'))
<1>. DEFINE file == Verified(Opened, dir[Popped], WriterLevel)
            bad == Close(AfterOpen, Faulty(Opened))
<1>1. phase = "first" /\ todo # {} /\ todo' = todo \ {Popped} /\ UNCHANGED settings
  BY DEF TakeFirst, Pops
<1>2. /\ phase \in {"first", "next"} /\ ~Active /\ ~Reading
      /\ writer = NoFile /\ reader = NoFile
  BY <1>1 DEF Core, Active, Reading, WriterOK, ReaderOK
<1>3. \A p \in DOMAIN dir : p.kind # "active"
  BY <1>1, <1>2 DEF Core, ActiveOK
<1>4. Opened.path \notin DOMAIN dir
  BY <1>3, OpenedPath
<1>5. /\ Popped.kind \in {"log", "fin"} /\ todo' \subseteq todo /\ Popped \notin todo'
      /\ todo' \subseteq DOMAIN dir /\ \A q \in todo' : Popped.start <= q.start
  BY <1>1, <1>2, Pop
<1>6. /\ Opened.path.kind = "active" /\ Files(AfterOpen, todo')
      /\ DOMAIN AfterOpen = (DOMAIN dir \ {Popped}) \cup {Opened.path}
      /\ Lines(dir) \subseteq Lines(AfterOpen)
      /\ OpenedVerdict \in {"ok", "empty", "invalid"}
      /\ OpenedVerdict # "ok" => given = "damaged"
      /\ OpenedVerdict = "ok" => /\ WriterIs(AfterOpen, file) /\ file.path = Opened.path
                                 /\ file.start = Popped.start /\ ~file.err
      /\ given = "damaged" => WriterIs(AfterOpen, Faulty(Opened))
  BY <1>1, <1>2, <1>4, Open
<1>7. Faulty(Opened).path = Opened.path
  BY DEF Faulty, Opened, LogFile
<1>8. given = "damaged" => /\ Files(bad, todo') /\ todo' \subseteq DOMAIN bad
                           /\ \A p \in DOMAIN bad : p.kind # "active"
  <2>1. SUFFICES ASSUME given = "damaged"
                 PROVE  /\ Files(bad, todo') /\ todo' \subseteq DOMAIN bad
                        /\ \A p \in DOMAIN bad : p.kind # "active"
    OBVIOUS
  <2>2. WriterIs(AfterOpen, Faulty(Opened)) /\ Files(AfterOpen, todo')
    BY <2>1, <1>6
  <2>3. Closed(AfterOpen, todo', Faulty(Opened), Close(AfterOpen, Faulty(Opened)))
        /\ ClosedPath(Faulty(Opened)).kind \in {"log", "err"}
    BY <2>2, CloseWriter, Zenon
  <2>4. Files(bad, todo')
        /\ DOMAIN bad = (DOMAIN AfterOpen \ {Opened.path}) \cup {ClosedPath(Faulty(Opened))}
    BY <2>3, <1>7 DEF Closed
  <2> QED BY <2>3, <2>4, <1>3, <1>4, <1>5, <1>6
<1>. HIDE DEF file, bad
<1>9. CASE OpenedVerdict = "ok" /\ dir' = AfterOpen /\ writer' = file /\ at' = {Opened.path}
             /\ phase' = "next" /\ reader' = reader
  <2>1. Active' /\ ~Reading' /\ Unread' = todo'
    BY <1>9 DEF Active, Reading, Unread
  <2>2. todo' \subseteq DOMAIN dir'
    BY <1>5, <1>6, <1>9
  <2>3. \A p \in DOMAIN dir' : p.kind = "active" => p = writer'.path
    BY <1>3, <1>6, <1>9
  <2>4. MergedOK'
    <3>1. file.path \notin todo'
      BY <1>4, <1>5, <1>6, <1>9
    <3>2. \E low \in 0 .. Unbounded : Covers(AfterOpen, todo', low, file.end)
      BY <3>1, <1>5, <1>6, <1>9, WriterCovers
    <3> QED BY <3>2, <2>1, <1>9 DEF MergedOK, Covers
  <2>5. WriterIs(dir', writer') /\ at' = {writer'.path} /\ Files(dir', Unread')
    BY <2>1, <1>6, <1>9
  <2>6. reader' = NoFile
    BY <1>2, <1>9
  <2>7. Core'
    BY <2>1, <2>2, <2>3, <2>4, <2>5, <2>6, <1>1, <1>5, <1>9, StepCore
  <2> QED BY <2>7, <1>6, <1>9
<1>10. ASSUME OpenedVerdict # "ok", End("failed", bad)
       PROVE  Core' /\ (given # "damaged" => Lines(dir) \subseteq Lines(dir'))
  <2>1. given = "damaged"
    BY <1>6, <1>10
  <2>2. Core'
    BY <2>1, <1>1, <1>5, <1>8, <1>10, EndCore
  <2> QED BY <2>1, <2>2
<1>11. CASE OpenedVerdict # "ok" /\ End("failed", bad)
  BY <1>11, <1>10
<1>12. CASE OpenedVerdict = "invalid" /\ dir' = bad /\ UNCHANGED <<phase, writer, reader>>
  <2>1. given = "damaged"
    BY <1>6, <1>12
  <2>2. ~Active' /\ ~Reading' /\ Unread' = todo' /\ phase' = "first"
    BY <1>1, <1>12 DEF Active, Reading, Unread
  <2>3. MergedOK'
    BY <2>2 DEF MergedOK
  <2>4. Core'
    BY <2>1, <2>2, <2>3, <1>1, <1>2, <1>5, <1>8, <1>12, StepCore
  <2> QED BY <2>1, <2>4
<1>13. \/ OpenedVerdict = "ok" /\ dir' = AfterOpen /\ writer' = file /\ at' = {Opened.path}
          /\ phase' = "next" /\ reader' = reader
       \/ OpenedVerdict # "ok" /\ End("failed", bad)
       \/ OpenedVerdict = "invalid" /\ dir' = bad /\ UNCHANGED <<phase, writer, reader>>
  <2>1. Popped # Opened.path
    BY <1>5, <1>6
  <2> QED BY <2>1 DEF TakeFirst, Write, file, bad
<1> QED BY <1>9, <1>11, <1>12, <1>13

LEMMA TakeGapStep ==
  ASSUME Core, TakeGap
  PROVE  Core' /\ (given # "damaged" => Lines(dir) \subseteq Lines(dir'))
<1>. DEFINE file == Verified(Opened, dir[Popped], WriterLevel)
            closed == Close(AfterOpen, writer)
            bad == Close(closed, Faulty(Opened))
<1>1. /\ phase = "next" /\ todo # {} /\ todo' = todo \ {Popped} /\ UNCHANGED settings
      /\ Popped.start > writer.end
  BY DEF TakeGap, Pops
<1>2. /\ phase \in {"first", "next"} /\ Active /\ ~Reading /\ reader = NoFile
      /\ WriterIs(dir, writer) /\ at = {writer.path}
  BY <1>1 DEF Core, Active, Reading, WriterOK, ReaderOK
<1>3. \A p \in DOMAIN dir : p.kind = "active" => p = writer.path
  BY <1>1 DEF Core, ActiveOK
<1>4. /\ Popped.kind \in {"log", "fin"} /\ todo' \subseteq todo /\ Popped \notin todo'
      /\ todo' \subseteq DOMAIN dir /\ \A q \in todo' : Popped.start <= q.start
      /\ Popped.start \in 0 .. Unbounded /\ \A q \in todo : q.kind \in {"log", "fin"}
  <2>1. \A q \in todo : q.kind \in {"log", "fin"}
    BY DEF Core, TodoOK
  <2> QED BY <2>1, <1>1, <1>2, Pop
<1>5. /\ writer.path.kind = "active" /\ writer.path \in DOMAIN dir
      /\ writer.path.start = writer.start /\ writer.start \in Nat /\ writer.end \in Nat
      /\ writer.start < writer.end
  BY <1>2, WriterPath
<1>6. Opened.path # writer.path
  <2>1. Popped.start # writer.start
    BY <1>1, <1>4, <1>5
  <2> QED BY <2>1, <1>5, OpenedPath
<1>7. Opened.path \notin DOMAIN dir
  BY <1>3, <1>6, OpenedPath
<1>8. /\ Opened.path.kind = "active" /\ Files(AfterOpen, todo')
      /\ DOMAIN AfterOpen = (DOMAIN dir \ {Popped}) \cup {Opened.path}
      /\ \A q \in DOMAIN dir \ {Popped} : AfterOpen[q] = dir[q]
      /\ Lines(dir) \subseteq Lines(AfterOpen)
      /\ OpenedVerdict \in {"ok", "empty", "invalid"}
      /\ OpenedVerdict # "ok" => given = "damaged"
      /\ OpenedVerdict = "ok" => /\ WriterIs(AfterOpen, file) /\ file.path = Opened.path
                                 /\ file.start = Popped.start /\ ~file.err
      /\ given = "damaged" => WriterIs(AfterOpen, Faulty(Opened))
  BY <1>1, <1>2, <1>7, Open
<1>9. Faulty(Opened).path = Opened.path
  BY DEF Faulty, Opened, LogFile
<1>10. WriterIs(AfterOpen, writer)
  <2>1. writer.path \in DOMAIN AfterOpen /\ AfterOpen[writer.path] = dir[writer.path]
    BY <1>4, <1>5, <1>8
  <2> QED BY <2>1, <1>2, WriterMoves
<1>11. /\ Closed(AfterOpen, todo', writer, closed)
       /\ ClosedPath(writer).kind \in {"log", "err"}
       /\ given # "damaged" => Lines(AfterOpen) \subseteq Lines(closed)
  BY <1>8, <1>10, CloseWriter, Zenon
<1>12. /\ Files(closed, todo') /\ closed[Opened.path] = AfterOpen[Opened.path]
       /\ DOMAIN closed = (DOMAIN AfterOpen \ {writer.path}) \cup {ClosedPath(writer)}
  <2>1. Opened.path \in DOMAIN AfterOpen \ {writer.path} /\ Opened.path # ClosedPath(writer)
    BY <1>6, <1>8, <1>11
  <2> QED BY <2>1, <1>11 DEF Closed
<1>13. /\ Opened.path \in DOMAIN closed /\ todo' \subseteq DOMAIN closed
       /\ \A p \in DOMAIN closed : p.kind = "active" => p = Opened.path
  BY <1>3, <1>4, <1>5, <1>6, <1>8, <1>11, <1>12
<1>14. /\ OpenedVerdict = "ok" => WriterIs(closed, file)
       /\ given = "damaged" => WriterIs(closed, Faulty(Opened))
  <2>1. ASSUME OpenedVerdict = "ok" PROVE WriterIs(closed, file)
    <3>1. WriterIs(AfterOpen, file) /\ file.path = Opened.path
      BY <2>1, <1>8
    <3>. HIDE DEF file
    <3> QED BY <3>1, <1>12, <1>13, WriterMoves
  <2>2. ASSUME given = "damaged" PROVE WriterIs(closed, Faulty(Opened))
    <3>1. WriterIs(AfterOpen, Faulty(Opened))
      BY <2>2, <1>8
    <3> QED BY <3>1, <1>9, <1>12, <1>13, WriterMoves
  <2> QED BY <2>1, <2>2
<1>15. given = "damaged" => Files(bad, todo') /\ \A p \in DOMAIN bad : p.kind # "active"
  <2>1. SUFFICES ASSUME given = "damaged"
                 PROVE  Files(bad, todo') /\ \A p \in DOMAIN bad : p.kind # "active"
    OBVIOUS
  <2>2. WriterIs(closed, Faulty(Opened)) /\ Files(closed, todo')
    BY <2>1, <1>12, <1>14
  <2>. HIDE DEF closed
  <2>3. Closed(closed, todo', Faulty(Opened), Close(closed, Faulty(Opened)))
        /\ ClosedPath(Faulty(Opened)).kind \in {"log", "err"}
    BY <2>2, CloseWriter, Zenon
  <2>4. Files(bad, todo')
        /\ DOMAIN bad = (DOMAIN closed \ {Opened.path}) \cup {ClosedPath(Faulty(Opened))}
    BY <2>3, <1>9 DEF Closed
  <2> QED BY <2>3, <2>4, <1>13
<1>. HIDE DEF file, closed, bad
<1>16. ASSUME OpenedVerdict # "ok", End("failed", bad)
       PROVE  Core' /\ (given # "damaged" => Lines(dir) \subseteq Lines(dir'))
  <2>1. given = "damaged"
    BY <1>8, <1>16
  <2>2. Core'
    BY <2>1, <1>1, <1>4, <1>15, <1>16, EndCore
  <2> QED BY <2>1, <2>2
<1>17. ASSUME NEW f, WriterIs(closed, f), f.path = Opened.path, f.err \/ f.start = Popped.start,
              f.err => given = "damaged",
              dir' = closed, writer' = f, at' = {Opened.path}, UNCHANGED <<phase, reader>>
       PROVE  Core' /\ (given # "damaged" => Lines(dir) \subseteq Lines(dir'))
  <2>1. Active' /\ ~Reading' /\ Unread' = todo' /\ phase' = "next"
    BY <1>1, <1>17 DEF Active, Reading, Unread
  <2>2. MergedOK'
    <3>1. CASE f.err
      <4>1. given' = given
        BY <1>1 DEF settings
      <4> QED BY <3>1, <4>1, <1>17 DEF MergedOK
    <3>2. CASE ~f.err
      <4>1. Opened.path \notin todo'
        BY <1>4, <1>8
      <4>2. \A q \in todo' : f.start <= q.start
        BY <3>2, <1>4, <1>17
      <4>3. \E low \in 0 .. Unbounded : Covers(closed, todo', low, f.end)
        BY <3>2, <4>1, <4>2, <1>17, WriterCovers
      <4> QED BY <4>3, <2>1, <1>17 DEF MergedOK, Covers
    <3> QED BY <3>1, <3>2
  <2>3. WriterIs(dir', writer') /\ Files(dir', Unread') /\ todo' \subseteq DOMAIN dir'
        /\ at' = {writer'.path}
        /\ \A p \in DOMAIN dir' : p.kind = "active" => p = writer'.path
    BY <2>1, <1>12, <1>13, <1>17
  <2>4. Core'
    BY <2>1, <2>2, <2>3, <1>1, <1>2, <1>4, <1>17, StepCore
  <2> QED BY <2>4, <1>8, <1>11, <1>17
<1>18. CASE OpenedVerdict = "ok" /\ dir' = closed /\ writer' = file /\ at' = {Opened.path}
              /\ UNCHANGED <<phase, reader>>
  BY <1>8, <1>14, <1>17, <1>18
<1>19. CASE OpenedVerdict = "invalid" /\ dir' = closed /\ writer' = Faulty(Opened)
              /\ at' = {Opened.path} /\ UNCHANGED <<phase, reader>>
  <2>1. given = "damaged" /\ Faulty(Opened).err
    BY <1>8, <1>19 DEF Faulty, Opened, LogFile
  <2> QED BY <2>1, <1>9, <1>14, <1>17, <1>19
<1>20. CASE OpenedVerdict # "ok" /\ End("failed", bad)
  BY <1>16, <1>20
<1>21. \/ OpenedVerdict = "ok" /\ dir' = closed /\ writer' = file /\ at' = {Opened.path}
            /\ UNCHANGED <<phase, reader>>
       \/ OpenedVerdict = "invalid" /\ dir' = closed /\ writer' = Faulty(Opened)
            /\ at' = {Opened.path} /\ UNCHANGED <<phase, reader>>
       \/ OpenedVerdict # "ok" /\ End("failed", bad)
  <2>1. Popped # Opened.path
    BY <1>4, <1>8
  <2>2. ~Panics(AfterOpen, writer)
    <3>1. writer.path \in DOMAIN AfterOpen
      BY <1>10, WriterPath
    <3> QED BY <3>1 DEF Panics
  <2> QED BY <2>1, <2>2 DEF TakeGap, Write, file, closed, bad
<1> QED BY <1>18, <1>19, <1>20, <1>21

-----------------------------------------------------------------------------
(* A file is consumed. *)

\* The active file is dropped in a panic, or not.
LEMMA PanicStep ==
  ASSUME Core, NEW left, EndInPanic(left), Files(left, todo'), WriterIs(left, writer),
         given # "whole", todo' \subseteq todo, UNCHANGED settings
  PROVE  Core' /\ (given # "damaged" => Lines(left) \subseteq Lines(dir'))
<1>1. CASE End("panicked", left)
  <2>1. Core'
    BY <1>1, EndCore
  <2>2. dir' = left
    BY <1>1 DEF End
  <2> QED BY <2>1, <2>2
<1>2. CASE End("panicked", Close(left, writer))
  <2>1. Closed(left, todo', writer, Close(left, writer))
        /\ (given # "damaged" => Lines(left) \subseteq Lines(Close(left, writer)))
    BY CloseWriter, Zenon
  <2>2. Files(Close(left, writer), todo')
    BY <2>1 DEF Closed
  <2>3. Core'
    BY <1>2, <2>2, EndCore
  <2>4. dir' = Close(left, writer)
    BY <1>2 DEF End
  <2> QED BY <2>1, <2>3, <2>4
<1> QED BY <1>1, <1>2 DEF EndInPanic

LEMMA TakeNextStep ==
  ASSUME Core, TakeNext
  PROVE  Core' /\ (given # "damaged" => Lines(dir) \subseteq Lines(dir'))
<1>. DEFINE p == Popped
            file == Verified(Consumed, dir[p], level)
            left == Remove(dir, p)
            bad == Close(dir, Faulty(Consumed))
            shut == Close(dir, writer)
            both == Close(shut, Faulty(Consumed))
<1>1. /\ phase = "next" /\ todo # {} /\ todo' = todo \ {p} /\ UNCHANGED settings
      /\ p.start <= writer.end
  BY DEF TakeNext, Pops
<1>2. /\ phase \in {"first", "next"} /\ Active /\ ~Reading /\ reader = NoFile
      /\ WriterIs(dir, writer) /\ at = {writer.path}
  BY <1>1 DEF Core, Active, Reading, WriterOK, ReaderOK
<1>3. \A q \in DOMAIN dir : q.kind = "active" => q = writer.path
  BY <1>1 DEF Core, ActiveOK
<1>4. /\ p \in todo /\ p \in Logs(dir) /\ p \in FilePath
      /\ LogOK(p, dir[p], TRUE) /\ dir[p] \in Seq(Nat)
      /\ p.kind \in {"log", "fin"} /\ (p.kind = "log" \/ withFin)
      /\ p.start \in 0 .. Unbounded /\ p.end \in 0 .. Unbounded /\ p.start < p.end
      /\ Unread = todo /\ todo' \subseteq todo /\ p \notin todo' /\ todo' \subseteq DOMAIN dir
  BY <1>1, <1>2, Pop
<1>5. \A q \in todo : q.kind \in {"log", "fin"}
  BY DEF Core, TodoOK
<1>6. Files(dir, todo) /\ p \in DOMAIN dir /\ dir \in [DOMAIN dir -> Seq(Nat)]
  BY <1>4 DEF Core, Files, Logs
<1>7. /\ Consumed \in LogFiles /\ Consumed.start = p.start /\ Consumed.end = p.end
      /\ Consumed.path = p /\ Consumed.err = FALSE /\ Consumed.finalized = (p.kind = "fin")
  BY <1>4 DEF Consumed, LogFile, LogFiles
<1>8. level = "Full" \/ (given = "whole" /\ level \in {"Basic", "JustInTime"})
  BY DEF Core, SettingsOK, Levels
<1>9. Judged(Consumed, dir[p], level, p)
  <2>1. Consumed.finalized => p.kind = "fin"
    BY <1>7
  <2> QED BY <1>4, <1>7, <1>8, <2>1, VerdictIs, Zenon
<1>10. /\ writer.path.kind = "active" /\ writer.path \in DOMAIN dir /\ writer.end \in Nat
  BY <1>2, WriterPath
<1>11. Files(left, todo') /\ WriterIs(left, writer)
  <2>1. Files(left, todo \ {p})
    BY <1>6, RemoveFile
  <2>2. writer.path \in DOMAIN left /\ left[writer.path] = dir[writer.path]
    BY <1>4, <1>10 DEF Remove
  <2> QED BY <1>1, <1>2, <2>1, <2>2, WriterMoves
<1>12. Faulty(Consumed) \in LogFiles /\ Faulty(Consumed).path = p /\ Faulty(Consumed).err
       /\ Faulty(Consumed).start = p.start
  BY <1>7 DEF Faulty, LogFiles
<1>13. Closed(dir, todo, Faulty(Consumed), bad) /\ ClosedPath(Faulty(Consumed)).kind = "err"
  <2>1. Faulty(Consumed).path \in DOMAIN dir
        /\ Faulty(Consumed).path.start = Faulty(Consumed).start
        /\ (~Faulty(Consumed).err => Holds(dir, Faulty(Consumed).path, Faulty(Consumed).end))
    BY <1>6, <1>12
  <2> QED BY <1>6, <1>12, <2>1, CloseIs, ClosedPathIs
<1>14. /\ DOMAIN bad = (DOMAIN dir \ {p}) \cup {ClosedPath(Faulty(Consumed))}
       /\ Files(bad, todo)
       /\ \A q \in DOMAIN dir \ {p} : q # ClosedPath(Faulty(Consumed)) => bad[q] = dir[q]
  BY <1>12, <1>13 DEF Closed
<1>15. p \notin DOMAIN bad /\ Files(bad, todo')
  <2>1. p \notin DOMAIN bad
    BY <1>4, <1>13, <1>14
  <2>2. \A q \in Logs(bad) : q \notin todo \ todo'
    BY <1>1, <2>1 DEF Logs
  <2> QED BY <1>4, <1>14, <2>1, <2>2, FilesFewer
<1>16. WriterIs(bad, writer)
  <2>1. writer.path \in DOMAIN bad /\ bad[writer.path] = dir[writer.path]
    BY <1>4, <1>10, <1>13, <1>14
  <2> QED BY <1>2, <2>1, WriterMoves
<1>17. /\ todo' \subseteq DOMAIN bad
       /\ \A q \in DOMAIN bad : q.kind = "active" => q = writer.path
  BY <1>3, <1>4, <1>13, <1>14
\* An error closes the active file first, and then the other one.
<1>18. /\ Closed(dir, todo, writer, shut) /\ ClosedPath(writer).kind \in {"log", "err"}
  BY <1>2, <1>6, CloseWriter, Zenon
<1>19. given # "whole" => /\ p \in DOMAIN shut /\ Files(shut, todo)
                          /\ \A q \in DOMAIN shut : q.kind # "active"
  <2>1. /\ DOMAIN shut = (DOMAIN dir \ {writer.path}) \cup {ClosedPath(writer)}
        /\ Files(shut, todo)
    BY <1>18 DEF Closed
  <2>2. p \in DOMAIN dir /\ p # writer.path
    BY <1>4, <1>6, <1>10
  <2>. HIDE DEF shut
  <2>3. p \in DOMAIN shut
    BY <2>1, <2>2
  <2>4. \A q \in DOMAIN shut : q.kind # "active"
    BY <2>1, <1>3, <1>18
  <2> QED BY <2>1, <2>3, <2>4
<1>. HIDE DEF shut
<1>20. given # "whole" => /\ Closed(shut, todo, Faulty(Consumed), both)
                          /\ ~Panics(shut, Faulty(Consumed))
  <2>1. SUFFICES ASSUME given # "whole"
                 PROVE  /\ Closed(shut, todo, Faulty(Consumed), both)
                        /\ ~Panics(shut, Faulty(Consumed))
    OBVIOUS
  <2>2. /\ Faulty(Consumed).path \in DOMAIN shut
        /\ Faulty(Consumed).path.start = Faulty(Consumed).start
        /\ (~Faulty(Consumed).err => Holds(shut, Faulty(Consumed).path, Faulty(Consumed).end))
        /\ Files(shut, todo)
    BY <2>1, <1>12, <1>19
  <2> QED BY <1>12, <2>2, CloseIs DEF Panics
<1>21. given # "whole" => Files(both, todo') /\ \A q \in DOMAIN both : q.kind # "active"
  <2>1. SUFFICES ASSUME given # "whole"
                 PROVE  Files(both, todo') /\ \A q \in DOMAIN both : q.kind # "active"
    OBVIOUS
  <2>2. /\ DOMAIN both = (DOMAIN shut \ {p}) \cup {ClosedPath(Faulty(Consumed))}
        /\ Files(both, todo)
    BY <2>1, <1>12, <1>20 DEF Closed
  <2>3. p \notin DOMAIN both
    BY <1>4, <1>13, <2>2
  <2>4. \A q \in Logs(both) : q \notin todo \ todo'
    BY <1>1, <2>3 DEF Logs
  <2> QED BY <2>1, <1>4, <1>13, <1>19, <2>2, <2>4, FilesFewer
<1>. HIDE DEF file, left, bad, both
<1>22. CASE ConsumedVerdict = "ok" /\ reader' = file /\ lines' = dir[p] /\ pos' = 0
              /\ phase' = "copy" /\ UNCHANGED <<dir, writer, at>>
  <2>1. /\ Run(p.start, dir[p]) /\ p.start + Len(dir[p]) <= p.end
        /\ file \in LogFiles /\ file.end = p.start + Len(dir[p])
        /\ file.start = p.start /\ file.path = p /\ ~file.err /\ file.finalized = (p.kind = "fin")
    BY <1>7, <1>9, <1>22 DEF Judged, ConsumedVerdict, file
  <2>2. Active' /\ Reading' /\ Unread' = Unread /\ Unread' = todo
    BY <1>1, <1>4, <1>22, <2>1 DEF Active, Reading, Unread
  <2>3. ReaderIs'
    <3>1. Holds(dir, p, file.end)
      BY <1>6, <2>1 DEF Holds
    <3>2. Holds(dir', reader'.path, reader'.end) /\ reader'.path \in Logs(dir') \ todo'
      BY <3>1, <1>4, <1>22, <2>1
    <3>3. MilestoneIndex' <= writer'.end
      BY <1>1, <1>4, <1>22, <2>1 DEF MilestoneIndex
    <3>4. /\ pos' \in 0 .. Len(lines') /\ Run(reader'.start, lines')
          /\ reader'.start + Len(lines') = reader'.end
      BY <1>4, <1>22, <2>1
    <3>5. withFin' = withFin
      BY <1>1 DEF settings
    <3>6. /\ reader' \in LogFiles /\ (reader'.path.kind = "log" \/ withFin')
          /\ ~reader'.err /\ (reader'.finalized <=> reader'.path.kind = "fin")
          /\ reader'.start = reader'.path.start /\ reader'.end <= reader'.path.end
      BY <3>5, <1>4, <1>22, <2>1
    <3> QED BY <3>2, <3>3, <3>4, <3>6 DEF ReaderIs, Holds, Logs
  <2>4. MergedOK'
    <3>1. MergedOK
      BY DEF Core
    <3>2. given' = given /\ withFin' = withFin
      BY <1>1 DEF settings
    <3> QED BY <3>1, <3>2, <1>2, <1>22, <2>2 DEF MergedOK, Covers
  <2>5. WriterIs(dir', writer') /\ Files(dir', Unread') /\ todo' \subseteq DOMAIN dir'
        /\ at' = {writer'.path}
        /\ \A q \in DOMAIN dir' : q.kind = "active" => q = writer'.path
    BY <1>2, <1>3, <1>4, <1>6, <1>22, <2>2
  <2>6. Core'
    BY <1>1, <1>4, <1>22, <2>2, <2>3, <2>4, <2>5, StepCore
  <2> QED BY <2>6, <1>22
<1>23. ConsumedVerdict # "ok" => given = "damaged"
  BY <1>9 DEF Judged, ConsumedVerdict
<1>24. CASE ConsumedVerdict = "empty" /\ EndInPanic(left)
  <2>1. given # "whole" /\ given = "damaged"
    BY <1>23, <1>24
  <2>2. Core'
    BY <2>1, <1>1, <1>4, <1>11, <1>24, PanicStep
  <2> QED BY <2>1, <2>2
<1>25. CASE ConsumedVerdict = "invalid" /\ End("failed", both)
  <2>1. given = "damaged"
    BY <1>23, <1>25
  <2>2. Core'
    BY <2>1, <1>1, <1>4, <1>21, <1>25, EndCore
  <2> QED BY <2>1, <2>2
<1>26. CASE ConsumedVerdict = "invalid" /\ dir' = bad /\ phase' = "next"
              /\ reader' = NoFile /\ UNCHANGED <<writer, at>>
  <2>1. given = "damaged" /\ given' = given
    BY <1>1, <1>23, <1>26 DEF settings
  <2>2. Active' /\ ~Reading' /\ Unread' = todo' /\ MergedOK'
    BY <2>1, <1>26 DEF Active, Reading, Unread, MergedOK
  <2>3. WriterIs(dir', writer') /\ Files(dir', Unread') /\ todo' \subseteq DOMAIN dir'
        /\ at' = {writer'.path}
        /\ \A q \in DOMAIN dir' : q.kind = "active" => q = writer'.path
    BY <1>2, <1>15, <1>16, <1>17, <1>26, <2>2
  <2>4. Core'
    BY <1>1, <1>4, <1>26, <2>2, <2>3, StepCore
  <2> QED BY <2>1, <2>4
<1>27. \/ ConsumedVerdict = "ok" /\ reader' = file /\ lines' = dir[p] /\ pos' = 0
            /\ phase' = "copy" /\ UNCHANGED <<dir, writer, at>>
       \/ ConsumedVerdict = "empty" /\ EndInPanic(left)
       \/ ConsumedVerdict = "invalid" /\ End("failed", both)
       \/ ConsumedVerdict = "invalid" /\ dir' = bad /\ phase' = "next"
            /\ reader' = NoFile /\ UNCHANGED <<writer, at>>
  <2>1. CASE ConsumedVerdict = "invalid" /\ Reject(Consumed)
    <3>1. ~Panics(dir, writer) /\ ~Panics(shut, Faulty(Consumed))
      BY <2>1, <1>10, <1>23, <1>20 DEF Panics
    <3>2. Followed(Consumed.path, ClosedPath(Faulty(Consumed))) = at
      <4>1. at = {writer.path} /\ writer.path # Consumed.path
            /\ writer.path # ClosedPath(Faulty(Consumed))
        BY <1>2, <1>4, <1>7, <1>10, <1>13
      <4> QED BY <4>1 DEF Followed
    <3> QED BY <2>1, <3>1, <3>2 DEF Reject, bad, both, shut
  <2> QED BY <2>1 DEF TakeNext, file, left
<1> QED BY <1>22, <1>24, <1>25, <1>26, <1>27

\* What is read, and what is written, between two lines.
LEMMA CopyIs ==
  ASSUME Core, phase = "copy"
  PROVE  LET p == reader.path IN
         /\ p \in Logs(dir) /\ p \in DOMAIN dir /\ p \in FilePath /\ p \notin todo
         /\ p.kind \in {"log", "fin"} /\ (p.kind = "log" \/ withFin)
         /\ p.start \in Nat /\ p.end \in Nat /\ p.end <= Unbounded
         /\ Run(p.start, dir[p]) /\ Len(dir[p]) \in Nat
         /\ reader.end = p.start + Len(dir[p]) /\ reader.end <= p.end
         /\ given = "whole" \/ p.kind = "fin" => reader.end = p.end
         /\ reader \in LogFiles /\ reader.start = p.start /\ ~reader.err
         /\ (reader.finalized <=> p.kind = "fin") /\ Holds(dir, p, reader.end)
         /\ Run(p.start, lines) /\ Len(lines) = Len(dir[p])
         /\ pos \in Nat /\ pos <= Len(lines)
         /\ MilestoneIndex = p.start + pos /\ MilestoneIndex <= writer.end
         /\ Files(dir, todo \cup {p}) /\ Unread = todo \cup {p}
         /\ todo \subseteq DOMAIN dir
         /\ \A q \in todo : q.kind = "log" \/ (q.kind = "fin" /\ withFin)
         /\ WriterIs(dir, writer) /\ writer.path.kind = "active" /\ writer.path \in DOMAIN dir
         /\ writer.path \notin todo \cup {p} /\ at = {writer.path}
         /\ \A q \in DOMAIN dir : q.kind = "active" => q = writer.path
<1>. DEFINE p == reader.path
<1>1. Active /\ Reading
  BY DEF Active, Reading
<1>2. ReaderIs /\ WriterIs(dir, writer) /\ ActiveOK /\ TodoOK /\ Unread = todo \cup {p}
      /\ Files(dir, todo \cup {p}) /\ at = {writer.path}
  BY <1>1 DEF Core, ReaderOK, WriterOK, Unread
<1>3. p \in Logs(dir) /\ p \notin todo /\ p \in DOMAIN dir /\ p \in FilePath
      /\ p.kind \in {"log", "fin"}
  BY <1>2 DEF ReaderIs, Logs, Files
<1>4. p.start \in Nat /\ p.end \in Nat /\ p.end <= Unbounded
  BY <1>3, PathType
<1>5. Run(p.start, dir[p]) /\ reader.end = p.start + Len(dir[p])
  BY <1>2 DEF ReaderIs, Holds
<1>6. Len(dir[p]) \in Nat
  BY <1>4, <1>5, RunLen
<1>7. given = "whole" \/ p.kind = "fin" => reader.end = p.end
  <2>1. LogOK(p, dir[p], p \in todo \cup {p})
    BY <1>2, <1>3 DEF Files
  <2> QED BY <2>1, <1>5 DEF LogOK
<1>8. writer.path.kind = "active" /\ writer.path \in DOMAIN dir
  BY <1>2, WriterPath
<1>9. /\ todo \subseteq DOMAIN dir
      /\ \A q \in todo : q.kind = "log" \/ (q.kind = "fin" /\ withFin)
  BY <1>2 DEF TodoOK
<1>10. writer.path \notin todo \cup {p}
  BY <1>3, <1>8, <1>9
<1>11. \A q \in DOMAIN dir : q.kind = "active" => q = writer.path
  BY <1>2 DEF ActiveOK
<1>12. /\ reader \in LogFiles /\ reader.start = p.start /\ ~reader.err /\ reader.end <= p.end
       /\ (reader.finalized <=> p.kind = "fin") /\ Holds(dir, p, reader.end)
       /\ (p.kind = "log" \/ withFin)
       /\ pos \in 0 .. Len(lines) /\ MilestoneIndex <= writer.end
       /\ Run(reader.start, lines) /\ reader.start + Len(lines) = reader.end
  BY <1>2 DEF ReaderIs
<1>13. /\ Run(p.start, lines) /\ Len(lines) = Len(dir[p])
       /\ pos \in Nat /\ pos <= Len(lines)
  <2>1. Len(lines) \in Nat
    BY <1>4, <1>12, RunLen
  <2> QED BY <2>1, <1>4, <1>5, <1>6, <1>12
<1>14. MilestoneIndex = p.start + pos
  BY DEF MilestoneIndex
<1> QED BY <1>2, <1>3, <1>4, <1>5, <1>6, <1>7, <1>8, <1>9, <1>10, <1>11, <1>12, <1>13, <1>14

\* A line of the file that is read is the milestone it stands for.
LEMMA LineIs ==
  ASSUME Core, Copying, HasLine
  PROVE  /\ Line = MilestoneIndex /\ MilestoneIndex \in Nat /\ LineValid
         /\ pos + 1 \in Nat /\ pos + 1 <= Len(lines)
         /\ MilestoneIndex + 1 <= reader.path.end
<1>. DEFINE p == reader.path
<1>1. phase = "copy"
  BY DEF Copying
<1>2. /\ p.start \in Nat /\ p.end \in Nat /\ Run(p.start, lines) /\ Len(lines) \in Nat
      /\ reader.end = p.start + Len(lines) /\ reader.end <= p.end
      /\ pos \in Nat /\ MilestoneIndex = p.start + pos
  BY <1>1, CopyIs
<1>3. pos < Len(lines)
  BY DEF HasLine
<1>4. pos + 1 \in 1 .. Len(lines) /\ pos + 1 <= Len(lines) /\ pos + 1 \in Nat
  BY <1>2, <1>3
<1>5. Line = p.start + (pos + 1) - 1
  BY <1>2, <1>4 DEF Line, Run
<1>6. Line = MilestoneIndex /\ MilestoneIndex \in Nat
  BY <1>2, <1>5
<1>7. MilestoneIndex + 1 <= p.end
  BY <1>2, <1>4
<1>8. MilestoneIndex < p.end
  BY <1>2, <1>7
<1> QED BY <1>4, <1>6, <1>7, <1>8 DEF LineValid

\* What is covered stays so when the files that cover it keep their lines.
LEMMA CoversStay ==
  ASSUME NEW d, NEW e, NEW U, NEW V, V \subseteq U, NEW low \in Nat, NEW g \in Int,
         Covers(d, U, low, g), DOMAIN d \subseteq FilePath, d \in [DOMAIN d -> Seq(Nat)],
         e \in [DOMAIN e -> Seq(Nat)],
         \A q \in DOMAIN d \ U : q \in DOMAIN e /\ Len(d[q]) <= Len(e[q])
  PROVE  Covers(e, V, low, g)
<1>1. ASSUME NEW k \in low .. g - 1
      PROVE  \E q \in DOMAIN e \ V : q.kind # "err" /\ q.start <= k /\ k < q.start + Len(e[q])
  <2>1. PICK q \in DOMAIN d \ U : q.kind # "err" /\ q.start <= k /\ k < q.start + Len(d[q])
    BY DEF Covers
  <2>2. q \in DOMAIN e /\ Len(d[q]) <= Len(e[q])
    OBVIOUS
  <2>3. Len(d[q]) \in Nat /\ Len(e[q]) \in Nat
    BY <2>2
  <2>4. q.start \in Nat
    BY PathType
  <2>5. k < q.start + Len(e[q])
    BY <2>1, <2>2, <2>3, <2>4
  <2> QED BY <2>1, <2>2, <2>5
<1>2. \A q \in V : low <= q.start
  BY DEF Covers
<1> QED BY <1>1, <1>2 DEF Covers

LEMMA BadLineStep == ASSUME Core, BadLine PROVE FALSE
<1>1. Copying /\ HasLine /\ ~LineValid
  BY DEF BadLine
<1> QED BY <1>1, LineIs

LEMMA AppendLineStep ==
  ASSUME Core, AppendLine
  PROVE  Core' /\ (given # "damaged" => Lines(dir) \subseteq Lines(dir'))
<1>. DEFINE p == reader.path
            w == writer.path
<1>1. /\ phase = "copy" /\ phase' = "copy" /\ Copying /\ HasLine
      /\ pos' = pos + 1 /\ reader' = reader /\ at' = at /\ todo' = todo /\ UNCHANGED settings
  BY DEF AppendLine, Copying
<1>2. /\ p \in Logs(dir) /\ p \in DOMAIN dir /\ p \in FilePath /\ p \notin todo
      /\ p.kind \in {"log", "fin"} /\ (p.kind = "log" \/ withFin)
      /\ p.start \in Nat /\ p.end \in Nat /\ p.end <= Unbounded
      /\ Run(p.start, dir[p]) /\ Len(dir[p]) \in Nat /\ reader.end <= p.end
      /\ reader \in LogFiles /\ reader.start = p.start /\ ~reader.err
      /\ (reader.finalized <=> p.kind = "fin") /\ Holds(dir, p, reader.end)
      /\ Run(p.start, lines) /\ Len(lines) = Len(dir[p]) /\ reader.end = p.start + Len(dir[p])
      /\ pos \in Nat /\ MilestoneIndex = p.start + pos /\ MilestoneIndex <= writer.end
      /\ Files(dir, todo \cup {p}) /\ Unread = todo \cup {p} /\ todo \subseteq DOMAIN dir
      /\ WriterIs(dir, writer) /\ w.kind = "active" /\ w \in DOMAIN dir
      /\ w \notin todo \cup {p} /\ at = {w}
      /\ \A q \in DOMAIN dir : q.kind = "active" => q = w
  BY <1>1, CopyIs
<1>3. /\ Line = MilestoneIndex /\ MilestoneIndex \in Nat
      /\ pos + 1 \in Nat /\ pos + 1 <= Len(lines) /\ MilestoneIndex + 1 <= p.end
  BY <1>1, LineIs
<1>4. Active' /\ Reading' /\ Unread' = todo \cup {p} /\ withFin' = withFin /\ given' = given
  BY <1>1 DEF Active, Reading, Unread, settings
<1>5. MilestoneIndex' = MilestoneIndex + 1
  BY <1>1, <1>2 DEF MilestoneIndex
<1>6. dir \in [DOMAIN dir -> Seq(Nat)] /\ DOMAIN dir \subseteq FilePath
  BY <1>2 DEF Files
<1>7. /\ writer \in LogFiles /\ writer.start \in Nat /\ writer.end \in Nat
      /\ writer.end <= Unbounded /\ w.start = writer.start /\ writer.start < writer.end
      /\ w = ActivePath(writer.start)
  BY <1>2, WriterPath
<1>8. MergedOK
  BY DEF Core
\* The invariant, once the active file is known to be as it should.
<1>9. ASSUME Files(dir', todo \cup {p}), WriterIs(dir', writer'), writer'.path = w,
             DOMAIN dir' = DOMAIN dir, dir'[p] = dir[p],
             lines' = lines, MilestoneIndex' <= writer'.end, MergedOK'
      PROVE  Core'
  <2>1. ReaderIs'
    <3>1. /\ reader'.path \in Logs(dir') \ todo' /\ Holds(dir', p, reader'.end)
          /\ pos' \in 0 .. Len(lines') /\ reader'.path = p
          /\ Run(reader'.start, lines') /\ reader'.start + Len(lines') = reader'.end
      BY <1>1, <1>2, <1>3, <1>9 DEF Logs, Holds
    <3>2. /\ reader' \in LogFiles /\ (reader'.path.kind = "log" \/ withFin')
          /\ ~reader'.err /\ (reader'.finalized <=> reader'.path.kind = "fin")
          /\ reader'.start = reader'.path.start /\ reader'.end <= reader'.path.end
      BY <1>1, <1>2, <1>4
    <3> QED BY <3>1, <3>2, <1>9 DEF ReaderIs, Holds, Logs
  <2>2. todo' \subseteq todo /\ todo' \subseteq DOMAIN dir' /\ at' = {writer'.path}
        /\ \A q \in DOMAIN dir' : q.kind = "active" => q = writer'.path
    BY <1>1, <1>2, <1>9
  <2> QED BY <2>1, <2>2, <1>1, <1>4, <1>9, StepCore
<1>10. CASE MilestoneIndex = writer.end
  <2>1. /\ dir' = Appended(dir, {w}) /\ writer' = [writer EXCEPT !.end = @ + 1]
        /\ lines' = lines
    BY <1>2, <1>10 DEF AppendLine, AppendOne
  <2>2. Extended(dir, w, Line, dir')
    BY <2>1, <1>2, <1>3, <1>6, AppendedIs
  <2>3. Files(dir', todo \cup {p}) /\ Lines(dir) \subseteq Lines(dir')
    BY <2>2, <1>2, <1>3, AppendIs
  <2>4. /\ DOMAIN dir' = DOMAIN dir /\ dir' \in [DOMAIN dir' -> Seq(Nat)]
        /\ dir'[w] = Append(dir[w], Line) /\ \A q \in DOMAIN dir \ {w} : dir'[q] = dir[q]
    BY <2>2 DEF Extended
  <2>5. /\ writer' \in LogFiles /\ writer'.start = writer.start /\ writer'.path = w
        /\ writer'.end = writer.end + 1 /\ writer'.err = writer.err
        /\ writer'.finalized = writer.finalized
    <3>1. p.end \in Nat /\ p.end <= Unbounded /\ writer.end \in Nat
      BY <1>2, <1>7
    <3>2. writer.end + 1 <= p.end
      BY <1>3, <1>10
    <3>3. writer.end + 1 \in 0 .. Unbounded
      BY <3>1, <3>2, Bounds
    <3>4. writer \in LogFiles
      BY <1>7
    <3> QED BY <2>1, <3>3, <3>4 DEF LogFiles
  <2>6. WriterIs(dir', writer')
    <3>1. ~writer.err => Holds(dir', w, writer.end + 1)
      <4>1. SUFFICES ASSUME ~writer.err PROVE Holds(dir', w, writer.end + 1)
        OBVIOUS
      <4>2. Run(writer.start, dir[w]) /\ writer.start + Len(dir[w]) = writer.end
        BY <4>1, <1>2, <1>7 DEF WriterIs, Holds
      <4>3. Line = writer.start + Len(dir[w])
        BY <4>2, <1>3, <1>10
      <4>4. Run(writer.start, Append(dir[w], Line)) /\ Len(Append(dir[w], Line)) = Len(dir[w]) + 1
        BY <4>2, <4>3, <1>7, RunAppend
      <4>5. Len(dir[w]) \in Nat
        BY <4>2, <1>7, RunLen
      <4>6. Run(w.start, dir'[w])
        BY <4>4, <2>4, <1>7
      <4>7. w.start + Len(dir'[w]) = writer.end + 1
        BY <4>2, <4>4, <4>5, <2>4, <1>7
      <4>8. w \in DOMAIN dir'
        BY <2>4, <1>2
      <4> QED BY <4>6, <4>7, <4>8 DEF Holds
    <3>2. ~writer.finalized /\ (writer.err => given = "damaged")
      BY <1>2 DEF WriterIs
    <3> QED BY <3>1, <3>2, <2>4, <2>5, <1>2, <1>7 DEF WriterIs
  <2>7. MergedOK'
    <3>1. SUFFICES ASSUME ~withFin, given # "damaged"
                   PROVE  \E low \in 0 .. Unbounded : Covers(dir', todo \cup {p}, low, writer'.end)
      BY <1>4 DEF MergedOK
    <3>2. PICK low \in 0 .. Unbounded : Covers(dir, todo \cup {p}, low, writer.end)
      BY <3>1, <1>1, <1>2, <1>8 DEF MergedOK, Active
    <3>3. \A q \in DOMAIN dir : Len(dir[q]) \in Nat /\ Len(dir[q]) <= Len(dir'[q])
      <4>1. SUFFICES ASSUME NEW q \in DOMAIN dir
                     PROVE  Len(dir[q]) \in Nat /\ Len(dir[q]) <= Len(dir'[q])
        OBVIOUS
      <4>2. Len(dir[q]) \in Nat
        BY <1>6
      <4>3. q = w => Len(dir'[q]) = Len(dir[q]) + 1
        BY <2>4, <1>3, <1>6
      <4>4. q # w => dir'[q] = dir[q]
        BY <2>4
      <4> QED BY <4>2, <4>3, <4>4
    <3>4. low \in Nat /\ writer.end \in Int
      BY <1>7, Bounds
    <3>5. Covers(dir', todo \cup {p}, low, writer.end)
      BY <3>2, <3>3, <3>4, <2>4, <1>6, CoversStay
    <3>6. ~writer'.err /\ writer'.path \notin todo \cup {p} /\ writer'.start <= writer.end
      BY <3>1, <2>5, <1>2, <1>7 DEF WriterIs
    <3>7. Covers(dir', todo \cup {p}, low, writer'.end)
      BY <2>6, <3>4, <3>5, <3>6, WriterExtends
    <3> QED BY <3>7
  <2>8. MilestoneIndex' = writer'.end /\ MilestoneIndex' \in Nat /\ dir'[p] = dir[p]
    <3>1. p \in DOMAIN dir \ {w}
      BY <1>2
    <3>2. dir'[p] = dir[p]
      BY <3>1, <2>4
    <3>3. MilestoneIndex' = writer'.end
      BY <2>5, <1>5, <1>10
    <3>4. MilestoneIndex' \in Nat
      BY <1>3, <1>5
    <3> QED BY <3>2, <3>3, <3>4
  <2>9. Core'
    <3>1. MilestoneIndex' <= writer'.end
      BY <2>8
    <3> QED BY <2>1, <2>3, <2>4, <2>5, <2>6, <2>7, <2>8, <3>1, <1>9
  <2> QED BY <2>3, <2>9
<1>11. CASE MilestoneIndex # writer.end
  <2>1. dir' = dir /\ writer' = writer /\ lines' = lines
    BY <1>11 DEF AppendLine
  <2>2. MilestoneIndex' <= writer'.end
    <3>1. MilestoneIndex \in Nat /\ writer.end \in Nat /\ MilestoneIndex <= writer.end
      BY <1>2, <1>3, <1>7
    <3> QED BY <3>1, <2>1, <1>5, <1>11
  <2>4. MergedOK'
    BY <2>1, <1>1, <1>2, <1>4, <1>8 DEF MergedOK, Covers, Active
  <2>5. Core'
    BY <2>1, <2>2, <2>4, <1>2, <1>9
  <2> QED BY <2>1, <2>5
<1> QED BY <1>10, <1>11

\* The active file as it is closed when it is full.
LEMMA FullIs ==
  ASSUME NEW d, NEW U, Files(d, U), WriterIs(d, writer),
         NEW old, old = [writer EXCEPT !.finalized = TRUE]
  PROVE  /\ Closed(d, U, old, Close(d, old)) /\ old.path = writer.path
         /\ ClosedPath(old).kind \in {"fin", "err"} /\ ClosedPath(old).start = writer.start
         /\ ClosedPath(old).end = writer.end
         /\ given # "damaged" =>
              /\ ClosedPath(old).kind = "fin"
              /\ ClosedPath(old) \in DOMAIN d => Len(d[ClosedPath(old)]) <= Len(d[writer.path])
              /\ Lines(d) \subseteq Lines(Close(d, old))
<1>1. /\ writer \in LogFiles /\ writer.path \in DOMAIN d /\ writer.path.start = writer.start
  BY WriterPath
<1>2. /\ old \in LogFiles /\ old.start = writer.start /\ old.end = writer.end
      /\ old.path = writer.path /\ old.err = writer.err /\ old.finalized
  BY <1>1 DEF LogFiles
<1>3. (~writer.err => Holds(d, writer.path, writer.end)) /\ (writer.err => given = "damaged")
  BY DEF WriterIs
<1>4. /\ ClosedPath(old).start = old.start /\ ClosedPath(old).end = old.end
      /\ ClosedPath(old).kind = IF old.err THEN "err" ELSE IF old.finalized THEN "fin" ELSE "log"
  BY <1>2, ClosedPathIs
<1>5. old.path \in DOMAIN d /\ old.path.start = old.start
      /\ (~old.err => Holds(d, old.path, old.end))
  BY <1>1, <1>2, <1>3
<1>6. Closed(d, U, old, Close(d, old))
  BY <1>2, <1>5, CloseIs
<1>7. ASSUME given # "damaged"
      PROVE  /\ ClosedPath(old).kind = "fin"
             /\ ClosedPath(old) \in DOMAIN d => Len(d[ClosedPath(old)]) <= Len(d[old.path])
             /\ Lines(d) \subseteq Lines(Close(d, old))
  <2>1. ~old.err /\ Holds(d, old.path, old.end)
    BY <1>2, <1>3, <1>5, <1>7
  <2>2. ClosedPath(old).kind = "fin"
    BY <2>1, <1>2, <1>4
  <2>3. /\ ClosedPath(old) \in DOMAIN d => Len(d[ClosedPath(old)]) <= Len(d[old.path])
        /\ Lines(d) \subseteq Lines(Close(d, old))
    BY <2>1, <1>2, <1>5, <1>7, CloseKeeps
  <2> QED BY <2>2, <2>3
<1> QED BY <1>2, <1>4, <1>6, <1>7

\* Closing it leaves what is covered so.
LEMMA FullCovers ==
  ASSUME given # "damaged", NEW d, NEW U, Files(d, U), WriterIs(d, writer),
         NEW old, old = [writer EXCEPT !.finalized = TRUE],
         \A q \in U : q.kind # "fin", NEW low \in Nat, NEW g \in Int, Covers(d, U, low, g)
  PROVE  Covers(Close(d, old), U, low, g)
<1>. DEFINE new == ClosedPath(old)
            w == writer.path
<1>1. /\ old.path = w /\ new.kind = "fin" /\ new.start = writer.start
      /\ new \in DOMAIN d => Len(d[new]) <= Len(d[w])
  BY FullIs
<1>2. w \in DOMAIN d /\ w.start = writer.start /\ writer.start \in Nat
  BY WriterPath
<1>3. Close(d, old) = Rename(d, w, new)
  BY <1>1, <1>2 DEF Close
<1>4. d \in [DOMAIN d -> Seq(Nat)] /\ new \notin U
  BY <1>1 DEF Files
<1>. HIDE DEF new, w
<1>5. Covers(Rename(d, w, new), U, low, g)
  BY <1>1, <1>2, <1>4, CoversRename
<1> QED BY <1>3, <1>5

\* The active file is full: the active file that follows is another one.
LEMMA OverflowStep ==
  ASSUME Core, Overflow, ~reopened'
  PROVE  Core' /\ (given # "damaged" => Lines(dir) \subseteq Lines(dir'))
<1>. DEFINE p == reader.path
            w == writer.path
            m == MilestoneIndex
            U == todo \cup {p}
            new == LogFile(m, m + 1, ActivePath(m))
            old == [writer EXCEPT !.finalized = TRUE]
            created == Create(dir, ActivePath(m))
            closed == Close(created, old)
<1>1. /\ phase = "copy" /\ phase' = "copy" /\ Copying /\ HasLine /\ pos > 0
      /\ pos' = pos + 1 /\ reader' = reader /\ lines' = lines /\ todo' = todo
      /\ UNCHANGED settings /\ ActivePath(m) # w
      /\ dir' = Appended(closed, {ActivePath(m)}) /\ writer' = new /\ at' = {ActivePath(m)}
  <2>1. writer.path \in DOMAIN dir
    BY CopyIs DEF Overflow, Copying
  <2>2. ~Panics(created, old)
    <3>1. old.path = writer.path
      OBVIOUS
    <3> QED BY <2>1, <3>1 DEF Panics, Create
  <2>3. [LogFile(m, m, ActivePath(m)) EXCEPT !.end = @ + 1] = new
    BY DEF LogFile
  <2>4. ActivePath(m) # w
    BY DEF Overflow
  <2> QED BY <2>2, <2>3, <2>4 DEF Overflow, Copying, Write
<1>2. /\ p \in Logs(dir) /\ p \in DOMAIN dir /\ p \in FilePath /\ p \notin todo
      /\ p.kind \in {"log", "fin"} /\ (p.kind = "log" \/ withFin)
      /\ p.start \in Nat /\ p.end \in Nat /\ p.end <= Unbounded
      /\ Len(dir[p]) \in Nat /\ reader.end <= p.end
      /\ reader \in LogFiles /\ reader.start = p.start /\ ~reader.err
      /\ (reader.finalized <=> p.kind = "fin") /\ Holds(dir, p, reader.end)
      /\ pos \in Nat /\ m = p.start + pos /\ m <= writer.end
      /\ Run(p.start, lines) /\ Len(lines) = Len(dir[p]) /\ reader.end = p.start + Len(dir[p])
      /\ given = "whole" \/ p.kind = "fin" => reader.end = p.end
      /\ Files(dir, U) /\ Unread = U /\ todo \subseteq DOMAIN dir
      /\ \A q \in todo : q.kind = "log" \/ (q.kind = "fin" /\ withFin)
      /\ WriterIs(dir, writer) /\ w.kind = "active" /\ w \in DOMAIN dir /\ w \notin U
      /\ \A q \in DOMAIN dir : q.kind = "active" => q = w
  BY <1>1, CopyIs
<1>3. /\ Line = m /\ m \in Nat /\ pos + 1 \in Nat /\ pos + 1 <= Len(lines) /\ m + 1 <= p.end
  BY <1>1, LineIs
<1>4. Active' /\ Reading' /\ Unread' = U /\ withFin' = withFin /\ given' = given
  BY <1>1 DEF Active, Reading, Unread, settings
<1>5. /\ writer.start \in Nat /\ writer.end \in Nat /\ w.start = writer.start
      /\ writer.start < writer.end
  BY <1>2, WriterPath
<1>6. /\ ActivePath(m) \in FilePath /\ ActivePath(m).kind = "active" /\ ActivePath(m).start = m
      /\ m \in 0 .. Unbounded /\ m + 1 \in 0 .. Unbounded
  <2>1. p.end \in Nat /\ p.end <= Unbounded
    BY <1>2
  <2>2. m \in Nat /\ m + 1 <= p.end
    BY <1>3
  <2>3. m \in 0 .. Unbounded /\ m + 1 \in 0 .. Unbounded /\ Unbounded \in 0 .. Unbounded
    BY <2>1, <2>2, Bounds
  <2> QED BY <2>3, PathIn DEF ActivePath
<1>7. /\ new \in LogFiles /\ new.start = m /\ new.end = m + 1 /\ new.path = ActivePath(m)
      /\ new.err = FALSE /\ new.finalized = FALSE
  BY <1>6 DEF LogFile, LogFiles
<1>. HIDE DEF m, p, w, U, new, created, closed
<1>8. ActivePath(m) \notin DOMAIN dir /\ ActivePath(m) # w /\ ActivePath(m) \notin U
  <2>1. p.kind # "active" /\ \A q \in todo : q.kind # "active"
    BY <1>2
  <2> QED BY <2>1, <1>1, <1>2, <1>6 DEF U
<1>9. /\ Files(created, U) /\ DOMAIN created = DOMAIN dir \cup {ActivePath(m)}
      /\ created[ActivePath(m)] = <<>> /\ \A q \in DOMAIN dir : created[q] = dir[q]
      /\ Lines(dir) \subseteq Lines(created)
  <2>1. Files(dir, U) /\ ActivePath(m) \in FilePath /\ ActivePath(m).kind = "active"
        /\ ActivePath(m) \notin DOMAIN dir
    BY <1>2, <1>6, <1>8
  <2> QED BY <2>1, CreateIs DEF created
<1>10. WriterIs(created, writer)
  <2>1. w \in DOMAIN created /\ created[w] = dir[w]
    BY <1>2, <1>9
  <2> QED BY <2>1, <1>2, WriterMoves DEF w
<1>11. /\ Closed(created, U, old, closed) /\ old.path = w
       /\ ClosedPath(old).kind \in {"fin", "err"} /\ ClosedPath(old).end = writer.end
       /\ given # "damaged" => Lines(created) \subseteq Lines(closed)
  <2>1. /\ Closed(created, U, old, Close(created, old)) /\ old.path = writer.path
        /\ ClosedPath(old).kind \in {"fin", "err"} /\ ClosedPath(old).end = writer.end
        /\ given # "damaged" => Lines(created) \subseteq Lines(Close(created, old))
    BY <1>9, <1>10, FullIs
  <2> QED BY <2>1 DEF closed, w
<1>12. /\ Files(closed, U) /\ DOMAIN closed = (DOMAIN created \ {w}) \cup {ClosedPath(old)}
       /\ \A q \in DOMAIN created \ {w} : q # ClosedPath(old) => closed[q] = created[q]
  BY <1>11 DEF Closed
<1>13. ActivePath(m) # ClosedPath(old) /\ p # w /\ p # ActivePath(m)
  BY <1>2, <1>6, <1>11
<1>14. ActivePath(m) \in DOMAIN closed /\ closed[ActivePath(m)] = <<>> /\ p \in DOMAIN closed
  BY <1>2, <1>8, <1>9, <1>12, <1>13
\* Even if the full file gets the name of the one that is read.
<1>15. Holds(closed, p, reader.end)
  <2>1. CASE p.kind = "log"
    <3>1. p \in DOMAIN created \ {w} /\ p # ClosedPath(old)
      BY <2>1, <1>2, <1>9, <1>11, <1>13
    <3>2. closed[p] = dir[p]
      BY <3>1, <1>2, <1>9, <1>12
    <3> QED BY <3>2, <1>2, <1>14 DEF Holds
  <2>2. CASE p.kind = "fin"
    <3>1. p \in Logs(closed)
      BY <2>2, <1>14 DEF Logs
    <3>2. LogOK(p, closed[p], p \in U)
      BY <3>1, <1>12 DEF Files
    <3> QED BY <2>2, <3>2, <1>2, <1>14 DEF LogOK, Holds
  <2> QED BY <2>1, <2>2, <1>2
<1>16. Extended(closed, ActivePath(m), m, dir')
  <2>1. closed \in [DOMAIN closed -> Seq(Nat)] /\ Line \in Nat
    BY <1>3, <1>12 DEF Files
  <2>2. Extended(closed, ActivePath(m), Line, Appended(closed, {ActivePath(m)}))
    BY <2>1, <1>14, AppendedIs
  <2> QED BY <2>2, <1>1, <1>3
<1>17. /\ Files(dir', U) /\ Lines(closed) \subseteq Lines(dir')
       /\ DOMAIN dir' = DOMAIN closed /\ dir' \in [DOMAIN dir' -> Seq(Nat)]
       /\ dir'[ActivePath(m)] = Append(<<>>, m) /\ dir'[p] = closed[p]
       /\ \A q \in DOMAIN closed \ {ActivePath(m)} : dir'[q] = closed[q]
  <2>1. Files(dir', U) /\ Lines(closed) \subseteq Lines(dir')
    BY <1>3, <1>6, <1>12, <1>14, <1>16, AppendIs
  <2>2. /\ DOMAIN dir' = DOMAIN closed /\ dir' \in [DOMAIN dir' -> Seq(Nat)]
        /\ dir'[ActivePath(m)] = Append(<<>>, m)
        /\ \A q \in DOMAIN closed \ {ActivePath(m)} : dir'[q] = closed[q]
    BY <1>14, <1>16 DEF Extended
  <2> QED BY <2>1, <2>2, <1>13, <1>14
<1>18. WriterIs(dir', new)
  <2>1. Append(<<>>, m) = <<m>> /\ Len(<<m>>) = 1 /\ <<m>>[1] = m /\ <<m>> \in Seq(Nat)
        /\ <<m>> # <<>>
    BY <1>3
  <2>2. Run(m, <<m>>)
    BY <2>1, <1>3 DEF Run
  <2>3. Holds(dir', ActivePath(m), m + 1)
    BY <2>1, <2>2, <1>6, <1>14, <1>17 DEF Holds
  <2>4. m < m + 1
    BY <1>3
  <2> QED BY <2>3, <2>4, <1>7, <1>14, <1>17 DEF WriterIs
<1>19. \A q \in DOMAIN dir' : q.kind = "active" => q = writer'.path
  BY <1>1, <1>2, <1>7, <1>9, <1>11, <1>12, <1>17
<1>20. MilestoneIndex' = m + 1
  <2>1. MilestoneIndex' = reader'.path.start + pos'
    BY DEF MilestoneIndex
  <2>2. reader'.path.start = p.start /\ pos' = pos + 1
    BY <1>1 DEF p
  <2>3. m = p.start + pos /\ p.start \in Nat /\ pos \in Nat
    BY <1>2
  <2>. HIDE DEF p, m
  <2> QED BY <2>1, <2>2, <2>3
<1>21. ReaderIs'
  <2>1. /\ reader'.path \in Logs(dir') \ todo' /\ reader'.path = p /\ Holds(dir', p, reader'.end)
        /\ pos' \in 0 .. Len(lines') /\ Run(reader'.start, lines')
        /\ reader'.start + Len(lines') = reader'.end
    <3>1. p \in DOMAIN dir'
      BY <1>14, <1>17
    <3>2. p \in Logs(dir') \ todo'
      BY <3>1, <1>1, <1>2 DEF Logs
    <3>3. Holds(dir', p, reader'.end)
      BY <3>1, <1>1, <1>15, <1>17 DEF Holds
    <3>4. /\ pos' \in 0 .. Len(lines') /\ Run(reader'.start, lines')
          /\ reader'.start + Len(lines') = reader'.end
      BY <1>1, <1>2, <1>3
    <3>5. reader'.path = p
      BY <1>1 DEF p
    <3> QED BY <3>2, <3>3, <3>4, <3>5
  <2>2. /\ reader' \in LogFiles /\ (reader'.path.kind = "log" \/ withFin')
        /\ ~reader'.err /\ (reader'.finalized <=> reader'.path.kind = "fin")
        /\ reader'.start = reader'.path.start /\ reader'.end <= reader'.path.end
    BY <1>1, <1>2, <1>4, <2>1
  <2>3. MilestoneIndex' <= writer'.end
    BY <1>1, <1>3, <1>7, <1>20
  <2> QED BY <2>1, <2>2, <2>3 DEF ReaderIs, Holds, Logs
<1>22. MergedOK'
  <2>1. SUFFICES ASSUME ~withFin, given # "damaged"
                 PROVE  \E low \in 0 .. Unbounded : Covers(dir', U, low, writer'.end)
    BY <1>4 DEF MergedOK
  <2>2. PICK low \in 0 .. Unbounded : Covers(dir, U, low, writer.end)
    <3>1. Active /\ MergedOK
      BY <1>1 DEF Active, Core
    <3> QED BY <2>1, <3>1, <1>2 DEF MergedOK
  <2>3. low \in Nat /\ writer.end \in Int
    BY <1>5, Bounds
  <2>4. \A q \in U : q.kind # "fin"
    BY <2>1, <1>2 DEF U
  <2>5. /\ dir \in [DOMAIN dir -> Seq(Nat)] /\ DOMAIN dir \subseteq FilePath
        /\ created \in [DOMAIN created -> Seq(Nat)]
        /\ closed \in [DOMAIN closed -> Seq(Nat)] /\ DOMAIN closed \subseteq FilePath
    BY <1>2, <1>9, <1>12 DEF Files
  <2>6. Covers(created, U, low, writer.end)
    <3>1. \A q \in DOMAIN dir \ U : q \in DOMAIN created /\ Len(dir[q]) <= Len(created[q])
      <4>1. \A q \in DOMAIN dir : Len(dir[q]) \in Nat /\ created[q] = dir[q]
        BY <2>5, <1>9
      <4> QED BY <4>1, <1>9
    <3> QED BY <3>1, <2>2, <2>3, <2>5, CoversStay
  <2>7. Covers(closed, U, low, writer.end)
    <3>1. Covers(Close(created, old), U, low, writer.end)
      BY <2>1, <2>3, <2>4, <2>6, <1>9, <1>10, FullCovers
    <3> QED BY <3>1 DEF closed
  <2>8. Covers(dir', U, low, writer.end)
    <3>1. \A q \in DOMAIN closed \ U : q \in DOMAIN dir' /\ Len(closed[q]) <= Len(dir'[q])
      <4>1. ASSUME NEW q \in DOMAIN closed PROVE q \in DOMAIN dir' /\ Len(closed[q]) <= Len(dir'[q])
        <5>1. Len(closed[q]) \in Nat
          BY <2>5
        <5>2. CASE q = ActivePath(m)
          <6>1. Len(closed[q]) = 0 /\ Len(dir'[q]) = 1
            BY <5>2, <1>3, <1>14, <1>17
          <6> QED BY <6>1, <1>17
        <5>3. CASE q # ActivePath(m)
          BY <5>1, <5>3, <1>17
        <5> QED BY <5>2, <5>3
      <4> QED BY <4>1
    <3> QED BY <3>1, <2>3, <2>5, <2>7, <1>17, CoversStay
  <2>9. ~new.err /\ new.path \notin U /\ new.start <= writer.end
    BY <1>2, <1>3, <1>7, <1>8
  <2>10. Covers(dir', U, low, new.end)
    BY <2>3, <2>8, <2>9, <1>18, WriterExtends
  <2> QED BY <2>10, <1>1
<1>23. todo' \subseteq todo /\ todo' \subseteq DOMAIN dir'
  <2>1. \A q \in todo : q \in DOMAIN dir /\ q # w
    BY <1>2 DEF U
  <2> QED BY <2>1, <1>1, <1>9, <1>12, <1>17
<1>24. Core'
  <2>1. Files(dir', Unread') /\ WriterIs(dir', writer') /\ at' = {writer'.path}
    BY <1>1, <1>4, <1>7, <1>17, <1>18
  <2> QED BY <2>1, <1>1, <1>4, <1>19, <1>21, <1>22, <1>23, StepCore
<1>25. given # "damaged" => Lines(dir) \subseteq Lines(dir')
  BY <1>9, <1>11, <1>17
<1> QED BY <1>24, <1>25

\* Opening it a second time does not lose anything yet.
LEMMA OverflowKeeps ==
  ASSUME Core, Overflow, given # "damaged", ActivePath(MilestoneIndex) = writer.path
  PROVE  Lines(dir) \subseteq Lines(dir')
<1>. DEFINE p == reader.path
            w == writer.path
            U == todo \cup {p}
            old == [writer EXCEPT !.finalized = TRUE]
            closed == Close(dir, old)
            new == ClosedPath(old)
<1>1. Copying /\ HasLine /\ phase = "copy"
  BY DEF Overflow, Copying
<1>2. Files(dir, U) /\ WriterIs(dir, writer) /\ w \in DOMAIN dir /\ dir \in [DOMAIN dir -> Seq(Nat)]
  <2>1. Files(dir, U) /\ WriterIs(dir, writer) /\ w \in DOMAIN dir
    BY <1>1, CopyIs
  <2> QED BY <2>1 DEF Files
<1>3. Create(dir, w) = dir
  <2>1. DOMAIN dir \cup {w} = DOMAIN dir
    BY <1>2
  <2>2. \A q \in DOMAIN dir : (IF q \in DOMAIN dir THEN dir[q] ELSE <<>>) = dir[q]
    OBVIOUS
  <2> QED BY <2>1, <2>2, <1>2 DEF Create
<1>4. ~Panics(dir, old) /\ old.path = w
  BY <1>2 DEF Panics
<1>5. dir' = Appended(closed, {new})
  BY <1>3, <1>4 DEF Overflow
<1>6. /\ Closed(dir, U, old, closed) /\ Lines(dir) \subseteq Lines(closed)
  BY <1>2, FullIs
<1>. HIDE DEF U, closed, new, old
<1>7. new \in DOMAIN closed /\ Files(closed, U) /\ closed \in [DOMAIN closed -> Seq(Nat)]
  BY <1>6 DEF Closed, Files, new
<1>8. Line \in Nat
  BY <1>1, LineIs
<1>9. Extended(closed, new, Line, dir')
  BY <1>5, <1>7, <1>8, AppendedIs
<1>10. Lines(closed) \subseteq Lines(dir')
  BY <1>7, <1>8, <1>9, AppendIs
<1> QED BY <1>6, <1>10

LEMMA SwitchStep ==
  ASSUME Core, Switch
  PROVE  Core' /\ (given # "damaged" => Lines(dir) \subseteq Lines(dir'))
<1>. DEFINE p == reader.path
            w == writer.path
            U == todo \cup {p}
            active == ActivePath(p.start)
            old == [writer EXCEPT !.finalized = TRUE]
            read == Close(dir, reader)
            closed == Close(read, old)
            next == LogFile(p.start, p.end, active)
<1>1. /\ phase = "copy" /\ Copying /\ HasLine /\ pos = 0
      /\ todo' = todo /\ UNCHANGED settings
  BY DEF Switch, Copying
<1>2. /\ p \in Logs(dir) /\ p \in DOMAIN dir /\ p \in FilePath /\ p \notin todo
      /\ p.kind \in {"log", "fin"} /\ (p.kind = "log" \/ withFin)
      /\ p.start \in Nat /\ p.end \in Nat /\ p.end <= Unbounded
      /\ Len(dir[p]) \in Nat /\ reader.end <= p.end
      /\ given = "whole" \/ p.kind = "fin" => reader.end = p.end
      /\ reader \in LogFiles /\ reader.start = p.start /\ ~reader.err
      /\ (reader.finalized <=> p.kind = "fin") /\ Holds(dir, p, reader.end)
      /\ p.start + pos <= writer.end
      /\ Files(dir, U) /\ Unread = U /\ todo \subseteq DOMAIN dir
      /\ \A q \in todo : q.kind = "log" \/ (q.kind = "fin" /\ withFin)
      /\ WriterIs(dir, writer) /\ w.kind = "active" /\ w \in DOMAIN dir /\ w \notin U
      /\ \A q \in DOMAIN dir : q.kind = "active" => q = w
  BY <1>1, CopyIs
<1>3. /\ writer.start \in Nat /\ writer.end \in Nat /\ w.start = writer.start
  BY <1>2, WriterPath
<1>4. p.start <= writer.end
  BY <1>1, <1>2
<1>5. /\ active \in FilePath /\ active.kind = "active" /\ active.start = p.start
      /\ p.start \in 0 .. Unbounded /\ p.end \in 0 .. Unbounded
  <2>1. p.start \in 0 .. Unbounded /\ p.end \in 0 .. Unbounded /\ Unbounded \in 0 .. Unbounded
    BY <1>2, Bounds DEF FilePath
  <2> QED BY <2>1, PathIn DEF ActivePath
<1>6. /\ next \in LogFiles /\ next.start = p.start /\ next.end = p.end /\ next.path = active
      /\ next.err = FALSE /\ next.finalized = FALSE
  BY <1>5 DEF LogFile, LogFiles
<1>7. p.start < p.end
  <2>1. LogOK(p, dir[p], p \in U)
    BY <1>2 DEF Files
  <2> QED BY <2>1 DEF LogOK
<1>8. Closed(dir, U, reader, read)
  <2>1. reader.path \in DOMAIN dir /\ reader.path.start = reader.start
    BY <1>2
  <2> QED BY <2>1, <1>2, CloseIs
<1>9. given # "damaged" => Lines(dir) \subseteq Lines(read)
  <2>1. reader.path.start = reader.start /\ Holds(dir, reader.path, reader.end)
    BY <1>2
  <2> QED BY <2>1, <1>2, CloseKeeps
<1>10. /\ ClosedPath(reader).kind = p.kind /\ ClosedPath(reader).start = p.start
       /\ ClosedPath(reader).end = reader.end /\ ClosedPath(reader) \in FilePath
  BY <1>2, ClosedPathIs
\* With the end that its name says, it keeps the name.
<1>11. ASSUME reader.end = p.end PROVE ClosedPath(reader) = p /\ read = dir
  <2>1. ClosedPath(reader) = p
    BY <1>2, <1>10, <1>11, PathIs
  <2>2. dir \in [DOMAIN dir -> Seq(Nat)]
    BY <1>2 DEF Files
  <2>3. Renamed(dir, p, p, Rename(dir, p, p))
    BY <2>2, <1>2, RenameIs
  <2>4. read = Rename(dir, p, p)
    BY <2>1, <1>2 DEF Close
  <2> QED BY <2>1, <2>3, <2>4 DEF Renamed
<1>. HIDE DEF p, w, U, active, next, read, closed
<1>12. /\ Files(read, U) /\ DOMAIN read = (DOMAIN dir \ {p}) \cup {ClosedPath(reader)}
       /\ \A q \in DOMAIN dir \ {p} : q # ClosedPath(reader) => read[q] = dir[q]
  BY <1>8 DEF Closed, p
<1>13. WriterIs(read, writer)
  <2>1. w \in DOMAIN dir \ {p} /\ w # ClosedPath(reader)
    BY <1>2, <1>10
  <2>2. w \in DOMAIN read /\ read[w] = dir[w]
    BY <2>1, <1>12
  <2> QED BY <2>2, <1>2, WriterMoves DEF w
<1>14. /\ Closed(read, U, old, closed) /\ old.path = w
       /\ ClosedPath(old).kind \in {"fin", "err"}
       /\ given # "damaged" => Lines(read) \subseteq Lines(closed)
  <2>1. /\ Closed(read, U, old, Close(read, old)) /\ old.path = writer.path
        /\ ClosedPath(old).kind \in {"fin", "err"}
        /\ given # "damaged" => Lines(read) \subseteq Lines(Close(read, old))
    BY <1>12, <1>13, FullIs
  <2> QED BY <2>1 DEF closed, w
<1>15. /\ Files(closed, U) /\ DOMAIN closed = (DOMAIN read \ {w}) \cup {ClosedPath(old)}
       /\ \A q \in DOMAIN read \ {w} : q # ClosedPath(old) => closed[q] = read[q]
  BY <1>14 DEF Closed
<1>16. \A q \in DOMAIN closed : q.kind # "active"
  BY <1>2, <1>10, <1>12, <1>14, <1>15
<1>17. reader.end = p.end => p \in DOMAIN closed
  <2>1. p # w
    BY <1>2
  <2> QED BY <2>1, <1>11, <1>12, <1>15
<1>18. CASE /\ p \in DOMAIN closed /\ dir' = Rename(closed, p, active) /\ writer' = next
            /\ at' = {active} /\ phase' = "next" /\ reader' = NoFile
  <2>1. reader.end = p.end
    <3>1. SUFFICES ASSUME p.kind = "log", reader.end # p.end PROVE FALSE
      BY <1>2
    <3>2. ClosedPath(reader) # p /\ ClosedPath(old) # p
      BY <3>1, <1>10, <1>14
    <3>3. p \notin DOMAIN read
      BY <3>2, <1>12
    <3> QED BY <3>2, <3>3, <1>15, <1>18
  <2>2. read = dir
    BY <2>1, <1>11
  <2>3. Holds(closed, p, p.end)
    <3>1. CASE p.kind = "log"
      <4>1. p \in DOMAIN read \ {w} /\ p # ClosedPath(old)
        BY <3>1, <2>2, <1>2, <1>14
      <4>2. closed[p] = dir[p]
        BY <4>1, <2>2, <1>15
      <4> QED BY <4>2, <2>1, <1>2, <1>18 DEF Holds
    <3>2. CASE p.kind = "fin"
      <4>1. p \in Logs(closed)
        BY <3>2, <1>18 DEF Logs
      <4>2. LogOK(p, closed[p], p \in U)
        BY <4>1, <1>15 DEF Files
      <4> QED BY <3>2, <4>2, <1>18 DEF LogOK, Holds
    <3> QED BY <3>1, <3>2, <1>2
  <2>4. closed \in [DOMAIN closed -> Seq(Nat)] /\ DOMAIN closed \subseteq FilePath
    BY <1>15 DEF Files
  <2>5. Renamed(closed, p, active, dir')
    <3>1. Renamed(closed, p, active, Rename(closed, p, active))
      BY <2>4, <1>18, RenameIs
    <3> QED BY <3>1, <1>18
  <2>6. /\ DOMAIN dir' = (DOMAIN closed \ {p}) \cup {active} /\ dir' \in [DOMAIN dir' -> Seq(Nat)]
        /\ dir'[active] = closed[p] /\ active \notin DOMAIN closed /\ active # p
        /\ \A q \in DOMAIN closed \ {p} : dir'[q] = closed[q]
    BY <2>5, <1>2, <1>5, <1>16 DEF Renamed
  <2>7. Files(dir', todo)
    <3>1. Files(Rename(closed, p, active), U)
      BY <1>5, <1>15, <1>18, RenameFile
    <3>2. Files(dir', U)
      BY <3>1, <1>18
    <3>3. \A q \in Logs(dir') : q \notin U \ todo
      BY <2>6 DEF Logs, U
    <3>4. todo \subseteq U
      BY DEF U
    <3> QED BY <3>2, <3>3, <3>4, FilesFewer
  <2>8. WriterIs(dir', next)
    <3>1. Holds(dir', active, p.end) /\ active \in DOMAIN dir'
      BY <2>3, <2>6, <1>5 DEF Holds
    <3> QED BY <3>1, <1>6, <1>7 DEF WriterIs, active
  <2>9. Lines(closed) \subseteq Lines(dir')
    <3>1. Lines(closed) \subseteq Lines(Rename(closed, p, active))
      BY <2>4, <2>6, <1>18, RenameKeeps
    <3> QED BY <3>1, <1>18
  <2>10. Active' /\ ~Reading' /\ Unread' = todo /\ withFin' = withFin /\ given' = given
    BY <1>1, <1>18 DEF Active, Reading, Unread, settings
  <2>11. todo' \subseteq todo /\ todo' \subseteq DOMAIN dir'
    <3>1. \A q \in todo : q \in DOMAIN dir /\ q # w /\ q # p
      BY <1>2 DEF U
    <3> QED BY <3>1, <2>2, <2>6, <1>1, <1>15
  <2>12. \A q \in DOMAIN dir' : q.kind = "active" => q = writer'.path
    BY <2>6, <1>6, <1>16, <1>18
  <2>13. MergedOK'
    <3>1. SUFFICES ASSUME ~withFin, given # "damaged"
                   PROVE  \E low \in 0 .. Unbounded : Covers(dir', todo, low, writer'.end)
      BY <2>10 DEF MergedOK
    <3>2. PICK low \in 0 .. Unbounded : Covers(dir, U, low, writer.end)
      <4>1. Active /\ MergedOK
        BY <1>1 DEF Active, Core
      <4> QED BY <3>1, <4>1, <1>2 DEF MergedOK
    <3>3. low \in Nat /\ writer.end \in Int
      BY <1>3, Bounds
    <3>4. \A q \in U : q.kind # "fin"
      BY <3>1, <1>2 DEF U
    <3>5. Covers(closed, U, low, writer.end)
      <4>1. Covers(Close(dir, old), U, low, writer.end)
        BY <3>1, <3>2, <3>3, <3>4, <1>2, FullCovers
      <4> QED BY <4>1, <2>2 DEF closed
    <3>6. Covers(dir', U, low, writer.end)
      <4>1. ASSUME NEW q \in DOMAIN closed \ U
            PROVE  q \in DOMAIN dir' /\ Len(closed[q]) <= Len(dir'[q])
        <5>1. q # p /\ Len(closed[q]) \in Nat
          BY <2>4 DEF U
        <5> QED BY <5>1, <2>6
      <4>2. U \subseteq U
        OBVIOUS
      <4> QED BY <4>1, <4>2, <3>3, <3>5, <2>4, <2>6, CoversStay
    <3>7. ~next.err /\ next.path \notin todo /\ next.start <= writer.end /\ todo \subseteq U
      <4>1. \A q \in todo : q.kind # "active"
        BY <1>2
      <4> QED BY <4>1, <1>4, <1>5, <1>6 DEF U
    <3>8. Covers(dir', todo, low, next.end)
      BY <3>3, <3>6, <3>7, <2>8, WriterExtends
    <3> QED BY <3>8, <1>18
  <2>14. Core'
    <3>1. Files(dir', Unread') /\ WriterIs(dir', writer') /\ at' = {writer'.path}
      BY <2>7, <2>8, <2>10, <1>6, <1>18
    <3> QED BY <3>1, <2>10, <2>11, <2>12, <2>13, <1>1, <1>18, StepCore
  <2> QED BY <2>9, <2>14, <1>9, <1>14
<1>19. CASE p \notin DOMAIN closed /\ End("failed", closed)
  <2>1. given # "whole"
    BY <1>2, <1>17, <1>19
  <2>2. Files(closed, todo')
    <3>1. \A q \in Logs(closed) : q \notin U \ todo
      BY <1>19 DEF Logs, U
    <3>2. todo \subseteq U
      BY DEF U
    <3> QED BY <3>1, <3>2, <1>1, <1>15, FilesFewer
  <2>3. Core'
    <3>1. todo' \subseteq todo
      BY <1>1
    <3> QED BY <3>1, <2>1, <2>2, <1>1, <1>16, <1>19, EndCore
  <2>4. dir' = closed
    BY <1>19 DEF End
  <2> QED BY <2>3, <2>4, <1>9, <1>14
<1>20. \/ /\ p \in DOMAIN closed /\ dir' = Rename(closed, p, active) /\ writer' = next
          /\ at' = {active} /\ phase' = "next" /\ reader' = NoFile
       \/ p \notin DOMAIN closed /\ End("failed", closed)
  <2>1. ~Panics(read, old)
    <3>1. writer.path \in DOMAIN read
      BY <1>13, WriterPath
    <3> QED BY <3>1, <1>14 DEF Panics, w
  <2> QED BY <2>1 DEF Switch, Write, p, closed, read, active, next
<1> QED BY <1>18, <1>19, <1>20

LEMMA ConsumeStep ==
  ASSUME Core, Consume
  PROVE  Core' /\ (given # "damaged" /\ ~withFin => Lines(dir) \subseteq Lines(dir'))
<1>. DEFINE p == reader.path
            w == writer.path
            U == todo \cup {p}
            left == Remove(dir, p)
<1>1. /\ phase = "copy" /\ Copying /\ ~HasLine /\ todo' = todo /\ UNCHANGED settings
  BY DEF Consume, Consumes, Copying
<1>2. /\ p \in Logs(dir) /\ p \in DOMAIN dir /\ p \in FilePath /\ p \notin todo
      /\ p.kind \in {"log", "fin"} /\ (p.kind = "log" \/ withFin)
      /\ p.start \in Nat /\ p.end \in Nat
      /\ Run(p.start, dir[p]) /\ Len(dir[p]) \in Nat
      /\ reader.end = p.start + Len(dir[p])
      /\ given = "whole" \/ p.kind = "fin" => reader.end = p.end
      /\ reader \in LogFiles /\ reader.start = p.start /\ ~reader.err
      /\ (reader.finalized <=> p.kind = "fin")
      /\ Len(lines) = Len(dir[p]) /\ pos \in Nat /\ pos <= Len(lines) /\ at = {w}
      /\ MilestoneIndex = p.start + pos /\ MilestoneIndex <= writer.end
      /\ Files(dir, U) /\ Unread = U /\ todo \subseteq DOMAIN dir
      /\ \A q \in todo : q.kind = "log" \/ (q.kind = "fin" /\ withFin)
      /\ WriterIs(dir, writer) /\ w.kind = "active" /\ w \in DOMAIN dir /\ w \notin U
      /\ \A q \in DOMAIN dir : q.kind = "active" => q = w
  BY <1>1, CopyIs
<1>3. MilestoneIndex = reader.end /\ reader.end <= writer.end
  <2>1. ~(pos < Len(lines))
    BY <1>1 DEF HasLine
  <2>2. pos = Len(dir[p])
    BY <2>1, <1>2
  <2> QED BY <2>2, <1>2
<1>4. level # "Full" => MilestoneIndex = p.end
  <2>1. level # "Full" => given = "whole"
    BY DEF Core, SettingsOK
  <2> QED BY <2>1, <1>2, <1>3
<1>5. IF Panics(left, reader) THEN EndInPanic(left)
      ELSE dir' = left /\ phase' = "next" /\ reader' = NoFile /\ writer' = writer /\ at' = at
  <2>1. Consumes(FALSE)
    <3>1. (level # "Full" /\ MilestoneIndex # p.end) = FALSE
      BY <1>4
    <3> QED BY <3>1 DEF Consume
  <2>2. at \ {p} = at
    BY <1>2
  <2> QED BY <2>1, <2>2, <1>2 DEF Consumes
<1>6. reader.end = p.end => ~Panics(left, reader)
  <2>1. SUFFICES ASSUME reader.end = p.end PROVE ClosedPath(reader) = p
    BY DEF Panics
  <2>2. /\ ClosedPath(reader).kind = p.kind /\ ClosedPath(reader).start = p.start
        /\ ClosedPath(reader).end = reader.end /\ ClosedPath(reader) \in FilePath
    BY <1>2, ClosedPathIs
  <2> QED BY <2>1, <2>2, <1>2, PathIs
<1>7. dir \in [DOMAIN dir -> Seq(Nat)] /\ DOMAIN dir \subseteq FilePath
  BY <1>2 DEF Files
<1>8. /\ DOMAIN left = DOMAIN dir \ {p} /\ left \in [DOMAIN left -> Seq(Nat)]
      /\ \A q \in DOMAIN left : left[q] = dir[q]
  BY <1>7, RemoveIs
<1>. HIDE DEF p, w, U, left
<1>9. Files(left, todo)
  <2>1. Files(left, U \ {p})
    BY <1>2, RemoveFile DEF left
  <2>2. U \ {p} = todo
    BY <1>2 DEF U
  <2> QED BY <2>1, <2>2
<1>10. WriterIs(left, writer)
  <2>1. w \in DOMAIN left /\ left[w] = dir[w]
    BY <1>2, <1>8
  <2> QED BY <2>1, <1>2, WriterMoves DEF w
\* The lines of the file that is removed are in the files that cover it.
<1>11. ASSUME given # "damaged", ~withFin
       PROVE  /\ Lines(dir) \subseteq Lines(left)
              /\ \E low \in 0 .. Unbounded : Covers(left, todo, low, writer.end)
  <2>1. PICK low \in 0 .. Unbounded : Covers(dir, U, low, writer.end)
    <3>1. Active /\ MergedOK
      BY <1>1 DEF Active, Core
    <3> QED BY <3>1, <1>2, <1>11 DEF MergedOK
  <2>2. low \in Nat /\ writer.end \in Int /\ low <= p.start
    <3>1. writer.end \in Nat
      BY <1>2, WriterPath
    <3>2. p \in U
      BY DEF U
    <3> QED BY <3>1, <3>2, <2>1, Bounds DEF Covers
  <2>3. Covers(left, todo, low, writer.end)
    <3>1. ASSUME NEW q \in DOMAIN dir \ U
          PROVE  q \in DOMAIN left /\ Len(dir[q]) <= Len(left[q])
      <4>1. q # p /\ Len(dir[q]) \in Nat
        BY <1>7 DEF U
      <4> QED BY <4>1, <1>8
    <3>2. todo \subseteq U
      BY DEF U
    <3> QED BY <3>1, <3>2, <2>1, <2>2, <1>7, <1>8, CoversStay
  <2>4. ASSUME NEW q \in DOMAIN dir, NEW i \in 1 .. Len(dir[q])
        PROVE  \E r \in DOMAIN left : \E j \in 1 .. Len(left[r]) : left[r][j] = dir[q][i]
    <3>1. CASE q # p
      BY <3>1, <1>8
    <3>2. CASE q = p
      <4>. DEFINE k == p.start + i - 1
      <4>1. dir[q][i] = k /\ k \in Nat /\ low <= k /\ k < writer.end
        <5>1. dir[p][i] = p.start + i - 1 /\ i \in 1 .. Len(dir[p])
          BY <3>2, <1>2 DEF Run
        <5>2. writer.end \in Int /\ low \in Int
          BY <2>2
        <5> QED BY <5>1, <5>2, <3>2, <1>2, <1>3, <2>2
      <4>. HIDE DEF k
      <4>2. k \in low .. writer.end - 1
        BY <4>1, <2>2
      <4>3. PICK r \in DOMAIN dir \ U : r.kind # "err" /\ r.start <= k /\ k < r.start + Len(dir[r])
        BY <2>1, <4>2 DEF Covers
      <4>4. r \in FilePath /\ r.start \in Nat /\ r.kind \in {"log", "active", "fin", "err"}
        BY <1>7, PathType
      <4>5. Run(r.start, dir[r])
        <5>1. CASE r.kind = "active"
          <6>1. r = w /\ w.start = writer.start
            BY <5>1, <1>2, WriterPath DEF w
          <6>2. Holds(dir, w, writer.end)
            BY <1>2, <1>11 DEF WriterIs, w
          <6> QED BY <6>1, <6>2 DEF Holds
        <5>2. CASE r.kind \in {"log", "fin"}
          <6>1. LogOK(r, dir[r], r \in U)
            BY <5>2, <1>2 DEF Files, Logs
          <6> QED BY <6>1, <1>11 DEF LogOK
        <5> QED BY <5>1, <5>2, <4>3, <4>4
      <4>6. k - r.start + 1 \in 1 .. Len(dir[r]) /\ dir[r][k - r.start + 1] = k
        <5>1. r.start \in Nat /\ k \in Nat /\ r.start <= k /\ k < r.start + Len(dir[r])
          BY <4>1, <4>3, <4>4
        <5> QED BY <5>1, <4>5, RunHas, Zenon
      <4>7. r \in DOMAIN left /\ left[r] = dir[r]
        BY <1>8 DEF U
      <4> QED BY <4>1, <4>6, <4>7
    <3> QED BY <3>1, <3>2
  <2>5. Lines(dir) \subseteq Lines(left)
    BY <2>4, LinesKept
  <2> QED BY <2>3, <2>5
<1>12. CASE Panics(left, reader)
  <2>1. given # "whole" /\ EndInPanic(left) /\ Files(left, todo') /\ todo' \subseteq todo
    BY <1>1, <1>2, <1>5, <1>6, <1>9, <1>12
  <2>2. Core' /\ (given # "damaged" => Lines(left) \subseteq Lines(dir'))
    BY <2>1, <1>1, <1>10, PanicStep
  <2> QED BY <2>2, <1>11
<1>13. CASE ~Panics(left, reader)
  <2>1. dir' = left /\ phase' = "next" /\ reader' = NoFile /\ writer' = writer /\ at' = at
    BY <1>5, <1>13
  <2>2. Active' /\ ~Reading' /\ Unread' = todo /\ withFin' = withFin /\ given' = given
    BY <1>1, <2>1 DEF Active, Reading, Unread, settings
  <2>3. MergedOK'
    BY <1>11, <2>1, <2>2 DEF MergedOK, Covers
  <2>4. todo' \subseteq todo /\ todo' \subseteq DOMAIN dir'
    BY <1>1, <1>2, <1>8, <2>1
  <2>5. WriterIs(dir', writer') /\ Files(dir', Unread') /\ at' = {writer'.path}
        /\ \A q \in DOMAIN dir' : q.kind = "active" => q = writer'.path
    BY <1>2, <1>8, <1>9, <1>10, <2>1, <2>2 DEF w
  <2>6. Core'
    BY <1>1, <2>1, <2>2, <2>3, <2>4, <2>5, StepCore
  <2> QED BY <2>1, <2>6, <1>11
<1> QED BY <1>12, <1>13

-----------------------------------------------------------------------------
(* The other steps. *)

LEMMA TakeGoneStep == ASSUME Core, TakeGone PROVE FALSE
<1>1. /\ phase \in {"first", "next"} /\ todo # {} /\ todo' = todo \ {Popped}
      /\ Popped \notin DOMAIN dir
  BY DEF TakeGone
<1>2. Popped \in Logs(dir)
  BY <1>1, Pop
<1> QED BY <1>1, <1>2 DEF Logs

LEMMA FinishStep ==
  ASSUME Core, Finish
  PROVE  Core' /\ (given # "damaged" => Lines(dir) \subseteq Lines(dir'))
<1>1. /\ phase \in {"first", "next"} /\ todo = {} /\ todo' = todo
      /\ EndDropping("done", dir) /\ UNCHANGED settings
  BY DEF Finish
<1>2. Files(dir, todo)
  <2>1. Unread = todo
    BY <1>1 DEF Unread, Reading
  <2> QED BY <2>1 DEF Core
<1>3. CASE phase = "first"
  <2>1. writer = NoFile /\ \A p \in DOMAIN dir : p.kind # "active"
    BY <1>3 DEF Core, WriterOK, ActiveOK, Active
  <2>2. writer.path.kind = "log" /\ writer.path.start = 0 /\ writer.path.end = 0
        /\ ClosedPath(writer) = writer.path
    BY <2>1 DEF NoFile, LogFile, Path, ClosedPath
  <2>3. writer.path \notin DOMAIN dir
    <3>1. SUFFICES ASSUME writer.path \in Logs(dir) PROVE FALSE
      BY <2>2 DEF Logs
    <3>2. LogOK(writer.path, dir[writer.path], writer.path \in todo)
      BY <3>1, <1>2 DEF Files
    <3> QED BY <2>2, <3>2 DEF LogOK
  <2>4. Close(dir, writer) = dir /\ ~Panics(dir, writer)
    BY <2>2, <2>3 DEF Close, Panics
  <2>5. End("done", dir) /\ dir' = dir
    BY <1>1, <2>4 DEF EndDropping, End
  <2>6. Core'
    BY <1>1, <1>2, <2>1, <2>5, EndCore
  <2> QED BY <2>5, <2>6
<1>4. CASE phase = "next"
  <2>1. WriterIs(dir, writer) /\ \A p \in DOMAIN dir : p.kind = "active" => p = writer.path
    BY <1>4 DEF Core, WriterOK, ActiveOK, Active
  <2>2. /\ Closed(dir, todo, writer, Close(dir, writer))
        /\ ClosedPath(writer).kind \in {"log", "err"}
        /\ given # "damaged" => Lines(dir) \subseteq Lines(Close(dir, writer))
    BY <1>2, <2>1, CloseWriter, Zenon
  <2>3. Files(Close(dir, writer), todo')
        /\ \A p \in DOMAIN Close(dir, writer) : p.kind # "active"
    BY <1>1, <2>1, <2>2 DEF Closed
  <2>4. End("done", Close(dir, writer)) /\ dir' = Close(dir, writer)
    <3>1. ~Panics(dir, writer)
      BY <2>1 DEF WriterIs, Panics
    <3> QED BY <3>1, <1>1 DEF EndDropping, End
  <2>5. Core'
    BY <1>1, <2>3, <2>4, EndCore
  <2> QED BY <2>2, <2>4, <2>5
<1> QED BY <1>1, <1>3, <1>4

\* Core is kept until an active file is opened twice; even that loses nothing yet.
LEMMA CleanupStep ==
  ASSUME Core, ~reopened, Cleanup
  PROVE  /\ ~reopened' => Core'
         /\ given # "damaged" /\ ~withFin => Lines(dir) \subseteq Lines(dir')
<1>1. CASE TakeGone
  BY <1>1, TakeGoneStep
<1>2. CASE TakeFirst
  BY <1>2, TakeFirstStep
<1>3. CASE TakeGap
  BY <1>3, TakeGapStep
<1>4. CASE TakeNext
  BY <1>4, TakeNextStep
<1>5. CASE BadLine
  BY <1>5, BadLineStep
<1>6. CASE AppendLine
  BY <1>6, AppendLineStep
<1>7. CASE Overflow
  <2>1. CASE ActivePath(MilestoneIndex) = writer.path
    <3>1. reopened'
      BY <1>7, <2>1 DEF Overflow
    <3> QED BY <1>7, <2>1, <3>1, OverflowKeeps
  <2>2. CASE ActivePath(MilestoneIndex) # writer.path
    <3>1. ~reopened'
      BY <1>7, <2>2 DEF Overflow
    <3> QED BY <1>7, <3>1, OverflowStep
  <2> QED BY <2>1, <2>2
<1>8. CASE Switch
  BY <1>8, SwitchStep
<1>9. CASE Consume
  BY <1>9, ConsumeStep
<1>10. CASE Finish
  BY <1>10, FinishStep
<1> QED BY <1>1, <1>2, <1>3, <1>4, <1>5, <1>6, <1>7, <1>8, <1>9, <1>10 DEF Cleanup

-----------------------------------------------------------------------------
(* The types. *)

LEMMA NoFileIs == NoFile \in LogFiles
<1>1. 0 \in 0 .. Unbounded
  BY Bounds
<1> QED BY <1>1, PathIn, LogFileIs DEF NoFile

LEMMA ActivePathIs ==
  ASSUME NEW s \in 0 .. Unbounded
  PROVE  ActivePath(s) \in FilePath
<1>1. Unbounded \in 0 .. Unbounded
  BY Bounds
<1> QED BY <1>1, PathIn DEF ActivePath

LEMMA FaultyIs == ASSUME NEW f \in LogFiles PROVE Faulty(f) \in LogFiles
BY DEF Faulty, LogFiles

\* The lines of a file that verify accepts fit into its name.
LEMMA VerifiedType ==
  ASSUME NEW f \in LogFiles, NEW ls \in Seq(Nat), NEW lvl, Verdict(f, ls, lvl) = "ok"
  PROVE  Verified(f, ls, lvl) \in LogFiles
<1>1. CASE f.finalized \/ lvl # "Full"
  BY <1>1 DEF Verified
<1>2. CASE ~f.finalized /\ lvl = "Full"
  <2>1. Exact(f, ls)
    BY <1>2 DEF Verdict
  <2>2. f.start \in Nat /\ f.end \in Nat /\ f.end <= Unbounded
    BY Bounds DEF LogFiles
  <2>3. f.start + Len(ls) \in 0 .. Unbounded
    BY <2>1, <2>2, Bounds DEF Exact
  <2> QED BY <1>2, <2>3 DEF Verified, LogFiles
<1> QED BY <1>1, <1>2

LEMMA DirRename ==
  ASSUME NEW d, DirOK(d), NEW p \in DOMAIN d, NEW new \in FilePath
  PROVE  DirOK(Rename(d, p, new))
<1>1. Renamed(d, p, new, Rename(d, p, new))
  BY RenameIs, Zenon DEF DirOK
<1> QED BY <1>1 DEF DirOK, Renamed

LEMMA DirClose ==
  ASSUME NEW d, DirOK(d), NEW f \in LogFiles
  PROVE  DirOK(Close(d, f))
<1>1. ClosedPath(f) \in FilePath
  BY ClosedPathIs
<1> QED BY <1>1, DirRename DEF Close

LEMMA DirRemove ==
  ASSUME NEW d, DirOK(d), NEW p
  PROVE  DirOK(Remove(d, p))
BY RemoveIs DEF DirOK

LEMMA DirCreate ==
  ASSUME NEW d, DirOK(d), NEW p \in FilePath
  PROVE  DirOK(Create(d, p))
<1>1. \A q \in DOMAIN d \cup {p} : (IF q \in DOMAIN d THEN d[q] ELSE <<>>) \in Seq(Nat)
  BY DEF DirOK
<1> QED BY <1>1 DEF DirOK, Create

LEMMA DirAppended ==
  ASSUME NEW d, DirOK(d), NEW names, Line \in Nat
  PROVE  DirOK(Appended(d, names))
<1>1. \A q \in DOMAIN d : (IF q \in names THEN Append(d[q], Line) ELSE d[q]) \in Seq(Nat)
  BY DEF DirOK
<1> QED BY <1>1 DEF DirOK, Appended

LEMMA EndType ==
  ASSUME TypeOK, UNCHANGED settings, NEW how \in {"done", "failed", "panicked"}, NEW d, DirOK(d),
         End(how, d)
  PROVE  TypeOK'
<1>1. /\ phase' = how /\ dir' = d /\ writer' = NoFile /\ reader' = NoFile
      /\ lines' = <<>> /\ pos' = 0 /\ level' = level
  BY DEF End, settings
<1>2. level \in Levels
  BY DEF TypeOK
<1> QED BY <1>1, <1>2, NoFileIs DEF TypeOK, DirOK, Active, Reading

LEMMA DropType ==
  ASSUME TypeOK, UNCHANGED settings, NEW how \in {"done", "failed", "panicked"}, NEW d, DirOK(d),
         EndDropping(how, d)
  PROVE  TypeOK'
<1>1. DirOK(Close(d, writer))
  BY DirClose DEF TypeOK
<1>2. (IF Panics(d, writer) THEN "panicked" ELSE how) \in {"done", "failed", "panicked"}
  OBVIOUS
<1> QED BY <1>1, <1>2, EndType DEF EndDropping

LEMMA PanicType ==
  ASSUME TypeOK, UNCHANGED settings, NEW d, DirOK(d), EndInPanic(d)
  PROVE  TypeOK'
<1>1. DirOK(Close(d, writer))
  BY DirClose DEF TypeOK
<1>2. CASE End("panicked", d)
  BY <1>2, EndType
<1>3. CASE End("panicked", Close(d, writer))
  BY <1>1, <1>3, EndType
<1> QED BY <1>2, <1>3 DEF EndInPanic

LEMMA StepType ==
  ASSUME TypeOK, UNCHANGED settings, phase' \in {"first", "next", "copy"}, DirOK(dir'),
         writer' \in LogFiles, reader' \in LogFiles, lines' \in Seq(Nat), pos' \in Nat,
         ~Active' => writer' = NoFile, ~Reading' => reader' = NoFile
  PROVE  TypeOK'
<1>1. level' = level /\ level \in Levels
  BY DEF settings, TypeOK
<1> QED BY <1>1 DEF TypeOK, DirOK

LEMMA OpenedType ==
  ASSUME TypeOK, Popped \in DOMAIN dir
  PROVE  /\ Popped \in FilePath /\ dir[Popped] \in Seq(Nat)
         /\ Opened \in LogFiles /\ Consumed \in LogFiles
         /\ Faulty(Opened) \in LogFiles /\ Faulty(Consumed) \in LogFiles
         /\ DirOK(AfterOpen)
<1>1. Popped \in FilePath /\ dir[Popped] \in Seq(Nat) /\ DirOK(dir)
  BY DEF TypeOK, DirOK
<1>2. Popped.start \in 0 .. Unbounded /\ Popped.end \in 0 .. Unbounded
  BY <1>1 DEF FilePath
<1>3. ActivePath(Popped.start) \in FilePath
  BY <1>2, ActivePathIs
<1>4. Opened \in LogFiles /\ Opened.path = ActivePath(Popped.start)
  BY <1>2, <1>3, LogFileIs DEF Opened
<1>5. Consumed \in LogFiles
  BY <1>1, <1>2, LogFileIs DEF Consumed
<1>6. DirOK(AfterOpen)
  BY <1>1, <1>3, <1>4, DirRename DEF AfterOpen
<1> QED BY <1>1, <1>4, <1>5, <1>6, FaultyIs

LEMMA TakeFirstType == ASSUME TypeOK, TakeFirst PROVE TypeOK'
<1>. DEFINE bad == Close(AfterOpen, Faulty(Opened))
            file == Verified(Opened, dir[Popped], WriterLevel)
<1>1. phase = "first" /\ Popped \in DOMAIN dir /\ UNCHANGED settings
  BY DEF TakeFirst, Pops
<1>2. /\ dir[Popped] \in Seq(Nat) /\ Opened \in LogFiles /\ Faulty(Opened) \in LogFiles
      /\ DirOK(AfterOpen) /\ DirOK(dir)
  BY <1>1, OpenedType DEF TypeOK
<1>3. DirOK(bad) /\ DirOK(Remove(dir, Popped))
  BY <1>2, DirClose, DirRemove
<1>4. writer = NoFile /\ reader = NoFile /\ lines \in Seq(Nat) /\ pos \in Nat
  BY <1>1 DEF TypeOK, Active, Reading
<1>5. CASE OpenedVerdict = "ok" /\ dir' = AfterOpen /\ writer' = file /\ phase' = "next"
           /\ UNCHANGED <<reader, lines, pos>>
  <2>1. file \in LogFiles
    BY <1>2, <1>5, VerifiedType DEF OpenedVerdict
  <2> QED BY <1>1, <1>2, <1>4, <1>5, <2>1, NoFileIs, StepType DEF Active, Reading
<1>6. CASE End("panicked", Remove(dir, Popped))
  BY <1>1, <1>3, <1>6, EndType
<1>7. CASE End("failed", bad)
  BY <1>1, <1>3, <1>7, EndType
<1>8. CASE dir' = bad /\ UNCHANGED <<phase, writer, reader, lines, pos>>
  BY <1>1, <1>3, <1>4, <1>8, NoFileIs, StepType DEF Active, Reading
<1> QED BY <1>5, <1>6, <1>7, <1>8 DEF TakeFirst, Write

LEMMA TakeGapType == ASSUME TypeOK, TakeGap PROVE TypeOK'
<1>. DEFINE closed == Close(AfterOpen, writer)
            bad == Close(closed, Faulty(Opened))
            file == Verified(Opened, dir[Popped], WriterLevel)
<1>1. phase = "next" /\ Popped \in DOMAIN dir /\ UNCHANGED settings
  BY DEF TakeGap, Pops
<1>2. /\ dir[Popped] \in Seq(Nat) /\ Opened \in LogFiles /\ Faulty(Opened) \in LogFiles
      /\ DirOK(AfterOpen) /\ writer \in LogFiles
  BY <1>1, OpenedType DEF TypeOK
<1>3. DirOK(closed) /\ DirOK(bad) /\ DirOK(Remove(closed, Popped))
      /\ DirOK(Close(AfterOpen, Opened))
  BY <1>2, DirClose, DirRemove
<1>4. reader = NoFile /\ lines \in Seq(Nat) /\ pos \in Nat
  BY <1>1 DEF TypeOK, Active, Reading
<1>5. CASE OpenedVerdict = "ok" /\ dir' = closed /\ writer' = file
           /\ UNCHANGED <<phase, reader, lines, pos>>
  <2>1. file \in LogFiles
    BY <1>2, <1>5, VerifiedType DEF OpenedVerdict
  <2> QED BY <1>1, <1>3, <1>4, <1>5, <2>1, NoFileIs, StepType DEF Active, Reading
<1>6. CASE dir' \in {closed, Remove(closed, Popped)} /\ writer' = Faulty(Opened)
           /\ UNCHANGED <<phase, reader, lines, pos>>
  <2>1. DirOK(dir')
    BY <1>3, <1>6
  <2> QED BY <1>1, <1>2, <1>4, <1>6, <2>1, NoFileIs, StepType DEF Active, Reading
<1>7. CASE End("panicked", Close(AfterOpen, Opened))
  BY <1>1, <1>3, <1>7, EndType
<1>8. CASE End("failed", bad)
  BY <1>1, <1>3, <1>8, EndType
<1> QED BY <1>5, <1>6, <1>7, <1>8 DEF TakeGap, Write

LEMMA RejectType ==
  ASSUME TypeOK, Active, UNCHANGED settings, NEW f \in LogFiles, Reject(f)
  PROVE  TypeOK'
<1>. DEFINE left == Close(dir, writer)
<1>1. DirOK(dir) /\ writer \in LogFiles /\ Faulty(f) \in LogFiles
  BY FaultyIs DEF TypeOK
<1>2. DirOK(Close(left, Faulty(f))) /\ DirOK(Close(dir, Faulty(f)))
  BY <1>1, DirClose
<1>3. ASSUME NEW how \in {"panicked", "failed"}, End(how, Close(left, Faulty(f))) PROVE TypeOK'
  BY <1>2, <1>3, EndType
<1>4. CASE /\ dir' = Close(dir, Faulty(f)) /\ phase' = "next" /\ reader' = NoFile
           /\ lines' = <<>> /\ pos' = 0 /\ UNCHANGED writer
  BY <1>1, <1>2, <1>4, NoFileIs, StepType DEF Active, Reading
<1> QED BY <1>3, <1>4 DEF Reject

LEMMA TakeNextType == ASSUME TypeOK, TakeNext PROVE TypeOK'
<1>. DEFINE file == Verified(Consumed, dir[Popped], level)
<1>1. phase = "next" /\ Popped \in DOMAIN dir /\ UNCHANGED settings /\ Active
  BY DEF TakeNext, Pops, Active
<1>2. /\ dir[Popped] \in Seq(Nat) /\ Consumed \in LogFiles
      /\ DirOK(dir) /\ writer \in LogFiles
  BY <1>1, OpenedType DEF TypeOK
<1>3. DirOK(Remove(dir, Popped))
  BY <1>2, DirRemove
<1>4. CASE ConsumedVerdict = "ok" /\ reader' = file /\ lines' = dir[Popped] /\ pos' = 0
           /\ phase' = "copy" /\ UNCHANGED <<dir, writer>>
  <2>1. file \in LogFiles
    BY <1>2, <1>4, VerifiedType DEF ConsumedVerdict
  <2> QED BY <1>1, <1>2, <1>4, <2>1, StepType DEF Active, Reading
<1>5. CASE EndInPanic(Remove(dir, Popped))
  BY <1>1, <1>3, <1>5, PanicType
<1>6. CASE Reject(Consumed)
  BY <1>1, <1>2, <1>6, RejectType
<1> QED BY <1>4, <1>5, <1>6 DEF TakeNext

\* While a file is being read.
LEMMA CopyType ==
  ASSUME TypeOK, Copying, HasLine
  PROVE  /\ DirOK(dir) /\ writer \in LogFiles /\ reader \in LogFiles /\ reader.path \in FilePath
         /\ lines \in Seq(Nat) /\ Append(lines, Line) \in Seq(Nat) /\ Line \in Nat
         /\ pos \in Nat /\ pos + 1 \in Nat /\ MilestoneIndex \in Nat
         /\ MilestoneIndex < Unbounded =>
              MilestoneIndex \in 0 .. Unbounded /\ MilestoneIndex + 1 \in 0 .. Unbounded
         /\ Active /\ UNCHANGED settings
<1>1. DirOK(dir) /\ writer \in LogFiles /\ reader \in LogFiles /\ lines \in Seq(Nat) /\ pos \in Nat
  BY DEF TypeOK
<1>2. reader.path \in FilePath
  BY <1>1 DEF LogFiles
<1>3. MilestoneIndex \in Nat
  BY <1>1, <1>2, PathType DEF MilestoneIndex
<1>4. Line \in Nat
  BY <1>1 DEF HasLine, Line
<1> QED BY <1>1, <1>2, <1>3, <1>4, Bounds DEF Copying, Active

LEMMA BadLineType == ASSUME TypeOK, BadLine PROVE TypeOK'
<1>1. Active /\ UNCHANGED settings /\ reader \in LogFiles /\ DirOK(dir)
  BY CopyType DEF BadLine
<1>2. CASE Reject(reader)
  BY <1>1, <1>2, RejectType
<1>3. CASE EndInPanic(dir)
  BY <1>1, <1>3, PanicType
<1> QED BY <1>2, <1>3 DEF BadLine

LEMMA AppendLineType == ASSUME TypeOK, AppendLine PROVE TypeOK'
<1>1. /\ Copying /\ HasLine /\ MilestoneIndex < Unbounded /\ pos' = pos + 1
      /\ phase = "copy" /\ phase' = phase /\ reader' = reader
  BY DEF AppendLine, Fits, Copying
<1>2. /\ DirOK(dir) /\ writer \in LogFiles /\ reader \in LogFiles
      /\ lines \in Seq(Nat) /\ Append(lines, Line) \in Seq(Nat) /\ Line \in Nat
      /\ pos + 1 \in Nat /\ MilestoneIndex + 1 \in 0 .. Unbounded /\ UNCHANGED settings
  BY <1>1, CopyType
<1>3. CASE MilestoneIndex = writer.end /\ AppendOne
  <2>1. dir' = Appended(dir, at) /\ writer' = [writer EXCEPT !.end = @ + 1]
        /\ lines' \in {lines, Append(lines, Line)}
    BY <1>3 DEF AppendOne
  <2>2. DirOK(dir') /\ lines' \in Seq(Nat)
    BY <1>2, <2>1, DirAppended
  <2>3. writer' \in LogFiles
    BY <1>2, <1>3, <2>1 DEF LogFiles
  <2> QED BY <1>1, <1>2, <2>2, <2>3, StepType DEF Active, Reading
<1>4. CASE UNCHANGED <<dir, writer, lines>>
  BY <1>1, <1>2, <1>4, StepType DEF Active, Reading
<1> QED BY <1>3, <1>4 DEF AppendLine

LEMMA OverflowType == ASSUME TypeOK, Overflow PROVE TypeOK'
<1>. DEFINE path == ActivePath(MilestoneIndex)
            new == LogFile(MilestoneIndex, MilestoneIndex, path)
            old == [writer EXCEPT !.finalized = TRUE]
            both == Create(dir, path)
            closed == Close(both, old)
<1>1. Copying /\ HasLine /\ MilestoneIndex < Unbounded /\ phase = "copy"
  BY DEF Overflow, TooLong, Copying
<1>2. /\ DirOK(dir) /\ writer \in LogFiles /\ reader \in LogFiles /\ lines \in Seq(Nat) /\ Line \in Nat
      /\ pos + 1 \in Nat /\ MilestoneIndex \in 0 .. Unbounded
      /\ MilestoneIndex + 1 \in 0 .. Unbounded /\ UNCHANGED settings
  BY <1>1, CopyType
<1>3. path \in FilePath
  BY <1>2, ActivePathIs
<1>4. new \in LogFiles /\ new.end = MilestoneIndex
  BY <1>2, <1>3, LogFileIs
<1>5. old \in LogFiles /\ [new EXCEPT !.end = @ + 1] \in LogFiles
  <2>1. old \in LogFiles
    BY <1>2 DEF LogFiles
  <2>. HIDE DEF new
  <2> QED BY <2>1, <1>2, <1>4 DEF LogFiles
<1>. HIDE DEF path, new, old
<1>6. DirOK(both)
  BY <1>2, <1>3, DirCreate
<1>7. DirOK(closed) /\ DirOK(Close(both, new))
  BY <1>4, <1>5, <1>6, DirClose
<1>8. ASSUME NEW names PROVE DirOK(Appended(closed, names))
  BY <1>2, <1>7, DirAppended
<1>9. CASE End("panicked", Close(both, new))
  BY <1>2, <1>7, <1>9, EndType
<1>10. CASE /\ \E names : dir' = Appended(closed, names)
            /\ writer' = [new EXCEPT !.end = @ + 1]
            /\ pos' = pos + 1 /\ UNCHANGED <<phase, reader, lines>>
  <2>1. DirOK(dir')
    BY <1>8, <1>10
  <2> QED BY <1>1, <1>2, <1>5, <1>10, <2>1, StepType DEF Active, Reading
<1> QED BY <1>9, <1>10 DEF Overflow, Write, path, new, old

LEMMA SwitchType == ASSUME TypeOK, Switch PROVE TypeOK'
<1>. DEFINE p == reader.path
            old == [writer EXCEPT !.finalized = TRUE]
            read == Close(dir, reader)
            closed == Close(read, old)
<1>1. Copying /\ HasLine
  BY DEF Switch
<1>2. /\ DirOK(dir) /\ writer \in LogFiles /\ reader \in LogFiles /\ p \in FilePath /\ pos \in Nat
      /\ UNCHANGED settings
  BY <1>1, CopyType
<1>3. p.start \in 0 .. Unbounded /\ p.end \in 0 .. Unbounded
  BY <1>2 DEF FilePath
<1>4. ActivePath(p.start) \in FilePath
  BY <1>3, ActivePathIs
<1>5. LogFile(p.start, p.end, ActivePath(p.start)) \in LogFiles
  BY <1>3, <1>4, LogFileIs
<1>6. old \in LogFiles
  BY <1>2 DEF LogFiles
<1>. HIDE DEF old
<1>7. DirOK(read) /\ DirOK(closed)
  BY <1>2, <1>6, DirClose
<1>8. CASE End("panicked", read)
  BY <1>2, <1>7, <1>8, EndType
<1>9. CASE End("failed", closed)
  BY <1>2, <1>7, <1>9, EndType
<1>10. CASE /\ p \in DOMAIN closed /\ dir' = Rename(closed, p, ActivePath(p.start))
            /\ writer' = LogFile(p.start, p.end, ActivePath(p.start))
            /\ phase' = "next" /\ reader' = NoFile /\ lines' = <<>> /\ UNCHANGED pos
  <2>1. DirOK(dir')
    BY <1>4, <1>7, <1>10, DirRename
  <2>2. writer' \in LogFiles /\ lines' \in Seq(Nat) /\ pos' \in Nat
    BY <1>2, <1>5, <1>10
  <2> QED BY <1>2, <1>10, <2>1, <2>2, NoFileIs, StepType DEF Active, Reading
<1> QED BY <1>8, <1>9, <1>10 DEF Switch, Write, old

LEMMA ConsumeType == ASSUME TypeOK, Consume PROVE TypeOK'
<1>. DEFINE left == Remove(dir, reader.path)
<1>1. DirOK(dir) /\ DirOK(left) /\ writer \in LogFiles
  BY DirRemove DEF TypeOK
<1>2. UNCHANGED settings
  BY DEF Consume, Consumes, Copying
<1>3. ASSUME NEW how \in {"panicked", "failed"}, EndDropping(how, dir) PROVE TypeOK'
  BY <1>1, <1>2, <1>3, DropType
<1>4. CASE EndInPanic(left)
  BY <1>1, <1>2, <1>4, PanicType
<1>5. CASE /\ dir' = left /\ phase' = "next" /\ reader' = NoFile /\ lines' = <<>> /\ pos' = 0
           /\ UNCHANGED writer
  BY <1>1, <1>2, <1>5, NoFileIs, StepType DEF Active, Reading
<1>6. \/ \E how \in {"panicked", "failed"} : EndDropping(how, dir)
      \/ EndInPanic(left)
      \/ /\ dir' = left /\ phase' = "next" /\ reader' = NoFile /\ lines' = <<>> /\ pos' = 0
         /\ UNCHANGED writer
  BY DEF Consume, Consumes
<1> QED BY <1>3, <1>4, <1>5, <1>6

LEMMA CleanupType == ASSUME TypeOK, Cleanup PROVE TypeOK'
<1>1. DirOK(dir)
  BY DEF TypeOK
<1>2. CASE TakeGone
  BY <1>1, <1>2, DropType DEF TakeGone
<1>3. CASE Finish
  BY <1>1, <1>3, DropType DEF Finish
<1> QED BY <1>2, <1>3, TakeFirstType, TakeGapType, TakeNextType, BadLineType, AppendLineType,
           OverflowType, SwitchType, ConsumeType DEF Cleanup

-----------------------------------------------------------------------------
(* The start of a cleanup. *)

Fresh == /\ DirOK(dir) /\ level \in Levels
         /\ given = Given(dir) /\ todo = Paths(dir, withFin)
         /\ phase = "first" /\ writer = NoFile /\ reader = NoFile

\* A directory that can be relied on is what Core asks for.
LEMMA FreshCore == Fresh /\ Relied => Core
<1>. SUFFICES ASSUME Fresh, Relied PROVE Core
  OBVIOUS
<1>1. /\ given = Given(dir) /\ todo = Paths(dir, withFin) /\ phase = "first"
      /\ writer = NoFile /\ reader = NoFile
  BY DEF Fresh
<1>2. level \in Levels /\ DOMAIN dir \subseteq FilePath /\ dir \in [DOMAIN dir -> Seq(Nat)]
  BY DEF Fresh, DirOK
<1>. DEFINE others == {p \in Good(dir) : ~Whole(p, dir[p]) \/ p.kind = "active"}
<1>3. /\ given = "whole" => others = {}
      /\ given \in {"cut", "damaged"} => \A p \in others : p.kind = "log" /\ ~(p.start >= p.end)
      /\ given = "cut" => \A p \in others : dir[p] # <<>> /\ Exact(p, dir[p])
  BY <1>1 DEF Given
<1>4. given \in {"whole", "cut", "damaged"} /\ (given # "whole" => level = "Full")
  BY DEF Relied, Trusted
<1>. HIDE DEF others
<1>5. SettingsOK
  BY <1>2, <1>1, <1>4 DEF SettingsOK
<1>6. ~Active /\ ~Reading /\ Unread = todo
  BY <1>1 DEF Active, Reading, Unread
<1>7. \A p \in DOMAIN dir : p.kind # "active"
  <2>1. \A p \in DOMAIN dir : p.kind = "active" => p \in others
    BY DEF others, Good
  <2> QED BY <2>1, <1>3, <1>4
<1>8. ASSUME NEW p \in todo
      PROVE  p \in DOMAIN dir /\ (p.kind = "log" \/ (p.kind = "fin" /\ withFin))
  <2>1. p \in DOMAIN dir /\ p.kind \in {"log", "active"} \cup (IF withFin THEN {"fin"} ELSE {})
    BY <1>1 DEF Paths
  <2> QED BY <2>1, <1>7
<1>9. TodoOK
  BY <1>2, <1>8 DEF TodoOK
<1>10. ASSUME NEW p \in Logs(dir) PROVE LogOK(p, dir[p], p \in todo)
  <2>1. p \in FilePath /\ p \in DOMAIN dir /\ p.kind \in {"log", "fin"} /\ p \in Good(dir)
        /\ dir[p] \in Seq(Nat)
    BY <1>2 DEF Logs, Good
  <2>2. p.start \in Nat /\ p.end \in Nat /\ Len(dir[p]) \in Nat
    BY <2>1, PathType
  <2>3. ASSUME dir[p] # <<>>, Exact(p, dir[p])
        PROVE  Run(p.start, dir[p]) /\ p.start + Len(dir[p]) <= p.end /\ p.start < p.end
    <3>1. Len(dir[p]) # 0
      BY <2>1, <2>3
    <3> QED BY <2>1, <2>2, <2>3, <3>1 DEF Run, Exact
  <2>4. CASE p \notin others
    <3>1. Whole(p, dir[p])
      BY <2>1, <2>4 DEF others
    <3>2. Run(p.start, dir[p]) /\ p.start < p.end
      BY <2>3, <3>1 DEF Whole
    <3>3. p.start + Len(dir[p]) = p.end /\ p.end <= p.end
      BY <2>2, <3>1 DEF Whole
    <3> QED BY <3>2, <3>3 DEF LogOK
  <2>5. CASE p \in others
    <3>1. p.kind = "log" /\ p.start < p.end /\ given \in {"cut", "damaged"}
      BY <1>3, <1>4, <2>2, <2>5
    <3>2. p \in todo
      BY <2>1, <3>1, <1>1 DEF Paths
    <3>3. CASE given = "damaged"
      BY <3>1, <3>2, <3>3 DEF LogOK
    <3>4. CASE given = "cut"
      <4>1. Run(p.start, dir[p]) /\ p.start + Len(dir[p]) <= p.end
        BY <1>3, <2>3, <2>5, <3>4
      <4>2. given # "whole" /\ p.kind # "fin"
        BY <3>1, <3>4
      <4> QED BY <3>1, <3>2, <4>1, <4>2 DEF LogOK
    <3> QED BY <3>1, <3>3, <3>4
  <2> QED BY <2>4, <2>5
<1>11. Files(dir, Unread)
  BY <1>2, <1>6, <1>10 DEF Files
<1>12. ActiveOK /\ WriterOK /\ ReaderOK /\ MergedOK
  BY <1>1, <1>6, <1>7 DEF ActiveOK, WriterOK, ReaderOK, MergedOK
<1> QED BY <1>5, <1>9, <1>11, <1>12 DEF Core

LEMMA FreshNext == (Fresh /\ Relied => Core)'
BY FreshCore, PTL

LEMMA InitFresh == ASSUME Init PROVE Fresh
<1>1. PICK s \in Scenarios : level = s.level /\ dir = s.dir
  BY DEF Init
<1>2. s.level \in Levels /\ DOMAIN s.dir \subseteq FilePath /\ s.dir \in [DOMAIN s.dir -> Seq(Nat)]
  BY MergerAssumption
<1>3. level \in Levels /\ DirOK(dir)
  BY <1>1, <1>2, Zenon DEF DirOK
<1> QED BY <1>3 DEF Init, Fresh

LEMMA RerunFresh == ASSUME TypeOK, Rerun PROVE TypeOK' /\ Fresh'
<1>1. /\ phase \in {"done", "failed", "panicked"} /\ phase' = "first"
      /\ todo' = Paths(dir, withFin) /\ given' = Given(dir)
      /\ dir' = dir /\ level' = level /\ withFin' = withFin
      /\ writer' = writer /\ reader' = reader /\ lines' = lines /\ pos' = pos
  BY DEF Rerun
<1>2. /\ DirOK(dir) /\ level \in Levels /\ writer = NoFile /\ reader = NoFile
      /\ lines \in Seq(Nat) /\ pos \in Nat
  BY <1>1 DEF TypeOK, Active, Reading
<1>3. DirOK(dir)'
  BY <1>1, <1>2
<1>4. Fresh'
  BY <1>1, <1>2, <1>3 DEF Fresh
<1> QED BY <1>1, <1>2, <1>3, <1>4, NoFileIs DEF TypeOK

-----------------------------------------------------------------------------
(* The theorems. *)

LEMMA InvInit == Init => IInv
<1>. SUFFICES ASSUME Init PROVE IInv
  OBVIOUS
<1>1. Fresh
  BY InitFresh
<1>2. TypeOK
  BY <1>1, NoFileIs DEF Init, Fresh, TypeOK
<1> QED BY <1>1, <1>2, FreshCore DEF IInv

\* What a cleanup was given stays what it was.
LEMMA CleanupSettings ==
  ASSUME Cleanup
  PROVE  UNCHANGED settings /\ (~reopened' => ~reopened)
<1>1. CASE TakeGone \/ TakeFirst \/ Finish
  BY <1>1 DEF TakeGone, TakeFirst, Finish, counts
<1>2. CASE TakeGap
  BY <1>2 DEF TakeGap, counts
<1>3. CASE TakeNext
  BY <1>3 DEF TakeNext, counts
<1>4. CASE BadLine \/ AppendLine
  BY <1>4 DEF BadLine, AppendLine, Copying
<1>5. CASE Overflow
  BY <1>5 DEF Overflow, Copying
<1>6. CASE Switch
  BY <1>6 DEF Switch, Copying
<1>7. CASE Consume
  BY <1>7 DEF Consume, Consumes, Copying
<1> QED BY <1>1, <1>2, <1>3, <1>4, <1>5, <1>6, <1>7 DEF Cleanup

LEMMA InvNext == IInv /\ [Next]_vars => IInv'
<1>. SUFFICES ASSUME IInv, [Next]_vars PROVE IInv'
  OBVIOUS
<1>1. CASE Cleanup
  <2>1. UNCHANGED settings /\ (~reopened' => ~reopened)
    BY <1>1, CleanupSettings
  <2>2. Relied' => Relied /\ ~reopened /\ ~reopened'
    BY <2>1 DEF Relied, Trusted, settings
  <2>3. Relied' => Core'
    BY <1>1, <2>2, CleanupStep DEF IInv
  <2>4. TypeOK'
    BY <1>1, CleanupType DEF IInv
  <2> QED BY <2>3, <2>4 DEF IInv
<1>2. CASE Rerun
  BY <1>2, RerunFresh, FreshNext DEF IInv
<1>3. CASE UNCHANGED vars
  <2>1. /\ dir' = dir /\ given' = given /\ level' = level /\ exit' = exit /\ withFin' = withFin
        /\ todo' = todo /\ phase' = phase /\ writer' = writer /\ at' = at /\ reader' = reader
        /\ lines' = lines /\ pos' = pos /\ reopened' = reopened
    BY <1>3 DEF vars, settings, counts
  <2>2. Relied' = Relied
    BY <2>1 DEF Relied, Trusted
  <2>3. SettingsOK' = SettingsOK /\ ActiveOK' = ActiveOK /\ TodoOK' = TodoOK
    BY <2>1 DEF SettingsOK, ActiveOK, TodoOK, Active
  <2>4. Files(dir, Unread)' = Files(dir, Unread)
    BY <2>1 DEF Files, LogOK, Unread, Reading
  <2>5. WriterOK' = WriterOK
    BY <2>1 DEF WriterOK, WriterIs, Active
  <2>6. ReaderOK' = ReaderOK
    BY <2>1 DEF ReaderOK, ReaderIs, Reading, MilestoneIndex
  <2>7. MergedOK' = MergedOK
    BY <2>1 DEF MergedOK, Covers, Unread, Reading, Active
  <2>8. TypeOK' = TypeOK
    BY <2>1 DEF TypeOK, DirOK, Active, Reading
  <2> QED BY <2>2, <2>3, <2>4, <2>5, <2>6, <2>7, <2>8 DEF IInv, Core
<1> QED BY <1>1, <1>2, <1>3 DEF Next

\* Whatever directories cleanup is given, whatever the lengths of their lines and
\* however often it is run, the invariant holds.
THEOREM MergerInv == Spec => []IInv
BY InvInit, InvNext, PTL DEF Spec

\* After any number of steps the name of every file that is closed as a log says
\* exactly which milestones are in it (merge.rs: the rename in Drop), when the
\* archiver finished the files or the cleanup looks at every line, wherever a line
\* does not fit, until an active file is opened a second time (merge.rs:681).
THEOREM MergerNames == Spec => []NamesExact
<1>1. IInv => NamesExact
  <2>1. SUFFICES ASSUME Core, NEW p \in DOMAIN dir, p.kind \in {"log", "fin"},
                        p \notin todo \cup {reader.path}
                 PROVE  Whole(p, dir[p])
    BY DEF IInv, Relied, NamesExact
  <2>2. Files(dir, Unread) /\ p \in Logs(dir) /\ p \notin Unread
    BY <2>1 DEF Core, Logs, Unread
  <2>3. p \in FilePath /\ LogOK(p, dir[p], p \in Unread)
    BY <2>2 DEF Files
  <2>4. p.start \in Nat /\ p.end \in Nat
    BY <2>3, PathType
  <2>5. Run(p.start, dir[p]) /\ p.start + Len(dir[p]) = p.end
    BY <2>2, <2>3 DEF LogOK
  <2>6. Len(dir[p]) \in Nat
    BY <2>4, <2>5, RunLen
  <2>7. dir[p] # <<>> /\ \A i \in 1 .. Len(dir[p]) : dir[p][i] = p.start + i - 1
    BY <2>5 DEF Run
  <2>8. Len(dir[p]) = p.end - p.start /\ Len(dir[p]) <= p.end - p.start
    BY <2>4, <2>5, <2>6
  <2> QED BY <2>7, <2>8 DEF Whole, Exact
<1> QED BY <1>1, MergerInv, PTL

\* No step of a cleanup loses a milestone: what it removes (merge.rs:622), or
\* renames a file over, is in another file, as long as finalized files are left
\* alone; not even the step that opens an active file a second time, which is the
\* last one this can be said of.
THEOREM MergerKeeps == Spec => NothingLost
<1>1. IInv /\ [Next]_vars => [Trusted /\ ~withFin => Lines(dir) \subseteq Lines(dir')]_vars
  <2>1. SUFFICES ASSUME IInv, Next, Trusted, ~withFin PROVE Lines(dir) \subseteq Lines(dir')
    OBVIOUS
  <2>2. Core /\ given # "damaged" /\ ~reopened
    BY <2>1 DEF IInv, Relied, Trusted, Core
  <2>3. CASE Cleanup
    BY <2>1, <2>2, <2>3, CleanupStep
  <2>4. CASE Rerun
    BY <2>4 DEF Rerun
  <2> QED BY <2>1, <2>3, <2>4 DEF Next
<1> QED BY <1>1, MergerInv, PTL DEF Spec, NothingLost

\* A directory of what the archiver finished makes cleanup fail or panic only
\* after it has opened an active file a second time (merge.rs:681), whatever the
\* level, the lengths of the lines and the way the files overlap: the safety half
\* of TidyIsMerged.
THEOREM MergerTidy ==
  Spec => [](given = "whole" => reopened \/ phase \notin {"failed", "panicked"})
<1>1. IInv => (given = "whole" => reopened \/ phase \notin {"failed", "panicked"})
  BY DEF IInv, Relied, Trusted, Core, SettingsOK
<1> QED BY <1>1, MergerInv, PTL

=============================================================================
