------------------------------- MODULE Merger -------------------------------
(***************************************************************************)
(* The merger that `chronicle cleanup' runs over the directory of the      *)
(* archiver's log files: files that continue each other, or overlap, are   *)
(* appended to one active file until it reaches the maximum size.          *)
(*                                                                         *)
(* A file has a name and a sequence of lines; a line is the milestone it   *)
(* holds.  The length of a line is left open: the lines of one milestone    *)
(* differ from file to file, so that any line may be the one that does not  *)
(* fit, also one of an overlap that need not be written.                    *)
(*                                                                         *)
(* A file is renamed when it is closed, which the code does in Drop: its   *)
(* name says how far it got.  An active file names its first milestone     *)
(* only, and is read as one without an end.  An open file need not be      *)
(* where its path says: it may be opened twice, renamed and removed.       *)
(* The levels Light and Full differ in what of a line they look at and are *)
(* one here.  The backup copies are left out, and the calls of the file    *)
(* system fail only where the file is not there.                           *)
(*                                                                         *)
(* After a run that failed or panicked the operator may run cleanup again. *)
(***************************************************************************)
EXTENDS Integers, Sequences

CONSTANTS
  Scenarios,     \* the levels and directories to start from, [level, dir]
  MaxFull,       \* bound on how often a line does not fit into the active file
  Unbounded,     \* u32::MAX, the end of a file whose name has none
  MaxRuns        \* bound on how often cleanup is run

Levels == {"Basic", "JustInTime", "Full"}
FilePath == [start : 0 .. Unbounded, end : 0 .. Unbounded, kind : {"log", "active", "fin", "err"}]

ASSUME MergerAssumption ==
  /\ MaxFull \in Nat /\ Unbounded \in Nat /\ MaxRuns \in Nat \ {0}
  /\ \A s \in Scenarios : /\ s.level \in Levels
                         /\ DOMAIN s.dir \subseteq FilePath
                         /\ s.dir \in [DOMAIN s.dir -> Seq(Nat)]

VARIABLES
  dir,        \* the directory: the lines of every file
  given,      \* history: the directory that cleanup was given, see Given
  level,      \* validation_level
  exit,       \* exit_on_val_err
  withFin,    \* include_finalized
  todo,       \* the paths not popped yet
  phase,      \* "first", "next", "copy", "done", "failed" or "panicked"
  writer,     \* the active log file
  at,         \* the name its file has in the directory: {} when it was removed
  reader,     \* the log file that is being consumed
  lines,      \* its lines, also when another file has got its name
  pos,        \* how many of them have been read
  full,       \* how often a line did not fit
  reopened,   \* history: has an active file been created that was active?
  runs        \* how often cleanup has been run
settings == <<given, level, exit, withFin>>
counts == <<full, reopened, runs>>
vars == <<dir, settings, todo, phase, writer, at, reader, lines, pos, counts>>

Path(start, end, kind) == [start |-> start, end |-> end, kind |-> kind]
ActivePath(start) == Path(start, Unbounded, "active")

-----------------------------------------------------------------------------
(* Log files. *)

LogFile(start, end, path) ==
  [start |-> start, end |-> end, path |-> path,
   err |-> path.kind = "err", finalized |-> path.kind = "fin"]
NoFile == LogFile(0, 0, Path(0, 0, "log"))

Remove(d, p) == [q \in DOMAIN d \ {p} |-> d[q]]
\* A file that already has the new name is replaced.
Rename(d, p, new) ==
  [q \in (DOMAIN d \ {p}) \cup {new} |-> IF q = new THEN d[p] ELSE d[q]]

\* The name that close gives a file.
ClosedPath(f) ==
  Path(f.start, f.end, IF f.err THEN "err" ELSE IF f.finalized THEN "fin" ELSE "log")

\* Drop unwraps the result of close: a file that is gone cannot be renamed.
Panics(d, f) == ClosedPath(f) # f.path /\ f.path \notin DOMAIN d
Close(d, f) == IF f.path \in DOMAIN d THEN Rename(d, f.path, ClosedPath(f)) ELSE d

Faulty(f) == [f EXCEPT !.err = TRUE]

\* The lines are those that the name promises; some at the end may be missing.
Exact(f, ls) == /\ Len(ls) <= f.end - f.start
                   /\ \A i \in 1..Len(ls) : ls[i] = f.start + i - 1

\* verify
Verdict(f, ls, lvl) ==
  CASE f.finalized -> "ok"
    [] ~f.finalized /\ ls = <<>> -> "empty"
    [] ~f.finalized /\ ls # <<>> ->
         IF f.start < f.end /\ (lvl = "Full" => Exact(f, ls)) THEN "ok" ELSE "invalid"

\* Mutant: the end of a file is what its name says.
VerifiedByName(f, ls, lvl) == f

\* verify takes the end of a file from its lines.
Verified(f, ls, lvl) ==
  IF f.finalized \/ lvl # "Full" THEN f ELSE [f EXCEPT !.end = f.start + Len(ls)]

-----------------------------------------------------------------------------

\* LogPaths: the files of the directory that are merged.
Paths(d, fin) == {p \in DOMAIN d : p.kind \in {"log", "active"} \cup (IF fin THEN {"fin"} ELSE {})}

\* What is to be merged sooner or later: files marked as faulty are left alone.
Good(d) == {p \in DOMAIN d : p.kind # "err"}
Whole(p, ls) == ls # <<>> /\ Exact(p, ls) /\ Len(ls) = p.end - p.start

\* The directory that cleanup is given: what the archiver finished ("whole"); the
\* same, but lines at the end of some logs are missing ("cut"); any lines in them
\* ("damaged"); or more than that ("other"), as a file that was left active.
Given(d) ==
  LET others == {p \in Good(d) : ~Whole(p, d[p]) \/ p.kind = "active"}
  IN  IF others = {} THEN "whole"
      ELSE IF \E p \in others : p.kind # "log" \/ p.start >= p.end THEN "other"
      ELSE IF \A p \in others : d[p] # <<>> /\ Exact(p, d[p]) THEN "cut" ELSE "damaged"

\* The lowest start, and of those the largest end.
Popped ==
  CHOOSE p \in todo : \A q \in todo : p.start < q.start \/ (p.start = q.start /\ p.end >= q.end)

Init ==
  /\ \E s \in Scenarios : level = s.level /\ dir = s.dir
  /\ given = Given(dir) /\ exit \in BOOLEAN /\ withFin \in BOOLEAN
  /\ todo = Paths(dir, withFin)
  /\ phase = "first" /\ writer = NoFile /\ at = {} /\ reader = NoFile /\ lines = <<>> /\ pos = 0
  /\ full = 0 /\ reopened = FALSE /\ runs = 1

\* cleanup returns or unwinds: no file is open any more.
End(how, d) == /\ phase' = how /\ dir' = d
               /\ writer' = NoFile /\ at' = {} /\ reader' = NoFile /\ lines' = <<>> /\ pos' = 0

\* The active file is dropped on the way out.
EndDropping(how, d) ==
  End(IF Panics(d, writer) THEN "panicked" ELSE how, Close(d, writer))

\* A panic drops the active file too, unless it was on its way to the caller.
EndInPanic(d) == \/ End("panicked", d)
                 \/ ~Panics(d, writer) /\ End("panicked", Close(d, writer))

\* open_write of the popped file, with the level it is verified at.
Opened == LogFile(Popped.start, Popped.end, ActivePath(Popped.start))
AfterOpen == Rename(dir, Popped, Opened.path)
WriterLevel == IF level = "Basic" THEN "Basic" ELSE "Full"
OpenedVerdict == Verdict(Opened, dir[Popped], WriterLevel)

\* The opened file becomes the active one.
Write(f, names) == writer' = f /\ at' = names

\* cleanup: a file is popped, and is there.
Pops == todo # {} /\ todo' = todo \ {Popped} /\ Popped \in DOMAIN dir

\* It has been closed meanwhile, having been left active: opening it fails.
TakeGone ==
  /\ phase \in {"first", "next"} /\ todo # {} /\ todo' = todo \ {Popped}
  /\ Popped \notin DOMAIN dir /\ EndDropping("failed", dir)
  /\ UNCHANGED <<settings, counts>>

\* cleanup: the first file that can be written to.  An empty one is removed by
\* the path that open_write has just renamed, unless it was left active.
TakeFirst ==
  /\ phase = "first" /\ Pops
  /\ \/ /\ OpenedVerdict = "ok"
        /\ dir' = AfterOpen /\ Write(Verified(Opened, dir[Popped], WriterLevel), {Opened.path})
        /\ phase' = "next" /\ UNCHANGED <<reader, lines, pos>>
     \/ OpenedVerdict = "empty" /\ Popped = Opened.path /\ End("panicked", Remove(dir, Popped))
     \/ OpenedVerdict = "empty" /\ Popped # Opened.path /\ End("failed", Close(AfterOpen, Faulty(Opened)))
     \/ OpenedVerdict = "invalid" /\ exit /\ End("failed", Close(AfterOpen, Faulty(Opened)))
     \/ /\ OpenedVerdict = "invalid" /\ ~exit
        /\ dir' = Close(AfterOpen, Faulty(Opened))
        /\ UNCHANGED <<phase, writer, at, reader, lines, pos>>
  /\ UNCHANGED <<settings, counts>>

\* cleanup: a gap, the popped file becomes the active one; even when it is invalid,
\* and even when it was left active without a line and is removed: then it has no
\* end, and every file that follows is taken to overlap with it.
TakeGap ==
  LET closed == Close(AfterOpen, writer)
  IN  /\ phase = "next" /\ Pops
      /\ Popped.start > writer.end
      /\ \/ Panics(AfterOpen, writer) /\ End("panicked", Close(AfterOpen, Opened))
         \/ /\ ~Panics(AfterOpen, writer)
            /\ \/ /\ OpenedVerdict = "ok"
                  /\ Write(Verified(Opened, dir[Popped], WriterLevel), {Opened.path})
                  /\ dir' = closed /\ UNCHANGED <<phase, reader, lines, pos>>
               \/ /\ OpenedVerdict = "invalid" /\ ~exit
                  /\ Write(Faulty(Opened), {Opened.path})
                  /\ dir' = closed /\ UNCHANGED <<phase, reader, lines, pos>>
               \/ /\ OpenedVerdict = "empty" /\ Popped = Opened.path
                  /\ Write(Faulty(Opened), {})
                  /\ dir' = Remove(closed, Popped) /\ UNCHANGED <<phase, reader, lines, pos>>
               \/ /\ OpenedVerdict = "empty" /\ Popped # Opened.path
                  /\ End("failed", Close(closed, Faulty(Opened)))
               \/ OpenedVerdict = "invalid" /\ exit /\ End("failed", Close(closed, Faulty(Opened)))
      /\ UNCHANGED <<settings, counts>>

Consumed == LogFile(Popped.start, Popped.end, Popped)
ConsumedVerdict == Verdict(Consumed, dir[Popped], level)

\* The name of the active file when p is renamed.
Followed(p, new) == {IF q = p THEN new ELSE q : q \in at \ {new}}

\* The consumed file turns out invalid: it is closed as such, and kept.  An error
\* drops the active file first.
Reject(f) ==
  LET bad == Faulty(f)
      left == Close(dir, writer)
  IN  \/ /\ exit
         /\ End(IF Panics(dir, writer) \/ Panics(left, bad) THEN "panicked" ELSE "failed",
                Close(left, bad))
      \/ /\ ~exit /\ ~Panics(dir, bad)
         /\ dir' = Close(dir, bad) /\ at' = Followed(f.path, ClosedPath(bad))
         /\ phase' = "next" /\ reader' = NoFile /\ lines' = <<>> /\ pos' = 0 /\ UNCHANGED writer

\* merge: a file that continues the active one, or overlaps with it.
TakeNext ==
  /\ phase = "next" /\ Pops
  /\ Popped.start <= writer.end
  /\ \/ /\ ConsumedVerdict = "ok"
        /\ reader' = Verified(Consumed, dir[Popped], level) /\ lines' = dir[Popped] /\ pos' = 0
        /\ phase' = "copy" /\ UNCHANGED <<dir, writer, at>>
     \/ ConsumedVerdict = "empty" /\ EndInPanic(Remove(dir, Popped))
     \/ ConsumedVerdict = "invalid" /\ Reject(Consumed)
  /\ UNCHANGED <<settings, counts>>

MilestoneIndex == reader.path.start + pos
Copying == phase = "copy" /\ UNCHANGED <<settings, todo, runs>>
HasLine == pos < Len(lines)
Line == lines[pos + 1]

\* The lines that are looked at: those of an overlap, and with JustInTime all.
LineValid ==
  (MilestoneIndex < writer.end \/ level = "JustInTime") =>
     Line = MilestoneIndex /\ MilestoneIndex < reader.path.end

\* Whether the line fits is open; that it does not is counted.  No milestone has
\* the largest index, so that the end of a file is one too.
Fits == MilestoneIndex < Unbounded /\ UNCHANGED full
TooLong == MilestoneIndex < Unbounded /\ full < MaxFull /\ full' = full + 1

BadLine == /\ Copying /\ HasLine /\ ~LineValid
           /\ \/ Reject(reader)
              \/ ~exit /\ Panics(dir, Faulty(reader)) /\ EndInPanic(dir)
           /\ UNCHANGED <<full, reopened>>

\* append_line: a removed file takes the line along, its own reader sees it.
Appended(d, names) == [p \in DOMAIN d |-> IF p \in names THEN Append(d[p], Line) ELSE d[p]]
AppendOne ==
  /\ dir' = Appended(dir, at) /\ writer' = [writer EXCEPT !.end = @ + 1]
  /\ lines' = IF reader.path \in at THEN Append(lines, Line) ELSE lines

\* Mutant: the lines of an overlap are appended too.
AppendLineOfOverlap ==
  /\ Copying /\ HasLine /\ LineValid /\ Fits
  /\ AppendOne
  /\ pos' = pos + 1 /\ UNCHANGED <<phase, at, reader, reopened>>

\* The line fits; in an overlap it is there already.
AppendLine ==
  /\ Copying /\ HasLine /\ LineValid /\ Fits
  /\ \/ MilestoneIndex = writer.end /\ AppendOne
     \/ MilestoneIndex # writer.end /\ UNCHANGED <<dir, writer, lines>>
  /\ pos' = pos + 1 /\ UNCHANGED <<phase, at, reader, reopened>>

\* create_active appends to a file that exists.
Create(d, p) == [q \in DOMAIN d \cup {p} |-> IF q \in DOMAIN d THEN d[q] ELSE <<>>]

\* The active file is full: the rest of the consumed file goes to a new one.  In an
\* overlap that begins below the end of the active file, or at its start: then it is
\* the active file that is opened again, and closing the one renames the other.
Overflow ==
  LET path == ActivePath(MilestoneIndex)
      new  == LogFile(MilestoneIndex, MilestoneIndex, path)
      old  == [writer EXCEPT !.finalized = TRUE]
      both == Create(dir, path)
      names == {IF path = old.path THEN ClosedPath(old) ELSE path}
  IN  /\ Copying /\ HasLine /\ LineValid /\ TooLong /\ pos > 0
      /\ reopened' = (reopened \/ path = writer.path)
      /\ \/ Panics(both, old) /\ End("panicked", Close(both, new))
         \/ /\ ~Panics(both, old)
            /\ dir' = Appended(Close(both, old), names)
            /\ Write([new EXCEPT !.end = @ + 1], names)
            /\ pos' = pos + 1 /\ UNCHANGED <<phase, reader, lines>>

\* The active file is full at the first line: the consumed file becomes active,
\* with the end its name says, unless closing it has given it another name.
Switch ==
  LET p == reader.path
      old == [writer EXCEPT !.finalized = TRUE]
      read == Close(dir, reader)
      closed == Close(read, old)
  IN  /\ Copying /\ HasLine /\ LineValid /\ TooLong /\ pos = 0
      /\ \/ Panics(read, old) /\ End("panicked", read)
         \/ /\ ~Panics(read, old) /\ p \in DOMAIN closed
            /\ dir' = Rename(closed, p, ActivePath(p.start))
            /\ Write(LogFile(p.start, p.end, ActivePath(p.start)), {ActivePath(p.start)})
            /\ phase' = "next" /\ reader' = NoFile /\ lines' = <<>> /\ UNCHANGED pos
         \/ ~Panics(read, old) /\ p \notin DOMAIN closed /\ End("failed", closed)
      /\ UNCHANGED reopened

\* The whole file has been read: it is removed, then checked against its name.
Consumes(wrongEnd) ==
  LET left == Remove(dir, reader.path)
      file == IF wrongEnd THEN Faulty(reader) ELSE reader
  IN  /\ Copying /\ ~HasLine
      /\ \/ /\ reader.path \notin DOMAIN dir
            /\ EndDropping(IF Panics(dir, reader) THEN "panicked" ELSE "failed", dir)
         \/ reader.path \in DOMAIN dir /\ Panics(left, file) /\ EndInPanic(left)
         \/ /\ reader.path \in DOMAIN dir /\ ~Panics(left, file)
            /\ dir' = left /\ at' = at \ {reader.path}
            /\ phase' = "next" /\ reader' = NoFile /\ lines' = <<>> /\ pos' = 0 /\ UNCHANGED writer
      /\ UNCHANGED <<full, reopened>>

\* Mutant: the index of the last line is compared with the end, which is exclusive.
ConsumeOffByOne == Consumes(level # "Full" /\ MilestoneIndex - 1 # reader.path.end)

Consume == Consumes(level # "Full" /\ MilestoneIndex # reader.path.end)

Finish ==
  /\ phase \in {"first", "next"} /\ todo = {}
  /\ EndDropping("done", dir)
  /\ UNCHANGED <<settings, todo, counts>>

Rerun ==
  /\ phase \in {"done", "failed", "panicked"} /\ runs < MaxRuns /\ runs' = runs + 1
  /\ phase' = "first" /\ todo' = Paths(dir, withFin)
  /\ given' = Given(dir) /\ reopened' = FALSE
  /\ UNCHANGED <<dir, level, exit, withFin, writer, at, reader, lines, pos, full>>

Cleanup == \/ TakeGone \/ TakeFirst \/ TakeGap \/ TakeNext
           \/ BadLine \/ AppendLine \/ Overflow \/ Switch \/ Consume \/ Finish

Next == Cleanup \/ Rerun

Spec == Init /\ [][Next]_vars /\ WF_vars(Cleanup)

-----------------------------------------------------------------------------
(* Properties. *)

Lines(d) == UNION {{d[p][i] : i \in 1..Len(d[p])} : p \in DOMAIN d}

\* Whether what a cleanup does with the directory can be relied on: the archiver
\* finished every file, or the cleanup finds out at level Full where the lines of a
\* file end; and no active file is open twice.
Trusted == ~reopened /\ (given = "whole" \/ (given = "cut" /\ level = "Full"))

\* No step of a cleanup loses a milestone that was in the directory (merge.rs:622
\* removes a file because its lines are somewhere else), as long as finalized
\* files are left alone: a full file is renamed over one of them.
NothingLost == [][Trusted /\ ~withFin => Lines(dir) \subseteq Lines(dir')]_vars

\* The name of a file that is closed as a log says exactly what is in it; the
\* milestone it ends with is where the next cleanup, and an import, go on.
NamesExact ==
  Trusted \/ (~reopened /\ given = "damaged" /\ level = "Full") =>
    \A p \in DOMAIN dir :
      (p.kind \in {"log", "fin"} /\ p \notin todo \cup {reader.path}) => Whole(p, dir[p])

\* A directory of what the archiver finished is merged at any level, overlaps
\* and gaps included: no run of cleanup fails or panics, unless it opens an
\* active file twice.
TidyIsMerged ==
  /\ [](given = "whole" => reopened \/ phase \notin {"failed", "panicked"})
  /\ given = "whole" ~> reopened \/ phase = "done"

=============================================================================
