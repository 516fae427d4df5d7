------------------------------ MODULE Archiver ------------------------------
(***************************************************************************)
(* The archiver of the chronicle broker: the actor that writes milestone   *)
(* data to write-ahead log files.                                          *)
(*                                                                         *)
(* A log file is created as F.part, takes the milestones F, F+1, ... one   *)
(* line each, and is sealed by renaming it to FtoT.log, T being the first  *)
(* milestone it does not hold.  Two flows feed the archiver: the           *)
(* solidifiers send the milestones the network is confirming, which may    *)
(* arrive out of order and wait in a heap for their turn (next), and the   *)
(* syncer sends the milestones of the gap it is filling, together with the *)
(* end of that gap.                                                        *)
(*                                                                         *)
(* A milestone's data is its index and the length of its line; u32::MAX is *)
(* NoLimit.  `logs` is a Vec kept sorted by `from`, and the logs' `from`s  *)
(* are distinct (Disjoint below), so a set of records stands for it.       *)
(***************************************************************************)
EXTENDS Integers, Sequences, Bags, FiniteSetsExt

CONSTANTS
  NoLimit,           \* u32::MAX, the upper limit of a log without one
  LineLen,           \* LineLen[i]: bytes of the line that holds milestone i
  MaxLogSize,        \* max_log_size, in the same unit
  SolidifiersCount,  \* solidifiers_count
  MaxBuffered,       \* bound on the heap
  DiskFails,         \* may the operations on the disk fail?
  Torn               \* what a failed write leaves of its line, if anything

\* Milestone indices stay clear of u32::MAX.
Index == 1 .. (NoLimit - 2)
Limit == 1 .. NoLimit

ASSUME ArchiverAssumption ==
  /\ NoLimit \in Nat /\ NoLimit > 3
  /\ LineLen \in [Index -> Nat \ {0}]
  /\ MaxLogSize \in Nat
  /\ SolidifiersCount \in Nat
  /\ MaxBuffered \in Nat
  /\ DiskFails \in BOOLEAN
  /\ Torn \notin Index

VARIABLES
  pc,         \* "waiting" for the oneshot, "running", "draining" the heap,
              \* "skipping" a gap of the incoming flow, "failed", "stopped"
  next,       \* the next index of the incoming flow
  heap,       \* milestones_data: a bag of indices, popped lowest first
  logs,       \* the log files in progress
  processed,  \* the ranges <<from, to>> of the files sealed since the start
  part,       \* disk: part[f] is the content of f.part, <<>> if there is none
  sealed      \* disk: sealed[<<f, t>>] is the content of FtoT.log

vars == <<pc, next, heap, logs, processed, part, sealed>>

Log  == [from : Index, to : Limit, upper : Limit, len : Nat]
Name == Index \X Limit
Line == Index \cup {Torn}

TypeOK ==
  /\ pc \in {"waiting", "running", "draining", "skipping", "failed", "stopped"}
  /\ next \in Nat
  /\ IsABag(heap) /\ DOMAIN heap \subseteq Index
  /\ logs \subseteq Log
  /\ processed \subseteq Name
  /\ part \in [Index -> Seq(Line)]
  /\ sealed \in [Name -> Seq(Line)]

Init ==
  /\ pc = "waiting"
  /\ next = 0
  /\ heap = EmptyBag
  /\ logs = {}
  /\ processed = {}
  /\ part = [f \in Index |-> <<>>]
  /\ sealed = [n \in Name |-> <<>>]

-----------------------------------------------------------------------------
(* The log files.                                                          *)

FileName(l) == <<l.from, l.to>>
Within(i, r) == r[1] <= i /\ i < r[2]

\* Mutant: the sealed files are not consulted.
ForgetsFiles(i) == FALSE

\* Is the milestone in a file that has been sealed since the start?
Covered(i) == \E r \in processed : Within(i, r)

\* The first log in progress that ends at i (close_log_file looks no further).
EndsAt(l, i) ==
  /\ l \in logs /\ l.to = i
  /\ \A k \in logs : k.to = i => l.from <= k.from

\* The first log in progress that milestone i extends.
Extends(l, i) ==
  /\ l \in logs /\ l.to = i /\ l.upper > i
  /\ \A k \in logs : (k.to = i /\ k.upper > i) => l.from <= k.from

Fits(l, i) == LineLen[i] + l.len < MaxLogSize

\* The disk after the files of the logs S, whose contents are in p, are renamed.
Parts(p, S) == [f \in Index |-> IF \E l \in S : l.from = f THEN <<>> ELSE p[f]]
Renamed(p, S) ==
  [n \in Name |-> IF \E l \in S : FileName(l) = n THEN p[n[1]] ELSE sealed[n]]

\* The files that are sealed, and the milestones that are on the disk.
OnDisk == {n \in Name : sealed[n] # <<>>}
Stored == {i \in Index : \/ \E f \in Index : i \in Range(part[f])
                         \/ \E n \in Name : i \in Range(sealed[n])}

Written(f, line) == [part EXCEPT ![f] = Append(@, line)]

\* append_line hands its line to a tokio File, which writes it after the call
\* has returned, and nothing flushes the file: the line counts as written, with
\* its row inserted, when it may still get lost.
Outcomes(i) == IF DiskFails THEN {i, Torn} ELSE {i}

\* The next write to such a file reports the error and writes nothing; if there
\* is none, sync_all drops it and the file is sealed as if it were whole.
Broken(l) == LET lines == part[l.from] IN lines # <<>> /\ lines[Len(lines)] = Torn

\* Mutant: a sealed file is not pushed to `processed`.
SettleUnprocessed(L, S, p) ==
  /\ logs' = L \ S
  /\ part' = Parts(p, S)
  /\ sealed' = Renamed(p, S)
  /\ UNCHANGED processed

\* The logs become L and those of S are sealed: renamed, removed and processed.
Settle(L, S, p) ==
  /\ logs' = L \ S
  /\ processed' = processed \cup {FileName(l) : l \in S}
  /\ part' = Parts(p, S)
  /\ sealed' = Renamed(p, S)

\* No log may grow into the file that starts after it.
NewUpper(l, L) == Min({l.upper} \cup {k.from : k \in {m \in L : m.from > l.from}})
Adjusted(L) == {[l EXCEPT !.upper = NewUpper(l, L)] : l \in L}
Full(L) == {l \in L : l.upper = l.to}

\* Mutant: the limit is taken for an inclusive one.
NewLogInclusive(i, u) == [from |-> i, to |-> i + 1, upper |-> u + 1, len |-> LineLen[i]]

NewLog(i, u) == [from |-> i, to |-> i + 1, upper |-> u, len |-> LineLen[i]]
Extended(l, i) ==
  [from |-> l.from, to |-> l.to + 1, upper |-> l.upper, len |-> l.len + LineLen[i]]

\* create_and_append: S holds the log that was finished for its size, if any.
Create(i, u, S) ==
  LET new == NewLog(i, u)
      all == Adjusted(logs \cup {new})
  IN \E line \in Outcomes(i) :
       LET p == Written(i, line)
       IN IF u = i + 1
            THEN Settle(logs \cup {new}, S \cup {new}, p)
            ELSE Settle(all, Full(all) \cup {a \in all : \E l \in S : l.from = a.from}, p)

\* Mutant: the error of the write before is passed over.
AppendToBroken(l, i) ==
  LET m == Extended(l, i)
  IN \E line \in Outcomes(i) :
       Settle((logs \ {l}) \cup {m}, IF m.upper = m.to THEN {m} ELSE {}, Written(l.from, line))

AppendTo(l, i) ==
  LET m == Extended(l, i)
  IN /\ ~Broken(l)
     /\ \E line \in Outcomes(i) :
          Settle((logs \ {l}) \cup {m}, IF m.upper = m.to THEN {m} ELSE {}, Written(l.from, line))

\* handle_milestone_data, when it meets no error.
Handle(i, u) ==
  \/ \E l \in logs : Extends(l, i) /\ Fits(l, i) /\ AppendTo(l, i)
  \/ \E l \in logs :
       /\ Extends(l, i) /\ ~Fits(l, i)
       /\ \/ Covered(i) /\ Settle(logs, {l}, part)
          \/ ~Covered(i) /\ Create(i, l.upper, {l})
  \/ /\ ~\E l \in logs : Extends(l, i)
     /\ ~Covered(i)
     /\ Create(i, u, {})
  \/ /\ ~\E l \in logs : Extends(l, i)
     /\ Covered(i)
     /\ UNCHANGED <<logs, processed, part, sealed>>

\* close_log_file
CloseLog(m) ==
  \/ \E l \in logs : EndsAt(l, m) /\ Settle(logs, {l}, part)
  \/ (~\E l \in logs : l.to = m) /\ UNCHANGED <<logs, processed, part, sealed>>

-----------------------------------------------------------------------------
(* The event loop.                                                         *)

\* The syncer has seen the first milestones and sends the end of them: the
\* network is past everything that was archived before.
Start(n) ==
  /\ pc = "waiting"
  /\ \A i \in Stored : i < n
  /\ pc' = "running"
  /\ next' = n
  /\ UNCHANGED <<heap, logs, processed, part, sealed>>

Close(m) ==
  /\ pc = "running"
  /\ m < next
  /\ CloseLog(m)
  /\ UNCHANGED <<pc, next, heap>>

\* Data of the syncer, behind, at and ahead of the incoming flow.
SyncerBehind(i, u) ==
  /\ pc = "running"
  /\ i < next
  /\ Handle(i, u)
  /\ UNCHANGED <<pc, next, heap>>

SyncerAtNext(i) ==
  /\ pc = "running"
  /\ i = next
  /\ Handle(i, NoLimit)
  /\ next' = next + 1
  /\ UNCHANGED <<pc, heap>>

SyncerAhead(i) ==
  /\ pc = "running"
  /\ i > next
  /\ BagCardinality(heap) < MaxBuffered
  /\ heap' = heap (+) SetToBag({i})
  /\ UNCHANGED <<pc, next, logs, processed, part, sealed>>

\* Data of a solidifier is pushed on the heap, and the heap is drained.
Incoming(i) ==
  /\ pc = "running"
  /\ BagCardinality(heap) < MaxBuffered
  /\ heap' = heap (+) SetToBag({i})
  /\ pc' = "draining"
  /\ UNCHANGED <<next, logs, processed, part, sealed>>

\* Mutant: a max-heap.
Highest(i) == BagIn(i, heap) /\ \A j \in BagToSet(heap) : j <= i
Lowest(i) == BagIn(i, heap) /\ \A j \in BagToSet(heap) : i <= j
Pop(i) == heap' = heap (-) SetToBag({i})
TooMany == BagCardinality(heap) - 1 > SolidifiersCount

DrainNext(i) ==
  /\ pc = "draining" /\ Lowest(i) /\ i = next
  /\ Handle(i, NoLimit)
  /\ Pop(i)
  /\ next' = next + 1
  /\ UNCHANGED pc

\* Mutant: the file before the gap stays open.
DrainGapOpen(i) ==
  /\ pc = "draining" /\ Lowest(i) /\ i > next /\ TooMany
  /\ pc' = "skipping"
  /\ UNCHANGED <<next, heap, logs, processed, part, sealed>>

\* Too much is buffered behind a gap: close the file the gap would extend...
DrainGap(i) ==
  /\ pc = "draining" /\ Lowest(i) /\ i > next /\ TooMany
  /\ CloseLog(next)
  /\ pc' = "skipping"
  /\ UNCHANGED <<next, heap>>

\* ... and go on behind the gap, in a new file.
SkipGap(i) ==
  /\ pc = "skipping" /\ Lowest(i)
  /\ Handle(i, NoLimit)
  /\ Pop(i)
  /\ next' = i + 1
  /\ pc' = "draining"

\* Mutant: the stale milestone is put back.
DrainStaleKept(i) ==
  /\ pc = "draining" /\ Lowest(i) /\ i < next
  /\ UNCHANGED vars

DrainStale(i) ==
  /\ pc = "draining" /\ Lowest(i) /\ i < next
  /\ Pop(i)
  /\ UNCHANGED <<pc, next, logs, processed, part, sealed>>

DrainEnd ==
  /\ pc = "draining"
  /\ \/ heap = EmptyBag
     \/ \E i \in Index : Lowest(i) /\ i > next /\ ~TooMany
  /\ pc' = "running"
  /\ UNCHANGED <<next, heap, logs, processed, part, sealed>>

Drain(i) == DrainNext(i) \/ DrainGap(i) \/ SkipGap(i) \/ DrainStale(i)

-----------------------------------------------------------------------------
(* An operation on the disk reports an error: a file cannot be opened, a    *)
(* write reports its own error (that of the first part of a long line) or   *)
(* that of the write before it, a rename is not done, or is done and the    *)
(* sync after it fails.  The handler returns at once and the event loop     *)
(* asks to abort.                                                           *)

\* The logs are L when the handler returns, and the files of S are renamed.
Fail(L, S, p) ==
  /\ DiskFails
  /\ pc' = "failed"
  /\ heap' = EmptyBag
  /\ logs' = L
  /\ part' = Parts(p, S)
  /\ sealed' = Renamed(p, S)
  /\ UNCHANGED <<next, processed>>

FailCreate(i, u, S) ==
  LET new == NewLog(i, u)
      all == Adjusted(logs \cup {new})
      due == {a \in Full(all) : \A l \in S : l.from # a.from}
  IN \/ \E q \in {part, Written(i, Torn)} : Fail(logs, S, q)
     \/ \E line \in Outcomes(i) :
          LET p == Written(i, line)
          IN \/ u = i + 1 /\ \E T \in {{}, {new}} : Fail(logs, S \cup T, p)
             \/ /\ u # i + 1
                /\ \E k \in due : \E T \in {{}, {k}} :
                     Fail(all, S \cup T \cup {a \in due : a.from > k.from}, p)

FailHandle(i, u) ==
  \/ \E l \in logs :
       /\ Extends(l, i) /\ Fits(l, i)
       /\ LET m == Extended(l, i)
          IN \/ Broken(l) /\ Fail(logs, {}, part)
             \/ ~Broken(l) /\ Fail(logs, {}, Written(l.from, Torn))
             \/ /\ ~Broken(l) /\ m.upper = m.to
                /\ \E T \in {{}, {m}}, line \in Outcomes(i) :
                     Fail((logs \ {l}) \cup {m}, T, Written(l.from, line))
  \/ \E l \in logs :
       /\ Extends(l, i) /\ ~Fits(l, i)
       /\ \/ \E T \in {{}, {l}} : Fail(logs, T, part)
          \/ ~Covered(i) /\ FailCreate(i, l.upper, {l})
  \/ /\ ~\E l \in logs : Extends(l, i)
     /\ ~Covered(i)
     /\ FailCreate(i, u, {})

FailClose(m) ==
  \E l \in logs : EndsAt(l, m) /\ \E T \in {{}, {l}} : Fail(logs, T, part)

\* The handlers above, interrupted by an error.
BehindFails(i, u) == pc = "running" /\ i < next /\ FailHandle(i, u)
AtNextFails(i)    == pc = "running" /\ i = next /\ FailHandle(i, NoLimit)
CloseFails(m)     == pc = "running" /\ m < next /\ FailClose(m)
DrainFails(i) ==
  /\ Lowest(i)
  /\ \/ pc = "draining" /\ i = next /\ FailHandle(i, NoLimit)
     \/ pc = "draining" /\ i > next /\ TooMany /\ FailClose(next)
     \/ pc = "skipping" /\ FailHandle(i, NoLimit)

\* terminating: the logs in progress are renamed; an error is only logged, and
\* a file whose rename was done before the failure is not there any more.
Terminate ==
  /\ pc \in {"waiting", "running", "failed"}
  /\ LET here == {l \in logs : part[l.from] # <<>>}
     IN \E S \in SUBSET here : part' = Parts(part, S) /\ sealed' = Renamed(part, S)
  /\ pc' = "stopped"
  /\ heap' = EmptyBag
  /\ UNCHANGED <<next, logs, processed>>

-----------------------------------------------------------------------------
(* What the syncer promises about the milestones it sends behind the       *)
(* incoming flow: a milestone of a sealed file may be sent again, any      *)
(* other is the next one of a gap i .. u-1 of which nothing is sealed, and *)
(* no other log in progress has room for it.                               *)
GapFree(i, u) ==
  /\ i < u
  /\ \A l \in logs : l.to = i \/ l.upper <= i \/ i < l.from
  /\ \A n \in OnDisk : n[2] <= i \/ u <= n[1]

Resent(i) == \E n \in OnDisk : Within(i, n)

Step ==
  \/ \E n \in Index : Start(n)
  \/ \E m \in Index : Close(m) \/ CloseFails(m)
  \/ \E i \in Index :
       SyncerAtNext(i) \/ SyncerAhead(i) \/ AtNextFails(i) \/ Incoming(i)
  \/ \E i \in Index : Drain(i) \/ DrainFails(i)
  \/ DrainEnd
  \/ Terminate

Behind(i, u) == SyncerBehind(i, u) \/ BehindFails(i, u)

Next == Step \/ \E i \in Index, u \in Limit : (Resent(i) \/ GapFree(i, u)) /\ Behind(i, u)

\* The loop that drains the heap runs without waiting for another event, up to
\* its end or an error.
Draining == DrainEnd \/ \E i \in Index : Drain(i) \/ DrainFails(i)

Spec == Init /\ [][Next]_vars /\ WF_vars(Draining)

\* The process is killed and started again: only the disk is left, and of a
\* file in progress the last write may not have reached it.
Restart ==
  /\ pc' = "waiting" /\ next' = 0 /\ heap' = EmptyBag
  /\ logs' = {} /\ processed' = {}
  /\ \E lost \in SUBSET {l.from : l \in {k \in logs : part[k.from] # <<>>}} :
       part' = [f \in Index |-> IF f \in lost THEN SubSeq(part[f], 1, Len(part[f]) - 1)
                                              ELSE part[f]]
  /\ UNCHANGED sealed

CrashNext ==
  \/ Step
  \/ \E i \in Index, u \in Limit : GapFree(i, u) /\ Behind(i, u)
  \/ Restart
CrashSpec == Init /\ [][CrashNext]_vars

-----------------------------------------------------------------------------
Run(n) == [k \in 1 .. (n[2] - n[1]) |-> n[1] + k - 1]

Names(L) == {FileName(l) : l \in L}
Files == Names(logs) \cup OnDisk
Apart(a, b) == a[2] <= b[1] \/ b[2] <= a[1]
AllApart(F) == \A a, b \in F : a = b \/ Apart(a, b)

\* No milestone belongs to two log files, in progress or sealed, whatever the
\* order in which the two flows deliver their milestones and wherever the disk
\* fails ("to prevent overlap", archiver/event_loop.rs:36 and :91).
NoOverlap == AllApart(Files)

\* The run n, when the write of its last milestone has failed unnoticed.
LastLost(n) == [Run(n) EXCEPT ![n[2] - n[1]] = Torn]

\* A sealed file holds the milestones of its name, in order and once each, when
\* the disk works.  A failed write loses the last line of a file and no other:
\* nothing is ever written behind it.  A line that is torn and not counted in
\* the name is left only by the write that stops the archiver.
SealedExact ==
  \A n \in OnDisk :
    \/ sealed[n] = Run(n)
    \/ DiskFails /\ sealed[n] = LastLost(n)
    \/ DiskFails /\ sealed[n] = Append(Run(n), Torn) /\ pc = "stopped"

\* While the archiver runs, nothing is archived in the room a log in progress
\* still has, to .. upper-1: appending to it can never meet another file.
RoomAhead ==
  pc \in {"running", "draining"} =>
    \A l \in logs : l.to < l.upper /\ \A n \in Files \ {FileName(l)} :
      l.to <= n[1] => l.upper <= n[1]

\* The inductive invariant behind both.  The logs L in progress and the sealed
\* files D hold no milestone twice, and no log has room that L or D lies in.
Sound(L, D) ==
  /\ L \in SUBSET Log /\ D \in SUBSET Name
  /\ \A l \in L : l.from < l.to /\ l.to <= l.upper
  /\ \A d \in D : d[1] < d[2]
  /\ \A k, l \in L : k = l \/ Apart(FileName(k), FileName(l))
  /\ \A l \in L, d \in D : Apart(FileName(l), d)
  /\ AllApart(D)
  /\ \A k, l \in L : l.to <= k.from => l.upper <= k.from
  /\ \A l \in L, d \in D : l.to <= d[1] => l.upper <= d[1]

Working == pc \in {"waiting", "running", "draining", "skipping"}

Tidy == /\ Sound(logs, OnDisk)
        /\ \A l \in logs : l.to < l.upper
        /\ OnDisk \subseteq processed

Bounded(b) == \A f \in Files : f[2] <= b

\* While the archiver works, its files are tidy, none reaches past the incoming
\* flow, and a gap is only skipped towards higher milestones; after a failure no
\* more than NoOverlap is left.
ArchiverInv ==
  /\ NoOverlap
  /\ Working => Tidy /\ Bounded(next)
  /\ pc = "waiting" => Files = {} /\ DOMAIN heap = {}
  /\ pc = "skipping" => \A j \in DOMAIN heap : next <= j

\* The incoming flow may give up a gap, but never jumps over a milestone that
\* waits in the heap: milestones leave it lowest first, whatever the order in
\* which the solidifiers delivered them.
JumpsNothing ==
  [][\A j \in BagToSet(heap) : next <= j => next' <= j + 1]_vars

\* The loop over the heap comes to an end, also when it puts back what it
\* popped.
DrainEnds == pc = "draining" ~> pc \in {"running", "failed", "stopped"}

\* "Write ahead file which stores ordered milestones data by milestone index"
\* (archiver/mod.rs:97): the lines of a sealed file are in ascending order.
LogOrdered ==
  \A n \in OnDisk : \A a, b \in DOMAIN sealed[n] :
    (a < b /\ sealed[n][a] # Torn /\ sealed[n][b] # Torn) => sealed[n][a] < sealed[n][b]
=============================================================================
