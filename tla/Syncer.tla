------------------------------- MODULE Syncer -------------------------------
(***************************************************************************)
(* The syncer of the chronicle broker: the actor that fills the gaps of    *)
(* the sync table.                                                         *)
(*                                                                         *)
(* It first collects one milestone per solidifier, the first ones they     *)
(* observe, and tells the archiver where the incoming flow starts.  Then   *)
(* it takes the gaps of its sync data, lowest first: it keeps a window of  *)
(* `parallelism` requests open at the solidifiers, sends what they answer  *)
(* to the archiver in ascending order, and gives a gap up when one of its  *)
(* milestones is unreachable.  At the end of the sync data (eof) a timer   *)
(* asks it to fetch the table again.                                       *)
(*                                                                         *)
(* Ask Complete takes the runs of milestones without a logged row, FillGaps*)
(* those without any row; complete() and fill_gaps() are otherwise one     *)
(* text, and one operator here.  A gap is its bounds [start, end), in the  *)
(* way of a Rust Range; its end is i32::MAX for the gap that is open.      *)
(***************************************************************************)
EXTENDS Integers, Sequences, FiniteSetsExt

CONSTANTS
  MaxIndex,         \* bound on the milestone indices
  OpenEnd,          \* i32::MAX
  SolidifierCount,  \* solidifier_count
  Parallelism,      \* parallelism
  NoGap, NoLimit    \* None: no active gap, no upper limit

Index == 1 .. MaxIndex

ASSUME SyncerAssumption ==
  /\ MaxIndex \in Nat /\ OpenEnd \in Nat /\ MaxIndex + 1 < OpenEnd
  /\ SolidifierCount \in Nat \ {0}
  /\ Parallelism \in Nat \ {0}

Gap == [start : Index, end : 2 .. OpenEnd]

ASSUME NoneAssumption == NoGap \notin Gap /\ NoLimit \notin Nat

VARIABLES
  active,      \* what is left to request of the gap being filled, or NoGap
  syncData,    \* the gaps not taken yet
  milestones,  \* milestones_data: the answers that wait for their turn
  highest,     \* 0 until the first milestones have been collected
  pending,     \* the number of answers to come
  eof, skip,
  next,        \* the next milestone of the gap to be sent to the archiver
  gapStart, gapEnd, prevClosed,  \* initial_gap_*, prev_closed_log_filename
  oneshot,     \* the start of the incoming flow, 0 until it is sent
  timers,      \* scheduled UpdateSyncData asks
  task,        \* "running", "stopped", or "panicked" by an unwrap on None
  requests,    \* the milestones the solidifiers have yet to answer
  sent         \* what the last step sent to the archiver

gap  == <<next, gapStart, gapEnd>>
vars == <<active, syncData, milestones, highest, pending, eof, skip, gap,
          prevClosed, oneshot, timers, task, requests, sent>>

Message == [type : {"data"}, index : Index, upper : 2 .. OpenEnd \cup {NoLimit}]
             \cup [type : {"close"}, index : 2 .. MaxIndex + 1]
Data(i, u) == [type |-> "data", index |-> i, upper |-> u]
Close(i)   == [type |-> "close", index |-> i]

TypeOK ==
  /\ active \in [start : 1 .. OpenEnd, end : 2 .. OpenEnd] \cup {NoGap}
  /\ syncData \subseteq Gap
  /\ milestones \subseteq Index /\ requests \subseteq Index
  /\ highest \in 0 .. MaxIndex
  /\ pending \in Nat /\ timers \in Nat
  /\ eof \in BOOLEAN /\ skip \in BOOLEAN /\ task \in {"running", "stopped", "panicked"}
  /\ next \in 0 .. OpenEnd /\ gapStart \in 0 .. OpenEnd /\ gapEnd \in 0 .. OpenEnd
  /\ prevClosed \in 0 .. OpenEnd /\ oneshot \in 0 .. OpenEnd
  /\ sent \in Seq(Message)

\* The gaps of a table in which the milestones of `rows` need no more work.
GapsOf(rows) ==
  {g \in Gap :
     /\ g.start < g.end /\ \A i \in g.start .. (g.end - 1) : i \notin rows
     /\ g.start = 1 \/ g.start - 1 \in rows
     /\ g.end = OpenEnd \/ g.end \in rows}

\* Each solidifier starts with one milestone of its residue class, past the
\* start of the open gap (gap_start), as if it had been requested.
Init ==
  /\ active = NoGap
  /\ \E rows \in SUBSET Index :
       /\ syncData = GapsOf(rows)
       /\ requests \in {S \in kSubset(SolidifierCount, Index) :
            /\ \A i \in S, r \in rows : r < i
            /\ \A i, j \in S : i # j => i % SolidifierCount # j % SolidifierCount}
  /\ milestones = {} /\ highest = 0 /\ pending = SolidifierCount
  /\ eof = FALSE /\ skip = FALSE
  /\ next = 0 /\ gapStart = 0 /\ gapEnd = 0 /\ prevClosed = 0
  /\ oneshot = 0 /\ timers = 0 /\ task = "running"
  /\ sent = <<>>

-----------------------------------------------------------------------------
(* Taking the next gap, and asking for more of the active one.             *)

Lowest(D) == CHOOSE g \in D : \A h \in D : g.start <= h.start
End(g, high) == IF g.end = OpenEnd THEN high ELSE g.end

\* Is there a gap to fill?  The open one reaches up to `highest` only.
CanTake(D, high) == D # {} /\ Lowest(D).start < End(Lowest(D), high)

Least(a, b) == IF a < b THEN a ELSE b

\* Mutant: what is requested is not taken out of the gap.
RequestOnly(g, k, open) ==
  /\ active' = g
  /\ requests' = open \cup (g.start .. (g.start + k - 1))

\* Requests the next k milestones of gap g, next to the requests `open`.
Request(g, k, open) ==
  /\ active' = [g EXCEPT !.start = @ + k]
  /\ requests' = open \cup (g.start .. (g.start + k - 1))

\* complete() and fill_gaps(), when no gap is active: take the lowest gap of D
\* and request its first milestones, or notice the end of D; n is `next` so far
\* and `open` the requests that are.  (eof is FALSE from a fetch to the end.)
NextGap(D, high, n, open) ==
  /\ syncData' = {g \in D : \E h \in D : h.start < g.start}
  /\ eof' = ~CanTake(D, high)
  /\ \/ /\ CanTake(D, high)
        /\ LET g == [Lowest(D) EXCEPT !.end = End(Lowest(D), high)]
               k == Least(Parallelism, g.end - g.start)
           IN /\ next' = g.start /\ gapStart' = g.start /\ gapEnd' = g.end
              /\ Request(g, k, open)
              /\ pending' = k
     \/ /\ ~CanTake(D, high)
        /\ active' = NoGap
        /\ requests' = open /\ pending' = 0
        /\ next' = n
        /\ UNCHANGED <<gapStart, gapEnd>>

\* Mutant: the end of the sync data is reached for good.
ScheduleNot(D, high, k) == UNCHANGED timers

\* schedule_update_sync_data, k times over, when D has come to its end.
Schedule(D, high, k) == timers' = IF CanTake(D, high) THEN timers ELSE timers + k

\* Mutant: the file is closed at the end of the gap, sent or not.
CloseAtEnd(n, out) ==
  /\ prevClosed' = gapStart
  /\ sent' = IF gapStart # n THEN Append(out, Close(gapEnd)) ELSE out

\* close_log_file, after `out`; the gap's milestones below n have been sent.
CloseGap(n, out) ==
  LET close == gapStart # n /\ prevClosed # gapStart
  IN /\ prevClosed' = IF close THEN gapStart ELSE 0
     /\ sent' = IF close THEN Append(out, Close(n)) ELSE out

-----------------------------------------------------------------------------
(* The answers of the solidifiers.  Each of them takes one off `pending`.  *)

Answer(i) == task = "running" /\ i \in requests
Left(i) == requests \ {i}

FromTo(a, b, u) == [k \in 1 .. (b - a) |-> Data(a + k - 1, u)]

\* The first milestones in ascending order; after the last of them, and before
\* each glitch, the log file is closed.
FirstMessages(S) ==
  LET M == {Data(i, NoLimit) : i \in S} \cup {Close(i + 1) : i \in {j \in S : j + 1 \notin S}}
  IN CHOOSE s \in [1 .. Cardinality(M) -> M] :
       \A k, l \in DOMAIN s : k < l => s[k].index < s[l].index

\* Mutant: the answer is not counted.
FirstMilestoneUncounted(i) ==
  /\ Answer(i) /\ highest = 0 /\ pending # 1
  /\ milestones' = milestones \cup {i}
  /\ requests' = Left(i)
  /\ sent' = <<>>
  /\ UNCHANGED <<active, syncData, highest, pending, eof, skip, gap, prevClosed, oneshot,
                 timers, task>>

FirstMilestone(i) ==
  /\ Answer(i) /\ highest = 0 /\ pending # 1
  /\ milestones' = milestones \cup {i}
  /\ requests' = Left(i) /\ pending' = pending - 1
  /\ sent' = <<>>
  /\ UNCHANGED <<active, syncData, highest, eof, skip, gap, prevClosed, oneshot, timers,
                 task>>

\* All of them are there: `highest` is the milestone after the last glitch, and
\* the incoming flow starts after the last.  The end of the sync data, when it
\* is reached at once, is noticed twice.
FirstMilestones(i) ==
  /\ Answer(i) /\ highest = 0 /\ pending = 1
  /\ LET S    == milestones \cup {i}
         high == Max({j \in S : j - 1 \notin S})
     IN /\ highest' = high
        /\ oneshot' = Max(S) + 1
        /\ sent' = FirstMessages(S)
        /\ NextGap(syncData, high, next, Left(i))
        /\ Schedule(syncData, high, 2)
  /\ milestones' = {}
  /\ UNCHANGED <<skip, prevClosed, task>>

\* The first milestone from n on that has not been answered.
Ready(S, n) == CHOOSE m \in n .. (MaxIndex + 1) : m \notin S /\ n .. (m - 1) \subseteq S

Milestone(i) ==
  /\ Answer(i) /\ highest # 0 /\ ~skip /\ active # NoGap
  /\ LET S   == milestones \cup {i}
         n   == Ready(S, next)
         out == FromTo(next, n, gapEnd)
     IN /\ milestones' = S \ (next .. (n - 1))
        /\ \/ /\ active.start < active.end       \* one more is requested
              /\ Request(active, 1, Left(i))
              /\ next' = n /\ sent' = out
              /\ UNCHANGED <<syncData, pending, eof, gapStart, gapEnd, prevClosed,
                             timers>>
           \/ /\ active.start >= active.end /\ pending # 1
              /\ next' = n /\ sent' = out
              /\ requests' = Left(i) /\ pending' = pending - 1
              /\ UNCHANGED <<active, syncData, eof, gapStart, gapEnd, prevClosed,
                             timers>>
           \/ /\ active.start >= active.end /\ pending = 1
              /\ CloseGap(n, out)
              /\ NextGap(syncData, highest, n, Left(i))
              /\ Schedule(syncData, highest, 1)
  /\ UNCHANGED <<highest, skip, oneshot, task>>

\* Mutant: the flag is left as it is.
SkipKept == skip

\* The flag is reset when the gap is given up.
SkipAfterGap == FALSE

\* handle_skip, on the answer for i: S are the milestones that wait then.  The
\* last answer gives up the rest of the gap, data included; if no gap is active
\* the unwrap of `active` panics.
Skipping(i, S) ==
  /\ Answer(i)
  /\ \/ /\ pending # 1
        /\ skip' = TRUE /\ milestones' = S
        /\ requests' = Left(i) /\ pending' = pending - 1
        /\ sent' = <<>>
        /\ UNCHANGED <<active, syncData, eof, gap, prevClosed, timers, task>>
     \/ /\ pending = 1 /\ active # NoGap
        /\ skip' = SkipAfterGap /\ milestones' = {}
        /\ CloseGap(next, <<>>)
        /\ NextGap(syncData, highest, next, Left(i))
        /\ Schedule(syncData, highest, 1)
        /\ UNCHANGED task
     \/ /\ pending = 1 /\ active = NoGap
        /\ task' = "panicked"
        /\ skip' = TRUE /\ milestones' = {}
        /\ requests' = Left(i) /\ pending' = 0
        /\ sent' = <<>>
        /\ UNCHANGED <<active, syncData, eof, gap, prevClosed, timers>>
  /\ UNCHANGED <<highest, oneshot>>

SkippedMilestone(i) == highest # 0 /\ skip /\ Skipping(i, milestones \cup {i})

Unreachable(i) == Skipping(i, milestones)

-----------------------------------------------------------------------------
(* The timer asks for an update of the sync data.                          *)

Wake == task = "running" /\ timers > 0

UpdateIgnored ==
  /\ Wake /\ active # NoGap
  /\ timers' = timers - 1
  /\ sent' = <<>>
  /\ UNCHANGED <<active, syncData, milestones, highest, pending, eof, skip, gap,
                 prevClosed, oneshot, task, requests>>

\* The table cannot be read: the ask is scheduled again.
UpdateFails ==
  /\ Wake /\ active = NoGap /\ eof
  /\ sent' = <<>>
  /\ UNCHANGED <<active, syncData, milestones, highest, pending, eof, skip, gap,
                 prevClosed, oneshot, timers, task, requests>>

Update(rows) ==
  /\ Wake /\ active = NoGap /\ eof
  /\ LET D == GapsOf(rows)
     IN /\ NextGap(D, highest, next, requests)
        /\ timers' = IF CanTake(D, highest) THEN timers - 1 ELSE timers
  /\ sent' = <<>>
  /\ UNCHANGED <<milestones, highest, skip, prevClosed, oneshot, task>>

Shutdown ==
  /\ task = "running" /\ task' = "stopped"
  /\ sent' = <<>>
  /\ UNCHANGED <<active, syncData, milestones, highest, pending, eof, skip, gap,
                 prevClosed, oneshot, timers, requests>>

Answered(i) ==
  FirstMilestone(i) \/ FirstMilestones(i) \/ Milestone(i) \/ SkippedMilestone(i) \/ Unreachable(i)

Next ==
  \/ \E i \in Index : Answered(i)
  \/ UpdateIgnored \/ UpdateFails \/ \E rows \in SUBSET Index : Update(rows)
  \/ Shutdown

\* A solidifier answers every request: with the data, or, when its collectors
\* run out of retries, with Unreachable.  An event that is in the inbox is
\* handled, the asks of the timers included.
Fairness == WF_vars(UpdateIgnored) /\ \A i \in Index : WF_vars(Answered(i))

Spec == Init /\ [][Next]_vars /\ Fairness

-----------------------------------------------------------------------------
\* The count of the answers to come is exact, whatever the order of data and
\* refusals: it reaches 0 (and the next gap is taken) neither before nor after
\* the last answer.
PendingExact == pending = Cardinality(requests)

\* A gap is never left before all its requests are answered, the window stays
\* within `parallelism`, and only the gap's own unanswered milestones are asked
\* for, so that an answer can never be taken for one of another gap.  After the
\* first milestones no answer comes without a gap: handle_skip may unwrap it.
WindowBounded ==
  /\ active # NoGap =>
       /\ requests # {} /\ Cardinality(requests) <= Parallelism
       /\ requests \cup milestones \subseteq next .. (active.start - 1)
       /\ active.start <= active.end /\ active.end = gapEnd
  /\ (highest # 0 /\ requests # {}) => active # NoGap

\* What waits in milestones_data belongs to the active gap and is ahead of its
\* turn; a gap that is not skipped neither loses nor repeats a milestone.
HeapAhead ==
  (active # NoGap /\ ~skip) =>
    requests = (next .. (active.start - 1)) \ milestones /\ next \in requests

\* The archiver gets the gap's milestones in ascending order, each once, with
\* the end of the gap, and a Close only when all that was sent lies below it.
InOrder ==
  [][\A k \in DOMAIN sent' : highest # 0 =>
       IF sent'[k].type = "data"
         THEN sent'[k] = Data(next + k - 1, gapEnd) /\ sent'[k].index < gapEnd
         ELSE k = Len(sent') /\ sent'[k].index = next + k - 1]_vars

\* An idle syncer has a timer that will wake it, and never more than two.
WillWake ==
  /\ (highest # 0 /\ active = NoGap /\ task = "running") => eof /\ timers > 0
  /\ timers <= 2

\* Before the first milestones nothing has begun; the gap that is being filled lies
\* below `highest`, and what is left of it is past what has been sent; nothing waits
\* for its turn when no gap is active.
GapSound(g) == g.start < g.end /\ (g.end = OpenEnd \/ g.end <= MaxIndex)
GapInTurn ==
  /\ \A g \in syncData : GapSound(g)
  /\ highest = 0 => active = NoGap /\ ~eof /\ timers = 0
  /\ active # NoGap => /\ 0 < gapStart /\ gapStart <= next /\ gapEnd <= MaxIndex
                       /\ timers <= 1
  /\ (highest # 0 /\ active = NoGap) => milestones = {}

\* What the syncer keeps of its window is consistent between any two events: the
\* count, the requests, what is asked for and what waits, and the timer.
SyncerInv == TypeOK /\ PendingExact /\ WindowBounded /\ HeapAhead /\ WillWake /\ GapInTurn

\* Every gap comes to an end, with its data sent or given up.
ReachesEnd == []<>(active = NoGap \/ task # "running")

\* A gap that follows another is never skipped for a milestone of the one before,
\* however the last answers of that one came in ("due to previous unreachable
\* indexex within the same gap range", syncer/event_loop.rs:154).  The first gap
\* is, for an unreachable one of the first milestones.
SkipEndsWithGap ==
  [][(active # NoGap /\ syncData' # syncData) => ~skip']_vars
=============================================================================
