------------------------------ MODULE Archiving ------------------------------
(***************************************************************************)
(* The syncer and the archiver at work on one table and one directory.     *)
(*                                                                         *)
(* The solidifiers hand the milestones that the network confirms to the    *)
(* archiver, and those the syncer asks for to the syncer, which hands them *)
(* on.  The archiver inserts a row for every milestone it has written, and *)
(* from these rows the syncer finds out what it has to ask for: with an    *)
(* archiver it is started with Complete (application/init.rs:42).  None of *)
(* them waits for another, so that the rows may get lost or be read too    *)
(* early, and the flow may be ahead of the first milestones: that nothing  *)
(* comes too late is what InTime says.                                     *)
(*                                                                         *)
(* A request for a milestone that is being collected for the incoming flow *)
(* is answered with Unreachable, or takes it over (solidifier/             *)
(* event_loop.rs:200), as does one for a milestone the flow has missed.    *)
(***************************************************************************)
EXTENDS Integers, Sequences, FiniteSets

CONSTANTS
  MaxIndex, OpenEnd, SolidifierCount, Parallelism, NoGap,   \* as in Syncer
  NoLimit, LineLen, MaxLogSize, MaxBuffered, Torn,          \* as in Archiver
  NoUpper,         \* None: the upper limit that the syncer sends without a gap
  Firsts,          \* the sets of milestones the solidifiers may observe first
  MaxUnreachable,  \* bound on the milestones that no endpoint has when asked for
  InTime           \* whether rows and first milestones are there when they are needed

Index == 1 .. MaxIndex

ASSUME ArchivingAssumption ==
  /\ Firsts \subseteq SUBSET Index /\ MaxUnreachable \in Nat /\ InTime \in BOOLEAN
  /\ MaxIndex <= NoLimit - 2

VARIABLES
  active, syncData, milestones, highest, pending, eof, skip, syncerNext, gapStart, gapEnd,
  prevClosed, oneshot, timers, task, requests, sent,        \* the syncer
  pc, next, heap, logs, processed, part, sealed,            \* the archiver
  logged,      \* the rows of the milestones that the archiver has written
  live,        \* the milestones of the incoming flow that are being collected
  inbox,       \* the archiver's events
  unreachable  \* how many requests no endpoint could answer

syncerVars == <<active, syncData, milestones, highest, pending, eof, skip, syncerNext, gapStart,
                gapEnd, prevClosed, oneshot, timers, task, requests, sent>>
archiverVars == <<pc, next, heap, logs, processed, part, sealed>>
vars == <<syncerVars, archiverVars, logged, live, inbox, unreachable>>

S == INSTANCE Syncer WITH NoLimit <- NoUpper, next <- syncerNext
\* Here the disk works.
A == INSTANCE Archiver WITH SolidifiersCount <- SolidifierCount, DiskFails <- FALSE

Runs(M) == {n \in Index \X (2 .. MaxIndex + 1) :
              /\ n[1] < n[2] /\ n[1] .. (n[2] - 1) \subseteq M
              /\ n[1] - 1 \notin M /\ n[2] \notin M}

\* The files of an earlier run are there, and their rows.
Init ==
  /\ \E f \in Firsts, L \in SUBSET Index :
       /\ \A i \in L, j \in f : i < j
       /\ logged = L
       /\ S!Init /\ requests = f /\ syncData = S!GapsOf(L)
       /\ live = {i \in Index \ f : \E j \in f : j < i /\ i % SolidifierCount = j % SolidifierCount}
       /\ pc = "waiting" /\ next = 0 /\ heap = <<>> /\ logs = {} /\ processed = {}
       /\ part = [i \in A!Index |-> <<>>]
       /\ sealed = [n \in A!Name |-> IF n \in Runs(L) THEN A!Run(n) ELSE <<>>]
  /\ inbox = <<>> /\ unreachable = 0

-----------------------------------------------------------------------------
(* Solidifiers and syncer. *)

\* Mutant: the end of the gap is not passed on.
EventUnlimited(by, m) == [by |-> by, type |-> m.type, index |-> m.index, upper |-> NoLimit]

Event(by, m) == [by |-> by, type |-> m.type, index |-> m.index,
                 upper |-> IF m.type = "close" \/ m.upper = NoUpper THEN NoLimit ELSE m.upper]
FromSyncer(messages) == [k \in DOMAIN messages |-> Event("Syncer", messages[k])]
ToArchiver == inbox' = inbox \o FromSyncer(sent')

\* A solidifier answers the syncer with the data of milestone i.
Collected(i) ==
  /\ i \notin live
  /\ S!FirstMilestone(i) \/ S!FirstMilestones(i) \/ S!Milestone(i) \/ S!SkippedMilestone(i)
  /\ ToArchiver
  /\ UNCHANGED <<archiverVars, logged, live, unreachable>>

\* It is collecting i for the incoming flow.
Refused(i) ==
  /\ i \in live /\ S!Unreachable(i) /\ ToArchiver
  /\ UNCHANGED <<archiverVars, logged, live, unreachable>>

\* No endpoint has i.
NotCollected(i) ==
  /\ i \notin live /\ highest # 0
  /\ unreachable < MaxUnreachable /\ unreachable' = unreachable + 1
  /\ S!Unreachable(i) /\ ToArchiver
  /\ UNCHANGED <<archiverVars, logged, live>>

\* The timer (complete_gaps_interval): a gap is being filled, or the table is
\* read again.
Wakes ==
  /\ \/ S!UpdateIgnored
     \/ S!Update(logged) /\ (InTime => inbox = <<>> /\ pc = "running")
  /\ UNCHANGED <<archiverVars, logged, live, inbox, unreachable>>

\* Milestone i of the incoming flow is complete, or given up.  The flow does not
\* fill a file before the archiver has been sent the first milestones.
Confirmed(i) ==
  /\ i \in live /\ live' = live \ {i}
  /\ InTime => highest # 0 \/ Len(inbox) < MaxLogSize - 1
  /\ inbox' = Append(inbox, Event("Incoming", [type |-> "data", index |-> i, upper |-> NoUpper]))
  /\ UNCHANGED <<syncerVars, archiverVars, logged, unreachable>>
Missed(i) ==
  /\ i \in live /\ live' = live \ {i}
  /\ UNCHANGED <<syncerVars, archiverVars, logged, inbox, unreachable>>

-----------------------------------------------------------------------------
(* The archiver. *)

\* The row of a line that is written is inserted without waiting for an answer.
Log == /\ LET rows == logged \cup (A!Stored' \ A!Stored)
          IN logged' \in IF InTime THEN {rows} ELSE {logged, rows}
       /\ UNCHANGED <<syncerVars, live, unreachable>>

Start == /\ oneshot # 0 /\ A!Start(oneshot)
         /\ Log /\ UNCHANGED inbox

Received(by, type) == inbox # <<>> /\ Head(inbox).by = by /\ Head(inbox).type = type

\* Close, of a file below the incoming flow only
HandleClose ==
  /\ Received("Syncer", "close") /\ pc = "running"
  /\ \/ A!Close(Head(inbox).index)
     \/ Head(inbox).index >= next /\ UNCHANGED archiverVars
  /\ inbox' = Tail(inbox) /\ Log

HandleSyncer ==
  LET i == Head(inbox).index
  IN  /\ Received("Syncer", "data")
      /\ A!SyncerBehind(i, Head(inbox).upper) \/ A!SyncerAtNext(i) \/ A!SyncerAhead(i)
      /\ inbox' = Tail(inbox) /\ Log

HandleIncoming ==
  /\ Received("Incoming", "data") /\ A!Incoming(Head(inbox).index)
  /\ inbox' = Tail(inbox) /\ Log

Drain == /\ A!DrainEnd \/ \E i \in Index : A!Drain(i)
         /\ UNCHANGED inbox /\ Log

Archiver == Start \/ HandleClose \/ HandleSyncer \/ HandleIncoming \/ Drain

-----------------------------------------------------------------------------

Answers == \E i \in Index : Collected(i) \/ Refused(i) \/ NotCollected(i)
Flows == \E i \in Index : Confirmed(i) \/ Missed(i)

Next == Answers \/ Flows \/ Wakes \/ Archiver

\* Somebody goes on, as long as anybody can, and the network confirms.
Fairness == WF_vars(Next) /\ WF_vars(Flows)

Spec == Init /\ [][Next]_vars /\ Fairness

-----------------------------------------------------------------------------
(* Properties. *)

\* What the archiver's own specification takes for granted of the two flows is
\* what the syncer and the solidifiers do: a gap is free of files, and the flow
\* starts behind all files of earlier runs.
PromiseKept == [][A!Next]_archiverVars

\* No milestone is in two files, those of earlier runs included.
FilesApart == A!NoOverlap

\* When the syncer has come to the end of its sync data, no file is left open but
\* the one that the incoming flow goes on with: that of the first milestones is
\* its file although the Close that is sent for it is dropped.
OnlyFlowOpen ==
  (highest # 0 /\ active = NoGap /\ inbox = <<>> /\ pc = "running") =>
     \A l \in logs : l.to = next

\* The files of the two flows and of earlier runs are apart, and get finished.
ArchivingInv == FilesApart /\ OnlyFlowOpen

\* The syncer leaves no hole in the archive for good: a milestone that was missed,
\* dropped by the archiver "as the syncer will eventually fill it up"
\* (archiver/event_loop.rs:87), or unreachable at first gets logged, when one above
\* it is.
HolesFilled == []<>(\A i \in Index : (\E j \in logged : i < j) => i \in logged)

=============================================================================
