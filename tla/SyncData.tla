------------------------------ MODULE SyncData ------------------------------
(***************************************************************************)
(* The sync data of the broker: what a scan of the sync table, from the    *)
(* highest milestone down, says is completed (synced and logged), synced   *)
(* but unlogged, or missing; and how the syncer takes it apart again, the  *)
(* lowest range first.                                                     *)
(*                                                                         *)
(* A range is <<start, end>>, its end excluded.  The scan sees a row at a  *)
(* time; rows of the table are written while nobody scans it, so the table *)
(* is a constant of the behaviour.                                         *)
(***************************************************************************)
EXTENDS Integers, FiniteSetsExt, SequencesExt

CONSTANTS From, To  \* sync_range: its milestones are From .. To - 1

ASSUME RangeAssumption == From \in Nat \ {0} /\ To \in Nat /\ From < To

Milestones == From .. (To - 1)
None == <<>>

VARIABLES
  table,      \* table[m]: the row of milestone m is "missing", "synced" or "logged"
  phase,      \* "scan", then "complete" or "fillgaps", what the syncer takes
  rest,       \* the rows not scanned yet
  preMs,      \* the milestone scanned last, ...
  preLogged,  \* ... and whether its row has a logged_by
  completed, unlogged, gaps,  \* the Vecs of ranges, the highest first
  range,      \* the range take_lowest_uncomplete is about to return, or None
  taken       \* history: what has been taken, in this order

scanned == <<completed, unlogged, gaps>>
vars == <<table, phase, rest, preMs, preLogged, scanned, range, taken>>

Range2 == Milestones \X ((From + 1) .. To)

TypeOK ==
  /\ table \in [Milestones -> {"missing", "synced", "logged"}]
  /\ phase \in {"scan", "complete", "fillgaps"}
  /\ rest \subseteq Milestones /\ preMs \in From .. To /\ preLogged \in BOOLEAN
  /\ {completed, unlogged, gaps, taken} \subseteq Seq(Range2)
  /\ range \in Range2 \cup {None}

\* The first row is scanned like the others, with nothing logged before it.
Init ==
  /\ table \in [Milestones -> {"missing", "synced", "logged"}]
  /\ phase = "scan"
  /\ rest = {m \in Milestones : table[m] # "missing"}
  /\ preMs = To /\ preLogged = FALSE
  /\ completed = <<>> /\ unlogged = <<>> /\ gaps = <<>>
  /\ range = None /\ taken = <<>>

\* Mutant: the gaps are kept lowest first.
WithGapFirst(low) == IF low + 1 # preMs THEN <<<<low + 1, preMs>>>> \o gaps ELSE gaps

\* process_gaps: nothing is in the table between `low` and preMs.
WithGap(low) == IF low + 1 # preMs THEN Append(gaps, <<low + 1, preMs>>) ELSE gaps

\* Mutant: off by one, no range is ever extended.
ProceedApart(ranges, m, check) ==
  IF ranges # <<>> /\ check /\ Last(ranges)[1] = m
    THEN Append(Front(ranges), <<m, Last(ranges)[2]>>)
    ELSE Append(ranges, <<m, m + 1>>)

\* proceed: milestone m extends the last range, or starts a range of its own.
Proceed(ranges, m, check) ==
  IF ranges # <<>> /\ check /\ Last(ranges)[1] = m + 1
    THEN Append(Front(ranges), <<m, Last(ranges)[2]>>)
    ELSE Append(ranges, <<m, m + 1>>)

Row(m) ==
  /\ phase = "scan" /\ m \in rest /\ \A k \in rest : k <= m
  /\ gaps' = WithGap(m)
  /\ \/ /\ table[m] = "logged"
        /\ completed' = Proceed(completed, m, preLogged)
        /\ UNCHANGED unlogged
     \/ /\ table[m] = "synced"
        /\ unlogged' = Proceed(unlogged, m, ~preLogged)
        /\ UNCHANGED completed
  /\ rest' = rest \ {m}
  /\ preMs' = m /\ preLogged' = (table[m] = "logged")
  /\ UNCHANGED <<table, phase, range, taken>>

EndOfTable ==
  /\ phase = "scan" /\ rest = {}
  /\ gaps' = WithGap(From - 1)
  /\ phase' \in {"complete", "fillgaps"}
  /\ UNCHANGED <<table, rest, preMs, preLogged, completed, unlogged, range, taken>>

TakeLowestGap ==
  /\ phase = "fillgaps" /\ gaps # <<>>
  /\ taken' = Append(taken, Last(gaps))
  /\ gaps' = Front(gaps)
  /\ UNCHANGED <<table, phase, rest, preMs, preLogged, completed, unlogged, range>>

\* Mutant: the higher of the two is taken.
GapIsHighest ==
  gaps # <<>> /\ (unlogged = <<>> \/ Last(gaps)[1] > Last(unlogged)[1])

\* take_lowest_gap_or_unlogged: is the gap the lower of the two?
GapIsLowest ==
  gaps # <<>> /\ (unlogged = <<>> \/ Last(gaps)[1] < Last(unlogged)[1])
Lowest == IF GapIsLowest THEN Last(gaps) ELSE Last(unlogged)
MoreToTake == gaps # <<>> \/ unlogged # <<>>

\* Mutant: both are popped.
PopBoth ==
  /\ gaps' = IF gaps = <<>> THEN gaps ELSE Front(gaps)
  /\ unlogged' = IF unlogged = <<>> THEN unlogged ELSE Front(unlogged)

Pop ==
  IF GapIsLowest
    THEN gaps' = Front(gaps) /\ UNCHANGED unlogged
    ELSE unlogged' = Front(unlogged) /\ UNCHANGED gaps

\* take_lowest_uncomplete: the lowest range of either kind, ...
TakeLowestUncomplete ==
  /\ phase = "complete" /\ range = None /\ MoreToTake
  /\ range' = Lowest
  /\ Pop
  /\ UNCHANGED <<table, phase, rest, preMs, preLogged, completed, taken>>

\* ... with every range that starts where it ends, ...
ExtendRange ==
  /\ range # None /\ MoreToTake /\ Lowest[1] = range[2]
  /\ range' = <<range[1], Lowest[2]>>
  /\ Pop
  /\ UNCHANGED <<table, phase, rest, preMs, preLogged, completed, taken>>

\* ... is returned.
ReturnRange ==
  /\ range # None /\ ~(MoreToTake /\ Lowest[1] = range[2])
  /\ taken' = Append(taken, range)
  /\ range' = None
  /\ UNCHANGED <<table, phase, rest, preMs, preLogged, scanned>>

Next ==
  \/ \E m \in Milestones : Row(m)
  \/ EndOfTable
  \/ TakeLowestGap \/ TakeLowestUncomplete \/ ExtendRange \/ ReturnRange

Spec == Init /\ [][Next]_vars /\ WF_vars(Next)

-----------------------------------------------------------------------------
In(m, r) == r[1] <= m /\ m < r[2]
Members(ranges) == {m \in Milestones : \E r \in ToSet(ranges) : In(m, r)}

\* The reference: the maximal runs of a set of milestones.
Runs(S) ==
  {r \in Range2 :
     /\ r[1] < r[2] /\ r[1] .. (r[2] - 1) \subseteq S
     /\ r[1] - 1 \notin S /\ r[2] \notin S}

\* The sequence has the ranges of R: a stack the highest first, what is taken the
\* lowest first.
Stacked(s, R) == ToSet(s) = R /\ \A i, j \in DOMAIN s : i < j => s[j][1] < s[i][1]
Ascending(s) == \A i, j \in DOMAIN s : i < j => s[i][1] < s[j][1]

Kind(kind) == {m \in Milestones : table[m] = kind}

\* Where the scan is: a row that is not missing was scanned last, those below it
\* are left.
Scanning ==
  phase = "scan" =>
    /\ range = None /\ taken = <<>>
    /\ rest = {m \in From .. (preMs - 1) : table[m] # "missing"}
    /\ preMs # To => table[preMs] # "missing" /\ preLogged = (table[preMs] = "logged")

\* The scan sorts every milestone it is past into the one kind its row belongs
\* to, as maximal runs, however the kinds alternate.
Past(kind) == Kind(kind) \cap (preMs .. (To - 1))
ScanExact ==
  phase = "scan" =>
    /\ Stacked(completed, Runs(Past("logged")))
    /\ Stacked(unlogged, Runs(Past("synced")))
    /\ Stacked(gaps, Runs(Past("missing")))

\* What is to be taken: the milestones without a logged row to complete, those
\* without a row to fill the gaps.
Todo == Kind("missing") \cup (IF phase = "complete" THEN Kind("synced") ELSE {})

\* Up to which milestone ranges have been taken or put into the range in hand.
Reached == IF range # None THEN range[2]
           ELSE IF taken # <<>> THEN Last(taken)[2] ELSE From

\* The stacks still have the ranges from there on, none of which begins below it;
\* the range in hand is a run of what is to be taken, as far as it goes.
Left(kind) == {r \in Runs(Kind(kind)) : r[1] >= Reached}
TakeExact ==
  phase # "scan" =>
    /\ Stacked(gaps, Left("missing"))
    /\ phase = "complete" => Stacked(unlogged, Left("synced"))
    /\ \A r \in Runs(Kind("missing")) \cup (IF phase = "complete" THEN Runs(Kind("synced")) ELSE {}) :
         r[1] < Reached => r[2] <= Reached
    /\ range # None => /\ phase = "complete" /\ range[1] < range[2]
                       /\ range[1] .. (range[2] - 1) \subseteq Todo /\ range[1] - 1 \notin Todo
    /\ ToSet(taken) = {r \in Runs(Todo) : r[1] < IF range # None THEN range[1] ELSE Reached}
    /\ Ascending(taken)

\* What is taken are maximal runs from the bottom up; no range the syncer requests
\* touches or repeats another one, and none is jumped.
TakenAscending ==
  phase # "scan" =>
    /\ Ascending(taken) /\ ToSet(taken) \subseteq Runs(Todo)
    /\ \A r \in Runs(Todo) \ ToSet(taken), t \in ToSet(taken) : t[2] < r[1]

\* In the end everything that was to be done has been taken.
AllTaken == <>[](phase # "scan" /\ Members(taken) = Todo)

\* The first gap is the highest one: the solidifiers take its start as the lower
\* bound of the incoming flow, above every row of the table.
OpenGapFirst ==
  (phase # "scan" /\ gaps # <<>> /\ table[To - 1] = "missing") =>
    Head(gaps)[2] = To /\ \A m \in Milestones : table[m] # "missing" => m < Head(gaps)[1]

\* The stacks hold the ranges of their kind, and the open gap is where the
\* solidifiers look for it.
SyncDataInv == TypeOK /\ Scanning /\ ScanExact /\ TakeExact /\ OpenGapFirst
=============================================================================
