----------------------------- MODULE Solidifier -----------------------------
(***************************************************************************)
(* A solidifier of the chronicle broker: the actor that assembles the      *)
(* milestones of its partition, index % collector_count = partition_id.    *)
(*                                                                         *)
(* A milestone is the set of messages it references.  The solidifier gets  *)
(* messages as the network confirms them, asks the collectors for parents  *)
(* it has not seen, and is done when it has the milestone's own message    *)
(* and no parent is pending.  The data then goes to the archiver, or to    *)
(* the syncer if the syncer asked for it: it asks for the milestones of    *)
(* its gaps, and counts on the first milestone each solidifier observes.   *)
(* Beside that the solidifier follows what the database has stored, to     *)
(* write the row that says the milestone is synced.                        *)
(*                                                                         *)
(* The collectors are the environment: they answer a request with the      *)
(* message, with Close if another milestone references it, or with a       *)
(* failure.  A message's data is its parents and the milestone Ref[m] that *)
(* references it; messages older than the tangle modelled are left out.    *)
(* Requests and inserts are sets: one repeated while it is outstanding     *)
(* counts once.                                                            *)
(***************************************************************************)
EXTENDS Integers, Sequences, FiniteSetsExt, SequencesExt

CONSTANTS
  Mine,          \* the milestone indices of the partition
  Count,         \* collector_count
  GapStart,      \* gap_start: the incoming flow is taken from here on
  Msgs,          \* the messages
  Ref,           \* Ref[m]: referenced_by_milestone_index
  Parents,       \* Parents[m] \subseteq Msgs
  MilestoneOf,   \* MilestoneOf[i]: the message with the payload of milestone i
  Capacity,      \* of the LRU caches, 100
  None,          \* no entry in a map
  Held,          \* the milestones for which collectors hold requests without metadata
  CachesLag,     \* whether an answer from a cache may outlast the retries of another
  DbAnswers,     \* bound: the milestones whose rows in the database are followed
  MaxAnalyses    \* bound on the analytics in flight for a milestone

Unknown == -1    \* messages_len before the milestone is complete, usize::MAX

ASSUME SolidifierAssumption ==
  /\ Mine \subseteq Nat \ {0} /\ CachesLag \in BOOLEAN
  /\ DbAnswers \subseteq Mine /\ Held \subseteq Mine
  /\ Count \in Nat \ {0} /\ GapStart \in Nat /\ Capacity \in Nat \ {0}
  /\ MaxAnalyses \in Nat \ {0}
  /\ \A i, j \in Mine : i % Count = j % Count
  /\ Ref \in [Msgs -> Nat \ {0}] /\ Parents \in [Msgs -> SUBSET Msgs]
  /\ MilestoneOf \in [Mine -> Msgs] /\ \A i \in Mine : Ref[MilestoneOf[i]] = i

Cone(i) == {m \in Msgs : Ref[m] = i}

\* A milestone references its own message and, of the ancestors of each message
\* it references, those that no milestone before it does.
ASSUME TangleAssumption ==
  /\ \A i \in Mine : IsFiniteSet(Cone(i))
  /\ \A m \in Msgs : \A p \in Parents[m] : Ref[p] <= Ref[m]
  /\ \A i \in Mine : \A S \in SUBSET Cone(i) :
       (MilestoneOf[i] \in S /\ \A m \in S : Parents[m] \cap Cone(i) \subseteq S) => S = Cone(i)

VARIABLES
  task,         \* "running" or "stopped"
  first,        \* the first milestone observed, 0 for none
  expected,     \* the next milestone of the incoming flow
  data,         \* milestones_data
  taken,        \* history: the milestones that have had data
  unreachable,  \* the LRU cache of milestones given up, the oldest entry first
  inDb,         \* in_database
  lruDb,        \* lru_in_database
  synced,       \* the milestones with a row in the sync table
  asks,         \* what the collectors have yet to answer, or have sent already
  confirmed,    \* the messages the network has confirmed
  inserting,    \* the messages the collectors are inserting into the database
  stored,       \* history: the messages that are in the database
  analysing,    \* analysing[i]: analytic records of milestone i being inserted
  owed,         \* the milestones the syncer waits for
  out           \* what the last step sent to the syncer or the archiver

entries == <<data, taken>>
db   == <<inDb, lruDb, synced, analysing>>
vars == <<task, first, expected, entries, unreachable, db, asks, confirmed, inserting, stored, owed, out>>

Data  == [by : {"Incoming", "Expected", "Syncer"}, milestone : BOOLEAN,
          messages : SUBSET Msgs, pending : SUBSET Msgs]
Entry == [analyzed : BOOLEAN, len : Nat \cup {Unknown}, ids : SUBSET Msgs]

AskFull(m, i, by) == [type |-> "full", message |-> m, index |-> i, by |-> by]
AskMilestone(i)   == [type |-> "milestone", index |-> i]
Payload(i)        == [type |-> "payload", index |-> i]  \* a Milestone event on its way
CloseEvent(m, i)  == [type |-> "close", message |-> m, index |-> i]
Asks == [type : {"full"}, message : Msgs, index : Mine, by : {"Incoming", "Expected", "Syncer"}]
          \cup [type : {"milestone", "payload"}, index : Mine]
          \cup [type : {"close"}, message : Msgs, index : Mine]

\* A map has an entry or none.
ASSUME NoneAssumption == None \notin Data \cup Entry

\* An LRU cache holds nothing twice.
Caches == {s \in Seq(Mine) : Len(s) <= Capacity /\ IsInjective(s)}

TypeOK ==
  /\ task \in {"running", "stopped"}
  /\ first \in Mine \cup {0} /\ expected \in Nat
  /\ data \in [Mine -> Data \cup {None}] /\ inDb \in [Mine -> Entry \cup {None}]
  /\ unreachable \in Caches /\ lruDb \in Caches
  /\ taken \subseteq Mine /\ synced \subseteq Mine /\ owed \subseteq Mine
  /\ asks \subseteq Asks
  /\ confirmed \subseteq Msgs /\ inserting \subseteq Msgs /\ stored \subseteq Msgs
  /\ analysing \in [Mine -> 0 .. MaxAnalyses]
  /\ out = None \/ /\ out.type \in {"syncer", "archiver", "unreachable"} /\ out.index \in Mine
                   /\ out.messages \subseteq Msgs

Init ==
  /\ task = "running" /\ first = 0 /\ expected = 0
  /\ data = [i \in Mine |-> None] /\ inDb = [i \in Mine |-> None]
  /\ taken = {} /\ unreachable = <<>> /\ lruDb = <<>>
  /\ synced = {} /\ asks = {} /\ confirmed = {} /\ inserting = {} /\ stored = {}
  /\ analysing = [i \in Mine |-> 0] /\ owed = {} /\ out = None

-----------------------------------------------------------------------------
(* The LRU caches: an entry that is put or got becomes the youngest.       *)

Without(s, i) ==
  IF i \notin ToSet(s) THEN s
  ELSE LET at == CHOOSE k \in DOMAIN s : s[k] = i
       IN  [k \in 1 .. Len(s) - 1 |-> IF k < at THEN s[k] ELSE s[k + 1]]
Put(s, i) == LET t == Append(Without(s, i), i)
             IN IF Len(t) > Capacity THEN Tail(t) ELSE t
Get(s, i) == IF i \in ToSet(s) THEN Append(Without(s, i), i) ELSE s

(* The rows in the database.                                               *)

NewEntry == [analyzed |-> FALSE, len |-> Unknown, ids |-> {}]
EntryOf(i) == IF inDb[i] = None THEN NewEntry ELSE inDb[i]
\* Mutant: the messages are not counted.
AllAnalyzed(e) == e.analyzed
AllInDatabase(e) == e.len = Cardinality(e.ids) /\ e.analyzed

\* The entry of milestone i becomes e; when all is stored the sync row is written.
Record(i, e) ==
  IF i \notin DbAnswers THEN UNCHANGED <<inDb, lruDb, synced>>
  ELSE IF AllInDatabase(e)
    THEN /\ inDb' = [inDb EXCEPT ![i] = None]
         /\ lruDb' = Put(lruDb, i)
         /\ synced' = synced \cup {i}
    ELSE inDb' = [inDb EXCEPT ![i] = e] /\ UNCHANGED <<lruDb, synced>>

(* Milestone data.                                                         *)

SetData(d) == data' = d /\ taken' = taken \cup {i \in Mine : d[i] # None}

NewData(by) == [by |-> by, milestone |-> FALSE, messages |-> {}, pending |-> {}]
\* Mutant: pending messages are ignored.
CompleteWithPending(d) == d.milestone
Complete(d) == d.milestone /\ d.pending = {}

Missing(d, m) == Parents[m] \ (d.messages \cup d.pending)
Added(d, m) == [d EXCEPT !.pending = (@ \cup Missing(d, m)) \ {m}, !.messages = @ \cup {m}]

\* The parents that message m adds to the data d of milestone i are asked for.  A
\* collector that still holds an earlier request of this milestone for one of them
\* closes that one, which the solidifier takes for the answer to the new one.
IsHeld(p, i, open) ==
  i \in Held /\ p \notin confirmed /\ \E a \in open : a.type = "full" /\ a.message = p /\ a.index = i
Request(i, d, m, open) ==
  \E closed \in SUBSET {p \in Missing(d, m) : IsHeld(p, i, open)} :
    asks' = open \cup {AskFull(p, i, d.by) : p \in Missing(d, m)}
                 \cup {CloseEvent(p, i) : p \in closed}

Send(type, i, messages) == out' = [type |-> type, index |-> i, messages |-> messages]

\* push_to_logger and push_to_syncer
Push(i, d) ==
  /\ SetData([data EXCEPT ![i] = None])
  /\ analysing' = [analysing EXCEPT ![i] = IF i \in DbAnswers THEN @ + 1 ELSE @]
  /\ Record(i, [EntryOf(i) EXCEPT !.len = Cardinality(d.messages)])
  /\ Send(IF d.by = "Syncer" THEN "syncer" ELSE "archiver", i, d.messages)
  /\ owed' = IF d.by = "Syncer" THEN owed \ {i} ELSE owed

\* The data of milestone i becomes d, and is pushed when it is complete.
Update(i, d) ==
  /\ \/ Complete(d) /\ Push(i, d)
     \/ ~Complete(d) /\ SetData([data EXCEPT ![i] = d]) /\ out' = None /\ UNCHANGED <<db, owed>>
  /\ UNCHANGED <<task, first, expected, unreachable>>

\* The first observed message decides which milestone the syncer starts from.
FirstEntry(i, m, open) ==
  /\ first = 0 /\ i >= GapStart
  /\ first' = i /\ expected' = i + Count
  /\ SetData([data EXCEPT ![i] = Added(NewData("Syncer"), m)])
  /\ Request(i, NewData("Syncer"), m, open \cup {AskMilestone(i)})
  /\ owed' = owed \cup {i}

\* Mutant: the milestone itself is expected again.
IncomingEntryExpected(i, m, open) ==
  /\ first # 0 /\ i >= expected
  /\ expected' = i
  /\ SetData([data EXCEPT ![i] = Added(NewData("Incoming"), m)])
  /\ Request(i, NewData("Incoming"), m, open)
  /\ UNCHANGED <<first, owed>>

\* A milestone past the expected one: those between become expected.
IncomingEntry(i, m, open) ==
  /\ first # 0 /\ i >= expected
  /\ expected' = i + Count
  /\ LET d == [NewData("Incoming") EXCEPT !.milestone = (m = MilestoneOf[i])]
     IN /\ SetData([j \in Mine |->
             IF j = i THEN Added(d, m)
             ELSE IF expected <= j /\ j < i /\ data[j] = None THEN NewData("Expected")
             ELSE data[j]])
        /\ Request(i, d, m, open)
  /\ UNCHANGED <<first, owed>>

\* insert_new_entry_or_not; `open` are the asks so far.
NewEntryOrNot(i, m, open) ==
  /\ \/ i \notin ToSet(unreachable) /\ FirstEntry(i, m, open)
     \/ i \notin ToSet(unreachable) /\ IncomingEntry(i, m, open)
     \/ /\ \/ i \in ToSet(unreachable)
           \/ first = 0 /\ i < GapStart
           \/ first # 0 /\ i < expected
        /\ asks' = open
        /\ UNCHANGED <<first, expected, entries, owed>>
  /\ unreachable' = Get(unreachable, i)
  /\ out' = None
  /\ UNCHANGED <<task, db>>

\* handle_new_msg
NewMessage(m, open) ==
  LET i == Ref[m]
  IN \/ /\ data[i] # None
        /\ Request(i, data[i], m, open)
        /\ Update(i, Added(data[i], m))
     \/ data[i] = None /\ NewEntryOrNot(i, m, open)

\* handle_milestone_msg
MilestoneMessage(i, open) ==
  LET m == MilestoneOf[i]
  IN \/ /\ data[i] # None
        /\ Request(i, data[i], m, open)
        /\ Update(i, [Added(data[i], m) EXCEPT !.milestone = TRUE])
     \/ data[i] = None /\ NewEntryOrNot(i, m, open)

\* Mutant: nothing is pushed when the last pending message is closed.
CloseUnchecked(m, i, open) ==
  /\ asks' = open
  /\ SetData(IF data[i] = None THEN data ELSE [data EXCEPT ![i].pending = @ \ {m}])
  /\ out' = None
  /\ UNCHANGED <<task, first, expected, unreachable, db, owed>>

\* close_message_id
CloseMessage(m, i, open) ==
  /\ asks' = open
  /\ \/ data[i] # None /\ Update(i, [data[i] EXCEPT !.pending = @ \ {m}])
     \/ /\ data[i] = None /\ out' = None
        /\ UNCHANGED <<task, first, expected, entries, unreachable, db, owed>>

\* Mutant: the data of a milestone that cannot be collected is kept.
FailureKept(i, open) ==
  /\ asks' = open
  /\ unreachable' = Put(unreachable, i)
  /\ Send("unreachable", i, {}) /\ owed' = owed \ {i}
  /\ UNCHANGED <<task, first, expected, entries, db>>

\* handle_solidify_failure
Failure(i, open) ==
  /\ asks' = open
  /\ \/ /\ i \notin ToSet(unreachable) /\ data[i] # None
        /\ SetData([data EXCEPT ![i] = None])
        /\ lruDb' = Without(lruDb, i)
        /\ inDb' = [inDb EXCEPT ![i] = None]
        /\ unreachable' = Put(unreachable, i)
        /\ \/ /\ data[i].by = "Syncer"
              /\ Send("unreachable", i, {}) /\ owed' = owed \ {i}
           \/ data[i].by # "Syncer" /\ out' = None /\ UNCHANGED owed
     \/ /\ i \in ToSet(unreachable) \/ data[i] = None
        /\ unreachable' = Get(unreachable, i)
        /\ out' = None
        /\ UNCHANGED <<entries, lruDb, inDb, owed>>
  /\ UNCHANGED <<task, first, expected, synced, analysing>>

-----------------------------------------------------------------------------
(* The events.                                                             *)

Running == task = "running"

\* The collector inserts message m with its metadata into the database; a
\* milestone's message is sent to the solidifier once more, with its payload.
Payloads(m) == {Payload(i) : i \in {j \in Mine : MilestoneOf[j] = m}}
Insert(m) ==
  /\ inserting' = IF Ref[m] \in DbAnswers THEN inserting \cup {m} ELSE inserting
  /\ UNCHANGED stored
\* The collector may have the message of request a in its caches, inserted before.
Cached(a) ==
  /\ Ref[a.message] \in DbAnswers => a.message \in inserting \cup stored
  /\ \/ CachesLag
     \/ data[a.index] # None /\ a.message \in data[a.index].pending /\ a.by = data[a.index].by
  /\ UNCHANGED <<inserting, stored>>

\* The network confirms message m; the caches of the collector drop the repetitions.
\* Where the metadata is there before the message, the collector inserts it but does
\* not pass the message itself on.
Seen(m) ==
  /\ Running /\ Ref[m] \in Mine /\ m \notin confirmed
  /\ confirmed' = confirmed \cup {m}
  /\ Insert(m)
  /\ \/ NewMessage(m, asks \cup Payloads(m))
     \/ /\ asks' = asks \cup Payloads(m) /\ out' = None
        /\ UNCHANGED <<task, first, expected, entries, unreachable, db, owed>>

\* Mutant: what is in the caches is never inserted again.
NeverInserted(a) == FALSE
MustInsert(a) == Ref[a.message] = a.index /\ a.by = "Syncer"

\* A collector answers a request; what the syncer asked for is inserted again.
RespondFull(a) ==
  /\ Running /\ a \in asks /\ a.type = "full"
  /\ UNCHANGED confirmed
  /\ LET m == a.message
         deliver(open) == IF Ref[m] = a.index THEN NewMessage(m, open)
                                              ELSE CloseMessage(m, a.index, open)
     IN \/ deliver((asks \ {a}) \cup Payloads(m)) /\ Insert(m)
        \/ ~MustInsert(a) /\ deliver(asks \ {a}) /\ Cached(a)

RespondMilestone(a) ==
  /\ Running /\ a \in asks /\ a.type = "milestone"
  /\ UNCHANGED confirmed
  /\ LET m == MilestoneOf[a.index]
     IN NewMessage(m, (asks \ {a}) \cup Payloads(m)) /\ Insert(m)

RespondPayload(a) ==
  /\ Running /\ a \in asks /\ a.type = "payload"
  /\ MilestoneMessage(a.index, asks \ {a})
  /\ UNCHANGED <<confirmed, inserting, stored>>

RespondClose(a) ==
  /\ Running /\ a \in asks /\ a.type = "close"
  /\ CloseMessage(a.message, a.index, asks \ {a})
  /\ UNCHANGED <<confirmed, inserting, stored>>

\* The requesters have run out of retries.
RequestFails(a) ==
  /\ Running /\ a \in asks /\ a.type \in {"full", "milestone"}
  /\ Failure(a.index, asks \ {a})
  /\ UNCHANGED <<confirmed, inserting, stored>>

Free(i) == IF data[i] = None THEN TRUE ELSE data[i].by = "Expected" /\ ~data[i].milestone

\* handle_solidify: the syncer asks for milestone i, once it has its first ones.
Solidify(i) ==
  /\ Running /\ first # 0 /\ i \notin owed
  /\ analysing[i] < MaxAnalyses
  /\ \/ /\ i >= expected
        /\ Send("unreachable", i, {})
        /\ UNCHANGED <<entries, unreachable, inDb, asks, owed>>
     \/ /\ i < expected /\ Free(i)
        /\ SetData([data EXCEPT ![i] = IF data[i] = None THEN NewData("Syncer")
                                        ELSE [data[i] EXCEPT !.by = "Syncer"]])
        /\ inDb' = [inDb EXCEPT ![i] = IF i \in DbAnswers THEN EntryOf(i) ELSE None]
        /\ asks' = asks \cup {AskMilestone(i)}
        /\ owed' = owed \cup {i}
        /\ unreachable' = Without(unreachable, i)
        /\ out' = None
     \/ /\ i < expected /\ ~Free(i)
        /\ Send("unreachable", i, {})
        /\ unreachable' = Without(unreachable, i)
        /\ UNCHANGED <<entries, inDb, asks, owed>>
  /\ UNCHANGED <<task, first, expected, lruDb, synced, analysing, confirmed, inserting, stored>>

\* The database answers: PersistedMsg and AnalyzedMilestone.  The answer to an insert
\* is queued behind the payload that was sent with it.
Persisted(m) ==
  /\ Running /\ m \in inserting /\ Payloads(m) \cap asks = {}
  /\ inserting' = inserting \ {m} /\ stored' = stored \cup {m}
  /\ LET i == Ref[m]
     IN \/ /\ inDb[i] # None
           /\ Record(i, [inDb[i] EXCEPT !.ids = @ \cup {m}])
           /\ UNCHANGED unreachable
        \/ /\ inDb[i] = None /\ i \notin ToSet(lruDb) \cup ToSet(unreachable)
           /\ inDb' = [inDb EXCEPT ![i] = [NewEntry EXCEPT !.ids = {m}]]
           /\ UNCHANGED <<lruDb, synced, unreachable>>
        \/ /\ inDb[i] = None /\ i \in ToSet(lruDb) \cup ToSet(unreachable)
           /\ lruDb' = Get(lruDb, i)
           /\ unreachable' = IF i \in ToSet(lruDb) THEN unreachable ELSE Get(unreachable, i)
           /\ UNCHANGED <<inDb, synced>>
  /\ out' = None
  /\ UNCHANGED <<task, first, expected, entries, asks, confirmed, analysing, owed>>

\* Mutant: the analytics do not complete an entry.
AnalyzedUnchecked(i) ==
  /\ Running /\ analysing[i] > 0
  /\ analysing' = [analysing EXCEPT ![i] = @ - 1]
  /\ inDb' = IF inDb[i] = None THEN inDb ELSE [inDb EXCEPT ![i].analyzed = TRUE]
  /\ out' = None
  /\ UNCHANGED <<task, first, expected, entries, unreachable, lruDb, synced, asks, confirmed,
                 inserting, stored, owed>>

Analyzed(i) ==
  /\ Running /\ analysing[i] > 0
  /\ analysing' = [analysing EXCEPT ![i] = @ - 1]
  /\ \/ inDb[i] # None /\ Record(i, [inDb[i] EXCEPT !.analyzed = TRUE])
     \/ inDb[i] = None /\ UNCHANGED <<inDb, lruDb, synced>>
  /\ out' = None
  /\ UNCHANGED <<task, first, expected, entries, unreachable, asks, confirmed, inserting, stored, owed>>

\* The broker shuts the solidifier down, or the database refuses an insert.
Stop ==
  /\ Running /\ task' = "stopped"
  /\ out' = None
  /\ UNCHANGED <<first, expected, entries, unreachable, db, asks, confirmed, inserting, stored, owed>>

Respond(a) == RespondFull(a) \/ RespondMilestone(a) \/ RespondPayload(a) \/ RespondClose(a)

Next ==
  \/ \E m \in Msgs : Seen(m) \/ Persisted(m)
  \/ \E a \in asks : Respond(a) \/ RequestFails(a)
  \/ \E i \in Mine : Solidify(i) \/ Analyzed(i)
  \/ Stop

\* The collectors answer every request, with data or with a failure, and the
\* database answers every insert.
Fairness ==
  /\ \A a \in Asks : WF_vars(Respond(a) \/ RequestFails(a))
  /\ \A m \in {n \in Msgs : Ref[n] \in DbAnswers} : SF_vars(Persisted(m))
  /\ \A i \in DbAnswers : WF_vars(Analyzed(i))

Spec == Init /\ [][Next]_vars /\ Fairness

-----------------------------------------------------------------------------
\* What the syncer waits for is exactly what the solidifier collects for it:
\* every request gets one answer and nothing is answered that was not asked for,
\* whatever failures and late messages of earlier attempts arrive.
OwedIsOwned == owed = {i \in Mine : data[i] # None /\ data[i].by = "Syncer"}

\* The incoming flow goes up: what has had data lies below the milestone it expects.
\* A milestone that is being collected has not been given up, and its analytics are
\* not all on their way yet.
InTurn ==
  /\ first = 0 => taken = {}
  /\ ToSet(unreachable) \subseteq taken
  /\ \A i \in taken : i < expected
  /\ \A i \in Mine : data[i] # None =>
       i \in taken /\ i \notin ToSet(unreachable) /\ analysing[i] < MaxAnalyses
  /\ \A i \in Mine \ taken : analysing[i] = 0

\* What is collected belongs to the milestone, and what is still missing of the ancestors
\* of what there is already is pending; only held requests are closed for their milestone.
Collected ==
  /\ \A i \in Mine : data[i] # None =>
       /\ data[i].messages \subseteq Cone(i)
       /\ data[i].milestone => MilestoneOf[i] \in data[i].messages
       /\ i \notin Held => \A m \in data[i].messages :
            Parents[m] \cap Cone(i) \subseteq data[i].messages \cup data[i].pending
  /\ \A a \in asks : a.type = "close" => a.index \in Held

\* Who owns what is known, and what is collected is in its turn and sound.
SolidifierInv == TypeOK /\ OwedIsOwned /\ InTurn /\ Collected

\* What the solidifier takes for complete, "milestone data is complete now"
\* (types.rs:199), is complete: the data that is passed on holds all the messages the
\* milestone references, and no others.  Where requests are held it is not: a Close
\* of an earlier one is taken for the answer (collector/event_loop.rs:232).
SentExact ==
  (out # None /\ out.type # "unreachable" /\ out.index \notin Held) => out.messages = Cone(out.index)

\* An entry counts messages of its milestone that are stored, up to how many there are.
EntriesExact ==
  /\ \A i \in Mine : inDb[i] # None =>
       /\ inDb[i].ids \subseteq Cone(i) \cap stored
       /\ i \notin Held => inDb[i].len \in {Unknown, Cardinality(Cone(i))}
  /\ \A m \in inserting \cup stored : Ref[m] \in DbAnswers
  /\ ToSet(lruDb) \subseteq synced

\* A milestone is only declared synced when all its messages are stored.
SyncedIsStored == EntriesExact /\ \A i \in synced \ Held : Cone(i) \subseteq stored

\* The incoming flow never takes a milestone up again that was passed on or given
\* up: late messages of it are dropped, whatever the caches have forgotten.
NotReopened ==
  [][\A i \in taken : (data[i] = None /\ data'[i] # None) => data'[i].by = "Syncer"]_vars

\* Every message that the solidifier has of a milestone is known to be in the database
\* or on its way there, whatever attempts failed before: "insert the message if
\* requested by syncer to ensure it gets cql responses for all the requested messages"
\* (collector/event_loop.rs:256).  Else the row of the milestone is never written.
\* Where answers out of the caches outlast the retries, or requests are held, it may be.
RowsKept(i) ==
  /\ data[i] # None => data[i].messages \subseteq EntryOf(i).ids \cup inserting
  /\ EntryOf(i).len # Unknown => Cone(i) \subseteq EntryOf(i).ids \cup inserting
  /\ i \notin taken => EntryOf(i).len = Unknown
  /\ i \notin taken \/ (data[i] # None /\ data[i].by # "Syncer") =>
       Cone(i) \cap stored \subseteq EntryOf(i).ids
  /\ Payload(i) \in asks => MilestoneOf[i] \in inserting
RowsAwaited == ~CachesLag => \A i \in DbAnswers \ (synced \cup Held) : RowsKept(i)

\* The syncer is answered in the end.
Answered == \A i \in Mine : i \in owed ~> (i \notin owed \/ task = "stopped")

\* A milestone that has been passed on is declared synced, unless it fails again.
SyncRowWritten ==
  \A i \in DbAnswers :
    (out # None /\ out.type # "unreachable" /\ out.index = i)
      ~> (i \in synced \/ i \in ToSet(unreachable) \/ task = "stopped")

=============================================================================
