------------------------------ MODULE Importer ------------------------------
(***************************************************************************)
(* An importer of the chronicle broker: replays one log file into the      *)
(* database.  Up to `parallelism' milestones are in progress at a time.    *)
(* The messages of one are written up to `parallelism' at a time, each as  *)
(* many statements, and every statement has a worker that retries it.  The *)
(* workers of a chunk share a handle: when the last of them is gone the    *)
(* handle tells the importer to go on with the milestone, or that a        *)
(* statement of the chunk failed.  After the last chunk one more worker    *)
(* writes the analytics and then the row that says the milestone is        *)
(* synced.  In Analytics mode only the analytics are written.              *)
(*                                                                         *)
(* The database answers a statement, fails it, or fails it although it has *)
(* been applied.  A worker that meets an unprepared statement prepares it  *)
(* and sends the same request again, which changes nothing here.  Reading  *)
(* the file may fail.                                                      *)
(***************************************************************************)
EXTENDS Tables, SequencesExt, FiniteSetsExt

CONSTANTS
  Log,             \* the milestones of the log file, one per line
  Messages,        \* Messages[m]: the messages of milestone m, a sequence
  Ranges,          \* the import ranges asked for, sets of milestones
  Stored,          \* the sets of milestones of the file an earlier import may have stored
  Parallelism,     \* parallelism
  Retries,         \* retries_per_query
  MaxFaults        \* bound on the failures of the database and of the file

ASSUME ImporterAssumption ==
  /\ Log \in Seq(Nat \ {0}) /\ IsInjective(Log)
  /\ \A m \in ToSet(Log) : Messages[m] \in Seq(ToSet(Messages[m])) \ {<<>>}
  /\ Stored \subseteq SUBSET ToSet(Log)
  /\ Parallelism \in Nat \ {0} /\ Retries \in Nat /\ MaxFaults \in Nat

Lines == ToSet(Log)
Modes == {"All", "Analytics"}

VARIABLES
  mode,         \* the import mode
  resume,       \* whether what is complete is skipped
  importRange,  \* import_range
  completed,    \* completed milestones of the sync data
  status,       \* of the service: "Initializing", "Running", "Stopping" or "Stopped"
  handle,       \* whether the importer has its own handle still
  line,         \* how many lines of the file have been read
  taken,        \* in_progress_milestones_data: the messages taken of each milestone
  flight,       \* the workers that wait for an answer of the database
  anyError,     \* any_error of the handle that the workers of a chunk share
  inbox,        \* the importer's events
  db,           \* the rows of the database
  reports,      \* how often the progress of each milestone has been reported
  outcome,      \* what the session says at the end
  faults        \* the failures so far
vars == <<mode, resume, importRange, completed, status, handle, line, taken, flight, anyError,
          inbox, db, reports, outcome, faults>>

-----------------------------------------------------------------------------
(* The statements of a message. *)

insert_parents(msg, ms) == UNION {Found("parents", p, ms, msg.id) : p \in msg.parents}

insert_index(id, index, ms) == Found("indexes", index, ms, id)

insert_address(tx, output, ms) ==
  IF output[2] = NoAddress THEN {} ELSE Found("addresses", output[2], ms, <<tx.id, output[1]>>)

insert_input(tx, input, id) == {{TransactionRow(tx.id, input, "input", id)}}
insert_unlock(tx, idx, id) == {{TransactionRow(tx, idx, "unlock", id)}}
insert_output(tx, output, id) == {{TransactionRow(tx.id, output[1], "output", id)}}

\* The payload of a transaction can be an indexation only.
insert_transaction(msg, tx, ms) ==
  (UNION {insert_input(tx, i[1], msg.id) \cup insert_unlock(i[2], i[3], msg.id) : i \in tx.inputs})
    \cup (UNION {insert_input(tx, i, msg.id) : i \in tx.treasury})
    \cup (UNION {insert_output(tx, o, msg.id) \cup insert_address(tx, o, ms) : o \in tx.outputs})
    \cup (IF tx.payload.kind = "index" THEN insert_index(msg.id, tx.payload.index, ms) ELSE {})

insert_payload(msg, ms) ==
  CASE msg.payload.kind = "index" -> insert_index(msg.id, msg.payload.index, ms)
    [] msg.payload.kind = "transaction" -> insert_transaction(msg, msg.payload, ms)
    [] msg.payload.kind = "milestone" /\ msg.payload.parents_check ->
         {{MilestoneRow(msg.payload.index, msg.id)}}
    [] OTHER -> {}

insert_message_with_metadata(msg, ms) ==
  insert_parents(msg, ms) \cup insert_payload(msg, ms)
    \cup {{MessageRow(msg.id), MetadataRow(msg.id)}}

\* The statements of the k-th message of milestone m.
Statements(m, k) == insert_message_with_metadata(Messages[m][k], m)

\* Everything the import of a milestone stores before it is synced.
RowsOf(m) == UNION UNION {Statements(m, k) : k \in DOMAIN Messages[m]}

-----------------------------------------------------------------------------
(* The workers. *)

Worker(kind, ms, id, statement) ==
  [kind |-> kind, ms |-> ms, id |-> id, statement |-> statement, retries |-> Retries]

\* AtomicImporterWorker: the workers of messages i..j of a milestone.
ChunkWorkers(m, i, j) ==
  UNION {{Worker("row", m, k, s) : s \in Statements(m, k)} : k \in i..j}

AnalyzeAndSyncWorker(m) == Worker("analyzeAndSync", m, 0, {AnalyticRow(m)})
AnalyzeWorker(m) == Worker("analyze", m, 0, {AnalyticRow(m)})

Event(type, ms) == [type |-> type, ms |-> ms]

\* An importer that has stopped receives nothing.
Send(events) == inbox' = IF status = "Stopped" THEN inbox ELSE inbox \o events

\* Mutant: the handle never looks at any_error.
ReleasedForgetsError(m, left, error) ==
  IF \E v \in left : v.kind = "row" /\ v.ms = m THEN <<>>
  ELSE <<Event("ProcessMore", m)>>

\* The last worker of a chunk drops the shared handle.
Released(m, left, error) ==
  IF \E v \in left : v.kind = "row" /\ v.ms = m THEN <<>>
  ELSE <<Event(IF error THEN "CqlErr" ELSE "ProcessMore", m)>>

\* handle_response: the statement of w is applied and answered.
Responded(w) ==
  /\ db' = Write(db, w.statement)
  /\ \/ /\ w.kind = "row"
        /\ flight' = flight \ {w}
        /\ Send(Released(w.ms, flight', anyError[w.ms]))
     \/ /\ w.kind = "analyzeAndSync" /\ w.statement = {AnalyticRow(w.ms)}
        /\ flight' = (flight \ {w}) \cup {[w EXCEPT !.statement = {SyncRow(w.ms)}]}
        /\ UNCHANGED inbox
     \/ /\ w.kind = "analyze" \/ w.statement = {SyncRow(w.ms)}
        /\ flight' = flight \ {w}
        /\ Send(<<Event("CqlOk", w.ms)>>)

Respond(w) ==
  /\ Responded(w)
  /\ UNCHANGED <<mode, resume, importRange, completed, status, handle, line, taken, anyError,
                 reports, outcome, faults>>

\* Mutant: a milestone whose analytics or sync record is given up counts as imported.
GaveUpQuietly(w) ==
  /\ anyError' = IF w.kind = "row" THEN [anyError EXCEPT ![w.ms] = TRUE] ELSE anyError
  /\ flight' = flight \ {w}
  /\ Send(IF w.kind = "row" THEN Released(w.ms, flight', TRUE) ELSE <<Event("CqlOk", w.ms)>>)

\* handle_error without retries: a row marks its chunk, the others tell the importer.
GaveUp(w) ==
  /\ anyError' = IF w.kind = "row" THEN [anyError EXCEPT ![w.ms] = TRUE] ELSE anyError
  /\ flight' = flight \ {w}
  /\ Send(IF w.kind = "row" THEN Released(w.ms, flight', TRUE) ELSE <<Event("CqlErr", w.ms)>>)

\* Mutant: the retry is not sent.
RetryNotSent(w) ==
  /\ flight' = flight \ {w}
  /\ UNCHANGED <<anyError, inbox>>

Retry(w) ==
  /\ flight' = (flight \ {w}) \cup {[w EXCEPT !.retries = @ - 1]}
  /\ UNCHANGED <<anyError, inbox>>

\* handle_error, the statement applied or not
Fail(w) ==
  /\ faults < MaxFaults /\ faults' = faults + 1
  /\ db' \in {db, Write(db, w.statement)}
  /\ IF w.retries > 0 THEN Retry(w) ELSE GaveUp(w)
  /\ UNCHANGED <<mode, resume, importRange, completed, status, handle, line, taken, reports, outcome>>

-----------------------------------------------------------------------------
(* The importer. *)

Skips(m) == (resume /\ m \in completed) \/ m \notin importRange

LeastOf(i, j) == IF i < j THEN i ELSE j
FirstChunk(m) == LeastOf(Parallelism, Len(Messages[m]))

\* next_milestone_data: the milestones to import up to line l of the file.
Wanted(l) == {Log[i] : i \in {j \in line + 1 .. l : ~Skips(Log[j])}}

\* The line where the n-th milestone from here is found, or the end of the file.
NthLine(n) ==
  LET found == {l \in line .. Len(Log) : Cardinality(Wanted(l)) = n}
  IN  IF found = {} THEN Len(Log) ELSE Min(found)

\* imported, for every milestone of ms
Report(ms) == [m \in Lines |-> IF m \in ms THEN reports[m] + 1 ELSE reports[m]]

\* handle_milestone_data of the mode for the milestones ms, `others' being in progress.
HandleMilestoneData(ms, others) ==
  /\ taken' = [m \in ms \cup DOMAIN others |->
                 IF m \notin ms THEN others[m] ELSE IF mode = "All" THEN FirstChunk(m) ELSE 0]
  /\ flight' = flight \cup
       (IF mode = "All" THEN UNION {ChunkWorkers(m, 1, FirstChunk(m)) : m \in ms}
                        ELSE {AnalyzeWorker(m) : m \in ms})
  /\ anyError' = [m \in Lines |-> m \notin ms /\ anyError[m]]

\* Lines are read up to l: the milestones to import are started, the others reported.
ReadTo(l, others, done) ==
  /\ HandleMilestoneData(Wanted(l), others)
  /\ line' = l
  /\ reports' = Report(done \cup ({Log[i] : i \in line + 1 .. l} \ Wanted(l)))

\* terminating and aknowledge_shutdown
Stop(o) == /\ status' = "Stopped" /\ handle' = FALSE
           /\ outcome' = o /\ inbox' = <<>>

Init ==
  /\ mode \in Modes /\ resume \in BOOLEAN
  /\ importRange \in Ranges
  /\ \E s \in Stored :
       /\ db = UNION {RowsOf(m) \cup {AnalyticRow(m), SyncRow(m)} : m \in s}
       /\ completed = IF resume THEN s ELSE {}
  /\ status = "Initializing" /\ handle = TRUE
  /\ line = 0 /\ taken = <<>> /\ flight = {}
  /\ anyError = [m \in Lines |-> FALSE]
  /\ inbox = <<>> /\ reports = [m \in Lines |-> 0] /\ outcome = "none" /\ faults = 0

\* Mutant: the end of the file is not noticed when nothing is in progress.
InitializeWithoutEof ==
  /\ status = "Initializing"
  /\ ReadTo(NthLine(Parallelism), taken, {})
  /\ status' = "Running" /\ UNCHANGED <<handle, outcome, inbox>>
  /\ UNCHANGED <<mode, resume, importRange, completed, db, faults>>

\* init and init_importing; with nothing to import the event loop ends at once.
Initialize ==
  /\ status = "Initializing"
  /\ ReadTo(NthLine(Parallelism), taken, {})
  /\ IF Wanted(NthLine(Parallelism)) = {}
     THEN Stop("done")
     ELSE status' = "Running" /\ UNCHANGED <<handle, outcome, inbox>>
  /\ UNCHANGED <<mode, resume, importRange, completed, db, faults>>

\* The file or the sync data cannot be read, at the start or on the way.
InitFails ==
  /\ status = "Initializing"
  /\ faults < MaxFaults /\ faults' = faults + 1
  /\ \E l \in line .. Len(Log) :
       /\ Cardinality(Wanted(l)) < Parallelism
       /\ ReadTo(l, taken, {})
  /\ Stop("failed")
  /\ UNCHANGED <<mode, resume, importRange, completed, db>>

Received(type) == /\ status \in {"Running", "Stopping"}
                  /\ inbox # <<>> /\ Head(inbox).type = type

\* The part of an event that leaves the rows and the parameters alone.
Handled == UNCHANGED <<mode, resume, importRange, completed, db>>

\* CqlResult(Ok): the milestone is imported, the next one is started.
HandleCqlOk ==
  LET m == Head(inbox).ms
      others == [o \in DOMAIN taken \ {m} |-> taken[o]]
  IN  /\ Received("CqlOk")
      /\ \/ /\ status = "Stopping"
            /\ taken' = others /\ reports' = Report({m}) /\ inbox' = Tail(inbox)
            /\ UNCHANGED <<status, handle, outcome, line, flight, anyError, faults>>
         \/ /\ status = "Running"
            /\ ReadTo(NthLine(1), others, {m})
            /\ IF Wanted(NthLine(1)) = {} /\ DOMAIN others = {}
               THEN Stop("done")
               ELSE inbox' = Tail(inbox) /\ UNCHANGED <<status, handle, outcome>>
            /\ UNCHANGED faults
         \/ /\ status = "Running"
            /\ faults < MaxFaults /\ faults' = faults + 1
            /\ \E l \in line .. Len(Log) : Wanted(l) = {} /\ ReadTo(l, others, {m})
            /\ Stop("failed")
      /\ Handled

\* CqlResult(Err): an outage of the database.
HandleCqlErr ==
  /\ Received("CqlErr")
  /\ Stop("failed")
  /\ Handled /\ UNCHANGED <<line, taken, flight, anyError, reports, faults>>

\* ProcessMore: the next chunk of messages, or the end of the milestone.
HandleProcessMore ==
  LET m == Head(inbox).ms
      upto == LeastOf(taken[m] + Parallelism, Len(Messages[m]))
  IN  /\ Received("ProcessMore") /\ inbox' = Tail(inbox)
      /\ IF status = "Stopping" THEN UNCHANGED <<taken, flight, anyError>>
         ELSE /\ taken' = [taken EXCEPT ![m] = upto]
              /\ anyError' = [anyError EXCEPT ![m] = FALSE]
              /\ flight' = flight \cup (IF upto > taken[m] THEN ChunkWorkers(m, taken[m] + 1, upto)
                                                           ELSE {AnalyzeAndSyncWorker(m)})
      /\ Handled /\ UNCHANGED <<status, handle, line, reports, outcome, faults>>

\* The broker gives up its handle of the importer with the event it sends.
AskShutdown ==
  /\ handle /\ Event("Shutdown", 0) \notin ToSet(inbox)
  /\ Send(<<Event("Shutdown", 0)>>)
  /\ UNCHANGED <<mode, resume, importRange, completed, status, handle, line, taken, flight,
                 anyError, db, reports, outcome, faults>>

HandleShutdown ==
  /\ Received("Shutdown") /\ inbox' = Tail(inbox)
  /\ status' = "Stopping" /\ handle' = FALSE
  /\ Handled /\ UNCHANGED <<line, taken, flight, anyError, reports, outcome, faults>>

\* Nobody holds a handle any more: the inbox ends.
InboxClosed ==
  /\ status = "Stopping" /\ inbox = <<>> /\ flight = {}
  /\ Stop("failed")
  /\ Handled /\ UNCHANGED <<line, taken, flight, anyError, reports, faults>>

Handle == \/ Initialize \/ InitFails
          \/ HandleCqlOk \/ HandleCqlErr \/ HandleProcessMore
          \/ HandleShutdown \/ InboxClosed

Answer == \E w \in flight : Respond(w) \/ Fail(w)

Next == Handle \/ Answer \/ AskShutdown

\* The importer's task runs, and the database answers every statement.
Spec == Init /\ [][Next]_vars /\ WF_vars(Handle) /\ WF_vars(Answer)

-----------------------------------------------------------------------------
(* Properties. *)

Workers ==
  [kind : {"row", "analyzeAndSync", "analyze"}, ms : Lines, id : Nat, retries : 0..Retries,
   statement : UNION {(UNION {Statements(m, k) : k \in DOMAIN Messages[m]})
                        \cup {{AnalyticRow(m)}, {SyncRow(m)}} : m \in Lines}]
Events == [type : {"ProcessMore", "CqlOk", "CqlErr"}, ms : Lines]
            \cup [type : {"Shutdown"}, ms : {0}]

\* Every variable has its type.
TypeOK ==
  /\ mode \in Modes /\ resume \in BOOLEAN /\ importRange \in Ranges
  /\ completed \subseteq Lines
  /\ status \in {"Initializing", "Running", "Stopping", "Stopped"}
  /\ handle \in BOOLEAN /\ line \in 0..Len(Log)
  /\ DOMAIN taken \subseteq Lines /\ \A m \in DOMAIN taken : taken[m] \in 0..Len(Messages[m])
  /\ flight \subseteq Workers /\ inbox \in Seq(Events)
  /\ anyError \in [Lines -> BOOLEAN]
  /\ reports \in [Lines -> 0..1]
  /\ outcome \in {"none", "done", "failed"} /\ faults \in 0..MaxFaults

\* What is under way: milestones with a worker or an event.
UnderWay == {w.ms : w \in flight} \cup {e.ms : e \in ToSet(inbox) \ {Event("Shutdown", 0)}}

Apart(events) == \A i, j \in DOMAIN events : events[i].ms = events[j].ms => i = j
AtMostOneDriver ==
  /\ Apart(inbox)
  /\ \A v, w \in flight : v.ms = w.ms => v = w \/ (v.kind = "row" /\ w.kind = "row")
  /\ \A w \in flight, e \in ToSet(inbox) : w.ms # e.ms
  /\ UnderWay \subseteq DOMAIN taken

\* While the importer runs, every milestone in progress has exactly one thing
\* under way that will make it go on: the workers of its chunk, the worker of
\* its analytics, or an event.  Nothing else is in progress, and never more
\* milestones than parallelism.  A milestone with nothing under way would make
\* the import wait forever; one with two would be reported, or removed from
\* in_progress_milestones_data, twice (event_loop.rs:42, expect).
OneDriver ==
  /\ AtMostOneDriver
  /\ status = "Running" => UnderWay = DOMAIN taken /\ Cardinality(DOMAIN taken) \in 1..Parallelism

\* The database says of a milestone that it is complete.
IsComplete(m) == AnalyticRow(m) \in db /\ (mode = "All" => SyncRow(m) \in db)

\* The rows of what has been taken of a milestone are stored.
TakenStored(m) == \A k \in 1..taken[m] : \A s \in Statements(m, k) : Keys(s) \subseteq Keys(db)

\* What is written and said of a milestone comes after all that it depends on: the
\* analytics and the sync record after the rows, CqlOk after these two, ProcessMore
\* after the rows of every chunk so far, unless a statement of the chunk was given up.
WorkersInTurn ==
  \A w \in flight :
    /\ ~Skips(w.ms)
    /\ w.kind = "row" =>
         mode = "All" /\ w.id \in 1..taken[w.ms] /\ w.statement \in Statements(w.ms, w.id)
    /\ w.kind = "analyzeAndSync" =>
         /\ mode = "All" /\ Keys(RowsOf(w.ms)) \subseteq Keys(db)
         /\ \/ w.statement = {AnalyticRow(w.ms)}
            \/ w.statement = {SyncRow(w.ms)} /\ AnalyticRow(w.ms) \in db
    /\ w.kind = "analyze" => mode = "Analytics" /\ w.statement = {AnalyticRow(w.ms)}

EventsInTurn ==
  \A e \in ToSet(inbox) :
    /\ e.type = "CqlOk" => IsComplete(e.ms)
    /\ e.type = "ProcessMore" => mode = "All" /\ TakenStored(e.ms)

Writing(m, k, s) ==
  \E v \in flight : v.kind = "row" /\ v.ms = m /\ v.id = k /\ v.statement = s
ChunksInTurn ==
  \A w \in flight : w.kind = "row" =>
    \/ anyError[w.ms]
    \/ \A k \in 1..taken[w.ms] : \A s \in Statements(w.ms, k) :
         Keys(s) \subseteq Keys(db) \/ Writing(w.ms, k, s)

SyncAfterRows ==
  mode = "All" => \A m \in Lines : SyncRow(m) \in db => Keys(RowsOf(m)) \subseteq Keys(db)

InTurn == WorkersInTurn /\ EventsInTurn /\ ChunksInTurn /\ SyncAfterRows

\* A line that has been read is in progress or has been reported, and nothing of the
\* others has happened yet; what is skipped never gets in progress.
LinesRead ==
  /\ \A i \in 1..Len(Log) :
       IF i <= line THEN reports[Log[i]] = (IF Log[i] \in DOMAIN taken THEN 0 ELSE 1)
                    ELSE reports[Log[i]] = 0 /\ Log[i] \notin DOMAIN taken
  /\ \A m \in DOMAIN taken : ~Skips(m)

\* The importer has its outcome when it stops, and only then; done with nothing left.
LinesInTurn ==
  /\ LinesRead
  /\ outcome = "none" <=> status # "Stopped"
  /\ outcome = "done" => line = Len(Log) /\ DOMAIN taken = {}
  /\ status = "Initializing" => line = 0 /\ DOMAIN taken = {} /\ flight = {}

\* The progress the sockets see: a milestone of the file is reported once, as
\* imported only when it is complete in the database, and an import that says
\* it is done has reported every line of the file.
ReportsExact ==
  /\ \A m \in Lines : reports[m] = 1 => Skips(m) \/ IsComplete(m)
  /\ outcome = "done" => \A m \in Lines : reports[m] = 1

\* A running import neither stalls nor loses track of a milestone.
ImporterInv == TypeOK /\ OneDriver /\ InTurn /\ LinesInTurn

\* What the import promises, with a milestone stored when all the rows of its
\* messages are, and complete when the analytics and, but for the analytics
\* mode, the sync record say so: importer/mod.rs:484 and 383.
WantedLines == {m \in Lines : ~Skips(m)}
StoredLines == {m \in WantedLines : mode = "All" => Keys(RowsOf(m)) \subseteq Keys(db)}
CompleteLines == {m \in WantedLines : IsComplete(m)}

Promise == INSTANCE Import WITH
  wanted <- WantedLines, stored <- StoredLines, complete <- CompleteLines, outcome <- outcome

Promised == Promise!Spec

\* Every import ends, whatever fails and whenever it is asked to shut down.
Terminates == <>(status = "Stopped")

=============================================================================
