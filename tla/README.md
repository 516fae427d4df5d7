# A TLA+ model of chronicle.rs

Chronicle.rs is a permanode for the IOTA tangle: it collects the messages the
network's nodes publish, assembles them to milestones, stores them in a ScyllaDB
cluster and archives each milestone's data in write-ahead log files.  This
directory holds TLA+ modules of its core, the configurations TLC checks them
with, and TLAPS proofs about them.

- [The system](#the-system)
- [The modules](#the-modules)
- [The runs](#the-runs)
- [What is proved](#what-is-proved)
- [Disagreements](#disagreements)
- [Not modelled](#not-modelled)
- [The plan](#the-plan)

## The system

The broker (`chronicle-broker`) is a tree of actors, tokio tasks with an
unbounded inbox each.  An actor handles one event at a time; awaiting inside a
handler suspends the actor, not the others.

| Part | State | Operations | What makes it correct |
|---|---|---|---|
| collector (one per partition of milestones) | LRU caches of messages and metadata, pending requests by milestone | messages and metadata from MQTT, `Ask` of solidifiers, answers of requesters, estimation of the current milestone | every ask is answered, with the data or a failure; no request stays open |
| requester (several per collector) | endpoints in rotation, retry budget | fetch a message or a milestone from a node | bounded retries; one answer for each request |
| solidifier (one per partition) | milestone data by index, messages missing, rows in the database, unreachable set | assemble a milestone from its messages, answer the syncer, write the sync row | exactly one answer to each request; complete data only; sync row only when all is stored |
| syncer | sync data, active gap, window of requests, answers that wait | first milestones, gaps in order, skip of unreachable ones, refresh by timer | window exact; archiver served in order; every gap ends; it wakes up again |
| archiver | log files in progress, ranges processed, `next`, heap of data ahead of `next` | append, roll over, close, skip of a gap of the incoming flow | no milestone in two files; a file holds what its name says |
| sync data | ranges completed, unlogged, missing | scan of the sync table, taking the lowest range | exact partition; lowest first; nothing lost |
| importer | milestones in progress, workers of their statements, the rest of the log file | replays a log file into the database, whole or what is missing of it | a milestone is complete in the database before it says so; every import ends |
| merger (`merge.rs`) | list of files, one active file | merges log files by appending and renaming | no line lost or repeated; the names say what is inside |
| broker application | children, points of parallelism, pending imports, MQTT handles, the configuration | import, add, remove and restart clients, restart after an outage, shutdown | points neither lost nor made; clients can be told to leave; it ends when asked |
| MQTT, listener, websocket | a connection | pass on what arrives | - |
| REST API (`chronicle-api`) | none between requests: the client carries the state of a listing | queries, paging over partitions | a page continues exactly where the last one ended |
| storage (`chronicle-storage`) | tables, their keys and hints | inserts, deletes and selects of rows | - |
| configuration (`chronicle-common`) | history of configurations, partitioning | load, update, roll back | the latest record is what is in use |
| `chronicle`, `chronicle-cli`, `chronicle-filter` | - | start-up, commands, a filter hook | - |

A milestone on its way:

    nodes --MQTT--> collector --> solidifier --incoming--> archiver --> FtoT.log
              requester ^  |         ^  |                     ^
                        +--+  Solidify  | MilestoneData       | MilestoneData(gap end), Close
                                     |  v                     |
                       sync table --> syncer -----------------+

Two flows meet in the archiver.  The *incoming* flow is what the network confirms
now; the solidifiers send it, each its own residue class of milestone indices, so
it arrives out of order.  The *syncer's* flow fills the gaps of the past that the
sync table shows.  At the start the syncer receives one milestone of each
solidifier, archives them itself and tells the archiver (through a oneshot
channel) where the incoming flow starts.

What is hard here: two flows write files over the same number line and the files
must not meet; answers come in any order, fail, or are for a phase that is over;
disk operations fail between the steps of a handler; the process is killed and
finds its unfinished files again.  `PROJECT.json` lists each such hazard with its
line and the properties that cover it.

## The modules

### Archiver

`Archiver.tla` is one actor and its directory.  `logs`, `processed`, `next` and
`heap` are the fields (and local) of the same or a similar name
(`milestones_data`); `part` and `sealed` are the `F.part` and `FtoT.log` files on
the disk.  `pc` says where the event loop is: the inner loop that drains the heap
is several steps, since each of them may fail, and `skipping` is the point
between the two operations of the branch that gives up a gap.  A handler is an
action: `Close`, `SyncerBehind`, `SyncerAtNext`, `SyncerAhead` and `Incoming` are
the events, `DrainNext`, `DrainGap`, `SkipGap`, `DrainStale` and `DrainEnd` the
inner loop.  `Handle` is `handle_milestone_data` with its clean-up, `Create` is
`create_and_append`, `CloseLog` is `close_log_file`.

Each handler has a failing twin (`BehindFails`, `AtNextFails`, `CloseFails`,
`DrainFails`): an error that is reported makes the handler return at once, with
the logs and files as far as it got, and the event loop aborts.  A rename may not be
done, or be done and the `sync_all` after it fail.  A write is different: `write_all`
hands the line to tokio's `File`, which writes it later, so that the line is counted in
`to` and its row inserted before anybody knows whether it reaches the disk.
`Outcomes` are what then becomes of it: the line itself, or `Torn`, which stands for
any part of it, none included.  A file whose last line is `Torn` is `Broken`: the next
write to it reports the error and writes nothing, and if there is none, `sync_all`
drops the error and the file is sealed as if it were whole.  A write may also be
reported at once.  `DiskFails` says whether all this happens.  `Terminate` is
`terminating`, which renames the logs in progress.  `Restart` (only in
`CrashSpec`) is a killed process.

What the environment promises is written down as guards: `Start(n)` comes after
everything archived (a fresh archiver has archived nothing), and what the syncer
sends behind `next` is `Resent` (in a sealed file already) or `GapFree` (a gap
bounded by its limit, in which nothing else is archived).  The incoming data is
any milestone at any time, repeated or not.  That the real syncer keeps this
promise is `PromiseKept` of `Archiving.tla`.

`MCArchiver.tla` gives all lines the same length; in both of its runs the disk fails.

### Syncer

`Syncer.tla` is the syncer actor with the solidifiers as its environment:
`requests` are the milestones they owe an answer for.  `active`, `milestones`,
`highest`, `pending`, `eof`, `skip`, `next`, `gapStart`, `gapEnd`, `prevClosed`
are its fields, `timers` the tasks of `schedule_update_sync_data`, `sent` what the
last step sent to the archiver.  One action per branch of `handle_milestone_data`
(`FirstMilestone`, `FirstMilestones`, `Milestone`, `SkippedMilestone`), plus
`Unreachable`, the ask of the timer (`UpdateIgnored`, `UpdateFails`, `Update`) and
`Shutdown`.  The mutual recursion of `process_more`, `complete` and
`trigger_process_more` is unfolded into `NextGap`: it takes a gap and requests its
first milestones, or notices the end.  `Complete` and `FillGaps` differ only in
which rows count as done, and the table is arbitrary, so one operator stands for
both.

A solidifier answers each request once, in any order, with data or Unreachable:
that is `OwedIsOwned` and `Answered` of `Solidifier.tla`.

### Archiving

`Archiving.tla` composes the two: `S` is an instance of `Syncer` and `A` one of
`Archiver`, over their own variables and four more.  `logged` are the rows of the
sync table, `live` the milestones the network confirms that the solidifiers have
not passed on, `inbox` the archiver's events (messages of one sender stay in their
order, and the unbounded channel is one queue for both), `unreachable` a bound.
With an archiver the syncer is started with `Complete` (`application/init.rs:42`),
so a milestone is done when its row says it is logged.

What was an arbitrary environment of `Syncer` are now `Collected`, `Refused` and
`NotCollected` (the solidifier has the milestone, collects it for the incoming
flow, or no endpoint has it); its `Update` reads `logged`.  What was an arbitrary
input of `Archiver` is the head of `inbox`: what `FromSyncer` has translated of
`sent`, or a milestone of the incoming flow (`Confirmed`; `Missed` is one the
solidifier has given up).  `Log` is the insert of the row with every line that is
written (`archiver/event_loop.rs:277`), whose answer nobody waits for.  The start:
any files of an earlier run, with their rows, below the first milestones.

`InTime` says that nothing comes too late: rows are stored, the timer of the syncer
does not come before the archiver has worked off what it was sent, and the
incoming flow does not fill a file while the first milestones are missing.  The
code does nothing to ensure it, but its timers (an hour by default) and files
(4 GB) are large; what happens otherwise is under *Disagreements*.

The archiver's `GapFree`, a guard in its own module, is not assumed here: the
handlers are applied to whatever comes, and `PromiseKept` says that each step is a
step of `A!Next`.  For a directory that is empty at the start everything proved of
`Archiver` then holds of the composition; the files of an earlier run, which the
archiver does not look at, are what `FilesApart` adds.  The disk works here
(`DiskFails` is FALSE): a failure stops the archiver, and is the subject of `Archiver`.

### SyncData

`SyncData.tla` is `types.rs`' `SyncData`: `try_fetch` scans the sync table from the
top (`Row`, `EndOfTable`), then ranges are taken from the bottom
(`TakeLowestGap`, or `TakeLowestUncomplete`, `ExtendRange` and `ReturnRange`, one
action for each turn of the loop).  The scan sees the rows one by one, the pages
they come in make no difference to it.

The reference is `Runs`, the maximal runs of a set of milestones.  `Stacked(s, R)`
says that the Vec s holds the ranges R, the highest first; `Past` are the
milestones of a kind the scan is past, `Left` the runs of a kind from `Reached` on,
which is where the range in hand or the last one taken ends.  A row of another
kind between two of one kind is as good as a gap, as `Proceed` only extends a range
when the row before was of its kind.

### Solidifier

`Solidifier.tla` is one solidifier with the collectors, their requesters and the
database as its environment.  `first`, `expected`, `data` (`milestones_data`),
`unreachable`, `inDb` (`in_database`) and `lruDb` are its fields.  A milestone is
the set of messages that name it as their reference (`Cone`); `TangleAssumption`
says what the protocol of the network gives: no message references a later
milestone than its children, and the ancestors of a milestone's message that no
earlier milestone references are the milestone.  `asks` holds what the collectors
have yet to answer and what they have sent already (the payload that follows a
milestone's message, and Close events); `owed`, `stored` and `taken` are history variables,
what the syncer waits for, what the database has and which milestones have had data.

One action per event: `Seen` (a message confirmed by the network), the answers
`RespondFull`, `RespondMilestone`, `RespondPayload`, `RespondClose`, `RequestFails`
(retries used up), `Solidify` (the syncer asks), `Persisted` and `Analyzed` (the
database answers) and `Stop` (shutdown, or an insert the database refuses for
good).  Any request may fail at any time and the syncer may ask again, so that
late answers of an earlier attempt meet a later one.

Two constants choose what the collectors do.  `Held`: for these milestones, a
collector that has a message without its metadata holds the request
(`collector/event_loop.rs:218`), and closes it when the milestone asks again.
`CachesLag`: an answer out of a collector's cache may come later than the failure,
after all its retries, of a request of the same milestone.  `RowsAwaited` is
checked without that: such an answer to an ask of the Incoming attempt before would
fill the data of the syncer's attempt, which then does not ask for the message,
while only an ask of the syncer's has a cached message inserted again
(`collector/event_loop.rs:209`); the row would be missing until the next fetch of
the sync table finds the gap.  The run `solidifier` has both, `solidifier_db`, which
follows the database's rows of the milestones in `DbAnswers`, neither.  Requests and
inserts are sets: one that is repeated while it is outstanding counts once.

The tangle is a constant; `SolidifierAssumption` and `TangleAssumption` are all that
is known of it, and what the proofs use.  What the code does not promise stands in
the properties themselves: `SentExact` and `SyncedIsStored` are about milestones
that are not `Held`, `RowsAwaited` also about collectors whose caches do not lag.

### Tables

`Tables.tla` has the rows of the database as keys and values: the primary keys of
`init_database`, upserts, `partition_id`, and the two rows behind each index,
address or parent, the partitioned record and its hint.  `Importer`, `Collector`
and `Pager` share it.

### Import and Importer

`Import.tla` is what an import promises: a milestone's rows are all stored before
the database says that it is complete, and an import that says it is done has
completed what it was asked for.  `Importer.tla` is one importer with its workers
and the database.  `taken` is `in_progress_milestones_data` with the count of
messages already handed to workers, `flight` the workers whose statement is out,
`anyError` the flag in the handle the workers of a chunk share
(`AtomicImporterHandle`), `inbox` its events, `line` how far the file is read.
`Initialize`, `HandleCqlOk`, `HandleCqlErr`, `HandleProcessMore`,
`HandleShutdown` and `InboxClosed` are the branches of the event loop, with all the
lines they go on to read (`ReadTo`, `next_milestone_data`).  `Respond` and `Fail`
are `handle_response` and `handle_error` of the three kinds of workers: retries,
giving up, and the drop of the shared handle, which sends `ProcessMore` or the
error.  A statement that fails may have been applied.  The `insert_...` operators
are the methods of that name.  `Promised` is `Import!Spec` under the mapping that
calls a milestone stored when all its rows are in the database, and complete when
the analytics and sync rows are.

`MCImporter.tla`: three milestones; one has more messages than a chunk, one is a
milestone message, one a treasury transaction.

### Merger

`Merger.tla` is `chronicle cleanup`.  A file is a name (`start`, `end`, kind) and a
sequence of lines; a line is the milestone it holds.  `todo` are the paths not
popped, `writer` the active file, `reader` the one being consumed, `pos` the lines
read of it; `phase` says which loop the code is in.  `TakeFirst`, `TakeGap` and
`TakeNext` are the ways `cleanup` uses a popped path (`TakeGone`: its file has been
renamed since the directory was read), `BadLine`, `AppendLine`,
`Overflow`, `Switch` and `Consume` the branches of the loop in `merge`.

The length of a line is left open.  A milestone's line differs from file to file, and
`merge` asks whether a line fits before it asks whether the active file has it already
(`merge.rs:656`, `:663`), so that each line may be the one that does not fit
(`TooLong`), also one of an overlap, and also one behind which a longer one fits.
`Overflow` then begins a new file at the line's own index, which may lie below the
active file's end; at its start, the path is that of the active file, which is opened a
second time.  So an open file need not be where its path says: `at` is the name the
writer's file has in the directory, none when it was removed, and `lines` are those of
the file that is read, which keeps them when another takes its name.

Files are renamed when they are dropped (`Close`), and `Drop` unwraps the result:
`Panics` says when.  `Rerun` is the operator who runs it again.  Two history variables
are for the properties.  `given` says what a cleanup found: the directory was `whole`,
`cut` (lines are missing at the ends of logs), `damaged` (any lines in logs) or
`other`.  `reopened` says that this cleanup has opened an active file a second time.
The properties are about `Trusted` directories, whole ones at any level and cut ones at
level Full, which looks at every line before it merges a file, as long as nothing is
`reopened`.  What happens then is under *Disagreements*.  The calls of the file system
only fail where a file is not there; a write that fails is left out.

`MCMerger.tla`: all subsets of seven files (in sequence, overlapping, nested,
finalized, behind a gap) at each level; three files that overlap each other, so that
an active file is opened twice; damaged ones: empty, short, wrong lines, reversed
bounds, left over as active; one in which full files get the name of a finalized one,
and two where `create_active` finds a file that was left active (not at level Basic,
where such a file may be appended to itself without an end).

### Collector

`Collector.tla` is one collector with its requesters.  `est_ms`, `ref_ms`,
`lru_msg`, `lru_msg_ref` and `pending_requests` are its fields;
`processed_count` the key of the requesters' heap; `queue` and `api_endpoints` the
inbox and endpoints of each requester; `feed` what the network has yet to deliver;
`owed`, `sent` and `persisting` tell the solidifiers' side.  `HandleMessage`,
`HandleReferenced` (with `HandleNewReference`), `HandleFetched`, `HandleNotFetched`,
`HandleAsk` (with `AskCached`, `AskHeld`, `AskRequested`) and `HandleAskMilestone`
are the branches of the event loop, `Fetch` and `FetchFails` a requester's retries
over its endpoints in rotation, `Topology` a change of them.  A message is written
under an estimate and rewritten when its metadata comes; `Misplaced` is what
`clean_up_wrong_est_msg` deletes.  A cache is a sequence, the last used at its end,
and `Position` finds an entry in it; `Shuffled` are the orders the endpoints may get.
`ForItsFlow` is what the solidifiers' code gives: an ask of the Incoming flow is made
when the milestone's data was created (`solidifier/event_loop.rs:176`), the
syncer's only after that data was given up (`:520`), so that it never comes after the
syncer's for one milestone.  With a third ask, of the Incoming flow (374 096 states),
TLC finds no violation either; without `ForItsFlow` it violates `InsertedForSyncer`.

`MCCollector.tla`: a message with a parent and an address, the milestone that
references it, and a later message; two solidifiers that ask for the first, of which
one is right; caches of one entry or large enough.

### Broker

`Broker.tla` is the supervisor.  `imports` is all it keeps of importers (`points` is
`parallelism_points`, a u8 that wraps around as it does in a release build, `pending`
`pending_imports`, `handles` `importer_handles`, `alive` the points each importer was
given), transformed by `spawn_importer`, `spawn_importers` and `handle_import`; the
files of a directory that share the points are spawned in one go, as the order of
different files is immaterial; `mqtt` is where each client is, `mqtts` the
microservices, `mqttHandles` the handles, some of clients that are gone,
`askedToShutdown` the list of that name; `config` the latest record of the history,
which is ordered by the second it was made in (`Tick`).  `Import`, `AddMqtt`,
`RemoveMqtt` are the topology events, `ImporterStopped`, `MqttUp`, `MqttLost`,
`MqttStopped`, `MqttAborted`, `SolidifierAborted`, `ChildAborted`, `ChildStopped`,
`ScyllaRuns`, `SocketOpens` and `SocketCloses` what the children report, `Shutdown` and
`InboxClosed` the end.

### Pager

`Pager.tla` is `page_filtered` with a client that sends the cookie of each page to
get the next.  `req` are the locals of the request that is served; `Fetch`, `Take`,
`TakeExtra`, `FinishMilestone`, `NextChunk`, `FinishList`, `FetchMore`, `Deplete`,
`Skip` and `AllDepleted` are the branches of its two loops; `Query` is a page of
the database with its paging state, filtered.  Records and hints are written
meanwhile (`RecordLands`, `HintLands`), and a request may fail (`Fail`).
`snapshot`, `got`, `page` and `resent` are history variables.

## The runs

Each property has a mutant: a definition changed the way a bug would, with which
TLC finds the property violated.

| Run | Question | Bounds | States |
|---|---|---|---|
| `archiver` | Do two flows, roll-over, gaps and failures leave non-overlapping, exact files, and does the drain end? | milestones 1..5, two lines a file, one solidifier, three milestones in the heap | 58 738 |
| `archiver_crash` | Is a file still ordered after a kill? | the same | violation |
| `syncer` | Does the syncer count, order and end right, whatever the answers? | milestones 1..5, two solidifiers, window of two | 23 309 |
| `archiving` | Do syncer and archiver together keep files apart and fill every hole? | milestones 1..6, the first at 2, window of two, two lines a file, one milestone unreachable at first | 24 232 |
| `sync_data` | Is the scan exact and is everything taken, lowest first? | all 3^6 tables of six milestones, both modes | 9 558 |
| `solidifier` | Is what is passed on complete, whoever asked and whatever failed before? | milestones 2, 4, 6 of one partition of two, four messages, caches of one entry, requests held for 6 | 653 518 |
| `solidifier_db` | Is a milestone declared synced only when it is stored, is every answer awaited that is needed, and the syncer answered? | milestone 4, two messages of it, two analytics in flight | 31 240 |
| `collector` | Is every ask answered, and do the rows end up under the right milestone? | three messages, three asks, caches of one or all, two requesters, one endpoint that may be removed | 86 050 |
| `importer` | Does the import keep its promise whatever fails, and end? | three milestones of five messages, two at a time, chunks of two, one retry, two faults, any shutdown | 111 525 |
| `merger` | Is nothing lost, are names exact, are tidy directories merged? | 2^7 tidy directories at each level and some 100 deep, damaged, crowded or left-over ones, files of up to eight lines, three lines that do not fit, two runs of cleanup | 214 277 |
| `broker` | Are points, imports and clients kept track of, and does the broker end? | two imports of three files and two directories, three points, one client, one socket | 920 266 |
| `pager` | Does a client get every record once, in order, and reach the end? | up to nine records over three partitions, pages of one to four, one failure, one record written meanwhile | 71 231 |

Why these bounds are enough.  *Archiver*: five milestones hold two files of the syncer
and one of the incoming flow with room between them, or a roll-over and a gap; a file
of two lines rolls over; with one solidifier two buffered milestones give up a gap, and
the third stays in the heap after it.  *Syncer*: two first milestones of five may have
a glitch between them; a table of five rows has up to three gaps, gaps longer than the
window and gaps of one.  *Archiving*: below the first milestone is a hole with or
without a file, above it four milestones, of which the flow may miss any, give up a
gap, and fill two files; with two solidifiers and seven milestones (44 380 states, some
minutes) nothing else is found.  *SyncData*: runs of each kind touch runs of both
others, at both ends and in the middle.  *Solidifier*: one milestone with a message
beside its own, and one whose parent is in the milestone before (in `solidifier_db` the
parents of both messages are also in another milestone); with milestone 2 the first, 4
can be Incoming, and Expected when 6 comes first; a cache of one entry forgets 2 as
soon as 4 is unreachable too.  *Collector*: of two asks for one message one names the
wrong milestone; a cache of one forgets the message or its metadata in between; the
endpoint can be gone before, between and after the requests.  *Importer*: more
milestones than the window, more messages than a chunk; with two faults a statement
that is retried is given up, or two of one chunk fail.  *Merger*: every relation of two
files (continuing, overlapping, within, equal start, gap), an active file that is full
at any line of a consumed file, of an overlap too, up to three times in two runs
(`MaxFull`: the first overflow inside an overlap, the one that opens a file twice, and
one behind it), and a second run on what the first has left.  *Broker*: more imports
than points, a directory that shares them or takes turns, a client in any state when it
is removed, lost or the broker stops.  *Pager*: pages that end in a milestone, at its
end, at the end of a chunk, a list, a partition and of everything.

Properties of the archiver: `NoOverlap` (no milestone belongs to two files),
`SealedExact` (a sealed file holds the milestones of its name once and in order; only
its last line may be torn or missing, and only after a failed write), `ArchiverInv`
(the inductive invariant, below), `JumpsNothing` (the incoming flow never passes a
milestone that waits), `DrainEnds`.

Of the syncer: `SyncerInv`, which joins `PendingExact` (the count reaches 0 with
the last answer), `WindowBounded` (requests are the gap's own and at most
`parallelism`), `HeapAhead` (a gap that is not skipped neither loses nor repeats a
milestone) and `WillWake` (an idle syncer has a timer); `InOrder` (the archiver gets
the gap's milestones in order, each once, and Close only behind them),
`SkipEndsWithGap` (a gap after another is not skipped for a milestone of that one),
`ReachesEnd` (every gap ends).

Of both: `ArchivingInv`, which joins `FilesApart` (no milestone in two files, those
of earlier runs included) and `OnlyFlowOpen` (when the syncer is at the end of its
sync data only the file of the incoming flow is open); `PromiseKept` (above);
`HolesFilled` (a milestone that was missed, dropped or unreachable below one that
is logged gets logged).

Of the sync data: `SyncDataInv`, which joins `ScanExact` (each kind's ranges are the
maximal runs of what was scanned), `TakeExact` (the stacks have the runs that are
left, and what was taken is what lies below them) and `OpenGapFirst` (the first gap
lies above every row: the solidifiers start from it); `TakenAscending` (what is taken
are maximal runs that need work, from the bottom up, none touching or jumping
another), `AllTaken`.

Of the solidifier: `SentExact` (what is passed on are all the milestone's messages
and no others), `SolidifierInv` (what the syncer waits for is exactly what is
collected for it), `NotReopened` (the incoming flow never takes up a milestone
again that was passed on or given up, whatever the caches have forgotten),
`Answered`; of its rows `SyncedIsStored` (what is declared synced is stored),
`RowsAwaited` (every message it has of a milestone is known to be stored or being
inserted), `SyncRowWritten`.

Of the collector: `CollectorInv`, which joins `LoadExact` (the key of the heap is
what a requester has not answered) and `NobodyForgotten` (every ask that is not
answered is held or at a requester); `RowsExact` (all rows of a message whose
metadata is known, none under another milestone), `Answered`, `InsertedForSyncer`
(an answer to the syncer's ask comes with the insert the solidifier counts on).

Of the importer: `ImporterInv` (each milestone in progress has exactly one thing
that drives it on), `ReportsExact`, `Promised` (it implements `Import`),
`Terminates`.  Of the merger: `NothingLost`, `NamesExact`, `TidyIsMerged`.

Of the broker: `BrokerInv`, which joins `PointsExact`, `PendingHasImporter` and
`MqttReachable`; `InUseIsConfigured` (a client in use is in the configuration and
will be there after a restart), `EndsWhenAsked`.  Of the pager: `PagerInv`, which
joins `NoRepeat` and `Descending`; `Complete` (what was there at the beginning has
been listed at the end), `Ends`.

Where the code does not have a property, its formula says where (`Held`, `InTime`,
`Unshared`, `NoWrap`, `resent`, `overwritten`, the path errors of the broker), and
*Disagreements* says what happens there.

**Fairness.**  `Archiver`: the loop that drains the heap is one piece of code
that waits for nothing but the disk, so it goes on (`WF` of its steps); no event is
assumed to arrive.  `Syncer`: a solidifier answers (with data, or with Unreachable
when its collectors are out of retries), and events in the inbox are handled;
`WF` for each answer and for an ask of a timer.  `Archiving`: the actors run (`WF`
of `Next`: somebody does, which is enough as only the timer comes again and again)
and the network confirms what it has begun, or the solidifier gives it up (`WF` of
`Flows`).  `SyncData`: sequential code, `WF` of its next step.  `Solidifier`: a
collector answers each request, a requester's retries are counted, and a held
request is answered with the metadata or with a later milestone, so `WF` for each
answer; the database answers each insert or the solidifier stops, `WF` for the
analytics and `SF` for the messages, since in the model a message's answer also
waits for the payload queued before it, which other attempts may repeat.  The
syncer is not assumed to ask.  `Collector`: requesters run, each request is over
after its retries, and the network goes on referencing messages (`WF` of `GoesOn`,
of which there is only a bounded amount).  `Importer`: its task runs (`WF` of
`Handle`) and the database answers each statement, if with an error (`WF` of
`Answer`).  `Merger`: sequential code.  `Broker`: while it stops, its children do as
they are told and the peer of a socket goes away (`WF` of `WindDown`); that it is
asked to stop is not assumed.  `Pager`: requests are served and the client asks for
the next page (`WF` of `Served`).  Deadlock checking is off where the actor may
stop, the sequential code ends, or a bound is reached.

## What is proved

With TLAPS, for every value of the constants that satisfies the assumptions of the
module.  A module's proofs are in the module of its name with `Proofs`, which begins
with what it needs of natural numbers and finite sets (least and greatest elements,
the sorted sequence of a finite set).

| Module | Theorem | Statement |
|---|---|---|
| `ArchiverProofs` | `TypeCorrect` | `Spec => []TypeOK` |
| | `Invariance` | `Spec => []ArchiverInv` |
| | `FilesApart` | `Spec => []NoOverlap` |
| | `RoomKept` | `Spec => []RoomAhead` |
| | `NothingJumped` | `Spec => JumpsNothing` |
| | `SealedAreExact` | `Spec => []SealedExact` |
| `SyncerProofs` | `Invariance` | `Spec => []SyncerInv` |
| | `SentInOrder` | `Spec => InOrder` |
| | `SkipEnds` | `Spec => SkipEndsWithGap` |
| `SyncDataProofs` | `ScannedAndTaken` | `Spec => []SyncDataInv` |
| | `TakenInOrder` | `Spec => []TakenAscending` |
| `SolidifierProofs` | `Owned` | `Spec => []SolidifierInv` |
| | `SendsWhole` | `Spec => []SentExact` |
| | `SyncsStored` | `Spec => []SyncedIsStored` |
| | `KeepsRows` | `Spec => []RowsAwaited` |
| | `NeverReopens` | `Spec => NotReopened` |
| `CollectorProofs` | `Served` | `Spec => []CollectorInv` |
| | `AnswersAreInserted` | `Spec => InsertedForSyncer` |
| | `RowsAreExact` | `Spec => []RowsExact` |
| `ImporterProofs` | `Invariance` | `Spec => []ImporterInv` |
| | `ReportsAreExact` | `Spec => []ReportsExact` |
| | `Implements` | `Spec => Promised` |
| `MergerProofs` | `MergerInv` | `Spec => []IInv` |
| | `MergerNames` | `Spec => []NamesExact` |
| | `MergerKeeps` | `Spec => NothingLost` |
| | `MergerTidy` | `Spec => [](given = "whole" => reopened \/ phase \notin {"failed", "panicked"})` |
| `BrokerProofs` | `Invariance` | `Spec => []BrokerInv` |
| | `StaysConfigured` | `Spec => []InUseIsConfigured` |

What is assumed of the constants is in the `ASSUME`s of the modules, which TLC
evaluates on the instances: mostly their types.  More than types are that a log
file names a milestone once and each of its lines has a message (`Importer`: what the
archiver writes on a disk that works, by `SealedExact`), that the milestone's message references it
(`Solidifier`, `Collector`) and `TangleAssumption` (`Solidifier`), that a directory
lists a file once and a path is not both a file and a directory (`Broker`), and that a
request of a milestone is for a message that some milestone up to it references
(`Collector`: parents are referenced with or before their children); the
directories the merger is given may hold anything.

**Archiver.**  `NoOverlap` is not inductive: an append is safe only because the log
has room, and it has room only because every new file cut the limits of the logs
below it.  `Sound(L, D)` says that: the logs L and files D are apart, and no log's
room `to .. upper-1` is entered by a file that starts in it.  `Tidy` is `Sound` of
the archiver's own files, with room in every log and all files of the disk in
`processed` (the handlers only look there).  `Tidy` holds while the archiver works,
and its files end at `next` at most; it is lost when a handler fails half way,
when a log may be at its limit or a renamed file still in `logs`, and then
`NoOverlap` alone remains, which termination keeps.  That is `ArchiverInv`.  The
proof shows for `Create`, `AppendTo`, `CloseLog` and each point of failure what
they do to `Sound`; `Admits` is what the event loop ensures about the milestone it
hands to a handler.  `NothingJumped` follows from the order of the heap and from
`next <= j` for what is left in it while a gap is skipped.  `RoomAhead` (no log can
grow into another file) has no run of its own: it follows from `ArchiverInv`.
`SealedExact` needs what the files in progress hold, which is `Contents`: while the
archiver works, the file of each log holds the run of its name, or that with its last
line lost (`LinesOf`), and there are no others (so `Create` finds none to append to).
A file that has lost a line is `Broken` and never written to again, which is why no
other line can be missing.  After a failure, the file of a log still in `logs` is gone,
is one of `LinesOf`, or has one torn line more that its name does not count, and that is
what termination may seal.

**Syncer.**  `SyncerInv` is inductive as it stands, but only as a whole.  That the
window stays exact when a gap is taken needs that nothing of the gap before is left,
neither requested nor in the heap; this is `HeapAhead` (what is requested are the
milestones from `next` to the end of the window that are not in the heap, `next` among
them) at the moment `PendingExact` says the last answer has come.  `Taken` and `Ended`
are the two outcomes of `NextGap`, and every action that finishes a gap is shown to end
in one of them.

**Sync data.**  The inductive invariant is all of `SyncDataInv` but `OpenGapFirst`,
which follows.  `Scanning` and `ScanExact` carry the scan: with the facts about runs
(a block added below a set is a run more, a milestone added next to the lowest run
extends it) each row is one of four cases.  Taking is carried by `TakeExact`: no run
of a kind that begins below `Reached` ends above it, so the lowest range on the stacks
begins where nothing to be taken comes before, unless the range in hand ends there;
and when a range is returned nothing that is left begins at its end, so that it is a
maximal run although it was put together of runs of two kinds.

**Solidifier.**  `Core` joins what the runs check with `AllSound`: what a milestone's
data has belongs to the milestone, and of its ancestors, what it does not have is
pending.  With `TangleAssumption` complete data is then the whole cone.  For the
rows, `RowsAwaited` alone is not inductive: `Tracked` adds that of a milestone whose
data was not asked for by the syncer everything stored is counted, which is what the
insert the collector does for the syncer (`collector/event_loop.rs:256`) makes up for
otherwise.  `Asked` says that a milestone's payload is only on its way while its
message is being inserted.

**Collector.**  `CollectorInv` is inductive as it stands.  `Load` (the requests in an
inbox) changes by one at each end of an inbox; `Waits` (a request of an ask is held
or in an inbox) survives every step that answers somebody else, whatever the caches
forget.  `AnswersAreInserted` is proved for each action from the answers it gives.
`RowsAreExact` needs more, as a row does not say which handler wrote it.  `RowsInv`
says which rows a message has by what the two caches know of it: once its metadata
is known, all rows of what has come and none but under the milestone that references
it; with its content alone, none but under the estimate; with neither, none.
`MisplacedApart` says that no two messages share such a row, but for the addresses of
a shared transaction, so that a clean-up for one leaves the others' alone.  It is
assumed that the caches have room for all messages and never evict (`Roomy`), and the
theorem speaks of the messages whose transaction no other carries (`Unshared`, see
*Disagreements*).

**Importer.**  `ImporterInv` and `ReportsExact` are inductive together.  `OneDriver`
(a milestone in progress has exactly one thing under way: workers of one chunk or one
event) needs the counts of the shared handle; `InTurn` that an event comes only after
the rows it vouches for, which holds of every chunk so far, not only of the last;
`LinesInTurn` that a line is in progress or reported, never both.  `Implements` is the
refinement of `Import`: each step of the importer stores rows of some milestones,
completes one, gives the import its outcome, or is a stutter; a step that answers the
last row of a chunk may store several milestones, as two can share a row.

**Merger.**  Neither property is inductive.  `IInv` has the types of any directory and,
for those that `NamesExact` relies on, what the files hold while a cleanup is at work,
as long as no active file is opened twice (`Relied => Core`).  `Files`: every log and
finalized file holds consecutive milestones from the one its name begins with; fewer than
its name says, or damaged ones, only if it is still to be read.  `WriterIs`: at most one
file is active, is where its path says, and holds what `writer` says, up to the end that
the next line continues at; the exception is a damaged file that was adopted behind a
gap, which is marked as faulty and loses its log name when it is closed.  `ReaderIs`: the
lines that are read are those the verified `reader` says, also when a full file has
been renamed over it, and what has been read of them ends at `writer.end` at most; so an
overflow begins a file that overlaps the full one or continues it, and never leaves a
gap.  That gives the names.  For `NothingLost` the lines of the consumed file need not be
in the active one: full files are closed in the middle of it.  `Covers` says that there is
a lowest milestone, at most the start of every file still to be read, from which on
everything below `writer.end` is in files that are left alone from now on.  It survives
each append, overflow and switch, it begins afresh behind a gap, and it is why `merge` may
remove the consumed file.  When a renamed file replaces one that had the name, that one
held, by `Files`, a prefix of its lines.  Finalized files that are to be merged are left
out, since they may be replaced before they are read (see below).  The step that opens an
active file again still loses nothing (`OverflowKeeps`); a second one may.
`MergerTidy` is the safety half of `TidyIsMerged`: without such a step every failure
needs a file that is empty, gone or short of lines, and a whole directory never has one.
As the invariant is one of every directory, what a cleanup leaves is given to the next
(`Fresh`), with whatever of it can be relied on again.

**Broker.**  `BrokerInv` with `InUseIsConfigured` is inductive.  `PointsExact` counts
the points in use as pairs of a file and a number, so that sharing them among the
files of a directory is a disjoint union; `Sound` and `Awaited` say of any account of
the importers what `PointsExact` and `PendingHasImporter` say of the broker's, which
lets `spawn_importer`, `spawn_importers` and `handle_import` be proved one by one.

Only model-checked: `PagerInv` and `Complete` of the pager (they rest on sorting
operators that are recursive, or opaque to the provers), and `ArchivingInv` and
`PromiseKept` of the composition.  Liveness under fairness, `ENABLED`
and what a recursive definition computes for every input are outside of what the
prover's back ends do, so `DrainEnds`, `ReachesEnd`, `AllTaken`, `Answered`,
`SyncRowWritten`, `Terminates`, `EndsWhenAsked`, `Ends` and
`HolesFilled` stay with TLC, and so does that a tidy directory is merged in the end
(`TidyIsMerged`).

## Disagreements

`archiver_crash` is a run that expects a violation:

- a killed archiver leaves `F.part`; after the restart `LogFile::create` opens it to
  append (`archiver/mod.rs:121`), while the syncer sends the gap again from F, if the
  rows of the logged lines were not stored before the kill (they are inserted at
  `archiver/event_loop.rs:277` without waiting).  The file then holds milestones
  twice and out of order ("stores ordered milestones data", `archiver/mod.rs:97`).

The others are excluded by a condition in the property or by a constant, and show
when it is taken out.

A write that fails unnoticed: `append_line` counts a milestone as written when tokio's
`File` has taken its line (`archiver/mod.rs:166`, `:182`), and the row that says it is
logged is inserted.  If the line does not reach the disk, the next write to the file
reports it, and the archiver stops; but if the line was the last of the file, the
`sync_all` before the rename drops the error (`:156`).  The file is sealed, `processed` has
the milestone, nobody asks for it again, and the importer finds the file short or its
last line torn.  `maybe_corrupted` is not set.  `SealedExact` allows it where `DiskFails`,
and it is all that can happen: with `DiskFails = FALSE` a sealed file is `Run(n)`.

Files that overlap ("to prevent overlap", `archiver/event_loop.rs:36` and `:91`):

- *A glitch among the first milestones.*  "eventually we will fill up this glitch"
  (`syncer/event_loop.rs:103`): the milestones below it are archived already, but lie
  in the open gap of the sync data read at the start.  They are asked for again and
  appended to the file of the gap, since `handle_milestone_data` looks for a file to
  extend before it looks whether the milestone is processed.  In `Archiving.cfg`:
  `SolidifierCount = 2` and `Firsts <- MCGlitch` violate `FilesApart`.
- *Rows that are lost or come late.*  A milestone whose row is missing is asked for
  again; while its file is open it is not in `processed`, and a second file is begun
  that overlaps, or the `.part` of the first is opened again.  `InTime = FALSE`
  violates `FilesApart`.
- "the syncer will eventually fill it up" (`archiver/event_loop.rs:87`) needs a
  syncer with `Complete` or `FillGaps` as its first ask; the broker always gives one.

Solidifier and syncer:

- A milestone that failed is asked for again and requests the same parents.  A
  collector that still holds the earlier request for one of them finds
  `old_ms == try_ms_index`, and the branch meant for greater ones closes it
  (`collector/event_loop.rs:232`): the solidifier passes the milestone on without
  that message.  `Held` is left out of `SentExact` for this; with `Held = {4}` in
  `SolidifierDb.cfg`, `SyncedIsStored` and `RowsAwaited` are violated.
- An Unreachable among the first milestones sets `skip`, nothing resets it, and the
  first gap is given up although no milestone of it was unreachable
  (`syncer/event_loop.rs:154` blames "the same gap range"); `SkipEndsWithGap` speaks
  of the gaps behind it.
- If that Unreachable is the last of the first answers, `handle_skip` unwraps
  `active`, which is None (`syncer/event_loop.rs:156`): the task of the model is then
  `panicked`, and `ReachesEnd` holds for the others.
- A failure of a repeated attempt removes the entry of the data passed on before,
  whose analytics are still being inserted; "Analyzed Milestone should have
  in_database entry" (`solidifier/event_loop.rs:75`) is logged and the answer
  dropped.

Collector:

- The rows of a transaction's addresses are named after the transaction, and
  `clean_up_wrong_est_msg` deletes them by that name (`collector/event_loop.rs:355`).
  Two messages may carry one transaction, as a reattachment does.  If one of them was
  estimated to belong to the milestone that references the other, its clean-up
  deletes the other's address rows; so `RowsExact` is about `Unshared` messages.

Merger:

- "We can fit this line" is asked of lines that the active file has already
  (`merge.rs:656`).  When one of them does not fit, the active file is finalized, and
  `create_active` begins a file at that line (`merge.rs:679`), which overlaps the
  finalized one.  If it is the line the active file begins with, the path is that of
  the active file: it is opened again, the old handle is dropped and renames it
  (`merge.rs:307`), and the lines go on under a name that ends before them; when the new
  handle is dropped its path is gone, and the `unwrap` in `Drop` panics (`merge.rs:316`).
  For example 1to5, 2to7 and 3to9 with a maximum of 10 bytes, a line of 5 for
  milestone 1, of 1 for 2 to 4, of 4 for 5 and of 2 for 6: the first overflow begins
  `5.log.active`, milestone 5 of 3to9 does not fit beside 5 and 6, and 5to7.log.fin ends
  up with 5, 6 and 5.  `Deep` of `MCMerger` is that directory: without `reopened`,
  `NamesExact` and `TidyIsMerged` are violated.  If it happens again at the same
  milestone, as it may in 1to5, 2to7, 3to7 and 4to6, the empty file that was begun
  last is renamed over the finalized 5to7.log.fin and milestone 6 is lost; there
  `NothingLost` without `reopened` is violated.
- An empty file that was left active, and is popped behind a gap, is removed, and goes
  on to be the writer (`merge.rs:563`): it has no end, so that all files that follow are
  taken to overlap with it and are removed without being written anywhere, and `Drop`
  panics at the end.
- A consumed file is removed, then found to have the wrong number of lines and
  marked as faulty; its `Drop` renames it and unwraps the error (`merge.rs:708` and
  `:314`).  This happens at the levels Basic and JustInTime with a file whose last
  lines are missing; a file left over as `.active`, which has no end, always is one.
- "Empty files will be removed" (`merge.rs:66`): when one is popped first or behind a
  gap it has just been renamed, the removal fails and cleanup with it.
- With `include_finalized` a full active file is renamed over a finalized one of the
  same name (`merge.rs:307`).  If that is still to be merged, it is popped later, found
  to overlap, skipped and removed: the milestones are in no file any more.  `Crowded`
  of `MCMerger` is such a directory, and `NothingLost` without `~withFin` is violated.
- `create_active` "creates" a file that may be there, left active by a cleanup that
  panicked, and appends to it (`merge.rs:775`): the lines come twice, and the name says
  less than the file holds.  The path is still in the list; when it is popped after the
  file was closed, opening it fails (`TakeGone`).
- A file behind a gap is adopted as the active one even when it is invalid
  (`merge.rs:568`).  At the level Full with `exit_on_val_err` off, a later file that
  overlaps with what its name says is skipped and removed, although the lines are not
  there.  So damaged directories are left out of `NothingLost`.
- "We already validated the file above" (`merge.rs:689`): with JustInTime only its first
  line has been looked at, and it keeps the name it has.  `NamesExact` of a damaged
  directory is therefore about level Full.

Broker application:

- When an importer has stopped, a pending import is started first and the handle
  with the stopped one's name removed after it (`application/event_loop.rs:134`): if
  both have one path, the new importer has no handle and is not told of a shutdown.
- A path that cannot be printed returns points that were not taken (`:439`), and the
  u8 may wrap.
- A pending import with a wrong path is popped and starts nothing; those below it
  wait until another importer stops (`:131`).
- A client that is removed while it starts comes up all the same (`:281`).
- Two records of the history made in the same second are not in order
  (`chronicle-common/src/lib.rs:185`): the later one is not found as the latest.
- A solidifier that aborts while the broker shuts down turns the shutdown into a
  restart (`:150`).
- A websocket that connects while the broker stops is never closed by it.
- The requesters' retries are fixed by the endpoints at the start
  (`requester/mod.rs:139`), whatever is added or removed.

REST API:

- A page that ends where what was fetched ends stores `latest_milestone`
  (`rocket_event_loop.rs:594`): the next page asks all other partitions for their
  newest records again, and without paging state the same page comes forever.
  `resent` records this.
- A key whose chunks lie `partition_count` apart or more (`NoWrap` fails) loses
  records between pages, or has them listed out of order.  It is not enough that no
  two of its chunks share a partition: with three partitions and records in chunks 1,
  3 and 5, the partition of chunk 1 comes before that of chunk 3 in the cycle, and a
  page that ends in chunk 1 asks for nothing newer from then on.
- A hint holds the milestone that was written last, not the newest, so that a
  listing may begin too low.

## Not modelled

The content of messages beyond their parents and payload kinds, logging, alerts,
metrics and the service tree.  A log file's name is the pair of its bounds, a
milestone's data its index and the length of its line.  The `maybe_corrupted` flag
is only read by code that reads files.  The range of u32 is cut: milestone indices
stay below u32::MAX - 1.  Of the merger, a write that fails is left out, and so is how many
bytes a line has: any may be the one that does not fit, at most `MaxFull` times in a
run of TLC, any number of times in the proofs.

Whole parts: `chronicle-filter` (a hook that keeps every message), `chronicle`
(start-up and routing of commands; its table definitions are the source of
`Tables`) and `chronicle-cli` (commands over a socket) have no state of their own to
get wrong.  The end points of the API that are one query each only translate it;
`get_output` joins several rows, a function of them and no behaviour (it says an
output is unspent when a row that is not of an included transaction comes before the
one that is: `is_spent` is overwritten, `rocket_event_loop.rs:927`).

Of the parts that are modelled: analytics that cannot be computed after a
milestone has been taken out (`solidifier/event_loop.rs:290`, the syncer would wait
for ever) and statements that cannot be built; the retries of the solidifier's and
the collector's insert workers, whose outcome is an answer or a stop; the keyspace a
filter may choose; start and shutdown of collectors and requesters; the `validate`
command, the backup copies and the progress bar of the merger; the merge of the
rows of an address in `select.rs`; alerts.  `PROJECT.json` lists all parts with what
is left out.

## The plan

The modules are written, and the actors' own invariants are proved.  What is left
are proofs, in this order:

1. `PromiseKept` of `Archiving`: with `SyncerInv` and `SealedExact` proved, each
   step of the composition is one of `A!Next`; needs an invariant that relates the
   gap the syncer fills, `inbox` and the archiver's logs.  Then `FilesApart`.
2. `PagerInv`: a page continues where the last one ended.
