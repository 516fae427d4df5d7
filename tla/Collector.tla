------------------------------ MODULE Collector ------------------------------
(***************************************************************************)
(* A collector of the chronicle broker and its requesters.  The collector  *)
(* gets the messages and the metadata of its partition from the network in *)
(* any order.  It writes a message as soon as it is seen, under the        *)
(* milestone it is estimated to be referenced by, and again under the      *)
(* right one when the metadata comes, which says so; the rows under the    *)
(* wrong one are then deleted.  It answers the solidifiers that ask for    *)
(* messages: from its two LRU caches, by holding a request until the       *)
(* metadata is bound to come, or through the least loaded of its           *)
(* requesters, which try their endpoints in turn.                          *)
(*                                                                         *)
(* Ref[id] is the milestone that references message id, which is all that  *)
(* is read of its metadata; metadata that does not name one is ignored and *)
(* left out.  A message to a solidifier has no partition here: it is that  *)
(* of the milestone, and every collector knows every solidifier.           *)
(* Statements are applied in the order they are sent, and the answer of a  *)
(* requester is handled when it is sent.                                   *)
(***************************************************************************)
EXTENDS Tables, SequencesExt, FiniteSetsExt

CONSTANTS
  Messages,            \* Messages[id]: the message with this id
  Ref,                 \* Ref[id]: referenced_by_milestone_index
  MilestoneOf,         \* MilestoneOf[ms]: the message that holds milestone ms
  Asks,                \* what the solidifiers may ask for, [id, ms, by]
  Capacities,          \* the values of lru_capacity
  Requesters,          \* 0 .. requester_count - 1
  ApiEndpoints,        \* api_endpoints at the start
  Topologies,          \* the changes of the endpoints, [type, url]
  RetriesPerEndpoint,  \* retries_per_endpoint
  None,                \* no message
  Deliveries           \* bound: how often the network delivers each message and metadata

Ids == DOMAIN Messages
Milestones == DOMAIN MilestoneOf

\* The asks of the solidifiers; they ask for the messages of milestones themselves,
\* too.  The urls of endpoints, and what a requester finds in its inbox.
Asked == [id : Ids, ms : Nat, by : {"Incoming", "Syncer"}]
Urls == ToSet(ApiEndpoints) \cup {t.url : t \in Topologies}
Inbox == [type : {"request"}, id : Ids, ms : Nat] \cup Topologies

ASSUME CollectorAssumption ==
  /\ Ref \in [Ids -> Nat \ {0}] /\ MilestoneOf \in [Milestones -> Ids]
  /\ \A id \in Ids : Messages[id].id = id
  /\ \A ms \in Milestones : Ref[MilestoneOf[ms]] = ms
  /\ Asks \subseteq Asked /\ \A a \in Asks : Ref[a.id] <= a.ms
  /\ Capacities \subseteq Nat \ {0} /\ RetriesPerEndpoint \in Nat
  /\ ApiEndpoints \in Seq(Urls)
  /\ \A t \in Topologies : t.type \in {"AddEndpoint", "RemoveEndpoint"}
  /\ None \notin Ids /\ Deliveries \in [message : [Ids -> Nat], metadata : [Ids -> Nat]]

VARIABLES
  capacity,          \* of both caches
  est_ms,            \* the milestone new messages are expected to be referenced by
  ref_ms,            \* the milestone that rows are written under
  lru_msg,           \* the messages seen, [id, est], the least recently used first
  lru_msg_ref,       \* the messages whose metadata is known, likewise
  pending_requests,  \* the milestone that a held request of a message is for
  processed_count,   \* of each requester: the requests it has not answered
  queue,             \* of each requester: its inbox
  api_endpoints,     \* of each requester
  feed,              \* how often each message and metadata may yet be delivered
  topologies,        \* the changes of the endpoints to come
  asked,             \* the asks made
  owed,              \* the asks no solidifier has been answered yet
  sent,              \* what the last step sent to the solidifiers
  persisting,        \* the messages it is inserting with an AtomicWorker
  db                 \* the rows of the database
caches == <<est_ms, ref_ms, lru_msg, lru_msg_ref, pending_requests>>
requesters == <<processed_count, queue, api_endpoints>>
env == <<feed, topologies, asked>>
vars == <<capacity, caches, requesters, env, owed, sent, persisting, db>>

-----------------------------------------------------------------------------
(* The statements of a message. *)

insert_parents(id, ms) == UNION {Found("parents", p, ms, id) : p \in Messages[id].parents}

insert_index(id, index, ms) == Found("indexes", index, ms, id)

insert_address(tx, output, ms) ==
  IF output[2] = NoAddress THEN {} ELSE Found("addresses", output[2], ms, <<tx.id, output[1]>>)

insert_input(tx, input, id) == {{TransactionRow(tx.id, input, "input", id)}}
insert_unlock(tx, idx, id) == {{TransactionRow(tx, idx, "unlock", id)}}
insert_output(tx, output, id) == {{TransactionRow(tx.id, output[1], "output", id)}}

insert_transaction(id, tx, ms) ==
  (UNION {insert_input(tx, i[1], id) \cup insert_unlock(i[2], i[3], id) : i \in tx.inputs})
    \cup (UNION {insert_input(tx, i, id) : i \in tx.treasury})
    \cup (UNION {insert_output(tx, o, id) \cup insert_address(tx, o, ms) : o \in tx.outputs})
    \cup (IF tx.payload.kind = "index" THEN insert_index(id, tx.payload.index, ms) ELSE {})

\* A milestone is stored once the metadata of its message is known.
IsMilestone(id) == Messages[id].payload.kind = "milestone" /\ Messages[id].payload.parents_check
insert_payload(id, ms, metadata) ==
  CASE Messages[id].payload.kind = "index" -> insert_index(id, Messages[id].payload.index, ms)
    [] Messages[id].payload.kind = "transaction" -> insert_transaction(id, Messages[id].payload, ms)
    [] IsMilestone(id) /\ metadata -> {{MilestoneRow(Messages[id].payload.index, id)}}
    [] OTHER -> {}

insert_message_metadata(id) == {{MetadataRow(id)}} \cup insert_parents(id, Ref[id])
insert_message_with_metadata(id) ==
  insert_parents(id, Ref[id]) \cup insert_payload(id, Ref[id], TRUE)
    \cup {{MessageRow(id), MetadataRow(id)}}

\* insert_message without and with metadata in the cache
insert_message(id, metadata) ==
  IF metadata THEN insert_message_with_metadata(id)
  ELSE {{MessageRow(id)}} \cup insert_parents(id, est_ms) \cup insert_payload(id, est_ms, FALSE)

\* delete_address, of every output
delete_address(tx, ms) ==
  {PartitionedRow("addresses", o[2], ms, <<tx.id, o[1]>>) :
     o \in {p \in tx.outputs : p[2] # NoAddress}}

delete_parents(id, ms) == {PartitionedRow("parents", p, ms, id) : p \in Messages[id].parents}
delete_indexation(id, payload, ms) ==
  IF payload.kind = "index" THEN {PartitionedRow("indexes", payload.index, ms, id)} ELSE {}

\* clean_up_wrong_est_msg: its hints stay.
Misplaced(id, ms) ==
  LET payload == Messages[id].payload
  IN  delete_parents(id, ms) \cup delete_indexation(id, payload, ms)
        \cup (IF payload.kind = "transaction"
              THEN delete_address(payload, ms) \cup delete_indexation(id, payload.payload, ms)
              ELSE {})

-----------------------------------------------------------------------------
(* The caches. *)

Cached(s, id) == \E i \in 1..Len(s) : s[i].id = id
Position(s, id) == CHOOSE i \in 1..Len(s) : s[i].id = id
Entry(s, id) == s[Position(s, id)]
Without(s, id) == IF Cached(s, id) THEN RemoveAt(s, Position(s, id)) ELSE s

\* put, which forgets the least recently used entry of a full cache, and get
Put(s, e) == LET t == Append(Without(s, e.id), e)
             IN  IF Len(t) > capacity THEN Tail(t) ELSE t
Get(s, id) == IF Cached(s, id) THEN Put(s, Entry(s, id)) ELSE s

\* The estimate that a message was written under is wrong.
WrongEst(id) == Cached(lru_msg, id) /\ Entry(lru_msg, id).est # Ref[id]

\* Mutant: nothing is deleted.
RelocatedOnly(id) == Write(db, UNION insert_message_with_metadata(id))

\* The message is written with its metadata, and what was written wrong is deleted.
Relocated(id) ==
  Write(IF WrongEst(id) THEN db \ Misplaced(id, Entry(lru_msg, id).est) ELSE db,
        UNION insert_message_with_metadata(id))

-----------------------------------------------------------------------------
(* The solidifiers. *)

FullMessage(id) == [type |-> "message", id |-> id, ms |-> Ref[id]]
CloseEvent(id, ms) == [type |-> "close", id |-> id, ms |-> ms]
Failure(ms) == [type |-> "err", id |-> None, ms |-> ms]
MilestoneEvent(id) == [type |-> "milestone", id |-> id, ms |-> Messages[id].payload.index]
MilestoneEvents(id) == IF IsMilestone(id) THEN {MilestoneEvent(id)} ELSE {}

\* The event answers the ask.
AnswerTo(e, a) == e.ms = a.ms /\ (e.type = "err" \/ (e.type \in {"message", "close"} /\ e.id = a.id))

Solidifiers(events, open) ==
  /\ sent' = events
  /\ owed' = {a \in open : ~\E e \in events : AnswerTo(e, a)}

\* The answer for a request that was made for milestone ms.
PushOrClose(id, ms) == {IF Ref[id] = ms THEN FullMessage(id) ELSE CloseEvent(id, ms)}

-----------------------------------------------------------------------------
(* The requesters. *)

Request(id, ms) == [type |-> "request", id |-> id, ms |-> ms]

\* The requests go to the requesters with the fewest unanswered ones.
LeastLoaded(load, n) ==
  \A r, s \in Requesters : n[r] > 0 => load[r] + n[r] - 1 <= load[s] + n[s]

Send(requests) ==
  \E f \in [requests -> Requesters] :
    LET share(r) == {q \in requests : f[q] = r}
        n == [r \in Requesters |-> Cardinality(share(r))]
    IN  /\ LeastLoaded(processed_count, n)
        /\ processed_count' = [r \in Requesters |-> processed_count[r] + n[r]]
        /\ queue' = [r \in Requesters |-> queue[r] \o SetToSeq(share(r))]
        /\ UNCHANGED api_endpoints

Retries == Len(ApiEndpoints) * RetriesPerEndpoint

Init ==
  /\ capacity \in Capacities
  /\ est_ms = 0 /\ ref_ms = 0 /\ lru_msg = <<>> /\ lru_msg_ref = <<>> /\ pending_requests = <<>>
  /\ processed_count = [r \in Requesters |-> 0] /\ queue = [r \in Requesters |-> <<>>]
  /\ api_endpoints = [r \in Requesters |-> ApiEndpoints]
  /\ feed = Deliveries
  /\ topologies = Topologies /\ asked = {} /\ owed = {} /\ sent = {} /\ persisting = {}
  /\ db = {}

\* AddEndpoint adds one that is not there, and shuffles them; RemoveEndpoint
\* removes the first that is.
Shuffled(s) == {[i \in 1..Len(s) |-> s[p[i]]] : p \in Bijection(1..Len(s), 1..Len(s))}
Changed(s, t) ==
  LET known == {i \in 1..Len(s) : s[i] = t.url}
  IN  IF t.type = "AddEndpoint" THEN Shuffled(IF known = {} THEN <<t.url>> \o s ELSE s)
      ELSE {IF known = {} THEN s ELSE RemoveAt(s, Min(known))}

Topology(r) ==
  /\ queue[r] # <<>> /\ Head(queue[r]).type # "request"
  /\ \E s \in Changed(api_endpoints[r], Head(queue[r])) :
       api_endpoints' = [api_endpoints EXCEPT ![r] = s]
  /\ queue' = [queue EXCEPT ![r] = Tail(@)]
  /\ sent' = {} /\ persisting' = {}
  /\ UNCHANGED <<capacity, caches, processed_count, env, owed, db>>

\* send_requester_topology
ChangeTopology(t) ==
  /\ t \in topologies /\ topologies' = topologies \ {t}
  /\ queue' = [r \in Requesters |-> Append(queue[r], t)]
  /\ sent' = {} /\ persisting' = {}
  /\ UNCHANGED <<capacity, caches, processed_count, api_endpoints, feed, asked, owed, db>>

-----------------------------------------------------------------------------
(* The collector. *)

\* MessageAndMeta with message id, which was requested for milestone ms
HandleFetched(id, ms) ==
  /\ ref_ms' = Ref[id]
  /\ lru_msg' = Put(lru_msg, [id |-> id, est |-> Ref[id]])
  /\ lru_msg_ref' = Put(lru_msg_ref, [id |-> id])
  /\ db' = Relocated(id) /\ persisting' = {id}
  /\ Solidifiers(PushOrClose(id, ms) \cup MilestoneEvents(id), owed)
  /\ UNCHANGED <<est_ms, pending_requests>>

\* MessageAndMeta without one
HandleNotFetched(ms) ==
  /\ Solidifiers({Failure(ms)}, owed) /\ persisting' = {}
  /\ UNCHANGED <<caches, db>>

\* Each failure puts the endpoint that was tried last.
Rotated(s, n) == [i \in 1..Len(s) |-> s[((i + n - 1) % Len(s)) + 1]]

\* Requester r is done with its first request.
Answering(r) ==
  /\ queue[r] # <<>> /\ Head(queue[r]).type = "request"
  /\ queue' = [queue EXCEPT ![r] = Tail(@)]
  /\ UNCHANGED <<capacity, env>>

\* request_full_message_with_retries or request_milestone_message_with_retries,
\* after some failures; adjust_heap and the rest of MessageAndMeta.
Fetch(r) ==
  /\ Answering(r)
  /\ api_endpoints[r] # <<>>
  /\ \E failures \in 0 .. Retries - 1 :
       api_endpoints' = [api_endpoints EXCEPT ![r] = Rotated(@, failures)]
  /\ processed_count' = [processed_count EXCEPT ![r] = @ - 1]
  /\ HandleFetched(Head(queue[r]).id, Head(queue[r]).ms)

\* No endpoint has the message, or there is none.
FetchFails(r) ==
  /\ Answering(r)
  /\ api_endpoints' = [api_endpoints EXCEPT ![r] = Rotated(@, Retries)]
  /\ processed_count' = [processed_count EXCEPT ![r] = @ - 1]
  /\ HandleNotFetched(Head(queue[r]).ms)

Requester(r) == Fetch(r) \/ FetchFails(r) \/ Topology(r)

\* Message: the network delivers message id.
HandleMessage(id) ==
  /\ feed.message[id] > 0 /\ feed' = [feed EXCEPT !.message[id] = @ - 1]
  /\ IF Cached(lru_msg, id)
     THEN /\ lru_msg' = Get(lru_msg, id) /\ UNCHANGED <<lru_msg_ref, db>>
          /\ sent' = {} /\ persisting' = {}
     ELSE LET known == Cached(lru_msg_ref, id)
          IN  /\ lru_msg_ref' = Get(lru_msg_ref, id)
              /\ db' = Write(db, UNION insert_message(id, known))
              /\ lru_msg' = Put(lru_msg, [id |-> id, est |-> est_ms])
              /\ sent' = IF known THEN MilestoneEvents(id) ELSE {}
              /\ persisting' = IF known THEN {id} ELSE {}
  /\ UNCHANGED <<capacity, est_ms, ref_ms, pending_requests, requesters, topologies, asked, owed>>

\* Mutant: only the requests for the milestone itself.
DueNow(pending, ms) == {id \in DOMAIN pending : pending[id] = ms}

\* The requests that process_pending_requests makes for milestone ms.
Due(pending, ms) == {id \in DOMAIN pending : pending[id] < ms}
Kept(pending, ids) == [id \in DOMAIN pending \ ids |-> pending[id]]

\* The first metadata of message id.
HandleNewReference(id) ==
  LET ms == Ref[id]
      held == id \in DOMAIN pending_requests
      others == Kept(pending_requests, {id})
      answer == IF held THEN PushOrClose(id, pending_requests[id]) ELSE {}
      known == Cached(lru_msg, id) \/ held
  IN  /\ lru_msg_ref' = Put(lru_msg_ref, [id |-> id])
      /\ lru_msg' = IF Cached(lru_msg, id) THEN Put(lru_msg, [id |-> id, est |-> ms]) ELSE lru_msg
      /\ pending_requests' = Kept(others, Due(others, ms))
      /\ Send({Request(o, others[o]) : o \in Due(others, ms)})
      /\ Solidifiers(answer \cup (IF Cached(lru_msg, id) THEN {FullMessage(id)} ELSE {})
                            \cup (IF known THEN MilestoneEvents(id) ELSE {}), owed)
      /\ db' = IF known THEN Relocated(id) ELSE Write(db, UNION insert_message_metadata(id))
      /\ persisting' = IF known THEN {id} ELSE {}

\* MessageReferenced: the network delivers the metadata of message id.
HandleReferenced(id) ==
  /\ feed.metadata[id] > 0 /\ feed' = [feed EXCEPT !.metadata[id] = @ - 1]
  /\ ref_ms' = Ref[id] /\ est_ms' = Max({est_ms, Ref[id] + 1})
  /\ IF Cached(lru_msg_ref, id)
     THEN /\ lru_msg_ref' = Get(lru_msg_ref, id)
          /\ sent' = {} /\ persisting' = {}
          /\ UNCHANGED <<lru_msg, pending_requests, requesters, owed, db>>
     ELSE HandleNewReference(id)
  /\ UNCHANGED <<capacity, topologies, asked>>

\* Mutant: what the syncer asked for is not inserted again.
AskCachedOnly(a) ==
  /\ Solidifiers(PushOrClose(a.id, a.ms), owed \cup {a}) /\ persisting' = {}
  /\ UNCHANGED <<requesters, pending_requests, ref_ms, db>>

\* Message and metadata are cached; what the syncer asked for is inserted again.
AskCached(a) ==
  LET again == Ref[a.id] = a.ms /\ a.by = "Syncer"
  IN  /\ ref_ms' = IF again THEN a.ms ELSE ref_ms
      /\ db' = IF again THEN Write(db, UNION insert_message_with_metadata(a.id)) ELSE db
      /\ persisting' = IF again THEN {a.id} ELSE {}
      /\ Solidifiers(PushOrClose(a.id, a.ms) \cup (IF again THEN MilestoneEvents(a.id) ELSE {}),
                     owed \cup {a})
      /\ UNCHANGED <<requesters, pending_requests>>

\* Mutant: a held request is replaced by that of an earlier milestone without a word.
AskHeldDropped(a) ==
  LET held == a.id \in DOMAIN pending_requests
      old == pending_requests[a.id]
  IN  /\ pending_requests' = [id \in DOMAIN pending_requests \cup {a.id} |->
                                IF id # a.id \/ (held /\ old < a.ms) THEN pending_requests[id] ELSE a.ms]
      /\ Solidifiers(IF held /\ old < a.ms THEN {CloseEvent(a.id, a.ms)} ELSE {}, owed \cup {a})
      /\ UNCHANGED <<requesters, ref_ms, db>> /\ persisting' = {}

\* The metadata is bound to come: the request is held.  Of two requests for one
\* message that of the earlier milestone is, and the other is closed.
AskHeld(a) ==
  LET held == a.id \in DOMAIN pending_requests
      old == pending_requests[a.id]
  IN  /\ pending_requests' = [id \in DOMAIN pending_requests \cup {a.id} |->
                                IF id # a.id \/ (held /\ old < a.ms) THEN pending_requests[id] ELSE a.ms]
      /\ Solidifiers(IF ~held THEN {}
                     ELSE {CloseEvent(a.id, IF old < a.ms THEN a.ms ELSE old)}, owed \cup {a})
      /\ UNCHANGED <<requesters, ref_ms, db>> /\ persisting' = {}

\* Everything else is requested from the network.
AskRequested(a) ==
  /\ Send({Request(a.id, a.ms)})
  /\ owed' = owed \cup {a} /\ sent' = {} /\ persisting' = {}
  /\ UNCHANGED <<pending_requests, ref_ms, db>>

\* A milestone that the syncer asked for is not taken up as an incoming one again
\* (solidifier/event_loop.rs:176, :520), nor are its messages asked for as such.
ForItsFlow(a) ==
  a.by = "Incoming" => ~\E b \in asked : b.by = "Syncer" /\ b.ms = a.ms

\* Ask, FullMessage
HandleAsk(a) ==
  LET seen == Cached(lru_msg, a.id)
      hold == est_ms # 0 /\ a.ms >= est_ms - 1
  IN  /\ asked' = asked \cup {a}
      /\ lru_msg' = Get(lru_msg, a.id)
      /\ lru_msg_ref' = IF seen THEN Get(lru_msg_ref, a.id) ELSE lru_msg_ref
      /\ \/ seen /\ Cached(lru_msg_ref, a.id) /\ AskCached(a)
         \/ seen /\ ~Cached(lru_msg_ref, a.id) /\ hold /\ AskHeld(a)
         \/ ~seen /\ AskRequested(a)
         \/ seen /\ ~Cached(lru_msg_ref, a.id) /\ ~hold /\ AskRequested(a)
      /\ UNCHANGED <<capacity, est_ms, feed, topologies>>

\* Ask, MilestoneMessage
HandleAskMilestone(ms) ==
  LET a == [id |-> MilestoneOf[ms], ms |-> ms, by |-> "Syncer"]
  IN  /\ a \notin asked /\ asked' = asked \cup {a}
      /\ AskRequested(a)
      /\ UNCHANGED <<capacity, est_ms, lru_msg, lru_msg_ref, feed, topologies>>

Next ==
  \/ \E id \in Ids : HandleMessage(id) \/ HandleReferenced(id)
  \/ \E a \in Asks \ asked : ForItsFlow(a) /\ HandleAsk(a)
  \/ \E ms \in Milestones : HandleAskMilestone(ms)
  \/ \E r \in Requesters : Requester(r)
  \/ \E t \in Topologies : ChangeTopology(t)

\* The requesters run, and the network goes on referencing messages.
GoesOn == \/ \E r \in Requesters : Requester(r)
          \/ \E id \in Ids : HandleReferenced(id)

Spec == Init /\ [][Next]_vars /\ WF_vars(GoesOn)

-----------------------------------------------------------------------------
(* Properties. *)

\* A cache holds a message once, and no more messages than it may.
IsCache(s, entries) ==
  /\ s \in Seq(entries) /\ Len(s) <= capacity
  /\ \A i, j \in DOMAIN s : s[i].id = s[j].id => i = j

\* Every variable has its type.
TypeOK ==
  /\ capacity \in Capacities
  /\ est_ms \in Nat /\ ref_ms \in Nat
  /\ IsCache(lru_msg, [id : Ids, est : Nat]) /\ IsCache(lru_msg_ref, [id : Ids])
  /\ pending_requests \in [DOMAIN pending_requests -> Nat]
  /\ DOMAIN pending_requests \subseteq Ids /\ IsFiniteSet(DOMAIN pending_requests)
  /\ processed_count \in [Requesters -> Nat]
  /\ queue \in [Requesters -> Seq(Inbox)]
  /\ api_endpoints \in [Requesters -> Seq(Urls)]
  /\ feed \in [message : [Ids -> Nat], metadata : [Ids -> Nat]]
  /\ topologies \subseteq Topologies
  /\ asked \subseteq Asked /\ owed \subseteq asked /\ persisting \subseteq Ids

\* The collector counts what each requester has not answered, and no more: a
\* count that drifts sends all requests to one requester, or underflows
\* (requester/mod.rs:66).
LoadExact ==
  \A r \in Requesters :
    processed_count[r] = Cardinality({i \in DOMAIN queue[r] : queue[r][i].type = "request"})

\* A solidifier that waits for a message is not forgotten, whatever the caches
\* have dropped and whoever else has asked: its request is held or at a requester.
NobodyForgotten ==
  \A a \in owed :
    \/ a.id \in DOMAIN pending_requests /\ pending_requests[a.id] = a.ms
    \/ \E r \in Requesters : Request(a.id, a.ms) \in ToSet(queue[r])

\* Between any two events the caches are within their capacity, the requesters'
\* loads are counted and nobody's request is lost.
CollectorInv == TypeOK /\ LoadExact /\ NobodyForgotten

\* A solidifier is answered once the network has gone past the milestone it asks for.
LastReference == Max({Ref[id] : id \in Ids})
Answered == \A a \in {b \in Asks : b.ms < LastReference} : a \in owed ~> a \notin owed

\* Message id carries no transaction that another message carries too: the rows of
\* its addresses are named after the transaction, not after the message.
Transactions(id) ==
  IF Messages[id].payload.kind = "transaction" THEN {Messages[id].payload.id} ELSE {}
Unshared(id) == \A o \in Ids \ {id} : Transactions(o) \cap Transactions(id) = {}

\* As long as nothing has been forgotten, a message whose metadata is known has
\* all its rows, and none under a milestone that does not reference it, in
\* whatever order message and metadata came and by whatever way.
RowsExact ==
  IsFiniteSet(Ids) /\ capacity >= Cardinality(Ids) =>
    \A id \in Ids :
      Unshared(id) /\ Cached(lru_msg_ref, id) =>
        /\ \A ms \in 0 .. LastReference + 1 : ms # Ref[id] => Misplaced(id, ms) \cap db = {}
        /\ Keys(UNION (IF Cached(lru_msg, id) THEN insert_message_with_metadata(id)
                       ELSE insert_message_metadata(id))) \subseteq Keys(db)

\* collector/event_loop.rs:256 "insert the message if requested by syncer to
\* ensure it gets cql responses for all the requested messages": the answer with
\* the message comes with the insert that reports it.  The solidifier counts on it.
InsertedForSyncer ==
  [][\A a \in asked' : (a.by = "Syncer" /\ FullMessage(a.id) \in sent' /\ Ref[a.id] = a.ms
                          /\ a \in owed \cup (asked' \ asked)) => a.id \in persisting']_vars

=============================================================================
