-------------------------------- MODULE Pager --------------------------------
(***************************************************************************)
(* How the REST API lists what an index, an address or a parent has: page  *)
(* by page, from the newest record to the oldest, over the partitions that *)
(* the hints name, while the broker goes on writing.  The client stores    *)
(* the state of a page and sends it to get the next one.                   *)
(*                                                                         *)
(* The listing is of one key.  A record is [ms, id]; its partition is that *)
(* of its milestone.  The paging state of the database is the record it    *)
(* stopped after, and there is one when the page asked for is full.        *)
(***************************************************************************)
EXTENDS Tables, SequencesExt

CONSTANTS
  Listings,   \* the sets of records the key may have to begin with
  Late,       \* the records that are written meanwhile
  Hidden,     \* the records that the filter of the request drops
  PageSizes,  \* page_size
  MaxFails,   \* bound on the requests that fail
  None

Part(x) == PartitionId(x.ms)
Chunk(ms) == ms \div MilestoneChunkSize

ASSUME PagerAssumption ==
  /\ \A S \in Listings \cup {Late} : \A x \in S : x.ms \in Nat \ {0}
  /\ PageSizes \subseteq Nat \ {0} /\ MaxFails \in Nat

VARIABLES
  records,   \* the table
  hints,     \* the table of hints: hints[p] is the milestone of the row of partition p
  unhinted,  \* late records that have no hint yet
  pageSize,  \* page_size, of every request
  client,    \* "idle", "waiting" or "done"
  cookie,    \* the state the client has stored, None to begin
  req,       \* the locals of the request that is served, None without one
  fails,     \* how many requests have failed
  got,       \* history: what earlier pages had
  page,      \* history: the page that came last
  snapshot,  \* history: what the first request found to be listed
  resent     \* history: whether a page ended where the next one starts over
dbVars == <<records, hints, unhinted>>
clientVars == <<client, cookie, got, page>>
vars == <<dbVars, clientVars, pageSize, req, fails, snapshot, resent>>

-----------------------------------------------------------------------------
(* The database. *)

Newer(x, y) == x.ms > y.ms \/ (x.ms = y.ms /\ x.id < y.id)

\* query of a partition: a page of at most limit records up to latest, after `after`
Query(p, latest, limit, after) ==
  LET S == {x \in records : Part(x) = p /\ x.ms <= latest /\ (after = None \/ Newer(after, x))}
      all == SetToSortSeq(S, Newer)
      full == Len(all) >= limit
      rows == IF full THEN SubSeq(all, 1, limit) ELSE all
  IN  [rows |-> SelectSeq(rows, LAMBDA x : x \notin Hidden),
       paging |-> IF full THEN rows[limit] ELSE None]

\* query of the hints, by descending partition
Hints == [i \in 1 .. Cardinality(DOMAIN hints) |->
            LET p == SetToSortSeq(DOMAIN hints, >)[i] IN [ms |-> hints[p], part |-> p]]

\* A record is written, and the hint of its partition overwritten, in any order.
RecordLands(x) ==
  /\ records' = records \cup {x}
  /\ UNCHANGED <<hints, unhinted, clientVars, pageSize, req, fails, snapshot, resent>>
HintLands(x) ==
  /\ unhinted' = unhinted \ {x}
  /\ hints' = [p \in DOMAIN hints \cup {Part(x)} |-> IF p = Part(x) THEN x.ms ELSE hints[p]]
  /\ UNCHANGED <<records, clientVars, pageSize, req, fails, snapshot, resent>>

-----------------------------------------------------------------------------
(* page_filtered, up to its loop. *)

\* Mutant: the partitions are taken as they are listed.
StartAnywhere(ids) == ids

\* The list is rotated to begin with the partition of the newest hint.
StartWithNewest(ids) ==
  LET newest == CHOOSE i \in DOMAIN ids : \A j \in DOMAIN ids : ids[j].ms <= ids[i].ms
  IN  [i \in DOMAIN ids |-> ids[((newest + i - 2) % Len(ids)) + 1]]

Serve(latest, ids, prevPart, prevPaging) ==
  [latest |-> latest, ids |-> ids, prevPart |-> prevPart, prevPaging |-> prevPaging,
   at |-> 1, lists |-> <<>>, results |-> <<>>, depleted |-> {},
   last |-> [p \in {ids[1].part} |-> latest]]

\* What is kept of a page when the next request is sent.
Turned == /\ got' = got \cup ToSet(page) /\ page' = <<>> /\ client' = "waiting"

\* A request without state: the hints say where to look.
Begin ==
  /\ client = "idle" /\ cookie = None /\ hints # <<>>
  /\ LET latest == Max({hints[p] : p \in DOMAIN hints})
     IN  /\ req' = Serve(latest, StartWithNewest(Hints), None, None)
         /\ snapshot' = {x \in records \ Hidden : Part(x) \in DOMAIN hints /\ x.ms <= latest}
  /\ Turned
  /\ UNCHANGED <<dbVars, pageSize, cookie, fails, resent>>

\* A request with the state of the page before.
Continue ==
  /\ client = "idle" /\ cookie # None
  /\ req' = Serve(cookie.ms, cookie.ids, cookie.part, cookie.paging)
  /\ Turned
  /\ UNCHANGED <<dbVars, pageSize, cookie, fails, snapshot, resent>>

-----------------------------------------------------------------------------
(* The loop over the partitions, and the loop over the records of one. *)

Here == req.ids[req.at].part
List == req.lists[Here]
\* last_index_map; of a partition met for the first time it is the hint's milestone.
LastIndex == IF Here \in DOMAIN req.last THEN req.last[Here] ELSE req.ids[req.at].ms
Serving == /\ req # None /\ Cardinality(req.depleted) < Len(req.ids)
           /\ UNCHANGED <<dbVars, pageSize, snapshot>>
Visiting == Serving /\ Here \notin req.depleted
Reading == Visiting /\ Here \in DOMAIN req.lists
Enough == Len(req.results) >= pageSize
Set(f, p, v) == [q \in DOMAIN f \cup {p} |-> IF q = p THEN v ELSE f[q]]

\* The partitions are visited in a cycle.
NextPartition == (req.at % Len(req.ids)) + 1

Skip == /\ Serving /\ Here \in req.depleted
        /\ req' = [req EXCEPT !.at = NextPartition]
        /\ UNCHANGED <<clientVars, fails, resent>>

\* The partition and the one behind it are fetched.
Fetch ==
  /\ Visiting /\ Here \notin DOMAIN req.lists
  /\ LET parts == {req.ids[i].part : i \in {req.at, req.at + 1} \cap DOMAIN req.ids}
         after(p) == IF p = req.prevPart THEN req.prevPaging ELSE None
     IN  req' = [req EXCEPT !.lists = [p \in DOMAIN @ \cup parts |->
                   IF p \in parts THEN Query(p, req.latest, pageSize, after(p)) ELSE @[p]]]
  /\ UNCHANGED <<clientVars, fails, resent>>

SameChunk == List.rows # <<>> /\ Chunk(Head(List.rows).ms) = Chunk(LastIndex)

\* Mutant: a page ends when it is full, be it inside a milestone.
EndsAnywhere == FALSE

\* The records of a milestone stay together.
SameMilestone == Head(List.rows).ms = LastIndex

Popped == [req EXCEPT !.lists[Here].rows = Tail(@), !.results = Append(@, Head(List.rows))]

Take == /\ Reading /\ SameChunk /\ ~Enough
        /\ req' = [Popped EXCEPT !.last = Set(@, Here, Head(List.rows).ms)]
        /\ UNCHANGED <<clientVars, fails, resent>>

TakeExtra == /\ Reading /\ SameChunk /\ Enough /\ SameMilestone
             /\ req' = Popped
             /\ UNCHANGED <<clientVars, fails, resent>>

\* The answer, with the state for the next page.
Answer(state) == /\ page' = req.results /\ req' = None
                 /\ cookie' = state /\ client' = IF state = None THEN "done" ELSE "idle"
                 /\ UNCHANGED <<got, fails>>

\* Mutant: the paging state is not sent.
CookieWithoutPaging(paging, ms) ==
  [paging |-> None, part |-> Here, ms |-> ms, ids |-> req.ids]

Cookie(paging, ms) == [paging |-> paging, part |-> Here, ms |-> ms, ids |-> req.ids]

FinishMilestone == /\ Reading /\ SameChunk /\ Enough /\ ~SameMilestone
                   /\ Answer(Cookie(None, Head(List.rows).ms))
                   /\ UNCHANGED resent

NextChunk == /\ Reading /\ List.rows # <<>> /\ ~SameChunk
             /\ req' = [req EXCEPT !.last = Set(@, Here, Head(List.rows).ms), !.at = NextPartition]
             /\ UNCHANGED <<clientVars, fails, resent>>

\* The list is used up with the page: the next one asks for `latest` again.
FinishList ==
  /\ Reading /\ List.rows = <<>> /\ Enough
  /\ Answer(Cookie(List.paging, req.latest))
  /\ resent' = (resent \/ List.paging = None
                 \/ \E x \in got \cup ToSet(req.results) : Part(x) # Here /\ x.ms <= req.latest)

\* Mutant: a partition counts as depleted after its first list.
NoMore == TRUE

Depleted == List.paging = None

FetchMore ==
  /\ Reading /\ List.rows = <<>> /\ ~Enough /\ ~Depleted
  /\ req' = [req EXCEPT !.lists[Here] =
               Query(Here, req.latest, pageSize - Len(req.results), List.paging)]
  /\ UNCHANGED <<clientVars, fails, resent>>

Deplete == /\ Reading /\ List.rows = <<>> /\ ~Enough /\ Depleted
           /\ req' = [req EXCEPT !.depleted = @ \cup {Here}, !.at = NextPartition]
           /\ UNCHANGED <<clientVars, fails, resent>>

AllDepleted ==
  /\ req # None /\ Cardinality(req.depleted) = Len(req.ids)
  /\ Answer(None)
  /\ UNCHANGED <<dbVars, pageSize, snapshot, resent>>

\* A query fails, or the answer is lost: the client sends what it has once more.
Fail ==
  /\ req # None /\ fails < MaxFails
  /\ fails' = fails + 1 /\ req' = None /\ client' = "idle"
  /\ UNCHANGED <<dbVars, pageSize, cookie, got, page, snapshot, resent>>

-----------------------------------------------------------------------------

Init ==
  /\ records \in Listings
  /\ hints \in [{Part(x) : x \in records} -> {x.ms : x \in records}]
  /\ \A p \in DOMAIN hints : PartitionId(hints[p]) = p /\ \E x \in records : x.ms = hints[p]
  /\ unhinted = Late /\ pageSize \in PageSizes
  /\ client = "idle" /\ cookie = None /\ req = None /\ fails = 0
  /\ got = {} /\ page = <<>> /\ snapshot = {} /\ resent = FALSE

Served == \/ Begin \/ Continue \/ Skip \/ Fetch \/ Take \/ TakeExtra \/ FinishMilestone
          \/ NextChunk \/ FinishList \/ FetchMore \/ Deplete \/ AllDepleted

Next == \/ Served \/ Fail
        \/ \E x \in Late \ records : RecordLands(x)
        \/ \E x \in unhinted : HintLands(x)

\* The client asks for the next page, and requests are served.
Spec == Init /\ [][Next]_vars /\ WF_vars(Served)

-----------------------------------------------------------------------------
(* Properties. *)

\* Every variable has its type.
TypeOK ==
  /\ client \in {"idle", "waiting", "done"} /\ fails \in 0 .. MaxFails
  /\ client = "waiting" <=> req # None
  /\ cookie # None => cookie.part \in {cookie.ids[i].part : i \in DOMAIN cookie.ids}
  /\ req # None =>
       /\ req.at \in DOMAIN req.ids
       /\ req.depleted \subseteq {req.ids[i].part : i \in DOMAIN req.ids}
       /\ DOMAIN req.lists \subseteq {req.ids[i].part : i \in DOMAIN req.ids}

\* The chunks of the key lie within partition_count of each other, as long as the
\* tangle has been in practice: no two share a partition, and the partitions follow
\* each other from new to old, from that of the newest record around.
NoWrap == \A x, y \in records \cup Late : Chunk(x.ms) - Chunk(y.ms) < PartitionCount

\* A record is listed once: no page repeats one of its own or of a page before,
\* unless one ended where a list did (rocket_event_loop.rs:594 asks for `latest`
\* again, of every partition).
NoRepeat ==
  NoWrap /\ ~resent => IsInjective(page) /\ ToSet(page) \cap got = {}

\* The records that were there when the client began are listed from new to old,
\* within a page and from page to page.
Descending ==
  NoWrap /\ ~resent =>
    LET listed == SelectSeq(page, LAMBDA x : x \in snapshot)
    IN  /\ \A i, j \in DOMAIN listed : i < j => listed[i].ms >= listed[j].ms
        /\ \A x \in got \cap snapshot, y \in ToSet(listed) : x.ms >= y.ms

\* What a client gets is one listing, whatever is asked for again: nothing comes
\* twice or out of its order.
PagerInv == TypeOK /\ NoRepeat /\ Descending

\* Whatever the sizes of the pages, failed requests and records written meanwhile,
\* a client that has reached the end has had every record that was there when it
\* began; that the key's chunks are further apart costs records only when there is
\* more than one page.
Complete ==
  client = "done" /\ (NoWrap \/ got = {}) => snapshot \subseteq got \cup ToSet(page)

\* The client reaches the end, unless a page was to be sent again.
Ends == <>(client = "done" \/ resent)

=============================================================================
