------------------------------- MODULE Tables -------------------------------
(***************************************************************************)
(* The rows that chronicle writes for one message, shared by the two       *)
(* writers of messages: the collector (live messages) and the importer     *)
(* (the messages of a log file).                                           *)
(*                                                                         *)
(* A row is its primary key and the column that two writes of the key can  *)
(* disagree on: the milestone index of a hint, nothing (0) elsewhere.  A   *)
(* statement is the set of rows it upserts: one row, or the message and    *)
(* its metadata, two columns that the collector also writes apart.         *)
(*                                                                         *)
(* A message is [id, parents, payload]; a payload is one of                *)
(*   [kind |-> "none"], [kind |-> "index", index |-> i],                   *)
(*   [kind |-> "milestone", index |-> i, parents_check |-> b] and          *)
(*   [kind |-> "transaction", id, inputs, treasury, outputs, payload]      *)
(* with inputs the triples <<input index, transaction, output index>> of   *)
(* the outputs spent, treasury the indexes of treasury inputs, outputs     *)
(* the pairs <<index, address>>, NoAddress for a treasury output.          *)
(***************************************************************************)
EXTENDS Integers, FiniteSets

CONSTANTS MilestoneChunkSize, PartitionCount,   \* PartitionConfig
          NoAddress

ASSUME PartitionAssumption == /\ MilestoneChunkSize \in Nat \ {0}
                              /\ PartitionCount \in Nat \ {0}

PartitionId(ms) == (ms \div MilestoneChunkSize) % PartitionCount

Row(key, value) == [key |-> key, value |-> value]
Keys(rows) == {r.key : r \in rows}

\* An INSERT of scylla replaces the row with its primary key.
Write(db, statement) ==
  LET keys == Keys(statement)
  IN  {r \in db : r.key \notin keys} \cup statement

\* A row of parents, indexes or addresses, and the hint that leads to it.
PartitionedRow(table, key, ms, id) == Row(<<table, key, PartitionId(ms), ms, id>>, 0)
HintRow(table, key, ms) == Row(<<"hints", table, key, PartitionId(ms)>>, ms)
Found(table, key, ms, id) == {{PartitionedRow(table, key, ms, id)}, {HintRow(table, key, ms)}}

MessageRow(id) == Row(<<"messages", id, "message">>, 0)
MetadataRow(id) == Row(<<"messages", id, "metadata">>, 0)
TransactionRow(tx, idx, variant, id) == Row(<<"transactions", tx, idx, variant, id>>, 0)
MilestoneRow(ms, id) == Row(<<"milestones", ms, id>>, 0)
SyncRow(ms) == Row(<<"sync", ms>>, 0)
AnalyticRow(ms) == Row(<<"analytics", ms>>, 0)

=============================================================================
