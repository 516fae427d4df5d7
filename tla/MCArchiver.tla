----------------------------- MODULE MCArchiver -----------------------------
(* The archiver with lines of one size: a file takes MaxLogSize - 1 of them. *)
EXTENDS Archiver
MCLineLen == [i \in Index |-> 1]
=============================================================================
