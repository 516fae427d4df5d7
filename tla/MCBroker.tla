------------------------------ MODULE MCBroker ------------------------------
(***************************************************************************)
(* Two files in one directory, and one with a name that cannot be printed. *)
(***************************************************************************)
EXTENDS Broker

MCDirs == [d |-> <<"f", "g">>, empty |-> <<>>]

=============================================================================
