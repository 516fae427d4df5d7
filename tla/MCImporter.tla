----------------------------- MODULE MCImporter -----------------------------
(***************************************************************************)
(* A log file of three milestones.  The first has a message with a         *)
(* transaction within the treasury; the second has three messages, more    *)
(* than one chunk; the third a milestone.  A range may leave nothing of    *)
(* the file to import.                                                     *)
(***************************************************************************)
EXTENDS Importer

Message(id, parents, payload) == [id |-> id, parents |-> parents, payload |-> payload]
Plain == [kind |-> "none"]

Transfer == [kind |-> "transaction", id |-> "t1", inputs |-> {}, treasury |-> {0},
             outputs |-> {<<0, NoAddress>>}, payload |-> Plain]

MCLog == <<1, 2, 3>>
MCMessages ==
  << <<Message("a", {}, Transfer)>>,
     <<Message("b", {}, Plain), Message("c", {}, Plain),
       Message("d", {"a"}, Plain)>>,
     <<Message("e", {}, [kind |-> "milestone", index |-> 3, parents_check |-> TRUE])>> >>
MCRanges == {1..3, 2..3, {4}}
MCStored == {{}, {2}}

=============================================================================
