------------------------------ MODULE MCPager ------------------------------
(***************************************************************************)
(* Chunks of two milestones over three partitions: 2 and 3 are in 1, 4 and *)
(* 5 in 2, 6 and 7 in 0, 8 and 9 in 1, 10 in 2.  A key with 1 and 6, or    *)
(* with 3 and 8, has two chunks in one partition; one with 2, 6 and 10 has *)
(* not, but its partitions do not follow each other from new to old.       *)
(***************************************************************************)
EXTENDS Pager

R(ms, id) == [ms |-> ms, id |-> id]
MCListings ==
  (SUBSET {R(9, 1), R(8, 1), R(7, 1), R(7, 2), R(5, 1)} \ {{}}) \cup
  {{R(10, 1), R(6, 1), R(3, 1), R(2, 1)}, {R(9, 1), R(6, 1), R(4, 1), R(1, 1)}, {R(7, 1), R(6, 1), R(6, 2), R(1, 1), R(1, 2)}} \cup
  {{R(7, 1), R(7, 2), R(5, 1), R(5, 2), R(3, 1), R(2, 1), R(2, 2)}} \cup
  {{R(9, 1), R(9, 2), R(9, 3), R(8, 1), R(7, 1), R(7, 2), R(5, 1), R(5, 2), R(4, 1)}}
MCLate == {R(6, 3)}
MCHidden == {R(7, 1), R(9, 2)}

=============================================================================
