------------------------------ MODULE MCMerger ------------------------------
(***************************************************************************)
(* Directories of up to seven files that continue each other, overlap, lie *)
(* within each other or leave a gap; and, at the level that looks at every *)
(* file before it is merged, files with the wrong lines, and some that     *)
(* were left active.                                                       *)
(***************************************************************************)
EXTENDS Merger

LogPath(i, j) == Path(i, j, "log")
Span(p) == [k \in 1 .. p.end - p.start |-> p.start + k - 1]
Finished(paths) == [p \in paths |-> Span(p)]
Holding(d, p, ls) == [q \in DOMAIN d \cup {p} |-> IF q = p THEN ls ELSE d[q]]

Tidy == {Finished(s) : s \in SUBSET {LogPath(1, 3), LogPath(2, 4), LogPath(3, 6), LogPath(4, 5),
                                     LogPath(5, 7), LogPath(8, 9), Path(1, 4, "fin")}}

Damages == {[path |-> p, lines |-> l] :
              p \in {LogPath(1, 3), LogPath(3, 6), LogPath(8, 10)},
              l \in {<<>>, <<3>>, <<3, 5>>, <<8>>, <<1, 2, 3, 4>>}}
             \cup {[path |-> ActivePath(s), lines |-> <<>>] : s \in {1, 3, 8}}
             \cup {[path |-> LogPath(6, 4), lines |-> <<6>>], [path |-> LogPath(5, 8), lines |-> <<5, 6>>]}
Bases == {Finished({}), Finished({LogPath(1, 3)}), Finished({LogPath(1, 5)}), Finished({LogPath(7, 9)}),
          Finished({LogPath(1, 3), LogPath(5, 7)}), Finished({LogPath(1, 2), LogPath(9, 11), LogPath(12, 14)})}
Damaged == {Holding(d, x.path, x.lines) : d \in Bases, x \in Damages}

\* Three files overlap with each other: an active file may be opened twice.
Deep == Finished({LogPath(1, 5), LogPath(2, 7), LogPath(3, 9), LogPath(11, 12)})

\* Full files get the name of a finalized one, and of one that was left active.
Crowded == Finished({LogPath(1, 4), LogPath(2, 7), LogPath(3, 10), Path(5, 9, "fin")})
Leftover(ls) == Holding(Finished({LogPath(1, 4), LogPath(2, 8)}), ActivePath(5), ls)

MCScenarios == [level : {"Basic", "JustInTime", "Full"}, dir : Tidy \cup {Deep, Crowded}]
                 \cup [level : {"Full"}, dir : Damaged \cup {Leftover(<<>>)}]
                 \cup [level : {"JustInTime", "Full"}, dir : {Leftover(<<5, 6>>)}]
                 \cup [level : {"JustInTime"}, dir : {Holding(Finished({LogPath(1, 3)}), LogPath(3, 6), <<3, 9, 5>>)}]

=============================================================================
