----------------------------- MODULE MCArchiving -----------------------------
(* Lines of one size, two of which make a file.  There is one milestone     *)
(* below the first one, and four above it, so that the incoming flow can    *)
(* leave a gap that the archiver gives up.                                  *)
EXTENDS Archiving
MCLineLen == [i \in 1 .. NoLimit - 2 |-> 1]
MCFirsts == {{2}}
\* With these the first milestones have a glitch between them.
MCGlitch == {{2, 5}}
=============================================================================
