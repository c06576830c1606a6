------------------------------ MODULE MCBuild ------------------------------
(***************************************************************************)
(* Instances of BuildCoordinator for TLC.  Handlers are interchangeable,   *)
(* so runs of safety properties use them as a symmetry set; apps and       *)
(* sources are interchangeable too.                                        *)
(***************************************************************************)
EXTENDS BuildInvariants, TLC

Symmetry == Permutations(Handlers) \cup Permutations(Apps)
              \cup Permutations(Srcs)

\* Bound of the run with faults: a report arrives or is lost before the next one
\* is posted.  The run without faults has no such bound.
OneReportAtATime == Cardinality(reports) <= 1
=============================================================================
