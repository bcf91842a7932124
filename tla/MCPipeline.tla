----------------------------- MODULE MCPipeline -----------------------------
(***************************************************************************)
(* Instances of Pipeline for TLC.                                          *)
(***************************************************************************)
EXTENDS Pipeline

\* The first two rules share a tumbling stream, as the default size is the size of the
\* second and no group_by means service; the third has a sliding one of its own.
TwoStreamRules ==
  << [size |-> 0,  slide |-> 0,  groupBy |-> <<>>],
     [size |-> 60, slide |-> 0,  groupBy |-> <<Service>>],
     [size |-> 60, slide |-> 20, groupBy |-> <<>>] >>

=============================================================================
