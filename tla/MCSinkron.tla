----------------------------- MODULE MCSinkron -----------------------------
(* Values of the constants of Sinkron for TLC.  No symmetry: the run checks     *)
(* liveness.                                                                   *)
EXTENDS Sinkron

=============================================================================
