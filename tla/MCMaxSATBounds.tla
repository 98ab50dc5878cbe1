--------------------------- MODULE MCMaxSATBounds ---------------------------
(* A small instance of MaxSATBounds for TLC. *)
EXTENDS MaxSATBounds

\* The search may also stay where it is once it has answered.
MCNext == BoundNext \/ (verdict # "none" /\ UNCHANGED boundVars)

MCSpec == BoundInit /\ [][MCNext]_boundVars
=============================================================================
