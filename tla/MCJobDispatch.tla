----------------------------- MODULE MCJobDispatch -----------------------------
(***************************************************************************)
(* JobDispatch with small constants.                                        *)
(***************************************************************************)
EXTENDS JobDispatch, TLC

CONSTANTS j1, j2, w1, w2, c1, c2

\* Workers and commands are interchangeable in every safety property.
TaskSymmetry == Permutations(Workers) \cup Permutations(Clients)

OneSession == {Jobs}
================================================================================
