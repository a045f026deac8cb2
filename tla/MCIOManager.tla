---------------------------- MODULE MCIOManager ------------------------------
(***************************************************************************)
(* Instances of IOManager for TLC.                                         *)
(***************************************************************************)
EXTENDS IOManager

MCSymmetry == Permutations(Workers)

\* How often each task waits.
MCNoYield  == [t \in Tasks |-> 0]
MCOneYield == [t \in Tasks |-> 1]

=============================================================================
