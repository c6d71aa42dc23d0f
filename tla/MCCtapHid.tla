------------------------------ MODULE MCCtapHid ------------------------------
(***************************************************************************)
(* Small instances of CtapHid for TLC.                                     *)
(***************************************************************************)
EXTENDS CtapHidInv, TLC

CONSTANTS h1, h2

TwoHandles == {h1, h2}

HandleSymmetry == Permutations(TwoHandles)
=============================================================================
