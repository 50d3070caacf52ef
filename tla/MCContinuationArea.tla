------------------------ MODULE MCContinuationArea ------------------------
(***************************************************************************)
(* ContinuationArea with blocks of a few units.                            *)
(***************************************************************************)
EXTENDS ContinuationArea

TwoAndThree == {2, 3}
AllCircumstances == Circumstances
=============================================================================
