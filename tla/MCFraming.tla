------------------------------ MODULE MCFraming ------------------------------
(***************************************************************************)
(* Framing with the lengths next to every boundary of the code.            *)
(***************************************************************************)
EXTENDS Framing

MCPayloads == {0, 1, 56, 57, 58, 115, 116, 117, 175, 7550, 7608, 7609, 7610, 65535, 65536}

MCReplies == {0, 1, 57, 58, 116, 117, 7609, 7610, 7668, 7669, 15161, 65535}
=============================================================================
