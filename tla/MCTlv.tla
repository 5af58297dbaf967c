------------------------------- MODULE MCTlv -------------------------------
(***************************************************************************)
(* Bytes of two bits: words end at 15, so a value of 16 bytes is one too   *)
(* long for its length.  Numbers of two and four bytes have bytes in both  *)
(* halves.                                                                 *)
(***************************************************************************)
EXTENDS Tlv

MCData == {<<>>, <<1>>, <<0, 2>>, <<3, 1>>, <<1, 3, 2, 0>>, <<2, 1, 0, 3>>,
           [i \in 1 .. 16 |-> 0]}
=============================================================================
