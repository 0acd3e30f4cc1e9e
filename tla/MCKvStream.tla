---------------------------- MODULE MCKvStream ----------------------------
(***************************************************************************)
(* KvStream with values of one byte and of two pieces.                     *)
(***************************************************************************)
EXTENDS KvStream

MCData == {<<1>>, <<2, 3, 4>>}
=============================================================================
