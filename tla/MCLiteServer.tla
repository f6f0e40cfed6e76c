---------------------------- MODULE MCLiteServer -----------------------------
(***************************************************************************)
(* LiteServer with two banks and up to two packets in each.                *)
(***************************************************************************)
EXTENDS LiteServer

MCBanks == 0 .. 1
MCAts == 1 .. 2
==============================================================================
