---------------------------- MODULE MCMiiRxPool ----------------------------
(***************************************************************************)
(* MiiRxPool on a pool of a few words: the fixed part of a packet is two   *)
(* words and MIN_USAGE three, as 18 and 22 in the code.                    *)
(***************************************************************************)
EXTENDS MiiRxPool

MCDataWords == {-1}
=============================================================================
