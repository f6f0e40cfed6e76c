---------------------------- MODULE MCMiiTxPool ----------------------------
(***************************************************************************)
(* MiiTxPool on a pool of a few words.  MIN_USAGE is one word more than    *)
(* the headers (22 and 12 in the code); with MaxUse = MinSize a frame of   *)
(* the largest size fills exactly the words that the server asks for, as   *)
(* a frame of 1517 or 1518 bytes does.                                     *)
(***************************************************************************)
EXTENDS MiiTxPool

MCDataWords == {-1}
=============================================================================
