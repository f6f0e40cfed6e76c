------------------------------ MODULE MCMiiLite ------------------------------
(***************************************************************************)
(* MiiLite with frames of two or three words, and thus MAXPACKET of six,   *)
(* where the code has up to 380 and 383.                                   *)
(***************************************************************************)
EXTENDS MiiLite

MCLens == {2, 3}
==============================================================================
