---------------------------- MODULE MCMacRxLink ----------------------------
(***************************************************************************)
(* MacRxLink with two clients, or one.                                     *)
(***************************************************************************)
EXTENDS MacRxLink

\* One client receives frames, the other wants to know of the link only.
MCUsesApart == <<{"FILTER_SET", "CNT_REQ"}, {"STATUS_SET"}>>
MCCmdsApart == <<2, 1>>

\* One client does both.
MCUsesBoth == <<{"FILTER_SET", "STATUS_SET"}>>
MCCmdsBoth == <<2>>

\* One client wants to know of the link.
MCUsesStatus == <<{"STATUS_SET"}>>
MCCmdsStatus == <<1>>
=============================================================================
