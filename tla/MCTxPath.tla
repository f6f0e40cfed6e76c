------------------------------ MODULE MCTxPath -------------------------------
(***************************************************************************)
(* TxPath with two ports.                                                  *)
(***************************************************************************)
EXTENDS TxPath

Tx(prio, timed, dst) == [kind |-> "tx", prio |-> prio, timed |-> timed, dst |-> dst]
Other == [kind |-> "other", prio |-> "lp", timed |-> FALSE, dst |-> ETH_BROADCAST]

\* Two clients that share pools and whose time stamps share a queue.
MCRequests ==
  << {Tx("lp", TRUE, 0), Tx("hp", FALSE, ETH_BROADCAST)},
     {Tx("hp", TRUE, 0), Tx("lp", FALSE, 0), Other} >>
MCForwards == {0} \X Prios
MCMaxRequests == <<2, 1>>

\* A client that broadcasts timed packets.
MCRequestsBroadcast == << {Tx("lp", TRUE, ETH_BROADCAST)} >>
MCMaxBroadcast == <<2>>
=============================================================================
