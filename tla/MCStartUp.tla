------------------------------ MODULE MCStartUp ------------------------------
(***************************************************************************)
(* StartUp with what the applications and tests of the repository define   *)
(* in their ethernet_conf.h, each for every slot, and a build for two      *)
(* ports.  ethernet_conf_example.h selects the LITE implementation, for    *)
(* which no packet memory is built; ConfExampleFull is not in the          *)
(* repository: it is the example with FULL in its place, for the sizes     *)
(* that the example gives to that implementation.                          *)
(***************************************************************************)
EXTENDS StartUp, TLC

MCBoards == {"L16", "L2"}
Slots == {"STAR", "TRIANGLE", "CIRCLE", "SQUARE"}

AppDemo == [ETHERNET_DEFAULT_IMPLEMENTATION |-> "full", MAX_ETHERNET_PACKET_SIZE |-> 1518]
AppDemoLite == [ETHERNET_DEFAULT_IMPLEMENTATION |-> "lite", MAX_ETHERNET_PACKET_SIZE |-> 1518]
TestQav ==
  [ETHERNET_DEFAULT_IMPLEMENTATION |-> "full", MAX_ETHERNET_PACKET_SIZE |-> 1518,
   ETHERNET_TX_HP_QUEUE |-> 1, ETHERNET_RX_HP_QUEUE |-> 1,
   MII_TX_BUFSIZE_HIGH_PRIORITY |-> 4096, MII_RX_BUFSIZE_HIGH_PRIORITY |-> 4096,
   NUM_MII_RX_BUF |-> 30, NUM_MII_TX_BUF |-> 2]
TestRegression ==
  [ETHERNET_DEFAULT_IMPLEMENTATION |-> "full", MAX_ETHERNET_PACKET_SIZE |-> 1518,
   NUM_MII_RX_BUF |-> 5, NUM_MII_TX_BUF |-> 2]
ConfExample ==
  [ETHERNET_DEFAULT_IMPLEMENTATION |-> "lite", ETHERNET_RX_BUFSIZE |-> 4096,
   ETHERNET_RX_HP_QUEUE |-> 0, ETHERNET_TX_BUFSIZE |-> 2048, ETHERNET_TX_HP_QUEUE |-> 0]
ConfExampleFull == [ConfExample EXCEPT !.ETHERNET_DEFAULT_IMPLEMENTATION = "full"]
TwoPorts ==
  [NUM_ETHERNET_PORTS |-> 2, NUM_ETHERNET_MASTER_PORTS |-> 2,
   ETHERNET_TX_HP_QUEUE |-> 1, ETHERNET_RX_HP_QUEUE |-> 1] @@ AppDemo

MCConfs ==
  {c @@ [SLOT |-> s] : c \in {AppDemo, AppDemoLite, TestQav, TestRegression, ConfExample,
                              ConfExampleFull, TwoPorts}, s \in Slots}

\* All of them ask for sensible sizes.
ASSUME MCSensible == \A c \in Confs : Sensible(c)
==============================================================================
