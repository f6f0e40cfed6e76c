------------------------------- MODULE StartUp -------------------------------
(***************************************************************************)
(* From ethernet_conf.h to the running threads of the FULL MAC: the        *)
(* headers, in the order in which the application includes them;           *)
(* ethernet_server_full, or ethernet_server_full_two_port, with            *)
(* init_mii_mem; and the threads, that get their pools from the wrappers   *)
(* of mii_wrappers.c.  In the end one of them has a packet somewhere in a  *)
(* pool, and uses the accessors of mii_full.h on it.                       *)
(*                                                                         *)
(* A pool is <<kind, port>> with kind rx_lp, rx_hp, tx_lp or tx_hp.        *)
(***************************************************************************)
EXTENDS BuildConf, FiniteSets

CONSTANTS
  Confs,    \* applications' ethernet_conf.h: records of macros
  Boards,   \* the SliceKits
  Clients   \* clients that may wait for a time stamp (MAX_ETHERNET_CLIENTS)

\* An application selects a slot, and maybe an implementation, and gives numbers
\* to macros of the MAC, not to the names of ports: a MAC has one port or two.
ASSUME ConfAssumption ==
  /\ Undef \notin Int \cup STRING /\ Clients \in Nat
  /\ \A c \in Confs :
       /\ "SLOT" \in DOMAIN c /\ DOMAIN c \subseteq Macros \ {"PORTS", "PORT_ETH_FAKE"}
       /\ \A m \in DOMAIN c :
            c[m] \in CASE m \in {"SLOT", "ETHERNET_DEFAULT_IMPLEMENTATION"} -> STRING
                      [] m \in {"NUM_ETHERNET_PORTS", "NUM_ETHERNET_MASTER_PORTS"} -> {1, 2}
                      [] OTHER -> Nat

VARIABLES
  pc,
  conf, board,
  unit,     \* the macros of the application's file
  i,        \* the loops of init_mii_mem
  ring,     \* the pools that are initialised: bytes from start to end
  tsQueues, \* the queues of time stamps that are initialised
  lock,     \* ethernet_memory_lock is allocated
  threads,  \* the threads that have started
  at        \* <<pool, word of the ring>>: a packet

vars == <<pc, conf, board, unit, i, ring, tsQueues, lock, threads, at>>
memVars == <<ring, tsQueues, lock, threads, at>>

env == unit.env
Ports == env["NUM_ETHERNET_PORTS"]
MasterPorts == env["NUM_ETHERNET_MASTER_PORTS"]
RxHp == IsSet(env, "ETHERNET_RX_HP_QUEUE")
TxHp == IsSet(env, "ETHERNET_TX_HP_QUEUE")

Init ==
  /\ pc = "include" /\ conf \in Confs /\ board \in Boards /\ unit = EmptyUnit
  /\ i = 0 /\ ring = <<>> /\ tsQueues = {} /\ lock = FALSE /\ threads = {} /\ at = <<>>

-----------------------------------------------------------------------------
(* The build *)

\* #include "ethernet.h".
IncludeEthernet ==
  /\ pc = "include" /\ "ethernet_conf_derived.h" \notin unit.seen
  /\ unit' = ethernet_conf_derived(unit, conf)
  /\ UNCHANGED <<pc, conf, board, i, memVars>>

IncludeBoardSupport ==
  /\ pc = "include" /\ "ethernet_board_support.h" \notin unit.seen
  /\ unit' = ethernet_board_support(unit, conf, board)
  /\ UNCHANGED <<pc, conf, board, i, memVars>>

IncludeMiiFull ==
  /\ pc = "include" /\ "mii_full.h" \notin unit.seen
  /\ unit' = mii_full(unit, conf)
  /\ UNCHANGED <<pc, conf, board, i, memVars>>

\* The headers are there, and the server function that is called is compiled.
\* Between two master ports, high-priority packets are forwarded from rx_mem_hp.
Build ==
  /\ pc = "include" /\ {"ethernet_board_support.h", "mii_full.h"} \subseteq unit.seen
  /\ IsFull(env) /\ (Ports = 1 \/ MasterPorts = 2)
  /\ (MasterPorts > 1 /\ TxHp) => (Ports > 1 /\ RxHp)
  /\ pc' = "mem"
  /\ UNCHANGED <<conf, board, unit, i, memVars>>

-----------------------------------------------------------------------------
(* init_mii_mem *)

hwlock_alloc ==
  /\ pc = "mem" /\ lock' = TRUE /\ pc' = "master"
  /\ UNCHANGED <<conf, board, unit, i, ring, tsQueues, threads, at>>

\* mii_init_mempool of an array of size/4 words: end - start.
RingSize(size) == (size \div 4) * 4 - 4 - SizeofInfo

\* The arrays that the pools are made of.
SizeMacro ==
  [rx_lp |-> "ETHERNET_RX_BUFSIZE_LOW_PRIORITY", tx_lp |-> "ETHERNET_TX_BUFSIZE_LOW_PRIORITY",
   rx_hp |-> "ETHERNET_RX_BUFSIZE_HIGH_PRIORITY", tx_hp |-> "ETHERNET_TX_BUFSIZE_HIGH_PRIORITY"]

\* The pools when those of the set p are initialised too.
Initialised(p) ==
  [q \in DOMAIN ring \cup p |-> IF q \in p THEN RingSize(env[SizeMacro[q[1]]]) ELSE ring[q]]

\* An iteration of the first loop, for the master ports.
InitMasterPort ==
  /\ pc = "master"
  /\ IF i < MasterPorts
     THEN /\ ring' = Initialised((IF RxHp THEN {<<"rx_hp", i>>} ELSE {}) \cup
                                 (IF TxHp THEN {<<"tx_hp", i>>} ELSE {}))
          /\ tsQueues' = tsQueues \cup {i} /\ i' = i + 1 /\ UNCHANGED pc
     ELSE pc' = "ports" /\ i' = 0 /\ UNCHANGED <<ring, tsQueues>>
  /\ UNCHANGED <<conf, board, unit, lock, threads, at>>

\* The first port only.
Mut_LpPorts_one == 1

LpPorts == Ports

\* An iteration of the second loop, for all ports.
InitPort ==
  /\ pc = "ports"
  /\ IF i < LpPorts
     THEN ring' = Initialised({<<"rx_lp", i>>, <<"tx_lp", i>>}) /\ i' = i + 1
          /\ UNCHANGED pc
     ELSE pc' = "par" /\ i' = 0 /\ UNCHANGED ring
  /\ UNCHANGED <<conf, board, unit, tsQueues, lock, threads, at>>

-----------------------------------------------------------------------------
(* The threads *)

\* The interfaces of the server that the build has.
IfNums == IF Ports = 1 THEN {0} ELSE {0, 1}

Threads == {<<"rx_pins", n>> : n \in IfNums} \cup {<<"tx_pins", n>> : n \in IfNums} \cup
           {<<"tx_server", 0>>, <<"rx_server", 0>>}

Lp(kind, ps) == {<<kind, p>> : p \in ps}
Hp(kind, has, ps) == IF has THEN {<<kind, p>> : p \in ps} ELSE {}

\* The pools that a thread reserves memory in.
Writes(t) ==
  CASE t[1] = "rx_pins" -> Lp("rx_lp", {t[2]}) \cup Hp("rx_hp", RxHp, {t[2]})
    [] t[1] = "tx_server" -> Lp("tx_lp", 0 .. Ports - 1) \cup Hp("tx_hp", TxHp, 0 .. Ports - 1)
    [] OTHER -> {}

\* The pools that it takes packets from: mii_tx_pins has its own ones, and the
\* other ports' receive pools for forwarding.
Reads(t) ==
  CASE t[1] = "tx_pins" ->
         Lp("tx_lp", {t[2]}) \cup Hp("tx_hp", TxHp, {t[2]}) \cup
         Hp("rx_lp", Ports > 1, (0 .. Ports - 1) \ {t[2]}) \cup
         Hp("rx_hp", MasterPorts > 1 /\ TxHp, (0 .. MasterPorts - 1) \ {t[2]})
    [] t[1] = "rx_server" ->
         Lp("rx_lp", 0 .. Ports - 1) \cup Hp("rx_hp", RxHp, 0 .. MasterPorts - 1)
    [] OTHER -> {}

UsesTs(t) ==
  CASE t[1] = "tx_pins" -> {t[2]} [] t[1] = "tx_server" -> 0 .. MasterPorts - 1 [] OTHER -> {}

\* par: the threads start in any order.
StartThread ==
  /\ pc = "par"
  /\ \E t \in Threads \ threads : threads' = threads \cup {t}
  /\ UNCHANGED <<pc, conf, board, unit, i, ring, tsQueues, lock, at>>

\* A packet is written anywhere in a pool: mii_commit keeps MIN_USAGE bytes
\* between its header and the end.
UsePacket ==
  /\ pc = "par" /\ threads = Threads /\ at = <<>>
  /\ \E q \in DOMAIN ring : \E w \in 0 .. (ring[q] - MIN_USAGE(env)) \div 4 :
       at' = <<q, 4 * w>>
  /\ UNCHANGED <<pc, conf, board, unit, i, ring, tsQueues, lock, threads>>

Next == \/ IncludeEthernet \/ IncludeBoardSupport \/ IncludeMiiFull \/ Build
        \/ hwlock_alloc \/ InitMasterPort \/ InitPort \/ StartThread \/ UsePacket

Spec == Init /\ [][Next]_vars

-----------------------------------------------------------------------------
(* The packet at hand; addresses are bytes from the start of the ring *)

Buf == at[2] + SizeofHdr

\* The address that mii_packet_get_data loads.
mii_packet_get_data(n) ==
  LET p == Buf + 4 * (n + BUF_DATA_OFFSET)
  IN  IF p >= ring[at[1]] THEN p - ring[at[1]] ELSE p

-----------------------------------------------------------------------------
(* Properties *)

\* The port that the slice has for a field of mii_interface_t.
Signal == [p_mii_rxclk |-> "rxclk", p_mii_rxer |-> "err", p_mii_rxd |-> "rxd",
           p_mii_rxdv |-> "rxdv", p_mii_txclk |-> "txclk", p_mii_txen |-> "txen",
           p_mii_txd |-> "txd"]

\* The macros e give every field of mii_interface_t its signal of slot s, and
\* no port two uses.
PinsRight(e, s) ==
  LET init == ETHERNET_DEFAULT_MII_INIT(e)
      field == mii_interface_t(e)
  IN  /\ Len(init) = Len(field)
      /\ \A k \in DOMAIN field : field[k] \in DOMAIN Signal =>
           init[k] = SlotPorts(s)[Signal[field[k]]]
      /\ \A j, k \in DOMAIN init : j # k => init[j] # init[k]
      /\ \A k \in DOMAIN init : init[k] \notin SlotPorts(s).smi

\* The MAC gets the ports of the slot that ethernet_conf.h selects, each for
\* its signal, whatever the order of the includes; except that on the L16
\* ethernet_conf.h has to come before ethernet_board_support.h (ethernet.h
\* includes it).
SlotHonoured ==
  [][(IncludeBoardSupport /\ (board # "L16" \/ "ethernet_conf.h" \in unit.seen))
       => unit'.env["PORTS"].tile = SlotPorts(conf.SLOT).tile
          /\ PinsRight(unit'.env, conf.SLOT)]_vars

\* What ethernet_conf.h gives for a macro, by its new or else by its old name,
\* and what it asks for, by giving it or by leaving it to the defaults.
Given(c, m) ==
  CASE m \in DOMAIN c -> c[m]
    [] m \notin DOMAIN c /\ m \in DOMAIN MiiName /\ MiiName[m] \in DOMAIN c -> c[MiiName[m]]
    [] OTHER -> Undef

GivenOr(c, m, default) == IF Given(c, m) = Undef THEN default ELSE Given(c, m)

Asked(c, m) ==
  GivenOr(c, m,
    CASE m \in DOMAIN PacketDefaults -> 1518
      [] m \in {"NUM_ETHERNET_PORTS", "NUM_ETHERNET_MASTER_PORTS"} -> 1
      [] m \in {"NUM_MII_RX_BUF", "NUM_MII_TX_BUF"} -> 5
      [] m = SizeMacro.rx_lp -> GivenOr(c, "ETHERNET_RX_BUFSIZE", 4096)
      [] m = SizeMacro.tx_lp -> GivenOr(c, "ETHERNET_TX_BUFSIZE", 4096)
      [] m = SizeMacro.rx_hp /\ GivenOr(c, "ETHERNET_RX_HP_QUEUE", 0) # 0 -> 2048
      [] m = SizeMacro.tx_hp /\ GivenOr(c, "ETHERNET_TX_HP_QUEUE", 0) # 0 -> 2048
      [] OTHER -> Undef)

\* The pools that ethernet_conf.h asks for, and the largest packets in them.
Kinds(c) ==
  {"rx_lp", "tx_lp"} \cup
  (IF GivenOr(c, "ETHERNET_RX_HP_QUEUE", 0) # 0 THEN {"rx_hp"} ELSE {}) \cup
  (IF GivenOr(c, "ETHERNET_TX_HP_QUEUE", 0) # 0 THEN {"tx_hp"} ELSE {})

Packets(k) ==
  {"MAX_ETHERNET_PACKET_SIZE"} \cup
  (CASE k = "tx_lp" -> {"ETHERNET_MAX_TX_LP_PACKET_SIZE"}
     [] k = "tx_hp" -> {"ETHERNET_MAX_TX_HP_PACKET_SIZE"} [] OTHER -> {})

\* The sizes that a build with the FULL MAC asks for are sensible: a pool is 160
\* bytes larger than a packet, in whole words, and each client has a buffer.
Sensible(c) ==
  Given(c, "ETHERNET_DEFAULT_IMPLEMENTATION") = "full" =>
    /\ \A k \in Kinds(c) : \A m \in Packets(k) :
         Asked(c, m) + 160 <= 4 * (Asked(c, SizeMacro[k]) \div 4)
    /\ \E m \in {"NUM_MII_RX_BUF", "NUM_MII_TX_BUF"} : Clients <= Asked(c, m)

\* When a thread starts, the lock and every pool and queue that it uses are
\* there, and no pool has two writers.
ThreadsReady ==
  \A t \in threads :
    /\ lock /\ Writes(t) \cup Reads(t) \subseteq DOMAIN ring /\ UsesTs(t) \subseteq tsQueues
    /\ \A s \in threads \ {t} : Writes(s) \cap Writes(t) = {}

\* The memory of the pools is what ethernet_conf.h asks for and as MiiMalloc and
\* MiiTxPool assume: whole words, room for MIN_USAGE, and in an empty transmit
\* pool room for the largest packet wherever its pointers are, so that no
\* client waits for ever.  A queue of time stamps has room for every client.
PoolsLargeEnough ==
  pc = "par" =>
    /\ \A m \in DOMAIN MiiName : env[m] = Asked(conf, m)
    /\ Clients < MAC_MAX_ENTRIES(env)
    /\ \A q \in DOMAIN ring :
         /\ ring[q] % 4 = 0 /\ MIN_USAGE(env) % 4 = 0 /\ MIN_USAGE(env) <= ring[q]
         /\ q[1] \in {"tx_lp", "tx_hp"} =>
              FullPacketSize(env, q[1] = "tx_hp") + MIN_USAGE(env) <= ring[q]

\* Wherever a packet is, the accessors that do not wrap (fields, and the bytes
\* of the MAC addresses that the transmit server stores) stay inside the ring
\* and agree with mii_packet_t, and mii_packet_get_data finds each word of the
\* data where the writer, that goes on at the start, has put it.
AccessorsAgree ==
  at # <<>> =>
    LET len == ring[at[1]]
        InRing(b) == Buf + b < len
    IN  /\ \A k \in 1 .. Len(Fields) :
             mii_packet_set(Fields[k]) = mii_packet_get(Fields[k]) /\ InRing(4 * k - 1)
        /\ mii_packet_get_data_ptr = 4 * Len(Fields)
        /\ MII_PACKET_HEADER_SIZE(env) = mii_packet_get_data_ptr
        /\ \A n \in 0 .. 11 :
             /\ mii_packet_set_data_byte(n) = mii_packet_get_data_ptr + n
             /\ mii_packet_set_data_short(n) = mii_packet_get_data_ptr + 2 * n
             /\ mii_packet_set_data(n) = mii_packet_set_data_word(mii_packet_get_data_ptr, n)
             /\ InRing(mii_packet_set_data_byte(n))
        /\ \A n \in 0 .. PacketDataWords(env) :
             mii_packet_get_data(n) = (Buf + mii_packet_get_data_ptr + 4 * n) % len

=============================================================================
