------------------------------ MODULE BuildConf ------------------------------
(***************************************************************************)
(* What the preprocessor makes of an application's ethernet_conf.h: the    *)
(* headers ethernet_conf_derived.h, mii_full.h (with mii_queue.h and       *)
(* mii_malloc.h), ethernet_board_conf.h and ethernet_board_support.h, and  *)
(* the sizes that mii_wrappers.c and mii_malloc.c derive from them.        *)
(*                                                                         *)
(* A translation unit is the set of headers seen so far and the macros; a  *)
(* macro that is not defined is Undef.  The ETHERNET_USE_..._SLOT macros,  *)
(* of which an application defines one, are the macro SLOT.  The ports of  *)
(* the Ethernet slice are the macro PORTS, as a record of tile and ports,  *)
(* without the on tile[..]: XS1_PORT_ in front of each.                    *)
(***************************************************************************)
EXTENDS Integers, Sequences

CONSTANT Undef

\* The name that an older application uses for a macro.
MiiName ==
  [ETHERNET_RX_BUFSIZE |-> "MII_RX_BUFSIZE",
   ETHERNET_RX_BUFSIZE_LOW_PRIORITY |-> "MII_RX_BUFSIZE_LOW_PRIORITY",
   ETHERNET_RX_BUFSIZE_HIGH_PRIORITY |-> "MII_RX_BUFSIZE_HIGH_PRIORITY",
   ETHERNET_TX_BUFSIZE |-> "MII_TX_BUFSIZE",
   ETHERNET_TX_BUFSIZE_LOW_PRIORITY |-> "MII_TX_BUFSIZE_LOW_PRIORITY",
   ETHERNET_TX_BUFSIZE_HIGH_PRIORITY |-> "MII_TX_BUFSIZE_HIGH_PRIORITY"]

Macros ==
  DOMAIN MiiName \cup {MiiName[m] : m \in DOMAIN MiiName} \cup
  {"ETHERNET_DEFAULT_IMPLEMENTATION", "ETHERNET_ENABLE_FULL_TIMINGS", "SLOT", "PORTS",
   "PORT_ETH_FAKE", "NUM_ETHERNET_PORTS", "NUM_ETHERNET_MASTER_PORTS",
   "MAX_ETHERNET_PACKET_SIZE", "ETHERNET_MAX_TX_PACKET_SIZE",
   "ETHERNET_MAX_TX_HP_PACKET_SIZE", "ETHERNET_MAX_TX_LP_PACKET_SIZE",
   "ETHERNET_RX_HP_QUEUE", "ETHERNET_TX_HP_QUEUE", "NUM_MII_RX_BUF", "NUM_MII_TX_BUF"}

\* #ifndef m / #define m d[m], for each macro m of the record d.
Defaults(env, d) ==
  [m \in Macros |-> IF env[m] = Undef /\ m \in DOMAIN d THEN d[m] ELSE env[m]]

\* #if m: a macro that is not defined is 0.
IsSet(env, m) == env[m] \notin {Undef, 0}

Unit == [seen : SUBSET STRING, env : [Macros -> Int \cup STRING \cup {Undef}]]
EmptyUnit == [seen |-> {}, env |-> [m \in Macros |-> Undef]]

\* A header with an include guard, that makes its macros from env.
Header(u, h, env) ==
  IF h \in u.seen THEN u ELSE [seen |-> u.seen \cup {h}, env |-> env]

\* The application's ethernet_conf.h, which defines the macros of conf.
ethernet_conf(u, conf) == Header(u, "ethernet_conf.h", Defaults(u.env, conf))

-----------------------------------------------------------------------------
(* ethernet_conf_derived.h *)

IsFull(env) == env["ETHERNET_DEFAULT_IMPLEMENTATION"] = "full"

\* The old names are not looked at.
Mut_OldNames_not(env) == env

\* A size that has only its old name gets the new one.
OldNames(env) ==
  [m \in Macros |-> IF m \in DOMAIN MiiName /\ env[m] = Undef
                    THEN env[MiiName[m]] ELSE env[m]]

ethernet_conf_derived(u, conf) ==
  LET c == ethernet_conf(u, conf)
      i == Defaults(c.env, [ETHERNET_DEFAULT_IMPLEMENTATION |-> "lite"])
      t == Defaults(i, [ETHERNET_ENABLE_FULL_TIMINGS |-> IF IsFull(i) THEN 1 ELSE 0])
  IN  Header(c, "ethernet_conf_derived.h", OldNames(t))

-----------------------------------------------------------------------------
(* mii_queue.h and mii_full.h *)

mii_queue(u, conf) ==
  LET c == ethernet_conf_derived(u, conf)
  IN  Header(c, "mii_queue.h", Defaults(c.env, [NUM_MII_RX_BUF |-> 5, NUM_MII_TX_BUF |-> 5]))

\* The size of a low-priority pool is that of all pools, if that is given.
PoolDefaults(env) ==
  LET or4096(m) == IF env[m] = Undef THEN 4096 ELSE env[m]
  IN  [m \in {"ETHERNET_RX_BUFSIZE_LOW_PRIORITY", "ETHERNET_TX_BUFSIZE_LOW_PRIORITY"} \cup
             (IF IsSet(env, "ETHERNET_RX_HP_QUEUE")
              THEN {"ETHERNET_RX_BUFSIZE_HIGH_PRIORITY"} ELSE {}) \cup
             (IF IsSet(env, "ETHERNET_TX_HP_QUEUE")
              THEN {"ETHERNET_TX_BUFSIZE_HIGH_PRIORITY"} ELSE {}) |->
         CASE m = "ETHERNET_RX_BUFSIZE_LOW_PRIORITY" -> or4096("ETHERNET_RX_BUFSIZE")
           [] m = "ETHERNET_TX_BUFSIZE_LOW_PRIORITY" -> or4096("ETHERNET_TX_BUFSIZE")
           [] OTHER -> 2048]

PacketDefaults ==
  [m \in {"MAX_ETHERNET_PACKET_SIZE", "ETHERNET_MAX_TX_PACKET_SIZE",
          "ETHERNET_MAX_TX_HP_PACKET_SIZE", "ETHERNET_MAX_TX_LP_PACKET_SIZE"} |-> 1518]

mii_full(u, conf) ==
  LET c == ethernet_conf_derived(u, conf)
      n == Defaults(c.env, [NUM_ETHERNET_PORTS |-> 1, NUM_ETHERNET_MASTER_PORTS |-> 1])
      p == Defaults(Defaults(n, PacketDefaults), PoolDefaults(n))
  IN  mii_queue(Header(c, "mii_full.h", p), conf)

\* MAC_MAX_ENTRIES: the entries of a queue of time stamps.
MAC_MAX_ENTRIES(env) ==
  (IF env["NUM_MII_RX_BUF"] < env["NUM_MII_TX_BUF"]
   THEN env["NUM_MII_TX_BUF"] ELSE env["NUM_MII_RX_BUF"]) + 1

-----------------------------------------------------------------------------
(* ethernet_board_conf.h and ethernet_board_support.h *)

\* The ports of a slot, on its tile: the files of the two SliceKits have the
\* same ones.  A slice in the star or square slot has
\* the clock and data of the SMI on one port.
Slot(tile, rxclk, rxd, txd, rxdv, txen, txclk, smi, err) ==
  [tile |-> tile, rxclk |-> rxclk, rxd |-> rxd, txd |-> txd, rxdv |-> rxdv, txen |-> txen,
   txclk |-> txclk, smi |-> smi, err |-> err]

SlotPorts(s) ==
  CASE s = "STAR" -> Slot(0, "1B", "4A", "4B", "1C", "1F", "1G", {"4C"}, "4D")
    [] s = "TRIANGLE" -> Slot(0, "1J", "4E", "4F", "1K", "1L", "1I", {"1M", "1N"}, "1P")
    [] s = "SQUARE" -> Slot(1, "1B", "4A", "4B", "1C", "1F", "1G", {"4C"}, "4D")
    [] OTHER -> Slot(1, "1J", "4E", "4F", "1K", "1L", "1I", {"1M", "1N"}, "1P")

\* The guard that is misspelt on the other board.
Mut_BoardGuard_misspelt(board) == FALSE

\* #ifdef __ethernet_conf_h_exists__, which the L16's file misspells.
BoardGuard(board) == board # "L16"

ethernet_board_conf(u, conf, board) ==
  LET c == IF BoardGuard(board) THEN ethernet_conf(u, conf) ELSE u
  IN  Header(c, "ethernet_board_conf.h", [c.env EXCEPT !["PORTS"] = SlotPorts(c.env["SLOT"])])

ethernet_board_support(u, conf, board) ==
  LET b == ethernet_conf_derived(ethernet_board_conf(u, conf, board), conf)
  IN  Header(b, "ethernet_board_support.h", Defaults(b.env, [PORT_ETH_FAKE |-> "8C"]))

\* The fields of mii_interface_full_t, or mii_interface_lite_t, and what
\* ETHERNET_DEFAULT_MII_INIT puts into them, one by one.
mii_interface_t(env) ==
  <<"clk_mii_rx", "clk_mii_tx", "p_mii_rxclk", "p_mii_rxer", "p_mii_rxd", "p_mii_rxdv",
    "p_mii_txclk", "p_mii_txen", "p_mii_txd">> \o
  (IF IsFull(env) THEN <<>> ELSE <<"p_mii_timing">>)

ETHERNET_DEFAULT_MII_INIT(env) ==
  LET p == env["PORTS"]
  IN  <<"CLKBLK_1", "CLKBLK_2", p.rxclk, p.err, p.rxd, p.rxdv, p.txclk, p.txen, p.txd>> \o
      (IF IsFull(env) THEN <<>> ELSE <<env["PORT_ETH_FAKE"]>>)

-----------------------------------------------------------------------------
(* mii_packet_t, and the memory of a packet *)

\* The fields of the structure, a word each, before its data.
Fields == <<"length", "timestamp", "filter_result", "src_port", "timestamp_id", "stage",
            "tcount", "crc", "forwarding", "user_data">>

\* BUF_OFFSET_...: the words that the accessors in assembler use.
BUF_OFFSET ==
  [length |-> 0, timestamp |-> 1, filter_result |-> 2, src_port |-> 3, timestamp_id |-> 4,
   stage |-> 5, tcount |-> 6, crc |-> 7, forwarding |-> 8, user_data |-> 9]

BUF_DATA_OFFSET == 10

PacketDataWords(env) == (env["MAX_ETHERNET_PACKET_SIZE"] + 3) \div 4
MII_PACKET_HEADER_SIZE(env) ==
  4 * (Len(Fields) + PacketDataWords(env)) - PacketDataWords(env) * 4

SizeofInfo == 20  \* mempool_info_t
SizeofHdr == 8    \* malloc_hdr_t

\* No room but for the headers.
Mut_MIN_USAGE_headers(env) == MII_PACKET_HEADER_SIZE(env) + SizeofHdr

MIN_USAGE(env) == MII_PACKET_HEADER_SIZE(env) + SizeofHdr + 4 * 10

\* MII_MALLOC_FULL_PACKET_SIZE_LP and _HP.
FullPacketSize(env, hp) ==
  MII_PACKET_HEADER_SIZE(env) + 8 +
    env[IF hp THEN "ETHERNET_MAX_TX_HP_PACKET_SIZE" ELSE "ETHERNET_MAX_TX_LP_PACKET_SIZE"]

\* The byte of the packet that each accessor stores into, or loads, first.
\* Fields are stored by the assembler's offsets and loaded from the structure.
mii_packet_set(f) == 4 * BUF_OFFSET[f]
mii_packet_get(f) == 4 * ((CHOOSE k \in DOMAIN Fields : Fields[k] = f) - 1)
mii_packet_get_data_ptr == 4 * BUF_DATA_OFFSET
mii_packet_set_data_word(data, n) == data + 4 * n
mii_packet_set_data(n) == 4 * (n + BUF_DATA_OFFSET)

mii_packet_set_data_short(n) == 2 * (n + BUF_DATA_OFFSET * 2)
mii_packet_set_data_byte(n) == n + BUF_DATA_OFFSET * 4

=============================================================================
