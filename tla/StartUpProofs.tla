---------------------------- MODULE StartUpProofs ----------------------------
(***************************************************************************)
(* Whatever an application defines in its ethernet_conf.h, in whatever     *)
(* order it includes the headers and on whatever board, the MAC that it    *)
(* gets has the sizes, the pins, the pools and the queues that it asks     *)
(* for: the properties of StartUp for every configuration.                 *)
(***************************************************************************)
EXTENDS StartUp, SequenceTheorems, TLAPS

-----------------------------------------------------------------------------
(* The inductive invariant *)

\* Macros that the headers do not touch but for defaults.
Sizes == Macros \ {"PORTS", "PORT_ETH_FAKE", "ETHERNET_ENABLE_FULL_TIMINGS",
                   "ETHERNET_DEFAULT_IMPLEMENTATION"}

\* The macros of a unit that has ethernet_conf_derived.h are those of the conf c,
\* and with mii_full.h what c asks for.
UnitOf(u, c) ==
  /\ {"ethernet_conf.h", "ethernet_conf_derived.h"} \subseteq u.seen
  /\ u.env = [m \in Macros |-> u.env[m]]
  /\ "mii_full.h" \in u.seen <=> "mii_queue.h" \in u.seen
  /\ \A m \in Sizes :
       u.env[m] = IF "mii_full.h" \in u.seen THEN Asked(c, m) ELSE Given(c, m)
  /\ u.env["ETHERNET_DEFAULT_IMPLEMENTATION"] =
       GivenOr(c, "ETHERNET_DEFAULT_IMPLEMENTATION", "lite")

\* The order of the includes makes no difference to the sizes.
UnitInv ==
  /\ conf \in Confs
  /\ \/ unit = EmptyUnit /\ pc = "include"
     \/ /\ UnitOf(unit, conf)
        /\ "ethernet_board_conf.h" \in unit.seen <=> "ethernet_board_support.h" \in unit.seen
        /\ "ethernet_board_support.h" \notin unit.seen => env["PORT_ETH_FAKE"] = Undef
  /\ pc # "include" =>
       /\ "mii_full.h" \in unit.seen /\ IsFull(env) /\ (Ports = 1 \/ MasterPorts = 2)
       /\ (MasterPorts > 1 /\ TxHp) => (Ports > 1 /\ RxHp)

\* The pools that the loops of init_mii_mem have initialised after hp iterations
\* of the first one and lp of the second.
Pools(hp, lp) ==
  Hp("rx_hp", RxHp, 0 .. hp - 1) \cup Hp("tx_hp", TxHp, 0 .. hp - 1) \cup
  Lp("rx_lp", 0 .. lp - 1) \cup Lp("tx_lp", 0 .. lp - 1)

MemInv ==
  /\ pc \in {"include", "mem"} => i = 0 /\ DOMAIN ring = {} /\ tsQueues = {}
  /\ pc = "master" =>
       i \in 0 .. MasterPorts /\ DOMAIN ring = Pools(i, 0) /\ tsQueues = 0 .. i - 1
  /\ pc = "ports" =>
       i \in 0 .. Ports /\ DOMAIN ring = Pools(MasterPorts, i) /\ tsQueues = 0 .. MasterPorts - 1
  /\ pc = "par" => DOMAIN ring = Pools(MasterPorts, Ports) /\ tsQueues = 0 .. MasterPorts - 1
  /\ \A q \in DOMAIN ring : ring[q] = RingSize(env[SizeMacro[q[1]]])

ThreadInv ==
  /\ pc \in {"include", "mem", "master", "ports", "par"}
  /\ pc \in {"include", "mem"} \/ lock
  /\ threads \subseteq Threads /\ (pc # "par" => threads = {} /\ at = <<>>)
  /\ at # <<>> =>
       \E q \in DOMAIN ring : \E w \in 0 .. (ring[q] - MIN_USAGE(env)) \div 4 : at = <<q, 4 * w>>

StartInv == UnitInv /\ MemInv /\ ThreadInv

-----------------------------------------------------------------------------
(* The headers *)

\* What a macro is after a header of defaults.
LEMMA DefaultsAt ==
  ASSUME NEW e, NEW d, NEW m \in Macros
  PROVE  Defaults(e, d)[m] = IF e[m] = Undef /\ m \in DOMAIN d THEN d[m] ELSE e[m]
BY DEF Defaults

\* A function of the macros is one, whatever a header does.
LEMMA DefaultsFcn ==
  ASSUME NEW e, NEW d
  PROVE  Defaults(e, d) = [m \in Macros |-> Defaults(e, d)[m]]
BY DEF Defaults

\* The old names are macros, and none is the new name of another.
LEMMA MiiNames ==
  /\ DOMAIN MiiName \subseteq Sizes
  /\ \A m \in DOMAIN MiiName :
       MiiName[m] \in Sizes \ {"SLOT"} /\ MiiName[m] \notin DOMAIN MiiName
  /\ {"PORTS", "PORT_ETH_FAKE", "SLOT", "ETHERNET_DEFAULT_IMPLEMENTATION",
      "ETHERNET_ENABLE_FULL_TIMINGS"} \subseteq Macros \ DOMAIN MiiName
  /\ Sizes \subseteq Macros
BY DEF MiiName, Macros, Sizes

\* An application does not give a macro the value of one that is not defined.
LEMMA ConfDefined ==
  ASSUME NEW c \in Confs
  PROVE  /\ DOMAIN c \subseteq Macros \ {"PORTS", "PORT_ETH_FAKE"} /\ "SLOT" \in DOMAIN c
         /\ \A m \in DOMAIN c : c[m] # Undef
<1>1. ASSUME NEW m \in DOMAIN c  PROVE c[m] \in STRING \cup Int
  <2>1. c[m] \in STRING \/ c[m] \in {1, 2} \/ c[m] \in Nat
    BY ConfAssumption
  <2>2. QED  BY <2>1
<1>2. QED  BY <1>1, ConfAssumption

\* A unit that has at most ethernet_conf.h and the ports of the board.
Bare(u, c) ==
  /\ u.seen \cap {"ethernet_conf_derived.h", "ethernet_board_support.h", "mii_full.h",
                  "mii_queue.h"} = {}
  /\ u.env = [m \in Macros |-> u.env[m]]
  /\ \A m \in Macros \ {"PORTS"} :
       u.env[m] = IF "ethernet_conf.h" \in u.seen /\ m \in DOMAIN c THEN c[m] ELSE Undef

\* Once it is there, ethernet_conf_derived.h does nothing.
LEMMA DerivedAgain ==
  ASSUME NEW u, NEW c, {"ethernet_conf.h", "ethernet_conf_derived.h"} \subseteq u.seen
  PROVE  ethernet_conf_derived(u, c) = u
BY DEF ethernet_conf_derived, ethernet_conf, Header

\* ethernet_conf.h alone.
LEMMA ConfBare ==
  ASSUME NEW u, NEW c \in Confs, Bare(u, c)
  PROVE  LET b == ethernet_conf(u, c)
         IN  /\ Bare(b, c) /\ b.seen = u.seen \cup {"ethernet_conf.h"}
             /\ b.env["PORTS"] = u.env["PORTS"]
<1>1. CASE "ethernet_conf.h" \in u.seen
  BY <1>1 DEF ethernet_conf, Header
<1>2. CASE "ethernet_conf.h" \notin u.seen
  <2> DEFINE b == ethernet_conf(u, c)
  <2>1. b.seen = u.seen \cup {"ethernet_conf.h"} /\ b.env = Defaults(u.env, c)
    BY <1>2 DEF ethernet_conf, Header
  <2>2. \A m \in Macros : b.env[m] = IF u.env[m] = Undef /\ m \in DOMAIN c THEN c[m] ELSE u.env[m]
    BY <2>1, DefaultsAt
  <2>3. b.env = [m \in Macros |-> b.env[m]]
    BY <2>1, DefaultsFcn
  <2>4. b.env["PORTS"] = u.env["PORTS"]
    BY <2>2, ConfDefined, MiiNames
  <2>5. QED  BY <1>2, <2>1, <2>2, <2>3, <2>4 DEF Bare
<1>3. QED  BY <1>1, <1>2

\* ethernet_conf_derived.h gives the macros of the application their new names.
LEMMA DerivedBare ==
  ASSUME NEW u, NEW c \in Confs, Bare(u, c)
  PROVE  LET d == ethernet_conf_derived(u, c)
         IN  /\ UnitOf(d, c)
             /\ d.seen = u.seen \cup {"ethernet_conf.h", "ethernet_conf_derived.h"}
             /\ d.env["PORTS"] = u.env["PORTS"] /\ d.env["PORT_ETH_FAKE"] = Undef
<1>1. PICK b : b = ethernet_conf(u, c)
  OBVIOUS
<1>2. /\ Bare(b, c) /\ b.seen = u.seen \cup {"ethernet_conf.h"}
      /\ b.env["PORTS"] = u.env["PORTS"]
  BY <1>1, ConfBare
<1>3. PICK i0, t : /\ i0 = Defaults(b.env, [ETHERNET_DEFAULT_IMPLEMENTATION |-> "lite"])
                   /\ t = Defaults(i0, [ETHERNET_ENABLE_FULL_TIMINGS |->
                                          IF IsFull(i0) THEN 1 ELSE 0])
  OBVIOUS
<1>4. PICK d : d = ethernet_conf_derived(u, c)
  OBVIOUS
<1>5. d.seen = b.seen \cup {"ethernet_conf_derived.h"} /\ d.env = OldNames(t)
  BY <1>1, <1>2, <1>3, <1>4 DEF ethernet_conf_derived, Header, Bare
<1>6. \A m \in Macros :
        t[m] = IF m = "ETHERNET_DEFAULT_IMPLEMENTATION" /\ b.env[m] = Undef THEN "lite"
               ELSE IF m = "ETHERNET_ENABLE_FULL_TIMINGS" /\ b.env[m] = Undef
                    THEN t[m] ELSE b.env[m]
  <2>1. \A m \in Macros :
          i0[m] = IF m = "ETHERNET_DEFAULT_IMPLEMENTATION" /\ b.env[m] = Undef
                  THEN "lite" ELSE b.env[m]
    BY <1>3, DefaultsAt
  <2>2. \A m \in Macros : m # "ETHERNET_ENABLE_FULL_TIMINGS" => t[m] = i0[m]
    BY <1>3, DefaultsAt
  <2>3. \A m \in Macros : m = "ETHERNET_ENABLE_FULL_TIMINGS" /\ i0[m] # Undef => t[m] = i0[m]
    BY <1>3, DefaultsAt
  <2>4. QED  BY <2>1, <2>2, <2>3
<1>7. \A m \in Macros : d.env[m] = IF m \in DOMAIN MiiName /\ t[m] = Undef
                                   THEN t[MiiName[m]] ELSE t[m]
  BY <1>5 DEF OldNames
<1>8. d.env = [m \in Macros |-> d.env[m]]
  BY <1>5 DEF OldNames
<1>9. \A m \in Macros \ {"PORTS"} : b.env[m] = IF m \in DOMAIN c THEN c[m] ELSE Undef
  BY <1>2 DEF Bare
<1>10. ASSUME NEW m \in Sizes  PROVE d.env[m] = Given(c, m)
  <2>1. t[m] = b.env[m] /\ m \in Macros \ {"PORTS"}
    BY <1>6 DEF Sizes
  <2>2. m \in DOMAIN MiiName =>
          /\ t[MiiName[m]] = b.env[MiiName[m]] /\ MiiName[m] \in Macros \ {"PORTS"}
    BY <1>6, MiiNames DEF Sizes
  <2>3. QED  BY <1>7, <1>9, <2>1, <2>2, ConfDefined DEF Given
<1>11. /\ d.env["PORTS"] = b.env["PORTS"] /\ d.env["PORT_ETH_FAKE"] = Undef
       /\ d.env["ETHERNET_DEFAULT_IMPLEMENTATION"] =
            GivenOr(c, "ETHERNET_DEFAULT_IMPLEMENTATION", "lite")
  <2>1. d.env["PORTS"] = b.env["PORTS"] /\ d.env["PORT_ETH_FAKE"] = b.env["PORT_ETH_FAKE"]
    BY <1>6, <1>7, MiiNames
  <2>2. b.env["PORT_ETH_FAKE"] = Undef
    BY <1>9, MiiNames, ConfDefined
  <2>3. d.env["ETHERNET_DEFAULT_IMPLEMENTATION"] =
          IF b.env["ETHERNET_DEFAULT_IMPLEMENTATION"] = Undef
          THEN "lite" ELSE b.env["ETHERNET_DEFAULT_IMPLEMENTATION"]
    BY <1>6, <1>7, MiiNames
  <2>4. b.env["ETHERNET_DEFAULT_IMPLEMENTATION"] = Given(c, "ETHERNET_DEFAULT_IMPLEMENTATION")
    BY <1>9, MiiNames DEF Given
  <2>5. QED  BY <2>1, <2>2, <2>3, <2>4 DEF GivenOr
<1>12. "mii_full.h" \notin d.seen /\ "mii_queue.h" \notin d.seen
  BY <1>2, <1>5 DEF Bare
<1>13. UnitOf(d, c)
  BY <1>2, <1>5, <1>8, <1>10, <1>11, <1>12 DEF UnitOf
<1>14. QED  BY <1>2, <1>4, <1>5, <1>11, <1>13

\* The defaults for pools, from macros that are as the application gives them.
PoolAsked(c, m) ==
  CASE m = "ETHERNET_RX_BUFSIZE_LOW_PRIORITY" -> GivenOr(c, "ETHERNET_RX_BUFSIZE", 4096)
    [] m = "ETHERNET_TX_BUFSIZE_LOW_PRIORITY" -> GivenOr(c, "ETHERNET_TX_BUFSIZE", 4096)
    [] OTHER -> 2048

LEMMA PoolDefaultsAt ==
  ASSUME NEW n, NEW c,
         n["ETHERNET_RX_BUFSIZE"] = Given(c, "ETHERNET_RX_BUFSIZE"),
         n["ETHERNET_TX_BUFSIZE"] = Given(c, "ETHERNET_TX_BUFSIZE"),
         n["ETHERNET_RX_HP_QUEUE"] = Given(c, "ETHERNET_RX_HP_QUEUE"),
         n["ETHERNET_TX_HP_QUEUE"] = Given(c, "ETHERNET_TX_HP_QUEUE")
  PROVE  /\ \A m \in DOMAIN PoolDefaults(n) : PoolDefaults(n)[m] = PoolAsked(c, m)
         /\ DOMAIN PoolDefaults(n) =
              {"ETHERNET_RX_BUFSIZE_LOW_PRIORITY", "ETHERNET_TX_BUFSIZE_LOW_PRIORITY"} \cup
              (IF GivenOr(c, "ETHERNET_RX_HP_QUEUE", 0) # 0
               THEN {"ETHERNET_RX_BUFSIZE_HIGH_PRIORITY"} ELSE {}) \cup
              (IF GivenOr(c, "ETHERNET_TX_HP_QUEUE", 0) # 0
               THEN {"ETHERNET_TX_BUFSIZE_HIGH_PRIORITY"} ELSE {})
<1>1. /\ IsSet(n, "ETHERNET_RX_HP_QUEUE") <=> GivenOr(c, "ETHERNET_RX_HP_QUEUE", 0) # 0
      /\ IsSet(n, "ETHERNET_TX_HP_QUEUE") <=> GivenOr(c, "ETHERNET_TX_HP_QUEUE", 0) # 0
  BY DEF IsSet, GivenOr
<1>2. /\ DOMAIN PoolDefaults(n) =
           {"ETHERNET_RX_BUFSIZE_LOW_PRIORITY", "ETHERNET_TX_BUFSIZE_LOW_PRIORITY"} \cup
           (IF IsSet(n, "ETHERNET_RX_HP_QUEUE")
            THEN {"ETHERNET_RX_BUFSIZE_HIGH_PRIORITY"} ELSE {}) \cup
           (IF IsSet(n, "ETHERNET_TX_HP_QUEUE")
            THEN {"ETHERNET_TX_BUFSIZE_HIGH_PRIORITY"} ELSE {})
  BY DEF PoolDefaults
<1>3. ASSUME NEW m \in DOMAIN PoolDefaults(n)
      PROVE  PoolDefaults(n)[m] = PoolAsked(c, m)
  <2>1. PoolDefaults(n)[m] =
          CASE m = "ETHERNET_RX_BUFSIZE_LOW_PRIORITY" ->
                 IF n["ETHERNET_RX_BUFSIZE"] = Undef THEN 4096 ELSE n["ETHERNET_RX_BUFSIZE"]
            [] m = "ETHERNET_TX_BUFSIZE_LOW_PRIORITY" ->
                 IF n["ETHERNET_TX_BUFSIZE"] = Undef THEN 4096 ELSE n["ETHERNET_TX_BUFSIZE"]
            [] OTHER -> 2048
    BY <1>2 DEF PoolDefaults
  <2>2. QED  BY <2>1 DEF PoolAsked, GivenOr
<1>4. QED  BY <1>1, <1>2, <1>3

\* mii_full.h, with mii_queue.h, gives what is asked for.
LEMMA FullAsked ==
  ASSUME NEW u, NEW c \in Confs, UnitOf(u, c), "mii_full.h" \notin u.seen
  PROVE  LET f == mii_full(u, c)
         IN  /\ UnitOf(f, c)
             /\ f.seen = u.seen \cup {"mii_full.h", "mii_queue.h"}
             /\ f.env["PORTS"] = u.env["PORTS"]
             /\ f.env["PORT_ETH_FAKE"] = u.env["PORT_ETH_FAKE"]
<1>1. PICK n, k, p, q :
        /\ n = Defaults(u.env, [NUM_ETHERNET_PORTS |-> 1, NUM_ETHERNET_MASTER_PORTS |-> 1])
        /\ k = Defaults(n, PacketDefaults)
        /\ p = Defaults(k, PoolDefaults(n))
        /\ q = Defaults(p, [NUM_MII_RX_BUF |-> 5, NUM_MII_TX_BUF |-> 5])
  OBVIOUS
<1>2. /\ {"ethernet_conf.h", "ethernet_conf_derived.h"} \subseteq u.seen
      /\ "mii_queue.h" \notin u.seen /\ \A m \in Sizes : u.env[m] = Given(c, m)
  BY DEF UnitOf
<1>3. PICK f : f = mii_full(u, c)
  OBVIOUS
<1>4. f.seen = u.seen \cup {"mii_full.h", "mii_queue.h"} /\ f.env = q
  <2>1. PICK v : v = [seen |-> u.seen \cup {"mii_full.h"}, env |-> p]
    OBVIOUS
  <2>2. ethernet_conf_derived(u, c) = u /\ ethernet_conf_derived(v, c) = v
    BY <1>2, <2>1, DerivedAgain
  <2>3. f = mii_queue(v, c)
    BY <1>1, <1>3, <2>1, <2>2 DEF mii_full, Header
  <2>4. f = [seen |-> v.seen \cup {"mii_queue.h"}, env |-> q]
    BY <1>1, <1>2, <2>1, <2>2, <2>3 DEF mii_queue, Header
  <2>5. QED  BY <2>1, <2>4
<1>5. f.env = [m \in Macros |-> f.env[m]]
  BY <1>1, <1>4, DefaultsFcn
<1>6. /\ \A m \in Macros : n[m] = IF u.env[m] = Undef /\ m \in {"NUM_ETHERNET_PORTS", "NUM_ETHERNET_MASTER_PORTS"}
                              THEN 1 ELSE u.env[m]
      /\ \A m \in Macros : k[m] = IF n[m] = Undef /\ m \in DOMAIN PacketDefaults
                              THEN 1518 ELSE n[m]
      /\ \A m \in Macros : q[m] = IF p[m] = Undef /\ m \in {"NUM_MII_RX_BUF", "NUM_MII_TX_BUF"}
                              THEN 5 ELSE p[m]
  BY <1>1, DefaultsAt DEF PacketDefaults
<1>7. \A m \in Macros : p[m] = IF k[m] = Undef /\ m \in DOMAIN PoolDefaults(n)
                           THEN PoolDefaults(n)[m] ELSE k[m]
  BY <1>1, DefaultsAt
<1>8. PICK d : /\ d = DOMAIN PoolDefaults(n)
               /\ d \subseteq {"ETHERNET_RX_BUFSIZE_LOW_PRIORITY", "ETHERNET_TX_BUFSIZE_LOW_PRIORITY",
                               "ETHERNET_RX_BUFSIZE_HIGH_PRIORITY", "ETHERNET_TX_BUFSIZE_HIGH_PRIORITY"}
               /\ "ETHERNET_RX_BUFSIZE_LOW_PRIORITY" \in d /\ "ETHERNET_TX_BUFSIZE_LOW_PRIORITY" \in d
               /\ "ETHERNET_RX_BUFSIZE_HIGH_PRIORITY" \in d
                    <=> GivenOr(c, "ETHERNET_RX_HP_QUEUE", 0) # 0
               /\ "ETHERNET_TX_BUFSIZE_HIGH_PRIORITY" \in d
                    <=> GivenOr(c, "ETHERNET_TX_HP_QUEUE", 0) # 0
               /\ \A m \in d : PoolDefaults(n)[m] = PoolAsked(c, m)
  <2>1. /\ n["ETHERNET_RX_BUFSIZE"] = Given(c, "ETHERNET_RX_BUFSIZE")
        /\ n["ETHERNET_TX_BUFSIZE"] = Given(c, "ETHERNET_TX_BUFSIZE")
        /\ n["ETHERNET_RX_HP_QUEUE"] = Given(c, "ETHERNET_RX_HP_QUEUE")
        /\ n["ETHERNET_TX_HP_QUEUE"] = Given(c, "ETHERNET_TX_HP_QUEUE")
    BY <1>2, <1>6 DEF Sizes, Macros, MiiName
  <2>2. /\ \A m \in DOMAIN PoolDefaults(n) : PoolDefaults(n)[m] = PoolAsked(c, m)
        /\ DOMAIN PoolDefaults(n) =
             {"ETHERNET_RX_BUFSIZE_LOW_PRIORITY", "ETHERNET_TX_BUFSIZE_LOW_PRIORITY"} \cup
             (IF GivenOr(c, "ETHERNET_RX_HP_QUEUE", 0) # 0
              THEN {"ETHERNET_RX_BUFSIZE_HIGH_PRIORITY"} ELSE {}) \cup
             (IF GivenOr(c, "ETHERNET_TX_HP_QUEUE", 0) # 0
              THEN {"ETHERNET_TX_BUFSIZE_HIGH_PRIORITY"} ELSE {})
    BY <2>1, PoolDefaultsAt
  <2>3. QED  BY <2>2
<1>9. \A m \in Macros :
        q[m] = IF u.env[m] # Undef THEN u.env[m]
               ELSE IF m \in {"NUM_ETHERNET_PORTS", "NUM_ETHERNET_MASTER_PORTS"} THEN 1
               ELSE IF m \in DOMAIN PacketDefaults THEN 1518
               ELSE IF m \in d THEN PoolAsked(c, m)
               ELSE IF m \in {"NUM_MII_RX_BUF", "NUM_MII_TX_BUF"} THEN 5 ELSE Undef
  <2>1. 1 # Undef /\ 1518 # Undef /\ 5 # Undef
    BY ConfAssumption
  <2>2. QED  BY <1>6, <1>7, <1>8, <2>1 DEF PacketDefaults
<1>10. ASSUME NEW m \in Sizes  PROVE q[m] = Asked(c, m)
  <2>1. m \in Macros /\ u.env[m] = Given(c, m)
    BY <1>2, MiiNames
  <2>2. QED  BY <1>8, <1>9, <2>1 DEF Asked, GivenOr, PacketDefaults, SizeMacro, PoolAsked
<1>11. \A m \in {"PORTS", "PORT_ETH_FAKE", "ETHERNET_DEFAULT_IMPLEMENTATION"} :
         f.env[m] = u.env[m]
  BY <1>4, <1>8, <1>9, MiiNames DEF PacketDefaults
<1>12. UnitOf(f, c)
  BY <1>2, <1>4, <1>5, <1>10, <1>11 DEF UnitOf
<1>13. QED  BY <1>3, <1>4, <1>11, <1>12

\* The slot is what the application defines, before and after the defaults.
LEMMA SlotGiven ==
  ASSUME NEW u, NEW c \in Confs, UnitOf(u, c)
  PROVE  u.env["SLOT"] = c.SLOT
<1>1. "SLOT" \in Sizes /\ Given(c, "SLOT") = c.SLOT /\ Given(c, "SLOT") # Undef
  BY ConfDefined, MiiNames DEF Given, Sizes
<1>2. QED  BY <1>1 DEF UnitOf, Asked, GivenOr

\* ethernet_board_support.h: ethernet_conf.h comes before the ports, except on the
\* L16, and the rest of the macros are as they would be without it.
LEMMA BoardUnit ==
  ASSUME NEW u, NEW c \in Confs, NEW b,
         Bare(u, c) \/ (UnitOf(u, c) /\ u.env["PORT_ETH_FAKE"] = Undef),
         "ethernet_board_conf.h" \notin u.seen, "ethernet_board_support.h" \notin u.seen
  PROVE  LET s == ethernet_board_support(u, c, b)
         IN  /\ UnitOf(s, c) /\ s.env["PORT_ETH_FAKE"] = "8C"
             /\ {"ethernet_board_conf.h", "ethernet_board_support.h"} \subseteq s.seen
             /\ (b # "L16" \/ "ethernet_conf.h" \in u.seen) =>
                  s.env["PORTS"] = SlotPorts(c.SLOT)
<1>1. PICK k : k = IF BoardGuard(b) THEN ethernet_conf(u, c) ELSE u
  OBVIOUS
<1>2. PICK v : v = [seen |-> k.seen \cup {"ethernet_board_conf.h"},
                    env |-> [k.env EXCEPT !["PORTS"] = SlotPorts(k.env["SLOT"])]]
  OBVIOUS
<1>3. PICK d : d = ethernet_conf_derived(v, c)
  OBVIOUS
<1>4. PICK s : s = ethernet_board_support(u, c, b)
  OBVIOUS
<1>5. /\ Bare(k, c) \/ (UnitOf(k, c) /\ k.env["PORT_ETH_FAKE"] = Undef)
      /\ "ethernet_board_conf.h" \notin k.seen /\ "ethernet_board_support.h" \notin k.seen
      /\ (b # "L16" \/ "ethernet_conf.h" \in u.seen) => "ethernet_conf.h" \in k.seen
  <2>1. CASE Bare(u, c)
    BY <1>1, <2>1, ConfBare DEF BoardGuard
  <2>2. CASE UnitOf(u, c) /\ u.env["PORT_ETH_FAKE"] = Undef
    BY <1>1, <2>2 DEF UnitOf, ethernet_conf, Header
  <2>3. QED  BY <2>1, <2>2
<1>6. k.env = [m \in Macros |-> k.env[m]]
  BY <1>5 DEF Bare, UnitOf
<1>7. /\ \A m \in Macros : v.env[m] = IF m = "PORTS" THEN SlotPorts(k.env["SLOT"]) ELSE k.env[m]
      /\ v.env = [m \in Macros |-> v.env[m]]
      /\ v.seen = k.seen \cup {"ethernet_board_conf.h"}
  BY <1>2, <1>6, MiiNames
<1>8. "ethernet_conf.h" \in k.seen => k.env["SLOT"] = c.SLOT
  <2>1. CASE Bare(k, c)
    BY <2>1, ConfDefined, MiiNames DEF Bare
  <2>2. CASE UnitOf(k, c)
    BY <2>2, SlotGiven
  <2>3. QED  BY <1>5, <2>1, <2>2
<1>9. /\ UnitOf(d, c) /\ d.env["PORTS"] = v.env["PORTS"] /\ d.env["PORT_ETH_FAKE"] = Undef
      /\ d.seen = v.seen \cup {"ethernet_conf.h", "ethernet_conf_derived.h"}
  <2>1. CASE Bare(k, c)
    <3>1. Bare(v, c)
      BY <1>7, <2>1 DEF Bare
    <3>2. QED  BY <1>3, <3>1, DerivedBare
  <2>2. CASE UnitOf(k, c) /\ k.env["PORT_ETH_FAKE"] = Undef
    <3>1. UnitOf(v, c)
      BY <1>7, <2>2, MiiNames DEF UnitOf, Sizes
    <3>2. {"ethernet_conf.h", "ethernet_conf_derived.h"} \subseteq v.seen
      BY <3>1 DEF UnitOf
    <3>3. d = v
      BY <1>3, <3>2, DerivedAgain
    <3>4. QED  BY <1>7, <2>2, <3>1, <3>2, <3>3, MiiNames
  <2>3. QED  BY <1>5, <2>1, <2>2
<1>10. v = ethernet_board_conf(u, c, b)
  BY <1>1, <1>2, <1>5 DEF ethernet_board_conf, Header
<1>11. /\ s.seen = d.seen \cup {"ethernet_board_support.h"}
       /\ s.env = Defaults(d.env, [PORT_ETH_FAKE |-> "8C"])
  BY <1>3, <1>4, <1>5, <1>7, <1>9, <1>10 DEF ethernet_board_support, Header
<1>12. /\ \A m \in Macros : m # "PORT_ETH_FAKE" => s.env[m] = d.env[m]
       /\ s.env["PORT_ETH_FAKE"] = "8C" /\ s.env = [m \in Macros |-> s.env[m]]
  BY <1>9, <1>11, MiiNames, DefaultsAt, DefaultsFcn
<1>13. UnitOf(s, c)
  BY <1>9, <1>11, <1>12, MiiNames DEF UnitOf, Sizes
<1>14. QED  BY <1>4, <1>5, <1>7, <1>8, <1>9, <1>11, <1>12, <1>13, MiiNames

\* An empty unit has no macro.
LEMMA EmptyBare == ASSUME NEW c PROVE Bare(EmptyUnit, c)
BY DEF Bare, EmptyUnit

\* The last field of mii_interface_lite_t follows the nine of both.
LEMMA TenFields ==
  ASSUME NEW S, NEW x1 \in S, NEW x2 \in S, NEW x3 \in S, NEW x4 \in S, NEW x5 \in S,
         NEW x6 \in S, NEW x7 \in S, NEW x8 \in S, NEW x9 \in S, NEW x10 \in S, NEW s, s = <<x1, x2, x3, x4, x5, x6, x7, x8, x9>> \o <<x10>>
  PROVE  /\ DOMAIN s = 1 .. 10 /\ Len(s) = 10
         /\ s[1] = x1 /\ s[2] = x2 /\ s[3] = x3 /\ s[4] = x4 /\ s[5] = x5
         /\ s[6] = x6 /\ s[7] = x7 /\ s[8] = x8 /\ s[9] = x9 /\ s[10] = x10
<1>1. PICK t : t = <<x1, x2, x3, x4, x5, x6, x7, x8, x9>>
  OBVIOUS
<1>2. /\ t \in Seq(S) /\ Len(t) = 9
      /\ t[1] = x1 /\ t[2] = x2 /\ t[3] = x3 /\ t[4] = x4 /\ t[5] = x5
      /\ t[6] = x6 /\ t[7] = x7 /\ t[8] = x8 /\ t[9] = x9
  BY <1>1
<1>3. PICK u : u = <<x10>>
  OBVIOUS
<1>4. u \in Seq(S) /\ Len(u) = 1 /\ u[1] = x10
  BY <1>3
<1>5. s = t \o u
  BY <1>1, <1>3
<1>6. /\ t \o u \in Seq(S) /\ Len(t \o u) = Len(t) + Len(u)
      /\ \A k \in 1 .. Len(t) + Len(u) :
           (t \o u)[k] = IF k <= Len(t) THEN t[k] ELSE u[k - Len(t)]
  BY <1>2, <1>4, ConcatProperties
<1>7. s \in Seq(S) /\ Len(s) = 10
  BY <1>2, <1>4, <1>5, <1>6
<1>8. /\ \A k \in 1 .. 9 : s[k] = t[k]
      /\ s[10] = u[1]
  BY <1>2, <1>4, <1>5, <1>6
<1>9. QED  BY <1>2, <1>4, <1>7, <1>8

\* The FULL MAC and the LITE one get each port of a slot for its signal.
LEMMA Pins ==
  ASSUME NEW e, NEW s, e["PORTS"] = SlotPorts(s), e["PORT_ETH_FAKE"] = "8C"
  PROVE  PinsRight(e, s)
<1>1. PICK p : p = SlotPorts(s)
  OBVIOUS
<1>2. \/ p = [tile |-> p.tile, rxclk |-> "1B", rxd |-> "4A", txd |-> "4B", rxdv |-> "1C",
              txen |-> "1F", txclk |-> "1G", smi |-> {"4C"}, err |-> "4D"]
      \/ p = [tile |-> p.tile, rxclk |-> "1J", rxd |-> "4E", txd |-> "4F", rxdv |-> "1K",
              txen |-> "1L", txclk |-> "1I", smi |-> {"1M", "1N"}, err |-> "1P"]
  BY <1>1 DEF SlotPorts, Slot
<1>3. CASE IsFull(e)
  <2>1. ETHERNET_DEFAULT_MII_INIT(e) =
          <<"CLKBLK_1", "CLKBLK_2", p.rxclk, p.err, p.rxd, p.rxdv, p.txclk, p.txen, p.txd>>
    BY <1>1, <1>3 DEF ETHERNET_DEFAULT_MII_INIT
  <2>2. mii_interface_t(e) =
          <<"clk_mii_rx", "clk_mii_tx", "p_mii_rxclk", "p_mii_rxer", "p_mii_rxd",
            "p_mii_rxdv", "p_mii_txclk", "p_mii_txen", "p_mii_txd">>
    BY <1>3 DEF mii_interface_t
  <2>3. QED  BY <1>1, <1>2, <2>1, <2>2 DEF PinsRight, Signal
<1>4. CASE ~IsFull(e)
  <2>1. PICK f, g : f = mii_interface_t(e) /\ g = ETHERNET_DEFAULT_MII_INIT(e)
    OBVIOUS
  <2>2. /\ f = <<"clk_mii_rx", "clk_mii_tx", "p_mii_rxclk", "p_mii_rxer", "p_mii_rxd",
                 "p_mii_rxdv", "p_mii_txclk", "p_mii_txen", "p_mii_txd">> \o <<"p_mii_timing">>
        /\ g = <<"CLKBLK_1", "CLKBLK_2", p.rxclk, p.err, p.rxd, p.rxdv, p.txclk, p.txen,
                 p.txd>> \o <<"8C">>
    BY <1>1, <1>4, <2>1 DEF mii_interface_t, ETHERNET_DEFAULT_MII_INIT
  <2>3. /\ DOMAIN f = 1 .. 10 /\ Len(f) = 10
        /\ f[1] = "clk_mii_rx" /\ f[2] = "clk_mii_tx" /\ f[3] = "p_mii_rxclk"
        /\ f[4] = "p_mii_rxer" /\ f[5] = "p_mii_rxd" /\ f[6] = "p_mii_rxdv"
        /\ f[7] = "p_mii_txclk" /\ f[8] = "p_mii_txen" /\ f[9] = "p_mii_txd"
        /\ f[10] = "p_mii_timing"
    BY <2>2, TenFields
  <2>4. /\ DOMAIN g = 1 .. 10 /\ Len(g) = 10
        /\ g[1] = "CLKBLK_1" /\ g[2] = "CLKBLK_2" /\ g[3] = p.rxclk /\ g[4] = p.err
        /\ g[5] = p.rxd /\ g[6] = p.rxdv /\ g[7] = p.txclk /\ g[8] = p.txen /\ g[9] = p.txd
        /\ g[10] = "8C"
    <3>1. PICK S : S = {"CLKBLK_1", "CLKBLK_2", p.rxclk, p.err, p.rxd, p.rxdv, p.txclk,
                        p.txen, p.txd, "8C"}
      OBVIOUS
    <3>2. QED  BY <2>2, <3>1, TenFields
  <2>5. \A k \in DOMAIN f : f[k] \in DOMAIN Signal => g[k] = p[Signal[f[k]]]
    BY <2>3, <2>4 DEF Signal
  <2>6. \A k \in 1 .. 10 : g[k] \notin p.smi
    BY <1>2, <2>4
  <2>7. \A j, k \in 1 .. 10 : j # k => g[j] # g[k]
    BY <1>2, <2>4
  <2>8. QED  BY <1>1, <2>1, <2>3, <2>4, <2>5, <2>6, <2>7 DEF PinsRight
<1>5. QED  BY <1>3, <1>4

-----------------------------------------------------------------------------
(* What is asked for *)

LEMMA AskedType ==
  ASSUME NEW c \in Confs
  PROVE  /\ \A m \in {"NUM_ETHERNET_PORTS", "NUM_ETHERNET_MASTER_PORTS"} : Asked(c, m) \in {1, 2}
         /\ \A m \in {"NUM_MII_RX_BUF", "NUM_MII_TX_BUF"} \cup DOMAIN PacketDefaults :
              Asked(c, m) \in Nat
         /\ \A k \in Kinds(c) : Asked(c, SizeMacro[k]) \in Nat
         /\ \A m \in {"ETHERNET_RX_HP_QUEUE", "ETHERNET_TX_HP_QUEUE"} : Asked(c, m) = Given(c, m)
         /\ Undef \notin Int \cup STRING
<1>1. PICK P, N : /\ P = {"NUM_ETHERNET_PORTS", "NUM_ETHERNET_MASTER_PORTS"}
                  /\ N = Sizes \ (P \cup {"SLOT"})
  OBVIOUS
<1>2. /\ \A m \in DOMAIN c : m \in P => c[m] \in {1, 2}
      /\ \A m \in DOMAIN c : m \in N => c[m] \in Nat
  BY <1>1, ConfAssumption DEF Sizes
<1>3. ASSUME NEW m \in N  PROVE Given(c, m) \in Nat \cup {Undef}
  <2>1. m \in DOMAIN MiiName => MiiName[m] \in N
    BY <1>1, MiiNames DEF MiiName
  <2>2. QED  BY <1>2, <2>1 DEF Given
<1>4. ASSUME NEW m \in P  PROVE Given(c, m) \in {1, 2, Undef}
  <2>1. m \notin DOMAIN MiiName
    BY <1>1 DEF MiiName
  <2>2. QED  BY <1>2, <2>1 DEF Given
<1>5. /\ {"NUM_MII_RX_BUF", "NUM_MII_TX_BUF", "ETHERNET_RX_HP_QUEUE", "ETHERNET_TX_HP_QUEUE",
          "ETHERNET_RX_BUFSIZE", "ETHERNET_TX_BUFSIZE"} \subseteq N
      /\ DOMAIN PacketDefaults \subseteq N
      /\ DOMAIN SizeMacro = {"rx_lp", "tx_lp", "rx_hp", "tx_hp"}
      /\ \A k \in DOMAIN SizeMacro : SizeMacro[k] \in N
  BY <1>1, MiiNames DEF Sizes, Macros, MiiName, PacketDefaults, SizeMacro
<1>6. ASSUME NEW m \in P  PROVE Asked(c, m) \in {1, 2}
  <2>1. Asked(c, m) = GivenOr(c, m, 1)
    BY <1>1 DEF Asked, GivenOr, PacketDefaults, SizeMacro
  <2>2. QED  BY <1>4, <2>1 DEF GivenOr
<1>7. \A m \in {"NUM_MII_RX_BUF", "NUM_MII_TX_BUF"} : Asked(c, m) \in Nat
  BY <1>3, <1>5 DEF Asked, GivenOr, PacketDefaults
<1>8. \A m \in DOMAIN PacketDefaults : Asked(c, m) \in Nat
  BY <1>3, <1>5 DEF Asked, GivenOr
<1>9. ASSUME NEW k \in Kinds(c)  PROVE Asked(c, SizeMacro[k]) \in Nat
  <2>1. k \in DOMAIN SizeMacro /\ Given(c, SizeMacro[k]) \in Nat \cup {Undef}
    BY <1>3, <1>5 DEF Kinds
  <2>2. /\ GivenOr(c, "ETHERNET_RX_BUFSIZE", 4096) \in Nat
        /\ GivenOr(c, "ETHERNET_TX_BUFSIZE", 4096) \in Nat
    BY <1>3, <1>5 DEF GivenOr
  <2>3. \/ k = "rx_lp" \/ k = "tx_lp"
        \/ k = "rx_hp" /\ GivenOr(c, "ETHERNET_RX_HP_QUEUE", 0) # 0
        \/ k = "tx_hp" /\ GivenOr(c, "ETHERNET_TX_HP_QUEUE", 0) # 0
    BY DEF Kinds
  <2>4. PICK d \in Nat : Asked(c, SizeMacro[k]) = GivenOr(c, SizeMacro[k], d)
    BY <2>2, <2>3 DEF Asked, SizeMacro, PacketDefaults
  <2>5. QED  BY <2>1, <2>4 DEF GivenOr
<1>10. \A m \in {"ETHERNET_RX_HP_QUEUE", "ETHERNET_TX_HP_QUEUE"} : Asked(c, m) = Given(c, m)
  BY DEF Asked, GivenOr, PacketDefaults, SizeMacro
<1>11. QED  BY <1>1, <1>6, <1>7, <1>8, <1>9, <1>10, ConfAssumption

\* What the macros of the server's build are.
LEMMA Built ==
  ASSUME UnitInv, pc # "include"
  PROVE  /\ conf \in Confs /\ UnitOf(unit, conf)
         /\ \A m \in Sizes : env[m] = Asked(conf, m)
         /\ Ports \in {1, 2} /\ MasterPorts \in {1, 2} /\ (Ports = 1 \/ MasterPorts = 2)
         /\ (MasterPorts > 1 /\ TxHp) => (Ports > 1 /\ RxHp)
         /\ RxHp <=> "rx_hp" \in Kinds(conf)
         /\ TxHp <=> "tx_hp" \in Kinds(conf)
         /\ Given(conf, "ETHERNET_DEFAULT_IMPLEMENTATION") = "full"
<1>1. /\ conf \in Confs /\ UnitOf(unit, conf) /\ IsFull(env)
      /\ \A m \in Sizes : env[m] = Asked(conf, m)
      /\ (Ports = 1 \/ MasterPorts = 2)
      /\ (MasterPorts > 1 /\ TxHp) => (Ports > 1 /\ RxHp)
  BY DEF UnitInv, UnitOf, env
<1>2. {"NUM_ETHERNET_PORTS", "NUM_ETHERNET_MASTER_PORTS", "ETHERNET_RX_HP_QUEUE",
       "ETHERNET_TX_HP_QUEUE"} \subseteq Sizes
  BY DEF Sizes, Macros
<1>3. Ports \in {1, 2} /\ MasterPorts \in {1, 2}
  BY <1>1, <1>2, AskedType DEF Ports, MasterPorts
<1>4. /\ env["ETHERNET_RX_HP_QUEUE"] = Given(conf, "ETHERNET_RX_HP_QUEUE")
      /\ env["ETHERNET_TX_HP_QUEUE"] = Given(conf, "ETHERNET_TX_HP_QUEUE")
      /\ Undef # 0
  BY <1>1, <1>2, AskedType
<1>5. (RxHp <=> "rx_hp" \in Kinds(conf)) /\ (TxHp <=> "tx_hp" \in Kinds(conf))
  BY <1>4 DEF RxHp, TxHp, IsSet, Kinds, GivenOr
<1>6. Given(conf, "ETHERNET_DEFAULT_IMPLEMENTATION") = "full"
  BY <1>1 DEF UnitOf, IsFull, GivenOr, env
<1>7. QED  BY <1>1, <1>3, <1>5, <1>6

-----------------------------------------------------------------------------
(* The build *)

LEMMA IncludeEthernetInv ==
  ASSUME UnitInv, IncludeEthernet  PROVE UnitInv'
<1>1. /\ conf' = conf /\ pc' = pc /\ pc = "include" /\ conf \in Confs
      /\ unit' = ethernet_conf_derived(unit, conf) /\ unit = EmptyUnit
  BY DEF UnitInv, UnitOf, IncludeEthernet
<1>2. /\ UnitOf(unit', conf) /\ unit'.env["PORT_ETH_FAKE"] = Undef
      /\ unit'.seen = {"ethernet_conf.h", "ethernet_conf_derived.h"}
  <2>1. Bare(unit, conf) /\ unit.seen = {}
    BY <1>1, EmptyBare DEF EmptyUnit
  <2>2. QED  BY <1>1, <2>1, DerivedBare
<1>3. QED  BY <1>1, <1>2 DEF UnitInv, env

LEMMA IncludeMiiFullInv ==
  ASSUME UnitInv, IncludeMiiFull  PROVE UnitInv'
<1>1. /\ conf' = conf /\ pc' = pc /\ pc = "include" /\ conf \in Confs
      /\ unit' = mii_full(unit, conf) /\ "mii_full.h" \notin unit.seen
  BY DEF UnitInv, IncludeMiiFull
<1>2. CASE unit = EmptyUnit
  <2>1. PICK d : d = ethernet_conf_derived(unit, conf)
    OBVIOUS
  <2>2. /\ UnitOf(d, conf) /\ d.env["PORT_ETH_FAKE"] = Undef
        /\ d.seen = {"ethernet_conf.h", "ethernet_conf_derived.h"}
    <3>1. Bare(unit, conf) /\ unit.seen = {}
      BY <1>2, EmptyBare DEF EmptyUnit
    <3>2. QED  BY <1>1, <2>1, <3>1, DerivedBare
  <2>3. mii_full(unit, conf) = mii_full(d, conf)
    <3>1. ethernet_conf_derived(d, conf) = d
      BY <2>2, DerivedAgain
    <3>2. QED  BY <2>1, <3>1 DEF mii_full
  <2>4. /\ UnitOf(unit', conf) /\ unit'.env["PORT_ETH_FAKE"] = Undef
        /\ unit'.seen = d.seen \cup {"mii_full.h", "mii_queue.h"}
    BY <1>1, <2>2, <2>3, FullAsked
  <2>5. QED  BY <1>1, <2>2, <2>4 DEF UnitInv, env
<1>3. CASE unit # EmptyUnit
  <2>1. /\ UnitOf(unit, conf)
        /\ "ethernet_board_conf.h" \in unit.seen <=> "ethernet_board_support.h" \in unit.seen
        /\ "ethernet_board_support.h" \notin unit.seen => unit.env["PORT_ETH_FAKE"] = Undef
    BY <1>3 DEF UnitInv, env
  <2>2. /\ UnitOf(unit', conf) /\ unit'.env["PORT_ETH_FAKE"] = unit.env["PORT_ETH_FAKE"]
        /\ unit'.seen = unit.seen \cup {"mii_full.h", "mii_queue.h"}
    BY <1>1, <2>1, FullAsked
  <2>3. QED  BY <1>1, <2>1, <2>2 DEF UnitInv, env
<1>4. QED  BY <1>2, <1>3

\* With the ports of the slot.
LEMMA IncludeBoardInv ==
  ASSUME UnitInv, IncludeBoardSupport
  PROVE  /\ UnitInv'
         /\ unit'.env["PORT_ETH_FAKE"] = "8C"
         /\ (board # "L16" \/ "ethernet_conf.h" \in unit.seen) =>
              unit'.env["PORTS"] = SlotPorts(conf.SLOT)
<1>1. /\ conf' = conf /\ pc' = pc /\ pc = "include" /\ conf \in Confs
      /\ unit' = ethernet_board_support(unit, conf, board)
      /\ "ethernet_board_support.h" \notin unit.seen
  BY DEF UnitInv, IncludeBoardSupport
<1>2. /\ Bare(unit, conf) \/ (UnitOf(unit, conf) /\ unit.env["PORT_ETH_FAKE"] = Undef)
      /\ "ethernet_board_conf.h" \notin unit.seen
  <2>1. CASE unit = EmptyUnit
    BY <2>1, EmptyBare DEF EmptyUnit
  <2>2. CASE unit # EmptyUnit
    BY <1>1, <2>2 DEF UnitInv, env
  <2>3. QED  BY <2>1, <2>2
<1>3. /\ UnitOf(unit', conf) /\ unit'.env["PORT_ETH_FAKE"] = "8C"
      /\ {"ethernet_board_conf.h", "ethernet_board_support.h"} \subseteq unit'.seen
      /\ (board # "L16" \/ "ethernet_conf.h" \in unit.seen) =>
           unit'.env["PORTS"] = SlotPorts(conf.SLOT)
  BY <1>1, <1>2, BoardUnit
<1>4. UnitInv'
  BY <1>1, <1>3 DEF UnitInv, env
<1>5. QED  BY <1>3, <1>4

LEMMA BuildInv ==
  ASSUME UnitInv, Build  PROVE UnitInv'
<1>1. /\ UNCHANGED <<conf, unit>> /\ "mii_full.h" \in unit.seen
      /\ IsFull(env) /\ (Ports = 1 \/ MasterPorts = 2)
      /\ (MasterPorts > 1 /\ TxHp) => (Ports > 1 /\ RxHp)
  BY DEF Build
<1>2. unit # EmptyUnit
  BY <1>1 DEF EmptyUnit
<1>3. QED  BY <1>1, <1>2 DEF UnitInv, env, Ports, MasterPorts, RxHp, TxHp

-----------------------------------------------------------------------------
(* init_mii_mem and the threads *)

\* A pool is that of a port that an iteration of a loop has been for.
LEMMA PoolIn ==
  ASSUME NEW hp, NEW lp, NEW q
  PROVE  q \in Pools(hp, lp) <=>
           \/ RxHp /\ \E n \in 0 .. hp - 1 : q = <<"rx_hp", n>>
           \/ TxHp /\ \E n \in 0 .. hp - 1 : q = <<"tx_hp", n>>
           \/ \E n \in 0 .. lp - 1 : q = <<"rx_lp", n>> \/ q = <<"tx_lp", n>>
BY DEF Pools, Hp, Lp

\* The pools' sizes are what the arrays that they are made of have.
LEMMA InitialisedMem ==
  ASSUME NEW p, ring' = Initialised(p), unit' = unit,
         \A q \in DOMAIN ring : ring[q] = RingSize(env[SizeMacro[q[1]]])
  PROVE  /\ DOMAIN ring' = DOMAIN ring \cup p
         /\ \A q \in DOMAIN ring' : ring'[q] = RingSize(env'[SizeMacro[q[1]]])
BY DEF Initialised, env

LEMMA MasterPortInv ==
  ASSUME StartInv, InitMasterPort  PROVE StartInv'
<1>1. /\ pc = "master" /\ UNCHANGED <<conf, board, unit, lock, threads, at>>
      /\ i \in 0 .. MasterPorts /\ DOMAIN ring = Pools(i, 0) /\ tsQueues = 0 .. i - 1
      /\ \A q \in DOMAIN ring : ring[q] = RingSize(env[SizeMacro[q[1]]])
      /\ threads = {} /\ at = <<>> /\ lock
  BY DEF InitMasterPort, StartInv, MemInv, ThreadInv
<1>2. /\ env' = env /\ Ports' = Ports /\ MasterPorts' = MasterPorts
      /\ RxHp' = RxHp /\ TxHp' = TxHp
  BY <1>1 DEF env, Ports, MasterPorts, RxHp, TxHp
<1>3. Ports \in {1, 2} /\ MasterPorts \in {1, 2}
  BY <1>1, Built DEF StartInv
<1>4. UnitInv'
  <2>1. pc' \in {"master", "ports"}
    BY <1>1 DEF InitMasterPort
  <2>2. QED  BY <1>1, <1>2, <2>1 DEF StartInv, UnitInv
<1>5. CASE i < MasterPorts
  <2>1. PICK p : p = (IF RxHp THEN {<<"rx_hp", i>>} ELSE {}) \cup
                     (IF TxHp THEN {<<"tx_hp", i>>} ELSE {})
    OBVIOUS
  <2>2. /\ ring' = Initialised(p) /\ tsQueues' = tsQueues \cup {i} /\ i' = i + 1
        /\ pc' = "master"
    BY <1>1, <1>5, <2>1 DEF InitMasterPort
  <2>3. /\ DOMAIN ring' = DOMAIN ring \cup p
        /\ \A q \in DOMAIN ring' : ring'[q] = RingSize(env'[SizeMacro[q[1]]])
    BY <1>1, <2>2, InitialisedMem
  <2>4. Pools(i, 0) \cup p = Pools(i + 1, 0)
    <3>1. \A n : n \in 0 .. (i + 1) - 1 <=> n \in 0 .. i - 1 \/ n = i
      BY <1>1, <1>3
    <3>2. ASSUME NEW q  PROVE q \in Pools(i, 0) \cup p <=> q \in Pools(i + 1, 0)
      BY <2>1, <3>1, PoolIn
    <3>3. QED  BY <3>2
  <2>5. Pools(i + 1, 0) = Pools(i, 0)'
    BY <1>2, <2>2 DEF Pools
  <2>6. tsQueues' = 0 .. i' - 1 /\ i' \in 0 .. MasterPorts'
    BY <1>1, <1>2, <1>3, <1>5, <2>2
  <2>7. MemInv'
    BY <1>1, <2>2, <2>3, <2>4, <2>5, <2>6 DEF MemInv
  <2>8. ThreadInv'
    BY <1>1, <2>2 DEF ThreadInv
  <2>9. QED  BY <1>4, <2>7, <2>8 DEF StartInv
<1>6. CASE ~(i < MasterPorts)
  <2>1. pc' = "ports" /\ i' = 0 /\ UNCHANGED <<ring, tsQueues>> /\ i = MasterPorts
    BY <1>1, <1>3, <1>6 DEF InitMasterPort
  <2>2. Pools(MasterPorts, 0)' = Pools(MasterPorts, 0)
    BY <1>2 DEF Pools
  <2>3. MemInv'
    BY <1>1, <1>2, <1>3, <2>1, <2>2 DEF MemInv
  <2>4. ThreadInv'
    BY <1>1, <2>1 DEF ThreadInv
  <2>5. QED  BY <1>4, <2>3, <2>4 DEF StartInv
<1>7. QED  BY <1>5, <1>6

LEMMA PortInv ==
  ASSUME StartInv, InitPort  PROVE StartInv'
<1>1. /\ pc = "ports" /\ UNCHANGED <<conf, board, unit, tsQueues, lock, threads, at>>
      /\ i \in 0 .. Ports /\ DOMAIN ring = Pools(MasterPorts, i)
      /\ tsQueues = 0 .. MasterPorts - 1
      /\ \A q \in DOMAIN ring : ring[q] = RingSize(env[SizeMacro[q[1]]])
      /\ threads = {} /\ at = <<>> /\ lock
  BY DEF InitPort, StartInv, MemInv, ThreadInv
<1>2. /\ env' = env /\ Ports' = Ports /\ MasterPorts' = MasterPorts
      /\ RxHp' = RxHp /\ TxHp' = TxHp
  BY <1>1 DEF env, Ports, MasterPorts, RxHp, TxHp
<1>3. Ports \in {1, 2} /\ MasterPorts \in {1, 2}
  BY <1>1, Built DEF StartInv
<1>4. UnitInv'
  <2>1. pc' \in {"ports", "par"}
    BY <1>1 DEF InitPort
  <2>2. QED  BY <1>1, <1>2, <2>1 DEF StartInv, UnitInv
<1>5. CASE i < Ports
  <2>1. PICK p : p = {<<"rx_lp", i>>, <<"tx_lp", i>>}
    OBVIOUS
  <2>2. ring' = Initialised(p) /\ i' = i + 1 /\ pc' = "ports"
    BY <1>1, <1>5, <2>1 DEF InitPort, LpPorts
  <2>3. /\ DOMAIN ring' = DOMAIN ring \cup p
        /\ \A q \in DOMAIN ring' : ring'[q] = RingSize(env'[SizeMacro[q[1]]])
    BY <1>1, <2>2, InitialisedMem
  <2>4. Pools(MasterPorts, i) \cup p = Pools(MasterPorts, i + 1)
    <3>1. \A n : n \in 0 .. (i + 1) - 1 <=> n \in 0 .. i - 1 \/ n = i
      BY <1>1, <1>3
    <3>2. ASSUME NEW q
          PROVE  q \in Pools(MasterPorts, i) \cup p <=> q \in Pools(MasterPorts, i + 1)
      BY <2>1, <3>1, PoolIn
    <3>3. QED  BY <3>2
  <2>5. Pools(MasterPorts, i + 1) = Pools(MasterPorts, i)'
    BY <1>2, <2>2 DEF Pools
  <2>6. i' \in 0 .. Ports'
    BY <1>1, <1>2, <1>3, <1>5, <2>2
  <2>7. MemInv'
    BY <1>1, <1>2, <2>2, <2>3, <2>4, <2>5, <2>6 DEF MemInv
  <2>8. ThreadInv'
    BY <1>1, <2>2 DEF ThreadInv
  <2>9. QED  BY <1>4, <2>7, <2>8 DEF StartInv
<1>6. CASE ~(i < Ports)
  <2>1. pc' = "par" /\ i' = 0 /\ UNCHANGED ring /\ i = Ports
    BY <1>1, <1>3, <1>6 DEF InitPort, LpPorts
  <2>2. Pools(MasterPorts, Ports)' = Pools(MasterPorts, Ports)
    BY <1>2 DEF Pools
  <2>3. MemInv'
    BY <1>1, <1>2, <2>1, <2>2 DEF MemInv
  <2>4. ThreadInv'
    BY <1>1, <2>1 DEF ThreadInv
  <2>5. QED  BY <1>4, <2>3, <2>4 DEF StartInv
<1>7. QED  BY <1>5, <1>6

\* The steps before and after leave the memory alone.
LEMMA MemUnchanged ==
  ASSUME MemInv, UNCHANGED <<i, ring, tsQueues, unit>>, pc' = pc
  PROVE  MemInv'
<1>1. /\ env' = env /\ Ports' = Ports /\ MasterPorts' = MasterPorts
      /\ RxHp' = RxHp /\ TxHp' = TxHp
  BY DEF env, Ports, MasterPorts, RxHp, TxHp
<1>2. /\ Pools(i, 0)' = Pools(i, 0) /\ Pools(MasterPorts, i)' = Pools(MasterPorts, i)
      /\ Pools(MasterPorts, Ports)' = Pools(MasterPorts, Ports)
  BY <1>1 DEF Pools
<1>3. QED  BY <1>1, <1>2 DEF MemInv

LEMMA StartInit == Init => StartInv
<1> SUFFICES ASSUME Init PROVE StartInv
  OBVIOUS
<1>1. UnitInv
  BY DEF Init, UnitInv
<1>2. MemInv /\ ThreadInv
  BY DEF Init, MemInv, ThreadInv
<1>3. QED  BY <1>1, <1>2 DEF StartInv

LEMMA StartNext == StartInv /\ [Next]_vars => StartInv'
<1> SUFFICES ASSUME StartInv, [Next]_vars PROVE StartInv'
  OBVIOUS
<1>0. UnitInv /\ MemInv /\ ThreadInv
  BY DEF StartInv
<1>1. CASE IncludeEthernet \/ IncludeBoardSupport \/ IncludeMiiFull
  <2>1. UnitInv'
    BY <1>0, <1>1, IncludeEthernetInv, IncludeBoardInv, IncludeMiiFullInv
  <2>2. pc = "include" /\ pc' = pc /\ UNCHANGED <<i, ring, tsQueues, lock, threads, at>>
    BY <1>1 DEF IncludeEthernet, IncludeBoardSupport, IncludeMiiFull, memVars
  <2>3. MemInv'
    BY <1>0, <2>2 DEF MemInv
  <2>4. ThreadInv'
    BY <1>0, <2>2 DEF ThreadInv
  <2>5. QED  BY <2>1, <2>3, <2>4 DEF StartInv
<1>2. CASE Build
  <2>1. UnitInv'
    BY <1>0, <1>2, BuildInv
  <2>2. pc = "include" /\ pc' = "mem" /\ UNCHANGED <<i, ring, tsQueues, lock, threads, at>>
    BY <1>2 DEF Build, memVars
  <2>3. MemInv'
    BY <1>0, <2>2 DEF MemInv
  <2>4. ThreadInv'
    BY <1>0, <2>2 DEF ThreadInv
  <2>5. QED  BY <2>1, <2>3, <2>4 DEF StartInv
<1>3. CASE hwlock_alloc
  <2>1. /\ pc = "mem" /\ pc' = "master" /\ lock'
        /\ UNCHANGED <<conf, board, unit, i, ring, tsQueues, threads, at>>
    BY <1>3 DEF hwlock_alloc
  <2>2. env' = env /\ MasterPorts' = MasterPorts /\ MasterPorts \in {1, 2}
    BY <1>0, <2>1, Built DEF env, MasterPorts
  <2>3. UnitInv'
    BY <1>0, <2>1 DEF UnitInv, env, Ports, MasterPorts, RxHp, TxHp
  <2>4. MemInv'
    <3>1. i' = 0 /\ DOMAIN ring' = {} /\ tsQueues' = {}
      BY <1>0, <2>1 DEF MemInv
    <3>2. ASSUME NEW q  PROVE q \notin Pools(0, 0)
      BY PoolIn
    <3>3. Pools(0, 0)' = Pools(0, 0)
      BY <2>1 DEF Pools, RxHp, TxHp, env
    <3>4. Pools(i, 0)' = {}
      BY <3>1, <3>2, <3>3
    <3>5. 0 .. i' - 1 = {} /\ i' \in 0 .. MasterPorts'
      BY <2>2, <3>1
    <3>6. QED  BY <2>1, <3>1, <3>4, <3>5 DEF MemInv
  <2>5. ThreadInv'
    BY <1>0, <2>1 DEF ThreadInv
  <2>6. QED  BY <2>3, <2>4, <2>5 DEF StartInv
<1>4. CASE InitMasterPort
  BY <1>4, MasterPortInv
<1>5. CASE InitPort
  BY <1>5, PortInv
<1>6. CASE StartThread
  <2>1. /\ pc = "par" /\ UNCHANGED <<pc, conf, board, unit, i, ring, tsQueues, lock, at>>
        /\ threads' \subseteq threads \cup Threads
    BY <1>6 DEF StartThread
  <2>2. UnitInv'
    BY <1>0, <2>1 DEF UnitInv, env, Ports, MasterPorts, RxHp, TxHp
  <2>3. MemInv'
    BY <1>0, <2>1, MemUnchanged
  <2>4. Threads' = Threads /\ MIN_USAGE(env)' = MIN_USAGE(env)
    BY <2>1 DEF Threads, IfNums, Ports, env
  <2>5. ThreadInv'
    BY <1>0, <2>1, <2>4 DEF ThreadInv
  <2>6. QED  BY <2>2, <2>3, <2>5 DEF StartInv
<1>7. CASE UsePacket
  <2>1. /\ pc = "par" /\ UNCHANGED <<pc, conf, board, unit, i, ring, tsQueues, lock, threads>>
        /\ \E q \in DOMAIN ring : \E w \in 0 .. (ring[q] - MIN_USAGE(env)) \div 4 :
             at' = <<q, 4 * w>>
    BY <1>7 DEF UsePacket
  <2>2. UnitInv'
    BY <1>0, <2>1 DEF UnitInv, env, Ports, MasterPorts, RxHp, TxHp
  <2>3. MemInv'
    BY <1>0, <2>1, MemUnchanged
  <2>4. Threads' = Threads /\ MIN_USAGE(env)' = MIN_USAGE(env)
    BY <2>1 DEF Threads, IfNums, Ports, env
  <2>5. ThreadInv'
    BY <1>0, <2>1, <2>4 DEF ThreadInv
  <2>6. QED  BY <2>2, <2>3, <2>5 DEF StartInv
<1>8. CASE UNCHANGED vars
  <2>1. UNCHANGED <<pc, conf, board, unit, i, ring, tsQueues, lock, threads, at>>
    BY <1>8 DEF vars
  <2>2. UnitInv'
    BY <1>0, <2>1 DEF UnitInv, env, Ports, MasterPorts, RxHp, TxHp
  <2>3. MemInv'
    BY <1>0, <2>1, MemUnchanged
  <2>4. Threads' = Threads /\ MIN_USAGE(env)' = MIN_USAGE(env)
    BY <2>1 DEF Threads, IfNums, Ports, env
  <2>5. ThreadInv'
    BY <1>0, <2>1, <2>4 DEF ThreadInv
  <2>6. QED  BY <2>2, <2>3, <2>5 DEF StartInv
<1>9. QED
  BY <1>1, <1>2, <1>3, <1>4, <1>5, <1>6, <1>7, <1>8 DEF Next

\* The invariant holds for every configuration, board and number of clients: the
\* order of the includes makes no difference, and init_mii_mem initialises the
\* pools of each port once.
THEOREM StartInvariant == Spec => []StartInv
<1>1. Init => StartInv
  BY StartInit
<1>2. StartInv /\ [Next]_vars => StartInv'
  BY StartNext
<1>3. QED  BY <1>1, <1>2, PTL DEF Spec

-----------------------------------------------------------------------------
(* The properties *)

\* The ports of the slot get to the MAC, whatever the order of the includes, except
\* for the guard that the L16 misspells.
THEOREM StartSlotHonoured == Spec => SlotHonoured
<1>1. ASSUME StartInv, [Next]_vars
      PROVE  [(IncludeBoardSupport /\ (board # "L16" \/ "ethernet_conf.h" \in unit.seen))
               => unit'.env["PORTS"].tile = SlotPorts(conf.SLOT).tile
                  /\ PinsRight(unit'.env, conf.SLOT)]_vars
  <2>1. CASE IncludeBoardSupport /\ (board # "L16" \/ "ethernet_conf.h" \in unit.seen)
    <3>1. unit'.env["PORT_ETH_FAKE"] = "8C" /\ unit'.env["PORTS"] = SlotPorts(conf.SLOT)
      BY <1>1, <2>1, IncludeBoardInv DEF StartInv
    <3>2. PinsRight(unit'.env, conf.SLOT)
      BY <3>1, Pins
    <3>3. QED  BY <3>1, <3>2
  <2>2. QED  BY <2>1
<1>2. QED  BY <1>1, StartInvariant, PTL DEF Spec, SlotHonoured

\* A thread's pools are among those of the ports that the server has.
LEMMA ThreadPools ==
  ASSUME StartInv, pc = "par", NEW t \in Threads
  PROVE  /\ Writes(t) \cup Reads(t) \subseteq Pools(MasterPorts, Ports)
         /\ UsesTs(t) \subseteq 0 .. MasterPorts - 1
<1>1. /\ Ports \in {1, 2} /\ MasterPorts \in {1, 2} /\ (Ports = 1 \/ MasterPorts = 2)
      /\ (MasterPorts > 1 /\ TxHp) => (Ports > 1 /\ RxHp)
  BY Built DEF StartInv
<1>2. PICK k, n : /\ t = <<k, n>> /\ k \in {"rx_pins", "tx_pins", "tx_server", "rx_server"}
                  /\ n \in 0 .. Ports - 1 /\ n \in 0 .. MasterPorts - 1
  BY <1>1 DEF Threads, IfNums
<1>3. UsesTs(t) \subseteq 0 .. MasterPorts - 1
  BY <1>1, <1>2 DEF UsesTs
<1>4. ASSUME NEW q \in Writes(t)  PROVE q \in Pools(MasterPorts, Ports)
  <2>1. \/ q = <<"rx_lp", n>>
        \/ RxHp /\ q = <<"rx_hp", n>>
        \/ \E m \in 0 .. Ports - 1 : q = <<"tx_lp", m>> \/ (TxHp /\ q = <<"tx_hp", m>>)
    <3>1. t[1] = k /\ t[2] = n
      BY <1>2
    <3>2. CASE k = "rx_pins"
      <4>1. Writes(t) = Lp("rx_lp", {n}) \cup Hp("rx_hp", RxHp, {n})
        BY <3>1, <3>2 DEF Writes
      <4>2. QED  BY <1>4, <4>1 DEF Lp, Hp
    <3>3. CASE k = "tx_server"
      <4>1. Writes(t) = Lp("tx_lp", 0 .. Ports - 1) \cup Hp("tx_hp", TxHp, 0 .. Ports - 1)
        BY <3>1, <3>3 DEF Writes
      <4>2. QED  BY <1>4, <4>1 DEF Lp, Hp
    <3>4. CASE k \notin {"rx_pins", "tx_server"}
      BY <1>4, <3>1, <3>4 DEF Writes
    <3>5. QED  BY <3>2, <3>3, <3>4
  <2>2. 0 .. Ports - 1 \subseteq 0 .. MasterPorts - 1
    BY <1>1
  <2>3. QED  BY <1>2, <2>1, <2>2, PoolIn
<1>5. ASSUME NEW q \in Reads(t)  PROVE q \in Pools(MasterPorts, Ports)
  <2>1. \/ q = <<"tx_lp", n>>
        \/ TxHp /\ q = <<"tx_hp", n>>
        \/ \E m \in 0 .. Ports - 1 : q = <<"rx_lp", m>>
        \/ \E m \in 0 .. MasterPorts - 1 :
             (RxHp \/ (MasterPorts > 1 /\ TxHp)) /\ q = <<"rx_hp", m>>
    <3>1. t[1] = k /\ t[2] = n
      BY <1>2
    <3>2. CASE k = "tx_pins"
      <4>1. Reads(t) = Lp("tx_lp", {n}) \cup Hp("tx_hp", TxHp, {n}) \cup
              Hp("rx_lp", Ports > 1, (0 .. Ports - 1) \ {n}) \cup
              Hp("rx_hp", MasterPorts > 1 /\ TxHp, (0 .. MasterPorts - 1) \ {n})
        BY <3>1, <3>2 DEF Reads
      <4>2. QED  BY <1>5, <4>1 DEF Lp, Hp
    <3>3. CASE k = "rx_server"
      <4>1. Reads(t) = Lp("rx_lp", 0 .. Ports - 1) \cup Hp("rx_hp", RxHp, 0 .. MasterPorts - 1)
        BY <3>1, <3>3 DEF Reads
      <4>2. QED  BY <1>5, <4>1 DEF Lp, Hp
    <3>4. CASE k \notin {"tx_pins", "rx_server"}
      BY <1>5, <3>1, <3>4 DEF Reads
    <3>5. QED  BY <3>2, <3>3, <3>4
  <2>2. QED  BY <1>1, <1>2, <2>1, PoolIn
<1>6. QED  BY <1>3, <1>4, <1>5

\* The threads find everything that they use, and are the only writers of it, for
\* every choice of the ports and the queues that builds.
THEOREM StartThreadsReady == Spec => []ThreadsReady
<1>1. StartInv => ThreadsReady
  <2> SUFFICES ASSUME StartInv, NEW t \in threads
               PROVE  /\ lock /\ Writes(t) \cup Reads(t) \subseteq DOMAIN ring
                      /\ UsesTs(t) \subseteq tsQueues
                      /\ \A s \in threads \ {t} : Writes(s) \cap Writes(t) = {}
    BY DEF ThreadsReady
  <2>1. pc = "par" /\ lock /\ threads \subseteq Threads
    BY DEF StartInv, ThreadInv
  <2>2. DOMAIN ring = Pools(MasterPorts, Ports) /\ tsQueues = 0 .. MasterPorts - 1
    BY <2>1 DEF StartInv, MemInv
  <2>3. ASSUME NEW s \in threads \ {t}, NEW q \in Writes(s) \cap Writes(t)  PROVE FALSE
    <3>1. s \in Threads /\ t \in Threads
      BY <2>1
    <3>2. ASSUME NEW u \in Threads, NEW p \in Writes(u)
          PROVE  \/ u = <<"rx_pins", u[2]>> /\ p[1] \in {"rx_lp", "rx_hp"} /\ p[2] = u[2]
                 \/ u = <<"tx_server", 0>> /\ p[1] \in {"tx_lp", "tx_hp"}
      BY <3>2 DEF Threads, Writes, Lp, Hp
    <3>3. QED  BY <2>3, <3>1, <3>2
  <2>4. QED  BY <2>1, <2>2, <2>3, ThreadPools
<1>2. QED  BY <1>1, StartInvariant, PTL

\* The applications ask for sensible sizes.
AllSensible == \A c \in Confs : Sensible(c)

\* The sizes of the headers do not depend on the configuration.
LEMMA HeaderSizes ==
  ASSUME NEW e, e["MAX_ETHERNET_PACKET_SIZE"] \in Nat
  PROVE  MII_PACKET_HEADER_SIZE(e) = 40 /\ MIN_USAGE(e) = 88
<1>1. PICK d \in Int : d = PacketDataWords(e)
  BY DEF PacketDataWords
<1>2. Len(Fields) = 10
  BY DEF Fields
<1>3. QED  BY <1>1, <1>2 DEF MII_PACKET_HEADER_SIZE, MIN_USAGE, SizeofHdr

\* What the server's build has for its pools.
LEMMA PoolSizes ==
  ASSUME AllSensible, StartInv, pc = "par"
  PROVE  /\ MII_PACKET_HEADER_SIZE(env) = 40 /\ MIN_USAGE(env) = 88
         /\ env["MAX_ETHERNET_PACKET_SIZE"] \in Nat
         /\ \A q \in DOMAIN ring :
              /\ q[1] \in Kinds(conf) /\ ring[q] \in Int /\ ring[q] % 4 = 0
              /\ \A m \in Packets(q[1]) : env[m] \in Nat /\ env[m] + 136 <= ring[q]
<1>1. /\ conf \in Confs /\ \A m \in Sizes : env[m] = Asked(conf, m)
      /\ (RxHp <=> "rx_hp" \in Kinds(conf)) /\ (TxHp <=> "tx_hp" \in Kinds(conf))
      /\ Given(conf, "ETHERNET_DEFAULT_IMPLEMENTATION") = "full"
  BY Built DEF StartInv
<1>2. /\ DOMAIN PacketDefaults \subseteq Sizes
      /\ \A k \in {"rx_lp", "tx_lp", "rx_hp", "tx_hp"} : SizeMacro[k] \in Sizes
  BY DEF PacketDefaults, SizeMacro, Sizes, Macros, MiiName
<1>3. \A m \in DOMAIN PacketDefaults : env[m] \in Nat
  BY <1>1, <1>2, AskedType
<1>4. env["MAX_ETHERNET_PACKET_SIZE"] \in Nat
  BY <1>3 DEF PacketDefaults
<1>5. ASSUME NEW q \in DOMAIN ring
      PROVE  /\ q[1] \in Kinds(conf) /\ ring[q] \in Int /\ ring[q] % 4 = 0
             /\ \A m \in Packets(q[1]) : env[m] \in Nat /\ env[m] + 136 <= ring[q]
  <2>1. ring[q] = RingSize(env[SizeMacro[q[1]]]) /\ q \in Pools(MasterPorts, Ports)
    BY DEF StartInv, MemInv
  <2>2. q[1] \in Kinds(conf) /\ q[1] \in {"rx_lp", "tx_lp", "rx_hp", "tx_hp"}
    BY <1>1, <2>1, PoolIn DEF Kinds
  <2>3. PICK z \in Nat : z = Asked(conf, SizeMacro[q[1]])
    BY <1>1, <2>2, AskedType
  <2>4. PICK y \in Int : y = z \div 4
    OBVIOUS
  <2>5. ring[q] = 4 * y - 24
    BY <1>1, <1>2, <2>1, <2>2, <2>3, <2>4 DEF RingSize, SizeofInfo
  <2>6. ring[q] % 4 = 0 /\ ring[q] \in Int
    BY <2>5
  <2>7. ASSUME NEW m \in Packets(q[1])  PROVE env[m] \in Nat /\ env[m] + 136 <= ring[q]
    <3>1. m \in DOMAIN PacketDefaults
      BY DEF Packets, PacketDefaults
    <3>2. env[m] = Asked(conf, m) /\ env[m] \in Nat
      BY <1>1, <1>2, <1>3, <3>1
    <3>3. Asked(conf, m) + 160 <= 4 * y
      BY <1>1, <2>2, <2>3, <2>4 DEF AllSensible, Sensible
    <3>4. QED  BY <2>5, <3>2, <3>3
  <2>8. QED  BY <2>2, <2>6, <2>7
<1>6. QED  BY <1>4, <1>5, HeaderSizes

\* The pools have the sizes that are asked for, new names before old ones before
\* defaults, and if these are sensible the pools are what the pool modules
\* assume, and a packet of the largest size fits into an empty transmit pool.
THEOREM StartPoolsLargeEnough == AllSensible => (Spec => []PoolsLargeEnough)
<1> SUFFICES ASSUME AllSensible PROVE Spec => []PoolsLargeEnough
  OBVIOUS
<1>1. ASSUME StartInv, pc = "par"
      PROVE  /\ \A m \in DOMAIN MiiName : env[m] = Asked(conf, m)
             /\ Clients < MAC_MAX_ENTRIES(env)
             /\ \A q \in DOMAIN ring :
                  /\ ring[q] % 4 = 0 /\ MIN_USAGE(env) % 4 = 0 /\ MIN_USAGE(env) <= ring[q]
                  /\ q[1] \in {"tx_lp", "tx_hp"} =>
                       FullPacketSize(env, q[1] = "tx_hp") + MIN_USAGE(env) <= ring[q]
  <2>1. /\ conf \in Confs /\ \A m \in Sizes : env[m] = Asked(conf, m)
        /\ Given(conf, "ETHERNET_DEFAULT_IMPLEMENTATION") = "full"
    BY <1>1, Built DEF StartInv
  <2>2. \A m \in DOMAIN MiiName : env[m] = Asked(conf, m)
    BY <2>1, MiiNames
  <2>3. Clients < MAC_MAX_ENTRIES(env)
    <3>1. {"NUM_MII_RX_BUF", "NUM_MII_TX_BUF"} \subseteq Sizes
      BY DEF Sizes, Macros
    <3>2. /\ env["NUM_MII_RX_BUF"] = Asked(conf, "NUM_MII_RX_BUF")
          /\ env["NUM_MII_TX_BUF"] = Asked(conf, "NUM_MII_TX_BUF")
          /\ env["NUM_MII_RX_BUF"] \in Nat /\ env["NUM_MII_TX_BUF"] \in Nat
      BY <2>1, <3>1, AskedType
    <3>3. Clients <= env["NUM_MII_RX_BUF"] \/ Clients <= env["NUM_MII_TX_BUF"]
      BY <2>1, <3>2 DEF AllSensible, Sensible
    <3>4. QED  BY <3>2, <3>3, ConfAssumption DEF MAC_MAX_ENTRIES
  <2>4. ASSUME NEW q \in DOMAIN ring
        PROVE  /\ ring[q] % 4 = 0 /\ MIN_USAGE(env) % 4 = 0 /\ MIN_USAGE(env) <= ring[q]
               /\ q[1] \in {"tx_lp", "tx_hp"} =>
                    FullPacketSize(env, q[1] = "tx_hp") + MIN_USAGE(env) <= ring[q]
    <3>1. /\ MII_PACKET_HEADER_SIZE(env) = 40 /\ MIN_USAGE(env) = 88
          /\ ring[q] \in Int /\ ring[q] % 4 = 0
          /\ \A m \in Packets(q[1]) : env[m] \in Nat /\ env[m] + 136 <= ring[q]
      BY <1>1, PoolSizes
    <3>2. "MAX_ETHERNET_PACKET_SIZE" \in Packets(q[1])
      BY DEF Packets
    <3>3. 88 <= ring[q]
      BY <3>1, <3>2
    <3>4. CASE q[1] = "tx_lp"
      <4>1. "ETHERNET_MAX_TX_LP_PACKET_SIZE" \in Packets(q[1])
        BY <3>4 DEF Packets
      <4>2. FullPacketSize(env, q[1] = "tx_hp") = 48 + env["ETHERNET_MAX_TX_LP_PACKET_SIZE"]
        BY <3>1, <3>4, <4>1 DEF FullPacketSize
      <4>3. QED  BY <3>1, <3>3, <4>1, <4>2
    <3>5. CASE q[1] = "tx_hp"
      <4>1. "ETHERNET_MAX_TX_HP_PACKET_SIZE" \in Packets(q[1])
        BY <3>5 DEF Packets
      <4>2. FullPacketSize(env, q[1] = "tx_hp") = 48 + env["ETHERNET_MAX_TX_HP_PACKET_SIZE"]
        BY <3>1, <3>5, <4>1 DEF FullPacketSize
      <4>3. QED  BY <3>1, <3>3, <4>1, <4>2
    <3>6. QED  BY <3>1, <3>3, <3>4, <3>5
  <2>5. QED  BY <2>2, <2>3, <2>4
<1>2. StartInv => PoolsLargeEnough
  BY <1>1 DEF PoolsLargeEnough
<1>3. QED  BY <1>2, StartInvariant, PTL

\* The offsets of the assembler are those of the structure.
LEMMA FieldOffsets ==
  \A k \in 1 .. 10 : /\ mii_packet_set(Fields[k]) = 4 * (k - 1)
                     /\ mii_packet_get(Fields[k]) = 4 * (k - 1)
<1>1. ASSUME NEW k \in 1 .. 10  PROVE BUF_OFFSET[Fields[k]] = k - 1
  BY DEF BUF_OFFSET, Fields
<1>2. ASSUME NEW k \in 1 .. 10  PROVE (CHOOSE j \in DOMAIN Fields : Fields[j] = Fields[k]) = k
  BY DEF Fields
<1>3. QED  BY <1>1, <1>2 DEF mii_packet_set, mii_packet_get

\* A word that is past the end of the ring is found at its start.
LEMMA WrapOnce ==
  ASSUME NEW len \in Int, NEW p \in Int, 0 <= p, p < 2 * len
  PROVE  (IF p >= len THEN p - len ELSE p) = p % len
<1>1. CASE p < len
  BY <1>1
<1>2. CASE p >= len
  <2>1. PICK d \in Int : d = p - len /\ 0 <= d /\ d < len
    BY <1>2
  <2>2. (d + len) % len = d
    BY <2>1
  <2>3. QED  BY <1>2, <2>1, <2>2
<1>3. QED  BY <1>1, <1>2

\* A word of a packet is past the end of the ring once at most.
LEMMA NextPlace ==
  ASSUME NEW len \in Int, NEW b \in Int, NEW m \in Int, NEW n \in Int,
         8 <= b, b <= len - 80, 0 <= n, 4 * n <= m + 3, m + 136 <= len
  PROVE  0 <= b + 40 + 4 * n /\ b + 40 + 4 * n < 2 * len
OBVIOUS

\* Wherever a packet lies in a pool of any sensible size, all accessors find the
\* same words.
THEOREM StartAccessorsAgree == AllSensible => (Spec => []AccessorsAgree)
<1> SUFFICES ASSUME AllSensible PROVE Spec => []AccessorsAgree
  OBVIOUS
<1>1. StartInv => AccessorsAgree
  <2> SUFFICES ASSUME StartInv, at # <<>> PROVE AccessorsAgree
    BY DEF AccessorsAgree
  <2>1. pc = "par"
    BY DEF StartInv, ThreadInv
  <2>2. PICK q \in DOMAIN ring : \E w \in 0 .. (ring[q] - MIN_USAGE(env)) \div 4 : at = <<q, 4 * w>>
    BY DEF StartInv, ThreadInv
  <2>3. /\ MII_PACKET_HEADER_SIZE(env) = 40 /\ MIN_USAGE(env) = 88
        /\ env["MAX_ETHERNET_PACKET_SIZE"] \in Nat /\ ring[q] \in Int
        /\ env["MAX_ETHERNET_PACKET_SIZE"] + 136 <= ring[q]
    BY <2>1, PoolSizes DEF Packets
  <2>4. PICK w \in Int : /\ 0 <= w /\ w <= (ring[q] - 88) \div 4
                         /\ at = <<q, 4 * w>>
    BY <2>2, <2>3
  <2>5. PICK len, b \in Int : /\ len = ring[at[1]] /\ b = Buf /\ len = ring[q]
                              /\ 8 <= b /\ b <= len - 80
    <3>1. at[1] = q /\ at[2] = 4 * w
      BY <2>4
    <3>2. Buf = 4 * w + 8
      BY <3>1 DEF Buf, SizeofHdr
    <3>3. 4 * w <= ring[q] - 88
      BY <2>3, <2>4
    <3>4. QED  BY <2>3, <2>4, <3>1, <3>2, <3>3
  <2>6. Len(Fields) = 10 /\ mii_packet_get_data_ptr = 40
    BY DEF Fields, mii_packet_get_data_ptr, BUF_DATA_OFFSET
  <2>7. ASSUME NEW k \in 1 .. 10
        PROVE  mii_packet_set(Fields[k]) = mii_packet_get(Fields[k]) /\ b + (4 * k - 1) < len
    <3>1. mii_packet_set(Fields[k]) = mii_packet_get(Fields[k])
      BY FieldOffsets
    <3>2. QED  BY <2>5, <3>1
  <2>8. ASSUME NEW n \in 0 .. 11
        PROVE  /\ mii_packet_set_data_byte(n) = 40 + n
               /\ mii_packet_set_data_short(n) = 40 + 2 * n
               /\ mii_packet_set_data(n) = mii_packet_set_data_word(40, n)
               /\ b + mii_packet_set_data_byte(n) < len
    BY <2>5 DEF mii_packet_set_data_byte, mii_packet_set_data_short, mii_packet_set_data,
                mii_packet_set_data_word, BUF_DATA_OFFSET
  <2>9. ASSUME NEW n \in 0 .. PacketDataWords(env)
        PROVE  mii_packet_get_data(n) = (b + 40 + 4 * n) % len
    <3>1. n \in Int /\ 0 <= n /\ 4 * n <= env["MAX_ETHERNET_PACKET_SIZE"] + 3
      BY <2>3 DEF PacketDataWords
    <3>2. PICK p \in Int : p = b + 40 + 4 * n
      BY <2>5, <3>1
    <3>3. PICK m \in Int : 4 * n <= m + 3 /\ m + 136 <= len
      <4>1. env["MAX_ETHERNET_PACKET_SIZE"] + 136 <= len
        BY <2>3, <2>5
      <4>2. QED  BY <2>3, <3>1, <4>1
    <3>4. 0 <= p /\ p < 2 * len
      <4>1. 8 <= b /\ b <= len - 80 /\ 0 <= n /\ n \in Int
        BY <2>5, <3>1
      <4>2. QED  BY <3>2, <3>3, <4>1, NextPlace
    <3>5. b + 4 * (n + 10) = p
      BY <2>5, <3>1, <3>2
    <3>6. mii_packet_get_data(n) = IF p >= len THEN p - len ELSE p
      BY <2>5, <3>5 DEF mii_packet_get_data, BUF_DATA_OFFSET
    <3>7. QED  BY <2>5, <3>2, <3>6, <3>4, WrapOnce
  <2>10. QED
    BY <2>3, <2>5, <2>6, <2>7, <2>8, <2>9 DEF AccessorsAgree
<1>2. QED  BY <1>1, StartInvariant, PTL

=============================================================================
