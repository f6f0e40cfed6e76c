# TLA+ models of the XMOS Ethernet MAC (sc_ethernet)

`module_ethernet` is a software Ethernet MAC. It comes in two builds: the
five-core FULL MAC (`module_ethernet/src/full`) and the two-core LITE MAC
(`module_ethernet/src/lite`). Both are sets of hardware threads that share
memory without a scheduler and with few locks, and that talk to each other and
to applications over channels. The models are about what is hard to test there:
the interleavings of those threads, the limits of rings and queues, and wake-ups
that must not get lost.

## Inventory

| part | state | operations | talks to |
|---|---|---|---|
| packet memory, `mii_malloc.c` | per pool: `rdptr`, `wrptr`, `rdptr_at_start`, packets chained by `next` | `mii_reserve`, `mii_reserve_at_least`, `mii_commit`, `mii_free`, read pointers | one writer, several releasing threads |
| `mii_rx_pins`, `mii_master.xc` | frame being received | store words, commit, drop | receive pools, filter |
| `ethernet_filter`, `mii_filter.xc` | none | set filter result and stage | receive pins (channel), receive server (packet) |
| `ethernet_rx_server` | per client: ring, `notified`, `wants_status_updates`, `max_queue_size`, filter mask | serve commands, queue frames, notify, send | clients (channels), link status, packet memory |
| receive clients, `ethernet_rx_client.xc` | none | `mac_rx`, setters, counters | receive server |
| link status, `link_status.c` | `status`, `notify` | update (tx server's thread), test and clear (rx server) | shared memory |
| owners of a frame, `mii_queue.c` | `tcount`, `forwarding`; queue of packets with a time stamp due | count down, clear, add, get | rx server, tx pins, tx server |
| `ethernet_tx_server` | pending commands, enabled clients, next link check | reserve, copy, commit, reply with time stamps, poll link | clients, transmit pools |
| `mii_tx_pins`, `mii_master.xc` | credit of the Qav shaper | choose a packet, transmit, release or queue for its time stamp | transmit pools, other ports' receive pools |
| LITE buffers, `mii_client_user.xc`, `mii_client_interrrupt.S` | two banks with free, write, read pointers; `nextBuffer`, `packetInLLD`, notification bits | interrupt handler, get, free, restart | low-level driver, application's thread |
| LITE driver, `mii_lld.S` | registers of two coroutines | receive, transmit | handler (channel) |
| LITE server, `mii_single_server.xc` | packet at hand, PHY status | packets in and out, link polling | application (channels), LITE buffers |
| build configuration, `ethernet_conf_derived.h`, `mii_full.h`, board files | macros | defaults, old names, slots | the application's `ethernet_conf.h` |
| start-up, `ethernet_server.xc`, `mii_wrappers.c` | pools, time stamp queues, lock | initialise, start the threads | every thread of the FULL MAC |
| SMI, `smi.xc` | none | PHY register access | pins |

Hard parts, with their lines, are the `hazards` of `PROJECT.json`: the lock-free
commit against the locked free; a ring in which full and empty look alike; one
END token that serves as a wake-up and as an acknowledgement; one copy of a
frame with several owners; an interrupt handler that moves the pointers of the
code it interrupts; a channel that carries announcements without waiting and
everything else with waiting; headers whose effect depends on their order.

What makes each part correct:

- packet memory: a packet is intact from commit until reclaimed; the ring never
  looks empty when it is not; what is released is reclaimed; a full pool recovers;
- receive server and clients: both ends agree on what token comes next; exactly
  one wake-up for queued frames; every request is answered; link changes arrive;
- frames: released once, by the last owner, and in the end; delivered in order;
- transmit side: every packet is sent once; a time stamp goes to the client that
  waits for it; every call returns;
- LITE buffers: the driver never gets a buffer over something in use; packets
  come out in order, all of them; reception restarts;
- LITE server: both ends of the channel agree on what word comes next, frames
  are handed over, and sending returns;
- build and start-up: what `ethernet_conf.h` asks for is what is built, the
  threads find what they use, and the sizes are those that the pools rely on.

## Modules

| module | models | extends |
|---|---|---|
| `MiiMalloc` | the pool, `mii_commit`, `mii_free` and the inductive invariant | |
| `MiiRxPool` | `mii_rx_pins` writing, `ethernet_rx_server` reading and releasing | `MiiMalloc` |
| `MiiTxPool` | `ethernet_tx_server` writing, `mii_tx_pins` taking and releasing | `MiiMalloc` |
| `PacketPool` | abstract: what `mii_malloc.h` promises; `MiiRxPool` and `MiiTxPool` implement it | |
| `MacRxLink` | the conversation of receive server and clients, link status | |
| `FrameDelivery` | abstract: what the receive side promises to clients and to the other port | |
| `RxFrames` | frames from commit through filter, queues and forwarding to release; implements `FrameDelivery` | |
| `TxPath` | transmit clients, `ethernet_tx_server`, `mii_tx_pins` of each port, time stamp queues | |
| `LitePackets` | abstract: what `mii_client.h` promises to the thread above | |
| `MiiLite` | the two banks of the LITE MAC; implements `LitePackets` | |
| `LiteServer` | the LITE server and an application, on top of the buffers | `LitePackets` |
| `BuildConf` | the headers, and the layout of a packet | |
| `StartUp` | the build, `init_mii_mem` and the threads' use of pools | `BuildConf` |
| `MiiMallocProofs`, `MiiPoolProofs` | theorems about the pools, and that they implement `PacketPool` | the above and TLAPS |
| `MacRxLinkProofs`, `RxFramesProofs`, `TxPathProofs`, `LiteServerProofs`, `MiiLiteProofs`, `StartUpProofs` | theorems about the module of that name | that module and TLAPS |

`MC*.tla` with its `.cfg` files gives the constants values. `PROJECT.json` maps
every definition to the lines that it models.

### MiiMalloc, MiiRxPool, MiiTxPool

Memory is a function from words to integers, so that the chain of headers is
really read from memory. `mii_free` is a step per shared access: `FreeOldest`
(store `rdptr`), `FreeMark` (`rdptr_at_start` and the old header), `FreeTests`
(the two halves of `hdr == wrptr || hdr->next > 0`), `FreeYounger`. The writer
has a step per word in `MiiRxPool`; `mii_commit` is the store of the next
pointer (`RxCommit`, `TxCommit`) and, later, of `wrptr` (`Publish`). `live`,
`order`, `held` and `freed` are history variables.

Timing. `mii_free` needs about five instructions from the store of `rdptr` to
the store into the old header, and words come 320 ns apart: at most one port
event falls in between (`InTime`). Reserving takes longer than that window and
is a step outside it.

`DataWords`, what a word of a frame may look like as a header, is `{-1}` in the
runs: the value that would look like a released packet. The theorems hold for
any set of integers.

`PacketPool` is the pool as its users see it: a sequence of packets, of which the
reader takes the oldest that it has not got, which are released in any order and
reclaimed from the front. `ImplementsPool` is its specification under the
mapping of `MiiMalloc` (`order` for the sequence, `held \cup freed` for what the
reader has got, `freed`): the pools never lose, reorder or invent a packet
(`SafeSpec`), and a released packet does not block the front for ever
(`Reclaims`). `RxFrames` and `TxPath` use pools as `PacketPool` has them.

### MacRxLink

Channels are sequences of tokens. A client is at `idle`, waiting for the first
END (`ack`), the second (`chk`) or the reply; the server is in its select, in
`service_link_cmd`, sending, or in the two steps of
`ethernet_link_status_notification`. The select is ordered: a request of a
client goes before the default case, which handles received frames. A pass of
the default case handles at most one frame here; with two pools the code may
handle two in a row, which is two passes of the model. A queue is a number
(`RxFrames` has the frames).

### RxFrames

A pool is the sequence of its packets, which is what the theorems about
`MiiRxPool` justify. One action per handler: `RxCommit`, `ethernet_filter`,
`process_received_frame`, `SendFrame`/`FrameSent` (the server waits for the
client in between), the two setters that matter, and `Forward`/`Forwarded` of
the other port's `mii_tx_pins`. `tcount` counts owners beyond the first. That
`process_received_frame` sets `forwarding` a few instructions before `tcount` is
one step: transmitting takes more than five microseconds.

`FrameDelivery` is the receive side without any of that: for each pool the frames
that have arrived, for each client those that wait for it, and those that the
other port is yet to send. A frame is given out from the front of its pool, to
clients that have room, to the other port, or to nobody; a client gets the first
of those that wait for it; and a place in memory gets a frame only while nobody
has one there. `DeliversFrames` is this specification under the mapping at the end
of `RxFrames`: what the server's read pointer has not passed, the contents of the
rings between `rdIndex` and `wrIndex`, and the packets with `forwarding` set. The
read pointer, the gaps that releases leave in a pool, the wrapped indices and
`tcount` do not appear, so this is what they have to get right together. Which
clients get a frame is left open there; `QueuesFifo` says it.

### TxPath

A pool is a sequence of packets again, which the theorems about `MiiTxPool`
justify; only its head is ever transmitted. The server's loop is three parts:
the pass over the clients (`Pass`, `get_packet_from_client`, then `Commit` and
`Mark`, or `Skip`, for each port), the select (`TakeCmd`, `Default`) and the
time stamps (`get_ts_queue_entry`, `ReplySent`). A packet is visible from
`Commit` on, in stage 0, which `mii_commit` stores before it moves `wrptr`
(`mii_malloc.c:134`), and with whatever `tcount` its memory held (a free choice),
until `Mark` writes both. Outputs on these channels wait for the reader: a
client is at `cmd`, `slave` or `wait`, and `ReplySent` needs a client at `wait`.
The shaper's credit is a free choice between `StartHp` and `StartLp`. `fwd` says
that the other port's receive pool starts with a packet to be forwarded, which
is all that `mii_tx_pins` sees of `RxFrames`. `sent` is a history field. The
router and Qav commands, and the MAC address, are requests of kind `other`; the
link poll is `MacRxLink`'s.

A pass of `mii_tx_pins` over the pools is one step.

### MiiLite

Headers are words of memory; the driver's stores turn every word of its buffer
into `Data`, which looks like a freed packet. The interrupt
handler (`FrameGood`, `FrameBad`) may come between any two steps of the
application: `mii_free_in_buffer` is a step per iteration of its loop,
`mii_get_in_buffer` a step per bank. A frame that ends with no buffer for the
next one is dropped and changes nothing.

Timing. During one call of `mii_free_in_buffer` (tens of instructions) at most
`MaxEnds` = 2 frames end; two whole frames of the smallest size take more than
13 microseconds. With three the handler could find the free pointer parked on
the tail mark, take the head of the bank for free and write over it. Frames are
not longer than `MAXPACKET` allows, as on a link that conforms to the standard.

`LitePackets` is the same from above: a queue per bank, the packets that the
thread holds, and whether there is a notification. `ImplementsPackets` says that
`MiiLite` implements it, its liveness included (`Delivers`): packets of a bank
come out in order, nothing that is held is reused, `mii_get_in_buffer` returns
nothing only if there is nothing or a notification follows, and a thread that
looks when notified gets everything. It replaces separate properties on order,
held packets and delivery.

The queue is `unread`, a history variable: a kept frame is appended to it, and
each packet that `mii_get_in_buffer` returns takes its first one. Nothing in the
code reads it. `mii_get_in_buffer` itself only follows headers, so that the
refinement compares where the headers lead with the order of arrival.

### LiteServer

The select of `the_server` with each of its cases, the test for a packet behind
it, and an application that calls `mac_rx` and `mac_tx`, from one thread or two
(`OneThread`). It extends `LitePackets`, so the server's `mii_get_in_buffer`,
`mii_free_in_buffer` and notification are the promises that `MiiLite` keeps;
`mii_restart_buffer` has no effect at that level. `outuint` puts a word into the
channel and goes on (`chan`); the other inputs and outputs wait for each other
and are one step of both. An end that waits for the other and finds an
`outuint`'s word traps.

`raced` records that a link change was announced while the length of a packet
was out. The code has no provision for that case (`mii_single_server.xc:49`): the
application finds the word -1 where it waits for the server, and traps. The properties hold for behaviours without it.

### BuildConf, StartUp

A translation unit is the set of headers seen and a function from macros to
values. `StartUp` includes the headers in every order (an application includes
`ethernet.h` and `ethernet_board_support.h`, and `mii_full.h` comes with the
server), for every configuration in `MCStartUp`: those of the applications and
tests of the repository, the example in `ethernet_conf_example.h` and two that
are not in the repository: `ConfExampleFull`, the example with `full` in place of
its `lite`, since with `lite` no packet memory is built and the buffer sizes it
gives would not be looked at; and `TwoPorts`, for two ports. Each is taken in each
slot and on both SliceKits. With `lite` the headers and the ports are checked and
the behaviour ends before `Build`. Otherwise `init_mii_mem` runs, an iteration
of a loop per step, and the threads start in any order. Last, a packet is put at
every place in a pool that `mii_commit` allows, and `AccessorsAgree` compares the
accessors of `mii_full.h` (offsets in assembler), of `mii_packet.c` (the
structure) and of `mii_malloc.c` (with the wrap) on it. Here the constants of the
other modules get their real values: `PoolsLargeEnough` is what `MiiMalloc` and
`MiiTxPool` assume of sizes, in bytes, and what `TxPath` assumes of its time
stamp queues. `Asked` is what an `ethernet_conf.h` asks for, by giving a macro, by
its old name, or by leaving it to the defaults.

Not every configuration builds. `Build` has the conditions of
`ethernet_server.xc`, and that of forwarding between two master ports: with
`ETHERNET_TX_HP_QUEUE`, `mii_tx_pins` is passed `rx_mem_hp`
(`mii_wrappers.c:107`), which exists only with `ETHERNET_RX_HP_QUEUE`, and takes it
only with two ports. `ConfAssumption` says what is taken for an application's
macros: numbers, one port or two (the most that `api.rst` allows), and no names of
ports.

## Runs

| run | shows | bounds |
|---|---|---|
| `rx_pool` | the properties of the packet memory with a word-by-word writer, and that it implements `PacketPool` | 9 words: up to three packets, packets across the end and the unused tail |
| `tx_pool` | that ignoring `mii_commit`'s result is sound, that a waiting client gets space, and `PacketPool` | 14 words, packets of 2 to 4 words, 5 asked for |
| `tx_pool_max_frame` (violation) | a frame that fills the space asked for makes a full pool look empty | same, packets of up to 5 words |
| `rx_link` | the token protocol: a client that fetches frames and sends commands that cross notifications, next to one that wants status packets | two frames per queue, two commands and one, one link change; different clients send commands and ask for status packets |
| `rx_link_lost` (violation) | a link change lost between test and clear | one client, one link change |
| `rx_frames` | owners and counts, and that the whole implements `FrameDelivery` | three packets, two clients, rings of three entries |
| `rx_frames_live` | every packet is reclaimed | two pools of one packet, one client |
| `tx_path` | the transmit side with two clients, two ports, both priorities and forwarding | two requests and one, two packets per pool, one forwarded packet; arrays of three entries for time stamps, which wrap (the code has six by default) |
| `tx_broadcast` (violation) | a timed broadcast blocks the server and the client's next call | one client, two ports, two requests |
| `lite` | buffers, headers and restart in the banks, and that they implement `LitePackets` | banks of 13 words, packets of 2 or 3 and MAXPACKET of 6 words: up to three packets per bank, both kinds of wrap |
| `lite_server` | the LITE server between its buffers and an application with two threads | two banks, two places for a packet in each, two link changes |
| `start_up` | build, start-up and accessors | seven configurations (two of them for LITE, headers and ports only), four slots, two boards, every place of a packet |

The bounds are small but every case occurs: full, empty and wrapped rings,
releases in both orders, a queue at its limit, a notification that crosses a
command. Each property of a passing run has a mutant in `PROJECT.json`, a
plausible mistake in one mapped definition that the run then reports.

`rx_frames` identifies states that differ only in the names of packets
(`SYMMETRY`; packets are only compared for equality) or in fields that are
written before they are read again (`VIEW`); `FrameDelivery` does not distinguish
them either. Liveness is checked without both, by `rx_frames_live`.

The findings are in `PROJECT.json`, each with the line it quotes. Four more
configurations are there to be run by hand; TLC reports a violation for each:

- `MCMacRxLinkBoth.cfg` (`InStep`): one client that sends commands and wants
  status packets. The notification of a link change does not set `notified`
  (`ethernet_rx_server.xc:485`), so the acknowledgement of a command, or a second
  notification, follows it and the client reads an END for its reply.
- `MCMacRxLinkTwice.cfg` (`InStep`): one client that wants status packets and
  sends no other command, and a second link change that the server tells of before
  it has sent the packet of the first: the client finds the second END where it
  expects the packet. The link is polled every 100 ms (`LINK_POLL_PERIOD`,
  `ethernet_tx_server.xc:25`), and nothing else keeps two changes apart.
- `MCMiiLiteHold.cfg` (`ReadHeaderKept`): an application that holds two packets
  and frees the older one last, for which `lite.rst` provides. The free pointer
  passes the mark at the tail before the reader does, and the driver gets a
  buffer over it. `lite` passes with one packet held at a time, which is how
  `mii_single_server.xc` and the tests use the interface.
- `MCLiteServerOneThread.cfg` (`TxReturns`): one thread of the application calls
  `mac_rx` and `mac_tx`, as `app_ethernet_demo` does. The server announces a link
  change and waits for its confirmation outside the select
  (`mii_single_server.xc:50`) while the thread waits in `mac_tx`: both wait for
  ever.

A bank must be longer than two packets of MAXPACKET bytes, or one long frame
stops reception for good (`ReceptionRestarts` fails with `BankWords` = 10); the
1520 words that `mii_client.h` asks for make banks of 760 words, a little less
than that.

Observations without a run:

- `mii_free` marks a header as empty after it has moved `rdptr` past it, and a
  word of the frame being received may be stored there in between (a store
  between `FreeOldest` and `FreeMark`) and be lost.
- The transmit server tries pending requests in the order of the clients, so
  that under overload a client with a low number can starve the others;
  `Answered` is about clients whose competitors pause (`MaxRequests`).
- On the L16 SliceKit `ethernet_board_conf.h` has the guard
  `__ethernet_conf_h_exists_`, with an underscore missing: an application that
  includes `ethernet_board_support.h` first gets the default slot. `SlotHonoured`
  excepts that order there.
- The warning that transmission may lock up (`mii_wrappers.c:49`) compares the
  largest packet with the pool; `PoolsLargeEnough` needs room for the headers and
  `MIN_USAGE` too, so there are sizes that lock up without a warning.
- Two master ports with one port index past the arrays of low-priority pools,
  and `ETHERNET_TX_NO_BUFFERING` leaves `tx_mem_lp` without a pool; no
  configuration in the repository does either. `ethernet_server_full_two_port`
  passes `null` for its second SMI interface.
- `safe_mac_rx_lite` does not look at `n`, which `ethernet_rx_client_lite.h`
  describes as the limit of what is filled; `mac_get_macaddr_lite` copies six
  bytes from shared memory without a lock.

Two documented statements are deliberately not properties here. Packets come in
order from each bank (`LitePackets`), but not across the banks, although
`mii_client.h` speaks of a strict FIFO: `mii_get_in_buffer` goes to the other
bank before it looks. And a frame that finds a client's ring full is dropped
whatever `mac_set_drop_packets` was told; the setting only changes the queue's
length.

### Fairness

Every thread has its own hardware thread and always makes progress: weak
fairness of each thread's steps. Clients fetch what they are notified of, and
applications free what they get; nothing makes a client send a command, a frame
arrive or the link change. `RxFrames` asks for strong fairness of the server's
default case, of a client's fetch and of the other port's look at a pool,
because the model leaves open which the server or the transmitter does next:
the server's loop gets to the default case whenever no client asks, and the
transmitter's loop looks at every pool in every pass. A client that sends
commands without pause, or a port that is never free of its own packets, could
break that; it is the assumption under which `Reclaimed` holds.

`TxPath` assumes strong fairness of `StartHp`: credit comes back with time, as
long as the idle slope is positive. `tx_broadcast` assumes no more than that.

`LiteServer` assumes strong fairness of the cases of the server's select and of
the application's `mac_rx`: the hardware serves the ready events of a select, and
the timer of the link check leaves a tenth of a second between two of its events.
Steps at which the two ends meet are weakly fair. Nothing makes the application
transmit.

Deadlock is checked everywhere except in `tx_broadcast` and
`MCLiteServerOneThread.cfg`, whose point is the stopped state, in `lite_server`,
where a link change that crossed a packet stops both ends, and in `start_up`,
which ends.

## Theorems

The theorems are proved by TLAPS for every value of the constants that satisfies
the assumption of the module (`PoolAssumption`, `LinkAssumption`, ...: what the
code requires of sizes, and that there are clients). Where a theorem needs more,
the hypothesis is a definition with a name, part of the statement, and there is
a configuration that shows what happens without it:

| hypothesis | of | says | without it |
|---|---|---|---|
| `Shorter` | `MiiPoolProofs` | packets are shorter than the space asked for | `tx_pool_max_frame` |
| `AllGood` | `MacRxLinkInStep`, `MacRxLinkOneWakeUp` | a client that asks for status packets does so once and sends no other command | `MCMacRxLinkBoth.cfg` |
| `Spaced` | the same | the server tells of a link change only when the packet of the one before has been sent to every client that wants it; so it is with one change (`OneChangeSpaced`) | `MCMacRxLinkTwice.cfg` |
| `TimedToOne` | `TxPathReplyExpected` | packets with a time stamp go to one port | `tx_broadcast` |
| `AllSensible` | `StartUpProofs`, of sizes and accessors | each pool is 160 bytes larger than a packet, in whole words, and `NUM_MII_RX_BUF` or `NUM_MII_TX_BUF` is at least the number of clients (`Sensible`) | with fewer bytes a client may wait for ever for room; TLC evaluates it for every configuration of `MCStartUp` |
| `OnePacket` | `MiiLiteProofs` | the application works on one packet at a time, and two frames end during `mii_free_in_buffer` at most | `MCMiiLiteHold.cfg`; the timing above |

None of the properties is inductive. What is, is described here in the order of
the modules; each invariant was checked by TLC on small instances before it was
proved.

**Pools.** `PoolInv` is at the end of `MiiMalloc`: addresses wrap, so everything
is said with the distance `Dist` around the ring. `ChainInv` says that each
packet ends where another, or the writer's space, begins and that no header lies
in between, nor between `wrptr` and `rdptr`; `SignInv` ties the sign of `next` to
the history of releases; `FreeInv` says what `mii_free` knows at each of its
steps (after `hdr # wrptr` the header it looks at is that of a committed packet:
the reason for the order of the tests); `FlagInv` says when `rdptr_at_start` may
be stale, which needs the timing assumption; `WriterInv` keeps the writer before
`rdptr`. `MiiMallocProofs` has the lemmas on distances and one per step of
`mii_free`, which both pools use. The receive pool adds `ReaderInv`: the server's
own pointer separates packets that it has taken from those it has not. The
transmit pool adds `RoomInv`: the space found by `mii_reserve_at_least` is still
there when the packet is committed. From these come types, `NoOverlap`,
`LooksEmptyIffEmpty`, `NothingLeaks`, `ReaderOnChain` and `CommitNeverRefused`.

**The pools implement `PacketPool`** (`RxImplementsPool`, `TxImplementsPool`).
`OrderInv` says that the chain of headers in memory, from `rdptr` to `wrptr`, is
the sequence of commitments; `ServerPlace` that the receive server's pointer is
in that sequence at the first packet that it has not taken. Each step is then a
step of `PacketPool` or a stutter: `Publish` commits, `FreeOldest` reclaims, the
words, the marks and the tests of `mii_free` are stutters.

**`MacRxLink`.** `TalkInv` of a client says, for each place of the server, what
is in the two channels and where the client may be: the two ENDs that may cross
(a notification and an acknowledgement) are a case of each place. `QueueInv` says
that a client is notified if and only if its queue is not empty, except while it
is being sent a frame. They hold of a client without any assumption about the
others (`FrameClientInStep`), which is why they are stated of one client. For a
client that asks for status packets, an END that tells of a link change must not
follow another one, since `notified` does not count it: `Spaced` is exactly the
absence of that, a condition on the times of link changes and fetches that the
code does not enforce, and a hypothesis of the theorems for that reason.

**`RxFrames`.** `FramesInv` adds to `CountsOwners` and `InOrder` that a packet has
one place in one pool and one in a client's ring, that packets are taken from
the front, and that what the server is sending is still at the head of its ring.
That a pool drops all its packets up to the first one that is not released
needs a least number; it is found with the well-founded order of the natural
numbers, since the library's induction theorems have operators as parameters.
`QueuesFifo` is what the ring of a client does in each step: its packets stay, the
one that the server takes is added at the end if the filter matches and there is
room, and otherwise is not, or the first one goes once it is read. No run
checks `InOrder` by itself: what a client sees of it, the frames of a pool in the
order in which they came, is part of `DeliversFrames`.

**`RxFrames` implements `FrameDelivery`** (`RxFramesDelivers`, the whole of
`DeliversFrames`). That those taken come first in a pool makes what is left of it a
sequence (`RestOf`): a commit appends to it (`RestAppend`), the server takes its first
(`TakeRest`, `TakeOther`), and `mii_free`, which reclaims packets only up to one that
is not released, leaves it alone (`FreeArrived`). `WaitingPush` and `WaitingPop` are
the same for the rings. That a new packet is put where nobody has one is
`CountsOwners` (`PresentLive`).

**`TxPath`.** `HeadInv` says what the first packet of a pool is: new, on the line
or waiting for its time stamp, in exactly one of the queue and the server's
hands; `RestInv` that those behind it are untouched. One that is not marked yet
is in stage 0, so that nothing depends on its `tcount`. So `OnePlaceEach` and
`SentOnce` hold whatever the memory held and whatever the clients ask for. `RequestInv` and
`WaitInv` (a client waits for one packet) give `ReplyExpected`.

**`MiiLite`.** A bank is described by a predicate on values (`Bank`): its packets,
headers, three pointers, and whether `mii_free_in_buffer` is at work in it, the
application has a packet of it, the driver has a buffer in it and another frame
may end before `mii_free_in_buffer` does. `Headers` bounds lengths, `Room` says
that the packets are one run (`Linear`) or two runs around the end of the bank
(`Wrapped`) with the driver's buffer outside them, `Park` when the free pointer
is at the tail mark, and `Read` where the read pointer is. The lemmas on what
each step does to a bank are about values only (`CommitPlain`, `CommitWrap`,
`MarkKept`, `FreePacket`, `FreeTail`, `RestartPlain`, `RestartWrap`). `HeldInv`,
`BuffersInv` and `StopInv` relate the banks to the application, the driver and
reception that has stopped. The timing assumption is what `Park` needs: at the
tail mark the frame that ends next must not be the one that goes to the head.

**The banks implement `LitePackets`** (`MiiLiteImplementsPackets`; all of it but
`Delivers`). `ReadInv` says that the headers of a bank, followed from the read
pointer, lead to the packets of `unread`, one after the other, and then to the
header at the write pointer (`Chain`), and that the packet at the free pointer is
not among them once the application has got it (`Way`). A tail mark is where
this is delicate: the reader may be on it, before it or behind it when it is
written, and the write header becomes one when reception restarts. The lemmas
`WayPlain`, `WayWrap` and `WayRestart` say what becomes of the way in these cases,
`SameWay` and `ReadAside` that the driver's stores and `mii_free_in_buffer` leave it
alone. `LookInv` is for the reader that found nothing in one bank and has yet to
look in the other: nothing came to the first one, or a notification is there,
which `NotifyInv` gives from the bits on both sides of the channel.

**`LiteServer`.** `Conversation` says what is announced at each place of the
server; once a link change has crossed a length, `Stuck` says that the server
waits for ever, which is how the invariant covers those behaviours too.

**`StartUp`.** TLC goes through a list of configurations; the theorems are about
every configuration, board and number of clients. `UnitInv` says that once
`ethernet_conf_derived.h` has been included, by whichever header, each macro is
what the application gives (`Given`), and once `mii_full.h` has been, what it asks
for (`Asked`): so the order of the includes makes no difference. One lemma per
header proves it, from a unit that is empty or has at most `ethernet_conf.h` and
the ports of the board (`Bare`, the case of the misspelt guard) or from one that
has the rest. `MemInv` is what the two loops of `init_mii_mem` have initialised at
each iteration, `ThreadInv` that threads come after them. `StartThreadsReady` then
goes through the choices of ports and queues that build: one port with one master
port or two, or two of each. `StartPoolsLargeEnough` and
`StartAccessorsAgree` are the arithmetic of sizes: the fields of a packet take 40
bytes, `malloc_hdr_t` 8, `MIN_USAGE` is 88 and `mii_init_mempool` takes 24, and
that is the 160 of `Sensible`. No less would do for a transmit pool: the room that
`PoolsLargeEnough` asks for is then the same inequality.

Model-checked only:

- all liveness: fairness is beyond TLAPS here. That includes `Reclaims` in
  `ImplementsPool` and `Delivers` in `ImplementsPackets`.

## Not modelled

- Instruction timing of the pin threads and of `mii_lld.S` (the repository uses
  XTA for it), CRC computation, frame contents.
- SMI: a single thread that toggles two pins; the link state it returns is a
  free input. PHY reset, and the configuration of ports and clock blocks.
- The shaper's credit: `idle_slope` is a variable of the loop body that is used
  before it is loaded (`mii_master.xc:530`, `562`), so that the credit of the code
  as it stands is arbitrary. `TxPath` leaves the choice between the pools free.
- The router's and Qav's commands of the transmit server, beyond their exchange.
- Boards other than the SliceKits, which have one set of ports each.
- Applications, among them the checksum of the demo.

## Plan

Done: packet memory, its proofs and its abstract specification; receive
conversation; life of a received frame; transmit side; LITE banks, their abstract
specification and the server above them; build and start-up.

Proved: the invariants of all modules, `SlotHonoured`, `DeliversFrames`, and the
safety parts of `ImplementsPool` and `ImplementsPackets`.

1. `MacRxLink`'s conversation as an implementation of `FrameDelivery`'s `Get`, so that
   the queues of numbers there become the queues of frames.
