---------------------------- MODULE LitePackets ------------------------------
(***************************************************************************)
(* What mii_client.h promises to the thread above the LITE buffers: in     *)
(* each bank packets come in the order in which they arrived, a packet     *)
(* that the thread has got stays until it frees it, and after each arrival *)
(* there is a notification, or one is still to be taken.  MiiLite, with    *)
(* its memory, pointers and interrupts, implements this module; LiteServer *)
(* uses it.                                                                *)
(***************************************************************************)
EXTENDS Sequences, Naturals

CONSTANTS Banks, Ats

Places == [bank : Banks, at : Ats]

VARIABLES
  queue,   \* for each bank, the packets that the thread has not got
  held,    \* the packets that it works on
  signal,  \* a notification is there
  look     \* it has taken one since it last found nothing

packetVars == <<queue, held, signal, look>>

mii_buffer_init ==
  queue = [b \in Banks |-> <<>>] /\ held = {} /\ signal = FALSE /\ look = FALSE

Queued(b) == {queue[b][k] : k \in 1 .. Len(queue[b])}

\* A frame is complete.
Arrive ==
  /\ \E x \in Places \ held :
       /\ x \notin Queued(x.bank)
       /\ queue' = [queue EXCEPT ![x.bank] = Append(@, x)]
  /\ signal' = TRUE
  /\ UNCHANGED <<held, look>>

mii_notified == signal /\ signal' = FALSE /\ look' = TRUE /\ UNCHANGED <<queue, held>>

\* mii_get_in_buffer returns the oldest packet of a bank ...
Get(x) ==
  /\ queue[x.bank] # <<>> /\ x = Head(queue[x.bank])
  /\ queue' = [queue EXCEPT ![x.bank] = Tail(@)]
  /\ held' = held \cup {x}
  /\ UNCHANGED <<signal, look>>

\* ... or 0.  A packet that came to a bank while the other one was looked at
\* has been signalled.
GetNone ==
  /\ signal \/ \A b \in Banks : queue[b] = <<>>
  /\ look' = FALSE
  /\ UNCHANGED <<queue, held, signal>>

mii_free_in_buffer(x) ==
  x \in held /\ held' = held \ {x} /\ UNCHANGED <<queue, signal, look>>

PacketNext == \/ Arrive \/ mii_notified \/ GetNone
              \/ \E x \in Places : Get(x) \/ mii_free_in_buffer(x)

\* What may happen.
SafeSpec == mii_buffer_init /\ [][PacketNext]_packetVars

\* A thread that looks for packets when it is notified gets those of each bank.
Delivers ==
  \A b \in Banks : queue[b] # <<>> ~> \E x \in held : x.bank = b

PacketSpec == SafeSpec /\ Delivers

=============================================================================
