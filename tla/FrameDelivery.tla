---------------------------- MODULE FrameDelivery ----------------------------
(***************************************************************************)
(* What the receive side promises to the clients and to the other port, as *)
(* they see it: no pools with gaps, no rings, no counts of owners.  The    *)
(* server gives out the frames of an input in the order in which they came *)
(* in.  A client gets the frames that it is given one after the other,     *)
(* each once.  The place of a frame in memory gets another frame only when *)
(* nobody has the first one any more.  RxFrames implements it.             *)
(***************************************************************************)
EXTENDS Naturals, Sequences

CONSTANTS
  Clients,
  Inputs,    \* where frames come from
  Frames,    \* a frame is known by its place in memory
  Capacity   \* the frames that can wait for a client

VARIABLES
  arrived,   \* the frames of each input that are not given out, in order
  waiting,   \* the frames that each client is yet to get, in order
  relayed    \* the frames that the other port is yet to send

vars == <<arrived, waiting, relayed>>

In(s) == {s[k] : k \in 1 .. Len(s)}

\* Somebody has the frame.
Present(f) ==
  \/ \E p \in Inputs : f \in In(arrived[p])
  \/ \E i \in Clients : f \in In(waiting[i])
  \/ f \in relayed

Init ==
  /\ arrived = [p \in Inputs |-> <<>>]
  /\ waiting = [i \in Clients |-> <<>>]
  /\ relayed = {}

Arrive(p) ==
  /\ \E f \in Frames : ~Present(f) /\ arrived' = [arrived EXCEPT ![p] = Append(@, f)]
  /\ UNCHANGED <<waiting, relayed>>

\* The oldest frame of an input is given to some clients that have room, to
\* the other port or not, or to nobody.
GiveOut(p) ==
  /\ arrived[p] # <<>>
  /\ arrived' = [arrived EXCEPT ![p] = Tail(@)]
  /\ \E S \in SUBSET {i \in Clients : Len(waiting[i]) < Capacity} :
       waiting' = [i \in Clients |-> IF i \in S THEN Append(waiting[i], Head(arrived[p]))
                                     ELSE waiting[i]]
  /\ relayed' \in {relayed, relayed \cup {Head(arrived[p])}}

\* A client has got its oldest frame.
Get(i) ==
  /\ waiting[i] # <<>>
  /\ waiting' = [waiting EXCEPT ![i] = Tail(@)]
  /\ UNCHANGED <<arrived, relayed>>

Relay ==
  /\ \E f \in relayed : relayed' = relayed \ {f}
  /\ UNCHANGED <<arrived, waiting>>

Next ==
  \/ \E p \in Inputs : Arrive(p) \/ GiveOut(p)
  \/ \E i \in Clients : Get(i)
  \/ Relay

Spec == Init /\ [][Next]_vars

=============================================================================
