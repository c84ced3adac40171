---------------------------- MODULE PacketChannel ----------------------------
(***************************************************************************)
(* What either direction of a connection promises to the code above it:    *)
(* the packets one side accepted for sending are handed to the handlers of *)
(* the other side whole, once each and in order, until the channel closes. *)
(***************************************************************************)
EXTENDS Sequences

CONSTANTS
  Packet,    \* the packets, as sequences of bytes
  NoPacket   \* nothing was handed over yet

VARIABLES
  undispatched, \* packets accepted and not handed over, oldest first
  last,         \* the packet that was handed over last
  open          \* packets can still be handed over

vars == <<undispatched, last, open>>

Init == undispatched = <<>> /\ last = NoPacket /\ open = TRUE

Accept(p) ==
  /\ undispatched' = Append(undispatched, p)
  /\ UNCHANGED <<last, open>>

Dispatch ==
  /\ open /\ undispatched # <<>>
  /\ last' = Head(undispatched)
  /\ undispatched' = Tail(undispatched)
  /\ UNCHANGED open

Close == open /\ open' = FALSE /\ UNCHANGED <<undispatched, last>>

Next == (\E p \in Packet : Accept(p)) \/ Dispatch \/ Close

Spec == Init /\ [][Next]_vars
=============================================================================
