------------------------------ MODULE PacketPath ------------------------------
(***************************************************************************)
(* What the two directions of a connection share: packets, the stream of   *)
(* bytes they travel in, and the rings of the client's DDNetwork, one for  *)
(* each direction and both of BUFFER_SIZE bytes.                           *)
(*                                                                         *)
(* A packet begins with its header, here of two bytes: mSize and mType.    *)
(***************************************************************************)
EXTENDS Integers, Sequences, FiniteSetsExt

CONSTANTS
  ClientCapacity, \* BUFFER_SIZE
  Byte, Junk,
  Packet,         \* the packets that are sent, as byte strings
  NoPacket,
  MaxWire         \* bound on the bytes on their way

HeaderSize == 2
SizeOf(header) == header[1]

ASSUME PacketAssumption ==
  /\ ClientCapacity \in Nat \ {0} /\ MaxWire \in Nat
  /\ NoPacket \notin Packet /\ Junk \notin Byte
  /\ \A p \in Packet : /\ p \in Seq(Byte) /\ Len(p) >= HeaderSize
                       /\ SizeOf(p) = Len(p) /\ ClientCapacity >= Len(p)

VARIABLES
  wire,          \* bytes sent and not received
  undispatched,  \* packets accepted for sending that no handler has got
  last           \* what the last handler was given

Ring == INSTANCE DDCircularBufferOps WITH mCapacity <- ClientCapacity
=============================================================================
