------------------------------ MODULE ResultPath ------------------------------
(***************************************************************************)
(* The way of a result from the server's stream to the handlers of the     *)
(* client: on FD_READ DDNetwork::Read takes what recv gives, up to the size *)
(* of a whole buffer, and writes it to its ring; ProcessPacket then hands   *)
(* out the complete packets.  recv has taken the bytes whether or not the  *)
(* ring has room for them.                                                 *)
(*                                                                         *)
(* The server's side is SendPath; here the packets enter the stream whole. *)
(***************************************************************************)
EXTENDS PacketPath

MaxPacket == Max({Len(p) : p \in Packet})

VARIABLES
  open,          \* the socket is
  m_RecvBuffer,
  processing,    \* in ProcessPacket
  overrun        \* Read threw bytes away

resultVars == <<open, wire, m_RecvBuffer, processing, overrun, undispatched, last>>

ResultChannel == INSTANCE PacketChannel WITH open <- open /\ ~overrun

ResultInit ==
  /\ open = TRUE /\ wire = <<>>
  /\ m_RecvBuffer = Ring!NewRing /\ processing = FALSE /\ overrun = FALSE
  /\ undispatched = <<>> /\ last = NoPacket

ServerSends(p) ==
  /\ Len(wire) + Len(p) <= MaxWire
  /\ wire' = wire \o p /\ undispatched' = Append(undispatched, p)
  /\ UNCHANGED <<open, m_RecvBuffer, processing, overrun, last>>

(* What recv may return: SOCKET_ERROR when nothing is there, after an      *)
(* FD_READ for bytes an earlier recv has taken, or what has arrived.       *)
RecvLen == {-1} \cup {n \in 1 .. Len(wire) : n <= ClientCapacity}

(* FD_READ: Read, and ProcessPacket unless Read failed.                    *)
Read(n) ==
  /\ ~processing
  /\ wire' = IF n < 0 THEN wire ELSE SubSeq(wire, n + 1, Len(wire))
  /\ LET fits == Ring!CanWrite(m_RecvBuffer, Ring!SizeT(n)) IN
     /\ processing' = fits
     /\ overrun' = (overrun \/ (n > 0 /\ ~fits))
     /\ m_RecvBuffer' = IF fits THEN Ring!Write(m_RecvBuffer, SubSeq(wire, 1, n))
                                ELSE m_RecvBuffer
  /\ UNCHANGED <<open, undispatched, last>>

ResultLength(ring) == SizeOf(Ring!FirstBytes(ring, HeaderSize))

ResultComplete(ring) ==
  /\ Ring!CanRead(ring, HeaderSize)
  /\ ResultLength(ring) <= ring.mCurrentSize

(* Mutant: one packet for each FD_READ.                                    *)
MorePackets_One(ring) == FALSE
MorePackets(ring) == ResultComplete(ring)

(* Mutants of GetPacketData: only the header is consumed; a whole ring.    *)
GetPacketData_HeaderOnly(ring) == Ring!Read(ring, HeaderSize)
GetPacketData(ring) == Ring!Read(ring, ResultLength(ring))

(* One turn of ProcessPacket's loop: the handler takes its packet.         *)
HandlePacket ==
  /\ processing /\ ResultComplete(m_RecvBuffer)
  /\ last' = Ring!FirstBytes(m_RecvBuffer, ResultLength(m_RecvBuffer))
  /\ m_RecvBuffer' = GetPacketData(m_RecvBuffer)
  /\ undispatched' = Tail(undispatched)
  /\ processing' = MorePackets(GetPacketData(m_RecvBuffer))
  /\ UNCHANGED <<open, wire, overrun>>

(* The loop ends at once when no packet is complete.                       *)
ProcessNothing ==
  /\ processing /\ ~ResultComplete(m_RecvBuffer)
  /\ processing' = FALSE
  /\ UNCHANGED <<open, wire, m_RecvBuffer, overrun, undispatched, last>>

(* FD_CLOSE: Disconnect, and the program quits.                            *)
ServerCloses ==
  /\ ~processing /\ open' = FALSE
  /\ UNCHANGED <<wire, m_RecvBuffer, processing, overrun, undispatched, last>>

(* With bytes missing the headers are no longer where they are looked for; *)
(* what happens then is not modelled.                                      *)
ResultNext ==
  /\ open /\ ~overrun
  /\ \/ \E p \in Packet : ServerSends(p)
     \/ \E n \in RecvLen : Read(n)
     \/ HandlePacket \/ ProcessNothing \/ ServerCloses

ResultSpec == ResultInit /\ [][ResultNext]_resultVars

-----------------------------------------------------------------------------
ResultTypeOK ==
  /\ open \in BOOLEAN /\ processing \in BOOLEAN /\ overrun \in BOOLEAN
  /\ wire \in Seq(Byte) /\ Len(wire) <= MaxWire
  /\ m_RecvBuffer \in Ring!DDCircularBufferType
  /\ undispatched \in Seq(Packet) /\ last \in Packet \cup {NoPacket}

(* Until the ring is overrun, every result reaches its handler whole, once *)
(* and in order, however the stream is cut into receives.                  *)
ResultsImplementChannel == ResultChannel!Spec

(* Bytes are thrown away only when the client has fallen behind by nearly  *)
(* a whole buffer, never by the cutting of a few packets alone.            *)
LossOnlyWhenBehind ==
  [][overrun' /\ ~overrun => Len(wire) > ClientCapacity - MaxPacket + 1]_resultVars
=============================================================================
