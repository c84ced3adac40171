----------------------------- MODULE RequestPath -----------------------------
(***************************************************************************)
(* The way of a request from DDNetwork::Write on the client to the handler *)
(* OnRead calls on the server: the client's ring and its FD_WRITE window   *)
(* messages, the stream, the receive window of the session and the framing *)
(* of the stream into packets.                                             *)
(*                                                                         *)
(* The client's socket does not block.  The system posts FD_WRITE once     *)
(* after WSAAsyncSelect and once each time a send that failed with         *)
(* WSAEWOULDBLOCK could go on; Write posts one itself.                     *)
(***************************************************************************)
EXTENDS PacketPath

CONSTANTS
  ServerCapacity, \* BUFSIZE
  MaxPosted       \* bound on the FD_WRITE messages in the queue

ASSUME RequestAssumption ==
  /\ ServerCapacity \in Nat \ {0} /\ MaxPosted \in Nat
  /\ \A p \in Packet : ServerCapacity >= 2 * Len(p)

VARIABLES
  link,          \* the client's socket
  m_SendBuffer,  \* the client's ring
  posted,        \* FD_WRITE messages in the client's queue
  armed,         \* the system will post FD_WRITE when it can send
  short,         \* the last send took some of the bytes, not all
  serving,       \* the session: "recv" in a WSARecv, "reading" in OnRead, or "closed"
  mRecvBuffer,   \* of the session
  granted        \* buf.len of the WSARecv in progress

client == <<link, m_SendBuffer, posted, armed, short>>
server == <<serving, mRecvBuffer, granted>>
vars == <<client, wire, server, undispatched, last>>

Recv == INSTANCE CircularBufferOps WITH Capacity <- ServerCapacity
Channel == INSTANCE PacketChannel WITH open <- serving # "closed"

(* connect has been called; the accepted session has posted a receive.     *)
Init ==
  /\ link = "connecting"
  /\ m_SendBuffer = Ring!NewRing
  /\ posted = 0 /\ armed = FALSE /\ short = FALSE
  /\ wire = <<>>
  /\ serving = "recv"
  /\ mRecvBuffer = Recv!NewBuffer /\ granted = Recv!GetFreeSpaceSize(Recv!NewBuffer)
  /\ undispatched = <<>> /\ last = NoPacket

-----------------------------------------------------------------------------
(* The client.                                                             *)

Connected == /\ link = "connecting" /\ link' = "connected"
             /\ UNCHANGED <<m_SendBuffer, posted, armed, short, wire, server, undispatched, last>>

(* Mutant: FD_WRITE is not selected.                                       *)
NagleOff_NoWrite == /\ link = "connected" /\ link' = "selected"
                    /\ UNCHANGED <<m_SendBuffer, posted, armed, short, wire, server, undispatched, last>>

(* FD_CONNECT: NagleOff selects FD_READ and FD_WRITE.                      *)
NagleOff == /\ link = "connected" /\ link' = "selected"
            /\ armed' = TRUE
            /\ UNCHANGED <<m_SendBuffer, posted, short, wire, server, undispatched, last>>

(* Write: a request for which the ring has no room is dropped in silence.  *)
Write(p) ==
  /\ link # "closed"
  /\ m_SendBuffer' = Ring!Write(m_SendBuffer, p)
  /\ IF Ring!CanWrite(m_SendBuffer, Len(p))
     THEN /\ posted < MaxPosted /\ posted' = posted + 1
          /\ undispatched' = Append(undispatched, p)
     ELSE UNCHANGED <<posted, undispatched>>
  /\ UNCHANGED <<link, armed, short, wire, server, last>>

SystemPostsWrite ==
  /\ armed /\ link = "selected" /\ posted < MaxPosted
  /\ posted' = posted + 1 /\ armed' = FALSE
  /\ UNCHANGED <<link, m_SendBuffer, short, wire, server, undispatched, last>>

(* What send may return: SOCKET_ERROR, or any part of what it was given.   *)
SentBytes(size) ==
  IF link \in {"connected", "selected"}
  THEN {-1} \cup {n \in 1 .. size : Len(wire) + n <= MaxWire} ELSE {-1}

(* FD_WRITE: Send offers everything and consumes what was taken.           *)
Send ==
  /\ posted > 0 /\ posted' = posted - 1
  /\ LET size == m_SendBuffer.mCurrentSize IN
     IF size = 0 THEN UNCHANGED <<m_SendBuffer, armed, short, wire>>
     ELSE \E sent \in SentBytes(size) :
            /\ wire' = IF sent < 0 THEN wire
                       ELSE wire \o SubSeq(Ring!Content(m_SendBuffer), 1, sent)
            /\ armed' = (armed \/ (sent < 0 /\ link = "selected"))
            /\ short' = (0 < sent /\ sent < size)
            /\ m_SendBuffer' = Ring!Consume(m_SendBuffer, Ring!SizeT(sent))
  /\ UNCHANGED <<link, server, undispatched, last>>

(* The client quits, or the connection fails.                              *)
ClientCloses ==
  /\ link # "closed" /\ link' = "closed"
  /\ armed' = FALSE
  /\ UNCHANGED <<m_SendBuffer, posted, short, wire, server, undispatched, last>>

-----------------------------------------------------------------------------
(* The session.                                                            *)

(* RecvCompletion: an error or no bytes at all end the session.            *)
Received(n) ==
  /\ serving = "recv" /\ n <= Min({granted, Len(wire)})
  /\ IF n = 0
     THEN /\ link = "closed" \/ (granted = 0 /\ wire # <<>>)
          /\ serving' = "closed" /\ UNCHANGED <<mRecvBuffer, wire>>
     ELSE /\ serving' = "reading"
          /\ mRecvBuffer' = Recv!Store(mRecvBuffer, SubSeq(wire, 1, n))
          /\ wire' = SubSeq(wire, n + 1, Len(wire))
  /\ UNCHANGED <<client, granted, undispatched, last>>

(* OnRead has a whole packet when the header and all of mSize are stored.  *)
PacketLength(buffer) == SizeOf(Recv!FirstBytes(buffer, HeaderSize))

(* Mutant: one byte more than the packet has to be there.                  *)
Complete_Strict(buffer) ==
  /\ Recv!CanRead(buffer, HeaderSize)
  /\ PacketLength(buffer) < Recv!GetStoredSize(buffer)

Complete(buffer) ==
  /\ Recv!CanRead(buffer, HeaderSize)
  /\ PacketLength(buffer) <= Recv!GetStoredSize(buffer)

(* One turn of OnRead's loop: the handler reads the packet.                *)
OnRead ==
  /\ serving = "reading" /\ Complete(mRecvBuffer)
  /\ last' = Recv!FirstBytes(mRecvBuffer, PacketLength(mRecvBuffer))
  /\ mRecvBuffer' = Recv!Read(mRecvBuffer, PacketLength(mRecvBuffer))
  /\ undispatched' = Tail(undispatched)
  /\ UNCHANGED <<client, wire, serving, granted>>

(* ... and when it returns, PostRecv takes the window for the next bytes.  *)
PostRecv ==
  /\ serving = "reading" /\ ~Complete(mRecvBuffer)
  /\ serving' = "recv"
  /\ mRecvBuffer' = Recv!ChooseRegion(mRecvBuffer)
  /\ granted' = Recv!GetFreeSpaceSize(mRecvBuffer)
  /\ UNCHANGED <<client, wire, undispatched, last>>

SessionCloses ==
  /\ serving \in {"recv", "reading"} /\ serving' = "closed"
  /\ UNCHANGED <<client, wire, mRecvBuffer, granted, undispatched, last>>

-----------------------------------------------------------------------------
ClientStep == Connected \/ NagleOff \/ SystemPostsWrite \/ Send
SessionStep == (\E n \in 0 .. MaxWire : Received(n)) \/ OnRead \/ PostRecv
Next ==
  \/ ClientStep \/ SessionStep \/ ClientCloses \/ SessionCloses
  \/ \E p \in Packet : Write(p)

Spec == Init /\ [][Next]_vars

(* The message loop keeps running, the network connects and keeps taking   *)
(* and delivering bytes: a send does not fail for ever.                    *)
Fairness ==
  /\ WF_vars(Connected) /\ WF_vars(NagleOff) /\ WF_vars(SystemPostsWrite)
  /\ WF_vars(Send) /\ SF_vars(Send /\ m_SendBuffer' # m_SendBuffer)
  /\ WF_vars(SessionStep)
LiveSpec == Spec /\ Fairness

-----------------------------------------------------------------------------
TypeOK ==
  /\ link \in {"connecting", "connected", "selected", "closed"}
  /\ m_SendBuffer \in Ring!DDCircularBufferType
  /\ posted \in 0 .. MaxPosted /\ armed \in BOOLEAN /\ short \in BOOLEAN
  /\ wire \in Seq(Byte) /\ Len(wire) <= MaxWire
  /\ serving \in {"recv", "reading", "closed"}
  /\ mRecvBuffer \in Recv!CircularBufferType /\ granted \in 0 .. ServerCapacity
  /\ undispatched \in Seq(Packet)

(* Every request Write accepted reaches its handler whole, once and in     *)
(* order, through partial sends, split receives and both buffers' ends.    *)
ImplementsPacketChannel == Channel!Spec

(* Requests in the client's ring, from before the connection was made or   *)
(* after a send that would block, always have an FD_WRITE coming that will *)
(* send them; only a send that took a part of them leaves none.            *)
NoStrandedRequest ==
  link # "closed" /\ m_SendBuffer.mCurrentSize > 0 =>
    posted > 0 \/ armed \/ short \/ link \in {"connecting", "connected"}

(* A packet that is not complete never leaves the receive without a        *)
(* window, which RecvCompletion would take for the end of the connection.  *)
WindowOpen == serving = "recv" => granted > 0

(* While the connection lasts and no send was short, a waiting request is  *)
(* not left waiting for ever.                                              *)
Ended == link = "closed" \/ serving = "closed"
RequestsDispatched ==
  <>[](undispatched # <<>> /\ ~short /\ ~Ended) => []<><<OnRead>>_vars
=============================================================================
