------------------------------ MODULE SendPath ------------------------------
(***************************************************************************)
(* The way of a byte from SendRequest to the client: the send buffer of    *)
(* one session, the WSASends that read from its memory, and the thread     *)
(* that runs the flushes and the completion routines.                      *)
(*                                                                         *)
(* WSASend is overlapped: the system reads the bytes from the buffer's own *)
(* memory some time between the call and the completion routine, which     *)
(* then removes them.  The sends of a socket are carried out, and their    *)
(* completion routines queued, in the order of the calls.                  *)
(***************************************************************************)
EXTENDS CircularBufferOps

CONSTANTS
  MaxPacketSize,  \* bound on the bytes of one packet
  MaxSends      \* bound on the sends in progress

ASSUME SendAssumption == MaxPacketSize \in Nat /\ MaxSends \in Nat

VARIABLES
  pc,           \* "loop": before the flush; "sleep": in SleepEx
  mConnected,
  mSendBuffer,
  sends,        \* the WSASends whose completion routine has not run
  carriedOut,   \* how many of them have read their bytes
  undelivered,  \* bytes SendRequest accepted and the client has not got
  intact,       \* the client has got those bytes once and in order so far
  overlapped    \* a WSASend was started while another one was in progress

history == <<undelivered, intact, overlapped>>
sendVars == <<pc, mConnected, mSendBuffer, sends, carriedOut, history>>

Packet == UNION {[1 .. n -> Byte] : n \in 1 .. MaxPacketSize}
Send == [at : Address, len : 1 .. Capacity]

SendInit ==
  /\ pc = "loop" /\ mConnected = TRUE
  /\ mSendBuffer = NewBuffer
  /\ sends = <<>> /\ carriedOut = 0
  /\ undelivered = <<>> /\ intact = TRUE /\ overlapped = FALSE

(* SendRequest writes to the buffer; without room it disconnects.          *)
Accepts(buffer, packet) == mConnected /\ WriteFits(buffer, packet)
AfterRequest(buffer, packet) == IF mConnected THEN Write(buffer, packet) ELSE buffer

(* SendFlush of `buffer': posts what is contiguous, or fails.              *)
SendFlush(buffer, connected, ok) ==
  LET size == GetContiguiousBytes(buffer) IN
  IF ~connected \/ size = 0
  THEN mConnected' = connected /\ UNCHANGED <<sends, overlapped>>
  ELSE /\ mConnected' = ok
       /\ Len(sends) < MaxSends
       /\ sends' = IF ok THEN Append(sends, [at |-> GetBufferStart(buffer), len |-> size])
                         ELSE sends
       /\ overlapped' = (overlapped \/ (ok /\ sends # <<>>))

(* The client thread flushes and goes to sleep.                            *)
FlushClientSend(ok) ==
  /\ pc = "loop" /\ pc' = "sleep"
  /\ SendFlush(mSendBuffer, mConnected, ok)
  /\ UNCHANGED <<mSendBuffer, carriedOut, undelivered, intact>>

(* SleepEx runs the APCs that are queued, and returns after one or more.   *)
Apc == pc = "sleep" /\ pc' \in {"sleep", "loop"}

(* A handler or the timer's work sends a packet.                           *)
RequestSend(packet) ==
  /\ mSendBuffer' = AfterRequest(mSendBuffer, packet)
  /\ undelivered' = IF Accepts(mSendBuffer, packet) THEN undelivered \o packet
                                                    ELSE undelivered

(* The APC of a receive whose handler sends a packet.                      *)
RecvCompletion(packet) ==
  /\ Apc
  /\ mConnected
  /\ RequestSend(packet)
  /\ mConnected' = Accepts(mSendBuffer, packet)
  /\ UNCHANGED <<sends, carriedOut, intact, overlapped>>

(* The timer's APC: something may be sent, and then comes the flush.       *)
OnPeriodWork(packet, ok) ==
  /\ Apc
  /\ RequestSend(packet)
  /\ SendFlush(mSendBuffer', Accepts(mSendBuffer, packet), ok)
  /\ UNCHANGED <<carriedOut, intact>>

QuietPeriodWork(ok) ==
  /\ Apc
  /\ SendFlush(mSendBuffer, mConnected, ok)
  /\ UNCHANGED <<mSendBuffer, carriedOut, undelivered, intact>>

(* The system carries the oldest send out: it reads the memory as it is.   *)
BytesOf(send) == [i \in 1 .. send.len |-> mSendBuffer.mBuffer[send.at + i - 1]]

CarryOut ==
  /\ mConnected /\ carriedOut < Len(sends)
  /\ LET bytes == BytesOf(sends[carriedOut + 1])
         right == /\ Len(bytes) <= Len(undelivered)
                  /\ bytes = SubSeq(undelivered, 1, Len(bytes))
     IN /\ intact' = (intact /\ right)
        /\ undelivered' = IF right THEN SubSeq(undelivered, Len(bytes) + 1, Len(undelivered))
                                   ELSE undelivered
  /\ carriedOut' = carriedOut + 1
  /\ UNCHANGED <<pc, mConnected, mSendBuffer, sends, overlapped>>

(* Mutants of OnWriteComplete: one byte too many, nothing at all.          *)
OnWriteComplete_OneMore(buffer, len) == Remove(buffer, len + 1)
OnWriteComplete_Nothing(buffer, len) == buffer

OnWriteComplete(buffer, len) == Remove(buffer, len)

(* SendCompletion; on a closed socket or with an error nothing is removed. *)
SendCompletion(ok) ==
  /\ Apc
  /\ sends # <<>>
  /\ ok => mConnected /\ carriedOut > 0
  /\ sends' = Tail(sends)
  /\ carriedOut' = IF carriedOut > 0 THEN carriedOut - 1 ELSE 0
  /\ mConnected' = ok
  /\ mSendBuffer' = IF ok THEN OnWriteComplete(mSendBuffer, Head(sends).len)
                          ELSE mSendBuffer
  /\ UNCHANGED history

(* What happens after the client got a wrong byte is not modelled.         *)
SendNext ==
  /\ intact
  /\ \/ \E ok \in BOOLEAN : \/ FlushClientSend(ok) \/ QuietPeriodWork(ok) \/ SendCompletion(ok)
                            \/ \E packet \in Packet : OnPeriodWork(packet, ok)
     \/ \E packet \in Packet : RecvCompletion(packet)
     \/ CarryOut

SendSpec == SendInit /\ [][SendNext]_sendVars

-----------------------------------------------------------------------------
SendTypeOK ==
  /\ pc \in {"loop", "sleep"} /\ mConnected \in BOOLEAN
  /\ mSendBuffer \in CircularBufferType
  /\ sends \in Seq(Send) /\ carriedOut \in 0 .. Len(sends)
  /\ undelivered \in Seq(Byte) /\ intact \in BOOLEAN /\ overlapped \in BOOLEAN

(* As long as no send was started while another one was in progress, the   *)
(* client gets exactly what SendRequest accepted: the writes made during   *)
(* an overlapped send never touch the memory it is read from.              *)
ExactUnlessOverlapped == intact \/ overlapped

(* ... and nothing is lost: the buffer holds what the client has not got,  *)
(* after what the send in progress has already handed over.                *)
NothingLost ==
  mConnected /\ ~overlapped =>
    LET given == IF carriedOut > 0 THEN Head(sends).len ELSE 0 IN
    /\ GetStoredSize(mSendBuffer) = given + Len(undelivered)
    /\ SubSeq(Content(mSendBuffer), given + 1, GetStoredSize(mSendBuffer)) = undelivered
=============================================================================
