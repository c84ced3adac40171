----------------------------- MODULE ByteQueue -----------------------------
(***************************************************************************)
(* What a user of CircularBuffer may rely on: a FIFO of bytes.  A write is *)
(* all or nothing; it may be refused although there is room, but never     *)
(* while the queue would be at most half full with the new data in it.     *)
(* Every call records what it returned in `ret'.                           *)
(***************************************************************************)
EXTENDS Integers, Sequences

CONSTANTS Capacity, Byte, MaxTransfer

VARIABLES
  queue,    \* the stored bytes, oldest first
  granted,  \* the space offered to a receive that is still in progress, or -1
  ret       \* what the last call returned

vars == <<queue, granted, ret>>

Transfer == UNION {[1 .. n -> Byte] : n \in 1 .. MaxTransfer}
Ok(bytes, size) == [ok |-> TRUE, bytes |-> bytes, size |-> size]
Refused == [ok |-> FALSE, bytes |-> <<>>, size |-> 0]
NothingGranted == -1

(* More than half of the capacity would be in use.                         *)
Crowded(n) == 2 * (Len(queue) + n) > Capacity

Init ==
  /\ queue = <<>>
  /\ granted = NothingGranted
  /\ ret = Refused

Write(data) ==
  /\ granted = NothingGranted
  /\ UNCHANGED granted
  /\ \/ /\ Len(queue) + Len(data) <= Capacity
        /\ queue' = queue \o data
        /\ ret' = Ok(<<>>, 0)
     \/ /\ Crowded(Len(data))
        /\ UNCHANGED queue
        /\ ret' = Refused

Peek(n) ==
  /\ UNCHANGED <<queue, granted>>
  /\ ret' = IF n <= Len(queue) THEN Ok(SubSeq(queue, 1, n), 0) ELSE Refused

Read(n) ==
  /\ granted = NothingGranted
  /\ UNCHANGED granted
  /\ IF n <= Len(queue)
     THEN /\ queue' = SubSeq(queue, n + 1, Len(queue))
          /\ ret' = Ok(SubSeq(queue, 1, n), 0)
     ELSE /\ UNCHANGED queue
          /\ ret' = Refused

Remove(len) ==
  /\ granted = NothingGranted
  /\ queue' = IF len <= Len(queue) THEN SubSeq(queue, len + 1, Len(queue)) ELSE <<>>
  /\ ret' = Ok(<<>>, 0)
  /\ UNCHANGED granted

(* Space offered for a receive: with one byte more it would be crowded.    *)
Grant ==
  /\ granted = NothingGranted
  /\ \E size \in 0 .. Capacity - Len(queue) :
       /\ Crowded(size + 1)
       /\ granted' = size
       /\ ret' = Ok(<<>>, size)
  /\ UNCHANGED queue

Received(data) ==
  /\ Len(data) <= granted
  /\ queue' = queue \o data
  /\ granted' = NothingGranted
  /\ ret' = Ok(<<>>, 0)

Next ==
  \/ \E data \in Transfer : Write(data) \/ Received(data)
  \/ \E n \in 0 .. MaxTransfer : Peek(n) \/ Read(n)
  \/ \E len \in 0 .. MaxTransfer : Remove(len)
  \/ Grant

Spec == Init /\ [][Next]_vars
=============================================================================
