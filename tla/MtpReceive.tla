---------------------------- MODULE MtpReceive -----------------------------
(* j720fReceiveFileInUserspace: the payload of an object sent by the host is*)
(* copied from the MTP endpoint to a file, either an announced number of    *)
(* bytes or, when the size did not fit the protocol's field, everything up  *)
(* to a short packet.  Writes may be short and every call may fail; calls   *)
(* that return EINTR are made again and are no step here.                   *)
EXTENDS Integers

CONSTANTS
    Chunk,      \* the buffer, 16384 in the code
    Lengths,    \* the payload lengths the host may announce
    HostSizes,  \* the payloads the host may send
    Following   \* the bytes of the next transaction that may follow them

ASSUME ReceiveAssumption ==
    /\ Chunk \in Nat \ {0}
    /\ Lengths \subseteq Nat /\ HostSizes \subseteq Nat /\ Following \subseteq Nat

VARIABLES
    phase,      \* "read", "write", "ok" (returned 0), "failed" (returned -1)
    untilShort, \* untilShortPacket
    announced,  \* the length argument of the call
    length,     \* what is left of it
    host,       \* bytes of the object that were not read yet
    ended,      \* the short packet that ends it, empty or not, was read
    next,       \* bytes of the next transaction that were not read yet
    received,   \* bytes read from the endpoint
    count,      \* bytes in the buffer
    offset,     \* bytes of the buffer that are in the file
    written     \* bytes in the file

vars == <<phase, untilShort, announced, length, host, ended, next, received, count, offset, written>>

TypeOK ==
    /\ phase \in {"read", "write", "ok", "failed"}
    /\ untilShort \in BOOLEAN /\ ended \in BOOLEAN
    /\ announced \in Lengths
    /\ length \in 0..announced
    /\ {host, next, received, written} \subseteq Nat
    /\ count \in 0..Chunk
    /\ offset \in 0..count

Init ==
    /\ phase = "read"
    /\ untilShort \in BOOLEAN
    /\ announced \in Lengths /\ length = announced
    /\ host \in HostSizes /\ next \in Following
    /\ ended = FALSE
    /\ received = 0 /\ count = 0 /\ offset = 0 /\ written = 0

AtMost(n, bound) == IF n < bound THEN n ELSE bound

Return(status) ==
    phase' = status /\ UNCHANGED <<untilShort, announced, length, count, offset, written>>

-----------------------------------------------------------------------------
\* Mutant: always a full buffer is requested.
RequestFull == Chunk

Request == IF untilShort THEN Chunk ELSE AtMost(length, Chunk)

\* n bytes of the object.  Where its size is unknown only its end is a short
\* packet; the host may send an announced object in several transfers, each with
\* a short packet at its end.
ReadObject(n) ==
    /\ ~ended /\ n <= AtMost(Request, host)
    /\ untilShort => n = AtMost(Request, host)
    /\ host' = host - n
    /\ ended' = (n = host /\ n < Request)
    /\ UNCHANGED next

\* n bytes of what follows it: nothing keeps a read from taking them.
ReadNext(n) ==
    /\ host = 0 /\ (ended \/ ~untilShort)
    /\ n > 0 /\ n <= AtMost(Request, next)
    /\ next' = next - n
    /\ UNCHANGED <<host, ended>>

\* A read blocks where there is nothing to read.
Read ==
    /\ phase = "read" /\ (untilShort \/ length > 0)
    /\ \E n \in 0..Chunk :
          /\ ReadObject(n) \/ ReadNext(n)
          /\ received' = received + n
          /\ IF n > 0
             THEN /\ phase' = "write" /\ count' = n /\ offset' = 0
                  /\ UNCHANGED <<untilShort, announced, length, written>>
             ELSE Return(IF untilShort THEN "ok" ELSE "failed")

\* The transfer is cancelled or the cable is pulled.
ReadFails ==
    /\ phase = "read" /\ (untilShort \/ length > 0)
    /\ Return("failed")
    /\ UNCHANGED <<host, ended, next, received>>

AllRead ==
    /\ phase = "read" /\ ~untilShort /\ length = 0
    /\ Return("ok")
    /\ UNCHANGED <<host, ended, next, received>>

Write ==
    /\ phase = "write" /\ offset < count
    /\ \E n \in 1..(count - offset) : offset' = offset + n /\ written' = written + n
    /\ UNCHANGED <<phase, untilShort, announced, length, host, ended, next, received, count>>

\* The write fails or writes nothing: the disk is full.
WriteFails ==
    /\ phase = "write" /\ offset < count
    /\ Return("failed")
    /\ UNCHANGED <<host, ended, next, received>>

\* Mutant: the rest of a short write is forgotten.
BufferSaved ==
    /\ phase = "write" /\ offset > 0
    /\ length' = IF untilShort THEN length ELSE length - count
    /\ phase' = IF untilShort /\ count < Chunk THEN "ok" ELSE "read"
    /\ UNCHANGED <<untilShort, announced, host, ended, next, received, count, offset, written>>

\* Mutant: what was requested is counted, not what was read.
BufferCountsRequest ==
    /\ phase = "write" /\ offset = count
    /\ length' = IF untilShort THEN length ELSE length - AtMost(length, Chunk)
    /\ phase' = IF untilShort /\ count < Chunk THEN "ok" ELSE "read"
    /\ UNCHANGED <<untilShort, announced, host, ended, next, received, count, offset, written>>

\* Mutant: only an empty read ends the object.
BufferNeverShort ==
    /\ phase = "write" /\ offset = count
    /\ length' = IF untilShort THEN length ELSE length - count
    /\ phase' = "read"
    /\ UNCHANGED <<untilShort, announced, host, ended, next, received, count, offset, written>>

\* The buffer is in the file: a short one ends an object of unknown size.
BufferDone ==
    /\ phase = "write" /\ offset = count
    /\ length' = IF untilShort THEN length ELSE length - count
    /\ phase' = IF untilShort /\ count < Chunk THEN "ok" ELSE "read"
    /\ UNCHANGED <<untilShort, announced, host, ended, next, received, count, offset, written>>

Step == Read \/ ReadFails \/ AllRead \/ Write \/ WriteFails \/ BufferDone

Next == Step

Spec == Init /\ [][Next]_vars /\ WF_vars(Read \/ AllRead) /\ WF_vars(Write \/ WriteFails \/ BufferDone)

-----------------------------------------------------------------------------
(* Returning 0 means the file holds the object: everything the host sent up *)
(* to its short packet, or exactly the announced number of bytes.           *)
SuccessIsWhole ==
    phase = "ok" => /\ written = received
                    /\ IF untilShort THEN host = 0 /\ ended ELSE written = announced

(* At every moment the file holds what was read, in order, but for the rest *)
(* of the buffer.                                                           *)
NothingLost == phase # "failed" => received - written = IF phase = "write" THEN count - offset ELSE 0

(* What is not of the object is left to the next transaction: after the     *)
(* short packet of an object of unknown size nothing is read, and of an     *)
(* announced one never more than was announced, so that a read runs into the*)
(* next transaction only where the host sent less than that.                *)
StopsInTime ==
    [][received' # received => IF untilShort THEN next' = next ELSE received' <= announced]_vars

(* The call returns when the host sends what it announced.                  *)
Returns == (untilShort \/ host >= announced) => <>(phase \in {"ok", "failed"})

-----------------------------------------------------------------------------
(* The inductive invariant behind them.                                     *)

\* Of an announced object, length is what the file lacks, the buffer included.
AnnouncedInv ==
    ~untilShort /\ phase # "failed" =>
        /\ received = announced - length + (IF phase = "write" THEN count ELSE 0)
        /\ phase = "write" => count <= length
        /\ phase = "ok" => length = 0

\* An object of unknown size ends with the first buffer that is not full.
ShortInv ==
    /\ ended => host = 0
    /\ untilShort /\ phase = "read" => ~ended
    /\ untilShort /\ phase = "write" => (ended <=> count < Chunk)
    /\ untilShort /\ phase = "ok" => ended

RInv == TypeOK /\ NothingLost /\ AnnouncedInv /\ ShortInv

\* How many steps the call takes at most from here on.
StepsLeft ==
    CASE phase = "read"  -> 3 * (host + next) + 1
      [] phase = "write" -> 3 * (host + next) + count - offset + 2
      [] OTHER           -> 0

(* Each step of the call brings it nearer to its end, whatever the host     *)
(* announces: a short write never makes it start a buffer again.            *)
NearerToEnd == [][StepsLeft' < StepsLeft]_vars

\* Until it fails, the host still has what the announcement promises.
PromisedInv ==
    ~untilShort /\ phase # "failed" => length <= host + (IF phase = "write" THEN count ELSE 0)

(* The call waits for nothing: it asks for another buffer only while the    *)
(* host has not ended its transfer.                                         *)
NeverWaits == phase = "read" => (~untilShort /\ length = 0) \/ ~ended
=============================================================================
