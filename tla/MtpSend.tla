------------------------------ MODULE MtpSend ------------------------------
(* j720fSendFileInUserspace: an object of the recovery is sent to the host  *)
(* as one MTP data container, a header followed by the file, in writes of a *)
(* full buffer.  Reads may be short, the file may be changed by another     *)
(* process while it is sent, and every call may fail.  A call that returns  *)
(* EINTR is made again, which changes nothing and is no step here.          *)
(*                                                                          *)
(* Sizes are parameters: 16384, 12, 512 and 2^32 - 1 in the code.           *)
EXTENDS Integers

CONSTANTS
    Chunk,      \* the buffer
    Header,     \* the container header
    Packet,     \* the USB packet
    MaxField,   \* the largest value of the length field: "until a short packet"
    Lengths,    \* the file lengths doGetObject may pass, negative after an overflow
    Sizes       \* the sizes the file may really have

ASSUME SendAssumption ==
    /\ Chunk \in Nat /\ Header \in Nat \ {0} /\ Packet \in Nat /\ MaxField \in Nat
    /\ Header < Chunk /\ Packet > 1
    /\ Chunk % Packet = 0 /\ (MaxField + 1) % Packet = 0
    /\ Lengths \subseteq Int /\ Sizes \subseteq Nat

VARIABLES
    phase,      \* "start", "fill", "ok" (returned 0), "failed" (returned -1)
    length,     \* fileLength
    size,       \* the size of the file now
    pos,        \* the file offset
    remaining,  \* file bytes not yet written to the host
    want,       \* file bytes to be read into the buffer
    got,        \* file bytes in the buffer
    field,      \* containerLength
    sent        \* bytes the host was given, header included

vars == <<phase, length, size, pos, remaining, want, got, field, sent>>

TypeOK ==
    /\ phase \in {"start", "fill", "ok", "failed"}
    /\ length \in Lengths
    /\ size \in Sizes
    /\ {pos, remaining, want, got, sent} \subseteq Nat
    /\ field \in 0..MaxField

Init ==
    /\ phase = "start"
    /\ length \in Lengths
    /\ size \in Sizes
    /\ pos = 0 /\ remaining = 0 /\ want = 0 /\ got = 0 /\ field = 0 /\ sent = 0

AtMost(n, bound) == IF n < bound THEN n ELSE bound

Fail == phase' = "failed" /\ UNCHANGED <<length, size, pos, remaining, want, got, field>>

-----------------------------------------------------------------------------
\* Mutant: the length field is not saturated.
UnsaturatedLength(n) == n + Header

\* Mutant: the length field wraps around.
WrappedLength(n) == (n + Header) % (MaxField + 1)

ContainerLength(n) == IF n + Header > MaxField THEN MaxField ELSE n + Header

\* A negative length is refused; otherwise seek to the start, build the header
\* and leave room for it in the first buffer.
Start ==
    /\ phase = "start"
    /\ length >= 0
    /\ phase' = "fill"
    /\ pos' = 0
    /\ remaining' = length
    /\ field' = ContainerLength(length)
    /\ want' = AtMost(length, Chunk - Header)
    /\ got' = 0
    /\ UNCHANGED <<length, size, sent>>

StartFails == phase = "start" /\ Fail /\ UNCHANGED sent

\* Mutant: a short read is taken for a full one.
FillOnce ==
    /\ phase = "fill"
    /\ got < want
    /\ \E n \in 1..(want - got) :
          /\ n <= size - pos
          /\ got' = want
          /\ pos' = pos + n
    /\ UNCHANGED <<phase, length, size, remaining, want, field, sent>>

\* One read of j720fReadFileExact.
Fill ==
    /\ phase = "fill"
    /\ got < want
    /\ \E n \in 1..(want - got) :
          /\ n <= size - pos
          /\ got' = got + n
          /\ pos' = pos + n
    /\ UNCHANGED <<phase, length, size, remaining, want, field, sent>>

\* Mutant: the end of the file is read again and again.
FillFailsNotAtEnd == phase = "fill" /\ got < want /\ pos < size /\ Fail /\ UNCHANGED sent

\* The read fails or meets the end of a file that has become shorter.
FillFails == phase = "fill" /\ got < want /\ Fail /\ UNCHANGED sent

Lead == IF sent = 0 THEN Header ELSE 0

\* Mutant: the header goes out in a write of its own.
WriteHeaderAlone ==
    /\ phase = "fill"
    /\ got = want
    /\ sent' = sent + Lead
    /\ IF Lead > 0
       THEN UNCHANGED <<phase, remaining, want, got>>
       ELSE /\ remaining' = remaining - got
            /\ want' = AtMost(remaining - got, Chunk)
            /\ got' = 0
            /\ phase' = IF remaining = got THEN "ok" ELSE "fill"
    /\ UNCHANGED <<length, size, pos, field>>

\* j720fWriteMtpChunk takes the whole buffer; the next one is begun.
Write ==
    /\ phase = "fill"
    /\ got = want
    /\ sent' = sent + Lead + got
    /\ remaining' = remaining - got
    /\ want' = AtMost(remaining - got, Chunk)
    /\ got' = 0
    /\ phase' = IF remaining = got THEN "ok" ELSE "fill"
    /\ UNCHANGED <<length, size, pos, field>>

\* The write fails; a short one is not completed, since that would end a USB
\* transfer in the middle of the container.
WriteFails ==
    /\ phase = "fill"
    /\ got = want
    /\ \E n \in 0..(Lead + got - 1) : sent' = sent + n
    /\ Fail

FileChanges ==
    /\ phase \in {"start", "fill"}
    /\ size' \in Sizes \ {size}
    /\ UNCHANGED <<phase, length, pos, remaining, want, got, field, sent>>

Step == Start \/ StartFails \/ Fill \/ FillFails \/ Write \/ WriteFails

Next == Step \/ FileChanges

Spec == Init /\ [][Next]_vars /\ WF_vars(Step)

-----------------------------------------------------------------------------
(* Returning 0 means the host was given the header and every byte of the    *)
(* announced length, each read once and from its own place in the file.     *)
SuccessIsWhole == phase = "ok" => sent = Header + length /\ pos = length

(* No short packet ends the transfer early: more data only ever follows     *)
(* full buffers.                                                            *)
NoPrematureShort == [][sent' > sent => sent % Chunk = 0]_vars

(* The host sees where the container ends: by its length field, or, where   *)
(* the field is saturated, by a short packet.  The exception is a container *)
(* longer than the field whose last packet is full: the helper sends no     *)
(* empty packet of its own.                                                 *)
HostSeesEnd ==
    IF field < MaxField THEN field = sent ELSE sent % Packet # 0

EndIsVisible ==
    phase = "ok" => HostSeesEnd \/ (length + Header > MaxField /\ (length + Header) % Packet = 0)

(* The helper returns, whatever happens to the file meanwhile.              *)
Returns == <>(phase \in {"ok", "failed"})

-----------------------------------------------------------------------------
(* The inductive invariant behind them.                                     *)

\* Room for file bytes in the buffer that is being filled.
Room == Chunk - Lead

\* While the file is sent: the file offset, what is left and what the host has
\* agree, the buffer is filled as far as possible, and full ones went before.
SendingInv ==
    phase = "fill" =>
        /\ length >= 0 /\ remaining <= length /\ field = ContainerLength(length)
        /\ want = AtMost(remaining, Room) /\ got <= want
        /\ pos = length - remaining + got
        /\ IF sent = 0
           THEN remaining = length
           ELSE sent = Header + length - remaining /\ remaining > 0 /\ sent % Chunk = 0

SInv ==
    /\ TypeOK /\ SendingInv /\ SuccessIsWhole
    /\ phase = "start" => sent = 0
    /\ phase = "ok" => length >= 0 /\ field = ContainerLength(length)

\* How many steps the helper takes at most from here on.
StepsLeft ==
    CASE phase = "start" -> IF length < 0 THEN 1 ELSE 2 * length + 2
      [] phase = "fill"  -> 2 * remaining - got + 1
      [] OTHER           -> 0

(* However short the reads are and however the file changes meanwhile, each *)
(* step of the helper brings it nearer to its end: no read or write is      *)
(* repeated without progress, and no change of the file makes it begin again.*)
NearerToEnd == [][StepsLeft' < StepsLeft \/ (size' # size /\ StepsLeft' = StepsLeft)]_vars
=============================================================================
