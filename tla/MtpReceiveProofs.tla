-------------------------- MODULE MtpReceiveProofs --------------------------
(* j720fReceiveFileInUserspace loses nothing, reads nothing of the next     *)
(* transaction unless the host sent less than it announced, and returns 0   *)
(* for whole objects only, for every buffer and whatever the host announces *)
(* and sends, in however many pieces.                                       *)
EXTENDS MtpReceive, TLAPS

USE ReceiveAssumption

LEMMA AtMostFacts ==
    ASSUME NEW n \in Nat, NEW b \in Nat
    PROVE  AtMost(n, b) \in Nat /\ AtMost(n, b) <= n /\ AtMost(n, b) <= b /\ AtMost(n, b) \in {n, b}
  BY DEF AtMost

\* The numbers of a reachable state.
LEMMA Numbers ==
    ASSUME TypeOK
    PROVE  /\ announced \in Nat /\ length \in Nat /\ length <= announced
           /\ host \in Nat /\ next \in Nat /\ received \in Nat /\ written \in Nat
           /\ count \in Nat /\ count <= Chunk /\ offset \in Nat /\ offset <= count
           /\ Request \in Nat /\ Request <= Chunk
           /\ ~untilShort => Request <= length
           /\ untilShort => Request = Chunk
<1>1. /\ announced \in Nat /\ length \in Nat /\ length <= announced
      /\ host \in Nat /\ next \in Nat /\ received \in Nat /\ written \in Nat
      /\ count \in Nat /\ count <= Chunk /\ offset \in Nat /\ offset <= count
  BY DEF TypeOK
<1>2. CASE untilShort
  BY <1>1, <1>2 DEF Request
<1>3. CASE ~untilShort
  BY <1>1, <1>3, AtMostFacts DEF Request
<1> QED
  BY <1>1, <1>2, <1>3

\* The two flags stay flags, whatever a step does with the numbers.
Flags == untilShort \in BOOLEAN /\ ended \in BOOLEAN

LEMMA FlagsStep == Flags /\ [Next]_vars => Flags'
<1> SUFFICES ASSUME Flags, [Next]_vars PROVE Flags'
  OBVIOUS
<1>1. UNCHANGED untilShort
  BY Zenon DEF Next, Step, Read, ReadFails, AllRead, Write, WriteFails, BufferDone, Return, vars
<1>2. ended' \in BOOLEAN
  <2>1. CASE Read
    BY <2>1 DEF Read, ReadObject, ReadNext, Flags
  <2>2. CASE ~Read
    BY Zenon, <2>2 DEF Flags, Next, Step, ReadFails, AllRead, Write, WriteFails, BufferDone, Return, vars
  <2> QED
    BY <2>1, <2>2
<1> QED
  BY Zenon, <1>1, <1>2 DEF Flags

-----------------------------------------------------------------------------
LEMMA InitInv == Init => RInv
<1> SUFFICES ASSUME Init PROVE RInv
  OBVIOUS
<1>0. Flags
  BY Zenon DEF Init, Flags
<1>1. TypeOK
  BY <1>0 DEF Init, TypeOK, Flags
<1>2. NothingLost /\ AnnouncedInv /\ ShortInv
  BY DEF Init, NothingLost, AnnouncedInv, ShortInv
<1> QED
  BY <1>1, <1>2 DEF RInv

\* What a read of n bytes does, of the object or of what follows it.
ReadBytes(n) ==
    /\ phase = "read" /\ (untilShort \/ length > 0)
    /\ n \in Nat /\ n <= Request /\ received' = received + n
    /\ UNCHANGED <<untilShort, announced, length, written>>
    /\ \/ n > 0 /\ phase' = "write" /\ count' = n /\ offset' = 0
       \/ n = 0 /\ phase' = (IF untilShort THEN "ok" ELSE "failed") /\ UNCHANGED <<count, offset>>
    /\ host' \in Nat /\ next' \in Nat /\ host' + next' = host + next - n
    /\ \/ host' = host - n /\ next' = next
       \/ host = 0 /\ host' = 0 /\ ~untilShort
    /\ ended' => host' = 0
    /\ untilShort => (ended' <=> n < Chunk)

LEMMA ReadFacts == RInv /\ Read => \E n \in 0..Chunk : ReadBytes(n)
<1> SUFFICES ASSUME RInv, Read PROVE \E n \in 0..Chunk : ReadBytes(n)
  OBVIOUS
<1>1. PICK n \in 0..Chunk :
         /\ ReadObject(n) \/ ReadNext(n)
         /\ received' = received + n
         /\ IF n > 0
            THEN /\ phase' = "write" /\ count' = n /\ offset' = 0
                 /\ UNCHANGED <<untilShort, announced, length, written>>
            ELSE Return(IF untilShort THEN "ok" ELSE "failed")
  BY DEF Read
<1>2. /\ phase = "read" /\ (untilShort \/ length > 0)
      /\ UNCHANGED <<untilShort, announced, length, written>>
      /\ \/ n > 0 /\ phase' = "write" /\ count' = n /\ offset' = 0
         \/ n = 0 /\ phase' = (IF untilShort THEN "ok" ELSE "failed") /\ UNCHANGED <<count, offset>>
  BY <1>1 DEF Read, Return
<1>3. host \in Nat /\ next \in Nat /\ Request \in Nat /\ n \in Nat /\ (untilShort => Request = Chunk)
  BY Numbers, <1>1 DEF RInv
<1>4. CASE ReadObject(n)
  <2>1. /\ n <= AtMost(Request, host) /\ (untilShort => n = AtMost(Request, host))
        /\ host' = host - n /\ (ended' <=> n = host /\ n < Request) /\ next' = next
    BY <1>4 DEF ReadObject
  <2>2. /\ AtMost(Request, host) <= Request /\ AtMost(Request, host) <= host
        /\ AtMost(Request, host) \in {Request, host} /\ AtMost(Request, host) \in Nat
    BY <1>3, AtMostFacts
  <2>3. n <= Request /\ n <= host /\ (untilShort => n \in {Request, host})
    BY <1>3, <2>1, <2>2
  <2>4. host' \in Nat /\ next' \in Nat /\ host' + next' = host + next - n /\ (ended' => host' = 0)
    BY <1>3, <2>1, <2>3
  <2>5. untilShort => (ended' <=> n < Chunk)
    BY <1>3, <2>1, <2>3
  <2> QED
    BY ONLY <1>1, <1>2, <1>3, <2>1, <2>3, <2>4, <2>5 DEF ReadBytes
<1>5. CASE ReadNext(n)
  <2>1. ~untilShort
    BY <1>2, <1>5 DEF ReadNext, RInv, ShortInv
  <2>2. /\ host = 0 /\ host' = host /\ n <= AtMost(Request, next) /\ next' = next - n
    BY <1>5 DEF ReadNext
  <2>3. n <= Request /\ n <= next
    <3>1. AtMost(Request, next) \in Nat /\ AtMost(Request, next) <= Request /\ AtMost(Request, next) <= next
      BY <1>3, AtMostFacts
    <3> QED
      BY <1>3, <2>2, <3>1
  <2>4. host' \in Nat /\ next' \in Nat /\ host' + next' = host + next - n /\ host' = 0
    BY <1>3, <2>2, <2>3
  <2> QED
    BY <1>1, <1>2, <1>3, <2>1, <2>2, <2>3, <2>4 DEF ReadBytes
<1> QED
  BY <1>1, <1>4, <1>5

LEMMA ReadInv == RInv /\ Read => RInv'
<1> SUFFICES ASSUME RInv, Read PROVE RInv'
  OBVIOUS
<1>1. PICK n \in 0..Chunk : ReadBytes(n)
  BY ReadFacts
<1>2. /\ phase = "read" /\ (untilShort \/ length > 0)
      /\ n \in Nat /\ n <= Request /\ received' = received + n
      /\ UNCHANGED <<untilShort, announced, length, written>>
  BY <1>1 DEF ReadBytes
<1>3. \/ n > 0 /\ phase' = "write" /\ count' = n /\ offset' = 0
      \/ n = 0 /\ phase' = (IF untilShort THEN "ok" ELSE "failed") /\ UNCHANGED <<count, offset>>
  BY <1>1 DEF ReadBytes
<1>4. host' \in Nat /\ next' \in Nat
  BY <1>1 DEF ReadBytes
<1>5. TypeOK'
  <2>1. Flags'
    BY FlagsStep DEF Next, Step, RInv, TypeOK, Flags
  <2>2. received' \in Nat /\ count' \in 0..Chunk /\ offset' \in 0..count'
    BY <1>2, <1>3, Numbers DEF RInv
  <2>3. phase' \in {"read", "write", "ok", "failed"}
    BY <1>3
  <2> QED
    BY <1>2, <1>4, <2>1, <2>2, <2>3 DEF RInv, TypeOK, Flags
<1>6. NothingLost'
  <2>1. received = written /\ received' - written' = n
    BY <1>2, Numbers DEF RInv, NothingLost
  <2>2. phase' # "failed" => n = IF phase' = "write" THEN count' - offset' ELSE 0
    BY <1>2, <1>3
  <2> QED
    BY <2>1, <2>2 DEF NothingLost
<1>7. AnnouncedInv'
  BY <1>2, <1>3, Numbers DEF RInv, AnnouncedInv
<1>8. ShortInv'
  <2>1. ended' => host' = 0
    BY <1>1 DEF ReadBytes, RInv, ShortInv
  <2>2. CASE untilShort
    <3>1. ended' <=> n < Chunk
      BY <1>1, <2>2 DEF ReadBytes
    <3> QED
      BY <1>2, <1>3, <2>1, <2>2, <3>1, Numbers DEF RInv, ShortInv
  <2>3. CASE ~untilShort
    BY <1>2, <2>1, <2>3 DEF ShortInv
  <2> QED
    BY <2>2, <2>3
<1> QED
  BY <1>5, <1>6, <1>7, <1>8 DEF RInv

LEMMA EndInv == RInv /\ (ReadFails \/ AllRead \/ WriteFails) => RInv'
<1> SUFFICES ASSUME RInv, ReadFails \/ AllRead \/ WriteFails PROVE RInv'
  OBVIOUS
<1>1. /\ UNCHANGED <<untilShort, announced, length, count, offset, written, host, ended, next, received>>
      /\ phase' = "failed" \/ (phase = "read" /\ ~untilShort /\ length = 0 /\ phase' = "ok")
  BY Zenon DEF ReadFails, AllRead, WriteFails, Return
<1>2. TypeOK'
  BY <1>1 DEF RInv, TypeOK
<1>3. NothingLost' /\ AnnouncedInv' /\ ShortInv'
  BY <1>1 DEF RInv, NothingLost, AnnouncedInv, ShortInv
<1> QED
  BY <1>2, <1>3 DEF RInv

LEMMA WriteInv == RInv /\ Write => RInv'
<1> SUFFICES ASSUME RInv, Write PROVE RInv'
  OBVIOUS
<1>1. PICK n \in 1..(count - offset) : offset' = offset + n /\ written' = written + n
  BY DEF Write
<1>2. phase = "write" /\ UNCHANGED <<phase, untilShort, announced, length, host, ended, next, received, count>>
  BY Zenon DEF Write
<1>3. TypeOK'
  BY <1>1, <1>2, Numbers DEF RInv, TypeOK
<1>4. NothingLost'
  BY <1>1, <1>2, Numbers DEF RInv, NothingLost
<1>5. AnnouncedInv' /\ ShortInv'
  BY <1>2 DEF RInv, AnnouncedInv, ShortInv
<1> QED
  BY <1>3, <1>4, <1>5 DEF RInv

LEMMA BufferDoneInv == RInv /\ BufferDone => RInv'
<1> SUFFICES ASSUME RInv, BufferDone PROVE RInv'
  OBVIOUS
<1>1. /\ phase = "write" /\ offset = count
      /\ length' = (IF untilShort THEN length ELSE length - count)
      /\ phase' = (IF untilShort /\ count < Chunk THEN "ok" ELSE "read")
      /\ UNCHANGED <<untilShort, announced, host, ended, next, received, count, offset, written>>
  BY Zenon DEF BufferDone
<1>2. TypeOK'
  BY <1>1, Numbers DEF RInv, TypeOK, AnnouncedInv
<1>3. NothingLost'
  BY <1>1, Numbers DEF RInv, NothingLost
<1>4. AnnouncedInv'
  BY <1>1, Numbers DEF RInv, AnnouncedInv
<1>5. ShortInv'
  BY <1>1, Numbers DEF RInv, ShortInv
<1> QED
  BY <1>2, <1>3, <1>4, <1>5 DEF RInv

LEMMA StepInv == RInv /\ [Next]_vars => RInv'
<1> SUFFICES ASSUME RInv, UNCHANGED vars PROVE RInv'
  BY ReadInv, EndInv, WriteInv, BufferDoneInv DEF Next, Step
<1> QED
  BY DEF vars, RInv, TypeOK, NothingLost, AnnouncedInv, ShortInv

-----------------------------------------------------------------------------
(* The invariant of the reception.                                          *)
THEOREM ReceiveInvariance == Spec => []RInv
  BY InitInv, StepInv, PTL DEF Spec

(* Type correctness; no position leaves the buffer.                         *)
THEOREM TypeCorrect == Spec => []TypeOK
<1>1. RInv => TypeOK
  BY DEF RInv
<1> QED
  BY ReceiveInvariance, <1>1, PTL

(* Short writes lose nothing: the file lacks the rest of the buffer only.   *)
THEOREM NothingIsLost == Spec => []NothingLost
<1>1. RInv => NothingLost
  BY DEF RInv
<1> QED
  BY ReceiveInvariance, <1>1, PTL

(* 0 is returned for a whole object only.                                   *)
THEOREM SuccessWhole == Spec => []SuccessIsWhole
<1>1. RInv => SuccessIsWhole
  BY Numbers DEF RInv, NothingLost, AnnouncedInv, ShortInv, SuccessIsWhole
<1> QED
  BY ReceiveInvariance, <1>1, PTL

(* What follows the object is left to the next transaction: nothing is read *)
(* after the short packet of an object of unknown size, and of an announced *)
(* one never more than was announced.                                       *)
THEOREM NothingBeyond == Spec => StopsInTime
<1> DEFINE Stops == received' # received => IF untilShort THEN next' = next ELSE received' <= announced
<1>1. RInv /\ [Next]_vars => [Stops]_vars
  <2> SUFFICES ASSUME RInv, Next, received' # received
               PROVE  IF untilShort THEN next' = next ELSE received' <= announced
    BY DEF vars
  <2>1. Read
    BY Zenon DEF Next, Step, ReadFails, AllRead, Write, WriteFails, BufferDone
  <2>2. PICK n \in 0..Chunk : ReadBytes(n)
    BY <2>1, ReadFacts
  <2>3. untilShort => next' = next
    BY <2>2 DEF ReadBytes
  <2>4. phase = "read" /\ n \in Nat /\ n <= Request /\ received' = received + n
    BY <2>2 DEF ReadBytes
  <2>5. ~untilShort => received' <= announced
    BY <2>4, Numbers DEF RInv, AnnouncedInv
  <2> QED
    BY <2>3, <2>5
<1> QED
  BY ReceiveInvariance, <1>1, PTL DEF Spec, StopsInTime

-----------------------------------------------------------------------------
(* The end of the call.                                                     *)

LEMMA StepsLeftNat == RInv => StepsLeft \in Nat
<1> SUFFICES ASSUME RInv PROVE StepsLeft \in Nat
  OBVIOUS
<1>1. host \in Nat /\ next \in Nat /\ count \in Nat /\ offset \in Nat /\ offset <= count
  BY Numbers DEF RInv
<1>2. CASE phase = "read"
  BY <1>1, <1>2 DEF StepsLeft
<1>3. CASE phase = "write"
  BY <1>1, <1>3 DEF StepsLeft
<1>4. CASE phase \notin {"read", "write"}
  BY <1>4 DEF StepsLeft
<1> QED
  BY <1>2, <1>3, <1>4

LEMMA StepsLeftFall == RInv /\ Next => StepsLeft' < StepsLeft
<1> SUFFICES ASSUME RInv, Next PROVE StepsLeft' < StepsLeft
  OBVIOUS
<1>1. host \in Nat /\ next \in Nat /\ count \in Nat /\ offset \in Nat /\ offset <= count
  BY Numbers DEF RInv
<1>2. CASE Read
  <2>1. PICK n \in 0..Chunk : ReadBytes(n)
    BY <1>2, ReadFacts
  <2>2. /\ phase = "read" /\ host' \in Nat /\ next' \in Nat /\ n \in Nat
        /\ host' + next' = host + next - n
    BY <2>1 DEF ReadBytes
  <2>3. \/ n > 0 /\ phase' = "write" /\ count' = n /\ offset' = 0
        \/ phase' \in {"ok", "failed"}
    BY <2>1 DEF ReadBytes
  <2> QED
    BY <1>1, <2>2, <2>3 DEF StepsLeft
<1>3. CASE ReadFails \/ AllRead \/ WriteFails
  <2>1. phase \in {"read", "write"} /\ phase' \in {"ok", "failed"}
    BY <1>3 DEF ReadFails, AllRead, WriteFails, Return
  <2> QED
    BY <1>1, <2>1 DEF StepsLeft
<1>4. CASE Write
  <2>1. PICK n \in 1..(count - offset) : offset' = offset + n
    BY <1>4 DEF Write
  <2>2. phase = "write" /\ phase' = "write" /\ host' = host /\ next' = next /\ count' = count
    BY Zenon, <1>4 DEF Write
  <2> QED
    BY <1>1, <2>1, <2>2 DEF StepsLeft
<1>5. CASE BufferDone
  <2>1. /\ phase = "write" /\ phase' \in {"read", "ok"} /\ host' = host /\ next' = next /\ offset = count
    BY <1>5 DEF BufferDone
  <2> QED
    BY <1>1, <2>1 DEF StepsLeft
<1> QED
  BY <1>2, <1>3, <1>4, <1>5 DEF Next, Step

(* The call cannot go on for ever: each of its steps brings it nearer to    *)
(* its end.                                                                 *)
THEOREM ReceivingEnds == Spec => [](StepsLeft \in Nat) /\ NearerToEnd
<1>1. RInv /\ [Next]_vars => [StepsLeft' < StepsLeft]_vars
  BY StepsLeftFall
<1> QED
  BY ReceiveInvariance, StepsLeftNat, <1>1, PTL DEF Spec, NearerToEnd

LEMMA PromisedStep == RInv /\ PromisedInv /\ [Next]_vars => PromisedInv'
<1> SUFFICES ASSUME RInv, PromisedInv, [Next]_vars, ~untilShort', phase' # "failed"
             PROVE  length' <= host' + (IF phase' = "write" THEN count' ELSE 0)
  BY Zenon DEF PromisedInv
<1>1. /\ host \in Nat /\ length \in Nat /\ count \in Nat /\ offset \in Nat /\ offset <= count
  BY Numbers DEF RInv
<1>2. ~untilShort
  BY Zenon DEF Next, Step, Read, ReadFails, AllRead, Write, WriteFails, BufferDone, Return, vars
<1>3. phase # "failed" => length <= host + (IF phase = "write" THEN count ELSE 0)
  BY <1>2 DEF PromisedInv
<1>4. CASE Read
  <2>1. PICK n \in 0..Chunk : ReadBytes(n)
    BY <1>4, ReadFacts
  <2>2. /\ phase = "read" /\ n \in Nat /\ length' = length /\ length > 0
        /\ host' = host - n \/ host = 0
    BY <1>2, <2>1 DEF ReadBytes
  <2>3. n > 0 /\ phase' = "write" /\ count' = n
    BY <1>2, <2>1 DEF ReadBytes
  <2> QED
    BY <1>1, <1>3, <2>2, <2>3
<1>5. CASE AllRead
  <2>1. phase = "read" /\ phase' = "ok" /\ length' = length /\ host' = host
    BY Zenon, <1>5 DEF AllRead, Return
  <2> QED
    BY <1>1, <1>3, <2>1
<1>6. CASE ReadFails \/ WriteFails
  BY <1>6 DEF ReadFails, WriteFails, Return
<1>7. CASE Write
  BY Zenon, <1>3, <1>7 DEF Write
<1>8. CASE BufferDone
  <2>1. phase = "write" /\ phase' = "read" /\ length' = length - count /\ host' = host
    BY <1>2, <1>8 DEF BufferDone
  <2> QED
    BY <1>1, <1>3, <2>1
<1>9. CASE UNCHANGED vars
  BY Zenon, <1>3, <1>9 DEF vars
<1> QED
  BY <1>4, <1>5, <1>6, <1>7, <1>8, <1>9 DEF Next, Step

(* The call waits for nothing when the host sends what it announced: while  *)
(* it asks for another buffer, the host has one to send or its short packet.*)
THEOREM ReceivingNeverWaits ==
    Spec /\ (untilShort \/ host >= announced) => []NeverWaits
<1>1. Init /\ (untilShort \/ host >= announced) => PromisedInv
  BY DEF Init, PromisedInv
<1>2. RInv /\ PromisedInv => NeverWaits
  <2> SUFFICES ASSUME RInv, PromisedInv, phase = "read", ended PROVE ~untilShort /\ length = 0
    BY DEF NeverWaits
  <2>1. ~untilShort /\ host = 0
    BY DEF RInv, ShortInv
  <2>2. length <= host
    BY <2>1 DEF PromisedInv
  <2> QED
    BY <2>1, <2>2, Numbers DEF RInv
<1> QED
  BY ReceiveInvariance, PromisedStep, <1>1, <1>2, PTL DEF Spec
=============================================================================
