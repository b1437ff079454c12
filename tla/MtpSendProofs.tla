--------------------------- MODULE MtpSendProofs ---------------------------
(* The data container j720fSendFileInUserspace sends is whole and its end   *)
(* is visible to the host, for every buffer, header, packet and length that *)
(* keep the relations of SendAssumption.                                    *)
EXTENDS MtpSend, TLAPS

USE SendAssumption

LEMMA FullBuffersAdd ==
    ASSUME NEW a \in Nat, NEW b \in Nat \ {0}, a % b = 0
    PROVE  (a + b) % b = 0
<1> DEFINE q == a \div b
<1>1. q \in Int /\ a = b * q
  OBVIOUS
<1>2. a + b = b * (q + 1) /\ q + 1 \in Int
  BY <1>1
<1>3. \A k \in Int : (b * k) % b = 0
  OBVIOUS
<1> QED
  BY <1>2, <1>3

LEMMA OneBuffer == 0 % Chunk = 0 /\ Chunk % Chunk = 0
  OBVIOUS

LEMMA AtMostFacts ==
    ASSUME NEW n \in Nat, NEW b \in Nat
    PROVE  AtMost(n, b) \in Nat /\ AtMost(n, b) <= n /\ AtMost(n, b) <= b /\ AtMost(n, b) \in {n, b}
  BY DEF AtMost

LEMMA FieldFacts ==
    ASSUME NEW n \in Nat
    PROVE  ContainerLength(n) \in 0..MaxField
  BY DEF ContainerLength

\* The numbers of a reachable state.
LEMMA Numbers ==
    ASSUME TypeOK
    PROVE  /\ pos \in Nat /\ remaining \in Nat /\ want \in Nat /\ got \in Nat /\ sent \in Nat
           /\ length \in Int /\ size \in Nat
           /\ Lead \in Nat /\ Room \in Nat /\ Room > 0
  BY DEF TypeOK, Lead, Room

-----------------------------------------------------------------------------
LEMMA InitInv == Init => SInv
  BY DEF Init, SInv, TypeOK, SendingInv, SuccessIsWhole

LEMMA StartInv == SInv /\ Start => SInv'
<1> SUFFICES ASSUME SInv, Start PROVE SInv'
  OBVIOUS
<1>1. /\ phase = "start" /\ phase' = "fill" /\ length \in Nat /\ sent = 0
      /\ pos' = 0 /\ remaining' = length /\ got' = 0 /\ UNCHANGED <<length, size, sent>>
      /\ field' = ContainerLength(length) /\ want' = AtMost(length, Chunk - Header)
  BY DEF SInv, TypeOK, Start
<1>2. Chunk - Header \in Nat
  OBVIOUS
<1>3. TypeOK'
  BY <1>1, <1>2, AtMostFacts, FieldFacts DEF SInv, TypeOK
<1>4. SendingInv'
  BY <1>1, <1>2, AtMostFacts DEF SendingInv, Room, Lead
<1> QED
  BY <1>1, <1>3, <1>4 DEF SInv, SuccessIsWhole

\* A failure needs nothing of what was sent.
LEMMA FailInv == SInv /\ Fail /\ sent' \in Nat => SInv'
  BY DEF SInv, TypeOK, SendingInv, SuccessIsWhole, Fail

LEMMA FillInv == SInv /\ Fill => SInv'
<1> SUFFICES ASSUME SInv, Fill PROVE SInv'
  OBVIOUS
<1>1. PICK n \in 1..(want - got) : got' = got + n /\ pos' = pos + n
  BY DEF Fill
<1>2. phase = "fill" /\ UNCHANGED <<phase, length, size, remaining, want, field, sent>>
  BY DEF Fill
<1>3. n \in Nat /\ got' \in Nat /\ pos' \in Nat /\ got' <= want
  BY <1>1, Numbers DEF SInv
<1>4. TypeOK'
  BY <1>2, <1>3 DEF SInv, TypeOK
<1>5. SendingInv'
  BY <1>1, <1>2, <1>3, Numbers DEF SInv, SendingInv, Room, Lead
<1> QED
  BY <1>2, <1>4, <1>5 DEF SInv, SuccessIsWhole

\* A buffer that does not hold the rest of the file is full, also after it.
LEMMA WriteInv == SInv /\ Write => SInv'
<1> SUFFICES ASSUME SInv, Write PROVE SInv'
  OBVIOUS
<1>1. /\ phase = "fill" /\ got = want /\ UNCHANGED <<length, size, pos, field>>
      /\ sent' = sent + Lead + got /\ remaining' = remaining - got /\ got' = 0
      /\ want' = AtMost(remaining - got, Chunk)
      /\ phase' = IF remaining = got THEN "ok" ELSE "fill"
  BY DEF Write
<1>2. /\ length \in Nat /\ field = ContainerLength(length)
      /\ got = AtMost(remaining, Room) /\ pos = length - remaining + got
      /\ IF sent = 0 THEN remaining = length ELSE sent = Header + length - remaining /\ sent % Chunk = 0
      /\ remaining <= length
  BY <1>1, Numbers DEF SInv, SendingInv
<1>3. got <= remaining /\ (got # remaining => got = Room)
  BY <1>2, Numbers, AtMostFacts DEF SInv
<1>4. sent' = Header + length - remaining' /\ sent' > 0
  BY <1>1, <1>2, <1>3, Numbers DEF SInv, Lead
<1>5. remaining' \in Nat /\ sent' \in Nat /\ want' \in Nat
  BY <1>1, <1>2, <1>3, Numbers, AtMostFacts DEF SInv
<1>6. TypeOK'
  BY <1>1, <1>5 DEF SInv, TypeOK
<1>7. SuccessIsWhole' /\ (phase' = "ok" => length' >= 0 /\ field' = ContainerLength(length'))
  BY <1>1, <1>2, <1>4, Numbers DEF SInv, SuccessIsWhole
<1>8. SendingInv'
  <2> SUFFICES ASSUME got # remaining PROVE SendingInv'
    BY <1>1 DEF SendingInv
  <2>1. sent + Lead + got = sent + Chunk
    BY <1>3, Numbers DEF SInv, Room, Lead
  <2>2. sent' % Chunk = 0
    <3>1. sent' = sent + Chunk /\ sent \in Nat /\ Chunk \in Nat \ {0}
      BY <1>1, <2>1, Numbers DEF SInv
    <3>2. sent % Chunk = 0
      BY <1>2, OneBuffer
    <3> QED
      BY ONLY <3>1, <3>2, FullBuffersAdd
  <2>3. Lead' = 0 /\ Room' = Chunk
    BY <1>4, Numbers, <1>5 DEF Lead, Room
  <2>4. want' = AtMost(remaining', Room') /\ 0 <= want'
    BY <1>1, <1>5, <2>3
  <2>5. /\ length' >= 0 /\ remaining' <= length' /\ remaining' > 0
        /\ got' <= want' /\ pos' = length' - remaining' + got'
    <3>1. remaining <= length /\ pos = length - remaining + got
      BY <1>2
    <3>2. remaining \in Nat /\ got \in Nat /\ length \in Nat /\ got <= remaining /\ got # remaining
      BY <1>2, <1>3, Numbers DEF SInv
    <3>3. length' = length /\ pos' = pos /\ remaining' = remaining - got /\ got' = 0
      BY <1>1
    <3> QED
      BY ONLY <2>4, <3>1, <3>2, <3>3
  <2>6. field' = ContainerLength(length') /\ sent' # 0 /\ sent' = Header + length' - remaining'
    BY <1>1, <1>2, <1>4, <1>5
  <2> QED
    BY <2>2, <2>4, <2>5, <2>6 DEF SendingInv
<1> QED
  BY <1>1, <1>6, <1>7, <1>8 DEF SInv

LEMMA StepInv == SInv /\ [Next]_vars => SInv'
<1> SUFFICES ASSUME SInv, [Next]_vars PROVE SInv'
  OBVIOUS
<1>1. CASE Start
  BY <1>1, StartInv
<1>2. CASE StartFails \/ FillFails
  BY <1>2, FailInv, Numbers DEF StartFails, FillFails, SInv
<1>3. CASE Fill
  BY <1>3, FillInv
<1>4. CASE Write
  BY <1>4, WriteInv
<1>5. CASE WriteFails
  <2>1. Fail /\ \E n \in 0..(Lead + got - 1) : sent' = sent + n
    BY <1>5 DEF WriteFails
  <2> QED
    BY <2>1, FailInv, Numbers DEF SInv
<1>6. CASE FileChanges
  BY <1>6 DEF FileChanges, SInv, TypeOK, SendingInv, SuccessIsWhole, Room, Lead
<1>7. CASE UNCHANGED vars
  BY <1>7 DEF vars, SInv, TypeOK, SendingInv, SuccessIsWhole, Room, Lead
<1> QED
  BY <1>1, <1>2, <1>3, <1>4, <1>5, <1>6, <1>7 DEF Next, Step

-----------------------------------------------------------------------------
(* The invariant of the transmission.                                       *)
THEOREM SendInvariance == Spec => []SInv
  BY InitInv, StepInv, PTL DEF Spec

(* Type correctness; the length field never overflows.                      *)
THEOREM TypeCorrect == Spec => []TypeOK
<1>1. SInv => TypeOK
  BY DEF SInv
<1> QED
  BY SendInvariance, <1>1, PTL

(* Whatever reads are short and however the file changes meanwhile, 0 means *)
(* the header and every announced byte was sent.                            *)
THEOREM SuccessWhole == Spec => []SuccessIsWhole
<1>1. SInv => SuccessIsWhole
  BY DEF SInv
<1> QED
  BY SendInvariance, <1>1, PTL

(* The host is told where the container ends, but for one that fills its    *)
(* last packet and is longer than the field can say.                        *)
THEOREM EndVisible == Spec => []EndIsVisible
<1>1. SInv => EndIsVisible
  <2> SUFFICES ASSUME SInv, phase = "ok"
               PROVE  HostSeesEnd \/ (length + Header > MaxField /\ (length + Header) % Packet = 0)
    BY DEF EndIsVisible
  <2>1. length \in Nat /\ sent = Header + length /\ field = ContainerLength(length)
    BY Numbers DEF SInv, SuccessIsWhole
  <2>2. CASE length + Header > MaxField
    BY <2>1, <2>2 DEF HostSeesEnd, ContainerLength
  <2>3. CASE length + Header = MaxField
    <3>1. MaxField % Packet # 0
      OBVIOUS
    <3> QED
      BY <2>1, <2>3, <3>1 DEF HostSeesEnd, ContainerLength
  <2>4. CASE length + Header < MaxField
    BY <2>1, <2>4 DEF HostSeesEnd, ContainerLength
  <2> QED
    BY <2>1, <2>2, <2>3, <2>4
<1> QED
  BY SendInvariance, <1>1, PTL

(* No write but the last one can end in a short packet.                     *)
THEOREM NoShortBeforeEnd == Spec => NoPrematureShort
<1> DEFINE Full == sent' > sent => sent % Chunk = 0
<1>1. SInv /\ [Next]_vars => [Full]_vars
  <2> SUFFICES ASSUME SInv, Next, sent' > sent PROVE sent % Chunk = 0
    BY DEF vars
  <2>1. phase = "fill" \/ sent' = sent
    BY DEF Next, Step, Start, StartFails, Fill, FillFails, Write, WriteFails, FileChanges
  <2>2. phase = "fill"
    BY <2>1, Numbers DEF SInv
  <2> QED
    BY <2>2, OneBuffer DEF SInv, SendingInv
<1> QED
  BY SendInvariance, <1>1, PTL DEF Spec, NoPrematureShort

-----------------------------------------------------------------------------
(* The end of the helper.                                                   *)

LEMMA StepsLeftNat == SInv => StepsLeft \in Nat
<1> SUFFICES ASSUME SInv PROVE StepsLeft \in Nat
  OBVIOUS
<1>1. remaining \in Nat /\ want \in Nat /\ got \in Nat /\ length \in Int /\ Room \in Nat
  BY Numbers DEF SInv
<1>2. CASE phase = "start"
  BY <1>1, <1>2 DEF StepsLeft
<1>3. CASE phase = "fill"
  <2>1. got <= want /\ want <= remaining
    BY <1>1, <1>3, AtMostFacts DEF SInv, SendingInv
  <2> QED
    BY <1>1, <1>3, <2>1 DEF StepsLeft
<1>4. CASE phase \notin {"start", "fill"}
  BY <1>4 DEF StepsLeft
<1> QED
  BY <1>2, <1>3, <1>4

\* A write that is not the last one takes something from the rest.
LEMMA StepsLeftFall == SInv /\ Step => StepsLeft' < StepsLeft
<1> SUFFICES ASSUME SInv, Step PROVE StepsLeft' < StepsLeft
  OBVIOUS
<1>1. remaining \in Nat /\ want \in Nat /\ got \in Nat /\ length \in Int /\ Room \in Nat /\ Room > 0
  BY Numbers DEF SInv
<1>2. phase = "fill" => got <= want /\ want <= remaining /\ (want = 0 => remaining = 0)
  <2> SUFFICES ASSUME phase = "fill" PROVE got <= want /\ want <= remaining /\ (want = 0 => remaining = 0)
    OBVIOUS
  <2>1. got <= want /\ want = AtMost(remaining, Room)
    BY DEF SInv, SendingInv
  <2>2. AtMost(remaining, Room) <= remaining /\ AtMost(remaining, Room) \in {remaining, Room}
    BY <1>1, AtMostFacts
  <2> QED
    BY ONLY <1>1, <2>1, <2>2
<1>3. CASE Start
  <2>1. /\ phase = "start" /\ length >= 0 /\ phase' = "fill" /\ remaining' = length /\ got' = 0
    BY <1>3 DEF Start
  <2> QED
    BY <1>1, <2>1 DEF StepsLeft
<1>4. CASE StartFails \/ FillFails \/ WriteFails
  <2>1. phase \in {"start", "fill"} /\ phase' = "failed"
    BY <1>4 DEF StartFails, FillFails, WriteFails, Fail
  <2> QED
    BY <1>1, <1>2, <2>1 DEF StepsLeft
<1>5. CASE Fill
  <2>1. PICK n \in 1..(want - got) : got' = got + n
    BY <1>5 DEF Fill
  <2>2. phase = "fill" /\ phase' = "fill" /\ remaining' = remaining
    BY <1>5 DEF Fill
  <2> QED
    BY <1>1, <1>2, <2>1, <2>2 DEF StepsLeft
<1>6. CASE Write
  <2>1. /\ phase = "fill" /\ got = want /\ remaining' = remaining - got /\ got' = 0
        /\ phase' = IF remaining = got THEN "ok" ELSE "fill"
    BY <1>6 DEF Write
  <2> QED
    BY <1>1, <1>2, <2>1 DEF StepsLeft
<1> QED
  BY <1>3, <1>4, <1>5, <1>6 DEF Step

(* The helper cannot go on for ever: each of its steps brings it nearer to  *)
(* its end, and a file that changes meanwhile does not set it back.         *)
THEOREM SendingEnds == Spec => [](StepsLeft \in Nat) /\ NearerToEnd
<1> DEFINE Nearer == StepsLeft' < StepsLeft \/ (size' # size /\ StepsLeft' = StepsLeft)
<1>1. SInv /\ FileChanges => Nearer
  BY DEF FileChanges, StepsLeft
<1>2. SInv /\ [Next]_vars => [Nearer]_vars
  BY <1>1, StepsLeftFall DEF Next
<1> QED
  BY SendInvariance, StepsLeftNat, <1>2, PTL DEF Spec, NearerToEnd
=============================================================================
