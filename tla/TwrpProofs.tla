----------------------------- MODULE TwrpProofs ----------------------------
(* The two functions of TWRP that are patched and keep a state of their own:*)
(* the build floor of the clock holds for every build time, slack and bound *)
(* on the times, and the storage.xml guard decides right and leaves nothing *)
(* behind for every text and number of partitions.                          *)
EXTENDS RtcBuildFloor, StorageXmlGuard, TLAPS

-----------------------------------------------------------------------------
(* The clock repair: the clock reaches the floor, and a repair logged as    *)
(* persisted survives a reboot.                                             *)

LEMMA SecondIsNat == \A t \in Nat : Second(t) \in Nat
  BY DEF Second

LEMMA SecondMonotone == \A s, t \in Nat : s <= t => Second(s) <= Second(t)
  BY DEF Second

LEMMA SecondOfDouble == \A t \in Nat : 2 * t \in Nat /\ Second(2 * t) = t
  BY DEF Second

-----------------------------------------------------------------------------
Terminal == {"recent", "not_set", "not_persisted", "not_verified", "persisted"}

\* The block runs once a boot, and logs a result when it is over.
OnceInv ==
    /\ pc # "off" => ~checked
    /\ outcome \in Terminal <=> checked

\* Until the block sets the clock, it is not behind the rtc it was started from.
AheadInv == pc = "off" /\ ~checked => rtc <= clock

\* The chosen time and, once it is set, the clock have reached the floor.
TargetInv == pc \in {"set", "persist", "verify"} => Build <= target

SetInv == pc \in {"persist", "verify"} => Build <= Second(clock)

PersistedInv ==
    /\ outcome = "recent" => Build <= Second(rtc)
    /\ outcome = "persisted" => Build <= Second(rtc) + Slack

RInv == TypeOK /\ OnceInv /\ AheadInv /\ TargetInv /\ SetInv /\ PersistedInv /\ FloorReached

USE RtcAssumption, StorageAssumption

LEMMA InitInv == Init => RInv
<1> SUFFICES ASSUME Init PROVE RInv
  OBVIOUS
<1>0. checked \in BOOLEAN
  BY Zenon DEF Init
<1>1. TypeOK
  BY <1>0 DEF Init, TypeOK
<1>2. OnceInv
  BY DEF Init, OnceInv, Terminal
<1>3. AheadInv
  BY DEF Init, AheadInv
<1>4. TargetInv /\ SetInv /\ PersistedInv /\ FloorReached
  BY DEF Init, TargetInv, SetInv, PersistedInv, FloorReached
<1> QED
  BY <1>1, <1>2, <1>3, <1>4 DEF RInv

\* Steps of the world keep the order of the clocks and only move them forward.
LEMMA WorldStep == RInv /\ (Tick \/ OtherSetsClock \/ Reboot) => RInv'
<1> SUFFICES ASSUME RInv, Tick \/ OtherSetsClock \/ Reboot PROVE RInv'
  OBVIOUS
<1>1. CASE Tick
  <2>1. /\ clock' = clock + 1 /\ rtc' = rtc + 1
        /\ UNCHANGED <<pc, checked, target, outcome>>
    BY <1>1 DEF Tick
  <2>2. clock \in Nat /\ rtc \in Nat /\ clock' \in Nat /\ rtc' \in Nat /\ clock <= clock' /\ rtc <= rtc'
    BY <2>1 DEF RInv, TypeOK
  <2>3. Second(clock) <= Second(clock') /\ Second(rtc) <= Second(rtc')
    BY <2>2, SecondMonotone
  <2>4. {Second(clock), Second(clock'), Second(rtc), Second(rtc')} \subseteq Nat
    BY <2>2, SecondIsNat
  <2>5. TypeOK' /\ OnceInv' /\ AheadInv' /\ TargetInv'
    BY <2>1, <2>2 DEF RInv, TypeOK, OnceInv, AheadInv, TargetInv
  <2>6. SetInv' /\ PersistedInv' /\ FloorReached'
    BY <2>1, <2>3, <2>4 DEF RInv, SetInv, PersistedInv, FloorReached
  <2> QED
    BY <2>5, <2>6 DEF RInv
<1>2. CASE OtherSetsClock
  <2>1. /\ clock' \in (clock + 1)..MaxTime
        /\ UNCHANGED <<rtc, pc, checked, target, outcome>>
    BY <1>2 DEF OtherSetsClock
  <2>2. clock \in Nat /\ rtc \in Nat /\ clock' \in Nat /\ clock <= clock'
    BY <2>1 DEF RInv, TypeOK
  <2>3. Second(clock) <= Second(clock')
    BY <2>2, SecondMonotone
  <2>4. {Second(clock), Second(clock'), Second(rtc)} \subseteq Nat
    BY <2>2, SecondIsNat
  <2>5. TypeOK' /\ OnceInv' /\ AheadInv' /\ TargetInv'
    BY <2>1, <2>2 DEF RInv, TypeOK, OnceInv, AheadInv, TargetInv
  <2>6. SetInv' /\ PersistedInv' /\ FloorReached'
    BY <2>1, <2>3, <2>4 DEF RInv, SetInv, PersistedInv, FloorReached
  <2> QED
    BY <2>5, <2>6 DEF RInv
<1>3. CASE Reboot
  <2>1. rtc' \in Nat /\ clock' = rtc' /\ pc' = "off" /\ target' = 0 /\ outcome' = "none"
    BY <1>3 DEF Reboot, RInv, TypeOK
  <2>2. checked' = FALSE
    BY <1>3, Zenon DEF Reboot
  <2>3. TypeOK'
    BY <2>1, <2>2 DEF TypeOK
  <2>4. OnceInv' /\ AheadInv'
    BY <2>1, <2>2 DEF OnceInv, AheadInv, Terminal
  <2>5. TargetInv' /\ SetInv' /\ PersistedInv' /\ FloorReached'
    BY <2>1 DEF TargetInv, SetInv, PersistedInv, FloorReached
  <2> QED
    BY <2>3, <2>4, <2>5 DEF RInv
<1> QED
  BY <1>1, <1>2, <1>3

\* Steps of the block; only SetClock and Persist touch a clock.
LEMMA FixupStep == RInv /\ Fixup => RInv'
<1> SUFFICES ASSUME RInv, Fixup PROVE RInv'
  OBVIOUS
<1> USE DEF RInv, TypeOK, OnceInv, AheadInv, TargetInv, SetInv, PersistedInv, FloorReached, Terminal
<1>a. /\ clock \in Nat /\ rtc \in Nat /\ target \in Nat
      /\ Second(clock) \in Nat /\ Second(rtc) \in Nat
  BY SecondIsNat
<1>1. CASE Call
  <2>1. Second(rtc) <= Second(clock)
    BY <1>1, <1>a, SecondMonotone DEF Call
  <2>2. CASE Second(rtc) < Build
    <3>1. UNCHANGED <<clock, rtc, target, checked, outcome>> /\ pc' = "time"
      BY <1>1, <2>2 DEF Call
    <3>2. ~checked'
      BY <1>1, <3>1 DEF Call
    <3> QED
      BY <1>1, <1>a, <3>1, <3>2 DEF Call
  <2>3. CASE ~(Second(rtc) < Build)
    <3>1. UNCHANGED <<clock, rtc, target>> /\ pc' = "off" /\ outcome' = "recent"
      BY <1>1, <2>3 DEF Call, Done
    <3>2. checked' = TRUE
      BY <1>1, <2>3, Zenon DEF Call, Done
    <3>3. Build <= Second(rtc') /\ Build <= Second(clock')
      BY <1>a, <2>1, <2>3, <3>1
    <3> QED
      BY <1>a, <3>1, <3>2, <3>3
  <2> QED
    BY <2>2, <2>3
<1>2. CASE CallInVain
  BY <1>2, <1>a DEF CallInVain
<1>3. CASE ChooseTarget
  BY <1>3, <1>a DEF ChooseTarget
<1>4. CASE SetClock
  <2>1. clock' \in Nat /\ Second(clock') = target
    BY <1>4, <1>a, SecondOfDouble DEF SetClock
  <2> QED
    BY <1>4, <1>a, <2>1 DEF SetClock
<1>5. CASE SetClockFails
  BY <1>5, <1>a DEF SetClockFails, Done
<1>6. CASE Persist
  <2>1. rtc' \in Nat
    BY <1>6, <1>a, SecondOfDouble DEF Persist
  <2> QED
    BY <1>6, <1>a, <2>1 DEF Persist
<1>7. CASE PersistFails
  BY <1>7, <1>a DEF PersistFails, Done
<1>8. CASE Verify
  BY <1>8, <1>a DEF Verify, Done
<1>9. CASE VerifyUnreadable
  BY <1>9, <1>a DEF VerifyUnreadable, Done
<1> QED
  BY <1>1, <1>2, <1>3, <1>4, <1>5, <1>6, <1>7, <1>8, <1>9 DEF Fixup

LEMMA StepInv == RInv /\ [Next]_vars => RInv'
<1> SUFFICES ASSUME RInv, [Next]_vars PROVE RInv'
  OBVIOUS
<1>1. CASE Tick \/ OtherSetsClock \/ Reboot
  BY <1>1, WorldStep
<1>2. CASE Fixup
  BY <1>2, FixupStep
<1>3. CASE UNCHANGED vars
  BY <1>3 DEF vars, RInv, TypeOK, OnceInv, AheadInv, TargetInv, SetInv, PersistedInv, FloorReached, Second
<1> QED
  BY <1>1, <1>2, <1>3 DEF Next

(* RInv is an invariant of the clock repair.                                *)
THEOREM FloorInvariance == Spec => []RInv
  BY InitInv, StepInv, PTL DEF Spec

(* Type correctness of the clock repair.                                    *)
THEOREM TypeCorrect == Spec => []TypeOK
<1>1. RInv => TypeOK
  BY DEF RInv
<1> QED
  BY FloorInvariance, <1>1, PTL

(* After a repair, also one that could not be persisted, and whenever rtc0  *)
(* was found recent, the clock is not before the build until the next boot. *)
THEOREM FloorHolds == Spec => []FloorReached
<1>1. RInv => FloorReached
  BY DEF RInv
<1> QED
  BY FloorInvariance, <1>1, PTL

(* What the log calls persisted or recent survives the reboot: the clock of *)
(* the next boot is at most the slack of the verification behind the build. *)
THEOREM RepairSurvivesReboot == Spec => NextBootKeepsFloor
<1> DEFINE Kept == outcome \in {"recent", "persisted"} /\ outcome' = "none"
                       => Second(clock') + Slack >= Build
<1>1. ASSUME RInv, [Next]_vars PROVE Kept
  <2> SUFFICES ASSUME outcome \in {"recent", "persisted"}, outcome' = "none"
               PROVE  Second(clock') + Slack >= Build
    OBVIOUS
  <2>1. clock' = rtc
    BY <1>1 DEF Next, Fixup, Tick, OtherSetsClock, Reboot, Call, CallInVain, ChooseTarget, SetClock,
                SetClockFails, Persist, PersistFails, Verify, VerifyUnreadable, Done, vars
  <2>2. Second(rtc) \in Nat
    BY <1>1, SecondIsNat DEF RInv, TypeOK
  <2> QED
    BY <1>1, <2>1, <2>2 DEF RInv, PersistedInv
<1>2. RInv /\ [Next]_vars => [Kept]_vars
  BY <1>1
<1> QED
  BY FloorInvariance, <1>2, PTL DEF Spec, NextBootKeepsFloor

-----------------------------------------------------------------------------
(* The storage.xml guard.                                                   *)

\* The text and the positions of a reachable state.
LEMMA TextFacts ==
    ASSUME GuardTypeOK
    PROVE  /\ text \in Seq(Char) /\ Len(text) \in Nat /\ DOMAIN text = 1..Len(text)
           /\ start \in Nat /\ 1 <= start /\ start <= Len(text) + 1
           /\ probed \in Nat /\ probed <= Partitions
  BY DEF GuardTypeOK

\* What a flag is does not depend on the numbers.
GuardFlags == present \in BOOLEAN /\ valid \in BOOLEAN /\ volumes \in BOOLEAN

LEMMA GuardFlagsStep == GuardFlags /\ [GuardNext]_guardVars => GuardFlags'
  BY Zenon DEF GuardFlags, GuardNext, Load, SkipBlank, Guard, Parse, Probe, ProbeDone, Clean, Free,
               guardVars, file

LEMMA GuardInitInv == GuardInit => GInv
<1> SUFFICES ASSUME GuardInit PROVE GInv
  OBVIOUS
<1>0. present \in BOOLEAN /\ valid \in BOOLEAN /\ volumes \in BOOLEAN
  BY Zenon DEF GuardInit
<1>1. GuardTypeOK
  BY <1>0 DEF GuardInit, GuardTypeOK
<1>2. BufferInv /\ ProbeInv /\ BlanksInv /\ DocumentInv /\ ParsesTagsOnly
  BY DEF GuardInit, BufferInv, ProbeInv, BlanksInv, DocumentInv, ParsesTagsOnly
<1> QED
  BY <1>1, <1>2 DEF GInv

\* What the loop that skips blanks and the test after it find out.
LEMMA GuardDecides ==
    ASSUME GuardTypeOK, ~AtBlank, \A j \in 1..(start - 1) : text[j] = "blank"
    PROVE  StartsWithTag(text) <=> AtTag
<1>1. CASE AtTag
  BY <1>1, TextFacts DEF AtTag, StartsWithTag
<1>2. CASE ~AtTag
  <2> SUFFICES ASSUME NEW i \in 1..Len(text), text[i] = "<", \A j \in 1..(i - 1) : text[j] = "blank"
               PROVE  FALSE
    BY <1>2, TextFacts DEF StartsWithTag
  <2>1. i < start => text[i] = "blank"
    BY TextFacts
  <2>2. i > start => AtBlank
    BY TextFacts DEF AtBlank
  <2>3. i = start => AtTag
    BY TextFacts DEF AtTag
  <2> QED
    BY <1>2, <2>1, <2>2, <2>3, TextFacts
<1> QED
  BY <1>1, <1>2

LEMMA GuardLoadInv == GInv /\ Load => GInv'
<1> SUFFICES ASSUME GInv, Load PROVE GInv'
  OBVIOUS
<1>0. GuardFlags'
  BY GuardFlagsStep DEF GInv, GuardFlags, GuardTypeOK, GuardNext
<1>1. /\ place = "load" /\ UNCHANGED <<present, text, valid, start, doc, volumes, probed>>
      /\ IF present THEN xmlFile' = "live" /\ place' = "skip"
         ELSE xmlFile' = xmlFile /\ place' = "returned"
  BY DEF Load, file
<1>2. CASE present
  <2>1. xmlFile' = "live" /\ place' = "skip"
    BY <1>1, <1>2
  <2>2. present'
    BY <1>1, <1>2
  <2>3. GuardTypeOK'
    BY <1>0, <1>1, <2>1 DEF GInv, GuardTypeOK, GuardFlags
  <2>4. BufferInv'
    BY <2>1, <2>2 DEF BufferInv
  <2> QED
    BY <1>1, <2>1, <2>3, <2>4 DEF GInv, ProbeInv, BlanksInv, DocumentInv, ParsesTagsOnly
<1>3. CASE ~present
  <2>1. xmlFile' = "null" /\ place' = "returned"
    BY <1>1, <1>3 DEF GInv, BufferInv
  <2>2. ~present'
    BY <1>1, <1>3
  <2>3. GuardTypeOK'
    BY <1>0, <1>1, <2>1 DEF GInv, GuardTypeOK, GuardFlags
  <2>4. BufferInv'
    BY <2>1, <2>2 DEF BufferInv
  <2> QED
    BY <1>1, <2>1, <2>2, <2>3, <2>4 DEF GInv, ProbeInv, BlanksInv, DocumentInv, ParsesTagsOnly
<1> QED
  BY <1>2, <1>3

LEMMA SkipBlankInv == GInv /\ SkipBlank => GInv'
<1> SUFFICES ASSUME GInv, SkipBlank PROVE GInv'
  OBVIOUS
<1>0. GuardFlags'
  BY GuardFlagsStep DEF GInv, GuardFlags, GuardTypeOK, GuardNext
<1>1. /\ place = "skip" /\ AtBlank /\ start' = start + 1
      /\ UNCHANGED <<place, present, text, valid, xmlFile, doc, volumes, probed>>
  BY DEF SkipBlank, file
<1>2. GuardTypeOK'
  BY <1>0, <1>1, TextFacts DEF GInv, GuardTypeOK, GuardFlags, AtBlank
<1>3. BlanksInv'
  BY <1>1, TextFacts DEF GInv, BlanksInv, AtBlank
<1>4. BufferInv' /\ ProbeInv' /\ DocumentInv' /\ ParsesTagsOnly'
  BY <1>1 DEF GInv, BufferInv, ProbeInv, DocumentInv, ParsesTagsOnly
<1> QED
  BY <1>2, <1>3, <1>4 DEF GInv

LEMMA GuardActionInv == GInv /\ Guard => GInv'
<1> SUFFICES ASSUME GInv, Guard PROVE GInv'
  OBVIOUS
<1>0. GuardFlags'
  BY GuardFlagsStep DEF GInv, GuardFlags, GuardTypeOK, GuardNext
<1>1. /\ place = "skip" /\ place' = (IF AtTag THEN "parse" ELSE "probe")
      /\ UNCHANGED <<present, text, valid, start, xmlFile, doc, volumes, probed>>
  BY DEF Guard, file
<1>2. StartsWithTag(text) <=> AtTag
  BY <1>1, GuardDecides DEF Guard, GInv, BlanksInv
<1>3. GuardTypeOK'
  BY <1>0, <1>1 DEF GInv, GuardTypeOK, GuardFlags
<1>4. BufferInv' /\ ProbeInv' /\ DocumentInv'
  BY <1>1 DEF GInv, BufferInv, ProbeInv, DocumentInv
<1>5. BlanksInv'
  BY <1>1 DEF GInv, BlanksInv, AtTag
<1>6. ParsesTagsOnly'
  BY <1>1, <1>2 DEF GInv, ParsesTagsOnly, DocumentInv, StartsWithTag
<1> QED
  BY <1>3, <1>4, <1>5, <1>6 DEF GInv

LEMMA ParseInv == GInv /\ Parse => GInv'
<1> SUFFICES ASSUME GInv, Parse PROVE GInv'
  OBVIOUS
<1>0. GuardFlags'
  BY GuardFlagsStep DEF GInv, GuardFlags, GuardTypeOK, GuardNext
<1>1. /\ place = "parse" /\ doc' = "live" /\ place' \in {"probe", "error"}
      /\ UNCHANGED <<present, text, valid, start, xmlFile, probed>>
  BY DEF Parse, file
<1>2. GuardTypeOK'
  BY <1>0, <1>1 DEF GInv, GuardTypeOK, GuardFlags
<1>3. BufferInv' /\ ProbeInv' /\ BlanksInv' /\ DocumentInv'
  BY <1>1 DEF GInv, BufferInv, ProbeInv, BlanksInv, DocumentInv
<1>4. ParsesTagsOnly'
  BY <1>1 DEF GInv, ParsesTagsOnly
<1> QED
  BY <1>2, <1>3, <1>4 DEF GInv

LEMMA ProbeStepInv == GInv /\ (Probe \/ ProbeDone) => GInv'
<1> SUFFICES ASSUME GInv, Probe \/ ProbeDone PROVE GInv'
  OBVIOUS
<1>0. GuardFlags'
  BY GuardFlagsStep DEF GInv, GuardFlags, GuardTypeOK, GuardNext
<1>1. /\ place = "probe" /\ UNCHANGED <<present, text, valid, start, xmlFile, doc, volumes>>
      /\ \/ probed < Partitions /\ probed' = probed + 1 /\ place' = "probe"
         \/ probed = Partitions /\ probed' = probed /\ place' = "clean"
  <2>1. place = "probe" /\ UNCHANGED <<present, text, valid, start, xmlFile, doc, volumes>>
    BY DEF Probe, ProbeDone, file
  <2>2. xmlFile = "live"
    BY <2>1 DEF GInv, BufferInv
  <2> QED
    BY <2>1, <2>2 DEF Probe, ProbeDone
<1>2. GuardTypeOK'
  BY <1>0, <1>1, TextFacts DEF GInv, GuardTypeOK, GuardFlags
<1>3. BufferInv' /\ ProbeInv' /\ BlanksInv' /\ DocumentInv' /\ ParsesTagsOnly'
  BY <1>1 DEF GInv, BufferInv, ProbeInv, BlanksInv, DocumentInv, ParsesTagsOnly
<1> QED
  BY <1>2, <1>3 DEF GInv

LEMMA CleanStepInv == GInv /\ (Clean \/ Free) => GInv'
<1> SUFFICES ASSUME GInv, Clean \/ Free PROVE GInv'
  OBVIOUS
<1>0. GuardFlags'
  BY GuardFlagsStep DEF GInv, GuardFlags, GuardTypeOK, GuardNext
<1>1. /\ UNCHANGED <<present, text, valid, start, volumes, probed>>
      /\ \/ /\ place = "clean" /\ place' = "free" /\ xmlFile' = xmlFile
            /\ doc' = IF doc = "live" THEN "deleted" ELSE doc
         \/ place = "free" /\ place' = "returned" /\ xmlFile' = "freed" /\ doc' = doc
  BY DEF Clean, Free, file
<1>2. GuardTypeOK'
  BY <1>0, <1>1 DEF GInv, GuardTypeOK, GuardFlags
<1>3. ProbeInv' /\ BlanksInv' /\ DocumentInv' /\ ParsesTagsOnly'
  BY <1>1 DEF GInv, ProbeInv, BlanksInv, DocumentInv, ParsesTagsOnly
<1>4. BufferInv'
  BY <1>1 DEF GInv, BufferInv
<1> QED
  BY <1>2, <1>3, <1>4 DEF GInv

LEMMA GuardStepInv == GInv /\ [GuardNext]_guardVars => GInv'
<1> SUFFICES ASSUME GInv, UNCHANGED guardVars PROVE GInv'
  BY GuardLoadInv, SkipBlankInv, GuardActionInv, ParseInv, ProbeStepInv, CleanStepInv DEF GuardNext
<1>1. UNCHANGED <<present, text, valid, place, start, xmlFile, doc, volumes, probed>>
  BY DEF guardVars, file
<1> QED
  BY <1>1 DEF GInv, GuardTypeOK, BufferInv, ProbeInv, BlanksInv, DocumentInv, ParsesTagsOnly, AtTag,
              StartsWithTag

-----------------------------------------------------------------------------
(* GInv is an invariant of the guarded function, for every text and any     *)
(* number of partitions.                                                    *)
THEOREM GuardInvariance == GuardSpec => []GInv
  BY GuardInitInv, GuardStepInv, PTL DEF GuardSpec

(* Type correctness of the guarded function; xml_start never passes the NUL.*)
THEOREM GuardTypeCorrect == GuardSpec => []GuardTypeOK
<1>1. GInv => GuardTypeOK
  BY DEF GInv
<1> QED
  BY GuardInvariance, <1>1, PTL

(* On every path the function touches nothing that is not there, visits     *)
(* every partition of a file it could load, and gives up document and buffer.*)
THEOREM AlwaysLeavesClean == GuardSpec => []LeavesClean
<1>1. GInv => LeavesClean
  BY DEF GInv, BufferInv, ProbeInv, DocumentInv, LeavesClean
<1> QED
  BY GuardInvariance, <1>1, PTL

(* The parser is given exactly the files whose first character that is not  *)
(* a blank is "<", however many blanks come before it.                      *)
THEOREM ParserSeesTags == GuardSpec => []ParsesTagsOnly
<1>1. GInv => ParsesTagsOnly
  BY DEF GInv
<1> QED
  BY GuardInvariance, <1>1, PTL

\* The bound on the rest of the function is a number.
LEMMA GuardStepsNat == GInv => StepsLeft \in Nat
<1> SUFFICES ASSUME GInv PROVE StepsLeft \in Nat
  OBVIOUS
<1>1. /\ Len(text) \in Nat /\ start \in Nat /\ start <= Len(text) + 1
      /\ probed \in Nat /\ probed <= Partitions /\ Partitions \in Nat
  BY TextFacts DEF GInv
<1>2. CASE place = "load"
  BY <1>1, <1>2 DEF StepsLeft
<1>3. CASE place = "skip"
  BY <1>1, <1>3 DEF StepsLeft
<1>4. CASE place = "parse"
  BY <1>1, <1>4 DEF StepsLeft
<1>5. CASE place = "probe"
  BY <1>1, <1>5 DEF StepsLeft
<1>6. CASE place \notin {"load", "skip", "parse", "probe"}
  BY <1>6 DEF StepsLeft
<1> QED
  BY <1>2, <1>3, <1>4, <1>5, <1>6

LEMMA GuardStepsFall == GInv /\ GuardNext => StepsLeft' < StepsLeft
<1> SUFFICES ASSUME GInv, GuardNext PROVE StepsLeft' < StepsLeft
  OBVIOUS
<1>0. text' = text /\ Len(text') = Len(text)
  BY Zenon DEF GuardNext, Load, SkipBlank, Guard, Parse, Probe, ProbeDone, Clean, Free, file
<1>1. /\ Len(text) \in Nat /\ start \in Nat /\ start <= Len(text) + 1
      /\ probed \in Nat /\ probed <= Partitions /\ Partitions \in Nat
  BY TextFacts DEF GInv
<1>2. CASE Load
  <2>1. place = "load" /\ start' = start /\ probed' = probed /\ place' \in {"skip", "returned"}
    BY <1>2 DEF Load
  <2>2. start = 1
    BY <2>1 DEF GInv, BlanksInv
  <2> QED
    BY <1>0, <1>1, <2>1, <2>2 DEF StepsLeft
<1>3. CASE SkipBlank
  BY <1>0, <1>1, <1>3 DEF SkipBlank, StepsLeft
<1>4. CASE Guard
  <2>1. /\ place = "skip" /\ place' \in {"parse", "probe"} /\ probed' = probed /\ start' = start
        /\ probed = 0
    BY <1>4 DEF Guard, GInv, ProbeInv
  <2> QED
    BY <1>0, <1>1, <2>1 DEF StepsLeft
<1>5. CASE Parse
  <2>1. place = "parse" /\ place' \in {"probe", "error"} /\ probed' = probed
    BY <1>5 DEF Parse
  <2> QED
    BY <1>0, <1>1, <2>1 DEF StepsLeft
<1>6. CASE Probe
  <2>1. place = "probe" /\ place' \in {"probe", "crashed"} /\ probed < Partitions /\ probed' = probed + 1
    BY <1>6 DEF Probe
  <2> QED
    BY <1>0, <1>1, <2>1 DEF StepsLeft
<1>7. CASE ProbeDone \/ Clean \/ Free
  BY <1>0, <1>1, <1>7 DEF ProbeDone, Clean, Free, StepsLeft
<1> QED
  BY <1>2, <1>3, <1>4, <1>5, <1>6, <1>7 DEF GuardNext

(* Every step of the function brings it nearer to its end, whatever is in   *)
(* the file: what Returns needs beside the fairness of the steps.           *)
THEOREM GuardedCallEnds == GuardSpec => [](StepsLeft \in Nat) /\ ComesToItsEnd
<1>1. GInv /\ [GuardNext]_guardVars => [StepsLeft' < StepsLeft]_guardVars
  BY GuardStepsFall
<1> QED
  BY GuardInvariance, GuardStepsNat, <1>1, PTL DEF GuardSpec, ComesToItsEnd
=============================================================================
