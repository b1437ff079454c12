--------------------------- MODULE RtcBuildFloor ---------------------------
(* The clock repair in TWFunc::Fixup_Time_On_Boot: when rtc0 is older than  *)
(* the build of the recovery, CLOCK_REALTIME is set to the build time, or   *)
(* to the present time if another component has already moved it further,   *)
(* and the result is written to rtc0 and verified.  Time passes and other   *)
(* components set the clock between any two of its steps; the device may be *)
(* rebooted at any of them, and the kernel then starts from rtc0 (hctosys). *)
(*                                                                          *)
(* Times are counted in half seconds; the program sees whole seconds.       *)
EXTENDS Integers

CONSTANTS
    Build,      \* the build time, in seconds; 0 when the property is not valid
    Slack,      \* seconds the verification forgives (2)
    MaxTime     \* bound on the times explored, in half seconds

ASSUME RtcAssumption == Build \in Nat /\ Slack \in Nat /\ MaxTime \in Nat

VARIABLES
    clock,      \* CLOCK_REALTIME
    rtc,        \* what rtc0 holds
    pc,         \* "off" (not called), "time", "set", "persist", "verify"
    checked,    \* j720f_rtc_checked
    target,     \* target_epoch
    outcome     \* what the last call since the boot logged

vars == <<clock, rtc, pc, checked, target, outcome>>

Second(t) == t \div 2

TypeOK ==
    /\ clock \in Nat /\ rtc \in Nat
    /\ pc \in {"off", "time", "set", "persist", "verify"}
    /\ checked \in BOOLEAN
    /\ target \in Nat
    /\ outcome \in {"none", "invalid", "unreadable", "recent", "not_set", "not_persisted",
                    "not_verified", "persisted"}

Init ==
    /\ rtc \in 0..MaxTime
    /\ clock = rtc
    /\ pc = "off" /\ checked = FALSE /\ target = 0 /\ outcome = "none"

-----------------------------------------------------------------------------
(* The environment.                                                         *)

Tick ==
    /\ clock < MaxTime /\ rtc < MaxTime
    /\ clock' = clock + 1 /\ rtc' = rtc + 1
    /\ UNCHANGED <<pc, checked, target, outcome>>

\* Another trusted component moves the clock forward.
OtherSetsClock ==
    /\ clock' \in (clock + 1)..MaxTime
    /\ UNCHANGED <<rtc, pc, checked, target, outcome>>

Reboot ==
    /\ clock' = rtc
    /\ pc' = "off" /\ checked' = FALSE /\ target' = 0 /\ outcome' = "none"
    /\ UNCHANGED rtc

-----------------------------------------------------------------------------
(* The call.                                                                *)

\* The end of the block; a later call does nothing.
Done(result) == outcome' = result /\ checked' = TRUE /\ pc' = "off"

\* Without a valid build time or a readable rtc0 nothing is done, and a later
\* call tries again.
CallInVain ==
    /\ pc = "off" /\ ~checked
    /\ outcome' = IF Build > 0 THEN "unreadable" ELSE "invalid"
    /\ UNCHANGED <<clock, rtc, pc, checked, target>>

Call ==
    /\ pc = "off" /\ ~checked
    /\ Build > 0
    /\ IF Second(rtc) < Build
       THEN pc' = "time" /\ UNCHANGED <<checked, outcome>>
       ELSE Done("recent")
    /\ UNCHANGED <<clock, rtc, target>>

\* Mutant: the present time wins even when it is before the build.
TargetIsNow ==
    /\ pc = "time"
    /\ target' = Second(clock)
    /\ pc' = "set"
    /\ UNCHANGED <<clock, rtc, checked, outcome>>

\* Mutant: a distance to the build time instead of a time.
TargetIsOffset ==
    /\ pc = "time"
    /\ target' = Second(clock) - Build
    /\ pc' = "set"
    /\ UNCHANGED <<clock, rtc, checked, outcome>>

\* time(NULL), and the later of it and the build time.
ChooseTarget ==
    /\ pc = "time"
    /\ target' = IF Second(clock) > Build THEN Second(clock) ELSE Build
    /\ pc' = "set"
    /\ UNCHANGED <<clock, rtc, checked, outcome>>

\* settimeofday with tv_usec = 0.
SetClock ==
    /\ pc = "set"
    /\ 2 * target <= MaxTime
    /\ clock' = 2 * target
    /\ pc' = "persist"
    /\ UNCHANGED <<rtc, checked, target, outcome>>

SetClockFails ==
    /\ pc = "set"
    /\ Done("not_set")
    /\ UNCHANGED <<clock, rtc, target>>

\* hwclock -w exits 0: rtc0 has the second of the clock, or did not take it.
Persist ==
    /\ pc = "persist"
    /\ rtc' \in {rtc, 2 * Second(clock)}
    /\ pc' = "verify"
    /\ UNCHANGED <<clock, checked, target, outcome>>

PersistFails ==
    /\ pc = "persist"
    /\ Done("not_persisted")
    /\ UNCHANGED <<clock, rtc, target>>

\* Mutant: the exit status of hwclock is believed.
VerifyNothing ==
    /\ pc = "verify"
    /\ Done("persisted")
    /\ UNCHANGED <<clock, rtc, target>>

\* rtc0 is read back.
Verify ==
    /\ pc = "verify"
    /\ Done(IF Second(rtc) + Slack < target THEN "not_verified" ELSE "persisted")
    /\ UNCHANGED <<clock, rtc, target>>

VerifyUnreadable ==
    /\ pc = "verify"
    /\ Done("not_verified")
    /\ UNCHANGED <<clock, rtc, target>>

Fixup ==
    \/ Call \/ CallInVain \/ ChooseTarget
    \/ SetClock \/ SetClockFails \/ Persist \/ PersistFails \/ Verify \/ VerifyUnreadable

Next == Tick \/ OtherSetsClock \/ Reboot \/ Fixup

Spec == Init /\ [][Next]_vars

-----------------------------------------------------------------------------
(* Until the next boot the system clock is not before the build, whenever   *)
(* the block has got as far as settimeofday or found rtc0 recent enough: no *)
(* failure of a later step and no other component takes that back.          *)
FloorReached ==
    outcome \in {"recent", "persisted", "not_persisted", "not_verified"} => Second(clock) >= Build

(* What the log calls persisted or recent survives the reboot: the kernel   *)
(* restarts the clock from rtc0 no further before the build than the slack  *)
(* of the verification, however much time and whoever else came between.    *)
NextBootKeepsFloor ==
    [][(outcome \in {"recent", "persisted"}) /\ outcome' = "none"
           => Second(clock') + Slack >= Build]_vars
=============================================================================
