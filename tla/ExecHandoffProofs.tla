------------------------- MODULE ExecHandoffProofs -------------------------
(* Whatever runs for a request of the patched adbd runs in the recovery     *)
(* domain, no thread keeps the transition armed, and the daemon keeps the   *)
(* safety part of RequestService, for any number of commands and sync       *)
(* sessions at the same time.                                               *)
EXTENDS ExecHandoff, TLAPS

USE HandoffAssumption

LEMMA ThreadOfFacts ==
    ASSUME NEW x \in Session
    PROVE  /\ ThreadOf(x) \in Thread
           /\ x \in Sync => ThreadOf(x) = x
           /\ x \in Command => ThreadOf(x) = Main
  BY DEF ThreadOf, Thread, Session

LEMMA NoProcessFacts ==
    /\ NoProcess \in Process /\ Exited \in Process
    /\ NoProcess.at = "none" /\ Exited.at = "exited"
  BY DEF NoProcess, Exited, Process, ProcessState

\* What a reachable state says of one session.
LEMMA SessionFacts ==
    ASSUME TypeOK, NEW x \in Session
    PROVE  /\ kind[x] \in {"raw", "pty", "sync"}
           /\ kind[x] = "sync" <=> x \in Sync
           /\ pc[x] \in ThreadState
           /\ proc[x] \in Process
           /\ proc[x].at \in ProcessState
  BY DEF TypeOK, Process

\* A step that leaves the sessions other than x alone keeps what holds of them.
LEMMA OthersKeep ==
    ASSUME NEW x \in Session,
           \A y \in Session : ChildPlace(y) /\ ChildDomain(y),
           \A y \in Session \ {x} : kind'[y] = kind[y] /\ pc'[y] = pc[y] /\ proc'[y] = proc[y],
           ChildPlace(x)', ChildDomain(x)'
    PROVE  (\A y \in Session : ChildPlace(y) /\ ChildDomain(y))'
<1> SUFFICES ASSUME NEW y \in Session PROVE (ChildPlace(y) /\ ChildDomain(y))'
  OBVIOUS
<1>1. CASE y = x
  BY <1>1
<1>2. CASE y # x
  BY <1>2 DEF ChildPlace, ChildDomain, Alive, Refused
<1> QED
  BY <1>1, <1>2

-----------------------------------------------------------------------------
(* The children.                                                            *)

\* A child moves on: nothing but its own entry changes, it neither appears nor
\* vanishes, and it comes alive only if it was.
LEMMA BecomeInv ==
    ASSUME HInv, NEW x \in Session, NEW p \in Process, Become(x, p),
           proc[x].at # "none", p.at # "none",
           p.at # "exited" => Alive(x),
           p.at \in {"setup", "ready"} => proc[x].at = "setup",
           kind[x] # "raw" /\ p.at \in {"setup", "ready"} => p.armed /\ p.domain = "adbd",
           kind[x] = "raw" /\ p.at = "ready" => p.domain = "recovery",
           p.at \in {"main", "serving"} => p.domain = "recovery"
    PROVE  HInv'
<1>1. proc' = [proc EXCEPT ![x] = p] /\ UNCHANGED <<kind, pc, pending, stuck, open>>
  BY Zenon DEF Become
<1>2. TypeOK'
  BY <1>1 DEF HInv, TypeOK, CommandsGoOn
<1>3. OneCommand' /\ RawNeverArms' /\ ArmedForFork' /\ ArmedBySwitching'
  BY <1>1 DEF HInv, OneCommand, RawNeverArms, ArmedForFork, ArmedBySwitching
<1>4. proc'[x] = p /\ \A y \in Session \ {x} : proc'[y] = proc[y]
  BY <1>1 DEF HInv, TypeOK
<1>5. ChildPlace(x)'
  <2>1. pc[x] \notin {"new", "arm", "fork"}
    BY NoProcessFacts DEF HInv, ChildPlace
  <2>2. Refused(x) => p.at \notin {"setup", "ready"}
    BY DEF HInv, ChildPlace, Alive
  <2> QED
    BY <1>1, <1>4, <2>1, <2>2 DEF ChildPlace, Alive, Refused
<1>6. ChildDomain(x)'
  BY <1>1, <1>4 DEF ChildDomain
<1>7. (\A y \in Session : ChildPlace(y) /\ ChildDomain(y))'
  BY <1>1, <1>4, <1>5, <1>6, OthersKeep DEF HInv
<1> QED
  BY <1>2, <1>3, <1>7 DEF HInv

LEMMA ExitedInv ==
    ASSUME HInv, NEW x \in Session, Become(x, Exited), proc[x].at # "none"
    PROVE  HInv'
  BY NoProcessFacts, BecomeInv

LEMMA SetupInv == ASSUME HInv, NEW x \in Session, Setup(x) PROVE HInv'
<1> DEFINE p == [proc[x] EXCEPT !.at = "ready",
                                !.domain = IF kind[x] = "raw" THEN "recovery" ELSE @,
                                !.holds = IF kind[x] = "sync" THEN {x} \cup (@ \cap Beyond) ELSE @]
<1>1. proc[x].at = "setup" /\ Become(x, p)
  BY DEF Setup
<1>2. p \in Process
  BY SessionFacts DEF HInv, Process, ProcessState
<1>3. /\ p.at = "ready" /\ p.armed = proc[x].armed
      /\ p.domain = IF kind[x] = "raw" THEN "recovery" ELSE proc[x].domain
  BY SessionFacts DEF HInv, Process
<1>4. kind[x] # "raw" => p.armed /\ p.domain = "adbd"
  BY <1>1, <1>3 DEF HInv, ChildDomain
<1> HIDE DEF p
<1> QED
  BY <1>1, <1>2, <1>3, <1>4, BecomeInv DEF Alive

LEMMA ExecInv == ASSUME HInv, NEW x \in Session, Exec(x) PROVE HInv'
<1> DEFINE sockets == IF kind[x] = "sync" THEN {x} ELSE {}
           p == [at     |-> IF kind[x] = "sync" THEN "main" ELSE "serving",
                 domain |-> IF proc[x].armed THEN "recovery" ELSE proc[x].domain,
                 armed  |-> FALSE,
                 holds  |-> sockets]
<1>1. proc[x].at = "ready" /\ Become(x, p)
  BY DEF Exec, Executed
<1>2. p \in Process
  <2>1. sockets \subseteq Sync
    BY SessionFacts DEF HInv
  <2>2. p.domain \in {"adbd", "recovery"}
    BY SessionFacts DEF HInv, Process
  <2> QED
    BY <2>1, <2>2 DEF Process, ProcessState
<1>3. p.at \in {"main", "serving"} /\ p.domain = "recovery"
  BY <1>1 DEF HInv, ChildDomain
<1> HIDE DEF p
<1> QED
  BY <1>1, <1>2, <1>3, BecomeInv DEF Alive

LEMMA HelperMainInv == ASSUME HInv, NEW x \in Session, HelperMain(x) PROVE HInv'
<1> DEFINE p == [proc[x] EXCEPT !.at = "serving"]
<1>1. proc[x].at = "main" /\ proc[x].domain = "recovery"
  BY DEF HelperMain, HInv, ChildDomain
<1>2. p \in Process /\ p.at = "serving" /\ p.domain = "recovery"
  BY <1>1, SessionFacts DEF HInv, Process, ProcessState
<1>3. CASE Become(x, p)
  <2> HIDE DEF p
  <2> QED
    BY <1>1, <1>2, <1>3, BecomeInv DEF Alive
<1>4. CASE Become(x, Exited)
  BY <1>1, <1>4, ExitedInv
<1> QED
  BY <1>3, <1>4 DEF HelperMain

LEMMA ChildInv ==
    ASSUME HInv, NEW x \in Session, Starting(x) \/ Exits(x) \/ Dies(x)
    PROVE  HInv'
<1>1. CASE Setup(x)
  BY <1>1, SetupInv
<1>2. CASE ChildFails(x)
  BY <1>2, ExitedInv DEF ChildFails
<1>3. CASE Exec(x)
  BY <1>3, ExecInv
<1>4. CASE HelperMain(x)
  BY <1>4, HelperMainInv
<1>5. CASE Exits(x)
  BY <1>5, ExitedInv DEF Exits
<1>6. CASE Dies(x)
  BY <1>6, ExitedInv DEF Dies
<1> QED
  BY <1>1, <1>2, <1>3, <1>4, <1>5, <1>6 DEF Starting

-----------------------------------------------------------------------------
(* The daemon.                                                              *)

LEMMA InitInv == Init => HInv
<1> SUFFICES ASSUME Init PROVE HInv
  OBVIOUS
<1> USE DEF Init
<1>1. TypeOK
  BY NoProcessFacts, ThreadOfFacts DEF TypeOK, CommandsGoOn, Session, ThreadState
<1>2. OneCommand /\ RawNeverArms /\ ArmedForFork
  BY DEF OneCommand, RawNeverArms, ArmedForFork, Session
<1>3. ArmedBySwitching
  BY DEF ArmedBySwitching
<1>4. \A x \in Session : ChildPlace(x) /\ ChildDomain(x)
  BY NoProcessFacts DEF ChildPlace, ChildDomain, Alive, Refused
<1> QED
  BY <1>1, <1>2, <1>3, <1>4 DEF HInv

\* The place of a request in its handler, before and after a step.
LEMMA ToFacts ==
    ASSUME TypeOK, NEW x \in Session, NEW where \in ThreadState, To(x, where)
    PROVE  /\ pc' \in [Session -> ThreadState]
           /\ pc'[x] = where
           /\ \A y \in Session \ {x} : pc'[y] = pc[y]
  BY DEF TypeOK, To

\* A request that is over, or was never made, has no process left alive.
LEMMA OverFacts ==
    ASSUME HInv, NEW x \in Session, Over(x)
    PROVE  /\ pc[x] \in {"new", "done", "failed"}
           /\ ~Alive(x) /\ Gone(x)
           /\ x \in Sync => proc[x] = NoProcess
<1>1. CASE pc[x] = "new"
  BY <1>1, NoProcessFacts DEF HInv, ChildPlace, Alive, Gone
<1>2. CASE pc[x] # "new" /\ x \in Sync
  BY <1>2, NoProcessFacts DEF Over, Released, Alive, Gone
<1>3. CASE pc[x] # "new" /\ x \notin Sync
  BY <1>3 DEF Over, Alive, Gone
<1> QED
  BY <1>1, <1>2, <1>3

\* Only the handler of x moves, and a command's not to where it would wait.
LEMMA PlacesKept ==
    ASSUME TypeOK, NEW x \in Session, \A y \in Session \ {x} : pc'[y] = pc[y],
           x \in Command => pc'[x] \notin {"close", "wait", "reap"}
    PROVE  CommandsGoOn'
  BY DEF TypeOK, CommandsGoOn, Session

LEMMA StartCommandInv == ASSUME HInv, NEW c \in Command, StartCommand(c) PROVE HInv'
<1>0. c \in Session /\ c \notin Sync
  BY DEF Session
<1>1. PICK k \in {"raw", "pty"} :
          kind' = [kind EXCEPT ![c] = k] /\ To(c, IF k = "pty" THEN "arm" ELSE "fork")
  BY DEF StartCommand
<1>2. MainIdle /\ proc' = [proc EXCEPT ![c] = NoProcess] /\ UNCHANGED <<pending, stuck, open>>
  BY Zenon DEF StartCommand
<1>3. /\ pc' \in [Session -> ThreadState]
      /\ pc'[c] = (IF k = "pty" THEN "arm" ELSE "fork")
      /\ \A y \in Session \ {c} : pc'[y] = pc[y]
  BY <1>0, <1>1, ToFacts DEF HInv, ThreadState
<1>4. /\ kind'[c] = k /\ proc'[c] = NoProcess
      /\ \A y \in Session \ {c} : kind'[y] = kind[y] /\ proc'[y] = proc[y]
  BY <1>0, <1>1, <1>2 DEF HInv, TypeOK
<1>5. pc[c] \in {"new", "done", "failed"}
  BY <1>0, OverFacts DEF StartCommand
<1>6. TypeOK'
  <2>2. CommandsGoOn'
    BY <1>0, <1>3, PlacesKept DEF HInv
  <2> QED
    BY <2>2, <1>0, <1>1, <1>2, <1>3, <1>4, NoProcessFacts DEF HInv, TypeOK
<1>7. OneCommand'
  BY <1>2, <1>3 DEF MainIdle, OneCommand, Session
<1>8. ArmedForFork' /\ RawNeverArms'
  BY <1>2, <1>3, <1>4 DEF HInv, ArmedForFork, RawNeverArms
<1>9. ArmedBySwitching'
  BY <1>2, <1>3, <1>4, <1>5 DEF HInv, ArmedBySwitching
<1>10. ChildPlace(c)' /\ ChildDomain(c)'
  BY <1>3, <1>4, NoProcessFacts DEF ChildPlace, ChildDomain, Alive, Refused
<1> QED
  BY <1>0, <1>3, <1>4, <1>6, <1>7, <1>8, <1>9, <1>10, OthersKeep DEF HInv

LEMMA StartSyncInv == ASSUME HInv, NEW s \in Sync, StartSync(s) PROVE HInv'
<1>0. s \in Session /\ s \in Thread /\ s # Main /\ ThreadOf(s) = s /\ Main \in Thread
  BY ThreadOfFacts DEF Session, Thread
<1>1. /\ MainIdle /\ To(s, "arm") /\ pending' = [pending EXCEPT ![s] = pending[Main]]
      /\ stuck' = (IF Main \in stuck THEN stuck \cup {s} ELSE stuck \ {s})
      /\ open' = open \cup {s} /\ UNCHANGED <<kind, proc>>
  BY Zenon DEF StartSync
<1>2. /\ pc' \in [Session -> ThreadState] /\ pc'[s] = "arm"
      /\ \A y \in Session \ {s} : pc'[y] = pc[y]
  BY <1>0, <1>1, ToFacts DEF HInv, ThreadState
<1>3. /\ pending' \in [Thread -> BOOLEAN] /\ pending'[s] = pending[Main]
      /\ \A t \in Thread \ {s} : pending'[t] = pending[t]
  BY <1>0, <1>1 DEF HInv, TypeOK
<1>4. pc[s] \in {"new", "done", "failed"} /\ proc[s] = NoProcess
  BY <1>0, OverFacts DEF StartSync
<1>5. \A y \in Session \ {s} : ThreadOf(y) # s
  BY <1>0 DEF ThreadOf
<1>6. TypeOK'
  <2>2. CommandsGoOn'
    BY <1>0, <1>2, PlacesKept DEF HInv
  <2> QED
    BY <2>2, <1>0, <1>1, <1>2, <1>3 DEF HInv, TypeOK
<1>7. OneCommand'
  BY <1>0, <1>2 DEF HInv, OneCommand, Session
<1>8. ArmedForFork' /\ RawNeverArms'
  BY <1>0, <1>1, <1>2, <1>3, <1>5, ThreadOfFacts, SessionFacts DEF HInv, ArmedForFork, RawNeverArms
<1>9. ArmedBySwitching'
  <2> SUFFICES ASSUME NEW t \in Thread, pending'[t]
               PROVE  \/ t \in stuck'
                      \/ \E x \in Session : ThreadOf(x) = t /\ kind'[x] # "raw" /\ pc'[x] \in {"fork", "clear"}
    BY DEF ArmedBySwitching, ThreadOf
  <2>1. CASE t = s
    <3>1. pending[Main]
      BY <2>1, <1>3
    <3>2. \A x \in Session : ThreadOf(x) = Main => pc[x] \notin {"fork", "clear"}
      BY <1>1 DEF MainIdle, ThreadOf, Session
    <3>3. Main \in stuck
      BY <1>0, <3>1, <3>2 DEF HInv, ArmedBySwitching
    <3> QED
      BY <1>1, <2>1, <3>3
  <2>2. CASE t # s
    BY <1>1, <1>2, <1>3, <1>4, <2>2 DEF HInv, ArmedBySwitching
  <2> QED
    BY <2>1, <2>2
<1>10. ChildPlace(s)' /\ ChildDomain(s)'
  BY <1>1, <1>2, <1>4, NoProcessFacts DEF ChildPlace, ChildDomain, Alive, Refused
<1> QED
  BY <1>0, <1>1, <1>2, <1>6, <1>7, <1>8, <1>9, <1>10, OthersKeep DEF HInv

LEMMA ArmInv == ASSUME HInv, NEW x \in Session, Arm(x) PROVE HInv'
<1>0. ThreadOf(x) \in Thread /\ pc[x] = "arm" /\ UNCHANGED <<kind, stuck, proc>>
  BY ThreadOfFacts DEF Arm
<1>1. proc[x] = NoProcess
  BY <1>0 DEF HInv, ChildPlace
<1>2. open' \subseteq Sync
  BY DEF Arm, HInv, TypeOK
<1>3. PICK where \in {"fork", "failed"} :
        /\ To(x, where)
        /\ where = "fork" => pending' = [pending EXCEPT ![ThreadOf(x)] = TRUE]
        /\ where = "failed" => UNCHANGED pending
  BY Zenon DEF Arm
<1>4. /\ pc' \in [Session -> ThreadState] /\ pc'[x] = where
      /\ \A y \in Session \ {x} : pc'[y] = pc[y]
  BY <1>3, ToFacts DEF HInv, ThreadState
<1>5. /\ pending' \in [Thread -> BOOLEAN]
      /\ \A t \in Thread : pending[t] => pending'[t]
      /\ where = "fork" => pending'[ThreadOf(x)]
      /\ \A t \in Thread : pending'[t] => pending[t] \/ (where = "fork" /\ t = ThreadOf(x))
  BY <1>0, <1>3 DEF HInv, TypeOK
<1>6. TypeOK'
  <2>2. CommandsGoOn'
    BY <1>4, PlacesKept DEF HInv
  <2> QED
    BY <2>2, <1>0, <1>2, <1>4, <1>5 DEF HInv, TypeOK
<1>7. OneCommand'
  BY <1>0, <1>4 DEF HInv, OneCommand, Session
<1>8. ArmedForFork' /\ RawNeverArms'
  BY <1>0, <1>4, <1>5, ThreadOfFacts DEF HInv, ArmedForFork, RawNeverArms, ThreadOf
<1>9. kind[x] # "raw"
  BY <1>0 DEF HInv, RawNeverArms
<1>10. ArmedBySwitching'
  <2> SUFFICES ASSUME NEW t \in Thread, pending'[t]
               PROVE  \/ t \in stuck
                      \/ \E y \in Session : ThreadOf(y) = t /\ kind[y] # "raw" /\ pc'[y] \in {"fork", "clear"}
    BY <1>0 DEF ArmedBySwitching, ThreadOf
  <2>1. CASE pending[t]
    BY <1>0, <1>4, <2>1 DEF HInv, ArmedBySwitching
  <2>2. CASE where = "fork" /\ t = ThreadOf(x)
    BY <1>4, <1>9, <2>2
  <2> QED
    BY <1>5, <2>1, <2>2
<1>11. ChildPlace(x)' /\ ChildDomain(x)'
  BY <1>0, <1>1, NoProcessFacts DEF ChildPlace, ChildDomain, Alive, Refused
<1> QED
  BY <1>0, <1>4, <1>6, <1>7, <1>8, <1>10, <1>11, OthersKeep DEF HInv

\* A thread is in the window of one request at a time.
LEMMA OneWindow ==
    ASSUME HInv, NEW x \in Session, NEW y \in Session, ThreadOf(x) = ThreadOf(y),
           {pc[x], pc[y]} \subseteq {"arm", "fork", "clear"}
    PROVE  x = y
<1>1. CASE x \in Sync
  BY <1>1, ThreadOfFacts DEF ThreadOf, Session
<1>2. CASE x \in Command /\ y \in Command
  BY <1>2 DEF HInv, OneCommand
<1>3. CASE x \in Command /\ y \in Sync
  BY <1>3, ThreadOfFacts DEF ThreadOf
<1> QED
  BY <1>1, <1>2, <1>3 DEF Session

LEMMA ForkInv == ASSUME HInv, NEW x \in Session, Fork(x) PROVE HInv'
<1>0. pc[x] = "fork" /\ UNCHANGED <<kind, pending, stuck, open>>
  BY Zenon DEF Fork
<1>1. ThreadOf(x) \in Thread /\ proc[x] = NoProcess
  BY <1>0, ThreadOfFacts DEF HInv, ChildPlace
<1> DEFINE child == [at |-> "setup", domain |-> "adbd", armed |-> pending[ThreadOf(x)], holds |-> open]
<1>2. child \in Process /\ child.at = "setup" /\ child.armed = pending[ThreadOf(x)] /\ child.domain = "adbd"
  BY <1>1 DEF HInv, TypeOK, Process, ProcessState
<1>3. PICK where \in {"done", "failed", "clear"} :
        /\ To(x, where)
        /\ kind[x] # "raw" => where = "clear"
        /\ kind[x] = "raw" => where # "clear"
        /\ \/ proc' = [proc EXCEPT ![x] = child] /\ where # "failed"
           \/ proc' = proc
  BY DEF Fork
<1> HIDE DEF child
<1>4. /\ pc' \in [Session -> ThreadState] /\ pc'[x] = where
      /\ \A y \in Session \ {x} : pc'[y] = pc[y]
  BY <1>3, ToFacts DEF HInv, ThreadState
<1>5. /\ proc' \in [Session -> Process]
      /\ \/ proc'[x] = child /\ where # "failed"
         \/ proc'[x] = NoProcess
      /\ \A y \in Session \ {x} : proc'[y] = proc[y]
  BY <1>1, <1>2, <1>3 DEF HInv, TypeOK
<1>6. TypeOK'
  <2>2. CommandsGoOn'
    BY <1>4, PlacesKept DEF HInv
  <2> QED
    BY <2>2, <1>0, <1>4, <1>5 DEF HInv, TypeOK
<1>7. OneCommand'
  BY <1>0, <1>4 DEF HInv, OneCommand, Session
<1>8. ArmedForFork' /\ RawNeverArms'
  BY <1>0, <1>3, <1>4 DEF HInv, ArmedForFork, RawNeverArms, ThreadOf
<1>9. ArmedBySwitching'
  BY <1>0, <1>3, <1>4 DEF HInv, ArmedBySwitching, ThreadOf
<1>10. ChildPlace(x)'
  BY <1>2, <1>4, <1>5, NoProcessFacts DEF ChildPlace, Alive, Refused
<1>11. ChildDomain(x)'
  <2>1. kind[x] # "raw" => pending[ThreadOf(x)]
    BY <1>0 DEF HInv, ArmedForFork
  <2>2. kind'[x] = kind[x]
    BY <1>0
  <2>3. CASE proc'[x] = child
    BY <1>2, <2>1, <2>2, <2>3 DEF ChildDomain
  <2>4. CASE proc'[x] = NoProcess
    BY <2>4, NoProcessFacts DEF ChildDomain
  <2> QED
    BY <1>5, <2>3, <2>4
<1> QED
  BY <1>0, <1>4, <1>5, <1>6, <1>7, <1>8, <1>9, <1>10, <1>11, OthersKeep DEF HInv

LEMMA ClearInv == ASSUME HInv, NEW x \in Session, Clear(x) PROVE HInv'
<1>0. /\ pc[x] = "clear" /\ UNCHANGED <<kind, proc>>
      /\ pending' = [pending EXCEPT ![ThreadOf(x)] = FALSE] /\ stuck' = stuck \ {ThreadOf(x)}
  BY Zenon DEF Clear
<1>1. ThreadOf(x) \in Thread
  BY ThreadOfFacts
<1>2. open' \subseteq Sync
  BY DEF Clear, HInv, TypeOK
<1>3. PICK where \in {"failed", "close", "done"} :
        /\ To(x, where) /\ (where = "failed" => proc[x].at = "none")
        /\ where = "close" => kind[x] = "sync"
  BY DEF Clear
<1>4. /\ pc' \in [Session -> ThreadState] /\ pc'[x] = where
      /\ \A y \in Session \ {x} : pc'[y] = pc[y]
  BY <1>3, ToFacts DEF HInv, ThreadState
<1>5. /\ pending' \in [Thread -> BOOLEAN] /\ ~pending'[ThreadOf(x)]
      /\ \A t \in Thread \ {ThreadOf(x)} : pending'[t] = pending[t]
  BY <1>0, <1>1 DEF HInv, TypeOK
<1>6. TypeOK'
  <2>1. x \in Command => pc'[x] \notin {"close", "wait", "reap"}
    BY <1>3, <1>4, SessionFacts DEF HInv
  <2>2. CommandsGoOn'
    BY <1>4, <2>1, PlacesKept DEF HInv
  <2> QED
    BY <2>2, <1>0, <1>2, <1>4, <1>5 DEF HInv, TypeOK
<1>7. OneCommand' /\ RawNeverArms'
  BY <1>0, <1>4 DEF HInv, OneCommand, RawNeverArms, Session
<1>8. ArmedForFork'
  <2> SUFFICES ASSUME NEW y \in Session, pc'[y] = "fork", kind[y] # "raw" PROVE pending'[ThreadOf(y)]
    BY <1>0 DEF ArmedForFork, ThreadOf
  <2>1. y # x /\ pc[y] = "fork"
    BY <1>4
  <2>2. ThreadOf(y) # ThreadOf(x)
    BY <1>0, <2>1, OneWindow
  <2> QED
    BY <1>5, <2>1, <2>2, ThreadOfFacts DEF HInv, ArmedForFork
<1>9. ArmedBySwitching'
  <2> SUFFICES ASSUME NEW t \in Thread, pending'[t]
               PROVE  \/ t \in stuck'
                      \/ \E y \in Session : ThreadOf(y) = t /\ kind[y] # "raw" /\ pc'[y] \in {"fork", "clear"}
    BY <1>0 DEF ArmedBySwitching, ThreadOf
  <2>1. t # ThreadOf(x) /\ pending[t]
    BY <1>5
  <2>2. CASE t \in stuck
    BY <1>0, <2>1, <2>2
  <2>3. CASE t \notin stuck
    BY <1>4, <2>1, <2>3 DEF HInv, ArmedBySwitching
  <2> QED
    BY <2>2, <2>3
<1>10. ChildPlace(x)' /\ ChildDomain(x)'
  BY <1>0, <1>3, <1>4 DEF HInv, ChildPlace, ChildDomain, Alive, Refused
<1> QED
  BY <1>0, <1>4, <1>6, <1>7, <1>8, <1>9, <1>10, OthersKeep DEF HInv

\* What a kill whose result nobody looks at leaves of the child.
LEMMA KillFacts ==
    ASSUME TypeOK, NEW x \in Session, Kill(x)
    PROVE  /\ proc' \in [Session -> Process]
           /\ \/ Alive(x) /\ proc'[x].at = "killed"
              \/ proc'[x] = proc[x] /\ (Gone(x) \/ proc[x].domain = "recovery")
           /\ \A y \in Session \ {x} : proc'[y] = proc[y]
<1>1. CASE (Gone(x) \/ proc[x].domain = "recovery") /\ UNCHANGED proc
  BY <1>1 DEF TypeOK
<1>2. CASE Alive(x) /\ proc' = [proc EXCEPT ![x].at = "killed"]
  <2> DEFINE p == [proc[x] EXCEPT !.at = "killed"]
  <2>1. p \in Process /\ p.at = "killed"
    BY SessionFacts DEF Process, ProcessState
  <2>2. proc' = [proc EXCEPT ![x] = p]
    BY <1>2
  <2> HIDE DEF p
  <2> QED
    BY <1>2, <2>1, <2>2 DEF TypeOK
<1> QED
  BY <1>1, <1>2 DEF Kill

LEMMA ClearFailsInv == ASSUME HInv, NEW x \in Session, ClearFails(x) PROVE HInv'
<1>0. /\ pc[x] = "clear" /\ UNCHANGED <<kind, pending>> /\ stuck' = stuck \cup {ThreadOf(x)}
      /\ open' = open \ {x} /\ Kill(x)
  BY Zenon DEF ClearFails
<1>1. ThreadOf(x) \in Thread
  BY ThreadOfFacts
<1>2. PICK where \in {"reap", "failed"} : To(x, where) /\ (where = "reap" => kind[x] = "sync")
  BY DEF ClearFails
<1>3. /\ pc' \in [Session -> ThreadState] /\ pc'[x] = where
      /\ \A y \in Session \ {x} : pc'[y] = pc[y]
  BY <1>2, ToFacts DEF HInv, ThreadState
<1>4. /\ proc' \in [Session -> Process]
      /\ \/ proc'[x].at = "killed"
         \/ proc'[x] = proc[x] /\ (Gone(x) \/ proc[x].domain = "recovery")
      /\ \A y \in Session \ {x} : proc'[y] = proc[y]
  BY <1>0, KillFacts DEF HInv
<1>5. TypeOK'
  <2>1. x \in Command => pc'[x] \notin {"close", "wait", "reap"}
    BY <1>2, <1>3, SessionFacts DEF HInv
  <2>2. CommandsGoOn'
    BY <1>3, <2>1, PlacesKept DEF HInv
  <2> QED
    BY <2>2, <1>0, <1>1, <1>3, <1>4 DEF HInv, TypeOK
<1>6. OneCommand' /\ RawNeverArms'
  BY <1>0, <1>3 DEF HInv, OneCommand, RawNeverArms, Session
<1>7. ArmedForFork'
  BY <1>0, <1>3 DEF HInv, ArmedForFork, ThreadOf
<1>8. ArmedBySwitching'
  <2> SUFFICES ASSUME NEW t \in Thread, pending[t], t \notin stuck'
               PROVE  \E y \in Session : ThreadOf(y) = t /\ kind[y] # "raw" /\ pc'[y] \in {"fork", "clear"}
    BY <1>0 DEF ArmedBySwitching, ThreadOf
  <2>1. t \notin stuck /\ t # ThreadOf(x)
    BY <1>0
  <2> QED
    BY <1>3, <2>1 DEF HInv, ArmedBySwitching
<1>9. ChildPlace(x)' /\ ChildDomain(x)'
  <2>1. pc'[x] \in {"reap", "failed"} /\ kind'[x] = kind[x] /\ kind[x] # "raw"
    BY <1>0, <1>3 DEF HInv, RawNeverArms
  <2>2. CASE proc'[x].at = "killed"
    BY <2>1, <2>2 DEF ChildPlace, ChildDomain, Alive
  <2>3. CASE proc'[x] = proc[x] /\ (Gone(x) \/ proc[x].domain = "recovery")
    BY <2>1, <2>3 DEF HInv, ChildPlace, ChildDomain, Alive, Gone
  <2> QED
    BY <1>4, <2>2, <2>3
<1> QED
  BY <1>0, <1>3, <1>4, <1>5, <1>6, <1>7, <1>8, <1>9, OthersKeep DEF HInv

\* The parent's last steps of a sync session: the window is closed.
LEMMA CloseReapInv == ASSUME HInv, NEW s \in Session, Close(s) \/ Reap(s) PROVE HInv'
<1>0. pc[s] \in {"close", "wait", "reap"} /\ UNCHANGED <<kind, pending, stuck>>
  BY Zenon DEF Close, Reap
<1>1. open' \subseteq Sync
  BY DEF Close, Reap, HInv, TypeOK
<1>2. PICK where \in {"wait", "done", "failed"} : To(s, where) /\ (where = "failed" => proc' = [proc EXCEPT ![s] = NoProcess])
  BY DEF Close, Reap
<1>3. /\ pc' \in [Session -> ThreadState] /\ pc'[s] = where
      /\ \A y \in Session \ {s} : pc'[y] = pc[y]
  BY <1>2, ToFacts DEF HInv, ThreadState
<1>4. /\ proc' \in [Session -> Process]
      /\ proc'[s] \in {NoProcess, proc[s]} /\ (where = "failed" => proc'[s] = NoProcess)
      /\ \A y \in Session \ {s} : proc'[y] = proc[y]
  BY <1>2, NoProcessFacts DEF HInv, TypeOK, Close, Reap
<1>5. TypeOK'
  <2>1. s \notin Command
    BY <1>0 DEF HInv, TypeOK, CommandsGoOn
  <2>2. CommandsGoOn'
    BY <1>3, <2>1, PlacesKept DEF HInv
  <2> QED
    BY <2>2, <1>0, <1>1, <1>3, <1>4 DEF HInv, TypeOK
<1>6. OneCommand' /\ RawNeverArms'
  BY <1>0, <1>3 DEF HInv, OneCommand, RawNeverArms, Session
<1>7. ArmedForFork'
  BY <1>0, <1>3 DEF HInv, ArmedForFork, ThreadOf
<1>8. ArmedBySwitching'
  BY <1>0, <1>3 DEF HInv, ArmedBySwitching, ThreadOf
<1>9. ChildPlace(s)' /\ ChildDomain(s)'
  BY <1>0, <1>3, <1>4, NoProcessFacts DEF HInv, ChildPlace, ChildDomain, Alive, Refused
<1> QED
  BY <1>0, <1>3, <1>4, <1>5, <1>6, <1>7, <1>8, <1>9, OthersKeep DEF HInv

LEMMA StepInv == HInv /\ [Next]_vars => HInv'
<1> SUFFICES ASSUME HInv, [Next]_vars PROVE HInv'
  OBVIOUS
<1>1. CASE \E c \in Command : StartCommand(c)
  BY <1>1, StartCommandInv
<1>2. CASE \E s \in Sync : StartSync(s)
  BY <1>2, StartSyncInv
<1>3. ASSUME NEW x \in Session, Handler(x) PROVE HInv'
  BY <1>3, ArmInv, ForkInv, ClearInv, ClearFailsInv, CloseReapInv DEF Handler
<1>4. ASSUME NEW x \in Session, Starting(x) \/ Exits(x) \/ Dies(x) PROVE HInv'
  BY <1>4, ChildInv
<1>5. CASE UNCHANGED vars
  BY <1>5 DEF vars, HInv, TypeOK, CommandsGoOn, OneCommand, RawNeverArms, ArmedForFork, ArmedBySwitching,
              ChildPlace, ChildDomain, Alive, Refused, ThreadOf
<1> QED
  BY <1>1, <1>2, <1>3, <1>4, <1>5 DEF Next

(* The handoff is consistent at every step of every interleaving: who is    *)
(* about to fork a switching child has the context armed, nobody else has,  *)
(* and each child is bound for the recovery domain at each point of its     *)
(* start.                                                                   *)
THEOREM HandoffInvariance == Spec => []HInv
  BY InitInv, StepInv, PTL DEF Spec

(* The state of the daemon and of the children stays well typed.            *)
THEOREM TypeCorrect == Spec => []TypeOK
  BY HandoffInvariance, PTL DEF HInv

(* Whatever runs for a request, a shell, a PTY or the sync helper, runs in  *)
(* the recovery domain, for any number of concurrent requests.              *)
THEOREM AlwaysInRecovery == Spec => []ServedInRecovery
<1>1. HInv => ServedInRecovery
  BY DEF HInv, ChildDomain, ServedInRecovery
<1> QED
  BY <1>1, HandoffInvariance, PTL

(* A thread of adbd has the recovery context armed only between its arming  *)
(* and its clearing, unless the kernel refused to clear it.                 *)
THEOREM TransitionIsScoped == Spec => []NoStrayTransition
<1>1. HInv => NoStrayTransition
  BY DEF HInv, ArmedBySwitching, NoStrayTransition
<1> QED
  BY <1>1, HandoffInvariance, PTL

-----------------------------------------------------------------------------
(* The steps of RequestService.                                             *)

\* Where only the entries of x change, what has become of the others does not.
LEMMA ProgressKept ==
    ASSUME NEW y \in Session, pc'[y] = pc[y], proc'[y] = proc[y]
    PROVE  Progress(y)' = Progress(y)
  BY DEF Progress, Alive, Refused, Placed

\* A step at x that takes x from one state of the service to another is a step
\* of the service, one that keeps the state of x is a stutter.
LEMMA MoveOf ==
    ASSUME NEW x \in Session,
           \A y \in Session \ {x} : pc'[y] = pc[y] /\ proc'[y] = proc[y],
           \/ Progress(x)' = Progress(x)
           \/ Progress(x) \in {"none", "over"} /\ Progress(x)' = "accepted"
           \/ Progress(x) = "accepted" /\ Progress(x)' = "placed"
           \/ Progress(x) \in {"accepted", "placed"} /\ Progress(x)' = "served"
           \/ Progress(x) \in {"placed", "served"} /\ Progress(x)' = "escaped"
           \/ Progress(x) \in {"accepted", "placed", "served", "escaped"} /\ Progress(x)' = "over"
    PROVE  Service!Next \/ UNCHANGED ServiceState
<1>1. \A y \in Session \ {x} : Progress(y)' = Progress(y)
  BY ProgressKept
<1>2. ServiceState' = [ServiceState EXCEPT ![x] = Progress(x)'] /\ ServiceState[x] = Progress(x)
  BY <1>1 DEF ServiceState
<1>3. CASE Progress(x)' = Progress(x)
  BY <1>1, <1>3 DEF ServiceState
<1>4. CASE Progress(x) \in {"none", "over"} /\ Progress(x)' = "accepted"
  BY <1>2, <1>4 DEF Service!Next, Service!Accept, Service!Move
<1>5. CASE Progress(x) = "accepted" /\ Progress(x)' = "placed"
  BY <1>2, <1>5 DEF Service!Next, Service!Place, Service!Move
<1>6. CASE Progress(x) \in {"accepted", "placed"} /\ Progress(x)' = "served"
  BY <1>2, <1>6 DEF Service!Next, Service!Serve, Service!Move
<1>7. CASE Progress(x) \in {"placed", "served"} /\ Progress(x)' = "escaped"
  BY <1>2, <1>7 DEF Service!Next, Service!Escape, Service!Move
<1>8. CASE Progress(x) \in {"accepted", "placed", "served", "escaped"} /\ Progress(x)' = "over"
  BY <1>2, <1>8 DEF Service!Next, Service!End, Service!Move
<1> QED
  BY <1>3, <1>4, <1>5, <1>6, <1>7, <1>8

LEMMA InitService == Init => Service!Init
  BY DEF Init, Service!Init, ServiceState, Progress, Alive, Refused, NoProcess

Simulates == Service!Next \/ UNCHANGED ServiceState

\* What has become of x by where its handler and its child are.
ProgressIs(x) ==
    /\ pc[x] = "new" => Progress(x) = "none"
    /\ Refused(x) => Progress(x) = IF Alive(x) THEN "escaped" ELSE "over"
    /\ pc[x] # "new" /\ ~Refused(x) =>
          /\ proc[x].at = "exited" => Progress(x) = "over"
          /\ proc[x].at = "serving" => Progress(x) = "served"
          /\ proc[x].at \in {"setup", "ready", "main"} =>
                Progress(x) = IF Placed(x) THEN "placed" ELSE "accepted"
          /\ proc[x].at \in {"none", "killed"} => Progress(x) = IF pc[x] = "done" THEN "over" ELSE "accepted"

ProgressKnown == \A x \in Session : ProgressIs(x)

LEMMA ProgressFacts == HInv => ProgressKnown
<1> SUFFICES ASSUME HInv, NEW x \in Session PROVE ProgressIs(x)
  BY DEF ProgressKnown
<1>1. pc[x] = "new" => Progress(x) = "none"
  BY DEF Progress
<1>2. Refused(x) => Progress(x) = IF Alive(x) THEN "escaped" ELSE "over"
  BY DEF HInv, ChildPlace, ChildDomain, Progress, Refused, Alive, Placed
<1>3. pc[x] # "new" /\ ~Refused(x) /\ proc[x].at = "serving" => Progress(x) = "served"
  BY DEF HInv, ChildDomain, Progress, Alive, Placed
<1>4. pc[x] # "new" /\ ~Refused(x) /\ proc[x].at \in {"setup", "ready", "main"} =>
         Progress(x) = IF Placed(x) THEN "placed" ELSE "accepted"
  BY DEF Progress, Alive
<1>5. pc[x] # "new" /\ ~Refused(x) /\ proc[x].at \in {"none", "killed", "exited"} =>
         Progress(x) = IF pc[x] = "done" \/ proc[x].at = "exited" THEN "over" ELSE "accepted"
  BY DEF Progress, Alive
<1> QED
  BY <1>1, <1>2, <1>3, <1>4, <1>5 DEF ProgressIs

LEMMA StartCommandStep == ASSUME HInv, HInv', NEW c \in Command, StartCommand(c) PROVE Simulates
<1>0. c \in Session
  BY DEF Session
<1>1. PICK where \in {"arm", "fork"} : To(c, where)
  BY DEF StartCommand
<1>2. pc'[c] \in {"arm", "fork"} /\ \A y \in Session \ {c} : pc'[y] = pc[y]
  BY <1>0, <1>1, ToFacts DEF HInv, ThreadState
<1>3. proc'[c] = NoProcess /\ \A y \in Session \ {c} : proc'[y] = proc[y]
  BY <1>0 DEF StartCommand, HInv, TypeOK
<1>4. Progress(c) \in {"none", "over"}
  BY <1>0, OverFacts, ProgressFacts DEF StartCommand, ProgressKnown, ProgressIs, Refused, Gone
<1>5. Progress(c)' = "accepted"
  BY <1>2, <1>3, NoProcessFacts DEF Progress, Alive, Refused
<1> QED
  BY <1>0, <1>2, <1>3, <1>4, <1>5, MoveOf DEF Simulates

LEMMA StartSyncStep == ASSUME HInv, NEW s \in Sync, StartSync(s) PROVE Simulates
<1>0. s \in Session
  BY DEF Session
<1>1. pc'[s] = "arm" /\ \A y \in Session \ {s} : pc'[y] = pc[y]
  BY <1>0, ToFacts DEF StartSync, HInv, ThreadState
<1>2. proc' = proc /\ proc[s] = NoProcess
  BY <1>0, OverFacts DEF StartSync
<1>3. Progress(s) \in {"none", "over"}
  BY <1>0, OverFacts, ProgressFacts DEF StartSync, ProgressKnown, ProgressIs, Refused, Gone
<1>4. Progress(s)' = "accepted"
  BY <1>1, <1>2, NoProcessFacts DEF Progress, Alive, Refused
<1> QED
  BY <1>0, <1>1, <1>2, <1>3, <1>4, MoveOf DEF Simulates

LEMMA HandlerStep == ASSUME HInv, NEW x \in Session, Handler(x) PROVE Simulates
<1>1. CASE Arm(x)
  <2>1. PICK where \in {"fork", "failed"} : To(x, where)
    BY <1>1 DEF Arm
  <2>2. pc'[x] = where /\ \A y \in Session \ {x} : pc'[y] = pc[y]
    BY <2>1, ToFacts DEF HInv, ThreadState
  <2>3. pc[x] = "arm" /\ proc' = proc /\ proc[x] = NoProcess
    BY <1>1 DEF Arm, HInv, ChildPlace
  <2>4. Progress(x) = "accepted"
    BY <2>3, ProgressFacts, NoProcessFacts DEF ProgressKnown, ProgressIs, Refused
  <2>5. Progress(x)' \in {"accepted", "over"}
    BY <2>2, <2>3, NoProcessFacts DEF Progress, Alive, Refused, Placed
  <2> QED
    BY <2>2, <2>3, <2>4, <2>5, MoveOf DEF Simulates
<1>2. CASE Fork(x)
  <2>1. pc[x] = "fork" /\ proc[x] = NoProcess
    BY <1>2 DEF Fork, HInv, ChildPlace
  <2>2. PICK where \in {"done", "clear", "failed"} :
           /\ To(x, where)
           /\ \/ proc'[x].at = "setup" /\ proc'[x].domain = "adbd" /\ where # "failed"
              \/ proc'[x] = NoProcess /\ where # "done"
           /\ \A y \in Session \ {x} : proc'[y] = proc[y]
    BY <1>2, <2>1 DEF Fork, HInv, TypeOK
  <2>3. pc'[x] = where /\ \A y \in Session \ {x} : pc'[y] = pc[y]
    BY <2>2, ToFacts DEF HInv, ThreadState
  <2>4. Progress(x) = "accepted"
    BY <2>1, ProgressFacts, NoProcessFacts DEF ProgressKnown, ProgressIs, Refused
  <2>5. Progress(x)' \in {"accepted", "over"}
    BY <2>2, <2>3, NoProcessFacts DEF Progress, Alive, Refused, Placed
  <2> QED
    BY <2>2, <2>3, <2>4, <2>5, MoveOf DEF Simulates
<1>3. CASE Clear(x)
  <2>1. PICK where \in {"failed", "close", "done"} :
           To(x, where) /\ (where = "failed" <=> proc[x].at = "none")
    BY <1>3 DEF Clear
  <2>2. pc'[x] = where /\ \A y \in Session \ {x} : pc'[y] = pc[y]
    BY <2>1, ToFacts DEF HInv, ThreadState
  <2>3. pc[x] = "clear" /\ proc' = proc
    BY <1>3 DEF Clear
  <2>4. CASE proc[x].at = "none"
    <3>1. Progress(x) = "accepted" /\ Progress(x)' = "over"
      BY <2>1, <2>2, <2>3, <2>4 DEF Progress, Alive, Refused
    <3> QED
      BY <2>2, <2>3, <3>1, MoveOf DEF Simulates
  <2>5. CASE Alive(x) \/ proc[x].at = "exited"
    <3>1. pc'[x] \in {"close", "done"}
      BY <2>1, <2>2, <2>5 DEF Alive
    <3>2. Progress(x)' = Progress(x)
      BY <2>3, <2>5, <3>1 DEF Progress, Alive, Refused, Placed
    <3> QED
      BY <2>2, <2>3, <3>2, MoveOf DEF Simulates
  <2>6. CASE proc[x].at = "killed"
    <3>1. Progress(x) = "accepted"
      BY <2>3, <2>6 DEF Progress, Alive, Refused
    <3>2. Progress(x)' \in {"accepted", "over"}
      BY <2>1, <2>2, <2>3, <2>6 DEF Progress, Alive, Refused
    <3> QED
      BY <2>2, <2>3, <3>1, <3>2, MoveOf DEF Simulates
  <2> QED
    BY <2>4, <2>5, <2>6, SessionFacts DEF HInv, Alive, ProcessState
<1>4. CASE ClearFails(x)
  <2>1. PICK where \in {"reap", "failed"} : To(x, where)
    BY <1>4 DEF ClearFails
  <2>2. pc'[x] = where /\ \A y \in Session \ {x} : pc'[y] = pc[y]
    BY <2>1, ToFacts DEF HInv, ThreadState
  <2>3. /\ pc[x] = "clear" /\ \A y \in Session \ {x} : proc'[y] = proc[y]
        /\ \/ proc'[x].at = "killed"
           \/ proc'[x] = proc[x] /\ (Gone(x) \/ proc[x].domain = "recovery")
    BY <1>4, KillFacts DEF ClearFails, HInv
  <2>4. Progress(x) \in {"accepted", "placed", "served", "over"}
    BY <2>3, ProgressFacts, SessionFacts DEF HInv, ProcessState, ProgressKnown, ProgressIs, Refused
  <2>5. CASE proc'[x].at = "killed"
    <3>1. Progress(x)' = "over"
      BY <2>2, <2>5 DEF Progress, Alive, Refused
    <3> QED
      BY <2>2, <2>3, <2>4, <3>1, MoveOf DEF Simulates
  <2>6. CASE proc'[x] = proc[x] /\ Gone(x)
    <3>1. Progress(x)' = "over"
      BY <2>2, <2>6 DEF Progress, Alive, Refused, Gone
    <3> QED
      BY <2>2, <2>3, <2>4, <3>1, MoveOf DEF Simulates
  <2>7. CASE proc'[x] = proc[x] /\ ~Gone(x) /\ proc[x].domain = "recovery"
    <3>1. CASE proc[x].at = "killed"
      <4>1. Progress(x)' = "over"
        BY <2>2, <2>7, <3>1 DEF Progress, Alive, Refused
      <4> QED
        BY <2>2, <2>3, <2>4, <4>1, MoveOf DEF Simulates
    <3>2. CASE proc[x].at # "killed"
      <4>1. proc[x].at \in {"setup", "ready", "main", "serving"}
        BY <2>7, <3>2, SessionFacts DEF HInv, Gone, ProcessState
      <4>2. Progress(x)' = "escaped"
        BY <2>2, <2>7, <4>1 DEF Progress, Alive, Refused, Placed
      <4>3. Progress(x) \in {"placed", "served"}
        BY <2>3, <2>7, <4>1, ProgressFacts DEF ProgressKnown, ProgressIs, Refused, Placed
      <4> QED
        BY <2>2, <2>3, <4>2, <4>3, MoveOf DEF Simulates
    <3> QED
      BY <3>1, <3>2
  <2> QED
    BY <2>3, <2>5, <2>6, <2>7
<1>5. CASE Close(x)
  <2>1. pc[x] = "close" /\ proc' = proc /\ To(x, "wait")
    BY <1>5 DEF Close
  <2>2. pc'[x] = "wait" /\ \A y \in Session \ {x} : pc'[y] = pc[y]
    BY <2>1, ToFacts DEF HInv, ThreadState
  <2>3. Progress(x)' = Progress(x)
    BY <2>1, <2>2 DEF Progress, Alive, Refused, Placed
  <2> QED
    BY <2>1, <2>2, <2>3, MoveOf DEF Simulates
<1>6. CASE Reap(x)
  <2>1. pc[x] \in {"wait", "reap"} /\ proc[x] = Exited /\ proc' = [proc EXCEPT ![x] = NoProcess]
    BY <1>6 DEF Reap
  <2>2. PICK where \in {"done", "failed"} : To(x, where)
    BY <1>6 DEF Reap
  <2>3. pc'[x] = where /\ \A y \in Session \ {x} : pc'[y] = pc[y]
    BY <2>2, ToFacts DEF HInv, ThreadState
  <2>4. proc'[x] = NoProcess /\ \A y \in Session \ {x} : proc'[y] = proc[y]
    BY <2>1 DEF HInv, TypeOK
  <2>5. Progress(x) = "over" /\ Progress(x)' = "over"
    BY <2>1, <2>3, <2>4, NoProcessFacts DEF Progress, Alive, Refused
  <2> QED
    BY <2>3, <2>4, <2>5, MoveOf DEF Simulates
<1> QED
  BY <1>1, <1>2, <1>3, <1>4, <1>5, <1>6 DEF Handler

LEMMA ChildStep == ASSUME HInv, HInv', NEW x \in Session, Starting(x) \/ Exits(x) \/ Dies(x) PROVE Simulates
<1>0. UNCHANGED pc /\ \A y \in Session \ {x} : proc'[y] = proc[y]
  <2>1. PICK p : Become(x, p)
    BY DEF Starting, Exits, Dies, Setup, ChildFails, Exec, Executed, HelperMain
  <2> QED
    BY <2>1 DEF Become, HInv, TypeOK
<1>1. \/ proc[x].at \in {"setup", "ready", "main", "serving", "killed"} /\ proc'[x].at = "exited"
      \/ proc[x].at = "setup" /\ proc'[x].at = "ready"
         /\ proc'[x].domain = IF kind[x] = "raw" THEN "recovery" ELSE proc[x].domain
      \/ proc[x].at = "ready" /\ proc'[x].at \in {"main", "serving"}
      \/ proc[x].at = "main" /\ proc'[x].at = "serving"
  <2>1. CASE Setup(x)
    BY <2>1, SessionFacts DEF Setup, Become, HInv, TypeOK, Process
  <2>2. CASE ChildFails(x)
    BY <2>2, NoProcessFacts DEF ChildFails, Become, HInv, TypeOK
  <2>3. CASE Exec(x)
    BY <2>3 DEF Exec, Executed, Become, HInv, TypeOK
  <2>4. CASE HelperMain(x)
    BY <2>4, SessionFacts, NoProcessFacts DEF HelperMain, Become, HInv, TypeOK, Process
  <2>5. CASE Exits(x) \/ Dies(x)
    BY <2>5, NoProcessFacts DEF Exits, Dies, Become, HInv, TypeOK
  <2>6. Setup(x) \/ ChildFails(x) \/ Exec(x) \/ HelperMain(x) \/ Exits(x) \/ Dies(x)
    BY DEF Starting
  <2> QED
    BY ONLY <2>1, <2>2, <2>3, <2>4, <2>5, <2>6
<1>2. pc[x] # "new"
  BY <1>1, NoProcessFacts DEF HInv, ChildPlace
<1>3. ProgressIs(x) /\ ProgressIs(x)'
  <2>1. ProgressKnown /\ ProgressKnown'
    BY ProgressFacts, PTL
  <2> QED
    BY <2>1 DEF ProgressKnown
<1>4. pc'[x] # "new" /\ (Refused(x)' <=> Refused(x)) /\ (pc'[x] = "done" <=> pc[x] = "done")
  BY <1>0, <1>2 DEF Refused
<1>5. CASE Refused(x)
  <2>1. proc[x].at \notin {"setup", "ready"}
    BY <1>5 DEF HInv, ChildPlace, Alive
  <2>2. \/ Progress(x)' = Progress(x)
        \/ Progress(x) = "escaped" /\ Progress(x)' = "over"
    BY <1>1, <1>3, <1>4, <1>5, <2>1 DEF ProgressIs, Alive
  <2> QED
    BY <1>0, <2>2, MoveOf DEF Simulates
<1>6. CASE ~Refused(x)
  <2>1. CASE proc[x].at \in {"setup", "ready", "main", "serving", "killed"} /\ proc'[x].at = "exited"
    <3>1. Progress(x) \in {"accepted", "placed", "served", "over"} /\ Progress(x)' = "over"
      BY <1>2, <1>3, <1>4, <1>6, <2>1 DEF ProgressIs
    <3> QED
      BY <1>0, <3>1, MoveOf DEF Simulates
  <2>2. CASE proc[x].at = "setup" /\ proc'[x].at = "ready"
    <3>1. \/ Placed(x)' /\ Progress(x) \in {"accepted", "placed"}
          \/ ~Placed(x)' /\ Progress(x) = "accepted"
      BY <1>1, <1>2, <1>3, <1>6, <2>2 DEF ProgressIs, Placed
    <3>2. Progress(x)' = IF Placed(x)' THEN "placed" ELSE "accepted"
      BY <1>3, <1>4, <1>6, <2>2 DEF ProgressIs
    <3> QED
      BY <1>0, <3>1, <3>2, MoveOf DEF Simulates
  <2>3. CASE proc[x].at \in {"ready", "main"} /\ proc'[x].at \in {"main", "serving"}
    <3>1. Progress(x) \in {"accepted", "placed"}
      BY <1>2, <1>3, <1>6, <2>3 DEF ProgressIs
    <3>2. Progress(x)' \in {"placed", "served"}
      BY <1>3, <1>4, <1>6, <2>3 DEF ProgressIs, HInv, ChildDomain, Placed
    <3> QED
      BY <1>0, <3>1, <3>2, MoveOf DEF Simulates
  <2> QED
    BY <1>1, <2>1, <2>2, <2>3
<1> QED
  BY <1>5, <1>6

(* The handoff implements the safety part of RequestService although the    *)
(* parent does not look at the result of its kill: a request is served at   *)
(* most once and in the recovery domain, what has ended is never served, and*)
(* what is refused only by a child that was in the recovery domain by then. *)
THEOREM KeepsServicePromise == Spec => Service!Safety
<1>1. HInv /\ HInv' /\ [Next]_vars => [Service!Next]_ServiceState
  <2> SUFFICES ASSUME HInv, HInv', [Next]_vars PROVE Simulates
    BY DEF Simulates
  <2>1. CASE \E c \in Command : StartCommand(c)
    BY <2>1, StartCommandStep
  <2>2. CASE \E s \in Sync : StartSync(s)
    BY <2>2, StartSyncStep
  <2>3. CASE \E x \in Session : Handler(x) \/ Starting(x) \/ Exits(x) \/ Dies(x)
    BY <2>3, HandlerStep, ChildStep
  <2>4. CASE UNCHANGED vars
    <3>1. \A y \in Session : Progress(y)' = Progress(y)
      BY <2>4, ProgressKept DEF vars
    <3> QED
      BY <3>1 DEF Simulates, ServiceState
  <2> QED
    BY <2>1, <2>2, <2>3, <2>4 DEF Next
<1> QED
  BY <1>1, InitService, HandoffInvariance, PTL DEF Spec, Service!Safety

-----------------------------------------------------------------------------
(* What keeps a sync socket open, and the end of a request.                 *)

LEMMA NothingHeld == NoProcess.holds = {} /\ Exited.holds = {}
  BY DEF NoProcess, Exited

\* What a step of a handler does to its request, to the child and to the sockets.
LEMMA HandlerMoves ==
    ASSUME HInv, NEW x \in Session, Handler(x)
    PROVE  /\ \A y \in Session \ {x} : pc'[y] = pc[y] /\ proc'[y] = proc[y]
           /\ \/ /\ pc[x] = "arm" /\ proc'[x] = proc[x]
                 /\ \/ pc'[x] = "fork" /\ open' = open
                    \/ pc'[x] = "failed" /\ open' = open \ {x}
              \/ /\ pc[x] = "fork" /\ open' = open
                 /\ pc'[x] = "clear" \/ (x \notin Sync /\ pc'[x] \in {"done", "failed"})
                 /\ proc'[x] = proc[x] \/ proc'[x].at = "setup"
              \/ /\ pc[x] = "clear" /\ proc'[x] = proc[x]
                 /\ \/ pc'[x] = "failed" /\ proc[x] = NoProcess /\ open' = open \ {x}
                    \/ pc'[x] = (IF x \in Sync THEN "close" ELSE "done") /\ open' = open
              \/ /\ pc[x] = "clear" /\ open' = open \ {x}
                 /\ proc'[x] = proc[x] \/ proc'[x].at = "killed"
                 /\ \/ pc'[x] = "reap"
                    \/ pc'[x] = "failed" /\ (x \in Sync => proc'[x] = NoProcess)
              \/ pc[x] = "close" /\ pc'[x] = "wait" /\ proc'[x] = proc[x] /\ open' = open \ {x}
              \/ /\ pc[x] \in {"wait", "reap"} /\ pc'[x] \in {"done", "failed"}
                 /\ proc'[x] = NoProcess /\ open' = open
<1>0. kind[x] = "sync" <=> x \in Sync
  BY SessionFacts DEF HInv
<1>1. CASE Arm(x)
  <2>1. PICK where \in {"fork", "failed"} :
           To(x, where) /\ open' = IF where = "fork" THEN open ELSE open \ {x}
    BY <1>1 DEF Arm
  <2>2. pc'[x] = where /\ \A y \in Session \ {x} : pc'[y] = pc[y]
    BY <2>1, ToFacts DEF HInv, ThreadState
  <2>3. pc[x] = "arm" /\ proc' = proc
    BY <1>1 DEF Arm
  <2> QED
    BY <2>1, <2>2, <2>3
<1>2. CASE Fork(x)
  <2>1. pc[x] = "fork" /\ open' = open
    BY <1>2 DEF Fork
  <2>2. PICK where \in {"done", "clear", "failed"} :
           /\ To(x, where) /\ (kind[x] # "raw" => where = "clear")
           /\ proc'[x].at = "setup" \/ proc'[x] = proc[x]
           /\ \A y \in Session \ {x} : proc'[y] = proc[y]
    BY <1>2, <2>1 DEF Fork, HInv, TypeOK
  <2>3. pc'[x] = where /\ \A y \in Session \ {x} : pc'[y] = pc[y]
    BY <2>2, ToFacts DEF HInv, ThreadState
  <2> QED
    BY <1>0, <2>1, <2>2, <2>3
<1>3. CASE Clear(x)
  <2>1. PICK where \in {"failed", "close", "done"} :
           /\ To(x, where)
           /\ \/ where = "failed" /\ proc[x].at = "none" /\ open' = open \ {x}
              \/ where = (IF kind[x] = "sync" THEN "close" ELSE "done") /\ open' = open
    BY <1>3 DEF Clear
  <2>2. pc'[x] = where /\ \A y \in Session \ {x} : pc'[y] = pc[y]
    BY <2>1, ToFacts DEF HInv, ThreadState
  <2>3. pc[x] = "clear" /\ proc' = proc
    BY <1>3 DEF Clear
  <2>4. proc[x].at = "none" => proc[x] = NoProcess
    BY DEF HInv, ChildPlace
  <2> QED
    BY <1>0, <2>1, <2>2, <2>3, <2>4
<1>4. CASE ClearFails(x)
  <2>1. PICK where \in {"reap", "failed"} :
           To(x, where) /\ (where = "reap" <=> kind[x] = "sync" /\ proc[x].at # "none")
    BY <1>4 DEF ClearFails
  <2>2. pc'[x] = where /\ \A y \in Session \ {x} : pc'[y] = pc[y]
    BY <2>1, ToFacts DEF HInv, ThreadState
  <2>3. pc[x] = "clear" /\ open' = open \ {x}
    BY <1>4 DEF ClearFails
  <2>4. proc[x].at = "none" => proc[x] = NoProcess
    BY DEF HInv, ChildPlace
  <2>5. /\ proc'[x] = proc[x] \/ (Alive(x) /\ proc'[x].at = "killed")
        /\ \A y \in Session \ {x} : proc'[y] = proc[y]
    BY <1>4, KillFacts DEF ClearFails, HInv
  <2>6. proc[x].at = "none" => proc'[x] = NoProcess
    BY <2>4, <2>5 DEF Alive
  <2> QED
    BY <1>0, <2>1, <2>2, <2>3, <2>5, <2>6
<1>5. CASE Close(x)
  <2>1. pc[x] = "close" /\ proc' = proc /\ To(x, "wait") /\ open' = open \ {x}
    BY <1>5 DEF Close
  <2>2. pc'[x] = "wait" /\ \A y \in Session \ {x} : pc'[y] = pc[y]
    BY <2>1, ToFacts DEF HInv, ThreadState
  <2> QED
    BY <2>1, <2>2
<1>6. CASE Reap(x)
  <2>1. pc[x] \in {"wait", "reap"} /\ open' = open /\ proc' = [proc EXCEPT ![x] = NoProcess]
    BY <1>6 DEF Reap
  <2>2. PICK where \in {"done", "failed"} : To(x, where)
    BY <1>6 DEF Reap
  <2>3. pc'[x] = where /\ \A y \in Session \ {x} : pc'[y] = pc[y]
    BY <2>2, ToFacts DEF HInv, ThreadState
  <2>4. proc'[x] = NoProcess /\ \A y \in Session \ {x} : proc'[y] = proc[y]
    BY <2>1 DEF HInv, TypeOK
  <2> QED
    BY <2>1, <2>3, <2>4
<1> QED
  BY <1>1, <1>2, <1>3, <1>4, <1>5, <1>6 DEF Handler

\* What a step of a child does: nothing in the daemon, and only an exec gives it
\* sockets it keeps.
LEMMA ChildMoves ==
    ASSUME HInv, NEW x \in Session, Starting(x) \/ Exits(x) \/ Dies(x)
    PROVE  /\ UNCHANGED <<pc, open>> /\ \A y \in Session \ {x} : proc'[y] = proc[y]
           /\ \/ proc[x].at \in {"setup", "ready", "main", "serving", "killed"} /\ proc'[x] = Exited
              \/ proc[x].at = "setup" /\ proc'[x].at = "ready"
              \/ /\ proc[x].at = "ready" /\ proc'[x].at \in {"main", "serving"}
                 /\ proc'[x].holds = IF x \in Sync THEN {x} ELSE {}
              \/ proc[x].at = "main" /\ proc'[x].at = "serving" /\ proc'[x].holds = proc[x].holds
<1>0. UNCHANGED <<pc, open>> /\ \A y \in Session \ {x} : proc'[y] = proc[y]
  <2>1. PICK p : Become(x, p)
    BY DEF Starting, Exits, Dies, Setup, ChildFails, Exec, Executed, HelperMain
  <2> QED
    BY <2>1 DEF Become, HInv, TypeOK
<1>1. CASE Setup(x)
  BY <1>0, <1>1, SessionFacts DEF Setup, Become, HInv, TypeOK, Process
<1>2. CASE ChildFails(x)
  BY <1>0, <1>2 DEF ChildFails, Become, HInv, TypeOK
<1>3. CASE Exec(x)
  <2>1. kind[x] = "sync" <=> x \in Sync
    BY SessionFacts DEF HInv
  <2> QED
    BY <1>0, <1>3, <2>1 DEF Exec, Executed, Become, HInv, TypeOK
<1>4. CASE HelperMain(x)
  BY <1>0, <1>4, SessionFacts DEF HelperMain, Become, HInv, TypeOK, Process
<1>5. CASE Exits(x) \/ Dies(x)
  BY <1>0, <1>5 DEF Exits, Dies, Become, HInv, TypeOK
<1> QED
  BY <1>1, <1>2, <1>3, <1>4, <1>5 DEF Starting

LEMMA SocketInit == Init => SocketInv
  BY NoProcessFacts, NothingHeld DEF Init, SocketInv, DaemonSockets, ChildSockets, Session

LEMMA SocketStep == HInv /\ SocketInv /\ [Next]_vars => SocketInv'
<1> SUFFICES ASSUME HInv, SocketInv, [Next]_vars PROVE SocketInv'
  OBVIOUS
<1>1. ASSUME NEW c \in Command, StartCommand(c) PROVE SocketInv'
  <2>0. c \in Session /\ c \notin Sync /\ open' = open
    BY <1>1 DEF Session, StartCommand
  <2>1. PICK where \in {"arm", "fork"} : To(c, where)
    BY <1>1 DEF StartCommand
  <2>2. \A y \in Session \ {c} : pc'[y] = pc[y]
    BY <2>0, <2>1, ToFacts DEF HInv, ThreadState
  <2>3. proc'[c] = NoProcess /\ \A y \in Session \ {c} : proc'[y] = proc[y]
    BY <1>1, <2>0 DEF StartCommand, HInv, TypeOK
  <2>4. DaemonSockets'
    BY <2>0, <2>2, <2>3 DEF SocketInv, DaemonSockets, Session
  <2>5. (\A x \in Session : ChildSockets(x))'
    BY <2>3, NoProcessFacts, NothingHeld DEF SocketInv, ChildSockets
  <2> QED
    BY <2>4, <2>5 DEF SocketInv
<1>2. ASSUME NEW s \in Sync, StartSync(s) PROVE SocketInv'
  <2>1. pc'[s] = "arm" /\ \A y \in Session \ {s} : pc'[y] = pc[y]
    BY <1>2, ToFacts DEF StartSync, HInv, ThreadState, Session
  <2>2. open' = open \cup {s} /\ proc' = proc
    BY <1>2 DEF StartSync
  <2>3. DaemonSockets'
    BY <2>1, <2>2 DEF SocketInv, DaemonSockets, Session
  <2> QED
    BY <2>2, <2>3 DEF SocketInv, ChildSockets
<1>3. ASSUME NEW x \in Session, Handler(x) PROVE SocketInv'
  <2>1. \A y \in Session \ {x} : pc'[y] = pc[y] /\ proc'[y] = proc[y] /\ (y \in open' <=> y \in open)
    BY <1>3, HandlerMoves
  <2>2. ChildSockets(x)'
    BY <1>3, HandlerMoves, NoProcessFacts, NothingHeld DEF SocketInv, ChildSockets
  <2>3. x \in Sync => /\ x \in open' <=> pc'[x] \in {"arm", "fork", "clear", "close"}
                      /\ pc'[x] \in {"done", "failed"} => proc'[x] = NoProcess
    <3>1. x \in Sync => (x \in open <=> pc[x] \in {"arm", "fork", "clear", "close"})
      BY DEF SocketInv, DaemonSockets
    <3>2. pc[x] = "arm" => proc[x] = NoProcess
      BY DEF HInv, ChildPlace
    <3> QED
      BY <1>3, <3>1, <3>2, HandlerMoves
  <2>4. DaemonSockets'
    BY <2>1, <2>3 DEF SocketInv, DaemonSockets, Session
  <2>5. (\A y \in Session : ChildSockets(y))'
    BY <2>1, <2>2 DEF SocketInv, ChildSockets
  <2> QED
    BY <2>4, <2>5 DEF SocketInv
<1>4. ASSUME NEW x \in Session, Starting(x) \/ Exits(x) \/ Dies(x) PROVE SocketInv'
  <2>1. UNCHANGED <<pc, open>> /\ \A y \in Session \ {x} : proc'[y] = proc[y]
    BY <1>4, ChildMoves
  <2>2. proc[x].at \in {"setup", "ready", "main", "serving", "killed"}
    BY <1>4, ChildMoves
  <2>3. ChildSockets(x)'
    BY <1>4, ChildMoves, NoProcessFacts, NothingHeld DEF SocketInv, ChildSockets
  <2>4. DaemonSockets'
    <3>1. x \in Sync => pc[x] \notin {"done", "failed"}
      BY <2>2, NoProcessFacts DEF SocketInv, DaemonSockets
    <3> QED
      BY <2>1, <3>1 DEF SocketInv, DaemonSockets, Session
  <2>5. (\A y \in Session : ChildSockets(y))'
    BY <2>1, <2>3 DEF SocketInv, ChildSockets
  <2> QED
    BY <2>4, <2>5 DEF SocketInv
<1>5. CASE UNCHANGED vars
  BY <1>5 DEF vars, SocketInv, DaemonSockets, ChildSockets
<1> QED
  BY <1>1, <1>2, <1>3, <1>4, <1>5 DEF Next

(* The daemon has the socket of a sync session open from the request until  *)
(* it closes it, also on every failing path, and from its exec on no process*)
(* has the socket of another session: neither a shell nor another helper.   *)
THEOREM SocketInvariance == Spec => []SocketInv
  BY SocketInit, SocketStep, HandoffInvariance, PTL DEF Spec

(* The safety part of SyncReleased: only a child of another request that has*)
(* not come to its exec yet, or was killed before its exec and is not gone  *)
(* yet, can still hold the socket of an ended session.                      *)
THEOREM EndedIsReleased == Spec => []HeldByStartingOnly
<1>1. HInv /\ SocketInv => HeldByStartingOnly
  <2> SUFFICES ASSUME HInv, SocketInv, NEW s \in Sync, pc[s] \in {"done", "failed"}, ~Released(s)
               PROVE  \E x \in Session \ {s} : proc[x].at \in {"setup", "ready", "killed"} /\ s \in proc[x].holds
    BY DEF HeldByStartingOnly
  <2>1. proc[s] = NoProcess /\ s \notin open
    BY DEF SocketInv, DaemonSockets
  <2>2. PICK x \in Session : s \in proc[x].holds
    BY <2>1 DEF Released
  <2>3. x # s
    BY <2>1, <2>2, NothingHeld
  <2>4. proc[x].at \in {"setup", "ready", "killed"}
    <3>1. proc[x].at \in {"none", "setup", "ready", "main", "serving", "killed", "exited"}
      BY SessionFacts DEF HInv, ProcessState
    <3>2. ChildSockets(x)
      BY DEF SocketInv
    <3>3. proc[x].holds # {} /\ proc[x].holds # {x}
      BY ONLY <2>2, <2>3
    <3>4. proc[x].at \notin {"none", "exited"}
      BY ONLY <3>2, <3>3 DEF ChildSockets
    <3>5. proc[x].at \notin {"main", "serving"}
      BY ONLY <3>2, <3>3 DEF ChildSockets
    <3> QED
      BY ONLY <3>1, <3>4, <3>5
  <2> QED
    BY <2>2, <2>3, <2>4
<1> QED
  BY <1>1, HandoffInvariance, SocketInvariance, PTL

\* The weight of each place.
LEMMA LeftFacts ==
    /\ DaemonLeft("arm") = 5 /\ DaemonLeft("fork") = 4 /\ DaemonLeft("clear") = 3
    /\ DaemonLeft("close") = 2 /\ DaemonLeft("wait") = 1 /\ DaemonLeft("reap") = 1
    /\ DaemonLeft("done") = 0 /\ DaemonLeft("failed") = 0 /\ DaemonLeft("new") = 0
    /\ ChildLeft("setup") = 4 /\ ChildLeft("ready") = 3 /\ ChildLeft("main") = 2
    /\ ChildLeft("serving") = 1 /\ ChildLeft("killed") = 1 /\ ChildLeft("exited") = 0 /\ ChildLeft("none") = 0
  BY DEF DaemonLeft, ChildLeft

\* The weight of a request, by the places of its handler and of its child.
LEMMA StepsLeftFacts ==
    ASSUME HInv, NEW x \in Session
    PROVE  /\ DaemonLeft(pc[x]) \in 0..5 /\ ChildLeft(proc[x].at) \in 0..4
           /\ StepsLeft(x) \in Nat
<1>1. pc[x] \in ThreadState /\ proc[x].at \in ProcessState
  BY SessionFacts DEF HInv
<1>2. DaemonLeft(pc[x]) \in 0..5
  BY <1>1, LeftFacts DEF ThreadState
<1>3. ChildLeft(proc[x].at) \in 0..4
  BY <1>1, LeftFacts DEF ProcessState
<1> QED
  BY <1>2, <1>3 DEF StepsLeft

\* A handler gives more than a new child takes.
LEMMA HandlerNearer ==
    ASSUME HInv, NEW x \in Session, Handler(x)
    PROVE  StepsLeft(x)' < StepsLeft(x)
<1> DEFINE d == DaemonLeft(pc[x])
           e == DaemonLeft(pc'[x])
           a == ChildLeft(proc[x].at)
           b == ChildLeft(proc'[x].at)
<1>1. StepsLeft(x) = 5 * d + a /\ StepsLeft(x)' = 5 * e + b /\ d \in 0..5 /\ a \in 0..4
  BY StepsLeftFacts DEF StepsLeft, DaemonLeft, ChildLeft
<1>2. e \in 0..5 /\ e < d
  BY HandlerMoves, LeftFacts
<1>3. b \in 0..4 /\ b <= a + 4
  BY HandlerMoves, LeftFacts, NoProcessFacts, <1>1
<1> HIDE DEF a, b, d, e
<1> QED
  BY <1>1, <1>2, <1>3

LEMMA ChildNearer ==
    ASSUME HInv, NEW x \in Session, Starting(x) \/ Exits(x) \/ Dies(x)
    PROVE  StepsLeft(x)' < StepsLeft(x)
<1>1. DaemonLeft(pc[x])' = DaemonLeft(pc[x]) /\ DaemonLeft(pc[x]) \in 0..5
  BY ChildMoves, StepsLeftFacts DEF DaemonLeft
<1>2. /\ ChildLeft(proc[x].at)' \in 0..4 /\ ChildLeft(proc[x].at) \in 0..4
      /\ ChildLeft(proc[x].at)' < ChildLeft(proc[x].at)
  <2>1. ChildLeft(proc[x].at)' = ChildLeft(proc'[x].at)
    BY DEF ChildLeft
  <2>2. \/ proc[x].at \in {"setup", "ready", "main", "serving", "killed"} /\ proc'[x].at = "exited"
        \/ proc[x].at = "setup" /\ proc'[x].at = "ready"
        \/ proc[x].at = "ready" /\ proc'[x].at \in {"main", "serving"}
        \/ proc[x].at = "main" /\ proc'[x].at = "serving"
    BY ChildMoves, NoProcessFacts
  <2> QED
    BY ONLY <2>1, <2>2, LeftFacts
<1> QED
  BY <1>1, <1>2 DEF StepsLeft

\* Where the entries of y do not change, its weight does not.
LEMMA StepsLeftKept ==
    ASSUME NEW y \in Session, pc'[y] = pc[y], proc'[y] = proc[y]
    PROVE  StepsLeft(y)' = StepsLeft(y)
  BY DEF StepsLeft, DaemonLeft, ChildLeft

(* Every step begins a request or brings one nearer to its end, and none    *)
(* sets another one back, for any number of requests at the same time.      *)
THEOREM RequestsAdvance == Spec => []( \A x \in Session : StepsLeft(x) \in Nat) /\ NearerToEnd
<1> DEFINE Nearer == \E x \in Session : /\ Begins(x) \/ StepsLeft(x)' < StepsLeft(x)
                                        /\ \A y \in Session \ {x} : StepsLeft(y)' = StepsLeft(y)
<1>1. ASSUME HInv, Next PROVE Nearer
  <2>1. ASSUME NEW c \in Command, StartCommand(c) PROVE Nearer
    <3>0. c \in Session
      BY DEF Session
    <3>1. PICK where \in {"arm", "fork"} : To(c, where)
      BY <2>1 DEF StartCommand
    <3>2. pc'[c] = where /\ \A y \in Session \ {c} : pc'[y] = pc[y]
      BY <1>1, <3>0, <3>1, ToFacts DEF HInv, ThreadState
    <3>3. \A y \in Session \ {c} : proc'[y] = proc[y]
      BY <1>1, <2>1, <3>0 DEF StartCommand, HInv, TypeOK
    <3>4. Begins(c)
      BY <2>1, <3>2 DEF StartCommand, Begins
    <3>5. \A y \in Session \ {c} : StepsLeft(y)' = StepsLeft(y)
      BY <3>2, <3>3, StepsLeftKept
    <3> QED
      BY <3>0, <3>4, <3>5
  <2>2. ASSUME NEW s \in Sync, StartSync(s) PROVE Nearer
    <3>0. s \in Session
      BY DEF Session
    <3>1. pc'[s] = "arm" /\ \A y \in Session \ {s} : pc'[y] = pc[y]
      BY <1>1, <2>2, <3>0, ToFacts DEF StartSync, HInv, ThreadState
    <3>2. proc' = proc
      BY <2>2 DEF StartSync
    <3>3. Begins(s)
      BY <2>2, <3>1 DEF StartSync, Begins
    <3>4. \A y \in Session \ {s} : StepsLeft(y)' = StepsLeft(y)
      BY <3>1, <3>2, StepsLeftKept
    <3> QED
      BY <3>0, <3>3, <3>4
  <2>3. ASSUME NEW x \in Session, Handler(x) \/ Starting(x) \/ Exits(x) \/ Dies(x) PROVE Nearer
    <3>1. StepsLeft(x)' < StepsLeft(x)
      BY <1>1, <2>3, HandlerNearer, ChildNearer
    <3>2. \A y \in Session \ {x} : pc'[y] = pc[y] /\ proc'[y] = proc[y]
      BY <1>1, <2>3, HandlerMoves, ChildMoves
    <3>3. \A y \in Session \ {x} : StepsLeft(y)' = StepsLeft(y)
      BY <3>2, StepsLeftKept
    <3> QED
      BY <3>1, <3>3
  <2> QED
    BY <1>1, <2>1, <2>2, <2>3 DEF Next
<1>2. HInv /\ [Next]_vars => [Nearer]_vars
  BY <1>1
<1>3. HInv => \A x \in Session : StepsLeft(x) \in Nat
  BY StepsLeftFacts
<1> QED
  BY HandoffInvariance, <1>2, <1>3, PTL DEF Spec, NearerToEnd
=============================================================================
