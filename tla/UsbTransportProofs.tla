------------------------- MODULE UsbTransportProofs -------------------------
(* Safety of the hand-over of USB between adbd and minadbd, for every bound *)
(* on the events init has not handled: a request is answered at most once,  *)
(* and never by the ready state of a daemon that is gone.                   *)
EXTENDS UsbTransport, TLAPS

USE QueueAssumption

Event == {"ready", "req", "stopped"}

\* What queue is, apart from its bound.
QueueOK == queue \in Seq(Event)

LEMMA SeqFacts ==
    ASSUME NEW S, NEW s \in Seq(S)
    PROVE  Len(s) \in Nat /\ DOMAIN s = 1..Len(s) /\ \A i \in DOMAIN s : s[i] \in S
  OBVIOUS

LEMMA AppendFacts ==
    ASSUME NEW S, NEW s \in Seq(S), NEW e \in S
    PROVE  /\ Append(s, e) \in Seq(S)
           /\ Len(Append(s, e)) = Len(s) + 1
           /\ \A i \in DOMAIN s : i \in DOMAIN Append(s, e) /\ Append(s, e)[i] = s[i]
           /\ \A i \in DOMAIN Append(s, e) : i \in DOMAIN s \/ (i = Len(s) + 1 /\ Append(s, e)[i] = e)
  OBVIOUS

LEMMA TailFacts ==
    ASSUME NEW S, NEW s \in Seq(S), s # <<>>
    PROVE  /\ Head(s) \in S /\ Head(s) = s[1] /\ 1 \in DOMAIN s
           /\ Tail(s) \in Seq(S) /\ Len(Tail(s)) = Len(s) - 1
           /\ \A i \in DOMAIN Tail(s) : i \in Nat /\ i + 1 \in DOMAIN s /\ Tail(s)[i] = s[i + 1] /\ 1 < i + 1
  OBVIOUS

-----------------------------------------------------------------------------
LEMMA InitInv == Init => UInv
<1> SUFFICES ASSUME Init PROVE UInv
  OBVIOUS
<1>0. {forced, aliased, mounted, ready, req, enabled, failed, stale} \subseteq BOOLEAN
  BY Zenon DEF Init
<1>1. TypeOK
  BY <1>0 DEF Init, TypeOK, DaemonState, RecoveryState, GateState
<1>2. OneAnswer /\ HandOver /\ NotReadyMeanwhile /\ RequestFindsNotReady
  BY DEF Init, OneAnswer, HandOver, NotReadyMeanwhile, RequestFindsNotReady
<1> QED
  BY <1>1, <1>2 DEF UInv

-----------------------------------------------------------------------------
(* One request, one replay.                                                 *)

Answering == <<stale, req, replays, queue>>

\* An event that is no request joins the queue.
LEMMA AnswerOther ==
    ASSUME QueueOK, stale \/ OneAnswer, NEW e \in Event \ {"req"}, Raise(e),
           UNCHANGED <<stale, req, replays>>
    PROVE  stale' \/ OneAnswer'
<1> SUFFICES ASSUME OneAnswer PROVE OneAnswer'
  OBVIOUS
<1> USE DEF Raise, QueueOK
<1>1. \A i \in DOMAIN queue' : (i \in DOMAIN queue /\ queue'[i] = queue[i]) \/ (i = Len(queue) + 1 /\ queue'[i] = e)
  BY AppendFacts
<1>2. ASSUME NEW i \in DOMAIN queue', NEW j \in DOMAIN queue', i < j, queue'[j] = "req"
      PROVE  queue'[i] = "stopped"
  <2>1. j \in DOMAIN queue /\ queue[j] = "req"
    BY <1>1, <1>2
  <2>2. i \in DOMAIN queue /\ queue'[i] = queue[i]
    BY <1>1, <1>2, <2>1, SeqFacts
  <2> QED
    BY <1>2, <2>1, <2>2 DEF OneAnswer
<1>3. (\A i \in DOMAIN queue : queue[i] # "req") => \A i \in DOMAIN queue' : queue'[i] # "req"
  BY <1>1
<1> QED
  BY <1>2, <1>3 DEF OneAnswer

\* A request raised while init has no event that could match.
LEMMA AnswerRequest ==
    ASSUME QueueOK, NEW next, Request(next)
    PROVE  stale' \/ OneAnswer'
<1> SUFFICES ASSUME ~stale' PROVE OneAnswer'
  OBVIOUS
<1> USE DEF Request, Raise, QueueOK
<1>1. \A i \in DOMAIN queue : queue[i] = "stopped"
  BY SeqFacts DEF Event
<1>2. \A i \in DOMAIN queue' : (i \in DOMAIN queue /\ queue'[i] = queue[i]) \/ i = Len(queue) + 1
  BY AppendFacts DEF Event
<1>3. ASSUME NEW i \in DOMAIN queue', NEW j \in DOMAIN queue', i < j
      PROVE  queue'[i] = "stopped"
  <2>1. queue' \in Seq(Event) /\ Len(queue') = Len(queue) + 1
    BY AppendFacts DEF Event
  <2>2. i \in DOMAIN queue
    BY <1>2, <1>3, <2>1, SeqFacts
  <2> QED
    BY <1>1, <1>2, <2>2, SeqFacts
<1> QED
  BY <1>3 DEF OneAnswer

\* The oldest event is handled: it answers the request, or nothing matches.
LEMMA AnswerTake ==
    ASSUME QueueOK, stale \/ OneAnswer, TakeEvent
    PROVE  stale' \/ OneAnswer'
<1> SUFFICES ASSUME OneAnswer PROVE OneAnswer'
  BY DEF TakeEvent
<1> USE DEF QueueOK
<1>1. queue # <<>> /\ queue' = Tail(queue)
  BY DEF TakeEvent
<1>2. /\ Head(queue) = queue[1] /\ 1 \in DOMAIN queue
      /\ \A i \in DOMAIN queue' : i \in Nat /\ i + 1 \in DOMAIN queue /\ queue'[i] = queue[i + 1] /\ 1 < i + 1
  BY <1>1, TailFacts
<1>3. ASSUME NEW i \in DOMAIN queue', NEW j \in DOMAIN queue', i < j, queue'[j] = "req"
      PROVE  queue'[i] = "stopped"
  <2>1. i + 1 < j + 1
    BY <1>2, <1>3
  <2> QED
    BY <1>2, <1>3, <2>1 DEF OneAnswer
<1>4. (\A i \in DOMAIN queue : queue[i] # "req") => \A i \in DOMAIN queue' : queue'[i] # "req"
  BY <1>2
<1>5. CASE ~Matches(Head(queue))
  BY <1>3, <1>4, <1>5 DEF OneAnswer, TakeEvent
<1>6. CASE Matches(Head(queue))
  <2>1. (queue[1] = "ready" /\ req) \/ queue[1] = "req"
    BY <1>2, <1>6 DEF Matches
  <2>2. replays = 0
    BY <1>2, <2>1 DEF OneAnswer
  <2>3. req' = FALSE /\ replays' = 1
    BY <1>6, <2>2 DEF TakeEvent
  <2>4. \A i \in DOMAIN queue' : queue'[i] # "req"
    BY <1>2, <2>1 DEF OneAnswer
  <2> QED
    BY <1>3, <2>3, <2>4 DEF OneAnswer
<1> QED
  BY <1>5, <1>6

LEMMA AnswerStep == QueueOK /\ (stale \/ OneAnswer) /\ [Next]_vars => (stale' \/ OneAnswer')
<1> SUFFICES ASSUME QueueOK, stale \/ OneAnswer, [Next]_vars PROVE stale' \/ OneAnswer'
  OBVIOUS
<1>1. CASE AdbdPublishes \/ MinadbdPublishes
  BY <1>1, AnswerOther DEF AdbdPublishes, MinadbdPublishes, history, Event
<1>2. CASE ReapAdbd
  <2>1. CASE UNCHANGED queue
    BY <1>2, <2>1 DEF ReapAdbd, history, OneAnswer
  <2>2. CASE Raise("stopped")
    BY <1>2, <2>2, AnswerOther DEF ReapAdbd, history, Event
  <2> QED
    BY <1>2, <2>1, <2>2 DEF ReapAdbd
<1>3. CASE EntryInserted \/ CleanupInserted
  <2>1. CASE UNCHANGED Answering
    BY <2>1 DEF Answering, OneAnswer
  <2>2. CASE Request("entry_enable") \/ Request("restart")
    BY <2>2, AnswerRequest
  <2> QED
    BY <1>3, <2>1, <2>2 DEF EntryInserted, CleanupInserted, ResetReady, Answering, history
<1>4. CASE TakeEvent
  BY <1>4, AnswerTake
<1>5. CASE UNCHANGED Answering
  BY <1>5 DEF Answering, OneAnswer
<1>6. CASE \/ StopAdbd \/ Fork \/ ChildGone \/ RestartAdbd \/ MinadbdExits
           \/ SetUsbDriver(TRUE, "fork") \/ SetUsbDriver(FALSE, "cleanup_ready")
           \/ AdbdMain \/ AdbdUsbInit \/ AdbdOpens \/ MinadbdUsbInit \/ MinadbdOpens
  BY <1>5, <1>6 DEF StopAdbd, Fork, ChildGone, RestartAdbd, MinadbdExits, SetUsbDriver,
                    AdbdMain, AdbdUsbInit, AdbdOpens, MinadbdUsbInit, MinadbdOpens, history, Answering
<1>7. CASE Mount \/ ClearReady \/ Gate
  BY <1>5, <1>7 DEF Mount, ClearReady, Gate, GateDisable, GateFunctions, GateSelect, GateUdc, GateEnable,
                    history, Answering
<1>8. CASE UNCHANGED vars
  BY <1>5, <1>8 DEF vars, history, Answering
<1> QED
  BY <1>1, <1>2, <1>3, <1>4, <1>6, <1>7, <1>8 DEF Next, Sideload, AdbdStep, MinadbdStep, InitStep

-----------------------------------------------------------------------------
(* The two daemons and the ready state between them.                        *)

Handing == HandOver /\ NotReadyMeanwhile /\ RequestFindsNotReady

\* What the recovery and a daemon may do to each other's state.
LEMMA HandingRecovery ==
    ASSUME Handing, Sideload \/ StopAdbd
    PROVE  Handing'
<1> USE DEF Handing, HandOver, NotReadyMeanwhile, RequestFindsNotReady
<1>1. CASE StopAdbd
  BY <1>1 DEF StopAdbd
<1>2. CASE EntryInserted \/ CleanupInserted
  <2>1. UNCHANGED <<adbd, minadbd>>
    BY Zenon, <1>2 DEF EntryInserted, CleanupInserted, ResetReady, Request
  <2>2. \/ recovery = "entry_ready" /\ recovery' = "entry_request" /\ ready' = FALSE
        \/ recovery = "entry_request" /\ recovery' = "entry_enable" /\ ready' = ready
        \/ recovery = "cleanup_ready" /\ recovery' = "cleanup_request" /\ ready' = FALSE
        \/ recovery = "cleanup_request" /\ recovery' = "restart" /\ ready' = ready
    BY Zenon, <1>2 DEF EntryInserted, CleanupInserted, ResetReady, Request
  <2> QED
    BY <2>1, <2>2
<1>3. CASE (recovery = "entry_enable" /\ SetUsbDriver(TRUE, "fork"))
           \/ (recovery = "cleanup_disable" /\ SetUsbDriver(FALSE, "cleanup_ready"))
  BY <1>3 DEF SetUsbDriver
<1>4. CASE Fork \/ ChildGone \/ RestartAdbd
  BY <1>4 DEF Fork, ChildGone, RestartAdbd
<1> QED
  BY <1>1, <1>2, <1>3, <1>4 DEF Sideload

LEMMA HandingDaemons ==
    ASSUME Handing, AdbdStep \/ MinadbdStep \/ MinadbdExits
    PROVE  Handing'
<1> USE DEF Handing, HandOver, NotReadyMeanwhile, RequestFindsNotReady
<1>1. CASE AdbdStep
  BY <1>1 DEF AdbdStep, AdbdMain, AdbdUsbInit, AdbdOpens, AdbdPublishes
<1>2. CASE MinadbdStep
  BY <1>2 DEF MinadbdStep, MinadbdUsbInit, MinadbdOpens, MinadbdPublishes
<1>3. CASE MinadbdExits
  BY <1>3 DEF MinadbdExits
<1> QED
  BY <1>1, <1>2, <1>3

\* init never sets ffs.ready.
LEMMA HandingInit ==
    ASSUME Handing, InitStep \/ UNCHANGED vars
    PROVE  Handing'
<1> USE DEF Handing, HandOver, NotReadyMeanwhile, RequestFindsNotReady
<1>1. CASE ReapAdbd
  BY <1>1 DEF ReapAdbd
<1>2. CASE Mount \/ TakeEvent \/ ClearReady \/ Gate
  <2>1. UNCHANGED <<adbd, minadbd, recovery>> /\ (ready' = ready \/ ready' = FALSE)
    BY Zenon, <1>2 DEF Mount, TakeEvent, ClearReady, Gate, GateDisable, GateFunctions, GateSelect, GateUdc, GateEnable
  <2> QED
    BY <2>1
<1>3. CASE UNCHANGED vars
  BY <1>3 DEF vars
<1> QED
  BY <1>1, <1>2, <1>3 DEF InitStep

LEMMA HandingStep == Handing /\ [Next]_vars => Handing'
  BY HandingRecovery, HandingDaemons, HandingInit DEF Next

-----------------------------------------------------------------------------
Flags == {forced, aliased, mounted, ready, req, enabled, failed, stale}

QueueTyped == queue \in Seq(Event) /\ Len(queue) <= MaxQueue

Places ==
    /\ adbd \in DaemonState
    /\ minadbd \in DaemonState \ {"main", "tcp", "killed", "restarting"}
    /\ recovery \in RecoveryState
    /\ gate \in GateState
    /\ functions \in {"none", "adb", "Function FS Gadget"}
    /\ bound \in {"none", "adbd", "minadbd"}
    /\ replays \in 0..2

LEMMA TypeParts == TypeOK <=> Flags \subseteq BOOLEAN /\ QueueTyped /\ Places
  BY DEF TypeOK, Flags, QueueTyped, Places, Event

LEMMA QueueStep == QueueTyped /\ [Next]_vars => QueueTyped'
<1> SUFFICES ASSUME QueueTyped, [Next]_vars PROVE QueueTyped'
  OBVIOUS
<1> USE DEF QueueTyped
<1>1. ASSUME NEW e \in Event, Raise(e) PROVE QueueTyped'
  BY <1>1, AppendFacts DEF Raise
<1>2. CASE UNCHANGED queue
  BY <1>2
<1>3. CASE AdbdPublishes \/ MinadbdPublishes \/ ReapAdbd \/ EntryInserted \/ CleanupInserted
  BY <1>1, <1>2, <1>3 DEF AdbdPublishes, MinadbdPublishes, ReapAdbd, EntryInserted, CleanupInserted,
                          ResetReady, Request, Event
<1>4. CASE TakeEvent
  BY <1>4, TailFacts, SeqFacts DEF TakeEvent
<1>5. CASE \/ StopAdbd \/ Fork \/ ChildGone \/ RestartAdbd \/ MinadbdExits
           \/ SetUsbDriver(TRUE, "fork") \/ SetUsbDriver(FALSE, "cleanup_ready")
           \/ AdbdMain \/ AdbdUsbInit \/ AdbdOpens \/ MinadbdUsbInit \/ MinadbdOpens
  BY <1>2, <1>5 DEF StopAdbd, Fork, ChildGone, RestartAdbd, MinadbdExits, SetUsbDriver,
                    AdbdMain, AdbdUsbInit, AdbdOpens, MinadbdUsbInit, MinadbdOpens
<1>6. CASE Mount \/ ClearReady \/ Gate \/ UNCHANGED vars
  BY <1>2, <1>6 DEF Mount, ClearReady, Gate, GateDisable, GateFunctions, GateSelect, GateUdc, GateEnable, vars
<1> QED
  BY <1>3, <1>4, <1>5, <1>6 DEF Next, Sideload, AdbdStep, MinadbdStep, InitStep

LEMMA PlacesStep == Places /\ [Next]_vars => Places'
<1> SUFFICES ASSUME Places, [Next]_vars PROVE Places'
  OBVIOUS
<1> USE DEF Places, kernel, history
<1>1. CASE StopAdbd \/ MinadbdExits
  BY <1>1 DEF StopAdbd, MinadbdExits, Unbound, DaemonState, RecoveryState
<1>2. ASSUME NEW next \in RecoveryState, ResetReady(next) \/ Request(next) \/ SetUsbDriver(TRUE, next) \/ SetUsbDriver(FALSE, next)
      PROVE  Places'
  <2>1. UNCHANGED <<adbd, minadbd, gate, functions, bound>> /\ recovery' = next /\ (replays' = replays \/ replays' = 0)
    BY <1>2 DEF ResetReady, Request, SetUsbDriver
  <2>0. replays \in 0..2
    OBVIOUS
  <2>2. replays' \in 0..2
    BY ONLY <2>0, <2>1
  <2> QED
    BY <2>1, <2>2
<1>3. CASE Fork \/ ChildGone \/ RestartAdbd
  BY <1>3 DEF Fork, ChildGone, RestartAdbd, DaemonState, RecoveryState
<1>4. CASE Sideload
  BY <1>2, <1>3, <1>4 DEF Sideload, EntryInserted, CleanupInserted, RecoveryState
<1>5. CASE AdbdStep \/ MinadbdStep
  BY <1>5 DEF AdbdStep, AdbdMain, AdbdUsbInit, AdbdOpens, AdbdPublishes,
              MinadbdStep, MinadbdUsbInit, MinadbdOpens, MinadbdPublishes, DaemonState
<1>6. CASE Mount \/ ReapAdbd \/ ClearReady
  BY <1>6 DEF Mount, ReapAdbd, ClearReady, DaemonState, GateState
<1>7. CASE TakeEvent
  <2>1. UNCHANGED <<adbd, minadbd, recovery, functions, bound>>
    BY <1>7 DEF TakeEvent
  <2>2. gate' \in GateState
    BY <1>7 DEF TakeEvent, GateState
  <2>3. replays' = replays \/ (replays < 2 /\ replays' = replays + 1) \/ replays' = 2
    BY Zenon, <1>7 DEF TakeEvent
  <2>0. replays \in 0..2
    OBVIOUS
  <2>4. replays' \in 0..2
    BY ONLY <2>0, <2>3
  <2> QED
    BY <2>1, <2>2, <2>4
<1>8. CASE Gate
  <2>1. UNCHANGED <<adbd, minadbd, recovery, replays>>
    BY <1>8 DEF Gate, GateDisable, GateFunctions, GateSelect, GateUdc, GateEnable
  <2>2. gate' \in GateState
    BY <1>8 DEF GateState, Gate, GateDisable, GateFunctions, GateSelect, GateUdc, GateEnable
  <2>3. functions' \in {functions, "none", "adb", "Function FS Gadget"}
    BY <1>8 DEF Gate, GateDisable, GateFunctions, GateSelect, GateUdc, GateEnable
  <2>4. bound' \in {bound, "none", "adbd", "minadbd"}
    BY <1>8 DEF Gate, GateDisable, GateFunctions, GateSelect, GateUdc, GateEnable
  <2> QED
    BY <2>1, <2>2, <2>3, <2>4
<1>9. CASE UNCHANGED vars
  BY <1>9 DEF vars
<1> QED
  BY <1>1, <1>4, <1>5, <1>6, <1>7, <1>8, <1>9 DEF Next, InitStep

\* A flag is set, reset or left alone.
LEMMA FlagsStep == Flags \subseteq BOOLEAN /\ [Next]_vars => Flags' \subseteq BOOLEAN
<1> SUFFICES ASSUME Flags \subseteq BOOLEAN, [Next]_vars PROVE Flags' \subseteq BOOLEAN
  OBVIOUS
<1> USE DEF Flags, env, kernel, history
<1>1. CASE StopAdbd \/ MinadbdExits \/ Fork \/ ChildGone \/ RestartAdbd
  BY Zenon, <1>1 DEF StopAdbd, MinadbdExits, Fork, ChildGone, RestartAdbd
<1>2. CASE SetUsbDriver(TRUE, "fork") \/ SetUsbDriver(FALSE, "cleanup_ready")
  BY Zenon, <1>2 DEF SetUsbDriver
<1>3. ASSUME NEW next, ResetReady(next) PROVE Flags' \subseteq BOOLEAN
  BY Zenon, <1>3 DEF ResetReady
<1>4. ASSUME NEW next, Request(next) PROVE Flags' \subseteq BOOLEAN
  <2>1. stale' \in BOOLEAN
    BY <1>4 DEF Request
  <2> QED
    BY Zenon, <1>4, <2>1 DEF Request
<1>5. CASE AdbdStep \/ MinadbdStep
  BY Zenon, <1>5 DEF AdbdStep, AdbdMain, AdbdUsbInit, AdbdOpens, AdbdPublishes,
              MinadbdStep, MinadbdUsbInit, MinadbdOpens, MinadbdPublishes
<1>6. CASE Mount \/ ReapAdbd \/ ClearReady
  BY Zenon, <1>6 DEF Mount, ReapAdbd, ClearReady
<1>7. CASE TakeEvent
  BY Zenon, <1>7 DEF TakeEvent
<1>8. CASE Gate
  BY Zenon, <1>8 DEF Gate, GateDisable, GateFunctions, GateSelect, GateUdc, GateEnable
<1>9. CASE UNCHANGED vars
  BY Zenon, <1>9 DEF vars
<1> QED
  BY <1>1, <1>2, <1>3, <1>4, <1>5, <1>6, <1>7, <1>8, <1>9
     DEF Next, Sideload, EntryInserted, CleanupInserted, InitStep

LEMMA TypeStep == TypeOK /\ [Next]_vars => TypeOK'
<1>1. (Flags \subseteq BOOLEAN)' <=> Flags' \subseteq BOOLEAN
  OBVIOUS
<1>2. TypeOK' <=> (Flags \subseteq BOOLEAN)' /\ QueueTyped' /\ Places'
  BY TypeParts, PTL
<1> QED
  BY <1>1, <1>2, TypeParts, QueueStep, PlacesStep, FlagsStep

-----------------------------------------------------------------------------
(* The invariant of the hand-over.                                          *)
THEOREM HandOverInvariance == Spec => []UInv
<1>1. UInv /\ [Next]_vars => UInv'
  <2>1. UInv => QueueOK
    BY DEF UInv, TypeOK, QueueOK, Event
  <2> QED
    BY <2>1, TypeStep, AnswerStep, HandingStep DEF UInv, Handing
<1> QED
  BY InitInv, <1>1, PTL DEF Spec

(* Type correctness, with the bound of the queue.                           *)
THEOREM TypeCorrect == Spec => []TypeOK
<1>1. UInv => TypeOK
  BY DEF UInv
<1> QED
  BY HandOverInvariance, <1>1, PTL

(* However init, the daemons and the recovery interleave, a request raised  *)
(* with no older event before it replays the gate at most once.             *)
THEOREM OneReplay == Spec => []ReplayedOnce
<1>1. UInv => ReplayedOnce
  BY DEF UInv, OneAnswer, ReplayedOnce
<1> QED
  BY HandOverInvariance, <1>1, PTL

(* A request never meets the ready state of the daemon before.              *)
THEOREM RequestIsFresh == Spec => []RequestFindsNotReady
<1>1. UInv => RequestFindsNotReady
  BY DEF UInv
<1> QED
  BY HandOverInvariance, <1>1, PTL
=============================================================================
