---------------------------- MODULE UsbTransport ----------------------------
(* How an adb daemon of the recovery gets onto USB.  adbd and the sideload   *)
(* child minadbd choose FunctionFS because a property says so, even before   *)
(* its endpoint exists; they publish sys.usb.ffs.ready once their descriptors*)
(* are written; init then replays the android_usb/ConfigFS gate, once per    *)
(* request j720f.usb.rebind_req=adb; and the write_file of init selects      *)
(* FunctionFS by the name the kernel knows where "adb" selected nothing.     *)
(* The recovery stops adbd, requests a replay for minadbd, and after the     *)
(* sideload another one for adbd, while init still works on older events.    *)
(*                                                                           *)
(* The triggers of init are in the device tree: they are modelled as the     *)
(* workflow demands them before it builds (gate order, one-shot request), the*)
(* events as init evaluates them: the value an event was raised with, the    *)
(* current value of the other properties.                                    *)
EXTENDS Naturals, Sequences

CONSTANT MaxQueue   \* bound on the events init has not handled yet

ASSUME QueueAssumption == MaxQueue \in Nat /\ MaxQueue > 1

VARIABLES
    forced,     \* j720f.usb.transport is native-android71-ffs
    aliased,    \* this kernel selects FunctionFS by its alias "adb" too
    mounted,    \* init has mounted functionfs: ep0 exists
    adbd,       \* the service adbd
    minadbd,    \* the sideload child
    recovery,   \* where the recovery is in apply_from_adb
    ready,      \* sys.usb.ffs.ready = 1
    req,        \* j720f.usb.rebind_req = adb
    queue,      \* the property events that may match an action of init
    gate,       \* the command of its current action init is about to run
    functions,  \* what android0/functions has selected
    enabled,    \* android0/enable
    bound,      \* the daemon whose function the UDC is bound to
    failed,     \* a write to android0/functions failed in this replay
    stale,      \* init still had an event to handle when the last request was raised
    replays     \* replays of the gate since the last request, counted to two

env == <<forced, aliased>>
kernel == <<functions, enabled, bound>>
history == <<failed, stale, replays>>
vars == <<env, mounted, adbd, minadbd, recovery, ready, req, queue, gate, kernel, history>>

DaemonState == {"off", "main", "usb_init", "ffs", "open", "ready", "tcp", "legacy", "killed", "restarting"}
RecoveryState == {"idle", "entry_ready", "entry_request", "entry_enable", "fork", "wait",
                  "cleanup_disable", "cleanup_ready", "cleanup_request", "restart"}
GateState == {"idle", "disable", "functions", "select", "udc", "enable", "clear_ready"}

TypeOK ==
    /\ {forced, aliased, mounted, ready, req, enabled, failed, stale} \subseteq BOOLEAN
    /\ adbd \in DaemonState
    /\ minadbd \in DaemonState \ {"main", "tcp", "killed", "restarting"}
    /\ recovery \in RecoveryState
    /\ queue \in Seq({"ready", "req", "stopped"}) /\ Len(queue) <= MaxQueue
    /\ gate \in GateState
    /\ functions \in {"none", "adb", "Function FS Gadget"}
    /\ bound \in {"none", "adbd", "minadbd"}
    /\ replays \in 0..2

\* "on boot" starts adbd and asks for its bind; functionfs may not be mounted yet.
Init ==
    /\ forced \in BOOLEAN /\ aliased \in BOOLEAN /\ mounted \in BOOLEAN
    /\ adbd = "main" /\ minadbd = "off" /\ recovery = "idle"
    /\ ready = FALSE /\ req = TRUE /\ queue = <<>> /\ gate = "idle"
    /\ functions = "none" /\ enabled = FALSE /\ bound = "none"
    /\ failed = FALSE /\ stale = FALSE /\ replays = 0

Raise(event) == Len(queue) < MaxQueue /\ queue' = Append(queue, event)

-----------------------------------------------------------------------------
(* The daemons.  Both use the usb_init of usb_linux_client.cpp.             *)

\* Mutant: the donor's test, the endpoint exists now.
EndpointVisible == mounted

\* The patched test: the property decides, the endpoint only where it is not set.
UsesFfs == forced \/ mounted

\* adbd_main: USB, or TCP for as long as it lives.
AdbdMain ==
    /\ adbd = "main"
    /\ adbd' = IF UsesFfs THEN "usb_init" ELSE "tcp"
    /\ UNCHANGED <<env, mounted, minadbd, recovery, ready, req, queue, gate, kernel, history>>

AdbdUsbInit ==
    /\ adbd = "usb_init"
    /\ adbd' = IF UsesFfs THEN "ffs" ELSE "legacy"
    /\ UNCHANGED <<env, mounted, minadbd, recovery, ready, req, queue, gate, kernel, history>>

\* Mutant: the child goes the way of adbd_main where it cannot use USB.
MinadbdFallsToTcp ==
    /\ minadbd = "usb_init"
    /\ minadbd' = IF UsesFfs THEN "ffs" ELSE "tcp"
    /\ UNCHANGED <<env, mounted, adbd, recovery, ready, req, queue, gate, kernel, history>>

MinadbdUsbInit ==
    /\ minadbd = "usb_init"
    /\ minadbd' = IF UsesFfs THEN "ffs" ELSE "legacy"
    /\ UNCHANGED <<env, mounted, adbd, recovery, ready, req, queue, gate, kernel, history>>

HasEp0(d) == d \in {"open", "ready"}

\* Opening the endpoint is repeated until it exists and nobody else has it.
AdbdOpens ==
    /\ adbd = "ffs" /\ mounted /\ ~HasEp0(minadbd)
    /\ adbd' = "open"
    /\ UNCHANGED <<env, mounted, minadbd, recovery, ready, req, queue, gate, kernel, history>>

MinadbdOpens ==
    /\ minadbd = "ffs" /\ mounted /\ ~HasEp0(adbd)
    /\ minadbd' = "open"
    /\ UNCHANGED <<env, mounted, adbd, recovery, ready, req, queue, gate, kernel, history>>

AdbdPublishes ==
    /\ adbd = "open"
    /\ adbd' = "ready"
    /\ ready' = TRUE
    /\ Raise("ready")
    /\ UNCHANGED <<env, mounted, minadbd, recovery, req, gate, kernel, history>>

MinadbdPublishes ==
    /\ minadbd = "open"
    /\ minadbd' = "ready"
    /\ ready' = TRUE
    /\ Raise("ready")
    /\ UNCHANGED <<env, mounted, adbd, recovery, req, gate, kernel, history>>

\* A FunctionFS function without its daemon is taken off the bus.
Unbound(d) == bound' = IF bound = d THEN "none" ELSE bound

\* The sideload is over, was cancelled, or the child died: at any point.
MinadbdExits ==
    /\ minadbd # "off"
    /\ minadbd' = "off"
    /\ Unbound("minadbd")
    /\ UNCHANGED <<env, mounted, adbd, recovery, ready, req, queue, gate, functions, enabled, history>>

-----------------------------------------------------------------------------
(* apply_from_adb of the recovery.                                          *)

StopAdbd ==
    /\ recovery = "idle"
    /\ recovery' = "entry_ready"
    /\ adbd' = IF adbd = "off" THEN "off" ELSE "killed"
    /\ Unbound("adbd")
    /\ UNCHANGED <<env, mounted, minadbd, ready, req, queue, gate, functions, enabled, history>>

\* Mutant: sys.usb.ffs.ready is left as it is.
KeepReady(next) ==
    /\ recovery' = next
    /\ UNCHANGED <<env, mounted, adbd, minadbd, ready, req, queue, gate, kernel, history>>

ResetReady(next) ==
    /\ recovery' = next
    /\ ready' = FALSE
    /\ UNCHANGED <<env, mounted, adbd, minadbd, req, queue, gate, kernel, history>>

Request(next) ==
    /\ recovery' = next
    /\ req' = TRUE
    /\ Raise("req")
    /\ stale' = \E i \in DOMAIN queue : queue[i] \in {"ready", "req"}
    /\ replays' = 0
    /\ UNCHANGED <<env, mounted, adbd, minadbd, ready, gate, kernel, failed>>

SetUsbDriver(on, next) ==
    /\ recovery' = next
    /\ enabled' = on
    /\ UNCHANGED <<env, mounted, adbd, minadbd, ready, req, queue, gate, functions, bound, history>>

Fork ==
    /\ recovery = "fork"
    /\ recovery' = "wait"
    /\ minadbd' = "usb_init"
    /\ UNCHANGED <<env, mounted, adbd, ready, req, queue, gate, kernel, history>>

ChildGone ==
    /\ recovery = "wait" /\ minadbd = "off"
    /\ recovery' = "cleanup_disable"
    /\ UNCHANGED <<env, mounted, adbd, minadbd, ready, req, queue, gate, kernel, history>>

\* Where init has not reaped the adbd that was stopped yet, it keeps the start in
\* mind.
RestartAdbd ==
    /\ recovery = "restart"
    /\ recovery' = "idle"
    /\ adbd' = IF adbd = "off" THEN "main" ELSE "restarting"
    /\ UNCHANGED <<env, mounted, minadbd, ready, req, queue, gate, kernel, history>>

\* Mutant: the request is raised before the old ready state is reset.
RequestFirst ==
    \/ recovery = "entry_ready" /\ Request("entry_request")
    \/ recovery = "entry_request" /\ ResetReady("entry_enable")

EntryInserted ==
    \/ recovery = "entry_ready" /\ ResetReady("entry_request")
    \/ recovery = "entry_request" /\ Request("entry_enable")

\* Mutant: nothing is requested for the adbd that is started again.
CleanupSilent ==
    \/ recovery = "cleanup_ready" /\ ResetReady("cleanup_request")
    \/ recovery = "cleanup_request" /\ KeepReady("restart")

CleanupInserted ==
    \/ recovery = "cleanup_ready" /\ ResetReady("cleanup_request")
    \/ recovery = "cleanup_request" /\ Request("restart")

Sideload ==
    \/ EntryInserted
    \/ recovery = "entry_enable" /\ SetUsbDriver(TRUE, "fork")
    \/ Fork \/ ChildGone
    \/ recovery = "cleanup_disable" /\ SetUsbDriver(FALSE, "cleanup_ready")
    \/ CleanupInserted
    \/ RestartAdbd

-----------------------------------------------------------------------------
(* init: one command at a time, between two commands it serves the property *)
(* socket and reaps children.                                               *)

Mount ==
    /\ ~mounted /\ gate = "idle"
    /\ mounted' = TRUE
    /\ UNCHANGED <<env, adbd, minadbd, recovery, ready, req, queue, gate, kernel, history>>

\* init.svc.adbd=stopped will clear ffs.ready; a service to be started again is
\* never stopped.
ReapAdbd ==
    /\ \/ adbd = "killed" /\ adbd' = "off" /\ Raise("stopped")
       \/ adbd = "restarting" /\ adbd' = "main" /\ UNCHANGED queue
    /\ UNCHANGED <<env, mounted, minadbd, recovery, ready, req, gate, kernel, history>>

\* Mutant: the gate is replayed for every ready daemon, requested or not.
MatchesReady(event) == event = "ready" \/ (event = "req" /\ ready)

\* on property:j720f.usb.rebind_req=adb && property:sys.usb.ffs.ready=1
Matches(event) == IF event = "ready" THEN req ELSE event = "req" /\ ready

\* Handle the oldest event; a replay consumes the request.
TakeEvent ==
    /\ gate = "idle" /\ queue # <<>>
    /\ queue' = Tail(queue)
    /\ LET event == Head(queue) IN
       IF Matches(event)
       THEN /\ gate' = "disable"
            /\ req' = FALSE
            /\ replays' = IF replays < 2 THEN replays + 1 ELSE 2
            /\ failed' = FALSE
       ELSE /\ gate' = IF event = "stopped" THEN "clear_ready" ELSE "idle"
            /\ UNCHANGED <<req, replays, failed>>
    /\ UNCHANGED <<env, mounted, adbd, minadbd, recovery, ready, kernel, stale>>

ClearReady ==
    /\ gate = "clear_ready"
    /\ ready' = FALSE
    /\ gate' = "idle"
    /\ UNCHANGED <<env, mounted, adbd, minadbd, recovery, req, queue, kernel, history>>

GateDisable ==
    /\ gate = "disable"
    /\ enabled' = FALSE
    /\ gate' = "functions"
    /\ UNCHANGED <<env, mounted, adbd, minadbd, recovery, ready, req, queue, functions, bound, history>>

\* write_file(functions, "adb"): the kernel looks for a function of that name;
\* the read-back follows a write that succeeded.
GateFunctions ==
    /\ gate = "functions"
    /\ \/ /\ functions' = IF aliased THEN "adb" ELSE "none"
          /\ gate' = "select"
          /\ UNCHANGED failed
       \/ /\ failed' = TRUE
          /\ gate' = "udc"
          /\ UNCHANGED functions
    /\ UNCHANGED <<env, mounted, adbd, minadbd, recovery, ready, req, queue, enabled, bound, stale, replays>>

\* j720f_file_has_nonspace: an attribute that cannot be read counts as empty.
ReadBack == {functions # "none", FALSE}

\* Mutant: what the write of "adb" left is taken as it is.
SelectNothing ==
    /\ gate = "select"
    /\ gate' = "udc"
    /\ UNCHANGED <<env, mounted, adbd, minadbd, recovery, ready, req, queue, kernel, history>>

\* j720f_select_ffs_if_needed; what it returns does not reach the rc script.
GateSelect ==
    /\ gate = "select"
    /\ gate' = "udc"
    /\ \E selected \in ReadBack :
          \/ selected /\ UNCHANGED <<functions, failed>>
          \/ ~selected /\ functions' = "Function FS Gadget" /\ UNCHANGED failed
          \/ ~selected /\ failed' = TRUE /\ UNCHANGED functions
    /\ UNCHANGED <<env, mounted, adbd, minadbd, recovery, ready, req, queue, enabled, bound, stale, replays>>

\* The UDC binds a function that has its descriptors.
GateUdc ==
    /\ gate = "udc"
    /\ bound' = IF HasEp0(adbd) THEN "adbd" ELSE IF HasEp0(minadbd) THEN "minadbd" ELSE "none"
    /\ gate' = "enable"
    /\ UNCHANGED <<env, mounted, adbd, minadbd, recovery, ready, req, queue, functions, enabled, history>>

GateEnable ==
    /\ gate = "enable"
    /\ enabled' = TRUE
    /\ gate' = "idle"
    /\ UNCHANGED <<env, mounted, adbd, minadbd, recovery, ready, req, queue, functions, bound, history>>

Gate == GateDisable \/ GateFunctions \/ GateSelect \/ GateUdc \/ GateEnable

InitStep == Mount \/ ReapAdbd \/ TakeEvent \/ ClearReady \/ Gate

AdbdStep == AdbdMain \/ AdbdUsbInit \/ AdbdOpens \/ AdbdPublishes

MinadbdStep == MinadbdUsbInit \/ MinadbdOpens \/ MinadbdPublishes

Next == StopAdbd \/ Sideload \/ MinadbdExits \/ AdbdStep \/ MinadbdStep \/ InitStep

\* init runs until it has nothing to do, processes are scheduled; that a sideload
\* is begun or ends is up to the user and the host.
Spec ==
    /\ Init /\ [][Next]_vars
    /\ WF_vars(Mount) /\ WF_vars(ReapAdbd) /\ WF_vars(TakeEvent \/ ClearReady \/ Gate)
    /\ WF_vars(AdbdStep) /\ WF_vars(MinadbdStep) /\ WF_vars(Sideload)

-----------------------------------------------------------------------------
Online(d) == bound = d /\ enabled /\ functions # "none"

(* A daemon that is started comes onto USB, unless it is stopped first:     *)
(* also when it is started before functionfs is mounted, when the kernel    *)
(* does not know "adb", and when it follows another daemon whose events init*)
(* is still handling.  Excepted are a kernel that refuses the selector, and *)
(* a request raised while init had events of an earlier round before it.    *)
ComesOnline ==
    forced => /\ adbd = "main" ~> Online("adbd") \/ adbd \in {"killed", "off"} \/ failed \/ stale
              /\ minadbd = "usb_init" ~> Online("minadbd") \/ minadbd = "off" \/ failed \/ stale

(* The gate is replayed once for a request, with both the request and the   *)
(* ready state raising an event: "exactly once for sideload".               *)
ReplayedOnce == replays <= 1 \/ stale

(* A request never meets the ready state of a daemon that is gone: between  *)
(* the request and the new daemon's own publication ffs.ready is not set.   *)
RequestFindsNotReady ==
    /\ recovery \in {"entry_enable", "fork", "restart"} => ~ready
    /\ recovery = "wait" /\ ready => minadbd \in {"ready", "off"}

-----------------------------------------------------------------------------
(* The inductive invariant behind the two safety properties.                *)

\* A request raised in time is answered at most once: its event is the first
\* one in the queue that can match, and an answer leaves neither the request
\* nor its event behind.
OneAnswer ==
    /\ \A i, j \in DOMAIN queue : i < j /\ queue[j] = "req" => queue[i] = "stopped"
    /\ replays = 0 \/ (replays = 1 /\ ~req /\ \A i \in DOMAIN queue : queue[i] # "req")

\* The recovery keeps the two daemons apart.
HandOver ==
    /\ recovery # "idle" => adbd \in {"killed", "off"}
    /\ recovery # "wait" => minadbd = "off"

\* Nobody can set ffs.ready again between its reset and the fork or restart.
NotReadyMeanwhile ==
    recovery \in {"entry_request", "entry_enable", "fork", "cleanup_request", "restart"} => ~ready

UInv == TypeOK /\ (stale \/ OneAnswer) /\ HandOver /\ NotReadyMeanwhile /\ RequestFindsNotReady
=============================================================================
