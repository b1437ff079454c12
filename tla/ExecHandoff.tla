---------------------------- MODULE ExecHandoff ----------------------------
(* How the patched adbd starts work in the recovery domain while staying in *)
(* its own: raw command children switch with setcon after the fork, PTY     *)
(* children and the sync helper are given an exec context that the serving  *)
(* thread arms before the fork and clears after it.  Commands are started   *)
(* by the main thread, each sync session by a service thread of its own;    *)
(* every system call may fail, and every child runs from the moment it is   *)
(* forked, also while its parent is still clearing.                         *)
EXTENDS Naturals

CONSTANTS
    Command,    \* shell requests, raw or PTY
    Sync,       \* file sync requests; each one is also its service thread
    Beyond,     \* those whose socket is a descriptor above the loop that closes them
    Main        \* the thread that accepts requests and forks commands

ASSUME HandoffAssumption ==
    Command \cap Sync = {} /\ Main \notin Command \cup Sync /\ Beyond \subseteq Sync

Session == Command \cup Sync
Thread  == Sync \cup {Main}

VARIABLES
    kind,       \* kind[x]: "raw", "pty" or "sync"
    pc,         \* pc[x]: where the daemon is in the handler of x
    pending,    \* pending[t]: thread t has the recovery exec context armed
    stuck,      \* the threads whose last attempt to clear it failed
    open,       \* the sync sockets the daemon has open
    proc        \* proc[x]: the process forked for x

vars == <<kind, pc, pending, stuck, open, proc>>

ThreadState  == {"new", "arm", "fork", "clear", "close", "wait", "reap", "done", "failed"}
ProcessState == {"none", "setup", "ready", "main", "serving", "killed", "exited"}

\* "armed": the exec context it was forked with; "holds": its sync sockets
Process == [at : ProcessState, domain : {"adbd", "recovery"}, armed : BOOLEAN, holds : SUBSET Sync]

NoProcess == [at |-> "none", domain |-> "adbd", armed |-> FALSE, holds |-> {}]
Exited    == [NoProcess EXCEPT !.at = "exited"]

\* The handler of a command has no socket to close and waits for no child.
CommandsGoOn == \A c \in Command : pc[c] \notin {"close", "wait", "reap"}

TypeOK ==
    /\ kind \in [Session -> {"raw", "pty", "sync"}]
    /\ \A x \in Session : kind[x] = "sync" <=> x \in Sync
    /\ pc \in [Session -> ThreadState]
    /\ CommandsGoOn
    /\ pending \in [Thread -> BOOLEAN]
    /\ stuck \subseteq Thread
    /\ open \subseteq Sync
    /\ proc \in [Session -> Process]

Init ==
    /\ kind = [x \in Session |-> IF x \in Sync THEN "sync" ELSE "raw"]
    /\ pc = [x \in Session |-> "new"]
    /\ pending = [t \in Thread |-> FALSE]
    /\ stuck = {}
    /\ open = {}
    /\ proc = [x \in Session |-> NoProcess]

-----------------------------------------------------------------------------
(* The daemon.                                                              *)

\* Mutant: the exec context belongs to the whole process.
OneThread(x) == Main

\* The thread that forks for x; the exec context is its own.
ThreadOf(x) == IF x \in Sync THEN x ELSE Main

Alive(x) == proc[x].at \in {"setup", "ready", "main", "serving"}

Gone(x) == proc[x].at \in {"none", "exited"}

\* Nothing is left of a sync session.
Released(s) ==
    /\ pc[s] \in {"done", "failed"}
    /\ proc[s] = NoProcess
    /\ s \notin open
    /\ \A x \in Session : s \notin proc[x].holds

\* Nothing is left of a request; its name may be used for another one.
Over(x) ==
    \/ pc[x] = "new"
    \/ IF x \in Sync THEN Released(x) ELSE pc[x] \in {"done", "failed"} /\ Gone(x)

MainIdle == \A c \in Command : pc[c] \in {"new", "done", "failed"}

To(x, where) == pc' = [pc EXCEPT ![x] = where]

StartCommand(c) ==
    /\ MainIdle
    /\ Over(c)
    /\ \E k \in {"raw", "pty"} :
          /\ kind' = [kind EXCEPT ![c] = k]
          /\ To(c, IF k = "pty" THEN "arm" ELSE "fork")
    /\ proc' = [proc EXCEPT ![c] = NoProcess]
    /\ UNCHANGED <<pending, stuck, open>>

\* A new thread starts with the credentials of the one that creates it.
StartSync(s) ==
    /\ MainIdle
    /\ Over(s)
    /\ To(s, "arm")
    /\ pending' = [pending EXCEPT ![s] = pending[Main]]
    /\ stuck' = IF Main \in stuck THEN stuck \cup {s} ELSE stuck \ {s}
    /\ open' = open \cup {s}
    /\ UNCHANGED <<kind, proc>>

\* setexeccon(recovery), or the request is refused.
Arm(x) ==
    /\ pc[x] = "arm"
    /\ \/ /\ pending' = [pending EXCEPT ![ThreadOf(x)] = TRUE]
          /\ To(x, "fork")
          /\ open' = open
       \/ /\ To(x, "failed")
          /\ open' = open \ {x}
          /\ UNCHANGED pending
    /\ UNCHANGED <<kind, stuck, proc>>

\* fork or forkpty: the child has the domain, the armed context and the open
\* sockets of its parent.
Fork(x) ==
    /\ pc[x] = "fork"
    /\ \/ /\ proc' = [proc EXCEPT ![x] =
                         [at |-> "setup", domain |-> "adbd", armed |-> pending[ThreadOf(x)], holds |-> open]]
          /\ To(x, IF kind[x] = "raw" THEN "done" ELSE "clear")
       \/ /\ To(x, IF kind[x] = "raw" THEN "failed" ELSE "clear")
          /\ UNCHANGED proc
    /\ UNCHANGED <<kind, pending, stuck, open>>

\* Mutant: the pending context is left to the exec of the child.
ClearNothing(x) ==
    /\ pc[x] = "clear"
    /\ IF proc[x].at = "none"
       THEN To(x, "failed") /\ open' = open \ {x}
       ELSE To(x, IF kind[x] = "sync" THEN "close" ELSE "done") /\ open' = open
    /\ UNCHANGED <<kind, pending, stuck, proc>>

\* setexeccon(nullptr) succeeds: go on with the child, or report the failed fork.
Clear(x) ==
    /\ pc[x] = "clear"
    /\ pending' = [pending EXCEPT ![ThreadOf(x)] = FALSE]
    /\ stuck' = stuck \ {ThreadOf(x)}
    /\ IF proc[x].at = "none"
       THEN To(x, "failed") /\ open' = open \ {x}
       ELSE To(x, IF kind[x] = "sync" THEN "close" ELSE "done") /\ open' = open
    /\ UNCHANGED <<kind, proc>>

\* Mutant: the child is not killed when its parent cannot clear the context.
ClearFailsLenient(x) ==
    /\ pc[x] = "clear"
    /\ stuck' = stuck \cup {ThreadOf(x)}
    /\ open' = open \ {x}
    /\ To(x, "failed")
    /\ UNCHANGED <<kind, pending, proc>>

\* The parent does not look at the result of its kill(SIGKILL).  A child in the
\* domain of adbd will not get further, though it need not be gone yet; one that
\* is in the recovery domain may be out of adbd's reach.
Kill(x) ==
    \/ Alive(x) /\ proc' = [proc EXCEPT ![x].at = "killed"]
    \/ (Gone(x) \/ proc[x].domain = "recovery") /\ UNCHANGED proc

\* Mutant: the parent of a shell waits for it as well.
ClearFailsWaiting(x) ==
    /\ pc[x] = "clear"
    /\ stuck' = stuck \cup {ThreadOf(x)}
    /\ Kill(x)
    /\ open' = open \ {x}
    /\ To(x, IF proc[x].at # "none" THEN "reap" ELSE "failed")
    /\ UNCHANGED <<kind, pending>>

\* It fails: the child, however far it has come, is sent a SIGKILL and the request
\* is refused; the sync session also waits for the child.
ClearFails(x) ==
    /\ pc[x] = "clear"
    /\ stuck' = stuck \cup {ThreadOf(x)}
    /\ Kill(x)
    /\ open' = open \ {x}
    /\ To(x, IF kind[x] = "sync" /\ proc[x].at # "none" THEN "reap" ELSE "failed")
    /\ UNCHANGED <<kind, pending>>

\* The parent's copy of the sync socket, then waitpid.
Close(s) ==
    /\ pc[s] = "close"
    /\ open' = open \ {s}
    /\ To(s, "wait")
    /\ UNCHANGED <<kind, pending, stuck, proc>>

Reap(s) ==
    /\ pc[s] \in {"wait", "reap"}
    /\ proc[s] = Exited
    /\ proc' = [proc EXCEPT ![s] = NoProcess]
    /\ To(s, IF pc[s] = "wait" THEN "done" ELSE "failed")
    /\ UNCHANGED <<kind, pending, stuck, open>>

-----------------------------------------------------------------------------
(* The children.  What they do changes nothing in the daemon.               *)

Become(x, p) == proc' = [proc EXCEPT ![x] = p] /\ UNCHANGED <<kind, pc, pending, stuck, open>>

\* Any call before or at the exec fails: _Exit(1), _exit(126), _exit(127).
ChildFails(x) == proc[x].at \in {"setup", "ready"} /\ Become(x, Exited)

\* Raw: setcon(recovery).  PTY: nothing, the exec will switch.  Sync: the socket
\* becomes descriptor 3, all others are closed up to max_fd, which is 1024 where
\* the limit of the process is unusual.
Setup(x) ==
    /\ proc[x].at = "setup"
    /\ Become(x, [proc[x] EXCEPT !.at = "ready",
                                 !.domain = IF kind[x] = "raw" THEN "recovery" ELSE @,
                                 !.holds = IF kind[x] = "sync" THEN {x} \cup (@ \cap Beyond) ELSE @])

Executed(x, sockets) ==
    /\ proc[x].at = "ready"
    /\ Become(x, [at     |-> IF kind[x] = "sync" THEN "main" ELSE "serving",
                  domain |-> IF proc[x].armed THEN "recovery" ELSE proc[x].domain,
                  armed  |-> FALSE,
                  holds  |-> sockets])

\* Mutant: the sockets of adb survive an exec.
ExecInheriting(x) == Executed(x, proc[x].holds)

\* execle("/sbin/sh") serves at once, execve("/sbin/adbd") enters main().  The
\* sockets are close-on-exec, which the sync child has cleared on descriptor 3.
Exec(x) == Executed(x, IF kind[x] = "sync" THEN {x} ELSE {})

\* The re-executed adbd sees J720F_ADB_SYNC_FD: it serves if it is root in the
\* recovery domain and exits otherwise, or where it cannot find out; it never
\* becomes a second daemon.
HelperMain(s) ==
    /\ proc[s].at = "main"
    /\ \/ proc[s].domain = "recovery" /\ Become(s, [proc[s] EXCEPT !.at = "serving"])
       \/ Become(s, Exited)

\* The shell exits, file_sync_service returns.
Exits(x) == proc[x].at = "serving" /\ Become(x, Exited)

\* The signal is delivered.
Dies(x) == proc[x].at = "killed" /\ Become(x, Exited)

-----------------------------------------------------------------------------
Handler(x) == Arm(x) \/ Fork(x) \/ Clear(x) \/ ClearFails(x) \/ Close(x) \/ Reap(x)

Starting(x) == Setup(x) \/ ChildFails(x) \/ Exec(x) \/ HelperMain(x)

Next ==
    \/ \E c \in Command : StartCommand(c)
    \/ \E s \in Sync : StartSync(s)
    \/ \E x \in Session : Handler(x) \/ Starting(x) \/ Exits(x) \/ Dies(x)

\* Threads and processes are scheduled; requests need not come, and nothing
\* makes a shell or the host of a sync session finish.
Spec ==
    /\ Init /\ [][Next]_vars
    /\ \A x \in Session : WF_vars(Handler(x)) /\ WF_vars(Starting(x)) /\ WF_vars(Dies(x))

-----------------------------------------------------------------------------
(* Everything that serves a request runs in the recovery domain, whatever   *)
(* the other threads arm, clear or fork meanwhile.                          *)
ServedInRecovery == \A x \in Session : proc[x].at = "serving" => proc[x].domain = "recovery"

(* The transition never outlives its request: outside the window between    *)
(* arming and clearing a thread of the daemon has nothing armed, except     *)
(* where the kernel refused to clear it.                                    *)
NoStrayTransition ==
    \A t \in Thread :
        pending[t] => \/ t \in stuck
                      \/ \E x \in Session : ThreadOf(x) = t /\ pc[x] \in {"fork", "clear"}

\* What has become of a request: a refused one is over, unless its child lives.
\* RequestService allows that where the child had come to the recovery domain;
\* it has no state for a child that lingers outside it, or serves there.
Refused(x) == pc[x] \in {"failed", "reap"}

Placed(x) == proc[x].domain = "recovery"

Progress(x) ==
    IF pc[x] = "new" THEN "none"
    ELSE IF Alive(x) /\ Refused(x) THEN IF Placed(x) THEN "escaped" ELSE "lingering"
    ELSE IF proc[x].at = "serving" THEN IF Placed(x) THEN "served" ELSE "misplaced"
    ELSE IF Alive(x) THEN IF Placed(x) THEN "placed" ELSE "accepted"
    ELSE IF Refused(x) \/ pc[x] = "done" \/ proc[x].at = "exited" THEN "over"
    ELSE "accepted"

ServiceState == [x \in Session |-> Progress(x)]

Service == INSTANCE RequestService WITH Request <- Session, state <- ServiceState

(* adbd keeps the promise of RequestService: a request that is refused      *)
(* before its child is in the recovery domain is never served, every other  *)
(* one at most once and there, and every request is decided although any    *)
(* call may fail at any point and the result of the kill is not looked at.  *)
ImplementsService == Service!Spec

(* Unless its helper is still serving, a sync session is given up by every  *)
(* process: the daemon has reaped the helper and nobody holds the socket, so*)
(* that the host sees the end of the stream; it does not wait for another   *)
(* session or for a shell.                                                  *)
SyncReleased ==
    \A s \in Sync : (pc[s] = "arm" \/ proc[s] = Exited) ~> (proc[s].at = "serving" \/ Released(s))

-----------------------------------------------------------------------------
(* The inductive invariant behind them.                                     *)

\* The main thread is in the handler of one command at a time.
OneCommand ==
    \A c, d \in Command : {pc[c], pc[d]} \subseteq {"arm", "fork", "clear"} => c = d

\* A raw child switches by itself: its parent neither arms nor clears for it.
RawNeverArms == \A x \in Session : kind[x] = "raw" => pc[x] \notin {"arm", "clear"}

\* A thread that is about to fork a PTY child or a helper has the context armed.
ArmedForFork == \A x \in Session : pc[x] = "fork" /\ kind[x] # "raw" => pending[ThreadOf(x)]

\* Who has armed it: a request that does not switch by itself.
ArmedBySwitching ==
    \A t \in Thread :
        pending[t] => \/ t \in stuck
                      \/ \E x \in Session : ThreadOf(x) = t /\ kind[x] # "raw" /\ pc[x] \in {"fork", "clear"}

\* A child exists from the fork on, and outlives the refusal only where it was
\* beyond the reach of its parent.
ChildPlace(x) ==
    /\ proc[x].at = "none" => proc[x] = NoProcess
    /\ pc[x] \in {"new", "arm", "fork"} => proc[x] = NoProcess
    /\ Refused(x) /\ Alive(x) => proc[x].at \in {"main", "serving"}

\* A child is bound for the recovery domain at each point of its start.
ChildDomain(x) ==
    /\ kind[x] # "raw" /\ proc[x].at \in {"setup", "ready"} => proc[x].armed /\ proc[x].domain = "adbd"
    /\ kind[x] = "raw" /\ proc[x].at = "ready" => proc[x].domain = "recovery"
    /\ proc[x].at \in {"main", "serving"} => proc[x].domain = "recovery"

HInv ==
    /\ TypeOK /\ OneCommand /\ RawNeverArms /\ ArmedForFork /\ ArmedBySwitching
    /\ \A x \in Session : ChildPlace(x) /\ ChildDomain(x)

-----------------------------------------------------------------------------
(* What keeps a sync socket open, and how far a request is from its end.    *)

\* The daemon's copy is open from the request to the close, and no session ends
\* before its helper was reaped.
DaemonSockets ==
    \A s \in Sync : /\ s \in open <=> pc[s] \in {"arm", "fork", "clear", "close"}
                    /\ pc[s] \in {"done", "failed"} => proc[s] = NoProcess

\* From its exec on, a process has no socket but the one of its own session.
ChildSockets(x) ==
    /\ proc[x].at \in {"main", "serving"} => proc[x].holds = IF x \in Sync THEN {x} ELSE {}
    /\ proc[x].at \in {"none", "exited"} => proc[x].holds = {}

(* A sync session that has ended is released, unless a child of another     *)
(* request, forked while its socket was open, has not come to its exec or,  *)
(* once killed, to its end.                                                 *)
HeldByStartingOnly ==
    \A s \in Sync : pc[s] \in {"done", "failed"} =>
        \/ Released(s)
        \/ \E x \in Session \ {s} : proc[x].at \in {"setup", "ready", "killed"} /\ s \in proc[x].holds

SocketInv == DaemonSockets /\ \A x \in Session : ChildSockets(x)

DaemonLeft(where) ==
    CASE where = "arm"               -> 5
      [] where = "fork"              -> 4
      [] where = "clear"             -> 3
      [] where = "close"             -> 2
      [] where \in {"wait", "reap"}  -> 1
      [] OTHER                       -> 0

ChildLeft(at) ==
    CASE at = "setup"   -> 4
      [] at = "ready"   -> 3
      [] at = "main"    -> 2
      [] at \in {"serving", "killed"} -> 1
      [] OTHER          -> 0

\* How many steps the handler and the child of x take together at most.
StepsLeft(x) == 5 * DaemonLeft(pc[x]) + ChildLeft(proc[x].at)

Begins(x) == Over(x) /\ pc'[x] \in {"arm", "fork"}

(* Every step begins one request or brings one nearer to its end, and no    *)
(* step sets another one back: however many sessions run at the same time,  *)
(* none of them can make a handler or a child begin again.                  *)
NearerToEnd ==
    [][\E x \in Session : /\ Begins(x) \/ StepsLeft(x)' < StepsLeft(x)
                          /\ \A y \in Session \ {x} : StepsLeft(y)' = StepsLeft(y)]_vars
=============================================================================
