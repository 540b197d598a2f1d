--------------------------- MODULE BridgeLifecycle ---------------------------
(***************************************************************************)
(* How the bridge process of a host comes and goes.  A Companion, or the   *)
(* command `agentclip arm`, takes the bridge lock, uses the bridge the     *)
(* state file names if that one answers, and otherwise starts one.  The    *)
(* Companion that started a bridge shuts it down when it ends.  A bridge   *)
(* is named after the process that started it: each starts at most one.    *)
(***************************************************************************)
EXTENDS Integers

CONSTANTS
    Companions,   \* processes that run `companion serve`, each for its profile
    Arms,         \* processes that run `agentclip arm`
    Nobody,       \* no process
    MaxStops,     \* bound: Companions that are stopped or end with an error
    MaxCrashes    \* bound: processes that are killed

Starters == Companions \cup Arms

ASSUME NobodyAssumption == Nobody \notin Starters /\ Companions \cap Arms = {}
ASSUME BoundsAssumption == MaxStops \in Nat /\ MaxCrashes \in Nat

VARIABLES
    lock,      \* bridge.lock: who created it, or Nobody
    old,       \* whether it is more than 30 seconds old
    state,     \* bridge.json: the bridge it names, or Nobody
    bridge,    \* what each bridge process is doing
    pc,        \* where each starter stands
    loaded,    \* what LoadState returned to it
    uses,      \* the bridge it uses: ensureBridge's answer
    missed,    \* history: Companions whose call to shut their bridge down failed
    stops, crashes

vars == <<lock, old, state, bridge, pc, loaded, uses, missed, stops, crashes>>
lockFile == <<lock, old>>
bounds   == <<missed, stops, crashes>>

Locking == {"open", "stat", "remove", "reopen"}
Holding == {"load", "probe", "arm", "await", "release", "fail"}
PCs     == {"new", "register", "run", "quit", "gone"} \cup Locking \cup Holding

TypeOK ==
    /\ lock \in Starters \cup {Nobody}
    /\ old \in BOOLEAN
    /\ state \in Starters \cup {Nobody}
    /\ bridge \in [Starters -> {"none", "boot", "up", "told", "closing", "unsave", "idle", "dead"}]
    /\ pc \in [Starters -> PCs]
    /\ loaded \in [Starters -> Starters \cup {Nobody}]
    /\ uses \in [Starters -> Starters \cup {Nobody}]
    /\ missed \subseteq Starters
    /\ stops \in 0..MaxStops
    /\ crashes \in 0..MaxCrashes

Init ==
    /\ lock = Nobody
    /\ old = FALSE
    /\ state = Nobody
    /\ bridge = [p \in Starters |-> "none"]
    /\ pc = [p \in Starters |-> "new"]
    /\ loaded = [p \in Starters |-> Nobody]
    /\ uses = [p \in Starters |-> Nobody]
    /\ missed = {}
    /\ stops = 0
    /\ crashes = 0

Goto(p, place) == pc' = [pc EXCEPT ![p] = place]
Bridge(b, doing) == bridge' = [bridge EXCEPT ![b] = doing]

\* control.Healthy: the bridge answers on /healthz.
Healthy(b) == b \in Starters /\ bridge[b] \in {"up", "told"}
-----------------------------------------------------------------------------
(***************************************************************************)
(* acquireBridgeLock.  It does not wait.                                   *)
(***************************************************************************)
Begin(p) ==
    /\ pc[p] = "new"
    /\ Goto(p, "open")
    /\ UNCHANGED <<lockFile, state, bridge, loaded, uses, bounds>>

\* os.OpenFile with O_EXCL; the second time a lock that exists is an error.
Create(p) ==
    /\ pc[p] \in {"open", "reopen"}
    /\ \/ lock = Nobody /\ lock' = p /\ old' = FALSE /\ Goto(p, "load")
       \/ lock # Nobody /\ UNCHANGED lockFile
                        /\ Goto(p, IF pc[p] = "open" THEN "stat" ELSE "gone")
    /\ UNCHANGED <<state, bridge, loaded, uses, bounds>>

\* Mutant of StatLock: any lock is respected, however old.
StatLockRefuses(p) ==
    /\ pc[p] = "stat"
    /\ Goto(p, "gone")
    /\ UNCHANGED <<lockFile, state, bridge, loaded, uses, bounds>>

StatLock(p) ==
    /\ pc[p] = "stat"
    /\ Goto(p, IF lock # Nobody /\ old THEN "remove" ELSE "gone")
    /\ UNCHANGED <<lockFile, state, bridge, loaded, uses, bounds>>

RemoveLock(p) ==
    /\ pc[p] = "remove"
    /\ lock' = Nobody /\ old' = FALSE
    /\ Goto(p, "reopen")
    /\ UNCHANGED <<state, bridge, loaded, uses, bounds>>
-----------------------------------------------------------------------------
(***************************************************************************)
(* ensureBridge and startBridge, under the lock.                           *)
(***************************************************************************)
LoadState(p) ==
    /\ pc[p] = "load"
    /\ loaded' = [loaded EXCEPT ![p] = state]
    /\ Goto(p, "probe")
    /\ UNCHANGED <<lockFile, state, bridge, uses, bounds>>

\* Mutant of EnsureBridge: it starts a bridge without looking for one.
EnsureAnother(p) ==
    /\ pc[p] = "probe"
    /\ Bridge(p, "boot") /\ Goto(p, "await")
    /\ UNCHANGED <<lockFile, state, loaded, uses, bounds>>

\* A healthy bridge is used (`arm` arms it right away), else a child is started.
EnsureBridge(p) ==
    /\ pc[p] = "probe"
    /\ \/ /\ Healthy(loaded[p])
          /\ uses' = [uses EXCEPT ![p] = loaded[p]]
          /\ Goto(p, IF p \in Arms THEN "arm" ELSE "release")
          /\ UNCHANGED bridge
       \/ /\ ~Healthy(loaded[p])
          /\ Bridge(p, "boot")
          /\ Goto(p, "await")
          /\ UNCHANGED uses
    /\ UNCHANGED <<lockFile, state, loaded, bounds>>

\* runArm posts the image to the bridge, which may be gone by now.
ArmImage(p) ==
    /\ pc[p] = "arm"
    /\ Goto(p, "release")
    /\ UNCHANGED <<lockFile, state, bridge, loaded, uses, bounds>>

\* startBridge sees its own child in the state file, and healthy.
ChildAnswers(p) ==
    /\ pc[p] = "await"
    /\ state = p /\ Healthy(p)
    /\ uses' = [uses EXCEPT ![p] = p]
    /\ Goto(p, "release")
    /\ UNCHANGED <<lockFile, state, bridge, loaded, bounds>>

\* After startupTimeout the child is killed and waited for.
ChildTimesOut(p) ==
    /\ pc[p] = "await"
    /\ Bridge(p, "dead")
    /\ Goto(p, "fail")
    /\ UNCHANGED <<lockFile, state, loaded, uses, bounds>>

\* The lock goes by its path.  A Companion goes on, `arm` is done.
ReleaseLock(p) ==
    /\ pc[p] \in {"release", "fail"}
    /\ lock' = Nobody /\ old' = FALSE
    /\ Goto(p, IF pc[p] = "release" /\ p \in Companions THEN "register" ELSE "gone")
    /\ UNCHANGED <<state, bridge, loaded, uses, bounds>>
-----------------------------------------------------------------------------
(***************************************************************************)
(* runCompanionService without the lock.                                   *)
(***************************************************************************)
\* The persistent session is posted to the bridge, which fails if it is gone.
Register(p) ==
    /\ pc[p] = "register"
    /\ Goto(p, IF Healthy(uses[p]) THEN "run" ELSE "quit")
    /\ UNCHANGED <<lockFile, state, bridge, loaded, uses, bounds>>

\* A signal, `companion stop` or an error ends the service.
Stop(p) ==
    /\ pc[p] \in {"register", "run"}
    /\ stops < MaxStops
    /\ stops' = stops + 1
    /\ Goto(p, "quit")
    /\ UNCHANGED <<lockFile, state, bridge, loaded, uses, missed, crashes>>

\* Mutant of Quit: whoever used the bridge shuts it down.
QuitShutsDownAny(p) ==
    /\ pc[p] = "quit"
    /\ Goto(p, "gone")
    /\ \/ Healthy(uses[p]) /\ Bridge(uses[p], "told") /\ UNCHANGED missed
       \/ UNCHANGED bridge /\ missed' = missed \cup {p}
    /\ UNCHANGED <<lockFile, state, loaded, uses, stops, crashes>>

\* The deferred control.Shutdown, only for a bridge this Companion started; its error
\* is ignored.  The Companion does nothing of note after it.
Quit(p) ==
    /\ pc[p] = "quit"
    /\ Goto(p, "gone")
    /\ \/ uses[p] = p /\ Healthy(p) /\ Bridge(p, "told") /\ UNCHANGED missed
       \/ uses[p] = p /\ missed' = missed \cup {p} /\ UNCHANGED bridge
       \/ uses[p] # p /\ UNCHANGED <<bridge, missed>>
    /\ UNCHANGED <<lockFile, state, loaded, uses, stops, crashes>>
-----------------------------------------------------------------------------
(***************************************************************************)
(* The bridge process: runBridge, daemon.Start and daemon.Close.           *)
(***************************************************************************)
\* It listens, renames its state file into place and serves; or it fails.
StartDaemon(b) ==
    /\ bridge[b] = "boot"
    /\ \/ state' = b /\ Bridge(b, "up")
       \/ UNCHANGED state /\ Bridge(b, "dead")
    /\ UNCHANGED <<lockFile, pc, loaded, uses, bounds>>

\* The shutdown handler answers; Close, in a goroutine of its own, stops the server
\* some time later.  Until then the bridge answers and is used.
StopServer(b) ==
    /\ bridge[b] = "told"
    /\ Bridge(b, "closing")
    /\ UNCHANGED <<lockFile, state, pc, loaded, uses, bounds>>

\* When its requests are done, Close loads the state file, compares it with its own...
CompareState(b) ==
    /\ bridge[b] = "closing"
    /\ Bridge(b, IF state = b THEN "unsave" ELSE "idle")
    /\ UNCHANGED <<lockFile, state, pc, loaded, uses, bounds>>

\* ... and removes what is there by then.  runBridge still waits for a signal.
RemoveState(b) ==
    /\ bridge[b] = "unsave"
    /\ state' = Nobody
    /\ Bridge(b, "idle")
    /\ UNCHANGED <<lockFile, pc, loaded, uses, bounds>>
-----------------------------------------------------------------------------
\* Every call made under the lock times out well within 30 seconds, so a lock
\* is that old only if its process is gone.
LockAges ==
    /\ lock # Nobody /\ ~old
    /\ pc[lock] = "gone"
    /\ old' = TRUE
    /\ UNCHANGED <<lock, state, bridge, pc, loaded, uses, bounds>>

\* A start that takes too long is killed, or the user kills something.
Kill(p) ==
    /\ crashes < MaxCrashes
    /\ crashes' = crashes + 1
    /\ \/ pc[p] \notin {"new", "gone"} /\ Goto(p, "gone") /\ UNCHANGED bridge
       \/ bridge[p] \in {"boot", "up", "told", "closing", "unsave"} /\ Bridge(p, "dead") /\ UNCHANGED pc
    /\ UNCHANGED <<lockFile, state, loaded, uses, missed, stops>>

Step(p) ==
    \/ Create(p) \/ StatLock(p) \/ RemoveLock(p)
    \/ LoadState(p) \/ EnsureBridge(p) \/ ArmImage(p)
    \/ ChildAnswers(p) \/ ChildTimesOut(p) \/ ReleaseLock(p)
    \/ Register(p) \/ Quit(p)

Daemon(b) == StartDaemon(b) \/ StopServer(b) \/ CompareState(b) \/ RemoveState(b)

Next ==
    \/ \E p \in Starters : Begin(p) \/ Step(p) \/ Daemon(p) \/ Kill(p)
    \/ \E p \in Companions : Stop(p)
    \/ LockAges

Spec == Init /\ [][Next]_vars

\* Processes run.
FairSpec == Spec /\ \A p \in Starters : WF_vars(Step(p)) /\ WF_vars(Daemon(p))
-----------------------------------------------------------------------------
(***************************************************************************)
(* Properties.                                                             *)
(***************************************************************************)
\* Two processes never decide about the bridge at once.  It holds until one is
\* killed: of two that take its lock over, one removes the lock the other just made.
OneDecides ==
    crashes = 0 =>
        \A p, q \in Starters : pc[p] \in Holding /\ pc[q] \in Holding => p = q

\* Two processes never decide about the bridge at once, and while no Companion ends
\* a host never has two bridges that serve.  The latter ends there: the bridge that
\* goes removes the state file of the one that replaced it.
OneBridge ==
    /\ OneDecides
    /\ crashes = 0 /\ stops = 0 =>
           \A a, b \in Starters : bridge[a] = "up" /\ bridge[b] = "up" => a = b

\* A bridge follows the Companion that started it.  When that one ended, in whatever
\* way but by being killed, its bridge has been told to close, unless the one call that
\* tells it failed; and a Companion that runs has lost its bridge only if it shared
\* another's, and that one ended.
BridgeFollowsOwner ==
    crashes = 0 =>
        \A c \in Companions :
            /\ pc[c] = "gone" => bridge[c] # "boot" /\ (bridge[c] = "up" => c \in missed)
            /\ pc[c] = "run" /\ ~Healthy(uses[c]) =>
                   uses[c] \in Companions \ {c} /\ pc[uses[c]] = "gone"

\* A lock that a killed process left behind is gone once a start has met it.
LeftoverIsTakenOver ==
    \A p, q \in Starters : (lock = p /\ old /\ pc[q] = "open") ~> lock # p
=============================================================================
