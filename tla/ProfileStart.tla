---------------------------- MODULE ProfileStart ----------------------------
(***************************************************************************)
(* The starts of one Companion profile: the start lock of                  *)
(* cmd/agentclip/main.go (a file created with O_EXCL, taken over when it   *)
(* is old), the runtime file that says a Companion runs, and its removal   *)
(* when the Companion stops.  A Companion process lives once: its PID and  *)
(* control token are never another's.                                      *)
(***************************************************************************)
EXTENDS Integers, FiniteSets

CONSTANTS
    Companions,   \* processes that run `companion serve` for this profile
    Nobody,       \* no process
    Wait,         \* profileStartWait
    Stale,        \* profileStartStale
    HoldMax,      \* longest a live start holds the lock: its calls all time out
    Prompt,       \* whether waiting starts poll at least once in each unit of time
    MaxStops,     \* bound: Companions that are stopped
    MaxCrashes,   \* bound: Companions that are killed
    MaxTime       \* bound: the last instant of the clock

ASSUME TimesAssumption ==
    Wait \in Nat /\ Stale \in Nat /\ HoldMax \in Nat /\ MaxTime \in Nat
ASSUME BoundsAssumption == MaxStops \in Nat /\ MaxCrashes \in Nat
ASSUME NobodyAssumption == Nobody \notin Companions
ASSUME PromptAssumption == Prompt \in BOOLEAN

NoLock  == -1
Instant == 0..MaxTime

VARIABLES
    now,        \* the clock
    lock,       \* <profile>.start.lock: when it was created, or NoLock
    runtime,    \* <profile>.json: the Companion it names, or Nobody
    pc,         \* where each process stands
    deadline,   \* when a waiting start gives up
    since,      \* when a start created the lock
    loaded,     \* what LoadRuntime returned to it
    rivals,     \* history: starts another start was in progress with
    polled,     \* waiting starts that have polled in this unit of time
    stops, crashes

vars == <<now, lock, runtime, pc, deadline, since, loaded, rivals, polled, stops, crashes>>
bounds == <<stops, crashes>>

Waiting  == {"open", "stat", "remove", "wait", "sleep"}
Deciding == {"check", "probe", "prepare", "claim", "unlock", "leave"}
Serving  == {"unlock", "run"}
PCs      == {"new", "run", "drain", "unsave", "gone"} \cup Waiting \cup Deciding

TypeOK ==
    /\ now \in Instant
    /\ lock \in Instant \cup {NoLock}
    /\ runtime \in Companions \cup {Nobody}
    /\ pc \in [Companions -> PCs]
    /\ deadline \in [Companions -> 0..(MaxTime + Wait)]
    /\ since \in [Companions -> Instant]
    /\ loaded \in [Companions -> Companions \cup {Nobody}]
    /\ rivals \subseteq Companions
    /\ polled \subseteq Companions
    /\ stops \in 0..MaxStops
    /\ crashes \in 0..MaxCrashes

Init ==
    /\ now = 0
    /\ lock = NoLock
    /\ runtime = Nobody
    /\ pc = [p \in Companions |-> "new"]
    /\ deadline = [p \in Companions |-> 0]
    /\ since = [p \in Companions |-> 0]
    /\ loaded = [p \in Companions |-> Nobody]
    /\ rivals = {}
    /\ polled = {}
    /\ stops = 0
    /\ crashes = 0

Goto(p, place) == pc' = [pc EXCEPT ![p] = place]
Starting(p) == pc[p] \in Waiting \cup Deciding
-----------------------------------------------------------------------------
(***************************************************************************)
(* acquireProfileStartLock.                                                *)
(***************************************************************************)
Begin(p) ==
    /\ pc[p] = "new"
    /\ now + Wait < MaxTime     \* bound: the clock reaches every deadline
    /\ Goto(p, "open")
    /\ deadline' = [deadline EXCEPT ![p] = now + Wait]
    /\ LET others == {q \in Companions \ {p} : Starting(q)}
       IN  rivals' = rivals \cup others \cup (IF others = {} THEN {} ELSE {p})
    /\ UNCHANGED <<now, lock, runtime, since, loaded, polled, bounds>>

\* Mutant of TryCreate: the file is opened without O_EXCL.
TryCreateShared(p) ==
    /\ pc[p] = "open"
    /\ lock' = now
    /\ since' = [since EXCEPT ![p] = now]
    /\ Goto(p, "check")
    /\ UNCHANGED <<now, runtime, deadline, loaded, rivals, polled, bounds>>

\* os.OpenFile with O_EXCL
TryCreate(p) ==
    /\ pc[p] = "open"
    /\ \/ /\ lock = NoLock
          /\ lock' = now
          /\ since' = [since EXCEPT ![p] = now]
          /\ Goto(p, "check")
       \/ /\ lock # NoLock
          /\ Goto(p, "stat")
          /\ UNCHANGED <<lock, since>>
    /\ UNCHANGED <<now, runtime, deadline, loaded, rivals, polled, bounds>>

LooksStale == lock # NoLock /\ now - lock > Stale

\* Mutant of StatLock: a leftover is never taken over.
StatLockWaits(p) ==
    /\ pc[p] = "stat"
    /\ Goto(p, "wait")
    /\ UNCHANGED <<now, lock, runtime, deadline, since, loaded, rivals, polled, bounds>>

StatLock(p) ==
    /\ pc[p] = "stat"
    /\ Goto(p, IF LooksStale THEN "remove" ELSE "wait")
    /\ UNCHANGED <<now, lock, runtime, deadline, since, loaded, rivals, polled, bounds>>

\* Mutant of RemoveStale: another path is removed, and the lock tried again at once.
RemoveStaleRetries(p) ==
    /\ pc[p] = "remove"
    /\ Goto(p, "open")
    /\ UNCHANGED <<now, lock, runtime, deadline, since, loaded, rivals, polled, bounds>>

\* os.Remove names the path, not the file that was looked at.  Where a live
\* process keeps it open it may fail (Windows).
RemoveStale(p) ==
    /\ pc[p] = "remove"
    /\ \/ /\ lock' = NoLock
          /\ Goto(p, IF lock # NoLock THEN "open" ELSE "wait")
       \/ /\ \E q \in Companions : pc[q] \in Deciding /\ since[q] = lock
          /\ Goto(p, "wait")
          /\ UNCHANGED lock
    /\ UNCHANGED <<now, runtime, deadline, since, loaded, rivals, polled, bounds>>

GiveUpOrSleep(p) ==
    /\ pc[p] = "wait"
    /\ Goto(p, IF now > deadline[p] THEN "gone" ELSE "sleep")
    /\ polled' = polled \cup {p}
    /\ UNCHANGED <<now, lock, runtime, deadline, since, loaded, rivals, bounds>>

WakeUp(p) ==
    /\ pc[p] = "sleep"
    /\ Goto(p, "open")
    /\ UNCHANGED <<now, lock, runtime, deadline, since, loaded, rivals, polled, bounds>>
-----------------------------------------------------------------------------
(***************************************************************************)
(* runCompanionService, with the start lock held and then without.         *)
(***************************************************************************)
LoadRuntime(p) ==
    /\ pc[p] = "check"
    /\ loaded' = [loaded EXCEPT ![p] = runtime]
    /\ Goto(p, "probe")
    /\ UNCHANGED <<now, lock, runtime, deadline, since, rivals, polled, bounds>>

\* Mutant of ProbeRuntime: a healthy runtime is not looked at.
ProbeNothing(p) ==
    /\ pc[p] = "probe"
    /\ Goto(p, "prepare")
    /\ UNCHANGED <<now, lock, runtime, deadline, since, loaded, rivals, polled, bounds>>

\* RuntimeHealthy: whether the process the file names still answers.
ProbeRuntime(p) ==
    /\ pc[p] = "probe"
    /\ LET other == loaded[p]
       IN  Goto(p, IF other \in Companions /\ pc[other] \in Serving THEN "leave" ELSE "prepare")
    /\ UNCHANGED <<now, lock, runtime, deadline, since, loaded, rivals, polled, bounds>>

\* The log, the bridge and the session: any of them may fail.
Prepare(p) ==
    /\ pc[p] = "prepare"
    /\ Goto(p, "claim") \/ Goto(p, "leave")
    /\ UNCHANGED <<now, lock, runtime, deadline, since, loaded, rivals, polled, bounds>>

\* StartControl listens, then SaveRuntime renames the runtime file into place.
StartControl(p) ==
    /\ pc[p] = "claim"
    /\ runtime' = p
    /\ Goto(p, "unlock")
    /\ UNCHANGED <<now, lock, deadline, since, loaded, rivals, polled, bounds>>

\* releaseStart removes the path, whoever's lock is there now.
ReleaseStart(p) ==
    /\ pc[p] \in {"unlock", "leave"}
    /\ lock' = NoLock
    /\ Goto(p, IF pc[p] = "unlock" THEN "run" ELSE "gone")
    /\ UNCHANGED <<now, runtime, deadline, since, loaded, rivals, polled, bounds>>

\* A signal, `companion stop` or an error ends the service; Shutdown stops the
\* control server.
Stop(p) ==
    /\ pc[p] = "run"
    /\ stops < MaxStops
    /\ stops' = stops + 1
    /\ Goto(p, "drain")
    /\ UNCHANGED <<now, lock, runtime, deadline, since, loaded, rivals, polled, crashes>>

\* RemoveRuntime loads the file and compares it with its own state...
CompareRuntime(p) ==
    /\ pc[p] = "drain"
    /\ Goto(p, IF runtime = p THEN "unsave" ELSE "gone")
    /\ UNCHANGED <<now, lock, runtime, deadline, since, loaded, rivals, polled, bounds>>

\* ... and removes what is there by then.
RemoveRuntime(p) ==
    /\ pc[p] = "unsave"
    /\ runtime' = Nobody
    /\ Goto(p, "gone")
    /\ UNCHANGED <<now, lock, deadline, since, loaded, rivals, polled, bounds>>

\* `companion start` kills a child that is not healthy in time; so may anyone.
Kill(p) ==
    /\ pc[p] \notin {"new", "gone"}
    /\ crashes < MaxCrashes
    /\ crashes' = crashes + 1
    /\ Goto(p, "gone")
    /\ UNCHANGED <<now, lock, runtime, deadline, since, loaded, rivals, polled, stops>>

\* Time passes while starts sleep or work; no live start holds the lock longer
\* than HoldMax.
Tick ==
    /\ now < MaxTime
    /\ \A p \in Companions : pc[p] \in Deciding => now < since[p] + HoldMax
    /\ Prompt => \A p \in Companions : pc[p] \in Waiting => p \in polled
    /\ now' = now + 1
    /\ polled' = {}
    /\ UNCHANGED <<lock, runtime, pc, deadline, since, loaded, rivals, bounds>>

Step(p) ==
    \/ TryCreate(p) \/ StatLock(p) \/ RemoveStale(p) \/ GiveUpOrSleep(p) \/ WakeUp(p)
    \/ LoadRuntime(p) \/ ProbeRuntime(p) \/ Prepare(p) \/ StartControl(p) \/ ReleaseStart(p)
    \/ CompareRuntime(p) \/ RemoveRuntime(p)

Next ==
    \/ \E p \in Companions : Begin(p) \/ Step(p) \/ Stop(p) \/ Kill(p)
    \/ Tick

Spec == Init /\ [][Next]_vars

\* Processes run, and time passes whatever they do.
FairSpec == Spec /\ WF_vars(Tick) /\ \A p \in Companions : WF_vars(Step(p))
-----------------------------------------------------------------------------
(***************************************************************************)
(* Properties.                                                             *)
(***************************************************************************)
\* Between the check and the claim of a start there is no other start: "two
\* starts at the same moment cannot both pass the check" (runCompanionService).
\* It holds until a process is killed: of two starts that take a leftover over, one
\* removes the lock the other just made.
OneStarter ==
    crashes = 0 =>
        \A p, q \in Companions : pc[p] \in Deciding /\ pc[q] \in Deciding => p = q

\* A profile that is running does not get a second Companion.  It holds until one
\* stops: RemoveRuntime removes the file of the Companion that replaced it.
OneCompanion ==
    crashes = 0 /\ stops = 0 =>
        \A p, q \in Companions : pc[p] \in Serving /\ pc[q] \in Serving => p = q

\* One start decides at a time, so that one Companion serves a profile.
OnePerProfile == OneStarter /\ OneCompanion

\* A start gives up only if another start was in progress meanwhile: what a
\* killed start leaves behind delays it, and never turns it away.
GivesUpOnlyForRival ==
    [][\A p \in Companions :
          pc[p] = "wait" /\ pc'[p] = "gone" /\ crashes' = crashes => p \in rivals]_vars

\* Every start gets the lock, finds a running Companion or gives up.
StartsEnd == \A p \in Companions : Starting(p) ~> ~Starting(p)
=============================================================================
