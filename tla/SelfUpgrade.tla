----------------------------- MODULE SelfUpgrade -----------------------------
(***************************************************************************)
(* `agentclip upgrade`: selfupgrade.Runner.Run with the functions main.go  *)
(* gives it, the Companions it stops and starts again, and the bridge they *)
(* share.  A profile has at most the Companion it had when the upgrade     *)
(* began and one the upgrade started; how one start excludes another is    *)
(* ProfileStart's subject, and how a bridge is started BridgeLifecycle's.  *)
(***************************************************************************)
EXTENDS Integers

CONSTANTS
    Profiles,     \* the saved profiles, each with its server
    ArmedBridge,  \* a bridge no Companion started
    NoBridge,
    MaxFailures,  \* bound: steps that fail
    MaxStops      \* bound: Companions the user stops meanwhile

Ages == {"old", "new"}      \* from before the upgrade, or started by it
Procs == Profiles \X Ages

ASSUME BridgeAssumption == ArmedBridge # NoBridge /\ {ArmedBridge, NoBridge} \cap Procs = {}
ASSUME BoundsAssumption == MaxFailures \in Nat /\ MaxStops \in Nat

VARIABLES
    pc,         \* where Run stands
    todo,       \* the profiles its present loop has not come to
    target,     \* the profile it is stopping or starting: a set of one, or {}
    active,     \* profiles whose Companions were healthy when it looked
    results,    \* what InstallRemote said of each server
    exe,        \* the executable of this machine: "old" or "new"
    staged,     \* the staged binary: absent, beside the executable, or the helper's
    helper,     \* the Windows helper process
    proc,       \* each Companion
    bridge,     \* who started the bridge that serves
    bridges,    \* whose bridge processes exist
    uses,       \* the bridge each Companion uses
    unstarted,  \* history: profiles whose restart failed or was refused, reported or not
    failures, stops

vars == <<pc, todo, target, active, results, exe, staged, helper, proc, bridge, bridges,
          uses, unstarted, failures, stops>>
runner     == <<pc, todo, target, active, results, exe, staged, helper, unstarted>>
companions == <<proc, bridge, bridges, uses>>

Starters == Procs \cup {ArmedBridge}

TypeOK ==
    /\ pc \in {"latest", "prepare", "capture", "servers", "stop", "post", "await", "swap",
               "restart", "starting", "done"}
    /\ todo \subseteq Profiles /\ target \subseteq Profiles /\ active \subseteq Profiles
    /\ results \in [Profiles -> {"none", "updated", "current", "failed"}]
    /\ exe \in Ages
    /\ staged \in {"none", "file", "helper"}
    /\ helper \in {"none", "wait", "start", "gone"}
    /\ proc \in [Procs -> {"none", "starting", "attached", "up", "stopping", "closed", "gone"}]
    /\ bridge \in Starters \cup {NoBridge}
    /\ bridges \subseteq Starters
    /\ uses \in [Procs -> Starters \cup {NoBridge}]
    /\ unstarted \subseteq Profiles
    /\ failures \in 0..MaxFailures
    /\ stops \in 0..MaxStops

\* Some Companions run and share a bridge, which one of them or `arm` started.
Init ==
    /\ pc = "latest"
    /\ todo = {} /\ target = {} /\ active = {}
    /\ results = [p \in Profiles |-> "none"]
    /\ exe \in Ages
    /\ staged = "none"
    /\ helper = "none"
    /\ \E running \in SUBSET Profiles :
          /\ proc = [x \in Procs |-> IF x[2] = "old" /\ x[1] \in running THEN "up" ELSE "none"]
          /\ bridge \in IF running = {} THEN {NoBridge, ArmedBridge}
                        ELSE {<<p, "old">> : p \in running} \cup {ArmedBridge}
          /\ uses = [x \in Procs |-> IF proc[x] = "up" THEN bridge ELSE NoBridge]
    /\ bridges = {bridge} \ {NoBridge}
    /\ unstarted = {}
    /\ failures = 0
    /\ stops = 0

\* LoadRuntime and RuntimeHealthy: the control server answers until it is closed.
Answers(x) == proc[x] \in {"up", "stopping"}
Healthy(p) == \E age \in Ages : Answers(<<p, age>>)

Fail == failures < MaxFailures /\ failures' = failures + 1

Become(x, state) == proc' = [proc EXCEPT ![x] = state]

\* The staged binary is removed and the Companions that ran are started again.
GiveUp ==
    /\ staged' = "none"
    /\ pc' = "restart" /\ todo' = active /\ target' = {}
-----------------------------------------------------------------------------
(***************************************************************************)
(* Run, up to the servers.                                                 *)
(***************************************************************************)
\* The latest tag and the executable; a machine that is current only updates
\* its servers.
Resolve ==
    /\ pc = "latest"
    /\ \/ Fail /\ pc' = "done" /\ UNCHANGED todo
       \/ /\ exe = "old" /\ pc' = "prepare"
          /\ UNCHANGED <<todo, failures>>
       \/ /\ exe = "new" /\ pc' = "servers" /\ todo' = Profiles
          /\ UNCHANGED failures
    /\ UNCHANGED <<target, active, results, exe, staged, helper, unstarted, companions, stops>>

Prepare ==
    /\ pc = "prepare"
    /\ \/ Fail /\ pc' = "done" /\ UNCHANGED <<todo, staged>>
       \/ /\ staged' = "file"
          /\ pc' = "capture" /\ todo' = Profiles
          /\ UNCHANGED failures
    /\ UNCHANGED <<target, active, results, exe, helper, unstarted, companions, stops>>

\* Mutant of CaptureActive: every profile is taken for active.
CaptureAll ==
    /\ pc = "capture"
    /\ active' = Profiles
    /\ pc' = "servers" /\ todo' = Profiles
    /\ UNCHANGED <<target, results, exe, staged, helper, unstarted, companions, failures, stops>>

\* Profiles, which may fail, then ActiveCompanions, which probes one by one.
CaptureActive ==
    /\ pc = "capture"
    /\ \/ /\ todo = Profiles
          /\ Fail
          /\ staged' = "none" /\ pc' = "done"
          /\ UNCHANGED <<todo, active>>
       \/ \E p \in todo :
             /\ active' = IF Healthy(p) THEN active \cup {p} ELSE active
             /\ todo' = todo \ {p}
             /\ UNCHANGED <<pc, staged, failures>>
       \/ /\ todo = {}
          /\ pc' = "servers" /\ todo' = Profiles
          /\ UNCHANGED <<active, staged, failures>>
    /\ UNCHANGED <<target, results, exe, helper, unstarted, companions, stops>>

\* Mutant of InstallRemote: the first server that fails ends the loop.
InstallUntilFailure ==
    /\ pc = "servers"
    /\ \/ \E p \in todo, result \in {"updated", "current"} :
             /\ results' = [results EXCEPT ![p] = result]
             /\ todo' = todo \ {p}
             /\ UNCHANGED <<pc, failures>>
       \/ \E p \in todo :
             /\ Fail
             /\ results' = [results EXCEPT ![p] = "failed"]
             /\ todo' = {}
             /\ UNCHANGED pc
       \/ /\ todo = {}
          /\ IF staged = "none" THEN pc' = "done" /\ UNCHANGED todo
                                ELSE pc' = "stop" /\ todo' = active
          /\ UNCHANGED <<results, failures>>
    /\ UNCHANGED <<target, active, exe, staged, helper, unstarted, companions, stops>>

\* One server after another; a failure is noted and the loop goes on.
InstallRemote ==
    /\ pc = "servers"
    /\ \/ \E p \in todo, result \in {"updated", "current", "failed"} :
             /\ IF result = "failed" THEN Fail ELSE UNCHANGED failures
             /\ results' = [results EXCEPT ![p] = result]
             /\ todo' = todo \ {p}
             /\ UNCHANGED pc
       \/ /\ todo = {}
          /\ IF staged = "none" THEN pc' = "done" /\ UNCHANGED todo
                                ELSE pc' = "stop" /\ todo' = active
          /\ UNCHANGED <<results, failures>>
    /\ UNCHANGED <<target, active, exe, staged, helper, unstarted, companions, stops>>
-----------------------------------------------------------------------------
(***************************************************************************)
(* stopCompanions.                                                         *)
(***************************************************************************)
\* A Companion that does not answer any more is passed over.
ProbeRunning ==
    /\ pc = "stop"
    /\ \/ \E p \in todo :
             /\ todo' = todo \ {p}
             /\ IF Healthy(p) THEN target' = {p} /\ pc' = "post" ELSE UNCHANGED <<target, pc>>
       \/ todo = {} /\ pc' = "await" /\ UNCHANGED <<todo, target>>
    /\ UNCHANGED <<active, results, exe, staged, helper, unstarted, companions, failures, stops>>

\* StopRuntime: the Companion answers and stops later.  One that has gone
\* meanwhile, or any failure of the call, is an error for the whole upgrade.
PostStop ==
    /\ pc = "post"
    /\ \E p \in target :
          \/ /\ \E age \in Ages : Answers(<<p, age>>) /\ Become(<<p, age>>, "stopping")
             /\ pc' = "stop" /\ target' = {}
             /\ UNCHANGED <<todo, staged, failures>>
          \/ /\ \/ ~Healthy(p) /\ UNCHANGED failures
                \/ Fail
             /\ GiveUp
             /\ UNCHANGED proc
    /\ UNCHANGED <<active, results, exe, helper, unstarted, bridge, bridges, uses, stops>>

AwaitStopped ==
    /\ pc = "await"
    /\ \/ /\ \A p \in active : ~Healthy(p)
          /\ pc' = "swap"
          /\ UNCHANGED <<todo, target, staged, failures>>
       \/ Fail /\ GiveUp
    /\ UNCHANGED <<active, results, exe, helper, unstarted, companions, stops>>
-----------------------------------------------------------------------------
(***************************************************************************)
(* The replacement and the restart.                                        *)
(***************************************************************************)
\* Mutant of Replace: an error returns without the deferred work.
ReplaceReturnsEarly ==
    /\ pc = "swap"
    /\ \/ Fail /\ pc' = "done" /\ UNCHANGED <<todo, target, exe, staged, helper>>
       \/ /\ exe' = "new" /\ staged' = "none"
          /\ pc' = "restart" /\ todo' = active
          /\ UNCHANGED <<target, helper, failures>>
    /\ UNCHANGED <<active, results, unstarted, companions, stops>>

\* Only here it matters what the machine is: it renames the file, or on Windows it
\* launches the helper, which ends Run.
Replace ==
    /\ pc = "swap"
    /\ \/ Fail /\ GiveUp /\ UNCHANGED <<exe, helper>>
       \/ /\ exe' = "new" /\ staged' = "none"
          /\ pc' = "restart" /\ todo' = active
          /\ UNCHANGED <<target, helper, failures>>
       \/ /\ staged' = "helper" /\ helper' = "wait"
          /\ pc' = "done"
          /\ UNCHANGED <<todo, target, exe, failures>>
    /\ UNCHANGED <<active, results, unstarted, companions, stops>>

\* restartCompanions and the start of startCompanion: a profile whose Companion
\* answers is an error, and the loop goes on.
Restart ==
    /\ pc = "restart"
    /\ \/ \E p \in todo :
             /\ todo' = todo \ {p}
             /\ IF Healthy(p)
                THEN unstarted' = unstarted \cup {p} /\ UNCHANGED <<target, pc, proc>>
                ELSE /\ Become(<<p, "new">>, "starting")
                     /\ target' = {p} /\ pc' = "starting" /\ UNCHANGED unstarted
       \/ todo = {} /\ pc' = "done" /\ UNCHANGED <<todo, target, proc, unstarted>>
    /\ UNCHANGED <<active, results, exe, staged, helper, bridge, bridges, uses, failures, stops>>

\* Mutant of AwaitStarted: the first Companion that does not start ends the loop.
AwaitFirst ==
    /\ pc = "starting"
    /\ \E p \in target :
          \/ Answers(<<p, "new">>) /\ pc' = "restart" /\ UNCHANGED <<todo, proc, unstarted, failures>>
          \/ /\ Fail
             /\ Become(<<p, "new">>, "gone")
             /\ unstarted' = unstarted \cup {p}
             /\ todo' = {} /\ pc' = "restart"
    /\ target' = {}
    /\ UNCHANGED <<active, results, exe, staged, helper, bridge, bridges, uses, stops>>

\* The rest of startCompanion: the child answers, or is killed when it does not
\* in time.
AwaitStarted ==
    /\ pc = "starting"
    /\ \E p \in target :
          \/ Answers(<<p, "new">>) /\ UNCHANGED <<proc, unstarted, failures>>
          \/ /\ proc[<<p, "new">>] = "gone" /\ UNCHANGED <<proc, failures>>
             /\ unstarted' = unstarted \cup {p}
          \/ /\ Fail
             /\ Become(<<p, "new">>, "gone")
             /\ unstarted' = unstarted \cup {p}
    /\ pc' = "restart" /\ target' = {}
    /\ UNCHANGED <<todo, active, results, exe, staged, helper, bridge, bridges, uses, stops>>

\* The Windows helper.  Wait-Process fails when the upgrade has ended before the
\* helper comes to it, Move-Item while any process runs the executable, and
\* ErrorActionPreference ends the script at either.
MoveItem ==
    /\ helper = "wait" /\ pc = "done"
    /\ \/ /\ bridges = {} /\ \A x \in Procs : proc[x] \in {"none", "gone"}
          /\ exe' = "new" /\ staged' = "none" /\ helper' = "start"
       \/ UNCHANGED <<exe, staged>> /\ helper' = "gone"
    /\ UNCHANGED <<pc, todo, target, active, results, unstarted, companions, failures, stops>>

StartProcess ==
    /\ helper = "start"
    /\ helper' = "gone"
    /\ proc' = [x \in Procs |-> IF x[2] = "new" /\ x[1] \in active THEN "starting" ELSE proc[x]]
    /\ UNCHANGED <<pc, todo, target, active, results, exe, staged, unstarted, bridge, bridges,
                   uses, failures, stops>>
-----------------------------------------------------------------------------
(***************************************************************************)
(* The Companions: runCompanionService.                                    *)
(***************************************************************************)
\* ensureBridge uses the bridge that answers, or starts one.
EnsureBridge(x) ==
    /\ proc[x] = "starting"
    /\ LET serving == IF bridge = NoBridge THEN x ELSE bridge
       IN  /\ bridge' = serving
           /\ bridges' = bridges \cup {serving}
           /\ uses' = [uses EXCEPT ![x] = serving]
    /\ Become(x, "attached")
    /\ UNCHANGED <<runner, failures, stops>>

\* The session is registered at that bridge, then the control server is up.
StartControl(x) ==
    /\ proc[x] = "attached"
    /\ Become(x, IF uses[x] = bridge THEN "up" ELSE "closed")
    /\ UNCHANGED <<runner, bridge, bridges, uses, failures, stops>>

\* The user stops a Companion, or it ends with an error.
Stop(x) ==
    /\ proc[x] = "up"
    /\ stops < MaxStops
    /\ stops' = stops + 1
    /\ Become(x, "stopping")
    /\ UNCHANGED <<runner, bridge, bridges, uses, failures>>

\* The deferred calls run in reverse: the control server closes first...
CloseControl(x) ==
    /\ proc[x] = "stopping"
    /\ Become(x, "closed")
    /\ UNCHANGED <<runner, bridge, bridges, uses, failures, stops>>

\* ... and control.Shutdown comes later, if this Companion started the bridge.
\* The bridge process stays (see BridgeLifecycle).
Shutdown(x) ==
    /\ proc[x] = "closed"
    /\ bridge' = IF uses[x] = x /\ bridge = x THEN NoBridge ELSE bridge
    /\ Become(x, "gone")
    /\ UNCHANGED <<runner, bridges, uses, failures, stops>>
-----------------------------------------------------------------------------
Run == \/ Resolve \/ Prepare \/ CaptureActive \/ InstallRemote
       \/ ProbeRunning \/ PostStop \/ AwaitStopped \/ Replace \/ Restart \/ AwaitStarted

Helper == MoveItem \/ StartProcess

Companion(x) == EnsureBridge(x) \/ StartControl(x) \/ CloseControl(x) \/ Shutdown(x)

Next == Run \/ Helper \/ \E x \in Procs : Companion(x) \/ Stop(x)

Spec == Init /\ [][Next]_vars

\* Processes run.
FairSpec == Spec /\ WF_vars(Run) /\ WF_vars(Helper) /\ \A x \in Procs : WF_vars(Companion(x))
-----------------------------------------------------------------------------
(***************************************************************************)
(* Properties.                                                             *)
(***************************************************************************)
\* This machine changes last: when its executable is replaced every server was
\* tried, and no Companion that ran before answers any more.
LocalChangesLast ==
    [][exe' # exe =>
          /\ \A p \in Profiles : results[p] # "none"
          /\ \A p \in active : ~Answers(<<p, "old">>)]_vars

\* "A Companion that was stopped stays stopped": the upgrade starts only the
\* profiles whose Companions ran before it.
StoppedStaysStopped ==
    \A p \in Profiles : proc[<<p, "old">>] = "none" => proc[<<p, "new">>] = "none"

\* The upgrade never adds a second Companion to a profile whose first answers.
OneAnswers == \A p \in Profiles : ~(Answers(<<p, "old">>) /\ Answers(<<p, "new">>))

\* Whatever failed, Run ends with no staged binary beside the executable, but
\* the one it gave to the helper.
StagedIsGone == pc = "done" => staged = "none" \/ (staged = "helper" /\ helper # "none")

\* Every Companion that ran before the upgrade runs after it, unless its own start
\* failed or was refused; whatever else fails, and whether or not others start.  The
\* upgrade reports a failed start only after the replacement: where it gives up, the
\* result of RestartCompanions is discarded.  The Windows helper is excepted: it ends,
\* and starts nobody, when Wait-Process or Move-Item fails.
CompanionsComeBack ==
    <>[](\/ helper # "none" \/ stops > 0
         \/ \A p \in Profiles : \/ proc[<<p, "old">>] = "none" \/ p \in unstarted
                               \/ \E age \in Ages : proc[<<p, age>>] = "up")
=============================================================================
