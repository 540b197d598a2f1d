--------------------------- MODULE UpgradeProofs ----------------------------
(***************************************************************************)
(* Theorems about the upgrade and the notice that leads to it.             *)
(* SelfUpgrade, for any set of saved profiles, on Windows and elsewhere,   *)
(* whatever fails and whoever stops a Companion meanwhile: the machine     *)
(* changes last, no stopped profile is started, no profile gets a second   *)
(* Companion, and no staged binary is left.                                *)
(* SemVer, for any versions: Compare is one total order, that of Semantic  *)
(* Versioning.                                                             *)
(* ReleaseCheck, for any number of Companions and releases: what a check   *)
(* learned keeps its date, who is told of it is told of the last one, and  *)
(* of an update exactly when there is one.                                 *)
(***************************************************************************)
EXTENDS SelfUpgrade, ReleaseCheck, SequenceTheorems, WellFoundedInduction, TLAPS

Started == {"restart", "starting", "done"}

\* A Companion from before the upgrade is never started again.
OldRanBefore ==
    \A p \in Profiles : proc[<<p, "old">>] \in {"none", "up", "stopping", "closed", "gone"}

\* The active profiles are some whose Companions ran before.
ActiveRan == \A p \in active : proc[<<p, "old">>] # "none"

\* The upgrade starts Companions at its end, of active profiles, where the old
\* one does not answer.
NewIsRestarted ==
    \A p \in Profiles : proc[<<p, "new">>] # "none" =>
        pc \in Started /\ p \in active /\ ~Answers(<<p, "old">>)

\* What each loop still has to do, and whom the last one waits for.
TodoIsActive ==
    /\ pc \in {"stop", "post", "restart", "starting"} => todo \subseteq active
    /\ pc = "starting" => \A p \in target : proc[<<p, "new">>] # "none"

\* Which servers were tried, and which Companions stopped, by when.
ServersTried ==
    /\ pc = "servers" => \A p \in Profiles \ todo : results[p] # "none"
    /\ \/ pc \in {"stop", "post", "await", "swap"}
       \/ helper # "none"
       => \A p \in Profiles : results[p] # "none"

StoppedBefore ==
    /\ pc = "swap" => \A p \in active : ~Answers(<<p, "old">>)
    /\ helper = "start" => \A p \in Profiles : ~Answers(<<p, "old">>)

\* Where the staged binary is.
StagedPlace ==
    /\ pc \in {"latest", "prepare", "restart", "starting"} => staged = "none"
    /\ helper # "none" => pc = "done"
    /\ StagedIsGone

UpgradeInv ==
    /\ TypeOK /\ OldRanBefore /\ ActiveRan /\ NewIsRestarted /\ TodoIsActive
    /\ ServersTried /\ StoppedBefore /\ StagedPlace

LEMMA UpgradeInvInit == Init => UpgradeInv
<1> SUFFICES ASSUME Init PROVE UpgradeInv
  OBVIOUS
<1>1. PICK running \in SUBSET Profiles :
        /\ proc = [x \in Procs |-> IF x[2] = "old" /\ x[1] \in running THEN "up" ELSE "none"]
        /\ bridge \in IF running = {} THEN {NoBridge, ArmedBridge}
                      ELSE {<<p, "old">> : p \in running} \cup {ArmedBridge}
        /\ uses = [x \in Procs |-> IF proc[x] = "up" THEN bridge ELSE NoBridge]
  BY DEF Init
<1>2. bridge \in Starters \cup {NoBridge}
  <2>1. {<<p, "old">> : p \in running} \subseteq Procs
    BY DEF Procs, Ages
  <2>2. bridge \in {NoBridge, ArmedBridge} \/ bridge \in {<<p, "old">> : p \in running} \cup {ArmedBridge}
    BY <1>1
  <2> QED
    BY <2>1, <2>2 DEF Starters
<1>3. proc \in [Procs -> {"none", "up"}]
  BY <1>1
<1>4. \A p \in Profiles : proc[<<p, "new">>] = "none"
  BY <1>1 DEF Procs, Ages
<1>5. uses \in [Procs -> Starters \cup {NoBridge}]
  BY <1>1, <1>2
<1>6. TypeOK
  BY <1>2, <1>3, <1>5, BoundsAssumption DEF Init, TypeOK, Starters
<1>7. OldRanBefore
  BY <1>3 DEF OldRanBefore, Procs, Ages
<1>8. ActiveRan /\ NewIsRestarted /\ TodoIsActive /\ ServersTried /\ StoppedBefore /\ StagedPlace
  BY <1>4 DEF Init, ActiveRan, NewIsRestarted, TodoIsActive, ServersTried, StoppedBefore,
              StagedPlace, StagedIsGone
<1> QED
  BY <1>6, <1>7, <1>8 DEF UpgradeInv

LEMMA UpgradeTypeNext == TypeOK /\ [Next]_vars => TypeOK'
<1> SUFFICES ASSUME TypeOK, [Next]_vars PROVE TypeOK'
  OBVIOUS
<1> USE BoundsAssumption DEF TypeOK, runner, companions, Fail, GiveUp, Become
<1> DEFINE ProcStates == {"none", "starting", "attached", "up", "stopping", "closed", "gone"}
<1>0. ASSUME NEW x, NEW state \in ProcStates PROVE [proc EXCEPT ![x] = state] \in [Procs -> ProcStates]
  OBVIOUS
<1>1. ASSUME Resolve \/ Prepare PROVE TypeOK'
  BY <1>1 DEF Resolve, Prepare
<1>2. ASSUME CaptureActive PROVE TypeOK'
  BY <1>2 DEF CaptureActive
<1>3. ASSUME InstallRemote PROVE TypeOK'
  BY <1>3 DEF InstallRemote
<1>4. ASSUME ProbeRunning \/ AwaitStopped PROVE TypeOK'
  BY <1>4 DEF ProbeRunning, AwaitStopped
<1>5. ASSUME PostStop PROVE TypeOK'
  <2>1. proc' \in [Procs -> ProcStates]
    <3>1. proc' = proc \/ \E p, age : proc' = [proc EXCEPT ![<<p, age>>] = "stopping"]
      BY <1>5 DEF PostStop
    <3> QED
      BY <1>0, <3>1
  <2> QED
    BY <1>5, <2>1 DEF PostStop
<1>6. ASSUME Replace PROVE TypeOK'
  BY <1>6 DEF Replace, Ages
<1>7. ASSUME Restart PROVE TypeOK'
  <2>1. proc' \in [Procs -> ProcStates]
    <3>1. proc' = proc \/ \E p : proc' = [proc EXCEPT ![<<p, "new">>] = "starting"]
      BY <1>7 DEF Restart
    <3> QED
      BY <1>0, <3>1
  <2>2. /\ todo' \subseteq todo
        /\ target' = target \/ \E p \in todo : target' = {p}
        /\ pc' \in {pc, "starting", "done"}
    BY <1>7 DEF Restart
  <2> QED
    BY <1>7, <2>1, <2>2 DEF Restart
<1>8. ASSUME AwaitStarted PROVE TypeOK'
  BY <1>8 DEF AwaitStarted
<1>9. ASSUME MoveItem PROVE TypeOK'
  BY <1>9 DEF MoveItem, Ages
<1>10. ASSUME StartProcess PROVE TypeOK'
  BY <1>10 DEF StartProcess
<1>11. ASSUME NEW x \in Procs, EnsureBridge(x) PROVE TypeOK'
  <2>1. (IF bridge = NoBridge THEN x ELSE bridge) \in Starters
    BY DEF Starters
  <2> QED
    BY <1>11, <2>1 DEF EnsureBridge
<1>12. ASSUME NEW x \in Procs, StartControl(x) \/ CloseControl(x) PROVE TypeOK'
  BY <1>12 DEF StartControl, CloseControl
<1>13. ASSUME NEW x \in Procs, Stop(x) PROVE TypeOK'
  BY <1>13 DEF Stop
<1>14. ASSUME NEW x \in Procs, Shutdown(x) PROVE TypeOK'
  BY <1>14 DEF Shutdown
<1>15. CASE UNCHANGED vars
  BY <1>15 DEF vars
<1> QED
  BY <1>1, <1>2, <1>3, <1>4, <1>5, <1>6, <1>7, <1>8, <1>9, <1>10, <1>11, <1>12, <1>13, <1>14,
     <1>15 DEF Next, Run, Helper, Companion

-----------------------------------------------------------------------------
\* A step of Run that leaves the Companions alone.
LEMMA RunNext ==
    ASSUME UpgradeInv, Resolve \/ Prepare \/ CaptureActive \/ InstallRemote \/ ProbeRunning
                \/ AwaitStopped \/ Replace
    PROVE  UpgradeInv'
<1> USE DEF UpgradeInv, TypeOK, runner, companions, Fail, GiveUp, Started, Answers
<1> DEFINE Rest == /\ OldRanBefore' /\ ActiveRan' /\ NewIsRestarted' /\ TodoIsActive'
                   /\ ServersTried' /\ StoppedBefore' /\ StagedPlace'
<1>0. TypeOK'
  BY UpgradeTypeNext DEF Next, Run
<1>1. OldRanBefore'
  BY DEF OldRanBefore, Resolve, Prepare, CaptureActive, InstallRemote, ProbeRunning,
         AwaitStopped, Replace
<1>2. ASSUME Resolve \/ Prepare PROVE Rest
  BY <1>1, <1>2 DEF Resolve, Prepare, ActiveRan, NewIsRestarted, TodoIsActive, ServersTried,
                    StoppedBefore, StagedPlace, StagedIsGone
<1>3. ASSUME CaptureActive PROVE Rest
  <2>1. pc = "capture" /\ UNCHANGED <<proc, results, helper>> /\ pc' \in {"capture", "servers", "done"}
    BY <1>3 DEF CaptureActive
  <2>2. \A p \in Profiles : proc[<<p, "new">>] = "none"
    BY <2>1 DEF NewIsRestarted
  <2>3. \A p \in Profiles : Healthy(p) => proc[<<p, "old">>] # "none"
    BY <2>2 DEF Healthy, Ages
  <2>4. ActiveRan'
    BY <1>3, <2>1, <2>3 DEF CaptureActive, ActiveRan
  <2>5. NewIsRestarted' /\ TodoIsActive'
    BY <2>1, <2>2 DEF NewIsRestarted, TodoIsActive
  <2>6. ServersTried' /\ StoppedBefore'
    BY <1>3, <2>1 DEF CaptureActive, ServersTried, StoppedBefore, StagedPlace
  <2>7. StagedPlace'
    BY <1>3, <2>1 DEF CaptureActive, StagedPlace, StagedIsGone
  <2> QED
    BY <1>1, <2>4, <2>5, <2>6, <2>7
<1>4. ASSUME InstallRemote PROVE Rest
  <2>1. pc = "servers" /\ UNCHANGED <<proc, active, staged, helper>>
        /\ pc' \in {"servers", "stop", "done"}
    BY <1>4 DEF InstallRemote
  <2>2. ActiveRan' /\ NewIsRestarted'
    BY <2>1 DEF ActiveRan, NewIsRestarted
  <2>3. TodoIsActive'
    BY <1>4 DEF InstallRemote, TodoIsActive
  <2>4. ServersTried'
    <3>1. CASE todo = {} /\ UNCHANGED results
      BY <2>1, <3>1 DEF ServersTried, StagedPlace
    <3>2. CASE \E p \in todo, result \in {"updated", "current", "failed"} :
                  /\ results' = [results EXCEPT ![p] = result]
                  /\ todo' = todo \ {p}
                  /\ UNCHANGED pc
      BY <2>1, <3>2 DEF ServersTried, StagedPlace
    <3> QED
      BY <1>4, <3>1, <3>2 DEF InstallRemote
  <2>5. StoppedBefore' /\ StagedPlace'
    BY <1>4, <2>1 DEF InstallRemote, StoppedBefore, StagedPlace, StagedIsGone
  <2> QED
    BY <1>1, <2>2, <2>3, <2>4, <2>5
<1>5. ASSUME ProbeRunning PROVE Rest
  BY <1>1, <1>5 DEF ProbeRunning, ActiveRan, NewIsRestarted, TodoIsActive, ServersTried,
                    StoppedBefore, StagedPlace, StagedIsGone
<1>6. ASSUME AwaitStopped PROVE Rest
  BY <1>1, <1>6 DEF AwaitStopped, Healthy, Ages, ActiveRan, NewIsRestarted, TodoIsActive,
                    ServersTried, StoppedBefore, StagedPlace, StagedIsGone
<1>7. ASSUME Replace PROVE Rest
  BY <1>1, <1>7 DEF Replace, ActiveRan, NewIsRestarted, TodoIsActive, ServersTried,
                    StoppedBefore, StagedPlace, StagedIsGone
<1> QED
  BY <1>0, <1>2, <1>3, <1>4, <1>5, <1>6, <1>7

\* A Companion moves: an old one does not answer if it did not, and it is no
\* other that comes into being.
LEMMA CompanionMoves ==
    ASSUME UpgradeInv, NEW x \in Procs, NEW state, proc' = [proc EXCEPT ![x] = state],
           proc[x] # "none",
           state \in {"starting", "attached", "up", "stopping", "closed", "gone"},
           x[2] = "old" => state \in {"stopping", "closed", "gone"}
                           /\ (state = "stopping" => Answers(x)),
           UNCHANGED <<pc, todo, target, active, results, staged, helper>>
    PROVE  /\ OldRanBefore' /\ ActiveRan' /\ NewIsRestarted' /\ TodoIsActive'
           /\ ServersTried' /\ StoppedBefore' /\ StagedPlace'
<1>1. proc \in [Procs -> {"none", "starting", "attached", "up", "stopping", "closed", "gone"}]
  BY DEF UpgradeInv, TypeOK
<1>2. \A y \in Procs : proc'[y] = IF y = x THEN state ELSE proc[y]
  BY <1>1
<1>3. \A p \in Profiles, age \in Ages : <<p, age>> \in Procs
  BY DEF Procs
<1>4. \A p \in Profiles : /\ proc'[<<p, "old">>] # "none" <=> proc[<<p, "old">>] # "none"
                          /\ proc'[<<p, "new">>] # "none" <=> proc[<<p, "new">>] # "none"
                          /\ Answers(<<p, "old">>)' => Answers(<<p, "old">>)
                          /\ proc'[<<p, "old">>] \in {"none", "up", "stopping", "closed", "gone"}
  <2> SUFFICES ASSUME NEW p \in Profiles
               PROVE  /\ proc'[<<p, "old">>] # "none" <=> proc[<<p, "old">>] # "none"
                      /\ proc'[<<p, "new">>] # "none" <=> proc[<<p, "new">>] # "none"
                      /\ Answers(<<p, "old">>)' => Answers(<<p, "old">>)
                      /\ proc'[<<p, "old">>] \in {"none", "up", "stopping", "closed", "gone"}
    OBVIOUS
  <2>1. <<p, "old">> \in Procs /\ <<p, "new">> \in Procs
    BY <1>3 DEF Ages
  <2>2. proc[<<p, "old">>] \in {"none", "up", "stopping", "closed", "gone"}
    BY DEF UpgradeInv, OldRanBefore
  <2>3. proc'[<<p, "new">>] # "none" <=> proc[<<p, "new">>] # "none"
    BY <1>2, <2>1
  <2>4. CASE x = <<p, "old">>
    BY <1>2, <2>1, <2>2, <2>3, <2>4 DEF Answers
  <2>5. CASE x # <<p, "old">>
    BY <1>2, <2>1, <2>2, <2>3, <2>5 DEF Answers
  <2> QED
    BY <2>4, <2>5
<1>5. active \subseteq Profiles
  BY DEF UpgradeInv, TypeOK
<1>6. OldRanBefore' /\ ActiveRan' /\ NewIsRestarted'
  BY <1>4, <1>5 DEF UpgradeInv, OldRanBefore, ActiveRan, NewIsRestarted
<1>7. TodoIsActive' /\ ServersTried' /\ StagedPlace'
  BY <1>4 DEF UpgradeInv, TypeOK, TodoIsActive, ServersTried, StagedPlace, StagedIsGone
<1>8. StoppedBefore'
  BY <1>4, <1>5 DEF UpgradeInv, StoppedBefore
<1> QED
  BY <1>6, <1>7, <1>8

LEMMA CompanionNext ==
    ASSUME UpgradeInv, NEW x \in Procs, Companion(x) \/ Stop(x)
    PROVE  UpgradeInv'
<1> USE DEF runner, Become
<1>0. TypeOK'
  BY UpgradeTypeNext DEF Next, UpgradeInv
<1>1. x[2] = "old" => proc[x] \in {"none", "up", "stopping", "closed", "gone"}
  BY DEF UpgradeInv, OldRanBefore, Procs
<1>2. CASE EnsureBridge(x)
  BY <1>0, <1>1, <1>2, CompanionMoves DEF EnsureBridge, UpgradeInv
<1>3. CASE StartControl(x)
  BY <1>0, <1>1, <1>3, CompanionMoves DEF StartControl, UpgradeInv
<1>4. CASE CloseControl(x)
  BY <1>0, <1>4, CompanionMoves DEF CloseControl, UpgradeInv
<1>5. CASE Shutdown(x)
  BY <1>0, <1>5, CompanionMoves DEF Shutdown, UpgradeInv
<1>6. CASE Stop(x)
  <2>1. Answers(x) /\ proc' = [proc EXCEPT ![x] = "stopping"] /\ proc[x] # "none"
        /\ UNCHANGED <<pc, todo, target, active, results, staged, helper>>
    BY <1>6 DEF Stop, Answers
  <2> QED
    BY <1>0, <2>1, CompanionMoves DEF UpgradeInv
<1> QED
  BY <1>2, <1>3, <1>4, <1>5, <1>6 DEF Companion

\* Run stops a Companion.
LEMMA PostStopNext == ASSUME UpgradeInv, PostStop PROVE UpgradeInv'
<1> USE DEF Become, GiveUp
<1>0. TypeOK'
  BY UpgradeTypeNext DEF Next, Run, UpgradeInv
<1>1. pc = "post" /\ UNCHANGED <<active, results, helper>>
  BY DEF PostStop
<1>2. \A p \in Profiles : proc[<<p, "new">>] = "none"
  BY <1>1 DEF UpgradeInv, NewIsRestarted, Started
<1>3. CASE /\ pc' = "stop" /\ UNCHANGED <<todo, staged>>
           /\ \E p \in target, age \in Ages :
                 Answers(<<p, age>>) /\ proc' = [proc EXCEPT ![<<p, age>>] = "stopping"]
  <2>1. PICK p \in target : \E age \in Ages :
          Answers(<<p, age>>) /\ proc' = [proc EXCEPT ![<<p, age>>] = "stopping"]
    BY <1>3
  <2>2. p \in Profiles
    BY DEF UpgradeInv, TypeOK
  <2>3. Answers(<<p, "old">>) /\ proc' = [proc EXCEPT ![<<p, "old">>] = "stopping"]
    BY <1>2, <2>1, <2>2 DEF Ages, Answers
  <2>4. \A q \in Profiles : /\ proc'[<<q, "old">>] # "none" <=> proc[<<q, "old">>] # "none"
                            /\ proc'[<<q, "new">>] = "none"
                            /\ proc'[<<q, "old">>] \in {"none", "up", "stopping", "closed", "gone"}
    BY <1>2, <2>3 DEF UpgradeInv, TypeOK, OldRanBefore, Answers, Procs, Ages
  <2>5. todo \subseteq active
    BY <1>1 DEF UpgradeInv, TodoIsActive
  <2> QED
    BY <1>0, <1>1, <1>3, <2>4, <2>5
       DEF UpgradeInv, TypeOK, OldRanBefore, ActiveRan, NewIsRestarted, TodoIsActive, ServersTried,
           StoppedBefore, StagedPlace, StagedIsGone
<1>4. CASE GiveUp /\ UNCHANGED proc
  BY <1>0, <1>1, <1>2, <1>4
     DEF UpgradeInv, TypeOK, OldRanBefore, ActiveRan, NewIsRestarted, TodoIsActive, ServersTried,
         StoppedBefore, StagedPlace, StagedIsGone
<1> QED
  BY <1>3, <1>4 DEF PostStop

\* A step of the rest of an upgrade that starts no Companion.
LEMMA NoneIsStarted ==
    ASSUME UpgradeInv,
           \A p \in Profiles :
              /\ proc'[<<p, "old">>] = proc[<<p, "old">>]
              /\ proc'[<<p, "new">>] = "none" \/ proc[<<p, "new">>] # "none",
           pc' \in Started, UNCHANGED <<active, results, exe>>
    PROVE  OldRanBefore' /\ ActiveRan' /\ NewIsRestarted'
<1>1. \A p \in Profiles : Answers(<<p, "old">>)' <=> Answers(<<p, "old">>)
  BY DEF Answers
<1> QED
  BY <1>1 DEF UpgradeInv, TypeOK, OldRanBefore, ActiveRan, NewIsRestarted

LEMMA RestartNext == ASSUME UpgradeInv, Restart \/ AwaitStarted PROVE UpgradeInv'
<1> USE DEF Become, Started
<1>0. TypeOK'
  BY UpgradeTypeNext DEF Next, Run, UpgradeInv
<1>1. /\ pc \in {"restart", "starting"} /\ pc' \in {"restart", "starting", "done"}
      /\ UNCHANGED <<active, results, exe, staged, helper>>
  BY DEF Restart, AwaitStarted
<1>2. proc \in [Procs -> {"none", "starting", "attached", "up", "stopping", "closed", "gone"}]
  BY DEF UpgradeInv, TypeOK
<1>3. ServersTried' /\ StoppedBefore' /\ StagedPlace'
  BY <1>1 DEF UpgradeInv, ServersTried, StoppedBefore, StagedPlace, StagedIsGone
<1>4. CASE Restart
  <2>1. todo \subseteq active
    BY <1>4 DEF Restart, UpgradeInv, TodoIsActive
  <2>2. TodoIsActive'
    <3>1. todo' \subseteq active'
      BY <1>4, <2>1 DEF Restart
    <3>2. ASSUME pc' = "starting" PROVE \A p \in target' : proc'[<<p, "new">>] # "none"
      <4>1. PICK p \in todo : target' = {p} /\ proc' = [proc EXCEPT ![<<p, "new">>] = "starting"]
        BY <1>4, <3>2 DEF Restart
      <4>2. p \in Profiles
        BY DEF UpgradeInv, TypeOK
      <4>3. <<p, "new">> \in Procs
        BY <4>2 DEF Procs, Ages
      <4> QED
        BY <1>2, <4>1, <4>3
    <3> QED
      BY <3>1, <3>2 DEF TodoIsActive
  <2>3. CASE UNCHANGED proc
    <3>1. OldRanBefore' /\ ActiveRan' /\ NewIsRestarted'
      BY <1>1, <2>3, NoneIsStarted
    <3> QED
      BY <1>0, <1>3, <2>2, <3>1 DEF UpgradeInv
  <2>4. CASE \E p \in todo : ~Healthy(p) /\ proc' = [proc EXCEPT ![<<p, "new">>] = "starting"]
    <3>1. PICK p \in todo : ~Healthy(p) /\ proc' = [proc EXCEPT ![<<p, "new">>] = "starting"]
      BY <2>4
    <3>2. ~Answers(<<p, "old">>)
      BY <3>1 DEF Healthy, Ages
    <3>3. \A q \in Profiles : /\ proc'[<<q, "old">>] = proc[<<q, "old">>]
                              /\ q # p => proc'[<<q, "new">>] = proc[<<q, "new">>]
      BY <1>2, <3>1 DEF Procs, Ages
    <3>4. p \in active
      BY <2>1, <3>1
    <3>5. \A q \in Profiles : Answers(<<q, "old">>)' <=> Answers(<<q, "old">>)
      BY <3>3 DEF Answers
    <3>6. OldRanBefore' /\ ActiveRan'
      BY <1>1, <3>3 DEF UpgradeInv, TypeOK, OldRanBefore, ActiveRan
    <3>7. NewIsRestarted'
      BY <1>1, <3>2, <3>3, <3>4, <3>5 DEF UpgradeInv, NewIsRestarted
    <3> QED
      BY <1>0, <1>3, <2>2, <3>6, <3>7 DEF UpgradeInv
  <2> QED
    BY <1>4, <2>3, <2>4 DEF Restart
<1>5. CASE AwaitStarted
  <2>1. pc = "starting" /\ pc' = "restart" /\ todo' = todo
    BY <1>5 DEF AwaitStarted
  <2>2. TodoIsActive'
    BY <1>1, <2>1 DEF UpgradeInv, TodoIsActive
  <2>3. \A p \in Profiles : /\ proc'[<<p, "old">>] = proc[<<p, "old">>]
                            /\ proc'[<<p, "new">>] = "none" \/ proc[<<p, "new">>] # "none"
    <3>1. CASE UNCHANGED proc
      BY <3>1
    <3>2. CASE \E p \in target : proc' = [proc EXCEPT ![<<p, "new">>] = "gone"]
      <4>1. PICK p \in target : proc' = [proc EXCEPT ![<<p, "new">>] = "gone"]
        BY <3>2
      <4>2. proc[<<p, "new">>] # "none"
        BY <2>1 DEF UpgradeInv, TodoIsActive
      <4> QED
        BY <1>2, <4>1, <4>2 DEF Procs, Ages
    <3> QED
      BY <1>5, <3>1, <3>2 DEF AwaitStarted
  <2>4. OldRanBefore' /\ ActiveRan' /\ NewIsRestarted'
    BY <1>1, <2>3, NoneIsStarted
  <2> QED
    BY <1>0, <1>3, <2>2, <2>4 DEF UpgradeInv
<1> QED
  BY <1>4, <1>5

LEMMA HelperNext == ASSUME UpgradeInv, MoveItem \/ StartProcess PROVE UpgradeInv'
<1> USE DEF Started
<1>0. TypeOK'
  BY UpgradeTypeNext DEF Next, Helper, UpgradeInv
<1>1. UNCHANGED <<pc, todo, target, active, results>> /\ pc = "done" /\ helper # "none"
      /\ helper' \in {"start", "gone"}
  BY DEF MoveItem, StartProcess, companions, UpgradeInv, StagedPlace
<1>2. \A p \in Profiles : <<p, "old">> \in Procs /\ <<p, "new">> \in Procs
  BY DEF Procs, Ages
<1>3. TodoIsActive' /\ ServersTried'
  BY <1>1 DEF UpgradeInv, TodoIsActive, ServersTried
<1>4. CASE MoveItem
  <2>1. UNCHANGED proc
    BY <1>4 DEF MoveItem, companions
  <2>2. OldRanBefore' /\ ActiveRan' /\ NewIsRestarted'
    BY <1>1, <2>1 DEF UpgradeInv, OldRanBefore, ActiveRan, NewIsRestarted, Answers
  <2>3. helper' = "start" => \A p \in Profiles : ~Answers(<<p, "old">>)
    BY <1>2, <1>4 DEF MoveItem, Answers
  <2>4. StoppedBefore'
    BY <1>1, <2>1, <2>3 DEF StoppedBefore, Answers
  <2>5. StagedPlace'
    BY <1>1, <1>4 DEF MoveItem, UpgradeInv, StagedPlace, StagedIsGone
  <2> QED
    BY <1>0, <1>3, <2>2, <2>4, <2>5 DEF UpgradeInv
<1>5. CASE StartProcess
  <2>1. \A p \in Profiles : ~Answers(<<p, "old">>)
    BY <1>5 DEF StartProcess, UpgradeInv, StoppedBefore
  <2>2. \A p \in Profiles :
           /\ proc'[<<p, "old">>] = proc[<<p, "old">>]
           /\ p \in active \/ proc'[<<p, "new">>] = proc[<<p, "new">>]
    BY <1>2, <1>5 DEF StartProcess
  <2>3. OldRanBefore' /\ ActiveRan' /\ NewIsRestarted'
    BY <1>1, <2>1, <2>2 DEF UpgradeInv, TypeOK, OldRanBefore, ActiveRan, NewIsRestarted, Answers
  <2>4. StoppedBefore' /\ StagedPlace'
    BY <1>1, <1>5 DEF StartProcess, UpgradeInv, StoppedBefore, StagedPlace, StagedIsGone
  <2> QED
    BY <1>0, <1>3, <2>3, <2>4 DEF UpgradeInv
<1> QED
  BY <1>4, <1>5

LEMMA UpgradeInvNext == UpgradeInv /\ [Next]_vars => UpgradeInv'
<1> SUFFICES ASSUME UpgradeInv, [Next]_vars PROVE UpgradeInv'
  OBVIOUS
<1>1. CASE Run
  BY <1>1, RunNext, PostStopNext, RestartNext DEF Run
<1>2. CASE Helper
  BY <1>2, HelperNext DEF Helper
<1>3. CASE \E x \in Procs : Companion(x) \/ Stop(x)
  BY <1>3, CompanionNext
<1>4. CASE UNCHANGED vars
  BY <1>4 DEF vars, UpgradeInv, TypeOK, OldRanBefore, ActiveRan, NewIsRestarted, TodoIsActive,
              ServersTried, StoppedBefore, StagedPlace, StagedIsGone, Answers
<1> QED
  BY <1>1, <1>2, <1>3, <1>4 DEF Next
-----------------------------------------------------------------------------
(***************************************************************************)
(* The theorems.                                                           *)
(***************************************************************************)
\* Every variable of an upgrade keeps its type.
THEOREM UpgradeTypeCorrect == Spec => []TypeOK
<1>1. Init => TypeOK
  BY UpgradeInvInit DEF UpgradeInv
<1> QED
  BY <1>1, UpgradeTypeNext, PTL DEF Spec

\* The upgrade starts only profiles whose Companions ran before it.
THEOREM StoppedStaysStoppedHolds == Spec => []StoppedStaysStopped
<1>1. UpgradeInv => StoppedStaysStopped
  BY DEF UpgradeInv, ActiveRan, NewIsRestarted, StoppedStaysStopped
<1> QED
  BY <1>1, UpgradeInvInit, UpgradeInvNext, PTL DEF Spec

\* A profile whose Companion still answers gets no other.
THEOREM OneAnswersHolds == Spec => []OneAnswers
<1>1. UpgradeInv => OneAnswers
  BY DEF UpgradeInv, NewIsRestarted, OneAnswers, Answers
<1> QED
  BY <1>1, UpgradeInvInit, UpgradeInvNext, PTL DEF Spec

\* However Run ends, no staged binary is left beside the executable.
THEOREM StagedIsGoneHolds == Spec => []StagedIsGone
<1>1. UpgradeInv => StagedIsGone
  BY DEF UpgradeInv, StagedPlace
<1> QED
  BY <1>1, UpgradeInvInit, UpgradeInvNext, PTL DEF Spec

\* The executable is replaced after every server was tried and every Companion
\* that was active has stopped.
THEOREM LocalChangesLastHolds == Spec => LocalChangesLast
<1> DEFINE Last == exe' # exe =>
                      /\ \A p \in Profiles : results[p] # "none"
                      /\ \A p \in active : ~Answers(<<p, "old">>)
<1>1. ASSUME UpgradeInv, [Next]_vars PROVE Last \/ UNCHANGED vars
  <2> USE DEF runner, companions
  <2>1. ASSUME Replace PROVE Last
    BY <1>1, <2>1 DEF Replace, UpgradeInv, ServersTried, StoppedBefore
  <2>2. ASSUME MoveItem PROVE Last
    <3>1. helper = "wait"
      BY <2>2 DEF MoveItem
    <3>2. \A p \in Profiles : results[p] # "none"
      BY <1>1, <3>1 DEF UpgradeInv, ServersTried
    <3>3. active \subseteq Profiles
      BY <1>1 DEF UpgradeInv, TypeOK
    <3>4. exe' # exe => \A x \in Procs : proc[x] \in {"none", "gone"}
      BY <2>2 DEF MoveItem
    <3>5. \A p \in Profiles : <<p, "old">> \in Procs
      BY DEF Procs, Ages
    <3> QED
      BY <3>2, <3>3, <3>4, <3>5 DEF Answers
  <2>3. ASSUME \/ Resolve \/ Prepare \/ CaptureActive \/ InstallRemote
               \/ ProbeRunning \/ PostStop \/ AwaitStopped \/ Restart \/ AwaitStarted
               \/ StartProcess
        PROVE  exe' = exe
    BY <2>3 DEF Resolve, Prepare, CaptureActive, InstallRemote, ProbeRunning, PostStop,
                AwaitStopped, Restart, AwaitStarted, StartProcess
  <2>4. ASSUME NEW x \in Procs, Companion(x) \/ Stop(x) PROVE exe' = exe
    BY <2>4 DEF Companion, EnsureBridge, StartControl, CloseControl, Shutdown, Stop
  <2> QED
    BY <1>1, <2>1, <2>2, <2>3, <2>4 DEF Next, Run, Helper
<1>2. UpgradeInv /\ [Next]_vars => [Last]_vars
  BY <1>1
<1> QED
  BY <1>2, UpgradeInvInit, UpgradeInvNext, PTL DEF Spec, LocalChangesLast
-----------------------------------------------------------------------------
(***************************************************************************)
(* SemVer: Compare is one total order, and that of Semantic Versioning,    *)
(* for any digits, letters, word and versions.  The library's theorems     *)
(* about induction have operators for parameters; here a set takes the     *)
(* place of the predicate.                                                 *)
(***************************************************************************)
\* The order of the natural numbers, as a relation and without an operator for parameter.
LEMMA NatsAreOrdered ==
  \E R : IsWellFoundedOn(R, Nat) /\ \A x, y \in Nat : <<y, x>> \in R <=> y < x
<1>1. IsWellFoundedOn(OpToRel(<, Nat), Nat)
  BY NatLessThanWellFounded
<1>2. \A x, y \in Nat : <<y, x>> \in OpToRel(<, Nat) <=> y < x
  BY DEF OpToRel
<1> QED
  BY <1>1, <1>2, Zenon

LEMMA LeastNat ==
    ASSUME NEW T, T \subseteq Nat, T # {}
    PROVE  \E x \in T : \A y \in T : x <= y
<1>1. PICK R : IsWellFoundedOn(R, Nat) /\ \A x, y \in Nat : <<y, x>> \in R <=> y < x
  BY NatsAreOrdered
<1>2. \E x \in T : \A y \in T : ~ (<<y, x>> \in R)
  BY <1>1, WFMin, Zenon
<1>3. PICK x \in T : \A y \in T : ~ (<<y, x>> \in R)
  BY <1>2
<1>4. ASSUME NEW y \in T PROVE x <= y
  <2>1. ~ (y < x)
    BY <1>1, <1>3
  <2> QED
    BY <2>1
<1> QED
  BY <1>4

\* Induction, with a set in the place of a predicate.
LEMMA Induction ==
    ASSUME NEW S, 0 \in S, \A n \in Nat : n \in S => n + 1 \in S
    PROVE  Nat \subseteq S
<1> SUFFICES ASSUME Nat \ S # {} PROVE FALSE
  OBVIOUS
<1>1. PICK x \in Nat \ S : \A y \in Nat \ S : x <= y
  BY LeastNat
<1>2. x - 1 \in Nat /\ x - 1 \in S
  BY <1>1
<1> QED
  BY <1>1, <1>2


-----------------------------------------------------------------------------
(***************************************************************************)
(* The order of sequences.  rank[a][b] says how the elements a and b of S  *)
(* compare; Ordered is what that must be like for the sequences to have    *)
(* one order.                                                              *)
(***************************************************************************)
Signs == {-1, 0, 1}

Ordered(rank, S) ==
    /\ rank \in [S -> [S -> Signs]]
    /\ \A a, b \in S : rank[a][b] = 0 - rank[b][a]
    /\ \A a, b \in S : rank[a][b] = 0 <=> a = b
    /\ \A a, b, d \in S : rank[a][b] = -1 /\ rank[b][d] = -1 => rank[a][d] = -1

Differences(rank, s, t) == {k \in DOMAIN s \cap DOMAIN t : rank[s[k]][t[k]] # 0}

\* What a loop finds that returns at the first difference.
First(D) == CHOOSE k \in D : \A j \in D : k <= j

Lexical(rank, s, t) ==
    LET D == Differences(rank, s, t)
    IN  IF D = {} THEN Sign(Len(s), Len(t)) ELSE rank[s[First(D)]][t[First(D)]]

Below(rank, s, t, n) ==
    /\ n <= Len(s) /\ n <= Len(t) /\ \A k \in 1..n : s[k] = t[k]
    /\ \/ n = Len(s) /\ n < Len(t)
       \/ n < Len(s) /\ n < Len(t) /\ rank[s[n + 1]][t[n + 1]] = -1

LEMMA FirstOfDifferences ==
    ASSUME NEW D, D \subseteq Nat, D # {}
    PROVE  First(D) \in D /\ \A j \in D : First(D) <= j
  BY LeastNat DEF First

\* The sequences agree, one begins with the other, or they differ somewhere first.
LEMMA LexicalCases ==
    ASSUME NEW S, NEW rank, Ordered(rank, S), NEW s \in Seq(S), NEW t \in Seq(S)
    PROVE  \/ s = t /\ Lexical(rank, s, t) = 0
           \/ \E n \in Nat : Below(rank, s, t, n) /\ Lexical(rank, s, t) = -1
           \/ \E n \in Nat : Below(rank, t, s, n) /\ Lexical(rank, s, t) = 1
<1> DEFINE D == Differences(rank, s, t)
<1>t. /\ Len(s) \in Nat /\ Len(t) \in Nat /\ DOMAIN s = 1..Len(s) /\ DOMAIN t = 1..Len(t)
      /\ \A k \in 1..Len(s) : s[k] \in S
      /\ \A k \in 1..Len(t) : t[k] \in S
  BY LenProperties, ElementOfSeq
<1>1. CASE D = {}
  <2>1. \A k \in 1..Len(s) : k <= Len(t) => s[k] = t[k]
    BY <1>1, <1>t DEF Differences, Ordered
  <2>2. Lexical(rank, s, t) = Sign(Len(s), Len(t))
    BY <1>1 DEF Lexical
  <2>3. CASE Len(s) = Len(t)
    <3>1. s = t
      BY <1>t, <2>1, <2>3, SeqEqual
    <3> QED
      BY <1>t, <2>2, <2>3, <3>1 DEF Sign
  <2>4. CASE Len(s) < Len(t)
    <3>1. Below(rank, s, t, Len(s))
      BY <1>t, <2>1, <2>4 DEF Below
    <3> QED
      BY <1>t, <2>2, <2>4, <3>1 DEF Sign
  <2>5. CASE Len(t) < Len(s)
    <3>1. Below(rank, t, s, Len(t))
      BY <1>t, <2>1, <2>5 DEF Below
    <3> QED
      BY <1>t, <2>2, <2>5, <3>1 DEF Sign
  <2>6. Len(s) = Len(t) \/ Len(s) < Len(t) \/ Len(t) < Len(s)
    <3>1. Len(s) \in Nat /\ Len(t) \in Nat
      BY LenProperties
    <3> QED
      BY <3>1
  <2> QED
    BY <2>3, <2>4, <2>5, <2>6
<1>2. CASE D # {}
  <2> DEFINE k == First(D)
  <2>1. D \subseteq Nat
    BY <1>t DEF Differences
  <2>2. k \in D /\ \A j \in D : k <= j
    BY <1>2, <2>1, FirstOfDifferences
  <2>3. Lexical(rank, s, t) = rank[s[k]][t[k]]
    BY <1>2 DEF Lexical
  <2> HIDE DEF k
  <2>4. k \in 1..Len(s) /\ k \in 1..Len(t) /\ rank[s[k]][t[k]] # 0
    BY <1>t, <2>2 DEF Differences
  <2>5. \A j \in 1..(k - 1) : s[j] = t[j]
    <3> SUFFICES ASSUME NEW j \in 1..(k - 1) PROVE s[j] = t[j]
      OBVIOUS
    <3>1. j \in 1..Len(s) /\ j \in 1..Len(t) /\ ~(k <= j)
      BY <1>t, <2>4
    <3>2. rank[s[j]][t[j]] = 0
      BY <1>t, <2>2, <3>1 DEF Differences
    <3> QED
      BY <1>t, <3>1, <3>2 DEF Ordered
  <2>6. rank[s[k]][t[k]] \in Signs /\ rank[s[k]][t[k]] = 0 - rank[t[k]][s[k]] /\ rank[t[k]][s[k]] \in Signs
    BY <1>t, <2>4 DEF Ordered
  <2>7. k - 1 \in Nat /\ (k - 1) + 1 = k /\ k - 1 < Len(s) /\ k - 1 < Len(t)
    BY <1>t, <2>4
  <2>8. CASE rank[s[k]][t[k]] = -1
    <3>1. Below(rank, s, t, k - 1)
      BY <1>t, <2>5, <2>7, <2>8 DEF Below
    <3> QED
      BY <2>3, <2>7, <2>8, <3>1
  <2>9. CASE rank[s[k]][t[k]] = 1
    <3>1. rank[t[k]][s[k]] = -1
      BY <2>6, <2>9 DEF Signs
    <3>2. Below(rank, t, s, k - 1)
      BY <1>t, <2>5, <2>7, <3>1 DEF Below
    <3> QED
      BY <2>3, <2>7, <2>9, <3>2
  <2> QED
    BY <2>4, <2>6, <2>8, <2>9 DEF Signs
<1> QED
  BY <1>1, <1>2

LEMMA BelowIsStrict ==
    ASSUME NEW S, NEW rank, Ordered(rank, S), NEW s \in Seq(S), NEW t \in Seq(S),
           NEW n \in Nat, Below(rank, s, t, n)
    PROVE  s # t /\ \A m \in Nat : ~Below(rank, t, s, m)
<1>t. /\ Len(s) \in Nat /\ Len(t) \in Nat
      /\ \A k \in 1..Len(s) : s[k] \in S
      /\ \A k \in 1..Len(t) : t[k] \in S
  BY LenProperties, ElementOfSeq
<1>1. \A a, b \in S : rank[a][b] = -1 => a # b /\ rank[b][a] # -1
  BY DEF Ordered, Signs
<1>2. s # t
  BY <1>t, <1>1 DEF Below
<1>3. ASSUME NEW m \in Nat, Below(rank, t, s, m) PROVE FALSE
  <2>1. CASE m = n
    BY <1>t, <1>1, <1>3, <2>1 DEF Below
  <2>2. CASE m < n
    <3>1. m + 1 \in 1..n /\ m < Len(s) /\ m < Len(t) /\ s[m + 1] = t[m + 1] /\ t[m + 1] \in S
      BY <1>t, <2>2 DEF Below
    <3> QED
      BY <1>t, <1>1, <1>3, <3>1 DEF Below
  <2>3. CASE n < m
    <3>1. n + 1 \in 1..m /\ n < Len(s) /\ n < Len(t) /\ s[n + 1] = t[n + 1] /\ t[n + 1] \in S
      BY <1>t, <1>3, <2>3 DEF Below
    <3> QED
      BY <1>t, <1>1, <3>1 DEF Below
  <2> QED
    BY <2>1, <2>2, <2>3
<1> QED
  BY <1>2, <1>3

LEMMA BelowIsTransitive ==
    ASSUME NEW S, NEW rank, Ordered(rank, S),
           NEW s \in Seq(S), NEW t \in Seq(S), NEW u \in Seq(S),
           NEW m \in Nat, Below(rank, s, t, m), NEW n \in Nat, Below(rank, t, u, n)
    PROVE  \E k \in Nat : Below(rank, s, u, k)
<1>t. /\ Len(s) \in Nat /\ Len(t) \in Nat /\ Len(u) \in Nat
      /\ \A k \in 1..Len(s) : s[k] \in S
      /\ \A k \in 1..Len(t) : t[k] \in S
      /\ \A k \in 1..Len(u) : u[k] \in S
  BY LenProperties, ElementOfSeq
<1>1. CASE m < n
  <2>1. \A k \in 1..m : k \in 1..n
    BY <1>1
  <2>2. m + 1 \in 1..n /\ m < Len(t) /\ m < Len(u) /\ t[m + 1] = u[m + 1]
    BY <1>t, <1>1 DEF Below
  <2>3. Below(rank, s, u, m)
    BY <1>t, <2>1, <2>2 DEF Below
  <2> QED
    BY <2>3
<1>2. CASE n < m
  <2>1. \A k \in 1..n : k \in 1..m
    BY <1>2
  <2>2. n + 1 \in 1..m /\ n < Len(t) /\ n < Len(s) /\ s[n + 1] = t[n + 1]
    BY <1>t, <1>2 DEF Below
  <2>3. Below(rank, s, u, n)
    BY <1>t, <2>1, <2>2 DEF Below
  <2> QED
    BY <2>3
<1>3. CASE m = n
  <2>1. \A k \in 1..n : s[k] = u[k]
    BY <1>t, <1>3 DEF Below
  <2>2. n <= Len(s) /\ n < Len(t) /\ n < Len(u)
    BY <1>t, <1>3 DEF Below
  <2>3. n < Len(s) => rank[s[n + 1]][t[n + 1]] = -1 /\ rank[t[n + 1]][u[n + 1]] = -1
    BY <1>t, <1>3, <2>2 DEF Below
  <2>4. n < Len(s) => rank[s[n + 1]][u[n + 1]] = -1
    <3>1. SUFFICES ASSUME n < Len(s) PROVE rank[s[n + 1]][u[n + 1]] = -1
      OBVIOUS
    <3>2. s[n + 1] \in S /\ t[n + 1] \in S /\ u[n + 1] \in S
      BY <1>t, <2>2, <3>1
    <3> QED
      BY <2>3, <3>1, <3>2 DEF Ordered
  <2>5. Below(rank, s, u, n)
    BY <1>t, <2>1, <2>2, <2>4 DEF Below
  <2> QED
    BY <2>5
<1> QED
  BY <1>1, <1>2, <1>3

LEMMA LexicalIsBelow ==
    ASSUME NEW S, NEW rank, Ordered(rank, S), NEW s \in Seq(S), NEW t \in Seq(S)
    PROVE  /\ Lexical(rank, s, t) \in Signs
           /\ Lexical(rank, s, t) = 0 <=> s = t
           /\ Lexical(rank, s, t) = -1 <=> \E n \in Nat : Below(rank, s, t, n)
           /\ Lexical(rank, s, t) = 1 <=> \E n \in Nat : Below(rank, t, s, n)
<1>1. \A n \in Nat : Below(rank, s, t, n) => s # t /\ \A m \in Nat : ~Below(rank, t, s, m)
  BY BelowIsStrict
<1>2. \A n \in Nat : Below(rank, t, s, n) => s # t /\ \A m \in Nat : ~Below(rank, s, t, m)
  BY BelowIsStrict
<1> QED
  BY <1>1, <1>2, LexicalCases DEF Signs

\* The order of the elements gives one of the sequences.
LEMMA SequencesAreOrdered ==
    ASSUME NEW S, NEW rank, Ordered(rank, S)
    PROVE  Ordered([s \in Seq(S) |-> [t \in Seq(S) |-> Lexical(rank, s, t)]], Seq(S))
<1>1. \A s, t \in Seq(S) : Lexical(rank, s, t) \in Signs
  BY LexicalIsBelow
<1>2. \A s, t \in Seq(S) : Lexical(rank, s, t) = 0 <=> s = t
  BY LexicalIsBelow
<1>3. ASSUME NEW s \in Seq(S), NEW t \in Seq(S)
      PROVE  Lexical(rank, s, t) = 0 - Lexical(rank, t, s)
  <2>1. /\ Lexical(rank, s, t) = 0 <=> Lexical(rank, t, s) = 0
        /\ Lexical(rank, s, t) = 1 <=> Lexical(rank, t, s) = -1
        /\ Lexical(rank, s, t) = -1 <=> Lexical(rank, t, s) = 1
    BY LexicalIsBelow
  <2> QED
    BY <1>1, <2>1 DEF Signs
<1>4. ASSUME NEW s \in Seq(S), NEW t \in Seq(S), NEW u \in Seq(S),
             Lexical(rank, s, t) = -1, Lexical(rank, t, u) = -1
      PROVE  Lexical(rank, s, u) = -1
  <2>1. PICK m \in Nat : Below(rank, s, t, m)
    BY <1>4, LexicalIsBelow
  <2>2. PICK n \in Nat : Below(rank, t, u, n)
    BY <1>4, LexicalIsBelow
  <2>3. \E k \in Nat : Below(rank, s, u, k)
    BY <2>1, <2>2, BelowIsTransitive
  <2> QED
    BY <2>3, LexicalIsBelow
<1> QED
  BY <1>1, <1>2, <1>3, <1>4 DEF Ordered
-----------------------------------------------------------------------------
(***************************************************************************)
(* The value of digits.                                                    *)
(***************************************************************************)

\* f lists the values of what s begins with, up to its first n digits.
Adds(f, s, n) ==
    /\ f \in [0..n -> Nat] /\ f[0] = 0
    /\ \A k \in 1..n : f[k] = f[k - 1] * Base + (s[k] - 1)

LEMMA NextDigit ==
    ASSUME NEW a \in Nat, NEW d \in Digits
    PROVE  d - 1 \in 0..(Base - 1) /\ a * Base \in Nat /\ a * Base + (d - 1) \in Nat
  BY CountsAssumption DEF Digits

LEMMA SomeAdds ==
    ASSUME NEW s \in Seq(Digits)
    PROVE  \E f : Adds(f, s, Len(s))
<1> DEFINE S == {n \in Nat : n <= Len(s) => \E f : Adds(f, s, n)}
<1>t. Len(s) \in Nat /\ \A k \in 1..Len(s) : s[k] \in Digits
  BY LenProperties, ElementOfSeq
<1>1. 0 \in S
  <2>1. Adds([k \in 0..0 |-> 0], s, 0)
    BY DEF Adds
  <2> QED
    BY <2>1
<1>2. ASSUME NEW n \in Nat, n \in S PROVE n + 1 \in S
  <2> SUFFICES ASSUME n + 1 <= Len(s) PROVE \E f : Adds(f, s, n + 1)
    OBVIOUS
  <2>1. PICK f : Adds(f, s, n)
    BY <1>2, <1>t
  <2> DEFINE next == f[n] * Base + (s[n + 1] - 1)
             h == [k \in 0..(n + 1) |-> IF k = n + 1 THEN next ELSE f[k]]
  <2>2. next \in Nat
    <3>1. f[n] \in Nat /\ s[n + 1] \in Digits
      BY <1>t, <2>1 DEF Adds
    <3> QED
      BY <3>1, NextDigit
  <2> HIDE DEF next
  <2>3. h \in [0..(n + 1) -> Nat] /\ h[0] = 0 /\ h[n + 1] = next /\ \A k \in 0..n : h[k] = f[k]
    BY <2>1, <2>2 DEF Adds
  <2>4. \A k \in 1..(n + 1) : h[k] = h[k - 1] * Base + (s[k] - 1)
    <3> HIDE DEF h
    <3>1. ASSUME NEW k \in 1..n PROVE h[k] = h[k - 1] * Base + (s[k] - 1)
      <4>1. k \in 0..n /\ k - 1 \in 0..n
        OBVIOUS
      <4>2. f[k] = f[k - 1] * Base + (s[k] - 1)
        BY <2>1 DEF Adds
      <4> QED
        BY <2>3, <4>1, <4>2
    <3>2. h[n + 1] = h[n] * Base + (s[n + 1] - 1) /\ (n + 1) - 1 = n
      BY <2>3 DEF next
    <3> QED
      BY <3>1, <3>2
  <2>5. Adds(h, s, n + 1)
    BY <2>3, <2>4 DEF Adds
  <2> QED
    BY <2>5
<1> HIDE DEF S
<1>3. Len(s) \in S
  BY <1>1, <1>2, <1>t, Induction
<1> QED
  BY <1>t, <1>3 DEF S

LEMMA ValueAdds ==
    ASSUME NEW s \in Seq(Digits)
    PROVE  \E f : Adds(f, s, Len(s)) /\ Value(s) = f[Len(s)]
<1>t. Len(s) \in Nat
  BY LenProperties
<1>1. PICK g : Adds(g, s, Len(s))
  BY SomeAdds
<1> DEFINE F == CHOOSE f : f = [k \in 0..Len(s) |-> IF k = 0 THEN 0 ELSE f[k - 1] * Base + (s[k] - 1)]
<1>2. g = [k \in 0..Len(s) |-> IF k = 0 THEN 0 ELSE g[k - 1] * Base + (s[k] - 1)]
  BY <1>1 DEF Adds
<1>3. F = [k \in 0..Len(s) |-> IF k = 0 THEN 0 ELSE F[k - 1] * Base + (s[k] - 1)]
  BY <1>2
<1>4. Value(s) = F[Len(s)]
  BY DEF Value
<1> HIDE DEF F
<1> DEFINE S == {n \in Nat : n <= Len(s) => F[n] = g[n]}
<1>5. 0 \in S
  BY <1>1, <1>3, <1>t DEF Adds
<1>6. ASSUME NEW n \in Nat, n \in S PROVE n + 1 \in S
  <2> SUFFICES ASSUME n + 1 <= Len(s) PROVE F[n + 1] = g[n + 1]
    OBVIOUS
  <2>1. F[n + 1] = F[n] * Base + (s[n + 1] - 1)
    BY <1>3, <1>t
  <2>2. g[n + 1] = g[n] * Base + (s[n + 1] - 1)
    BY <1>1, <1>t DEF Adds
  <2> QED
    BY <1>6, <1>t, <2>1, <2>2
<1> HIDE DEF S
<1>7. Len(s) \in S
  BY <1>5, <1>6, <1>t, Induction
<1> QED
  BY <1>1, <1>4, <1>7, <1>t DEF S

LEMMA Quotients ==
    ASSUME NEW a \in Nat, NEW b \in Nat, NEW d \in 0..(Base - 1), NEW e \in 0..(Base - 1),
           a * Base + d = b * Base + e
    PROVE  a = b /\ d = e
<1>1. Base \in Nat /\ Base > 0
  BY CountsAssumption
<1>2. ASSUME NEW x \in Nat, NEW y \in Nat, x < y PROVE y * Base >= x * Base + Base
  <2>1. y = (x + 1) + (y - x - 1) /\ y - x - 1 \in Nat
    BY <1>2
  <2>2. (y - x - 1) * Base >= 0
    BY <1>1, <2>1
  <2> QED
    BY <1>1, <2>1, <2>2
<1>3. a * Base \in Nat /\ b * Base \in Nat
  BY <1>1
<1>4. ~(a < b) /\ ~(b < a)
  BY <1>1, <1>2, <1>3
<1> QED
  BY <1>3, <1>4

\* Two identifiers of digits without a leading zero, of equal value, are equal: their
\* values agree digit by digit from the end.
LEMMA EqualFromTheEnd ==
    ASSUME NEW s \in Seq(Digits), NEW t \in Seq(Digits), Len(s) <= Len(t),
           NEW f, Adds(f, s, Len(s)), NEW g, Adds(g, t, Len(t)), f[Len(s)] = g[Len(t)]
    PROVE  /\ \A i \in 0..Len(s) : f[Len(s) - i] = g[Len(t) - i]
           /\ \A i \in 0..(Len(s) - 1) : s[Len(s) - i] = t[Len(t) - i]
<1>t. /\ Len(s) \in Nat /\ Len(t) \in Nat
      /\ \A k \in 1..Len(s) : s[k] \in Digits
      /\ \A k \in 1..Len(t) : t[k] \in Digits
  BY LenProperties, ElementOfSeq
<1>1. ASSUME NEW i \in Nat, i < Len(s), f[Len(s) - i] = g[Len(t) - i]
      PROVE  f[Len(s) - (i + 1)] = g[Len(t) - (i + 1)] /\ s[Len(s) - i] = t[Len(t) - i]
  <2> DEFINE m == Len(s) - i
             n == Len(t) - i
  <2>1. m \in 1..Len(s) /\ n \in 1..Len(t)
    BY <1>1, <1>t
  <2>2. f[m] = f[m - 1] * Base + (s[m] - 1) /\ g[n] = g[n - 1] * Base + (t[n] - 1)
    BY <2>1 DEF Adds
  <2>3. f[m - 1] \in Nat /\ g[n - 1] \in Nat /\ s[m] \in Digits /\ t[n] \in Digits
    <3>1. m - 1 \in 0..Len(s) /\ n - 1 \in 0..Len(t)
      BY <1>t, <2>1
    <3> HIDE DEF m, n
    <3> QED
      BY <1>t, <2>1, <3>1 DEF Adds
  <2>4. s[m] - 1 \in 0..(Base - 1) /\ t[n] - 1 \in 0..(Base - 1)
    BY <2>3, NextDigit
  <2>5. f[m - 1] = g[n - 1] /\ s[m] - 1 = t[n] - 1
    <3>1. f[m] = g[n]
      BY <1>1
    <3> HIDE DEF m, n
    <3>2. f[m - 1] * Base + (s[m] - 1) = g[n - 1] * Base + (t[n] - 1)
      BY <2>2, <3>1
    <3> QED
      BY <2>3, <2>4, <3>2, Quotients
  <2>6. m - 1 = Len(s) - (i + 1) /\ n - 1 = Len(t) - (i + 1) /\ s[m] \in Int /\ t[n] \in Int
    BY <1>t, <2>3, CountsAssumption DEF Digits
  <2> HIDE DEF m, n
  <2>7. s[m] = t[n]
    BY <2>5, <2>6
  <2> QED
    BY <2>5, <2>6, <2>7 DEF m, n
<1> DEFINE S == {i \in Nat : i <= Len(s) => f[Len(s) - i] = g[Len(t) - i]}
<1>2. 0 \in S
  BY <1>t
<1>3. ASSUME NEW i \in Nat, i \in S PROVE i + 1 \in S
  BY <1>1, <1>3, <1>t
<1> HIDE DEF S
<1>4. Nat \subseteq S
  BY <1>2, <1>3, Induction
<1>5. \A i \in 0..Len(s) : f[Len(s) - i] = g[Len(t) - i]
  BY <1>4, <1>t DEF S
<1>6. ASSUME NEW i \in 0..(Len(s) - 1) PROVE s[Len(s) - i] = t[Len(t) - i]
  <2>1. i \in Nat /\ i < Len(s) /\ i \in 0..Len(s)
    BY <1>t
  <2> QED
    BY <1>1, <1>5, <2>1
<1> QED
  BY <1>5, <1>6

LEMMA ValuesArePositive ==
    ASSUME NEW t \in Seq(Digits), Len(t) >= 1, t[1] # 1, NEW g, Adds(g, t, Len(t))
    PROVE  \A k \in 1..Len(t) : g[k] > 0
<1>t. Len(t) \in Nat /\ \A k \in 1..Len(t) : t[k] \in Digits
  BY LenProperties, ElementOfSeq
<1>b. Base \in Nat /\ Base >= 1
  BY CountsAssumption
<1> DEFINE S == {k \in Nat : k + 1 <= Len(t) => g[k + 1] > 0}
<1>1. 0 \in S
  <2>1. g[1] = 0 * Base + (t[1] - 1) /\ t[1] \in Digits
    BY <1>t DEF Adds
  <2>2. t[1] - 1 > 0
    BY <2>1, CountsAssumption DEF Digits
  <2>3. g[1] = t[1] - 1
    BY <1>b, <2>1, CountsAssumption DEF Digits
  <2>4. 0 + 1 = 1
    OBVIOUS
  <2> QED
    BY <2>2, <2>3, <2>4
<1>2. ASSUME NEW k \in Nat, k \in S PROVE k + 1 \in S
  <2> SUFFICES ASSUME (k + 1) + 1 <= Len(t) PROVE g[(k + 1) + 1] > 0
    OBVIOUS
  <2>1. g[(k + 1) + 1] = g[k + 1] * Base + (t[(k + 1) + 1] - 1) /\ g[k + 1] \in Nat
    <3>1. (k + 1) + 1 \in 1..Len(t) /\ ((k + 1) + 1) - 1 = k + 1 /\ k + 1 \in 0..Len(t)
      BY <1>t
    <3> QED
      BY <3>1 DEF Adds
  <2>2. t[(k + 1) + 1] - 1 \in Nat
    <3>1. t[(k + 1) + 1] \in Digits
      BY <1>t
    <3> QED
      BY <3>1, CountsAssumption DEF Digits
  <2>3. g[k + 1] > 0
    BY <1>2, <1>t
  <2>4. g[k + 1] * Base > 0 /\ g[k + 1] * Base \in Nat
    BY <1>b, <2>1, <2>3
  <2> QED
    BY <2>1, <2>2, <2>4
<1> HIDE DEF S
<1>3. Nat \subseteq S
  BY <1>1, <1>2, Induction
<1>4. ASSUME NEW k \in 1..Len(t) PROVE g[k] > 0
  <2>1. k - 1 \in S /\ (k - 1) + 1 = k
    BY <1>3, <1>t
  <2> QED
    BY <2>1, <1>t DEF S
<1> QED
  BY <1>4

Plain(s) == s \in Seq(Digits) /\ s # <<>> /\ (Len(s) > 1 => s[1] # 1)

LEMMA ShorterIsSame ==
    ASSUME NEW s \in Seq(Digits), NEW t \in Seq(Digits), Plain(s), Plain(t),
           Len(s) <= Len(t), Value(s) = Value(t)
    PROVE  s = t
<1>t. Len(s) \in Nat /\ Len(t) \in Nat /\ Len(s) >= 1
  BY LenProperties, EmptySeq DEF Plain
<1>1. PICK f : Adds(f, s, Len(s)) /\ Value(s) = f[Len(s)]
  BY <1>t, ValueAdds
<1>2. PICK g : Adds(g, t, Len(t)) /\ Value(t) = g[Len(t)]
  BY <1>t, ValueAdds
<1>3. /\ \A i \in 0..Len(s) : f[Len(s) - i] = g[Len(t) - i]
      /\ \A i \in 0..(Len(s) - 1) : s[Len(s) - i] = t[Len(t) - i]
  <2>1. f[Len(s)] = g[Len(t)] /\ Adds(f, s, Len(s)) /\ Adds(g, t, Len(t))
    BY <1>1, <1>2
  <2> QED
    BY <2>1, EqualFromTheEnd
<1>4. Len(s) = Len(t)
  <2> SUFFICES ASSUME Len(s) < Len(t) PROVE FALSE
    BY <1>t
  <2>1. g[Len(t) - Len(s)] = 0
    BY <1>1, <1>3, <1>t DEF Adds
  <2>2. t[1] # 1 /\ Len(t) - Len(s) \in 1..Len(t)
    BY <1>t DEF Plain
  <2>3. g[Len(t) - Len(s)] > 0
    BY <1>2, <1>t, <2>2, ValuesArePositive
  <2> QED
    BY <2>1, <2>3
<1>5. ASSUME NEW k \in 1..Len(s) PROVE s[k] = t[k]
  <2>1. Len(s) - k \in 0..(Len(s) - 1) /\ Len(s) - (Len(s) - k) = k
    BY <1>t
  <2> QED
    BY <1>3, <1>4, <2>1
<1> QED
  BY <1>4, <1>5, <1>t, SeqEqual

\* numericIdentifier tells different numbers apart.
LEMMA NumbersHaveValues ==
    /\ \A s : Plain(s) => Value(s) \in Nat
    /\ \A s, t : Plain(s) /\ Plain(t) /\ Value(s) = Value(t) => s = t
<1>1. ASSUME NEW s, Plain(s) PROVE Value(s) \in Nat
  <2>1. s \in Seq(Digits) /\ Len(s) \in Nat
    BY <1>1, LenProperties DEF Plain
  <2>2. PICK f : Adds(f, s, Len(s)) /\ Value(s) = f[Len(s)]
    BY <2>1, ValueAdds
  <2> QED
    BY <2>1, <2>2 DEF Adds
<1>2. ASSUME NEW s, NEW t, Plain(s), Plain(t), Value(s) = Value(t) PROVE s = t
  <2>1. s \in Seq(Digits) /\ t \in Seq(Digits) /\ Len(s) \in Nat /\ Len(t) \in Nat
    BY <1>2, LenProperties DEF Plain
  <2>2. CASE Len(s) <= Len(t)
    BY <1>2, <2>1, <2>2, ShorterIsSame
  <2>3. CASE Len(t) <= Len(s)
    BY <1>2, <2>1, <2>3, ShorterIsSame
  <2> QED
    BY <2>1, <2>2, <2>3
<1> QED
  BY <1>1, <1>2
-----------------------------------------------------------------------------
(***************************************************************************)
(* The versions.                                                           *)
(***************************************************************************)
Identifier == Seq(Characters) \ {<<>>}
PreRelease == Seq(Identifier)
Core       == [1..3 -> 0..MaxUint]
Version    == [core : Core, pre : PreRelease]

SignRank(S)    == [a \in S |-> [b \in S |-> Sign(a, b)]]
IdentifierRank == [a \in Identifier |-> [b \in Identifier |-> CompareIdentifiers(a, b)]]
PreRank        == [p \in PreRelease |-> [q \in PreRelease |-> ComparePre(p, q)]]
VersionRank    == [v \in Version |-> [w \in Version |-> Compare(v, w)]]

LEMMA SignsAreOrdered == ASSUME NEW S, S \subseteq Int PROVE Ordered(SignRank(S), S)
<1>1. \A a, b \in S : SignRank(S)[a][b] = Sign(a, b)
  BY DEF SignRank
<1>2. \A a, b \in S : Sign(a, b) \in Signs
  BY DEF Sign, Signs
<1>3. SignRank(S) \in [S -> [S -> Signs]]
  BY <1>2 DEF SignRank
<1>4. \A a, b \in S : Sign(a, b) = 0 - Sign(b, a) /\ (Sign(a, b) = 0 <=> a = b)
  BY DEF Sign
<1>5. \A a, b, d \in S : Sign(a, b) = -1 /\ Sign(b, d) = -1 => Sign(a, d) = -1
  BY DEF Sign
<1> QED
  BY <1>1, <1>3, <1>4, <1>5 DEF Ordered

LEMMA FirstIsLexical ==
    ASSUME NEW S, S \subseteq Int, NEW s \in Seq(S), NEW t \in Seq(S)
    PROVE  LET k == FirstDifference(s, t)
           IN  Lexical(SignRank(S), s, t) = IF k = 0 THEN Sign(Len(s), Len(t)) ELSE Sign(s[k], t[k])
<1> DEFINE D == {k \in DOMAIN s \cap DOMAIN t : s[k] # t[k]}
           first == First(D)
<1>t. /\ Len(s) \in Nat /\ Len(t) \in Nat /\ DOMAIN s = 1..Len(s) /\ DOMAIN t = 1..Len(t)
      /\ \A k \in 1..Len(s) : s[k] \in S
      /\ \A k \in 1..Len(t) : t[k] \in S
  BY LenProperties, ElementOfSeq
<1>1. \A a, b \in S : SignRank(S)[a][b] = Sign(a, b) /\ (SignRank(S)[a][b] # 0 <=> a # b)
  BY DEF SignRank, Sign
<1>2. D = Differences(SignRank(S), s, t)
  BY <1>t, <1>1 DEF Differences
<1>3. D \subseteq Nat \ {0}
  BY <1>t
<1>4. FirstDifference(s, t) = IF D = {} THEN 0 ELSE first
  BY DEF FirstDifference, First
<1> HIDE DEF D
<1>5. Lexical(SignRank(S), s, t) = IF D = {} THEN Sign(Len(s), Len(t)) ELSE SignRank(S)[s[first]][t[first]]
  BY <1>2 DEF Lexical
<1>6. CASE D = {}
  BY <1>4, <1>5, <1>6
<1>7. CASE D # {}
  <2>1. first \in D
    BY <1>3, <1>7, FirstOfDifferences
  <2> HIDE DEF first
  <2>2. first # 0 /\ s[first] \in S /\ t[first] \in S
    BY <1>3, <1>t, <2>1 DEF D
  <2> QED
    BY <1>1, <1>4, <1>5, <1>7, <2>2
<1> QED
  BY <1>6, <1>7

LEMMA TextIsOrdered ==
    LET rank == [s \in Seq(Characters) |-> [t \in Seq(Characters) |-> TextCompare(s, t)]]
    IN  Ordered(rank, Seq(Characters))
<1>1. Characters \subseteq Int
  BY CountsAssumption DEF Characters
<1>2. \A s, t \in Seq(Characters) : TextCompare(s, t) = Lexical(SignRank(Characters), s, t)
  BY <1>1, FirstIsLexical DEF TextCompare
<1>3. Ordered([s \in Seq(Characters) |-> [t \in Seq(Characters) |-> Lexical(SignRank(Characters), s, t)]],
              Seq(Characters))
  BY <1>1, SignsAreOrdered, SequencesAreOrdered
<1> QED
  BY <1>2, <1>3

LEMMA NumericIsPlain == \A s \in Identifier : IsNumeric(s) => Plain(s)
<1> SUFFICES ASSUME NEW s \in Identifier, IsNumeric(s) PROVE Plain(s)
  OBVIOUS
<1>1. s \in Seq(Characters) /\ s # <<>>
  BY DEF Identifier
<1>2. Len(s) \in Nat /\ s \in [1..Len(s) -> Characters] /\ DOMAIN s = 1..Len(s)
  BY <1>1, LenProperties
<1>3. s \in [1..Len(s) -> Digits]
  BY <1>2 DEF IsNumeric, IsDigits
<1>4. s \in Seq(Digits)
  BY <1>2, <1>3, SeqDef
<1> QED
  BY <1>1, <1>4 DEF Plain, IsNumeric

LEMMA IdentifiersAreOrdered == Ordered(IdentifierRank, Identifier)
<1>1. \A a, b \in Identifier : IdentifierRank[a][b] = CompareIdentifiers(a, b)
  BY DEF IdentifierRank
<1>2. \A a \in Identifier : IsNumeric(a) => Value(a) \in Int
  BY NumericIsPlain, NumbersHaveValues
<1>3. \A a, b \in Identifier : IsNumeric(a) /\ IsNumeric(b) /\ Value(a) = Value(b) => a = b
  BY NumericIsPlain, NumbersHaveValues
<1> DEFINE rank == [s \in Seq(Characters) |-> [t \in Seq(Characters) |-> TextCompare(s, t)]]
<1>4. Identifier \subseteq Seq(Characters)
  BY DEF Identifier
<1>5. Ordered(rank, Seq(Characters))
  BY TextIsOrdered
<1>6. \A a, b \in Identifier : rank[a][b] = TextCompare(a, b)
  BY <1>4
<1> HIDE DEF rank
<1>7. /\ \A a, b \in Identifier : TextCompare(a, b) \in Signs /\ TextCompare(a, b) = 0 - TextCompare(b, a)
      /\ \A a, b \in Identifier : TextCompare(a, b) = 0 <=> a = b
      /\ \A a, b, d \in Identifier : TextCompare(a, b) = -1 /\ TextCompare(b, d) = -1 => TextCompare(a, d) = -1
  BY <1>4, <1>5, <1>6 DEF Ordered
<1>8. \A a, b \in Identifier : CompareIdentifiers(a, b) \in Signs
  BY <1>7 DEF CompareIdentifiers, Sign, Signs
<1>9. ASSUME NEW a \in Identifier, NEW b \in Identifier
      PROVE  /\ CompareIdentifiers(a, b) = 0 - CompareIdentifiers(b, a)
             /\ CompareIdentifiers(a, b) = 0 <=> a = b
  <2>1. CASE IsNumeric(a) /\ IsNumeric(b)
    BY <1>2, <1>3, <2>1 DEF CompareIdentifiers, Sign
  <2>2. CASE ~IsNumeric(a) /\ ~IsNumeric(b)
    BY <1>7, <2>2 DEF CompareIdentifiers
  <2>3. CASE IsNumeric(a) /\ ~IsNumeric(b)
    BY <2>3 DEF CompareIdentifiers
  <2>4. CASE ~IsNumeric(a) /\ IsNumeric(b)
    BY <2>4 DEF CompareIdentifiers
  <2> QED
    BY <2>1, <2>2, <2>3, <2>4
<1>10. ASSUME NEW a \in Identifier, NEW b \in Identifier, NEW d \in Identifier,
              CompareIdentifiers(a, b) = -1, CompareIdentifiers(b, d) = -1
       PROVE  CompareIdentifiers(a, d) = -1
  <2>1. CASE IsNumeric(a) /\ IsNumeric(b) /\ IsNumeric(d)
    <3>1. Value(a) < Value(b) /\ Value(b) < Value(d)
      BY <1>2, <1>10, <2>1 DEF CompareIdentifiers, Sign
    <3> QED
      BY <1>2, <2>1, <3>1 DEF CompareIdentifiers, Sign
  <2>2. CASE IsNumeric(a) /\ ~IsNumeric(d)
    BY <2>2 DEF CompareIdentifiers
  <2>3. CASE ~IsNumeric(a)
    <3>1. ~IsNumeric(b)
      BY <1>10, <2>3 DEF CompareIdentifiers
    <3>2. ~IsNumeric(d)
      BY <1>10, <3>1 DEF CompareIdentifiers
    <3> QED
      BY <1>7, <1>10, <2>3, <3>1, <3>2 DEF CompareIdentifiers
  <2>4. CASE ~IsNumeric(b) /\ IsNumeric(d)
    BY <1>10, <2>4 DEF CompareIdentifiers
  <2> QED
    BY <2>1, <2>2, <2>3, <2>4
<1>11. IdentifierRank \in [Identifier -> [Identifier -> Signs]]
  BY <1>8 DEF IdentifierRank
<1> QED
  BY <1>1, <1>9, <1>10, <1>11 DEF Ordered

LEMMA PreIsLexical ==
    ASSUME NEW p \in PreRelease, NEW q \in PreRelease, p # <<>>, q # <<>>
    PROVE  ComparePre(p, q) = Lexical(IdentifierRank, p, q)
<1> DEFINE D == {k \in DOMAIN p \cap DOMAIN q : CompareIdentifiers(p[k], q[k]) # 0}
           first == First(D)
<1>t. /\ Len(p) \in Nat /\ Len(q) \in Nat /\ DOMAIN p = 1..Len(p) /\ DOMAIN q = 1..Len(q)
      /\ \A k \in 1..Len(p) : p[k] \in Identifier
      /\ \A k \in 1..Len(q) : q[k] \in Identifier
  BY LenProperties, ElementOfSeq DEF PreRelease
<1>1. \A a, b \in Identifier : IdentifierRank[a][b] = CompareIdentifiers(a, b)
  BY DEF IdentifierRank
<1>2. D = Differences(IdentifierRank, p, q)
  BY <1>t, <1>1 DEF Differences
<1>3. ComparePre(p, q) = IF D = {} THEN Sign(Len(p), Len(q)) ELSE CompareIdentifiers(p[first], q[first])
  BY DEF ComparePre, First
<1>7. D \subseteq Nat
  BY <1>t
<1>8. \A k \in D : p[k] \in Identifier /\ q[k] \in Identifier
  BY <1>t
<1> HIDE DEF D
<1>4. Lexical(IdentifierRank, p, q) =
          IF D = {} THEN Sign(Len(p), Len(q)) ELSE IdentifierRank[p[first]][q[first]]
  BY <1>2 DEF Lexical
<1>5. CASE D = {}
  BY <1>3, <1>4, <1>5
<1>6. CASE D # {}
  <2>1. first \in D
    BY <1>6, <1>7, FirstOfDifferences
  <2> HIDE DEF first
  <2>3. p[first] \in Identifier /\ q[first] \in Identifier
    BY <1>8, <2>1
  <2> QED
    BY <1>1, <1>3, <1>4, <1>6, <2>3
<1> QED
  BY <1>5, <1>6

LEMMA PreReleasesAreOrdered == Ordered(PreRank, PreRelease)
<1> DEFINE L(p, q) == Lexical(IdentifierRank, p, q)
<1>1. \A p, q \in PreRelease : PreRank[p][q] = ComparePre(p, q)
  BY DEF PreRank
<1>2. \A p, q \in PreRelease : p # <<>> /\ q # <<>> => ComparePre(p, q) = L(p, q)
  BY PreIsLexical
<1>3. \A p \in PreRelease : Len(p) \in Nat /\ (Len(p) = 0 <=> p = <<>>) /\ Len(<<>>) = 0
  BY LenProperties, EmptySeq DEF PreRelease
<1>4. \A p, q \in PreRelease : p = <<>> \/ q = <<>> => ComparePre(p, q) = Sign(Len(q), Len(p))
  BY DEF ComparePre
<1>5. /\ \A p \in PreRelease : p # <<>> => ComparePre(<<>>, p) = 1 /\ ComparePre(p, <<>>) = -1
      /\ ComparePre(<<>>, <<>>) = 0
  <2>1. <<>> \in PreRelease
    BY EmptySeq DEF PreRelease
  <2> QED
    BY <1>3, <1>4, <2>1 DEF Sign
<1> DEFINE rank == [p \in PreRelease |-> [q \in PreRelease |-> L(p, q)]]
<1>6. Ordered(rank, PreRelease)
  BY IdentifiersAreOrdered, SequencesAreOrdered DEF PreRelease
<1>7. \A p, q \in PreRelease : rank[p][q] = L(p, q)
  OBVIOUS
<1> HIDE DEF rank, L
<1>8. /\ \A p, q \in PreRelease : L(p, q) \in Signs /\ L(p, q) = 0 - L(q, p)
      /\ \A p, q \in PreRelease : L(p, q) = 0 <=> p = q
      /\ \A p, q, r \in PreRelease : L(p, q) = -1 /\ L(q, r) = -1 => L(p, r) = -1
  BY <1>6, <1>7 DEF Ordered
<1>9. \A p, q \in PreRelease : ComparePre(p, q) \in Signs
  BY <1>2, <1>5, <1>8 DEF Signs
<1>10. \A p, q \in PreRelease : ComparePre(p, q) = 0 - ComparePre(q, p)
  <2> SUFFICES ASSUME NEW p \in PreRelease, NEW q \in PreRelease
               PROVE  ComparePre(p, q) = 0 - ComparePre(q, p)
    OBVIOUS
  <2>1. CASE p # <<>> /\ q # <<>>
    BY <1>2, <1>8, <2>1
  <2>2. CASE p = <<>> \/ q = <<>>
    BY <1>5, <2>2
  <2> QED
    BY <2>1, <2>2
<1>11. \A p, q \in PreRelease : ComparePre(p, q) = 0 <=> p = q
  <2> SUFFICES ASSUME NEW p \in PreRelease, NEW q \in PreRelease
               PROVE  ComparePre(p, q) = 0 <=> p = q
    OBVIOUS
  <2>1. CASE p # <<>> /\ q # <<>>
    BY <1>2, <1>8, <2>1
  <2>2. CASE p = <<>> \/ q = <<>>
    BY <1>5, <2>2
  <2> QED
    BY <2>1, <2>2
<1>12. ASSUME NEW p \in PreRelease, NEW q \in PreRelease, NEW r \in PreRelease,
              ComparePre(p, q) = -1, ComparePre(q, r) = -1
       PROVE  ComparePre(p, r) = -1
  <2>1. p # <<>> /\ q # <<>>
    BY <1>5, <1>12
  <2>2. CASE r = <<>>
    BY <1>5, <2>1, <2>2
  <2>3. CASE r # <<>>
    BY <1>2, <1>8, <1>12, <2>1, <2>3
  <2> QED
    BY <2>2, <2>3
<1>13. PreRank \in [PreRelease -> [PreRelease -> Signs]]
  BY <1>9 DEF PreRank
<1> QED
  BY <1>1, <1>10, <1>11, <1>12, <1>13 DEF Ordered

Numbers == 0..MaxUint

LEMMA CoreIsSeq == \A c \in Core : c \in Seq(Numbers) /\ Len(c) = 3 /\ DOMAIN c = 1..3
<1> SUFFICES ASSUME NEW c \in Core PROVE c \in Seq(Numbers) /\ Len(c) = 3 /\ DOMAIN c = 1..3
  OBVIOUS
<1>1. c \in [1..3 -> Numbers] /\ 3 \in Nat
  BY DEF Core, Numbers
<1>2. c \in Seq(Numbers)
  BY <1>1, SeqDef
<1>3. DOMAIN c = 1..3 /\ DOMAIN c = 1..Len(c) /\ Len(c) \in Nat
  BY <1>1, <1>2, LenProperties
<1>4. Len(c) = 3
  <2>1. 3 \in 1..Len(c) /\ (Len(c) > 3 => Len(c) \in 1..3)
    BY <1>3
  <2> QED
    BY <1>3, <2>1
<1> QED
  BY <1>2, <1>3, <1>4

CoreCompare(c, d) == Lexical(SignRank(Numbers), c, d)

LEMMA CoresAreOrdered ==
    /\ \A c, d \in Core : CoreCompare(c, d) \in Signs /\ CoreCompare(c, d) = 0 - CoreCompare(d, c)
    /\ \A c, d \in Core : CoreCompare(c, d) = 0 <=> c = d
    /\ \A c, d, e \in Core :
         CoreCompare(c, d) = -1 /\ CoreCompare(d, e) = -1 => CoreCompare(c, e) = -1
<1> DEFINE rank == [c \in Seq(Numbers) |-> [d \in Seq(Numbers) |-> CoreCompare(c, d)]]
<1>1. Numbers \subseteq Int
  BY DEF Numbers
<1>2. Ordered(rank, Seq(Numbers))
  BY <1>1, SignsAreOrdered, SequencesAreOrdered DEF CoreCompare
<1>3. Core \subseteq Seq(Numbers)
  BY CoreIsSeq
<1>4. \A c, d \in Core : rank[c][d] = CoreCompare(c, d)
  BY <1>3
<1> HIDE DEF rank
<1> QED
  BY <1>2, <1>3, <1>4 DEF Ordered

LEMMA CompareInTwo ==
    ASSUME NEW v \in Version, NEW w \in Version
    PROVE  Compare(v, w) = IF CoreCompare(v.core, w.core) # 0
                           THEN CoreCompare(v.core, w.core)
                           ELSE ComparePre(v.pre, w.pre)
<1> DEFINE c == v.core
           d == w.core
           k == FirstDifference(c, d)
<1>1. c \in Core /\ d \in Core
  BY DEF Version
<1>2. Compare(v, w) = IF k # 0 THEN Sign(c[k], d[k]) ELSE ComparePre(v.pre, w.pre)
  BY DEF Compare
<1> HIDE DEF c, d
<1>3. CoreCompare(c, d) = IF k = 0 THEN Sign(Len(c), Len(d)) ELSE Sign(c[k], d[k])
  <2>1. Numbers \subseteq Int
    BY DEF Numbers
  <2>2. c \in Seq(Numbers) /\ d \in Seq(Numbers)
    BY <1>1, CoreIsSeq
  <2> QED
    BY <2>1, <2>2, FirstIsLexical DEF CoreCompare
<1>4. Len(c) = 3 /\ Len(d) = 3 /\ Sign(3, 3) = 0
  BY <1>1, CoreIsSeq DEF Sign
<1>5. c = d => k = 0
  BY DEF FirstDifference
<1>6. CoreCompare(c, d) = 0 <=> c = d
  BY <1>1, CoresAreOrdered
<1> HIDE DEF k
<1>7. Compare(v, w) = IF CoreCompare(c, d) # 0 THEN CoreCompare(c, d) ELSE ComparePre(v.pre, w.pre)
  BY <1>2, <1>3, <1>4, <1>5, <1>6
<1> QED
  BY <1>7 DEF c, d

LEMMA VersionsAreOrdered == Ordered(VersionRank, Version)
<1> DEFINE C(v, w) == CoreCompare(v.core, w.core)
           P(v, w) == ComparePre(v.pre, w.pre)
<1>1. \A v, w \in Version : Compare(v, w) = IF C(v, w) # 0 THEN C(v, w) ELSE P(v, w)
  BY CompareInTwo
<1>2. /\ \A v, w \in Version : C(v, w) \in Signs /\ C(v, w) = 0 - C(w, v)
      /\ \A v, w \in Version : C(v, w) = 0 <=> v.core = w.core
      /\ \A v, w, x \in Version : C(v, w) = -1 /\ C(w, x) = -1 => C(v, x) = -1
  <2>1. \A v \in Version : v.core \in Core
    BY DEF Version
  <2> QED
    BY <2>1, CoresAreOrdered
<1>3. /\ \A v, w \in Version : P(v, w) \in Signs /\ P(v, w) = 0 - P(w, v)
      /\ \A v, w \in Version : P(v, w) = 0 <=> v.pre = w.pre
      /\ \A v, w, x \in Version : P(v, w) = -1 /\ P(w, x) = -1 => P(v, x) = -1
  <2>1. \A v \in Version : v.pre \in PreRelease
    BY DEF Version
  <2>2. \A p, q \in PreRelease : PreRank[p][q] = ComparePre(p, q)
    BY DEF PreRank
  <2> QED
    BY <2>1, <2>2, PreReleasesAreOrdered DEF Ordered
<1>4. \A v, w \in Version : v.core = w.core /\ v.pre = w.pre => v = w
  BY DEF Version
<1>5. \A v, w, x \in Version :
         /\ v.core = w.core => C(v, x) = C(w, x)
         /\ w.core = x.core => C(v, w) = C(v, x)
  OBVIOUS
<1> HIDE DEF C, P
<1>6. \A v, w \in Version : Compare(v, w) \in Signs
  BY <1>1, <1>2, <1>3
<1>7. \A v, w \in Version : Compare(v, w) = 0 - Compare(w, v)
  BY <1>1, <1>2, <1>3 DEF Signs
<1>8. \A v, w \in Version : Compare(v, w) = 0 <=> v = w
  <2>1. \A v, w \in Version : Compare(v, w) = 0 <=> C(v, w) = 0 /\ P(v, w) = 0
    BY <1>1
  <2>2. \A v \in Version : C(v, v) = 0 /\ P(v, v) = 0
    BY <1>2, <1>3
  <2> QED
    BY <1>2, <1>3, <1>4, <2>1, <2>2
<1>9. ASSUME NEW v \in Version, NEW w \in Version, NEW x \in Version,
             Compare(v, w) = -1, Compare(w, x) = -1
      PROVE  Compare(v, x) = -1
  <2>1. CASE C(v, w) = 0
    <3>1. C(v, x) = C(w, x) /\ P(v, w) = -1
      BY <1>1, <1>2, <1>5, <1>9, <2>1
    <3> QED
      BY <1>1, <1>3, <1>9, <3>1
  <2>2. CASE C(w, x) = 0 /\ C(v, w) # 0
    <3>1. C(v, x) = C(v, w) /\ C(v, w) = -1
      BY <1>1, <1>2, <1>5, <1>9, <2>2
    <3> QED
      BY <1>1, <3>1
  <2>3. CASE C(w, x) # 0 /\ C(v, w) # 0
    <3>1. C(v, w) = -1 /\ C(w, x) = -1
      BY <1>1, <1>9, <2>3
    <3> QED
      BY <1>1, <1>2, <3>1
  <2> QED
    BY <2>1, <2>2, <2>3
<1>10. VersionRank \in [Version -> [Version -> Signs]]
  BY <1>6 DEF VersionRank
<1>11. \A v, w \in Version : VersionRank[v][w] = Compare(v, w)
  BY DEF VersionRank
<1> QED
  BY <1>7, <1>8, <1>9, <1>10, <1>11 DEF Ordered
-----------------------------------------------------------------------------
(***************************************************************************)
(* What the comparison promises.                                           *)
(***************************************************************************)
LEMMA VersionsAreVersions == Versions \subseteq Version
  BY VersionsAssumption DEF Version, Core, PreRelease, Identifier

LEMMA CompareFacts ==
    /\ \A v, w \in Version : Compare(v, w) \in Signs /\ Compare(v, w) = 0 - Compare(w, v)
    /\ \A v, w \in Version : Compare(v, w) = 0 <=> v = w
    /\ \A v, w, x \in Version : Compare(v, w) = -1 /\ Compare(w, x) = -1 => Compare(v, x) = -1
<1>1. \A v, w \in Version : VersionRank[v][w] = Compare(v, w)
  BY DEF VersionRank
<1> QED
  BY <1>1, VersionsAreOrdered DEF Ordered

LEMMA IsOrderHolds == IsOrder
<1> SUFFICES ASSUME NEW v \in Version, NEW w \in Version, NEW x \in Version
             PROVE  /\ Compare(v, w) = 0 - Compare(w, v)
                    /\ Compare(v, w) = 0 <=> v = w
                    /\ Compare(v, w) <= 0 /\ Compare(w, x) <= 0 => Compare(v, x) <= 0
  BY VersionsAreVersions DEF IsOrder
<1>1. ASSUME Compare(v, w) <= 0, Compare(w, x) <= 0 PROVE Compare(v, x) <= 0
  <2>1. Compare(v, w) \in {-1, 0} /\ Compare(w, x) \in {-1, 0}
    BY <1>1, CompareFacts DEF Signs
  <2>2. CASE v = w
    BY <1>1, <2>2
  <2>3. CASE w = x
    BY <1>1, <2>3
  <2>4. CASE v # w /\ w # x
    BY <2>1, <2>4, CompareFacts
  <2> QED
    BY <2>2, <2>3, <2>4
<1> QED
  BY <1>1, CompareFacts

\* Below, for the cores and the pre-releases, is what the rule says.
LEMMA LowerCore ==
    ASSUME NEW c \in Core, NEW d \in Core
    PROVE  CoreCompare(c, d) = -1
           <=> \E n \in 1..3 : c[n] < d[n] /\ \A k \in 1..(n - 1) : c[k] = d[k]
<1> DEFINE rank == SignRank(Numbers)
<1>1. /\ c \in Seq(Numbers) /\ d \in Seq(Numbers) /\ Len(c) = 3 /\ Len(d) = 3
      /\ \A n \in 1..3 : c[n] \in Numbers /\ d[n] \in Numbers
  BY CoreIsSeq DEF Core, Numbers
<1>2. CoreCompare(c, d) = -1 <=> \E n \in Nat : Below(rank, c, d, n)
  <2>1. Ordered(rank, Numbers)
    <3>1. Numbers \subseteq Int
      BY DEF Numbers
    <3> QED
      BY <3>1, SignsAreOrdered
  <2> QED
    BY <1>1, <2>1, LexicalIsBelow DEF CoreCompare
<1>3. \A a, b \in Numbers : rank[a][b] = -1 <=> a < b
  BY DEF SignRank, Sign, Numbers
<1> HIDE DEF rank
<1>4. ASSUME NEW n \in Nat, Below(rank, c, d, n)
      PROVE  \E m \in 1..3 : c[m] < d[m] /\ \A k \in 1..(m - 1) : c[k] = d[k]
  <2>1. n < 3 /\ rank[c[n + 1]][d[n + 1]] = -1 /\ \A k \in 1..n : c[k] = d[k]
    BY <1>1, <1>4 DEF Below
  <2>2. n + 1 \in 1..3 /\ (n + 1) - 1 = n
    BY <2>1
  <2>3. c[n + 1] < d[n + 1]
    BY <1>1, <1>3, <2>1, <2>2
  <2> QED
    BY <2>1, <2>2, <2>3
<1>5. ASSUME NEW n \in 1..3, c[n] < d[n], \A k \in 1..(n - 1) : c[k] = d[k]
      PROVE  \E m \in Nat : Below(rank, c, d, m)
  <2>1. n - 1 \in Nat /\ (n - 1) + 1 = n /\ n - 1 < 3
    OBVIOUS
  <2>2. rank[c[n]][d[n]] = -1
    BY <1>1, <1>3, <1>5
  <2>3. Below(rank, c, d, n - 1)
    BY <1>1, <1>5, <2>1, <2>2 DEF Below
  <2> QED
    BY <2>1, <2>3
<1> QED
  BY <1>2, <1>4, <1>5

LegalPre(p) == \A k \in DOMAIN p : Number(p[k]) => IsNumeric(p[k])

LEMMA LowerPreRelease ==
    ASSUME NEW p \in PreRelease, NEW q \in PreRelease,
           p = <<>> \/ q = <<>> \/ (LegalPre(p) /\ LegalPre(q))
    PROVE  ComparePre(p, q) = -1 <=> LowerPre(p, q)
<1>t. /\ Len(p) \in Nat /\ Len(q) \in Nat /\ DOMAIN p = 1..Len(p) /\ DOMAIN q = 1..Len(q)
      /\ \A k \in 1..Len(p) : p[k] \in Identifier
      /\ \A k \in 1..Len(q) : q[k] \in Identifier
  BY LenProperties, ElementOfSeq DEF PreRelease
<1>1. CASE p = <<>> \/ q = <<>>
  <2>1. ComparePre(p, q) = Sign(Len(q), Len(p))
    BY <1>1 DEF ComparePre
  <2>2. (Len(p) = 0 <=> p = <<>>) /\ (Len(q) = 0 <=> q = <<>>)
    BY EmptySeq, LenProperties DEF PreRelease
  <2>3. ComparePre(p, q) = -1 <=> p # <<>> /\ q = <<>>
    BY <1>1, <1>t, <2>1, <2>2 DEF Sign
  <2> QED
    BY <1>1, <2>3 DEF LowerPre
<1>2. CASE p # <<>> /\ q # <<>>
  <2>1. ComparePre(p, q) = -1 <=> \E n \in Nat : Below(IdentifierRank, p, q, n)
    BY <1>2, PreIsLexical, IdentifiersAreOrdered, LexicalIsBelow DEF PreRelease
  <2>2. ASSUME NEW n \in Nat, n < Len(p), n < Len(q)
        PROVE  IdentifierRank[p[n + 1]][q[n + 1]] = -1 <=> LowerIdentifier(p[n + 1], q[n + 1])
    <3> DEFINE a == p[n + 1]
               b == q[n + 1]
    <3>1. n + 1 \in DOMAIN p /\ n + 1 \in DOMAIN q /\ a \in Identifier /\ b \in Identifier
      BY <1>t, <2>2
    <3>2. (Number(a) <=> IsNumeric(a)) /\ (Number(b) <=> IsNumeric(b))
      BY <1>2, <3>1 DEF LegalPre, Number, IsNumeric
    <3> HIDE DEF a, b
    <3>3. IdentifierRank[a][b] = CompareIdentifiers(a, b)
      BY <3>1 DEF IdentifierRank
    <3>4. IsNumeric(a) => Value(a) \in Int
      BY <3>1, NumericIsPlain, NumbersHaveValues
    <3>5. IsNumeric(b) => Value(b) \in Int
      BY <3>1, NumericIsPlain, NumbersHaveValues
    <3>6. CompareIdentifiers(a, b) = -1 <=> LowerIdentifier(a, b)
      BY <3>2, <3>4, <3>5 DEF CompareIdentifiers, LowerIdentifier, Sign
    <3> QED
      BY <3>3, <3>6 DEF a, b
  <2>3. ASSUME NEW n \in Nat
        PROVE  Below(IdentifierRank, p, q, n)
               <=> /\ n \in 0..Len(p) /\ n <= Len(q) /\ \A k \in 1..n : p[k] = q[k]
                   /\ \/ n = Len(p) /\ n < Len(q)
                      \/ n < Len(p) /\ n < Len(q) /\ LowerIdentifier(p[n + 1], q[n + 1])
    <3>1. Len(p) \in Nat /\ (n \in 0..Len(p) <=> n <= Len(p))
      BY <1>t
    <3>2. n < Len(p) /\ n < Len(q) =>
              (IdentifierRank[p[n + 1]][q[n + 1]] = -1 <=> LowerIdentifier(p[n + 1], q[n + 1]))
      BY <2>2
    <3> QED
      BY <3>1, <3>2 DEF Below
  <2>4. \A n \in 0..Len(p) : n \in Nat
    BY <1>t
  <2> QED
    BY <1>2, <2>1, <2>3, <2>4 DEF LowerPre
<1> QED
  BY <1>1, <1>2

LEMMA LowerIsCompare ==
    ASSUME NEW v \in Version, NEW w \in Version,
           v.pre = <<>> \/ w.pre = <<>> \/ (Legal(v) /\ Legal(w))
    PROVE  Compare(v, w) = -1 <=> Lower(v, w)
<1> DEFINE c == CoreCompare(v.core, w.core)
<1>1. v.core \in Core /\ w.core \in Core /\ v.pre \in PreRelease /\ w.pre \in PreRelease
  BY DEF Version
<1>2. Compare(v, w) = IF c # 0 THEN c ELSE ComparePre(v.pre, w.pre)
  BY CompareInTwo
<1>3. c = -1 <=> \E n \in 1..3 : v.core[n] < w.core[n] /\ \A k \in 1..(n - 1) : v.core[k] = w.core[k]
  BY <1>1, LowerCore
<1>4. c = 0 <=> v.core = w.core
  BY <1>1, CoresAreOrdered
<1>5. ComparePre(v.pre, w.pre) = -1 <=> LowerPre(v.pre, w.pre)
  BY <1>1, LowerPreRelease DEF Legal, LegalPre
<1> HIDE DEF c
<1> QED
  BY <1>2, <1>3, <1>4, <1>5 DEF Lower

LEMMA FollowsSemVerHolds == FollowsSemVer
<1> SUFFICES ASSUME NEW v \in Version, NEW w \in Version, Legal(v), Legal(w)
             PROVE  Compare(v, w) = CASE Lower(v, w) -> -1 [] Lower(w, v) -> 1 [] OTHER -> 0
  BY VersionsAreVersions DEF FollowsSemVer
<1>1. (Compare(v, w) = -1 <=> Lower(v, w)) /\ (Compare(w, v) = -1 <=> Lower(w, v))
  BY LowerIsCompare
<1>2. Compare(v, w) \in Signs /\ Compare(w, v) \in Signs /\ Compare(v, w) = 0 - Compare(w, v)
  BY CompareFacts
<1> QED
  BY <1>1, <1>2 DEF Signs

\* Compare orders every version the pattern takes, in one total order, and those that
\* Semantic Versioning knows as it does, for any base, letters and word.
THEOREM OrdersAsSemVerHolds == OrdersAsSemVer
  BY FollowsSemVerHolds, IsOrderHolds DEF OrdersAsSemVer
-----------------------------------------------------------------------------
(***************************************************************************)
(* ReleaseCheck.  A date is honest when what it dates knows each release   *)
(* that was there by then.  The clock's past does not change while it only *)
(* runs forward, and what a check learns is dated with its begin, which is *)
(* before the answer.                                                      *)
(***************************************************************************)
Honest(e) == e.at <= now /\ (e.version > 0 => e.version >= published[e.at])

DatesInOrder ==
    ~putBack =>
        /\ \A t \in Times : published[t] <= latest
        /\ Honest(cache) /\ Honest(told)
        /\ \A c \in Companions : begun[c] <= now /\ Honest(entry[c]) /\ Honest(status[c])

EntriesAreKnown ==
    /\ cache = NoEntry \/ cache.version > 0
    /\ \A c \in Companions :
         stage[c] = "write" => entry[c].version > 0 /\ entry[c].at = begun[c]

\* What a notice says of an update is what Compare says.
Ranked(n) == n.available <=> n.version > 0 /\ Newer(n.version)

NoticesAreRanked == Ranked(told) /\ \A c \in Companions : Ranked(status[c])

StatusInOrder ==
    outages = 0 =>
        \A c \in Companions \ stopping : stage[c] \in {"publish", "wait"} =>
            /\ status[c].version > 0
            /\ begun[c] - status[c].at \in 0..(CacheTTL - 1)

\* The blank of a Companion that ends takes it from those the agents hear.
ToldInOrder ==
    outages = 0 =>
        \A c \in teller :
            /\ told = Blank \/ told.version > 0
            /\ stage[c] \in {"off", "wait"} => told.version > 0
            /\ stage[c] = "wait" => told = status[c]

CheckInv ==
    /\ CheckTypeOK
    /\ DatesInOrder /\ EntriesAreKnown /\ NoticesAreRanked
    /\ StatusInOrder /\ ToldInOrder

LEMMA ReleasesCounted ==
    /\ Len(Releases) \in Nat \ {0} /\ DOMAIN Releases = 1..Len(Releases)
    /\ NoEntry \in Entries /\ Blank \in Statuses
<1>1. Releases \in Seq({v \in Versions : v.pre = <<>>}) /\ Releases # <<>>
  BY ReleasesAssumption
<1>2. Len(Releases) \in Nat \ {0} /\ DOMAIN Releases = 1..Len(Releases)
  BY <1>1
<1> QED
  BY <1>2, NumbersAssumption DEF NoEntry, Entries, Blank, Statuses, Known, Times

LEMMA CheckInvInit == CheckInit => CheckInv
<1> SUFFICES ASSUME CheckInit PROVE CheckInv
  OBVIOUS
<1>1. published \in [Times -> Known] /\ now \in Times /\ latest \in DOMAIN Releases
  BY ReleasesCounted, NumbersAssumption DEF CheckInit, Times, Known
<1>2. CheckTypeOK
  <2>1. 0 \in Times /\ 0 \in 0..MaxOutages
    BY NumbersAssumption DEF Times
  <2> QED
    BY <1>1, <2>1, ReleasesCounted DEF CheckInit, CheckTypeOK
<1>3. DatesInOrder
  BY DEF CheckInit, DatesInOrder, Honest, NoEntry, Blank
<1>4. EntriesAreKnown
  BY DEF CheckInit, EntriesAreKnown
<1>5. NoticesAreRanked
  BY DEF CheckInit, NoticesAreRanked, Ranked, Blank
<1>6. StatusInOrder
  BY DEF CheckInit, StatusInOrder
<1>7. ToldInOrder
  BY DEF CheckInit, ToldInOrder
<1> QED
  BY <1>2, <1>3, <1>4, <1>5, <1>6, <1>7 DEF CheckInv

\* Nothing that the Companions or the bridge know changes.
LEMMA AsideKeepsCheckInv ==
    ASSUME CheckInv, CheckTypeOK', DatesInOrder', EntriesAreKnown',
           UNCHANGED <<stage, begun, status, told, stopping, teller, outages>>
    PROVE  CheckInv'
<1>1. NoticesAreRanked'
  BY DEF CheckInv, NoticesAreRanked, Ranked, Newer
<1>2. StatusInOrder'
  BY DEF CheckInv, StatusInOrder
<1>3. ToldInOrder'
  BY DEF CheckInv, ToldInOrder
<1> QED
  BY <1>1, <1>2, <1>3 DEF CheckInv

LEMMA TickKeepsCheckInv ==
    ASSUME CheckInv, Tick
    PROVE  CheckInv'
<1>1. /\ now < MaxNow /\ now' = now + 1
      /\ published' = IF putBack THEN published ELSE [published EXCEPT ![now + 1] = latest]
      /\ UNCHANGED <<latest, cache, stage, begun, entry, status, told, stopping, putBack,
                     teller, outages>>
  BY DEF Tick, services
<1>2. now \in Nat /\ now + 1 \in Times /\ latest \in Known /\ \A t \in Times : published[t] \in Nat
  BY <1>1, NumbersAssumption, ReleasesCounted DEF CheckInv, CheckTypeOK, Times, Known
<1>3. CheckTypeOK'
  BY <1>1, <1>2 DEF CheckInv, CheckTypeOK
<1>4. ASSUME ~putBack PROVE /\ published'[now + 1] = latest
                            /\ \A t \in Times : t <= now => published'[t] = published[t]
                            /\ \A t \in Times : published'[t] \in {latest, published[t]}
  BY <1>1, <1>2, <1>4 DEF CheckInv, CheckTypeOK
<1>6. DatesInOrder'
  <2> SUFFICES ASSUME ~putBack PROVE DatesInOrder'
    BY <1>1 DEF DatesInOrder
  <2>1. /\ cache.at \in Times /\ told.at \in Times
        /\ \A c \in Companions : entry[c].at \in Times /\ status[c].at \in Times
                                 /\ begun[c] \in Nat
    BY NumbersAssumption DEF CheckInv, CheckTypeOK, Entries, Statuses, Times
  <2>2. Honest(cache)' /\ Honest(told)'
    <3>1. Honest(cache) /\ Honest(told)
      BY DEF CheckInv, DatesInOrder
    <3>2. cache' = cache /\ told' = told
      BY <1>1
    <3> QED
      BY <1>1, <1>2, <1>4, <2>1, <3>1, <3>2, NumbersAssumption DEF Honest, Times
  <2>3. ASSUME NEW c \in Companions PROVE (begun[c] <= now)' /\ Honest(entry[c])' /\ Honest(status[c])'
    <3>1. begun[c] <= now /\ Honest(entry[c]) /\ Honest(status[c])
      BY DEF CheckInv, DatesInOrder
    <3> QED
      BY <1>1, <1>2, <1>4, <2>1, <3>1, NumbersAssumption DEF Honest, Times
  <2>4. \A t \in Times : published'[t] <= latest'
    BY <1>1, <1>2, <1>4 DEF CheckInv, DatesInOrder, Known
  <2> QED
    BY <2>2, <2>3, <2>4 DEF DatesInOrder
<1>7. EntriesAreKnown'
  BY <1>1 DEF CheckInv, EntriesAreKnown
<1> QED
  BY <1>1, <1>3, <1>6, <1>7, AsideKeepsCheckInv

LEMMA ClockKeepsCheckInv ==
    ASSUME CheckInv, Release \/ SetBack \/ LoseCache
    PROVE  CheckInv'
<1>1. CASE Release
  <2>1. /\ latest < Len(Releases) /\ latest' = latest + 1
        /\ UNCHANGED <<now, cache, stage, begun, entry, status, told, stopping, published,
                       putBack, teller, outages>>
    BY <1>1 DEF Release, services
  <2>2. latest \in Nat /\ latest + 1 \in DOMAIN Releases /\ \A t \in Times : published[t] \in Nat
    BY <2>1, ReleasesCounted DEF CheckInv, CheckTypeOK, Known
  <2>3. CheckTypeOK'
    BY <2>1, <2>2 DEF CheckInv, CheckTypeOK
  <2>4. DatesInOrder'
    BY <2>1, <2>2 DEF CheckInv, DatesInOrder, Honest
  <2>5. EntriesAreKnown'
    BY <2>1 DEF CheckInv, EntriesAreKnown
  <2> QED
    BY <2>1, <2>3, <2>4, <2>5, AsideKeepsCheckInv
<1>2. CASE SetBack
  <2>1. /\ now' \in Times /\ putBack' = TRUE /\ published' = [t \in Times |-> 0]
        /\ UNCHANGED <<latest, cache, stage, begun, entry, status, told, stopping, teller,
                       outages>>
    BY <1>2 DEF SetBack, services
  <2>2. published' \in [Times -> Known]
    BY <2>1, ReleasesCounted DEF Known
  <2>3. CheckTypeOK'
    BY <2>1, <2>2 DEF CheckInv, CheckTypeOK
  <2>4. DatesInOrder'
    BY <2>1 DEF DatesInOrder
  <2>5. EntriesAreKnown'
    BY <2>1 DEF CheckInv, EntriesAreKnown
  <2> QED
    BY <2>1, <2>3, <2>4, <2>5, AsideKeepsCheckInv
<1>3. CASE LoseCache
  <2>1. /\ cache' = NoEntry
        /\ UNCHANGED <<now, latest, stage, begun, entry, status, told, stopping, published,
                       putBack, teller, outages>>
    BY <1>3 DEF LoseCache, services
  <2>2. CheckTypeOK'
    BY <2>1, ReleasesCounted DEF CheckInv, CheckTypeOK
  <2>3. now \in Nat
    BY NumbersAssumption DEF CheckInv, CheckTypeOK, Times
  <2>4. DatesInOrder'
    BY <2>1, <2>3 DEF CheckInv, DatesInOrder, Honest, NoEntry
  <2>5. EntriesAreKnown'
    BY <2>1 DEF CheckInv, EntriesAreKnown
  <2> QED
    BY <2>1, <2>2, <2>4, <2>5, AsideKeepsCheckInv
<1> QED
  BY <1>1, <1>2, <1>3

\* The step of a Companion that leaves the shared file alone and tells the bridge, if
\* anybody, what it holds itself or that it knows nothing.
LEMMA TellKeepsCheckInv ==
    ASSUME CheckInv, NEW c \in Companions, NEW to \in {"started", "read", "wait"},
           stage' = [stage EXCEPT ![c] = to],
           begun' = begun \/ (begun' = [begun EXCEPT ![c] = now] /\ to = "read"),
           to = "wait" => stage[c] = "publish",
           \/ /\ UNCHANGED <<told, teller>>
              /\ \/ to = "read" /\ outages' = outages
                 \/ outages < MaxOutages /\ outages' = outages + 1
           \/ /\ told' = (IF to = "wait" THEN status[c] ELSE Blank)
              /\ to # "read" /\ teller' = {c} \ stopping /\ outages' = outages,
           UNCHANGED <<now, latest, cache, entry, status, stopping, published, putBack>>
    PROVE  CheckInv'
<1>1. /\ stage'[c] = to
      /\ \A d \in Companions : d # c => stage'[d] = stage[d] /\ begun'[d] = begun[d]
      /\ outages \in Nat /\ now \in Nat
      /\ begun'[c] = begun[c] \/ begun'[c] = now
      /\ to = "wait" => begun' = begun
      /\ told' \in {told, status[c], Blank}
  BY NumbersAssumption DEF CheckInv, CheckTypeOK, Times
<1>2. CheckTypeOK'
  <2>1. told' \in Statuses /\ begun' \in [Companions -> Times]
    BY <1>1, ReleasesCounted DEF CheckInv, CheckTypeOK
  <2>2. stage' \in [Companions -> {"off", "started", "wait", "read", "fetch", "write", "publish"}]
    BY DEF CheckInv, CheckTypeOK
  <2>3. outages' \in 0..MaxOutages /\ teller' \in SUBSET Companions
    BY <1>1, NumbersAssumption DEF CheckInv, CheckTypeOK
  <2> QED
    BY <2>1, <2>2, <2>3 DEF CheckInv, CheckTypeOK
<1>3. DatesInOrder'
  <2>1. Honest(Blank)
    BY <1>1 DEF Honest, Blank
  <2> QED
    BY <1>1, <2>1 DEF CheckInv, DatesInOrder, Honest
<1>4. EntriesAreKnown'
  BY <1>1 DEF CheckInv, EntriesAreKnown
<1>5. NoticesAreRanked'
  <2>1. Ranked(Blank)
    BY DEF Ranked, Blank
  <2> QED
    BY <1>1, <2>1 DEF CheckInv, NoticesAreRanked, Ranked, Newer
<1>6. ASSUME outages' = 0 PROVE outages = 0
  BY <1>1, <1>6
<1>7. StatusInOrder'
  BY <1>1, <1>6 DEF CheckInv, StatusInOrder
<1>8. ToldInOrder'
  <2> SUFFICES ASSUME outages' = 0, NEW d \in teller'
               PROVE  /\ told' = Blank \/ told'.version > 0
                      /\ stage'[d] \in {"off", "wait"} => told'.version > 0
                      /\ stage'[d] = "wait" => told' = status'[d]
    BY DEF ToldInOrder
  <2>1. CASE to = "read"
    <3>1. told' = told /\ d \in teller /\ d \in Companions /\ outages = 0
      BY <1>6, <2>1 DEF CheckInv, CheckTypeOK
    <3> QED
      BY <1>1, <2>1, <3>1 DEF CheckInv, ToldInOrder
  <2>2. CASE to = "started"
    <3>1. told' = Blank /\ d = c
      BY <1>1, <2>2
    <3> QED
      BY <1>1, <2>2, <3>1
  <2>3. CASE to = "wait"
    <3>1. told' = status[c] /\ d = c /\ c \notin stopping
      BY <1>1, <2>3
    <3>2. status[c].version > 0
      BY <1>6, <2>3, <3>1 DEF CheckInv, StatusInOrder
    <3> QED
      BY <1>1, <2>3, <3>1, <3>2
  <2> QED
    BY <2>1, <2>2, <2>3
<1> QED
  BY <1>2, <1>3, <1>4, <1>5, <1>7, <1>8 DEF CheckInv

LEMMA ServiceKeepsCheckInv ==
    ASSUME CheckInv, NEW c \in Companions, StartService(c) \/ Begin(c) \/ Publish(c)
    PROVE  CheckInv'
<1>1. UNCHANGED <<now, latest, cache, entry, status, stopping, published, putBack>>
  BY DEF StartService, Begin, Publish
<1>2. CASE StartService(c)
  <2>1. /\ stage' = [stage EXCEPT ![c] = "started"] /\ UNCHANGED begun
        /\ \/ told' = Blank /\ teller' = {c} \ stopping /\ outages' = outages
           \/ outages < MaxOutages /\ outages' = outages + 1 /\ UNCHANGED <<told, teller>>
    BY <1>2 DEF StartService, Go, Tell, Outage
  <2> QED
    BY <1>1, <2>1, TellKeepsCheckInv
<1>3. CASE Begin(c)
  <2>1. /\ stage' = [stage EXCEPT ![c] = "read"] /\ begun' = [begun EXCEPT ![c] = now]
        /\ UNCHANGED <<told, teller, outages>>
    BY <1>3 DEF Begin, Go
  <2> QED
    BY <1>1, <2>1, TellKeepsCheckInv
<1>4. CASE Publish(c)
  <2>1. /\ stage[c] = "publish" /\ stage' = [stage EXCEPT ![c] = "wait"] /\ UNCHANGED begun
        /\ \/ told' = status[c] /\ teller' = {c} \ stopping /\ outages' = outages
           \/ outages < MaxOutages /\ outages' = outages + 1 /\ UNCHANGED <<told, teller>>
    BY <1>4 DEF Publish, Go, Tell, Outage
  <2> QED
    BY <1>1, <2>1, TellKeepsCheckInv
<1> QED
  BY <1>2, <1>3, <1>4

LEMMA StopKeepsCheckInv ==
    ASSUME CheckInv, NEW c \in Companions, StopService(c)
    PROVE  CheckInv'
<1>1. /\ stopping' = stopping \cup {c}
      /\ UNCHANGED <<now, latest, cache, stage, begun, entry, status, told, published, putBack,
                     teller, outages>>
  BY DEF StopService
<1>2. CheckTypeOK'
  BY <1>1 DEF CheckInv, CheckTypeOK
<1>3. DatesInOrder' /\ EntriesAreKnown'
  BY <1>1 DEF CheckInv, DatesInOrder, Honest, EntriesAreKnown
<1>4. NoticesAreRanked'
  BY <1>1 DEF CheckInv, NoticesAreRanked, Ranked, Newer
<1>5. StatusInOrder'
  BY <1>1 DEF CheckInv, StatusInOrder
<1>6. ToldInOrder'
  BY <1>1 DEF CheckInv, ToldInOrder
<1> QED
  BY <1>2, <1>3, <1>4, <1>5, <1>6 DEF CheckInv

\* A Companion that ends leaves nothing of its own but what it told.
LEMMA EndKeepsCheckInv ==
    ASSUME CheckInv, NEW c \in Companions, EndService(c)
    PROVE  CheckInv'
<1>1. /\ stage' = [stage EXCEPT ![c] = "off"] /\ begun' = [begun EXCEPT ![c] = 0]
      /\ entry' = [entry EXCEPT ![c] = NoEntry] /\ status' = [status EXCEPT ![c] = Blank]
      /\ stopping' = stopping \ {c}
      /\ UNCHANGED <<now, latest, cache, published, putBack>>
  BY DEF EndService, Go
<1>2. \/ /\ told' = told /\ outages' = outages
         /\ teller' = IF told = Blank THEN teller \ {c} ELSE teller
      \/ told' = Blank /\ teller' = {} /\ outages < MaxOutages /\ outages' = outages + 1
  BY DEF EndService, Outage
<1>3. /\ stage'[c] = "off" /\ begun'[c] = 0 /\ entry'[c] = NoEntry /\ status'[c] = Blank
      /\ \A d \in Companions : d # c => /\ stage'[d] = stage[d] /\ begun'[d] = begun[d]
                                        /\ entry'[d] = entry[d] /\ status'[d] = status[d]
      /\ outages \in Nat /\ now \in Nat
  BY <1>1, NumbersAssumption DEF CheckInv, CheckTypeOK, Times
<1>4. CheckTypeOK'
  <2>1. told' \in Statuses /\ status' \in [Companions -> Statuses]
    BY <1>1, <1>2, ReleasesCounted DEF CheckInv, CheckTypeOK
  <2>2. begun' \in [Companions -> Times]
    <3>1. 0 \in Times
      BY NumbersAssumption DEF Times
    <3> QED
      BY <1>1, <3>1 DEF CheckInv, CheckTypeOK
  <2>3. entry' \in [Companions -> Entries]
    BY <1>1, ReleasesCounted DEF CheckInv, CheckTypeOK
  <2>4. stage' \in [Companions -> {"off", "started", "wait", "read", "fetch", "write", "publish"}]
    BY <1>1 DEF CheckInv, CheckTypeOK
  <2>5. outages' \in 0..MaxOutages
    BY <1>2, <1>3, NumbersAssumption DEF CheckInv, CheckTypeOK
  <2>6. teller' \in SUBSET Companions /\ stopping' \in SUBSET Companions
    BY <1>1, <1>2 DEF CheckInv, CheckTypeOK
  <2> QED
    BY <1>1, <2>1, <2>2, <2>3, <2>4, <2>5, <2>6 DEF CheckInv, CheckTypeOK
<1>5. DatesInOrder'
  <2>1. Honest(Blank) /\ Honest(NoEntry)
    BY <1>3 DEF Honest, Blank, NoEntry
  <2>2. told' = told \/ told' = Blank
    BY <1>2
  <2> QED
    BY <1>1, <1>3, <2>1, <2>2 DEF CheckInv, DatesInOrder, Honest
<1>6. EntriesAreKnown'
  BY <1>1, <1>3 DEF CheckInv, EntriesAreKnown
<1>7. NoticesAreRanked'
  <2>1. Ranked(Blank)
    BY DEF Ranked, Blank
  <2>2. told' = told \/ told' = Blank
    BY <1>2
  <2> QED
    BY <1>3, <2>1, <2>2 DEF CheckInv, NoticesAreRanked, Ranked, Newer
<1>8. StatusInOrder'
  BY <1>1, <1>2, <1>3 DEF CheckInv, StatusInOrder
<1>9. ToldInOrder'
  <2> SUFFICES ASSUME outages' = 0, NEW d \in teller'
               PROVE  /\ told' = Blank \/ told'.version > 0
                      /\ stage'[d] \in {"off", "wait"} => told'.version > 0
                      /\ stage'[d] = "wait" => told' = status'[d]
    BY DEF ToldInOrder
  <2>1. /\ told' = told /\ outages = 0
        /\ teller' = IF told = Blank THEN teller \ {c} ELSE teller
    BY <1>2, <1>3
  <2>2. d \in teller /\ d \in Companions
    BY <2>1 DEF CheckInv, CheckTypeOK
  <2>3. d = c => told # Blank
    BY <2>1
  <2> QED
    BY <1>3, <2>1, <2>2, <2>3 DEF CheckInv, ToldInOrder
<1> QED
  BY <1>4, <1>5, <1>6, <1>7, <1>8, <1>9 DEF CheckInv

\* Check returns, with an entry it read, made or has left over.
LEMMA ReturnKeepsCheckInv ==
    ASSUME CheckInv, NEW c \in Companions, NEW e \in Entries, NEW error \in BOOLEAN,
           Return(c, e, error),
           cache' = cache \/ (cache' = e /\ e.version > 0),
           outages' = outages \/ (outages < MaxOutages /\ outages' = outages + 1),
           ~putBack => Honest(e),
           outages' = 0 /\ c \notin stopping => /\ e.version > 0
                                               /\ begun[c] - e.at \in 0..(CacheTTL - 1),
           UNCHANGED <<now, latest, begun, told, stopping, published, putBack, teller>>
    PROVE  CheckInv'
<1> DEFINE update == e.version > 0 /\ Newer(e.version)
           s == [version |-> e.version, at |-> e.at, error |-> error, available |-> update]
<1>1. /\ stage' = [stage EXCEPT ![c] = "publish"]
      /\ entry' = [entry EXCEPT ![c] = NoEntry]
      /\ status' = [status EXCEPT ![c] = s]
  BY DEF Return, Go
<1>2. update \in BOOLEAN
  OBVIOUS
<1>3. Ranked(s)
  BY Zenon DEF Ranked
<1> HIDE DEF update
<1>4. s \in Statuses /\ s.version = e.version /\ s.at = e.at
  BY <1>2 DEF Statuses, Entries
<1> HIDE DEF s
<1>5. /\ stage'[c] = "publish" /\ entry'[c] = NoEntry /\ status'[c] = s
      /\ \A d \in Companions : d # c => /\ stage'[d] = stage[d] /\ entry'[d] = entry[d]
                                        /\ status'[d] = status[d]
      /\ outages \in Nat /\ now \in Nat
  BY <1>1, NumbersAssumption DEF CheckInv, CheckTypeOK, Times
<1>6. CheckTypeOK'
  <2>1. status' \in [Companions -> Statuses]
    BY <1>1, <1>4 DEF CheckInv, CheckTypeOK
  <2>2. entry' \in [Companions -> Entries] /\ cache' \in Entries
    BY <1>1, ReleasesCounted DEF CheckInv, CheckTypeOK
  <2>3. stage' \in [Companions -> {"off", "started", "wait", "read", "fetch", "write", "publish"}]
    BY <1>1 DEF CheckInv, CheckTypeOK
  <2>4. outages' \in 0..MaxOutages
    BY <1>5, NumbersAssumption DEF CheckInv, CheckTypeOK
  <2> QED
    BY <2>1, <2>2, <2>3, <2>4 DEF CheckInv, CheckTypeOK
<1>7. DatesInOrder'
  <2> SUFFICES ASSUME ~putBack PROVE DatesInOrder'
    BY DEF DatesInOrder
  <2>1. Honest(NoEntry) /\ Honest(s)
    BY <1>4, <1>5 DEF Honest, NoEntry
  <2>2. Honest(cache)'
    BY DEF CheckInv, DatesInOrder, Honest
  <2> QED
    BY <1>5, <2>1, <2>2 DEF CheckInv, DatesInOrder, Honest
<1>8. EntriesAreKnown'
  BY <1>5 DEF CheckInv, EntriesAreKnown
<1>9. NoticesAreRanked'
  BY <1>3, <1>5 DEF CheckInv, NoticesAreRanked, Ranked, Newer
<1>10. StatusInOrder'
  BY <1>4, <1>5 DEF CheckInv, StatusInOrder
<1>11. ToldInOrder'
  <2>1. teller \subseteq Companions /\ (outages' = 0 => outages = 0)
    BY <1>5 DEF CheckInv, CheckTypeOK
  <2> QED
    BY <1>5, <2>1 DEF CheckInv, ToldInOrder
<1> QED
  BY <1>6, <1>7, <1>8, <1>9, <1>10, <1>11 DEF CheckInv

\* Check goes on, with an entry it has read or been given.
LEMMA EntryKeepsCheckInv ==
    ASSUME CheckInv, NEW c \in Companions, NEW e \in Entries, NEW to \in {"fetch", "write"},
           stage' = [stage EXCEPT ![c] = to], entry' = [entry EXCEPT ![c] = e],
           ~putBack => Honest(e), to = "write" => e.version > 0 /\ e.at = begun[c],
           UNCHANGED <<now, latest, cache, begun, status, told, stopping, published, putBack,
                       teller, outages>>
    PROVE  CheckInv'
<1>1. /\ stage'[c] = to /\ entry'[c] = e
      /\ \A d \in Companions : d # c => stage'[d] = stage[d] /\ entry'[d] = entry[d]
  BY DEF CheckInv, CheckTypeOK
<1>2. CheckTypeOK'
  BY DEF CheckInv, CheckTypeOK
<1>3. DatesInOrder'
  BY <1>1 DEF CheckInv, DatesInOrder, Honest
<1>4. EntriesAreKnown'
  BY <1>1 DEF CheckInv, EntriesAreKnown
<1>5. NoticesAreRanked'
  BY DEF CheckInv, NoticesAreRanked, Ranked, Newer
<1>6. StatusInOrder'
  BY <1>1 DEF CheckInv, StatusInOrder
<1>7. ToldInOrder'
  <2>1. teller \subseteq Companions
    BY DEF CheckInv, CheckTypeOK
  <2> QED
    BY <1>1, <2>1 DEF CheckInv, ToldInOrder
<1> QED
  BY <1>2, <1>3, <1>4, <1>5, <1>6, <1>7 DEF CheckInv

LEMMA CheckKeepsCheckInv ==
    ASSUME CheckInv, NEW c \in Companions, Check(c)
    PROVE  CheckInv'
<1>1. /\ cache \in Entries /\ entry[c] \in Entries /\ begun[c] \in Times
      /\ latest \in Nat \ {0} /\ latest \in Known
      /\ outages \in Nat
  BY ReleasesCounted, NumbersAssumption DEF CheckInv, CheckTypeOK, Known
<1>2. ~putBack => /\ Honest(cache) /\ Honest(entry[c])
                  /\ begun[c] <= now /\ published[begun[c]] <= latest
  BY <1>1 DEF CheckInv, DatesInOrder
<1>3. CASE ReadCache(c)
  <2>1. UNCHANGED <<now, latest, cache, begun, told, stopping, published, putBack, teller,
                    outages>>
    BY <1>3 DEF ReadCache
  <2>2. CASE Usable(c)
    <3>1. Return(c, cache, FALSE)
      BY <1>3, <2>2 DEF ReadCache
    <3>2. begun[c] - cache.at \in 0..(CacheTTL - 1) /\ cache.version > 0
      <4>1. begun[c] - cache.at \in 0..(CacheTTL - 1)
        BY <1>1, <2>2, NumbersAssumption DEF Usable, Entries, Times
      <4> QED
        BY <2>2, <4>1 DEF CheckInv, EntriesAreKnown, Usable
    <3> QED
      BY <1>1, <1>2, <2>1, <3>1, <3>2, ReturnKeepsCheckInv
  <2>3. CASE ~Usable(c)
    <3>1. /\ stage' = [stage EXCEPT ![c] = "fetch"] /\ entry' = [entry EXCEPT ![c] = cache]
          /\ UNCHANGED status
      BY <1>3, <2>3 DEF ReadCache, Go
    <3> QED
      BY <1>1, <1>2, <2>1, <3>1, EntryKeepsCheckInv
  <2> QED
    BY <2>2, <2>3
<1>4. CASE FetchLatest(c)
  <2> DEFINE answer == [version |-> latest, at |-> begun[c]]
             none == [version |-> 0, at |-> begun[c]]
  <2>1. UNCHANGED <<now, latest, cache, begun, told, stopping, published, putBack, teller>>
    BY <1>4 DEF FetchLatest
  <2>2. CASE /\ entry' = [entry EXCEPT ![c] = answer]
             /\ Go(c, "write") /\ UNCHANGED <<status, outages>>
    <3>1. answer \in Entries /\ answer.version > 0 /\ answer.at = begun[c]
      BY <1>1 DEF Entries
    <3>2. ~putBack => Honest(answer)
      BY <1>1, <1>2 DEF Honest
    <3>3. stage' = [stage EXCEPT ![c] = "write"]
      BY <2>2 DEF Go
    <3> HIDE DEF answer
    <3> QED
      BY <2>1, <2>2, <3>1, <3>2, <3>3, EntryKeepsCheckInv
  <2>3. CASE /\ Outage \/ (c \in stopping /\ UNCHANGED outages)
             /\ IF entry[c] = NoEntry THEN Return(c, none, TRUE) ELSE Return(c, entry[c], FALSE)
    <3>1. /\ outages' = outages \/ (outages < MaxOutages /\ outages' = outages + 1)
          /\ ~(outages' = 0 /\ c \notin stopping)
      BY <1>1, <2>3 DEF Outage
    <3>2. none \in Entries
      BY <1>1, ReleasesCounted DEF Entries, Known
    <3>3. ~putBack => Honest(none)
      BY <1>2 DEF Honest
    <3>4. CASE entry[c] = NoEntry
      <4>1. Return(c, none, TRUE)
        BY <2>3, <3>4
      <4> HIDE DEF none
      <4> QED
        BY <2>1, <3>1, <3>2, <3>3, <4>1, ReturnKeepsCheckInv
    <3>5. CASE entry[c] # NoEntry
      BY <1>1, <1>2, <2>1, <2>3, <3>1, <3>5, ReturnKeepsCheckInv
    <3> QED
      BY <3>4, <3>5
  <2> QED
    BY <1>4, <2>2, <2>3 DEF FetchLatest
<1>5. CASE WriteCache(c)
  <2>1. /\ stage[c] = "write" /\ Return(c, entry[c], FALSE)
        /\ \/ cache' = entry[c] /\ outages' = outages
           \/ cache' = cache /\ outages < MaxOutages /\ outages' = outages + 1
        /\ UNCHANGED <<now, latest, begun, told, stopping, published, putBack, teller>>
    BY <1>5 DEF WriteCache, Outage
  <2>2. entry[c].version > 0 /\ entry[c].at = begun[c]
    BY <2>1 DEF CheckInv, EntriesAreKnown
  <2>3. begun[c] - entry[c].at \in 0..(CacheTTL - 1)
    BY <1>1, <2>2, NumbersAssumption DEF Times
  <2> QED
    BY <1>1, <1>2, <2>1, <2>2, <2>3, ReturnKeepsCheckInv
<1> QED
  BY <1>3, <1>4, <1>5 DEF Check

LEMMA CheckInvNext == CheckInv /\ [CheckNext]_checkVars => CheckInv'
<1> SUFFICES ASSUME CheckInv, [CheckNext]_checkVars PROVE CheckInv'
  OBVIOUS
<1>1. CASE UNCHANGED checkVars
  <2>1. UNCHANGED <<now, latest, cache, stage, begun, entry, status, told, stopping, published,
                    putBack, teller, outages>>
    BY <1>1 DEF checkVars
  <2>2. CheckTypeOK'
    BY <2>1 DEF CheckInv, CheckTypeOK
  <2>3. DatesInOrder' /\ EntriesAreKnown'
    BY <2>1 DEF CheckInv, DatesInOrder, Honest, EntriesAreKnown
  <2> QED
    BY <2>1, <2>2, <2>3, AsideKeepsCheckInv
<1> QED
  BY <1>1, ClockKeepsCheckInv, TickKeepsCheckInv, ServiceKeepsCheckInv, CheckKeepsCheckInv,
     StopKeepsCheckInv, EndKeepsCheckInv DEF CheckNext

LEMMA CheckAlways == CheckSpec => []CheckInv
BY CheckInvInit, CheckInvNext, PTL DEF CheckSpec

\* The variables of ReleaseCheck keep their types.
THEOREM CheckTypeCorrect == CheckSpec => []CheckTypeOK
<1>1. CheckInv => CheckTypeOK
  BY DEF CheckInv
<1> QED
  BY <1>1, CheckAlways, PTL

\* A notice dated with some time knows every release that was there by then, and so
\* does the shared file, on a clock that only ran forward.
THEOREM DateIsHonestHolds == CheckSpec => []DateIsHonest
<1>1. CheckInv => DateIsHonest
  <2> SUFFICES ASSUME CheckInv, ~putBack
               PROVE  /\ cache # NoEntry => cache.version >= published[cache.at]
                      /\ \A notice \in Notices :
                           notice.version > 0 => notice.version >= published[notice.at]
    BY DEF DateIsHonest
  <2>1. /\ Honest(cache) /\ Honest(told) /\ \A c \in Companions : Honest(status[c])
        /\ cache = NoEntry \/ cache.version > 0
    BY DEF CheckInv, DatesInOrder, EntriesAreKnown
  <2> QED
    BY <2>1 DEF Honest, Notices
<1> QED
  BY <1>1, CheckAlways, PTL

\* While GitHub and the bridge can be reached, no Companion that is not being stopped is
\* told what is a day old or of the future, and between the checks the agents are told a
\* release, the one the Companion that told last was told, unless that one ended before
\* it had its answer or was being stopped.
THEOREM StatusIsFreshHolds == CheckSpec => []StatusIsFresh
<1>1. CheckInv => StatusIsFresh
  <2> SUFFICES ASSUME CheckInv, outages = 0
               PROVE  /\ \A c \in Companions \ stopping : stage[c] \in {"publish", "wait"} =>
                           /\ status[c].version > 0
                           /\ begun[c] - status[c].at \in 0..(CacheTTL - 1)
                      /\ Settled => \A c \in teller :
                           /\ told.version > 0
                           /\ stage[c] = "wait" => told = status[c]
    BY DEF StatusIsFresh
  <2>1. teller \subseteq Companions
    BY DEF CheckInv, CheckTypeOK
  <2> QED
    BY <2>1 DEF CheckInv, StatusInOrder, ToldInOrder, Settled
<1> QED
  BY <1>1, CheckAlways, PTL

\* The user and the agents are told of an update exactly when Semantic Versioning ranks
\* the release that is known above the version that runs; and the comparison behind it
\* is that order for every version.
THEOREM NoticeFollowsSemVerHolds == CheckSpec => []NoticeFollowsSemVer
<1>1. CheckInv => NoticeFollowsSemVer
  <2> SUFFICES ASSUME CheckInv, NEW notice \in Notices
               PROVE  notice.available <=>
                          notice.version > 0 /\ Lower(Running, Releases[notice.version])
    BY OrdersAsSemVerHolds DEF NoticeFollowsSemVer
  <2>1. Ranked(notice) /\ notice \in Statuses
    BY DEF CheckInv, NoticesAreRanked, Notices, CheckTypeOK
  <2>2. ASSUME notice.version > 0
        PROVE  Newer(notice.version) <=> Lower(Running, Releases[notice.version])
    <3> DEFINE release == Releases[notice.version]
    <3>1. release \in Versions /\ release.pre = <<>>
      <4>1. notice.version \in 1..Len(Releases)
        BY <2>1, <2>2, ReleasesCounted DEF Statuses, Known
      <4> QED
        BY <4>1, ReleasesAssumption, ElementOfSeq
    <3>2. release \in Version /\ Running \in Version
      BY <3>1, ReleasesAssumption, VersionsAreVersions
    <3>3. Newer(notice.version) <=> Compare(release, Running) > 0
      BY DEF Newer
    <3> HIDE DEF release
    <3>4. Compare(release, Running) > 0 <=> Compare(Running, release) = -1
      <4>1. /\ Compare(release, Running) \in Signs /\ Compare(Running, release) \in Signs
            /\ Compare(release, Running) = 0 - Compare(Running, release)
        BY <3>2, CompareFacts
      <4> QED
        BY <4>1 DEF Signs
    <3>5. Compare(Running, release) = -1 <=> Lower(Running, release)
      BY <3>1, <3>2, LowerIsCompare
    <3> QED
      BY <3>3, <3>4, <3>5 DEF release
  <2> QED
    BY <2>1, <2>2 DEF Ranked
<1> QED
  BY <1>1, CheckAlways, PTL
=============================================================================
