------------------------ MODULE BridgeLifecycleProofs ------------------------
(***************************************************************************)
(* Theorems about BridgeLifecycle, for any number of Companions and of     *)
(* `agentclip arm` commands, as long as nothing is killed: who decides     *)
(* about the bridge is alone, a bridge ends with the Companion that        *)
(* started it unless the call to end it failed, and not before; and while  *)
(* no Companion ends there is one bridge at most.                          *)
(***************************************************************************)
EXTENDS BridgeLifecycle, TLAPS

\* The lock file exists exactly while its creator decides, so it never gets old
\* and nobody takes it over.
LockIsHeld ==
    /\ crashes = 0 /\ ~old
    /\ \A p \in Starters : pc[p] \in Holding => lock = p
    /\ lock # Nobody => pc[lock] \in Holding
    /\ \A p \in Starters : pc[p] \notin {"remove", "reopen"}

Before   == {"new", "open", "stat", "load", "probe", "arm"}
Settled  == {"release", "register", "run", "quit"}

\* What the place of a starter says about the bridge it may have started.
Follows(p) ==
    /\ pc[p] \in Before => bridge[p] = "none"
    /\ pc[p] = "arm" => uses[p] # p
    /\ pc[p] = "await" => bridge[p] \in {"boot", "up", "dead"}
    /\ pc[p] = "fail" => bridge[p] = "dead"
    /\ pc[p] \in Settled => bridge[p] = IF uses[p] = p THEN "up" ELSE "none"
    /\ pc[p] = "gone" => /\ bridge[p] # "boot"
                         /\ p \in Companions /\ bridge[p] = "up" => p \in missed

ChildFollows == \A p \in Starters : Follows(p)

Inv == TypeOK /\ LockIsHeld /\ ChildFollows

LEMMA InitInv == Init => Inv
<1> SUFFICES ASSUME Init PROVE Inv
  OBVIOUS
<1>1. TypeOK
  <2>1. /\ old \in BOOLEAN /\ lock \in Starters \cup {Nobody}
        /\ state \in Starters \cup {Nobody}
    BY DEF Init
  <2>2. bridge \in [Starters -> {"none", "boot", "up", "told", "closing", "unsave", "idle", "dead"}]
    BY DEF Init
  <2>3. pc \in [Starters -> PCs]
    BY DEF Init, PCs
  <2>4. loaded \in [Starters -> Starters \cup {Nobody}] /\ uses \in [Starters -> Starters \cup {Nobody}]
    BY DEF Init
  <2>5. missed \subseteq Starters /\ stops \in 0..MaxStops /\ crashes \in 0..MaxCrashes
    BY BoundsAssumption DEF Init
  <2> QED
    BY <2>1, <2>2, <2>3, <2>4, <2>5 DEF TypeOK
<1>2. LockIsHeld
  BY NobodyAssumption DEF Init, LockIsHeld, Holding
<1>3. ChildFollows
  BY DEF Init, ChildFollows, Follows, Before, Settled
<1> QED
  BY <1>1, <1>2, <1>3 DEF Inv

LEMMA TypeNext == TypeOK /\ [Next]_vars => TypeOK'
<1> SUFFICES ASSUME TypeOK, [Next]_vars PROVE TypeOK'
  OBVIOUS
<1> USE BoundsAssumption DEF TypeOK, lockFile, bounds, PCs, Locking, Holding, Goto, Bridge
<1>1. ASSUME NEW p \in Starters, Begin(p) \/ Create(p) \/ StatLock(p) \/ RemoveLock(p)
      PROVE  TypeOK'
  BY <1>1 DEF Begin, Create, StatLock, RemoveLock
<1>2. ASSUME NEW p \in Starters, LoadState(p) \/ ArmImage(p) PROVE TypeOK'
  BY <1>2 DEF LoadState, ArmImage
<1>3. ASSUME NEW p \in Starters, EnsureBridge(p) PROVE TypeOK'
  BY <1>3 DEF EnsureBridge, Healthy
<1>4. ASSUME NEW p \in Starters, ChildAnswers(p) \/ ChildTimesOut(p) \/ ReleaseLock(p)
      PROVE  TypeOK'
  BY <1>4 DEF ChildAnswers, ChildTimesOut, ReleaseLock
<1>5. ASSUME NEW p \in Starters, Register(p) \/ Quit(p) PROVE TypeOK'
  BY <1>5 DEF Register, Quit
<1>6. ASSUME NEW p \in Starters, StartDaemon(p) \/ StopServer(p) \/ CompareState(p) \/ RemoveState(p)
      PROVE  TypeOK'
  BY <1>6 DEF StartDaemon, StopServer, CompareState, RemoveState
<1>7. ASSUME NEW p \in Starters, Kill(p) PROVE TypeOK'
  BY <1>7 DEF Kill
<1>8. ASSUME NEW p \in Starters, Stop(p) PROVE TypeOK'
  BY <1>8 DEF Stop
<1>9. CASE LockAges
  BY <1>9 DEF LockAges
<1>10. CASE UNCHANGED vars
  BY <1>10 DEF vars
<1> QED
  BY <1>1, <1>2, <1>3, <1>4, <1>5, <1>6, <1>7, <1>8, <1>9, <1>10
     DEF Next, Step, Daemon, Starters

\* A step of p that neither takes nor gives back the lock.
LEMMA AsideKeepsLock ==
    ASSUME Inv, NEW p \in Starters, NEW place, pc' = [pc EXCEPT ![p] = place],
           pc[p] \in Holding <=> place \in Holding, place \notin {"remove", "reopen"},
           UNCHANGED <<lock, old, crashes>>
    PROVE  LockIsHeld'
<1>1. \A q \in Starters : /\ pc'[q] \in Holding <=> pc[q] \in Holding
                          /\ pc'[q] \notin {"remove", "reopen"}
  BY DEF Inv, TypeOK, LockIsHeld
<1> QED
  BY <1>1 DEF Inv, TypeOK, LockIsHeld

LEMMA LockNext ==
    ASSUME Inv, crashes' = 0, [Next]_vars
    PROVE  LockIsHeld'
<1> USE DEF lockFile, bounds, Goto, Holding
<1>1. ASSUME NEW p \in Starters, Begin(p) PROVE LockIsHeld'
  BY <1>1, AsideKeepsLock DEF Begin
<1>2. ASSUME NEW p \in Starters, Create(p) PROVE LockIsHeld'
  <2>1. pc[p] = "open"
    BY <1>2 DEF Create, Inv, LockIsHeld
  <2>2. CASE lock = Nobody
    <3>1. /\ lock' = p /\ ~old' /\ crashes' = crashes
          /\ pc' = [pc EXCEPT ![p] = "load"]
      BY <1>2, <2>2 DEF Create
    <3>2. \A q \in Starters : pc[q] \notin Holding
      BY <2>2, NobodyAssumption DEF Inv, LockIsHeld
    <3>3. \A q \in Starters : pc'[q] \in Holding => q = p
      BY <3>1, <3>2 DEF Inv, TypeOK
    <3>4. pc'[p] = "load" /\ \A q \in Starters : pc'[q] \notin {"remove", "reopen"}
      BY <3>1 DEF Inv, TypeOK, LockIsHeld
    <3> QED
      BY <3>1, <3>3, <3>4 DEF Inv, LockIsHeld
  <2>3. CASE lock # Nobody
    <3>1. UNCHANGED <<lock, old, crashes>> /\ pc' = [pc EXCEPT ![p] = "stat"]
      BY <1>2, <2>1, <2>3 DEF Create
    <3> QED
      BY <2>1, <3>1, AsideKeepsLock
  <2> QED
    BY <2>2, <2>3
<1>3. ASSUME NEW p \in Starters, StatLock(p) PROVE LockIsHeld'
  <2>1. UNCHANGED <<lock, old, crashes>> /\ pc' = [pc EXCEPT ![p] = "gone"] /\ pc[p] = "stat"
    BY <1>3 DEF StatLock, Inv, LockIsHeld
  <2> QED
    BY <2>1, AsideKeepsLock
<1>4. ASSUME NEW p \in Starters, RemoveLock(p) PROVE LockIsHeld'
  BY <1>4 DEF RemoveLock, Inv, LockIsHeld
<1>5. ASSUME NEW p \in Starters, LoadState(p) \/ ArmImage(p) PROVE LockIsHeld'
  BY <1>5, AsideKeepsLock DEF LoadState, ArmImage
<1>6. ASSUME NEW p \in Starters, EnsureBridge(p) PROVE LockIsHeld'
  BY <1>6, AsideKeepsLock DEF EnsureBridge
<1>7. ASSUME NEW p \in Starters, ChildAnswers(p) \/ ChildTimesOut(p) PROVE LockIsHeld'
  BY <1>7, AsideKeepsLock DEF ChildAnswers, ChildTimesOut
<1>8. ASSUME NEW p \in Starters, ReleaseLock(p) PROVE LockIsHeld'
  <2>1. /\ pc[p] \in Holding /\ lock' = Nobody /\ ~old' /\ crashes' = crashes
        /\ \E place \in {"register", "gone"} : pc' = [pc EXCEPT ![p] = place]
    BY <1>8 DEF ReleaseLock
  <2>2. \A q \in Starters : pc'[q] \notin Holding /\ pc'[q] \notin {"remove", "reopen"}
    BY <2>1 DEF Inv, TypeOK, LockIsHeld
  <2> QED
    BY <2>1, <2>2, NobodyAssumption DEF Inv, LockIsHeld
<1>9. ASSUME NEW p \in Starters, Register(p) \/ Quit(p) \/ Stop(p) PROVE LockIsHeld'
  BY <1>9, AsideKeepsLock DEF Register, Quit, Stop
<1>10. ASSUME NEW p \in Starters, StartDaemon(p) \/ StopServer(p) \/ CompareState(p) \/ RemoveState(p)
       PROVE  LockIsHeld'
  BY <1>10 DEF StartDaemon, StopServer, CompareState, RemoveState, Inv, LockIsHeld
<1>11. ASSUME NEW p \in Starters, Kill(p) PROVE LockIsHeld'
  BY <1>11 DEF Kill, Inv, LockIsHeld
<1>12. CASE LockAges
  BY <1>12 DEF LockAges, Inv, LockIsHeld
<1>13. CASE UNCHANGED vars
  BY <1>13 DEF vars, Inv, LockIsHeld
<1> QED
  BY <1>1, <1>2, <1>3, <1>4, <1>5, <1>6, <1>7, <1>8, <1>9, <1>10, <1>11, <1>12, <1>13
     DEF Next, Step, Daemon, Starters

\* A step that touches only what is p's.
LEMMA OthersFollow ==
    ASSUME Inv, NEW p \in Starters, Follows(p)',
           \A q \in Starters \ {p} :
              pc'[q] = pc[q] /\ bridge'[q] = bridge[q] /\ uses'[q] = uses[q],
           missed \subseteq missed'
    PROVE  ChildFollows'
  BY DEF Inv, ChildFollows, Follows

\* A call that failed stays so.
LEMMA MissedGrows == ASSUME [Next]_vars PROVE missed \subseteq missed'
<1>1. ASSUME NEW p \in Starters, Begin(p) \/ Step(p) \/ Daemon(p) \/ Stop(p) \/ Kill(p)
      PROVE  missed' = missed \/ missed' = missed \cup {p}
  BY <1>1 DEF Begin, Step, Daemon, Create, StatLock, RemoveLock, LoadState, EnsureBridge, ArmImage,
              ChildAnswers, ChildTimesOut, ReleaseLock, Register, Quit, StartDaemon, StopServer,
              CompareState, RemoveState, Stop, Kill, bounds
<1>2. ASSUME LockAges \/ UNCHANGED vars PROVE missed' = missed
  BY <1>2 DEF LockAges, vars, bounds
<1> QED
  BY <1>1, <1>2 DEF Next, Starters

LEMMA FollowsNext ==
    ASSUME Inv, TypeOK', crashes' = 0, [Next]_vars
    PROVE  ChildFollows'
<1>0. missed \subseteq missed'
  BY MissedGrows
<1> USE <1>0 DEF bounds, Goto, Bridge, Before, Settled
<1>1. ASSUME NEW p \in Starters, Begin(p) PROVE ChildFollows'
  BY <1>1, OthersFollow DEF Begin, Inv, TypeOK, ChildFollows, Follows
<1>2. ASSUME NEW p \in Starters, Create(p) \/ StatLock(p) \/ RemoveLock(p) PROVE ChildFollows'
  <2>1. /\ pc[p] \in {"open", "stat"} /\ UNCHANGED <<bridge, uses>>
        /\ \E place \in {"load", "stat", "gone"} : pc' = [pc EXCEPT ![p] = place]
    BY <1>2 DEF Create, StatLock, RemoveLock, Inv, LockIsHeld
  <2>2. bridge[p] = "none"
    BY <2>1 DEF Inv, ChildFollows, Follows
  <2>3. Follows(p)'
    BY <2>1, <2>2 DEF Inv, TypeOK, Follows
  <2> QED
    BY <2>1, <2>3, OthersFollow DEF Inv, TypeOK
<1>3. ASSUME NEW p \in Starters, LoadState(p) PROVE ChildFollows'
  <2>1. Follows(p)'
    BY <1>3 DEF LoadState, Inv, TypeOK, ChildFollows, Follows
  <2> QED
    BY <1>3, <2>1, OthersFollow DEF LoadState, Inv, TypeOK
<1>4. ASSUME NEW p \in Starters, EnsureBridge(p) PROVE ChildFollows'
  <2>1. pc[p] = "probe" /\ bridge[p] = "none"
    BY <1>4 DEF EnsureBridge, Inv, ChildFollows, Follows
  <2>2. CASE Healthy(loaded[p])
    <3>1. /\ loaded[p] # p
          /\ uses' = [uses EXCEPT ![p] = loaded[p]] /\ bridge' = bridge
          /\ \E place \in {"arm", "release"} : pc' = [pc EXCEPT ![p] = place]
      BY <1>4, <2>1, <2>2 DEF EnsureBridge, Healthy
    <3>2. Follows(p)'
      BY <2>1, <3>1 DEF Inv, TypeOK, Follows
    <3> QED
      BY <3>1, <3>2, OthersFollow DEF Inv, TypeOK
  <2>3. CASE ~Healthy(loaded[p])
    <3>1. /\ bridge' = [bridge EXCEPT ![p] = "boot"] /\ uses' = uses
          /\ pc' = [pc EXCEPT ![p] = "await"]
      BY <1>4, <2>3 DEF EnsureBridge
    <3>2. Follows(p)'
      BY <3>1 DEF Inv, TypeOK, Follows
    <3> QED
      BY <3>1, <3>2, OthersFollow DEF Inv, TypeOK
  <2> QED
    BY <2>2, <2>3
<1>5. ASSUME NEW p \in Starters, ArmImage(p) PROVE ChildFollows'
  <2>1. /\ bridge[p] = "none" /\ uses[p] # p /\ UNCHANGED <<bridge, uses>>
        /\ pc' = [pc EXCEPT ![p] = "release"]
    BY <1>5 DEF ArmImage, Inv, ChildFollows, Follows
  <2>2. Follows(p)'
    BY <2>1 DEF Inv, TypeOK, Follows
  <2> QED
    BY <2>1, <2>2, OthersFollow DEF Inv, TypeOK
<1>6. ASSUME NEW p \in Starters, ChildAnswers(p) PROVE ChildFollows'
  <2>1. /\ bridge[p] = "up" /\ uses' = [uses EXCEPT ![p] = p] /\ bridge' = bridge
        /\ pc' = [pc EXCEPT ![p] = "release"]
    BY <1>6 DEF ChildAnswers, Healthy, Inv, ChildFollows, Follows
  <2>2. Follows(p)'
    BY <2>1 DEF Inv, TypeOK, Follows
  <2> QED
    BY <2>1, <2>2, OthersFollow DEF Inv, TypeOK
<1>7. ASSUME NEW p \in Starters, ChildTimesOut(p) PROVE ChildFollows'
  <2>1. /\ bridge' = [bridge EXCEPT ![p] = "dead"] /\ uses' = uses
        /\ pc' = [pc EXCEPT ![p] = "fail"]
    BY <1>7 DEF ChildTimesOut
  <2>2. Follows(p)'
    BY <2>1 DEF Inv, TypeOK, Follows
  <2> QED
    BY <2>1, <2>2, OthersFollow DEF Inv, TypeOK
<1>8. ASSUME NEW p \in Starters, ReleaseLock(p) PROVE ChildFollows'
  <2>1. UNCHANGED <<bridge, uses>>
    BY <1>8 DEF ReleaseLock
  <2>2. CASE pc[p] = "release" /\ p \in Companions
    <3>1. pc' = [pc EXCEPT ![p] = "register"]
      BY <1>8, <2>2 DEF ReleaseLock
    <3>2. Follows(p)'
      BY <2>1, <2>2, <3>1 DEF Inv, TypeOK, ChildFollows, Follows
    <3> QED
      BY <2>1, <3>1, <3>2, OthersFollow DEF Inv, TypeOK
  <2>3. CASE ~(pc[p] = "release" /\ p \in Companions)
    <3>1. pc' = [pc EXCEPT ![p] = "gone"] /\ pc[p] \in {"release", "fail"}
      BY <1>8, <2>3 DEF ReleaseLock
    <3>2. bridge[p] # "boot" /\ (p \in Companions => bridge[p] # "up")
      BY <2>3, <3>1 DEF Inv, ChildFollows, Follows
    <3>3. Follows(p)'
      BY <2>1, <3>1, <3>2 DEF Inv, TypeOK, Follows
    <3> QED
      BY <2>1, <3>1, <3>3, OthersFollow DEF Inv, TypeOK
  <2> QED
    BY <2>2, <2>3
<1>9. ASSUME NEW p \in Starters, Register(p) \/ Stop(p) PROVE ChildFollows'
  <2>1. /\ UNCHANGED <<bridge, uses>> /\ pc[p] \in Settled
        /\ \E place \in {"run", "quit"} : pc' = [pc EXCEPT ![p] = place]
    BY <1>9 DEF Register, Stop
  <2>2. Follows(p)'
    BY <2>1 DEF Inv, TypeOK, ChildFollows, Follows
  <2> QED
    BY <2>1, <2>2, OthersFollow DEF Inv, TypeOK
<1>10. ASSUME NEW p \in Starters, Quit(p) PROVE ChildFollows'
  <2>1. /\ pc[p] = "quit" /\ pc' = [pc EXCEPT ![p] = "gone"] /\ uses' = uses
        /\ bridge' = bridge \/ bridge' = [bridge EXCEPT ![p] = "told"]
    BY <1>10 DEF Quit
  <2>2. bridge[p] = IF uses[p] = p THEN "up" ELSE "none"
    BY <2>1 DEF Inv, ChildFollows, Follows
  <2>3. bridge'[p] # "boot" /\ (bridge'[p] = "up" => p \in missed')
    <3>1. CASE uses[p] # p
      BY <1>10, <2>1, <2>2, <3>1 DEF Quit
    <3>2. CASE uses[p] = p /\ bridge' = [bridge EXCEPT ![p] = "told"]
      BY <3>2 DEF Inv, TypeOK
    <3>3. CASE uses[p] = p /\ bridge' = bridge /\ p \in missed'
      BY <2>2, <3>3
    <3> QED
      BY <1>10, <3>1, <3>2, <3>3 DEF Quit
  <2>4. Follows(p)'
    BY <2>1, <2>3 DEF Inv, TypeOK, Follows
  <2> QED
    BY <2>1, <2>4, OthersFollow DEF Inv, TypeOK
<1>11. ASSUME NEW p \in Starters, StartDaemon(p) PROVE ChildFollows'
  <2>1. /\ bridge[p] = "boot" /\ UNCHANGED <<pc, uses>>
        /\ \E doing \in {"up", "dead"} : bridge' = [bridge EXCEPT ![p] = doing]
    BY <1>11 DEF StartDaemon
  <2>2. pc[p] \notin Before \cup Settled \cup {"fail", "gone"}
    BY <2>1 DEF Inv, ChildFollows, Follows
  <2>3. Follows(p)'
    BY <2>1, <2>2 DEF Inv, TypeOK, Follows
  <2> QED
    BY <2>1, <2>3, OthersFollow DEF Inv, TypeOK
<1>12. ASSUME NEW p \in Starters, StopServer(p) \/ CompareState(p) \/ RemoveState(p)
       PROVE  ChildFollows'
  <2>1. /\ bridge[p] \in {"told", "closing", "unsave"} /\ UNCHANGED <<pc, uses>>
        /\ \E doing \in {"closing", "unsave", "idle"} : bridge' = [bridge EXCEPT ![p] = doing]
    BY <1>12 DEF StopServer, CompareState, RemoveState
  <2>2. pc[p] \notin Before \cup Settled \cup {"await", "fail"}
    BY <2>1 DEF Inv, ChildFollows, Follows
  <2>3. Follows(p)'
    BY <2>1, <2>2 DEF Inv, TypeOK, Follows
  <2> QED
    BY <2>1, <2>3, OthersFollow DEF Inv, TypeOK
<1>13. ASSUME NEW p \in Starters, Kill(p) PROVE ChildFollows'
  BY <1>13 DEF Kill, Inv, LockIsHeld
<1>14. CASE LockAges \/ UNCHANGED vars
  <2>1. UNCHANGED <<pc, bridge, uses>>
    BY <1>14 DEF LockAges, vars
  <2> QED
    BY <2>1 DEF Inv, ChildFollows, Follows
<1> QED
  BY <1>1, <1>2, <1>3, <1>4, <1>5, <1>6, <1>7, <1>8, <1>9, <1>10, <1>11, <1>12, <1>13, <1>14
     DEF Next, Step, Daemon, Starters

LEMMA NextInv == Inv /\ crashes' = 0 /\ [Next]_vars => Inv'
  BY TypeNext, LockNext, FollowsNext DEF Inv

\* What every state satisfies: all is in order until somebody is killed.
InvUntilKilled == TypeOK /\ (crashes = 0 => Inv)

\* A process that was killed stays killed, and a Companion that ended ended.
LEMMA CountsGrow ==
    ASSUME TypeOK, [Next]_vars
    PROVE  /\ crashes' = 0 => crashes = 0
           /\ stops' = 0 => stops = 0
<1> USE DEF TypeOK, bounds
<1>1. ASSUME NEW p \in Starters, Stop(p) \/ Kill(p)
      PROVE  crashes' >= crashes /\ stops' >= stops
  BY <1>1, BoundsAssumption DEF Stop, Kill
<1>2. ASSUME NEW p \in Starters, Begin(p) \/ Step(p) \/ Daemon(p)
      PROVE  crashes' = crashes /\ stops' = stops
  BY <1>2 DEF Begin, Step, Daemon, Create, StatLock, RemoveLock, LoadState, EnsureBridge, ArmImage,
              ChildAnswers, ChildTimesOut, ReleaseLock, Register, Quit, StartDaemon, StopServer,
              CompareState, RemoveState
<1>3. ASSUME LockAges \/ UNCHANGED vars PROVE crashes' = crashes /\ stops' = stops
  BY <1>3 DEF LockAges, vars
<1> QED
  BY <1>1, <1>2, <1>3, BoundsAssumption DEF Next, Starters

LEMMA UntilKilled == Spec => []InvUntilKilled
<1>1. Init => InvUntilKilled
  BY InitInv DEF InvUntilKilled, Inv
<1>2. InvUntilKilled /\ [Next]_vars => InvUntilKilled'
  BY NextInv, TypeNext, CountsGrow DEF InvUntilKilled
<1> QED
  BY <1>1, <1>2, PTL DEF Spec

\* Every reachable state has the types of the files and processes it stands for.
THEOREM TypeCorrect == Spec => []TypeOK
<1>1. Init => TypeOK
  BY InitInv DEF Inv
<1> QED
  BY <1>1, TypeNext, PTL DEF Spec

\* Until something is killed, two processes never decide about the bridge at once.
THEOREM OneDecidesHolds == Spec => []OneDecides
<1>1. InvUntilKilled => OneDecides
  BY DEF InvUntilKilled, Inv, LockIsHeld, OneDecides
<1> QED
  BY UntilKilled, <1>1, PTL

-----------------------------------------------------------------------------
\* What a Companion knows of the bridge it uses: its owner is past its own start, and
\* the bridge is up as long as the owner has not ended.
Uses(c) ==
    /\ pc[c] \in {"register", "run", "quit"} => c \in Companions
    /\ pc[c] \in {"arm", "release", "register", "run"} =>
           /\ uses[c] \in Starters
           /\ uses[c] # c => pc[uses[c]] \in Settled \cup {"gone"}
    /\ pc[c] = "run" =>
           \/ bridge[uses[c]] = "up"
           \/ uses[c] \in Companions /\ pc[uses[c]] = "gone"
    /\ bridge[c] = "told" => c \in Companions /\ pc[c] = "gone"

OwnersKnown == \A c \in Starters : Uses(c)

\* A step of p: what the others know of the bridges they use stays true.
LEMMA OthersUse ==
    ASSUME TypeOK, OwnersKnown, NEW p \in Starters, Uses(p)',
           \A q \in Starters \ {p} :
              pc'[q] = pc[q] /\ bridge'[q] = bridge[q] /\ uses'[q] = uses[q],
           pc[p] \in Settled \cup {"gone"} => pc'[p] \in Settled \cup {"gone"},
           pc[p] = "gone" => pc'[p] = "gone",
           bridge[p] = "up" /\ pc[p] \in Settled \cup {"gone"} =>
              bridge'[p] = "up" \/ (p \in Companions /\ pc'[p] = "gone")
    PROVE  OwnersKnown'
<1> SUFFICES ASSUME NEW q \in Starters, q # p PROVE Uses(q)'
  BY DEF OwnersKnown
<1>1. Uses(q) /\ pc'[q] = pc[q] /\ uses'[q] = uses[q]
  BY DEF OwnersKnown
<1>2. \A r \in Starters : /\ pc[r] \in Settled \cup {"gone"} => pc'[r] \in Settled \cup {"gone"}
                          /\ pc[r] = "gone" => pc'[r] = "gone"
                          /\ bridge[r] = "up" /\ pc[r] \in Settled \cup {"gone"} =>
                                bridge'[r] = "up" \/ (r \in Companions /\ pc'[r] = "gone")
  OBVIOUS
<1>3. pc[q] = "run" => uses[q] \in Starters /\ pc[uses[q]] \in Settled \cup {"gone"}
  BY <1>1 DEF Uses, Settled
<1>4. pc[q] = "run" => \/ bridge'[uses[q]] = "up"
                       \/ uses[q] \in Companions /\ pc'[uses[q]] = "gone"
  BY <1>1, <1>2, <1>3 DEF Uses
<1> QED
  BY <1>1, <1>2, <1>4 DEF Uses

LEMMA OwnersNext ==
    ASSUME Inv, OwnersKnown, crashes' = 0, [Next]_vars
    PROVE  OwnersKnown'
<1> USE DEF bounds, Goto, Bridge, Settled
<1>0. TypeOK /\ TypeOK'
  BY TypeNext DEF Inv
<1>1. \A p \in Starters : Uses(p)
  BY DEF OwnersKnown
<1>2. ASSUME NEW p \in Starters,
             Begin(p) \/ Create(p) \/ StatLock(p) \/ RemoveLock(p) \/ LoadState(p)
      PROVE  OwnersKnown'
  <2>1. /\ \E place \in {"open", "load", "stat", "gone", "remove", "reopen", "probe"} :
              pc' = [pc EXCEPT ![p] = place]
        /\ pc[p] \in {"new", "open", "stat", "remove", "reopen", "load"}
        /\ UNCHANGED <<bridge, uses>>
    BY <1>2 DEF Begin, Create, StatLock, RemoveLock, LoadState
  <2>2. pc'[p] \in {"open", "load", "stat", "gone", "remove", "reopen", "probe"}
    BY <1>0, <2>1 DEF TypeOK
  <2>3. Uses(p)'
    BY <1>1, <2>1, <2>2 DEF Uses
  <2> QED
    BY <1>0, <2>1, <2>3, OthersUse DEF TypeOK
<1>3. ASSUME NEW p \in Starters, EnsureBridge(p) PROVE OwnersKnown'
  <2>1. pc[p] = "probe"
    BY <1>3 DEF EnsureBridge
  <2>2. CASE Healthy(loaded[p])
    <3>1. /\ uses' = [uses EXCEPT ![p] = loaded[p]] /\ bridge' = bridge
          /\ \E place \in {"arm", "release"} : pc' = [pc EXCEPT ![p] = place]
      BY <1>3, <2>2 DEF EnsureBridge
    <3>2. loaded[p] \in Starters /\ bridge[loaded[p]] \in {"up", "told"}
      BY <2>2 DEF Healthy
    <3>3. loaded[p] # p /\ pc[loaded[p]] \in Settled \cup {"gone"}
      BY <2>1, <3>2 DEF Inv, TypeOK, LockIsHeld, ChildFollows, Follows, Before, PCs, Locking, Holding
    <3>4. pc'[p] \in {"arm", "release"} /\ uses'[p] = loaded[p] /\ pc'[loaded[p]] = pc[loaded[p]]
      BY <1>0, <3>1, <3>3 DEF TypeOK
    <3>5. Uses(p)'
      BY <1>1, <2>1, <3>1, <3>2, <3>3, <3>4 DEF Uses
    <3> QED
      BY <1>0, <2>1, <3>1, <3>5, OthersUse DEF TypeOK
  <2>3. CASE ~Healthy(loaded[p])
    <3>1. /\ bridge' = [bridge EXCEPT ![p] = "boot"] /\ uses' = uses
          /\ pc' = [pc EXCEPT ![p] = "await"]
      BY <1>3, <2>3 DEF EnsureBridge
    <3>2. Uses(p)'
      BY <1>0, <3>1 DEF TypeOK, Uses
    <3> QED
      BY <1>0, <2>1, <3>1, <3>2, OthersUse DEF TypeOK
  <2> QED
    BY <2>2, <2>3
<1>4. ASSUME NEW p \in Starters, ArmImage(p) PROVE OwnersKnown'
  <2>1. pc[p] = "arm" /\ pc' = [pc EXCEPT ![p] = "release"] /\ UNCHANGED <<bridge, uses>>
    BY <1>4 DEF ArmImage
  <2>2. Uses(p)'
    BY <1>0, <1>1, <2>1 DEF TypeOK, Uses
  <2> QED
    BY <1>0, <2>1, <2>2, OthersUse DEF TypeOK
<1>5. ASSUME NEW p \in Starters, ChildAnswers(p) PROVE OwnersKnown'
  <2>1. /\ pc[p] = "await" /\ uses' = [uses EXCEPT ![p] = p] /\ bridge' = bridge
        /\ pc' = [pc EXCEPT ![p] = "release"]
    BY <1>5 DEF ChildAnswers
  <2>2. Uses(p)'
    BY <1>0, <1>1, <2>1 DEF TypeOK, Uses
  <2> QED
    BY <1>0, <2>1, <2>2, OthersUse DEF TypeOK
<1>6. ASSUME NEW p \in Starters, ChildTimesOut(p) PROVE OwnersKnown'
  <2>1. /\ pc[p] = "await" /\ bridge' = [bridge EXCEPT ![p] = "dead"] /\ uses' = uses
        /\ pc' = [pc EXCEPT ![p] = "fail"]
    BY <1>6 DEF ChildTimesOut
  <2>2. Uses(p)'
    BY <1>0, <1>1, <2>1 DEF TypeOK, Uses
  <2> QED
    BY <1>0, <2>1, <2>2, OthersUse DEF TypeOK
<1>7. ASSUME NEW p \in Starters, ReleaseLock(p) PROVE OwnersKnown'
  <2>1. CASE pc[p] = "release" /\ p \in Companions
    <3>1. pc' = [pc EXCEPT ![p] = "register"] /\ UNCHANGED <<bridge, uses>>
      BY <1>7, <2>1 DEF ReleaseLock
    <3>2. Uses(p)'
      BY <1>0, <1>1, <2>1, <3>1 DEF TypeOK, Uses
    <3> QED
      BY <1>0, <2>1, <3>1, <3>2, OthersUse DEF TypeOK
  <2>2. CASE ~(pc[p] = "release" /\ p \in Companions)
    <3>1. pc' = [pc EXCEPT ![p] = "gone"] /\ UNCHANGED <<bridge, uses>>
      BY <1>7, <2>2 DEF ReleaseLock
    <3>2. Uses(p)' /\ pc'[p] = "gone"
      BY <1>0, <1>1, <3>1 DEF TypeOK, Uses
    <3> QED
      BY <1>0, <3>1, <3>2, OthersUse DEF TypeOK
  <2> QED
    BY <2>1, <2>2
<1>8. ASSUME NEW p \in Starters, Register(p) \/ Stop(p) PROVE OwnersKnown'
  <2>1. /\ pc[p] \in {"register", "run"} /\ UNCHANGED <<bridge, uses>>
        /\ \/ pc' = [pc EXCEPT ![p] = "quit"]
           \/ pc' = [pc EXCEPT ![p] = "run"] /\ Healthy(uses[p])
    BY <1>8 DEF Register, Stop
  <2>2. Uses(p)'
    BY <1>0, <1>1, <2>1 DEF TypeOK, Uses, Healthy
  <2>3. pc'[p] \in Settled
    BY <1>0, <2>1 DEF TypeOK
  <2> QED
    BY <1>0, <2>1, <2>2, <2>3, OthersUse DEF TypeOK
<1>9. ASSUME NEW p \in Starters, Quit(p) PROVE OwnersKnown'
  <2>1. /\ pc[p] = "quit" /\ pc' = [pc EXCEPT ![p] = "gone"] /\ uses' = uses
        /\ bridge' = bridge \/ bridge' = [bridge EXCEPT ![p] = "told"]
    BY <1>9 DEF Quit
  <2>2. Uses(p)' /\ pc'[p] = "gone" /\ p \in Companions
    BY <1>0, <1>1, <2>1 DEF TypeOK, Uses
  <2> QED
    BY <1>0, <2>1, <2>2, OthersUse DEF TypeOK
<1>10. ASSUME NEW b \in Starters,
              StartDaemon(b) \/ StopServer(b) \/ CompareState(b) \/ RemoveState(b)
       PROVE  OwnersKnown'
  <2>1. /\ UNCHANGED <<pc, uses>> /\ bridge[b] # "up"
        /\ \E doing \in {"up", "dead", "closing", "unsave", "idle"} :
              bridge' = [bridge EXCEPT ![b] = doing]
    BY <1>10 DEF StartDaemon, StopServer, CompareState, RemoveState
  <2>2. \A a \in Starters : /\ bridge[a] = "up" => bridge'[a] = "up"
                            /\ bridge'[a] = "told" => bridge[a] = "told"
    BY <1>0, <2>1 DEF TypeOK
  <2> QED
    BY <1>1, <2>1, <2>2 DEF OwnersKnown, Uses
<1>11. ASSUME NEW p \in Starters, Kill(p) PROVE OwnersKnown'
  BY <1>11 DEF Kill, Inv, LockIsHeld
<1>12. CASE LockAges \/ UNCHANGED vars
  BY <1>12 DEF LockAges, vars, OwnersKnown, Uses
<1> QED
  BY <1>2, <1>3, <1>4, <1>5, <1>6, <1>7, <1>8, <1>9, <1>10, <1>11, <1>12
     DEF Next, Step, Daemon, Starters

OwnersUntilKilled == TypeOK /\ (crashes = 0 => Inv /\ OwnersKnown)

\* Until something is killed, a bridge is told to close when the Companion that started
\* it ends, unless that call fails, and a Companion that runs loses its bridge only with
\* the end of that one.
THEOREM BridgeFollowsOwnerHolds == Spec => []BridgeFollowsOwner
<1>1. Init => OwnersUntilKilled
  BY InitInv DEF OwnersUntilKilled, Inv, Init, OwnersKnown, Uses
<1>2. OwnersUntilKilled /\ [Next]_vars => OwnersUntilKilled'
  BY NextInv, TypeNext, CountsGrow, OwnersNext DEF OwnersUntilKilled
<1>3. OwnersUntilKilled => BridgeFollowsOwner
  BY DEF OwnersUntilKilled, Inv, ChildFollows, Follows, Settled, OwnersKnown, Uses, Healthy,
         BridgeFollowsOwner, Starters
<1> QED
  BY <1>1, <1>2, <1>3, PTL DEF Spec

-----------------------------------------------------------------------------
\* As long as Companions only come, what is used serves on and the state file names it.
NoneQuits == \A p \in Starters : pc[p] # "quit" /\ bridge[p] \notin {"told", "closing", "unsave"}

UsedServes ==
    \A p \in Starters :
        pc[p] \in {"arm", "release", "register"} =>
            /\ uses[p] \in Starters /\ bridge[uses[p]] = "up"
            /\ pc[uses[p]] \in Settled \cup {"gone"}

StateIsTrue ==
    /\ \A b \in Starters : bridge[b] = "up" => state = b
    /\ \A p \in Starters : pc[p] = "probe" => loaded[p] = state
    /\ \A p, b \in Starters : pc[p] = "await" /\ bridge[b] = "up" => b = p

Kept == NoneQuits /\ UsedServes /\ StateIsTrue

KeptInv == Inv /\ Kept

KeptUntilStopped == TypeOK /\ (crashes = 0 /\ stops = 0 => KeptInv)

\* A step of p that leaves the bridges and the state file alone.
LEMMA AsideKeepsBridges ==
    ASSUME KeptInv, TypeOK', NEW p \in Starters, NEW place, pc' = [pc EXCEPT ![p] = place],
           place \notin {"quit", "probe", "await", "arm", "release"},
           place = "register" => pc[p] = "release",
           pc[p] \in Settled \cup {"gone"} => place \in Settled \cup {"gone"},
           UNCHANGED <<bridge, state, loaded, uses>>
    PROVE  Kept'
<1> USE DEF KeptInv, Kept, Settled
<1>1. \A q \in Starters : pc'[q] = IF q = p THEN place ELSE pc[q]
  BY DEF Inv, TypeOK
<1>2. NoneQuits' /\ StateIsTrue'
  BY <1>1 DEF NoneQuits, StateIsTrue
<1>3. \A q \in Starters : pc[q] \in Settled \cup {"gone"} => pc'[q] \in Settled \cup {"gone"}
  BY <1>1
<1>4. \A q \in Starters : pc'[q] \in {"arm", "release", "register"}
                             => pc[q] \in {"arm", "release", "register"}
  BY <1>1
<1>5. UsedServes'
  BY <1>3, <1>4 DEF UsedServes
<1> QED
  BY <1>2, <1>5

LEMMA KeptNext ==
    ASSUME KeptInv, crashes' = 0, stops' = 0, [Next]_vars
    PROVE  KeptInv'
<1> USE DEF bounds, Goto, Bridge, Settled
<1>0. Inv' /\ TypeOK'
  BY NextInv DEF KeptInv, Kept, Inv
<1>1. \A p, q \in Starters : pc[p] \in Holding /\ pc[q] \in Holding => p = q
  BY DEF KeptInv, Kept, Inv, LockIsHeld
<1>2. \A b \in Starters : bridge[b] = "boot" => pc[b] = "await"
  BY DEF KeptInv, Kept, Inv, TypeOK, ChildFollows, Follows, Before, PCs, Locking, Holding, LockIsHeld
<1>3. ASSUME NEW p \in Starters, Begin(p) \/ Create(p) \/ StatLock(p) \/ RemoveLock(p) PROVE Kept'
  <2>1. /\ \E place \in {"open", "load", "stat", "gone", "remove", "reopen"} :
              pc' = [pc EXCEPT ![p] = place]
        /\ pc[p] \in {"new", "open", "stat", "remove", "reopen"}
        /\ UNCHANGED <<bridge, state, loaded, uses>>
    BY <1>3 DEF Begin, Create, StatLock, RemoveLock
  <2>2. PICK place \in {"open", "load", "stat", "gone", "remove", "reopen"} :
          pc' = [pc EXCEPT ![p] = place]
    BY <2>1
  <2>3. pc[p] \notin Settled \cup {"gone"}
    BY <2>1
  <2> QED
    BY <1>0, <2>1, <2>2, <2>3, AsideKeepsBridges
<1>4. ASSUME NEW p \in Starters, LoadState(p) PROVE Kept'
  <2>1. /\ pc[p] = "load" /\ pc' = [pc EXCEPT ![p] = "probe"]
        /\ loaded' = [loaded EXCEPT ![p] = state] /\ UNCHANGED <<bridge, state, uses>>
    BY <1>4 DEF LoadState
  <2>2. \A q \in Starters : /\ pc'[q] = IF q = p THEN "probe" ELSE pc[q]
                            /\ loaded'[q] = IF q = p THEN state ELSE loaded[q]
    BY <2>1 DEF KeptInv, Kept, Inv, TypeOK
  <2> QED
    BY <2>1, <2>2 DEF KeptInv, Kept, NoneQuits, UsedServes, StateIsTrue
<1>5. ASSUME NEW p \in Starters, EnsureBridge(p) PROVE Kept'
  <2>1. pc[p] = "probe" /\ loaded[p] = state /\ UNCHANGED <<state, loaded>>
    BY <1>5 DEF EnsureBridge, KeptInv, Kept, StateIsTrue
  <2>2. CASE Healthy(state)
    <3>1. /\ uses' = [uses EXCEPT ![p] = state] /\ bridge' = bridge
          /\ \E place \in {"arm", "release"} : pc' = [pc EXCEPT ![p] = place]
      BY <1>5, <2>1, <2>2 DEF EnsureBridge
    <3>2. state \in Starters /\ bridge[state] = "up"
      BY <2>2 DEF Healthy, KeptInv, Kept, NoneQuits
    <3>3. pc[state] \in Settled \cup {"gone"}
      BY <1>1, <2>1, <3>2
         DEF KeptInv, Kept, Inv, TypeOK, LockIsHeld, ChildFollows, Follows, Before, PCs, Locking, Holding
    <3>4. \A q \in Starters : /\ q # p => pc'[q] = pc[q] /\ uses'[q] = uses[q]
                              /\ pc'[p] \in {"arm", "release"} /\ uses'[p] = state
      BY <3>1 DEF KeptInv, Kept, Inv, TypeOK
    <3>5. \A q \in Starters : pc[q] \in Settled \cup {"gone"}
                                 => pc'[q] \in Settled \cup {"gone"}
      BY <2>1, <3>4
    <3>6. NoneQuits' /\ StateIsTrue'
      BY <2>1, <3>1, <3>4 DEF KeptInv, Kept, NoneQuits, StateIsTrue
    <3>7. UsedServes'
      BY <3>1, <3>2, <3>3, <3>4, <3>5 DEF KeptInv, Kept, UsedServes
    <3> QED
      BY <3>6, <3>7 DEF Kept
  <2>3. CASE ~Healthy(state)
    <3>1. /\ bridge' = [bridge EXCEPT ![p] = "boot"] /\ uses' = uses
          /\ pc' = [pc EXCEPT ![p] = "await"]
      BY <1>5, <2>1, <2>3 DEF EnsureBridge
    <3>2. \A q \in Starters : /\ pc'[q] = IF q = p THEN "await" ELSE pc[q]
                              /\ bridge'[q] = IF q = p THEN "boot" ELSE bridge[q]
      BY <3>1 DEF KeptInv, Kept, Inv, TypeOK
    <3>3. \A q \in Starters : bridge[q] # "up"
      BY <2>3 DEF KeptInv, Kept, StateIsTrue, Healthy
    <3>4. NoneQuits' /\ UsedServes'
      BY <3>1, <3>2, <3>3 DEF KeptInv, Kept, NoneQuits, UsedServes
    <3>5. StateIsTrue'
      BY <2>1, <3>1, <3>2, <3>3 DEF KeptInv, Kept, StateIsTrue
    <3> QED
      BY <3>4, <3>5 DEF Kept
  <2> QED
    BY <2>2, <2>3
<1>6. ASSUME NEW p \in Starters, ArmImage(p) PROVE Kept'
  <2>1. \A q \in Starters : pc'[q] = IF q = p THEN "release" ELSE pc[q]
    BY <1>6 DEF ArmImage, KeptInv, Kept, Inv, TypeOK
  <2>2. pc[p] = "arm" /\ UNCHANGED <<bridge, state, loaded, uses>>
    BY <1>6 DEF ArmImage
  <2> QED
    BY <2>1, <2>2 DEF KeptInv, Kept, NoneQuits, UsedServes, StateIsTrue
<1>7. ASSUME NEW p \in Starters, ChildAnswers(p) PROVE Kept'
  <2>1. /\ bridge[p] = "up" /\ UNCHANGED <<bridge, state, loaded>> /\ pc[p] = "await"
        /\ pc' = [pc EXCEPT ![p] = "release"] /\ uses' = [uses EXCEPT ![p] = p]
    BY <1>7 DEF ChildAnswers, Healthy, KeptInv, Kept, NoneQuits
  <2>2. \A q \in Starters : /\ pc'[q] = IF q = p THEN "release" ELSE pc[q]
                            /\ uses'[q] = IF q = p THEN p ELSE uses[q]
    BY <2>1 DEF KeptInv, Kept, Inv, TypeOK
  <2> QED
    BY <2>1, <2>2 DEF KeptInv, Kept, NoneQuits, UsedServes, StateIsTrue
<1>8. ASSUME NEW p \in Starters, ChildTimesOut(p) PROVE Kept'
  <2>1. /\ pc[p] = "await" /\ UNCHANGED <<state, loaded, uses>>
        /\ pc' = [pc EXCEPT ![p] = "fail"] /\ bridge' = [bridge EXCEPT ![p] = "dead"]
    BY <1>8 DEF ChildTimesOut
  <2>2. \A q \in Starters : /\ pc'[q] = IF q = p THEN "fail" ELSE pc[q]
                            /\ bridge'[q] = IF q = p THEN "dead" ELSE bridge[q]
    BY <2>1 DEF KeptInv, Kept, Inv, TypeOK
  <2> QED
    BY <2>1, <2>2 DEF KeptInv, Kept, NoneQuits, UsedServes, StateIsTrue
<1>9. ASSUME NEW p \in Starters, ReleaseLock(p) PROVE Kept'
  <2>1. /\ \E place \in {"register", "gone"} : /\ pc' = [pc EXCEPT ![p] = place]
                                               /\ place = "register" => pc[p] = "release"
        /\ UNCHANGED <<bridge, state, loaded, uses>>
    BY <1>9 DEF ReleaseLock
  <2> QED
    BY <1>0, <2>1, AsideKeepsBridges
<1>10. ASSUME NEW p \in Starters, Register(p) PROVE Kept'
  <2>1. /\ pc' = [pc EXCEPT ![p] = "run"] /\ UNCHANGED <<bridge, state, loaded, uses>>
    BY <1>10 DEF Register, Healthy, KeptInv, Kept, UsedServes
  <2> QED
    BY <1>0, <2>1, AsideKeepsBridges
<1>11. ASSUME NEW p \in Starters, StartDaemon(p) PROVE Kept'
  <2>1. /\ bridge[p] = "boot" /\ pc[p] = "await" /\ UNCHANGED <<pc, loaded, uses>>
        /\ \E doing \in {"up", "dead"} : /\ bridge' = [bridge EXCEPT ![p] = doing]
                                         /\ state' = IF doing = "up" THEN p ELSE state
    BY <1>2, <1>11 DEF StartDaemon
  <2>2. \A q \in Starters : /\ q # p => bridge'[q] = bridge[q] /\ bridge[q] # "up"
                            /\ bridge'[p] \in {"up", "dead"}
    BY <2>1 DEF KeptInv, Kept, Inv, TypeOK, StateIsTrue
  <2>3. \A q \in Starters : bridge[q] # "up"
    BY <2>1, <2>2
  <2>4. \A q \in Starters : pc[q] # "probe"
    BY <1>1, <2>1 DEF Holding
  <2>5. NoneQuits' /\ UsedServes'
    BY <2>1, <2>2, <2>3 DEF KeptInv, Kept, NoneQuits, UsedServes
  <2>6. StateIsTrue'
    <3>1. \A b \in Starters : bridge'[b] = "up" => b = p /\ state' = p
      BY <2>1, <2>2, <2>3 DEF KeptInv, Kept, Inv, TypeOK
    <3>2. \A q \in Starters : pc[q] = "await" => q = p
      BY <1>1, <2>1 DEF Holding
    <3> QED
      BY <2>1, <2>4, <3>1, <3>2 DEF StateIsTrue
  <2> QED
    BY <2>5, <2>6 DEF Kept
<1>12. ASSUME NEW p \in Starters,
              StopServer(p) \/ CompareState(p) \/ RemoveState(p) \/ Quit(p) \/ Stop(p)
              \/ Kill(p)
       PROVE  Kept'
  BY <1>12 DEF StopServer, CompareState, RemoveState, Quit, Stop, Kill, KeptInv, Kept, Inv, TypeOK, NoneQuits
<1>13. ASSUME LockAges \/ UNCHANGED vars PROVE Kept'
  BY <1>13 DEF LockAges, vars, KeptInv, Kept, NoneQuits, UsedServes, StateIsTrue
<1>14. Kept'
  BY <1>3, <1>4, <1>5, <1>6, <1>7, <1>8, <1>9, <1>10, <1>11, <1>12, <1>13
     DEF KeptInv, Next, Step, Daemon, Starters
<1> QED
  BY <1>0, <1>14 DEF KeptInv

\* Until something is killed, one process at a time decides about the bridge, and until
\* a Companion ends a host never has two bridges that serve, whoever starts when.
THEOREM OneBridgeHolds == Spec => []OneBridge
<1>1. Init => KeptUntilStopped
  BY InitInv
     DEF Init, KeptUntilStopped, KeptInv, Inv, Kept, NoneQuits, UsedServes, StateIsTrue
<1>2. KeptUntilStopped /\ [Next]_vars => KeptUntilStopped'
  BY KeptNext, TypeNext, CountsGrow DEF KeptUntilStopped
<1>3. KeptUntilStopped /\ OneDecides => OneBridge
  BY DEF KeptUntilStopped, KeptInv, Kept, StateIsTrue, OneBridge
<1> QED
  BY <1>1, <1>2, <1>3, OneDecidesHolds, PTL DEF Spec
=============================================================================
