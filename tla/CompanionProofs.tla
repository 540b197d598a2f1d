-------------------------- MODULE CompanionProofs ---------------------------
(***************************************************************************)
(* Theorems about the Companions of a host, for any number of them.        *)
(* ProfileStart: the start lock excludes until a process is killed, if     *)
(* none holds it for longer than Stale; a process gives up only for a      *)
(* rival; until a Companion stops, a profile has one at most.              *)
(* SnapshotWatcher: whatever fails, and with contents that come back, no   *)
(* watcher arms one copy more than twice.                                  *)
(***************************************************************************)
EXTENDS ProfileStart, SnapshotWatcher, TLAPS

LEMMA StartTypeInit == Init => TypeOK
  BY TimesAssumption, BoundsAssumption DEF Init, TypeOK, Instant, PCs

LEMMA StartTypeNext == TypeOK /\ [Next]_vars => TypeOK'
<1> SUFFICES ASSUME TypeOK, [Next]_vars PROVE TypeOK'
  OBVIOUS
<1> USE TimesAssumption, BoundsAssumption
<1>1. ASSUME NEW p \in Companions, Begin(p) PROVE TypeOK'
  BY <1>1 DEF Begin, TypeOK, Goto, Instant, PCs, Waiting, bounds
<1>2. ASSUME NEW p \in Companions, TryCreate(p) PROVE TypeOK'
  BY <1>2 DEF TryCreate, TypeOK, Goto, Instant, PCs, Waiting, Deciding, bounds
<1>3. ASSUME NEW p \in Companions,
             StatLock(p) \/ RemoveStale(p) \/ GiveUpOrSleep(p) \/ WakeUp(p)
      PROVE  TypeOK'
  BY <1>3 DEF StatLock, RemoveStale, GiveUpOrSleep, WakeUp, TypeOK, Goto, PCs, Waiting, bounds
<1>4. ASSUME NEW p \in Companions,
             LoadRuntime(p) \/ ProbeRuntime(p) \/ Prepare(p) \/ StartControl(p)
      PROVE  TypeOK'
  BY <1>4 DEF LoadRuntime, ProbeRuntime, Prepare, StartControl, TypeOK, Goto, PCs, Deciding, bounds
<1>5. ASSUME NEW p \in Companions, ReleaseStart(p) \/ CompareRuntime(p) \/ RemoveRuntime(p)
      PROVE  TypeOK'
  BY <1>5 DEF ReleaseStart, CompareRuntime, RemoveRuntime, TypeOK, Goto, PCs, bounds
<1>6. ASSUME NEW p \in Companions, Stop(p) \/ Kill(p) PROVE TypeOK'
  BY <1>6 DEF Stop, Kill, TypeOK, Goto, PCs, bounds
<1>7. CASE Tick
  BY <1>7 DEF Tick, TypeOK, Instant, PCs, Waiting, bounds
<1>8. CASE UNCHANGED vars
  BY <1>8 DEF TypeOK, vars, bounds
<1> QED
  BY <1>1, <1>2, <1>3, <1>4, <1>5, <1>6, <1>7, <1>8 DEF Next, Step

\* Every reachable state has the types of the files and variables it stands for.
THEOREM StartTypeCorrect == Spec => []TypeOK
<1> QED
  BY StartTypeInit, StartTypeNext, PTL DEF Spec
-----------------------------------------------------------------------------
(***************************************************************************)
(* While nobody is killed, the lock file exists exactly while a start is   *)
(* deciding, and is as old as that start's hold: it never looks stale, so  *)
(* nobody reaches the takeover.                                            *)
(***************************************************************************)
LockIsHeld ==
    /\ \A p \in Companions : pc[p] \in Deciding => /\ lock = since[p]
                                                   /\ now <= since[p] + HoldMax
    /\ lock # NoLock => \E p \in Companions : pc[p] \in Deciding

NoTakeover == \A p \in Companions : pc[p] # "remove"

LockInv == TypeOK /\ crashes = 0 /\ LockIsHeld /\ NoTakeover /\ OneStarter

\* What every state satisfies: the lock is in order until somebody is killed.
LockUntilKilled == TypeOK /\ (crashes = 0 => LockInv)

LEMMA LockInit == Init => LockInv
<1> SUFFICES ASSUME Init PROVE LockInv
  OBVIOUS
<1> QED
  BY StartTypeInit, TimesAssumption
     DEF Init, LockInv, LockIsHeld, NoTakeover, OneStarter, Deciding

\* A step of p that leaves the lock alone and does not enter or leave the
\* deciding part.
LEMMA AsideKeepsLock ==
    ASSUME LockInv, TypeOK', NEW p \in Companions, NEW place,
           pc' = [pc EXCEPT ![p] = place], place # "remove",
           pc[p] \in Deciding <=> place \in Deciding,
           UNCHANGED <<now, lock, since, crashes>>
    PROVE  LockInv'
<1>1. \A q \in Companions : /\ pc'[q] \in Deciding <=> pc[q] \in Deciding
                            /\ pc'[q] # "remove"
  BY DEF LockInv, TypeOK, NoTakeover
<1>2. LockIsHeld' /\ NoTakeover' /\ OneStarter'
  BY <1>1 DEF LockInv, LockIsHeld, NoTakeover, OneStarter
<1> QED
  BY <1>2 DEF LockInv

LEMMA LockNext ==
    ASSUME HoldMax <= Stale, LockInv, crashes' = 0, [Next]_vars
    PROVE  LockInv'
<1>1. TypeOK'
  BY StartTypeNext DEF LockInv
<1>2. ~LooksStale
  BY TimesAssumption DEF LooksStale, LockInv, TypeOK, LockIsHeld, Instant, NoLock
<1>3. ASSUME NEW p \in Companions, Begin(p) PROVE LockInv'
  BY <1>1, <1>3, AsideKeepsLock DEF Begin, Goto, Deciding, bounds
<1>4. ASSUME NEW p \in Companions, TryCreate(p) PROVE LockInv'
  <2>1. CASE lock # NoLock
    BY <1>1, <1>4, <2>1, AsideKeepsLock DEF TryCreate, Goto, Deciding, bounds
  <2>2. CASE lock = NoLock
    <3>1. \A q \in Companions : pc[q] \notin Deciding
      BY <2>2 DEF LockInv, LockIsHeld, TypeOK, Instant, NoLock
    <3>2. /\ lock' = now /\ since' = [since EXCEPT ![p] = now]
          /\ pc' = [pc EXCEPT ![p] = "check"] /\ UNCHANGED <<now, crashes>>
      BY <1>4, <2>2 DEF TryCreate, Goto, bounds
    <3>3. \A q \in Companions : pc'[q] \in Deciding <=> q = p
      BY <3>1, <3>2 DEF LockInv, TypeOK, Deciding
    <3>4. LockIsHeld'
      BY <3>2, <3>3, TimesAssumption DEF LockInv, LockIsHeld, TypeOK, Instant, NoLock
    <3>5. NoTakeover' /\ OneStarter'
      BY <3>2, <3>3 DEF LockInv, NoTakeover, OneStarter, TypeOK
    <3> QED
      BY <1>1, <3>2, <3>4, <3>5 DEF LockInv
  <2> QED
    BY <2>1, <2>2
<1>5. ASSUME NEW p \in Companions, StatLock(p) PROVE LockInv'
  BY <1>1, <1>2, <1>5, AsideKeepsLock DEF StatLock, Goto, Deciding, bounds
<1>6. ASSUME NEW p \in Companions, RemoveStale(p) PROVE LockInv'
  BY <1>6 DEF RemoveStale, LockInv, NoTakeover
<1>7. ASSUME NEW p \in Companions, GiveUpOrSleep(p) \/ WakeUp(p) PROVE LockInv'
  BY <1>1, <1>7, AsideKeepsLock DEF GiveUpOrSleep, WakeUp, Goto, Deciding, bounds
<1>8. ASSUME NEW p \in Companions,
             LoadRuntime(p) \/ ProbeRuntime(p) \/ Prepare(p) \/ StartControl(p)
      PROVE  LockInv'
  BY <1>1, <1>8, AsideKeepsLock
     DEF LoadRuntime, ProbeRuntime, Prepare, StartControl, Goto, Deciding, bounds
<1>9. ASSUME NEW p \in Companions, ReleaseStart(p) PROVE LockInv'
  <2>1. /\ pc[p] \in Deciding /\ lock' = NoLock /\ UNCHANGED <<now, since, crashes>>
        /\ \E place \in {"run", "gone"} : pc' = [pc EXCEPT ![p] = place]
    BY <1>9 DEF ReleaseStart, Goto, Deciding, bounds
  <2>2. \A q \in Companions : pc'[q] \notin Deciding /\ pc'[q] # "remove"
    BY <2>1 DEF LockInv, OneStarter, NoTakeover, TypeOK, Deciding
  <2> QED
    BY <1>1, <2>1, <2>2 DEF LockInv, LockIsHeld, NoTakeover, OneStarter
<1>10. ASSUME NEW p \in Companions, CompareRuntime(p) \/ RemoveRuntime(p) \/ Stop(p)
       PROVE  LockInv'
  BY <1>1, <1>10, AsideKeepsLock DEF CompareRuntime, RemoveRuntime, Stop, Goto, Deciding, bounds
<1>11. ASSUME NEW p \in Companions, Kill(p) PROVE LockInv'
  BY <1>11 DEF Kill, LockInv, TypeOK
<1>12. CASE Tick
  <2>1. /\ now' = now + 1 /\ UNCHANGED <<lock, since, crashes>>
        /\ \A q \in Companions : pc[q] \in Deciding => now < since[q] + HoldMax
        /\ \A q \in Companions : pc'[q] = pc[q] \/ (pc[q] = "sleep" /\ pc'[q] = "open")
    BY <1>12 DEF Tick, LockInv, TypeOK, bounds
  <2>2. \A q \in Companions : /\ pc'[q] \in Deciding <=> pc[q] \in Deciding
                              /\ pc'[q] # "remove"
    BY <2>1 DEF LockInv, NoTakeover, Deciding
  <2>3. \A q \in Companions : pc[q] \in Deciding => now + 1 <= since[q] + HoldMax
    BY <2>1, TimesAssumption DEF LockInv, TypeOK, Instant
  <2> QED
    BY <1>1, <2>1, <2>2, <2>3 DEF LockInv, LockIsHeld, NoTakeover, OneStarter
<1>13. CASE UNCHANGED vars
  BY <1>13 DEF vars, bounds, LockInv, TypeOK, LockIsHeld, NoTakeover, OneStarter
<1> QED
  BY <1>3, <1>4, <1>5, <1>6, <1>7, <1>8, <1>9, <1>10, <1>11, <1>12, <1>13 DEF Next, Step

\* A process that was killed stays killed, and a Companion that stopped stopped.
LEMMA CountsGrow ==
    ASSUME TypeOK, [Next]_vars
    PROVE  /\ crashes' = 0 => crashes = 0
           /\ stops' = 0 => stops = 0
<1> USE DEF TypeOK, bounds
<1>1. ASSUME NEW p \in Companions, Stop(p) \/ Kill(p)
      PROVE  crashes' >= crashes /\ stops' >= stops
  BY <1>1, BoundsAssumption DEF Stop, Kill
<1>2. ASSUME NEW p \in Companions, Begin(p) \/ Step(p)
      PROVE  crashes' = crashes /\ stops' = stops
  BY <1>2 DEF Begin, Step, TryCreate, StatLock, RemoveStale, GiveUpOrSleep, WakeUp, LoadRuntime,
              ProbeRuntime, Prepare, StartControl, ReleaseStart, CompareRuntime, RemoveRuntime
<1>3. ASSUME Tick \/ UNCHANGED vars PROVE crashes' = crashes /\ stops' = stops
  BY <1>3 DEF Tick, vars
<1> QED
  BY <1>1, <1>2, <1>3, BoundsAssumption DEF Next

\* Until somebody is killed, two starts never stand between the check and the claim
\* at once, if each is done before its lock looks stale.
THEOREM OneStarterHolds ==
    ASSUME HoldMax <= Stale
    PROVE  Spec => []OneStarter
<1>1. Init => LockUntilKilled
  BY LockInit, StartTypeInit DEF LockUntilKilled
<1>2. LockUntilKilled /\ [Next]_vars => LockUntilKilled'
  BY LockNext, StartTypeNext, CountsGrow DEF LockUntilKilled
<1>3. LockUntilKilled => OneStarter
  BY DEF LockUntilKilled, LockInv, OneStarter
<1> QED
  BY <1>1, <1>2, <1>3, PTL DEF Spec
-----------------------------------------------------------------------------
(***************************************************************************)
(* Until a Companion stops, the runtime file names the one that serves,    *)
(* and a start that got past its probe knows there is none.                *)
(***************************************************************************)
RuntimeIsTrue ==
    /\ stops = 0
    /\ \A p \in Companions : pc[p] \notin {"drain", "unsave"}
    /\ \A p \in Companions : pc[p] \in Serving <=> runtime = p
    /\ \A p \in Companions : pc[p] = "probe" => loaded[p] = runtime
    /\ \A p \in Companions : pc[p] \in {"prepare", "claim"} => runtime = Nobody

RunInv == LockInv /\ RuntimeIsTrue

RunUntilStopped == TypeOK /\ (crashes = 0 /\ stops = 0 => RunInv)

LEMMA RunNext ==
    ASSUME HoldMax <= Stale, RunInv, crashes' = 0, stops' = 0, [Next]_vars
    PROVE  RunInv'
<1>1. LockInv'
  BY LockNext DEF RunInv
<1> USE DEF RunInv, LockInv, TypeOK, bounds
<1>2. ASSUME NEW p \in Companions, NEW place, pc' = [pc EXCEPT ![p] = place],
             UNCHANGED <<runtime, stops>>,
             loaded' = loaded \/ loaded' = [loaded EXCEPT ![p] = runtime],
             pc[p] \in Serving <=> place \in Serving,
             place \notin {"drain", "unsave"},
             place = "probe" => loaded'[p] = runtime,
             place \in {"prepare", "claim"} => runtime = Nobody
      PROVE  RuntimeIsTrue'
  BY <1>2 DEF RuntimeIsTrue
<1>3. ASSUME NEW p \in Companions,
             Begin(p) \/ TryCreate(p) \/ StatLock(p) \/ RemoveStale(p)
             \/ GiveUpOrSleep(p) \/ WakeUp(p)
      PROVE  RuntimeIsTrue'
  BY <1>2, <1>3 DEF Begin, TryCreate, StatLock, RemoveStale, GiveUpOrSleep, WakeUp, Goto, Serving
<1>4. ASSUME NEW p \in Companions, LoadRuntime(p) PROVE RuntimeIsTrue'
  BY <1>2, <1>4 DEF LoadRuntime, Goto, Serving
<1>5. ASSUME NEW p \in Companions, ProbeRuntime(p) PROVE RuntimeIsTrue'
  <2>1. loaded[p] = runtime /\ (runtime \in Companions => pc[runtime] \in Serving)
    BY <1>5 DEF ProbeRuntime, RuntimeIsTrue
  <2>2. UNCHANGED <<runtime, stops, loaded>> /\ pc[p] = "probe"
    BY <1>5 DEF ProbeRuntime
  <2>3. CASE runtime \in Companions
    <3>1. pc' = [pc EXCEPT ![p] = "leave"]
      BY <1>5, <2>1, <2>3 DEF ProbeRuntime, Goto
    <3> QED
      BY <1>2, <2>2, <3>1 DEF Serving
  <2>4. CASE runtime = Nobody
    <3>1. pc' = [pc EXCEPT ![p] = "prepare"]
      BY <1>5, <2>1, <2>4, NobodyAssumption DEF ProbeRuntime, Goto
    <3> QED
      BY <1>2, <2>2, <2>4, <3>1 DEF Serving
  <2> QED
    BY <2>3, <2>4
<1>6. ASSUME NEW p \in Companions, Prepare(p) PROVE RuntimeIsTrue'
  BY <1>2, <1>6 DEF Prepare, Goto, Serving, RuntimeIsTrue
<1>7. ASSUME NEW p \in Companions, StartControl(p) PROVE RuntimeIsTrue'
  <2>1. \A q \in Companions \ {p} : pc[q] \notin Deciding /\ pc[q] \notin Serving
    BY <1>7, NobodyAssumption DEF StartControl, RuntimeIsTrue, OneStarter, Deciding
  <2>2. /\ runtime' = p /\ pc' = [pc EXCEPT ![p] = "unlock"]
        /\ UNCHANGED <<stops, loaded>>
    BY <1>7 DEF StartControl, Goto
  <2>3. \A q \in Companions \ {p} : pc'[q] = pc[q]
    BY <2>2
  <2>4. pc'[p] = "unlock"
    BY <2>2
  <2> QED
    BY <2>1, <2>2, <2>3, <2>4 DEF RuntimeIsTrue, Serving, Deciding
<1>8. ASSUME NEW p \in Companions, ReleaseStart(p) PROVE RuntimeIsTrue'
  <2>1. UNCHANGED <<runtime, stops, loaded>>
    BY <1>8 DEF ReleaseStart
  <2>2. CASE pc[p] = "unlock"
    <3>1. pc' = [pc EXCEPT ![p] = "run"]
      BY <1>8, <2>2 DEF ReleaseStart, Goto
    <3> QED
      BY <1>2, <2>1, <2>2, <3>1 DEF Serving
  <2>3. CASE pc[p] = "leave"
    <3>1. pc' = [pc EXCEPT ![p] = "gone"]
      BY <1>8, <2>3 DEF ReleaseStart, Goto
    <3> QED
      BY <1>2, <2>1, <2>3, <3>1 DEF Serving
  <2> QED
    BY <1>8, <2>2, <2>3 DEF ReleaseStart
<1>9. ASSUME NEW p \in Companions, CompareRuntime(p) \/ RemoveRuntime(p) \/ Stop(p) \/ Kill(p)
      PROVE  RuntimeIsTrue'
  BY <1>9 DEF CompareRuntime, RemoveRuntime, Stop, Kill, RuntimeIsTrue
<1>10. ASSUME Tick PROVE RuntimeIsTrue'
  <2>1. \A q \in Companions : pc'[q] = pc[q] \/ (pc[q] = "sleep" /\ pc'[q] = "open")
    BY <1>10 DEF Tick
  <2>2. UNCHANGED <<runtime, loaded, stops>>
    BY <1>10 DEF Tick
  <2> QED
    BY <2>1, <2>2 DEF RuntimeIsTrue, Serving
<1>11. ASSUME UNCHANGED vars PROVE RuntimeIsTrue'
  BY <1>11 DEF vars, RuntimeIsTrue
<1>12. RuntimeIsTrue'
  BY <1>3, <1>4, <1>5, <1>6, <1>7, <1>8, <1>9, <1>10, <1>11 DEF Next, Step
<1> HIDE DEF LockInv, TypeOK, bounds
<1> QED
  BY <1>1, <1>12

\* A profile has one Companion at most, until one of its processes is stopped or
\* killed.
THEOREM OneCompanionHolds ==
    ASSUME HoldMax <= Stale
    PROVE  Spec => []OneCompanion
<1>1. Init => RunUntilStopped
  BY LockInit, StartTypeInit, NobodyAssumption
     DEF Init, RunUntilStopped, RunInv, RuntimeIsTrue, Serving
<1>2. RunUntilStopped /\ [Next]_vars => RunUntilStopped'
  BY RunNext, StartTypeNext, CountsGrow DEF RunUntilStopped
<1>3. RunUntilStopped => OneCompanion
  BY DEF RunUntilStopped, RunInv, RuntimeIsTrue, OneCompanion
<1> QED
  BY <1>1, <1>2, <1>3, PTL DEF Spec

\* One start at a time, and so one Companion, for any number of starts.
THEOREM OnePerProfileHolds ==
    ASSUME HoldMax <= Stale
    PROVE  Spec => []OnePerProfile
<1>1. OneStarter /\ OneCompanion => OnePerProfile
  BY DEF OnePerProfile
<1> QED
  BY <1>1, OneStarterHolds, OneCompanionHolds, PTL
-----------------------------------------------------------------------------
(***************************************************************************)
(* Who starts alone.  A start without rivals meets no lock but a leftover  *)
(* made before it began; it looks at that at least once in each unit of    *)
(* time, and so sees it old before it gives up.                            *)
(***************************************************************************)
Alone(p) == Starting(p) /\ p \notin rivals

LonelyStart(p) ==
    /\ \A q \in Companions \ {p} : ~Starting(q)
    /\ pc[p] \in Waiting /\ lock # NoLock => lock + Wait <= deadline[p]
    /\ pc[p] \in {"stat", "remove", "wait"} => lock # NoLock
    /\ pc[p] = "wait" => /\ now <= lock + Stale + 1
                         /\ p \in polled => now <= lock + Stale

LonelyInv ==
    /\ TypeOK
    /\ lock <= now
    /\ \A p \in Companions : Alone(p) => LonelyStart(p)
LEMMA LonelyInit == Init => LonelyInv
<1> SUFFICES ASSUME Init PROVE LonelyInv
  OBVIOUS
<1>1. \A p \in Companions : ~Starting(p)
  BY DEF Init, Starting, Waiting, Deciding
<1> QED
  BY <1>1, StartTypeInit DEF Init, LonelyInv, Alone, NoLock

\* A step of p that is no start leaves a lonely start q lonely: while q starts, p
\* does not.
LEMMA OthersStayLonely ==
    ASSUME LonelyInv, NEW p \in Companions, NEW q \in Companions \ {p}, NEW place,
           pc' = [pc EXCEPT ![p] = place], rivals' = rivals,
           \/ Starting(p)
           \/ /\ place \notin Waiting \cup Deciding
              /\ UNCHANGED <<now, lock, deadline, polled>>,
           Alone(q)'
    PROVE  LonelyStart(q)'
<1>1. pc'[q] = pc[q] /\ pc'[p] = place
      /\ \A r \in Companions \ {p} : pc'[r] = pc[r]
  BY DEF LonelyInv, TypeOK
<1>2. Alone(q) /\ LonelyStart(q)
  BY <1>1 DEF Alone, Starting, LonelyInv
<1>3. ~Starting(p)
  BY <1>2 DEF LonelyStart
<1> QED
  BY <1>1, <1>2, <1>3 DEF LonelyStart, Starting

\* A step of p within its start.
LEMMA OwnStepStaysLonely ==
    ASSUME LonelyInv, NEW p \in Companions, Step(p), Alone(p)', Starting(p), LonelyStart(p)
    PROVE  LonelyStart(p)'
<1>1. \A q \in Companions \ {p} : pc'[q] = pc[q] /\ ~Starting(q) /\ pc'[q] \notin Waiting \cup Deciding
  <2>1. \A q \in Companions \ {p} : pc'[q] = pc[q]
    BY DEF Step, TryCreate, StatLock, RemoveStale, GiveUpOrSleep, WakeUp, LoadRuntime, ProbeRuntime,
           Prepare, StartControl, ReleaseStart, CompareRuntime, RemoveRuntime, Goto, LonelyInv, TypeOK
  <2> QED
    BY <2>1 DEF LonelyStart, Starting
<1>2. \A q \in Companions \ {p} : ~Starting(q)'
  BY <1>1 DEF Starting
<1>3. /\ now \in Nat /\ lock \in Int /\ deadline[p] \in Nat /\ Stale \in Nat /\ Wait \in Nat
      /\ lock <= now /\ pc[p] \in PCs
  BY TimesAssumption DEF LonelyInv, TypeOK, Instant, NoLock
<1>4. CASE TryCreate(p)
  <2>1. UNCHANGED <<now, deadline, polled>>
    BY <1>4 DEF TryCreate, bounds
  <2>2. CASE lock = NoLock
    <3>1. pc'[p] = "check"
      BY <1>4, <2>2 DEF TryCreate, Goto, LonelyInv, TypeOK
    <3> QED
      BY <1>2, <3>1 DEF LonelyStart, Waiting
  <2>3. CASE lock # NoLock
    <3>1. pc[p] = "open" /\ pc'[p] = "stat" /\ lock' = lock
      BY <1>4, <2>3 DEF TryCreate, Goto, LonelyInv, TypeOK
    <3> QED
      BY <1>2, <2>1, <2>3, <3>1 DEF LonelyStart, Waiting
  <2> QED
    BY <2>2, <2>3
<1>5. CASE StatLock(p)
  <2>1. /\ UNCHANGED <<now, lock, deadline, polled>> /\ pc[p] = "stat"
        /\ pc'[p] = IF LooksStale THEN "remove" ELSE "wait"
    BY <1>5 DEF StatLock, Goto, LonelyInv, TypeOK
  <2>2. lock # NoLock /\ lock + Wait <= deadline[p]
    BY <2>1 DEF LonelyStart, Waiting
  <2>3. pc'[p] = "wait" => now <= lock + Stale
    BY <1>3, <2>1, <2>2 DEF LooksStale
  <2> QED
    BY <1>2, <1>3, <2>1, <2>2, <2>3 DEF LonelyStart
<1>6. CASE RemoveStale(p)
  <2>1. pc[p] = "remove" /\ lock # NoLock
    BY <1>6 DEF RemoveStale, LonelyStart
  <2>2. ~ \E q \in Companions : pc[q] \in Deciding /\ since[q] = lock
    BY <2>1, <1>1 DEF Starting, Deciding
  <2>3. lock' = NoLock /\ pc'[p] = "open"
    BY <1>6, <2>1, <2>2 DEF RemoveStale, Goto, LonelyInv, TypeOK
  <2> QED
    BY <1>2, <2>3 DEF LonelyStart
<1>7. CASE GiveUpOrSleep(p)
  <2>1. /\ UNCHANGED <<now, lock, deadline>> /\ pc[p] = "wait"
        /\ pc'[p] \in {"gone", "sleep"}
    BY <1>7 DEF GiveUpOrSleep, Goto, LonelyInv, TypeOK
  <2> QED
    BY <1>2, <2>1 DEF LonelyStart, Waiting
<1>8. CASE WakeUp(p)
  <2>1. /\ UNCHANGED <<now, lock, deadline>> /\ pc[p] = "sleep" /\ pc'[p] = "open"
    BY <1>8 DEF WakeUp, Goto, LonelyInv, TypeOK
  <2> QED
    BY <1>2, <2>1 DEF LonelyStart, Waiting
<1>9. CASE LoadRuntime(p) \/ ProbeRuntime(p) \/ Prepare(p) \/ StartControl(p) \/ ReleaseStart(p)
  <2>1. pc'[p] \notin Waiting
    BY <1>9 DEF LoadRuntime, ProbeRuntime, Prepare, StartControl, ReleaseStart, Goto,
                LonelyInv, TypeOK, Waiting
  <2> QED
    BY <1>2, <2>1 DEF LonelyStart, Waiting
<1>10. CASE CompareRuntime(p) \/ RemoveRuntime(p)
  BY <1>10 DEF CompareRuntime, RemoveRuntime, Starting, Waiting, Deciding
<1> QED
  BY <1>4, <1>5, <1>6, <1>7, <1>8, <1>9, <1>10 DEF Step

\* Only a start that creates it changes the lock's age, and to now.
LEMMA LockIsOld ==
    ASSUME LonelyInv, [Next]_vars
    PROVE  lock' <= now'
<1> USE DEF LonelyInv, TypeOK, Instant, NoLock
<1>1. ASSUME NEW p \in Companions, TryCreate(p) PROVE lock' <= now'
  BY <1>1 DEF TryCreate
<1>2. ASSUME NEW p \in Companions, RemoveStale(p) \/ ReleaseStart(p) PROVE lock' <= now'
  BY <1>2 DEF RemoveStale, ReleaseStart
<1>3. ASSUME NEW p \in Companions,
             \/ Begin(p) \/ StatLock(p) \/ GiveUpOrSleep(p) \/ WakeUp(p) \/ LoadRuntime(p)
             \/ ProbeRuntime(p) \/ Prepare(p) \/ StartControl(p) \/ CompareRuntime(p)
             \/ RemoveRuntime(p) \/ Stop(p) \/ Kill(p)
      PROVE  lock' = lock /\ now' = now
  BY <1>3 DEF Begin, StatLock, GiveUpOrSleep, WakeUp, LoadRuntime, ProbeRuntime, Prepare,
              StartControl, CompareRuntime, RemoveRuntime, Stop, Kill
<1>4. ASSUME Tick PROVE lock' = lock /\ now' = now + 1
  BY <1>4 DEF Tick
<1>5. ASSUME UNCHANGED vars PROVE lock' = lock /\ now' = now
  BY <1>5 DEF vars
<1> QED
  BY <1>1, <1>2, <1>3, <1>4, <1>5 DEF Next, Step

LEMMA LonelyNext ==
    ASSUME Prompt = TRUE, LonelyInv, [Next]_vars
    PROVE  LonelyInv'
<1>1. TypeOK' /\ lock' <= now'
  BY StartTypeNext, LockIsOld DEF LonelyInv
<1> SUFFICES ASSUME NEW q \in Companions, Alone(q)'
             PROVE  LonelyStart(q)'
  BY <1>1 DEF LonelyInv
<1>2. ASSUME NEW p \in Companions, Begin(p) PROVE LonelyStart(q)'
  <2> DEFINE others == {r \in Companions \ {p} : Starting(r)}
  <2>1. /\ UNCHANGED <<now, lock, polled>>
        /\ deadline' = [deadline EXCEPT ![p] = now + Wait]
        /\ pc' = [pc EXCEPT ![p] = "open"]
        /\ rivals' = rivals \cup others \cup (IF others = {} THEN {} ELSE {p})
    BY <1>2 DEF Begin, Goto, bounds
  <2>2. CASE q = p
    <3>1. others = {}
      BY <2>1, <2>2 DEF Alone
    <3>2. \A r \in Companions \ {q} : ~Starting(r)'
      BY <2>1, <2>2, <3>1 DEF Starting, LonelyInv, TypeOK
    <3>3. pc'[q] = "open" /\ deadline'[q] = now + Wait
      BY <2>1, <2>2 DEF LonelyInv, TypeOK
    <3>4. lock + Wait <= now + Wait
      BY TimesAssumption DEF LonelyInv, TypeOK, Instant, NoLock
    <3> QED
      BY <2>1, <3>2, <3>3, <3>4 DEF LonelyStart
  <2>3. CASE q # p
    <3>1. Starting(q)
      BY <2>1, <2>3 DEF Alone, Starting, LonelyInv, TypeOK
    <3> QED
      BY <2>1, <2>3, <3>1 DEF Alone
  <2> QED
    BY <2>2, <2>3
<1>3. ASSUME NEW p \in Companions, Step(p) PROVE LonelyStart(q)'
  <2>1. /\ rivals' = rivals
        /\ \E place : pc' = [pc EXCEPT ![p] = place]
        /\ \/ Starting(p)
           \/ CompareRuntime(p) \/ RemoveRuntime(p)
    BY <1>3 DEF Step, TryCreate, StatLock, RemoveStale, GiveUpOrSleep, WakeUp, LoadRuntime,
                ProbeRuntime, Prepare, StartControl, ReleaseStart, CompareRuntime, RemoveRuntime, Goto,
                Starting, Waiting, Deciding
  <2>2. ASSUME CompareRuntime(p) \/ RemoveRuntime(p)
        PROVE  /\ \E place : /\ pc' = [pc EXCEPT ![p] = place]
                             /\ place \notin Waiting \cup Deciding
               /\ UNCHANGED <<now, lock, deadline, polled, rivals>>
    BY <2>2 DEF CompareRuntime, RemoveRuntime, Goto, Waiting, Deciding
  <2>3. CASE q # p
    BY <2>1, <2>2, <2>3, OthersStayLonely
  <2>4. CASE q = p
    <3>1. CASE Starting(p)
      <4>1. LonelyStart(p)
        BY <2>1, <2>4, <3>1 DEF Alone, LonelyInv
      <4> QED
        BY <1>3, <2>4, <3>1, <4>1, OwnStepStaysLonely
    <3>2. CASE CompareRuntime(p) \/ RemoveRuntime(p)
      <4>1. pc'[p] \notin Waiting \cup Deciding
        BY <2>2, <3>2 DEF LonelyInv, TypeOK
      <4> QED
        BY <2>4, <4>1 DEF Alone, Starting
    <3> QED
      BY <2>1, <3>1, <3>2
  <2> QED
    BY <2>3, <2>4
<1>4. ASSUME NEW p \in Companions, Stop(p) \/ Kill(p) PROVE LonelyStart(q)'
  <2>1. PICK place \in {"drain", "gone"} : pc' = [pc EXCEPT ![p] = place]
    BY <1>4 DEF Stop, Kill, Goto
  <2>2. /\ place \notin Waiting \cup Deciding
        /\ UNCHANGED <<now, lock, deadline, polled, rivals>>
    BY <1>4, <2>1 DEF Stop, Kill, Waiting, Deciding
  <2>3. q # p
    BY <2>1, <2>2 DEF Alone, Starting, LonelyInv, TypeOK
  <2> QED
    BY <2>1, <2>2, <2>3, OthersStayLonely
<1>5. CASE Tick
  <2>1. /\ now' = now + 1 /\ polled' = {}
        /\ UNCHANGED <<lock, pc, deadline, rivals>>
        /\ pc[q] \in Waiting => q \in polled
    BY <1>5 DEF Tick
  <2>2. LonelyStart(q)
    BY <2>1 DEF Alone, Starting, LonelyInv
  <2>3. \A r \in Companions \ {q} : ~Starting(r)'
    BY <2>1, <2>2 DEF LonelyStart, Starting
  <2>4. pc[q] = "wait" => now + 1 <= lock + Stale + 1
    BY <2>1, <2>2, TimesAssumption DEF LonelyStart, Waiting, LonelyInv, TypeOK, Instant, NoLock
  <2> QED
    BY <2>1, <2>2, <2>3, <2>4 DEF LonelyStart
<1>6. CASE UNCHANGED vars
  BY <1>6 DEF vars, Alone, LonelyStart, Starting, LonelyInv
<1> QED
  BY <1>2, <1>3, <1>4, <1>5, <1>6 DEF Next

\* For any number of processes, kills and leftovers: where waiting starts look at the
\* lock once in each unit of time and wait for longer than it takes to look old, as the
\* code's 25 and 20 seconds do, only a start with a rival gives up.
THEOREM GivesUpOnlyForRivalHolds ==
    ASSUME Prompt = TRUE, Stale < Wait
    PROVE  Spec => GivesUpOnlyForRival
<1> DEFINE ForRival == \A p \in Companions :
                          pc[p] = "wait" /\ pc'[p] = "gone" /\ crashes' = crashes => p \in rivals
<1>1. ASSUME LonelyInv, [Next]_vars PROVE ForRival
  <2> SUFFICES ASSUME NEW p \in Companions, pc[p] = "wait", pc'[p] = "gone",
                      crashes' = crashes, p \notin rivals
               PROVE  FALSE
    OBVIOUS
  <2>1. /\ LonelyStart(p)
        /\ lock + Wait <= deadline[p] /\ now <= lock + Stale + 1
    BY <1>1 DEF LonelyInv, Alone, Starting, LonelyStart, Waiting
  <2>2. ~(now > deadline[p])
    BY <1>1, <2>1, TimesAssumption DEF LonelyInv, TypeOK, Instant, NoLock
  <2>3. ASSUME NEW q \in Companions, Begin(q) \/ Stop(q) \/ Kill(q) PROVE FALSE
    BY <1>1, <2>3, BoundsAssumption DEF Begin, Stop, Kill, Goto, LonelyInv, TypeOK
  <2>4. ASSUME NEW q \in Companions, Step(q) PROVE FALSE
    <3>1. q = p
      BY <1>1, <2>4 DEF Step, TryCreate, StatLock, RemoveStale, GiveUpOrSleep, WakeUp, LoadRuntime,
           ProbeRuntime, Prepare, StartControl, ReleaseStart, CompareRuntime, RemoveRuntime, Goto, LonelyInv, TypeOK
    <3>2. GiveUpOrSleep(p)
      BY <2>4, <3>1 DEF Step, TryCreate, StatLock, RemoveStale, WakeUp, LoadRuntime,
           ProbeRuntime, Prepare, StartControl, ReleaseStart, CompareRuntime, RemoveRuntime
    <3> QED
      BY <1>1, <2>2, <3>2 DEF GiveUpOrSleep, Goto, LonelyInv, TypeOK
  <2>5. ASSUME Tick \/ UNCHANGED vars PROVE FALSE
    BY <2>5 DEF Tick, vars
  <2> QED
    BY <1>1, <2>3, <2>4, <2>5 DEF Next
<1>2. LonelyInv /\ [Next]_vars => [ForRival]_vars
  BY <1>1
<1>3. LonelyInv /\ [Next]_vars => LonelyInv'
  BY LonelyNext
<1>4. Spec => [][ForRival]_vars
  BY <1>2, <1>3, LonelyInit, PTL DEF Spec
<1> QED
  BY <1>4 DEF GivesUpOnlyForRival
-----------------------------------------------------------------------------
(* SnapshotWatcher.                                                        *)

\* How often a watcher knows to have armed a copy.
Known(w, k) == arms[w][k] - lost[w][k]

\* What a watcher holds was on the clipboard, and so was what it knows to have armed.
FromClipboard ==
    \A w \in Watchers :
        /\ data[w] <= clip
        /\ turn[w] # "poll" => clip > 0
        /\ turn[w] = "arm" => data[w] \in Copies
        /\ \A k \in Copies : Known(w, k) >= 1 => k <= clip

\* A turn that may arm a copy again has seen that copy, so it is the last.
SeenAgain ==
    \A w \in Watchers, k \in Copies : Known(w, k) >= 1 =>
        /\ turn[w] = "read" /\ k = clip => seen[w] = content[k]
        /\ turn[w] = "arm" /\ data[w] = k => seen[w] = content[k]

DoneWith ==
    \A w \in Watchers, k \in Copies : Known(w, k) >= 2 =>
        \/ clip = k /\ turn[w] = "poll" /\ last[w] = content[k]
        \/ clip > k /\ (turn[w] = "arm" => data[w] > k)

WatchInv == WatchTypeOK /\ FromClipboard /\ SeenAgain /\ DoneWith /\ RearmsAreFew

LEMMA WatchInvInit == WatchInit => WatchInv
<1> SUFFICES ASSUME WatchInit PROVE WatchInv
  OBVIOUS
<1>1. \A w \in Watchers, k \in Copies : arms[w][k] = 0
  BY DEF WatchInit
<1>5. \A w \in Watchers, k \in Copies : lost[w][k] = 0
  BY DEF WatchInit
<1>6. \A w \in Watchers, k \in Copies : Known(w, k) = 0
  BY <1>1, <1>5 DEF Known
<1>2. WatchTypeOK
  <2>1. [k \in Copies |-> 0] \in [Copies -> Nat]
    OBVIOUS
  <2>2. arms \in [Watchers -> [Copies -> Nat]] /\ lost \in [Watchers -> [Copies -> Nat]]
    BY <2>1 DEF WatchInit
  <2> QED
    <3>1. clip \in 0..MaxCopies /\ armed \in 0..MaxCopies /\ failures \in 0..MaxFailures
      BY CopiesAssumption DEF WatchInit
    <3>2. content \in [0..MaxCopies -> Contents \cup {Nothing}]
      BY DEF WatchInit
    <3>3. turn \in [Watchers -> {"poll", "read", "arm"}]
      BY DEF WatchInit
    <3>4. /\ last \in [Watchers -> Contents \cup {Nothing}]
          /\ seen \in [Watchers -> Contents \cup {Nothing}]
      BY DEF WatchInit
    <3>5. data \in [Watchers -> 0..MaxCopies]
      BY CopiesAssumption DEF WatchInit
    <3> QED
      BY <2>2, <3>1, <3>2, <3>3, <3>4, <3>5 DEF WatchTypeOK
<1>3. SeenAgain /\ DoneWith /\ RearmsAreFew
  BY <1>1, <1>5, <1>6 DEF SeenAgain, DoneWith, RearmsAreFew
<1>4. FromClipboard
  <2>1. clip = 0 /\ \A w \in Watchers : data[w] = 0 /\ turn[w] = "poll"
    BY DEF WatchInit
  <2> QED
    <3> SUFFICES ASSUME NEW w \in Watchers
                 PROVE  /\ data[w] <= clip /\ turn[w] = "poll"
                        /\ \A k \in Copies : ~(Known(w, k) >= 1)
      BY DEF FromClipboard
    <3>1. data[w] <= clip /\ turn[w] = "poll"
      BY <2>1
    <3>2. \A k \in Copies : ~(Known(w, k) >= 1)
      BY <1>6
    <3> QED
      BY <3>1, <3>2
<1> QED
  BY <1>2, <1>3, <1>4 DEF WatchInv

LEMMA WatchTypeNext == WatchTypeOK /\ FromClipboard /\ [WatchNext]_watchVars => WatchTypeOK'
<1> SUFFICES ASSUME WatchTypeOK, FromClipboard, [WatchNext]_watchVars PROVE WatchTypeOK'
  OBVIOUS
<1> USE CopiesAssumption DEF WatchTypeOK, board, history
<1>1. ASSUME NEW c \in Contents, Copy(c) PROVE WatchTypeOK'
  BY <1>1 DEF Copy
<1>2. ASSUME NEW w \in Watchers, Poll(w) PROVE WatchTypeOK'
  BY <1>2 DEF Poll, TurnsTo
<1>3. ASSUME NEW w \in Watchers, ReadSnapshot(w) PROVE WatchTypeOK'
  <2>1. turn' \in [Watchers -> {"poll", "read", "arm"}]
    <3>1. turn' = [turn EXCEPT ![w] = "arm"] \/ turn' = [turn EXCEPT ![w] = "poll"]
      BY <1>3 DEF ReadSnapshot, TurnsTo
    <3> QED
      BY <3>1
  <2>3. failures' \in 0..MaxFailures
    BY <1>3 DEF ReadSnapshot, Fail
  <2>2. data' \in [Watchers -> 0..MaxCopies]
    BY <1>3 DEF ReadSnapshot
  <2> QED
    BY <1>3, <2>1, <2>2, <2>3 DEF ReadSnapshot
<1>4. ASSUME NEW w \in Watchers, Arm(w) PROVE WatchTypeOK'
  <2>1. data[w] \in Copies
    BY <1>4 DEF Arm, FromClipboard
  <2>2. arms[w] \in [Copies -> Nat] /\ arms[w][data[w]] + 1 \in Nat
    BY <2>1
  <2>3. [arms[w] EXCEPT ![data[w]] = arms[w][data[w]] + 1] \in [Copies -> Nat]
    BY <2>2
  <2>4. [arms EXCEPT ![w][data[w]] = @ + 1] \in [Watchers -> [Copies -> Nat]]
    BY <2>3
  <2>9. lost[w] \in [Copies -> Nat] /\ lost[w][data[w]] + 1 \in Nat
    BY <2>1
  <2>10. [lost[w] EXCEPT ![data[w]] = lost[w][data[w]] + 1] \in [Copies -> Nat]
    BY <2>9
  <2>11. [lost EXCEPT ![w][data[w]] = @ + 1] \in [Watchers -> [Copies -> Nat]]
    BY <2>10
  <2>5. arms' \in [Watchers -> [Copies -> Nat]] /\ lost' \in [Watchers -> [Copies -> Nat]]
    BY <1>4, <2>4, <2>11 DEF Arm
  <2>6. turn' \in [Watchers -> {"poll", "read", "arm"}] /\ failures' \in 0..MaxFailures
    BY <1>4 DEF Arm, TurnsTo, Fail
  <2>7. last' \in [Watchers -> Contents \cup {Nothing}]
    BY <1>4 DEF Arm
  <2>8. armed' \in 0..MaxCopies
    BY <1>4 DEF Arm
  <2> QED
    BY <1>4, <2>5, <2>6, <2>7, <2>8 DEF Arm
<1>5. CASE UNCHANGED watchVars
  BY <1>5 DEF watchVars
<1> QED
  BY <1>1, <1>2, <1>3, <1>4, <1>5 DEF WatchNext, Turn

LEMMA WatchInvNext == WatchInv /\ [WatchNext]_watchVars => WatchInv'
<1> SUFFICES ASSUME WatchInv, [WatchNext]_watchVars PROVE WatchInv'
  OBVIOUS
<1>1. WatchTypeOK'
  BY WatchTypeNext DEF WatchInv
<1> DEFINE Rest == FromClipboard /\ SeenAgain /\ DoneWith /\ RearmsAreFew
<1> USE CopiesAssumption DEF WatchInv, WatchTypeOK, Copies, board, history, Known
<1>2. ASSUME NEW c \in Contents, Copy(c) PROVE Rest'
  <2>1. clip' = clip + 1 /\ \A k \in Copies : k <= clip => content'[k] = content[k]
    BY <1>2 DEF Copy
  <2>2. UNCHANGED <<turn, last, seen, data, arms, lost>>
    BY <1>2 DEF Copy
  <2>3. FromClipboard' /\ RearmsAreFew'
    BY <2>1, <2>2 DEF FromClipboard, RearmsAreFew
  <2>4. SeenAgain'
    BY <2>1, <2>2 DEF FromClipboard, SeenAgain
  <2>5. DoneWith'
    BY <2>1, <2>2 DEF FromClipboard, DoneWith
  <2> QED
    BY <2>3, <2>4, <2>5
<1>3. ASSUME NEW w \in Watchers, Poll(w) PROVE Rest'
  <2>1. /\ turn' = [turn EXCEPT ![w] = "read"] /\ seen' = [seen EXCEPT ![w] = content[clip]]
        /\ clip > 0 /\ content[clip] # last[w] /\ turn[w] = "poll"
        /\ UNCHANGED <<clip, content, last, data, arms, lost>>
    BY <1>3 DEF Poll, TurnsTo
  <2>2. FromClipboard' /\ RearmsAreFew'
    BY <2>1 DEF FromClipboard, RearmsAreFew
  <2>3. SeenAgain'
    BY <2>1 DEF SeenAgain
  <2>4. DoneWith'
    BY <2>1 DEF DoneWith
  <2> QED
    BY <2>2, <2>3, <2>4
<1>4. ASSUME NEW w \in Watchers, ReadSnapshot(w) PROVE Rest'
  <2>1. CASE turn' = [turn EXCEPT ![w] = "arm"] /\ data' = [data EXCEPT ![w] = clip]
    <3>1. turn[w] = "read" /\ UNCHANGED <<clip, content, last, seen, arms, lost>>
      BY <1>4 DEF ReadSnapshot
    <3>2. FromClipboard' /\ RearmsAreFew'
      BY <2>1, <3>1 DEF FromClipboard, RearmsAreFew
    <3>3. SeenAgain'
      BY <2>1, <3>1 DEF SeenAgain
    <3>4. DoneWith'
      BY <2>1, <3>1 DEF DoneWith
    <3> QED
      BY <3>2, <3>3, <3>4
  <2>2. CASE turn' = [turn EXCEPT ![w] = "poll"] /\ data' = data
    <3>1. turn[w] = "read" /\ UNCHANGED <<clip, content, last, seen, arms, lost>>
      BY <1>4 DEF ReadSnapshot
    <3> QED
      BY <2>2, <3>1 DEF FromClipboard, SeenAgain, DoneWith, RearmsAreFew
  <2> QED
    BY <1>4, <2>1, <2>2 DEF ReadSnapshot, TurnsTo
<1>5. ASSUME NEW w \in Watchers, Arm(w) PROVE Rest'
  <2>1. /\ turn[w] = "arm" /\ turn' = [turn EXCEPT ![w] = "poll"] /\ data[w] \in Copies
        /\ UNCHANGED <<clip, content, seen, data>>
    BY <1>5 DEF Arm, TurnsTo, FromClipboard
  <2>2. CASE UNCHANGED <<last, arms, lost>>
    BY <2>1, <2>2 DEF FromClipboard, SeenAgain, DoneWith, RearmsAreFew
  <2>4. CASE /\ UNCHANGED last
             /\ arms' = [arms EXCEPT ![w][data[w]] = @ + 1]
             /\ lost' = [lost EXCEPT ![w][data[w]] = @ + 1]
    <3>1. \A v \in Watchers, j \in Copies :
             /\ arms[v][j] \in Nat /\ lost[v][j] \in Nat
             /\ arms'[v][j] = IF v = w /\ j = data[w] THEN arms[v][j] + 1 ELSE arms[v][j]
             /\ lost'[v][j] = IF v = w /\ j = data[w] THEN lost[v][j] + 1 ELSE lost[v][j]
      BY <2>1, <2>4
    <3>2. \A v \in Watchers, j \in Copies : Known(v, j)' = Known(v, j)
      <4> SUFFICES ASSUME NEW v \in Watchers, NEW j \in Copies
                   PROVE  arms'[v][j] - lost'[v][j] = arms[v][j] - lost[v][j]
        OBVIOUS
      <4> HIDE DEF WatchInv, WatchTypeOK
      <4> QED
        BY <3>1
    <3>3. RearmsAreFew'
      <4> SUFFICES ASSUME NEW v \in Watchers, NEW j \in Copies
                   PROVE  arms'[v][j] <= 2 + lost'[v][j]
        BY DEF RearmsAreFew
      <4>1. arms[v][j] <= 2 + lost[v][j]
        BY DEF RearmsAreFew
      <4> HIDE DEF WatchInv, WatchTypeOK
      <4> QED
        BY <3>1, <4>1
    <3> HIDE DEF Known
    <3> QED
      BY <2>1, <2>4, <3>2, <3>3 DEF FromClipboard, SeenAgain, DoneWith
  <2>3. CASE /\ last' = [last EXCEPT ![w] = seen[w]]
             /\ arms' = [arms EXCEPT ![w][data[w]] = @ + 1]
             /\ lost' = lost
    <3> DEFINE k == data[w]
    <3>1. \A v \in Watchers, j \in Copies :
             /\ Known(v, j)' = IF v = w /\ j = k THEN Known(v, j) + 1 ELSE Known(v, j)
             /\ Known(v, j) \in Int
             /\ arms[v][j] \in Nat /\ lost[v][j] \in Nat
             /\ arms'[v][j] = IF v = w /\ j = k THEN arms[v][j] + 1 ELSE arms[v][j]
      <4>1. \A v \in Watchers, j \in Copies :
               /\ arms[v][j] \in Nat /\ lost[v][j] \in Nat
               /\ arms'[v][j] = IF v = w /\ j = k THEN arms[v][j] + 1 ELSE arms[v][j]
        BY <2>1, <2>3
      <4> QED
        BY <2>3, <4>1
    <3> HIDE DEF Known
    <3>2. k <= clip /\ Known(w, k) < 2
      <4>1. Known(w, k) \in Int
        BY <2>1, <3>1
      <4>2. ~(Known(w, k) >= 2)
        <5>1. Known(w, k) >= 2 => turn[w] = "poll" \/ data[w] > k
          BY <2>1 DEF DoneWith
        <5>2. k \in Nat /\ ~(data[w] > k)
          BY <2>1
        <5> QED
          BY <2>1, <5>1, <5>2
      <4> QED
        BY <2>1, <4>1, <4>2 DEF FromClipboard
    <3>3. Known(w, k) >= 1 => seen[w] = content[k]
      BY <2>1 DEF SeenAgain
    <3>4. FromClipboard'
      BY <2>1, <3>1, <3>2 DEF FromClipboard
    <3>5. SeenAgain'
      <4> SUFFICES ASSUME NEW v \in Watchers, NEW j \in Copies, Known(v, j)' >= 1
                   PROVE  /\ turn'[v] = "read" /\ j = clip' => seen'[v] = content'[j]
                          /\ turn'[v] = "arm" /\ data'[v] = j => seen'[v] = content'[j]
        BY DEF SeenAgain
      <4>1. CASE v = w
        BY <2>1, <4>1
      <4>2. CASE v # w
        BY <2>1, <3>1, <4>2 DEF SeenAgain
      <4> QED
        BY <4>1, <4>2
    <3>6. DoneWith'
      <4> SUFFICES ASSUME NEW v \in Watchers, NEW j \in Copies, Known(v, j)' >= 2
                   PROVE  \/ clip' = j /\ turn'[v] = "poll" /\ last'[v] = content'[j]
                          \/ clip' > j /\ (turn'[v] = "arm" => data'[v] > j)
        BY DEF DoneWith
      <4>1. CASE v = w /\ j = k
        <5>1. Known(w, k) >= 1
          BY <3>1, <4>1
        <5>2. last'[w] = content[k]
          BY <2>1, <2>3, <3>3, <5>1
        <5> QED
          BY <2>1, <3>2, <4>1, <5>2
      <4>2. CASE v = w /\ j # k
        BY <2>1, <2>3, <3>1, <4>2 DEF DoneWith
      <4>3. CASE v # w
        BY <2>1, <2>3, <3>1, <4>3 DEF DoneWith
      <4> QED
        BY <4>1, <4>2, <4>3
    <3>7. RearmsAreFew'
      <4> SUFFICES ASSUME NEW v \in Watchers, NEW j \in Copies PROVE arms'[v][j] <= 2 + lost'[v][j]
        BY DEF RearmsAreFew
      <4>1. arms[v][j] <= 2 + lost[v][j]
        BY DEF RearmsAreFew
      <4>2. CASE v = w /\ j = k
        <5>1. arms[w][k] - lost[w][k] < 2
          BY <3>2 DEF Known
        <5>2. /\ arms[w][k] \in Nat /\ lost[w][k] \in Nat
              /\ arms'[w][k] = arms[w][k] + 1
          BY <2>1, <3>1
        <5> HIDE DEF WatchInv, WatchTypeOK
        <5>3. arms'[w][k] <= 2 + lost[w][k]
          BY <5>1, <5>2
        <5> QED
          BY <2>3, <4>2, <5>3
      <4>3. CASE ~(v = w /\ j = k)
        BY <2>3, <3>1, <4>1, <4>3
      <4> QED
        BY <4>2, <4>3
    <3> QED
      BY <3>4, <3>5, <3>6, <3>7
  <2> QED
    BY <1>5, <2>2, <2>3, <2>4 DEF Arm
<1>6. ASSUME UNCHANGED watchVars PROVE Rest'
  <2>1. UNCHANGED <<clip, content, turn, last, seen, data, arms, lost>>
    BY <1>6 DEF watchVars
  <2> QED
    BY <2>1 DEF FromClipboard, SeenAgain, DoneWith, RearmsAreFew
<1>7. Rest'
  BY <1>2, <1>3, <1>4, <1>5, <1>6 DEF WatchNext, Turn
<1> HIDE DEF WatchTypeOK
<1> QED
  BY <1>1, <1>7

\* Every reachable state has the types of the variables it stands for.
THEOREM WatchTypeCorrect == WatchSpec => []WatchTypeOK
<1>1. WatchInv => WatchTypeOK
  BY DEF WatchInv
<1> QED
  BY WatchInvInit, WatchInvNext, <1>1, PTL DEF WatchSpec

\* No watcher arms one copy more than twice and once more for each answer it lost, so
\* an item the agent has taken does not come back without end, however the clipboard
\* changes under the watcher.
THEOREM RearmsAreFewHolds == WatchSpec => []RearmsAreFew
<1>1. WatchInv => RearmsAreFew
  BY DEF WatchInv
<1> QED
  BY WatchInvInit, WatchInvNext, <1>1, PTL DEF WatchSpec
=============================================================================
