----------------------------- MODULE SetupProofs -----------------------------
(***************************************************************************)
(* Theorems about `agentclip setup` (Setup), for any number of agents,     *)
(* processes and runs; and about the installation it does on the server    *)
(* (RemoteInstall), for any number of machines that install at once.       *)
(***************************************************************************)
EXTENDS Setup, RemoteInstall, TLAPS

(***************************************************************************)
(* Setup.  The key: what the profile or this setup goes by is authorized.  *)
(* The token: who has been configured has this setup's, unless a command   *)
(* for another profile put the file back.  The Companions: one at most     *)
(* answers, those that setup found are stopping before the pairing is      *)
(* touched, and the one it started has read the new token, if any.         *)
(***************************************************************************)
Early   == {"check", "makeKey", "bootstrap", "verify", "install", "probe", "failed"}
Stopped == {"mint", "detect", "remove", "add", "save", "start", "await"}

KeyInOrder == profile.key \/ identity => key = "authorized"

TokensInOrder ==
    /\ pc \in Stopped \ {"mint"} => token = minted
    /\ pc \in {"detect", "remove", "add"} => ~options.skipAgent
    /\ pc \in {"start", "await", "done"} => token = minted /\ profile.token = token
    /\ pc = "add" => agent \in left

EntriesInOrder ==
    ~options.skipAgent =>
        /\ pc \in {"remove", "add"} =>
              \A a \in options.agents \ left : a \notin undone => entry[a] = token
        /\ pc \in {"save", "start", "await", "done"} =>
              \A a \in options.agents : a \notin undone => entry[a] = token

Alone == \A p, q \in Healthy : p = q

SeenInOrder ==
    /\ seen \subseteq Healthy
    /\ pc \in Stopped => \A p \in seen : comp[p].pc = "stopping"

ChildInOrder ==
    pc = "await" => /\ child \in Procs
                    /\ comp[child].pc \in {"off", "new"} \/ comp[child].token = profile.token

SetupInv ==
    /\ TypeOK
    /\ KeyInOrder /\ TokensInOrder /\ EntriesInOrder
    /\ Alone /\ SeenInOrder /\ ChildInOrder

LEMMA SelectedAreAgents == ASSUME TypeOK PROVE options.agents \subseteq Agents
BY DEF TypeOK, Options

LEMMA SetupInvInit == Init => SetupInv
<1> SUFFICES ASSUME Init PROVE SetupInv
  OBVIOUS
<1>1. TypeOK
  <2>1. 0 \in 0..MaxSetups
    BY BoundsAssumption
  <2>2. DOMAIN copies = {} /\ undone = {}
    BY DEF Init
  <2>3. ownKey \in BOOLEAN
    BY KeysAssumption DEF Init
  <2>4. comp \in [Procs -> [pc: {"off", "new", "loaded", "starting", "serving", "stopping"},
                           token: 0..MaxSetups]]
    BY <2>1 DEF Init
  <2> QED
    BY <2>1, <2>2, <2>3, <2>4 DEF Init, TypeOK, Ended, Options
<1>2. KeyInOrder /\ TokensInOrder /\ EntriesInOrder
  BY DEF Init, KeyInOrder, TokensInOrder, EntriesInOrder, Stopped
<1>3. Alone /\ SeenInOrder /\ ChildInOrder
  BY DEF Init, Alone, SeenInOrder, ChildInOrder, Stopped, Healthy
<1> QED
  BY <1>1, <1>2, <1>3 DEF SetupInv

\* Of a Companion's processes one changes; what setup does is as it was.
LEMMA ProcessMoves ==
    ASSUME SetupInv, NEW p \in Procs,
           NEW new \in [pc: {"off", "new", "loaded", "starting", "serving", "stopping"},
                        token: 0..MaxSetups],
           comp' = [comp EXCEPT ![p] = new],
           (seen' = seen /\ (p \in seen => new.pc = "stopping")) \/ seen' = seen \ {p},
           startLock' \in Procs \cup {NoProc},
           UNCHANGED <<pc, options, identity, token, left, agent, child, minted, profile,
                       entry, copies, undone, key, ownKey>>,
           new.pc = "serving" => Healthy = {},
           new.pc = "stopping" => p \in Healthy,
           new.pc \in {"off", "new"} \/ new.token = profile.token
              \/ (comp[p].pc \notin {"off", "new"} /\ new.token = comp[p].token)
    PROVE  SetupInv'
<1>1. comp' \in [Procs -> [pc: {"off", "new", "loaded", "starting", "serving", "stopping"},
                           token: 0..MaxSetups]]
  BY DEF SetupInv, TypeOK
<1>2. TypeOK'
  BY <1>1 DEF SetupInv, TypeOK
<1>3. comp'[p] = new /\ \A q \in Procs : q # p => comp'[q] = comp[q]
  BY DEF SetupInv, TypeOK
<1>4. KeyInOrder' /\ TokensInOrder' /\ EntriesInOrder'
  BY DEF SetupInv, KeyInOrder, TokensInOrder, EntriesInOrder
<1>5. Alone'
  BY <1>3 DEF SetupInv, Alone, Healthy
<1>6. SeenInOrder'
  BY <1>3 DEF SetupInv, SeenInOrder, Healthy
<1>7. ChildInOrder'
  BY <1>3 DEF SetupInv, ChildInOrder
<1> QED
  BY <1>2, <1>4, <1>5, <1>6, <1>7 DEF SetupInv

LEMMA ProcessKeepsInv ==
    ASSUME SetupInv, NEW p \in Procs, UserStart(p) \/ UserStop(p) \/ Own(p)
    PROVE  SetupInv'
<1>1. UNCHANGED <<pc, options, identity, token, left, agent, child, minted, profile,
                  entry, copies, undone, key, ownKey>>
  BY DEF UserStart, UserStop, Own, LoadProfile, Lock, Serve, Close, Others, cmd, server, files
<1>2. startLock' \in Procs \cup {NoProc}
  BY DEF UserStart, UserStop, Own, LoadProfile, Lock, Serve, Close, Release, SetupInv, TypeOK
<1>3. /\ comp[p] \in [pc: {"off", "new", "loaded", "starting", "serving", "stopping"},
                      token: 0..MaxSetups]
      /\ seen \subseteq Healthy
      /\ profile.token \in 0..MaxSetups
  BY DEF SetupInv, TypeOK, SeenInOrder
<1>4. CASE Off(p)
  <2>1. /\ comp' = [comp EXCEPT ![p] = [pc |-> "off", token |-> 0]]
        /\ seen' = seen \ {p}
    BY <1>4 DEF Off
  <2>2. 0 \in 0..MaxSetups
    BY BoundsAssumption
  <2> QED
    BY <1>1, <1>2, <2>1, <2>2, ProcessMoves
<1>5. ASSUME NEW to \in {"new", "starting", "serving", "stopping"}, Becomes(p, to),
             to = "new" => comp[p].pc = "off",
             to = "starting" => comp[p].pc = "loaded",
             to = "serving" => comp[p].pc = "starting" /\ Healthy = {},
             to = "stopping" => comp[p].pc = "serving"
      PROVE  SetupInv'
  <2> DEFINE new == [comp[p] EXCEPT !.pc = to]
  <2>1. comp' = [comp EXCEPT ![p] = new] /\ seen' = seen
    BY <1>5 DEF Becomes, SetupInv, TypeOK
  <2>2. /\ new \in [pc: {"off", "new", "loaded", "starting", "serving", "stopping"},
                    token: 0..MaxSetups]
        /\ new.pc = to /\ new.token = comp[p].token
    BY <1>3
  <2>3. p \in seen => to = "stopping"
    BY <1>3, <1>5 DEF Healthy
  <2>4. to = "stopping" => p \in Healthy
    BY <1>5 DEF Healthy
  <2> HIDE DEF new
  <2> QED
    BY <1>1, <1>2, <1>5, <2>1, <2>2, <2>3, <2>4, ProcessMoves
<1>6. CASE /\ In(p, "new")
           /\ comp' = [comp EXCEPT ![p] = [pc |-> "loaded", token |-> profile.token]]
           /\ UNCHANGED seen
  <2>1. p \notin seen
    BY <1>3, <1>6 DEF In, Healthy
  <2> QED
    BY <1>1, <1>2, <1>3, <1>6, <2>1, ProcessMoves
<1>7. CASE UserStart(p)
  BY <1>5, <1>7 DEF UserStart, In
<1>8. CASE UserStop(p)
  BY <1>5, <1>8 DEF UserStop, In
<1>9. CASE LoadProfile(p)
  BY <1>4, <1>6, <1>9 DEF LoadProfile
<1>10. CASE Lock(p)
  BY <1>4, <1>5, <1>10 DEF Lock, In
<1>11. CASE Serve(p)
  BY <1>4, <1>5, <1>11 DEF Serve, In
<1>12. CASE Close(p)
  BY <1>4, <1>12 DEF Close
<1> QED
  BY <1>7, <1>8, <1>9, <1>10, <1>11, <1>12 DEF Own

LEMMA FileKeepsInv ==
    ASSUME SetupInv, NEW a \in FileAgents, ReadFile(a) \/ ReplaceFile(a)
    PROVE  SetupInv'
<1>1. /\ UNCHANGED <<pc, options, identity, token, left, agent, child, minted, profile,
                     key, ownKey, comp, startLock, seen>>
      /\ a \in Agents
  BY AgentAssumption DEF ReadFile, ReplaceFile, Aside, cmd, procs
<1>2. KeyInOrder' /\ TokensInOrder' /\ Alone' /\ SeenInOrder' /\ ChildInOrder'
  BY <1>1 DEF SetupInv, KeyInOrder, TokensInOrder, Alone, SeenInOrder, ChildInOrder, Healthy
<1>3. CASE ReadFile(a)
  <2>1. /\ copies' = [b \in DOMAIN copies \cup {a} |-> IF b = a THEN entry[a] ELSE copies[b]]
        /\ UNCHANGED <<entry, undone>>
    BY <1>3 DEF ReadFile
  <2>2. DOMAIN copies' \subseteq FileAgents /\ \A b \in DOMAIN copies' : copies'[b] \in 0..MaxSetups
    BY <1>1, <2>1 DEF SetupInv, TypeOK
  <2>3. TypeOK'
    BY <1>1, <2>1, <2>2 DEF SetupInv, TypeOK
  <2>4. EntriesInOrder'
    BY <1>1, <2>1 DEF SetupInv, EntriesInOrder
  <2> QED
    BY <1>2, <2>3, <2>4 DEF SetupInv
<1>4. CASE ReplaceFile(a)
  <2>1. /\ a \in DOMAIN copies
        /\ entry' = [entry EXCEPT ![a] = copies[a]]
        /\ copies' = [b \in DOMAIN copies \ {a} |-> copies[b]]
        /\ undone' = IF copies[a] = entry[a] THEN undone ELSE undone \cup {a}
    BY <1>4 DEF ReplaceFile
  <2>2. DOMAIN copies' \subseteq FileAgents /\ \A b \in DOMAIN copies' : copies'[b] \in 0..MaxSetups
    BY <1>1, <2>1 DEF SetupInv, TypeOK
  <2>3. entry' \in [Agents -> 0..MaxSetups] /\ undone' \subseteq FileAgents
    BY <1>1, <2>1 DEF SetupInv, TypeOK
  <2>4. TypeOK'
    BY <1>1, <2>2, <2>3 DEF SetupInv, TypeOK
  <2>5. \A b \in Agents : b \notin undone' => b \notin undone /\ entry'[b] = entry[b]
    BY <1>1, <2>1 DEF SetupInv, TypeOK
  <2>6. EntriesInOrder'
    BY <1>1, <2>5, SelectedAreAgents DEF SetupInv, EntriesInOrder
  <2> QED
    BY <1>2, <2>4, <2>6 DEF SetupInv
<1> QED
  BY <1>3, <1>4

-----------------------------------------------------------------------------
(* The steps of setup itself.                                              *)

\* Before the pairing there is only the key to look after.
LEMMA EarlyStep ==
    ASSUME SetupInv, TypeOK', KeyInOrder', pc' \in Early, seen' \subseteq seen,
           UNCHANGED comp \/ (Healthy' \subseteq Healthy /\ seen' \subseteq Healthy')
    PROVE  SetupInv'
<1>1. TokensInOrder' /\ EntriesInOrder' /\ ChildInOrder'
  BY DEF TokensInOrder, EntriesInOrder, ChildInOrder, Early, Stopped
<1>2. Alone' /\ SeenInOrder'
  <2>1. CASE UNCHANGED comp
    BY <2>1 DEF SetupInv, Alone, SeenInOrder, Healthy, Early, Stopped
  <2>2. CASE Healthy' \subseteq Healthy /\ seen' \subseteq Healthy'
    BY <2>2 DEF SetupInv, Alone, SeenInOrder, Early, Stopped
  <2> QED
    BY <2>1, <2>2
<1> QED
  BY <1>1, <1>2 DEF SetupInv

LEMMA KeyKeepsInv ==
    ASSUME SetupInv, Begin \/ CheckKey \/ MakeKey \/ Bootstrap \/ VerifyKey \/ Install
    PROVE  SetupInv'
<1>1. CASE Begin
  <2>1. /\ pc' = "check" /\ options' \in Options
        /\ identity' = profile.key /\ token' = 0 /\ left' = {} /\ agent' = NoAgent
        /\ seen' = {} /\ child' = NoProc /\ minted < MaxSetups /\ minted' = minted + 1
        /\ undone' = {}
        /\ UNCHANGED <<profile, entry, copies, key, ownKey, comp, startLock>>
    BY <1>1 DEF Begin
  <2>2. TypeOK'
    BY <2>1, BoundsAssumption DEF SetupInv, TypeOK, Busy
  <2>3. KeyInOrder'
    BY <2>1 DEF SetupInv, KeyInOrder
  <2> QED
    BY <2>1, <2>2, <2>3, EarlyStep DEF Early
<1>2. ASSUME UNCHANGED <<options, token, left, agent, child, minted, profile, entry, copies,
                         undone, ownKey, comp, startLock, seen>>,
             pc' \in Early \cap (Ended \cup Busy), identity' \in BOOLEAN,
             key' \in {"none", "local", "authorized"},
             key = "authorized" \/ (identity' /\ ~identity) => key' = "authorized"
      PROVE  SetupInv'
  <2>1. TypeOK'
    BY <1>2 DEF SetupInv, TypeOK
  <2>2. KeyInOrder'
    BY <1>2 DEF SetupInv, KeyInOrder
  <2> QED
    BY <1>2, <2>1, <2>2, EarlyStep
<1>3. identity \in BOOLEAN /\ key \in {"none", "local", "authorized"}
  BY DEF SetupInv, TypeOK
<1> USE DEF Early, Ended, Busy, Go, Rest, procs, files, server, cmd
<1>4. CASE CheckKey
  BY <1>2, <1>3, <1>4 DEF CheckKey
<1>5. CASE MakeKey
  BY <1>2, <1>3, <1>5 DEF MakeKey
<1>6. CASE Bootstrap
  BY <1>2, <1>3, <1>6 DEF Bootstrap
<1>7. CASE VerifyKey
  BY <1>2, <1>3, <1>7 DEF VerifyKey, Works
<1>8. CASE Install
  BY <1>2, <1>3, <1>8 DEF Install
<1> QED
  BY <1>1, <1>4, <1>5, <1>6, <1>7, <1>8

\* A step that fails leaves to the next setup what it finds, the processes too.
LEMMA FailureKeepsInv ==
    ASSUME SetupInv, pc' = "failed", entry' \in [Agents -> 0..MaxSetups],
           undone' \subseteq undone,
           UNCHANGED <<options, identity, token, left, agent, child, minted, profile, copies,
                       key, ownKey, comp, startLock, seen>>
    PROVE  SetupInv'
<1>1. TypeOK'
  BY DEF SetupInv, TypeOK, Ended
<1>2. KeyInOrder'
  BY DEF SetupInv, KeyInOrder
<1> QED
  BY <1>1, <1>2, EarlyStep DEF Early

LEMMA StopKeepsInv ==
    ASSUME SetupInv, CompanionRunning \/ StopCompanion
    PROVE  SetupInv'
<1>1. UNCHANGED <<options, identity, token, left, agent, child, minted, profile, entry,
                  copies, undone, key, ownKey, startLock>>
  BY DEF CompanionRunning, StopCompanion, cmd, server, files
<1>2. KeyInOrder'
  BY <1>1 DEF SetupInv, KeyInOrder
<1>3. CASE CompanionRunning
  <2>1. /\ pc' = IF Healthy = {} THEN "mint" ELSE "stop"
        /\ seen' = Healthy /\ comp' = comp
    BY <1>3 DEF CompanionRunning, Go
  <2>2. TypeOK'
    BY <1>1, <2>1 DEF SetupInv, TypeOK, Busy, Healthy
  <2>3. TokensInOrder' /\ EntriesInOrder' /\ ChildInOrder'
    BY <2>1 DEF TokensInOrder, EntriesInOrder, ChildInOrder, Stopped
  <2>4. Alone' /\ SeenInOrder'
    BY <2>1 DEF SetupInv, Alone, SeenInOrder, Healthy, Stopped
  <2> QED
    BY <1>2, <2>2, <2>3, <2>4 DEF SetupInv
<1>4. ASSUME pc = "stop", NEW p \in Healthy, Becomes(p, "stopping"), Go("mint") PROVE SetupInv'
  <2>1. /\ comp' = [comp EXCEPT ![p].pc = "stopping"]
        /\ seen' = seen /\ pc' = "mint" /\ p \in Procs
    BY <1>4 DEF Becomes, Go, Healthy
  <2>2. comp' \in [Procs -> [pc: {"off", "new", "loaded", "starting", "serving", "stopping"},
                             token: 0..MaxSetups]]
    BY <2>1 DEF SetupInv, TypeOK
  <2>3. comp'[p].pc = "stopping" /\ \A q \in Procs : q # p => comp'[q] = comp[q]
    BY <2>1 DEF SetupInv, TypeOK
  <2>4. TypeOK'
    BY <1>1, <2>1, <2>2 DEF SetupInv, TypeOK, Busy
  <2>5. TokensInOrder' /\ EntriesInOrder' /\ ChildInOrder'
    BY <2>1 DEF TokensInOrder, EntriesInOrder, ChildInOrder, Stopped
  <2>6. Healthy' = {p} /\ Healthy = {p}
    BY <1>4, <2>1, <2>3 DEF SetupInv, Alone, Healthy
  <2>7. Alone' /\ SeenInOrder'
    BY <2>1, <2>3, <2>6 DEF SetupInv, Alone, SeenInOrder
  <2> QED
    BY <1>2, <2>4, <2>5, <2>7 DEF SetupInv
<1>5. CASE StopCompanion /\ Go("failed") /\ UNCHANGED <<comp, seen>>
  <2>1. entry \in [Agents -> 0..MaxSetups]
    BY DEF SetupInv, TypeOK
  <2> QED
    BY <1>1, <1>5, <2>1, FailureKeepsInv DEF Go
<1> QED
  BY <1>3, <1>4, <1>5 DEF StopCompanion

\* A step of the pairing: the Companions that were found are already stopping.
LEMMA PairingStep ==
    ASSUME SetupInv, pc \in Stopped, pc' \in (Stopped \ {"await"}) \cup {"done"},
           TypeOK', TokensInOrder', EntriesInOrder',
           key' = key, identity' = identity, profile'.key => profile.key \/ identity,
           UNCHANGED <<comp, seen>>
    PROVE  SetupInv'
<1>1. KeyInOrder'
  BY DEF SetupInv, KeyInOrder
<1>2. Alone' /\ SeenInOrder'
  BY DEF SetupInv, Alone, SeenInOrder, Healthy
<1>3. ChildInOrder'
  BY DEF ChildInOrder
<1> QED
  BY <1>1, <1>2, <1>3 DEF SetupInv

LEMMA MintKeepsInv ==
    ASSUME SetupInv, Mint \/ DetectAgents
    PROVE  SetupInv'
<1>1. UNCHANGED <<options, identity, agent, child, minted, profile, entry, copies, undone,
                  key, ownKey, comp, startLock, seen>>
  BY DEF Mint, DetectAgents, server, files, procs
<1>2. CASE Mint
  <2>1. /\ pc = "mint" /\ token' = minted /\ left' = left
        /\ pc' = IF options.skipAgent THEN "save" ELSE "detect"
    BY <1>2 DEF Mint, Go
  <2>2. TypeOK'
    BY <1>1, <2>1 DEF SetupInv, TypeOK, Busy
  <2>3. TokensInOrder' /\ EntriesInOrder'
    BY <1>1, <2>1 DEF TokensInOrder, EntriesInOrder, Stopped
  <2> QED
    BY <1>1, <2>1, <2>2, <2>3, PairingStep DEF Stopped
<1>3. CASE DetectAgents /\ pc' = "remove"
  <2>1. pc = "detect" /\ token' = token /\ left' = options.agents
    BY <1>3 DEF DetectAgents, Go
  <2>2. TypeOK'
    BY <1>1, <1>3, <2>1, SelectedAreAgents DEF SetupInv, TypeOK, Busy
  <2>3. TokensInOrder' /\ EntriesInOrder'
    BY <1>1, <1>3, <2>1 DEF SetupInv, TokensInOrder, EntriesInOrder, Stopped
  <2> QED
    BY <1>1, <1>3, <2>1, <2>2, <2>3, PairingStep DEF Stopped
<1>4. CASE DetectAgents /\ pc' = "failed"
  <2>1. UNCHANGED <<token, left>> /\ entry \in [Agents -> 0..MaxSetups]
    BY <1>4 DEF DetectAgents, Go, SetupInv, TypeOK
  <2> QED
    BY <1>1, <1>4, <2>1, FailureKeepsInv
<1> QED
  BY <1>2, <1>3, <1>4 DEF DetectAgents, Go

LEMMA EntryKeepsInv ==
    ASSUME SetupInv, (\E a \in Agents : RemoveEntry(a)) \/ AddEntry
    PROVE  SetupInv'
<1>1. UNCHANGED <<options, identity, token, child, minted, profile, copies, key, ownKey,
                  comp, startLock, seen>>
  BY DEF RemoveEntry, AddEntry, Added, procs
<1>2. 0 \in 0..MaxSetups /\ token \in 0..MaxSetups
  BY BoundsAssumption DEF SetupInv, TypeOK
<1>3. ASSUME NEW a \in Agents, RemoveEntry(a) PROVE SetupInv'
  <2>1. /\ pc = "remove" /\ a \in left /\ agent' = a /\ pc' = "add"
        /\ UNCHANGED <<left, undone>>
    BY <1>3 DEF RemoveEntry, Go
  <2>2. PICK t \in {entry[a], 0} : entry' = [entry EXCEPT ![a] = t]
    BY <1>3 DEF RemoveEntry
  <2>3. /\ entry' \in [Agents -> 0..MaxSetups]
        /\ \A b \in Agents : b # a => entry'[b] = entry[b]
    BY <1>2, <2>2 DEF SetupInv, TypeOK
  <2>4. TypeOK'
    BY <1>1, <2>1, <2>3 DEF SetupInv, TypeOK, Busy
  <2>5. TokensInOrder'
    BY <1>1, <2>1 DEF SetupInv, TokensInOrder, Stopped
  <2>6. EntriesInOrder'
    BY <1>1, <2>1, <2>3, SelectedAreAgents DEF SetupInv, EntriesInOrder
  <2> QED
    BY <1>1, <2>1, <2>4, <2>5, <2>6, PairingStep DEF Stopped
<1>4. ASSUME AddEntry, NEW t \in {entry[agent], 0, token}, Added(t) PROVE
          /\ pc = "add" /\ agent \in Agents
          /\ entry' = [entry EXCEPT ![agent] = t]
          /\ entry' \in [Agents -> 0..MaxSetups]
          /\ undone' \subseteq undone
          /\ t # token => undone' = undone
          /\ t = token => undone' = undone \ {agent}
  <2>1. pc = "add" /\ agent \in Agents
    BY <1>4 DEF AddEntry, SetupInv, TypeOK, TokensInOrder
  <2>2. /\ entry' = [entry EXCEPT ![agent] = t]
        /\ undone' = IF t = token THEN undone \ {agent} ELSE undone
    BY <1>4 DEF Added
  <2>3. entry' \in [Agents -> 0..MaxSetups]
    BY <1>2, <2>1, <2>2, <1>4 DEF SetupInv, TypeOK
  <2> QED
    BY <2>1, <2>2, <2>3
<1>5. CASE /\ AddEntry /\ Added(token)
           /\ left' = left \ {agent} /\ agent' = NoAgent
           /\ Go(IF left = {agent} THEN "save" ELSE "remove")
  <2>1. /\ pc = "add" /\ agent \in Agents
        /\ entry' = [entry EXCEPT ![agent] = token]
        /\ entry' \in [Agents -> 0..MaxSetups]
        /\ undone' = undone \ {agent}
    BY <1>4, <1>5
  <2>2. /\ entry'[agent] = token
        /\ \A b \in Agents : b # agent => /\ entry'[b] = entry[b]
                                          /\ b \notin undone' => b \notin undone
    BY <2>1 DEF SetupInv, TypeOK
  <2>3. pc' = IF left = {agent} THEN "save" ELSE "remove"
    BY <1>5 DEF Go
  <2>4. TypeOK'
    BY <1>1, <1>5, <2>1, <2>3 DEF SetupInv, TypeOK, Busy
  <2>5. TokensInOrder'
    BY <1>1, <2>1, <2>3 DEF SetupInv, TokensInOrder, Stopped
  <2>6. \A b \in options.agents \ left' : b \notin undone' => entry'[b] = token \/ options.skipAgent
    BY <1>5, <2>1, <2>2 DEF SetupInv, EntriesInOrder
  <2>7. pc' = "save" => left' = {}
    BY <1>5, <2>3
  <2>8. EntriesInOrder'
    BY <1>1, <2>3, <2>6, <2>7 DEF EntriesInOrder
  <2> QED
    BY <1>1, <2>1, <2>3, <2>4, <2>5, <2>8, PairingStep DEF Stopped
<1>6. CASE /\ AddEntry /\ Go("failed")
           /\ \E t \in {entry[agent], 0, token} : Added(t)
           /\ UNCHANGED <<left, agent>>
  <2>1. PICK t \in {entry[agent], 0, token} : Added(t)
    BY <1>6
  <2>2. entry' \in [Agents -> 0..MaxSetups] /\ undone' \subseteq undone
    BY <1>4, <1>6, <2>1
  <2> QED
    BY <1>1, <1>6, <2>2, FailureKeepsInv DEF Go
<1> QED
  BY <1>3, <1>5, <1>6 DEF AddEntry

LEMMA SaveKeepsInv ==
    ASSUME SetupInv, SaveProfile
    PROVE  SetupInv'
<1>1. /\ pc = "save"
      /\ UNCHANGED <<options, identity, token, left, agent, child, minted, entry, copies,
                     undone, key, ownKey, comp, startLock, seen>>
  BY DEF SaveProfile, cmd, server, files, procs
<1>2. CASE /\ profile' = [token |-> token, key |-> identity]
           /\ Go(IF options.noStart THEN "done" ELSE "start")
  <2>1. pc' \in {"done", "start"}
    BY <1>2 DEF Go
  <2>2. profile' \in [token: 0..MaxSetups, key: BOOLEAN] /\ profile'.token = token
        /\ profile'.key = identity
    BY <1>2 DEF SetupInv, TypeOK
  <2>3. TypeOK'
    BY <1>1, <2>1, <2>2 DEF SetupInv, TypeOK, Busy, Ended
  <2>4. TokensInOrder' /\ EntriesInOrder'
    BY <1>1, <2>1, <2>2 DEF SetupInv, TokensInOrder, EntriesInOrder, Stopped
  <2> QED
    BY <1>1, <2>1, <2>2, <2>3, <2>4, PairingStep DEF Stopped
<1>3. CASE Go("failed") /\ UNCHANGED profile
  <2>1. entry \in [Agents -> 0..MaxSetups]
    BY DEF SetupInv, TypeOK
  <2> QED
    BY <1>1, <1>3, <2>1, FailureKeepsInv DEF Go
<1> QED
  BY <1>2, <1>3 DEF SaveProfile

LEMMA StartKeepsInv ==
    ASSUME SetupInv, StartCompanion
    PROVE  SetupInv'
<1>1. /\ pc = "start"
      /\ UNCHANGED <<options, identity, token, left, agent, minted, profile, entry, copies,
                     undone, key, ownKey, startLock>>
  BY DEF StartCompanion, server, files
<1>2. CASE Go("failed") /\ UNCHANGED <<child, comp, seen>>
  <2>1. entry \in [Agents -> 0..MaxSetups]
    BY DEF SetupInv, TypeOK
  <2> QED
    BY <1>1, <1>2, <2>1, FailureKeepsInv DEF Go
<1>3. ASSUME Healthy = {}, Go("await"), NEW p \in Procs, In(p, "off"), child' = p, Becomes(p, "new")
      PROVE  SetupInv'
  <2>1. /\ comp' = [comp EXCEPT ![p].pc = "new"]
        /\ seen' = seen /\ pc' = "await"
    BY <1>3 DEF Becomes, Go
  <2>2. comp' \in [Procs -> [pc: {"off", "new", "loaded", "starting", "serving", "stopping"},
                             token: 0..MaxSetups]]
    BY <2>1 DEF SetupInv, TypeOK
  <2>3. comp'[p].pc = "new" /\ \A q \in Procs : q # p => comp'[q] = comp[q]
    BY <2>1 DEF SetupInv, TypeOK
  <2>4. TypeOK'
    BY <1>1, <1>3, <2>1, <2>2 DEF SetupInv, TypeOK, Busy
  <2>5. KeyInOrder' /\ TokensInOrder' /\ EntriesInOrder'
    BY <1>1, <2>1 DEF SetupInv, KeyInOrder, TokensInOrder, EntriesInOrder, Stopped
  <2>6. Healthy' = {} /\ seen = {}
    BY <1>3, <2>3 DEF Healthy, SetupInv, SeenInOrder
  <2>7. Alone' /\ SeenInOrder'
    BY <2>1, <2>6 DEF Alone, SeenInOrder
  <2>8. ChildInOrder'
    BY <1>3, <2>3 DEF ChildInOrder
  <2> QED
    BY <2>4, <2>5, <2>7, <2>8 DEF SetupInv
<1> QED
  BY <1>2, <1>3 DEF StartCompanion

LEMMA AwaitKeepsInv ==
    ASSUME SetupInv, AwaitChild
    PROVE  SetupInv'
<1>1. /\ pc = "await" /\ child \in Procs
      /\ UNCHANGED <<options, identity, token, left, agent, child, minted, profile, entry,
                     copies, undone, key, ownKey>>
  BY DEF AwaitChild, cmd, server, files, SetupInv, ChildInOrder
<1>2. CASE Go("done") /\ UNCHANGED procs
  <2>1. pc' = "done" /\ UNCHANGED <<comp, startLock, seen>>
    BY <1>2 DEF Go, procs
  <2>2. TypeOK'
    BY <1>1, <2>1 DEF SetupInv, TypeOK, Ended
  <2>3. TokensInOrder' /\ EntriesInOrder'
    BY <1>1, <2>1 DEF SetupInv, TokensInOrder, EntriesInOrder, Stopped
  <2> QED
    BY <1>1, <2>1, <2>2, <2>3, PairingStep DEF Stopped
<1>3. CASE Go("failed") /\ Off(child) /\ Release(child)
  <2>1. /\ pc' = "failed" /\ seen' = seen \ {child}
        /\ comp' = [comp EXCEPT ![child] = [pc |-> "off", token |-> 0]]
        /\ startLock' \in {startLock, NoProc}
    BY <1>3 DEF Go, Off, Release
  <2>2. 0 \in 0..MaxSetups
    BY BoundsAssumption
  <2>3. comp' \in [Procs -> [pc: {"off", "new", "loaded", "starting", "serving", "stopping"},
                             token: 0..MaxSetups]]
    BY <1>1, <2>1, <2>2 DEF SetupInv, TypeOK
  <2>4. comp'[child].pc = "off" /\ \A q \in Procs : q # child => comp'[q] = comp[q]
    BY <1>1, <2>1 DEF SetupInv, TypeOK
  <2>5. TypeOK'
    BY <1>1, <2>1, <2>3 DEF SetupInv, TypeOK, Ended
  <2>6. KeyInOrder'
    BY <1>1 DEF SetupInv, KeyInOrder
  <2>7. Healthy' = Healthy \ {child}
    BY <1>1, <2>4 DEF Healthy
  <2>8. seen' \subseteq Healthy'
    BY <2>1, <2>7 DEF SetupInv, SeenInOrder
  <2> QED
    BY <2>1, <2>5, <2>6, <2>7, <2>8, EarlyStep DEF Early
<1> QED
  BY <1>2, <1>3 DEF AwaitChild

LEMMA SetupInvNext == SetupInv /\ [Next]_vars => SetupInv'
<1> SUFFICES ASSUME SetupInv, [Next]_vars PROVE SetupInv'
  OBVIOUS
<1>1. CASE UNCHANGED vars
  <2>1. UNCHANGED <<pc, options, identity, token, left, agent, child, minted, profile, entry,
                    copies, undone, key, ownKey, comp, startLock, seen>>
    BY <1>1 DEF vars, cmd, server, files, procs
  <2>2. TypeOK'
    BY <2>1 DEF SetupInv, TypeOK
  <2> QED
    BY <2>1, <2>2 DEF SetupInv, KeyInOrder, TokensInOrder, EntriesInOrder, Alone, SeenInOrder,
                      ChildInOrder, Healthy
<1>2. CASE Run
  BY <1>2, KeyKeepsInv, StopKeepsInv, MintKeepsInv, EntryKeepsInv, SaveKeepsInv, StartKeepsInv,
     AwaitKeepsInv DEF Run
<1> QED
  BY <1>1, <1>2, KeyKeepsInv, FileKeepsInv, ProcessKeepsInv DEF Next

LEMMA SetupAlways == Spec => []SetupInv
BY SetupInvInit, SetupInvNext, PTL DEF Spec

\* The variables of Setup keep their types.
THEOREM SetupTypeCorrect == Spec => []TypeOK
<1>1. SetupInv => TypeOK
  BY DEF SetupInv
<1> QED
  BY <1>1, SetupAlways, PTL

\* A setup that ends well leaves the profile and every agent with its token, but for
\* agents whose file a command for another profile put back; and a profile names
\* AgentClip's key only when the server accepts it.
THEOREM SuccessPairsHolds == Spec => []SuccessPairs
<1>1. SetupInv => SuccessPairs
  BY DEF SetupInv, KeyInOrder, TokensInOrder, EntriesInOrder, SuccessPairs
<1> QED
  BY <1>1, SetupAlways, PTL

\* What setup does beside the pairing leaves profile and entries alone; and what
\* others do reads or replaces a file.
LEMMA PairingByThree ==
    ASSUME SetupInv, Next, copies' = copies, entry' # entry \/ profile' # profile
    PROVE  pc \in {"remove", "add", "save"}
<1>1. CASE Run
  BY <1>1 DEF Run, CheckKey, MakeKey, Bootstrap, VerifyKey, Install, CompanionRunning,
              StopCompanion, Mint, DetectAgents, RemoveEntry, AddEntry, SaveProfile,
              StartCompanion, AwaitChild, Rest, server, files
<1>2. ASSUME NEW a \in FileAgents, ReadFile(a) \/ ReplaceFile(a) PROVE FALSE
  <2>1. CASE ReadFile(a)
    BY <2>1 DEF ReadFile, Aside
  <2>2. CASE ReplaceFile(a)
    <3>1. a \in DOMAIN copies /\ DOMAIN copies' = DOMAIN copies \ {a}
      BY <2>2 DEF ReplaceFile
    <3> QED
      BY <3>1
  <2> QED
    BY <1>2, <2>1, <2>2
<1>3. ASSUME Begin \/ \E p \in Procs : UserStart(p) \/ UserStop(p) \/ Own(p) PROVE FALSE
  BY <1>3 DEF Begin, UserStart, UserStop, Own, LoadProfile, Lock, Serve, Close, Others, server,
              files
<1> QED
  BY <1>1, <1>2, <1>3 DEF Next

\* Setup never changes the token of an agent or of the profile while a Companion that
\* it found running still serves the old one.
THEOREM PairingSparesCompanionsHolds == Spec => PairingSparesCompanions
<1> DEFINE Spared == copies' = copies /\ (entry' # entry \/ profile' # profile) =>
                         \A p \in seen : comp[p].pc # "serving" \/ comp[p].token = token
<1>1. SetupInv /\ [Next]_vars => [Spared]_vars
  <2> SUFFICES ASSUME SetupInv, Next, copies' = copies, entry' # entry \/ profile' # profile,
                      NEW p \in seen
               PROVE  comp[p].pc # "serving"
    OBVIOUS
  <2>1. pc \in Stopped
    BY PairingByThree DEF Stopped
  <2> QED
    BY <2>1 DEF SetupInv, SeenInOrder
<1>2. Spec => [][Spared]_vars
  BY <1>1, SetupAlways, PTL DEF Spec
<1> QED
  BY <1>2 DEF PairingSparesCompanions

LEMMA DoneByTwo ==
    ASSUME SetupInv, Next, pc' = "done", pc # "done"
    PROVE  \/ SaveProfile /\ options'.noStart
           \/ AwaitChild /\ child \in Healthy
<1>1. CASE Run
  <2>1. SaveProfile \/ AwaitChild
    BY <1>1 DEF Run, CheckKey, MakeKey, Bootstrap, VerifyKey, Install, CompanionRunning,
                StopCompanion, Mint, DetectAgents, RemoveEntry, AddEntry, StartCompanion, Go
  <2>2. CASE SaveProfile
    BY <2>2 DEF SaveProfile, Go, cmd
  <2>3. CASE AwaitChild
    BY <2>3 DEF AwaitChild, Go
  <2> QED
    BY <2>1, <2>2, <2>3
<1>2. ASSUME NEW a \in FileAgents, ReadFile(a) \/ ReplaceFile(a) PROVE FALSE
  BY <1>2 DEF ReadFile, ReplaceFile, Aside
<1>3. ASSUME Begin \/ \E p \in Procs : UserStart(p) \/ UserStop(p) \/ Own(p) PROVE FALSE
  BY <1>3 DEF Begin, UserStart, UserStop, Own, LoadProfile, Lock, Serve, Close, Others
<1> QED
  BY <1>1, <1>2, <1>3 DEF Next

\* When setup ends well and has started a Companion, the one that answers serves the
\* token that setup registered.
THEOREM SuccessServesNewTokenHolds == Spec => SuccessServesNewToken
<1> DEFINE Served == pc' = "done" /\ pc # "done" /\ ~options.noStart =>
                         \A p \in Healthy' : comp'[p].token = profile'.token
<1>1. SetupInv /\ [Next]_vars => [Served]_vars
  <2> SUFFICES ASSUME SetupInv, Next, pc' = "done", pc # "done", ~options.noStart,
                      NEW p \in Healthy'
               PROVE  comp'[p].token = profile'.token
    OBVIOUS
  <2>1. AwaitChild /\ child \in Healthy
    <3>1. SaveProfile => options' = options
      BY DEF SaveProfile, cmd
    <3> QED
      BY <3>1, DoneByTwo
  <2>2. pc = "await" /\ UNCHANGED <<comp, profile>>
    BY <2>1 DEF AwaitChild, Go, procs
  <2>3. p = child
    BY <2>1, <2>2 DEF SetupInv, Alone, Healthy
  <2>4. comp[child].token = profile.token
    BY <2>1, <2>2 DEF SetupInv, ChildInOrder, Healthy
  <2> QED
    BY <2>2, <2>3, <2>4
<1>2. Spec => [][Served]_vars
  BY <1>1, SetupAlways, PTL DEF Spec
<1> QED
  BY <1>2 DEF SuccessServesNewToken
-----------------------------------------------------------------------------
(***************************************************************************)
(* RemoteInstall.  The server's executable is always whole, and a release  *)
(* replaces a newer one only where its installation could not see that.    *)
(***************************************************************************)
\* Only a file that was compared is moved, files hold their own release, and there is
\* a script only after the upload.
MovedIsWhole ==
    \A i \in Installs :
        /\ script[i] = "move" => temporary[i].whole
        /\ script[i] \in {"cat", "compare", "move"} => temporary[i].version = Tag[i]
        /\ client[i] \in {"version", "platform", "fetch", "open"} => script[i] = "none"

InstallInv == InstallTypeOK /\ BinaryIsWhole /\ MovedIsWhole

LEMMA InstallInvInit == InstallInit => InstallInv
  BY VersionsAssumption, KillsAssumption
     DEF InstallInit, InstallInv, InstallTypeOK, BinaryIsWhole, MovedIsWhole, Files, NoFile

LEMMA InstallInvNext == InstallInv /\ [InstallNext]_installVars => InstallInv'
<1> SUFFICES ASSUME InstallInv, [InstallNext]_installVars PROVE InstallInv'
    OBVIOUS
<1> USE TagAssumption, KillsAssumption
    DEF InstallInv, InstallTypeOK, Files, NoFile, BinaryIsWhole, history
<1>1. ASSUME NEW i \in Installs, InstalledVersion(i) \/ Platform(i) \/ FetchRelease(i) \/ Report(i)
      PROVE InstallInv'
  <2>1. InstallTypeOK' /\ BinaryIsWhole'
      BY <1>1 DEF InstalledVersion, Platform, FetchRelease, Report, GoOn, Return, Remote
  <2>2. MovedIsWhole'
      BY <1>1 DEF InstalledVersion, Platform, FetchRelease, Report, GoOn, Return, Remote, MovedIsWhole
  <2> QED BY <2>1, <2>2
<1>2. ASSUME NEW i \in Installs, Upload(i) PROVE InstallInv'
  <2>1. temporary'[i] = [version |-> Tag[i], whole |-> FALSE] /\ script'[i] = "cat"
      BY <1>2 DEF Upload, ScriptBecomes
  <2>2. InstallTypeOK' /\ BinaryIsWhole'
      BY <1>2 DEF Upload, GoOn, ScriptBecomes
  <2>3. MovedIsWhole'
      BY <1>2, <2>1 DEF Upload, GoOn, ScriptBecomes, MovedIsWhole
  <2> QED BY <2>2, <2>3
<1>3. ASSUME NEW i \in Installs, GiveUp(i) PROVE InstallInv'
  <2>1. InstallTypeOK' /\ BinaryIsWhole'
      BY <1>3 DEF GiveUp, Return, ScriptBecomes
  <2>2. MovedIsWhole'
      BY <1>3 DEF GiveUp, Return, ScriptBecomes, MovedIsWhole
  <2> QED BY <2>1, <2>2
<1>4. ASSUME NEW i \in Installs, Trapped(i),
             script[i] \in {"cat", "compare", "move"},
             UNCHANGED <<agentclip, client, outcome, history, kills>>
      PROVE  InstallInv'
  <2>1. InstallTypeOK' /\ BinaryIsWhole'
      BY <1>4 DEF Trapped, ScriptBecomes
  <2>2. MovedIsWhole'
      BY <1>4 DEF Trapped, ScriptBecomes, MovedIsWhole
  <2> QED BY <2>1, <2>2
<1>5. ASSUME NEW i \in Installs, Cat(i) \/ Compare(i), ~Trapped(i) PROVE InstallInv'
  <2>1. temporary' \in [Installs -> Files]
    <3>1. CASE Cat(i)
      <4>1. temporary' = [temporary EXCEPT ![i].whole = TRUE]
          BY <1>5, <3>1 DEF Cat
      <4> QED BY <4>1
    <3>2. CASE Compare(i)
        BY <1>5, <3>2 DEF Compare
    <3> QED BY <1>5, <3>1, <3>2
  <2>2. script' \in [Installs -> {"none", "cat", "compare", "move", "ok", "error", "killed"}]
      BY <1>5 DEF Cat, Compare, ScriptBecomes
  <2>3. UNCHANGED <<agentclip, client, outcome, before, blind, overtaken, kills>>
      BY <1>5 DEF Cat, Compare
  <2>4. MovedIsWhole'
      BY <1>5 DEF Cat, Compare, ScriptBecomes, MovedIsWhole
  <2> QED BY <2>1, <2>2, <2>3, <2>4
<1>6. ASSUME NEW i \in Installs, Move(i), ~Trapped(i) PROVE InstallInv'
  <2>1. agentclip' = temporary[i] /\ temporary[i].whole
      BY <1>6 DEF Move, MovedIsWhole
  <2>2. overtaken' \subseteq Installs
      BY <1>6 DEF Move
  <2>3. /\ temporary' \in [Installs -> Files]
        /\ script' \in [Installs -> {"none", "cat", "compare", "move", "ok", "error", "killed"}]
        /\ UNCHANGED <<client, outcome, before, blind, kills>>
    <3>1. /\ script' = [script EXCEPT ![i] = "ok"]
          /\ temporary' = [temporary EXCEPT ![i] = NoFile]
          /\ UNCHANGED <<client, outcome, before, blind, kills>>
        BY <1>6 DEF Move, ScriptBecomes
    <3>2. temporary' \in [Installs -> Files]
        BY <3>1
    <3> QED BY <3>1, <3>2
  <2>4. InstallTypeOK' /\ BinaryIsWhole'
      BY <2>1, <2>2, <2>3
  <2>5. MovedIsWhole'
      BY <1>6 DEF Move, ScriptBecomes, MovedIsWhole
  <2> QED BY <2>4, <2>5
<1>7. ASSUME NEW i \in Installs, Script(i) PROVE InstallInv'
  <2>1. CASE Trapped(i)
    <3>1. script[i] \in {"cat", "compare", "move"} /\ script'[i] = "error"
        BY <1>7, <2>1 DEF Script, Cat, Compare, Move, Trapped, ScriptBecomes
    <3>2. UNCHANGED <<agentclip, client, outcome, history, kills>>
        BY <1>7, <3>1 DEF Script, Cat, Compare, Move, ScriptBecomes
    <3> QED BY <1>4, <2>1, <3>1, <3>2
  <2>2. CASE ~Trapped(i)
      BY <1>5, <1>6, <1>7, <2>2 DEF Script
  <2> QED BY <2>1, <2>2
<1>8. ASSUME NEW i \in Installs, Kill(i) PROVE InstallInv'
  <2>1. InstallTypeOK' /\ BinaryIsWhole'
      BY <1>8 DEF Kill, ScriptBecomes
  <2>2. MovedIsWhole'
      BY <1>8 DEF Kill, ScriptBecomes, MovedIsWhole
  <2> QED BY <2>1, <2>2
<1>9. CASE UNCHANGED installVars
  BY <1>9 DEF installVars, MovedIsWhole
<1> QED
  BY <1>1, <1>2, <1>3, <1>7, <1>8, <1>9 DEF InstallNext, Client

LEMMA InstallAlways == InstallSpec => []InstallInv
<1> QED BY InstallInvInit, InstallInvNext, PTL DEF InstallSpec

\* The state of the machines, of the scripts and of the server's files is what
\* InstallVerified and its script can bring about.
THEOREM InstallTypeCorrect == InstallSpec => []InstallTypeOK
<1>1. InstallInv => InstallTypeOK
    BY DEF InstallInv
<1> QED BY InstallAlways, <1>1, PTL

\* However connections drop, time runs out, lines fail or the server kills scripts,
\* and with any number of machines at once, the server's agentclip is one whole
\* release (uploadCommand).
THEOREM BinaryIsWholeHolds == InstallSpec => []BinaryIsWhole
<1>1. InstallInv => BinaryIsWhole
    BY DEF InstallInv
<1> QED BY InstallAlways, <1>1, PTL
-----------------------------------------------------------------------------
\* Who is under way, could read the version and was not overtaken is newer than what
\* the server has; and while all could read it, nobody is older than what there was.
NewerThanFound ==
    \A i \in Installs : UnderWay(i) /\ i \notin blind \cup overtaken => agentclip.version < Tag[i]

NewerThanBefore ==
    blind = {} => /\ agentclip.version >= before
                  /\ \A i \in Installs : UnderWay(i) => Tag[i] > before

LookedInv == InstallInv /\ NewerThanFound /\ NewerThanBefore

LEMMA LookedInvInit == InstallInit => LookedInv
<1>1. ASSUME InstallInit PROVE NewerThanFound /\ NewerThanBefore
  <2>1. agentclip.version = before /\ before \in Nat /\ \A i \in Installs : ~UnderWay(i)
      BY <1>1, VersionsAssumption DEF InstallInit, UnderWay
  <2> QED BY <2>1 DEF NewerThanFound, NewerThanBefore
<1> QED BY <1>1, InstallInvInit DEF LookedInv

\* A step that leaves the executable alone, and lets nobody under way but who was, or
\* who has looked just now.
LEMMA LookedKept ==
    ASSUME LookedInv, UNCHANGED <<agentclip, before, overtaken>>, blind \subseteq blind',
           \A j \in Installs : UnderWay(j)' =>
               UnderWay(j) \/ j \in blind' \/ agentclip.version < Tag[j]
    PROVE  NewerThanFound' /\ NewerThanBefore'
<1> USE TagAssumption DEF LookedInv, InstallInv, InstallTypeOK, Files
<1>1. NewerThanFound'
    BY DEF NewerThanFound
<1>2. ASSUME blind' = {} PROVE NewerThanBefore'
    BY <1>2 DEF NewerThanBefore
<1> QED BY <1>1, <1>2 DEF NewerThanBefore

LEMMA LookedInvNext == LookedInv /\ [InstallNext]_installVars => LookedInv'
<1> SUFFICES ASSUME LookedInv, [InstallNext]_installVars PROVE NewerThanFound' /\ NewerThanBefore'
    BY InstallInvNext DEF LookedInv
<1> USE DEF history
<1>1. ASSUME NEW i \in Installs, Client(i) PROVE NewerThanFound' /\ NewerThanBefore'
  <2>1. UNCHANGED <<agentclip, before, overtaken>> /\ blind \subseteq blind'
      BY <1>1 DEF Client, InstalledVersion, Platform, FetchRelease, Upload, GiveUp, Report, Remote
  <2>2. /\ client' \in [Installs -> {"version", "platform", "fetch", "open", "upload", "end"}]
        /\ script \in [Installs -> {"none", "cat", "compare", "move", "ok", "error", "killed"}]
        /\ client \in [Installs -> {"version", "platform", "fetch", "open", "upload", "end"}]
        /\ agentclip.version \in Nat /\ Tag[i] \in Nat
      BY <1>1, InstallInvNext, TagAssumption DEF LookedInv, InstallInv, InstallTypeOK, Files
  <2>3. ASSUME NEW j \in Installs, UnderWay(j)'
        PROVE  UnderWay(j) \/ j \in blind' \/ agentclip.version < Tag[j]
    <3>1. CASE InstalledVersion(i)
      <4>1. UNCHANGED script /\ (j = i => i \in blind' \/ agentclip.version < Tag[i] \/ client'[i] = "end")
          BY <2>2, <3>1 DEF InstalledVersion, EnoughInstalled, Remote, Return, GoOn
      <4>2. j # i => client'[j] = client[j]
          BY <2>2, <3>1 DEF InstalledVersion, Return, GoOn
      <4> QED BY <2>3, <4>1, <4>2 DEF UnderWay
    <3>2. CASE Platform(i) \/ FetchRelease(i) \/ Upload(i) \/ GiveUp(i) \/ Report(i)
        BY <2>2, <2>3, <3>2 DEF Platform, FetchRelease, Upload, GiveUp, Report, Remote,
                                Return, GoOn, ScriptBecomes, UnderWay
    <3> QED BY <1>1, <3>1, <3>2 DEF Client
  <2> QED BY <2>1, <2>3, LookedKept
<1>2. ASSUME NEW i \in Installs, script' = [script EXCEPT ![i] = "compare"]
                                 \/ script' = [script EXCEPT ![i] = "move"]
                                 \/ script' = [script EXCEPT ![i] = "error"]
                                 \/ script' = [script EXCEPT ![i] = "killed"],
             script[i] \in {"cat", "compare", "move"},
             UNCHANGED <<agentclip, client, before, blind, overtaken>>
      PROVE  NewerThanFound' /\ NewerThanBefore'
  <2>1. ASSUME NEW j \in Installs, UnderWay(j)' PROVE UnderWay(j)
      BY <1>2, <2>1 DEF UnderWay, LookedInv, InstallInv, InstallTypeOK
  <2> QED BY <1>2, <2>1, LookedKept
<1>3. ASSUME NEW i \in Installs, Cat(i) \/ Compare(i) \/ Kill(i)
      PROVE  NewerThanFound' /\ NewerThanBefore'
    BY <1>2, <1>3 DEF Cat, Compare, Kill, Trapped, ScriptBecomes
<1>4. ASSUME NEW i \in Installs, Move(i) PROVE NewerThanFound' /\ NewerThanBefore'
  <2>1. CASE Trapped(i) /\ UNCHANGED <<agentclip, overtaken>>
      BY <1>2, <1>4, <2>1 DEF Move, Trapped, ScriptBecomes
  <2>2. CASE /\ ScriptBecomes(i, "ok") /\ agentclip' = temporary[i]
             /\ overtaken' = overtaken \cup {j \in Installs \ {i} : UnderWay(j)}
    <3>1. /\ agentclip'.version = Tag[i] /\ UNCHANGED <<client, before, blind>>
          /\ script[i] = "move" /\ script'[i] = "ok"
          /\ \A j \in Installs \ {i} : script'[j] = script[j]
        BY <1>4, <2>2 DEF Move, MovedIsWhole, ScriptBecomes, LookedInv, InstallInv, InstallTypeOK
    <3>2. \A j \in Installs : UnderWay(j)' => j # i /\ UnderWay(j) /\ j \in overtaken'
        BY <2>2, <3>1 DEF UnderWay, LookedInv, InstallInv, MovedIsWhole
    <3>3. UnderWay(i)
        BY <3>1 DEF UnderWay
    <3>4. NewerThanFound'
        BY <3>2 DEF NewerThanFound
    <3>5. Tag[i] \in Nat /\ before \in Nat
        BY TagAssumption DEF LookedInv, InstallInv, InstallTypeOK
    <3>6. NewerThanBefore'
        BY <3>1, <3>2, <3>3, <3>5 DEF NewerThanBefore, LookedInv
    <3> QED BY <3>4, <3>6
  <2> QED BY <1>4, <2>1, <2>2 DEF Move
<1>5. CASE UNCHANGED installVars
  <2>1. \A j \in Installs : UnderWay(j)' => UnderWay(j)
      BY <1>5 DEF installVars, UnderWay
  <2> QED BY <1>5, <2>1, LookedKept DEF installVars
<1> QED
  BY <1>1, <1>3, <1>4, <1>5 DEF InstallNext, Script

\* A release replaces a newer one only where its installation could not read the
\* server's version, or another one replaced the executable after it had; and where all
\* could read it, what the server had before them is never undercut (InstallVerified).
THEOREM NeverOlderHolds == InstallSpec => NeverOlder
<1> DEFINE Forward == agentclip'.version < agentclip.version =>
          /\ \E i \in blind \cup overtaken : script[i] = "move" /\ script'[i] = "ok"
          /\ blind = {} => agentclip'.version > before
<1>1. LookedInv /\ [InstallNext]_installVars => [Forward]_installVars
  <2> SUFFICES ASSUME LookedInv, InstallNext, agentclip'.version < agentclip.version
               PROVE  /\ \E i \in blind \cup overtaken : script[i] = "move" /\ script'[i] = "ok"
                      /\ blind = {} => agentclip'.version > before
      OBVIOUS
  <2>0. agentclip.version \in Nat
      BY DEF LookedInv, InstallInv, InstallTypeOK, Files
  <2>1. PICK i \in Installs : Move(i) /\ agentclip' # agentclip
      BY <2>0 DEF InstallNext, Client, Script, InstalledVersion, Platform, FetchRelease, Upload,
                  GiveUp, Report, Remote, Cat, Compare, Kill
  <2>2. /\ script[i] = "move" /\ script'[i] = "ok" /\ agentclip' = temporary[i]
      BY <2>1 DEF Move, ScriptBecomes, LookedInv, InstallInv, InstallTypeOK
  <2>3. agentclip'.version = Tag[i] /\ UnderWay(i)
      BY <2>2 DEF UnderWay, LookedInv, InstallInv, MovedIsWhole
  <2>4. i \in blind \cup overtaken
      BY <2>0, <2>3, TagAssumption DEF LookedInv, NewerThanFound
  <2>5. blind = {} => Tag[i] > before
      BY <2>3 DEF LookedInv, NewerThanBefore
  <2> QED BY <2>2, <2>3, <2>4, <2>5
<1>2. InstallSpec => [][Forward]_installVars
  BY <1>1, LookedInvInit, LookedInvNext, PTL DEF InstallSpec
<1> QED
  BY <1>2 DEF NeverOlder
=============================================================================
