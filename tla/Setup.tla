-------------------------------- MODULE Setup --------------------------------
(***************************************************************************)
(* `agentclip setup` for one profile: the SSH identity, the installation,  *)
(* the running Companion, the pairing (a new token, registered with every  *)
(* agent of the server or with the one that was named, and then saved), and*)
(* the Companion's new start.                                              *)
(* Every step may fail, earlier ones are not undone, and the Companion's   *)
(* processes run beside it: a stop is a request, a start takes a while.    *)
(* RemoteInstall models the installation and ProfileStart the start lock;  *)
(* both are one step here.  Some agents have one JSON file for all their   *)
(* entries, which commands for other profiles of the server change, too.   *)
(***************************************************************************)
EXTENDS Naturals, FiniteSets

CONSTANTS
    Agents,     \* the supported agents installed on the server
    FileAgents, \* those whose entries are in one file: agy and opencode
    NoAgent,    \* no agent
    Procs,      \* the `companion serve` processes
    NoProc,     \* no process
    OwnKeys,    \* what the user's own SSH key may be good for: a set of BOOLEANs
    MaxSetups   \* bound: how often setup is run

ASSUME NoProcAssumption == NoProc \notin Procs
ASSUME AgentAssumption  == FileAgents \subseteq Agents /\ NoAgent \notin Agents
ASSUME KeysAssumption   == OwnKeys \subseteq BOOLEAN
ASSUME BoundsAssumption == MaxSetups \in Nat

VARIABLES
    pc,        \* where setup stands
    options,   \* --agent, as the agents it selects, --skip-agent and --no-start
    identity,  \* the SSH identity setup uses: whether it is AgentClip's own key
    token,     \* the pairing token of this setup
    left,      \* the agents still to configure
    agent,     \* the agent being configured, between removal and addition
    child,     \* the process it started
    minted,    \* how many tokens were made
    profile,   \* the saved profile; token 0 before there is one
    entry,     \* the token in each agent's MCP entry; 0 for no entry
    key,       \* AgentClip's SSH key: "none", "local", "authorized"
    ownKey,    \* whether the server accepts the user's own key
    comp,      \* the Companion processes
    startLock, \* the profile's start lock
    copies,    \* this profile's entry in the files other commands have read
    undone,    \* history: the agents whose file such a command put back
    seen       \* history: the Companions this setup found running

cmd    == <<options, identity, token, left, agent, child, minted>>
files  == <<entry, copies, undone>>
server == <<files, key, ownKey>>
procs  == <<comp, startLock, seen>>
vars   == <<pc, cmd, profile, server, procs>>

Tokens == 1..MaxSetups
Options == [agents: SUBSET Agents, skipAgent: BOOLEAN, noStart: BOOLEAN]
Ended  == {"idle", "done", "failed"}
Busy   == {"check", "makeKey", "bootstrap", "verify", "install", "probe", "stop",
           "mint", "detect", "remove", "add", "save", "start", "await"}

TypeOK ==
    /\ pc \in Ended \cup Busy
    /\ options \in Options
    /\ identity \in BOOLEAN
    /\ token \in 0..MaxSetups /\ minted \in 0..MaxSetups
    /\ left \subseteq Agents /\ agent \in Agents \cup {NoAgent}
    /\ seen \subseteq Procs
    /\ child \in Procs \cup {NoProc}
    /\ profile \in [token: 0..MaxSetups, key: BOOLEAN]
    /\ entry \in [Agents -> 0..MaxSetups]
    /\ DOMAIN copies \subseteq FileAgents
    /\ \A a \in DOMAIN copies : copies[a] \in 0..MaxSetups
    /\ undone \subseteq FileAgents
    /\ key \in {"none", "local", "authorized"}
    /\ ownKey \in BOOLEAN
    /\ comp \in [Procs -> [pc: {"off", "new", "loaded", "starting", "serving", "stopping"},
                           token: 0..MaxSetups]]
    /\ startLock \in Procs \cup {NoProc}

Init ==
    /\ pc = "idle"
    /\ options = [agents |-> {}, skipAgent |-> FALSE, noStart |-> FALSE]
    /\ identity = FALSE /\ token = 0 /\ left = {} /\ seen = {}
    /\ agent = NoAgent /\ child = NoProc /\ minted = 0
    /\ profile = [token |-> 0, key |-> FALSE]
    /\ entry = [a \in Agents |-> 0]
    /\ copies = [a \in {} |-> 0] /\ undone = {}
    /\ key = "none" /\ ownKey \in OwnKeys
    /\ comp = [p \in Procs |-> [pc |-> "off", token |-> 0]]
    /\ startLock = NoProc
-----------------------------------------------------------------------------
(* The Companion's processes.                                              *)

In(p, where) == comp[p].pc = where
Becomes(p, where) ==
    /\ comp' = [comp EXCEPT ![p].pc = where]
    /\ UNCHANGED seen

\* companion.LoadRuntime and RuntimeHealthy: a Companion answers from when its
\* control server is up until that is closed, the time it takes to stop included.
Healthy == {p \in Procs : comp[p].pc \in {"serving", "stopping"}}

Others == <<pc, cmd, profile, server>>
Off(p) ==
    /\ comp' = [comp EXCEPT ![p] = [pc |-> "off", token |-> 0]]
    /\ seen' = seen \ {p}
Release(p) == startLock' = IF startLock = p THEN NoProc ELSE startLock

\* The user, or the login service, starts a Companion.
UserStart(p) ==
    /\ In(p, "off") /\ profile.token > 0
    /\ \E q \in Procs \ {p} : In(q, "off")
    /\ Becomes(p, "new")
    /\ UNCHANGED <<Others, startLock>>

LoadProfile(p) ==
    /\ In(p, "new")
    /\ IF profile.token = 0
       THEN Off(p)
       ELSE /\ comp' = [comp EXCEPT ![p] = [pc |-> "loaded", token |-> profile.token]]
            /\ UNCHANGED seen
    /\ UNCHANGED <<Others, startLock>>

\* acquireProfileStartLock; it gives up when it has waited long enough.
Lock(p) ==
    /\ In(p, "loaded")
    /\ \/ startLock = NoProc /\ startLock' = p /\ Becomes(p, "starting")
       \/ startLock # NoProc /\ Off(p) /\ UNCHANGED startLock
    /\ UNCHANGED Others

\* Under the lock: a Companion that answers ends this one; otherwise it serves,
\* unless the bridge or the control server cannot be had.
Serve(p) ==
    /\ In(p, "starting")
    /\ \/ Healthy = {} /\ Becomes(p, "serving")
       \/ Off(p)
    /\ Release(p)
    /\ UNCHANGED Others

\* `companion stop`.
UserStop(p) ==
    /\ In(p, "serving")
    /\ Becomes(p, "stopping")
    /\ UNCHANGED <<Others, startLock>>

Close(p) ==
    /\ In(p, "stopping")
    /\ Off(p)
    /\ UNCHANGED <<Others, startLock>>
-----------------------------------------------------------------------------
(* `agentclip harness install` and `remove` for other profiles: the file is *)
(* read, changed in memory and renamed into place, under no lock.           *)

Aside == <<pc, cmd, profile, key, ownKey, procs>>

ReadFile(a) ==
    /\ a \notin DOMAIN copies
    /\ copies' = [b \in DOMAIN copies \cup {a} |-> IF b = a THEN entry[a] ELSE copies[b]]
    /\ UNCHANGED <<Aside, entry, undone>>

ReplaceFile(a) ==
    /\ a \in DOMAIN copies
    /\ entry' = [entry EXCEPT ![a] = copies[a]]
    /\ copies' = [b \in DOMAIN copies \ {a} |-> copies[b]]
    /\ undone' = IF copies[a] = entry[a] THEN undone ELSE undone \cup {a}
    /\ UNCHANGED Aside
-----------------------------------------------------------------------------
(* Runner.Run, one action per step.                                        *)

\* `--agent all`, the default, selects every agent found, `--agent X` one of them.
Selected(o) ==
    IF o.skipAgent THEN o.agents = {} ELSE o.agents = Agents \/ \E a \in Agents : o.agents = {a}

Begin ==
    /\ pc \in Ended /\ minted < MaxSetups
    /\ pc' = "check"
    /\ options' \in Options /\ Selected(options')
    /\ identity' = profile.key
    /\ token' = 0 /\ left' = {} /\ agent' = NoAgent /\ seen' = {} /\ child' = NoProc
    /\ minted' = minted + 1
    /\ undone' = {}
    /\ UNCHANGED <<profile, entry, copies, key, ownKey, comp, startLock>>

Works(own) == IF own THEN key = "authorized" ELSE ownKey
Go(to) == pc' = to
Rest == UNCHANGED <<options, token, left, agent, child, minted, profile, procs>>

\* EnsureSetupSSHIdentity: a key that works is kept; only a server that refused
\* the key leads to AgentClip's own.
CheckKey ==
    /\ pc = "check"
    /\ \/ Works(identity) /\ Go("install")
       \/ ~Works(identity) /\ Go("makeKey")
       \/ Go("failed")
    /\ Rest /\ UNCHANGED <<identity, server>>

\* ensureAgentClipSSHKey: a key pair made earlier is used again.
MakeKey ==
    /\ pc = "makeKey"
    /\ \/ Go("bootstrap") /\ key' = IF key = "none" THEN "local" ELSE key
       \/ Go("failed") /\ UNCHANGED key
    /\ Rest /\ UNCHANGED <<identity, files, ownKey>>

\* bootstrapSSHKeyCommand, with the password the user types.
Bootstrap ==
    /\ pc = "bootstrap"
    /\ \/ Go("verify") /\ key' = "authorized"
       \/ Go("failed") /\ key' \in {key, "authorized"}
    /\ Rest /\ UNCHANGED <<identity, files, ownKey>>

VerifyKey ==
    /\ pc = "verify"
    /\ \/ Works(TRUE) /\ Go("install") /\ identity' = TRUE
       \/ Go("failed") /\ UNCHANGED identity
    /\ Rest /\ UNCHANGED server

\* ReleaseTag and Install, or --skip-install.
Install ==
    /\ pc = "install"
    /\ Go("probe") \/ Go("failed")
    /\ UNCHANGED <<cmd, profile, server, procs>>

CompanionRunning ==
    /\ pc = "probe"
    /\ seen' = Healthy
    /\ Go(IF Healthy = {} THEN "mint" ELSE "stop")
    /\ UNCHANGED <<cmd, profile, server, comp, startLock>>

\* Mutant of StopCompanion: a stop that fails is passed over.
StopPassesOver ==
    /\ pc = "stop" /\ Go("mint")
    /\ \/ \E p \in Healthy : In(p, "serving") /\ Becomes(p, "stopping")
       \/ UNCHANGED <<comp, seen>>
    /\ UNCHANGED <<cmd, profile, server, startLock>>

\* stopCompanion: it asks, and does not wait for the end.
StopCompanion ==
    /\ pc = "stop"
    /\ \/ \E p \in Healthy :
             /\ Becomes(p, "stopping")
             /\ Go("mint")
       \/ Go("failed") /\ UNCHANGED <<comp, seen>>
    /\ UNCHANGED <<cmd, profile, server, startLock>>

\* pairProfileWithIdentity: new tokens; --skip-agent goes straight to the save.
Mint ==
    /\ pc = "mint"
    /\ token' = minted
    /\ Go(IF options.skipAgent THEN "save" ELSE "detect")
    /\ UNCHANGED <<options, identity, left, agent, child, minted, profile, server, procs>>

\* Configure, on a server that answers and is new enough: with all agents found there,
\* of which there must be one, or with the one selected.
DetectAgents ==
    /\ pc = "detect"
    /\ \/ options.agents # {} /\ left' = options.agents /\ Go("remove")
       \/ Go("failed") /\ UNCHANGED left
    /\ UNCHANGED <<options, identity, token, agent, child, minted, profile, server, procs>>

\* configureOne first removes the profile's entry; how that ends is not looked at.
RemoveEntry(a) ==
    /\ pc = "remove" /\ a \in left
    /\ agent' = a
    /\ \E t \in {entry[a], 0} : entry' = [entry EXCEPT ![a] = t]
    /\ Go("add")
    /\ UNCHANGED <<options, identity, token, left, child, minted, profile,
                   copies, undone, key, ownKey, procs>>

Added(t) ==
    /\ entry' = [entry EXCEPT ![agent] = t]
    /\ undone' = IF t = token THEN undone \ {agent} ELSE undone
    /\ UNCHANGED copies

\* Mutant of AddEntry: an agent that cannot be configured is skipped.
AddWhatWorks ==
    /\ pc = "add"
    /\ \E t \in {entry[agent], 0, token} : Added(t)
    /\ left' = left \ {agent} /\ agent' = NoAgent
    /\ Go(IF left = {agent} THEN "save" ELSE "remove")
    /\ UNCHANGED <<options, identity, token, child, minted, profile, key, ownKey, procs>>

\* Then it adds the entry, over SSH again: a call that fails may leave what was
\* there, no entry or the new one.
AddEntry ==
    /\ pc = "add"
    /\ \/ /\ Added(token)
          /\ left' = left \ {agent} /\ agent' = NoAgent
          /\ Go(IF left = {agent} THEN "save" ELSE "remove")
       \/ /\ Go("failed")
          /\ \E t \in {entry[agent], 0, token} : Added(t)
          /\ UNCHANGED <<left, agent>>
    /\ UNCHANGED <<options, identity, token, child, minted, profile, key, ownKey, procs>>

\* companion.SaveProfile: the file is renamed into place, or stays as it was.
SaveProfile ==
    /\ pc = "save"
    /\ \/ /\ profile' = [token |-> token, key |-> identity]
          /\ Go(IF options.noStart THEN "done" ELSE "start")
       \/ Go("failed") /\ UNCHANGED profile
    /\ UNCHANGED <<cmd, server, procs>>

\* startCompanion refuses when one answers, and else starts a process.
StartCompanion ==
    /\ pc = "start"
    /\ \/ Healthy # {} /\ Go("failed") /\ UNCHANGED <<child, comp, seen>>
       \/ /\ Healthy = {} /\ Go("await")
          /\ \E p \in Procs : In(p, "off") /\ child' = p /\ Becomes(p, "new")
    /\ UNCHANGED <<options, identity, token, left, agent, minted, profile, server, startLock>>

\* Mutant of AwaitChild: any Companion that answers will do.
AwaitAny ==
    /\ pc = "await"
    /\ \/ Healthy # {} /\ Go("done") /\ UNCHANGED procs
       \/ Healthy = {} /\ Go("failed") /\ Off(child) /\ Release(child)
    /\ UNCHANGED <<cmd, profile, server>>

\* It waits until that process answers, and kills it when that takes too long.
AwaitChild ==
    /\ pc = "await"
    /\ \/ child \in Healthy /\ Go("done") /\ UNCHANGED procs
       \/ child \notin Healthy /\ Go("failed") /\ Off(child) /\ Release(child)
    /\ UNCHANGED <<cmd, profile, server>>

Run ==
    \/ CheckKey \/ MakeKey \/ Bootstrap \/ VerifyKey \/ Install
    \/ CompanionRunning \/ StopCompanion \/ Mint \/ DetectAgents
    \/ \E a \in Agents : RemoveEntry(a)
    \/ AddEntry
    \/ SaveProfile \/ StartCompanion \/ AwaitChild

Own(p) == LoadProfile(p) \/ Lock(p) \/ Serve(p) \/ Close(p)

Next ==
    \/ Begin \/ Run
    \/ \E a \in FileAgents : ReadFile(a) \/ ReplaceFile(a)
    \/ \E p \in Procs : UserStart(p) \/ UserStop(p) \/ Own(p)

Spec == Init /\ [][Next]_vars

-----------------------------------------------------------------------------
(***************************************************************************)
(* Properties.                                                             *)
(***************************************************************************)
\* A setup that ends well leaves the agents it was to configure and the profile with
\* one token, that of this setup, whatever earlier setups left half done; only a
\* command for another profile that had read the agent's file before can undo it.
\* (`--agent X` leaves the other agents with their old token, `--skip-agent` all.)
\* And whether it ends well or not, the key a profile names is one the server accepts.
SuccessPairs ==
    /\ pc = "done" =>
           /\ profile.token = minted
           /\ options.skipAgent
              \/ \A a \in options.agents \ undone : entry[a] = profile.token
    /\ profile.key => key = "authorized"

\* Setup never changes the pairing under a Companion that it found running: by then
\* each of those is stopping ("A running Companion would retain its old pairing
\* token after re-setup").
PairingSparesCompanions ==
    [][copies' = copies /\ (entry' # entry \/ profile' # profile) =>
           \A p \in seen : comp[p].pc # "serving" \/ comp[p].token = token]_vars

\* A setup that ends well has the Companion serve the new token: no process that
\* read the profile earlier takes its place.
SuccessServesNewToken ==
    [][pc' = "done" /\ pc # "done" /\ ~options.noStart =>
           \A p \in Healthy' : comp'[p].token = profile'.token]_vars

=============================================================================
