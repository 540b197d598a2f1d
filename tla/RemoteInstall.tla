---------------------------- MODULE RemoteInstall ----------------------------
(***************************************************************************)
(* remote.InstallVerified: a machine looks at the agentclip a server has,  *)
(* downloads and verifies the release for the server's platform and pipes  *)
(* it into a short script there, which compares the digest and moves the   *)
(* file into place.  The machine and the script are two processes joined   *)
(* by a connection that may drop; several machines may install at once.    *)
(***************************************************************************)
EXTENDS Naturals

CONSTANTS
    Installs,     \* the installations: `setup` and `upgrade`, of any machine
    Tag,          \* the release each installs; versions are ranked 1, 2, ...
    Versions,     \* what the server may have before; 0 is none
    MaxKills      \* bound: scripts that die with the server

ASSUME TagAssumption      == Tag \in [Installs -> Nat \ {0}]
ASSUME VersionsAssumption == Versions \subseteq Nat
ASSUME KillsAssumption    == MaxKills \in Nat

VARIABLES
    agentclip,  \* ~/.local/bin/agentclip on the server
    temporary,  \* each script's $dir/.agentclip-new.$$
    client,     \* where each InstallVerified stands
    script,     \* where its script on the server stands
    outcome,    \* what InstallVerified returned
    before,     \* history: the version the server had before all of them
    blind,      \* history: the installations that could not read the version
    overtaken,  \* history: those in whose course another one replaced the executable
    kills

history     == <<before, blind, overtaken>>
installVars == <<agentclip, temporary, client, script, outcome, history, kills>>

\* A file that holds some bytes of a release, all of them or not.
Files  == [version: Nat, whole: BOOLEAN]
NoFile == [version |-> 0, whole |-> TRUE]

InstallTypeOK ==
    /\ agentclip \in Files
    /\ temporary \in [Installs -> Files]
    /\ client \in [Installs -> {"version", "platform", "fetch", "open", "upload", "end"}]
    /\ script \in [Installs -> {"none", "cat", "compare", "move", "ok", "error", "killed"}]
    /\ outcome \in [Installs -> {"none", "changed", "unchanged", "failed"}]
    /\ before \in Nat
    /\ blind \subseteq Installs /\ overtaken \subseteq Installs
    /\ kills \in 0..MaxKills

InstallInit ==
    /\ before \in Versions
    /\ agentclip = [version |-> before, whole |-> TRUE]
    /\ temporary = [i \in Installs |-> NoFile]
    /\ client = [i \in Installs |-> "version"]
    /\ script = [i \in Installs |-> "none"]
    /\ outcome = [i \in Installs |-> "none"]
    /\ blind = {} /\ overtaken = {}
    /\ kills = 0

GoOn(i, to)          == client' = [client EXCEPT ![i] = to] /\ UNCHANGED outcome
Return(i, how)       == client' = [client EXCEPT ![i] = "end"] /\ outcome' = [outcome EXCEPT ![i] = how]
ScriptBecomes(i, to) == script' = [script EXCEPT ![i] = to]
Remote == <<agentclip, temporary, script, kills>>

\* It has looked at the server's version and may yet replace it.
UnderWay(i) ==
    \/ client[i] \in {"platform", "fetch", "open"}
    \/ script[i] \in {"cat", "compare", "move"}
-----------------------------------------------------------------------------
(* InstallVerified, on the user's machine.                                 *)

\* Mutant of EnoughInstalled: only the same version is left alone.
SameInstalled(i) == agentclip.version = Tag[i]

\* A version that can be read, and is not older than the one to install.
EnoughInstalled(i) == agentclip.version >= Tag[i]

\* installedVersion: one that cannot be read counts as none.
InstalledVersion(i) ==
    /\ client[i] = "version"
    /\ \/ EnoughInstalled(i) /\ Return(i, "unchanged") /\ UNCHANGED blind
       \/ ~EnoughInstalled(i) /\ GoOn(i, "platform") /\ UNCHANGED blind
       \/ GoOn(i, "platform") /\ blind' = blind \cup {i}
    /\ UNCHANGED <<Remote, before, overtaken>>

\* platformCommand and PlatformFromOutput.
Platform(i) ==
    /\ client[i] = "platform"
    /\ GoOn(i, "fetch") \/ Return(i, "failed")
    /\ UNCHANGED <<Remote, history>>

\* FetchRelease: the download, the checksum and the attestation.
FetchRelease(i) ==
    /\ client[i] = "fetch"
    /\ GoOn(i, "open") \/ Return(i, "failed")
    /\ UNCHANGED <<Remote, history>>

\* The upload starts the script.
Upload(i) ==
    /\ client[i] = "open"
    /\ GoOn(i, "upload")
    /\ ScriptBecomes(i, "cat")
    /\ temporary' = [temporary EXCEPT ![i] = [version |-> Tag[i], whole |-> FALSE]]
    /\ UNCHANGED <<agentclip, history, kills>>

\* The connection drops, or the time for the installation is over: a script that
\* still reads sees its input end.
GiveUp(i) ==
    /\ client[i] = "upload"
    /\ Return(i, "failed")
    /\ IF script[i] = "cat" THEN ScriptBecomes(i, "compare") ELSE UNCHANGED script
    /\ UNCHANGED <<agentclip, temporary, history, kills>>

\* The script ended, and ssh returned its status.
Report(i) ==
    /\ client[i] = "upload"
    /\ \/ script[i] = "ok" /\ Return(i, "changed")
       \/ script[i] = "error" /\ Return(i, "failed")
    /\ UNCHANGED <<Remote, history>>
-----------------------------------------------------------------------------
(* uploadCommand, on the server.                                           *)

\* A line that fails ends the script (set -e), and its trap removes the file.
Trapped(i) == ScriptBecomes(i, "error") /\ temporary' = [temporary EXCEPT ![i] = NoFile]

\* mkdir and cat: everything arrived.
Cat(i) ==
    /\ script[i] = "cat"
    /\ \/ ScriptBecomes(i, "compare") /\ temporary' = [temporary EXCEPT ![i].whole = TRUE]
       \/ Trapped(i)
    /\ UNCHANGED <<agentclip, client, outcome, history, kills>>

\* Mutant of Compare: the digest is not compared.
CompareNothing(i) ==
    /\ script[i] = "compare"
    /\ ScriptBecomes(i, "move")
    /\ UNCHANGED <<agentclip, temporary, client, outcome, history, kills>>

\* Mutant of Compare: no trap removes the temporary file.
CompareWithoutTrap(i) ==
    /\ script[i] = "compare"
    /\ ScriptBecomes(i, IF temporary[i].whole THEN "move" ELSE "error")
    /\ UNCHANGED <<agentclip, temporary, client, outcome, history, kills>>

\* The digest, which has to be the verified one.
Compare(i) ==
    /\ script[i] = "compare"
    /\ \/ temporary[i].whole /\ ScriptBecomes(i, "move") /\ UNCHANGED temporary
       \/ Trapped(i)
    /\ UNCHANGED <<agentclip, client, outcome, history, kills>>

\* chmod and mv.
Move(i) ==
    /\ script[i] = "move"
    /\ \/ /\ ScriptBecomes(i, "ok")
          /\ agentclip' = temporary[i]
          /\ temporary' = [temporary EXCEPT ![i] = NoFile]
          /\ overtaken' = overtaken \cup {j \in Installs \ {i} : UnderWay(j)}
       \/ Trapped(i) /\ UNCHANGED <<agentclip, overtaken>>
    /\ UNCHANGED <<client, outcome, before, blind, kills>>

\* The server restarts, or the script is killed.
Kill(i) ==
    /\ script[i] \in {"cat", "compare", "move"}
    /\ kills < MaxKills /\ kills' = kills + 1
    /\ ScriptBecomes(i, "killed")
    /\ UNCHANGED <<agentclip, temporary, client, outcome, history>>

Client(i) ==
    \/ InstalledVersion(i) \/ Platform(i) \/ FetchRelease(i)
    \/ Upload(i) \/ GiveUp(i) \/ Report(i)
Script(i) == Cat(i) \/ Compare(i) \/ Move(i)

InstallNext == \E i \in Installs : Client(i) \/ Script(i) \/ Kill(i)

InstallSpec == InstallInit /\ [][InstallNext]_installVars

\* InstallTimeout bounds the client; the server runs its scripts.
InstallFairSpec ==
    InstallSpec /\ \A i \in Installs : WF_installVars(Client(i)) /\ WF_installVars(Script(i))
-----------------------------------------------------------------------------
(***************************************************************************)
(* Properties.                                                             *)
(***************************************************************************)
\* "A dropped connection then leaves the previous binary in place instead of a
\* truncated one": what the server runs is always one release, whole.
BinaryIsWhole == agentclip.whole

\* Nothing piles up beside the executable, except after a kill.
TemporariesGo ==
    \A i \in Installs : <>[](temporary[i] = NoFile \/ script[i] = "killed")

\* InstallVerified: "a server that already has this version, or a newer one, is
\* left alone".  An installation keeps to that as long as it could read the version
\* (one that cannot be read counts as none) and nobody else replaced the executable
\* between its look and its move.  Where all could read it, the server never falls
\* back to what it had before any of them, whatever releases they install.
NeverOlder ==
    [][agentclip'.version < agentclip.version =>
          /\ \E i \in blind \cup overtaken : script[i] = "move" /\ script'[i] = "ok"
          /\ blind = {} => agentclip'.version > before]_installVars
=============================================================================
