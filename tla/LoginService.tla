---------------------------- MODULE LoginService ----------------------------
(***************************************************************************)
(* A profile's Companion as a login service: `companion autostart enable`, *)
(* `disable` and `status` on the three systems, the system's service       *)
(* manager, and users who start and stop the same Companion by hand.  The  *)
(* manager knows a Companion by its exit status only.  Each command of the *)
(* Runner, each file operation may fail, and the session may end anywhere. *)
(* CompanionRun is the process; of two starts one finds the other healthy  *)
(* and ends well (ProfileStart), so there is one process at a time here.   *)
(***************************************************************************)
EXTENDS CompanionRun

CONSTANTS
    Systems,      \* of "darwin", "linux", "windows"
    MaxCommands,  \* bound: autostart commands
    MaxLogins     \* bound: ends of a session and logins after them

ASSUME SystemsAssumption == Systems \subseteq {"darwin", "linux", "windows"}
ASSUME LoginBoundsAssumption == MaxCommands \in Nat /\ MaxLogins \in Nat

VARIABLES
    os,
    file,        \* the LaunchAgent or unit: "none", "whole", or "torn" by a failed write
    registered,  \* the unit is enabled, or the task exists
    job,         \* what the manager has of it: "off" when nothing is loaded
    owner,       \* who started the Companion's process
    pc,          \* where the autostart command stands
    verb,        \* which command it is
    answer,      \* what the last command said
    refused,     \* lastFailure: the command that turns autostart off failed
    unseen,      \* history: a failure that the command cannot tell or does not look at
    stopped,     \* history: a user stopped the manager's Companion, and nothing went wrong
    commands, logins

service   == <<file, registered, job>>
command   == <<pc, verb, answer, refused, unseen>>
loginVars == <<os, service, owner, command, stopped, commands, logins>>
vars      == <<runVars, loginVars>>

Verbs   == {"enable", "disable", "status"}
Answers == {"none", "enabled", "undone", "failed", "disabled", "still on", "on", "off"}
Places  == {"idle", "write", "unload", "reload", "load", "undo", "remove", "query"}

TypeOK ==
    /\ RunTypeOK
    /\ os \in Systems
    /\ file \in {"none", "whole", "torn"} /\ registered \in BOOLEAN
    /\ job \in {"off", "due", "running", "ok", "failed"}
    /\ owner \in {"nobody", "manager", "user"}
    /\ pc \in Places /\ verb \in Verbs /\ answer \in Answers
    /\ refused \in BOOLEAN /\ unseen \in BOOLEAN /\ stopped \in BOOLEAN
    /\ commands \in 0..MaxCommands /\ logins \in 0..MaxLogins

Init ==
    /\ RunInit
    /\ os \in Systems
    /\ file = "none" /\ registered = FALSE /\ job = "off" /\ owner = "nobody"
    /\ pc = "idle" /\ verb = "status" /\ answer = "none"
    /\ refused = FALSE /\ unseen = FALSE /\ stopped = FALSE
    /\ commands = 0 /\ logins = 0

HasFile == os # "windows"   \* Plan.Files
Queried == os # "darwin"    \* Plan.Query

\* What the next login would do with what is on disk and registered.
StartsAtLogin ==
    /\ HasFile => file = "whole"
    /\ os # "darwin" => registered
-----------------------------------------------------------------------------
(***************************************************************************)
(* The service manager.                                                    *)
(***************************************************************************)
\* A start that is due.  A Companion that is running makes the new process end
\* with 0; the bridge or the control server that cannot be had make it fail.
Bring ==
    /\ job = "due"
    /\ \/ /\ InService
          /\ job' = "ok" /\ UNCHANGED <<runVars, owner>>
       \/ /\ owner = "nobody" /\ StartService
          /\ job' = "running" /\ owner' = "manager"
       \/ job' = "failed" /\ UNCHANGED <<runVars, owner>>
    /\ UNCHANGED <<os, file, registered, command, stopped, commands, logins>>

\* The end of a process is seen by whoever started it.
SeeExit ==
    /\ main = "ended" /\ Vanish
    /\ job' = IF owner = "manager" /\ job = "running" THEN exit ELSE job
    /\ owner' = "nobody" /\ stopped' = (stopped /\ ~fault)
    /\ UNCHANGED <<os, file, registered, command, commands, logins>>

\* Mutant of StartAgain: KeepAlive, or Restart=always.
StartAlways ==
    /\ os # "windows" /\ job \in {"failed", "ok"}
    /\ job' = "due"
    /\ UNCHANGED <<runVars, os, file, registered, owner, command, stopped, commands, logins>>

\* KeepAlive with SuccessfulExit false, Restart=on-failure; a logon task has neither.
StartAgain ==
    /\ os # "windows" /\ job = "failed"
    /\ job' = "due"
    /\ UNCHANGED <<runVars, os, file, registered, owner, command, stopped, commands, logins>>

\* The session ends with all its processes, in the midst of whatever they do, and
\* the user logs in again.
Login ==
    /\ logins < MaxLogins /\ logins' = logins + 1
    /\ Vanish
    /\ job' = IF StartsAtLogin THEN "due" ELSE "off"
    /\ owner' = "nobody" /\ stopped' = FALSE
    /\ pc' = "idle" /\ verb' = "status" /\ answer' = "none"
    /\ refused' = FALSE /\ unseen' = FALSE
    /\ UNCHANGED <<os, file, registered, commands>>
-----------------------------------------------------------------------------
(***************************************************************************)
(* Users.                                                                  *)
(***************************************************************************)
\* `companion start` refuses beside a running Companion; a start may fail.
UserStarts ==
    /\ owner = "nobody" /\ StartService
    /\ owner' = "user" /\ stopped' = FALSE
    /\ UNCHANGED <<os, service, command, commands, logins>>

\* `companion stop`, or the page's button.
UserStops ==
    /\ AskStop
    /\ stopped' = (stopped \/ job = "running")
    /\ UNCHANGED <<os, service, owner, command, commands, logins>>
-----------------------------------------------------------------------------
(***************************************************************************)
(* Runner.Enable, Disable and Enabled.                                     *)
(***************************************************************************)
Say(what) == pc' = "idle" /\ answer' = what
Go(place) == pc' = place /\ UNCHANGED answer

Rest == UNCHANGED <<os, verb, commands, logins>>

Begin ==
    /\ pc = "idle" /\ commands < MaxCommands
    /\ commands' = commands + 1
    /\ verb' \in Verbs
    /\ answer' = "none" /\ refused' = FALSE /\ unseen' = FALSE
    /\ pc' = CASE verb' = "enable"  -> "write"
               [] verb' = "disable" -> "unload"
               [] OTHER             -> "query"
    /\ UNCHANGED <<runVars, os, service, owner, stopped, logins>>

\* MkdirAll and WriteFile; a failed write is not undone.
WriteFiles ==
    /\ pc = "write"
    /\ \/ Go("unload") /\ file' = IF HasFile THEN "whole" ELSE file
       \/ HasFile /\ Say("failed") /\ file' \in {file, "torn"}
    /\ Rest /\ UNCHANGED <<runVars, registered, job, owner, refused, unseen, stopped>>

\* bootout, disable --now or Delete, as the system does it: what is loaded is
\* unloaded and its process gets a SIGTERM; a logon task only goes.
TurnOff ==
    /\ registered' = FALSE
    /\ CASE os = "windows" -> registered /\ UNCHANGED <<job, runVars>>
         [] os = "darwin"  -> job # "off" /\ job' = "off"
         [] OTHER          -> file # "none" /\ job' = "off"
    /\ os # "windows" => IF owner = "manager" /\ InService THEN Signalled ELSE UNCHANGED runVars

\* Plan.Disable; it fails as well where nothing is loaded.  Enable does not look.
Unload ==
    /\ pc = "unload"
    /\ \/ TurnOff /\ UNCHANGED refused
       \/ refused' = TRUE /\ registered' \in {registered, registered /\ os # "linux"}
          /\ UNCHANGED <<runVars, job>>
    /\ Go(IF verb = "disable" THEN "remove" ELSE IF os = "linux" THEN "reload" ELSE "load")
    /\ Rest /\ UNCHANGED <<file, owner, unseen, stopped>>

\* systemctl comes back when the process has ended.
Settled == os = "linux" => ~(owner = "manager" /\ job = "off")

\* The first of the two commands that enable a unit.
Reload ==
    /\ pc = "reload" /\ Settled
    /\ Go("load") \/ Go("undo")
    /\ Rest /\ UNCHANGED <<runVars, service, owner, refused, unseen, stopped>>

\* bootstrap, enable --now or Create.  What is loaded already is not loaded twice;
\* a unit may be enabled although its start fails.
Load ==
    /\ pc = "load"
    /\ \/ /\ Say("enabled")
          /\ registered' = (os # "darwin")
          /\ os = "darwin" => job = "off"
          /\ job' = IF os = "windows" \/ job = "running" THEN job ELSE "due"
          /\ stopped' = FALSE
       \/ /\ Go("undo")
          /\ registered' \in {registered, os = "linux" \/ registered} /\ UNCHANGED <<job, stopped>>
    /\ Rest /\ UNCHANGED <<runVars, file, owner, refused, unseen>>

\* Enable failed: the files go; whether they did is not looked at.
Undo ==
    /\ pc = "undo"
    /\ \/ file' = "none" /\ UNCHANGED unseen
       \/ HasFile /\ UNCHANGED file /\ unseen' = TRUE
    /\ Say("undone")
    /\ Rest /\ UNCHANGED <<runVars, registered, job, owner, refused, stopped>>

\* Disable removes the files and, where the system can be asked, asks it.
RemoveFiles ==
    /\ pc = "remove" /\ Settled
    /\ \/ file' = "none" /\ IF Queried THEN Go("query") ELSE Say("disabled")
       \/ HasFile /\ UNCHANGED file /\ Say("failed")
    /\ Rest /\ UNCHANGED <<runVars, registered, job, owner, refused, unseen, stopped>>

\* What the system answers, or the look at the first file.
On == IF Queried THEN registered /\ (HasFile => file # "none") ELSE file # "none"

\* Mutant of Query: Disable does not ask.
QueryStatusOnly ==
    /\ pc = "query"
    /\ Say(IF verb = "disable" THEN "disabled" ELSE IF On THEN "on" ELSE "off")
    /\ Rest /\ UNCHANGED <<runVars, service, owner, refused, unseen, stopped>>

\* Plan.Query, or without one the file's being there.  A query that fails says off.
Query ==
    /\ pc = "query"
    /\ LET said(on) == IF verb = "disable" THEN IF on THEN "still on" ELSE "disabled"
                                           ELSE IF on THEN "on" ELSE "off"
       IN  \/ Say(said(On)) /\ UNCHANGED unseen
           \/ Queried /\ Say(said(FALSE)) /\ unseen' = TRUE
    /\ Rest /\ UNCHANGED <<runVars, service, owner, refused, stopped>>
-----------------------------------------------------------------------------
Runner  == WriteFiles \/ Unload \/ Reload \/ Load \/ Undo \/ RemoveFiles \/ Query
Manager == Bring \/ SeeExit \/ StartAgain

Next ==
    \/ (RunStep \/ Kill) /\ UNCHANGED loginVars
    \/ Manager \/ Login
    \/ UserStarts \/ UserStops
    \/ Begin \/ Runner

Spec == Init /\ [][Next]_vars

\* Goroutines run; a child that was killed ends; the manager works.
FairSpec ==
    /\ Spec
    /\ WF_vars(Main /\ UNCHANGED loginVars)
    /\ WF_vars(WatcherEnds /\ UNCHANGED loginVars)
    /\ WF_vars(Tunnel /\ UNCHANGED loginVars)
    /\ WF_vars(tunnel = "killed" /\ SshExits /\ UNCHANGED loginVars)
    /\ WF_vars(Bring) /\ WF_vars(SeeExit) /\ WF_vars(StartAgain)
-----------------------------------------------------------------------------
(***************************************************************************)
(* Properties.                                                             *)
(***************************************************************************)
\* What enable, disable and status say is true of the next login, as far as the
\* command could see: a query that fails looks like "off", and a file that cannot be
\* removed by an enabling that failed stays.  A disabled unit has no process left.
AnswersAreTrue ==
    /\ answer = "enabled" => StartsAtLogin
    /\ answer = "undone" /\ HasFile /\ ~unseen => ~StartsAtLogin
    /\ answer = "disabled" /\ ~unseen => ~StartsAtLogin
    /\ answer = "disabled" /\ ~refused /\ HasFile =>
           job = "off" /\ (os = "linux" => owner # "manager")
    /\ answer \in {"on", "off"} /\ ~unseen /\ file # "torn" => (answer = "on") = StartsAtLogin

\* The manager does not bring a Companion back that a user stopped, unless that one
\* could not start ssh, or was killed, before it had ended.
StopIsRespected == stopped /\ ~fault => job \notin {"failed", "due"}

\* A Companion of the manager that ended because ssh could not be started, or that
\* was killed, is started again by launchd and systemd, unless autostart was turned
\* off.  A Windows logon task says nothing of failures (windowsPlan), so there the
\* manager only learns of it, and the next login or enabling starts a Companion.
FailureIsRetried ==
    (owner = "manager" /\ job = "running" /\ main = "ended" /\ fault)
        ~> \/ job \in {"due", "off"}
           \/ os = "windows" /\ job = "failed"
=============================================================================
