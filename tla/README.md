# AgentClip in TLA+

AgentClip lets a coding agent on a remote server read what a developer copies on
the machine in front of them (the *host*), and lets the agent hand files back. This
directory models the program's own logic: TLA+ modules, the instances TLC checks,
and theorems that TLAPS proves for every value of the constants. Sources are named
relative to the repository.

## 1. The system

    host                                                        server
    clipboard --> Companion (one per profile) == ssh -R tunnel ==> port on loopback
                    |  watches, arms, owns the tunnel                   ^
                    v                                                   |
                  bridge daemon (one per host, shared) <---- HTTP ---- MCP process
                    items, sessions, inbound offers           (one per agent session)

| Component (source) | State | Operations | Hard part | Correct when |
|---|---|---|---|---|
| **Clipboard bridge** `internal/bridge/bridge.go` | armed snapshot, table of items, sessions | arm, create/register/revoke sessions, status, fetch an image, text or file | `serveItem` gives the lock up to hash a file, `authenticate` returns a pointer used after the unlock, `ArmItems` takes its time before the lock | each item goes out once, to someone entitled, while its snapshot is armed |
| **Inbound offers** `internal/bridge/inbound.go` | offers, directories of the inbox | create, decide, upload, list, prune | the upload writes with no lock held; expiry is lazy; the store is in memory | nothing arrives unapproved, what is "delivered" is on disk, it goes after the retention |
| **Bridge daemon** `internal/daemon` | `bridge.json`, HTTP server | start, serve, shut down | removing a state file another bridge may have written | clients find the bridge that serves |
| **Bridge lifecycle** `cmd/agentclip/main.go` `acquireBridgeLock`, `ensureBridge`, `startBridge` | `bridge.lock` | adopt or start the shared bridge | takeover of a stale lock by name; who started it shuts it down | one bridge, none left behind |
| **Start of a Companion** `main.go` `runCompanionService`, `acquireProfileStartLock`, `internal/companion/runtime.go` | `<profile>.start.lock`, `<profile>.json` | start, stop | login service, user and upgrade start at once; stale lock | one Companion per profile, every start ends |
| **Clipboard watcher** `internal/companion/snapshot.go` | last fingerprint | poll, read, arm | the clipboard changes between fingerprint and content; a lost answer; several Companions | what is armed is what was copied |
| **Self-upgrade** `internal/selfupgrade`, `internal/upgrader`, `main.go` | executable, staged binary, which Companions run | update servers, stop, replace, restart; helper on Windows | any step fails half way while users stop Companions | the host changes last, Companions come back, nothing staged stays |
| **Setup** `internal/setup`, `internal/agents`, `companion/profile.go`, `remote` | SSH identity, agents' entries, profile, Companion | pair one profile | a failure is not undone; a Companion with the old token runs meanwhile | success pairs both sides with one token, and that is the one served |
| **Installation on a server** `internal/remote` | remote executable, its temporary | `InstallVerified` | the connection drops or the script dies at any point; several machines | the executable is always one whole release and goes back in a race only |
| **Materialization** `internal/mcpserver/http_provider.go` | shared inbox of the server | `materialize_files`, clean-up | items are consumed by a download that then fails; processes clean each other's inbox | all or nothing, and only old directories go |
| **Files for the host** `http_provider.go`, `server.go` | the remote file, calls in flight | `offer_file_to_host`, `deliver_file_to_host` | the file changes between hash and upload; answers get lost; the agent repeats | what is saved is what was offered and accepted, once |
| **Release check** `internal/release` | shared cache file, notice in the bridge | `Check`, `Compare`, publish | several processes read and write one file and one notice, and end meanwhile; clock; odd versions | an answer is never older than it says; the order is SemVer's |
| **SSH tunnel** `companion/tunnel.go`, `main.go:754-800` | one `ssh` child, the stop, signal and error channels | run, wait, reconnect, cancel, collect | waits that double and start over; a cancellation that meets a start, an exit or a wait; two results for one error channel | the service always ends, with nothing left, and its exit status tells why |
| **Autostart** `internal/autostart`, `cmd/agentclip/autostart.go` | LaunchAgent, unit or logon task | enable, disable, status | each command and file operation may fail half way; the service manager goes by exit status and brings processes back meanwhile | what is said is what the next login does; a stop is respected, a failure retried |
| **Harness configuration** `internal/agents`, `internal/harness` | JSON or TOML files, some shared by profiles | merge, remove | each command reads the whole file and writes it back with no lock | setup's own entry is there when setup succeeds |

Interactions. A Companion takes the start lock, checks the runtime file, takes the
bridge lock and adopts or starts the bridge, registers its session, then runs watcher,
tunnel, daily release check and its control server until stopped. MCP processes reach
the bridge through the tunnel with the profile's token. The Companion's page and the
command line decide on inbound offers. `setup` and `upgrade` stop and start
Companions by their control servers, and install releases on servers over SSH.

## 2. Modules

Each module is one component: state as VARIABLES, an action per critical section,
file operation, call or message. Where the code unlocks and locks again, or looks at
a file and then removes it, there are two actions, and what is carried from one to the
other is a variable. `PROJECT.json` maps every definition to the lines it stands for.

* **Bridge** — `snapshot`, `items`, `sessions` are the fields of `bridge.Bridge`.
  `Arm` is `ArmItems` in two steps (`PrepareArm` outside the lock; `InstallArm` in it),
  and a request walks `Receive` (or `ReceiveImage, PickImage`), `Authenticate, LookUp`,
  for a file `OpenVerifiedFile`, then `Consume`, with its own `asked`, `grant`, `found`. `grant` is what the handler reads of the `*Session`
  after the unlock. Contents are pairs (arm, position); `handed` counts responses.
  **OneShot** is what readers rely on: contents in generations, each handed over at
  most once, an old generation withdrawn for good. `Promise` in Bridge is the
  refinement mapping.
* **Inbound** — the map of offers, the directory of each (`none, empty, temp, file`)
  and the handlers: `CreateInboundOffer`; `ClaimOffer` (first lock section of an
  upload), `OpenTemporary`, `CopyBody`, `CommitDelivery` (second lock section). Every action that the code begins with `pruneInboundLocked` begins with
  the same operator. `Crash` forgets the map and keeps the disk.
* **ProfileStart** — `O_EXCL` create, stat, remove-if-old, deadline, the check of the
  runtime file, the claim, the removal of lock and runtime file. Creation time and
  age of the lock are clock values.
* **BridgeLifecycle** — the same for `bridge.lock` and the bridge process: state file,
  child that answers or is killed, the call that shuts it down and may fail (`missed`), a
  bridge that has answered that call and serves on until `StopServer` (`told`), `Daemon.Close`.
* **SnapshotWatcher** — `Turn` of each watcher: fingerprint, read, arm, each may fail,
  and an arm call may take effect though its answer is lost (`arms` counts what took effect, `lost`
  the answers that were missing).
* **SelfUpgrade** — `Runner.Run` in the code's order with the functions
  `runUpgrade` gives it, the processes of each profile (`old`, `new`), the shared
  bridge and the Windows helper.
* **Setup** — `Runner.Run` with each step that may fail, for all agents, one (`--agent X`)
  or none (`--skip-agent`); users who start and stop Companions, and the Companion's processes with the token each has read. An agent whose
  entries live in one file has commands of other profiles beside it, which read the file
  (`copies`) and put it back later (`ReplaceFile`), and so may undo what setup wrote.
* **RemoteInstall** — client and script, joined by a connection; the script reads,
  compares, moves, with its trap (`Trapped`: any line that fails). Each machine installs a
  release of its own; `before`, `blind` and `overtaken` remember what there was, who could not
  read it and for whom it changed between look and move.
* **Materialize** — calls, starts of processes, the inbox as directories with an
  mtime; every call on the file system but `RemoveAll` may fail.
* **HostDelivery** — the two tools against what they see of the bridge; Inbound has
  the bridge's side.
* **CompanionRun** — one `companion serve` process: the main goroutine with its three
  channels, the watcher and the tunnel with one result each, the `ssh` child and the
  ticks of `runTunnelWithLogger`'s timer. `Leave` is the select and `cancel()`, `Collect` the
  loop over `results`, `Finish` the deferred calls and the exit status. `Kill` ends the
  process and leaves the child, as SIGKILL does.
* **LoginService** — extends it with `Runner.Enable`, `Disable` and `Enabled`, one action
  per command of the plan or loop over its files, and with what they talk to: launchd, systemd
  and the task scheduler (`job`, `registered`), users, logins. The manager sees of a
  process its exit status only, which is why the two are composed.
* **SemVer**, **ReleaseCheck** — `Compare` as operators over sequences, checked and proved
  against rule 11 of Semantic Versioning; `ReleaseCheck` extends it with the cache, and with
  the notice each Companion publishes to the shared bridge (`Tell`), where `agentclip_update_status`
  reads it. `StopService` cancels a Companion's context, its request to GitHub included;
  `EndService` ends it at any step, and it may start again.

`MC*` modules define the small instances, `*Proofs` modules hold the theorems. Some of these
extend two components that have no name in common (`CheckSpec`, `DeliverySpec`,
`InstallSpec` and `WatchSpec` are specifications beside a `Spec`); nothing composes them.

## 3. What TLC checks

| Run | Questions | Instance | States |
|---|---|---|---|
| `bridge` | `SingleUse`, `ConsumedMeansHanded`, `OnlyEntitledRead`, refinement of OneShot | 2 requests, a profile and a guest, 2 arms of an image or of two items with a file, clock 0..1 with lives of 1 | 3.9 M |
| `inbound` | `UploadsAreSafe`, `OpenOffersAreCapped`, `FilesAreTracked`, `OffersFollowProtocol`, `FilesOutliveRetention` | 2 handlers, 3 offers, cap 2, one crash, times 0..3 | 1.3 M |
| `profile_start` | `OnePerProfile`, `GivesUpOnlyForRival`, `StartsEnd` | 3 starts, one stop, one kill, Stale 1 < Wait 2 | 944 k |
| `snapshot` | `RearmsAreFew`, `FollowsClipboard` | 2 watchers, 3 copies, 2 failures | 1.8 M |
| `lifecycle` | `OneBridge`, `BridgeFollowsOwner`, `LeftoverIsTakenOver` | 2 Companions and `arm`, 2 stops, one kill | 47 k |
| `autostart` | `WaitsDouble`, `NothingOutlivesService`, `AnswersAreTrue`, `StopIsRespected`, `StopEndsService`, `FailureIsRetried` | 3 systems, 2 commands, one login, one kill, waits of 1 to 3 ticks, stable after 1 | 772 k |
| `upgrade` | `StoppedStaysStopped`, `StagedIsGone`, `LocalChangesLast`, `CompanionsComeBack` | 2 profiles, 2 failures, one stop by the user, Windows or not | 115 k |
| `setup` | `SuccessPairs`, `PairingSparesCompanions`, `SuccessServesNewToken` | 3 setups in a row, 2 agents, one with a shared file, all, one or none of them selected, 3 processes | 1.3 M |
| `install` | `BinaryIsWhole`, `NeverOlder`, `TemporariesGo` | 3 machines, two of them with an older release than the third, a kill, any version before | 286 k |
| `materialize` | `AllOrNothing`, `OthersCleanOldOnly` | 3 calls or processes, 2 items of one name, retention 2 | 5.1 M |
| `host_delivery` | `SavedIsOffered`, `OkMeansDelivered` | 2 offers, 2 uploads, contents of equal and other length, 2 edits, 2 lost calls | 272 k |
| `release` | `NoticeFollowsSemVer` (with `OrdersAsSemVer` for every triple of 43 versions), `DateIsHonest`, `StatusIsFresh` | 2 Companions that stop, end and start again, 2 releases, cache of 2 ticks, one failing call, the clock put back once, by any amount | 9.4 M |

Why the bounds are enough. Each bound is the smallest at which the hazard needs no
more: two requests race for one item, and the second arm comes between them; a
leftover of a killed start is taken over by two others (hence three starts); an offer
expires while another is uploaded, and a cap of two is passed by two racing creations; three setups allow a failed one between two that end well, with a Companion
of each alive; two autostart commands allow an `enable` that finds the service of an earlier
one and a `disable` after it, with a login between; a wait of at most 3 ticks is reached by
doubling and cut off there. Counters that only count (arms, copies, edits, failures, kills) are
capped in the guards and named as bounds. Sets of
interchangeable processes are symmetric in the runs without liveness properties.
`CHECK_DEADLOCK FALSE` stands where the system ends: starts, an upgrade and
installations finish, and no one has anything to do then.

Properties say themselves where they stop holding: "crashes = 0", "stops = 0", "missed",
"failures = 0", `lost`, `undone`, `blind` and `overtaken`, "outages = 0", `stopping`, "~putBack".
Section 6 tells what happens there.

Fairness. `profile_start`: the steps of processes and the clock.
`snapshot`: the ticker of every watcher. `lifecycle`: starters and the bridge process.
`autostart`: goroutines run, a child that was killed ends, and the service manager does
what is due; an `ssh` that runs need not end, and no command goes on.
`upgrade`: `Run`, the helper, the Companions. `install`: client (bounded by
InstallTimeout) and script. No run assumes that users act or that calls succeed.
`bridge`, `inbound`, `setup`, `materialize`, `host_delivery`, `release` check safety only
and assume nothing. Inbound promises no removal in time: expiry is lazy, `WaitHostFileOffer`
polls only while the offer is pending and nobody has to ask after a delivery.

## 4. What is proved

For any number of processes, items, offers, times (56 theorems; the obligations go to
Z3, Zenon and LS4). Every invariant of section 3 is a theorem, and so is every action
property and the refinement; TLC alone checks liveness. The inductive invariants were
checked with TLC on the instances before they were proved.

* **BridgeProofs.** The inductive invariant is `TypeInv` (types, and that a handler's
  `asked` and `found` fit its program counter) and `Traced`: a prepared arm has an ID of
  its own and contents nobody got, every entry of the table has the content its ID
  names, nothing unminted was handed over, what a handler copied out is what it was
  asked for, and an entry is consumed exactly when its content went out.
  `SingleUse` alone is not inductive: a handler past its first section holds a copy
  of an item that may be gone. The same invariant gives `OnlyEntitledRead` (its two halves are `HandsToEntitled` and
  `LiveGuestsMatchSnapshot`) and the refinement, `ImplementsOneShot`: each step is a step or a stutter of OneShot.
  Assumed: `~CallerNamesIDs`.
* **InboundProofs.** `Inv` = types, `StoreOK` (an offer's state against its directory),
  `UploadsOK` (a handler past its claim has an offer that is receiving), `OneWriter`,
  `VerdictIsFresh`. `OpenOffersAreCapped` is about the sizes of the sets of open offers: a step
  other than a creation adds nobody to one, and a creation adds one to a set below its cap. From `Inv`: `UploadsAreSafe` (no second writer, delivered is on disk), no
  byte without approval, offers follow the protocol, files outlive the retention, and a file
  belongs to an upload or a delivered offer while the process lives.
* **CompanionProofs** (ProfileStart, SnapshotWatcher). `LockInv`: the lock of whoever
  decides is there and as old as that start, and nobody is about to take it over, which
  `HoldMax <= Stale` makes inductive. `RunInv` adds that the runtime file names whoever
  serves; together they are `OnePerProfile`. Both hold until the first kill or stop,
  and the theorems carry this as "until" forms (`LockUntilKilled`, `RunUntilStopped`).
  For `GivesUpOnlyForRival`, `LonelyInv`: a start without rivals meets no lock but a leftover
  made before it began, looks at it at least once in each unit of time, and so sees it old
  before it gives up. Hypotheses: `Prompt`, and `Stale < Wait` (20 s and 25 s,
  `main.go:986-987`).
  For the watchers, what each holds came from the clipboard, and a turn that may arm a copy
  again has taken that copy's own fingerprint; so a copy a watcher knows to have armed twice
  (`Known`: its arms without those whose answer it lost) is the last it remembers or has
  left the clipboard.
* **BridgeLifecycleProofs.** The same argument for the bridge lock and the single bridge
  (`OneBridge`); for `BridgeFollowsOwner`, `Follows`: the bridge of a running Companion that
  started it serves, and once that one ended the bridge has been told or the call was missed. The
  owner is known from the moment the child answers (`OwnersKnown`), and a step of any other
  process leaves owner and bridge alone (`OthersUse`).
* **LoginServiceProofs.** Every step of LoginService is a step or a stutter of CompanionRun
  (`RunSteps`), so `ServiceInv` is about the process alone: the results in the channel and
  those main received are as many as the goroutines that sent theirs, hence two received
  means that both are gone. `NothingOutlivesService` is not inductive without that count.
  `OnTheWay` says what a command has established when it comes to its next step, and that
  nobody else undoes it, which gives `AnswersAreTrue`. For `StopIsRespected`,
  `Faultless`: without a failed start of ssh or a kill no result in the channel, and so no
  exit status, is an error.
  `WaitsDouble` follows from `WaitsFollow`, which says what the wait will be while there
  is none; that the history stops counting at `MaxWait + 1` does no harm, because so many
  doublings are past the longest wait (`DoubledGrows`, by induction).
* **UpgradeProofs** (SelfUpgrade, SemVer, ReleaseCheck). `Inv` relates the program counter of
  `Run` to the staged file, the results, the recorded set and each profile's processes.
  For SemVer, `SequencesAreOrdered` is the argument: an order of the elements gives one of the
  sequences. It is used for texts, for pre-releases and for the three numbers; that
  `Value` tells numbers without leading zeros apart (`NumbersHaveValues`) goes digit by digit
  from the end. `OrdersAsSemVer` holds for every base, alphabet, word and length.
  For ReleaseCheck, `CheckInv`: whatever holds a date, the entries in flight included, knows
  what was released by then (`DatesInOrder`), and what a notice says of an update is
  what `Compare` says (`NoticesAreRanked`). For `StatusIsFresh`, `ToldInOrder`: what the agents hear
  from a Companion is its blank or a release, and not the blank once it has ended.
* **SetupProofs** (Setup, RemoteInstall). `SetupInv` says what is established at each step of
  `Runner.Run`: the key a profile names is authorized, from `mint` on who was found running is
  stopping, the agents setup is past have its token unless they are in `undone`, one
  Companion answers at most (`Alone`), and the one setup waits for has read the saved profile
  if any. For RemoteInstall: types,
  `BinaryIsWhole`, `MovedIsWhole` (a script that passed the comparison has a whole
  temporary). For `NeverOlder`: who could read the version and is under way, and was not
  overtaken, installs something newer than what is there (`NewerThanFound`) and, where nobody is
  blind, newer than what was there first (`NewerThanBefore`).
* **ServerProofs** (HostDelivery, Materialize). `DeliveryInv`: an upload puts a
  file only while its offer is receiving, an offer has one such upload, one that got that far
  was approved, and what was saved has the offer's content and belongs to an offer that is
  delivered, which no upload can claim again. For Materialize: a call that downloads is younger
  than the retention, as `Transfer <= Retention` says (2 and 30 minutes, `http_provider.go:22-23`),
  and the files in its directory are one per item it is past; what failed has removed its own,
  or had none.

Assumptions on constants are those of the modules (`... Assumption`), plus the
hypotheses named above, written in each theorem.

Only model-checked: liveness (`StartsEnd`, `FollowsClipboard`,
`LeftoverIsTakenOver`, `CompanionsComeBack`, `TemporariesGo`, `StopEndsService`,
`FailureIsRetried`). Each rests on fairness, and so on ENABLED, which the provers do not
reason about. Induction is used where a theorem needs it, over a set in the place of a
predicate, because the provers cannot instantiate the library's theorems that take an
operator (`Induction`, from `NatLessThanWellFounded` and `WFMin`). The proof of the order of
versions showed that `ComparePre` had two cases that overlapped, of which TLC took the first; they
are apart now.

## 5. Assumptions and abstractions

* The time a live process holds the start lock is bounded: its calls time out after
  1 + 1 + 3 + 5 + 5 s, below the 20 s of `profileStartStale` (`HoldMax <= Stale`), and
  those under the bridge lock below 30 s. A suspended machine, or a wall clock that jumps,
  breaks that and is modelled in ReleaseCheck only.
* `Prompt`: a waiting start polls at least once in a unit of time (the code polls every
  50 ms). A health probe of a live process is answered.
* SnapshotWatcher: contents the bridge refuses, expiry of a snapshot and restarts of
  Companions are left out.
* SelfUpgrade: loops take profiles in any order; nobody else starts Companions during it.
* ReleaseCheck: a bridge that ends with the Companion that ran it counts as a failing call,
  and its blank successor is the same bridge; which Companion that is, is BridgeLifecycle's.
* Setup: one at a time, beside commands of other profiles that touch a shared
  configuration file only; leftovers of locks are ProfileStart's.
* CompanionRun: `ssh` ends when it is killed, and so does whatever holds its output
  (`Wait` returns only then); a timer that was just set has not fired when the select next to
  it is reached. Time stands for the two timers only.
* LoginService: one Companion process at a time (of two, one finds the other and
  ends: ProfileStart), and one autostart command at a time.
* Materialize: names made from an item's id equal no other name; `RemoveAll` is one
  step and removes everything; the code ignores its error.
* HostDelivery: a content has a length, because the upload announces one.
* SemVer: a base of 3 digits and a word of 8 values stand for 10 and 2^64. Agreement with
  rule 11 is claimed where every number fits the word (`Legal`); beyond, one total order.
* Bytes, digests, tokens, paths and wording are model values; a content and its
  digest are one.

Not modelled, and why: the clipboard's readers for each platform, `sshsession` and
the command line (I/O and wording); log rotation (it concerns log lines only); pages,
templates, catalogues and installers (no state of the program). The bridge's
table of rejection windows serves a log line.

## 6. Where code and text disagree

Read in the source while modelling; the properties above are stated so that they say
what does hold:

* `main.go:730`: the Companion that started the shared bridge takes it along when it ends; the
  others keep the address they got when they started, and neither start a bridge nor end,
  while COMMANDS.md:97-98 says a Companion keeps the local bridge. `BridgeFollowsOwner`
  says exactly when a Companion loses it.
* `main.go:731`: the error of the call that shuts the bridge down is ignored, and a bridge that
  missed it serves on with nobody to end it. `daemon.go:288-293` answers first and closes in a
  goroutine: a Companion that starts in between adopts a bridge about to go.
* `agents.go:85`: "replaces only AgentClip's own named MCP entry" is true of each
  replacement, not of two: the file is read, changed and written back whole, so
  commands for two profiles undo each other (`undone` in Setup).
* `autostart.go:271-274`: "What the system refuses to stop is not hidden", but `Disable` tells
  of it only when the system can be asked; the plan for macOS has no query, so a `bootout` that
  failed is never told and the Companion runs on until the session ends.
* `autostart.go`, Windows: deleting the task does not stop the Companion it started. And
  COMMANDS.md:110-114 says of all three systems that the service restarts the process when it
  fails; `windowsPlan` (`:182-190`) makes a logon task without any restart, so there a
  Companion that failed stays away until the next login (`FailureIsRetried` says so).
* `autostart.go`: a file whose write failed half way stays (`torn`), which macOS's status counts as
  enabled; a query that fails reads as "off" (`unseen`).
* `tunnel.go`: a stop that meets a failed start of `ssh` ends with an error status, so
  the service manager brings the Companion back (`fault` in `StopIsRespected`); and a Companion
  that is killed leaves its `ssh`.
* On macOS, enabling again while the old Companion still drains lets the new process
  find it healthy and end with 0: nothing is started again then.
* `daemon.go:192`: control clients may name item IDs. `serveItem` looks the item up
  again by ID after hashing, so with a name used twice an old content goes out and
  a new one is marked (`CallerNamesIDs = TRUE` shows it).
* `bridge.go:641`: expiry is not looked at again after the hash.
* `inbound.go:369`: README.en.md:266-268 says delivered files stay until deleted, while
  they go after 30 minutes, as COMMANDS.md says; after a restart nothing removes them.
* `main.go:1019`: takeover of a stale start lock removes by name; two starts may
  decide at once (`OnePerProfile` stops at the first kill).
* `companion/runtime.go:60`, `daemon.go:132`: compare, then remove by name
  (`OnePerProfile` and `OneBridge` stop at the first stop).
* `snapshot.go:124`, `:131`: the fingerprint precedes the content, so content copied
  again may leave the wrong one armed; each Companion arms the shared bridge, and an arm whose
  answer is lost is repeated, so one copy may be handed out more than once (`RearmsAreFew`
  counts how often at most).
* `main.go:885`: the shutdown handler closes the server, and the process stays
  until a signal.
* `selfupgrade.go:110`, `main.go:730/783`: a Companion that stops slowly is refused its
  restart, or its successor adopts the bridge it is about to shut down.
* `selfupgrade.go:110`, `:116`, `:132`: "the machine is left as it was found" (`:56-58`), but the
  result of restarting the Companions is discarded on each of the three ways to give up; one that
  could not be started again stays away, and nobody is told.
* `main.go:587-590`: the Windows helper waits for the upgrade only, not for a bridge process that
  runs the same executable; and `Wait-Process` fails when the upgrade has ended already, which
  with `$ErrorActionPreference = 'Stop'` ends the script: no replacement, no Companion.
* `agents.go:33-46`: `setup --agent X` configures one agent, while the profile gets a new token:
  the others keep the old one after a success, and the bridge refuses them
  (`SuccessPairs` is about the agents selected).
* `main.go:601`: after `setup` asked a slow Companion to stop, the start is refused.
* `remote.go:345`: a probe that fails counts as "nothing installed" (`blind`).
* `remote.go:374`: "a server that already has this version, or a newer one, is left alone" holds
  of the look only: another machine may install a newer release before the move, which then
  replaces it (`overtaken`). What the server had before both is not undercut.
* `http_provider.go:301-303`: an error of this chmod returns before the removal is deferred, so
  an empty directory of a failed call stays until a clean-up (`unsecured`).
* `http_provider.go:330`: materialized paths expire only when another call or process
  cleans.
* `main.go:750`: a Companion that starts empties the notice other Companions published to the
  shared bridge until its own check is done. One that ends before (`main.go:776-779`, or a stop)
  leaves the blank until another's next daily check; and a publication that comes late replaces a
  newer one for as long.
* `main.go:819`: the end of a Companion cancels a request to GitHub that is under way, and
  `refresh` still publishes what comes of it: an old entry, or "unable to check for updates"
  though GitHub can be reached, to the agents of all Companions, until the next daily check.
  `StatusIsFresh` leaves both out by name (`teller`, `stopping`).
* `release.go:210`: "Compare follows SemVer precedence", but a number of a pre-release above 64
  bits, which Semantic Versioning allows, is ranked as text (`:295-301`).
* `http_provider.go:119`: one failed poll ends the wait for the user's decision, and
  the agent never learns the offer's id.

## 7. Plan

Order of the work so far: Bridge with OneShot, Inbound, ProfileStart, BridgeLifecycle,
SnapshotWatcher, SelfUpgrade, Setup, RemoteInstall, Materialize, HostDelivery,
SemVer with ReleaseCheck, CompanionRun with LoginService; each with its instance, then
its proofs.

Next, in this order:

1. Proofs: an abstract lock that both lock files implement until the first kill; the
   hazards of section 6 that have no property yet.
2. Composition of BridgeLifecycle with ProfileStart and CompanionRun for stop and
   restart.
3. The control client and the MCP server: what a request means whose answer is lost, for
   the calls that are not in a module yet.
