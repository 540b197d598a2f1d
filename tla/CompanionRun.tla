---------------------------- MODULE CompanionRun ----------------------------
(***************************************************************************)
(* One `companion serve` process from the moment its control server is up: *)
(* the main goroutine waits for a stop, a signal or an error, cancels the  *)
(* other two and collects both results; the watcher ends when it is        *)
(* cancelled; the tunnel keeps one `ssh` child up and waits longer and     *)
(* longer between children that end quickly.  How it gets here is in       *)
(* ProfileStart and BridgeLifecycle, what the watcher does in              *)
(* SnapshotWatcher.                                                        *)
(***************************************************************************)
EXTENDS Integers, Sequences

CONSTANTS
    MinWait, MaxWait,  \* tunnelTiming.min and .max, in ticks
    StableFor,         \* tunnelTiming.stable
    MaxCrashes         \* bound: how often the process is killed

ASSUME TimingAssumption ==
    /\ MinWait \in Nat \ {0} /\ MaxWait \in Nat /\ MinWait <= MaxWait
    /\ StableFor \in Nat \ {0}
ASSUME CrashesAssumption == MaxCrashes \in Nat

VARIABLES
    main,      \* the main goroutine, or "off" for no process
    exit,      \* the exit status of a process that ended
    stop,      \* whether the stop channel (capacity 1) is full
    signal,    \* whether the signal channel (capacity 1) is full
    cancelled, \* the context
    results,   \* the errors channel: for each result whether it is an error
    received,  \* how many of them main has
    runErr,    \* whether one of those was an error
    watcher,   \* the watcher's goroutine
    tunnel,    \* the tunnel's goroutine
    ssh,       \* its child; "dead" until the goroutine has its result
    delay,     \* the wait after the next exit
    left,      \* what is left of the current wait
    age,       \* how long the child has been up, up to StableFor
    quick,     \* history: waits since the start or the last stable tunnel
    late,      \* history: children started after the cancellation
    fault,     \* history: ssh could not be started, or the process was killed
    crashes

control   == <<stop, signal>>
collected == <<results, received, runErr>>
timing    == <<delay, left, age, quick>>
history   == <<late, fault, crashes>>
runVars   == <<main, exit, control, cancelled, collected, watcher, tunnel, ssh, timing, history>>

Goroutines == 2  \* what main collects: the watcher's and the tunnel's result

RunTypeOK ==
    /\ main \in {"off", "serve", "drain", "ended"}
    /\ exit \in {"none", "ok", "failed"}
    /\ stop \in BOOLEAN /\ signal \in BOOLEAN /\ cancelled \in BOOLEAN
    /\ results \in Seq(BOOLEAN)
    /\ received \in 0..Goroutines
    /\ runErr \in BOOLEAN
    /\ watcher \in {"off", "run", "sent"}
    /\ tunnel \in {"off", "spawn", "up", "killed", "wait", "sent"}
    /\ ssh \in {"none", "alive", "dead"}
    /\ delay \in MinWait..MaxWait /\ left \in 0..MaxWait /\ age \in 0..StableFor
    /\ quick \in Nat /\ late \in Nat
    /\ fault \in BOOLEAN /\ crashes \in 0..MaxCrashes

RunInit ==
    /\ main = "off" /\ exit = "none" /\ watcher = "off" /\ tunnel = "off" /\ ssh = "none"
    /\ stop = FALSE /\ signal = FALSE /\ cancelled = FALSE
    /\ results = <<>> /\ received = 0 /\ runErr = FALSE
    /\ delay = MinWait /\ left = 0 /\ age = 0 /\ quick = 0
    /\ late = 0 /\ fault = FALSE /\ crashes = 0

\* The two goroutines are started; the runtime file has been written by now.
StartService ==
    /\ main = "off"
    /\ main' = "serve" /\ watcher' = "run" /\ tunnel' = "spawn"
    /\ UNCHANGED <<exit, control, cancelled, collected, ssh, timing, history>>

\* Whoever started the process sees its exit status, or the session is over.
Vanish ==
    /\ main' = "off" /\ exit' = "none" /\ watcher' = "off" /\ tunnel' = "off" /\ ssh' = "none"
    /\ stop' = FALSE /\ signal' = FALSE /\ cancelled' = FALSE
    /\ results' = <<>> /\ received' = 0 /\ runErr' = FALSE
    /\ delay' = MinWait /\ left' = 0 /\ age' = 0 /\ quick' = 0
    /\ late' = 0 /\ fault' = FALSE /\ UNCHANGED crashes
-----------------------------------------------------------------------------
(***************************************************************************)
(* The main goroutine.                                                     *)
(***************************************************************************)
InService == main \in {"serve", "drain"}

\* The stop endpoint: a stop that is already asked for is not asked for twice, and
\* what is sent once main has left its select is never received.
AskStop ==
    /\ InService
    /\ stop' = (main = "serve")
    /\ UNCHANGED <<main, exit, signal, cancelled, collected, watcher, tunnel, ssh, timing, history>>

\* SIGTERM or an interrupt, likewise.
Signalled ==
    /\ InService
    /\ signal' = (main = "serve")
    /\ UNCHANGED <<main, exit, stop, cancelled, collected, watcher, tunnel, ssh, timing, history>>

\* Mutant of Leave: a result that ends the service is not counted.
LeaveUncounted ==
    /\ main = "serve"
    /\ \/ (signal \/ stop) /\ UNCHANGED collected
       \/ /\ results # <<>>
          /\ runErr' = Head(results) /\ results' = Tail(results)
          /\ UNCHANGED received
    /\ stop' = FALSE /\ signal' = FALSE
    /\ cancelled' = TRUE
    /\ main' = "drain"
    /\ UNCHANGED <<exit, watcher, tunnel, ssh, timing, history>>

\* The select over the three channels, and cancel().
Leave ==
    /\ main = "serve"
    /\ \/ (signal \/ stop) /\ UNCHANGED collected
       \/ /\ results # <<>>
          /\ runErr' = Head(results) /\ results' = Tail(results) /\ received' = 1
    /\ stop' = FALSE /\ signal' = FALSE
    /\ cancelled' = TRUE
    /\ main' = "drain"
    /\ UNCHANGED <<exit, watcher, tunnel, ssh, timing, history>>

Collect ==
    /\ main = "drain" /\ received < Goroutines
    /\ results # <<>>
    /\ runErr' = (runErr \/ Head(results))
    /\ results' = Tail(results) /\ received' = received + 1
    /\ UNCHANGED <<main, exit, control, cancelled, watcher, tunnel, ssh, timing, history>>

\* Mutant of Finish: the service ends once it has one of the two results.
FinishEarly ==
    /\ main = "drain" /\ received >= 1
    /\ main' = "ended" /\ exit' = IF runErr THEN "failed" ELSE "ok"
    /\ UNCHANGED <<control, cancelled, collected, watcher, tunnel, ssh, timing, history>>

\* Mutant of Finish: the error is logged and the process exits with 0.
FinishWell ==
    /\ main = "drain" /\ received = Goroutines
    /\ main' = "ended" /\ exit' = "ok"
    /\ UNCHANGED <<control, cancelled, collected, watcher, tunnel, ssh, timing, history>>

\* Both results are there: the deferred calls close the control server and, if it
\* is its own, the bridge; an error makes the exit status non-zero.
Finish ==
    /\ main = "drain" /\ received = Goroutines
    /\ main' = "ended" /\ exit' = IF runErr THEN "failed" ELSE "ok"
    /\ UNCHANGED <<control, cancelled, collected, watcher, tunnel, ssh, timing, history>>

\* SIGKILL or a crash: the goroutines are gone, the child is not.
Kill ==
    /\ InService /\ crashes < MaxCrashes
    /\ main' = "ended" /\ exit' = "failed"
    /\ watcher' = "off" /\ tunnel' = "off"
    /\ stop' = FALSE /\ signal' = FALSE
    /\ results' = <<>> /\ received' = 0 /\ runErr' = FALSE
    /\ delay' = MinWait /\ left' = 0 /\ age' = 0 /\ quick' = 0
    /\ fault' = TRUE /\ crashes' = crashes + 1
    /\ UNCHANGED <<cancelled, ssh, late>>
-----------------------------------------------------------------------------
(***************************************************************************)
(* The watcher and the tunnel, each of which sends one result.             *)
(***************************************************************************)
Send(isError) == results' = Append(results, isError) /\ UNCHANGED <<received, runErr>>

\* runTunnelWithLogger returns, and with it go its variables.
Return(isError) ==
    /\ tunnel' = "sent" /\ Send(isError)
    /\ delay' = MinWait /\ left' = 0 /\ age' = 0 /\ quick' = 0

WatcherEnds ==
    /\ watcher = "run" /\ cancelled
    /\ watcher' = "sent" /\ Send(FALSE)
    /\ UNCHANGED <<main, exit, control, cancelled, tunnel, ssh, timing, history>>

\* TunnelCommand and Start: ssh runs, or it cannot be started.
Spawn ==
    /\ tunnel = "spawn"
    /\ \/ /\ tunnel' = "up" /\ ssh' = "alive" /\ age' = 0
          /\ late' = IF cancelled THEN late + 1 ELSE late
          /\ UNCHANGED <<collected, delay, left, quick, fault>>
       \/ Return(TRUE) /\ fault' = TRUE /\ UNCHANGED <<ssh, late>>
    /\ UNCHANGED <<main, exit, control, cancelled, watcher, crashes>>

\* ssh ends by itself: the connection drops, or the forwarding is refused.
SshExits ==
    /\ ssh = "alive" /\ tunnel # "off"
    /\ ssh' = "dead"
    /\ UNCHANGED <<main, exit, control, cancelled, collected, watcher, tunnel, timing, history>>

\* The select while ssh runs, when the context is cancelled: the child is killed.
KillSsh ==
    /\ tunnel = "up" /\ cancelled
    /\ tunnel' = "killed"
    /\ UNCHANGED <<main, exit, control, cancelled, collected, watcher, ssh, timing, history>>

\* The child that was killed is waited for.
Reap ==
    /\ tunnel = "killed" /\ ssh = "dead"
    /\ ssh' = "none" /\ Return(FALSE)
    /\ UNCHANGED <<main, exit, control, cancelled, watcher, history>>

\* How many waits there have been, this one included.
Waits == IF age >= StableFor THEN 1 ELSE IF quick > MaxWait THEN quick ELSE quick + 1

\* Mutant of LoseSsh: the wait starts over whenever ssh ends.
LoseSshForgets ==
    /\ tunnel = "up" /\ ssh = "dead"
    /\ ssh' = "none"
    /\ \/ cancelled /\ Return(FALSE)
       \/ /\ ~cancelled /\ tunnel' = "wait" /\ age' = 0 /\ quick' = Waits
          /\ delay' = MinWait /\ left' = delay'
          /\ UNCHANGED collected
    /\ UNCHANGED <<main, exit, control, cancelled, watcher, history>>

\* The result of a child that ended.  A stable tunnel starts the waits over; then
\* the second select: a timer just set has not fired, so a cancelled context ends it.
LoseSsh ==
    /\ tunnel = "up" /\ ssh = "dead"
    /\ ssh' = "none"
    /\ \/ cancelled /\ Return(FALSE)
       \/ /\ ~cancelled /\ tunnel' = "wait" /\ age' = 0 /\ quick' = Waits
          /\ delay' = IF age >= StableFor THEN MinWait ELSE delay
          /\ left' = delay'
          /\ UNCHANGED collected
    /\ UNCHANGED <<main, exit, control, cancelled, watcher, history>>

\* The second select later on: with both ready either may be taken.
WaitEnds ==
    /\ tunnel = "wait"
    /\ \/ cancelled /\ Return(FALSE)
       \/ /\ left = 0 /\ tunnel' = "spawn"
          /\ delay' = IF 2 * delay < MaxWait THEN 2 * delay ELSE MaxWait
          /\ UNCHANGED <<collected, left, age, quick>>
    /\ UNCHANGED <<main, exit, control, cancelled, watcher, ssh, history>>

\* Time passes for a child that is up and for a wait.
Tick ==
    /\ \/ tunnel = "up" /\ age < StableFor /\ age' = age + 1 /\ UNCHANGED left
       \/ tunnel = "wait" /\ left > 0 /\ left' = left - 1 /\ UNCHANGED age
    /\ UNCHANGED <<main, exit, control, cancelled, collected, watcher, tunnel, ssh, delay, quick, history>>

Main      == Leave \/ Collect \/ Finish
Tunnel    == Spawn \/ KillSsh \/ Reap \/ LoseSsh \/ WaitEnds
RunStep   == Main \/ WatcherEnds \/ Tunnel \/ SshExits \/ Tick
RunNext   ==
    \/ StartService \/ RunStep
    \/ AskStop \/ Signalled \/ Kill \/ Vanish
RunSpec   == RunInit /\ [][RunNext]_runVars
-----------------------------------------------------------------------------
(***************************************************************************)
(* Properties.                                                             *)
(***************************************************************************)
\* The shortest wait, doubled n times, and what the longest one leaves of it.
Doubled[n \in Nat] == IF n = 0 THEN MinWait ELSE 2 * Doubled[n - 1]
AtMostMax(wait)   == IF wait < MaxWait THEN wait ELSE MaxWait

\* tunnel.go: "the wait starts at min, doubles after each exit up to max, and starts
\* over once a tunnel has stayed up for stable": the n-th wait since then.
WaitsDouble == tunnel = "wait" => delay = AtMostMax(Doubled[quick - 1])

\* A process that ended by itself leaves no goroutine and no ssh behind, and after
\* the cancellation it started one child more at most.
NothingOutlivesService ==
    /\ main = "ended" /\ (exit = "ok" \/ crashes = 0) =>
           watcher = "sent" /\ tunnel = "sent" /\ ssh = "none"
    /\ late <= 1

\* However a stop, a signal and the end of ssh meet, the process ends: main never
\* waits for a result that does not come.
StopEndsService ==
    ((main = "serve" /\ (stop \/ signal)) \/ main = "drain") ~> ~InService
=============================================================================
