------------------------- MODULE LoginServiceProofs -------------------------
(***************************************************************************)
(* Theorems about CompanionRun and LoginService, for any wait, any number  *)
(* of commands, logins and kills, on any of the systems: the waits for ssh *)
(* double, a service leaves nothing behind, the autostart commands tell    *)
(* the truth, and the service manager leaves a Companion alone that a user *)
(* stopped.                                                                *)
(***************************************************************************)
EXTENDS LoginService, SequenceTheorems, WellFoundedInduction, TLAPS

\* Whatever the service manager, the commands and the users do, the process itself
\* takes the steps of CompanionRun.
LEMMA RunSteps == [Next]_vars => [RunNext]_runVars
<1> SUFFICES ASSUME Next PROVE [RunNext]_runVars
  BY DEF vars
<1>1. ASSUME (RunStep \/ Kill) /\ UNCHANGED loginVars PROVE RunNext
  BY <1>1 DEF RunNext
<1>2. ASSUME Manager \/ Login PROVE [RunNext]_runVars
  BY <1>2 DEF Manager, Bring, SeeExit, StartAgain, Login, RunNext
<1>3. ASSUME UserStarts \/ UserStops PROVE RunNext
  BY <1>3 DEF UserStarts, UserStops, RunNext
<1>4. ASSUME Begin \/ WriteFiles \/ Reload \/ Load \/ Undo \/ RemoveFiles \/ Query
      PROVE  UNCHANGED runVars
  BY <1>4 DEF Begin, WriteFiles, Reload, Load, Undo, RemoveFiles, Query
<1>5. ASSUME Unload PROVE [RunNext]_runVars
  <2>1. TurnOff => Signalled \/ UNCHANGED runVars
    BY DEF TurnOff
  <2> QED
    BY <1>5, <2>1 DEF Unload, RunNext
<1> QED
  BY <1>1, <1>2, <1>3, <1>4, <1>5 DEF Next, Runner
-----------------------------------------------------------------------------
(***************************************************************************)
(* The process: the channel of results, then the types.                    *)
(***************************************************************************)
ChannelOK == results \in Seq(BOOLEAN) /\ received \in 0..Goroutines /\ runErr \in BOOLEAN

LEMMA SendKeeps ==
    ASSUME ChannelOK, NEW isError \in BOOLEAN, Send(isError)
    PROVE  /\ ChannelOK' /\ UNCHANGED <<received, runErr>>
           /\ Len(results') = Len(results) + 1
           /\ \A i \in 1..Len(results') : results'[i] = IF i <= Len(results) THEN results[i] ELSE isError
<1>1. results' = Append(results, isError) /\ UNCHANGED <<received, runErr>>
  BY DEF Send
<1>2. results \in Seq(BOOLEAN)
  BY DEF ChannelOK
<1>3. /\ results' \in Seq(BOOLEAN)
      /\ Len(results') = Len(results) + 1
      /\ \A i \in 1..Len(results') : results'[i] = IF i <= Len(results) THEN results[i] ELSE isError
  BY <1>1, <1>2, AppendProperties
<1> QED
  BY <1>1, <1>3 DEF ChannelOK

LEMMA TakeKeeps ==
    ASSUME ChannelOK, results # <<>>
    PROVE  /\ Head(results) \in BOOLEAN /\ Tail(results) \in Seq(BOOLEAN)
           /\ Len(results) >= 1 /\ Head(results) = results[1]
           /\ Len(Tail(results)) = Len(results) - 1
           /\ \A i \in 1..Len(Tail(results)) : Tail(results)[i] = results[i + 1]
  BY HeadTailProperties DEF ChannelOK

LEMMA ResetKeeps ==
    ASSUME results' = <<>>, received' = 0, runErr' = FALSE
    PROVE  ChannelOK' /\ Len(results') = 0
<1>1. <<>> \in Seq(BOOLEAN) /\ Len(<<>>) = 0
  BY EmptySeq
<1>2. 0 \in 0..Goroutines /\ FALSE \in BOOLEAN
  BY DEF Goroutines
<1> QED
  BY <1>1, <1>2 DEF ChannelOK

\* What a step does to the channel.
LEMMA ChannelSteps ==
    ASSUME ChannelOK, [RunNext]_runVars
    PROVE  ChannelOK'
<1> USE DEF control, collected, timing, history
<1>1. ASSUME Send(TRUE) \/ Send(FALSE) PROVE ChannelOK'
  <2>1. PICK e \in BOOLEAN : Send(e)
    BY <1>1
  <2> QED
    BY <2>1, SendKeeps
<1>2. ASSUME UNCHANGED collected PROVE ChannelOK'
  BY <1>2 DEF ChannelOK
<1>3. ASSUME Leave PROVE ChannelOK'
  <2>1. CASE UNCHANGED collected
    BY <1>2, <2>1
  <2>2. CASE /\ results # <<>> /\ runErr' = Head(results)
             /\ results' = Tail(results) /\ received' = 1
    BY <2>2, TakeKeeps DEF ChannelOK, Goroutines
  <2> QED
    BY <1>3, <2>1, <2>2 DEF Leave
<1>7. ASSUME Collect PROVE ChannelOK'
  <2>1. results # <<>> /\ results' = Tail(results) /\ received' = received + 1 /\ received < 2
    BY <1>7 DEF Collect, Goroutines
  <2>2. runErr' \in BOOLEAN
    BY <1>7 DEF Collect
  <2> QED
    BY <2>1, <2>2, TakeKeeps DEF ChannelOK, Goroutines
<1>4. ASSUME Kill \/ Vanish PROVE ChannelOK'
  BY <1>4, ResetKeeps DEF Kill, Vanish
<1>5. ASSUME WatcherEnds \/ Spawn \/ Reap \/ LoseSsh \/ WaitEnds PROVE ChannelOK'
  BY <1>1, <1>2, <1>5 DEF WatcherEnds, Spawn, Reap, LoseSsh, WaitEnds, Return
<1>6. ASSUME StartService \/ AskStop \/ Signalled \/ Finish \/ SshExits \/ KillSsh \/ Tick
             \/ UNCHANGED runVars
      PROVE  ChannelOK'
  BY <1>2, <1>6 DEF StartService, AskStop, Signalled, Finish, SshExits, KillSsh, Tick, runVars
<1> QED
  BY <1>3, <1>4, <1>5, <1>6, <1>7 DEF RunNext, RunStep, Main, Tunnel

LEMMA RunTypeInit == RunInit => RunTypeOK
<1> SUFFICES ASSUME RunInit PROVE RunTypeOK
  OBVIOUS
<1>1. results \in Seq(BOOLEAN)
  BY EmptySeq DEF RunInit
<1>2. delay \in MinWait..MaxWait /\ left \in 0..MaxWait /\ age \in 0..StableFor
  BY TimingAssumption DEF RunInit
<1>3. received \in 0..Goroutines /\ crashes \in 0..MaxCrashes
  BY CrashesAssumption DEF RunInit, Goroutines
<1> QED
  BY <1>1, <1>2, <1>3 DEF RunInit, RunTypeOK

\* The waits: each goes from one allowed value to another.
TimingOK ==
    /\ delay \in MinWait..MaxWait /\ left \in 0..MaxWait /\ age \in 0..StableFor
    /\ quick \in Nat

LEMMA TimingSteps ==
    ASSUME TimingOK, [RunNext]_runVars
    PROVE  TimingOK'
<1> USE TimingAssumption DEF TimingOK, timing
<1>1. ASSUME UNCHANGED timing PROVE TimingOK'
  BY <1>1
<1>2. ASSUME delay' = MinWait /\ left' = 0 /\ age' = 0 /\ quick' = 0 PROVE TimingOK'
  BY <1>2
<1>3. ASSUME NEW isError, Return(isError) PROVE TimingOK'
  BY <1>2, <1>3 DEF Return
<1>4. ASSUME Spawn PROVE TimingOK'
  <2>1. CASE age' = 0 /\ UNCHANGED <<delay, left, quick>>
    BY <2>1
  <2> QED
    BY <1>3, <1>4, <2>1 DEF Spawn
<1>5. ASSUME LoseSsh PROVE TimingOK'
  <2>1. CASE /\ age' = 0 /\ quick' = Waits
             /\ delay' = IF age >= StableFor THEN MinWait ELSE delay
             /\ left' = delay'
    <3>1. Waits \in Nat
      BY DEF Waits
    <3>2. delay' \in MinWait..MaxWait
      BY <2>1
    <3> QED
      BY <2>1, <3>1, <3>2
  <2> QED
    BY <1>3, <1>5, <2>1 DEF LoseSsh
<1>6. ASSUME WaitEnds PROVE TimingOK'
  <2>1. CASE /\ delay' = IF 2 * delay < MaxWait THEN 2 * delay ELSE MaxWait
             /\ UNCHANGED <<left, age, quick>>
    BY <2>1
  <2> QED
    BY <1>3, <1>6, <2>1 DEF WaitEnds
<1>7. ASSUME Tick PROVE TimingOK'
  BY <1>7 DEF Tick
<1>8. ASSUME StartService \/ AskStop \/ Signalled \/ Leave \/ Collect \/ Finish \/ WatcherEnds
             \/ SshExits \/ KillSsh
      PROVE  TimingOK'
  BY <1>1, <1>8 DEF StartService, AskStop, Signalled, Leave, Collect, Finish, WatcherEnds,
     SshExits, KillSsh
<1> QED
  BY <1>1, <1>2, <1>3, <1>4, <1>5, <1>6, <1>7, <1>8
  DEF RunNext, RunStep, Main, Tunnel, Kill, Vanish, Reap, runVars

\* The flags, the goroutines and the histories.
FlagsOK ==
    /\ main \in {"off", "serve", "drain", "ended"}
    /\ exit \in {"none", "ok", "failed"}
    /\ stop \in BOOLEAN /\ signal \in BOOLEAN /\ cancelled \in BOOLEAN
    /\ watcher \in {"off", "run", "sent"}
    /\ tunnel \in {"off", "spawn", "up", "killed", "wait", "sent"}
    /\ ssh \in {"none", "alive", "dead"}
    /\ late \in Nat /\ fault \in BOOLEAN /\ crashes \in 0..MaxCrashes

LEMMA FlagsSteps ==
    ASSUME FlagsOK, [RunNext]_runVars
    PROVE  FlagsOK'
<1> USE CrashesAssumption DEF FlagsOK, control, history
<1>1. CASE StartService
  BY <1>1 DEF StartService
<1>2. CASE Vanish
  BY <1>2 DEF Vanish
<1>3. CASE AskStop
  BY <1>3 DEF AskStop
<1>4. CASE Signalled
  BY <1>4 DEF Signalled
<1>5. CASE Leave
  BY <1>5 DEF Leave
<1>6. CASE Collect
  BY <1>6 DEF Collect
<1>7. CASE Finish
  BY <1>7 DEF Finish
<1>8. CASE Kill
  <2>1. crashes' \in 0..MaxCrashes
    BY <1>8 DEF Kill
  <2>2. /\ main' = "ended" /\ exit' = "failed" /\ watcher' = "off" /\ tunnel' = "off"
        /\ stop' = FALSE /\ signal' = FALSE /\ fault' = TRUE
        /\ UNCHANGED <<cancelled, ssh, late>>
    BY <1>8 DEF Kill
  <2> QED
    BY <2>1, <2>2
<1>9. CASE WatcherEnds
  BY <1>9 DEF WatcherEnds
<1>10. CASE Spawn
  <2>1. CASE /\ tunnel' = "up" /\ ssh' = "alive" /\ UNCHANGED fault
             /\ late' = IF cancelled THEN late + 1 ELSE late
    <3>1. late' \in Nat
      <4>1. CASE cancelled
        BY <2>1, <4>1
      <4>2. CASE ~cancelled
        BY <2>1, <4>2
      <4> QED
        BY <4>1, <4>2
    <3> QED
      BY <1>10, <2>1, <3>1 DEF Spawn
  <2>2. CASE tunnel' = "sent" /\ fault' = TRUE /\ UNCHANGED <<ssh, late>>
    BY <1>10, <2>2 DEF Spawn
  <2> QED
    BY <1>10, <2>1, <2>2 DEF Spawn, Return
<1>11. CASE SshExits
  BY <1>11 DEF SshExits
<1>12. CASE KillSsh
  BY <1>12 DEF KillSsh
<1>13. CASE Reap
  BY <1>13 DEF Reap, Return
<1>14. CASE LoseSsh
  BY <1>14 DEF LoseSsh, Return
<1>15. CASE WaitEnds
  BY <1>15 DEF WaitEnds, Return
<1>16. CASE Tick
  BY <1>16 DEF Tick
<1>17. CASE UNCHANGED runVars
  BY <1>17 DEF runVars
<1> QED
  BY <1>1, <1>2, <1>3, <1>4, <1>5, <1>6, <1>7, <1>8, <1>9, <1>10, <1>11, <1>12, <1>13, <1>14,
     <1>15, <1>16, <1>17
  DEF RunNext, RunStep, Main, Tunnel

LEMMA RunTypeNext == RunTypeOK /\ [RunNext]_runVars => RunTypeOK'
<1>1. RunTypeOK <=> ChannelOK /\ TimingOK /\ FlagsOK
  BY DEF RunTypeOK, ChannelOK, TimingOK, FlagsOK
<1> QED
  BY <1>1, ChannelSteps, TimingSteps, FlagsSteps DEF RunTypeOK, ChannelOK, TimingOK, FlagsOK
-----------------------------------------------------------------------------
(***************************************************************************)
(* What a process leaves behind.  The results in the channel and those     *)
(* main has received are those that the goroutines have sent; so a main    *)
(* goroutine that has two of them is alone.  After the cancellation the    *)
(* tunnel is past its last start once it has made one.                     *)
(***************************************************************************)
Sent(goroutine) == IF goroutine = "sent" THEN 1 ELSE 0

Phases ==
    /\ main = "off" => watcher = "off" /\ tunnel = "off" /\ ssh = "none"
    /\ main = "off" => cancelled = FALSE /\ Len(results) = 0 /\ received = 0 /\ late = 0
    /\ main = "serve" => cancelled = FALSE /\ received = 0
    /\ main = "drain" => cancelled = TRUE
    /\ InService =>
          /\ watcher \in {"run", "sent"} /\ tunnel # "off"
          /\ Len(results) + received = Sent(watcher) + Sent(tunnel)
          /\ tunnel \in {"spawn", "wait", "sent"} => ssh = "none"
    /\ main = "ended" =>
          \/ watcher = "sent" /\ tunnel = "sent" /\ ssh = "none" /\ exit # "none"
          \/ watcher = "off" /\ tunnel = "off" /\ exit = "failed" /\ crashes > 0

OneMoreStart == late # 0 => late = 1 /\ cancelled = TRUE /\ tunnel \notin {"spawn", "wait"}

ServiceInv == RunTypeOK /\ Phases /\ OneMoreStart

LEMMA PhasesNext == RunTypeOK /\ Phases /\ [RunNext]_runVars => Phases'
<1> SUFFICES ASSUME RunTypeOK, Phases, [RunNext]_runVars PROVE Phases'
  OBVIOUS
<1>t. ChannelOK /\ FlagsOK /\ Len(results) \in Nat /\ received \in 0..2
  <2>1. ChannelOK /\ FlagsOK
    BY DEF RunTypeOK, ChannelOK, FlagsOK
  <2> QED
    BY <2>1, LenProperties DEF ChannelOK, Goroutines
<1> USE <1>t DEF Phases, InService, Sent, control, history, FlagsOK
<1>s. ASSUME NEW isError \in BOOLEAN, Send(isError)
      PROVE  Len(results') = Len(results) + 1 /\ received' = received
  BY <1>s, SendKeeps
<1>r. ASSUME Return(TRUE) \/ Return(FALSE), tunnel \notin {"off", "sent"}, ssh' = "none",
             UNCHANGED <<main, exit, cancelled, watcher, crashes>>
      PROVE  Phases'
  <2>1. PICK e \in BOOLEAN : Return(e)
    BY <1>r
  <2>2. Len(results') = Len(results) + 1 /\ received' = received /\ tunnel' = "sent"
    BY <2>1, <1>s DEF Return
  <2> QED
    BY <1>r, <2>2
<1>1. CASE StartService
  BY <1>1 DEF StartService, collected
<1>2. CASE Vanish
  <2>1. Len(results') = 0
    BY <1>2, ResetKeeps DEF Vanish
  <2> QED
    BY <1>2, <2>1 DEF Vanish
<1>3. CASE AskStop \/ Signalled
  BY <1>3 DEF AskStop, Signalled, collected
<1>5. CASE Leave
  <2>1. CASE UNCHANGED collected
    BY <1>5, <2>1 DEF Leave, collected
  <2>2. CASE results # <<>> /\ results' = Tail(results) /\ received' = 1
    <3>1. Len(results') = Len(results) - 1
      BY <2>2, TakeKeeps
    <3> QED
      BY <1>5, <2>2, <3>1 DEF Leave
  <2> QED
    BY <1>5, <2>1, <2>2 DEF Leave
<1>6. CASE Collect
  <2>1. Len(results') = Len(results) - 1
    BY <1>6, TakeKeeps DEF Collect
  <2>2. /\ main = "drain" /\ received' = received + 1
        /\ UNCHANGED <<main, cancelled, watcher, tunnel, ssh>>
    BY <1>6 DEF Collect
  <2> QED
    BY <2>1, <2>2
<1>7. CASE Finish
  BY <1>7 DEF Finish, collected, Goroutines
<1>8. CASE Kill
  BY <1>8 DEF Kill
<1>9. CASE WatcherEnds
  <2>1. Len(results') = Len(results) + 1 /\ received' = received
    BY <1>9, <1>s DEF WatcherEnds
  <2> QED
    BY <1>9, <2>1 DEF WatcherEnds
<1>10. CASE Spawn
  <2>1. CASE tunnel' = "up" /\ ssh' = "alive" /\ UNCHANGED collected
    BY <1>10, <2>1 DEF Spawn, collected
  <2>2. CASE Return(TRUE) /\ UNCHANGED <<ssh, late>>
    BY <1>10, <2>2, <1>r DEF Spawn
  <2> QED
    BY <1>10, <2>1, <2>2 DEF Spawn
<1>11. CASE SshExits \/ KillSsh \/ Tick
  BY <1>11 DEF SshExits, KillSsh, Tick, collected
<1>13. CASE Reap
  BY <1>13, <1>r DEF Reap
<1>14. CASE LoseSsh
  <2>1. CASE Return(FALSE)
    BY <1>14, <2>1, <1>r DEF LoseSsh
  <2>2. CASE tunnel' = "wait" /\ UNCHANGED collected
    BY <1>14, <2>2 DEF LoseSsh, collected
  <2> QED
    BY <1>14, <2>1, <2>2 DEF LoseSsh
<1>15. CASE WaitEnds
  <2>1. CASE Return(FALSE)
    BY <1>15, <2>1, <1>r DEF WaitEnds
  <2>2. CASE tunnel' = "spawn" /\ UNCHANGED collected
    BY <1>15, <2>2 DEF WaitEnds, collected
  <2> QED
    BY <1>15, <2>1, <2>2 DEF WaitEnds
<1>17. CASE UNCHANGED runVars
  BY <1>17 DEF runVars, collected
<1> QED
  BY <1>1, <1>2, <1>3, <1>5, <1>6, <1>7, <1>8, <1>9, <1>10, <1>11, <1>13, <1>14, <1>15, <1>17
  DEF RunNext, RunStep, Main, Tunnel

LEMMA OneMoreStartNext ==
    ASSUME RunTypeOK, Phases, OneMoreStart, [RunNext]_runVars
    PROVE  OneMoreStart'
<1>t. late \in Nat /\ cancelled \in BOOLEAN
  BY DEF RunTypeOK
<1> USE <1>t DEF OneMoreStart, history
<1>1. CASE StartService \/ Vanish \/ AskStop \/ Signalled \/ Collect \/ Finish \/ WatcherEnds
           \/ SshExits \/ KillSsh \/ Tick
  BY <1>1 DEF StartService, Vanish, AskStop, Signalled, Collect, Finish, WatcherEnds, SshExits,
     KillSsh, Tick, Phases
<1>2. CASE Leave \/ Kill \/ Reap
  BY <1>2 DEF Leave, Kill, Reap, Return
<1>3. CASE Spawn
  <2>1. CASE tunnel' = "up" /\ late' = IF cancelled THEN late + 1 ELSE late
    BY <1>3, <2>1 DEF Spawn
  <2>2. CASE tunnel' = "sent" /\ UNCHANGED late
    BY <1>3, <2>2 DEF Spawn
  <2> QED
    BY <1>3, <2>1, <2>2 DEF Spawn, Return
<1>4. CASE LoseSsh \/ WaitEnds
  BY <1>4 DEF LoseSsh, WaitEnds, Return
<1>5. CASE UNCHANGED runVars
  BY <1>5 DEF runVars
<1> QED
  BY <1>1, <1>2, <1>3, <1>4, <1>5 DEF RunNext, RunStep, Main, Tunnel

LEMMA ServiceHolds == Spec => []ServiceInv
<1>1. Init => ServiceInv
  <2> SUFFICES ASSUME RunInit PROVE ServiceInv
    BY DEF Init
  <2>1. Len(results) = 0
    BY EmptySeq DEF RunInit
  <2>2. Phases /\ OneMoreStart
    BY <2>1 DEF RunInit, Phases, OneMoreStart, InService
  <2> QED
    BY <2>2, RunTypeInit DEF ServiceInv
<1>2. ServiceInv /\ [Next]_vars => ServiceInv'
  BY RunSteps, RunTypeNext, PhasesNext, OneMoreStartNext DEF ServiceInv
<1> QED
  BY <1>1, <1>2, PTL DEF Spec

\* A Companion's process that ended by itself has left neither a goroutine nor an ssh
\* behind, and after the cancellation it started one ssh more at most (runCompanion
\* and runTunnelWithLogger), for all the ways its end is asked for.
THEOREM NothingOutlivesServiceHolds == Spec => []NothingOutlivesService
<1>1. ServiceInv => NothingOutlivesService
  <2> SUFFICES ASSUME ServiceInv PROVE NothingOutlivesService
    OBVIOUS
  <2>1. ASSUME main = "ended", exit = "ok" \/ crashes = 0
        PROVE  watcher = "sent" /\ tunnel = "sent" /\ ssh = "none"
    BY <2>1 DEF ServiceInv, Phases
  <2>2. late <= 1
    BY DEF ServiceInv, OneMoreStart, RunTypeOK
  <2> QED
    BY <2>1, <2>2 DEF NothingOutlivesService
<1> QED
  BY <1>1, ServiceHolds, PTL
-----------------------------------------------------------------------------
(***************************************************************************)
(* The waits.  The theorem of the library about induction has an operator  *)
(* for a parameter; here a set takes its place, and what that gives is     *)
(* that Doubled is the function its definition says.  A history that stops *)
(* counting at MaxWait + 1 is as good as one that does not, because so     *)
(* many doublings are past the longest wait.                               *)
(***************************************************************************)
\* The order of the natural numbers, as a relation and without an operator for parameter.
LEMMA NatsAreOrdered ==
  \E R : IsWellFoundedOn(R, Nat) /\ \A x, y \in Nat : <<y, x>> \in R <=> y < x
<1>1. IsWellFoundedOn(OpToRel(<, Nat), Nat)
  BY NatLessThanWellFounded
<1>2. \A x, y \in Nat : <<y, x>> \in OpToRel(<, Nat) <=> y < x
  BY DEF OpToRel
<1> QED
  BY <1>1, <1>2, Zenon

LEMMA LeastNat ==
    ASSUME NEW T, T \subseteq Nat, T # {}
    PROVE  \E x \in T : \A y \in T : x <= y
<1>1. PICK R : IsWellFoundedOn(R, Nat) /\ \A x, y \in Nat : <<y, x>> \in R <=> y < x
  BY NatsAreOrdered
<1>2. \E x \in T : \A y \in T : ~ (<<y, x>> \in R)
  BY <1>1, WFMin, Zenon
<1>3. PICK x \in T : \A y \in T : ~ (<<y, x>> \in R)
  BY <1>2
<1>4. ASSUME NEW y \in T PROVE x <= y
  <2>1. ~ (y < x)
    BY <1>1, <1>3
  <2> QED
    BY <2>1
<1> QED
  BY <1>4

\* Induction, with a set in the place of a predicate.
LEMMA Induction ==
    ASSUME NEW S, 0 \in S, \A n \in Nat : n \in S => n + 1 \in S
    PROVE  Nat \subseteq S
<1> SUFFICES ASSUME Nat \ S # {} PROVE FALSE
  OBVIOUS
<1>1. PICK x \in Nat \ S : \A y \in Nat \ S : x <= y
  BY LeastNat
<1>2. x - 1 \in Nat /\ x - 1 \in S
  BY <1>1
<1> QED
  BY <1>1, <1>2

\* g lists the first n waits and the one after them.
Doubles(g, n) ==
    /\ g \in [0..n -> Nat] /\ g[0] = MinWait
    /\ \A k \in 1..n : g[k] = 2 * g[k - 1]

LEMMA SomeDoubles == \A n \in Nat : \E g : Doubles(g, n)
<1> DEFINE S == {n \in Nat : \E g : Doubles(g, n)}
<1>1. 0 \in S
  <2>1. Doubles([k \in 0..0 |-> MinWait], 0)
    BY TimingAssumption DEF Doubles
  <2> QED
    BY <2>1
<1>2. ASSUME NEW n \in Nat, n \in S PROVE n + 1 \in S
  <2>1. PICK g : Doubles(g, n)
    BY <1>2
  <2> DEFINE h == [k \in 0..(n + 1) |-> IF k = n + 1 THEN 2 * g[n] ELSE g[k]]
  <2>2. Doubles(h, n + 1)
    BY <2>1 DEF Doubles
  <2> QED
    BY <2>2
<1> HIDE DEF S
<1>3. Nat \subseteq S
  BY <1>1, <1>2, Induction
<1> QED
  BY <1>3 DEF S

LEMMA OneDoubles ==
    ASSUME NEW m \in Nat, NEW n \in Nat, m <= n,
           NEW g, Doubles(g, m), NEW h, Doubles(h, n)
    PROVE  \A k \in 0..m : g[k] = h[k]
<1> DEFINE S == {k \in Nat : k <= m => g[k] = h[k]}
<1>1. 0 \in S
  BY DEF Doubles
<1>2. ASSUME NEW k \in Nat, k \in S PROVE k + 1 \in S
  BY <1>2 DEF Doubles
<1> HIDE DEF S
<1>3. Nat \subseteq S
  BY <1>1, <1>2, Induction
<1> QED
  BY <1>3 DEF S

LEMMA DoubledUnfolds ==
    Doubled = [n \in Nat |-> IF n = 0 THEN MinWait ELSE 2 * Doubled[n - 1]]
<1> DEFINE G(n) == CHOOSE g : Doubles(g, n)
           F == [n \in Nat |-> G(n)[n]]
<1>1. \A n \in Nat : Doubles(G(n), n)
  BY SomeDoubles
<1> HIDE DEF G
<1>2. F[0] = MinWait
  BY <1>1 DEF Doubles
<1>3. ASSUME NEW n \in Nat, n # 0 PROVE F[n] = 2 * F[n - 1]
  <2>1. n - 1 \in Nat /\ Doubles(G(n), n) /\ Doubles(G(n - 1), n - 1)
    BY <1>1, <1>3
  <2>2. G(n - 1)[n - 1] = G(n)[n - 1]
    BY <2>1, OneDoubles
  <2>3. G(n)[n] = 2 * G(n)[n - 1]
    BY <1>3, <2>1 DEF Doubles
  <2> QED
    BY <2>1, <2>2, <2>3
<1>4. F = [n \in Nat |-> IF n = 0 THEN MinWait ELSE 2 * F[n - 1]]
  <2> DEFINE E == [n \in Nat |-> IF n = 0 THEN MinWait ELSE 2 * F[n - 1]]
  <2>1. \A n \in Nat : F[n] = E[n]
    BY <1>2, <1>3
  <2> QED
    BY <2>1
<1> HIDE DEF F
<1>5. \E f : f = [n \in Nat |-> IF n = 0 THEN MinWait ELSE 2 * f[n - 1]]
  BY <1>4
<1> QED
  BY <1>5 DEF Doubled

LEMMA DoubledGrows == \A n \in Nat : Doubled[n] \in Nat /\ Doubled[n] > n
<1> DEFINE S == {n \in Nat : Doubled[n] \in Nat /\ Doubled[n] > n}
<1>1. 0 \in S
  BY TimingAssumption, DoubledUnfolds
<1>2. ASSUME NEW n \in Nat, n \in S PROVE n + 1 \in S
  <2>1. Doubled[n + 1] = 2 * Doubled[n]
    BY DoubledUnfolds
  <2> QED
    BY <1>2, <2>1
<1> HIDE DEF S
<1>3. Nat \subseteq S
  BY <1>1, <1>2, Induction
<1> QED
  BY <1>3 DEF S

\* The wait there is: the one after this many doublings, the coming one where no wait
\* goes on.
WaitsFollow ==
    IF tunnel = "wait"
    THEN quick > 0 /\ delay = AtMostMax(Doubled[quick - 1])
    ELSE delay = AtMostMax(Doubled[quick])

LEMMA WaitsFollowNext == ServiceInv /\ WaitsFollow /\ [RunNext]_runVars => WaitsFollow'
<1> SUFFICES ASSUME ServiceInv, WaitsFollow, [RunNext]_runVars PROVE WaitsFollow'
  OBVIOUS
<1> USE TimingAssumption
<1>t. delay \in Nat /\ quick \in Nat /\ age \in Nat
  BY DEF ServiceInv, RunTypeOK
<1>0. Doubled[0] = MinWait /\ AtMostMax(Doubled[0]) = MinWait
  BY DoubledUnfolds DEF AtMostMax
<1>s. ASSUME UNCHANGED <<delay, quick>>, tunnel' # "wait", tunnel # "wait" PROVE WaitsFollow'
  BY <1>s DEF WaitsFollow
<1>u. ASSUME UNCHANGED <<delay, quick, tunnel>> PROVE WaitsFollow'
  BY <1>u DEF WaitsFollow
<1>r. ASSUME delay' = MinWait, quick' = 0, tunnel' # "wait" PROVE WaitsFollow'
  BY <1>0, <1>r DEF WaitsFollow
<1>1. ASSUME NEW isError, Return(isError) PROVE WaitsFollow'
  BY <1>1, <1>r DEF Return
<1>2. CASE KillSsh
  BY <1>2, <1>s DEF KillSsh, timing
<1>8. CASE StartService
  <2>1. tunnel = "off"
    BY <1>8 DEF ServiceInv, Phases, StartService
  <2> QED
    BY <1>8, <2>1, <1>s DEF StartService, timing
<1>3. CASE Kill \/ Vanish
  BY <1>3, <1>r DEF Kill, Vanish
<1>4. CASE Spawn
  <2>1. CASE tunnel' = "up" /\ UNCHANGED <<delay, quick>>
    BY <1>4, <2>1, <1>s DEF Spawn
  <2> QED
    BY <1>1, <1>4, <2>1 DEF Spawn
<1>5. CASE LoseSsh
  <2>1. CASE /\ tunnel' = "wait" /\ quick' = Waits
             /\ delay' = IF age >= StableFor THEN MinWait ELSE delay
    <3>1. delay = AtMostMax(Doubled[quick])
      BY <1>5 DEF LoseSsh, WaitsFollow
    <3>2. CASE age >= StableFor
      BY <1>0, <2>1, <3>2 DEF Waits, WaitsFollow
    <3>3. CASE ~(age >= StableFor) /\ quick > MaxWait
      <4>1. Doubled[quick] > MaxWait /\ Doubled[quick - 1] >= MaxWait
        BY <1>t, <3>3, DoubledGrows
      <4>2. quick' = quick /\ delay' = delay
        BY <2>1, <3>3 DEF Waits
      <4> QED
        BY <2>1, <3>1, <3>3, <4>1, <4>2, <1>t, DoubledGrows DEF WaitsFollow, AtMostMax
    <3>4. CASE ~(age >= StableFor) /\ ~(quick > MaxWait)
      BY <1>t, <2>1, <3>1, <3>4 DEF Waits, WaitsFollow
    <3> QED
      BY <3>2, <3>3, <3>4
  <2> QED
    BY <1>1, <1>5, <2>1 DEF LoseSsh
<1>6. CASE WaitEnds
  <2>1. CASE /\ tunnel' = "spawn" /\ UNCHANGED quick
             /\ delay' = IF 2 * delay < MaxWait THEN 2 * delay ELSE MaxWait
    <3>1. quick > 0 /\ delay = AtMostMax(Doubled[quick - 1])
      BY <1>6 DEF WaitEnds, WaitsFollow
    <3>2. Doubled[quick] = 2 * Doubled[quick - 1] /\ Doubled[quick - 1] \in Nat
      BY <1>t, <3>1, DoubledUnfolds, DoubledGrows
    <3>3. delay' = AtMostMax(Doubled[quick])
      BY <2>1, <3>1, <3>2 DEF AtMostMax
    <3> QED
      BY <2>1, <3>3 DEF WaitsFollow
  <2> QED
    BY <1>1, <1>6, <2>1 DEF WaitEnds
<1>7. CASE AskStop \/ Signalled \/ Leave \/ Collect \/ Finish \/ WatcherEnds \/ SshExits
           \/ Tick \/ UNCHANGED runVars
  BY <1>7, <1>u DEF AskStop, Signalled, Leave, Collect, Finish, WatcherEnds, SshExits, Tick,
     runVars, timing
<1> QED
  BY <1>1, <1>2, <1>3, <1>4, <1>5, <1>6, <1>7, <1>8
  DEF RunNext, RunStep, Main, Tunnel, Reap

\* tunnel.go: "the wait starts at min, doubles after each exit up to max, and starts
\* over once a tunnel has stayed up for stable", for any timing and however often ssh
\* ends.
THEOREM WaitsDoubleHolds == Spec => []WaitsDouble
<1>1. Init => WaitsFollow
  <2>1. Init => RunInit
    BY DEF Init
  <2>2. RunInit => WaitsFollow
    BY TimingAssumption, DoubledUnfolds DEF RunInit, WaitsFollow, AtMostMax
  <2> QED
    BY <2>1, <2>2
<1>2. ServiceInv /\ WaitsFollow /\ [Next]_vars => WaitsFollow'
  BY RunSteps, WaitsFollowNext
<1>3. WaitsFollow => WaitsDouble
  BY DEF WaitsFollow, WaitsDouble
<1> QED
  BY <1>1, <1>2, <1>3, ServiceHolds, PTL DEF Spec
-----------------------------------------------------------------------------
(***************************************************************************)
(* The types of the service manager and of the commands.                   *)
(***************************************************************************)
LoginTypeOK ==
    /\ os \in Systems
    /\ file \in {"none", "whole", "torn"} /\ registered \in BOOLEAN
    /\ job \in {"off", "due", "running", "ok", "failed"}
    /\ owner \in {"nobody", "manager", "user"}
    /\ pc \in Places /\ verb \in Verbs /\ answer \in Answers
    /\ refused \in BOOLEAN /\ unseen \in BOOLEAN /\ stopped \in BOOLEAN
    /\ commands \in 0..MaxCommands /\ logins \in 0..MaxLogins

LEMMA Increase ==
    ASSUME NEW max \in Nat, NEW n \in 0..max, n < max
    PROVE  n + 1 \in 0..max
  OBVIOUS

LEMMA LoginTypeNext ==
    ASSUME RunTypeOK, Phases, LoginTypeOK, [Next]_vars
    PROVE  LoginTypeOK'
<1>x. main = "ended" => exit \in {"ok", "failed"}
  BY DEF RunTypeOK, Phases
<1>p. /\ {"idle", "write", "unload", "reload", "load", "undo", "remove", "query"} \subseteq Places
      /\ {"none", "enabled", "undone", "failed", "disabled", "still on", "on", "off"} \subseteq Answers
      /\ "status" \in Verbs
  BY DEF Places, Answers, Verbs
<1> USE <1>p DEF LoginTypeOK, service, command, Rest, Say, Go
<1>1. CASE UNCHANGED loginVars \/ UNCHANGED vars
  BY <1>1 DEF loginVars, vars
<1>2. CASE Bring
  BY <1>2 DEF Bring
<1>3. CASE SeeExit
  <2>1. job' \in {"off", "due", "running", "ok", "failed"} /\ stopped' \in BOOLEAN
    BY <1>3, <1>x DEF SeeExit
  <2> QED
    BY <1>3, <2>1 DEF SeeExit
<1>4. CASE StartAgain
  BY <1>4 DEF StartAgain
<1>5. CASE Login
  <2>0. logins < MaxLogins /\ logins' = logins + 1 /\ logins \in 0..MaxLogins
    BY <1>5 DEF Login
  <2>1. logins' \in 0..MaxLogins
    BY <2>0, LoginBoundsAssumption, Increase, Zenon
  <2>2. job' \in {"due", "off"} /\ UNCHANGED <<os, file, registered, commands>>
    BY <1>5 DEF Login
  <2> QED
    BY <1>5, <2>1, <2>2 DEF Login
<1>6. CASE UserStarts
  BY <1>6 DEF UserStarts
<1>7. CASE UserStops
  <2>1. stopped' \in BOOLEAN
    BY <1>7 DEF UserStops
  <2> QED
    BY <1>7, <2>1 DEF UserStops
<1>8. CASE Begin
  <2>0. commands < MaxCommands /\ commands' = commands + 1 /\ commands \in 0..MaxCommands
    BY <1>8 DEF Begin
  <2>1. commands' \in 0..MaxCommands
    BY <2>0, LoginBoundsAssumption, Increase, Zenon
  <2>2. pc' \in {"write", "unload", "query"}
    BY <1>8 DEF Begin
  <2> QED
    BY <1>8, <2>1, <2>2 DEF Begin
<1>9. CASE WriteFiles
  BY <1>9 DEF WriteFiles
<1>10. CASE Unload
  <2>1. registered' \in BOOLEAN /\ job' \in {job, "off"}
    BY <1>10 DEF Unload, TurnOff
  <2>2. refused' \in BOOLEAN
    BY <1>10 DEF Unload
  <2>3. pc' \in {"remove", "reload", "load"}
    BY <1>10 DEF Unload
  <2> QED
    BY <1>10, <2>1, <2>2, <2>3 DEF Unload
<1>11. CASE Reload
  BY <1>11 DEF Reload
<1>12. CASE Load
  <2>1. registered' \in BOOLEAN
    BY <1>12 DEF Load
  <2>2. stopped' \in BOOLEAN /\ job' \in {job, "due"}
    BY <1>12 DEF Load
  <2> QED
    BY <1>12, <2>1, <2>2 DEF Load
<1>13. CASE Undo
  BY <1>13 DEF Undo
<1>14. CASE RemoveFiles
  BY <1>14 DEF RemoveFiles
<1>15. CASE Query
  <2>1. pc' = "idle" /\ answer' \in {"still on", "disabled", "on", "off"} /\ unseen' \in BOOLEAN
    BY <1>15 DEF Query
  <2> QED
    BY <1>15, <2>1 DEF Query
<1> QED
  BY <1>1, <1>2, <1>3, <1>4, <1>5, <1>6, <1>7, <1>8, <1>9, <1>10, <1>11, <1>12, <1>13, <1>14,
     <1>15
  DEF Next, Manager, Runner

\* The types of LoginService and of the process in it, for any bounds.
THEOREM TypeCorrect == Spec => []TypeOK
<1>1. TypeOK <=> RunTypeOK /\ LoginTypeOK
  BY DEF TypeOK, LoginTypeOK
<1>2. Init => LoginTypeOK
  <2>1. 0 \in 0..MaxCommands /\ 0 \in 0..MaxLogins
    BY LoginBoundsAssumption
  <2> QED
    BY <2>1 DEF Init, LoginTypeOK, Places, Verbs, Answers
<1>3. ServiceInv /\ LoginTypeOK /\ [Next]_vars => LoginTypeOK'
  BY LoginTypeNext DEF ServiceInv
<1>4. ServiceInv /\ LoginTypeOK => TypeOK
  BY <1>1 DEF ServiceInv
<1> QED
  BY <1>2, <1>3, <1>4, ServiceHolds, PTL DEF Spec
-----------------------------------------------------------------------------
(***************************************************************************)
(* The commands' answers.  What a command has done so far holds until it   *)
(* answers: nobody else writes the files or the registration, the manager  *)
(* does not touch a job that is off, and a login ends the command.         *)
(***************************************************************************)
OnTheWay ==
    /\ answer # "none" => pc = "idle"
    /\ pc \in {"write", "reload", "load", "undo"} => verb = "enable"
    /\ pc = "unload" => verb \in {"enable", "disable"}
    /\ pc = "remove" => verb = "disable"
    /\ pc = "query" => verb \in {"disable", "status"}
    /\ pc = "reload" => os = "linux"
    /\ HasFile /\ pc \in {"unload", "reload", "load"} /\ verb = "enable" => file = "whole"
    /\ HasFile /\ pc = "query" /\ verb = "disable" => file = "none"
    /\ HasFile /\ pc \in {"remove", "query"} /\ verb = "disable" /\ ~refused => job = "off"
    /\ os = "linux" /\ pc = "query" /\ verb = "disable" /\ ~refused => owner # "manager"

LEMMA OnTheWayNext ==
    ASSUME LoginTypeOK, OnTheWay, [Next]_vars
    PROVE  OnTheWay'
<1>o. os' = os
  BY DEF vars, loginVars, Next, Manager, Runner, Bring, SeeExit, StartAgain, Login, UserStarts,
     UserStops, Begin, WriteFiles, Unload, Reload, Load, Undo, RemoveFiles, Query, Rest
<1> USE <1>o DEF OnTheWay, HasFile, service, command, Rest, Say, Go
<1>1. CASE UNCHANGED loginVars \/ UNCHANGED vars
  BY <1>1 DEF loginVars, vars
<1>2. CASE Bring
  BY <1>2 DEF Bring
<1>3. CASE SeeExit
  BY <1>3 DEF SeeExit
<1>4. CASE StartAgain
  BY <1>4 DEF StartAgain
<1>5. CASE Login
  BY <1>5 DEF Login
<1>6. CASE UserStarts
  BY <1>6 DEF UserStarts
<1>7. CASE UserStops
  BY <1>7 DEF UserStops
<1>8. CASE Begin
  BY <1>8 DEF Begin, Verbs
<1>9. CASE WriteFiles
  BY <1>9 DEF WriteFiles
<1>10. CASE Unload
  <2>1. /\ pc = "unload" /\ UNCHANGED <<verb, file, owner, answer>>
        /\ pc' = IF verb = "disable" THEN "remove" ELSE IF os = "linux" THEN "reload" ELSE "load"
    BY <1>10 DEF Unload
  <2>2. HasFile /\ ~refused' => job' = "off"
    BY <1>10 DEF Unload, TurnOff
  <2> QED
    BY <2>1, <2>2
<1>11. CASE Reload
  BY <1>11 DEF Reload
<1>12. CASE Load
  BY <1>12 DEF Load
<1>13. CASE Undo
  BY <1>13 DEF Undo
<1>14. CASE RemoveFiles
  BY <1>14 DEF RemoveFiles, Settled
<1>15. CASE Query
  <2>1. pc = "query" /\ pc' = "idle"
    BY <1>15 DEF Query
  <2> QED
    BY <2>1
<1> QED
  BY <1>1, <1>2, <1>3, <1>4, <1>5, <1>6, <1>7, <1>8, <1>9, <1>10, <1>11, <1>12, <1>13, <1>14,
     <1>15
  DEF Next, Manager, Runner

LEMMA AnswersNext ==
    ASSUME LoginTypeOK, OnTheWay, AnswersAreTrue, [Next]_vars
    PROVE  AnswersAreTrue'
<1>o. os' = os
  BY DEF vars, loginVars, Next, Manager, Runner, Bring, SeeExit, StartAgain, Login, UserStarts,
     UserStops, Begin, WriteFiles, Unload, Reload, Load, Undo, RemoveFiles, Query, Rest
<1> USE <1>o DEF HasFile, StartsAtLogin, service, command, Rest, Say, Go
\* An answer stays true while the command that gave it is the last one.
<1>s. ASSUME UNCHANGED <<file, registered, answer, refused, unseen>>,
             job = "off" => job' = "off" /\ (owner # "manager" => owner' # "manager")
      PROVE  AnswersAreTrue'
  BY <1>s DEF AnswersAreTrue
<1>n. ASSUME answer' \in {"none", "failed", "still on"} PROVE AnswersAreTrue'
  BY <1>n DEF AnswersAreTrue
<1>1. CASE UNCHANGED loginVars \/ UNCHANGED vars
  BY <1>s, <1>1 DEF loginVars, vars
<1>2. CASE Bring
  BY <1>s, <1>2 DEF Bring
<1>3. CASE SeeExit
  BY <1>s, <1>3 DEF SeeExit
<1>4. CASE StartAgain
  BY <1>s, <1>4 DEF StartAgain
<1>5. CASE Login
  BY <1>n, <1>5 DEF Login
<1>6. CASE UserStarts
  BY <1>s, <1>6 DEF UserStarts
<1>7. CASE UserStops
  BY <1>s, <1>7 DEF UserStops
<1>8. CASE Begin
  BY <1>n, <1>8 DEF Begin
<1>a. ASSUME pc # "idle" PROVE answer = "none"
  BY <1>a DEF OnTheWay
<1>9. CASE WriteFiles
  BY <1>n, <1>a, <1>9 DEF WriteFiles
<1>10. CASE Unload
  BY <1>n, <1>a, <1>10 DEF Unload
<1>11. CASE Reload
  BY <1>n, <1>a, <1>11 DEF Reload
<1>12. CASE Load
  <2>1. CASE answer' = "enabled" /\ registered' = (os # "darwin") /\ UNCHANGED file
    BY <1>12, <2>1 DEF Load, OnTheWay, AnswersAreTrue
  <2> QED
    BY <1>12, <1>n, <1>a, <2>1 DEF Load
<1>13. CASE Undo
  <2>1. answer' = "undone" /\ (HasFile /\ ~unseen' => file' = "none")
    BY <1>13 DEF Undo
  <2> QED
    BY <2>1 DEF AnswersAreTrue
<1>14. CASE RemoveFiles
  <2>1. CASE answer' \in {answer, "failed"}
    BY <1>14, <1>n, <1>a, <2>1 DEF RemoveFiles
  <2>2. CASE answer' = "disabled" /\ file' = "none" /\ ~Queried
    <3>1. os = "darwin"
      BY <2>2 DEF Queried
    <3>2. ~refused' => job' = "off"
      BY <1>14, <3>1 DEF RemoveFiles, OnTheWay
    <3> QED
      BY <2>2, <3>1, <3>2 DEF AnswersAreTrue
  <2> QED
    BY <1>14, <2>1, <2>2 DEF RemoveFiles
<1>15. CASE Query
  <2>0. pc = "query" /\ UNCHANGED <<file, registered, job, owner, refused>>
    BY <1>15 DEF Query
  <2>1. CASE verb = "disable"
    <3>1. answer' \in {"still on", "disabled"} /\ (answer' = "disabled" /\ ~unseen' => ~On)
      BY <1>15, <2>1 DEF Query
    <3>2. HasFile /\ ~refused => job = "off" /\ (os = "linux" => owner # "manager")
      BY <2>0, <2>1 DEF OnTheWay
    <3>3. StartsAtLogin => On
      BY DEF On, Queried
    <3> QED
      BY <2>0, <3>1, <3>2, <3>3 DEF AnswersAreTrue
  <2>2. CASE verb # "disable"
    <3>1. /\ answer' \in {"on", "off"}
          /\ ~unseen' => (answer' = "on" /\ On) \/ (answer' = "off" /\ ~On)
      BY <1>15, <2>2 DEF Query
    <3>2. file # "torn" => On = StartsAtLogin
      BY DEF On, Queried, LoginTypeOK
    <3> QED
      BY <2>0, <3>1, <3>2 DEF AnswersAreTrue
  <2> QED
    BY <2>1, <2>2
<1> QED
  BY <1>1, <1>2, <1>3, <1>4, <1>5, <1>6, <1>7, <1>8, <1>9, <1>10, <1>11, <1>12, <1>13, <1>14,
     <1>15
  DEF Next, Manager, Runner

\* What `companion autostart enable`, `disable` and `status` say is true of the next
\* login on each system, whatever fails on the way and whatever the manager and the
\* users do meanwhile, as far as the command could see.
THEOREM AnswersAreTrueHolds == Spec => []AnswersAreTrue
<1>1. Init => OnTheWay /\ AnswersAreTrue
  BY DEF Init, OnTheWay, AnswersAreTrue
<1>2. /\ LoginTypeOK /\ OnTheWay /\ AnswersAreTrue /\ [Next]_vars
      => OnTheWay' /\ AnswersAreTrue'
  BY OnTheWayNext, AnswersNext
<1>3. TypeOK => LoginTypeOK
  BY DEF TypeOK, LoginTypeOK
<1> QED
  BY <1>1, <1>2, <1>3, TypeCorrect, PTL DEF Spec
-----------------------------------------------------------------------------
(***************************************************************************)
(* A stop is respected.  Only a failed start of ssh or a kill makes a      *)
(* result, and with it the exit status, an error; so the manager, which    *)
(* starts again what failed, has nothing to start.                         *)
(***************************************************************************)
NoError(channel) == \A i \in 1..Len(channel) : channel[i] = FALSE

Faultless == ~fault => runErr = FALSE /\ exit # "failed" /\ NoError(results)

LEMMA FaultlessNext ==
    ASSUME RunTypeOK, Faultless, [RunNext]_runVars
    PROVE  Faultless'
<1>t. ChannelOK
  BY DEF RunTypeOK, ChannelOK
<1> USE DEF Faultless, collected, history
<1>s. ASSUME Send(FALSE), UNCHANGED <<exit, fault>> PROVE Faultless'
  <2>0. /\ Len(results) \in Nat /\ Len(results') = Len(results) + 1
        /\ \A i \in 1..Len(results') : results'[i] = IF i <= Len(results) THEN results[i] ELSE FALSE
    BY <1>s, <1>t, SendKeeps, LenProperties DEF ChannelOK
  <2>1. NoError(results) => NoError(results')
    <3> SUFFICES ASSUME NoError(results), NEW i \in 1..Len(results') PROVE results'[i] = FALSE
      BY DEF NoError
    <3>1. CASE i <= Len(results)
      <4>1. i \in 1..Len(results)
        BY <2>0, <3>1
      <4>2. results'[i] = results[i]
        BY <2>0, <3>1, Zenon
      <4> QED
        BY <4>1, <4>2 DEF NoError
    <3>2. CASE ~(i <= Len(results))
      BY <2>0, <3>2
    <3> QED
      BY <3>1, <3>2
  <2>2. UNCHANGED runErr
    BY <1>s DEF Send
  <2> QED
    BY <1>s, <2>1, <2>2
<1>r. ASSUME results # <<>>, results' = Tail(results), ~fault, Faultless
      PROVE  Head(results) = FALSE /\ NoError(results')
  <2>0. /\ Len(results) \in Nat /\ Len(results) >= 1 /\ Head(results) = results[1]
        /\ Len(results') = Len(results) - 1
        /\ \A i \in 1..Len(results') : results'[i] = results[i + 1]
    BY <1>r, <1>t, TakeKeeps, LenProperties DEF ChannelOK
  <2>1. \A i \in 1..Len(results) : results[i] = FALSE
    BY <1>r DEF NoError
  <2>2. Head(results) = FALSE
    <3>1. 1 \in 1..Len(results)
      BY <2>0
    <3> QED
      BY <2>0, <2>1, <3>1
  <2>3. ASSUME NEW i \in 1..Len(results') PROVE results'[i] = FALSE
    <3>1. i + 1 \in 1..Len(results)
      BY <2>0
    <3> QED
      BY <2>0, <2>1, <3>1
  <2> QED
    BY <2>2, <2>3 DEF NoError
<1>u. ASSUME UNCHANGED <<exit, fault, collected>> PROVE Faultless'
  BY <1>u
<1>1. CASE StartService \/ AskStop \/ Signalled \/ SshExits \/ KillSsh \/ Tick \/ UNCHANGED runVars
  BY <1>u, <1>1 DEF StartService, AskStop, Signalled, SshExits, KillSsh, Tick, runVars
<1>2. CASE Vanish
  <2>1. results' = <<>> /\ runErr' = FALSE /\ exit' = "none"
    BY <1>2 DEF Vanish
  <2>2. NoError(results')
    BY <2>1, EmptySeq DEF NoError
  <2> QED
    BY <2>1, <2>2
<1>3. CASE Leave
  <2>1. UNCHANGED <<exit, fault>>
    BY <1>3 DEF Leave
  <2>2. CASE UNCHANGED collected
    BY <1>u, <2>1, <2>2
  <2>3. CASE results # <<>> /\ results' = Tail(results) /\ runErr' = Head(results)
    BY <1>r, <2>1, <2>3
  <2> QED
    BY <1>3, <2>1, <2>2, <2>3 DEF Leave
<1>4. CASE Collect
  <2>1. /\ UNCHANGED <<exit, fault>> /\ results # <<>> /\ results' = Tail(results)
        /\ runErr' = (runErr \/ Head(results))
    BY <1>4 DEF Collect
  <2>2. ASSUME ~fault PROVE runErr' = FALSE /\ NoError(results')
    BY <1>r, <2>1, <2>2
  <2> QED
    BY <2>1, <2>2
<1>5. CASE Finish
  BY <1>5 DEF Finish
<1>6. CASE Kill
  BY <1>6 DEF Kill
<1>7. CASE WatcherEnds
  BY <1>7, <1>s DEF WatcherEnds
<1>8. CASE Spawn
  <2>1. CASE UNCHANGED <<exit, fault, collected>>
    BY <1>u, <2>1
  <2>2. CASE fault'
    BY <2>2
  <2> QED
    BY <1>8, <2>1, <2>2 DEF Spawn
<1>9. CASE Reap
  BY <1>9, <1>s DEF Reap, Return
<1>10. CASE LoseSsh
  BY <1>10, <1>s, <1>u DEF LoseSsh, Return
<1>11. CASE WaitEnds
  BY <1>11, <1>s, <1>u DEF WaitEnds, Return
<1> QED
  BY <1>1, <1>2, <1>3, <1>4, <1>5, <1>6, <1>7, <1>8, <1>9, <1>10, <1>11
  DEF RunNext, RunStep, Main, Tunnel

\* A process that a user or nobody started does not run for the manager.
ManagersOwn == job = "running" => owner = "manager"

LEMMA RespectNext ==
    ASSUME RunTypeOK, Faultless, LoginTypeOK, ManagersOwn, StopIsRespected, [Next]_vars
    PROVE  ManagersOwn' /\ StopIsRespected'
<1> USE DEF ManagersOwn, StopIsRespected, service, command, Rest, Say, Go
<1>1. CASE (RunStep \/ Kill) /\ UNCHANGED loginVars
  <2>1. fault => fault'
    BY <1>1 DEF RunStep, Main, Tunnel, Leave, Collect, Finish, Kill, WatcherEnds, Spawn,
       SshExits, KillSsh, Reap, LoseSsh, WaitEnds, Tick, history
  <2> QED
    BY <1>1, <2>1 DEF loginVars
<1>2. CASE Bring
  <2>1. fault' = fault
    BY <1>2 DEF Bring, StartService, runVars, history
  <2> QED
    BY <1>2, <2>1 DEF Bring
<1>3. CASE SeeExit
  <2>1. ~fault => exit # "failed"
    BY DEF Faultless
  <2>2. exit # "due" /\ exit # "running"
    BY DEF RunTypeOK
  <2> QED
    BY <1>3, <2>1, <2>2 DEF SeeExit
<1>4. CASE StartAgain
  BY <1>4 DEF StartAgain, runVars, history
<1>5. CASE Login
  BY <1>5 DEF Login
<1>6. CASE UserStarts
  BY <1>6 DEF UserStarts
<1>7. CASE UserStops
  <2>1. UNCHANGED <<fault, job, owner>> /\ (stopped' => stopped \/ job = "running")
    BY <1>7 DEF UserStops, AskStop, service, history
  <2> QED
    BY <2>1
<1>8. CASE Begin \/ WriteFiles \/ Reload \/ Undo \/ RemoveFiles \/ Query
  <2>1. UNCHANGED runVars /\ UNCHANGED <<job, owner, stopped>>
    BY <1>8 DEF Begin, WriteFiles, Reload, Undo, RemoveFiles, Query
  <2> QED
    BY <2>1 DEF runVars, history
<1>9. CASE Unload
  <2>1. fault' = fault
    BY <1>9 DEF Unload, TurnOff, Signalled, runVars, history
  <2>2. job' \in {job, "off"} /\ UNCHANGED <<owner, stopped>>
    BY <1>9 DEF Unload, TurnOff
  <2> QED
    BY <2>1, <2>2
<1>10. CASE Load
  <2>1. UNCHANGED <<fault, owner>> /\ job' \in {job, "due"}
    BY <1>10 DEF Load, runVars, history
  <2>2. stopped' = FALSE \/ UNCHANGED <<job, stopped>>
    BY <1>10 DEF Load
  <2> QED
    BY <2>1, <2>2
<1>11. CASE UNCHANGED vars
  BY <1>11 DEF vars, loginVars, runVars, history
<1> QED
  BY <1>1, <1>2, <1>3, <1>4, <1>5, <1>6, <1>7, <1>8, <1>9, <1>10, <1>11
  DEF Next, Manager, Runner

\* The exit status that KeepAlive's SuccessfulExit and Restart=on-failure go by is 0
\* for a Companion that a user stopped: the manager does not start it again.
THEOREM StopIsRespectedHolds == Spec => []StopIsRespected
<1>1. Init => Faultless /\ ManagersOwn /\ StopIsRespected
  BY EmptySeq DEF Init, RunInit, Faultless, NoError, ManagersOwn, StopIsRespected
<1>2. /\ RunTypeOK /\ LoginTypeOK /\ Faultless /\ ManagersOwn /\ StopIsRespected /\ [Next]_vars
      => Faultless' /\ ManagersOwn' /\ StopIsRespected'
  BY RunSteps, FaultlessNext, RespectNext
<1>3. TypeOK => RunTypeOK /\ LoginTypeOK
  BY DEF TypeOK, LoginTypeOK
<1> QED
  BY <1>1, <1>2, <1>3, TypeCorrect, PTL DEF Spec
=============================================================================
