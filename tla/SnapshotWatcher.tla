--------------------------- MODULE SnapshotWatcher ---------------------------
(***************************************************************************)
(* companion.SnapshotWatcher: each Companion polls the clipboard of the    *)
(* host, compares a cheap fingerprint with the last one it armed, and when *)
(* it is another reads the clipboard again and arms what it reads.  The    *)
(* clipboard may change between the two reads, a read or a call may fail,  *)
(* and every Companion of the host arms the same bridge.                   *)
(***************************************************************************)
EXTENDS Integers

CONSTANTS
    Watchers,     \* the Companions that run on this host
    Contents,     \* what may be copied
    Nothing,      \* the empty fingerprint, and an empty clipboard
    MaxCopies,    \* bound: how often the user copies something
    MaxFailures   \* bound: failing reads and failing calls of the bridge

ASSUME NothingAssumption == Nothing \notin Contents
ASSUME CopiesAssumption  == MaxCopies \in Nat /\ MaxFailures \in Nat

VARIABLES
    clip,      \* which copy is on the clipboard; 0 before the first
    content,   \* the content of each copy
    turn,      \* where each Run loop stands
    last,      \* the fingerprint it armed last
    seen,      \* the fingerprint of this turn
    data,      \* the copy ReadSnapshot returned
    armed,     \* the copy the bridge has armed; 0 for none
    arms,      \* history: how often each watcher's calls armed a copy
    lost,      \* history: how many of these it had no answer to
    failures

watchVars == <<clip, content, turn, last, seen, data, armed, arms, lost, failures>>
board     == <<clip, content>>
history   == <<arms, lost>>

Copies == 1..MaxCopies

WatchTypeOK ==
    /\ clip \in 0..MaxCopies
    /\ content \in [0..MaxCopies -> Contents \cup {Nothing}]
    /\ turn \in [Watchers -> {"poll", "read", "arm"}]
    /\ last \in [Watchers -> Contents \cup {Nothing}]
    /\ seen \in [Watchers -> Contents \cup {Nothing}]
    /\ data \in [Watchers -> 0..MaxCopies]
    /\ armed \in 0..MaxCopies
    /\ arms \in [Watchers -> [Copies -> Nat]]
    /\ lost \in [Watchers -> [Copies -> Nat]]
    /\ failures \in 0..MaxFailures

WatchInit ==
    /\ clip = 0
    /\ content = [k \in 0..MaxCopies |-> Nothing]
    /\ turn = [w \in Watchers |-> "poll"]
    /\ last = [w \in Watchers |-> Nothing]
    /\ seen = [w \in Watchers |-> Nothing]
    /\ data = [w \in Watchers |-> 0]
    /\ armed = 0
    /\ arms = [w \in Watchers |-> [k \in Copies |-> 0]]
    /\ lost = [w \in Watchers |-> [k \in Copies |-> 0]]
    /\ failures = 0

TurnsTo(w, place) == turn' = [turn EXCEPT ![w] = place]

Fail == failures < MaxFailures /\ failures' = failures + 1
-----------------------------------------------------------------------------
\* The user copies something.
Copy(c) ==
    /\ clip < MaxCopies
    /\ clip' = clip + 1
    /\ content' = [content EXCEPT ![clip'] = c]
    /\ UNCHANGED <<turn, last, seen, data, armed, history, failures>>

\* Mutant of Poll: the fingerprint is remembered before the arm succeeded.
PollRemembers(w) ==
    /\ turn[w] = "poll"
    /\ clip > 0 /\ content[clip] # last[w]
    /\ last' = [last EXCEPT ![w] = content[clip]]
    /\ seen' = [seen EXCEPT ![w] = content[clip]]
    /\ TurnsTo(w, "read")
    /\ UNCHANGED <<board, data, armed, history, failures>>

\* Mutant of Poll: the fingerprint is compared with nothing.
PollComparesNothing(w) ==
    /\ turn[w] = "poll"
    /\ clip > 0
    /\ seen' = [seen EXCEPT ![w] = content[clip]]
    /\ TurnsTo(w, "read")
    /\ UNCHANGED <<board, last, data, armed, history, failures>>

\* Fingerprint: an error or a fingerprint that was armed already ends the turn,
\* which changes nothing.
Poll(w) ==
    /\ turn[w] = "poll"
    /\ clip > 0 /\ content[clip] # last[w]
    /\ seen' = [seen EXCEPT ![w] = content[clip]]
    /\ TurnsTo(w, "read")
    /\ UNCHANGED <<board, last, data, armed, history, failures>>

\* ReadSnapshot reads the clipboard once more.
ReadSnapshot(w) ==
    /\ turn[w] = "read"
    /\ \/ data' = [data EXCEPT ![w] = clip] /\ TurnsTo(w, "arm") /\ UNCHANGED failures
       \/ Fail /\ TurnsTo(w, "poll") /\ UNCHANGED data
    /\ UNCHANGED <<board, last, seen, armed, history>>

\* w.Arm: the call may fail before the bridge acts on it or after.
Arm(w) ==
    /\ turn[w] = "arm"
    /\ TurnsTo(w, "poll")
    /\ \/ /\ armed' = data[w]
          /\ arms' = [arms EXCEPT ![w][data[w]] = @ + 1]
          /\ last' = [last EXCEPT ![w] = seen[w]]
          /\ UNCHANGED <<lost, failures>>
       \/ /\ Fail
          /\ armed' = data[w]
          /\ arms' = [arms EXCEPT ![w][data[w]] = @ + 1]
          /\ lost' = [lost EXCEPT ![w][data[w]] = @ + 1]
          /\ UNCHANGED last
       \/ /\ Fail
          /\ UNCHANGED <<armed, arms, lost, last>>
    /\ UNCHANGED <<board, seen, data>>

Turn(w) == Poll(w) \/ ReadSnapshot(w) \/ Arm(w)

WatchNext ==
    \/ \E c \in Contents : Copy(c)
    \/ \E w \in Watchers : Turn(w)

WatchSpec == WatchInit /\ [][WatchNext]_watchVars

\* The ticker of every watcher keeps ticking.
WatchFairSpec == WatchSpec /\ \A w \in Watchers : WF_watchVars(Turn(w))
-----------------------------------------------------------------------------
(***************************************************************************)
(* Properties.                                                             *)
(***************************************************************************)
\* A clipboard that changes while it is read, and calls that fail, never make a
\* watcher arm one copy without end: each arms a copy at most twice, and once more
\* for every arm of that copy whose answer it did not get.
RearmsAreFew == \A w \in Watchers, k \in Copies : arms[w][k] <= 2 + lost[w][k]

\* Once the user stops copying, what is armed is what is on the clipboard, after
\* failures and with several Companions too.  It takes content that never comes
\* back: what is copied again while a watcher reads has a fingerprint it knows.
CopiedAgain == \E j, k \in 1..clip : j # k /\ content[j] = content[k]

FollowsClipboard == <>[](content[armed] = content[clip] \/ CopiedAgain)
=============================================================================
