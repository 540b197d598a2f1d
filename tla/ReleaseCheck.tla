---------------------------- MODULE ReleaseCheck ----------------------------
(***************************************************************************)
(* release.Checker.Check: every Companion looks for a newer release when   *)
(* it starts and once a day, and all share one cache file, so that a day   *)
(* asks GitHub once.  What it learns it publishes to the bridge they share,*)
(* where the agents' MCP processes read it.  Reading, asking, writing and  *)
(* publishing are separate steps of several processes, GitHub or the       *)
(* bridge may be out of reach, the file may be lost or unwritable, the     *)
(* machine's clock may be put back, releases appear at any time, and       *)
(* Companions are stopped, or end, at any step and start again.  A release *)
(* is known by its place in the order of appearance.                       *)
(***************************************************************************)
EXTENDS SemVer

CONSTANTS
    Companions,
    Releases,     \* the stable releases, in the order they appear
    Running,      \* the version this machine runs, no development build
    CacheTTL,     \* how long an entry is used, in ticks
    MaxNow,       \* bound: the ticks
    MaxOutages   \* bound: failing requests, writes and publications

ASSUME ReleasesAssumption ==
    /\ Running \in Versions
    /\ Releases \in Seq({v \in Versions : v.pre = <<>>}) /\ Releases # <<>>
ASSUME NumbersAssumption ==
    CacheTTL \in Nat \ {0} /\ MaxNow \in Nat /\ MaxOutages \in Nat

VARIABLES
    now,       \* the machine's clock
    latest,    \* the latest release
    cache,     \* the shared file; version 0 when there is none
    stage,     \* where each Companion's Check stands
    begun,     \* the clock when it began
    entry,     \* the entry it read or made, while Check runs
    status,    \* what it returned last, the Companion's own notice
    told,      \* Bridge.release: what agentclip_update_status answers
    stopping,  \* the Companions whose context is cancelled and that still run
    published, \* history: the latest release when each time began
    putBack,   \* history: whether the clock was put back
    teller,    \* history: the Companion the agents hear, see Tell
    outages

checkVars == <<now, latest, cache, stage, begun, entry, status, told, stopping, published, putBack,
               teller, outages>>

services == <<stage, begun, entry, status, stopping>>

Times   == 0..MaxNow
Known   == 0..Len(Releases)
Entries == [version: Known, at: Times]
NoEntry == [version |-> 0, at |-> 0]

Statuses == [version: Known, at: Times, error: BOOLEAN, available: BOOLEAN]
Blank    == [version |-> 0, at |-> 0, error |-> FALSE, available |-> FALSE]

CheckTypeOK ==
    /\ now \in Times
    /\ latest \in DOMAIN Releases
    /\ cache \in Entries
    /\ stage \in [Companions -> {"off", "started", "wait", "read", "fetch", "write", "publish"}]
    /\ begun \in [Companions -> Times]
    /\ entry \in [Companions -> Entries]
    /\ status \in [Companions -> Statuses]
    /\ told \in Statuses
    /\ stopping \in SUBSET Companions
    /\ published \in [Times -> Known]
    /\ putBack \in BOOLEAN
    /\ teller \in SUBSET Companions
    /\ outages \in 0..MaxOutages

CheckInit ==
    /\ now = 0
    /\ latest = 1
    /\ cache = NoEntry
    /\ stage = [c \in Companions |-> "off"]
    /\ begun = [c \in Companions |-> 0]
    /\ entry = [c \in Companions |-> NoEntry]
    /\ status = [c \in Companions |-> Blank]
    /\ told = Blank
    /\ stopping = {}
    /\ published = [t \in Times |-> IF t = 0 THEN 1 ELSE 0]
    /\ putBack = FALSE
    /\ teller = {}
    /\ outages = 0

Go(c, to) == stage' = [stage EXCEPT ![c] = to]
Outage    == outages < MaxOutages /\ outages' = outages + 1
-----------------------------------------------------------------------------
(* The surroundings.                                                       *)

Release ==
    /\ latest < Len(Releases)
    /\ latest' = latest + 1
    /\ UNCHANGED <<now, cache, told, published, putBack, teller, outages, services>>

Tick ==
    /\ now < MaxNow
    /\ now' = now + 1
    /\ published' = IF putBack THEN published ELSE [published EXCEPT ![now + 1] = latest]
    /\ UNCHANGED <<latest, cache, told, putBack, teller, outages, services>>

\* The clock is put back, once; from then on its times are no dates to go by.
SetBack ==
    /\ ~putBack
    /\ \E t \in Times : t < now /\ now' = t
    /\ putBack' = TRUE
    /\ published' = [t \in Times |-> 0]
    /\ UNCHANGED <<latest, cache, told, teller, outages, services>>

\* The cache directory is emptied, or the file damaged.
LoseCache ==
    /\ cache # NoEntry
    /\ cache' = NoEntry
    /\ UNCHANGED <<now, latest, told, published, putBack, teller, outages, services>>
-----------------------------------------------------------------------------
(* A Companion.                                                            *)

\* PublishReleaseStatus, Daemon.release and SetReleaseStatus: what comes last counts.
\* The agents hear the Companion that told last, unless it was being stopped then.
Tell(c, what) ==
    \/ told' = what /\ teller' = {c} \ stopping /\ UNCHANGED outages
    \/ Outage /\ UNCHANGED <<told, teller>>

\* The service starts with the version it runs and no check, and says so to the bridge.
StartService(c) ==
    /\ stage[c] = "off"
    /\ Go(c, "started")
    /\ Tell(c, Blank)
    /\ UNCHANGED <<now, latest, cache, begun, entry, status, stopping, published, putBack>>

\* The first refresh of watchReleaseStatus, or a daily one.
Begin(c) ==
    /\ stage[c] \in {"started", "wait"}
    /\ Go(c, "read")
    /\ begun' = [begun EXCEPT ![c] = now]
    /\ UNCHANGED <<now, latest, cache, entry, status, told, stopping, published, putBack,
                   teller, outages>>

Newer(version) == Compare(Releases[version], Running) > 0

\* statusFromCache, and Check returns.
Return(c, e, error) ==
    /\ Go(c, "publish")
    /\ entry' = [entry EXCEPT ![c] = NoEntry]
    /\ status' = [status EXCEPT ![c] =
           [version |-> e.version, at |-> e.at, error |-> error,
            available |-> e.version > 0 /\ Newer(e.version)]]

\* Mutant of Usable: an entry is used once more when its day is over.
UsableOnceMore(c) == cache # NoEntry /\ begun[c] - cache.at \in 0..CacheTTL

\* An entry that is there, not from the future, and not too old.
Usable(c) ==
    /\ cache # NoEntry
    /\ begun[c] - cache.at >= 0
    /\ begun[c] - cache.at < CacheTTL

\* readCache; the entry is kept for when the request fails.
ReadCache(c) ==
    /\ stage[c] = "read"
    /\ IF Usable(c)
       THEN Return(c, cache, FALSE)
       ELSE Go(c, "fetch") /\ entry' = [entry EXCEPT ![c] = cache] /\ UNCHANGED status
    /\ UNCHANGED <<now, latest, cache, begun, told, stopping, published, putBack, teller, outages>>

\* FetchLatest: GitHub's answer is dated with the time at which the check began.
\* When there is none, or the Companion is being stopped, an old entry serves.
FetchLatest(c) ==
    /\ stage[c] = "fetch"
    /\ \/ /\ entry' = [entry EXCEPT ![c] = [version |-> latest, at |-> begun[c]]]
          /\ Go(c, "write") /\ UNCHANGED <<status, outages>>
       \/ /\ Outage \/ (c \in stopping /\ UNCHANGED outages)
          /\ IF entry[c] = NoEntry
             THEN Return(c, [version |-> 0, at |-> begun[c]], TRUE)
             ELSE Return(c, entry[c], FALSE)
    /\ UNCHANGED <<now, latest, cache, begun, told, stopping, published, putBack, teller>>

\* Mutant of WriteCache: the clock is read again.
WriteCacheNow(c) ==
    /\ stage[c] = "write"
    /\ cache' = [entry[c] EXCEPT !.at = now] /\ UNCHANGED outages
    /\ Return(c, entry[c], FALSE)
    /\ UNCHANGED <<now, latest, begun, told, stopping, published, putBack, teller>>

\* writeCache: the file is renamed into place; when that fails the check counts
\* all the same.
WriteCache(c) ==
    /\ stage[c] = "write"
    /\ \/ cache' = entry[c] /\ UNCHANGED outages
       \/ UNCHANGED cache /\ Outage
    /\ Return(c, entry[c], FALSE)
    /\ UNCHANGED <<now, latest, begun, told, stopping, published, putBack, teller>>

\* Mutant of Publish: a Companion tells the bridge of updates only.
PublishUpdate(c) ==
    /\ stage[c] = "publish"
    /\ Go(c, "wait")
    /\ IF status[c].available THEN Tell(c, status[c]) ELSE UNCHANGED <<told, teller, outages>>
    /\ UNCHANGED <<now, latest, cache, begun, entry, status, stopping, published, putBack>>

\* The second half of refresh.
Publish(c) ==
    /\ stage[c] = "publish"
    /\ Go(c, "wait")
    /\ Tell(c, status[c])
    /\ UNCHANGED <<now, latest, cache, begun, entry, status, stopping, published, putBack>>

\* runCompanionService comes to its end: a stop, a signal or a failure cancels the
\* context, and with it a request to GitHub, while refresh goes on.
StopService(c) ==
    /\ stage[c] # "off" /\ c \notin stopping
    /\ stopping' = stopping \cup {c}
    /\ UNCHANGED <<now, latest, cache, stage, begun, entry, status, told, published, putBack,
                   teller, outages>>

\* A Companion ends wherever its refresh stands: its control server does not start, it
\* has been stopped, or it is killed.  The bridge goes on saying what it said last, or
\* ends with the Companion that ran it and is replaced by one that knows nothing.
EndService(c) ==
    /\ stage[c] # "off"
    /\ Go(c, "off")
    /\ begun' = [begun EXCEPT ![c] = 0]
    /\ entry' = [entry EXCEPT ![c] = NoEntry]
    /\ status' = [status EXCEPT ![c] = Blank]
    /\ stopping' = stopping \ {c}
    /\ \/ /\ teller' = IF told = Blank THEN teller \ {c} ELSE teller
          /\ UNCHANGED <<told, outages>>
       \/ Outage /\ told' = Blank /\ teller' = {}
    /\ UNCHANGED <<now, latest, cache, published, putBack>>

Check(c) == ReadCache(c) \/ FetchLatest(c) \/ WriteCache(c)

CheckNext ==
    \/ Release \/ Tick \/ SetBack \/ LoseCache
    \/ \E c \in Companions : \/ StartService(c) \/ Begin(c) \/ Check(c) \/ Publish(c)
                             \/ StopService(c) \/ EndService(c)

CheckSpec == CheckInit /\ [][CheckNext]_checkVars
-----------------------------------------------------------------------------
(***************************************************************************)
(* Properties.                                                             *)
(***************************************************************************)
Notices == {status[c] : c \in Companions} \cup {told}

\* A check that took place at some time knows every release there was by then,
\* for whoever reads it later, at the Companion or by way of the bridge: slow requests,
\* late writes, publications that overtake each other and old entries that serve once
\* more do not make an old answer look new, on a clock that only ran forward.
DateIsHonest ==
    ~putBack =>
        /\ cache # NoEntry => cache.version >= published[cache.at]
        /\ \A notice \in Notices :
             notice.version > 0 => notice.version >= published[notice.at]

\* The user and the agents are told of an update exactly when Semantic Versioning ranks
\* the release that is known above the version that runs; and the comparison behind it,
\* which setup and upgrade use for pre-releases too, is that order for every version.
NoticeFollowsSemVer ==
    /\ OrdersAsSemVer
    /\ \A notice \in Notices :
         notice.available <=>
             notice.version > 0 /\ Lower(Running, Releases[notice.version])

Settled == \A c \in Companions : stage[c] \in {"off", "wait"}

\* As long as GitHub and the bridge can be reached, a Companion that is not being
\* stopped is told neither what was known a day or more before it asked, nor what a
\* clock put back since says of the future.  And between the checks the agents are told
\* a release, the one the Companion that told last was told and no other, although each
\* start blanks the notice; until that is the blank of a Companion that ended before it
\* had its answer, or comes from one that was being stopped.
StatusIsFresh ==
    outages = 0 =>
        /\ \A c \in Companions \ stopping : stage[c] \in {"publish", "wait"} =>
             /\ status[c].version > 0
             /\ begun[c] - status[c].at \in 0..(CacheTTL - 1)
        /\ Settled => \A c \in teller :
             /\ told.version > 0
             /\ stage[c] = "wait" => told = status[c]
=============================================================================
