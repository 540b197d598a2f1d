------------------------------ MODULE Inbound -------------------------------
(***************************************************************************)
(* internal/bridge/inbound.go: a remote agent offers one file to the host, *)
(* the local user accepts or rejects it, and the agent uploads what was    *)
(* accepted.  Each critical section under Bridge.mu is one action;         *)
(* DeliverInboundOffer writes the file between two of them with no lock    *)
(* held.  Expiry is lazy: every call prunes first, nothing else does.      *)
(***************************************************************************)
EXTENDS Integers, FiniteSets

CONSTANTS
    Handlers,     \* goroutines that serve the upload endpoints
    Profiles,     \* persistent session IDs
    Folders,      \* inbox folders, named by inboundProfile
    Folder,       \* [Profiles -> Folders]; invalid names share "default"
    OfferTTL,     \* InboundOfferTTL
    Retention,    \* InboundRetention
    MaxOpen,      \* MaxOpenInboundOffers
    MaxOffers,    \* bound: offers ever created
    MaxTime,      \* bound: the last instant of the clock
    MaxCrashes    \* bound: times the bridge process dies

ASSUME TimesAssumption == OfferTTL \in Nat /\ Retention \in Nat /\ MaxTime \in Nat
ASSUME BoundsAssumption == MaxOffers \in Nat /\ MaxOpen \in Nat /\ MaxCrashes \in Nat
ASSUME ProfileAssumption == Profiles # {}
ASSUME FolderAssumption == Folder \in [Profiles -> Folders]

OfferIDs == 1..MaxOffers
Instants == 0..(MaxTime + OfferTTL)
States   == {"pending", "accepted", "receiving", "delivered", "rejected", "expired", "failed"}
Offer    == [profile : Folders, state : States, expires : Instants, deliveredAt : 0..MaxTime]

VARIABLES
    now,        \* the clock
    offers,     \* Bridge.inbound
    minted,     \* how many offer IDs randomID has minted
    uploaders,  \* sessions that are persistent and hold an upload token
    disk,       \* the directory of each offer: none, empty, temp or file
    pc,         \* where each handler stands
    caller,     \* the session it authenticated
    job,        \* the offer it uploads
    intact,     \* whether what it wrote is the verified file
    approved,   \* history: offers the local user accepted
    crashes

vars == <<now, offers, minted, uploaders, disk, pc, caller, job, intact, approved, crashes>>
handlerVars == <<pc, caller, job, intact>>

PCs == {"idle", "create", "claim", "write", "copy", "commit"}

TypeOK ==
    /\ now \in 0..MaxTime
    /\ DOMAIN offers \subseteq OfferIDs
    /\ offers \in [DOMAIN offers -> Offer]
    /\ minted \in 0..MaxOffers
    /\ uploaders \subseteq Profiles
    /\ disk \in [OfferIDs -> {"none", "empty", "temp", "file"}]
    /\ pc \in [Handlers -> PCs]
    /\ caller \in [Handlers -> Profiles]
    /\ job \in [Handlers -> 0..MaxOffers]
    /\ intact \in [Handlers -> BOOLEAN]
    /\ approved \subseteq OfferIDs
    /\ crashes \in 0..MaxCrashes

NoOffers == [x \in {} |-> x]
SomeProfile == CHOOSE p \in Profiles : TRUE

Init ==
    /\ now = 0
    /\ offers = NoOffers
    /\ minted = 0
    /\ uploaders = {}
    /\ disk = [o \in OfferIDs |-> "none"]
    /\ pc = [h \in Handlers |-> "idle"]
    /\ caller = [h \in Handlers |-> SomeProfile]
    /\ job = [h \in Handlers |-> 0]
    /\ intact = [h \in Handlers |-> FALSE]
    /\ approved = {}
    /\ crashes = 0
-----------------------------------------------------------------------------
(***************************************************************************)
(* pruneInboundLocked: what the store and the inbox are after it ran.      *)
(***************************************************************************)
Aged(o) ==
    IF offers[o].state \in {"pending", "accepted"} /\ now >= offers[o].expires
    THEN [offers[o] EXCEPT !.state = "expired"]
    ELSE offers[o]

\* Mutant of Forgotten: retention counts from the expiry of the offer.
ForgottenAtExpiry(o) ==
    \/ /\ Aged(o).state \in {"rejected", "expired", "failed"}
       /\ now >= offers[o].expires + Retention
    \/ /\ Aged(o).state = "delivered"
       /\ now >= offers[o].expires

Forgotten(o) ==
    \/ /\ Aged(o).state \in {"rejected", "expired", "failed"}
       /\ now >= offers[o].expires + Retention
    \/ /\ Aged(o).state = "delivered"
       /\ now >= offers[o].deliveredAt + Retention

Pruned == [o \in {i \in DOMAIN offers : ~Forgotten(i)} |-> Aged(o)]

\* Mutant of Swept: the offer is dropped, its directory is not.
NothingSwept == disk

\* Dropping a delivered offer removes its directory.
Swept ==
    [o \in OfferIDs |->
        IF o \in DOMAIN offers /\ offers[o].state = "delivered" /\ Forgotten(o)
        THEN "none" ELSE disk[o]]

SetState(o, s) == offers' = [Pruned EXCEPT ![o].state = s]

Unsettled == {"pending", "accepted", "receiving"}

\* openInboundOffersLocked
OpenOffers(table, f) ==
    {o \in DOMAIN table : table[o].profile = f /\ table[o].state \in Unsettled}
-----------------------------------------------------------------------------
(***************************************************************************)
(* Sessions: a Companion registers its profile with an upload token, or    *)
(* again without one.                                                      *)
(***************************************************************************)
Register(p) ==
    /\ uploaders' \in {uploaders \cup {p}, uploaders \ {p}}
    /\ UNCHANGED <<now, offers, minted, disk, handlerVars, approved, crashes>>
-----------------------------------------------------------------------------
(***************************************************************************)
(* The remote agent.                                                       *)
(***************************************************************************)
Goto(h, place) == pc' = [pc EXCEPT ![h] = place]

\* authenticateUpload has let the request through; the body is read next.
Receive(h, p) ==
    /\ pc[h] = "idle"
    /\ p \in uploaders
    /\ caller' = [caller EXCEPT ![h] = p]
    /\ \/ Goto(h, "create") /\ UNCHANGED job
       \/ Goto(h, "claim") /\ \E o \in 1..minted : job' = [job EXCEPT ![h] = o]
    /\ UNCHANGED <<now, offers, minted, uploaders, disk, intact, approved, crashes>>

\* The goroutine answers and forgets what it held.
Finish(h) ==
    /\ Goto(h, "idle")
    /\ caller' = [caller EXCEPT ![h] = SomeProfile]
    /\ job' = [job EXCEPT ![h] = 0]
    /\ intact' = [intact EXCEPT ![h] = FALSE]

\* Bounds: so many offers, and each early enough for the clock to see it expire.
WithinBounds == minted < MaxOffers /\ now + OfferTTL <= MaxTime

\* Mutant of MayCreate: the cap is off by one.
MayCreateOneMore(p) ==
    /\ p \in uploaders
    /\ WithinBounds
    /\ Cardinality(OpenOffers(Pruned, Folder[p])) <= MaxOpen

\* CreateInboundOffer: the session is looked up again under the lock.
MayCreate(p) ==
    /\ p \in uploaders
    /\ WithinBounds
    /\ Cardinality(OpenOffers(Pruned, Folder[p])) < MaxOpen

CreateInboundOffer(h) ==
    /\ pc[h] = "create"
    /\ IF MayCreate(caller[h])
       THEN /\ minted' = minted + 1
            /\ offers' = [o \in DOMAIN Pruned \cup {minted'} |->
                            IF o = minted'
                            THEN [profile |-> Folder[caller[h]], state |-> "pending",
                                  expires |-> now + OfferTTL, deliveredAt |-> 0]
                            ELSE Pruned[o]]
       ELSE offers' = Pruned /\ UNCHANGED minted
    /\ disk' = Swept
    /\ Finish(h)
    /\ UNCHANGED <<now, uploaders, approved, crashes>>

\* Mutant of Claimable: a retry may join the upload it lost the answer of.
ClaimableAgain(h) ==
    /\ job[h] \in DOMAIN Pruned
    /\ Pruned[job[h]].profile = Folder[caller[h]]
    /\ Pruned[job[h]].state \in {"accepted", "receiving"}

\* DeliverInboundOffer, first section: only an accepted offer of the caller's
\* profile is claimed, and only by a body of the right length.
Claimable(h) ==
    /\ job[h] \in DOMAIN Pruned
    /\ Pruned[job[h]].profile = Folder[caller[h]]
    /\ Pruned[job[h]].state = "accepted"

ClaimOffer(h) ==
    /\ pc[h] = "claim"
    /\ disk' = Swept
    /\ \/ /\ Claimable(h)
          /\ SetState(job[h], "receiving")
          /\ Goto(h, "write")
          /\ UNCHANGED <<caller, job, intact>>
       \/ /\ offers' = Pruned
          /\ Finish(h)
    /\ UNCHANGED <<now, minted, uploaders, approved, crashes>>

\* writeInboundFile up to the temporary file; storage may fail before it exists.
OpenTemporary(h) ==
    /\ pc[h] = "write"
    /\ \/ disk' = [disk EXCEPT ![job[h]] = "temp"] /\ Goto(h, "copy")
       \/ /\ \E left \in {disk[job[h]], "empty"} : disk' = [disk EXCEPT ![job[h]] = left]
          /\ Goto(h, "commit")
    /\ UNCHANGED <<now, offers, minted, uploaders, caller, job, intact, approved, crashes>>

\* writeInboundFile from the copy to the rename.  A body that breaks off, is
\* still coming at ReadTimeout or has another hash leaves an empty directory.
CopyBody(h) ==
    /\ pc[h] = "copy"
    /\ \E good \in BOOLEAN :
          /\ intact' = [intact EXCEPT ![h] = good]
          /\ disk' = [disk EXCEPT ![job[h]] = IF good THEN "file" ELSE "empty"]
    /\ Goto(h, "commit")
    /\ UNCHANGED <<now, offers, minted, uploaders, caller, job, approved, crashes>>

\* Mutant of CommitDelivery: the error of writeInboundFile is lost.
CommitAnyway(h) ==
    /\ pc[h] = "commit"
    /\ offers' = [offers EXCEPT ![job[h]].state = "delivered", ![job[h]].deliveredAt = now]
    /\ Finish(h)
    /\ UNCHANGED <<now, minted, uploaders, disk, approved, crashes>>

\* DeliverInboundOffer, second section.  It does not prune.
CommitDelivery(h) ==
    /\ pc[h] = "commit"
    /\ offers' = IF job[h] \notin DOMAIN offers THEN offers
                 ELSE IF intact[h]
                      THEN [offers EXCEPT ![job[h]].state = "delivered",
                                          ![job[h]].deliveredAt = now]
                      ELSE [offers EXCEPT ![job[h]].state = "failed"]
    /\ Finish(h)
    /\ UNCHANGED <<now, minted, uploaders, disk, approved, crashes>>
-----------------------------------------------------------------------------
(***************************************************************************)
(* The local user, and calls that only read.                               *)
(***************************************************************************)
\* Mutant of Decide: the state of the offer is not looked at.
DecideAnytime(o, verdict) ==
    /\ o \in DOMAIN Pruned
    /\ SetState(o, verdict)
    /\ disk' = Swept
    /\ approved' = IF verdict = "accepted" THEN approved \cup {o} ELSE approved
    /\ UNCHANGED <<now, minted, uploaders, handlerVars, crashes>>

\* setInboundOfferState: only a pending offer is decided.
Decide(o, verdict) ==
    /\ o \in DOMAIN Pruned
    /\ Pruned[o].state = "pending"
    /\ SetState(o, verdict)
    /\ disk' = Swept
    /\ approved' = IF verdict = "accepted" THEN approved \cup {o} ELSE approved
    /\ UNCHANGED <<now, minted, uploaders, handlerVars, crashes>>

\* InboundOffer (the agent polls its offer), InboundLocalStatus, openInboundFile,
\* a refused decision: they prune and answer.
Observe ==
    /\ offers' = Pruned
    /\ disk' = Swept
    /\ UNCHANGED <<now, minted, uploaders, handlerVars, approved, crashes>>
-----------------------------------------------------------------------------
Tick ==
    /\ now < MaxTime
    /\ now' = now + 1
    /\ UNCHANGED <<offers, minted, uploaders, disk, handlerVars, approved, crashes>>

\* The bridge process is killed or shut down, and another one takes its place.
Crash ==
    /\ crashes < MaxCrashes
    /\ crashes' = crashes + 1
    /\ offers' = NoOffers
    /\ uploaders' = {}
    /\ pc' = [h \in Handlers |-> "idle"]
    /\ caller' = [h \in Handlers |-> SomeProfile]
    /\ job' = [h \in Handlers |-> 0]
    /\ intact' = [h \in Handlers |-> FALSE]
    /\ UNCHANGED <<now, minted, disk, approved>>

Step(h) ==
    \/ CreateInboundOffer(h)
    \/ ClaimOffer(h)
    \/ OpenTemporary(h)
    \/ CopyBody(h)
    \/ CommitDelivery(h)

Next ==
    \/ \E p \in Profiles : Register(p)
    \/ \E h \in Handlers : Step(h) \/ \E p \in Profiles : Receive(h, p)
    \/ \E o \in OfferIDs, verdict \in {"accepted", "rejected"} : Decide(o, verdict)
    \/ Observe
    \/ Tick
    \/ Crash

Spec == Init /\ [][Next]_vars

-----------------------------------------------------------------------------
(***************************************************************************)
(* Properties.                                                             *)
(***************************************************************************)
Uploading(h) == pc[h] \in {"write", "copy", "commit"}

\* While DeliverInboundOffer writes without the lock, its offer stays in the
\* store and stays "receiving", whatever prunes run meanwhile: the second lock
\* section never meets errOfferNotFound or another state.
ReceivingIsKept ==
    \A h \in Handlers : Uploading(h) =>
        job[h] \in DOMAIN offers /\ offers[job[h]].state = "receiving"

\* Two uploads never write into one offer's directory at once.
OneWriter ==
    \A g, h \in Handlers : Uploading(g) /\ Uploading(h) /\ job[g] = job[h] => g = h

\* No byte of an offer reaches the host's disk before the local user accepted it.
BytesNeedApproval == \A o \in OfferIDs : disk[o] \in {"temp", "file"} => o \in approved

\* What the inbox shows as delivered is there, whole and verified.
DeliveredIsOnDisk ==
    \A o \in DOMAIN offers : offers[o].state = "delivered" => disk[o] = "file"

\* However uploads, decisions and prunes interleave, no upload spoils another, and
\* what the inbox shows as delivered can be read.
UploadsAreSafe == OneWriter /\ DeliveredIsOnDisk

\* As long as the bridge lives, every file in the inbox belongs to an upload under
\* way or to a delivered offer that is still in the store.  So none is ever left
\* with nobody to remove it: the first call that prunes after the retention does,
\* and nothing promises that there is one (pruneInboundLocked has no timer).
FilesAreTracked ==
    crashes = 0 => \A o \in OfferIDs : disk[o] \in {"temp", "file"} =>
                      o \in DOMAIN offers /\ offers[o].state \in {"receiving", "delivered"}

\* A profile never keeps more than MaxOpenInboundOffers offers open, racing
\* creations included.
OpenOffersAreCapped == \A f \in Folders : Cardinality(OpenOffers(offers, f)) <= MaxOpen

\* An offer only moves along the protocol: nobody decides twice, a settled offer
\* stays settled, an expired one is never uploaded, and an upload starts in time.
Follows(s) ==
    CASE s = "pending"   -> {"pending", "accepted", "rejected", "expired"}
      [] s = "accepted"  -> {"accepted", "receiving", "expired"}
      [] s = "receiving" -> {"receiving", "delivered", "failed"}
      [] OTHER           -> {s}

OffersFollowProtocol ==
    [][\A o \in DOMAIN offers \cap DOMAIN offers' :
          /\ offers'[o].state \in Follows(offers[o].state)
          /\ offers[o].state = "accepted" /\ offers'[o].state = "receiving"
                => now < offers[o].expires]_vars

\* A delivered file is removed only by the prune that forgets its offer, and not
\* before InboundRetention has passed since the delivery.
FilesOutliveRetention ==
    [][\A o \in OfferIDs : disk[o] = "file" /\ disk'[o] # "file" =>
          /\ o \in DOMAIN offers \ DOMAIN offers'
          /\ now >= offers[o].deliveredAt + Retention]_vars
=============================================================================
