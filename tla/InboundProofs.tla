--------------------------- MODULE InboundProofs ----------------------------
(***************************************************************************)
(* Theorems about Inbound for any number of handlers, offers, profiles and *)
(* crashes.  The inductive invariant says, per state of an offer, what its *)
(* directory holds and who may be writing there.  It is stated about a     *)
(* store and an inbox (t, d), so that "pruning keeps it" is one lemma and  *)
(* every action, which prunes first, starts from the pruned store.         *)
(***************************************************************************)
EXTENDS Inbound, FiniteSetTheorems, TLAPS

\* What the directory of an offer holds, by the state of the offer.
Holds(s) ==
    CASE s \in {"pending", "accepted", "rejected", "expired"} -> {"none"}
      [] s = "failed"    -> {"none", "empty"}
      [] s = "delivered" -> {"file"}
      [] OTHER           -> {"none", "empty", "temp", "file"}

StoreType(t, d) ==
    /\ DOMAIN t \subseteq OfferIDs
    /\ t \in [DOMAIN t -> Offer]
    /\ d \in [OfferIDs -> {"none", "empty", "temp", "file"}]

StoreOK(t, d) ==
    /\ \A o \in DOMAIN t :
          /\ o <= minted
          /\ d[o] \in Holds(t[o].state)
          /\ t[o].state \in {"accepted", "receiving", "delivered"} => o \in approved
    /\ \A o \in OfferIDs : o > minted => d[o] = "none"
    /\ \A o \in OfferIDs : d[o] \in {"temp", "file"} => o \in approved
    /\ crashes = 0 => \A o \in OfferIDs : d[o] \in {"temp", "file"} => o \in DOMAIN t

\* What each upload in progress relies on.
UploadsOK(t, d) ==
    \A h \in Handlers : Uploading(h) =>
        /\ job[h] \in DOMAIN t
        /\ t[job[h]].state = "receiving"
        /\ pc[h] = "write" => d[job[h]] = "none"
        /\ pc[h] = "copy" => d[job[h]] = "temp"
        /\ pc[h] = "commit" /\ intact[h] => d[job[h]] = "file"
        /\ pc[h] = "commit" /\ ~intact[h] => d[job[h]] \in {"none", "empty"}

\* The verdict on a body exists only once the body has been read.
VerdictIsFresh == \A h \in Handlers : intact[h] => pc[h] = "commit"

Inv ==
    /\ TypeOK
    /\ StoreOK(offers, disk)
    /\ UploadsOK(offers, disk)
    /\ OneWriter
    /\ VerdictIsFresh
-----------------------------------------------------------------------------
LEMMA SomeProfileType == SomeProfile \in Profiles
  BY ProfileAssumption DEF SomeProfile

\* What pruneInboundLocked does to the store and the inbox.
LEMMA PrunedFacts ==
    ASSUME TypeOK
    PROVE  /\ StoreType(Pruned, Swept)
           /\ DOMAIN Pruned \subseteq DOMAIN offers
           /\ \A o \in DOMAIN Pruned :
                 /\ Pruned[o].state = offers[o].state
                    \/ (/\ offers[o].state \in {"pending", "accepted"}
                        /\ Pruned[o].state = "expired"
                        /\ now >= offers[o].expires)
                 /\ Pruned[o].profile = offers[o].profile
                 /\ Pruned[o].state = "accepted" => now < offers[o].expires
                 /\ Pruned[o].expires = offers[o].expires
                 /\ Pruned[o].deliveredAt = offers[o].deliveredAt
           /\ \A o \in DOMAIN offers : offers[o].state = "receiving" =>
                 o \in DOMAIN Pruned /\ Swept[o] = disk[o]
           /\ \A o \in OfferIDs :
                 \/ Swept[o] = disk[o]
                 \/ /\ Swept[o] = "none"
                    /\ o \in DOMAIN offers
                    /\ o \notin DOMAIN Pruned
                    /\ offers[o].state = "delivered"
                    /\ now >= offers[o].deliveredAt + Retention
           /\ \A o \in DOMAIN offers : o \notin DOMAIN Pruned =>
                 \/ offers[o].state \in {"pending", "accepted", "rejected", "expired", "failed"}
                 \/ offers[o].state = "delivered" /\ Swept[o] = "none"
<1>1. \A o \in DOMAIN offers :
         /\ Aged(o) \in Offer
         /\ Aged(o).profile = offers[o].profile
         /\ Aged(o).expires = offers[o].expires
         /\ Aged(o).deliveredAt = offers[o].deliveredAt
         /\ \/ Aged(o) = offers[o]
            \/ /\ offers[o].state \in {"pending", "accepted"}
               /\ Aged(o).state = "expired"
               /\ now >= offers[o].expires
         /\ Aged(o).state = "accepted" => now < offers[o].expires
  BY DEF TypeOK, Offer, Aged, States, Instants
<1>2. \A o \in DOMAIN offers : offers[o].state \in States
  BY DEF TypeOK, Offer
<1>3. /\ DOMAIN Pruned = {i \in DOMAIN offers : ~Forgotten(i)}
      /\ \A o \in DOMAIN Pruned : Pruned[o] = Aged(o)
  BY DEF Pruned
<1>4. \A o \in DOMAIN offers : Forgotten(o) =>
         \/ Aged(o).state \in {"rejected", "expired", "failed"}
         \/ Aged(o).state = "delivered" /\ now >= offers[o].deliveredAt + Retention
  BY DEF Forgotten
<1>5. \A o \in OfferIDs : Swept[o] = IF o \in DOMAIN offers /\ offers[o].state = "delivered"
                                          /\ Forgotten(o)
                                     THEN "none" ELSE disk[o]
  BY DEF Swept
<1>6. StoreType(Pruned, Swept)
  <2>1. DOMAIN Pruned \subseteq OfferIDs /\ Pruned \in [DOMAIN Pruned -> Offer]
    BY <1>1, <1>3 DEF TypeOK, Pruned
  <2>2. Swept \in [OfferIDs -> {"none", "empty", "temp", "file"}]
    BY DEF TypeOK, Swept
  <2> QED
    BY <2>1, <2>2 DEF StoreType
<1> HIDE DEF Pruned, Swept, Aged, Forgotten
<1>7. \A o \in DOMAIN offers : offers[o].state = "receiving" =>
         o \in DOMAIN Pruned /\ Swept[o] = disk[o]
  BY <1>1, <1>3, <1>4, <1>5 DEF TypeOK
<1>8. \A o \in DOMAIN offers : offers[o].state = "delivered" /\ Forgotten(o) =>
         now >= offers[o].deliveredAt + Retention
  BY <1>1, <1>4
<1>9. \A o \in DOMAIN Pruned :
         /\ o \in DOMAIN offers
         /\ Pruned[o].state = offers[o].state
            \/ (/\ offers[o].state \in {"pending", "accepted"}
                /\ Pruned[o].state = "expired"
                /\ now >= offers[o].expires)
         /\ Pruned[o].profile = offers[o].profile
         /\ Pruned[o].state = "accepted" => now < offers[o].expires
         /\ Pruned[o].expires = offers[o].expires
         /\ Pruned[o].deliveredAt = offers[o].deliveredAt
  <2> SUFFICES ASSUME NEW o \in DOMAIN offers, o \in DOMAIN Pruned
               PROVE  /\ Pruned[o].state = offers[o].state
                         \/ (/\ offers[o].state \in {"pending", "accepted"}
                             /\ Pruned[o].state = "expired"
                             /\ now >= offers[o].expires)
                      /\ Pruned[o].profile = offers[o].profile
                      /\ Pruned[o].state = "accepted" => now < offers[o].expires
                      /\ Pruned[o].expires = offers[o].expires
                      /\ Pruned[o].deliveredAt = offers[o].deliveredAt
    BY <1>3
  <2>1. Pruned[o] = Aged(o)
    BY <1>3
  <2> QED
    BY <1>1, <2>1
<1>10. \A o \in OfferIDs :
         \/ Swept[o] = disk[o]
         \/ /\ Swept[o] = "none"
            /\ o \in DOMAIN offers
            /\ o \notin DOMAIN Pruned
            /\ offers[o].state = "delivered"
            /\ now >= offers[o].deliveredAt + Retention
  BY <1>3, <1>5, <1>8
<1>11. \A o \in DOMAIN offers : o \notin DOMAIN Pruned =>
         \/ offers[o].state \in {"pending", "accepted", "rejected", "expired", "failed"}
         \/ offers[o].state = "delivered" /\ Swept[o] = "none"
  BY <1>2, <1>3, <1>5, <1>7 DEF States, TypeOK
<1> QED
  BY <1>3, <1>6, <1>7, <1>9, <1>10, <1>11

LEMMA PruneKeepsStore ==
    ASSUME TypeOK, StoreOK(offers, disk)
    PROVE  StoreOK(Pruned, Swept)
<1> HIDE DEF Pruned, Swept
<1>1. DOMAIN offers \subseteq OfferIDs
  BY DEF TypeOK
<1>2. \A o \in DOMAIN Pruned :
         /\ o <= minted
         /\ Swept[o] \in Holds(Pruned[o].state)
         /\ Pruned[o].state \in {"accepted", "receiving", "delivered"} => o \in approved
  BY <1>1, PrunedFacts DEF StoreOK, Holds
<1>3. \A o \in OfferIDs : Swept[o] \in {"temp", "file"} => disk[o] = Swept[o]
  BY PrunedFacts
<1>4. \A o \in OfferIDs : Swept[o] \in {"temp", "file"} /\ o \in DOMAIN offers
                             => o \in DOMAIN Pruned
  BY <1>3, PrunedFacts DEF StoreOK, Holds
<1>5. \A o \in OfferIDs : disk[o] = "none" => Swept[o] = "none"
  BY PrunedFacts
<1> QED
  BY <1>2, <1>3, <1>4, <1>5 DEF StoreOK

LEMMA PruneKeepsUploads ==
    ASSUME TypeOK, UploadsOK(offers, disk)
    PROVE  UploadsOK(Pruned, Swept)
<1> HIDE DEF Pruned, Swept
<1> QED
  BY PrunedFacts DEF UploadsOK
-----------------------------------------------------------------------------
LEMMA InvInit == Init => Inv
<1> SUFFICES ASSUME Init PROVE Inv
  OBVIOUS
<1>1. TypeOK
  BY SomeProfileType, TimesAssumption, BoundsAssumption
     DEF Init, TypeOK, NoOffers, PCs
<1>2. StoreOK(offers, disk) /\ UploadsOK(offers, disk) /\ OneWriter /\ VerdictIsFresh
  BY DEF Init, StoreOK, UploadsOK, OneWriter, VerdictIsFresh, Uploading, NoOffers
<1> QED
  BY <1>1, <1>2 DEF Inv

\* The answer resets the handler and leaves the others alone.
LEMMA FinishFacts ==
    ASSUME TypeOK, NEW h \in Handlers, Finish(h)
    PROVE  /\ pc' \in [Handlers -> PCs]
           /\ caller' \in [Handlers -> Profiles]
           /\ job' \in [Handlers -> 0..MaxOffers]
           /\ intact' \in [Handlers -> BOOLEAN]
           /\ pc'[h] = "idle" /\ ~intact'[h]
           /\ \A g \in Handlers \ {h} :
                 pc'[g] = pc[g] /\ job'[g] = job[g] /\ intact'[g] = intact[g]
  BY SomeProfileType, BoundsAssumption DEF TypeOK, Finish, Goto, PCs

\* A step that only prunes, and moves no handler into or within an upload.
LEMMA PruneStep ==
    ASSUME Inv, offers' = Pruned, disk' = Swept, UNCHANGED <<minted, approved, crashes>>,
           \A g \in Handlers : pc'[g] # "idle" /\ Uploading(g)' =>
               pc'[g] = pc[g] /\ job'[g] = job[g] /\ intact'[g] = intact[g]
    PROVE  StoreOK(offers, disk)' /\ UploadsOK(offers, disk)' /\ OneWriter'
<1>1. StoreOK(Pruned, Swept) /\ UploadsOK(Pruned, Swept)
  BY PruneKeepsStore, PruneKeepsUploads DEF Inv
<1> HIDE DEF Pruned, Swept
<1>2. StoreOK(offers, disk)'
  BY <1>1 DEF StoreOK
<1>3. UploadsOK(offers, disk)'
  BY <1>1 DEF UploadsOK, Uploading
<1>4. OneWriter'
  BY DEF Inv, OneWriter, Uploading
<1> QED
  BY <1>2, <1>3, <1>4

LEMMA CreateKeepsInv ==
    ASSUME Inv, NEW h \in Handlers, CreateInboundOffer(h)
    PROVE  Inv'
<1>1. StoreOK(Pruned, Swept) /\ UploadsOK(Pruned, Swept) /\ StoreType(Pruned, Swept)
  BY PruneKeepsStore, PruneKeepsUploads, PrunedFacts DEF Inv
<1>2. /\ pc' \in [Handlers -> PCs]
      /\ caller' \in [Handlers -> Profiles]
      /\ job' \in [Handlers -> 0..MaxOffers]
      /\ intact' \in [Handlers -> BOOLEAN]
      /\ \A g \in Handlers : Uploading(g)' =>
            Uploading(g) /\ pc'[g] = pc[g] /\ job'[g] = job[g] /\ intact'[g] = intact[g]
  BY FinishFacts DEF Inv, CreateInboundOffer, Uploading
<1>v. VerdictIsFresh'
  BY FinishFacts DEF Inv, VerdictIsFresh, CreateInboundOffer
<1>3. CASE offers' = Pruned /\ UNCHANGED minted
  <2>1. StoreOK(offers, disk)' /\ UploadsOK(offers, disk)' /\ OneWriter'
    BY <1>2, <1>3, PruneStep DEF CreateInboundOffer
  <2>2. TypeOK'
    BY <1>1, <1>2, <1>3 DEF Inv, TypeOK, StoreType, CreateInboundOffer
  <2> QED
    BY <1>v, <2>1, <2>2 DEF Inv
<1>4. CASE ~(offers' = Pruned /\ UNCHANGED minted)
  <2> DEFINE new == [profile |-> Folder[caller[h]], state |-> "pending",
                     expires |-> now + OfferTTL, deliveredAt |-> 0]
  <2>1. /\ minted < MaxOffers
        /\ minted' = minted + 1
        /\ offers' = [o \in DOMAIN Pruned \cup {minted'} |->
                         IF o = minted' THEN new ELSE Pruned[o]]
        /\ disk' = Swept
        /\ UNCHANGED <<now, uploaders, approved, crashes>>
    BY <1>4 DEF CreateInboundOffer, MayCreate, WithinBounds
  <2> HIDE DEF Pruned, Swept
  <2>2. new \in Offer /\ new.state = "pending"
    BY FolderAssumption, TimesAssumption DEF Inv, TypeOK, Offer, States, Instants
  <2>3. minted \in Nat /\ minted' \in OfferIDs
    BY <2>1, BoundsAssumption DEF Inv, TypeOK, OfferIDs
  <2> HIDE DEF new
  <2>4. /\ minted' \notin DOMAIN Pruned
        /\ DOMAIN offers' = DOMAIN Pruned \cup {minted'}
        /\ offers'[minted'] = new
        /\ \A o \in DOMAIN Pruned : offers'[o] = Pruned[o]
    <3>1. \A o \in DOMAIN Pruned : o \in Nat /\ o <= minted
      BY <1>1 DEF StoreOK, StoreType, OfferIDs
    <3>2. minted' \notin DOMAIN Pruned
      BY <2>1, <2>3, <3>1
    <3> QED
      BY <2>1, <3>2
  <2>5. TypeOK'
    <3>1. DOMAIN offers' \subseteq OfferIDs /\ offers' \in [DOMAIN offers' -> Offer]
      BY <1>1, <2>1, <2>2, <2>3 DEF StoreType
    <3>2. minted' \in 0..MaxOffers
      BY <2>1, <2>3, BoundsAssumption
    <3> QED
      BY <1>1, <1>2, <2>1, <3>1, <3>2 DEF Inv, TypeOK, StoreType
  <2>6. StoreOK(offers, disk)'
    <3>1. Swept[minted'] = "none"
      BY <1>1, <2>1, <2>3 DEF StoreOK
    <3>2. \A o \in DOMAIN offers' :
             /\ o <= minted'
             /\ disk'[o] \in Holds(offers'[o].state)
             /\ offers'[o].state \in {"accepted", "receiving", "delivered"} => o \in approved
      <4> SUFFICES ASSUME NEW o \in DOMAIN offers'
                   PROVE  /\ o <= minted'
                          /\ disk'[o] \in Holds(offers'[o].state)
                          /\ offers'[o].state \in {"accepted", "receiving", "delivered"}
                                => o \in approved
        OBVIOUS
      <4>1. CASE o = minted'
        BY <2>1, <2>2, <2>3, <2>4, <3>1, <4>1 DEF Holds
      <4>2. CASE o # minted'
        <5>1. o \in DOMAIN Pruned /\ o \in Nat /\ o <= minted
          BY <1>1, <2>4, <4>2 DEF StoreOK, StoreType, OfferIDs
        <5> QED
          BY <1>1, <2>1, <2>3, <2>4, <5>1 DEF StoreOK
      <4> QED
        BY <4>1, <4>2
    <3>3. \A o \in OfferIDs : o > minted' => Swept[o] = "none"
      BY <1>1, <2>1, <2>3 DEF StoreOK, OfferIDs
    <3> QED
      BY <1>1, <2>1, <2>4, <3>2, <3>3 DEF StoreOK
  <2>7. UploadsOK(offers, disk)'
    <3> SUFFICES ASSUME NEW g \in Handlers, Uploading(g)'
                 PROVE  /\ job'[g] \in DOMAIN offers'
                        /\ offers'[job'[g]].state = "receiving"
                        /\ pc'[g] = "write" => disk'[job'[g]] = "none"
                        /\ pc'[g] = "copy" => disk'[job'[g]] = "temp"
                        /\ pc'[g] = "commit" /\ intact'[g] => disk'[job'[g]] = "file"
                        /\ pc'[g] = "commit" /\ ~intact'[g] => disk'[job'[g]] \in {"none", "empty"}
      BY DEF UploadsOK
    <3>1. Uploading(g) /\ pc'[g] = pc[g] /\ job'[g] = job[g] /\ intact'[g] = intact[g]
      BY <1>2
    <3>2. job[g] \in DOMAIN offers' /\ offers'[job[g]] = Pruned[job[g]]
      BY <1>1, <2>4, <3>1 DEF UploadsOK
    <3> QED
      BY <1>1, <2>1, <3>1, <3>2 DEF UploadsOK
  <2>8. OneWriter'
    BY <1>2 DEF Inv, OneWriter
  <2> QED
    BY <1>v, <2>5, <2>6, <2>7, <2>8 DEF Inv
<1> QED
  BY <1>3, <1>4

LEMMA ClaimKeepsInv ==
    ASSUME Inv, NEW h \in Handlers, ClaimOffer(h)
    PROVE  Inv'
<1>1. StoreOK(Pruned, Swept) /\ UploadsOK(Pruned, Swept) /\ StoreType(Pruned, Swept)
  BY PruneKeepsStore, PruneKeepsUploads, PrunedFacts DEF Inv
<1>2. disk' = Swept /\ UNCHANGED <<now, minted, uploaders, approved, crashes>>
  BY DEF ClaimOffer
<1>3. CASE offers' = Pruned /\ Finish(h)
  <2>1. StoreOK(offers, disk)' /\ UploadsOK(offers, disk)' /\ OneWriter'
    BY <1>2, <1>3, FinishFacts, PruneStep DEF Inv, Uploading
  <2>2. TypeOK'
    BY <1>1, <1>2, <1>3, FinishFacts DEF Inv, TypeOK, StoreType
  <2>3. VerdictIsFresh'
    BY <1>3, FinishFacts DEF Inv, VerdictIsFresh
  <2> QED
    BY <2>1, <2>2, <2>3 DEF Inv
<1>4. CASE ~(offers' = Pruned /\ Finish(h))
  <2> DEFINE id == job[h]
  <2>1. /\ pc[h] = "claim"
        /\ id \in DOMAIN Pruned
        /\ Pruned[id].state = "accepted"
        /\ offers' = [Pruned EXCEPT ![id].state = "receiving"]
        /\ pc' = [pc EXCEPT ![h] = "write"]
        /\ UNCHANGED <<caller, job, intact>>
    BY <1>4 DEF ClaimOffer, Claimable, SetState, Goto
  <2> HIDE DEF Pruned, Swept
  <2>2. /\ DOMAIN offers' = DOMAIN Pruned
        /\ offers' \in [DOMAIN offers' -> Offer]
        /\ offers'[id].state = "receiving"
        /\ \A o \in DOMAIN Pruned \ {id} : offers'[o] = Pruned[o]
    BY <1>1, <2>1 DEF StoreType, Offer, States
  <2>3. Swept[id] = "none" /\ id \in approved /\ id <= minted
    BY <1>1, <2>1 DEF StoreOK, Holds
  <2>4. \A g \in Handlers : Uploading(g) => job[g] # id
    BY <1>1, <2>1 DEF UploadsOK
  <2>5. \A g \in Handlers : g # h => pc'[g] = pc[g]
    BY <2>1 DEF Inv, TypeOK
  <2>6. pc'[h] = "write" /\ ~Uploading(h)
    BY <2>1 DEF Inv, TypeOK, Uploading
  <2>7. TypeOK'
    BY <1>1, <1>2, <2>1, <2>2 DEF Inv, TypeOK, StoreType, PCs
  <2>8. StoreOK(offers, disk)'
    <3>1. \A o \in DOMAIN offers' :
             /\ o <= minted'
             /\ disk'[o] \in Holds(offers'[o].state)
             /\ offers'[o].state \in {"accepted", "receiving", "delivered"} => o \in approved'
      <4> SUFFICES ASSUME NEW o \in DOMAIN Pruned
                   PROVE  /\ o <= minted
                          /\ Swept[o] \in Holds(offers'[o].state)
                          /\ offers'[o].state \in {"accepted", "receiving", "delivered"}
                                => o \in approved
        BY <1>2, <2>2
      <4>1. CASE o = id
        BY <2>2, <2>3, <4>1 DEF Holds
      <4>2. CASE o # id
        BY <1>1, <2>2, <4>2 DEF StoreOK
      <4> QED
        BY <4>1, <4>2
    <3> QED
      BY <1>1, <1>2, <2>2, <3>1 DEF StoreOK
  <2>9. UploadsOK(offers, disk)'
    <3>1. \A g \in Handlers : g # h /\ Uploading(g)' =>
             Uploading(g) /\ job[g] \in DOMAIN offers' /\ offers'[job[g]] = Pruned[job[g]]
      BY <1>1, <2>2, <2>4, <2>5 DEF Uploading, UploadsOK
    <3> QED
      BY <1>1, <1>2, <2>1, <2>2, <2>3, <2>5, <2>6, <3>1 DEF UploadsOK
  <2>10. OneWriter'
    BY <2>1, <2>4, <2>5, <2>6 DEF Inv, OneWriter, Uploading
  <2>11. VerdictIsFresh'
    BY <2>1, <2>5, <2>6 DEF Inv, VerdictIsFresh
  <2> QED
    BY <2>7, <2>8, <2>9, <2>10, <2>11 DEF Inv
<1> QED
  BY <1>3, <1>4

\* A step of the upload h that leaves the store alone, changes only its own
\* offer's directory and goes on to another place in the upload.
LEMMA WriteStep ==
    ASSUME Inv, NEW h \in Handlers, Uploading(h), NEW left, NEW place, NEW good \in BOOLEAN,
           UNCHANGED <<now, offers, minted, uploaders, caller, job, approved, crashes>>,
           disk' = [disk EXCEPT ![job[h]] = left],
           pc' = [pc EXCEPT ![h] = place],
           intact' = [intact EXCEPT ![h] = good],
           left \in {"none", "empty", "temp", "file"},
           place \in {"copy", "commit"},
           place = "copy" => left = "temp" /\ ~good,
           place = "commit" /\ good => left = "file",
           place = "commit" /\ ~good => left \in {"none", "empty"}
    PROVE  Inv'
<1> DEFINE id == job[h]
<1>1. id \in DOMAIN offers /\ id \in OfferIDs /\ offers[id].state = "receiving"
  BY DEF Inv, TypeOK, UploadsOK
<1>2. id \in approved /\ id <= minted
  BY <1>1 DEF Inv, StoreOK
<1>3. TypeOK'
  BY DEF Inv, TypeOK, PCs
<1>4. disk'[id] = left /\ \A o \in OfferIDs \ {id} : disk'[o] = disk[o]
  BY <1>1 DEF Inv, TypeOK
<1>5. pc'[h] = place /\ intact'[h] = good
      /\ \A g \in Handlers \ {h} : pc'[g] = pc[g] /\ intact'[g] = intact[g]
  BY DEF Inv, TypeOK
<1>6. StoreOK(offers, disk)'
  <2>1. \A o \in DOMAIN offers : disk'[o] \in Holds(offers[o].state)
    BY <1>1, <1>4 DEF Inv, TypeOK, StoreOK, Holds
  <2>2. \A o \in OfferIDs : o > minted => disk'[o] = "none"
    BY <1>1, <1>2, <1>4 DEF Inv, TypeOK, StoreOK, OfferIDs
  <2> QED
    BY <1>1, <1>2, <1>4, <2>1, <2>2 DEF Inv, TypeOK, StoreOK
<1>7. \A g \in Handlers : Uploading(g)' => Uploading(g) /\ (g # h => job[g] # id)
  BY <1>5 DEF Inv, OneWriter, Uploading
<1>8. UploadsOK(offers, disk)'
  BY <1>1, <1>4, <1>5, <1>7 DEF Inv, TypeOK, UploadsOK
<1>9. OneWriter'
  BY <1>7 DEF Inv, OneWriter
<1>10. VerdictIsFresh'
  BY <1>5 DEF Inv, VerdictIsFresh
<1> QED
  BY <1>3, <1>6, <1>8, <1>9, <1>10 DEF Inv

LEMMA OpenTemporaryKeepsInv ==
    ASSUME Inv, NEW h \in Handlers, OpenTemporary(h)
    PROVE  Inv'
<1>1. Uploading(h) /\ disk[job[h]] = "none" /\ ~intact[h]
  BY DEF OpenTemporary, Uploading, Inv, UploadsOK, VerdictIsFresh
<1>2. intact' = [intact EXCEPT ![h] = intact[h]] /\ intact[h] \in BOOLEAN
  BY DEF OpenTemporary, Inv, TypeOK
<1>3. CASE disk' = [disk EXCEPT ![job[h]] = "temp"] /\ Goto(h, "copy")
  BY <1>1, <1>2, <1>3, WriteStep DEF OpenTemporary, Goto
<1>4. ASSUME NEW left \in {disk[job[h]], "empty"},
             disk' = [disk EXCEPT ![job[h]] = left], Goto(h, "commit")
      PROVE  Inv'
  BY <1>1, <1>2, <1>4, WriteStep DEF OpenTemporary, Goto
<1> QED
  BY <1>3, <1>4 DEF OpenTemporary

LEMMA CopyBodyKeepsInv ==
    ASSUME Inv, NEW h \in Handlers, CopyBody(h)
    PROVE  Inv'
<1>1. Uploading(h)
  BY DEF CopyBody, Uploading
<1>2. PICK good \in BOOLEAN :
         /\ intact' = [intact EXCEPT ![h] = good]
         /\ disk' = [disk EXCEPT ![job[h]] = IF good THEN "file" ELSE "empty"]
  BY DEF CopyBody
<1>3. pc' = [pc EXCEPT ![h] = "commit"]
      /\ UNCHANGED <<now, offers, minted, uploaders, caller, job, approved, crashes>>
  BY DEF CopyBody, Goto
<1>4. CASE good
  BY <1>1, <1>2, <1>3, <1>4, WriteStep
<1>5. CASE ~good
  BY <1>1, <1>2, <1>3, <1>5, WriteStep
<1> QED
  BY <1>4, <1>5

LEMMA CommitKeepsInv ==
    ASSUME Inv, NEW h \in Handlers, CommitDelivery(h)
    PROVE  Inv'
<1> DEFINE id == job[h]
<1>1. /\ id \in DOMAIN offers /\ offers[id].state = "receiving" /\ id \in approved
      /\ disk[id] = "file" \/ (~intact[h] /\ disk[id] \in {"none", "empty"})
      /\ intact[h] => disk[id] = "file"
  BY DEF Inv, UploadsOK, StoreOK, Uploading, CommitDelivery, TypeOK
<1>2. PICK s \in {"delivered", "failed"}, at \in 0..MaxTime :
         /\ offers' = [offers EXCEPT ![id].state = s, ![id].deliveredAt = at]
         /\ disk[id] \in Holds(s)
  <2>1. CASE intact[h]
    BY <1>1, <2>1 DEF CommitDelivery, Inv, TypeOK, Holds
  <2>2. CASE ~intact[h]
    <3>1. offers' = [offers EXCEPT ![id].state = "failed"]
      BY <1>1, <2>2 DEF CommitDelivery
    <3>2. offers[id].deliveredAt \in 0..MaxTime
      BY <1>1 DEF Inv, TypeOK, Offer
    <3>3. offers' = [offers EXCEPT ![id].state = "failed", ![id].deliveredAt = offers[id].deliveredAt]
      BY <1>1, <3>1 DEF Inv, TypeOK, Offer
    <3>4. disk[id] \in Holds("failed")
      BY <1>1, <2>2 DEF Holds, Inv, UploadsOK, Uploading, CommitDelivery
    <3> QED
      BY <3>2, <3>3, <3>4
  <2> QED
    BY <2>1, <2>2
<1>3. UNCHANGED <<now, minted, uploaders, disk, approved, crashes>> /\ Finish(h)
  BY DEF CommitDelivery
<1>4. /\ DOMAIN offers' = DOMAIN offers
      /\ offers' \in [DOMAIN offers' -> Offer]
      /\ offers'[id].state = s
      /\ \A o \in DOMAIN offers \ {id} : offers'[o] = offers[o]
  BY <1>1, <1>2 DEF Inv, TypeOK, Offer, States
<1>5. TypeOK'
  BY <1>3, <1>4, FinishFacts DEF Inv, TypeOK
<1>6. \A g \in Handlers : Uploading(g)' =>
         /\ Uploading(g) /\ job[g] # id
         /\ pc'[g] = pc[g] /\ job'[g] = job[g] /\ intact'[g] = intact[g]
  BY <1>3, FinishFacts DEF Inv, OneWriter, Uploading, CommitDelivery
<1>7. StoreOK(offers, disk)'
  BY <1>1, <1>2, <1>3, <1>4 DEF Inv, StoreOK
<1>8. UploadsOK(offers, disk)'
  BY <1>3, <1>4, <1>6 DEF Inv, UploadsOK
<1>9. OneWriter' /\ VerdictIsFresh'
  BY <1>3, <1>6, FinishFacts DEF Inv, OneWriter, VerdictIsFresh
<1> QED
  BY <1>5, <1>7, <1>8, <1>9 DEF Inv

LEMMA DecideKeepsInv ==
    ASSUME Inv, NEW id \in OfferIDs, NEW verdict \in {"accepted", "rejected"},
           Decide(id, verdict)
    PROVE  Inv'
<1>1. StoreOK(Pruned, Swept) /\ UploadsOK(Pruned, Swept) /\ StoreType(Pruned, Swept)
  BY PruneKeepsStore, PruneKeepsUploads, PrunedFacts DEF Inv
<1> HIDE DEF Pruned, Swept
<1>2. /\ id \in DOMAIN Pruned
      /\ Pruned[id].state = "pending"
      /\ offers' = [Pruned EXCEPT ![id].state = verdict]
      /\ disk' = Swept
      /\ approved' = IF verdict = "accepted" THEN approved \cup {id} ELSE approved
      /\ UNCHANGED <<now, minted, uploaders, pc, caller, job, intact, crashes>>
  BY DEF Decide, SetState, handlerVars
<1>3. /\ DOMAIN offers' = DOMAIN Pruned
      /\ offers' \in [DOMAIN offers' -> Offer]
      /\ offers'[id].state = verdict
      /\ \A o \in DOMAIN Pruned \ {id} : offers'[o] = Pruned[o]
  BY <1>1, <1>2 DEF StoreType, Offer, States
<1>4. Swept[id] = "none" /\ id <= minted
  BY <1>1, <1>2 DEF StoreOK, Holds
<1>5. approved' \subseteq OfferIDs /\ approved \subseteq approved'
      /\ (verdict = "accepted" => id \in approved')
  BY <1>2 DEF Inv, TypeOK
<1>6. TypeOK'
  BY <1>1, <1>2, <1>3, <1>5 DEF Inv, TypeOK, StoreType
<1>7. StoreOK(offers, disk)'
  <2>1. Swept[id] \in Holds(verdict)
    BY <1>4 DEF Holds
  <2> QED
    BY <1>1, <1>2, <1>3, <1>4, <1>5, <2>1 DEF StoreOK
<1>8. UploadsOK(offers, disk)'
  BY <1>1, <1>2, <1>3 DEF UploadsOK, Uploading
<1>9. OneWriter' /\ VerdictIsFresh'
  BY <1>2 DEF Inv, OneWriter, VerdictIsFresh, Uploading
<1> QED
  BY <1>6, <1>7, <1>8, <1>9 DEF Inv

LEMMA ObserveKeepsInv ==
    ASSUME Inv, Observe
    PROVE  Inv'
<1>1. StoreType(Pruned, Swept)
  BY PrunedFacts DEF Inv
<1>2. offers' = Pruned /\ disk' = Swept
      /\ UNCHANGED <<now, minted, uploaders, pc, caller, job, intact, approved, crashes>>
  BY DEF Observe, handlerVars
<1>3. StoreOK(offers, disk)' /\ UploadsOK(offers, disk)' /\ OneWriter'
  BY <1>2, PruneStep
<1>4. TypeOK'
  BY <1>1, <1>2 DEF Inv, TypeOK, StoreType
<1>5. VerdictIsFresh'
  BY <1>2 DEF Inv, VerdictIsFresh
<1> QED
  BY <1>3, <1>4, <1>5 DEF Inv

LEMMA ReceiveKeepsInv ==
    ASSUME Inv, NEW h \in Handlers, NEW p \in Profiles, Receive(h, p)
    PROVE  Inv'
<1>1. PICK place \in {"create", "claim"} : pc' = [pc EXCEPT ![h] = place]
  BY DEF Receive, Goto
<1>2. /\ pc[h] = "idle"
      /\ caller' = [caller EXCEPT ![h] = p]
      /\ job' = job \/ \E o \in 1..minted : job' = [job EXCEPT ![h] = o]
      /\ UNCHANGED <<now, offers, minted, uploaders, disk, intact, approved, crashes>>
  BY DEF Receive
<1>3. TypeOK'
  BY <1>1, <1>2, BoundsAssumption DEF Inv, TypeOK, PCs
<1>4. \A g \in Handlers : Uploading(g)' =>
         g # h /\ Uploading(g) /\ pc'[g] = pc[g] /\ job'[g] = job[g]
  BY <1>1, <1>2 DEF Inv, TypeOK, Uploading
<1>5. StoreOK(offers, disk)' /\ UploadsOK(offers, disk)'
  BY <1>2, <1>4 DEF Inv, StoreOK, UploadsOK
<1>6. OneWriter' /\ VerdictIsFresh'
  BY <1>1, <1>2, <1>4 DEF Inv, TypeOK, OneWriter, VerdictIsFresh
<1> QED
  BY <1>3, <1>5, <1>6 DEF Inv

LEMMA CrashKeepsInv ==
    ASSUME Inv, Crash
    PROVE  Inv'
<1>1. TypeOK'
  BY SomeProfileType, BoundsAssumption DEF Crash, Inv, TypeOK, NoOffers, PCs
<1>2. StoreOK(offers, disk)'
  BY DEF Crash, Inv, TypeOK, StoreOK, NoOffers
<1>3. UploadsOK(offers, disk)' /\ OneWriter' /\ VerdictIsFresh'
  BY DEF Crash, UploadsOK, OneWriter, VerdictIsFresh, Uploading
<1> QED
  BY <1>1, <1>2, <1>3 DEF Inv

\* Registration, the clock and a stuttering step touch neither offers nor files.
LEMMA QuietKeepsInv ==
    ASSUME Inv, uploaders' \subseteq Profiles, now' \in 0..MaxTime,
           UNCHANGED <<offers, minted, disk, pc, caller, job, intact, approved, crashes>>
    PROVE  Inv'
<1>1. TypeOK'
  BY DEF Inv, TypeOK
<1>2. StoreOK(offers, disk)' /\ UploadsOK(offers, disk)'
  BY DEF Inv, StoreOK, UploadsOK, Uploading
<1>3. OneWriter' /\ VerdictIsFresh'
  BY DEF Inv, OneWriter, VerdictIsFresh, Uploading
<1> QED
  BY <1>1, <1>2, <1>3 DEF Inv

LEMMA InvNext == Inv /\ [Next]_vars => Inv'
<1> SUFFICES ASSUME Inv, [Next]_vars PROVE Inv'
  OBVIOUS
<1>1. ASSUME NEW p \in Profiles, Register(p) PROVE Inv'
  BY <1>1, QuietKeepsInv DEF Register, handlerVars, Inv, TypeOK
<1>2. ASSUME NEW h \in Handlers, NEW p \in Profiles, Receive(h, p) PROVE Inv'
  BY <1>2, ReceiveKeepsInv
<1>3. ASSUME NEW h \in Handlers, Step(h) PROVE Inv'
  BY <1>3, CreateKeepsInv, ClaimKeepsInv, OpenTemporaryKeepsInv, CopyBodyKeepsInv,
     CommitKeepsInv DEF Step
<1>4. ASSUME NEW o \in OfferIDs, NEW verdict \in {"accepted", "rejected"}, Decide(o, verdict)
      PROVE  Inv'
  BY <1>4, DecideKeepsInv
<1>5. CASE Observe
  BY <1>5, ObserveKeepsInv
<1>6. CASE Tick
  <2>1. now' \in 0..MaxTime
    BY <1>6, TimesAssumption DEF Tick, Inv, TypeOK
  <2> QED
    BY <1>6, <2>1, QuietKeepsInv DEF Tick, handlerVars, Inv, TypeOK
<1>7. CASE Crash
  BY <1>7, CrashKeepsInv
<1>8. CASE UNCHANGED vars
  BY <1>8, QuietKeepsInv DEF vars, Inv, TypeOK
<1> QED
  BY <1>1, <1>2, <1>3, <1>4, <1>5, <1>6, <1>7, <1>8 DEF Next

LEMMA InvAlways == Spec => []Inv
<1> QED
  BY InvInit, InvNext, PTL DEF Spec
-----------------------------------------------------------------------------
\* Every reachable state has the types of the Go values it stands for.
THEOREM TypeCorrect == Spec => []TypeOK
<1>1. Inv => TypeOK
  BY DEF Inv
<1> QED
  BY <1>1, InvAlways, PTL

\* DeliverInboundOffer finds its offer again, still "receiving", whatever ran
\* between its two lock sections.
THEOREM ReceivingIsKeptHolds == Spec => []ReceivingIsKept
<1>1. Inv => ReceivingIsKept
  BY DEF Inv, UploadsOK, ReceivingIsKept
<1> QED
  BY <1>1, InvAlways, PTL

\* Two uploads never write into the directory of one offer.
THEOREM OneWriterHolds == Spec => []OneWriter
<1>1. Inv => OneWriter
  BY DEF Inv
<1> QED
  BY <1>1, InvAlways, PTL

\* Nothing reaches the host's disk before the local user accepted the offer.
THEOREM BytesNeedApprovalHolds == Spec => []BytesNeedApproval
<1>1. Inv => BytesNeedApproval
  BY DEF Inv, StoreOK, BytesNeedApproval
<1> QED
  BY <1>1, InvAlways, PTL

\* A delivered offer's file is in its directory, whole and verified.
THEOREM DeliveredIsOnDiskHolds == Spec => []DeliveredIsOnDisk
<1>1. Inv => DeliveredIsOnDisk
  BY DEF Inv, StoreOK, Holds, DeliveredIsOnDisk
<1> QED
  BY <1>1, InvAlways, PTL

\* No upload spoils another, and what is delivered can be read.
THEOREM UploadsAreSafeHolds == Spec => []UploadsAreSafe
<1>1. OneWriter /\ DeliveredIsOnDisk => UploadsAreSafe
  BY DEF UploadsAreSafe
<1> QED
  BY <1>1, OneWriterHolds, DeliveredIsOnDiskHolds, PTL

\* Until the process dies, every file in the inbox belongs to an upload under way or
\* to a delivered offer, which the prune that forgets it takes along.
THEOREM FilesAreTrackedHolds == Spec => []FilesAreTracked
<1>1. Inv => FilesAreTracked
  <2> SUFFICES ASSUME Inv, crashes = 0, NEW o \in OfferIDs, disk[o] \in {"temp", "file"}
               PROVE  o \in DOMAIN offers /\ offers[o].state \in {"receiving", "delivered"}
    BY DEF FilesAreTracked
  <2>1. o \in DOMAIN offers /\ disk[o] \in Holds(offers[o].state)
    BY DEF Inv, StoreOK
  <2>2. offers[o].state \in States
    BY <2>1 DEF Inv, TypeOK, Offer
  <2> QED
    BY <2>1, <2>2 DEF Holds, States
<1> QED
  BY <1>1, InvAlways, PTL
-----------------------------------------------------------------------------
(***************************************************************************)
(* Every action falls under one of these shapes: it adds an offer to the   *)
(* pruned store, moves one offer in it, writes in the directory of an      *)
(* upload, settles an upload, loses the store, or touches none of this.    *)
(***************************************************************************)
Adds ==
    /\ DOMAIN offers' = DOMAIN Pruned \cup {minted + 1}
    /\ \A o \in DOMAIN Pruned : o <= minted => offers'[o] = Pruned[o]

Moves ==
    \E i \in DOMAIN Pruned, s \in {"accepted", "rejected", "receiving"} :
        /\ offers' = [Pruned EXCEPT ![i].state = s]
        /\ Pruned[i].state = IF s = "receiving" THEN "accepted" ELSE "pending"

Writes ==
    \E h \in Handlers, left \in {"none", "empty", "temp", "file"} :
        /\ pc[h] \in {"write", "copy"}
        /\ disk' = [disk EXCEPT ![job[h]] = left]

Settles ==
    \E h \in Handlers, s \in {"delivered", "failed"}, at \in 0..MaxTime :
        /\ pc[h] = "commit"
        /\ offers' = [offers EXCEPT ![job[h]].state = s, ![job[h]].deliveredAt = at]

Shape ==
    \/ UNCHANGED <<offers, disk>>
    \/ UNCHANGED disk /\ DOMAIN offers' = {}
    \/ disk' = Swept /\ (offers' = Pruned \/ Adds \/ Moves)
    \/ UNCHANGED offers /\ Writes
    \/ UNCHANGED disk /\ Settles

LEMMA StepShape ==
    ASSUME Inv, [Next]_vars
    PROVE  Shape
<1> HIDE DEF Pruned, Swept
<1>1. ASSUME NEW h \in Handlers, CreateInboundOffer(h) PROVE Shape
  <2>1. CASE MayCreate(caller[h])
    <3> DEFINE new == [profile |-> Folder[caller[h]], state |-> "pending",
                       expires |-> now + OfferTTL, deliveredAt |-> 0]
    <3>1. /\ disk' = Swept
          /\ minted' = minted + 1
          /\ offers' = [o \in DOMAIN Pruned \cup {minted'} |->
                           IF o = minted' THEN new ELSE Pruned[o]]
      BY <1>1, <2>1 DEF CreateInboundOffer
    <3>2. minted \in Nat /\ \A o \in DOMAIN Pruned : o \in Nat
      BY PrunedFacts, BoundsAssumption DEF Inv, TypeOK, StoreType, OfferIDs
    <3> QED
      BY <3>1, <3>2 DEF Shape, Adds
  <2>2. CASE ~MayCreate(caller[h])
    BY <1>1, <2>2 DEF CreateInboundOffer, Shape
  <2> QED
    BY <2>1, <2>2
<1>2. ASSUME NEW h \in Handlers, ClaimOffer(h) PROVE Shape
  BY <1>2 DEF ClaimOffer, Claimable, SetState, Shape, Moves
<1>3. ASSUME NEW h \in Handlers, OpenTemporary(h) PROVE Shape
  <2>1. disk[job[h]] = "none" /\ UNCHANGED offers /\ pc[h] = "write"
    BY <1>3 DEF OpenTemporary, Inv, UploadsOK, Uploading
  <2> QED
    BY <1>3, <2>1 DEF OpenTemporary, Shape, Writes
<1>4. ASSUME NEW h \in Handlers, CopyBody(h) PROVE Shape
  <2>1. PICK good \in BOOLEAN : disk' = [disk EXCEPT ![job[h]] = IF good THEN "file" ELSE "empty"]
    BY <1>4 DEF CopyBody
  <2>2. UNCHANGED offers /\ pc[h] = "copy"
    BY <1>4 DEF CopyBody
  <2> QED
    BY <2>1, <2>2 DEF Shape, Writes
<1>5. ASSUME NEW h \in Handlers, CommitDelivery(h) PROVE Shape
  <2> DEFINE id == job[h]
  <2>1. id \in DOMAIN offers /\ pc[h] = "commit" /\ UNCHANGED disk
    BY <1>5 DEF CommitDelivery, Inv, UploadsOK, Uploading
  <2>2. CASE intact[h]
    BY <1>5, <2>1, <2>2 DEF CommitDelivery, Inv, TypeOK, Shape, Settles
  <2>3. CASE ~intact[h]
    <3>1. offers' = [offers EXCEPT ![id].state = "failed"]
      BY <1>5, <2>1, <2>3 DEF CommitDelivery
    <3>2. offers[id].deliveredAt \in 0..MaxTime
      BY <2>1 DEF Inv, TypeOK, Offer
    <3>3. offers' = [offers EXCEPT ![id].state = "failed",
                                   ![id].deliveredAt = offers[id].deliveredAt]
      BY <2>1, <3>1 DEF Inv, TypeOK, Offer
    <3> QED
      BY <2>1, <3>2, <3>3 DEF Shape, Settles
  <2> QED
    BY <2>2, <2>3
<1>6. ASSUME NEW o \in OfferIDs, NEW verdict \in {"accepted", "rejected"}, Decide(o, verdict)
      PROVE  Shape
  BY <1>6 DEF Decide, SetState, Shape, Moves
<1>7. CASE Observe
  BY <1>7 DEF Observe, Shape
<1>8. CASE Crash
  BY <1>8 DEF Crash, NoOffers, Shape
<1>9. ASSUME \/ \E p \in Profiles : Register(p)
             \/ \E h \in Handlers, p \in Profiles : Receive(h, p)
             \/ Tick
             \/ UNCHANGED vars
      PROVE  Shape
  BY <1>9 DEF Register, Receive, Tick, vars, Shape
<1> QED
  BY <1>1, <1>2, <1>3, <1>4, <1>5, <1>6, <1>7, <1>8, <1>9 DEF Next, Step

\* A delivered file is only ever removed by the prune that forgets its offer,
\* after InboundRetention.
THEOREM FilesOutliveRetentionHolds == Spec => FilesOutliveRetention
<1> DEFINE Kept == \A o \in OfferIDs : disk[o] = "file" /\ disk'[o] # "file" =>
                      /\ o \in DOMAIN offers \ DOMAIN offers'
                      /\ now >= offers[o].deliveredAt + Retention
<1>1. ASSUME Inv, [Next]_vars PROVE Kept
  <2> SUFFICES ASSUME NEW o \in OfferIDs, disk[o] = "file", disk'[o] # "file"
               PROVE  /\ o \in DOMAIN offers \ DOMAIN offers'
                      /\ now >= offers[o].deliveredAt + Retention
    OBVIOUS
  <2>1. disk' # disk
    OBVIOUS
  <2>2. ~Writes
    <3> SUFFICES ASSUME NEW h \in Handlers, NEW left \in {"none", "empty", "temp", "file"},
                        pc[h] \in {"write", "copy"}, disk' = [disk EXCEPT ![job[h]] = left]
                 PROVE  FALSE
      BY DEF Writes
    <3>1. disk[job[h]] \in {"none", "temp"}
      BY <1>1 DEF Inv, UploadsOK, Uploading
    <3> QED
      BY <1>1, <3>1, <2>1 DEF Inv, TypeOK
  <2>3. disk' = Swept /\ DOMAIN offers' \subseteq DOMAIN Pruned \cup {minted + 1}
    <3> HIDE DEF Pruned, Swept
    <3> QED
      BY <1>1, <2>1, <2>2, StepShape DEF Shape, Adds, Moves
  <2>4. /\ o \in DOMAIN offers
        /\ o \notin DOMAIN Pruned
        /\ now >= offers[o].deliveredAt + Retention
    <3> HIDE DEF Pruned, Swept
    <3> QED
      BY <1>1, <2>3, PrunedFacts DEF Inv
  <2>5. o # minted + 1
    BY <1>1, <2>4, BoundsAssumption DEF Inv, TypeOK, StoreOK, OfferIDs
  <2> QED
    BY <2>3, <2>4, <2>5
<1>2. Inv /\ [Next]_vars => [Kept]_vars
  BY <1>1
<1>3. Spec => [][Kept]_vars
  BY <1>2, InvAlways, PTL DEF Spec
<1> QED
  BY <1>3 DEF FilesOutliveRetention

\* An offer only moves along the protocol, and its upload starts in time.
THEOREM OffersFollowProtocolHolds == Spec => OffersFollowProtocol
<1> DEFINE Legal(o) == /\ offers'[o].state \in Follows(offers[o].state)
                       /\ offers[o].state = "accepted" /\ offers'[o].state = "receiving"
                             => now < offers[o].expires
           AllLegal == \A o \in DOMAIN offers \cap DOMAIN offers' : Legal(o)
<1>1. ASSUME Inv, [Next]_vars PROVE AllLegal
  <2> SUFFICES ASSUME NEW o \in DOMAIN offers, o \in DOMAIN offers'
               PROVE  Legal(o)
    OBVIOUS
  <2>1. offers[o].state \in States /\ o \in Nat /\ minted \in Nat /\ o <= minted
    BY <1>1, BoundsAssumption DEF Inv, TypeOK, StoreOK, Offer, OfferIDs
  <2> HIDE DEF Pruned, Swept
  <2>2. CASE offers'[o].state = offers[o].state
    BY <2>1, <2>2 DEF Follows, States
  <2>3. ASSUME o \in DOMAIN Pruned, offers'[o] = Pruned[o]
        PROVE  Legal(o)
    BY <1>1, <2>1, <2>3, PrunedFacts DEF Inv, Follows, States
  <2>4. ASSUME NEW i \in DOMAIN Pruned, NEW s \in {"accepted", "rejected", "receiving"},
               offers' = [Pruned EXCEPT ![i].state = s],
               Pruned[i].state = IF s = "receiving" THEN "accepted" ELSE "pending"
        PROVE  Legal(o)
    <3>1. CASE o = i
      <4>1. offers'[o].state = s /\ offers[o].state = Pruned[o].state
        BY <1>1, <2>4, <3>1, PrunedFacts DEF Inv, StoreType, Offer
      <4> QED
        BY <1>1, <2>4, <3>1, <4>1, PrunedFacts DEF Inv, Follows
    <3>2. CASE o # i
      BY <2>3, <2>4, <3>2
    <3> QED
      BY <3>1, <3>2
  <2>5. ASSUME NEW h \in Handlers, NEW s \in {"delivered", "failed"}, NEW at \in 0..MaxTime,
               pc[h] = "commit",
               offers' = [offers EXCEPT ![job[h]].state = s, ![job[h]].deliveredAt = at]
        PROVE  Legal(o)
    <3>1. CASE o = job[h]
      <4>1. offers[o].state = "receiving" /\ offers'[o].state = s
        BY <1>1, <2>5, <3>1 DEF Inv, UploadsOK, Uploading, TypeOK, Offer
      <4> QED
        BY <4>1 DEF Follows
    <3>2. CASE o # job[h]
      BY <2>2, <2>5, <3>2
    <3> QED
      BY <3>1, <3>2
  <2> HIDE DEF Legal
  <2>6. CASE offers' = Pruned \/ Adds
    BY <2>1, <2>3, <2>6 DEF Adds
  <2>7. CASE Moves
    BY <2>4, <2>7 DEF Moves
  <2>8. CASE Settles
    BY <2>5, <2>8 DEF Settles
  <2> QED
    BY <1>1, <2>2, <2>6, <2>7, <2>8, StepShape DEF Shape
<1>2. Inv /\ [Next]_vars => [AllLegal]_vars
  BY <1>1
<1>3. Spec => [][AllLegal]_vars
  BY <1>2, InvAlways, PTL DEF Spec
<1> QED
  BY <1>3 DEF OffersFollowProtocol
-----------------------------------------------------------------------------
(***************************************************************************)
(* The cap.  Only a creation adds an open offer, and it counts those of    *)
(* its folder in the store that it is about to change, under the lock.     *)
(***************************************************************************)
LEMMA OpenAreFinite ==
    ASSUME Inv, NEW f
    PROVE  IsFiniteSet(OpenOffers(offers, f)) /\ IsFiniteSet(OpenOffers(Pruned, f))
<1> HIDE DEF Pruned
<1>1. IsFiniteSet(OfferIDs)
  BY BoundsAssumption, FS_Interval DEF OfferIDs
<1>2. DOMAIN offers \subseteq OfferIDs /\ DOMAIN Pruned \subseteq OfferIDs
  BY PrunedFacts DEF Inv, TypeOK
<1>3. OpenOffers(offers, f) \subseteq OfferIDs /\ OpenOffers(Pruned, f) \subseteq OfferIDs
  BY <1>2 DEF OpenOffers
<1> QED
  BY <1>1, <1>3, FS_Subset

\* A prune opens nothing.
LEMMA PruneOpensNothing ==
    ASSUME Inv, NEW f
    PROVE  OpenOffers(Pruned, f) \subseteq OpenOffers(offers, f)
<1> HIDE DEF Pruned
<1> QED
  BY PrunedFacts DEF Inv, OpenOffers, Unsettled

\* A step after which no folder has another open offer keeps the cap.
LEMMA FewerStayCapped ==
    ASSUME Inv, OpenOffersAreCapped,
           \A f \in Folders : OpenOffers(offers', f) \subseteq OpenOffers(offers, f)
    PROVE  OpenOffersAreCapped'
<1> SUFFICES ASSUME NEW f \in Folders
             PROVE  Cardinality(OpenOffers(offers', f)) <= MaxOpen
  BY DEF OpenOffersAreCapped
<1>1. /\ IsFiniteSet(OpenOffers(offers, f))
      /\ OpenOffers(offers', f) \in SUBSET OpenOffers(offers, f)
  BY OpenAreFinite
<1>2. Cardinality(OpenOffers(offers', f)) <= Cardinality(OpenOffers(offers, f))
      /\ IsFiniteSet(OpenOffers(offers', f))
  BY <1>1, FS_Subset
<1>3. /\ Cardinality(OpenOffers(offers', f)) \in Nat
      /\ Cardinality(OpenOffers(offers, f)) \in Nat
  BY <1>1, <1>2, FS_CardinalityType
<1>4. Cardinality(OpenOffers(offers, f)) <= MaxOpen
  BY DEF OpenOffersAreCapped
<1> QED
  BY <1>2, <1>3, <1>4, BoundsAssumption

LEMMA CreateStaysCapped ==
    ASSUME Inv, OpenOffersAreCapped, NEW h \in Handlers, CreateInboundOffer(h),
           MayCreate(caller[h])
    PROVE  OpenOffersAreCapped'
<1> DEFINE folder == Folder[caller[h]]
<1> SUFFICES ASSUME NEW f \in Folders
             PROVE  Cardinality(OpenOffers(offers', f)) <= MaxOpen
  BY DEF OpenOffersAreCapped
<1>1. /\ DOMAIN offers' = DOMAIN Pruned \cup {minted'}
      /\ \A o \in DOMAIN Pruned : o # minted' => offers'[o] = Pruned[o]
      /\ offers'[minted'].profile = folder
  BY DEF CreateInboundOffer
<1>2. Cardinality(OpenOffers(Pruned, folder)) < MaxOpen
  BY DEF MayCreate
<1> HIDE DEF Pruned, folder
<1>3. /\ IsFiniteSet(OpenOffers(Pruned, f)) /\ IsFiniteSet(OpenOffers(offers, f))
      /\ Cardinality(OpenOffers(Pruned, f)) \in Nat
      /\ Cardinality(OpenOffers(offers, f)) \in Nat
  BY OpenAreFinite, FS_CardinalityType
<1>4. CASE f = folder
  <2> DEFINE more == OpenOffers(Pruned, f) \cup {minted'}
  <2>1. OpenOffers(offers', f) \in SUBSET more
    BY <1>1 DEF OpenOffers
  <2>2. IsFiniteSet(more) /\ Cardinality(more) <= Cardinality(OpenOffers(Pruned, f)) + 1
    <3>1. IsFiniteSet(more)
          /\ Cardinality(more) = IF minted' \in OpenOffers(Pruned, f)
                                 THEN Cardinality(OpenOffers(Pruned, f))
                                 ELSE Cardinality(OpenOffers(Pruned, f)) + 1
      BY <1>3, FS_AddElement, Zenon
    <3> HIDE DEF more
    <3> QED
      BY <1>3, <3>1
  <2> HIDE DEF more
  <2>3. /\ Cardinality(OpenOffers(offers', f)) <= Cardinality(more)
        /\ Cardinality(OpenOffers(offers', f)) \in Nat /\ Cardinality(more) \in Nat
    BY <2>1, <2>2, FS_Subset, FS_CardinalityType
  <2> QED
    BY <1>2, <1>3, <1>4, <2>2, <2>3, BoundsAssumption
<1>5. CASE f # folder
  <2>1. OpenOffers(offers', f) \in SUBSET OpenOffers(offers, f)
    BY <1>1, <1>5, PruneOpensNothing DEF OpenOffers
  <2>2. /\ Cardinality(OpenOffers(offers', f)) <= Cardinality(OpenOffers(offers, f))
        /\ Cardinality(OpenOffers(offers', f)) \in Nat
    BY <1>3, <2>1, FS_Subset, FS_CardinalityType
  <2>3. Cardinality(OpenOffers(offers, f)) <= MaxOpen
    BY DEF OpenOffersAreCapped
  <2> QED
    BY <1>3, <2>2, <2>3, BoundsAssumption
<1> QED
  BY <1>4, <1>5

LEMMA OthersStayCapped ==
    ASSUME Inv, OpenOffersAreCapped, [Next]_vars, UNCHANGED minted
    PROVE  OpenOffersAreCapped'
<1>1. ASSUME NEW f \in Folders
      PROVE  OpenOffers(offers', f) \subseteq OpenOffers(offers, f)
  <2> HIDE DEF Pruned, Swept
  <2>1. OpenOffers(Pruned, f) \subseteq OpenOffers(offers, f)
    BY PruneOpensNothing
  <2>2. CASE UNCHANGED offers \/ DOMAIN offers' = {}
    BY <2>2 DEF OpenOffers
  <2>3. CASE offers' = Pruned
    BY <2>1, <2>3
  <2>4. ~Adds
    <3>1. /\ minted \in Nat
          /\ \A o \in DOMAIN offers' : o <= minted
      BY InvNext, BoundsAssumption DEF Inv, TypeOK, StoreOK
    <3> QED
      BY <3>1 DEF Adds
  <2>5. CASE Moves
    <3> PICK i \in DOMAIN Pruned, s \in {"accepted", "rejected", "receiving"} :
            /\ offers' = [Pruned EXCEPT ![i].state = s]
            /\ Pruned[i].state \in {"accepted", "pending"}
      BY <2>5 DEF Moves
    <3>1. StoreType(Pruned, Swept)
      BY PrunedFacts DEF Inv
    <3>2. /\ DOMAIN offers' = DOMAIN Pruned
          /\ \A o \in DOMAIN Pruned : /\ offers'[o].profile = Pruned[o].profile
                                      /\ o # i => offers'[o].state = Pruned[o].state
      BY <3>1 DEF StoreType, Offer
    <3> QED
      BY <2>1, <3>2 DEF OpenOffers, Unsettled
  <2>6. CASE Settles
    <3> PICK h \in Handlers, s \in {"delivered", "failed"}, at \in 0..MaxTime :
            /\ pc[h] = "commit"
            /\ offers' = [offers EXCEPT ![job[h]].state = s, ![job[h]].deliveredAt = at]
      BY <2>6 DEF Settles
    <3>1. job[h] \in DOMAIN offers /\ offers[job[h]].state = "receiving"
      BY DEF Inv, UploadsOK, Uploading
    <3>2. /\ DOMAIN offers' = DOMAIN offers
          /\ \A o \in DOMAIN offers : /\ offers'[o].profile = offers[o].profile
                                      /\ o # job[h] => offers'[o].state = offers[o].state
      BY <3>1 DEF Inv, TypeOK, Offer
    <3> QED
      BY <3>1, <3>2 DEF OpenOffers, Unsettled
  <2> QED
    BY <2>2, <2>3, <2>4, <2>5, <2>6, StepShape DEF Shape
<1> QED
  BY <1>1, FewerStayCapped

LEMMA CappedNext ==
    ASSUME Inv, OpenOffersAreCapped, [Next]_vars
    PROVE  OpenOffersAreCapped'
<1>1. ASSUME NEW h \in Handlers, CreateInboundOffer(h), MayCreate(caller[h])
      PROVE  OpenOffersAreCapped'
  BY <1>1, CreateStaysCapped
<1>2. ASSUME NEW h \in Handlers, CreateInboundOffer(h), ~MayCreate(caller[h])
      PROVE  UNCHANGED minted
  BY <1>2 DEF CreateInboundOffer
<1>3. ASSUME NEW h \in Handlers,
             ClaimOffer(h) \/ OpenTemporary(h) \/ CopyBody(h) \/ CommitDelivery(h)
      PROVE  UNCHANGED minted
  BY <1>3 DEF ClaimOffer, OpenTemporary, CopyBody, CommitDelivery
<1>4. ASSUME \/ \E p \in Profiles : Register(p)
             \/ \E h \in Handlers, p \in Profiles : Receive(h, p)
             \/ \E o \in OfferIDs, verdict \in {"accepted", "rejected"} : Decide(o, verdict)
             \/ Observe \/ Tick \/ Crash \/ UNCHANGED vars
      PROVE  UNCHANGED minted
  BY <1>4 DEF Register, Receive, Decide, Observe, Tick, Crash, vars
<1> QED
  BY <1>1, <1>2, <1>3, <1>4, OthersStayCapped DEF Next, Step

\* Creations that race, decisions, uploads and prunes in any order: a folder never has
\* more than MaxOpenInboundOffers offers open.
THEOREM OpenOffersAreCappedHolds == Spec => []OpenOffersAreCapped
<1>1. Init => OpenOffersAreCapped
  <2> SUFFICES ASSUME Init, NEW f \in Folders
               PROVE  Cardinality(OpenOffers(offers, f)) <= MaxOpen
    BY DEF OpenOffersAreCapped
  <2>1. OpenOffers(offers, f) = {}
    BY DEF Init, NoOffers, OpenOffers
  <2> QED
    BY <2>1, FS_EmptySet, BoundsAssumption
<1>2. Inv /\ OpenOffersAreCapped /\ [Next]_vars => OpenOffersAreCapped'
  BY CappedNext
<1> QED
  BY <1>1, <1>2, InvAlways, PTL DEF Spec
=============================================================================
