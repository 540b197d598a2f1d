---------------------------- MODULE ServerProofs ----------------------------
(***************************************************************************)
(* Theorems about the two file transfers of an MCP process on the server:  *)
(* HostDelivery, from the server to the host, for any number of offers,    *)
(* uploads, edits and lost calls; and Materialize, from the host to the    *)
(* server.                                                                 *)
(***************************************************************************)
EXTENDS Materialize, HostDelivery, FiniteSetTheorems, SequenceTheorems, TLAPS

(***************************************************************************)
(* HostDelivery.  What an upload may write was settled when the bridge took*)
(* it: an offer that is receiving was accepted, and has one upload.        *)
(***************************************************************************)
Carrying == {"compare", "open", "put", "ok"}

OffersInOrder ==
    \A o \in Offers :
        /\ call[o] = "idle" => Is(o, "none")
        /\ call[o] = "waiting" => ~Is(o, "none")
        /\ offer[o].state \in {"accepted", "receiving", "delivered", "failed"} => o \in approved

UploadsInOrder ==
    \A u \in Uploads :
        /\ upload[u].pc \in Carrying => upload[u].offer \in Offers
        /\ upload[u].pc = "put" => Is(upload[u].offer, "receiving")

OneUploads ==
    \A u, v \in Uploads :
        upload[u].pc = "put" /\ upload[v].pc = "put" /\ upload[u].offer = upload[v].offer => u = v

SavedOnce ==
    \A o \in Offers : \A s, t \in saved[o] :
        s = t /\ s[2] = offer[o].content /\ Is(o, "delivered")

DeliveryInv ==
    /\ DeliveryTypeOK
    /\ OffersInOrder /\ UploadsInOrder /\ OneUploads
    /\ SavedOnce /\ OkMeansDelivered

LEMMA DeliveryInvInit == DeliveryInit => DeliveryInv
<1> SUFFICES ASSUME DeliveryInit PROVE DeliveryInv
  OBVIOUS
<1>1. DeliveryTypeOK
  BY BoundsAssumption DEF DeliveryInit, DeliveryTypeOK, States, NoUpload
<1>2. OffersInOrder /\ UploadsInOrder /\ OneUploads
  BY DEF DeliveryInit, OffersInOrder, UploadsInOrder, OneUploads, NoUpload, Is, Carrying
<1>3. SavedOnce /\ OkMeansDelivered
  BY DEF DeliveryInit, SavedOnce, OkMeansDelivered, NoUpload
<1> QED
  BY <1>1, <1>2, <1>3 DEF DeliveryInv
\* A state of one offer changes, not to or from what counts for what was saved.
LEMMA OfferMoves ==
    ASSUME DeliveryInv, NEW o \in Offers, NEW state \in States,
           offer[o].state \notin {"none", "receiving", "delivered"},
           state \notin {"none", "receiving", "delivered", "failed"},
           offer' = [offer EXCEPT ![o].state = state],
           approved' \subseteq Offers, approved \subseteq approved',
           state = "accepted" => o \in approved',
           UNCHANGED <<file, call, upload, saved, edits, outages>>
    PROVE  DeliveryInv'
<1>1. DeliveryTypeOK'
  BY DEF DeliveryInv, DeliveryTypeOK
<1>2. /\ \A q \in Offers : offer'[q].content = offer[q].content
      /\ \A q \in Offers : q # o => offer'[q] = offer[q]
      /\ offer'[o].state = state
  BY DEF DeliveryInv, DeliveryTypeOK
<1>3. OffersInOrder'
  BY <1>2 DEF DeliveryInv, OffersInOrder, Is
<1>4. UploadsInOrder' /\ OneUploads'
  BY <1>2 DEF DeliveryInv, UploadsInOrder, OneUploads, Is, Carrying
<1>5. SavedOnce'
  BY <1>2 DEF DeliveryInv, SavedOnce, Is
<1>6. OkMeansDelivered'
  BY <1>2 DEF DeliveryInv, OkMeansDelivered, UploadsInOrder, Carrying, Is
<1> QED
  BY <1>1, <1>3, <1>4, <1>5, <1>6 DEF DeliveryInv

LEMMA OfferKeepsInv ==
    ASSUME DeliveryInv, NEW o \in Offers, OfferFileToHost(o)
    PROVE  DeliveryInv'
<1>1. /\ call[o] = "idle"
      /\ offer' = offer \/ offer' = [offer EXCEPT ![o] = [state |-> "pending", content |-> file]]
      /\ UNCHANGED <<file, upload, saved, approved, edits>>
      /\ outages' = outages \/ (outages < MaxOutages /\ outages' = outages + 1)
  BY DEF OfferFileToHost, History, Answer, Lost
<1>2. PICK answer \in {"waiting", "error"} : call' = [call EXCEPT ![o] = answer]
  BY DEF OfferFileToHost, Answer
<1>3. call'[o] = "waiting" => offer'[o].state = "pending"
  BY DEF OfferFileToHost, Answer, DeliveryInv, DeliveryTypeOK
<1>4. offer[o].state = "none"
  BY <1>1 DEF DeliveryInv, OffersInOrder, Is
<1>5. outages' \in 0..MaxOutages
  BY <1>1, BoundsAssumption DEF DeliveryInv, DeliveryTypeOK
<1>6. offer' \in [Offers -> [state: States, content: Contents]]
  BY <1>1 DEF DeliveryInv, DeliveryTypeOK, States
<1>7. DeliveryTypeOK'
  BY <1>1, <1>2, <1>5, <1>6 DEF DeliveryInv, DeliveryTypeOK
<1>8. /\ \A q \in Offers : q # o => offer'[q] = offer[q] /\ call'[q] = call[q]
      /\ offer'[o].state \in {"none", "pending"}
      /\ call'[o] # "idle"
  BY <1>1, <1>2, <1>4 DEF DeliveryInv, DeliveryTypeOK
<1>9. OffersInOrder'
  BY <1>1, <1>3, <1>8 DEF DeliveryInv, OffersInOrder, Is
<1>10. UploadsInOrder' /\ OneUploads'
  BY <1>1, <1>4, <1>8 DEF DeliveryInv, UploadsInOrder, OneUploads, Is, Carrying
<1>11. SavedOnce'
  BY <1>1, <1>4, <1>8 DEF DeliveryInv, SavedOnce, Is
<1>12. OkMeansDelivered'
  BY <1>1, <1>4, <1>8 DEF DeliveryInv, OkMeansDelivered, UploadsInOrder, Carrying, Is
<1> QED
  BY <1>7, <1>9, <1>10, <1>11, <1>12 DEF DeliveryInv

LEMMA WaitKeepsInv ==
    ASSUME DeliveryInv, NEW o \in Offers, WaitHostFileOffer(o)
    PROVE  DeliveryInv'
<1>1. /\ call[o] = "waiting"
      /\ UNCHANGED <<file, offer, upload, saved, approved, edits>>
      /\ outages' = outages \/ (outages < MaxOutages /\ outages' = outages + 1)
  BY DEF WaitHostFileOffer, History, Lost
<1>2. PICK answer : /\ call' = [call EXCEPT ![o] = answer]
                    /\ answer = "error" \/ (answer = offer[o].state /\ answer # "pending")
  BY DEF WaitHostFileOffer, Answer, Is
<1>3. answer \in {"accepted", "rejected", "expired", "receiving", "delivered", "failed", "error"}
  BY <1>1, <1>2 DEF DeliveryInv, OffersInOrder, DeliveryTypeOK, States, Is
<1>4. outages' \in 0..MaxOutages
  BY <1>1, BoundsAssumption DEF DeliveryInv, DeliveryTypeOK
<1>5. DeliveryTypeOK'
  BY <1>1, <1>2, <1>3, <1>4 DEF DeliveryInv, DeliveryTypeOK
<1>6. \A q \in Offers : call'[q] \in {"idle", "waiting"} => call'[q] = call[q]
  BY <1>2, <1>3 DEF DeliveryInv, DeliveryTypeOK
<1>7. OffersInOrder'
  BY <1>1, <1>6 DEF DeliveryInv, OffersInOrder, Is
<1>8. UploadsInOrder' /\ OneUploads' /\ SavedOnce' /\ OkMeansDelivered'
  BY <1>1 DEF DeliveryInv, UploadsInOrder, OneUploads, SavedOnce, OkMeansDelivered, Is, Carrying
<1> QED
  BY <1>5, <1>7, <1>8 DEF DeliveryInv

\* An upload that is not yet, or no longer, taken by the bridge.
LEMMA UploadMoves ==
    ASSUME DeliveryInv, NEW u \in Uploads, upload[u].pc \notin {"put", "ok"},
           upload' \in [Uploads -> [pc: {"idle", "compare", "open", "put", "ok", "error"},
                                    offer: Offers \cup {"none"}, hashed: Contents \cup {Broken}]],
           \A v \in Uploads : v # u => upload'[v] = upload[v],
           upload'[u].pc \in {"compare", "open", "error"},
           upload'[u].pc # "error" => upload'[u].offer \in Offers,
           outages' \in 0..MaxOutages,
           UNCHANGED <<file, offer, call, saved, approved, edits>>
    PROVE  DeliveryInv'
<1>1. DeliveryTypeOK'
  BY DEF DeliveryInv, DeliveryTypeOK
<1>2. OffersInOrder' /\ SavedOnce'
  BY DEF DeliveryInv, OffersInOrder, SavedOnce, Is
<1>3. UploadsInOrder' /\ OneUploads'
  BY DEF DeliveryInv, UploadsInOrder, OneUploads, Is, Carrying
<1>4. OkMeansDelivered'
  BY DEF DeliveryInv, OkMeansDelivered, Is
<1> QED
  BY <1>1, <1>2, <1>3, <1>4 DEF DeliveryInv

LEMMA HashKeepsInv ==
    ASSUME DeliveryInv, NEW u \in Uploads, NEW o \in Offers, HashFile(u, o)
    PROVE  DeliveryInv'
<1>1. /\ upload[u].pc \in {"idle", "error"}
      /\ upload' = [upload EXCEPT ![u] = [pc |-> "compare", offer |-> o, hashed |-> file]]
      /\ UNCHANGED <<file, offer, call, saved, approved, edits, outages>>
  BY DEF HashFile, History
<1> QED
  BY <1>1, UploadMoves DEF DeliveryInv, DeliveryTypeOK

LEMMA CompareKeepsInv ==
    ASSUME DeliveryInv, NEW u \in Uploads, Compare(u)
    PROVE  DeliveryInv'
<1>1. /\ upload[u].pc = "compare"
      /\ UNCHANGED <<file, offer, call, saved, approved, edits>>
      /\ outages' = outages \/ (outages < MaxOutages /\ outages' = outages + 1)
  BY DEF Compare, History, Lost
<1>2. PICK to \in {"open", "error"} : upload' = [upload EXCEPT ![u].pc = to]
  BY DEF Compare, Moves
<1>3. outages' \in 0..MaxOutages
  BY <1>1, BoundsAssumption DEF DeliveryInv, DeliveryTypeOK
<1>4. upload[u].offer \in Offers
  BY <1>1 DEF DeliveryInv, UploadsInOrder, Carrying
<1> QED
  BY <1>1, <1>2, <1>3, <1>4, UploadMoves DEF DeliveryInv, DeliveryTypeOK

LEMMA OpenKeepsInv ==
    ASSUME DeliveryInv, NEW u \in Uploads, Open(u)
    PROVE  DeliveryInv'
<1> DEFINE o == upload[u].offer
<1>1. /\ upload[u].pc = "open"
      /\ UNCHANGED <<file, call, saved, approved, edits>>
      /\ o \in Offers
  BY DEF Open, DeliveryInv, UploadsInOrder, Carrying
<1>2. outages' = outages \/ (outages < MaxOutages /\ outages' = outages + 1)
  BY DEF Open, Lost
<1>3. outages' \in 0..MaxOutages
  BY <1>2, BoundsAssumption DEF DeliveryInv, DeliveryTypeOK
<1>4. CASE Moves(u, "error") /\ UNCHANGED offer
  <2>1. upload' = [upload EXCEPT ![u].pc = "error"] /\ UNCHANGED offer
    BY <1>4 DEF Moves
  <2> QED
    BY <1>1, <1>3, <2>1, UploadMoves DEF DeliveryInv, DeliveryTypeOK
<1>5. CASE /\ Is(o, "accepted") /\ Becomes(o, "receiving")
           /\ upload' = [upload EXCEPT ![u].pc = "put", ![u].hashed = file]
  <2>1. /\ offer[o].state = "accepted"
        /\ offer' = [offer EXCEPT ![o].state = "receiving"]
    BY <1>5 DEF Is, Becomes
  <2>2. /\ \A q \in Offers : offer'[q].content = offer[q].content
        /\ \A q \in Offers : q # o => offer'[q] = offer[q]
        /\ offer'[o].state = "receiving"
        /\ \A v \in Uploads : v # u => upload'[v] = upload[v]
        /\ upload'[u].pc = "put" /\ upload'[u].offer = o
    BY <1>1, <1>5, <2>1 DEF DeliveryInv, DeliveryTypeOK
  <2>3. offer' \in [Offers -> [state: States, content: Contents]]
    BY <2>1 DEF DeliveryInv, DeliveryTypeOK, States
  <2>4. upload' \in [Uploads -> [pc: {"idle", "compare", "open", "put", "ok", "error"},
                                 offer: Offers \cup {"none"}, hashed: Contents \cup {Broken}]]
    BY <1>5 DEF DeliveryInv, DeliveryTypeOK
  <2>5. DeliveryTypeOK'
    BY <1>1, <1>3, <2>3, <2>4 DEF DeliveryInv, DeliveryTypeOK
  <2>6. OffersInOrder'
    BY <1>1, <2>1, <2>2 DEF DeliveryInv, OffersInOrder, Is
  <2>7. UploadsInOrder'
    BY <1>1, <2>1, <2>2 DEF DeliveryInv, UploadsInOrder, Is, Carrying
  <2>8. OneUploads'
    BY <1>1, <2>1, <2>2 DEF DeliveryInv, UploadsInOrder, OneUploads, Is
  <2>9. SavedOnce'
    BY <1>1, <2>1, <2>2 DEF DeliveryInv, SavedOnce, Is
  <2>10. OkMeansDelivered'
    BY <1>1, <2>1, <2>2 DEF DeliveryInv, OkMeansDelivered, UploadsInOrder, Carrying, Is
  <2> QED
    BY <2>5, <2>6, <2>7, <2>8, <2>9, <2>10 DEF DeliveryInv
<1> QED
  BY <1>4, <1>5 DEF Open

LEMMA PutKeepsInv ==
    ASSUME DeliveryInv, NEW u \in Uploads, Put(u)
    PROVE  DeliveryInv'
<1> DEFINE o == upload[u].offer
<1>1. /\ upload[u].pc = "put"
      /\ UNCHANGED <<file, call, approved, edits>>
      /\ o \in Offers /\ offer[o].state = "receiving"
  BY DEF Put, DeliveryInv, UploadsInOrder, Carrying, Is
<1>2. outages' = outages \/ (outages < MaxOutages /\ outages' = outages + 1)
  BY DEF Put, Lost
<1>3. outages' \in 0..MaxOutages
  BY <1>2, BoundsAssumption DEF DeliveryInv, DeliveryTypeOK
<1>4. /\ o \in approved
      /\ saved[o] = {}
      /\ \A v \in Uploads : v # u /\ upload[v].offer = o => upload[v].pc \notin {"put", "ok"}
  BY <1>1 DEF DeliveryInv, OffersInOrder, OneUploads, SavedOnce, OkMeansDelivered, Is
<1>5. CASE /\ Becomes(o, "failed") /\ Moves(u, "error") /\ UNCHANGED saved
  <2>1. /\ offer' = [offer EXCEPT ![o].state = "failed"]
        /\ upload' = [upload EXCEPT ![u].pc = "error"]
        /\ saved' = saved
    BY <1>5 DEF Becomes, Moves
  <2>2. /\ \A q \in Offers : offer'[q].content = offer[q].content
        /\ \A q \in Offers : q # o => offer'[q] = offer[q]
        /\ offer'[o].state = "failed"
        /\ \A v \in Uploads : v # u => upload'[v] = upload[v]
        /\ upload'[u].pc = "error" /\ upload'[u].offer = o
    BY <1>1, <2>1 DEF DeliveryInv, DeliveryTypeOK
  <2>3. offer' \in [Offers -> [state: States, content: Contents]]
    BY <2>1 DEF DeliveryInv, DeliveryTypeOK, States
  <2>4. upload' \in [Uploads -> [pc: {"idle", "compare", "open", "put", "ok", "error"},
                                 offer: Offers \cup {"none"}, hashed: Contents \cup {Broken}]]
    BY <2>1 DEF DeliveryInv, DeliveryTypeOK
  <2>5. DeliveryTypeOK'
    BY <1>1, <1>3, <2>1, <2>3, <2>4 DEF DeliveryInv, DeliveryTypeOK
  <2>6. OffersInOrder'
    BY <1>1, <1>4, <2>2 DEF DeliveryInv, OffersInOrder, Is
  <2>7. UploadsInOrder'
    BY <1>1, <1>4, <2>2 DEF DeliveryInv, UploadsInOrder, Is, Carrying
  <2>8. OneUploads'
    BY <2>2 DEF DeliveryInv, OneUploads
  <2>9. SavedOnce'
    BY <1>4, <2>1, <2>2 DEF DeliveryInv, SavedOnce, Is
  <2>10. OkMeansDelivered'
    BY <1>4, <2>1, <2>2 DEF DeliveryInv, OkMeansDelivered, UploadsInOrder, Carrying, Is
  <2> QED
    BY <2>5, <2>6, <2>7, <2>8, <2>9, <2>10 DEF DeliveryInv
<1>6. ASSUME NEW c \in Contents, Verified(o, c), Becomes(o, "delivered"),
             saved' = [saved EXCEPT ![o] = @ \cup {<<u, c>>}],
             Moves(u, "ok") \/ Moves(u, "error")
      PROVE  DeliveryInv'
  <2>1. PICK to \in {"ok", "error"} : upload' = [upload EXCEPT ![u].pc = to]
    BY <1>6 DEF Moves
  <2>2. /\ offer' = [offer EXCEPT ![o].state = "delivered"]
        /\ c = offer[o].content
    BY <1>6 DEF Becomes, Verified
  <2>3. /\ \A q \in Offers : offer'[q].content = offer[q].content
        /\ \A q \in Offers : q # o => offer'[q] = offer[q]
        /\ offer'[o].state = "delivered"
        /\ \A v \in Uploads : v # u => upload'[v] = upload[v]
        /\ upload'[u].pc = to /\ upload'[u].offer = o
    BY <1>1, <2>1, <2>2 DEF DeliveryInv, DeliveryTypeOK
  <2>4. /\ saved'[o] = {<<u, c>>}
        /\ \A q \in Offers : q # o => saved'[q] = saved[q]
        /\ saved' \in [Offers -> SUBSET (Uploads \X Contents)]
    BY <1>1, <1>4, <1>6 DEF DeliveryInv, DeliveryTypeOK
  <2>5. offer' \in [Offers -> [state: States, content: Contents]]
    <3>1. offer' = [offer EXCEPT ![o].state = "delivered"] /\ "delivered" \in States
      BY <2>2 DEF States
    <3>2. offer \in [Offers -> [state: States, content: Contents]]
      BY DEF DeliveryInv, DeliveryTypeOK
    <3> QED
      BY <1>1, <3>1, <3>2
  <2>6. upload' \in [Uploads -> [pc: {"idle", "compare", "open", "put", "ok", "error"},
                                 offer: Offers \cup {"none"}, hashed: Contents \cup {Broken}]]
    BY <2>1 DEF DeliveryInv, DeliveryTypeOK
  <2>7. DeliveryTypeOK'
    BY <1>1, <1>3, <2>4, <2>5, <2>6 DEF DeliveryInv, DeliveryTypeOK
  <2>8. OffersInOrder'
    BY <1>1, <1>4, <2>3 DEF DeliveryInv, OffersInOrder, Is
  <2>9. UploadsInOrder'
    BY <1>1, <1>4, <2>3 DEF DeliveryInv, UploadsInOrder, Is, Carrying
  <2>10. OneUploads'
    BY <2>3 DEF DeliveryInv, OneUploads
  <2>11. SavedOnce'
    BY <2>2, <2>3, <2>4 DEF DeliveryInv, SavedOnce, Is
  <2>12. \A v \in Uploads : v # u /\ upload[v].pc = "ok" => upload[v].offer \in Offers /\ upload[v].offer # o
    BY <1>4 DEF DeliveryInv, UploadsInOrder, Carrying
  <2>13. \E s \in saved'[o] : s[1] = u
    BY <2>4
  <2>14. OkMeansDelivered'
    BY <2>3, <2>4, <2>12, <2>13 DEF DeliveryInv, OkMeansDelivered, Is
  <2> QED
    BY <2>7, <2>8, <2>9, <2>10, <2>11, <2>14 DEF DeliveryInv
<1> QED
  BY <1>5, <1>6 DEF Put

LEMMA DeliveryInvNext == DeliveryInv /\ [DeliveryNext]_deliveryVars => DeliveryInv'
<1> SUFFICES ASSUME DeliveryInv, [DeliveryNext]_deliveryVars PROVE DeliveryInv'
  OBVIOUS
<1>1. CASE Edit
  <2>1. /\ edits' \in 0..MaxEdits /\ file' \in Contents
        /\ UNCHANGED <<offer, call, upload, saved, approved, outages>>
    BY <1>1, BoundsAssumption DEF Edit, History, DeliveryInv, DeliveryTypeOK
  <2>2. DeliveryTypeOK'
    BY <2>1 DEF DeliveryInv, DeliveryTypeOK
  <2> QED
    BY <2>1, <2>2 DEF DeliveryInv, OffersInOrder, UploadsInOrder, OneUploads, SavedOnce,
                      OkMeansDelivered, Is
<1>2. ASSUME NEW o \in Offers, Decide(o) PROVE DeliveryInv'
  <2>1. /\ offer[o].state = "pending"
        /\ UNCHANGED <<file, call, upload, saved, edits, outages>>
    BY <1>2 DEF Decide, Is
  <2>2. \/ offer' = [offer EXCEPT ![o].state = "accepted"] /\ approved' = approved \cup {o}
        \/ offer' = [offer EXCEPT ![o].state = "rejected"] /\ approved' = approved
    BY <1>2 DEF Decide, Becomes
  <2>3. approved \subseteq Offers
    BY DEF DeliveryInv, DeliveryTypeOK
  <2>4. "accepted" \in States /\ "rejected" \in States
    BY DEF States
  <2> QED
    BY <2>1, <2>2, <2>3, <2>4, OfferMoves
<1>3. ASSUME NEW o \in Offers, Expire(o) PROVE DeliveryInv'
  <2>1. /\ offer[o].state \in {"pending", "accepted"}
        /\ offer' = [offer EXCEPT ![o].state = "expired"]
        /\ UNCHANGED <<file, call, upload, saved, approved, edits, outages>>
    BY <1>3 DEF Expire, Becomes, History
  <2>2. approved \subseteq Offers /\ "expired" \in States
    BY DEF DeliveryInv, DeliveryTypeOK, States
  <2> QED
    BY <2>1, <2>2, OfferMoves
<1>4. CASE UNCHANGED deliveryVars
  BY <1>4 DEF deliveryVars, DeliveryInv, DeliveryTypeOK, OffersInOrder, UploadsInOrder,
              OneUploads, SavedOnce, OkMeansDelivered, Is
<1> QED
  BY <1>1, <1>2, <1>3, <1>4, OfferKeepsInv, WaitKeepsInv, HashKeepsInv, CompareKeepsInv,
     OpenKeepsInv, PutKeepsInv DEF DeliveryNext

LEMMA DeliveryAlways == DeliverySpec => []DeliveryInv
BY DeliveryInvInit, DeliveryInvNext, PTL DEF DeliverySpec

\* The variables of HostDelivery keep their types.
THEOREM DeliveryTypeCorrect == DeliverySpec => []DeliveryTypeOK
<1>1. DeliveryInv => DeliveryTypeOK
  BY DEF DeliveryInv
<1> QED
  BY <1>1, DeliveryAlways, PTL

\* What the bridge saves for an offer is the content that was offered and
\* accepted, and it saves it once, however the file changes between the offer, the
\* hash and the upload, and whatever calls get lost and are made again.
THEOREM SavedIsOfferedHolds == DeliverySpec => []SavedIsOffered
<1>1. DeliveryInv => SavedIsOffered
  <2> SUFFICES ASSUME DeliveryInv, NEW o \in Offers
               PROVE  /\ \A s \in saved[o] : s[2] = offer[o].content /\ o \in approved
                      /\ Cardinality(saved[o]) <= 1
    BY DEF SavedIsOffered
  <2>1. \A s, t \in saved[o] : s = t /\ s[2] = offer[o].content /\ offer[o].state = "delivered"
    BY DEF DeliveryInv, SavedOnce, Is
  <2>2. \A s \in saved[o] : s[2] = offer[o].content /\ o \in approved
    BY <2>1 DEF DeliveryInv, OffersInOrder
  <2>3. saved[o] = {} \/ \E s : saved[o] = {s}
    BY <2>1
  <2>4. Cardinality(saved[o]) = 0 \/ Cardinality(saved[o]) = 1
    BY <2>3, FS_EmptySet, FS_Singleton
  <2> QED
    BY <2>2, <2>4
<1> QED
  BY <1>1, DeliveryAlways, PTL

\* A call of deliver_file_to_host that succeeds has delivered the file.
THEOREM OkMeansDeliveredHolds == DeliverySpec => []OkMeansDelivered
<1>1. DeliveryInv => OkMeansDelivered
  BY DEF DeliveryInv
<1> QED
  BY <1>1, DeliveryAlways, PTL
-----------------------------------------------------------------------------
(***************************************************************************)
(* Materialize.  The directory of a call is there while the call downloads *)
(* into it, holds one whole file for each item the call has, and no item   *)
(* twice: the bridge hands each out once.                                  *)
(***************************************************************************)
Fetching == {"get", "write"}

FilesInOrder(c) ==
    inbox[c].there =>
        /\ \A f \in inbox[c].files :
              /\ f.whole /\ f.item \in consumed
              /\ f.path \in {<<Name[f.item]>>, <<f.item, Name[f.item]>>}
        /\ \A k \in 1..got[c] : \E f \in inbox[c].files : f.item = ids[c][k]
        /\ IsFiniteSet(inbox[c].files) /\ Cardinality(inbox[c].files) = got[c]

CallInOrder(c) ==
    /\ pc[c] \in {"idle", "list", "clean"} => ~inbox[c].there /\ got[c] = 0
    /\ pc[c] \in Fetching => inbox[c].there /\ ids[c] # <<>>
    /\ pc[c] = "write" => /\ got[c] < Len(ids[c])
                          /\ Next1(c) \in consumed
                          /\ \A f \in inbox[c].files : f.item # Next1(c)
    /\ pc[c] = "done" /\ ids[c] = <<>> => ~inbox[c].there
    /\ pc[c] = "done" /\ ids[c] # <<>> => got[c] = Len(ids[c])
    /\ pc[c] = "failed" => ~inbox[c].there
    /\ pc[c] = "unsecured" => inbox[c].files = {}

TimesInOrder(c) ==
    /\ since[c] <= now
    /\ pc[c] \in Fetching => now <= since[c] + Transfer
    /\ pc[c] \in Fetching \cup {"done"} /\ inbox[c].there => inbox[c].mtime >= since[c]
    /\ pc[c] = "done" /\ ids[c] # <<>> /\ ~inbox[c].there => now > since[c] + Retention

InOrder(c) == FilesInOrder(c) /\ CallInOrder(c) /\ TimesInOrder(c)

InboxInv == TypeOK /\ got \in [Calls -> Nat] /\ \A c \in Calls : InOrder(c)

LEMMA RequestsTyped ==
    ASSUME InboxInv, NEW c \in Calls
    PROVE  /\ ids[c] \in Seq(Items)
           /\ Len(ids[c]) \in Nat
           /\ got[c] \in 0..Len(ids[c])
           /\ \A k \in 1..Len(ids[c]) : ids[c][k] \in Items
<1>1. ids[c] \in Requests \cup {<<>>}
  BY DEF InboxInv, TypeOK
<1>2. ids[c] \in Seq(Items)
  <2>1. CASE ids[c] \in Requests
    BY <2>1, RequestsAssumption
  <2>2. CASE ids[c] = <<>>
    BY <2>2, EmptySeq
  <2> QED
    BY <1>1, <2>1, <2>2
<1> QED
  BY <1>2 DEF InboxInv, TypeOK

LEMMA InboxInvInit == Init => InboxInv
<1> SUFFICES ASSUME Init PROVE InboxInv
  OBVIOUS
<1>1. TypeOK
  BY TimesAssumption DEF Init, TypeOK, None
<1>2. got \in [Calls -> Nat]
  BY DEF Init
<1>3. \A c \in Calls : InOrder(c)
  BY DEF Init, None, InOrder, FilesInOrder, CallInOrder, TimesInOrder, Fetching
<1> QED
  BY <1>1, <1>2, <1>3 DEF InboxInv

\* A call of which nothing changes stays as it was.
LEMMA OthersStayInOrder ==
    ASSUME InboxInv, NEW d \in Calls, now' = now, consumed \subseteq consumed',
           pc'[d] = pc[d], ids'[d] = ids[d], got'[d] = got[d], since'[d] = since[d],
           inbox'[d] = inbox[d]
    PROVE  InOrder(d)'
<1>1. FilesInOrder(d)'
  BY DEF InboxInv, InOrder, FilesInOrder
<1>2. CallInOrder(d)'
  BY DEF InboxInv, InOrder, CallInOrder, Next1, Fetching
<1>3. TimesInOrder(d)'
  BY DEF InboxInv, InOrder, TimesInOrder, Fetching
<1> QED
  BY <1>1, <1>2, <1>3 DEF InOrder

\* A call takes a step that leaves its directory and its files alone.
LEMMA StepKeepsInv ==
    ASSUME InboxInv, NEW c \in Calls,
           NEW to \in {"list", "clean", "done", "failed", "killed"}, pc' = [pc EXCEPT ![c] = to],
           todo' \in [Calls -> SUBSET Calls],
           UNCHANGED <<now, consumed, ids, got, since, body, inbox>>,
           to \in {"list", "clean", "failed"} => pc[c] \in {"idle", "list", "clean"},
           to = "done" => \/ pc[c] = "clean" /\ ids[c] = <<>>
                          \/ pc[c] = "get" /\ got[c] = Len(ids[c])
    PROVE  InboxInv'
<1>1. TypeOK'
  BY DEF InboxInv, TypeOK
<1>2. /\ pc'[c] = to
      /\ \A d \in Calls : d # c => pc'[d] = pc[d]
  BY DEF InboxInv, TypeOK
<1>3. InOrder(c)'
  <2>1. FilesInOrder(c)'
    BY DEF InboxInv, InOrder, FilesInOrder
  <2>2. CallInOrder(c)'
    BY <1>2 DEF InboxInv, InOrder, CallInOrder, Next1, Fetching
  <2>3. TimesInOrder(c)'
    BY <1>2 DEF InboxInv, InOrder, CallInOrder, TimesInOrder, Fetching
  <2> QED
    BY <2>1, <2>2, <2>3 DEF InOrder
<1>4. \A d \in Calls : d # c => InOrder(d)'
  BY <1>2, OthersStayInOrder
<1> QED
  BY <1>1, <1>3, <1>4 DEF InboxInv

\* A call fails and removes its directory.
LEMMA FailKeepsInv ==
    ASSUME InboxInv, NEW c \in Calls, Fail(c), pc[c] \in Fetching,
           consumed \subseteq consumed', consumed' \subseteq Items,
           UNCHANGED <<now, ids, got, todo, since, body>>
    PROVE  InboxInv'
<1>1. pc' = [pc EXCEPT ![c] = "failed"] /\ inbox' = [inbox EXCEPT ![c] = None]
  BY DEF Fail, Go
<1>2. None \in [mtime: 0..MaxNow, files: SUBSET Files, there: BOOLEAN] /\ ~None.there
  BY TimesAssumption DEF None
<1>3. TypeOK'
  BY <1>1, <1>2 DEF InboxInv, TypeOK
<1>4. /\ pc'[c] = "failed" /\ ~inbox'[c].there
      /\ \A d \in Calls : d # c => pc'[d] = pc[d] /\ inbox'[d] = inbox[d]
  BY <1>1, <1>2 DEF InboxInv, TypeOK
<1>5. InOrder(c)'
  <2>1. since[c] <= now
    BY DEF InboxInv, InOrder, TimesInOrder
  <2> QED
    BY <1>4, <2>1 DEF InOrder, FilesInOrder, CallInOrder, TimesInOrder, Fetching
<1>6. \A d \in Calls : d # c => InOrder(d)'
  BY <1>4, OthersStayInOrder
<1> QED
  BY <1>3, <1>5, <1>6 DEF InboxInv

LEMMA SelectKeepsInv ==
    ASSUME InboxInv, NEW c \in Calls, SelectItems(c)
    PROVE  InboxInv'
<1>1. /\ pc[c] = "idle"
      /\ UNCHANGED <<now, consumed, got, todo, since, body, inbox>>
  BY DEF SelectItems
<1>2. PICK r \in Requests, to \in {"list", "failed"} :
          ids' = [ids EXCEPT ![c] = r] /\ pc' = [pc EXCEPT ![c] = to]
  BY DEF SelectItems, Go
<1>3. /\ ~inbox[c].there /\ got[c] = 0
      /\ Len(r) \in Nat
  BY <1>1, RequestsAssumption DEF InboxInv, InOrder, CallInOrder
<1>4. /\ pc'[c] = to /\ ids'[c] = r
      /\ \A d \in Calls : d # c => pc'[d] = pc[d] /\ ids'[d] = ids[d]
  BY <1>2 DEF InboxInv, TypeOK
<1>5. \A d \in Calls : got'[d] \in 0..Len(ids'[d])
  <2>1. \A d \in Calls : got[d] \in 0..Len(ids[d])
    BY DEF InboxInv, TypeOK
  <2>2. 0 \in 0..Len(r)
    BY <1>3
  <2> QED
    BY <1>1, <1>3, <1>4, <2>1, <2>2
<1>6. TypeOK'
  BY <1>1, <1>2, <1>5 DEF InboxInv, TypeOK
<1>7. InOrder(c)'
  <2>1. since[c] <= now
    BY DEF InboxInv, InOrder, TimesInOrder
  <2> QED
    BY <1>1, <1>3, <1>4, <2>1 DEF InOrder, FilesInOrder, CallInOrder, TimesInOrder, Fetching
<1>8. \A d \in Calls : d # c => InOrder(d)'
  BY <1>1, <1>4, OthersStayInOrder
<1> QED
  BY <1>1, <1>6, <1>7, <1>8 DEF InboxInv

\* A directory that expires is not one of a call that downloads: a download is over,
\* or given up, long before.
LEMMA CleanKeepsInv ==
    ASSUME InboxInv, NEW c \in Calls, CleanInbox(c)
    PROVE  InboxInv'
<1>1. /\ pc[c] = "clean"
      /\ UNCHANGED <<now, consumed, ids, got, since, body>>
  BY DEF CleanInbox
<1>2. PICK d \in todo[c] :
         \/ /\ inbox[d].there
            /\ inbox' = [inbox EXCEPT ![d] = IF Expired(d) THEN None ELSE @]
            /\ todo' = [todo EXCEPT ![c] = @ \ {d}]
            /\ UNCHANGED pc
         \/ /\ ~inbox[d].there \/ Expired(d)
            /\ Go(c, "failed")
            /\ UNCHANGED <<inbox, todo>>
  BY DEF CleanInbox
<1>3. d \in Calls /\ todo \in [Calls -> SUBSET Calls]
  BY DEF InboxInv, TypeOK
<1>4. CASE Go(c, "failed") /\ UNCHANGED <<inbox, todo>>
  <2>1. pc' = [pc EXCEPT ![c] = "failed"]
    BY <1>4 DEF Go
  <2> QED
    BY <1>1, <1>3, <1>4, <2>1, StepKeepsInv
<1>5. CASE /\ inbox[d].there
           /\ inbox' = [inbox EXCEPT ![d] = IF Expired(d) THEN None ELSE @]
           /\ todo' = [todo EXCEPT ![c] = @ \ {d}]
           /\ UNCHANGED pc
  <2>1. None \in [mtime: 0..MaxNow, files: SUBSET Files, there: BOOLEAN] /\ ~None.there
    BY TimesAssumption DEF None
  <2>2. inbox' \in [Calls -> [mtime: 0..MaxNow, files: SUBSET Files, there: BOOLEAN]]
    BY <1>5, <2>1 DEF InboxInv, TypeOK
  <2>3. todo' \in [Calls -> SUBSET Calls]
    BY <1>3, <1>5
  <2>4. TypeOK'
    BY <1>1, <1>5, <2>2, <2>3 DEF InboxInv, TypeOK
  <2>5. \A e \in Calls : e # d => inbox'[e] = inbox[e]
    BY <1>5 DEF InboxInv, TypeOK
  <2>6. \A e \in Calls : e # d => InOrder(e)'
    BY <1>1, <1>5, <2>5, OthersStayInOrder
  <2>7. CASE ~Expired(d)
    <3>1. inbox'[d] = inbox[d]
      BY <1>3, <1>5, <2>7 DEF InboxInv, TypeOK
    <3>2. InOrder(d)'
      BY <1>1, <1>3, <1>5, <3>1, OthersStayInOrder
    <3> QED
      BY <1>1, <2>4, <2>6, <3>2 DEF InboxInv
  <2>8. CASE Expired(d)
    <3>1. ~inbox'[d].there /\ inbox'[d].files = {}
      BY <1>3, <1>5, <2>1, <2>8 DEF InboxInv, TypeOK, None
    <3>2. inbox[d].mtime \in Nat /\ since[d] \in Nat /\ now \in Nat /\ inbox[d].mtime + Retention < now
      BY <1>3, <2>8, TimesAssumption DEF InboxInv, TypeOK, Expired
    <3>3. pc[d] \in Fetching \cup {"done"} => inbox[d].mtime >= since[d]
      BY <1>3, <1>5 DEF InboxInv, InOrder, TimesInOrder
    <3>4. pc[d] \in Fetching \cup {"done"} => now > since[d] + Retention
      BY <3>2, <3>3, TimesAssumption
    <3>5. pc[d] \notin Fetching
      <4>1. pc[d] \in Fetching => now <= since[d] + Transfer
        BY <1>3 DEF InboxInv, InOrder, TimesInOrder
      <4> QED
        BY <3>2, <3>4, <4>1, TimesAssumption, RetentionAssumption
    <3>6. InOrder(d)'
      <4>1. FilesInOrder(d)'
        BY <3>1 DEF FilesInOrder
      <4>2. CallInOrder(d)'
        BY <1>1, <1>3, <1>5, <3>1, <3>5 DEF InboxInv, InOrder, CallInOrder, Fetching
      <4>3. TimesInOrder(d)'
        BY <1>1, <1>3, <1>5, <3>1, <3>4, <3>5 DEF InboxInv, InOrder, TimesInOrder
      <4> QED
        BY <4>1, <4>2, <4>3 DEF InOrder
    <3> QED
      BY <1>1, <2>4, <2>6, <3>6 DEF InboxInv
  <2> QED
    BY <2>7, <2>8
<1> QED
  BY <1>2, <1>4, <1>5

LEMMA MakeKeepsInv ==
    ASSUME InboxInv, NEW c \in Calls, MakeDirectory(c)
    PROVE  InboxInv'
<1>1. /\ pc[c] = "clean"
      /\ UNCHANGED <<now, consumed, ids, got, todo, body>>
  BY DEF MakeDirectory
<1>2. CASE ids[c] = <<>>
  <2>1. pc' = [pc EXCEPT ![c] = "done"] /\ UNCHANGED <<inbox, since>>
    BY <1>2 DEF MakeDirectory, Go
  <2>2. todo \in [Calls -> SUBSET Calls]
    BY DEF InboxInv, TypeOK
  <2> QED
    BY <1>1, <1>2, <2>1, <2>2, StepKeepsInv
<1>3. CASE Go(c, "failed") /\ UNCHANGED <<inbox, since>>
  <2>1. pc' = [pc EXCEPT ![c] = "failed"] /\ todo \in [Calls -> SUBSET Calls]
    BY <1>3 DEF Go, InboxInv, TypeOK
  <2> QED
    BY <1>1, <1>3, <2>1, StepKeepsInv
<1>4. ASSUME ids[c] # <<>>, inbox' = [inbox EXCEPT ![c] = Empty(now)],
             NEW to \in {"get", "unsecured"}, Go(c, to),
             since' \in {since, [since EXCEPT ![c] = now]},
             to = "get" => since' = [since EXCEPT ![c] = now]
      PROVE  InboxInv'
  <2>1. Empty(now) \in [mtime: 0..MaxNow, files: SUBSET Files, there: BOOLEAN]
    BY DEF Empty, InboxInv, TypeOK
  <2>2. pc' = [pc EXCEPT ![c] = to] /\ since' \in [Calls -> 0..MaxNow]
    BY <1>4 DEF Go, InboxInv, TypeOK
  <2>3. TypeOK'
    BY <1>1, <1>4, <2>1, <2>2 DEF InboxInv, TypeOK
  <2>4. /\ inbox'[c] = [mtime |-> now, files |-> {}, there |-> TRUE] /\ pc'[c] = to
        /\ since'[c] \in {since[c], now} /\ (to = "get" => since'[c] = now)
        /\ \A d \in Calls : d # c => inbox'[d] = inbox[d] /\ since'[d] = since[d] /\ pc'[d] = pc[d]
    BY <1>4, <2>2 DEF Empty, InboxInv, TypeOK
  <2>5. got[c] = 0 /\ now \in Nat /\ since[c] <= now
    BY <1>1, TimesAssumption DEF InboxInv, TypeOK, InOrder, CallInOrder, TimesInOrder
  <2>6. IsFiniteSet(inbox'[c].files) /\ Cardinality(inbox'[c].files) = 0
    BY <2>4, FS_EmptySet
  <2>7. InOrder(c)'
    <3>1. FilesInOrder(c)'
      BY <1>1, <2>4, <2>5, <2>6 DEF FilesInOrder
    <3>2. CallInOrder(c)'
      BY <1>1, <1>4, <2>4 DEF CallInOrder, Fetching
    <3>3. TimesInOrder(c)'
      BY <1>1, <1>4, <2>4, <2>5, TimesAssumption DEF TimesInOrder, Fetching
    <3> QED
      BY <3>1, <3>2, <3>3 DEF InOrder
  <2>8. \A d \in Calls : d # c => InOrder(d)'
    BY <1>1, <2>4, OthersStayInOrder
  <2> QED
    BY <1>1, <2>3, <2>7, <2>8 DEF InboxInv
<1> QED
  BY <1>2, <1>3, <1>4 DEF MakeDirectory

LEMMA GetKeepsInv ==
    ASSUME InboxInv, NEW c \in Calls, Get(c)
    PROVE  InboxInv'
<1> DEFINE i == Next1(c)
<1>1. /\ pc[c] = "get" /\ got[c] < Len(ids[c])
      /\ UNCHANGED <<now, ids, got, todo, since>>
  BY DEF Get
<1>2. i \in Items
  BY <1>1, RequestsTyped DEF Next1
<1>3. CASE Fail(c) /\ UNCHANGED body /\ (consumed' = consumed \/ consumed' = consumed \cup {i})
  <2>1. consumed \subseteq consumed' /\ consumed' \subseteq Items
    BY <1>2, <1>3 DEF InboxInv, TypeOK
  <2> QED
    BY <1>1, <1>3, <2>1, FailKeepsInv DEF Fetching
<1>4. CASE /\ i \notin consumed /\ consumed' = consumed \cup {i}
           /\ inbox' = [inbox EXCEPT ![c].mtime = now]
           /\ \E whole \in BOOLEAN : body' = [body EXCEPT ![c] = whole]
           /\ Go(c, "write")
  <2>1. pc' = [pc EXCEPT ![c] = "write"]
    BY <1>4 DEF Go
  <2>2. TypeOK'
    BY <1>1, <1>2, <1>4, <2>1 DEF InboxInv, TypeOK
  <2>3. /\ inbox'[c].mtime = now /\ inbox'[c].files = inbox[c].files
        /\ inbox'[c].there = inbox[c].there
        /\ pc'[c] = "write"
        /\ \A d \in Calls : d # c => inbox'[d] = inbox[d] /\ pc'[d] = pc[d]
    BY <1>4, <2>1 DEF InboxInv, TypeOK
  <2>4. InOrder(c)
    BY DEF InboxInv
  <2>5. /\ inbox[c].there /\ ids[c] # <<>>
        /\ \A f \in inbox[c].files : f.item # i
        /\ since[c] <= now /\ now <= since[c] + Transfer
    BY <1>1, <1>4, <2>4 DEF InOrder, FilesInOrder, CallInOrder, TimesInOrder, Fetching
  <2>6. now \in Nat /\ since[c] \in Nat /\ now >= since[c]
    BY <2>5, TimesAssumption DEF InboxInv, TypeOK
  <2>7. InOrder(c)'
    <3>1. FilesInOrder(c)'
      BY <1>1, <1>4, <2>3, <2>4 DEF InOrder, FilesInOrder
    <3>2. CallInOrder(c)'
      BY <1>1, <1>4, <2>3, <2>5 DEF CallInOrder, Fetching, Next1
    <3>3. TimesInOrder(c)'
      BY <1>1, <2>3, <2>5, <2>6 DEF TimesInOrder, Fetching
    <3> QED
      BY <3>1, <3>2, <3>3 DEF InOrder
  <2>8. \A d \in Calls : d # c => InOrder(d)'
    BY <1>1, <1>4, <2>3, OthersStayInOrder
  <2> QED
    BY <1>1, <2>2, <2>7, <2>8 DEF InboxInv
<1> QED
  BY <1>3, <1>4 DEF Get

\* The path an item is given is nobody's yet: not its name where that is taken, and
\* not its id and name, which only the item itself could have.
LEMMA TargetIsFresh ==
    ASSUME InboxInv, NEW c \in Calls, pc[c] = "write"
    PROVE  /\ Target(c) \in {<<Name[Next1(c)]>>, <<Next1(c), Name[Next1(c)]>>}
           /\ \A f \in inbox[c].files : f.path # Target(c)
<1> DEFINE i == Next1(c)
<1>1. \A f \in inbox[c].files :
          f.item # i /\ f.path \in {<<Name[f.item]>>, <<f.item, Name[f.item]>>}
  BY DEF InboxInv, InOrder, FilesInOrder, CallInOrder, Fetching
<1>2. CASE \E f \in inbox[c].files : f.path = <<Name[i]>>
  <2>1. Target(c) = <<i, Name[i]>>
    BY <1>2 DEF Target
  <2> QED
    BY <1>1, <2>1
<1>3. CASE ~\E f \in inbox[c].files : f.path = <<Name[i]>>
  <2>1. Target(c) = <<Name[i]>>
    BY <1>3 DEF Target
  <2> QED
    BY <1>3, <2>1
<1> QED
  BY <1>2, <1>3

LEMMA WriteKeepsInv ==
    ASSUME InboxInv, NEW c \in Calls, Write(c)
    PROVE  InboxInv'
<1> DEFINE i    == Next1(c)
           file1 == [item |-> i, path |-> Target(c), whole |-> body[c]]
           kept == {f \in inbox[c].files : f.path # Target(c)}
<1>1. /\ pc[c] = "write"
      /\ UNCHANGED <<now, consumed, ids, todo, body>>
  BY DEF Write
<1>2. /\ inbox[c].there /\ ids[c] # <<>>
      /\ got[c] < Len(ids[c]) /\ i \in consumed
      /\ \A f \in inbox[c].files : f.item # i
      /\ since[c] <= now
  BY <1>1 DEF InboxInv, InOrder, CallInOrder, TimesInOrder, Fetching
<1>3. i \in Items /\ got[c] \in Nat /\ Len(ids[c]) \in Nat
  BY <1>2, RequestsTyped DEF Next1
<1>4. CASE Fail(c) /\ UNCHANGED <<got, since>>
  <2>1. consumed \subseteq consumed' /\ consumed' \subseteq Items
    BY <1>1 DEF InboxInv, TypeOK
  <2> QED
    BY <1>1, <1>4, <2>1, FailKeepsInv DEF Fetching
<1>5. CASE /\ body[c]
           /\ inbox' = [inbox EXCEPT ![c].mtime = now, ![c].files = kept \cup {file1}]
           /\ got' = [got EXCEPT ![c] = @ + 1]
           /\ since' = [since EXCEPT ![c] = now]
           /\ Go(c, "get")
  <2>1. pc' = [pc EXCEPT ![c] = "get"]
    BY <1>5 DEF Go
  <2>2. kept = inbox[c].files
    BY <1>1, TargetIsFresh
  <2>3. Target(c) \in {<<Name[i]>>, <<i, Name[i]>>}
    BY <1>1, TargetIsFresh
  <2>4. Target(c) \in Paths
    BY <1>3, <2>3 DEF Paths
  <2> HIDE DEF kept, i
  <2>5. file1 \in Files
    BY <1>3, <2>4 DEF InboxInv, TypeOK, Files
  <2> HIDE DEF file1
  <2>6. inbox' = [inbox EXCEPT ![c].mtime = now, ![c].files = @ \cup {file1}]
    BY <1>5, <2>2
  <2>7. inbox' \in [Calls -> [mtime: 0..MaxNow, files: SUBSET Files, there: BOOLEAN]]
    BY <2>5, <2>6 DEF InboxInv, TypeOK
  <2>8. /\ inbox'[c].mtime = now /\ inbox'[c].files = inbox[c].files \cup {file1}
        /\ inbox'[c].there = inbox[c].there
        /\ pc'[c] = "get" /\ got'[c] = got[c] + 1 /\ since'[c] = now
        /\ \A d \in Calls : d # c => /\ inbox'[d] = inbox[d] /\ pc'[d] = pc[d]
                                     /\ got'[d] = got[d] /\ since'[d] = since[d]
    BY <1>5, <2>1, <2>6 DEF InboxInv, TypeOK
  <2>9. got' \in [Calls -> Nat] /\ \A d \in Calls : got'[d] \in 0..Len(ids'[d])
    BY <1>1, <1>2, <1>3, <1>5, <2>8 DEF InboxInv, TypeOK
  <2>10. TypeOK'
    BY <1>1, <1>5, <2>1, <2>7, <2>9 DEF InboxInv, TypeOK
  <2>11. /\ file1.item = i /\ file1.whole
         /\ file1.path \in {<<Name[i]>>, <<i, Name[i]>>}
    BY <1>5, <2>3 DEF file1
  <2>12. FilesInOrder(c)
    BY DEF InboxInv, InOrder
  <2>13. file1 \notin inbox[c].files
    BY <1>2, <2>11
  <2>14. /\ IsFiniteSet(inbox'[c].files)
         /\ Cardinality(inbox'[c].files) = Cardinality(inbox[c].files) + 1
    <3>1. IsFiniteSet(inbox[c].files)
      BY <1>2, <2>12 DEF FilesInOrder
    <3>2. /\ IsFiniteSet(inbox[c].files \cup {file1})
          /\ Cardinality(inbox[c].files \cup {file1}) = Cardinality(inbox[c].files) + 1
      BY <2>13, <3>1, FS_AddElement, Zenon
    <3> QED
      BY <2>8, <3>2
  <2>15. \A k \in 1..got'[c] : \E f \in inbox'[c].files : f.item = ids'[c][k]
    <3>1. ASSUME NEW k \in 1..got[c] PROVE \E f \in inbox'[c].files : f.item = ids'[c][k]
      BY <1>1, <1>2, <2>8, <2>12 DEF FilesInOrder
    <3>2. ids'[c][got[c] + 1] = file1.item
      BY <1>1, <2>11 DEF i, Next1
    <3>3. \A k \in 1..got'[c] : k \in 1..got[c] \/ k = got[c] + 1
      BY <1>3, <2>8
    <3> QED
      BY <2>8, <3>1, <3>2, <3>3
  <2>16. InOrder(c)'
    <3>1. \A f \in inbox'[c].files :
              /\ f.whole /\ f.item \in consumed'
              /\ f.path \in {<<Name[f.item]>>, <<f.item, Name[f.item]>>}
      BY <1>1, <1>2, <2>8, <2>11, <2>12 DEF FilesInOrder
    <3>2. FilesInOrder(c)'
      BY <1>2, <2>8, <2>12, <2>14, <2>15, <3>1 DEF FilesInOrder
    <3>3. CallInOrder(c)'
      BY <1>1, <1>2, <2>8 DEF CallInOrder, Fetching
    <3>4. TimesInOrder(c)'
      BY <1>1, <2>8, TimesAssumption DEF TimesInOrder, Fetching, InboxInv, TypeOK
    <3> QED
      BY <3>2, <3>3, <3>4 DEF InOrder
  <2>17. \A d \in Calls : d # c => InOrder(d)'
    BY <1>1, <2>8, OthersStayInOrder
  <2> QED
    BY <2>9, <2>10, <2>16, <2>17 DEF InboxInv
<1> QED
  BY <1>4, <1>5 DEF Write

LEMMA TickKeepsInv ==
    ASSUME InboxInv, Tick
    PROVE  InboxInv'
<1>1. /\ now < MaxNow /\ now' = now + 1
      /\ \A c \in Calls : pc[c] \in Fetching => now < since[c] + Transfer
      /\ UNCHANGED <<consumed, pc, ids, got, todo, since, body, inbox>>
  BY DEF Tick, Fetching
<1>2. TypeOK'
  BY <1>1, TimesAssumption DEF InboxInv, TypeOK
<1>3. ASSUME NEW c \in Calls PROVE InOrder(c)'
  <2>1. FilesInOrder(c)'
    BY <1>1 DEF InboxInv, InOrder, FilesInOrder
  <2>2. CallInOrder(c)'
    BY <1>1 DEF InboxInv, InOrder, CallInOrder, Next1
  <2>3. now \in Nat /\ since[c] \in Nat
    BY TimesAssumption DEF InboxInv, TypeOK
  <2>4. TimesInOrder(c)'
    BY <1>1, <2>3, TimesAssumption DEF InboxInv, InOrder, TimesInOrder, Fetching
  <2> QED
    BY <2>1, <2>2, <2>4 DEF InOrder
<1> QED
  BY <1>1, <1>2, <1>3 DEF InboxInv

LEMMA InboxInvNext == InboxInv /\ [Next]_vars => InboxInv'
<1> SUFFICES ASSUME InboxInv, [Next]_vars PROVE InboxInv'
  OBVIOUS
<1>1. todo \in [Calls -> SUBSET Calls]
  BY DEF InboxInv, TypeOK
<1>2. ASSUME NEW c \in Calls, NewProcess(c) PROVE InboxInv'
  <2>1. /\ pc[c] = "idle" /\ pc' = [pc EXCEPT ![c] = "list"]
        /\ UNCHANGED <<now, consumed, ids, got, todo, since, body, inbox>>
    BY <1>2 DEF NewProcess, Go
  <2> QED
    BY <1>1, <2>1, StepKeepsInv
<1>3. ASSUME NEW c \in Calls, ListInbox(c) PROVE InboxInv'
  <2>1. PICK to \in {"clean", "failed"} :
            /\ pc[c] = "list" /\ pc' = [pc EXCEPT ![c] = to]
            /\ todo' \in {todo, [todo EXCEPT ![c] = Directories]}
            /\ UNCHANGED <<now, consumed, ids, got, since, body, inbox>>
    BY <1>3 DEF ListInbox, Go
  <2>2. todo' \in [Calls -> SUBSET Calls]
    BY <1>1, <2>1 DEF Directories
  <2> QED
    BY <2>1, <2>2, StepKeepsInv
<1>4. ASSUME NEW c \in Calls, Return(c) PROVE InboxInv'
  <2>1. /\ pc[c] = "get" /\ got[c] = Len(ids[c]) /\ pc' = [pc EXCEPT ![c] = "done"]
        /\ UNCHANGED <<now, consumed, ids, got, todo, since, body, inbox>>
    BY <1>4 DEF Return, Go
  <2> QED
    BY <1>1, <2>1, StepKeepsInv
<1>5. ASSUME NEW c \in Calls, Kill(c) PROVE InboxInv'
  <2>1. /\ pc' = [pc EXCEPT ![c] = "killed"]
        /\ UNCHANGED <<now, consumed, ids, got, todo, since, body, inbox>>
    BY <1>5 DEF Kill, Go
  <2> QED
    BY <1>1, <2>1, StepKeepsInv
<1>6. CASE UNCHANGED vars
  <2>1. UNCHANGED <<now, consumed, pc, ids, got, todo, since, body, inbox>>
    BY <1>6 DEF vars
  <2>2. \A c \in Calls : InOrder(c)'
    BY <2>1, OthersStayInOrder
  <2>3. TypeOK'
    BY <2>1 DEF InboxInv, TypeOK
  <2> QED
    BY <2>1, <2>2, <2>3 DEF InboxInv
<1> QED
  BY <1>2, <1>3, <1>4, <1>5, <1>6, SelectKeepsInv, CleanKeepsInv, MakeKeepsInv, GetKeepsInv,
     WriteKeepsInv, TickKeepsInv DEF Next, Work

LEMMA InboxAlways == Spec => []InboxInv
BY InboxInvInit, InboxInvNext, PTL DEF Spec

\* The variables of Materialize keep their types.
THEOREM InboxTypeCorrect == Spec => []TypeOK
<1>1. InboxInv => TypeOK
  BY DEF InboxInv
<1> QED
  BY <1>1, InboxAlways, PTL

\* What a call of materialize returns is one whole file for each id, each under a
\* path of its own; a call that fails leaves nothing behind, but an empty directory
\* where the chmod of that failed.
THEOREM AllOrNothingHolds == Spec => []AllOrNothing
<1>1. InboxInv => AllOrNothing
  <2> SUFFICES ASSUME InboxInv, NEW c \in Calls
               PROVE  /\ pc[c] = "done" /\ inbox[c].there =>
                            /\ \A k \in DOMAIN ids[c] :
                                  \E f \in inbox[c].files : f.item = ids[c][k] /\ f.whole
                            /\ Cardinality(inbox[c].files) = Len(ids[c])
                      /\ pc[c] = "failed" => ~inbox[c].there
                      /\ pc[c] = "unsecured" => inbox[c].files = {}
    BY DEF AllOrNothing
  <2>1. /\ pc[c] = "failed" => ~inbox[c].there
        /\ pc[c] = "unsecured" => inbox[c].files = {}
    BY DEF InboxInv, InOrder, CallInOrder
  <2>2. ASSUME pc[c] = "done", inbox[c].there
        PROVE  /\ \A k \in DOMAIN ids[c] : \E f \in inbox[c].files : f.item = ids[c][k] /\ f.whole
               /\ Cardinality(inbox[c].files) = Len(ids[c])
    <3>1. got[c] = Len(ids[c])
      BY <2>2 DEF InboxInv, InOrder, CallInOrder
    <3>2. DOMAIN ids[c] = 1..Len(ids[c])
      BY RequestsTyped
    <3> QED
      BY <2>2, <3>1, <3>2 DEF InboxInv, InOrder, FilesInOrder
  <2> QED
    BY <2>1, <2>2
<1> QED
  BY <1>1, InboxAlways, PTL

\* The clean-ups of other processes take no directory from a call that is still
\* downloading into it, nor from an agent before the retention is over.
THEOREM OthersCleanOldOnlyHolds == Spec => []OthersCleanOldOnly
<1>1. InboxInv => OthersCleanOldOnly
  BY DEF InboxInv, InOrder, CallInOrder, TimesInOrder, OthersCleanOldOnly, Fetching
<1> QED
  BY <1>1, InboxAlways, PTL
=============================================================================
