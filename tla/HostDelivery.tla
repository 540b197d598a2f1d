---------------------------- MODULE HostDelivery ----------------------------
(***************************************************************************)
(* The remote side of a file for the host: the MCP tools offer_file_to_host*)
(* (offer the file's metadata, then poll until the user decides) and       *)
(* deliver_file_to_host (hash the file again, compare it with the offer,   *)
(* then upload it), in HTTPProvider.  The file may change at any time, the *)
(* calls go through the tunnel and may be lost before or after the bridge  *)
(* acts on them, and agents call again.  Of the bridge there is what the   *)
(* calls see; Inbound models it in full.                                   *)
(***************************************************************************)
EXTENDS Naturals, FiniteSets

CONSTANTS
    Offers,      \* the calls of offer_file_to_host, each with its offer
    Uploads,     \* the calls of deliver_file_to_host
    Contents,    \* what the file may hold
    Broken,      \* the bytes of an upload that is cut off, or of a changing file
    Size,        \* the length of each content
    MaxEdits,    \* bound: how often the file changes
    MaxOutages   \* bound: calls that are lost

ASSUME BrokenAssumption == Broken \notin Contents
ASSUME SizeAssumption   == Size \in [Contents -> Nat]
ASSUME BoundsAssumption == MaxEdits \in Nat /\ MaxOutages \in Nat

VARIABLES
    file,     \* what the remote file holds
    offer,    \* each offer as the bridge knows it
    call,     \* where each call of offer_file_to_host stands
    upload,   \* each call of deliver_file_to_host
    saved,    \* history: what the bridge saved for an offer, one entry a time
    approved, \* history: the offers the user accepted
    edits, outages

deliveryVars == <<file, offer, call, upload, saved, approved, edits, outages>>

States == {"none", "pending", "accepted", "rejected", "expired", "receiving",
           "delivered", "failed"}
NoUpload == [pc |-> "idle", offer |-> "none", hashed |-> Broken]

DeliveryTypeOK ==
    /\ file \in Contents
    /\ offer \in [Offers -> [state: States, content: Contents]]
    /\ call \in [Offers -> {"idle", "waiting", "accepted", "rejected", "expired",
                            "receiving", "delivered", "failed", "error"}]
    /\ upload \in [Uploads -> [pc: {"idle", "compare", "open", "put", "ok", "error"},
                               offer: Offers \cup {"none"},
                               hashed: Contents \cup {Broken}]]
    /\ saved \in [Offers -> SUBSET (Uploads \X Contents)]
    /\ approved \subseteq Offers
    /\ edits \in 0..MaxEdits /\ outages \in 0..MaxOutages

DeliveryInit ==
    /\ file \in Contents
    /\ offer = [o \in Offers |-> [state |-> "none", content |-> file]]
    /\ call = [o \in Offers |-> "idle"]
    /\ upload = [u \in Uploads |-> NoUpload]
    /\ saved = [o \in Offers |-> {}]
    /\ approved = {}
    /\ edits = 0 /\ outages = 0

Is(o, state)      == offer[o].state = state
Becomes(o, state) == offer' = [offer EXCEPT ![o].state = state]
Answer(o, result) == call' = [call EXCEPT ![o] = result]
Moves(u, to)         == upload' = [upload EXCEPT ![u].pc = to]
Lost              == outages < MaxOutages /\ outages' = outages + 1
History           == <<saved, approved>>
-----------------------------------------------------------------------------
(* The surroundings: the file, the local user, the bridge's clock.         *)

Edit ==
    /\ edits < MaxEdits /\ edits' = edits + 1
    /\ file' \in Contents \ {file}
    /\ UNCHANGED <<offer, call, upload, History, outages>>

Decide(o) ==
    /\ Is(o, "pending")
    /\ \/ Becomes(o, "accepted") /\ approved' = approved \cup {o}
       \/ Becomes(o, "rejected") /\ UNCHANGED approved
    /\ UNCHANGED <<file, call, upload, saved, edits, outages>>

Expire(o) ==
    /\ offer[o].state \in {"pending", "accepted"}
    /\ Becomes(o, "expired")
    /\ UNCHANGED <<file, call, upload, History, edits, outages>>
-----------------------------------------------------------------------------
(* offer_file_to_host                                                      *)

\* OfferFileToHost: the metadata of the file as it is now.  The bridge may know
\* the offer although its answer got lost.
OfferFileToHost(o) ==
    /\ call[o] = "idle"
    /\ \/ /\ offer' = [offer EXCEPT ![o] = [state |-> "pending", content |-> file]]
          /\ \/ Answer(o, "waiting") /\ UNCHANGED outages
             \/ Answer(o, "error") /\ Lost
       \/ UNCHANGED offer /\ Answer(o, "error") /\ Lost
    /\ UNCHANGED <<file, upload, History, edits>>

\* WaitHostFileOffer: any state but pending is the answer, and any call that
\* fails ends the wait.
WaitHostFileOffer(o) ==
    /\ call[o] = "waiting"
    /\ \/ ~Is(o, "pending") /\ Answer(o, offer[o].state) /\ UNCHANGED outages
       \/ Answer(o, "error") /\ Lost
    /\ UNCHANGED <<file, offer, upload, History, edits>>
-----------------------------------------------------------------------------
(* deliver_file_to_host                                                    *)

\* DeliverFileToHost hashes the file.  Agents know the offers of which they were
\* told, and may try for any of these, again too.
HashFile(u, o) ==
    /\ upload[u].pc \in {"idle", "error"} /\ call[o] \notin {"idle", "waiting", "error"}
    /\ upload' = [upload EXCEPT ![u] = [pc |-> "compare", offer |-> o, hashed |-> file]]
    /\ UNCHANGED <<file, offer, call, History, edits, outages>>

\* The offer is accepted, and it is the offer of what was hashed.
MayUpload(u) ==
    LET o == upload[u].offer
    IN  Is(o, "accepted") /\ offer[o].content = upload[u].hashed

Compare(u) ==
    /\ upload[u].pc = "compare"
    /\ \/ Moves(u, IF MayUpload(u) THEN "open" ELSE "error") /\ UNCHANGED outages
       \/ Moves(u, "error") /\ Lost
    /\ UNCHANGED <<file, offer, call, History, edits>>

\* The file is opened again (what it holds now replaces what was hashed), and its
\* length as hashed announced: the bridge takes the upload only for an offer that
\* is accepted at that moment.
Open(u) ==
    LET o == upload[u].offer
    IN  /\ upload[u].pc = "open"
        /\ \/ /\ Is(o, "accepted") /\ Becomes(o, "receiving")
              /\ upload' = [upload EXCEPT ![u].pc = "put", ![u].hashed = file]
              /\ UNCHANGED outages
           \/ /\ ~Is(o, "accepted") /\ UNCHANGED offer
              /\ Moves(u, "error") /\ UNCHANGED outages
           \/ Moves(u, "error") /\ UNCHANGED offer /\ Lost
        /\ UNCHANGED <<file, call, saved, approved, edits>>

\* Mutant of Verified: the length alone is looked at.
VerifiedLength(o, c) == Size[c] = Size[offer[o].content]

\* The bridge hashes what it wrote.
Verified(o, c) == c = offer[o].content

\* What a file of content f gives when as many bytes are read as were announced:
\* of a longer one the first bytes.
Reads(u, f) ==
    LET size == Size[offer[upload[u].offer].content]
    IN  {c \in Contents : Size[c] = size /\ (c = f \/ Size[f] > size)}

\* What streams is the file as opened or as it is now; one that changed meanwhile
\* or is short, or a broken connection, give bytes of no content.
Streams(u) == {Broken} \cup Reads(u, upload[u].hashed) \cup Reads(u, file)

\* Mutant of Put: the call succeeds whatever the bridge found.
PutReportsOK(u) ==
    LET o == upload[u].offer
    IN  /\ upload[u].pc = "put"
        /\ \E c \in Streams(u) :
             IF c \in Contents /\ Verified(o, c)
             THEN Becomes(o, "delivered") /\ saved' = [saved EXCEPT ![o] = @ \cup {<<u, c>>}]
             ELSE Becomes(o, "failed") /\ UNCHANGED saved
        /\ Moves(u, "ok")
        /\ UNCHANGED <<file, call, approved, edits, outages>>

\* DeliverInboundOffer ends.  Its answer may get lost, and does not count for a file
\* that has more bytes than were announced.
Put(u) ==
    LET o == upload[u].offer
    IN  /\ upload[u].pc = "put"
        /\ \E c \in Streams(u) :
             IF c \in Contents /\ Verified(o, c)
             THEN /\ Becomes(o, "delivered")
                  /\ saved' = [saved EXCEPT ![o] = @ \cup {<<u, c>>}]
                  /\ \/ Moves(u, "ok") /\ UNCHANGED outages
                     \/ Moves(u, "error") /\ Lost
                     \/ /\ Size[upload[u].hashed] > Size[c] \/ Size[file] > Size[c]
                        /\ Moves(u, "error") /\ UNCHANGED outages
             ELSE Becomes(o, "failed") /\ Moves(u, "error") /\ UNCHANGED <<saved, outages>>
        /\ UNCHANGED <<file, call, approved, edits>>

DeliveryNext ==
    \/ Edit
    \/ \E o \in Offers : Decide(o) \/ Expire(o) \/ OfferFileToHost(o) \/ WaitHostFileOffer(o)
    \/ \E u \in Uploads :
         \/ \E o \in Offers : HashFile(u, o)
         \/ Compare(u) \/ Open(u) \/ Put(u)

DeliverySpec == DeliveryInit /\ [][DeliveryNext]_deliveryVars
-----------------------------------------------------------------------------
(***************************************************************************)
(* Properties.                                                             *)
(***************************************************************************)
\* What the host gets is what was offered and accepted, however the file changes
\* between the offer, the hash and the upload, and it gets it once, however often
\* agents try again after an answer was lost.
SavedIsOffered ==
    \A o \in Offers :
        /\ \A s \in saved[o] : s[2] = offer[o].content /\ o \in approved
        /\ Cardinality(saved[o]) <= 1

\* A tool call that succeeds has delivered the file.
OkMeansDelivered ==
    \A u \in Uploads : upload[u].pc = "ok" =>
        Is(upload[u].offer, "delivered") /\ \E s \in saved[upload[u].offer] : s[1] = u
=============================================================================
