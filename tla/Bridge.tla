------------------------------- MODULE Bridge -------------------------------
(***************************************************************************)
(* The clipboard half of internal/bridge: one armed snapshot of single-use *)
(* items, the sessions that may read it, and the HTTP handlers that serve  *)
(* them.  Every critical section under Bridge.mu is one action; a handler  *)
(* that unlocks and locks again (authenticate, then look the item up, then *)
(* verify a file, then consume) is one action per section, with what it    *)
(* carries from one section to the next in its own variables.              *)
(***************************************************************************)
EXTENDS Integers, Sequences, FiniteSets

CONSTANTS
    Handlers,       \* goroutines of the HTTP server, one request at a time each
    Profiles,       \* IDs of the persistent sessions Companions register
    ProfileTokens,  \* [Profiles -> SUBSET tokens]: what pairing minted for each
    Guests,         \* IDs CreateSession mints; a guest's token bears its ID
    Clipboards,     \* sequences of item kinds a client may ask to arm
    CallerNamesIDs, \* whether control clients name item IDs of their own
    MaxFiles,       \* files one snapshot may hold
    MaxItems,       \* bound: items in a clipboard
    DefaultTTL,     \* life of an image, a text or a guest session
    FileTTL,        \* life of a snapshot that holds files
    MaxArms,        \* bound: snapshots ever armed
    MaxTime         \* bound: the last instant of the clock

Kinds == {"image", "text", "file"}

ASSUME TimeAssumption == DefaultTTL \in Nat /\ FileTTL \in Nat /\ MaxTime \in Nat
ASSUME SizeAssumption == MaxArms \in Nat /\ MaxItems \in Nat /\ MaxFiles \in Nat
ASSUME ClipboardAssumption ==
    \A c \in Clipboards : Len(c) \in 0..MaxItems /\ c \in [1..Len(c) -> Kinds]
ASSUME CallerAssumption == CallerNamesIDs \in BOOLEAN
ASSUME SessionAssumption == Profiles \cap Guests = {}

SessionIDs  == Profiles \cup Guests
Tokens      == Guests \cup UNION {ProfileTokens[p] : p \in Profiles}
SnapshotIDs == 1..MaxArms
Slots       == 1..MaxItems
Data        == SnapshotIDs \X Slots        \* the i-th content of an arm
ItemIDs     == (0..MaxArms) \X Slots       \* <<a, i>> is random, <<0, i>> is a caller's
Instants    == 0..(MaxTime + DefaultTTL + FileTTL)
NoItem      == <<0, 0>>

Item     == [kind : Kinds, data : Data, consumed : BOOLEAN]
Session  == [token : Tokens, snapshot : 0..MaxArms, expires : Instants,
             revoked : BOOLEAN, persistent : BOOLEAN]
Request  == [route : {"item", "status"}, token : Tokens, id : ItemIDs \cup {NoItem}]
Grant    == [persistent : BOOLEAN, snapshot : 0..MaxArms]
Snapshot == [id : 0..MaxArms, expires : Instants, items : SUBSET ItemIDs]
Nil       == [id |-> 0, expires |-> 0, items |-> {}]
NoRequest == [route |-> "none"]
NoGrant   == [persistent |-> FALSE, snapshot |-> 0]
NoCopy    == [kind |-> "none"]
NoEntries == [x \in {} |-> x]      \* an empty map

VARIABLES
    now,       \* the clock
    minted,    \* how many snapshot IDs randomID has minted
    arming,    \* snapshots prepared by ArmItems and not yet installed
    snapshot,  \* Bridge.snapshot; Nil stands for the nil pointer
    items,     \* Bridge.items
    sessions,  \* Bridge.sessions
    created,   \* guest IDs CreateSession has minted
    changed,   \* armed files that no longer match what was measured
    pc,        \* where each handler stands
    asked,     \* the request it serves
    grant,     \* what it reads of the *Session authenticate returned
    found,     \* the item it copied out under the lock
    handed     \* history: how many responses carried each content

vars == <<now, minted, arming, snapshot, items, sessions, created, changed, pc,
          asked, grant, found, handed>>
armVars     == <<minted, arming, snapshot, items>>
handlerVars == <<pc, asked, grant, found>>

PCs == {"idle", "pick", "auth", "lookup", "open", "consume"}

TypeOK ==
    /\ now \in 0..MaxTime
    /\ minted \in 0..MaxArms
    /\ \A p \in arming : /\ p.id \in SnapshotIDs
                         /\ p.expires \in Instants
                         /\ DOMAIN p.items \subseteq ItemIDs
                         /\ p.items \in [DOMAIN p.items -> Item]
    /\ snapshot \in Snapshot
    /\ DOMAIN items \subseteq ItemIDs
    /\ items \in [DOMAIN items -> Item]
    /\ DOMAIN sessions \subseteq SessionIDs
    /\ sessions \in [DOMAIN sessions -> Session]
    /\ created \subseteq Guests
    /\ changed \subseteq Data
    /\ pc \in [Handlers -> PCs]
    /\ asked \in [Handlers -> Request \cup {NoRequest}]
    /\ grant \in [Handlers -> Grant]
    /\ found \in [Handlers -> Item \cup {NoCopy}]
    /\ handed \in [Data -> Nat]

Init ==
    /\ now = 0
    /\ minted = 0
    /\ arming = {}
    /\ snapshot = Nil
    /\ items = NoEntries
    /\ sessions = NoEntries
    /\ created = {}
    /\ changed = {}
    /\ pc = [h \in Handlers |-> "idle"]
    /\ asked = [h \in Handlers |-> NoRequest]
    /\ grant = [h \in Handlers |-> NoGrant]
    /\ found = [h \in Handlers |-> NoCopy]
    /\ handed = [d \in Data |-> 0]
-----------------------------------------------------------------------------
(***************************************************************************)
(* Arming.  ArmItems validates, hashes and mints IDs before it takes the   *)
(* lock, so two callers may be between the two halves at once.             *)
(***************************************************************************)
FilesIn(c) == {i \in DOMAIN c : c[i] = "file"}

\* Mutant of IDChoices: an ID is the position of the item in its snapshot.
PositionIDs(a, c) == {[i \in DOMAIN c |-> <<0, i>>]}

\* The IDs a caller may end up with: random ones, or its own when it sends them.
IDChoices(a, c) ==
    {f \in [DOMAIN c -> ItemIDs] :
        \A i \in DOMAIN c : f[i] = <<a, i>> \/ (CallerNamesIDs /\ f[i] = <<0, i>>)}

ItemsOf(a, c, name) ==
    [id \in {name[i] : i \in DOMAIN c} |->
        [kind |-> c[id[2]], data |-> <<a, id[2]>>, consumed |-> FALSE]]

TTL(c) == IF FilesIn(c) # {} THEN FileTTL ELSE DefaultTTL

\* ArmItems up to b.mu.Lock(): rejects an empty clipboard or too many files.
PrepareArm(c) ==
    /\ minted < MaxArms
    /\ Len(c) > 0
    /\ Cardinality(FilesIn(c)) <= MaxFiles
    /\ minted' = minted + 1
    /\ \E name \in IDChoices(minted', c) :
          arming' = arming \cup {[id |-> minted', expires |-> now + TTL(c),
                                 items |-> ItemsOf(minted', c, name)]}
    /\ UNCHANGED <<now, snapshot, items, sessions, created, changed, handlerVars, handed>>

\* Mutant of InstallArm: guests of the old snapshot are left alone.
InstallArmSparesGuests(p) ==
    /\ arming' = arming \ {p}
    /\ snapshot' = [id |-> p.id, expires |-> p.expires, items |-> DOMAIN p.items]
    /\ items' = p.items
    /\ UNCHANGED <<now, minted, sessions, created, changed, handlerVars, handed>>

\* ArmItems under the lock: the new snapshot revokes every guest.
InstallArm(p) ==
    /\ arming' = arming \ {p}
    /\ snapshot' = [id |-> p.id, expires |-> p.expires, items |-> DOMAIN p.items]
    /\ items' = p.items
    /\ sessions' = [id \in DOMAIN sessions |->
                      IF sessions[id].persistent THEN sessions[id]
                      ELSE [sessions[id] EXCEPT !.revoked = TRUE]]
    /\ UNCHANGED <<now, minted, created, changed, handlerVars, handed>>

\* The user edits, moves or deletes a file that is armed.
FileChanges(id) ==
    /\ items[id].kind = "file"
    /\ changed' = changed \cup {items[id].data}
    /\ UNCHANGED <<now, armVars, sessions, created, handlerVars, handed>>
-----------------------------------------------------------------------------
(***************************************************************************)
(* Sessions.                                                               *)
(***************************************************************************)
Dead(s) == s.revoked \/ (~s.persistent /\ now >= s.expires)

\* pruneSessionsLocked
Pruned == [id \in {i \in DOMAIN sessions : ~Dead(sessions[i])} |-> sessions[id]]

Put(f, k, v) == [x \in DOMAIN f \cup {k} |-> IF x = k THEN v ELSE f[x]]

\* A Companion registers its profile, replacing the token it had before.
RegisterPersistentSession(p, t) ==
    /\ sessions' = Put(Pruned, p, [token |-> t, snapshot |-> 0, expires |-> 0,
                                   revoked |-> FALSE, persistent |-> TRUE])
    /\ UNCHANGED <<now, armVars, created, changed, handlerVars, handed>>

\* `agentclip ssh` asks for a guest session on what is armed now; without an
\* unexpired snapshot the call only prunes.
CreateSession(g) ==
    /\ g \notin created
    /\ created' = created \cup {g}
    /\ sessions' = IF snapshot = Nil \/ now >= snapshot.expires THEN Pruned
                   ELSE Put(Pruned, g, [token |-> g, snapshot |-> snapshot.id,
                                        expires |-> now + DefaultTTL,
                                        revoked |-> FALSE, persistent |-> FALSE])
    /\ UNCHANGED <<now, armVars, changed, handlerVars, handed>>

RevokeSession(id) ==
    /\ sessions' = [sessions EXCEPT ![id].revoked = TRUE]
    /\ UNCHANGED <<now, armVars, created, changed, handlerVars, handed>>
-----------------------------------------------------------------------------
(***************************************************************************)
(* The handlers.                                                           *)
(***************************************************************************)
Goto(h, place) == pc' = [pc EXCEPT ![h] = place]

\* The response is written and the goroutine forgets what it held.
Finish(h) ==
    /\ Goto(h, "idle")
    /\ asked' = [asked EXCEPT ![h] = NoRequest]
    /\ grant' = [grant EXCEPT ![h] = NoGrant]
    /\ found' = [found EXCEPT ![h] = NoCopy]

\* Mutant of Allowed: whoever authenticated may read what is armed.
AllowedToAll(h) == snapshot # Nil

\* snapshotAllowedLocked
Allowed(h) == snapshot # Nil /\ (grant[h].persistent \/ grant[h].snapshot = snapshot.id)

\* status and itemHandler: the request is parsed, no lock yet.  A client names
\* the item IDs it has been shown, so the ID may be of any snapshot so far.
Receive(h) ==
    /\ pc[h] = "idle"
    /\ Goto(h, "auth")
    /\ \E t \in Tokens :
          \/ asked' = [asked EXCEPT ![h] = [route |-> "status", token |-> t, id |-> NoItem]]
          \/ \E id \in ItemIDs :
                /\ id[1] <= minted
                /\ id[1] = 0 => CallerNamesIDs
                /\ asked' = [asked EXCEPT ![h] = [route |-> "item", token |-> t, id |-> id]]
    /\ UNCHANGED <<now, armVars, sessions, created, changed, grant, found, handed>>

\* imageHandler
ReceiveImage(h) ==
    /\ pc[h] = "idle"
    /\ Goto(h, "pick")
    /\ \E t \in Tokens :
          asked' = [asked EXCEPT ![h] = [route |-> "item", token |-> t, id |-> NoItem]]
    /\ UNCHANGED <<now, armVars, sessions, created, changed, grant, found, handed>>

Images == {id \in DOMAIN items : items[id].kind = "image"}

\* imageHandler under the lock: any image will do, the map has no order.
PickImage(h) ==
    /\ pc[h] = "pick"
    /\ \/ /\ Images = {}
          /\ Finish(h)
       \/ /\ \E id \in Images : asked' = [asked EXCEPT ![h].id = id]
          /\ Goto(h, "auth")
          /\ UNCHANGED <<grant, found>>
    /\ UNCHANGED <<now, armVars, sessions, created, changed, handed>>

Holders(t) == {id \in DOMAIN Pruned : Pruned[id].token = t}

\* authenticate: prunes whatever the outcome.
Authenticate(h) ==
    /\ pc[h] = "auth"
    /\ sessions' = Pruned
    /\ \/ /\ Holders(asked[h].token) = {}
          /\ Finish(h)
       \/ /\ \E id \in Holders(asked[h].token) :
                grant' = [grant EXCEPT ![h] = [persistent |-> sessions[id].persistent,
                                               snapshot |-> sessions[id].snapshot]]
          /\ Goto(h, "lookup")
          /\ UNCHANGED <<asked, found>>
    /\ UNCHANGED <<now, armVars, created, changed, handed>>

\* The checks serveItem makes when it first holds the lock.
Servable(h) ==
    /\ Allowed(h)
    /\ now < snapshot.expires
    /\ asked[h].id \in DOMAIN items
    /\ ~items[asked[h].id].consumed

\* Mutant of LookUp: the item is marked when it is copied, not when it is handed over.
LookUpMarks(h) ==
    /\ pc[h] = "lookup"
    /\ asked[h].route = "item"
    /\ Servable(h)
    /\ found' = [found EXCEPT ![h] = items[asked[h].id]]
    /\ items' = [items EXCEPT ![asked[h].id].consumed = TRUE]
    /\ Goto(h, IF items[asked[h].id].kind = "file" THEN "open" ELSE "consume")
    /\ UNCHANGED <<now, minted, arming, snapshot, sessions, created, changed, asked, grant, handed>>

\* serveItem copies the item out, or answers with an error.
LookUp(h) ==
    /\ pc[h] = "lookup"
    /\ asked[h].route = "item"
    /\ \/ /\ Servable(h)
          /\ found' = [found EXCEPT ![h] = items[asked[h].id]]
          /\ Goto(h, IF items[asked[h].id].kind = "file" THEN "open" ELSE "consume")
          /\ UNCHANGED <<asked, grant>>
       \/ /\ ~Servable(h)
          /\ Finish(h)
    /\ UNCHANGED <<now, armVars, sessions, created, changed, handed>>

\* status under the lock: it answers from statusLocked or refuses, and changes
\* nothing either way.
Status(h) ==
    /\ pc[h] = "lookup"
    /\ asked[h].route = "status"
    /\ Finish(h)
    /\ UNCHANGED <<now, armVars, sessions, created, changed, handed>>

\* openVerifiedFile, with no lock held.
OpenVerifiedFile(h) ==
    /\ pc[h] = "open"
    /\ IF found[h].data \in changed
       THEN Finish(h)
       ELSE Goto(h, "consume") /\ UNCHANGED <<asked, grant, found>>
    /\ UNCHANGED <<now, armVars, sessions, created, changed, handed>>

\* Mutant of StillServable: the consumed flag is not looked at again.
StillThere(h) == asked[h].id \in DOMAIN items /\ Allowed(h)

\* The checks serveItem repeats when it holds the lock again.
StillServable(h) ==
    /\ asked[h].id \in DOMAIN items
    /\ ~items[asked[h].id].consumed
    /\ Allowed(h)

\* serveItem marks the item the ID names now and writes the content it copied
\* out before.
Consume(h) ==
    /\ pc[h] = "consume"
    /\ IF StillServable(h)
       THEN /\ items' = [items EXCEPT ![asked[h].id].consumed = TRUE]
            /\ handed' = [handed EXCEPT ![found[h].data] = @ + 1]
       ELSE UNCHANGED <<items, handed>>
    /\ Finish(h)
    /\ UNCHANGED <<now, minted, arming, snapshot, sessions, created, changed>>
-----------------------------------------------------------------------------
Tick ==
    /\ now < MaxTime
    /\ now' = now + 1
    /\ UNCHANGED <<armVars, sessions, created, changed, handlerVars, handed>>

Arm == (\E c \in Clipboards : PrepareArm(c)) \/ (\E p \in arming : InstallArm(p))

ControlSessions ==
    \/ \E p \in Profiles : \E t \in ProfileTokens[p] : RegisterPersistentSession(p, t)
    \/ \E g \in Guests : CreateSession(g)
    \/ \E id \in DOMAIN sessions : RevokeSession(id)

\* What a handler does by itself once a request has reached it.
Step(h) ==
    \/ PickImage(h)
    \/ Authenticate(h)
    \/ LookUp(h)
    \/ Status(h)
    \/ OpenVerifiedFile(h)
    \/ Consume(h)

Next ==
    \/ Arm
    \/ \E id \in DOMAIN items : FileChanges(id)
    \/ ControlSessions
    \/ \E h \in Handlers : Receive(h) \/ ReceiveImage(h) \/ Step(h)
    \/ Tick

Spec == Init /\ [][Next]_vars

-----------------------------------------------------------------------------
(***************************************************************************)
(* Properties.                                                             *)
(***************************************************************************)
\* Whatever requests race through serveItem's two lock sections, no content
\* that was armed is handed to more than one of them.
SingleUse == \A d \in Data : handed[d] <= 1

\* The consumed flag of the armed snapshot tells the truth: an item is marked
\* exactly when its own content went out, so nothing is burnt by a reader that
\* got something else.
ConsumedMeansHanded ==
    \A id \in DOMAIN items : items[id].consumed <=> handed[items[id].data] = 1

\* A guest session that would still authenticate was created for the snapshot
\* that is armed: ArmItems left none of an older one alive.
LiveGuestsMatchSnapshot ==
    \A id \in DOMAIN sessions :
        sessions[id].persistent \/ sessions[id].revoked \/ sessions[id].snapshot = snapshot.id

\* A content leaves the bridge only while its snapshot is the armed one, and a
\* guest gets only the snapshot its session was created for, however long
\* serveItem spent between authenticating and answering.
HandsToEntitled ==
    \A d \in Data : handed'[d] > handed[d] =>
        /\ d[1] = snapshot.id
        /\ \E h \in Handlers : /\ pc[h] = "consume"
                               /\ found[h].data = d
                               /\ grant[h].persistent \/ grant[h].snapshot = d[1]

\* Nobody reads what is not meant for them, whatever sessions end and snapshots come
\* while a request is under way, and no step leaves a guest that still could.
OnlyEntitledRead == [][HandsToEntitled /\ LiveGuestsMatchSnapshot']_vars

\* The bridge implements OneShot: the generations are the snapshots installed so
\* far, and what is armed is what its table still holds unconsumed.
Promise == INSTANCE OneShot WITH
    Generations <- SnapshotIDs,
    past        <- (1..minted) \ {p.id : p \in arming},
    armed       <- {items[id].data : id \in {i \in DOMAIN items : ~items[i].consumed}}

ImplementsOneShot == Promise!Spec

=============================================================================
