---------------------------- MODULE BridgeProofs ----------------------------
(***************************************************************************)
(* Theorems about Bridge for any number of handlers, sessions, items, arms *)
(* and any clock.  ReqOK and Traced strengthen the properties to what is   *)
(* inductive: what a handler carries between two lock sections is well     *)
(* typed, and, when item IDs are random, an ID names one content for ever. *)
(***************************************************************************)
EXTENDS Bridge, TLAPS

\* A busy handler holds a request, and one past the lookup holds an item.
ReqOK ==
    \A h \in Handlers :
        /\ pc[h] # "idle" => asked[h] \in Request
        /\ pc[h] \in {"open", "consume"} => found[h] \in Item

TypeInv == TypeOK /\ ReqOK
-----------------------------------------------------------------------------
LEMMA TTLType == \A c \in Clipboards : TTL(c) \in {DefaultTTL, FileTTL}
  BY DEF TTL

LEMMA PrunedType ==
    ASSUME TypeOK
    PROVE  /\ DOMAIN Pruned \subseteq DOMAIN sessions
           /\ \A id \in DOMAIN Pruned : Pruned[id] = sessions[id]
           /\ DOMAIN Pruned \subseteq SessionIDs
           /\ Pruned \in [DOMAIN Pruned -> Session]
  BY DEF Pruned, TypeOK

LEMMA FinishType ==
    ASSUME TypeInv, NEW h \in Handlers, Finish(h)
    PROVE  /\ pc' \in [Handlers -> PCs]
           /\ asked' \in [Handlers -> Request \cup {NoRequest}]
           /\ grant' \in [Handlers -> Grant]
           /\ found' \in [Handlers -> Item \cup {NoCopy}]
           /\ ReqOK'
<1>1. /\ pc' \in [Handlers -> PCs]
      /\ asked' \in [Handlers -> Request \cup {NoRequest}]
      /\ found' \in [Handlers -> Item \cup {NoCopy}]
  BY DEF TypeInv, TypeOK, Finish, Goto, PCs
<1>2. NoGrant \in Grant
  BY SizeAssumption DEF NoGrant, Grant
<1>3. grant' \in [Handlers -> Grant]
  BY <1>2 DEF TypeInv, TypeOK, Finish
<1>4. ReqOK'
  BY DEF TypeInv, TypeOK, ReqOK, Finish, Goto
<1> QED
  BY <1>1, <1>3, <1>4

LEMMA PutType ==
    ASSUME TypeOK, NEW k \in SessionIDs, NEW v \in Session
    PROVE  /\ DOMAIN Put(Pruned, k, v) \subseteq SessionIDs
           /\ Put(Pruned, k, v) \in [DOMAIN Put(Pruned, k, v) -> Session]
  BY PrunedType DEF Put

\* The clipboard an arm prepares is a table of fresh, unconsumed items.
LEMMA ItemsOfType ==
    ASSUME NEW a \in SnapshotIDs, NEW c \in Clipboards, NEW name \in IDChoices(a, c)
    PROVE  /\ DOMAIN ItemsOf(a, c, name) \subseteq ItemIDs
           /\ ItemsOf(a, c, name) \in [DOMAIN ItemsOf(a, c, name) -> Item]
           /\ \A id \in DOMAIN ItemsOf(a, c, name) :
                 /\ ~ItemsOf(a, c, name)[id].consumed
                 /\ ItemsOf(a, c, name)[id].data = <<a, id[2]>>
                 /\ id[1] = a \/ CallerNamesIDs
<1>1. DOMAIN c \subseteq Slots /\ c \in [DOMAIN c -> Kinds]
  BY ClipboardAssumption, SizeAssumption DEF Slots
<1>2. \A i \in DOMAIN c : /\ name[i] \in ItemIDs
                          /\ name[i][2] = i
                          /\ name[i][1] = a \/ CallerNamesIDs
  BY CallerAssumption DEF IDChoices
<1>3. \A id \in {name[i] : i \in DOMAIN c} :
         /\ id \in ItemIDs
         /\ id[2] \in DOMAIN c
         /\ id[1] = a \/ CallerNamesIDs
  BY <1>2
<1>4. \A id \in {name[i] : i \in DOMAIN c} :
         /\ c[id[2]] \in Kinds
         /\ <<a, id[2]>> \in Data
  BY <1>1, <1>3 DEF Data
<1> QED
  BY <1>3, <1>4 DEF ItemsOf, Item
-----------------------------------------------------------------------------
(***************************************************************************)
(* Type correctness.                                                       *)
(***************************************************************************)
LEMMA TypeInit == Init => TypeInv
<1> SUFFICES ASSUME Init PROVE TypeInv
  OBVIOUS
<1>1. Nil \in Snapshot /\ NoGrant \in Grant /\ 0 \in 0..MaxTime /\ 0 \in 0..MaxArms
  BY TimeAssumption, SizeAssumption DEF Nil, Snapshot, Instants, NoGrant, Grant
<1>2. TypeOK
  BY <1>1 DEF Init, TypeOK, NoEntries, PCs
<1>3. ReqOK
  BY DEF Init, ReqOK
<1> QED
  BY <1>2, <1>3 DEF TypeInv

LEMMA TypeNext == TypeInv /\ [Next]_vars => TypeInv'
<1> SUFFICES ASSUME TypeInv, [Next]_vars
             PROVE  TypeInv'
  OBVIOUS
<1> USE DEF TypeInv
<1>1. ASSUME NEW c \in Clipboards, PrepareArm(c)
      PROVE  TypeInv'
  <2>1. minted' \in SnapshotIDs
    BY <1>1, SizeAssumption DEF PrepareArm, TypeOK, SnapshotIDs
  <2>2. now + TTL(c) \in Instants
    BY TTLType, TimeAssumption DEF TypeOK, Instants
  <2>3. PICK name \in IDChoices(minted', c) :
           arming' = arming \cup {[id |-> minted', expires |-> now + TTL(c),
                                   items |-> ItemsOf(minted', c, name)]}
    BY <1>1 DEF PrepareArm
  <2>4. /\ DOMAIN ItemsOf(minted', c, name) \subseteq ItemIDs
        /\ ItemsOf(minted', c, name) \in [DOMAIN ItemsOf(minted', c, name) -> Item]
    BY <2>1, ItemsOfType
  <2> HIDE DEF ItemsOf, TTL
  <2> QED
    BY <1>1, <2>1, <2>2, <2>3, <2>4 DEF PrepareArm, TypeOK, ReqOK, handlerVars, SnapshotIDs
<1>2. ASSUME NEW p \in arming, InstallArm(p)
      PROVE  TypeInv'
  <2>1. snapshot' \in Snapshot
    BY <1>2, SizeAssumption DEF InstallArm, TypeOK, Snapshot, SnapshotIDs
  <2>2. /\ DOMAIN sessions' \subseteq SessionIDs
        /\ sessions' \in [DOMAIN sessions' -> Session]
    BY <1>2 DEF InstallArm, TypeOK, Session
  <2> QED
    BY <1>2, <2>1, <2>2 DEF InstallArm, TypeOK, ReqOK, handlerVars
<1>3. ASSUME NEW id \in DOMAIN items, FileChanges(id)
      PROVE  TypeInv'
  BY <1>3 DEF FileChanges, TypeOK, ReqOK, armVars, handlerVars, Item
<1>4. ASSUME NEW p \in Profiles, NEW t \in ProfileTokens[p], RegisterPersistentSession(p, t)
      PROVE  TypeInv'
  <2>1. [token |-> t, snapshot |-> 0, expires |-> 0, revoked |-> FALSE, persistent |-> TRUE]
           \in Session
    BY TimeAssumption, SizeAssumption DEF Session, Tokens, Instants
  <2>2. /\ DOMAIN sessions' \subseteq SessionIDs
        /\ sessions' \in [DOMAIN sessions' -> Session]
    <3>1. p \in SessionIDs
      BY DEF SessionIDs
    <3> HIDE DEF Put
    <3> QED
      BY <1>4, <2>1, <3>1, PutType DEF RegisterPersistentSession
  <2> QED
    BY <1>4, <2>2 DEF RegisterPersistentSession, TypeOK, ReqOK, armVars, handlerVars
<1>5. ASSUME NEW g \in Guests, CreateSession(g)
      PROVE  TypeInv'
  <2>1. [token |-> g, snapshot |-> snapshot.id, expires |-> now + DefaultTTL,
         revoked |-> FALSE, persistent |-> FALSE] \in Session
    BY TimeAssumption DEF TypeOK, Session, Snapshot, Tokens, Instants
  <2>2. /\ DOMAIN sessions' \subseteq SessionIDs
        /\ sessions' \in [DOMAIN sessions' -> Session]
    <3>1. g \in SessionIDs
      BY DEF SessionIDs
    <3>2. CASE sessions' = Pruned
      BY <3>2, PrunedType
    <3>3. CASE sessions' # Pruned
      BY <1>5, <2>1, <3>1, <3>3, PutType DEF CreateSession
    <3> QED
      BY <3>2, <3>3
  <2> QED
    BY <1>5, <2>2 DEF CreateSession, TypeOK, ReqOK, armVars, handlerVars
<1>6. ASSUME NEW id \in DOMAIN sessions, RevokeSession(id)
      PROVE  TypeInv'
  BY <1>6 DEF RevokeSession, TypeOK, ReqOK, armVars, handlerVars, Session
<1>7. ASSUME NEW h \in Handlers, Receive(h) \/ ReceiveImage(h)
      PROVE  TypeInv'
  <2>1. asked'[h] \in Request /\ asked' \in [Handlers -> Request \cup {NoRequest}]
    BY <1>7 DEF Receive, ReceiveImage, TypeOK, Request
  <2>2. pc' \in [Handlers -> PCs]
    BY <1>7 DEF Receive, ReceiveImage, Goto, TypeOK, PCs
  <2>3. ReqOK'
    BY <1>7, <2>1 DEF Receive, ReceiveImage, Goto, TypeOK, ReqOK
  <2> QED
    BY <1>7, <2>1, <2>2, <2>3 DEF Receive, ReceiveImage, TypeOK, armVars
<1>8. ASSUME NEW h \in Handlers, PickImage(h)
      PROVE  TypeInv'
  <2>1. CASE Finish(h)
    BY <1>8, <2>1, FinishType DEF PickImage, TypeOK, armVars
  <2>2. ASSUME NEW id \in Images, asked' = [asked EXCEPT ![h].id = id],
               Goto(h, "auth"), UNCHANGED <<grant, found>>
        PROVE  TypeInv'
    <3>1. asked[h] \in Request /\ id \in ItemIDs
      BY <1>8, <2>2 DEF PickImage, ReqOK, TypeOK, Images
    <3>2. asked'[h] \in Request /\ asked' \in [Handlers -> Request \cup {NoRequest}]
      BY <2>2, <3>1 DEF TypeOK, Request
    <3>3. pc' \in [Handlers -> PCs] /\ ReqOK'
      BY <2>2, <3>2 DEF Goto, TypeOK, PCs, ReqOK
    <3> QED
      BY <1>8, <2>2, <3>2, <3>3 DEF PickImage, TypeOK, armVars
  <2> QED
    BY <1>8, <2>1, <2>2 DEF PickImage
<1>9. ASSUME NEW h \in Handlers, Authenticate(h)
      PROVE  TypeInv'
  <2>1. /\ DOMAIN sessions' \subseteq SessionIDs
        /\ sessions' \in [DOMAIN sessions' -> Session]
    BY <1>9, PrunedType DEF Authenticate
  <2>2. CASE Finish(h)
    BY <1>9, <2>1, <2>2, FinishType DEF Authenticate, TypeOK, armVars
  <2>3. ASSUME NEW id \in Holders(asked[h].token), Goto(h, "lookup"),
               grant' = [grant EXCEPT ![h] = [persistent |-> sessions[id].persistent,
                                              snapshot |-> sessions[id].snapshot]],
               UNCHANGED <<asked, found>>
        PROVE  TypeInv'
    <3>1. id \in DOMAIN sessions
      BY <2>3, PrunedType DEF Holders
    <3>2. grant' \in [Handlers -> Grant]
      BY <2>3, <3>1 DEF TypeOK, Session, Grant
    <3>3. pc' \in [Handlers -> PCs] /\ ReqOK'
      BY <1>9, <2>3 DEF Authenticate, Goto, TypeOK, PCs, ReqOK
    <3> QED
      BY <1>9, <2>1, <2>3, <3>2, <3>3 DEF Authenticate, TypeOK, armVars
  <2> QED
    BY <1>9, <2>2, <2>3 DEF Authenticate
<1>10. ASSUME NEW h \in Handlers, LookUp(h)
       PROVE  TypeInv'
  <2>1. CASE Finish(h)
    BY <1>10, <2>1, FinishType DEF LookUp, TypeOK, armVars
  <2>2. CASE ~Finish(h)
    <3>1. items[asked[h].id] \in Item
      BY <1>10, <2>2 DEF LookUp, Servable, TypeOK
    <3>2. found' \in [Handlers -> Item \cup {NoCopy}] /\ found'[h] \in Item
      BY <1>10, <2>2, <3>1 DEF LookUp, TypeOK
    <3>3. pc' \in [Handlers -> PCs] /\ ReqOK'
      BY <1>10, <2>2, <3>2 DEF LookUp, Goto, TypeOK, PCs, ReqOK
    <3> QED
      BY <1>10, <2>2, <3>2, <3>3 DEF LookUp, TypeOK, armVars
  <2> QED
    BY <2>1, <2>2
<1>11. ASSUME NEW h \in Handlers, Status(h)
       PROVE  TypeInv'
  BY <1>11, FinishType DEF Status, TypeOK, armVars
<1>12. ASSUME NEW h \in Handlers, OpenVerifiedFile(h)
       PROVE  TypeInv'
  <2>1. CASE Finish(h)
    BY <1>12, <2>1, FinishType DEF OpenVerifiedFile, TypeOK, armVars
  <2>2. CASE ~Finish(h)
    BY <1>12, <2>2 DEF OpenVerifiedFile, Goto, TypeOK, PCs, ReqOK, armVars
  <2> QED
    BY <2>1, <2>2
<1>13. ASSUME NEW h \in Handlers, Consume(h)
       PROVE  TypeInv'
  <2>1. /\ DOMAIN items' \subseteq ItemIDs
        /\ items' \in [DOMAIN items' -> Item]
    <3>1. CASE UNCHANGED items
      BY <3>1 DEF TypeOK
    <3>2. CASE ~UNCHANGED items
      <4> DEFINE id == asked[h].id
                 taken == [items[id] EXCEPT !.consumed = TRUE]
      <4>1. id \in DOMAIN items /\ items' = [items EXCEPT ![id] = taken]
        BY <1>13, <3>2 DEF Consume, StillServable
      <4>2. taken \in Item
        BY <4>1 DEF TypeOK, Item
      <4> HIDE DEF taken, id
      <4> QED
        BY <4>1, <4>2 DEF TypeOK
    <3> QED
      BY <3>1, <3>2
  <2>2. handed' \in [Data -> Nat]
    BY <1>13 DEF Consume, TypeOK
  <2> QED
    BY <1>13, <2>1, <2>2, FinishType DEF Consume, TypeOK
<1>14. CASE Tick
  BY <1>14, TimeAssumption DEF Tick, TypeOK, ReqOK, armVars, handlerVars
<1>15. CASE UNCHANGED vars
  BY <1>15 DEF vars, TypeOK, ReqOK
<1> QED
  BY <1>1, <1>2, <1>3, <1>4, <1>5, <1>6, <1>7, <1>8, <1>9, <1>10, <1>11, <1>12,
     <1>13, <1>14, <1>15 DEF Next, Arm, ControlSessions, Step

\* Every behaviour of the bridge keeps its variables well typed, the request and
\* the item a handler carries between lock sections included.
THEOREM TypeCorrect == Spec => []TypeInv
<1> QED
  BY TypeInit, TypeNext, PTL DEF Spec
-----------------------------------------------------------------------------
(***************************************************************************)
(* Single use.  With random IDs an item ID is its content's name, so the   *)
(* item serveItem finds by ID after it locked again is the one it copied.  *)
(***************************************************************************)
\* A prepared snapshot has an ID of its own and nothing of it was handed out.
FreshArms ==
    \A p \in arming :
        /\ p.id <= minted
        /\ p.id # snapshot.id
        /\ \A q \in arming : p.id = q.id => p = q
        /\ \A id \in DOMAIN p.items : /\ p.items[id].data = id
                                      /\ id[1] = p.id
                                      /\ ~p.items[id].consumed
        /\ \A d \in Data : d[1] = p.id => handed[d] = 0

\* The armed items are those of the armed snapshot, each under its own name.
NamedItems ==
    /\ snapshot.id <= minted
    /\ snapshot.items = DOMAIN items
    /\ \A id \in DOMAIN items : items[id].data = id /\ id[1] = snapshot.id

\* Nothing of a snapshot that was never minted was handed out.
NothingUnminted == \A d \in Data : d[1] > minted => handed[d] = 0

\* A handler that copied an item out copied the one it was asked for.
CopiedWhatWasAsked ==
    \A h \in Handlers : pc[h] \in {"open", "consume"} => found[h].data = asked[h].id

Traced ==
    /\ FreshArms
    /\ NamedItems
    /\ NothingUnminted
    /\ CopiedWhatWasAsked
    /\ ConsumedMeansHanded
    /\ SingleUse

LEMMA TracedInit == Init => Traced
  BY DEF Init, Traced, FreshArms, NamedItems, NothingUnminted, CopiedWhatWasAsked,
         ConsumedMeansHanded, SingleUse, NoEntries, Nil

\* Steps that only move a handler touch nothing but what it carries.
LEMMA HandlerKeepsTraced ==
    ASSUME TypeInv, Traced, CopiedWhatWasAsked', UNCHANGED <<armVars, handed>>
    PROVE  Traced'
  BY DEF Traced, FreshArms, NamedItems, NothingUnminted, ConsumedMeansHanded, SingleUse,
         armVars

LEMMA FinishKeepsCopies ==
    ASSUME TypeInv, Traced, NEW h \in Handlers, Finish(h)
    PROVE  CopiedWhatWasAsked'
  BY DEF TypeInv, TypeOK, Traced, CopiedWhatWasAsked, Finish, Goto

LEMMA TracedNext ==
    ASSUME ~CallerNamesIDs
    PROVE  TypeInv /\ Traced /\ [Next]_vars => Traced'
<1> SUFFICES ASSUME TypeInv, Traced, [Next]_vars
             PROVE  Traced'
  OBVIOUS
<1>1. ASSUME NEW c \in Clipboards, PrepareArm(c)
      PROVE  Traced'
  <2>1. minted \in Nat /\ minted' = minted + 1 /\ minted' \in SnapshotIDs
    BY <1>1, SizeAssumption DEF PrepareArm, TypeInv, TypeOK, SnapshotIDs
  <2>2. PICK name \in IDChoices(minted', c) :
           arming' = arming \cup {[id |-> minted', expires |-> now + TTL(c),
                                   items |-> ItemsOf(minted', c, name)]}
    BY <1>1 DEF PrepareArm
  <2> DEFINE table == ItemsOf(minted', c, name)
  <2>3. \A id \in DOMAIN table : /\ table[id].data = id
                                 /\ id[1] = minted'
                                 /\ ~table[id].consumed
    <3>1. /\ DOMAIN table \subseteq ItemIDs
          /\ \A id \in DOMAIN table : /\ ~table[id].consumed
                                      /\ table[id].data = <<minted', id[2]>>
                                      /\ id[1] = minted'
      BY <2>1, ItemsOfType
    <3> HIDE DEF table
    <3> QED
      BY <3>1 DEF ItemIDs
  <2> HIDE DEF table
  <2>4. \A p \in arming : p.id \in Nat /\ p.id <= minted
    BY DEF TypeInv, TypeOK, Traced, FreshArms, SnapshotIDs
  <2>5. snapshot.id \in Nat /\ snapshot.id <= minted
    BY DEF TypeInv, TypeOK, Traced, NamedItems, Snapshot
  <2>6. \A d \in Data : d[1] \in Nat
    BY DEF Data, SnapshotIDs
  <2>7. FreshArms'
    <3> SUFFICES ASSUME NEW p \in arming'
                 PROVE  /\ p.id <= minted'
                        /\ p.id # snapshot.id
                        /\ \A q \in arming' : p.id = q.id => p = q
                        /\ \A id \in DOMAIN p.items : /\ p.items[id].data = id
                                                      /\ id[1] = p.id
                                                      /\ ~p.items[id].consumed
                        /\ \A d \in Data : d[1] = p.id => handed[d] = 0
      BY <1>1 DEF FreshArms, PrepareArm
    <3>1. CASE p \in arming
      BY <2>1, <2>2, <2>4, <3>1 DEF Traced, FreshArms
    <3>2. CASE p \notin arming
      <4>1. p.id = minted' /\ p.items = table
        BY <2>2, <3>2 DEF table
      <4>2. \A q \in arming' : p.id = q.id => p = q
        BY <2>1, <2>2, <2>4, <3>2, <4>1
      <4>3. \A d \in Data : d[1] = p.id => handed[d] = 0
        BY <2>1, <2>6, <4>1 DEF Traced, NothingUnminted
      <4> QED
        BY <2>1, <2>3, <2>5, <4>1, <4>2, <4>3
    <3> QED
      BY <3>1, <3>2
  <2>8. NamedItems'
    BY <1>1, <2>1, <2>5 DEF PrepareArm, Traced, NamedItems
  <2>9. NothingUnminted'
    BY <1>1, <2>1, <2>6 DEF PrepareArm, Traced, NothingUnminted
  <2>10. CopiedWhatWasAsked' /\ ConsumedMeansHanded' /\ SingleUse'
    BY <1>1 DEF PrepareArm, handlerVars, Traced, CopiedWhatWasAsked, ConsumedMeansHanded,
                SingleUse
  <2> QED
    BY <2>7, <2>8, <2>9, <2>10 DEF Traced
<1>2. ASSUME NEW p \in arming, InstallArm(p)
      PROVE  Traced'
  <2>1. FreshArms' /\ NothingUnminted' /\ CopiedWhatWasAsked' /\ SingleUse'
    BY <1>2 DEF InstallArm, handlerVars, Traced, FreshArms, NothingUnminted,
                CopiedWhatWasAsked, SingleUse
  <2>2. NamedItems'
    BY <1>2 DEF InstallArm, Traced, FreshArms, NamedItems
  <2>3. ConsumedMeansHanded'
    BY <1>2 DEF InstallArm, Traced, FreshArms, ConsumedMeansHanded, TypeInv, TypeOK, Item
  <2> QED
    BY <2>1, <2>2, <2>3 DEF Traced
<1>3. ASSUME UNCHANGED <<armVars, handlerVars, handed>>
      PROVE  Traced'
  BY <1>3, HandlerKeepsTraced DEF handlerVars, Traced, CopiedWhatWasAsked
<1>4. ASSUME NEW h \in Handlers, UNCHANGED <<armVars, handed>>, Finish(h)
      PROVE  Traced'
  BY <1>4, HandlerKeepsTraced, FinishKeepsCopies
<1>5. ASSUME NEW h \in Handlers, Receive(h) \/ ReceiveImage(h)
      PROVE  Traced'
  <2>1. CopiedWhatWasAsked'
    BY <1>5 DEF Receive, ReceiveImage, Goto, TypeInv, TypeOK, Traced, CopiedWhatWasAsked
  <2> QED
    BY <1>5, <2>1, HandlerKeepsTraced DEF Receive, ReceiveImage
<1>6. ASSUME NEW h \in Handlers, PickImage(h)
      PROVE  Traced'
  <2>1. CopiedWhatWasAsked'
    BY <1>6, FinishKeepsCopies
       DEF PickImage, Goto, TypeInv, TypeOK, Traced, CopiedWhatWasAsked
  <2> QED
    BY <1>6, <2>1, HandlerKeepsTraced DEF PickImage
<1>7. ASSUME NEW h \in Handlers, Authenticate(h)
      PROVE  Traced'
  <2>1. CopiedWhatWasAsked'
    BY <1>7, FinishKeepsCopies
       DEF Authenticate, Goto, TypeInv, TypeOK, Traced, CopiedWhatWasAsked
  <2> QED
    BY <1>7, <2>1, HandlerKeepsTraced DEF Authenticate
<1>8. ASSUME NEW h \in Handlers, LookUp(h)
      PROVE  Traced'
  <2>1. ASSUME ~Finish(h)
        PROVE  CopiedWhatWasAsked'
    <3>1. /\ asked[h].id \in DOMAIN items
          /\ found' = [found EXCEPT ![h] = items[asked[h].id]]
          /\ UNCHANGED asked
          /\ pc' = [pc EXCEPT ![h] = pc'[h]]
      BY <1>8, <2>1 DEF LookUp, Servable, Goto, TypeInv, TypeOK
    <3>2. found'[h].data = asked'[h].id
      BY <3>1 DEF Traced, NamedItems, TypeInv, TypeOK
    <3> QED
      BY <3>1, <3>2 DEF TypeInv, TypeOK, Traced, CopiedWhatWasAsked
  <2> QED
    BY <1>8, <2>1, HandlerKeepsTraced, FinishKeepsCopies DEF LookUp
<1>9. ASSUME NEW h \in Handlers, OpenVerifiedFile(h)
      PROVE  Traced'
  <2>1. CopiedWhatWasAsked'
    BY <1>9, FinishKeepsCopies
       DEF OpenVerifiedFile, Goto, TypeInv, TypeOK, Traced, CopiedWhatWasAsked
  <2> QED
    BY <1>9, <2>1, HandlerKeepsTraced DEF OpenVerifiedFile
<1>10. ASSUME NEW h \in Handlers, Consume(h), ~StillServable(h)
       PROVE  Traced'
  BY <1>4, <1>10 DEF Consume, armVars
<1>11. ASSUME NEW h \in Handlers, Consume(h), StillServable(h)
       PROVE  Traced'
  <2> DEFINE id == asked[h].id
  <2>1. /\ id \in DOMAIN items
        /\ ~items[id].consumed
        /\ items' = [items EXCEPT ![id].consumed = TRUE]
        /\ handed' = [handed EXCEPT ![found[h].data] = @ + 1]
        /\ pc[h] = "consume"
    BY <1>11 DEF Consume, StillServable
  <2>2. found[h].data = id /\ items[id].data = id /\ id \in Data
    BY <2>1 DEF Traced, CopiedWhatWasAsked, NamedItems, TypeInv, TypeOK, Item
  <2> HIDE DEF id
  <2>3. handed[id] = 0
    <3>1. handed[id] # 1
      BY <2>1, <2>2 DEF Traced, ConsumedMeansHanded
    <3>2. handed[id] \in Nat /\ handed[id] <= 1
      BY <2>2 DEF Traced, SingleUse, TypeInv, TypeOK
    <3> QED
      BY <3>1, <3>2
  <2>4. handed' = [handed EXCEPT ![id] = 1]
    BY <2>1, <2>2, <2>3 DEF TypeInv, TypeOK
  <2>5. handed'[id] = 1 /\ \A d \in Data : d # id => handed'[d] = handed[d]
    BY <2>2, <2>4 DEF TypeInv, TypeOK
  <2>6. id[1] = snapshot.id /\ id[1] <= minted /\ minted \in Nat /\ id[1] \in Nat
    BY <2>1 DEF Traced, NamedItems, TypeInv, TypeOK, Snapshot
  <2>7. DOMAIN items' = DOMAIN items /\ \A i \in DOMAIN items :
           /\ items'[i].data = items[i].data
           /\ i # id => items'[i] = items[i]
    BY <2>1 DEF TypeInv, TypeOK, Item
  <2>8. items'[id].consumed
    BY <2>1 DEF TypeInv, TypeOK, Item
  <2>9. FreshArms'
    BY <1>11, <2>5, <2>6 DEF Consume, Traced, FreshArms
  <2>10. NamedItems'
    BY <1>11, <2>7 DEF Consume, Traced, NamedItems
  <2>11. NothingUnminted'
    BY <1>11, <2>5, <2>6 DEF Consume, Traced, NothingUnminted
  <2>12. ConsumedMeansHanded'
    <3> SUFFICES ASSUME NEW i \in DOMAIN items
                 PROVE  items'[i].consumed <=> handed'[items'[i].data] = 1
      BY <2>7 DEF ConsumedMeansHanded
    <3>1. CASE i = id
      BY <2>2, <2>5, <2>7, <2>8, <3>1
    <3>2. CASE i # id
      <4>1. items[i].data = i /\ i \in Data
        BY DEF Traced, NamedItems, TypeInv, TypeOK, Item
      <4> QED
        BY <2>5, <2>7, <3>2, <4>1 DEF Traced, ConsumedMeansHanded
    <3> QED
      BY <3>1, <3>2
  <2>13. SingleUse'
    BY <2>5 DEF Traced, SingleUse
  <2>14. CopiedWhatWasAsked'
    BY <1>11, FinishKeepsCopies DEF Consume
  <2> QED
    BY <2>9, <2>10, <2>11, <2>12, <2>13, <2>14 DEF Traced
<1>12. CASE UNCHANGED vars
  BY <1>3, <1>12 DEF vars, armVars, handlerVars
<1>13. CASE Tick \/ ControlSessions \/ \E id \in DOMAIN items : FileChanges(id)
  BY <1>3, <1>13 DEF Tick, ControlSessions, RegisterPersistentSession, CreateSession,
                     RevokeSession, FileChanges
<1>14. ASSUME NEW h \in Handlers, Status(h)
       PROVE  Traced'
  BY <1>4, <1>14 DEF Status
<1> QED
  BY <1>1, <1>2, <1>5, <1>6, <1>7, <1>8, <1>9, <1>10, <1>11, <1>12, <1>13, <1>14
     DEF Next, Arm, Step

\* With random item IDs, whatever requests, arms, revocations and file edits
\* interleave, the content of an armed item is handed to at most one request.
THEOREM SingleUseHolds ==
    ASSUME ~CallerNamesIDs
    PROVE  Spec => []SingleUse
<1>1. TypeInv /\ Traced /\ [Next]_vars => TypeInv' /\ Traced'
  BY TypeNext, TracedNext
<1>2. Traced => SingleUse
  BY DEF Traced
<1> QED
  BY <1>1, <1>2, TypeInit, TracedInit, PTL DEF Spec

\* With random item IDs, an armed item is marked consumed exactly when its own
\* content went out: no reader burns an item it did not get.
THEOREM ConsumedMeansHandedHolds ==
    ASSUME ~CallerNamesIDs
    PROVE  Spec => []ConsumedMeansHanded
<1>1. TypeInv /\ Traced /\ [Next]_vars => TypeInv' /\ Traced'
  BY TypeNext, TracedNext
<1>2. Traced => ConsumedMeansHanded
  BY DEF Traced
<1> QED
  BY <1>1, <1>2, TypeInit, TracedInit, PTL DEF Spec

\* With random item IDs, a content goes out only while its snapshot is the armed
\* one, and to a guest only when its session was created for that snapshot.
THEOREM HandedIsEntitledHolds ==
    ASSUME ~CallerNamesIDs
    PROVE  Spec => [][HandsToEntitled]_vars
<1> DEFINE Entitled(d) ==
              /\ d[1] = snapshot.id
              /\ \E h \in Handlers : /\ pc[h] = "consume"
                                     /\ found[h].data = d
                                     /\ grant[h].persistent \/ grant[h].snapshot = d[1]
<1>1. ASSUME TypeInv, Traced, [Next]_vars, NEW d \in Data, handed'[d] > handed[d]
      PROVE  Entitled(d)
  <2>1. handed[d] \in Nat
    BY <1>1 DEF TypeInv, TypeOK
  <2>2. handed' # handed
    BY <1>1, <2>1
  <2>3. PICK h \in Handlers : Consume(h) /\ StillServable(h)
    BY <1>1, <2>2
       DEF Next, Arm, PrepareArm, InstallArm, FileChanges, ControlSessions,
           RegisterPersistentSession, CreateSession, RevokeSession, Receive, ReceiveImage,
           Step, PickImage, Authenticate, LookUp, Status, OpenVerifiedFile, Consume, Tick, vars
  <2>4. found[h].data \in Data /\ found[h].data = asked[h].id
    BY <1>1, <2>3 DEF Consume, TypeInv, TypeOK, ReqOK, Traced, CopiedWhatWasAsked, Item
  <2>5. found[h].data = d
    BY <1>1, <2>1, <2>3, <2>4 DEF Consume, TypeInv, TypeOK
  <2>6. d[1] = snapshot.id
    BY <1>1, <2>3, <2>4, <2>5 DEF StillServable, Traced, NamedItems
  <2> QED
    BY <2>3, <2>5, <2>6 DEF Consume, StillServable, Allowed
<1>2. TypeInv /\ Traced /\ [Next]_vars => TypeInv' /\ Traced'
  BY TypeNext, TracedNext
<1>3. TypeInv /\ Traced /\ [Next]_vars => [HandsToEntitled]_vars
  BY <1>1 DEF HandsToEntitled
<1> QED
  BY <1>2, <1>3, TypeInit, TracedInit, PTL DEF Spec

LEMMA GuestsInit == Init => LiveGuestsMatchSnapshot
  BY DEF Init, LiveGuestsMatchSnapshot, NoEntries

LEMMA GuestsNext == TypeInv /\ LiveGuestsMatchSnapshot /\ [Next]_vars
                       => LiveGuestsMatchSnapshot'
<1> SUFFICES ASSUME TypeInv, LiveGuestsMatchSnapshot, [Next]_vars
             PROVE  LiveGuestsMatchSnapshot'
  OBVIOUS
<1>1. ASSUME NEW p \in arming, InstallArm(p)
      PROVE  LiveGuestsMatchSnapshot'
  <2> SUFFICES ASSUME NEW id \in DOMAIN sessions, ~sessions'[id].persistent
               PROVE  sessions'[id].revoked
    BY <1>1 DEF InstallArm, LiveGuestsMatchSnapshot
  <2> QED
    BY <1>1 DEF InstallArm, TypeInv, TypeOK, Session
<1>2. ASSUME sessions' = Pruned, UNCHANGED snapshot
      PROVE  LiveGuestsMatchSnapshot'
  BY <1>2, PrunedType DEF LiveGuestsMatchSnapshot, TypeInv
<1>3. ASSUME NEW k, NEW v, sessions' = Put(Pruned, k, v), UNCHANGED snapshot,
             v.persistent \/ v.snapshot = snapshot.id
      PROVE  LiveGuestsMatchSnapshot'
  BY <1>3, PrunedType DEF LiveGuestsMatchSnapshot, TypeInv, Put
<1>4. ASSUME NEW p \in Profiles, NEW t \in ProfileTokens[p], RegisterPersistentSession(p, t)
      PROVE  LiveGuestsMatchSnapshot'
  BY <1>3, <1>4 DEF RegisterPersistentSession, armVars
<1>5. ASSUME NEW g \in Guests, CreateSession(g)
      PROVE  LiveGuestsMatchSnapshot'
  BY <1>2, <1>3, <1>5 DEF CreateSession, armVars
<1>6. ASSUME NEW id \in DOMAIN sessions, RevokeSession(id)
      PROVE  LiveGuestsMatchSnapshot'
  BY <1>6 DEF RevokeSession, LiveGuestsMatchSnapshot, armVars, TypeInv, TypeOK, Session
<1>7. ASSUME NEW h \in Handlers, Authenticate(h)
      PROVE  LiveGuestsMatchSnapshot'
  BY <1>2, <1>7 DEF Authenticate, armVars
<1>8. ASSUME UNCHANGED <<sessions, snapshot>>
      PROVE  LiveGuestsMatchSnapshot'
  BY <1>8 DEF LiveGuestsMatchSnapshot
<1> QED
  BY <1>1, <1>4, <1>5, <1>6, <1>7, <1>8
     DEF Next, Arm, PrepareArm, FileChanges, ControlSessions, Receive, ReceiveImage, Step,
         PickImage, LookUp, Status, OpenVerifiedFile, Consume, Tick, vars, armVars

\* Arming a new snapshot leaves no guest session of an older one usable.
THEOREM LiveGuestsMatchSnapshotHolds == Spec => []LiveGuestsMatchSnapshot
  BY TypeInit, TypeNext, GuestsInit, GuestsNext, PTL DEF Spec

\* With random item IDs, what the bridge hands out and the guest sessions it keeps are
\* those of the armed snapshot, for any number of requests, sessions and arms.
THEOREM OnlyEntitledReadHolds ==
    ASSUME ~CallerNamesIDs
    PROVE  Spec => OnlyEntitledRead
<1>1. Spec => [][HandsToEntitled]_vars
  BY HandedIsEntitledHolds
<1> QED
  BY <1>1, LiveGuestsMatchSnapshotHolds, PTL DEF OnlyEntitledRead
-----------------------------------------------------------------------------
(***************************************************************************)
(* The bridge implements OneShot.                                          *)
(***************************************************************************)
Past  == (1..minted) \ {p.id : p \in arming}
Armed == {items[id].data : id \in {i \in DOMAIN items : ~items[i].consumed}}

LEMMA PromiseInit == Init => Promise!Init
<1> SUFFICES ASSUME Init PROVE Promise!Init
  OBVIOUS
<1>1. Past = {} /\ Armed = {}
  BY DEF Init, Past, Armed, NoEntries
<1>2. handed = [d \in SnapshotIDs \X Slots |-> 0]
  BY DEF Init, Data
<1> QED
  BY <1>1, <1>2 DEF Promise!Init, Promise!Contents, Past, Armed

\* Under Traced the armed contents are the unconsumed IDs themselves.
LEMMA ArmedIDs ==
    ASSUME Traced
    PROVE  Armed = {id \in DOMAIN items : ~items[id].consumed}
  BY DEF Traced, NamedItems, Armed

LEMMA PromiseStep ==
    ASSUME ~CallerNamesIDs, TypeInv, Traced, Traced', [Next]_vars
    PROVE  [Promise!Next]_(Promise!oneShotVars)
<1>1. ASSUME NEW c \in Clipboards, PrepareArm(c)
      PROVE  UNCHANGED <<Past, Armed, handed>>
  <2>1. minted \in Nat /\ minted' = minted + 1
    BY <1>1 DEF PrepareArm, TypeInv, TypeOK
  <2>2. {p.id : p \in arming'} = {p.id : p \in arming} \cup {minted'}
    <3>1. \E e : e.id = minted' /\ arming' = arming \cup {e}
      BY <1>1 DEF PrepareArm
    <3> QED
      BY <3>1
  <2>3. Past' = Past
    <3>1. 1..minted' = (1..minted) \cup {minted'} /\ minted' \notin 1..minted
      BY <2>1
    <3> QED
      BY <2>2, <3>1 DEF Past
  <2> QED
    BY <1>1, <2>3 DEF PrepareArm, Armed
<1>2. ASSUME NEW p \in arming, InstallArm(p)
      PROVE  Promise!PutOut(p.id) /\ p.id \in SnapshotIDs
  <2>1. p.id \in 1..minted /\ p.id \in SnapshotIDs
    BY DEF TypeInv, TypeOK, SnapshotIDs, Traced, FreshArms
  <2>2. {q.id : q \in arming'} = {q.id : q \in arming} \ {p.id}
    BY <1>2 DEF InstallArm, Traced, FreshArms
  <2>3. p.id \notin Past /\ Past' = Past \cup {p.id}
    BY <1>2, <2>1, <2>2 DEF InstallArm, Past
  <2>4. Armed' \subseteq {p.id} \X Slots
    <3>1. \A id \in DOMAIN items' : id \in Data /\ id[1] = p.id /\ items'[id].data = id
      BY <1>2 DEF InstallArm, Traced, FreshArms, TypeInv, TypeOK, Item
    <3> QED
      BY <3>1 DEF Armed, Data
  <2> QED
    BY <1>2, <2>1, <2>3, <2>4 DEF Promise!PutOut, InstallArm, Past, Armed
<1>3. ASSUME NEW h \in Handlers, Consume(h), StillServable(h)
      PROVE  \E d \in Armed : Promise!HandOver(d)
  <2> DEFINE id == asked[h].id
  <2>1. /\ id \in DOMAIN items
        /\ ~items[id].consumed
        /\ items' = [items EXCEPT ![id].consumed = TRUE]
        /\ handed' = [handed EXCEPT ![found[h].data] = @ + 1]
        /\ found[h].data = id
        /\ UNCHANGED <<minted, arming>>
    BY <1>3 DEF Consume, StillServable, Traced, CopiedWhatWasAsked
  <2> HIDE DEF id
  <2>2. id \in Armed
    BY <2>1, ArmedIDs
  <2>3. Armed' = Armed \ {id}
    <3>1. Armed' = {i \in DOMAIN items' : ~items'[i].consumed}
      BY DEF Traced, NamedItems, Armed
    <3>2. /\ DOMAIN items' = DOMAIN items
          /\ items'[id].consumed
          /\ \A i \in DOMAIN items : i # id => items'[i] = items[i]
      BY <2>1 DEF TypeInv, TypeOK, Item
    <3> QED
      BY <2>1, <3>1, <3>2, ArmedIDs
  <2>4. UNCHANGED Past
    BY <2>1 DEF Past
  <2> QED
    BY <2>1, <2>2, <2>3, <2>4 DEF Promise!HandOver, Past, Armed
<1>4. ASSUME UNCHANGED <<armVars, handed>>
      PROVE  UNCHANGED <<Past, Armed, handed>>
  BY <1>4 DEF armVars, Past, Armed
<1>5. ASSUME NEW h \in Handlers, Consume(h), ~StillServable(h)
      PROVE  UNCHANGED <<Past, Armed, handed>>
  BY <1>4, <1>5 DEF Consume, armVars
<1>6. ASSUME UNCHANGED <<Past, Armed, handed>>
      PROVE  UNCHANGED Promise!oneShotVars
  BY <1>6 DEF Promise!oneShotVars, Past, Armed
<1>7. \/ UNCHANGED <<Past, Armed, handed>>
      \/ \E p \in arming : Promise!PutOut(p.id) /\ p.id \in SnapshotIDs
      \/ \E d \in Armed : Promise!HandOver(d)
  BY <1>1, <1>2, <1>3, <1>4, <1>5
     DEF Next, Arm, FileChanges, ControlSessions, RegisterPersistentSession, CreateSession,
         RevokeSession, Receive, ReceiveImage, Step, PickImage, Authenticate, LookUp, Status,
         OpenVerifiedFile, Tick, vars, armVars
<1> QED
  BY <1>6, <1>7 DEF Promise!Next, Armed

\* With random item IDs the bridge is a OneShot dispenser: every step of its
\* handlers and of the control plane puts out a new generation, hands one armed
\* content over, or changes nothing a reader can tell.
THEOREM ImplementsOneShotHolds ==
    ASSUME ~CallerNamesIDs
    PROVE  Spec => ImplementsOneShot
<1>1. TypeInv /\ Traced /\ [Next]_vars => TypeInv' /\ Traced'
  BY TypeNext, TracedNext
<1>2. TypeInv /\ Traced /\ Traced' /\ [Next]_vars => [Promise!Next]_(Promise!oneShotVars)
  BY PromiseStep
<1> QED
  BY <1>1, <1>2, TypeInit, TracedInit, PromiseInit, PTL DEF Spec, ImplementsOneShot, Promise!Spec
=============================================================================
