----------------------------- MODULE Materialize -----------------------------
(***************************************************************************)
(* HTTPProvider.MaterializeFiles, on the server: a call of an MCP process  *)
(* reads the bridge's status, cleans the inbox that every MCP process of   *)
(* the account shares, makes a directory there and downloads the requested *)
(* files into it, one by one.  The bridge hands each item out once, calls  *)
(* and processes may end at any step, and every starting process cleans    *)
(* the inbox too.  Time is counted in ticks.                               *)
(***************************************************************************)
EXTENDS Naturals, Sequences, FiniteSets

CONSTANTS
    Calls,      \* the calls of the tool, and the starts of MCP processes
    Items,      \* the file items of the armed snapshot
    Name,       \* the name each item has; two may share one
    Requests,   \* the sequences of item ids agents ask for
    Transfer,   \* fileTransferTTL
    Retention,  \* inboxRetention
    MaxNow      \* bound: the ticks

ASSUME RequestsAssumption == \A r \in Requests : r \in Seq(Items) /\ Len(r) \in 1..5
ASSUME TimesAssumption    == Transfer \in Nat \ {0} /\ Retention \in Nat /\ MaxNow \in Nat
\* Two minutes and thirty.
ASSUME RetentionAssumption == Transfer <= Retention

VARIABLES
    now,
    consumed,  \* the items the bridge has handed out
    pc,        \* where each call stands
    ids,       \* the items it was asked for; none for a starting process
    got,       \* how many of them it has downloaded
    todo,      \* the directories its clean-up has still to look at
    since,     \* when its current download began
    body,      \* whether what arrives is what the status described
    inbox      \* the directories: which call made each, its mtime and files

vars == <<now, consumed, pc, ids, got, todo, since, body, inbox>>

Paths == {<<Name[i]>> : i \in Items} \cup {<<i, Name[i]>> : i \in Items}
Files == [item: Items, path: Paths, whole: BOOLEAN]
None  == [mtime |-> 0, files |-> {}, there |-> FALSE]
Empty(at) == [mtime |-> at, files |-> {}, there |-> TRUE]

TypeOK ==
    /\ now \in 0..MaxNow
    /\ consumed \subseteq Items
    /\ pc \in [Calls -> {"idle", "list", "clean", "make", "get", "write", "done",
                         "failed", "unsecured", "killed"}]
    /\ ids \in [Calls -> Requests \cup {<<>>}]
    /\ \A c \in Calls : got[c] \in 0..Len(ids[c])
    /\ todo \in [Calls -> SUBSET Calls]
    /\ since \in [Calls -> 0..MaxNow]
    /\ body \in [Calls -> BOOLEAN]
    /\ inbox \in [Calls -> [mtime: 0..MaxNow, files: SUBSET Files, there: BOOLEAN]]

Init ==
    /\ now = 0 /\ consumed = {}
    /\ pc = [c \in Calls |-> "idle"]
    /\ ids = [c \in Calls |-> <<>>]
    /\ got = [c \in Calls |-> 0]
    /\ todo = [c \in Calls |-> {}]
    /\ since = [c \in Calls |-> 0]
    /\ body = [c \in Calls |-> FALSE]
    /\ inbox = [c \in Calls |-> None]

Go(c, to) == pc' = [pc EXCEPT ![c] = to]
Directories == {d \in Calls : inbox[d].there}
-----------------------------------------------------------------------------
(* The start of a call, and the clean-up of the inbox.                     *)

\* Status and the checks against it: every id is an item still to be had.  Then the
\* inbox, which is made where it is missing.
SelectItems(c) ==
    /\ pc[c] = "idle"
    /\ \E r \in Requests :
         /\ ids' = [ids EXCEPT ![c] = r]
         /\ \/ (\A k \in DOMAIN r : r[k] \notin consumed) /\ Go(c, "list")
            \/ Go(c, "failed")
    /\ UNCHANGED <<now, consumed, got, todo, since, body, inbox>>

\* NewHTTPProvider: a starting process cleans the inbox.
NewProcess(c) ==
    /\ pc[c] = "idle"
    /\ Go(c, "list")
    /\ UNCHANGED <<now, consumed, ids, got, todo, since, body, inbox>>

\* os.ReadDir.  What fails here fails the call; a starting process goes on.
ListInbox(c) ==
    /\ pc[c] = "list"
    /\ \/ Go(c, "clean") /\ todo' = [todo EXCEPT ![c] = Directories]
       \/ Go(c, "failed") /\ UNCHANGED todo
    /\ UNCHANGED <<now, consumed, ids, got, since, body, inbox>>

\* Mutant of Expired: the retention counts from the first tick on.
ExpiredAtOnce(d) == inbox[d].mtime < now

\* info.ModTime().Before(cutoff)
Expired(d) == inbox[d].mtime + Retention < now

\* cleanupInbox looks at the next entry.  One that is gone meanwhile, or that it cannot
\* remove, fails it.
CleanInbox(c) ==
    /\ pc[c] = "clean"
    /\ \E d \in todo[c] :
         \/ /\ inbox[d].there
            /\ inbox' = [inbox EXCEPT ![d] = IF Expired(d) THEN None ELSE @]
            /\ todo' = [todo EXCEPT ![c] = @ \ {d}]
            /\ UNCHANGED pc
         \/ /\ ~inbox[d].there \/ Expired(d)
            /\ Go(c, "failed")
            /\ UNCHANGED <<inbox, todo>>
    /\ UNCHANGED <<now, consumed, ids, got, since, body>>

\* The clean-up is over: a process that started is ready, a call makes its directory.
\* The chmod after that may fail, too, and is before the deferred removal.
MakeDirectory(c) ==
    /\ pc[c] = "clean" /\ todo[c] = {}
    /\ IF ids[c] = <<>>
       THEN Go(c, "done") /\ UNCHANGED <<inbox, since>>
       ELSE \/ /\ inbox' = [inbox EXCEPT ![c] = Empty(now)]
               /\ \/ Go(c, "get") /\ since' = [since EXCEPT ![c] = now]
                  \/ Go(c, "unsecured") /\ UNCHANGED since
            \/ Go(c, "failed") /\ UNCHANGED <<inbox, since>>
    /\ UNCHANGED <<now, consumed, ids, got, todo, body>>
-----------------------------------------------------------------------------
(* downloadFile.                                                           *)

Next1(c) == ids[c][got[c] + 1]

\* Mutant of Fail: what was downloaded stays.
FailKeeps(c) == Go(c, "failed") /\ UNCHANGED inbox

\* A call that returns an error removes its directory.
Fail(c) ==
    /\ Go(c, "failed")
    /\ inbox' = [inbox EXCEPT ![c] = None]

\* The bridge hands the item out, once: the response may get lost, may be of
\* another file than the status said, or may break off later.
Get(c) ==
    /\ pc[c] = "get" /\ got[c] < Len(ids[c])
    /\ LET i == Next1(c)
       IN  \/ /\ i \notin consumed
              /\ consumed' = consumed \cup {i}
              /\ \/ /\ inbox' = [inbox EXCEPT ![c].mtime = now]
                    /\ \E whole \in BOOLEAN : body' = [body EXCEPT ![c] = whole]
                    /\ Go(c, "write")
                 \/ Fail(c) /\ UNCHANGED body
           \/ Fail(c) /\ UNCHANGED <<consumed, body>>
    /\ UNCHANGED <<now, ids, got, todo, since>>

\* Mutant of Target: the name is used whether or not it is taken.
TargetByName(c) == <<Name[Next1(c)]>>

\* The item's name, or its id and name where the name is taken.
Target(c) ==
    LET i == Next1(c)
    IN  IF \E f \in inbox[c].files : f.path = <<Name[i]>> THEN <<i, Name[i]>> ELSE <<Name[i]>>

\* The length and the hash are those of the status; the file is renamed to its
\* name, over whatever has it.
Write(c) ==
    /\ pc[c] = "write"
    /\ LET path == Target(c)
           kept == {f \in inbox[c].files : f.path # path}
           file == [item |-> Next1(c), path |-> path, whole |-> body[c]]
       IN  \/ /\ body[c]
              /\ inbox' = [inbox EXCEPT ![c].mtime = now, ![c].files = kept \cup {file}]
              /\ got' = [got EXCEPT ![c] = @ + 1]
              /\ since' = [since EXCEPT ![c] = now]
              /\ Go(c, "get")
           \/ Fail(c) /\ UNCHANGED <<got, since>>
    /\ UNCHANGED <<now, consumed, ids, todo, body>>

\* Every file is there.
Return(c) ==
    /\ pc[c] = "get" /\ got[c] = Len(ids[c])
    /\ Go(c, "done")
    /\ UNCHANGED <<now, consumed, ids, got, todo, since, body, inbox>>

\* The agent's session ends, and its MCP process with it.
Kill(c) ==
    /\ pc[c] \in {"list", "clean", "get", "write"}
    /\ Go(c, "killed")
    /\ UNCHANGED <<now, consumed, ids, got, todo, since, body, inbox>>

\* Time passes; no download takes longer than its time-out.
Tick ==
    /\ now < MaxNow
    /\ \A c \in Calls : pc[c] \in {"get", "write"} => now < since[c] + Transfer
    /\ now' = now + 1
    /\ UNCHANGED <<consumed, pc, ids, got, todo, since, body, inbox>>

Work(c) ==
    \/ ListInbox(c) \/ CleanInbox(c) \/ MakeDirectory(c)
    \/ Get(c) \/ Write(c) \/ Return(c)

Next ==
    \/ \E c \in Calls : SelectItems(c) \/ NewProcess(c) \/ Work(c) \/ Kill(c)
    \/ Tick

Spec == Init /\ [][Next]_vars
-----------------------------------------------------------------------------
(***************************************************************************)
(* Properties.                                                             *)
(***************************************************************************)
\* What a call returns is all it was asked for: one whole file per id, each
\* under a path of its own, names that clash included.  A call that fails leaves
\* nothing behind, not even the files that came whole; only where the chmod of its
\* directory failed, before any download, an empty one stays for the clean-ups.
AllOrNothing ==
    \A c \in Calls :
        /\ pc[c] = "done" /\ inbox[c].there =>
              /\ \A k \in DOMAIN ids[c] : \E f \in inbox[c].files : f.item = ids[c][k] /\ f.whole
              /\ Cardinality(inbox[c].files) = Len(ids[c])
        /\ pc[c] = "failed" => ~inbox[c].there
        /\ pc[c] = "unsecured" => inbox[c].files = {}

\* The clean-ups of other processes take no directory from a call that is still
\* downloading into it, nor from an agent before the retention is over.
OthersCleanOldOnly ==
    \A c \in Calls :
        /\ pc[c] \in {"get", "write"} => inbox[c].there
        /\ pc[c] = "done" /\ ids[c] # <<>> /\ ~inbox[c].there => now > since[c] + Retention
=============================================================================
