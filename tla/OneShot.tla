------------------------------ MODULE OneShot -------------------------------
(***************************************************************************)
(* What the clipboard bridge promises its readers, without sessions, locks,*)
(* files or time: contents are put out one generation at a time, a new     *)
(* generation withdraws the one before it for good, and each content is    *)
(* handed over at most once.                                               *)
(***************************************************************************)
EXTENDS Naturals

CONSTANTS Generations, Slots

VARIABLES
    past,    \* generations that have been put out
    armed,   \* contents a reader may still get
    handed   \* how many times each content was handed over

Contents == Generations \X Slots

oneShotVars == <<past, armed, handed>>

Init ==
    /\ past = {}
    /\ armed = {}
    /\ handed = [d \in Contents |-> 0]

PutOut(g) ==
    /\ g \notin past
    /\ past' = past \cup {g}
    /\ armed' \in SUBSET ({g} \X Slots)
    /\ UNCHANGED handed

HandOver(d) ==
    /\ armed' = armed \ {d}
    /\ handed' = [handed EXCEPT ![d] = @ + 1]
    /\ UNCHANGED past

Next ==
    \/ \E g \in Generations : PutOut(g)
    \/ \E d \in armed : HandOver(d)

Spec == Init /\ [][Next]_oneShotVars
=============================================================================
