----------------------------- MODULE AtomicPins -----------------------------
(***************************************************************************)
(* What pins.rs promises: changes of the pins take effect one at a time,   *)
(* each exactly once and upon what the one before has left, or not at all. *)
(***************************************************************************)
CONSTANTS Threads, Operations, None, Start, Apply(_, _)

VARIABLES pins,    \* the pins of the account
          asked    \* the change each thread has asked for and not made, or None

Init == pins = Start /\ asked = [t \in Threads |-> None]

Ask(t, o) ==
    /\ asked[t] = None
    /\ asked' = [asked EXCEPT ![t] = o]
    /\ UNCHANGED pins

Change(t) ==
    /\ asked[t] # None
    /\ pins' = Apply(asked[t], pins)
    /\ asked' = [asked EXCEPT ![t] = None]

\* The change is refused, or its process dies first.
Drop(S) ==
    /\ asked' = [t \in Threads |-> IF t \in S THEN None ELSE asked[t]]
    /\ UNCHANGED pins

Next ==
    \/ \E t \in Threads : Change(t) \/ \E o \in Operations : Ask(t, o)
    \/ \E S \in SUBSET Threads : Drop(S)

Spec == Init /\ [][Next]_<<pins, asked>>
=============================================================================
