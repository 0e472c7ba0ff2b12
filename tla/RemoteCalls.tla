---------------------------- MODULE RemoteCalls ----------------------------
(***************************************************************************)
(* What a user of the UART transfer protocol may count on: one call at a    *)
(* time, and the outcome it is told is one the peer gave for that call,      *)
(* after it was made; or it is told nothing is known.  The peer may run a    *)
(* call any number of times.                                                *)
(***************************************************************************)
EXTENDS Naturals

CONSTANTS Calls, Outcomes, NoCall, Unknown

VARIABLES
    call,     \* the call in progress
    given,    \* the outcomes the peer gave for it
    told      \* what its maker was told

vars == <<call, given, told>>

Init == call = NoCall /\ given = {} /\ told = Unknown

Make(c) ==
    /\ call = NoCall
    /\ call' = c /\ given' = {} /\ told' = Unknown

Run(o) ==
    /\ call # NoCall
    /\ given' = given \cup {o} /\ UNCHANGED <<call, told>>

Return ==
    /\ call # NoCall
    /\ call' = NoCall /\ told' \in given \cup {Unknown} /\ UNCHANGED given

Next == (\E c \in Calls : Make(c)) \/ (\E o \in Outcomes : Run(o)) \/ Return

Spec == Init /\ [][Next]_vars
=============================================================================
