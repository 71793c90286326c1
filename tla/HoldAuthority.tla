--------------------------- MODULE HoldAuthority ---------------------------
(***************************************************************************)
(* What the gate promises about one human approval, without processes,     *)
(* stores or signatures: a hold is opened once and leaves the open state   *)
(* once, only an approval makes it usable, and it is used at most once.    *)
(***************************************************************************)
EXTENDS Naturals

CONSTANT Holds

VARIABLES
    state,   \* what became of each hold
    uses     \* how many executions its approval has admitted

Init ==
    /\ state = [h \in Holds |-> "none"]
    /\ uses = [h \in Holds |-> 0]

Open(h) ==
    /\ state[h] = "none"
    /\ state' = [state EXCEPT ![h] = "open"]
    /\ UNCHANGED uses

Resolve(h) ==
    /\ state[h] = "open"
    /\ state' \in {[state EXCEPT ![h] = s] : s \in {"granted", "closed"}}
    /\ UNCHANGED uses

Use(h) ==
    /\ state[h] = "granted"
    /\ uses[h] = 0
    /\ uses' = [uses EXCEPT ![h] = 1]
    /\ UNCHANGED state

Next == \E h \in Holds : Open(h) \/ Resolve(h) \/ Use(h)

Spec == Init /\ [][Next]_<<state, uses>>
=============================================================================
