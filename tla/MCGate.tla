------------------------------- MODULE MCGate -------------------------------
(***************************************************************************)
(* Gate for TLC: small instances, one cfg per question.                    *)
(***************************************************************************)
EXTENDS Gate, TLC

\* One roster that outlives the horizon, and one that ends within it.
LongRoster == {[end |-> MaxTime + 1, admits |-> Bodies]}
ShortRosters == LongRoster \cup {[end |-> 2, admits |-> Bodies]}

Symmetry ==
    UNION {Permutations(S) : S \in {Engines, HoldIds, GrantIds, Keys}}

Serves(e) == Request(e) \/ Sweep(e) \/ Write(e) \/ SignerFails(e)

\* A process whose supervisor starts it again as it was: a later start, or
\* another boot, would only allow it less.
SameNext == Tick \/ \E e \in Engines : Serves(e) \/ Restart(e, trust[e])

SameSpec == Init /\ [][SameNext]_vars

=============================================================================
