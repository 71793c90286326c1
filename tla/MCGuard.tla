------------------------------ MODULE MCGuard -------------------------------
(***************************************************************************)
(* Guard for TLC.  A behaviour is one of two scenarios: two gate processes *)
(* over one store serve one action under one key, or one process serves    *)
(* two actions under two keys and guard is run again.                      *)
(***************************************************************************)
EXTENDS Guard, TLC

CONSTANTS Nobody, Action   \* no process stands by; the one shared action

VARIABLES standby          \* the process that takes no part, if any

LongRoster == {[end |-> MaxTime + 1, admits |-> Bodies]}

(* The keys and actions the invocations have asked for.                    *)
Asked(f) == {inv[i][f] : i \in {j \in Invocations : inv[j] # NotStarted}}

Scenario ==
    IF standby = Nobody
    THEN Asked("body") \subseteq {Action} /\ Cardinality(Asked("key")) <= 1
    ELSE now <= 1 /\ op[standby] = Idle /\ serving[standby] = None

MCInit == GuardInit /\ standby \in Engines \cup {Nobody}

MCNext == GuardNext /\ UNCHANGED standby /\ Scenario'

MCSpec == MCInit /\ [][MCNext]_<<allVars, standby>>

Symmetry ==
    UNION {Permutations(S) : S \in {Engines, Keys, HoldIds, GrantIds, Invocations}}
=============================================================================
