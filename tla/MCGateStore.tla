---------------------------- MODULE MCGateStore -----------------------------
(***************************************************************************)
(* Gate over one durable store, for TLC.  A behaviour is one of two        *)
(* scenarios: two processes of one boot race, or one of them works alone   *)
(* and restarts, with other boots, epochs and rosters.                     *)
(***************************************************************************)
EXTENDS MCGate

CONSTANTS Worker, Only     \* the process that works alone, and its grant

VARIABLE alone             \* whether it does

\* The first boot: which of the boots and roots it has changes nothing.
First == [boot |-> CHOOSE x \in Boots : TRUE, start |-> 0, root |-> CHOOSE r \in Roots : TRUE,
          roster |-> CHOOSE r \in LongRoster : TRUE]

MCInit ==
    /\ Init
    /\ alone \in BOOLEAN
    /\ \A e \in Engines : trust[e].boot = First.boot /\ trust[e].root = First.root
    /\ alone => \A e \in Engines \ {Worker} : trust[e] = First

\* The start of a boot is only ever compared with the creation of a hold: one
\* before all holds, one after, and the moment itself stand for the others.
Restarts ==
    \E t \in [boot : Boots, start : {0, now, now + BootSkew}, root : Roots, roster : Rosters] :
       Restart(Worker, t)

MCNext ==
    /\ UNCHANGED alone
    /\ \/ Tick
       \/ ~ alone /\ \E e \in Engines : Serves(e)
       \/ alone /\ Serves(Worker) /\ \A g \in GrantIds \ {Only} : ~ Exists(g)'
       \/ alone /\ Restarts

MCSpec == MCInit /\ [][MCNext]_<<vars, alone>>
=============================================================================
