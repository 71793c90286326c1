------------------------------- MODULE MCLive -------------------------------
(***************************************************************************)
(* What must eventually happen, for TLC: the sweeps of a gate under the    *)
(* wrapper (the constants of the cfg), and the long polls of a relay       *)
(* (Polls).  A behaviour takes one of the two.                             *)
(***************************************************************************)
EXTENDS Guard

VARIABLES
    part,
    mem, disk, up, locked, failures, boots,
    relayNow, receipts, posts, waiting, told, unsaved

ShortRoster == {[end |-> 2, admits |-> Bodies]}

Polls ==
    INSTANCE Relay WITH
        Devices <- {"phone"}, Holds <- {"hold"}, Keys <- {"key"}, Actions <- {"act"},
        Deferreds <- {"deferred"}, Verdicts <- {"ALLOWED"},
        Ttl <- 2, Timeout <- 1, MaxPosts <- 1, MaxWaits <- 2,
        MaxFailures <- 0, MaxBoots <- 2, now <- relayNow

relayVars == <<mem, disk, up, locked, failures, boots, relayNow, receipts, posts,
               waiting, told, unsaved>>

LiveInit == part \in {"gate", "relay"} /\ GuardInit /\ Polls!Init

GateStep(A) == part = "gate" /\ A /\ UNCHANGED <<relayVars, part>>
RelayStep(A) == part = "relay" /\ A /\ UNCHANGED <<allVars, part>>

LiveNext == GateStep(GuardNext) \/ RelayStep(Polls!Next)

liveVars == <<allVars, relayVars, part>>

(* The fairness of Guard and of Relay, for the one that runs.              *)
LiveSpec ==
    /\ LiveInit
    /\ [][LiveNext]_liveVars
    /\ \A e \in Engines :
          /\ \A g \in GrantIds : SF_liveVars(GateStep(SweepsGrant(e, g)))
          /\ \A h \in HoldIds : SF_liveVars(GateStep(SweepsHold(e, h)))
          /\ SF_liveVars(GateStep(Settles(e)))
          /\ SF_liveVars(GateStep(Corroborates(e)))
          /\ WF_liveVars(GateStep(Served(e)))
    /\ WF_liveVars(GateStep(Ticks))
    /\ WF_liveVars(RelayStep(Polls!Tick))
    /\ WF_liveVars(RelayStep(Polls!Sweep))
    /\ WF_liveVars(RelayStep(\E w \in waiting : Polls!PollEnds(w)))

(* A long poll of the relay ends (wait, wake and its timer).               *)
EveryWaitEnds == Polls!EveryWaitEnds
=============================================================================
