--------------------------- MODULE MCEffectOwner ---------------------------
(***************************************************************************)
(* EffectOwner for TLC: a ledger of two accounts, a small transfer and one *)
(* of the whole balance, one to an account the ledger does not have, and   *)
(* an action that a wrapper executes.                                      *)
(*                                                                         *)
(* A behaviour takes one of two instances: an effect owner that restarts   *)
(* and loses its ledger, or two owners over one store.                     *)
(***************************************************************************)
EXTENDS Naturals, TLC

CONSTANTS
    pay, drain, stray, plain, acc1, acc2, acc3,
    c1, c2, a1, r1, Omitted, None,
    Alone, Owners,      \* the processes of the two instances
    Keys, OneKey, HoldIds, OneHold, GrantIds, Boots

VARIABLES
    part,   \* the instance that runs
    now, restarts, trust, holds, byIdem, grants, op, shown, reserved,
    rows, balances, booted, moved

MaxTime == 2
Accounts == {acc1, acc2}
Opening == acc1 :> 2 @@ acc2 :> 1
From == pay :> acc1 @@ drain :> acc1 @@ stray :> acc1
To == pay :> acc2 @@ drain :> acc2 @@ stray :> acc3

Transfers == {pay, drain, stray}
Mixed == {pay, plain}
Roster(bodies) == {[end |-> MaxTime + 1, admits |-> bodies]}

\* Which boot identifiers the processes start with makes no difference.
Spare == CHOOSE b \in Boots : TRUE
First == CHOOSE b \in Boots : b # Spare

Restarting ==
    INSTANCE EffectOwner WITH
        Boots <- {First, Spare}, Engines <- {Alone}, OwnerEngines <- {Alone}, Bodies <- Transfers, Owned <- Transfers,
        Amount <- pay :> 1 @@ drain :> 2 @@ stray :> 1,
        Rosters <- Roster(Transfers), Chains <- {c1, c2},
        Agents <- {a1}, Roots <- {r1}, Ttls <- {2}, GrantTtl <- 2, SweepWindow <- 1,
        MaxPending <- 2, BootSkew <- 0, MaxRestarts <- 1, SelfMinted <- {First, Spare}

Sharing ==
    INSTANCE EffectOwner WITH
        Engines <- Owners, OwnerEngines <- Owners, Bodies <- Mixed, Owned <- {pay},
        Amount <- pay :> 1, Keys <- {OneKey}, HoldIds <- {OneHold},
        Rosters <- Roster(Mixed), Chains <- {c1},
        Agents <- {a1}, Roots <- {r1}, Ttls <- {2}, GrantTtl <- 2, SweepWindow <- 1,
        MaxPending <- 2, BootSkew <- 0, MaxRestarts <- 1, SelfMinted <- Boots

ASSUME InstancesAssumption == Restarting!OwnerAssumption /\ Sharing!OwnerAssumption

MCInit ==
    \/ part = "restarting" /\ Restarting!OwnerInit /\ booted = {First}
    \/ part = "sharing" /\ Sharing!OwnerInit /\ booted = Boots \ {Spare}

MCNext ==
    /\ UNCHANGED part
    /\ \/ part = "restarting" /\ Restarting!OwnerNext
       \/ part = "sharing" /\ Sharing!OwnerNext

MCSpec == MCInit /\ [][MCNext]_<<Restarting!allVars, part>>

Symmetry ==
    UNION {Permutations(S) : S \in {Owners, HoldIds, GrantIds, Keys}}

-----------------------------------------------------------------------------
\* The properties of EffectOwner, of the instance that runs.

\* A committed effect is answered with its row (commit).
CommittedIsAnswered ==
    IF part = "restarting" THEN Restarting!CommittedIsAnswered
    ELSE Sharing!CommittedIsAnswered

\* A grant reads consumed only if its transfer was executed
\* (mirrorGrantConsumed).
MirrorIsTrue ==
    IF part = "restarting" THEN Restarting!MirrorIsTrue ELSE Sharing!MirrorIsTrue

\* Every hold of either instance, with no hold where the other one runs.
OfAll(f, default) ==
    [h \in HoldIds \cup {OneHold} |-> IF h \in DOMAIN f THEN f[h] ELSE default]

Authority ==
    INSTANCE HoldAuthority WITH
        Holds <- HoldIds \cup {OneHold},
        state <- OfAll(IF part = "restarting" THEN Restarting!AuthorityState
                       ELSE Sharing!AuthorityState, "none"),
        uses <- OfAll(IF part = "restarting" THEN Restarting!Executions
                      ELSE Sharing!Executions, 0)

\* The whole implements single-use authority (commit, reserve).
CommitImplementsAuthority == Authority!Spec
=============================================================================
