------------------------------- MODULE MCRelay -------------------------------
(***************************************************************************)
(* The relay for TLC.  A behaviour takes one instance: the rate limiter    *)
(* (the constants of the cfg), the decision of two holds (Deciding), the   *)
(* claims and revocations of two devices (Revoking), enrolment (Enrolling) *)
(* or the publication of manifests (Publishing).                           *)
(***************************************************************************)
EXTENDS RateLimiter, TLC

CONSTANTS
    None, Agents, Devices, TwoHolds, TwoKeys, OneHold, OneKey, Action, Deferred,
    Tokens, DeviceTokens, AgentIds, DeviceIds, Kid, Tenants, Contents, Delegation

VARIABLES
    part,                                       \* the instance that runs
    mem, disk, up, locked, failures, boots,     \* the store, of all but the limiter
    clock,
    receipts, posts, waiting, told, unsaved,    \* Deciding and Revoking
    secrets, answered,                          \* Enrolling
    published, regenesis                        \* Publishing

One(S) == {CHOOSE x \in S : TRUE}

Deciding ==
    INSTANCE Relay WITH
        Agents <- One(Agents), Devices <- One(Devices), Holds <- TwoHolds, Keys <- TwoKeys,
        Actions <- {Action}, Deferreds <- {Deferred}, Verdicts <- {"ALLOWED"},
        Ttl <- 1, Timeout <- 1, MaxPending <- 2, MaxTime <- 2, MaxPosts <- 1,
        MaxWaits <- 1, MaxFailures <- 1, MaxBoots <- 2, now <- clock

Revoking ==
    INSTANCE Relay WITH
        Holds <- {OneHold}, Keys <- {OneKey},
        Actions <- {Action}, Deferreds <- {Deferred}, Verdicts <- {"BLOCKED"},
        Ttl <- 1, Timeout <- 1, MaxPending <- 2, MaxTime <- 2, MaxPosts <- 1,
        MaxWaits <- 0, MaxFailures <- 1, MaxBoots <- 2, now <- clock

Enrolling ==
    INSTANCE RelayEnrolment WITH
        AgentTokens <- Tokens, Kids <- {Kid}, Ttl <- 0, MaxTime <- 1, MaxSecrets <- 3,
        MaxFailures <- 1, MaxBoots <- 2, now <- clock

Publishing ==
    INSTANCE RelayManifest WITH
        Tenants <- One(Tenants), Delegations <- {Delegation},
        MaxVersionJump <- 2, MaxGenesisVersion <- 1, MaxSaneVersion <- 2,
        MaxVersion <- 4, MaxFailures <- 1, MaxBoots <- 2

storeVars == <<mem, disk, up, locked, failures, boots>>
holdVars == <<receipts, posts, waiting, told, unsaved>>
enrolVars == <<secrets, answered>>
manifestVars == <<published, regenesis>>
mcVars == <<limiterVars, part, storeVars, clock, holdVars, enrolVars, manifestVars>>

NoStore ==
    /\ mem = None /\ disk = None /\ up = FALSE /\ locked = FALSE
    /\ failures = 0 /\ boots = 0
NoHolds == receipts = {} /\ posts = {} /\ waiting = {} /\ told = {} /\ unsaved = {}
NoEnrolment == secrets = 0 /\ answered = {}
NoManifests == published = {} /\ regenesis = {}

MCInit ==
    /\ LimiterInit
    /\ \/ part = "limiter" /\ NoStore /\ clock = 0 /\ NoHolds /\ NoEnrolment /\ NoManifests
       \/ part = "deciding" /\ Deciding!Init /\ NoEnrolment /\ NoManifests
       \/ part = "revoking" /\ Revoking!Init /\ NoEnrolment /\ NoManifests
       \/ part = "enrolling" /\ Enrolling!Init /\ NoHolds /\ NoManifests
       \/ part = "publishing" /\ Publishing!Init /\ clock = 0 /\ NoHolds /\ NoEnrolment

MCNext ==
    /\ UNCHANGED part
    /\ \/ /\ part = "limiter" /\ LimiterNext
          /\ UNCHANGED <<storeVars, clock, holdVars, enrolVars, manifestVars>>
       \/ part = "deciding" /\ Deciding!Next /\ UNCHANGED <<limiterVars, enrolVars, manifestVars>>
       \/ part = "revoking" /\ Revoking!Next /\ UNCHANGED <<limiterVars, enrolVars, manifestVars>>
       \/ part = "enrolling" /\ Enrolling!Next /\ UNCHANGED <<limiterVars, holdVars, manifestVars>>
       \/ /\ part = "publishing" /\ Publishing!Next
          /\ UNCHANGED <<limiterVars, clock, holdVars, enrolVars>>

MCSpec == MCInit /\ [][MCNext]_mcVars

Symmetry == Permutations(TwoKeys) \cup Permutations(TwoHolds)

-----------------------------------------------------------------------------
\* The properties of the modules, of the instance that runs.

\* A stored decision was signed for the hold it is stored on (decide).
DecidedForThisHold == part = "deciding" => Deciding!DecidedForThisHold

\* No answer runs ahead of the file, whatever put failed: what an agent was
\* told of a hold (but of one whose own put threw), a credential that was
\* answered and a publish that was accepted are in it (persist before
\* holdView, redeemPairing's and putManifest's answers).
AnswersAreDurable ==
    CASE part = "deciding" -> Deciding!ToldIsDurable
      [] part = "enrolling" -> Enrolling!AnsweredIsDurable
      [] part = "publishing" -> Publishing!PublishedIsDurable
      [] OTHER -> TRUE

\* One hold per agent and idempotency key, one device per kid and one
\* credential per token, whatever write failed in between (createHold,
\* redeemPairing, redeemDevicePairing).
OnePerIndex ==
    CASE part = "deciding" -> Deciding!OneHoldPerKey
      [] part = "enrolling" -> Enrolling!OneDevicePerKid /\ Enrolling!OneCredentialPerToken
      [] OTHER -> TRUE

\* A device revoked while its request was read decides nothing (server.ts,
\* decide), and a re-minted one keeps its owner, kid and tenant
\* (redeemDevicePairing).
DevicesStayBound ==
    [][/\ part = "revoking" => Revoking!DecidesUnrevoked
       /\ part = "enrolling" => Enrolling!RemintsKeepDevices]_mcVars

\* A tenant has one manifest per version, and its version only grows
\* (classifyManifestPut, putManifest).
ManifestsMoveForward ==
    [][part = "publishing" => Publishing!NoEquivocation' /\ Publishing!VersionsGrow]_mcVars
==============================================================================
