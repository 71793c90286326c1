--------------------------- MODULE RelayEnrolment ---------------------------
(***************************************************************************)
(* How agents and approver devices are enrolled with the relay: pairing    *)
(* tokens, device tokens, re-minted secrets, claims and revocation         *)
(* (packages/relay/src/engine.ts), over the file store.                    *)
(*                                                                         *)
(* A redemption makes two writes: the credential, then the used token.     *)
(* The first may be durable when the second throws or the process dies.    *)
(***************************************************************************)
EXTENDS RelayStore, FiniteSets

CONSTANTS
    AgentTokens, DeviceTokens, AgentIds, DeviceIds, Kids, Tenants, None,
    Ttl,                 \* pairingTokenTtlMs and deviceTokenTtlMs
    MaxTime, MaxSecrets  \* bounds of the model

VARIABLES
    now,
    secrets,    \* device secrets minted so far
    answered    \* history: credentials that were answered, with their token

vars == <<storeVars, now, secrets, answered>>

Empty == [token |-> [t \in AgentTokens \cup DeviceTokens |-> None],
          agent |-> [a \in AgentIds |-> None],
          device |-> [d \in DeviceIds |-> None]]

Init ==
    /\ StoreInit(Empty)
    /\ now = 0
    /\ secrets = 0
    /\ answered = {}

ByKid(kid) == {d \in DeviceIds : mem.device[d] # None /\ mem.device[d].kid = kid}

(* Two puts in a row: both are persisted, or the first alone, or neither.  *)
TwoOutcomes == Outcomes \cup {"half failed", "half died"}

TwoPuts(first, both, o) ==
    \/ o \in Outcomes /\ PutCopy(both, o)
    \/ /\ o = "half failed"
       /\ failures < MaxFailures
       /\ failures' = failures + 1
       /\ mem' = first /\ disk' = first
       /\ UNCHANGED <<up, locked, boots>>
    \/ o = "half died" /\ DiesWith(first)

Answer(t, c, o) ==
    IF o = "ok" THEN answered' = answered \cup {[token |-> t, credential |-> c]}
    ELSE UNCHANGED answered

(* createPairing and createDevicePairing: an operator issues a token.      *)
NewToken(tenant, kid) ==
    [tenant |-> tenant, kid |-> kid, used |-> FALSE, ends |-> now + Ttl]

CreatePairing(t, tenant, o) ==
    /\ up /\ mem.token[t] = None
    /\ PutCopy([mem EXCEPT !.token[t] = NewToken(tenant, None)], o)
    /\ UNCHANGED <<now, secrets, answered>>

CreateDevicePairing(t, tenant, kid, o) ==
    /\ up /\ mem.token[t] = None
    /\ PutCopy([mem EXCEPT !.token[t] = NewToken(tenant, kid)], o)
    /\ UNCHANGED <<now, secrets, answered>>

Redeemable(t) ==
    mem.token[t] # None /\ ~mem.token[t].used /\ now <= mem.token[t].ends

(* redeemPairing                                                           *)
RedeemPairing(t, a, o) ==
    /\ up
    /\ Redeemable(t)
    /\ mem.agent[a] = None      \* a fresh id
    /\ LET first == [mem EXCEPT !.agent[a] = [tenant |-> mem.token[t].tenant]]
       IN  TwoPuts(first, [first EXCEPT !.token[t].used = TRUE], o)
    /\ Answer(t, a, o)
    /\ UNCHANGED <<now, secrets>>

(* Recovery is for a device of the token's tenant.                         *)
MayRemint(t, d) == mem.device[d].tenant = mem.token[t].tenant /\ ~mem.device[d].revoked

Reminted(t, d, s) == [mem.device[d] EXCEPT !.secret = s]

NewDevice(kid, tenant, s) ==
    [kid |-> kid, tenant |-> tenant, secret |-> s, agent |-> None, revoked |-> FALSE]

(* The device record a redemption writes: the one of the token's kid, or a *)
(* new one where there is none.                                            *)
Target(t, d) ==
    IF ByKid(mem.token[t].kid) = {} THEN mem.device[d] = None
    ELSE d \in ByKid(mem.token[t].kid) /\ MayRemint(t, d)

(* redeemDevicePairing, by the phone whose kid the token names.            *)
RedeemDevicePairing(t, d, o) ==
    LET s == secrets + 1
        record == IF mem.device[d] = None
                  THEN NewDevice(mem.token[t].kid, mem.token[t].tenant, s)
                  ELSE Reminted(t, d, s)
        first == [mem EXCEPT !.device[d] = record]
    IN  /\ up
        /\ secrets < MaxSecrets
        /\ Redeemable(t)
        /\ Target(t, d)
        /\ TwoPuts(first, [first EXCEPT !.token[t].used = TRUE], o)
        /\ secrets' = s
        /\ Answer(t, s, o)
        /\ UNCHANGED now

(* registerDevice: the anonymous route, for a kid no device has.           *)
RegisterDevice(kid, d, o) ==
    /\ up
    /\ secrets < MaxSecrets
    /\ ByKid(kid) = {} /\ mem.device[d] = None
    /\ PutCopy([mem EXCEPT !.device[d] = NewDevice(kid, None, secrets + 1)], o)
    /\ secrets' = secrets + 1
    /\ UNCHANGED <<now, answered>>

Claimable(a, d) ==
    /\ mem.device[d].agent = None
    /\ ~mem.device[d].revoked
    /\ mem.device[d].tenant \in {None, mem.agent[a].tenant}

(* claimDevice; the agent of a device claims it again without effect.      *)
ClaimDevice(a, d, o) ==
    /\ up
    /\ mem.agent[a] # None /\ mem.device[d] # None
    /\ Claimable(a, d)
    /\ PutCopy([mem EXCEPT !.device[d].agent = a], o)
    /\ UNCHANGED <<now, secrets, answered>>

(* revokeSelf                                                              *)
RevokeSelf(d, o) ==
    /\ up
    /\ mem.device[d] # None /\ ~mem.device[d].revoked
    /\ PutCopy([mem EXCEPT !.device[d].revoked = TRUE], o)
    /\ UNCHANGED <<now, secrets, answered>>

Tick ==
    /\ now < MaxTime
    /\ now' = now + 1
    /\ UNCHANGED <<storeVars, secrets, answered>>

Stop == (Crash \/ Close) /\ UNCHANGED <<now, secrets, answered>>
Restart == (RemoveLock \/ Open) /\ UNCHANGED <<now, secrets, answered>>

Next ==
    \/ \E o \in Outcomes :
        \/ \E t \in AgentTokens, n \in Tenants \cup {None} : CreatePairing(t, n, o)
        \/ \E t \in DeviceTokens, n \in Tenants, k \in Kids : CreateDevicePairing(t, n, k, o)
        \/ \E k \in Kids, d \in DeviceIds : RegisterDevice(k, d, o)
        \/ \E a \in AgentIds, d \in DeviceIds : ClaimDevice(a, d, o)
        \/ \E d \in DeviceIds : RevokeSelf(d, o)
    \/ \E o \in TwoOutcomes :
        \/ \E t \in AgentTokens, a \in AgentIds : RedeemPairing(t, a, o)
        \/ \E t \in DeviceTokens, d \in DeviceIds : RedeemDevicePairing(t, d, o)
    \/ Tick
    \/ Stop
    \/ Restart

Spec == Init /\ [][Next]_vars

-----------------------------------------------------------------------------
(* A token yields at most one credential that anyone was given, although a *)
(* failed or crashed redemption leaves it redeemable ("single-use is       *)
(* single-use", engine.ts:284).                                            *)
OneCredentialPerToken ==
    \A p, q \in answered : p.token = q.token => p = q

(* An answered credential is in the file, and after every crash it still   *)
(* resolves until the device is re-minted.                                 *)
AnsweredIsDurable ==
    \A p \in answered :
        IF p.token \in AgentTokens THEN disk.agent[p.credential] # None
        ELSE \E d \in DeviceIds :
                 disk.device[d] # None /\ disk.device[d].secret >= p.credential
                 /\ disk.device[d].kid = disk.token[p.token].kid

(* A kid has one device record, however often it is enrolled, registered   *)
(* or recovered (redeemDevicePairing, registerDevice).                     *)
OneDevicePerKid == \A k \in Kids : Cardinality(ByKid(k)) <= 1

(* A device's secret changes only through an open token of its own tenant  *)
(* and kid, its owner is of its own tenant, and its owner, kid, tenant and *)
(* revocation never go back ("same device id, claim state preserved").     *)
RemintsKeepDevices ==
    \A d \in DeviceIds : mem.device[d] # None =>
        /\ mem'.device[d] # None
        /\ mem'.device[d].kid = mem.device[d].kid
        /\ mem'.device[d].tenant = mem.device[d].tenant
        /\ mem.device[d].agent \in {None, mem'.device[d].agent}
        /\ mem.device[d].agent # mem'.device[d].agent =>
               mem.device[d].tenant \in {None, mem.agent[mem'.device[d].agent].tenant}
        /\ mem.device[d].revoked => mem'.device[d] = mem.device[d]
        /\ mem'.device[d].secret # mem.device[d].secret =>
               \E t \in DeviceTokens :
                   /\ mem.token[t] # None /\ ~mem.token[t].used
                   /\ mem.token[t].kid = mem.device[d].kid
                   /\ mem.token[t].tenant = mem.device[d].tenant
=============================================================================
