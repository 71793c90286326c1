---------------------------- MODULE EnrolProofs ----------------------------
(***************************************************************************)
(* The relay's enrolment of agents and devices over its file store, for    *)
(* any number of tokens, agents and devices, and any number of failed      *)
(* puts, crashes and restarts; and the rate limiter in front of it, for    *)
(* any number of keys, any burst, rate, idle time and cap.                 *)
(*                                                                         *)
(* That a token buys one credential needs that an answered credential is   *)
(* of a token that is used, in memory and in the file (EnrolInv).  The     *)
(* limiter's inductive invariant is that the takes granted in the          *)
(* observer's window and the credit a key still has do not exceed the      *)
(* burst and what the window can give it (CreditBound).                    *)
(***************************************************************************)
EXTENDS RelayEnrolment, RateLimiter, FiniteSetTheorems, TLAPS

-----------------------------------------------------------------------------
(* Enrolment.                                                              *)

Tokens == AgentTokens \cup DeviceTokens
TokenRec == [tenant : Tenants \cup {None}, kid : Kids \cup {None}, used : BOOLEAN, ends : Nat]
AgentRec == [tenant : Tenants \cup {None}]
EnrolledRec == [kid : Kids, tenant : Tenants \cup {None}, secret : Nat,
                agent : AgentIds \cup {None}, revoked : BOOLEAN]
EnrolSnapshot == [token : [Tokens -> TokenRec \cup {None}],
                  agent : [AgentIds -> AgentRec \cup {None}],
                  device : [DeviceIds -> EnrolledRec \cup {None}]]

(* "No value" is no record and no kid, the two kinds of token differ, and  *)
(* a token's time to live is a number.                                     *)
EnrolConstants ==
    /\ None \notin TokenRec \cup AgentRec \cup EnrolledRec \cup Kids
    /\ AgentTokens \cap DeviceTokens = {}
    /\ Ttl \in Nat

(* The tokens of devices name a kid, a kid names one device, and no device *)
(* has a secret that was not minted yet.                                   *)
Enrolled(n, minted) ==
    /\ n \in EnrolSnapshot
    /\ \A t \in DeviceTokens : n.token[t] # None => n.token[t].kid \in Kids
    /\ \A c, d \in DeviceIds :
          n.device[c] # None /\ n.device[d] # None /\ n.device[c].kid = n.device[d].kid => c = d
    /\ \A d \in DeviceIds : n.device[d] # None => n.device[d].secret <= minted

(* What a change keeps of a device.                                        *)
KeepsDevice(old, new) ==
    /\ new # None
    /\ new.kid = old.kid
    /\ new.tenant = old.tenant
    /\ old.agent \in {None, new.agent}
    /\ old.agent # new.agent => old.tenant \in {None, mem.agent[new.agent].tenant}
    /\ old.revoked => new = old
    /\ new.secret # old.secret =>
           \E t \in DeviceTokens :
               /\ mem.token[t] # None /\ ~mem.token[t].used
               /\ mem.token[t].kid = old.kid
               /\ mem.token[t].tenant = old.tenant
    /\ new.secret >= old.secret

(* What a change may make of the tokens, the agents and the devices.       *)
NewTokens(T) ==
    /\ T \in [Tokens -> TokenRec \cup {None}]
    /\ \A t \in DeviceTokens : T[t] # None => T[t].kid \in Kids
    /\ \A t \in Tokens : mem.token[t] # None =>
          T[t] # None /\ T[t].kid = mem.token[t].kid /\ (mem.token[t].used => T[t].used)
NewAgents(A) ==
    /\ A \in [AgentIds -> AgentRec \cup {None}]
    /\ \A a \in AgentIds : mem.agent[a] # None => A[a] # None
NewDevices(D, minted) ==
    /\ D \in [DeviceIds -> EnrolledRec \cup {None}]
    /\ \A c, d \in DeviceIds :
          D[c] # None /\ D[d] # None /\ D[c].kid = D[d].kid => c = d
    /\ \A d \in DeviceIds : D[d] # None => D[d].secret <= minted
    /\ \A d \in DeviceIds : mem.device[d] # None => KeepsDevice(mem.device[d], D[d])

(* A change of the store that a handler makes, with the secrets minted by  *)
(* then.                                                                   *)
Enrols(n, minted) ==
    /\ n = [token |-> n.token, agent |-> n.agent, device |-> n.device]
    /\ NewTokens(n.token) /\ NewAgents(n.agent) /\ NewDevices(n.device, minted)

(* A credential that was answered is of a used token and resolves.         *)
Resolves(p, n) ==
    /\ p.token \in Tokens /\ n.token[p.token] # None /\ n.token[p.token].used
    /\ p.token \in AgentTokens => p.credential \in AgentIds /\ n.agent[p.credential] # None
    /\ p.token \in DeviceTokens =>
          /\ p.credential \in Nat
          /\ \E d \in DeviceIds :
                /\ n.device[d] # None /\ n.device[d].secret >= p.credential
                /\ n.device[d].kid = n.token[p.token].kid

EnrolInv ==
    /\ disk = mem
    /\ now \in Nat /\ secrets \in Nat
    /\ Enrolled(mem, secrets)
    /\ \A p \in answered : Resolves(p, mem)
    /\ OneCredentialPerToken

-----------------------------------------------------------------------------
(* What is left as it is.                                                  *)
LEMMA OldParts ==
    ASSUME EnrolInv, NEW minted \in Nat, minted >= secrets
    PROVE  /\ NewTokens(mem.token) /\ NewAgents(mem.agent) /\ NewDevices(mem.device, minted)
           /\ mem = [token |-> mem.token, agent |-> mem.agent, device |-> mem.device]
<1>1. \A d \in DeviceIds : mem.device[d] # None => mem.device[d] \in EnrolledRec
  BY Zenon DEF EnrolInv, Enrolled, EnrolSnapshot
<1>2. \A d \in DeviceIds : mem.device[d] # None => mem.device[d].secret \in Nat
  BY <1>1, Zenon DEF EnrolledRec
<1>3. \A d \in DeviceIds : mem.device[d] # None => KeepsDevice(mem.device[d], mem.device[d])
  BY <1>2 DEF KeepsDevice
<1>4. \A d \in DeviceIds : mem.device[d] # None => mem.device[d].secret <= minted
  BY <1>2 DEF EnrolInv, Enrolled
<1>5. mem \in EnrolSnapshot
  BY Zenon DEF EnrolInv, Enrolled
<1>6. mem = [token |-> mem.token, agent |-> mem.agent, device |-> mem.device]
  BY <1>5 DEF EnrolSnapshot
<1>7. NewTokens(mem.token) /\ NewAgents(mem.agent)
  BY <1>5, Zenon DEF EnrolInv, Enrolled, EnrolSnapshot, NewTokens, NewAgents
<1>8. NewDevices(mem.device, minted)
  BY <1>3, <1>4, <1>5, Zenon DEF EnrolInv, Enrolled, EnrolSnapshot, NewDevices
<1> QED BY <1>6, <1>7, <1>8, Zenon

(* To change nothing is a change.                                          *)
LEMMA NothingEnrols ==
    ASSUME EnrolInv, NEW minted \in Nat, minted >= secrets
    PROVE  Enrols(mem, minted)
BY OldParts, Zenon DEF Enrols

(* A change leaves the store enrolled.                                     *)
LEMMA EnrolsWell ==
    ASSUME NEW n, NEW minted, Enrols(n, minted)
    PROVE  Enrolled(n, minted)
<1>1. n \in EnrolSnapshot
  BY DEF Enrols, EnrolSnapshot, NewTokens, NewAgents, NewDevices
<1> QED BY <1>1, Zenon DEF Enrols, Enrolled, NewTokens, NewDevices

(* A credential that resolves does so after every change.                  *)
LEMMA ResolvesOn ==
    ASSUME EnrolInv, NEW n, NEW minted, Enrols(n, minted), NEW p, Resolves(p, mem)
    PROVE  Resolves(p, n)
<1>1. n.token[p.token] # None /\ n.token[p.token].used /\ n.token[p.token].kid = mem.token[p.token].kid
  BY Zenon DEF Enrols, NewTokens, Resolves
<1>2. CASE p.token \in DeviceTokens
  <2>1. PICK d \in DeviceIds : /\ mem.device[d] # None /\ mem.device[d].secret >= p.credential
                               /\ mem.device[d].kid = mem.token[p.token].kid
    BY <1>2, Zenon DEF Resolves
  <2>2. KeepsDevice(mem.device[d], n.device[d])
    BY <2>1, Zenon DEF Enrols, NewDevices
  <2>3. mem.device[d] \in EnrolledRec /\ n.device[d] \in EnrolledRec
    BY <2>1, <2>2, Zenon DEF EnrolInv, Enrolled, EnrolSnapshot, Enrols, NewDevices, KeepsDevice
  <2>4. mem.device[d].secret \in Nat /\ n.device[d].secret \in Nat /\ p.credential \in Nat
    BY <2>3, <1>2, Zenon DEF EnrolledRec, Resolves
  <2>5. n.device[d].secret >= mem.device[d].secret /\ n.device[d] # None /\ n.device[d].kid = mem.device[d].kid
    BY <2>2, Zenon DEF KeepsDevice
  <2>6. n.device[d].secret >= p.credential
    BY <2>1, <2>4, <2>5
  <2>7. n.device[d].kid = n.token[p.token].kid
    BY <1>1, <2>1, <2>5, Zenon
  <2> QED BY <1>1, <2>5, <2>6, <2>7, Zenon DEF Resolves, Enrols, NewAgents
<1>3. CASE p.token \notin DeviceTokens
  BY <1>1, <1>3, Zenon DEF Resolves, Enrols, NewAgents
<1> QED BY <1>2, <1>3, Zenon

(* One token is issued or used.                                            *)
LEMMA OneToken ==
    ASSUME EnrolConstants, EnrolInv, NEW t \in Tokens, NEW rec \in TokenRec,
           t \in DeviceTokens => rec.kid \in Kids,
           mem.token[t] # None => rec.kid = mem.token[t].kid /\ (mem.token[t].used => rec.used)
    PROVE  NewTokens([mem.token EXCEPT ![t] = rec])
<1> DEFINE T == [mem.token EXCEPT ![t] = rec]
<1>1. mem.token \in [Tokens -> TokenRec \cup {None}]
  BY Zenon DEF EnrolInv, Enrolled, EnrolSnapshot
<1>2. T \in [Tokens -> TokenRec \cup {None}] /\ T[t] = rec /\ \A u \in Tokens : u # t => T[u] = mem.token[u]
  BY <1>1
<1> HIDE DEF T
<1>3. rec # None
  BY Zenon DEF EnrolConstants
<1>4. \A u \in DeviceTokens : T[u] # None => T[u].kid \in Kids
  BY <1>2, Zenon DEF EnrolInv, Enrolled, Tokens
<1>5. NewTokens(T)
  BY <1>2, <1>3, <1>4, Zenon DEF NewTokens
<1> QED BY <1>5, Zenon DEF T

(* One agent is enrolled.                                                  *)
LEMMA OneAgent ==
    ASSUME EnrolConstants, EnrolInv, NEW a \in AgentIds, NEW rec \in AgentRec
    PROVE  NewAgents([mem.agent EXCEPT ![a] = rec])
<1> DEFINE A == [mem.agent EXCEPT ![a] = rec]
<1>1. mem.agent \in [AgentIds -> AgentRec \cup {None}]
  BY Zenon DEF EnrolInv, Enrolled, EnrolSnapshot
<1>2. A \in [AgentIds -> AgentRec \cup {None}] /\ A[a] = rec /\ \A b \in AgentIds : b # a => A[b] = mem.agent[b]
  BY <1>1
<1> HIDE DEF A
<1>3. rec # None
  BY Zenon DEF EnrolConstants
<1>5. NewAgents(A)
  BY <1>2, <1>3, Zenon DEF NewAgents
<1> QED BY <1>5, Zenon DEF A

(* One device is enrolled, or changed as KeepsDevice says.                 *)
LEMMA OneDevice ==
    ASSUME EnrolConstants, EnrolInv, NEW minted \in Nat, minted >= secrets,
           NEW d \in DeviceIds, NEW rec \in EnrolledRec, rec.secret <= minted,
           IF mem.device[d] = None THEN ByKid(rec.kid) = {}
           ELSE KeepsDevice(mem.device[d], rec)
    PROVE  NewDevices([mem.device EXCEPT ![d] = rec], minted)
<1> DEFINE D == [mem.device EXCEPT ![d] = rec]
<1>1. mem.device \in [DeviceIds -> EnrolledRec \cup {None}]
  BY Zenon DEF EnrolInv, Enrolled, EnrolSnapshot
<1>2. D \in [DeviceIds -> EnrolledRec \cup {None}] /\ D[d] = rec /\ \A c \in DeviceIds : c # d => D[c] = mem.device[c]
  BY <1>1
<1> HIDE DEF D
<1>3. NewDevices(mem.device, minted)
  BY OldParts, Zenon
<1>4. ASSUME NEW c \in DeviceIds, mem.device[c] # None, mem.device[c].kid = rec.kid
      PROVE  c = d
  <2>1. CASE mem.device[d] = None
    BY <2>1, <1>4, Zenon DEF ByKid
  <2>2. CASE mem.device[d] # None
    BY <2>2, <1>4, <1>3, Zenon DEF NewDevices, KeepsDevice
  <2> QED BY <2>1, <2>2, Zenon
<1>5. \A b, c \in DeviceIds : D[b] # None /\ D[c] # None /\ D[b].kid = D[c].kid => b = c
  BY <1>2, <1>3, <1>4, Zenon DEF NewDevices
<1>6. \A c \in DeviceIds : D[c] # None => D[c].secret <= minted
  BY <1>2, <1>3, Zenon DEF NewDevices
<1>7. \A c \in DeviceIds : mem.device[c] # None => KeepsDevice(mem.device[c], D[c])
  BY <1>2, <1>3, Zenon DEF NewDevices
<1>8. NewDevices(D, minted)
  BY <1>2, <1>5, <1>6, <1>7, Zenon DEF NewDevices
<1> QED BY <1>8, Zenon DEF D

(* How one put and how two puts end.                                       *)
LEMMA CopyEnds ==
    ASSUME disk = mem, NEW n, NEW o, PutCopy(n, o)
    PROVE  disk' = mem' /\ mem' \in {n, mem}
BY Zenon DEF PutCopy, Persisted, RolledBackTo, DiesWith

(* Two puts leave both, the first or neither; an answer comes after both.  *)
LEMMA TwoEnd ==
    ASSUME disk = mem, NEW first, NEW both, NEW o, TwoPuts(first, both, o)
    PROVE  disk' = mem' /\ mem' \in {first, both, mem} /\ (o = "ok" => mem' = both)
BY Zenon DEF TwoPuts, Outcomes, PutCopy, Persisted, RolledBackTo,
         DiesWith

(* A step's change of the store.                                           *)
StepEnrols == disk' = mem' /\ Enrols(mem', secrets')

(* createPairing, createDevicePairing.                                     *)
LEMMA CreateEnrols ==
    ASSUME EnrolConstants, EnrolInv, NEW t \in Tokens, NEW n \in Tenants \cup {None},
           NEW k \in Kids \cup {None}, t \in DeviceTokens => k \in Kids, mem.token[t] = None,
           NEW o, PutCopy([mem EXCEPT !.token[t] = NewToken(n, k)], o), secrets' = secrets
    PROVE  StepEnrols
<1> DEFINE rec == NewToken(n, k)
           new == [mem EXCEPT !.token[t] = rec]
<1>1. rec \in TokenRec /\ rec.kid = k
  BY DEF NewToken, TokenRec, EnrolInv, EnrolConstants
<1> HIDE DEF rec
<1>2. NewTokens([mem.token EXCEPT ![t] = rec])
  BY <1>1, OneToken, Zenon
<1>3. secrets \in Nat /\ secrets >= secrets
  BY DEF EnrolInv
<1>4. /\ NewAgents(mem.agent) /\ NewDevices(mem.device, secrets)
      /\ mem = [token |-> mem.token, agent |-> mem.agent, device |-> mem.device]
  BY <1>3, OldParts, Zenon
<1>5. new = [token |-> [mem.token EXCEPT ![t] = rec], agent |-> mem.agent, device |-> mem.device]
  BY <1>4
<1>6. Enrols(new, secrets)
  BY <1>2, <1>4, <1>5 DEF Enrols
<1>7. Enrols(mem, secrets)
  BY <1>3, NothingEnrols, Zenon
<1>8. disk' = mem' /\ mem' \in {new, mem}
  BY CopyEnds, Zenon DEF EnrolInv, rec
<1> QED BY <1>6, <1>7, <1>8, Zenon DEF StepEnrols

(* registerDevice, claimDevice, revokeSelf.                                *)
LEMMA DeviceEnrols ==
    ASSUME EnrolConstants, EnrolInv, NEW d \in DeviceIds, NEW rec \in EnrolledRec,
           IF mem.device[d] = None THEN ByKid(rec.kid) = {}
           ELSE KeepsDevice(mem.device[d], rec),
           secrets' \in Nat, secrets' >= secrets, rec.secret <= secrets',
           NEW new, new = [mem EXCEPT !.device[d] = rec]
    PROVE  Enrols(new, secrets')
<1>1. NewDevices([mem.device EXCEPT ![d] = rec], secrets')
  BY OneDevice, Zenon
<1>2. /\ NewTokens(mem.token) /\ NewAgents(mem.agent)
      /\ mem = [token |-> mem.token, agent |-> mem.agent, device |-> mem.device]
  BY OldParts, Zenon
<1>3. new = [token |-> mem.token, agent |-> mem.agent, device |-> [mem.device EXCEPT ![d] = rec]]
  BY <1>2
<1> QED BY <1>1, <1>2, <1>3 DEF Enrols

(* registerDevice: a kid no device has.                                    *)
LEMMA RegisterEnrols ==
    ASSUME EnrolConstants, EnrolInv, NEW k \in Kids, NEW d \in DeviceIds, NEW o,
           RegisterDevice(k, d, o)
    PROVE  StepEnrols
<1> DEFINE rec == NewDevice(k, None, secrets + 1)
           new == [mem EXCEPT !.device[d] = rec]
<1>1. rec \in EnrolledRec /\ rec.kid = k /\ rec.secret = secrets + 1 /\ secrets \in Nat
  BY DEF NewDevice, EnrolledRec, EnrolInv
<1>2. secrets' = secrets + 1 /\ mem.device[d] = None /\ ByKid(k) = {} /\ PutCopy(new, o)
  BY Zenon DEF RegisterDevice
<1> HIDE DEF rec
<1>3. secrets' \in Nat /\ secrets' >= secrets /\ rec.secret <= secrets'
  BY <1>1, <1>2
<1>4. Enrols(new, secrets')
  BY <1>1, <1>2, <1>3, DeviceEnrols, Zenon
<1>5. Enrols(mem, secrets')
  BY <1>3, NothingEnrols, Zenon
<1> QED BY <1>2, <1>4, <1>5, CopyEnds, Zenon DEF StepEnrols, EnrolInv

(* claimDevice and revokeSelf change one device that is there.             *)
LEMMA OwnerEnrols ==
    ASSUME EnrolConstants, EnrolInv, NEW d \in DeviceIds, NEW o,
           RevokeSelf(d, o) \/ \E a \in AgentIds : ClaimDevice(a, d, o)
    PROVE  StepEnrols
<1>1. mem.device[d] # None /\ mem.device[d] \in EnrolledRec /\ secrets' = secrets
      /\ ~mem.device[d].revoked
  BY Zenon DEF RevokeSelf, ClaimDevice, Claimable, EnrolInv, Enrolled, EnrolSnapshot
<1>2. secrets \in Nat /\ mem.device[d].secret \in Nat /\ mem.device[d].secret <= secrets
  BY <1>1, Zenon DEF EnrolInv, Enrolled, EnrolledRec
<1>3. ASSUME RevokeSelf(d, o)
      PROVE  \E rec \in EnrolledRec :
                /\ KeepsDevice(mem.device[d], rec) /\ rec.secret = mem.device[d].secret
                /\ PutCopy([mem EXCEPT !.device[d] = rec], o)
  <2> DEFINE rec == [mem.device[d] EXCEPT !.revoked = TRUE]
  <2>1. rec \in EnrolledRec
    BY <1>1, Zenon DEF EnrolledRec
  <2>2. KeepsDevice(mem.device[d], rec) /\ rec.secret = mem.device[d].secret
    <3>1. /\ rec.kid = mem.device[d].kid /\ rec.tenant = mem.device[d].tenant
          /\ rec.agent = mem.device[d].agent /\ rec.secret = mem.device[d].secret
      BY <1>1, Zenon DEF EnrolledRec
    <3>2. rec # None
      BY <2>1, Zenon DEF EnrolConstants
    <3>3. mem.device[d].secret >= mem.device[d].secret
      BY <1>2
    <3> QED BY <1>1, <3>1, <3>2, <3>3, Zenon DEF KeepsDevice
  <2>3. PutCopy([mem EXCEPT !.device[d] = rec], o)
    BY <1>1, <1>3 DEF RevokeSelf, EnrolInv, Enrolled, EnrolSnapshot
  <2> QED BY <2>1, <2>2, <2>3, Zenon
<1>4. ASSUME NEW a \in AgentIds, ClaimDevice(a, d, o)
      PROVE  \E rec \in EnrolledRec :
                /\ KeepsDevice(mem.device[d], rec) /\ rec.secret = mem.device[d].secret
                /\ PutCopy([mem EXCEPT !.device[d] = rec], o)
  <2> DEFINE rec == [mem.device[d] EXCEPT !.agent = a]
  <2>1. rec \in EnrolledRec
    BY <1>1, Zenon DEF EnrolledRec
  <2>2. KeepsDevice(mem.device[d], rec) /\ rec.secret = mem.device[d].secret
    <3>1. /\ rec.kid = mem.device[d].kid /\ rec.tenant = mem.device[d].tenant
          /\ rec.agent = a /\ rec.secret = mem.device[d].secret
      BY <1>1, Zenon DEF EnrolledRec
    <3>2. rec # None
      BY <2>1, Zenon DEF EnrolConstants
    <3>3. mem.device[d].secret >= mem.device[d].secret
      BY <1>2
    <3>4. mem.device[d].agent = None /\ mem.device[d].tenant \in {None, mem.agent[a].tenant}
      BY <1>4, Zenon DEF ClaimDevice, Claimable
    <3> QED BY <1>1, <3>1, <3>2, <3>3, <3>4, Zenon DEF KeepsDevice
  <2>3. PutCopy([mem EXCEPT !.device[d] = rec], o)
    BY <1>1, <1>4 DEF ClaimDevice, EnrolInv, Enrolled, EnrolSnapshot
  <2> QED BY <2>1, <2>2, <2>3, Zenon
<1>5. PICK rec \in EnrolledRec : /\ KeepsDevice(mem.device[d], rec) /\ rec.secret = mem.device[d].secret
                                 /\ PutCopy([mem EXCEPT !.device[d] = rec], o)
  BY <1>3, <1>4, Zenon
<1>6. secrets' \in Nat /\ secrets' >= secrets /\ rec.secret <= secrets'
  BY <1>1, <1>2, <1>5
<1>7. Enrols([mem EXCEPT !.device[d] = rec], secrets')
  BY <1>1, <1>5, <1>6, DeviceEnrols, Zenon
<1>8. Enrols(mem, secrets')
  BY <1>6, NothingEnrols, Zenon
<1> QED BY <1>5, <1>7, <1>8, CopyEnds, Zenon DEF StepEnrols, EnrolInv

(* What a redemption adds to the answers: nothing, or a credential of a    *)
(* token that was not used and resolves from then on.                      *)
AnswersOne ==
    \/ answered' = answered
    \/ \E t \in Tokens : \E c :
          /\ mem.token[t] # None /\ ~mem.token[t].used
          /\ answered' = answered \cup {[token |-> t, credential |-> c]}
          /\ Resolves([token |-> t, credential |-> c], mem')

(* The token of a redemption, used.                                        *)
LEMMA UsedToken ==
    ASSUME EnrolConstants, EnrolInv, NEW t \in Tokens, Redeemable(t),
           NEW rec, rec = [mem.token[t] EXCEPT !.used = TRUE]
    PROVE  /\ NewTokens([mem.token EXCEPT ![t] = rec])
           /\ mem.token[t] \in TokenRec /\ rec # None /\ rec.used /\ rec.kid = mem.token[t].kid
<1>1. mem.token[t] \in TokenRec /\ mem.token[t] # None
  BY Zenon DEF Redeemable, EnrolInv, Enrolled, EnrolSnapshot
<1>2. rec \in TokenRec /\ rec.kid = mem.token[t].kid /\ rec.used
  BY <1>1, Zenon DEF TokenRec
<1>3. t \in DeviceTokens => rec.kid \in Kids
  BY <1>1, <1>2, Zenon DEF EnrolInv, Enrolled
<1>4. rec # None
  BY <1>2, Zenon DEF EnrolConstants
<1> QED BY <1>1, <1>2, <1>3, <1>4, OneToken, Zenon

(* A snapshot with one token used.                                         *)
LEMMA UsedIn ==
    ASSUME NEW T, NEW A, NEW D, NEW t, NEW first, first = [token |-> T, agent |-> A, device |-> D],
           NEW both, both = [first EXCEPT !.token[t].used = TRUE]
    PROVE  both = [token |-> [T EXCEPT ![t] = [T[t] EXCEPT !.used = TRUE]], agent |-> A, device |-> D]
<1>1. PICK X : X = [first.token EXCEPT ![t] = [first.token[t] EXCEPT !.used = TRUE]]
  BY Zenon
<1>2. both = [first EXCEPT !.token = X]
  BY <1>1
<1>3. both = [token |-> X, agent |-> A, device |-> D]
  BY <1>2, Zenon
<1>4. X = [T EXCEPT ![t] = [T[t] EXCEPT !.used = TRUE]]
  BY <1>1
<1> QED BY <1>3, <1>4, Zenon

(* redeemPairing                                                           *)
LEMMA RedeemEnrols ==
    ASSUME EnrolConstants, EnrolInv, NEW t \in AgentTokens, NEW a \in AgentIds, NEW o,
           RedeemPairing(t, a, o)
    PROVE  StepEnrols /\ AnswersOne
<1> DEFINE used == [mem.token[t] EXCEPT !.used = TRUE]
           rec == [tenant |-> mem.token[t].tenant]
<1>0. PICK first, both : /\ first = [mem EXCEPT !.agent[a] = rec]
                         /\ both = [first EXCEPT !.token[t].used = TRUE]
                         /\ TwoPuts(first, both, o)
  BY Zenon DEF RedeemPairing
<1>1. Redeemable(t) /\ secrets' = secrets /\ Answer(t, a, o)
  BY Zenon DEF RedeemPairing
<1>2. t \in Tokens /\ t \notin DeviceTokens
  BY Zenon DEF Tokens, EnrolConstants
<1>3. /\ NewTokens([mem.token EXCEPT ![t] = used])
      /\ mem.token[t] \in TokenRec /\ used # None /\ used.used
  BY <1>1, <1>2, UsedToken, Zenon
<1>4. rec \in AgentRec
  BY <1>3, Zenon DEF AgentRec, TokenRec
<1>5. NewAgents([mem.agent EXCEPT ![a] = rec])
  BY <1>4, OneAgent, Zenon
<1>6. secrets \in Nat /\ secrets >= secrets
  BY DEF EnrolInv
<1>7. /\ NewTokens(mem.token) /\ NewDevices(mem.device, secrets)
      /\ mem = [token |-> mem.token, agent |-> mem.agent, device |-> mem.device]
      /\ Enrols(mem, secrets)
  BY <1>6, OldParts, NothingEnrols, Zenon
<1>8. mem.token \in [Tokens -> TokenRec \cup {None}] /\ mem.agent \in [AgentIds -> AgentRec \cup {None}]
  BY Zenon DEF EnrolInv, Enrolled, EnrolSnapshot
<1>9. first = [token |-> mem.token, agent |-> [mem.agent EXCEPT ![a] = rec], device |-> mem.device]
  BY <1>0, <1>7
<1> HIDE DEF rec
<1>10. both = [token |-> [mem.token EXCEPT ![t] = used], agent |-> [mem.agent EXCEPT ![a] = rec], device |-> mem.device]
  BY <1>0, <1>9, UsedIn, Zenon
<1>12. disk' = mem' /\ mem' \in {first, both, mem} /\ (o = "ok" => mem' = both)
  BY <1>0, TwoEnd, Zenon DEF EnrolInv
<1> HIDE DEF used
<1>11. Enrols(first, secrets) /\ Enrols(both, secrets)
  BY <1>3, <1>5, <1>7, <1>9, <1>10 DEF Enrols
<1>13. StepEnrols
  BY <1>1, <1>7, <1>11, <1>12, Zenon DEF StepEnrols
<1>14. both.token[t] = used /\ both.agent[a] = rec
  BY <1>2, <1>8, <1>10
<1>15. rec # None
  BY <1>4, Zenon DEF EnrolConstants
<1>16. Resolves([token |-> t, credential |-> a], both)
  BY <1>2, <1>3, <1>14, <1>15, Zenon DEF Resolves
<1>17. AnswersOne
  BY <1>1, <1>2, <1>12, <1>16, Zenon DEF AnswersOne, Answer, Redeemable
<1> QED BY <1>13, <1>17, Zenon

(* The record that a redemption of a device token writes.                  *)
Redeemed(t, d) ==
    IF mem.device[d] = None
    THEN NewDevice(mem.token[t].kid, mem.token[t].tenant, secrets + 1)
    ELSE Reminted(t, d, secrets + 1)

(* It is a new device of a kid that has none, or keeps the one there is.   *)
LEMMA RedeemedDevice ==
    ASSUME EnrolConstants, EnrolInv, NEW t \in DeviceTokens, NEW d \in DeviceIds,
           Redeemable(t), Target(t, d), NEW s, s = secrets + 1,
           NEW rec, rec = Redeemed(t, d)
    PROVE  /\ rec \in EnrolledRec /\ rec.secret = s /\ rec.kid = mem.token[t].kid
           /\ IF mem.device[d] = None THEN ByKid(rec.kid) = {}
              ELSE KeepsDevice(mem.device[d], rec)
<1>1. t \in Tokens /\ mem.token[t] # None /\ ~mem.token[t].used /\ mem.token[t] \in TokenRec
  BY Zenon DEF Tokens, Redeemable, EnrolInv, Enrolled, EnrolSnapshot
<1>2. mem.token[t].kid \in Kids /\ mem.token[t].tenant \in Tenants \cup {None}
  BY <1>1, Zenon DEF EnrolInv, Enrolled, TokenRec
<1>3. s \in Nat /\ secrets \in Nat
  BY DEF EnrolInv
<1>4. CASE mem.device[d] = None
  <2>1. ByKid(mem.token[t].kid) = {}
    BY <1>4, Zenon DEF Target, ByKid
  <2>2. rec = NewDevice(mem.token[t].kid, mem.token[t].tenant, s)
    BY <1>4, Zenon DEF Redeemed
  <2>3. rec \in EnrolledRec /\ rec.secret = s /\ rec.kid = mem.token[t].kid
    <3>1. PICK k \in Kids, n \in Tenants \cup {None} : rec = NewDevice(k, n, s) /\ k = mem.token[t].kid
      BY <1>2, <2>2, Zenon
    <3> QED BY <1>3, <3>1 DEF NewDevice, EnrolledRec
  <2> QED BY <1>4, <2>1, <2>3, Zenon
<1>5. CASE mem.device[d] # None
  <2>1. d \in ByKid(mem.token[t].kid) /\ MayRemint(t, d)
    BY <1>5, Zenon DEF Target
  <2>2. mem.device[d].kid = mem.token[t].kid /\ mem.device[d].tenant = mem.token[t].tenant
        /\ ~mem.device[d].revoked
    BY <2>1, Zenon DEF ByKid, MayRemint
  <2>3. mem.device[d] \in EnrolledRec
    BY <1>5, Zenon DEF EnrolInv, Enrolled, EnrolSnapshot
  <2>4. rec = [mem.device[d] EXCEPT !.secret = s]
    BY <1>5, Zenon DEF Reminted, Redeemed
  <2>5. /\ rec \in EnrolledRec /\ rec.secret = s /\ rec.kid = mem.device[d].kid
        /\ rec.tenant = mem.device[d].tenant /\ rec.agent = mem.device[d].agent
    BY <1>3, <2>3, <2>4 DEF EnrolledRec
  <2>6. mem.device[d].secret \in Nat /\ mem.device[d].secret <= secrets
    BY <1>5, <2>3, Zenon DEF EnrolInv, Enrolled, EnrolledRec
  <2>7. s >= mem.device[d].secret
    BY <1>3, <2>6
  <2>8. rec # None
    BY <2>5, Zenon DEF EnrolConstants
  <2>9. KeepsDevice(mem.device[d], rec)
    BY <1>1, <2>2, <2>5, <2>7, <2>8, Zenon DEF KeepsDevice
  <2> QED BY <1>5, <2>2, <2>5, <2>9, Zenon
<1> QED BY <1>4, <1>5, Zenon

(* redeemDevicePairing                                                     *)
LEMMA RedeemDeviceEnrols ==
    ASSUME EnrolConstants, EnrolInv, NEW t \in DeviceTokens, NEW d \in DeviceIds, NEW o,
           RedeemDevicePairing(t, d, o)
    PROVE  StepEnrols /\ AnswersOne
<1> DEFINE s == secrets + 1
           rec == Redeemed(t, d)
           used == [mem.token[t] EXCEPT !.used = TRUE]
<1>0. PICK first, both : /\ first = [mem EXCEPT !.device[d] = rec]
                         /\ both = [first EXCEPT !.token[t].used = TRUE]
                         /\ TwoPuts(first, both, o)
  BY Zenon DEF RedeemDevicePairing, Redeemed
<1>1. /\ Redeemable(t) /\ Target(t, d) /\ secrets' = s
      /\ Answer(t, s, o)
  BY Zenon DEF RedeemDevicePairing
<1>2. t \in Tokens /\ t \notin AgentTokens
  BY Zenon DEF Tokens, EnrolConstants
<1>3. /\ NewTokens([mem.token EXCEPT ![t] = used])
      /\ mem.token[t] \in TokenRec /\ used # None /\ used.used /\ used.kid = mem.token[t].kid
  BY <1>1, <1>2, UsedToken, Zenon
<1>4. /\ rec \in EnrolledRec /\ rec.secret = s /\ rec.kid = mem.token[t].kid
      /\ IF mem.device[d] = None THEN ByKid(rec.kid) = {} ELSE KeepsDevice(mem.device[d], rec)
  BY <1>1, RedeemedDevice, Zenon
<1>5. s \in Nat /\ s >= secrets /\ secrets' \in Nat /\ secrets' >= secrets /\ rec.secret <= secrets'
      /\ rec.secret >= s
  BY <1>1, <1>4 DEF EnrolInv
<1> HIDE DEF rec, s
<1>6. NewDevices([mem.device EXCEPT ![d] = rec], secrets')
  BY <1>4, <1>5, OneDevice, Zenon
<1>7. /\ NewTokens(mem.token) /\ NewAgents(mem.agent)
      /\ mem = [token |-> mem.token, agent |-> mem.agent, device |-> mem.device]
      /\ Enrols(mem, secrets')
  BY <1>5, OldParts, NothingEnrols, Zenon
<1>8. mem.token \in [Tokens -> TokenRec \cup {None}] /\ mem.device \in [DeviceIds -> EnrolledRec \cup {None}]
  BY Zenon DEF EnrolInv, Enrolled, EnrolSnapshot
<1>9. first = [token |-> mem.token, agent |-> mem.agent, device |-> [mem.device EXCEPT ![d] = rec]]
  BY <1>0, <1>7
<1>10. both = [token |-> [mem.token EXCEPT ![t] = used], agent |-> mem.agent, device |-> [mem.device EXCEPT ![d] = rec]]
  BY <1>0, <1>9, UsedIn, Zenon
<1>12. disk' = mem' /\ mem' \in {first, both, mem} /\ (o = "ok" => mem' = both)
  BY <1>0, TwoEnd, Zenon DEF EnrolInv
<1> HIDE DEF used
<1>11. Enrols(first, secrets') /\ Enrols(both, secrets')
  BY <1>3, <1>6, <1>7, <1>9, <1>10 DEF Enrols
<1>13. StepEnrols
  BY <1>7, <1>11, <1>12, Zenon DEF StepEnrols
<1>14. both.token[t] = used /\ both.device[d] = rec
  BY <1>2, <1>8, <1>10
<1>15. rec # None
  BY <1>4, Zenon DEF EnrolConstants
<1>16. Resolves([token |-> t, credential |-> s], both)
  BY <1>2, <1>3, <1>4, <1>5, <1>14, <1>15, Zenon DEF Resolves
<1>17. AnswersOne
  BY <1>1, <1>2, <1>12, <1>16, Zenon DEF AnswersOne, Answer, Redeemable
<1> QED BY <1>13, <1>17, Zenon
(* Every step enrols, and answers at most one credential.                  *)
LEMMA NextEnrols ==
    ASSUME EnrolConstants, EnrolInv, [Next]_(vars)
    PROVE  StepEnrols /\ AnswersOne
<1>1. ASSUME NEW t \in AgentTokens, NEW n \in Tenants \cup {None}, NEW o, CreatePairing(t, n, o)
      PROVE  StepEnrols /\ AnswersOne
  <2>1. t \in Tokens /\ t \notin DeviceTokens
    BY Zenon DEF Tokens, EnrolConstants
  <2> QED BY <1>1, <2>1, CreateEnrols, Zenon DEF CreatePairing, AnswersOne
<1>2. ASSUME NEW t \in DeviceTokens, NEW n \in Tenants, NEW k \in Kids, NEW o,
             CreateDevicePairing(t, n, k, o)
      PROVE  StepEnrols /\ AnswersOne
  <2>1. t \in Tokens
    BY Zenon DEF Tokens
  <2> QED BY <1>2, <2>1, CreateEnrols, Zenon DEF CreateDevicePairing, AnswersOne
<1>3. ASSUME NEW k \in Kids, NEW d \in DeviceIds, NEW o, RegisterDevice(k, d, o)
      PROVE  StepEnrols /\ AnswersOne
  BY <1>3, RegisterEnrols, Zenon DEF RegisterDevice, AnswersOne
<1>4. ASSUME NEW d \in DeviceIds, NEW o,
             RevokeSelf(d, o) \/ \E a \in AgentIds : ClaimDevice(a, d, o)
      PROVE  StepEnrols /\ AnswersOne
  BY <1>4, OwnerEnrols, Zenon DEF RevokeSelf, ClaimDevice, AnswersOne
<1>5. ASSUME secrets' = secrets, answered' = answered, disk' = mem', mem' = mem
      PROVE  StepEnrols /\ AnswersOne
  <2>1. secrets \in Nat /\ secrets >= secrets
    BY DEF EnrolInv
  <2> QED BY <1>5, <2>1, NothingEnrols, Zenon DEF StepEnrols, AnswersOne
<1>6. CASE UNCHANGED vars
  BY <1>5, <1>6, Zenon DEF vars, storeVars, EnrolInv
<1>7. CASE Tick
  BY <1>5, <1>7, Zenon DEF Tick, storeVars, EnrolInv
<1>8. CASE Stop \/ Restart
  BY <1>5, <1>8, Zenon DEF Stop, Restart, Crash, DiesWith, Close,
       RemoveLock, Open, EnrolInv
<1> QED BY <1>1, <1>2, <1>3, <1>4, <1>6, <1>7, <1>8, RedeemEnrols, RedeemDeviceEnrols, Zenon
        DEF Next

(* The clock and the secrets are numbers.                                  *)
LEMMA NextCounts ==
    ASSUME EnrolInv, [Next]_(vars)
    PROVE  now' \in Nat /\ secrets' \in Nat
<1>1. now' = now \/ now' = now + 1
  BY Zenon DEF Next, vars, CreatePairing, CreateDevicePairing, RegisterDevice,
     ClaimDevice, RevokeSelf, RedeemPairing, RedeemDevicePairing, Tick,
     Stop, Restart
<1>2. secrets' = secrets \/ secrets' = secrets + 1
  BY Zenon DEF Next, vars, CreatePairing, CreateDevicePairing, RegisterDevice,
     ClaimDevice, RevokeSelf, RedeemPairing, RedeemDevicePairing, Tick,
     Stop, Restart
<1> QED BY <1>1, <1>2 DEF EnrolInv

(* The invariant is inductive.                                             *)
LEMMA EnrolInvariance == EnrolConstants => (Spec => []EnrolInv)
<1> SUFFICES ASSUME EnrolConstants
             PROVE  Spec => []EnrolInv
  BY Zenon
<1>1. Init => EnrolInv
  <2> SUFFICES ASSUME Init
               PROVE  EnrolInv
    BY Zenon
  <2>1. mem = Empty /\ disk = mem /\ now = 0 /\ secrets = 0 /\ answered = {}
    BY Zenon DEF Init, StoreInit
  <2>2. Empty \in EnrolSnapshot
    BY DEF Empty, EnrolSnapshot, Tokens
  <2>3. /\ \A t \in DeviceTokens : Empty.token[t] = None
        /\ \A d \in DeviceIds : Empty.device[d] = None
    BY DEF Empty
  <2>4. Enrolled(mem, secrets)
    BY <2>1, <2>2, <2>3, Zenon DEF Enrolled
  <2>5. OneCredentialPerToken
    BY <2>1, Zenon DEF OneCredentialPerToken
  <2> QED BY <2>1, <2>4, <2>5 DEF EnrolInv
<1>2. EnrolInv /\ [Next]_(vars) => EnrolInv'
  <2> SUFFICES ASSUME EnrolInv, [Next]_(vars)
               PROVE  EnrolInv'
    BY Zenon
  <2>1. disk' = mem' /\ Enrols(mem', secrets') /\ AnswersOne
    BY NextEnrols, Zenon DEF StepEnrols
  <2>2. Enrolled(mem', secrets')
    BY <2>1, EnrolsWell, Zenon
  <2>3. ASSUME NEW p \in answered
        PROVE  Resolves(p, mem) /\ Resolves(p, mem')
    BY <2>1, ResolvesOn, Zenon DEF EnrolInv
  <2>4. \A p \in answered' : Resolves(p, mem')
    BY <2>1, <2>3, Zenon DEF AnswersOne
  <2>5. OneCredentialPerToken'
    <3>1. CASE answered' = answered
      BY <3>1, Zenon DEF EnrolInv, OneCredentialPerToken
    <3>2. CASE answered' # answered
      <4>1. PICK t \in Tokens : \E c : ~mem.token[t].used
                                  /\ answered' = answered \cup {[token |-> t, credential |-> c]}
        BY <2>1, <3>2, Zenon DEF AnswersOne
      <4>2. PICK c : answered' = answered \cup {[token |-> t, credential |-> c]}
        BY <4>1, Zenon
      <4>3. \A p \in answered : p.token # t
        BY <4>1, <2>3, Zenon DEF Resolves
      <4>4. ASSUME NEW p \in answered', NEW q \in answered', p.token = q.token
            PROVE  p = q
        <5>1. CASE p \in answered /\ q \in answered
          BY <4>4, <5>1, Zenon DEF EnrolInv, OneCredentialPerToken
        <5>2. CASE p \notin answered
          <6>1. p = [token |-> t, credential |-> c]
            BY <4>2, <5>2, Zenon
          <6> QED BY <4>2, <4>3, <4>4, <6>1, Zenon
        <5>3. CASE q \notin answered
          <6>1. q = [token |-> t, credential |-> c]
            BY <4>2, <5>3, Zenon
          <6> QED BY <4>2, <4>3, <4>4, <6>1, Zenon
        <5> QED BY <5>1, <5>2, <5>3, Zenon
      <4> QED BY <4>4, Zenon DEF OneCredentialPerToken
    <3> QED BY <3>1, <3>2, Zenon
  <2>6. (\A p \in answered : Resolves(p, mem))'
    BY <2>4, Zenon DEF Resolves
  <2> QED BY <2>1, <2>2, <2>5, <2>6, NextCounts, Zenon DEF EnrolInv, Enrolled
<1> QED BY <1>1, <1>2, PTL DEF Spec

(* A token buys at most one credential that anyone was given, although a   *)
(* failed or crashed redemption leaves it redeemable, for any number of    *)
(* tokens, failures and restarts (redeemPairing, redeemDevicePairing).     *)
THEOREM TokensBuyOne == EnrolConstants => (Spec => []OneCredentialPerToken)
<1>1. EnrolInv => OneCredentialPerToken
  BY Zenon DEF EnrolInv
<1> QED BY <1>1, EnrolInvariance, PTL

(* An answered credential is in the file, until its device is re-minted,   *)
(* over every failed write and crash (the answer comes after both puts).   *)
THEOREM CredentialsStay == EnrolConstants => (Spec => []AnsweredIsDurable)
<1> SUFFICES ASSUME EnrolConstants
             PROVE  Spec => []AnsweredIsDurable
  BY Zenon
<1>1. EnrolInv => AnsweredIsDurable
  BY Zenon DEF EnrolInv, AnsweredIsDurable, Resolves, Tokens
<1> QED BY <1>1, EnrolInvariance, PTL

(* A kid has one device record, however often it is registered, enrolled   *)
(* or recovered (registerDevice, redeemDevicePairing).                     *)
THEOREM KidsNameOneDevice == EnrolConstants => (Spec => []OneDevicePerKid)
<1> SUFFICES ASSUME EnrolConstants
             PROVE  Spec => []OneDevicePerKid
  BY Zenon
<1>1. EnrolInv => OneDevicePerKid
  <2> SUFFICES ASSUME EnrolInv, NEW k \in Kids
               PROVE  Cardinality(ByKid(k)) <= 1
    BY Zenon DEF OneDevicePerKid
  <2>1. CASE ByKid(k) = {}
    BY <2>1, FS_EmptySet
  <2>2. CASE ByKid(k) # {}
    <3>1. PICK d : ByKid(k) = {d}
      BY <2>2, Zenon DEF ByKid, EnrolInv, Enrolled
    <3>2. Cardinality(ByKid(k)) = 1
      BY <3>1, FS_Singleton, Zenon
    <3> QED BY <3>2
  <2> QED BY <2>1, <2>2, Zenon
<1> QED BY <1>1, EnrolInvariance, PTL

(* A device's secret changes only through an open token of its tenant and  *)
(* kid, and its owner, kid, tenant and revocation never go back            *)
(* (redeemDevicePairing, claimDevice, revokeSelf).                         *)
THEOREM RemintKeepsTheDevice ==
    EnrolConstants => (Spec => [][RemintsKeepDevices]_(vars))
<1> SUFFICES ASSUME EnrolConstants
             PROVE  Spec => [][RemintsKeepDevices]_(vars)
  BY Zenon
<1>1. EnrolInv /\ [Next]_(vars) => RemintsKeepDevices
  <2> SUFFICES ASSUME EnrolInv, [Next]_(vars)
               PROVE  RemintsKeepDevices
    BY Zenon
  <2>1. \A d \in DeviceIds : mem.device[d] # None => KeepsDevice(mem.device[d], mem'.device[d])
    BY NextEnrols, Zenon DEF StepEnrols, Enrols, NewDevices
  <2> QED BY <2>1, Zenon DEF KeepsDevice, RemintsKeepDevices
<1> QED BY <1>1, EnrolInvariance, PTL DEF Spec

-----------------------------------------------------------------------------
(* The rate limiter.                                                       *)

USE LimiterAssumption

Buckets == [Keys -> Bucket \cup {NoBucket}]

(* Facts about products that the provers do not find by themselves.        *)
LEMMA ProductGrows ==
    ASSUME NEW a \in Nat, NEW b \in Nat, a <= b, NEW r \in Nat
    PROVE  a * r <= b * r /\ a * r \in Nat
<1>1. b = a + (b - a) /\ b - a \in Nat
  OBVIOUS
<1>2. b * r = a * r + (b - a) * r
  BY <1>1, SMT
<1>3. (b - a) * r >= 0 /\ a * r \in Nat
  BY <1>1, SMT
<1> QED BY <1>2, <1>3

(* Multiplication by the next number.                                      *)
LEMMA ProductStep ==
    ASSUME NEW a \in Nat, NEW r \in Nat
    PROVE  (a + 1) * r = a * r + r /\ a * r \in Nat
OBVIOUS

(* take's level is a number of tokens a bucket can hold.                   *)
LEMMA LevelType ==
    ASSUME NEW bs \in Buckets, NEW k \in Keys, NEW t \in Nat,
           bs[k] # NoBucket => bs[k].last <= t
    PROVE  Level(bs, k, t) \in 0..Capacity
<1>1. CASE bs[k] = NoBucket
  BY <1>1 DEF Level
<1>2. CASE bs[k] # NoBucket
  <2>1. bs[k] \in Bucket
    BY <1>2, Zenon DEF Buckets
  <2>2. bs[k].tokens \in 0..Capacity /\ t - bs[k].last \in Nat
    BY <2>1, <1>2 DEF Bucket
  <2>3. (t - bs[k].last) * Refill \in Nat
    BY <2>2, ProductStep, Zenon
  <2> QED BY <1>2, <2>2, <2>3 DEF Level, Least
<1> QED BY <1>1, <1>2, Zenon

(* Gain is a number, at least the refill of the idle time and the burst.   *)
LEMMA GainType ==
    /\ Gain \in Nat /\ Capacity <= Gain
    /\ IdleEviction * Refill <= Gain /\ IdleEviction * Refill \in Nat
    /\ IdleEviction * Capacity \in Nat
<1>1. IdleEviction * Refill \in Nat /\ IdleEviction * Capacity \in Nat
  BY ProductStep, Zenon
<1> QED BY <1>1 DEF Gain

(* The parts of a bucket's level and credit.                               *)
LEMMA BucketParts ==
    ASSUME NEW bs \in Buckets, NEW k \in Keys, NEW t \in Nat,
           bs[k] # NoBucket, bs[k].last <= t
    PROVE  /\ bs[k].tokens \in 0..Capacity /\ t - bs[k].last \in Nat
           /\ (t - bs[k].last) * Gain \in Nat /\ (t - bs[k].last) * Refill \in Nat
           /\ IdleEviction * bs[k].tokens \in Nat
<1>1. bs[k] \in Bucket
  BY Zenon DEF Buckets
<1>2. bs[k].tokens \in 0..Capacity /\ t - bs[k].last \in Nat
  BY <1>1 DEF Bucket
<1>3. bs[k].tokens \in Nat
  BY <1>2
<1> QED BY <1>2, <1>3, ProductStep, GainType, Zenon

(* The credit of a key is a number.                                        *)
LEMMA CreditType ==
    ASSUME NEW bs \in Buckets, NEW k \in Keys, NEW t \in Nat,
           bs[k] # NoBucket => bs[k].last <= t
    PROVE  Credit(bs, k, t) \in Nat /\ Credit(bs, k, t) <= IdleEviction * Capacity
<1>1. CASE bs[k] = NoBucket
  BY <1>1, GainType DEF Credit
<1>2. CASE bs[k] # NoBucket
  BY <1>2, GainType, BucketParts DEF Credit, Least
<1> QED BY <1>1, <1>2, Zenon

(* A key never has more tokens than credit.                                *)
LEMMA LevelWithinCredit ==
    ASSUME NEW bs \in Buckets, NEW k \in Keys, NEW t \in Nat,
           bs[k] # NoBucket => bs[k].last <= t
    PROVE  IdleEviction * Level(bs, k, t) <= Credit(bs, k, t)
<1>1. CASE bs[k] = NoBucket
  BY <1>1, GainType DEF Credit, Level
<1>2. CASE bs[k] # NoBucket
  <2> DEFINE e == t - bs[k].last
             n == bs[k].tokens
  <2>1. n \in 0..Capacity /\ e \in Nat /\ e * Gain \in Nat /\ e * Refill \in Nat
        /\ IdleEviction * n \in Nat
    BY <1>2, BucketParts
  <2>2. /\ Level(bs, k, t) = Least(Capacity, n + e * Refill)
        /\ Credit(bs, k, t) = Least(IdleEviction * Capacity, IdleEviction * n + e * Gain)
    BY <1>2, Zenon DEF Level, Credit
  <2> HIDE DEF e, n
  <2>3. IdleEviction * (e * Refill) = (IdleEviction * Refill) * e
    BY <2>1, SMT
  <2>4. (IdleEviction * Refill) * e <= Gain * e
    BY <2>1, GainType, ProductGrows, Zenon
  <2>5. Gain * e = e * Gain
    BY <2>1, GainType, SMT
  <2>6. IdleEviction * (n + e * Refill) = IdleEviction * n + IdleEviction * (e * Refill)
    BY <2>1, SMT
  <2>7. IdleEviction * (n + e * Refill) <= IdleEviction * n + e * Gain
    BY <2>1, <2>3, <2>4, <2>5, <2>6, GainType
  <2>8. ASSUME NEW a \in Nat, NEW b \in Nat, a <= b
        PROVE  IdleEviction * a <= IdleEviction * b
    BY <2>8, ProductGrows, SMT
  <2>9. Least(Capacity, n + e * Refill) \in Nat
        /\ Least(Capacity, n + e * Refill) <= Capacity
        /\ Least(Capacity, n + e * Refill) <= n + e * Refill
        /\ n + e * Refill \in Nat
    BY <2>1 DEF Least
  <2>10. /\ IdleEviction * Level(bs, k, t) <= IdleEviction * Capacity
         /\ IdleEviction * Level(bs, k, t) <= IdleEviction * (n + e * Refill)
    BY <2>2, <2>8, <2>9
  <2>11. IdleEviction * Level(bs, k, t) \in Nat
    BY <2>2, <2>9, ProductStep, Zenon
  <2> QED BY <2>1, <2>2, <2>7, <2>9, <2>10, <2>11, GainType DEF Least
<1> QED BY <1>1, <1>2, Zenon

(* A tick adds at most Gain.                                               *)
LEMMA CreditOfTick ==
    ASSUME NEW bs \in Buckets, NEW k \in Keys, NEW t \in Nat,
           bs[k] # NoBucket => bs[k].last <= t
    PROVE  Credit(bs, k, t + 1) <= Credit(bs, k, t) + Gain
<1>1. CASE bs[k] = NoBucket
  BY <1>1, GainType DEF Credit
<1>2. CASE bs[k] # NoBucket
  <2> DEFINE e == t - bs[k].last
  <2>1. e \in Nat /\ e * Gain \in Nat /\ IdleEviction * bs[k].tokens \in Nat
    BY <1>2, BucketParts
  <2>2. bs[k] \in Bucket
    BY <1>2, Zenon DEF Buckets
  <2>3. (t + 1) - bs[k].last = e + 1
    BY <2>2 DEF Bucket
  <2>4. (e + 1) * Gain = e * Gain + Gain
    BY <2>1, GainType, ProductStep, Zenon
  <2> HIDE DEF e
  <2>5. Credit(bs, k, t + 1)
          = Least(IdleEviction * Capacity, IdleEviction * bs[k].tokens + (e * Gain + Gain))
    BY <1>2, <2>3, <2>4, Zenon DEF Credit
  <2>6. Credit(bs, k, t) = Least(IdleEviction * Capacity, IdleEviction * bs[k].tokens + e * Gain)
    BY <1>2, Zenon DEF Credit, e
  <2> QED BY <2>1, <2>5, <2>6, GainType DEF Least
<1> QED BY <1>1, <1>2, Zenon

(* evictIdle changes no key's credit: an idle bucket has gained a burst.   *)
LEMMA EvictionIsCounted ==
    ASSUME NEW bs \in Buckets, NEW t \in Nat,
           \A k \in Keys : bs[k] # NoBucket => bs[k].last <= t
    PROVE  /\ EvictIdle(bs, t) \in Buckets
           /\ \A k \in Keys : Credit(EvictIdle(bs, t), k, t) = Credit(bs, k, t)
           /\ \A k \in Keys : EvictIdle(bs, t)[k] \in {NoBucket, bs[k]}
<1>1. /\ EvictIdle(bs, t) \in Buckets
      /\ \A k \in Keys : EvictIdle(bs, t)[k] \in {NoBucket, bs[k]}
  BY Zenon DEF Buckets, EvictIdle
<1>2. ASSUME NEW k \in Keys
      PROVE  Credit(EvictIdle(bs, t), k, t) = Credit(bs, k, t)
  <2>1. CASE bs[k] # NoBucket /\ Idle(bs[k], t)
    <3> DEFINE e == t - bs[k].last
    <3>1. e \in Nat /\ e * Gain \in Nat /\ IdleEviction * bs[k].tokens \in Nat
      BY <2>1, BucketParts
    <3>2. IdleEviction <= e
      BY <2>1, Zenon DEF Idle
    <3> HIDE DEF e
    <3>3. IdleEviction * Gain <= e * Gain /\ IdleEviction * Gain \in Nat
      BY <3>1, <3>2, GainType, ProductGrows, Zenon
    <3>4. Capacity * IdleEviction <= Gain * IdleEviction
      BY GainType, ProductGrows, Zenon
    <3>5. Capacity * IdleEviction = IdleEviction * Capacity /\ Gain * IdleEviction = IdleEviction * Gain
      BY GainType, SMT
    <3>6. Credit(bs, k, t) = Least(IdleEviction * Capacity, IdleEviction * bs[k].tokens + e * Gain)
      BY <2>1, Zenon DEF Credit, e
    <3>7. Credit(bs, k, t) = IdleEviction * Capacity
      BY <3>1, <3>3, <3>4, <3>5, <3>6, GainType DEF Least
    <3> QED BY <2>1, <3>7, Zenon DEF Credit, EvictIdle
  <2>2. CASE ~(bs[k] # NoBucket /\ Idle(bs[k], t))
    <3>1. EvictIdle(bs, t)[k] = bs[k]
      BY <2>2, Zenon DEF EvictIdle
    <3> QED BY <3>1, Zenon DEF Credit
  <2> QED BY <2>1, <2>2, Zenon
<1> QED BY <1>1, <1>2, Zenon

(* What a take does to the map before it looks at its key.                 *)
LEMMA RoomIsCounted ==
    ASSUME TypeOK, NEW k \in Keys
    PROVE  /\ WithRoom(k) \in Buckets
           /\ \A j \in Keys : Credit(WithRoom(k), j, time) = Credit(bucket, j, time)
           /\ \A j \in Keys : WithRoom(k)[j] \in {NoBucket, bucket[j]}
<1>1. bucket \in Buckets /\ time \in Nat
      /\ \A j \in Keys : bucket[j] # NoBucket => bucket[j].last <= time
  BY Zenon DEF TypeOK, Buckets
<1> QED BY <1>1, EvictionIsCounted, Zenon DEF WithRoom

-----------------------------------------------------------------------------
(* The inductive invariant.                                                *)
IInv == TypeOK /\ CreditBound /\ MapBounded

(* The invariant holds of an empty limiter.                                *)
LEMMA InitInvariant == LimiterInit => IInv
<1> SUFFICES ASSUME LimiterInit PROVE IInv
  BY Zenon
<1>1. TypeOK
  BY DEF LimiterInit, TypeOK
<1>2. CreditBound
  BY GainType DEF LimiterInit, CreditBound, Credit
<1>3. Live(bucket) = {}
  BY Zenon DEF LimiterInit, Live
<1>4. MapBounded
  BY <1>3, FS_EmptySet DEF MapBounded
<1> QED BY <1>1, <1>2, <1>4, Zenon DEF IInv

(* The buckets in the map are finitely many, and their number grows by at  *)
(* most the one that is added.                                             *)
LEMMA LiveIsFinite ==
    ASSUME NEW bs
    PROVE  IsFiniteSet(Live(bs)) /\ Cardinality(Live(bs)) \in Nat
<1>1. Live(bs) \subseteq Keys
  BY Zenon DEF Live
<1> QED BY <1>1, FS_Subset, FS_CardinalityType, Zenon

(* take keeps the invariant: what it lets pass it takes from the bucket.   *)
LEMMA TakeInvariant ==
    ASSUME IInv, NEW k \in Keys, Take(k)
    PROVE  IInv'
<1> DEFINE bs == WithRoom(k)
           level == Level(bs, k, time)
           cost == IF level >= 1 THEN 1 ELSE 0
<1>1. /\ bs \in Buckets
      /\ \A j \in Keys : Credit(bs, j, time) = Credit(bucket, j, time)
      /\ \A j \in Keys : bs[j] \in {NoBucket, bucket[j]}
  BY RoomIsCounted, Zenon DEF IInv
<1>2. time \in Nat /\ since \in 0..time /\ count \in [Keys -> Nat]
      /\ \A j \in Keys : bs[j] # NoBucket => bs[j].last <= time
  BY <1>1, Zenon DEF IInv, TypeOK
<1>3. level \in 0..Capacity
  BY <1>1, <1>2, LevelType, Zenon
<1>4. time' = time /\ since' = since
  BY Zenon DEF Take
<1>5. Live(bs) \subseteq Live(bucket)
  BY <1>1, Zenon DEF Live
<1>6. Cardinality(Live(bs)) <= MaxBuckets
  BY <1>5, LiveIsFinite, FS_Subset DEF IInv, MapBounded
<1>7. CASE Full(bs, k)
  <2>1. bucket' = bs /\ count' = count
    BY <1>7, Zenon DEF Take
  <2>2. TypeOK'
    BY <1>1, <1>2, <1>4, <2>1, Zenon DEF TypeOK, Buckets
  <2>3. CreditBound'
    BY <1>1, <1>4, <2>1, Zenon DEF IInv, CreditBound, Credit
  <2>4. MapBounded'
    BY <1>6, <2>1, Zenon DEF MapBounded, Live
  <2> QED BY <2>2, <2>3, <2>4, Zenon DEF IInv
<1>8. CASE ~Full(bs, k)
  <2>1. /\ bucket' = [bs EXCEPT ![k] = [tokens |-> level - cost, last |-> time]]
        /\ count' = [count EXCEPT ![k] = @ + cost]
    BY <1>8, Zenon DEF Take
  <2>2. cost \in {0, 1} /\ level - cost \in 0..Capacity
    BY <1>3
  <2> HIDE DEF level, cost, bs
  <2>3. TypeOK'
    <3>1. [tokens |-> level - cost, last |-> time] \in Bucket
      BY <1>2, <2>2, Zenon DEF Bucket
    <3>2. bucket' \in Buckets /\ \A j \in Keys : bucket'[j] # NoBucket => bucket'[j].last <= time
      BY <1>1, <1>2, <2>1, <3>1 DEF Buckets
    <3>3. count' \in [Keys -> Nat]
      BY <1>2, <2>1, <2>2
    <3> QED BY <1>2, <1>4, <3>2, <3>3, Zenon DEF TypeOK, Buckets
  <2>4. CreditBound'
    <3> DEFINE cap == IdleEviction * Capacity + (time - since) * Gain
    <3> SUFFICES ASSUME NEW j \in Keys
                 PROVE  IdleEviction * count'[j] + Credit(bucket', j, time) <= cap
      BY <1>4, Zenon DEF CreditBound, Credit
    <3>1. IdleEviction * count[j] + Credit(bs, j, time) <= cap
      BY <1>1, Zenon DEF IInv, CreditBound
    <3>2. CASE j = k
      <4>1. count'[j] = count[j] + cost
        BY <1>2, <2>1, <3>2, Zenon
      <4>2. bucket'[j] = [tokens |-> level - cost, last |-> time]
        BY <1>1, <2>1, <3>2, Zenon DEF Buckets
      <4>3. [tokens |-> level - cost, last |-> time] \in Bucket
        BY <1>2, <2>2, Zenon DEF Bucket
      <4>4. bucket'[j] # NoBucket
        BY <4>2, <4>3, Zenon DEF Bucket
      <4>5. count[j] \in Nat /\ level \in Nat /\ cost \in {0, 1} /\ level - cost \in Nat
        BY <1>2, <1>3, <2>2
      <4>6. Credit(bucket', j, time) <= IdleEviction * (level - cost)
        <5>1. Credit(bucket', j, time)
                = Least(IdleEviction * Capacity,
                        IdleEviction * (level - cost) + (time - time) * Gain)
          BY <4>2, <4>4 DEF Credit
        <5>2. (time - time) * Gain = 0
          BY <1>2, GainType
        <5>3. IdleEviction * (level - cost) \in Nat
          BY <4>5, ProductStep, Zenon
        <5> HIDE DEF cap
        <5> QED BY <5>1, <5>2, <5>3, GainType DEF Least
      <4>7. IdleEviction * level <= Credit(bs, j, time)
        BY <1>1, <1>2, <3>2, LevelWithinCredit, Zenon DEF level
      <4>8. /\ IdleEviction * (count[j] + cost) = IdleEviction * count[j] + IdleEviction * cost
            /\ IdleEviction * (level - cost) = IdleEviction * level - IdleEviction * cost
        BY <4>5, SMT
      <4>9. IdleEviction * count[j] \in Nat /\ IdleEviction * level \in Nat
            /\ IdleEviction * cost \in Nat
        BY <4>5, ProductStep
      <4>10. Credit(bs, j, time) \in Nat /\ Credit(bucket', j, time) \in Nat
        <5>1. bucket' \in Buckets /\ (bucket'[j] # NoBucket => bucket'[j].last <= time)
          BY <1>4, <2>3, Zenon DEF TypeOK, Buckets
        <5> QED BY <1>1, <1>2, <5>1, CreditType, Zenon
      <4>11. cap \in Int
        BY <1>2, GainType
      <4> HIDE DEF cap
      <4>12. IdleEviction * count'[j] = IdleEviction * count[j] + IdleEviction * cost
        BY <4>1, <4>8, Zenon
      <4>13. Credit(bucket', j, time) <= IdleEviction * level - IdleEviction * cost
        BY <4>6, <4>8, Zenon
      <4> QED BY <3>1, <4>7, <4>9, <4>10, <4>11, <4>12, <4>13
    <3>3. CASE j # k
      <4>1. count'[j] = count[j] /\ bucket'[j] = bs[j]
        BY <1>1, <1>2, <2>1, <3>3, Zenon DEF Buckets
      <4> QED BY <3>1, <4>1, Zenon DEF Credit
    <3> QED BY <3>2, <3>3, Zenon
  <2>5. MapBounded'
    <3>1. Live(bucket') \subseteq Live(bs) \cup {k}
      BY <1>1, <2>1, Zenon DEF Live, Buckets
    <3>2. IsFiniteSet(Live(bs)) /\ Cardinality(Live(bs)) \in Nat
      BY LiveIsFinite, Zenon
    <3>3. IsFiniteSet(Live(bs) \cup {k})
          /\ Cardinality(Live(bucket')) <= Cardinality(Live(bs) \cup {k})
      BY <3>1, <3>2, FS_AddElement, FS_Subset, Zenon
    <3>4. CASE k \in Live(bs)
      <4>1. Live(bs) \cup {k} = Live(bs)
        BY <3>4, Zenon
      <4>2. Cardinality(Live(bucket')) <= MaxBuckets
        <5>1. Cardinality(Live(bucket')) \in Nat /\ Cardinality(Live(bucket')) <= Cardinality(Live(bs))
          BY <3>3, <4>1, LiveIsFinite, Zenon
        <5> QED BY <1>6, <3>2, <5>1
      <4> QED BY <4>2, Zenon DEF MapBounded
    <3>5. CASE k \notin Live(bs)
      <4>1. Cardinality(Live(bs)) < MaxBuckets
        BY <1>8, <3>2, <3>5 DEF Full, Live
      <4>2. Cardinality(Live(bs) \cup {k}) = Cardinality(Live(bs)) + 1
        BY <3>2, <3>5, FS_AddElement, Zenon
      <4>3. Cardinality(Live(bucket')) \in Nat
        BY LiveIsFinite, Zenon
      <4>4. Cardinality(Live(bucket')) <= MaxBuckets
        BY <3>2, <3>3, <4>1, <4>2, <4>3
      <4> QED BY <4>4, Zenon DEF MapBounded, Live
    <3> QED BY <3>4, <3>5, Zenon
  <2> QED BY <2>3, <2>4, <2>5, Zenon DEF IInv
<1> QED BY <1>7, <1>8, Zenon

(* The passing of time keeps it: a bucket gains at most Gain.               *)
LEMMA TickInvariant ==
    ASSUME IInv, TimePasses
    PROVE  IInv'
<1>1. time' = time + 1 /\ UNCHANGED <<bucket, since, count>>
  BY Zenon DEF TimePasses
<1>2. TypeOK'
  BY <1>1 DEF IInv, TypeOK, Bucket
<1>3. ASSUME NEW k \in Keys
      PROVE  IdleEviction * count[k] + Credit(bucket, k, time + 1)
               <= IdleEviction * Capacity + ((time + 1) - since) * Gain
  <2>1. /\ bucket \in Buckets /\ time \in Nat /\ since \in 0..time /\ count[k] \in Nat
        /\ \A j \in Keys : bucket[j] # NoBucket => bucket[j].last <= time
    BY Zenon DEF IInv, TypeOK, Buckets
  <2>2. Credit(bucket, k, time + 1) <= Credit(bucket, k, time) + Gain
    BY <2>1, CreditOfTick, Zenon
  <2>3. Credit(bucket, k, time) \in Nat
    BY <2>1, CreditType, Zenon
  <2>4. time + 1 \in Nat /\ \A j \in Keys : bucket[j] # NoBucket => bucket[j].last <= time + 1
    BY <2>1 DEF Buckets, Bucket
  <2>5. Credit(bucket, k, time + 1) \in Nat
    BY <2>1, <2>4, CreditType, Zenon
  <2> DEFINE e == time - since
  <2>6. e \in Nat /\ (time + 1) - since = e + 1
    BY <2>1
  <2>7. (e + 1) * Gain = e * Gain + Gain /\ e * Gain \in Nat
    BY <2>6, GainType, ProductStep, Zenon
  <2>8. IdleEviction * count[k] + Credit(bucket, k, time) <= IdleEviction * Capacity + e * Gain
    BY Zenon DEF IInv, CreditBound
  <2>9. IdleEviction * count[k] \in Nat
    BY <2>1, ProductStep, Zenon
  <2> HIDE DEF e
  <2>10. IdleEviction * count[k] + Credit(bucket, k, time + 1)
           <= IdleEviction * Capacity + (e + 1) * Gain
    BY <2>2, <2>3, <2>5, <2>7, <2>8, <2>9, GainType
  <2> QED BY <2>6, <2>10, Zenon
<1>4. CreditBound'
  BY <1>1, <1>3, Zenon DEF CreditBound, Credit
<1>5. MapBounded'
  BY <1>1, Zenon DEF IInv, MapBounded, Live
<1> QED BY <1>2, <1>4, <1>5, Zenon DEF IInv

(* A window that opens now has counted nothing.                            *)
LEMMA ObserveInvariant ==
    ASSUME IInv, Observe
    PROVE  IInv'
<1>1. since' = time /\ count' = [k \in Keys |-> 0] /\ bucket' = bucket /\ time' = time
  BY Zenon DEF Observe
<1>2. TypeOK'
  BY <1>1 DEF IInv, TypeOK
<1>3. ASSUME NEW k \in Keys
      PROVE  IdleEviction * 0 + Credit(bucket, k, time)
               <= IdleEviction * Capacity + (time - time) * Gain
  <2>1. /\ bucket \in Buckets /\ time \in Nat
        /\ bucket[k] # NoBucket => bucket[k].last <= time
    BY Zenon DEF IInv, TypeOK, Buckets
  <2>2. Credit(bucket, k, time) \in Nat /\ Credit(bucket, k, time) <= IdleEviction * Capacity
    BY <2>1, CreditType, Zenon
  <2>3. (time - time) * Gain = 0 /\ IdleEviction * 0 = 0
    BY <2>1, GainType
  <2> QED BY <2>2, <2>3, GainType
<1>4. CreditBound'
  BY <1>1, <1>3, Zenon DEF CreditBound, Credit
<1>5. MapBounded'
  BY <1>1, Zenon DEF IInv, MapBounded, Live
<1> QED BY <1>2, <1>4, <1>5, Zenon DEF IInv

(* Every step of the limiter keeps the invariant.                          *)
LEMMA StepInvariant == IInv /\ [LimiterNext]_limiterVars => IInv'
<1> SUFFICES ASSUME IInv, [LimiterNext]_limiterVars PROVE IInv'
  BY Zenon
<1>1. CASE UNCHANGED limiterVars
  BY <1>1, Zenon DEF limiterVars, IInv, TypeOK, CreditBound, MapBounded, Credit, Live
<1> QED BY <1>1, TakeInvariant, TickInvariant, ObserveInvariant, Zenon DEF LimiterNext

-----------------------------------------------------------------------------
(* In every window of the clock, a key is granted at most its burst and    *)
(* what a key can gain in that time, by its refill or by a new bucket,     *)
(* whatever the burst, the rate and the idle time, whatever other keys     *)
(* fill the map and however often its own bucket is evicted (take,         *)
(* evictIdle).                                                             *)
THEOREM WindowIsBounded == LimiterSpec => []WindowBound
<1>1. IInv => WindowBound
  <2> SUFFICES ASSUME IInv, NEW k \in Keys
               PROVE  IdleEviction * count[k] <= IdleEviction * Capacity + (time - since) * Gain
    BY Zenon DEF WindowBound
  <2>1. /\ bucket \in Buckets /\ time \in Nat /\ since \in 0..time /\ count[k] \in Nat
        /\ bucket[k] # NoBucket => bucket[k].last <= time
    BY Zenon DEF IInv, TypeOK, Buckets
  <2>2. Credit(bucket, k, time) \in Nat
    BY <2>1, CreditType, Zenon
  <2>3. IdleEviction * count[k] \in Nat /\ (time - since) * Gain \in Nat
    BY <2>1, GainType, ProductStep
  <2>4. IdleEviction * count[k] + Credit(bucket, k, time)
          <= IdleEviction * Capacity + (time - since) * Gain
    BY Zenon DEF IInv, CreditBound
  <2> QED BY <2>2, <2>3, <2>4, GainType
<1> QED BY <1>1, InitInvariant, StepInvariant, PTL DEF LimiterSpec

(* Where the burst refills within the idle time, that is the burst and the *)
(* window's refill: evicting an idle bucket gives its key nothing          *)
(* (evictIdle).                                                            *)
THEOREM BurstIsBounded ==
    Capacity <= IdleEviction * Refill => (LimiterSpec => []BurstBound)
<1> SUFFICES ASSUME Capacity <= IdleEviction * Refill
             PROVE  LimiterSpec => []BurstBound
  OBVIOUS
<1>1. IInv /\ WindowBound => BurstBound
  <2> SUFFICES ASSUME IInv, WindowBound, NEW k \in Keys
               PROVE  count[k] <= Capacity + (time - since) * Refill
    BY Zenon DEF BurstBound
  <2> DEFINE e == time - since
             most == Capacity + e * Refill
  <2>1. e \in Nat /\ count[k] \in Nat
    BY DEF IInv, TypeOK
  <2>2. Gain = IdleEviction * Refill
    BY Zenon DEF Gain
  <2>3. IdleEviction * count[k] <= IdleEviction * Capacity + e * Gain
    BY Zenon DEF WindowBound
  <2> HIDE DEF e
  <2>4. e * Refill \in Nat /\ most \in Nat
    BY <2>1, ProductStep
  <2>5. IdleEviction * most = IdleEviction * Capacity + e * (IdleEviction * Refill)
    BY <2>1, <2>4, SMT
  <2> HIDE DEF most
  <2>6. IdleEviction * count[k] <= IdleEviction * most
    BY <2>2, <2>3, <2>5, Zenon
  <2>7. ASSUME most < count[k]
        PROVE  FALSE
    <3>1. most + 1 \in Nat /\ most + 1 <= count[k]
      BY <2>1, <2>4, <2>7
    <3>2. (most + 1) * IdleEviction <= count[k] * IdleEviction
      BY <2>1, <3>1, ProductGrows, Zenon
    <3>3. (most + 1) * IdleEviction = most * IdleEviction + IdleEviction
          /\ most * IdleEviction \in Nat
      BY <2>4, ProductStep, Zenon
    <3>4. most * IdleEviction = IdleEviction * most /\ count[k] * IdleEviction = IdleEviction * count[k]
      BY <2>1, <2>4, SMT
    <3>5. count[k] * IdleEviction \in Nat
      BY <2>1, ProductStep, Zenon
    <3> QED BY <2>6, <3>2, <3>3, <3>4, <3>5
  <2> QED BY <2>1, <2>4, <2>7 DEF most, e
<1>2. LimiterSpec => []IInv
  BY InitInvariant, StepInvariant, PTL DEF LimiterSpec
<1> QED BY <1>1, <1>2, WindowIsBounded, PTL

(* The map of buckets never holds more than MAX_BUCKETS (take).            *)
THEOREM MapIsBounded == LimiterSpec => []MapBounded
<1>1. IInv => MapBounded
  BY Zenon DEF IInv
<1> QED BY <1>1, InitInvariant, StepInvariant, PTL DEF LimiterSpec
=============================================================================
