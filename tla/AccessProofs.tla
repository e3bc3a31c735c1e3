---------------------------- MODULE AccessProofs ----------------------------
(***************************************************************************)
(* Theorems about Access, for any accounts, keys, providers, identities,   *)
(* roles, requests and number of changes.                                  *)
(*                                                                         *)
(* AdmittedIsCovered is not inductive: that a request is admitted says     *)
(* nothing of the statement before.  The invariant says of every stage     *)
(* what the statements so far have established: a token in flight names an *)
(* identity, and a known holder was once good during the request.          *)
(***************************************************************************)
EXTENDS Access, TLAPS

\* Zenon is tried first, and a step it is not made for cites the SMT solver.  Both get more time
\* than by default: preparing the next step counts against it.
USE ZenonT(30), SMTT(30)

StageInv ==
    \A c \in Request :
        /\ request[c].stage \in {"found", "verified"} => request[c].credential \in Identity
        /\ request[c].stage = "known" =>
              request[c].credential \in Key \cup Identity /\ during[c].valid
        /\ request[c].stage = "idle" => during[c] = Nothing

IInv == TypeOK /\ StageInv /\ AdmittedIsCovered

-----------------------------------------------------------------------------
\* Init establishes the invariant: no row, no request.
LEMMA InitIInv == Init => IInv
BY AccessAssumption, SMTT(30)
   DEF Init, IInv, TypeOK, StageInv, AdmittedIsCovered, HolderRow, ProviderRow, KeyStatus,
       RequestState, Stage, Moments, Idle, Nothing, Credential

\* The tables and the cache stay well typed in every step (the rows that handlers write, and
\* the verifier a request leaves in the cache).
LEMMA TablesTyped ==
    ASSUME IInv, Step
    PROVE  /\ holder' \in [Holder -> HolderRow]
           /\ key' \in [Key -> KeyStatus]
           /\ provider' \in [Provider -> ProviderRow]
           /\ cache' \subseteq Provider \X (0 .. MaxVersion)
<1> USE AccessAssumption DEF IInv, TypeOK
<1>1. ASSUME NEW c \in Request, Authenticate(c)
      PROVE  /\ UNCHANGED <<holder, key, provider>>
             /\ cache' \subseteq Provider \X (0 .. MaxVersion)
  <2>1. CASE VerifyToken(c)
    <3>1. /\ ProviderOf[request[c].credential] \in Provider
          /\ request[c].version \in 0 .. MaxVersion
      BY <2>1 DEF VerifyToken, StageInv, RequestState
    <3> QED BY <2>1, <3>1, SMTT(30) DEF VerifyToken, CacheWith
  <2>2. CASE ~VerifyToken(c)
    BY <1>1, <2>2 DEF Authenticate, AuthenticateBootstrap, AuthenticateServiceAccountKey,
                      FindOIDCProvider, AuthenticateOIDCIdentity, ReadRoles, FinishRequest
  <2> QED BY <2>1, <2>2
<1>2. ASSUME NEW c \in Request, NEW roles, NEW h \in Holder,
             \/ h \in Account /\ CreateServiceAccount(c, h, roles)
             \/ h \in Identity /\ CreateOIDCIdentity(c, h, roles)
      PROVE  holder' \in [Holder -> HolderRow] /\ UNCHANGED <<key, provider, cache>>
  <2>1. /\ roles \in SUBSET Role
        /\ MaxVersion > 0
        /\ holder' = [holder EXCEPT ![h] = [enabled |-> TRUE, roles |-> roles, version |-> 1]]
        /\ UNCHANGED <<key, provider, cache>>
    BY <1>2 DEF CreateServiceAccount, CreateOIDCIdentity, Normalizes
  <2> QED BY <2>1, SMTT(30) DEF HolderRow
<1>3. ASSUME NEW c \in Request, NEW roles, NEW h \in Holder,
             \/ \E enabled \in BOOLEAN : UpdateServiceAccount(c, h, enabled, roles)
             \/ \E enabled \in BOOLEAN : UpdateOIDCIdentity(c, h, enabled, roles)
      PROVE  holder' \in [Holder -> HolderRow] /\ UNCHANGED <<key, provider, cache>>
  <2>1. PICK enabled \in BOOLEAN :
           UpdateServiceAccount(c, h, enabled, roles) \/ UpdateOIDCIdentity(c, h, enabled, roles)
    BY <1>3
  <2> QED
    BY <2>1, SMTT(30) DEF UpdateServiceAccount, UpdateOIDCIdentity, Normalizes, HolderRow
<1>4. ASSUME NEW c \in Request, NEW k \in Key,
             CreateServiceAccountKey(c, k) \/ RevokeServiceAccountKey(c, k)
      PROVE  key' \in [Key -> KeyStatus] /\ UNCHANGED <<holder, provider, cache>>
  BY <1>4 DEF CreateServiceAccountKey, RevokeServiceAccountKey, KeyStatus
<1>5. ASSUME NEW c \in Request, NEW p \in Provider, CreateOIDCProvider(c, p)
      PROVE  provider' \in [Provider -> ProviderRow] /\ UNCHANGED <<holder, key, cache>>
  BY <1>5, SMTT(30) DEF CreateOIDCProvider, ProviderRow
<1>6. ASSUME NEW c \in Request, NEW p \in Provider, NEW enabled \in BOOLEAN,
             UpdateOIDCProvider(c, p, enabled)
      PROVE  provider' \in [Provider -> ProviderRow] /\ UNCHANGED <<holder, key, cache>>
  BY <1>6, SMTT(30) DEF UpdateOIDCProvider, ProviderRow
<1>7. ASSUME NEW k \in Key, KeyExpires(k)
      PROVE  key' \in [Key -> KeyStatus] /\ UNCHANGED <<holder, provider, cache>>
  BY <1>7 DEF KeyExpires, KeyStatus
<1>8. ASSUME NEW c \in Request, Administer(c)
      PROVE  /\ holder' \in [Holder -> HolderRow]
             /\ key' \in [Key -> KeyStatus]
             /\ provider' \in [Provider -> ProviderRow]
             /\ UNCHANGED cache
  <2>1. CASE \E roles \in SUBSET RoleName : AdministerHolder(c, roles)
    <3>1. PICK roles \in SUBSET RoleName : AdministerHolder(c, roles)
      BY <2>1
    <3>2. ASSUME NEW a \in Account, CreateServiceAccount(c, a, roles)
          PROVE  holder' \in [Holder -> HolderRow] /\ UNCHANGED <<key, provider, cache>>
      BY <1>2, <3>2 DEF Holder
    <3>3. ASSUME NEW u \in Identity, CreateOIDCIdentity(c, u, roles)
          PROVE  holder' \in [Holder -> HolderRow] /\ UNCHANGED <<key, provider, cache>>
      BY <1>2, <3>3 DEF Holder
    <3>4. ASSUME NEW a \in Account, \E enabled \in BOOLEAN : UpdateServiceAccount(c, a, enabled, roles)
          PROVE  holder' \in [Holder -> HolderRow] /\ UNCHANGED <<key, provider, cache>>
      BY <1>3, <3>4 DEF Holder
    <3>5. ASSUME NEW u \in Identity, \E enabled \in BOOLEAN : UpdateOIDCIdentity(c, u, enabled, roles)
          PROVE  holder' \in [Holder -> HolderRow] /\ UNCHANGED <<key, provider, cache>>
      BY <1>3, <3>5 DEF Holder
    <3>6. holder' \in [Holder -> HolderRow] /\ UNCHANGED <<key, provider, cache>>
      BY <3>1, <3>2, <3>3, <3>4, <3>5 DEF AdministerHolder
    <3> QED BY <3>6
  <2>2. CASE \E k \in Key : CreateServiceAccountKey(c, k) \/ RevokeServiceAccountKey(c, k)
    BY <2>2, <1>4
  <2>3. CASE \E p \in Provider :
                \/ CreateOIDCProvider(c, p)
                \/ \E enabled \in BOOLEAN : UpdateOIDCProvider(c, p, enabled)
    BY <2>3, <1>5, <1>6, SMTT(30)
  <2> QED BY <1>8, <2>1, <2>2, <2>3 DEF Administer
<1> QED BY <1>1, <1>7, <1>8 DEF Step

\* What one request has to show for its new state, whoever else changed the tables; the other
\* requests only witness one moment more.
LEMMA Moves ==
    ASSUME IInv, NEW d \in Request, NEW X \in RequestState,
           holder' \in [Holder -> HolderRow],
           request' = [request EXCEPT ![d] = X],
           during' = [c \in Request |-> Witnessed(c)],
           X.stage \in {"found", "verified"} => X.credential \in Identity,
           X.stage = "known" => X.credential \in Key \cup Identity,
           X.stage \in {"known", "admitted"} =>
               during[d].valid \/ ValidIn(X.credential, holder', key', provider'),
           X.stage = "admitted" =>
               X.roles \in during[d].held \cup {RolesIn(X.credential, holder')}
    PROVE  /\ request' \in [Request -> RequestState]
           /\ during' \in [Request -> Moments]
           /\ StageInv'
           /\ AdmittedIsCovered'
<1> USE AccessAssumption DEF IInv, TypeOK
<1>1. request' \in [Request -> RequestState]
  OBVIOUS
<1>2. ASSUME NEW c \in Request
      PROVE  /\ during'[c] \in Moments
             /\ request'[c].stage = "idle" => during'[c] = Nothing
             /\ request'[c].stage # "idle" =>
                  /\ during'[c].valid =
                        (during[c].valid \/ ValidIn(request'[c].credential, holder', key', provider'))
                  /\ during'[c].held =
                        during[c].held \cup {RolesIn(request'[c].credential, holder')}
  <2>1. during'[c] = Witnessed(c)
    OBVIOUS
  <2>2. during[c].valid \in BOOLEAN /\ during[c].held \in SUBSET (SUBSET Role)
    BY DEF Moments
  <2>3. request'[c].credential \in Credential
    BY <1>1 DEF RequestState
  <2>4. RolesIn(request'[c].credential, holder') \in SUBSET Role
    BY <2>3 DEF RolesIn, HolderOf, Credential, Holder, HolderRow
  <2>5. ValidIn(request'[c].credential, holder', key', provider') \in BOOLEAN
    BY DEF ValidIn
  <2> QED BY <2>1, <2>2, <2>4, <2>5 DEF Witnessed, Moments, Nothing
<1>3. during' \in [Request -> Moments]
  BY <1>2
<1>4. ASSUME NEW c \in Request
      PROVE  /\ request'[c].stage \in {"found", "verified"} => request'[c].credential \in Identity
             /\ request'[c].stage = "known" =>
                  request'[c].credential \in Key \cup Identity /\ during'[c].valid
             /\ request'[c].stage = "admitted" =>
                  during'[c].valid /\ request'[c].roles \in during'[c].held
  <2>1. CASE c = d
    BY <1>2, <2>1
  <2>2. CASE c # d
    <3>1. request'[c] = request[c]
      BY <2>2
    <3>2. request[c].stage # "idle" =>
             /\ during[c].valid => during'[c].valid
             /\ during[c].held \subseteq during'[c].held
      <4>1. request'[c].stage # "idle" =>
              /\ during'[c].valid =
                    (during[c].valid \/ ValidIn(request'[c].credential, holder', key', provider'))
              /\ during'[c].held = during[c].held \cup {RolesIn(request'[c].credential, holder')}
        BY <1>2
      <4> QED
        BY <3>1, <4>1
    <3>3. /\ request[c].stage \in {"found", "verified"} => request[c].credential \in Identity
          /\ request[c].stage = "known" =>
                request[c].credential \in Key \cup Identity /\ during[c].valid
          /\ request[c].stage = "admitted" =>
                during[c].valid /\ request[c].roles \in during[c].held
      BY DEF StageInv, AdmittedIsCovered
    <3> QED BY <3>1, <3>2, <3>3
  <2> QED BY <2>1, <2>2
<1> QED BY <1>1, <1>2, <1>3, <1>4 DEF StageInv, AdmittedIsCovered

\* Every step keeps the invariant, one action after the other.
LEMMA NextIInv == IInv /\ [Next]_vars => IInv'
<1> SUFFICES ASSUME IInv, [Next]_vars
             PROVE  IInv'
  OBVIOUS
<1> USE AccessAssumption
<1>1. CASE UNCHANGED vars
  BY <1>1 DEF vars, IInv, TypeOK, StageInv, AdmittedIsCovered
<1>2. CASE Next
  <2>0. /\ during' = [c \in Request |-> Witnessed(c)]
        /\ Step
    BY <1>2 DEF Next
  <2>1. /\ holder' \in [Holder -> HolderRow]
        /\ key' \in [Key -> KeyStatus]
        /\ provider' \in [Provider -> ProviderRow]
        /\ cache' \subseteq Provider \X (0 .. MaxVersion)
    BY <2>0, TablesTyped
  <2> DEFINE Goal == /\ request' \in [Request -> RequestState]
                     /\ during' \in [Request -> Moments]
                     /\ StageInv'
                     /\ AdmittedIsCovered'
  <2>2. Idle \in RequestState
    BY SMTT(30) DEF Idle, RequestState, Stage, Credential
  <2>3. ASSUME NEW d \in Request, request' = [request EXCEPT ![d] = Idle]
        PROVE  Goal
    <3>1. Idle.stage = "idle"
      BY DEF Idle
    <3> QED BY <2>0, <2>1, <2>2, <2>3, <3>1, Moves
  <2>4. ASSUME NEW d \in Request, AuthenticateBootstrap(d)
        PROVE  Goal
    <3> DEFINE X == [Idle EXCEPT !.stage = "admitted", !.roles = {TenantAdmin}]
    <3>1. X \in RequestState
      BY <2>2 DEF RequestState, Stage
    <3>2. X.stage = "admitted" /\ X.credential = Bootstrap /\ X.roles = {TenantAdmin}
      BY DEF Idle
    <3>3. request' = [request EXCEPT ![d] = X]
      BY <2>4 DEF AuthenticateBootstrap
    <3>4. /\ ValidIn(X.credential, holder', key', provider')
          /\ X.roles = RolesIn(X.credential, holder')
      BY <3>2 DEF ValidIn, RolesIn
    <3> HIDE DEF X
    <3> QED BY <2>0, <2>1, <3>1, <3>2, <3>3, <3>4, Moves
  <2>5. ASSUME NEW d \in Request, NEW k \in Key, AuthenticateServiceAccountKey(d, k)
        PROVE  Goal
    <3> DEFINE X == [Idle EXCEPT !.stage = "known", !.credential = k]
    <3>1. X \in RequestState
      BY <2>2 DEF RequestState, Stage, Credential
    <3>2. X.stage = "known" /\ X.credential = k
      BY DEF Idle
    <3>3. request' = [request EXCEPT ![d] = X]
      BY <2>5 DEF AuthenticateServiceAccountKey
    <3>4. ValidIn(X.credential, holder', key', provider')
      BY <2>5, <3>2 DEF AuthenticateServiceAccountKey, KeyIsActive, ValidIn
    <3> HIDE DEF X
    <3> QED BY <2>0, <2>1, <3>1, <3>2, <3>3, <3>4, Moves
  <2>6. ASSUME NEW d \in Request, NEW u \in Identity, FindOIDCProvider(d, u)
        PROVE  Goal
    <3> DEFINE X == [Idle EXCEPT !.stage = "found", !.credential = u,
                                 !.version = provider[ProviderOf[u]].version]
    <3>1. X \in RequestState
      BY DEF Idle, RequestState, Stage, Credential, IInv, TypeOK, ProviderRow
    <3>2. X.stage = "found" /\ X.credential = u
      BY DEF Idle
    <3>3. request' = [request EXCEPT ![d] = X]
      BY <2>6 DEF FindOIDCProvider
    <3> HIDE DEF X
    <3> QED BY <2>0, <2>1, <3>1, <3>2, <3>3, Moves
  <2>7. ASSUME NEW d \in Request, VerifyToken(d)
        PROVE  Goal
    <3> DEFINE X == [request[d] EXCEPT !.stage = "verified"]
    <3>1. X \in RequestState
      BY DEF RequestState, Stage, IInv, TypeOK
    <3>2. X.stage = "verified" /\ X.credential \in Identity
      BY <2>7 DEF VerifyToken, StageInv, IInv, TypeOK, RequestState
    <3>3. request' = [request EXCEPT ![d] = X]
      BY <2>7 DEF VerifyToken
    <3> HIDE DEF X
    <3> QED BY <2>0, <2>1, <3>1, <3>2, <3>3, Moves
  <2>8. ASSUME NEW d \in Request, AuthenticateOIDCIdentity(d)
        PROVE  Goal
    <3> DEFINE X == [request[d] EXCEPT !.stage = "known"]
    <3>1. X \in RequestState
      BY DEF RequestState, Stage, IInv, TypeOK
    <3>2. X.stage = "known" /\ X.credential = request[d].credential /\ X.credential \in Identity
      BY <2>8 DEF AuthenticateOIDCIdentity, StageInv, IInv, TypeOK, RequestState
    <3>3. request' = [request EXCEPT ![d] = X]
      BY <2>8 DEF AuthenticateOIDCIdentity
    <3>4. ValidIn(X.credential, holder', key', provider')
      BY <2>8, <3>2 DEF AuthenticateOIDCIdentity, IdentityIsActive, ValidIn
    <3> HIDE DEF X
    <3> QED BY <2>0, <2>1, <3>1, <3>2, <3>3, <3>4, Moves
  <2>9. ASSUME NEW d \in Request, ReadRoles(d)
        PROVE  Goal
    <3> DEFINE X == [request[d] EXCEPT !.stage = "admitted",
                                       !.roles = holder[HolderOf(request[d].credential)].roles]
    <3>1. /\ request[d] \in RequestState
          /\ request[d].credential \in Key \cup Identity
          /\ during[d].valid
      BY <2>9 DEF ReadRoles, StageInv, IInv, TypeOK
    <3>2. holder[HolderOf(request[d].credential)].roles \in SUBSET Role
      BY <3>1 DEF HolderOf, Holder, HolderRow, IInv, TypeOK
    <3>3. X \in RequestState
      BY <3>1, <3>2 DEF RequestState, Stage
    <3>4. /\ X.stage = "admitted"
          /\ X.credential = request[d].credential
          /\ X.roles = holder[HolderOf(request[d].credential)].roles
      BY <3>1 DEF RequestState
    <3>5. request' = [request EXCEPT ![d] = X] /\ holder' = holder
      BY <2>9 DEF ReadRoles
    <3>6. X.roles = RolesIn(X.credential, holder')
      BY <3>1, <3>4, <3>5 DEF RolesIn
    <3> HIDE DEF X
    <3> QED BY <2>0, <2>1, <3>1, <3>3, <3>4, <3>5, <3>6, Moves
  <2>10. ASSUME NEW d \in Request, FinishRequest(d) \/ Administer(d)
         PROVE  Goal
    <3>1. request' = [request EXCEPT ![d] = Idle]
      BY <2>10
      DEF FinishRequest, Administer, AdministerHolder, CreateServiceAccount,
          UpdateServiceAccount,
                   CreateOIDCIdentity, UpdateOIDCIdentity, CreateServiceAccountKey,
                   RevokeServiceAccountKey, CreateOIDCProvider, UpdateOIDCProvider, Handles
    <3> QED BY <2>3, <3>1
  <2>11. ASSUME NEW k \in Key, KeyExpires(k)
         PROVE  Goal
    <3>1. request' = request
      BY <2>11 DEF KeyExpires
    <3>2. CASE Request = {}
      BY <2>0, <3>1, <3>2 DEF IInv, TypeOK, StageInv, AdmittedIsCovered
    <3>3. ASSUME NEW d \in Request
          PROVE  Goal
      <4>1. /\ request[d] \in RequestState
            /\ request' = [request EXCEPT ![d] = request[d]]
        BY <3>1 DEF IInv, TypeOK
      <4> QED BY <2>0, <2>1, <4>1, Moves DEF IInv, StageInv, AdmittedIsCovered
    <3> QED BY <3>2, <3>3
  <2> QED
    BY <2>0, <2>1, <2>4, <2>5, <2>6, <2>7, <2>8, <2>9, <2>10, <2>11
       DEF IInv, TypeOK, Step, Authenticate
<1> QED BY <1>1, <1>2

\* The invariant holds in every state of every behaviour.
LEMMA IInvAlways == Spec => []IInv
  BY InitIInv, NextIInv, PTL DEF Spec

\* The tables, the cache and the requests keep their types, whatever the number of accounts,
\* identities, roles and requests (service_accounts.go, oidc.go, oidcauth/service.go).
THEOREM TypeCorrect == Spec => []TypeOK
<1>1. IInv => TypeOK
  BY DEF IInv
<1> QED BY IInvAlways, <1>1, PTL

\* A principal that requireAuth lets through was good, with those roles, at moments of the
\* request, although its authentication is several statements (AuthenticateServiceAccountKey,
\* AuthenticateOIDCIdentity).
THEOREM AdmittedCovered == Spec => []AdmittedIsCovered
<1>1. IInv => AdmittedIsCovered
  BY DEF IInv
<1> QED BY IInvAlways, <1>1, PTL

\* No administrative transaction of the API happens without a tenant admin behind it
\* (requireAuth, requiredPermission).
THEOREM ChangesAuthorized == Spec => ChangesAreAuthorized
<1> DEFINE Changes == \/ holder' # holder \/ provider' # provider
                      \/ \E k \in Key : key'[k] # key[k] /\ key'[k] # "expired"
           Authorized == \E c \in Request :
                            during[c].valid /\ \E roles \in during[c].held : TenantAdmin \in roles
<1>1. ASSUME IInv, [Next]_vars, Changes
      PROVE  Authorized
  <2>1. Step
    BY <1>1 DEF Next, vars
  <2>2. ASSUME NEW c \in Request, Authenticate(c)
        PROVE  FALSE
    <3>1. UNCHANGED <<holder, key, provider>>
      BY <2>2 DEF Authenticate, AuthenticateBootstrap, AuthenticateServiceAccountKey,
                  FindOIDCProvider, VerifyToken, AuthenticateOIDCIdentity, ReadRoles, FinishRequest
    <3> QED BY <1>1, <3>1
  <2>3. ASSUME NEW k \in Key, KeyExpires(k)
        PROVE  FALSE
    BY <1>1, <2>3 DEF KeyExpires, IInv, TypeOK
  <2>4. ASSUME NEW c \in Request, Administer(c)
        PROVE  Authorized
    <3>1. Handles(c)
      BY <2>4 DEF Administer, AdministerHolder, CreateServiceAccount, UpdateServiceAccount,
                  CreateOIDCIdentity, UpdateOIDCIdentity, CreateServiceAccountKey,
                  RevokeServiceAccountKey, CreateOIDCProvider, UpdateOIDCProvider
    <3>2. /\ request[c].stage = "admitted"
          /\ TenantAdmin \in request[c].roles
      BY <3>1 DEF Handles, Allowed
    <3>3. during[c].valid /\ request[c].roles \in during[c].held
      BY <1>1, <3>2 DEF IInv, AdmittedIsCovered
    <3> QED BY <3>2, <3>3
  <2> QED BY <2>1, <2>2, <2>3, <2>4 DEF Step
<1>2. IInv /\ [Next]_vars => [Changes => Authorized]_vars
  BY <1>1
<1> QED BY IInvAlways, <1>2, PTL DEF Spec, ChangesAreAuthorized

\* Service.verifier keeps at most one verifier per provider, however old the version is that a
\* late request brings.
THEOREM OneVerifier == Spec => []OneVerifierPerProvider
<1>1. Init => OneVerifierPerProvider
  BY DEF Init, OneVerifierPerProvider
<1>2. ASSUME IInv, OneVerifierPerProvider, [Next]_vars
      PROVE  OneVerifierPerProvider'
  <2>1. CASE UNCHANGED cache
    BY <1>2, <2>1 DEF OneVerifierPerProvider
  <2>2. ASSUME NEW c \in Request, VerifyToken(c)
        PROVE  OneVerifierPerProvider'
    BY <1>2, <2>2, SMTT(30) DEF VerifyToken, CacheWith, OneVerifierPerProvider
  <2>3. ASSUME NEW c \in Request, Authenticate(c) PROVE UNCHANGED cache \/ VerifyToken(c)
    BY <2>3 DEF Authenticate, AuthenticateBootstrap, AuthenticateServiceAccountKey,
                FindOIDCProvider, AuthenticateOIDCIdentity, ReadRoles, FinishRequest
  <2>4. ASSUME NEW c \in Request, Administer(c) PROVE UNCHANGED cache
    <3>1. ASSUME NEW roles \in SUBSET RoleName, AdministerHolder(c, roles) PROVE UNCHANGED cache
      BY <3>1 DEF AdministerHolder, CreateServiceAccount, UpdateServiceAccount,
                  CreateOIDCIdentity, UpdateOIDCIdentity
    <3> QED BY <2>4, <3>1 DEF Administer, CreateServiceAccountKey, RevokeServiceAccountKey,
                              CreateOIDCProvider, UpdateOIDCProvider
  <2>5. ASSUME NEW k \in Key, KeyExpires(k) PROVE UNCHANGED cache
    BY <2>5 DEF KeyExpires
  <2>6. UNCHANGED vars => UNCHANGED cache
    BY DEF vars
  <2>7. Step \/ UNCHANGED vars
    BY <1>2 DEF Next
  <2>8. UNCHANGED cache \/ \E c \in Request : VerifyToken(c)
    BY <2>3, <2>4, <2>5, <2>6, <2>7 DEF Step
  <2> QED BY <2>1, <2>2, <2>8
<1> QED BY <1>1, <1>2, IInvAlways, PTL DEF Spec
=============================================================================
