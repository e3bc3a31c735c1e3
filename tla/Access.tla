------------------------------- MODULE Access -------------------------------
(***************************************************************************)
(* Who may manage a tenant: service accounts with their keys, OIDC         *)
(* providers with their mapped identities, and the requests that           *)
(* authenticate with them (Server.requireAuth) while administrators change *)
(* them.                                                                   *)
(*                                                                         *)
(* A transaction is one action.  An authentication is several statements,  *)
(* each a step of its own: the row of the credential, the verifier, the    *)
(* row of the identity, the roles.  A request that is refused at any of    *)
(* them, or that only reads, ends with FinishRequest.                      *)
(*                                                                         *)
(* One tenant; the check of a token's signature, issuer, audience and      *)
(* expiry is the library's and either lets the token through or not.       *)
(***************************************************************************)
EXTENDS Naturals, FiniteSets

CONSTANTS
    Account,       \* service accounts
    Key,           \* service account keys
    KeyAccount,    \* the account of each key
    Provider,      \* OIDC providers
    Identity,      \* mapped subjects
    ProviderOf,    \* the provider of each of them
    Bootstrap,     \* the bootstrap credential
    RoleName,      \* what an administrator may write where a role goes
    Role,          \* the roles there are
    TenantAdmin,   \* the one role with service_accounts:manage and identity:manage
    Request,       \* requests the server handles at a time
    MaxVersion     \* bound: versions of a row

Holder == Account \cup Identity
Credential == Key \cup Identity \cup {Bootstrap}

ASSUME AccessAssumption ==
    /\ KeyAccount \in [Key -> Account]
    /\ ProviderOf \in [Identity -> Provider]
    /\ Account \cap Identity = {}
    /\ Key \cap Identity = {}
    /\ Bootstrap \notin Key \cup Identity
    /\ TenantAdmin \in Role
    /\ Role \subseteq RoleName
    /\ MaxVersion \in Nat

VARIABLES
    holder,        \* service_accounts and oidc_identities with their roles; version 0: no row
    key,           \* service_account_api_keys
    provider,      \* oidc_providers; version 0: no row
    cache,         \* Service.cache: the provider versions with a verifier
    request,       \* the requests being handled
    during         \* history: what was true at some moment of each of them

vars == <<holder, key, provider, cache, request, during>>

HolderRow == [enabled : BOOLEAN, roles : SUBSET Role, version : 0 .. MaxVersion]
ProviderRow == [enabled : BOOLEAN, version : 0 .. MaxVersion]
KeyStatus == {"none", "live", "expired", "revoked"}

\* found: the provider of the token is known; verified: the token is genuine; known: the
\* credential belongs to an enabled holder; admitted: the principal with its roles.
Stage == {"idle", "found", "verified", "known", "admitted"}

RequestState ==
    [stage : Stage, credential : Credential, version : 0 .. MaxVersion, roles : SUBSET Role]

Idle == [stage |-> "idle", credential |-> Bootstrap, version |-> 0, roles |-> {}]

\* Whether the credential was good, and the sets of roles its holder had.
Moments == [valid : BOOLEAN, held : SUBSET (SUBSET Role)]

Nothing == [valid |-> FALSE, held |-> {}]

TypeOK ==
    /\ holder \in [Holder -> HolderRow]
    /\ key \in [Key -> KeyStatus]
    /\ provider \in [Provider -> ProviderRow]
    /\ cache \subseteq Provider \X (0 .. MaxVersion)
    /\ request \in [Request -> RequestState]
    /\ during \in [Request -> Moments]

Init ==
    /\ holder = [h \in Holder |-> [enabled |-> FALSE, roles |-> {}, version |-> 0]]
    /\ key = [k \in Key |-> "none"]
    /\ provider = [p \in Provider |-> [enabled |-> FALSE, version |-> 0]]
    /\ cache = {}
    /\ request = [c \in Request |-> Idle]
    /\ during = [c \in Request |-> Nothing]

-----------------------------------------------------------------------------
(***************************************************************************)
(* Authentication.                                                         *)
(***************************************************************************)

HolderOf(credential) == IF credential \in Key THEN KeyAccount[credential] ELSE credential

\* The statement that finds the key: not revoked, not expired, its account enabled.
KeyIsActive(k) == key[k] = "live" /\ holder[KeyAccount[k]].enabled

AuthenticateBootstrap(c) ==
    /\ request[c] = Idle
    /\ request' = [request EXCEPT ![c] = [Idle EXCEPT !.stage = "admitted", !.roles = {TenantAdmin}]]
    /\ UNCHANGED <<holder, key, provider, cache>>

AuthenticateServiceAccountKey(c, k) ==
    /\ request[c] = Idle
    /\ KeyIsActive(k)
    /\ request' = [request EXCEPT ![c] = [Idle EXCEPT !.stage = "known", !.credential = k]]
    /\ UNCHANGED <<holder, key, provider, cache>>

\* By the issuer and audience the token claims; the subject may not be mapped at all.
FindOIDCProvider(c, u) ==
    /\ request[c] = Idle
    /\ provider[ProviderOf[u]].enabled
    /\ request' = [request EXCEPT ![c] = [Idle EXCEPT !.stage = "found", !.credential = u,
                                              !.version = provider[ProviderOf[u]].version]]
    /\ UNCHANGED <<holder, key, provider, cache>>

\* Mutant: verifiers of other versions are kept.
CacheWithAll(p, v) == cache \cup {<<p, v>>}

\* A verifier for this version, in place of those for other versions of the provider.
CacheWith(p, v) ==
    IF <<p, v>> \in cache THEN cache ELSE {x \in cache : x[1] # p} \cup {<<p, v>>}

\* The version is the one that was read, which may be an older one by now.
VerifyToken(c) ==
    /\ request[c].stage = "found"
    /\ cache' = CacheWith(ProviderOf[request[c].credential], request[c].version)
    /\ request' = [request EXCEPT ![c].stage = "verified"]
    /\ UNCHANGED <<holder, key, provider>>

\* Mutant: the provider was enabled when it was found.
IdentityIsActiveAlone(u) == holder[u].enabled

\* The statement that finds the identity: it and its provider are enabled.
IdentityIsActive(u) == holder[u].enabled /\ provider[ProviderOf[u]].enabled

AuthenticateOIDCIdentity(c) ==
    /\ request[c].stage = "verified"
    /\ IdentityIsActive(request[c].credential)
    /\ request' = [request EXCEPT ![c].stage = "known"]
    /\ UNCHANGED <<holder, key, provider, cache>>

\* The roles come from a statement of their own; the principal is complete.  An identity
\* without any is refused.
ReadRoles(c) ==
    /\ request[c].stage = "known"
    /\ request[c].credential \in Identity => holder[request[c].credential].roles # {}
    /\ request' = [request EXCEPT ![c].stage = "admitted",
                                  ![c].roles = holder[HolderOf(request[c].credential)].roles]
    /\ UNCHANGED <<holder, key, provider, cache>>

\* Refused, denied, served without a change, or given up.
FinishRequest(c) ==
    /\ request[c] # Idle
    /\ request' = [request EXCEPT ![c] = Idle]
    /\ UNCHANGED <<holder, key, provider, cache>>

-----------------------------------------------------------------------------
(***************************************************************************)
(* Administration.                                                         *)
(***************************************************************************)

\* Mutant: any role will do.
AllowedAny(roles) == roles # {}

\* Principal.Allowed for service_accounts:manage and identity:manage.
Allowed(roles) == TenantAdmin \in roles

\* The handler of an admitted request does its one transaction and answers.
Handles(c) ==
    /\ request[c].stage = "admitted"
    /\ Allowed(request[c].roles)
    /\ request' = [request EXCEPT ![c] = Idle]

\* NormalizeRoles: at least one role, and no unknown one.
Normalizes(roles) == roles # {} /\ roles \subseteq Role

CreateServiceAccount(c, a, roles) ==
    /\ Handles(c)
    /\ Normalizes(roles)
    /\ holder[a].version = 0
    /\ MaxVersion > 0
    /\ holder' = [holder EXCEPT ![a] = [enabled |-> TRUE, roles |-> roles, version |-> 1]]
    /\ UNCHANGED <<key, provider, cache>>

\* The provider exists, enabled or not.
CreateOIDCIdentity(c, u, roles) ==
    /\ Handles(c)
    /\ Normalizes(roles)
    /\ holder[u].version = 0
    /\ MaxVersion > 0
    /\ provider[ProviderOf[u]].version > 0
    /\ holder' = [holder EXCEPT ![u] = [enabled |-> TRUE, roles |-> roles, version |-> 1]]
    /\ UNCHANGED <<key, provider, cache>>

\* An update names the row's current version; one that names another is refused.
UpdateServiceAccount(c, a, enabled, roles) ==
    /\ Handles(c)
    /\ Normalizes(roles)
    /\ holder[a].version \in 1 .. MaxVersion - 1
    /\ holder' = [holder EXCEPT ![a] = [enabled |-> enabled, roles |-> roles, version |-> @.version + 1]]
    /\ UNCHANGED <<key, provider, cache>>

UpdateOIDCIdentity(c, u, enabled, roles) ==
    /\ Handles(c)
    /\ Normalizes(roles)
    /\ holder[u].version \in 1 .. MaxVersion - 1
    /\ holder' = [holder EXCEPT ![u] = [enabled |-> enabled, roles |-> roles, version |-> @.version + 1]]
    /\ UNCHANGED <<key, provider, cache>>

CreateServiceAccountKey(c, k) ==
    /\ Handles(c)
    /\ key[k] = "none"
    /\ holder[KeyAccount[k]].enabled
    /\ key' = [key EXCEPT ![k] = "live"]
    /\ UNCHANGED <<holder, provider, cache>>

RevokeServiceAccountKey(c, k) ==
    /\ Handles(c)
    /\ key[k] # "none"
    /\ key' = [key EXCEPT ![k] = "revoked"]
    /\ UNCHANGED <<holder, provider, cache>>

KeyExpires(k) ==
    /\ key[k] = "live"
    /\ key' = [key EXCEPT ![k] = "expired"]
    /\ UNCHANGED <<holder, provider, cache, request>>

CreateOIDCProvider(c, p) ==
    /\ Handles(c)
    /\ provider[p].version = 0
    /\ MaxVersion > 0
    /\ provider' = [provider EXCEPT ![p] = [enabled |-> TRUE, version |-> 1]]
    /\ UNCHANGED <<holder, key, cache>>

UpdateOIDCProvider(c, p, enabled) ==
    /\ Handles(c)
    /\ provider[p].version \in 1 .. MaxVersion - 1
    /\ provider' = [provider EXCEPT ![p] = [enabled |-> enabled, version |-> @.version + 1]]
    /\ UNCHANGED <<holder, key, cache>>

-----------------------------------------------------------------------------
Authenticate(c) ==
    \/ AuthenticateBootstrap(c)
    \/ \E k \in Key : AuthenticateServiceAccountKey(c, k)
    \/ \E u \in Identity : FindOIDCProvider(c, u)
    \/ VerifyToken(c)
    \/ AuthenticateOIDCIdentity(c)
    \/ ReadRoles(c)
    \/ FinishRequest(c)

AdministerHolder(c, roles) ==
    \/ \E a \in Account :
          \/ CreateServiceAccount(c, a, roles)
          \/ \E enabled \in BOOLEAN : UpdateServiceAccount(c, a, enabled, roles)
    \/ \E u \in Identity :
          \/ CreateOIDCIdentity(c, u, roles)
          \/ \E enabled \in BOOLEAN : UpdateOIDCIdentity(c, u, enabled, roles)

Administer(c) ==
    \/ \E roles \in SUBSET RoleName : AdministerHolder(c, roles)
    \/ \E k \in Key : CreateServiceAccountKey(c, k) \/ RevokeServiceAccountKey(c, k)
    \/ \E p \in Provider :
          \/ CreateOIDCProvider(c, p)
          \/ \E enabled \in BOOLEAN : UpdateOIDCProvider(c, p, enabled)

Step ==
    \/ \E c \in Request : Authenticate(c) \/ Administer(c)
    \/ \E k \in Key : KeyExpires(k)

-----------------------------------------------------------------------------
(***************************************************************************)
(* History: what each request could have seen, moment by moment.           *)
(***************************************************************************)

\* The credential is good in these tables.
ValidIn(credential, h, k, p) ==
    \/ credential = Bootstrap
    \/ credential \in Key /\ k[credential] = "live" /\ h[KeyAccount[credential]].enabled
    \/ credential \in Identity /\ h[credential].enabled /\ p[ProviderOf[credential]].enabled

RolesIn(credential, h) ==
    IF credential = Bootstrap THEN {TenantAdmin} ELSE h[HolderOf(credential)].roles

Witnessed(c) ==
    LET credential == request'[c].credential IN
    IF request'[c].stage = "idle"
    THEN Nothing
    ELSE [valid |-> during[c].valid \/ ValidIn(credential, holder', key', provider'),
          held |-> during[c].held \cup {RolesIn(credential, holder')}]

Next == Step /\ during' = [c \in Request |-> Witnessed(c)]

Spec == Init /\ [][Next]_vars

-----------------------------------------------------------------------------
\* A principal is never made of things that were not true together or not at all: at some moment of
\* the request its key was live and its account enabled, or its identity and its provider were
\* enabled at once, and its roles are all the roles its holder had at some moment of the
\* request, whatever administrators do between the statements of the authentication.
AdmittedIsCovered ==
    \A c \in Request : request[c].stage = "admitted" =>
        during[c].valid /\ request[c].roles \in during[c].held

\* Accounts, identities, keys and providers change only at the hands of a request whose
\* credential was good, and whose holder was a tenant admin, at some moment of that request;
\* the only other change is the expiry of a key.
ChangesAreAuthorized ==
    [][(holder' # holder \/ provider' # provider \/ \E k \in Key : key'[k] # key[k] /\ key'[k] # "expired")
        => \E c \in Request : during[c].valid /\ \E roles \in during[c].held : TenantAdmin \in roles]_vars

\* The cache keeps one verifier per provider, also when a request that read an older version
\* of the provider comes late.
OneVerifierPerProvider ==
    \A x, y \in cache : x[1] = y[1] => x = y
=============================================================================
