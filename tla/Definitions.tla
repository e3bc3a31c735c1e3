----------------------------- MODULE Definitions -----------------------------
(***************************************************************************)
(* How definitions get into the database: the requests that apply          *)
(* runbooks and policies, register plugins and start executions, each one  *)
(* a PostgreSQL transaction that takes an advisory lock, reads, writes and *)
(* commits, or fails on the way.                                           *)
(*                                                                         *)
(* Clients hold a fixed set of documents (offered); a plugin endpoint      *)
(* serves one manifest after the other.  Every request is made once: a     *)
(* client that sends a document again is another request.                  *)
(***************************************************************************)
EXTENDS RunbookDocument, PolicyDocument, PluginProtocol

CONSTANTS
    Request,         \* API requests
    NoRequest,       \* the advisory lock is free
    RunbookName,     \* the values of runbooks.runbook_key
    PolicyName,      \* the values of policies.policy_key
    PluginKey,       \* the values of plugins.plugin_key
    Offers,          \* sets of documents: [runbooks, policies, manifests]
    NoPlugin,        \* there is no row
    NoWork,          \* the request was not made yet
    Event            \* events that policies are evaluated on

Name == {<<"runbook", n>> : n \in RunbookName} \cup {<<"policy", n>> : n \in PolicyName}

Lockable == Name \cup {<<"plugin", k>> : k \in PluginKey}

Document == UNION {o.runbooks \cup o.policies : o \in Offers}

ASSUME DefinitionsAssumption ==
    /\ NoRequest \notin Request
    /\ \A o \in Offers :
         /\ \A d \in o.runbooks : Parses(d) => d.id \in RunbookName
         /\ \A d \in o.policies : ValidPolicy(d) => d.id \in PolicyName
         /\ \A d \in o.runbooks : IsRunbook(d)
         /\ \A d \in o.policies : d.match \in Node
         /\ \A i \in DOMAIN o.manifests : IsManifest(o.manifests[i])
    \* No text of an event is the one that stands for a redacted text.
    /\ \A e \in Event : \A v \in Range(eventInputs(e)) : Cut[v] # Redacted

VARIABLES
    offered,          \* what the clients hold
    activeVersion,    \* runbooks.active_version, policies.active_version; 0 without a row
    versions,         \* runbook_versions, policy_versions: name |-> version |-> document
    plugins,          \* plugins: key |-> [active, permissions, hash]
    pluginVersions,   \* plugin_versions: key |-> version |-> manifest
    served,           \* the number of the manifest the plugin endpoint serves
    executions,       \* executions: [name, version, document]
    lock,             \* who holds the advisory lock on a name
    phase,            \* how far a request is
    work              \* what it works on: [target, document, version]

vars == <<offered, activeVersion, versions, plugins, pluginVersions, served, executions, lock,
          phase, work>>

tables == <<activeVersion, versions, plugins, pluginVersions, executions>>

Init ==
    /\ offered \in Offers
    /\ activeVersion = [n \in Name |-> 0]
    /\ versions = [n \in Name |-> <<>>]
    /\ plugins = [k \in PluginKey |-> NoPlugin]
    /\ pluginVersions = [k \in PluginKey |-> <<>>]
    /\ served = 1
    /\ executions = {}
    /\ lock = [n \in Lockable |-> NoRequest]
    /\ phase = [r \in Request |-> "idle"]
    /\ work = [r \in Request |-> NoWork]

-----------------------------------------------------------------------------
To(r, p) == phase' = [phase EXCEPT ![r] = p]

Release(r) == lock' = [n \in Lockable |-> IF lock[n] = r THEN NoRequest ELSE lock[n]]

\* Rollback with a lock of the session instead of the transaction.
RollbackInSession(r, p) == To(r, p) /\ UNCHANGED <<offered, served, lock, tables, work>>

\* The transaction is rolled back and its locks are gone.
Rollback(r, p) == Release(r) /\ To(r, p) /\ UNCHANGED <<offered, served, tables, work>>

Submit(r, target, d, accepted) ==
    /\ phase[r] = "idle"
    /\ To(r, IF accepted THEN "locking" ELSE "refused")
    /\ work' = [work EXCEPT ![r] = [target |-> target, document |-> d, version |-> d.version]]
    /\ UNCHANGED <<offered, served, lock, tables>>

\* ApplyRunbook and ApplyPolicy up to the transaction: the document is parsed.
ApplyRunbook(r) ==
    \E d \in offered.runbooks : Submit(r, <<"runbook", d.id>>, d, Parses(d))

ApplyPolicy(r) ==
    \E d \in offered.policies : Submit(r, <<"policy", d.id>>, d, ValidPolicy(d))

\* registerPlugin up to the transaction: the manifest is discovered before the lock.
RegisterPlugin(r) ==
    /\ served \in DOMAIN offered.manifests
    /\ \E k \in PluginKey :
         LET m == offered.manifests[served] IN Submit(r, <<"plugin", k>>, m, Discovers(m))

\* pg_advisory_xact_lock
AcquireLock(r) ==
    /\ phase[r] = "locking"
    /\ lock[work[r].target] = NoRequest
    /\ lock' = [lock EXCEPT ![work[r].target] = r]
    /\ To(r, "locked")
    /\ UNCHANGED <<offered, served, tables, work>>

IsDefinition(r) == work[r].target \in Name

\* The first version is 1, without a row; then the one after the active version.
IsNextVersion(n, v) == v = activeVersion[n] + 1

\* The rows of a name with one row written.
WithVersion(rows, v, d) == [w \in DOMAIN rows \cup {v} |-> IF w = v THEN d ELSE rows[w]]

\* The row is read FOR UPDATE and the version compared.
ReadVersion(r) ==
    /\ phase[r] = "locked" /\ IsDefinition(r)
    /\ IF IsNextVersion(work[r].target, work[r].version)
       THEN To(r, "read") /\ UNCHANGED <<offered, served, lock, tables, work>>
       ELSE Rollback(r, "refused")

\* CommitVersion that leaves the active version to somebody else.
CommitVersionAlone(r) ==
    /\ phase[r] = "read"
    /\ versions' = [versions EXCEPT ![work[r].target] = Append(@, work[r].document)]
    /\ Release(r)
    /\ To(r, "applied")
    /\ UNCHANGED <<offered, served, activeVersion, plugins, pluginVersions, executions, work>>

\* The version row and the active version are written and committed together; the answer
\* may be lost on its way back.
CommitVersion(r) ==
    /\ phase[r] = "read"
    /\ LET n == work[r].target
           v == work[r].version
       IN /\ v \notin DOMAIN versions[n]         \* UNIQUE(runbook_id, version)
          /\ versions' = [versions EXCEPT ![n] = WithVersion(@, v, work[r].document)]
          /\ activeVersion' = [activeVersion EXCEPT ![n] = v]
    /\ Release(r)
    /\ \E p \in {"applied", "unknown"} : To(r, p)
    /\ UNCHANGED <<offered, served, plugins, pluginVersions, executions, work>>

\* CommitPlugin that keeps the row of a version it finds (ON CONFLICT DO NOTHING).
CommitPluginOnce(r) ==
    /\ phase[r] = "locked" /\ ~IsDefinition(r)
    /\ LET k == work[r].target[2]
           m == work[r].document
       IN /\ plugins' = [plugins EXCEPT ![k] =
                 [active |-> m.version, permissions |-> collectPluginPermissions(m),
                  hash |-> m]]
          /\ pluginVersions' = [pluginVersions EXCEPT ![k] =
                 [v \in DOMAIN @ \cup {m.version} |-> IF v \in DOMAIN @ THEN @[v] ELSE m.actions]]
    /\ Release(r)
    /\ To(r, "applied")
    /\ UNCHANGED <<offered, served, activeVersion, versions, executions, work>>

\* The row of the plugin and of its version are written and committed together.  A version
\* that was registered before gets the actions of the new manifest.
CommitPlugin(r) ==
    /\ phase[r] = "locked" /\ ~IsDefinition(r)
    /\ LET k == work[r].target[2]
           m == work[r].document
       IN /\ plugins' = [plugins EXCEPT ![k] =
                 [active |-> m.version, permissions |-> collectPluginPermissions(m),
                  hash |-> m]]
          /\ pluginVersions' = [pluginVersions EXCEPT ![k] = WithVersion(@, m.version, m.actions)]
    /\ Release(r)
    /\ \E p \in {"applied", "unknown"} : To(r, p)
    /\ UNCHANGED <<offered, served, activeVersion, versions, executions, work>>

\* StartExecution reads the active version and its document in one query ...
StartExecution(r) ==
    /\ phase[r] = "idle"
    /\ To(r, "starting")
    /\ \E n \in RunbookName :
         LET t == <<"runbook", n>>
         IN /\ activeVersion[t] # 0
            /\ work' = [work EXCEPT ![r] =
                   [target |-> t, document |-> versions[t][activeVersion[t]],
                    version |-> activeVersion[t]]]
    /\ UNCHANGED <<offered, served, lock, tables>>

\* CommitExecution that reads the document again.
CommitExecutionAnew(r) ==
    /\ phase[r] = "starting"
    /\ executions' = executions \cup
           {[name |-> work[r].target, version |-> work[r].version,
             document |-> versions[work[r].target][activeVersion[work[r].target]]]}
    /\ To(r, "applied")
    /\ UNCHANGED <<offered, served, lock, activeVersion, versions, plugins, pluginVersions, work>>

\* ... and commits the execution with its rows, whatever has been applied since.
CommitExecution(r) ==
    /\ phase[r] = "starting"
    /\ executions' = executions \cup
           {[name |-> work[r].target, version |-> work[r].version,
             document |-> work[r].document]}
    /\ \E p \in {"applied", "unknown"} : To(r, p)
    /\ UNCHANGED <<offered, served, lock, activeVersion, versions, plugins, pluginVersions, work>>

Open == {"locking", "locked", "read", "starting"}

\* A statement fails, an input of a plugin's registration is refused, the client goes away
\* or the server crashes.
Fail(r) == phase[r] \in Open /\ Rollback(r, "failed")

\* The plugin behind the endpoint is replaced.
UpgradePlugin ==
    /\ served < Len(offered.manifests)
    /\ served' = served + 1
    /\ UNCHANGED <<offered, lock, phase, work, tables>>

RequestStep(r) ==
    \/ AcquireLock(r) \/ ReadVersion(r) \/ CommitVersion(r) \/ CommitPlugin(r)
    \/ CommitExecution(r)

Next ==
    \/ \E r \in Request :
         \/ ApplyRunbook(r) \/ ApplyPolicy(r) \/ RegisterPlugin(r) \/ StartExecution(r)
         \/ RequestStep(r) \/ Fail(r)
    \/ UpgradePlugin

Spec == Init /\ [][Next]_vars

\* A request that is being served goes on: PostgreSQL grants a free lock and the handler
\* runs to its end.
FairSpec == Spec /\ \A r \in Request : WF_vars(RequestStep(r))

-----------------------------------------------------------------------------
Stored(kind, names) ==
    UNION {{versions[<<kind, n>>][v] : v \in DOMAIN versions[<<kind, n>>]} : n \in names}

KeysAreDistinct(rows) == \A x, y \in rows : x.key = y.key => x = y

\* The columns of a row are in the range its constraints and the scheduler rely on.
RowIsSane(row) ==
    /\ 1 <= row.timeout /\ row.timeout <= 3600
    /\ row.retry.maxAttempts \in 1 .. 10
    /\ 1 <= row.retry.initial /\ row.retry.initial <= row.retry.maximum
    /\ row.retry.maximum <= 1800

\* A retry waits a quarter more than the longest backoff at most, and it waits at all when
\* the author asked for two seconds.
BackoffIsSane(retry) ==
    \A attempt \in 1 .. retry.maxAttempts, byte \in {0, 127, 128, 255} :
        LET delay == retryBackoff(retry, attempt, byte)
        IN 4 * delay <= 5 * retry.maximum /\ (retry.initial >= 2 => delay >= 1)

\* A runbook can be run and rolled back: whatever steps have completed, StartExecution and
\* StartExecutionRollback compute a timeout and a retry policy in range for every row and
\* insert no step key twice, and only HTTP and plugin actions roll back.
\* The exception is a runbook that names a step "rollback-x" beside a step x.
RunbookRuns(d) ==
    LET steps == d.steps
        ids == {steps[i].id : i \in DOMAIN steps}
        forward == ForwardRows(d)
    IN /\ KeysAreDistinct(forward) /\ Cardinality(forward) = Len(steps)
       /\ \A row \in forward : RowIsSane(row) /\ BackoffIsSane(row.retry)
       /\ \A done \in SUBSET DOMAIN steps :
            LET undo == RollbackRows(d, done)
            IN /\ \A row \in undo :
                    /\ RowIsSane(row) /\ BackoffIsSane(row.retry)
                    /\ row.type \in {"http", "plugin"}
               /\ (\A x \in ids : RollbackKey[x] \notin ids) =>
                    KeysAreDistinct(forward \cup undo)

\* A runbook that was accepted and stored runs.
StoredRunbooksRun == \A d \in Stored("runbook", RunbookName) : RunbookRuns(d)

\* The meaning of an expression, without order and without shortcuts.
NodeHolds(n, holds, inputs) ==
    LET e == Expression[n]
    IN /\ \A c \in Range(e.all) : holds[c]
       /\ e.any # <<>> => \E c \in Range(e.any) : holds[c]
       /\ e.not # NoText => ~holds[e.not]
       /\ e.field # NoText =>
            inputs[e.field] \in (IF e.equals # NoText THEN {e.equals} ELSE e.in)

Holds(root, inputs) ==
    LET holds[n \in 1 .. root] == NodeHolds(n, holds, inputs) IN holds[root]

\* The audit entry of a decision explains it: the policy decides what its expression means,
\* no input of the entry is redacted, and two events whose entries show the same uncut
\* inputs are decided alike, line by line.
PolicyExplains(d) ==
    LET decided == {[inputs |-> eventInputs(e), decision |-> Evaluate(d, e)] : e \in Event}
        Uncut(x) == \A f \in DOMAIN x.decision.inputs : x.decision.inputs[f] = x.inputs[f]
    IN /\ \A x \in decided :
            /\ x.decision.matched = Holds(d.match, x.inputs)
            /\ Redacted \notin Range(x.decision.inputs)
       /\ \A x, y \in {z \in decided : Uncut(z)} :
            x.decision.inputs = y.decision.inputs => x.decision = y.decision

\* A policy that was accepted and stored explains its decisions.
DecisionsAreExplained == \A d \in Stored("policy", PolicyName) : PolicyExplains(d)

\* What becomes of a call at both ends.  The client takes it for a success exactly when the
\* handler succeeded and the whole response is within the bound.  The server bounds the output
\* alone (server.go:165), so the ends differ exactly about an output that fits the bound by
\* less than the envelope: the server answers succeeded, and the client fails the call.
CallOutcome(m, r, ok, bytes) ==
    LET response == handleAction(m, r, [ok |-> ok, bytes |-> bytes])
        fits == bytes + ResponseEnvelope <= MaxResponse
    IN /\ CallSucceeds(r, response) <=> ok /\ fits
       /\ (response.status = "succeeded" /\ ~CallSucceeds(r, response)) <=>
              (ok /\ ~fits /\ bytes <= MaxResponse)

\* The same of every request the client sends for an action and every result of its handler.
CallOutcomes(m, action) ==
    \A input \in {1, MaxRequest - RequestEnvelope}, ok \in BOOLEAN,
       bytes \in {1, MaxResponse - ResponseEnvelope, MaxResponse, MaxResponse + 1} :
        CallOutcome(m, [action |-> action, key |-> "key", input |-> input, deadline |-> 3600],
                    ok, bytes)

\* A registered plugin can be used as it was registered.  After any sequence of registrations
\* the row of the plugin and the row of its active version describe the same manifest, never
\* parts of two (which of two manifests stays is the last to commit, not the last discovered),
\* and its permissions are those of the declared actions.  While the endpoint serves that
\* manifest, a call of a declared action is answered, with the outcome of its handler at both
\* ends but for an output within an envelope of the bound.
RegisteredPluginsWork ==
    \A k \in PluginKey :
        plugins[k] # NoPlugin =>
            LET m == [plugins[k].hash EXCEPT !.actions = pluginVersions[k][plugins[k].active]]
            IN /\ m = plugins[k].hash
               /\ plugins[k].permissions = collectPluginPermissions(m)
               /\ ServerValidatesManifest(m) =>
                    \A i \in DOMAIN m.actions : CallOutcomes(m, m.actions[i].name)

\* A client that was told its document is applied, or its execution started, finds the
\* document under its name and version whatever was applied since, and the active version
\* of a name is the last one stored.
AppliedIsPublished ==
    /\ \A r \in Request :
         phase[r] = "applied" /\ IsDefinition(r) =>
             /\ work[r].version \in DOMAIN versions[work[r].target]
             /\ versions[work[r].target][work[r].version] = work[r].document
    /\ \A n \in Name : activeVersion[n] = Len(versions[n])

\* Runbooks and policies are immutable and versioned without gaps, and an execution keeps
\* the document it was started with: the tables implement the registry.
R == INSTANCE Registry WITH Name <- Name, Document <- Document, log <- versions,
                            pinned <- executions

ImplementsRegistry == R!Spec

\* No request waits for ever: the advisory lock is free again after every commit, refusal
\* or failure of its holder.
RequestsFinish ==
    \A r \in Request : phase[r] \in Open ~> phase[r] \notin Open
=============================================================================
