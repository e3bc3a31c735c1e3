-------------------------- MODULE DefinitionsProofs --------------------------
(***************************************************************************)
(* For every set of requests, names and documents: the tables of runbooks  *)
(* and policies implement the registry, and everything they hold was       *)
(* accepted when the request that wrote it began.                          *)
(***************************************************************************)
EXTENDS Definitions, TLAPS

\* Zenon is tried first, and a step it is not made for cites the SMT solver.  Both get more time
\* than by default: preparing the next step counts against it.
USE ZenonT(30), SMTT(30)

Phase == Open \cup {"idle", "refused", "failed", "applied", "unknown"}

\* What a request that has not failed knows about the tables: who is in a transaction on a
\* name holds its lock, so the version it read is still the active one; a document that was
\* applied, or that an execution is started with, is the one stored under its version.
RequestInv(r) ==
    /\ phase[r] \in {"locking", "locked", "read"} => work[r].target \in Lockable
    /\ phase[r] \in {"locking", "locked", "read"} /\ IsDefinition(r) =>
         work[r].document \in Document
    /\ phase[r] \in {"locked", "read"} => lock[work[r].target] = r
    /\ phase[r] = "read" =>
         work[r].target \in Name /\ work[r].version = activeVersion[work[r].target] + 1
    /\ phase[r] \in {"starting", "applied", "unknown"} /\ (phase[r] = "starting" \/ IsDefinition(r)) =>
         /\ work[r].target \in Name
         /\ work[r].version \in DOMAIN versions[work[r].target]
         /\ versions[work[r].target][work[r].version] = work[r].document

\* The inductive invariant.
DInv ==
    /\ offered \in Offers
    /\ versions \in [Name -> Seq(Document)]
    /\ activeVersion = [n \in Name |-> Len(versions[n])]
    /\ DOMAIN lock = Lockable
    /\ phase \in [Request -> Phase]
    /\ DOMAIN work = Request
    /\ \A r \in Request : RequestInv(r)

\* A sequence is a function on the numbers up to its length.
LEMMA SequenceShape ==
    ASSUME NEW S, NEW s \in Seq(S)
    PROVE  Len(s) \in Nat /\ s \in [1 .. Len(s) -> S] /\ DOMAIN s = 1 .. Len(s)
  BY SMTT(30)

\* Adding the row of the next version appends to the log.
LEMMA NextRowAppends ==
    ASSUME NEW S, NEW s \in Seq(S), NEW d \in S
    PROVE  /\ [w \in DOMAIN s \cup {Len(s) + 1} |-> IF w = Len(s) + 1 THEN d ELSE s[w]] = Append(s, d)
           /\ Append(s, d) \in Seq(S)
           /\ Len(Append(s, d)) = Len(s) + 1
           /\ \A w \in DOMAIN s : w \in DOMAIN Append(s, d) /\ Append(s, d)[w] = s[w]
           /\ Len(s) + 1 \in DOMAIN Append(s, d) /\ Append(s, d)[Len(s) + 1] = d
           /\ Len(s) + 1 \notin DOMAIN s
  <1>1. DOMAIN s = 1 .. Len(s) /\ Len(s) \in Nat
    BY SequenceShape
  <1>2. (DOMAIN s \cup {Len(s) + 1}) = 1 .. Len(s) + 1
    BY <1>1, SMTT(30)
  <1>3. /\ Append(s, d) \in Seq(S) /\ Len(Append(s, d)) = Len(s) + 1
        /\ \A i \in 1 .. Len(s) : Append(s, d)[i] = s[i]
        /\ Append(s, d)[Len(s) + 1] = d
    BY SMTT(30)
  <1>4. Append(s, d) = [w \in 1 .. Len(s) + 1 |-> Append(s, d)[w]]
    <2>1. Append(s, d) \in [1 .. Len(s) + 1 -> S]
      BY <1>3, SequenceShape
    <2> QED BY <2>1
  <1>5. \A w \in 1 .. Len(s) + 1 : (IF w = Len(s) + 1 THEN d ELSE s[w]) = Append(s, d)[w]
    BY <1>1, <1>3, SMTT(30)
  <1>6. [w \in 1 .. Len(s) + 1 |-> IF w = Len(s) + 1 THEN d ELSE s[w]] =
            [w \in 1 .. Len(s) + 1 |-> Append(s, d)[w]]
    BY <1>5
  <1>7. [w \in DOMAIN s \cup {Len(s) + 1} |-> IF w = Len(s) + 1 THEN d ELSE s[w]] = Append(s, d)
    BY <1>2, <1>4, <1>6
  <1> QED BY <1>1, <1>3, <1>7, SequenceShape, SMTT(30)

\* A step of one request that leaves the tables of definitions alone, and the locks of the
\* other requests, does not disturb what the others know.
LEMMA OthersAreUndisturbed ==
    ASSUME DInv, NEW r \in Request, NEW p \in Phase, To(r, p),
           DOMAIN work' = Request, \A q \in Request \ {r} : work'[q] = work[q],
           DOMAIN lock' = Lockable,
           \A n \in Lockable : lock[n] \in Request \ {r} => lock'[n] = lock[n],
           UNCHANGED <<offered, versions, activeVersion>>,
           RequestInv(r)'
    PROVE  DInv'
  <1>1. phase' \in [Request -> Phase] /\ \A q \in Request \ {r} : phase'[q] = phase[q]
    BY DEF To, DInv, Phase, Open
  <1>2. ASSUME NEW q \in Request \ {r} PROVE RequestInv(q)'
    BY <1>1, <1>2, SMTT(30) DEF DInv, RequestInv, IsDefinition
  <1> QED BY <1>1, <1>2 DEF DInv, Phase, Open

\* The end of a transaction frees its own locks and no other.
LEMMA ReleaseFrees ==
    ASSUME NEW r \in Request, Release(r)
    PROVE  /\ DOMAIN lock' = Lockable
           /\ \A n \in Lockable : lock[n] \in Request \ {r} => lock'[n] = lock[n]
  BY DEF Release

\* Every step that ends a transaction without a commit.
LEMMA RollbackKeepsDInv ==
    ASSUME DInv, NEW r \in Request, NEW p \in {"refused", "failed"}, Rollback(r, p)
    PROVE  DInv'
  <1>1. To(r, p) /\ Release(r) /\ UNCHANGED <<offered, work, versions, activeVersion>>
    BY DEF Rollback, tables
  <1>2. phase'[r] = p
    BY <1>1 DEF To, DInv
  <1>3. RequestInv(r)'
    BY <1>2 DEF RequestInv
  <1> QED BY <1>1, <1>3, ReleaseFrees, OthersAreUndisturbed DEF DInv, Phase, Open

\* A request that begins knows nothing of the tables yet.
LEMMA SubmitKeepsDInv ==
    ASSUME DInv, NEW r \in Request, NEW t, NEW d, NEW ok \in BOOLEAN, Submit(r, t, d, ok),
           ok => t \in Lockable /\ (t \in Name => d \in Document)
    PROVE  DInv'
  <1>1. To(r, IF ok THEN "locking" ELSE "refused")
    BY DEF Submit
  <1>2. /\ UNCHANGED <<offered, lock, versions, activeVersion>>
        /\ DOMAIN work' = Request /\ \A q \in Request \ {r} : work'[q] = work[q]
        /\ work'[r].target = t /\ work'[r].document = d
    BY DEF Submit, tables, DInv
  <1>3. phase'[r] = IF ok THEN "locking" ELSE "refused"
    BY <1>1 DEF To, DInv
  <1>4. RequestInv(r)'
    BY <1>2, <1>3 DEF RequestInv, IsDefinition
  <1>5. DOMAIN lock' = Lockable /\ \A n \in Lockable : lock[n] \in Request \ {r} => lock'[n] = lock[n]
    BY <1>2 DEF DInv
  <1>6. (IF ok THEN "locking" ELSE "refused") \in Phase
    BY DEF Phase, Open
  <1> QED BY <1>1, <1>2, <1>4, <1>5, <1>6, OthersAreUndisturbed

\* The insert of the next version, under the lock, is one Publish of the registry.
LEMMA CommitVersionIsPublish ==
    ASSUME DInv, NEW r \in Request, CommitVersion(r)
    PROVE  /\ DInv'
           /\ \E n \in Name : R!Publish(n)
  <1> DEFINE n == work[r].target
             v == work[r].version
             d == work[r].document
  <1>1. n \in Lockable /\ n \in Name /\ lock[n] = r /\ v = Len(versions[n]) + 1 /\ d \in Document
        /\ versions[n] \in Seq(Document)
    BY DEF CommitVersion, DInv, RequestInv, IsDefinition
  <1>2. versions' = [versions EXCEPT ![n] = Append(versions[n], d)]
    <2>1. [w \in DOMAIN versions[n] \cup {v} |-> IF w = v THEN d ELSE versions[n][w]] =
              Append(versions[n], d)
      BY <1>1, NextRowAppends, SMTT(30)
    <2>2. versions' = [versions EXCEPT ![n] =
              [w \in DOMAIN versions[n] \cup {v} |-> IF w = v THEN d ELSE versions[n][w]]]
      BY DEF CommitVersion, WithVersion
    <2> QED BY <2>1, <2>2
  <1>3. /\ versions' \in [Name -> Seq(Document)]
        /\ versions'[n] = Append(versions[n], d)
        /\ \A m \in Name \ {n} : versions'[m] = versions[m]
    BY <1>1, <1>2, NextRowAppends, SMTT(30) DEF DInv
  <1>4. activeVersion' = [m \in Name |-> Len(versions'[m])]
    <2>1. activeVersion' = [activeVersion EXCEPT ![n] = v]
      BY DEF CommitVersion
    <2>2. Len(versions'[n]) = v
      BY <1>1, <1>3, NextRowAppends, SMTT(30)
    <2>3. activeVersion = [m \in Name |-> Len(versions[m])]
      BY DEF DInv
    <2> HIDE DEF n, v, d
    <2> QED BY <1>1, <1>3, <2>1, <2>2, <2>3
  <1>5. /\ Release(r) /\ UNCHANGED <<offered, work, executions>>
    BY DEF CommitVersion
  <1>6. PICK p \in {"applied", "unknown"} : To(r, p)
    BY DEF CommitVersion
  <1>7. /\ phase' \in [Request -> Phase] /\ phase'[r] = p
        /\ \A q \in Request \ {r} : phase'[q] = phase[q]
    BY <1>6 DEF To, DInv, Phase, Open
  <1>8. \A m \in Name : \A w \in DOMAIN versions[m] :
            w \in DOMAIN versions'[m] /\ versions'[m][w] = versions[m][w]
    <2> TAKE m \in Name
    <2>1. CASE m = n
      BY <1>1, <1>3, <2>1, NextRowAppends, SMTT(30)
    <2>2. CASE m # n
      BY <1>3, <2>2
    <2> QED BY <2>1, <2>2
  <1>9. RequestInv(r)'
    <2>1. v \in DOMAIN versions'[n] /\ versions'[n][v] = d
      <3>1. versions'[n] = Append(versions[n], d)
        BY <1>3
      <3>2. Len(versions[n]) + 1 \in DOMAIN Append(versions[n], d)
            /\ Append(versions[n], d)[Len(versions[n]) + 1] = d
        BY <1>1, NextRowAppends, SMTT(30)
      <3> QED BY <1>1, <3>1, <3>2
    <2> QED BY <1>1, <1>5, <1>7, <2>1 DEF RequestInv, IsDefinition
  <1>10. ASSUME NEW q \in Request \ {r} PROVE RequestInv(q)'
    <2>1. phase[q] = "read" => work[q].target # n
      BY <1>1 DEF DInv, RequestInv
    <2>2. phase[q] = "read" => activeVersion'[work[q].target] = activeVersion[work[q].target]
      BY <2>1, <1>3, <1>4 DEF DInv, RequestInv
    <2>3. phase[q] \in {"locked", "read"} => lock'[work[q].target] = q
      BY <1>5, ReleaseFrees, SMTT(30) DEF DInv, RequestInv
    <2> QED BY <1>5, <1>7, <1>8, <2>2, <2>3, SMTT(30) DEF DInv, RequestInv, IsDefinition
  <1>11. DInv'
    BY <1>3, <1>4, <1>5, <1>7, <1>9, <1>10, ReleaseFrees DEF DInv
  <1>12. R!Publish(n)
    BY <1>1, <1>2, <1>5 DEF R!Publish
  <1> QED BY <1>1, <1>11, <1>12

\* An execution is started on the document its transaction read: one Pin of the registry.
LEMMA CommitExecutionIsPin ==
    ASSUME DInv, NEW r \in Request, CommitExecution(r)
    PROVE  /\ DInv'
           /\ \E n \in Name : R!Pin(n)
  <1>1. /\ work[r].target \in Name
        /\ work[r].version \in DOMAIN versions[work[r].target]
        /\ versions[work[r].target][work[r].version] = work[r].document
    BY DEF CommitExecution, DInv, RequestInv
  <1>2. UNCHANGED <<offered, lock, work, versions, activeVersion>>
    BY DEF CommitExecution
  <1>3. PICK p \in {"applied", "unknown"} : To(r, p)
    BY DEF CommitExecution
  <1>4. phase'[r] = p
    BY <1>3 DEF To, DInv
  <1>5. RequestInv(r)'
    BY <1>1, <1>2, <1>4 DEF RequestInv, IsDefinition
  <1>6. DInv'
    BY <1>2, <1>3, <1>5, OthersAreUndisturbed DEF DInv, Phase, Open
  <1>7. R!Pin(work[r].target)
    BY <1>1 DEF CommitExecution, R!Pin
  <1> QED BY <1>1, <1>6, <1>7

\* Registering a plugin leaves the versions and executions alone.
LEMMA CommitPluginKeepsDInv ==
    ASSUME DInv, NEW r \in Request, CommitPlugin(r)
    PROVE  DInv' /\ UNCHANGED <<versions, executions>>
  <1>1. Release(r) /\ UNCHANGED <<offered, work, versions, activeVersion, executions>>
    BY DEF CommitPlugin
  <1>2. PICK p \in {"applied", "unknown"} : To(r, p)
    BY DEF CommitPlugin
  <1>3. phase'[r] = p
    BY <1>2 DEF To, DInv
  <1>4. RequestInv(r)'
    BY <1>1, <1>3 DEF RequestInv, IsDefinition, CommitPlugin
  <1> QED BY <1>1, <1>2, <1>4, ReleaseFrees, OthersAreUndisturbed DEF DInv, Phase, Open

\* One step of the tables is a step of the registry, or none.
LEMMA StepRefines ==
    ASSUME DInv, [Next]_vars
    PROVE  DInv' /\ [R!Next]_<<versions, executions>>
  <1>1. ASSUME NEW r \in Request, ApplyRunbook(r)
        PROVE  DInv' /\ UNCHANGED <<versions, executions>>
    <2>1. PICK d \in offered.runbooks : Submit(r, <<"runbook", d.id>>, d, Parses(d))
      BY <1>1 DEF ApplyRunbook
    <2>2. offered \in Offers
      BY DEF DInv
    <2>3. Parses(d) => <<"runbook", d.id>> \in Name
      BY <2>2, DefinitionsAssumption DEF Name
    <2>4. d \in Document
      BY <2>2 DEF Document
    <2>5. Parses(d) \in BOOLEAN
      BY DEF Parses
    <2> QED BY <2>1, <2>3, <2>4, <2>5, SubmitKeepsDInv DEF Lockable, Submit, tables
  <1>2. ASSUME NEW r \in Request, ApplyPolicy(r)
        PROVE  DInv' /\ UNCHANGED <<versions, executions>>
    <2>1. PICK d \in offered.policies : Submit(r, <<"policy", d.id>>, d, ValidPolicy(d))
      BY <1>2 DEF ApplyPolicy
    <2>2. offered \in Offers
      BY DEF DInv
    <2>3. ValidPolicy(d) => <<"policy", d.id>> \in Name
      BY <2>2, DefinitionsAssumption DEF Name
    <2>4. d \in Document
      BY <2>2 DEF Document
    <2>5. ValidPolicy(d) \in BOOLEAN
      BY DEF ValidPolicy
    <2> QED BY <2>1, <2>3, <2>4, <2>5, SubmitKeepsDInv DEF Lockable, Submit, tables
  <1>3. ASSUME NEW r \in Request, RegisterPlugin(r)
        PROVE  DInv' /\ UNCHANGED <<versions, executions>>
    <2> DEFINE m == offered.manifests[served]
    <2>1. PICK k \in PluginKey : Submit(r, <<"plugin", k>>, m, Discovers(m))
      BY <1>3 DEF RegisterPlugin
    <2>2. <<"plugin", k>> \in Lockable /\ <<"plugin", k>> \notin Name
      BY DEF Lockable, Name
    <2>3. Discovers(m) \in BOOLEAN
      BY DEF Discovers
    <2> QED BY <2>1, <2>2, <2>3, SubmitKeepsDInv DEF Submit, tables
  <1>4. ASSUME NEW r \in Request, StartExecution(r)
        PROVE  DInv' /\ UNCHANGED <<versions, executions>>
    <2>1. PICK n \in RunbookName :
            LET t == <<"runbook", n>>
            IN /\ activeVersion[t] # 0
               /\ work' = [work EXCEPT ![r] =
                      [target |-> t, document |-> versions[t][activeVersion[t]],
                       version |-> activeVersion[t]]]
      BY <1>4 DEF StartExecution
    <2> DEFINE t == <<"runbook", n>>
    <2>2. t \in Name
      BY DEF Name
    <2>3. activeVersion[t] = Len(versions[t]) /\ versions[t] \in Seq(Document)
      BY <2>2 DEF DInv
    <2>4. activeVersion[t] \in DOMAIN versions[t]
      BY <2>1, <2>3, SequenceShape, SMTT(30)
    <2>5. To(r, "starting") /\ UNCHANGED <<offered, lock, versions, activeVersion, executions>>
      BY <1>4 DEF StartExecution, tables
    <2>6. phase'[r] = "starting"
      BY <2>5 DEF To, DInv
    <2>7. /\ DOMAIN work' = Request /\ \A q \in Request \ {r} : work'[q] = work[q]
          /\ work'[r].target = t /\ work'[r].version = activeVersion[t]
          /\ work'[r].document = versions[t][activeVersion[t]]
      BY <2>1 DEF DInv
    <2>8. RequestInv(r)'
      BY <2>2, <2>4, <2>5, <2>6, <2>7 DEF RequestInv, IsDefinition
    <2> QED BY <2>5, <2>7, <2>8, OthersAreUndisturbed DEF DInv, Phase, Open
  <1>5. ASSUME NEW r \in Request, AcquireLock(r)
        PROVE  DInv' /\ UNCHANGED <<versions, executions>>
    <2>1. To(r, "locked") /\ UNCHANGED <<offered, work, versions, activeVersion, executions>>
      BY <1>5 DEF AcquireLock, tables
    <2>2. work[r].target \in Lockable /\ (IsDefinition(r) => work[r].document \in Document)
      BY <1>5 DEF AcquireLock, DInv, RequestInv
    <2>3. /\ DOMAIN lock' = Lockable /\ lock'[work[r].target] = r
          /\ \A n \in Lockable : lock[n] \in Request \ {r} => lock'[n] = lock[n]
      BY <1>5, <2>2, DefinitionsAssumption DEF AcquireLock, DInv
    <2>4. phase'[r] = "locked"
      BY <2>1 DEF To, DInv
    <2>5. RequestInv(r)'
      BY <2>1, <2>2, <2>3, <2>4 DEF RequestInv, IsDefinition
    <2> QED BY <2>1, <2>3, <2>5, OthersAreUndisturbed DEF DInv, Phase, Open
  <1>6. ASSUME NEW r \in Request, ReadVersion(r)
        PROVE  DInv' /\ UNCHANGED <<versions, executions>>
    <2>1. CASE Rollback(r, "refused")
      BY <2>1, RollbackKeepsDInv DEF Rollback, tables
    <2>2. CASE /\ work[r].version = activeVersion[work[r].target] + 1
               /\ To(r, "read") /\ UNCHANGED <<offered, served, lock, tables, work>>
      <3>1. To(r, "read") /\ UNCHANGED <<offered, lock, work, versions, activeVersion, executions>>
        BY <2>2 DEF tables
      <3>2. phase'[r] = "read"
        BY <3>1 DEF To, DInv
      <3>3. /\ work[r].target \in Name /\ work[r].target \in Lockable
            /\ work[r].document \in Document /\ lock[work[r].target] = r
        BY <1>6 DEF ReadVersion, DInv, RequestInv, IsDefinition
      <3>4. RequestInv(r)'
        BY <2>2, <3>1, <3>2, <3>3 DEF RequestInv, IsDefinition
      <3> QED BY <3>1, <3>4, OthersAreUndisturbed DEF DInv, Phase, Open
    <2> QED BY <1>6, <2>1, <2>2 DEF ReadVersion, IsNextVersion
  <1>7. ASSUME NEW r \in Request, Fail(r)
        PROVE  DInv' /\ UNCHANGED <<versions, executions>>
    BY <1>7, RollbackKeepsDInv DEF Fail, Rollback, tables
  <1>8. CASE UpgradePlugin
    <2>1. UNCHANGED <<offered, lock, phase, work, versions, activeVersion, executions>>
      BY <1>8 DEF UpgradePlugin, tables
    <2> QED BY <2>1 DEF DInv, RequestInv, IsDefinition
  <1>9. CASE UNCHANGED vars
    BY <1>9 DEF vars, DInv, RequestInv, IsDefinition
  <1> QED
    BY <1>1, <1>2, <1>3, <1>4, <1>5, <1>6, <1>7, <1>8, <1>9, CommitVersionIsPublish,
       CommitExecutionIsPin, CommitPluginKeepsDInv DEF Next, RequestStep, R!Next

\* Empty tables are an empty registry.
LEMMA InitRefines ==
    ASSUME Init PROVE DInv /\ R!Init
  <1>1. versions \in [Name -> Seq(Document)] /\ \A n \in Name : Len(versions[n]) = 0
    BY SMTT(30) DEF Init
  <1>2. activeVersion = [n \in Name |-> Len(versions[n])]
    BY <1>1 DEF Init
  <1>3. \A r \in Request : phase[r] = "idle"
    BY DEF Init
  <1>4. DInv
    BY <1>1, <1>2, <1>3 DEF Init, DInv, RequestInv, Phase, Open
  <1> QED BY <1>4 DEF Init, R!Init

\* The invariant holds in every reachable state of the tables.
LEMMA DInvHolds == Spec => []DInv
  <1>1. Init => DInv
    BY InitRefines
  <1>2. DInv /\ [Next]_vars => DInv'
    BY StepRefines
  <1> QED BY <1>1, <1>2, PTL DEF Spec

\* ApplyRunbook, ApplyPolicy and StartExecution, whatever requests run beside each other and
\* wherever one of them fails: what a client was told stays true of the tables.
THEOREM AppliedDocumentsArePublished == Spec => []AppliedIsPublished
  <1>1. DInv => AppliedIsPublished
    BY DEF DInv, RequestInv, AppliedIsPublished
  <1> QED BY <1>1, DInvHolds, PTL

\* The transactions of ApplyRunbook, ApplyPolicy and StartExecution implement the registry:
\* documents are immutable, versions have no gaps and executions keep their document.
THEOREM TablesImplementRegistry == Spec => ImplementsRegistry
  <1>1. Init => R!Init
    BY InitRefines
  <1>2. DInv /\ [Next]_vars => [R!Next]_<<versions, executions>>
    BY StepRefines
  <1> QED BY <1>1, <1>2, DInvHolds, PTL DEF Spec, ImplementsRegistry, R!Spec

-----------------------------------------------------------------------------
(***************************************************************************)
(* What the tables hold was accepted.                                      *)
(***************************************************************************)

\* The documents on offer that Parse, or Validate of a policy, accepts under a name.
AcceptedDocument(n) ==
    IF n[1] = "runbook" THEN {d \in UNION {o.runbooks : o \in Offers} : Parses(d)}
    ELSE {d \in UNION {o.policies : o \in Offers} : ValidPolicy(d)}

\* The row of a plugin and the row of its active version come from one manifest.
PluginRowsAgree(k) ==
    LET m == plugins[k].hash
    IN /\ IsManifest(m)
       /\ plugins[k].active = m.version
       /\ plugins[k].permissions = collectPluginPermissions(m)
       /\ pluginVersions[k][m.version] = m.actions

\* A document is checked when a request begins and written when it commits.
RequestAccepted(r) ==
    /\ phase[r] \in {"locking", "locked", "read"} /\ IsDefinition(r) =>
         work[r].document \in AcceptedDocument(work[r].target)
    /\ phase[r] \in {"locking", "locked"} /\ ~IsDefinition(r) => IsManifest(work[r].document)

\* The inductive invariant: everything on its way into the tables, and everything written,
\* was accepted.
AcceptedInv ==
    /\ DOMAIN plugins = PluginKey /\ DOMAIN pluginVersions = PluginKey
    /\ \A n \in Name : \A v \in DOMAIN versions[n] : versions[n][v] \in AcceptedDocument(n)
    /\ \A k \in PluginKey : plugins[k] # NoPlugin => PluginRowsAgree(k)
    /\ \A r \in Request : RequestAccepted(r)

\* Empty tables hold nothing.
LEMMA AcceptedInit == ASSUME Init PROVE AcceptedInv
  <1>1. \A n \in Name : DOMAIN versions[n] = {}
    BY SMTT(30) DEF Init
  <1>2. \A r \in Request : phase[r] = "idle"
    BY DEF Init
  <1>3. /\ DOMAIN plugins = PluginKey /\ DOMAIN pluginVersions = PluginKey
        /\ \A k \in PluginKey : plugins[k] = NoPlugin
    BY DEF Init
  <1> QED BY <1>1, <1>2, <1>3 DEF AcceptedInv, RequestAccepted

\* A step of one request that writes no table.
LEMMA UnwrittenStayAccepted ==
    ASSUME DInv, AcceptedInv, NEW r \in Request, NEW p, To(r, p),
           \A q \in Request \ {r} : work'[q] = work[q],
           UNCHANGED <<versions, plugins, pluginVersions>>,
           RequestAccepted(r)'
    PROVE  AcceptedInv'
  <1>1. \A q \in Request \ {r} : phase'[q] = phase[q]
    BY DEF To, DInv
  <1>2. ASSUME NEW q \in Request \ {r} PROVE RequestAccepted(q)'
    BY <1>1, <1>2 DEF AcceptedInv, RequestAccepted, IsDefinition
  <1>3. \A k \in PluginKey : plugins'[k] # NoPlugin => PluginRowsAgree(k)'
    BY DEF AcceptedInv, PluginRowsAgree
  <1> QED BY <1>2, <1>3 DEF AcceptedInv

\* A request in one of these phases has no document that waits to be written.
LEMMA NothingPending ==
    ASSUME DInv, NEW r \in Request, NEW p, To(r, p),
           p \in {"refused", "failed", "starting", "applied", "unknown"}
    PROVE  RequestAccepted(r)'
  <1>1. phase'[r] = p
    BY DEF To, DInv
  <1> QED BY <1>1 DEF RequestAccepted

\* Requests that end without a commit.
LEMMA RollbackStaysAccepted ==
    ASSUME DInv, AcceptedInv, NEW r \in Request, NEW p \in {"refused", "failed"}, Rollback(r, p)
    PROVE  AcceptedInv'
  <1>1. To(r, p) /\ UNCHANGED <<work, versions, plugins, pluginVersions>>
    BY DEF Rollback, tables
  <1>2. RequestAccepted(r)'
    BY <1>1, NothingPending
  <1> QED BY <1>1, <1>2, UnwrittenStayAccepted

\* A request that begins goes on only with a document that was accepted.
LEMMA SubmitStaysAccepted ==
    ASSUME DInv, AcceptedInv, NEW r \in Request, NEW t, NEW d, NEW ok \in BOOLEAN,
           Submit(r, t, d, ok),
           ok => IF t \in Name THEN d \in AcceptedDocument(t) ELSE IsManifest(d)
    PROVE  AcceptedInv'
  <1>1. To(r, IF ok THEN "locking" ELSE "refused")
    BY DEF Submit
  <1>2. /\ UNCHANGED <<versions, plugins, pluginVersions>>
        /\ \A q \in Request \ {r} : work'[q] = work[q]
        /\ work'[r].target = t /\ work'[r].document = d
    BY DEF Submit, tables, DInv
  <1>3. phase'[r] = IF ok THEN "locking" ELSE "refused"
    BY <1>1 DEF To, DInv
  <1>4. RequestAccepted(r)'
    BY <1>2, <1>3 DEF RequestAccepted, IsDefinition
  <1> QED BY <1>1, <1>2, <1>4, UnwrittenStayAccepted

\* A request takes its document with it when it is granted the lock and reads the row.
LEMMA WaitingStaysAccepted ==
    ASSUME DInv, AcceptedInv, NEW r \in Request, NEW p \in {"locked", "read"}, To(r, p),
           phase[r] \in {"locking", "locked"}, p = "read" => IsDefinition(r),
           UNCHANGED <<work, versions, plugins, pluginVersions>>
    PROVE  AcceptedInv'
  <1>1. phase'[r] = p
    BY DEF To, DInv
  <1>2. RequestAccepted(r)
    BY DEF AcceptedInv
  <1>3. RequestAccepted(r)'
    BY <1>1, <1>2 DEF RequestAccepted, IsDefinition
  <1> QED BY <1>3, UnwrittenStayAccepted

\* The insert of a version row.
LEMMA CommitVersionStaysAccepted ==
    ASSUME DInv, AcceptedInv, NEW r \in Request, CommitVersion(r)
    PROVE  AcceptedInv'
  <1> DEFINE n == work[r].target
             v == work[r].version
             d == work[r].document
  <1>1. n \in Name /\ d \in AcceptedDocument(n) /\ DOMAIN versions = Name
    BY DEF CommitVersion, DInv, RequestInv, AcceptedInv, RequestAccepted, IsDefinition
  <1>2. /\ versions' = [versions EXCEPT ![n] = WithVersion(versions[n], v, d)]
        /\ UNCHANGED <<work, plugins, pluginVersions>>
    BY DEF CommitVersion
  <1>3. PICK p \in {"applied", "unknown"} : To(r, p)
    BY DEF CommitVersion
  <1>4. RequestAccepted(r)'
    BY <1>3, NothingPending
  <1>5. \A q \in Request \ {r} : phase'[q] = phase[q]
    BY <1>3 DEF To, DInv
  <1>6. ASSUME NEW q \in Request \ {r} PROVE RequestAccepted(q)'
    BY <1>2, <1>5, <1>6 DEF AcceptedInv, RequestAccepted, IsDefinition
  <1>7. ASSUME NEW x \in Name, NEW w \in DOMAIN versions'[x]
        PROVE  versions'[x][w] \in AcceptedDocument(x)
    <2> HIDE DEF n, v, d
    <2>1. CASE x = n
      <3>1. versions'[x] = WithVersion(versions[n], v, d)
        BY <1>1, <1>2, <2>1
      <3>2. w \in DOMAIN versions[n] \cup {v} /\ versions'[x][w] = IF w = v THEN d ELSE versions[n][w]
        BY <3>1, <1>7 DEF WithVersion
      <3> QED BY <1>1, <2>1, <3>2 DEF AcceptedInv
    <2>2. CASE x # n
      <3>1. versions'[x] = versions[x]
        BY <1>1, <1>2, <2>2
      <3> QED BY <1>7, <3>1 DEF AcceptedInv
    <2> QED BY <2>1, <2>2
  <1>8. \A k \in PluginKey : plugins'[k] # NoPlugin => PluginRowsAgree(k)'
    BY <1>2 DEF AcceptedInv, PluginRowsAgree
  <1> QED BY <1>2, <1>4, <1>6, <1>7, <1>8 DEF AcceptedInv

\* The rows of a plugin and of its version, from the manifest that was discovered.
LEMMA CommitPluginStaysAccepted ==
    ASSUME DInv, AcceptedInv, NEW r \in Request, CommitPlugin(r)
    PROVE  AcceptedInv'
  <1>1. PICK k \in PluginKey : work[r].target = <<"plugin", k>>
    <2>1. work[r].target \in Lockable /\ work[r].target \notin Name
      BY DEF CommitPlugin, DInv, RequestInv, IsDefinition
    <2> QED BY <2>1 DEF Lockable
  <1>2. PICK m : m = work[r].document
    OBVIOUS
  <1> DEFINE row == [active |-> m.version, permissions |-> collectPluginPermissions(m), hash |-> m]
  <1>3. IsManifest(m)
    BY <1>2 DEF CommitPlugin, AcceptedInv, RequestAccepted
  <1>4. /\ plugins' = [plugins EXCEPT ![k] = row]
        /\ pluginVersions' = [pluginVersions EXCEPT ![k] =
               WithVersion(pluginVersions[k], m.version, m.actions)]
        /\ UNCHANGED <<work, versions>>
    <2>1. work[r].target[2] = k
      BY <1>1, SMTT(30)
    <2> QED BY <1>2, <2>1 DEF CommitPlugin
  <1>5. PICK p \in {"applied", "unknown"} : To(r, p)
    BY DEF CommitPlugin
  <1>6. RequestAccepted(r)'
    BY <1>5, NothingPending
  <1>7. \A q \in Request \ {r} : phase'[q] = phase[q]
    BY <1>5 DEF To, DInv
  <1>8. ASSUME NEW q \in Request \ {r} PROVE RequestAccepted(q)'
    BY <1>4, <1>7, <1>8 DEF AcceptedInv, RequestAccepted, IsDefinition
  <1>9. DOMAIN plugins = PluginKey /\ DOMAIN pluginVersions = PluginKey
    BY DEF AcceptedInv
  <1>10. PluginRowsAgree(k)'
    <2>1. plugins'[k] = row
      BY <1>1, <1>4, <1>9
    <2>2. pluginVersions'[k] = WithVersion(pluginVersions[k], m.version, m.actions)
      BY <1>1, <1>4, <1>9
    <2>3. pluginVersions'[k][m.version] = m.actions
      BY <2>2 DEF WithVersion
    <2> QED BY <1>3, <2>1, <2>3, SMTT(30) DEF PluginRowsAgree
  <1> HIDE DEF row
  <1>11. ASSUME NEW x \in PluginKey, x # k, plugins'[x] # NoPlugin PROVE PluginRowsAgree(x)'
    <2>1. plugins'[x] = plugins[x] /\ pluginVersions'[x] = pluginVersions[x]
      BY <1>1, <1>4, <1>9, <1>11
    <2> QED BY <1>11, <2>1 DEF AcceptedInv, PluginRowsAgree
  <1>12. DOMAIN plugins' = PluginKey /\ DOMAIN pluginVersions' = PluginKey
    BY <1>4, <1>9
  <1> QED BY <1>4, <1>6, <1>8, <1>10, <1>11, <1>12 DEF AcceptedInv

\* Every step.
LEMMA AcceptedNext == ASSUME DInv, AcceptedInv, [Next]_vars PROVE AcceptedInv'
  <1>1. ASSUME NEW r \in Request, ApplyRunbook(r) PROVE AcceptedInv'
    <2>1. PICK d \in offered.runbooks : Submit(r, <<"runbook", d.id>>, d, Parses(d))
      BY <1>1 DEF ApplyRunbook
    <2>2. offered \in Offers
      BY DEF DInv
    <2>3. Parses(d) => <<"runbook", d.id>> \in Name
      BY <2>2, DefinitionsAssumption DEF Name
    <2>4. Parses(d) => d \in AcceptedDocument(<<"runbook", d.id>>)
      BY <2>2 DEF AcceptedDocument
    <2>5. Parses(d) \in BOOLEAN
      BY DEF Parses
    <2> QED BY <2>1, <2>3, <2>4, <2>5, SubmitStaysAccepted
  <1>2. ASSUME NEW r \in Request, ApplyPolicy(r) PROVE AcceptedInv'
    <2>1. PICK d \in offered.policies : Submit(r, <<"policy", d.id>>, d, ValidPolicy(d))
      BY <1>2 DEF ApplyPolicy
    <2>2. offered \in Offers
      BY DEF DInv
    <2>3. ValidPolicy(d) => <<"policy", d.id>> \in Name
      BY <2>2, DefinitionsAssumption DEF Name
    <2>4. ValidPolicy(d) => d \in AcceptedDocument(<<"policy", d.id>>)
      BY <2>2 DEF AcceptedDocument
    <2>5. ValidPolicy(d) \in BOOLEAN
      BY DEF ValidPolicy
    <2> QED BY <2>1, <2>3, <2>4, <2>5, SubmitStaysAccepted
  <1>3. ASSUME NEW r \in Request, RegisterPlugin(r) PROVE AcceptedInv'
    <2> DEFINE m == offered.manifests[served]
    <2>1. PICK k \in PluginKey : Submit(r, <<"plugin", k>>, m, Discovers(m))
      BY <1>3 DEF RegisterPlugin
    <2>2. <<"plugin", k>> \notin Name
      BY DEF Name
    <2>3. IsManifest(m)
      <3>1. offered \in Offers /\ served \in DOMAIN offered.manifests
        BY <1>3 DEF DInv, RegisterPlugin
      <3> QED BY <3>1, DefinitionsAssumption
    <2>4. Discovers(m) \in BOOLEAN
      BY DEF Discovers
    <2> QED BY <2>1, <2>2, <2>3, <2>4, SubmitStaysAccepted
  <1>4. ASSUME NEW r \in Request, StartExecution(r) PROVE AcceptedInv'
    <2>1. To(r, "starting") /\ UNCHANGED <<versions, plugins, pluginVersions>>
      BY <1>4 DEF StartExecution, tables
    <2>2. \A q \in Request \ {r} : work'[q] = work[q]
      BY <1>4 DEF StartExecution, DInv
    <2>3. RequestAccepted(r)'
      BY <2>1, NothingPending
    <2> QED BY <2>1, <2>2, <2>3, UnwrittenStayAccepted
  <1>5. ASSUME NEW r \in Request, AcquireLock(r) PROVE AcceptedInv'
    <2>1. /\ To(r, "locked") /\ phase[r] = "locking"
          /\ UNCHANGED <<work, versions, plugins, pluginVersions>>
      BY <1>5 DEF AcquireLock, tables
    <2> QED BY <2>1, WaitingStaysAccepted
  <1>6. ASSUME NEW r \in Request, ReadVersion(r) PROVE AcceptedInv'
    <2>1. CASE Rollback(r, "refused")
      BY <2>1, RollbackStaysAccepted
    <2>2. CASE To(r, "read") /\ UNCHANGED <<offered, served, lock, tables, work>>
      <3>1. /\ To(r, "read") /\ phase[r] = "locked" /\ IsDefinition(r)
            /\ UNCHANGED <<work, versions, plugins, pluginVersions>>
        BY <1>6, <2>2 DEF ReadVersion, tables
      <3> QED BY <3>1, WaitingStaysAccepted
    <2> QED BY <1>6, <2>1, <2>2 DEF ReadVersion
  <1>7. ASSUME NEW r \in Request, CommitExecution(r) PROVE AcceptedInv'
    <2>1. UNCHANGED <<work, versions, plugins, pluginVersions>>
      BY <1>7 DEF CommitExecution
    <2>2. PICK p \in {"applied", "unknown"} : To(r, p)
      BY <1>7 DEF CommitExecution
    <2>3. RequestAccepted(r)'
      BY <2>2, NothingPending
    <2> QED BY <2>1, <2>2, <2>3, UnwrittenStayAccepted
  <1>8. ASSUME NEW r \in Request, Fail(r) PROVE AcceptedInv'
    BY <1>8, RollbackStaysAccepted DEF Fail
  <1>9. CASE UpgradePlugin
    <2>1. UNCHANGED <<phase, work, versions, plugins, pluginVersions>>
      BY <1>9 DEF UpgradePlugin, tables
    <2> QED BY <2>1 DEF AcceptedInv, RequestAccepted, PluginRowsAgree, IsDefinition
  <1>10. CASE UNCHANGED vars
    BY <1>10 DEF vars, AcceptedInv, RequestAccepted, PluginRowsAgree, IsDefinition
  <1> QED
    BY <1>1, <1>2, <1>3, <1>4, <1>5, <1>6, <1>7, <1>8, <1>9, <1>10,
       CommitVersionStaysAccepted, CommitPluginStaysAccepted DEF Next, RequestStep

\* The invariant holds in every reachable state of the tables.
LEMMA AcceptedHolds == Spec => []AcceptedInv
  <1>1. Init => AcceptedInv
    BY AcceptedInit
  <1>2. DInv /\ AcceptedInv /\ [Next]_vars => AcceptedInv'
    BY AcceptedNext
  <1> QED BY <1>1, <1>2, DInvHolds, PTL DEF Spec

=============================================================================
