---------------------------- MODULE MCDefinitions ----------------------------
(***************************************************************************)
(* An instance of Definitions for TLC: a runbook whose fields are set, one  *)
(* at a time, to values around their bounds; policies over two labels; a    *)
(* plugin that is upgraded.                                                *)
(***************************************************************************)
EXTENDS Definitions, TLC

MCNameLength ==
    "rb" :> 2 @@ "a" :> 1 @@ "b" :> 1 @@ "rollback-a" :> 10 @@ "db.main" :> 7 @@ "db" :> 2 @@
    "n55" :> 55 @@ "n56" :> 56 @@ "n64" :> 64 @@ "n65" :> 65 @@ "ops" :> 3 @@ "restart" :> 7

MCRollbackKey ==
    "rb" :> "rollback-rb" @@ "a" :> "rollback-a" @@ "b" :> "rollback-b" @@
    "rollback-a" :> "rollback-rollback-a" @@ "db.main" :> "rollback-db.main" @@
    "db" :> "rollback-db" @@ "n55" :> "rollback-n55" @@ "n56" :> "rollback-n56" @@
    "n64" :> "rollback-n64" @@ "n65" :> "rollback-n65" @@ "ops" :> "rollback-ops" @@
    "restart" :> "rollback-restart"

MCFirstSegment == [n \in DOMAIN MCNameLength |-> IF n = "db.main" THEN "db" ELSE n]

Retry == [attempts |-> 0, initial |-> Unset, maximum |-> Unset]

HTTPInput == [NoInput EXCEPT !.url = "https", !.idempotent = TRUE]
PluginInput == [NoInput EXCEPT !.plugin = "ops", !.action = "restart"]
WaitInput == [NoInput EXCEPT !.duration = Minute]
ApprovalInput == [NoInput EXCEPT !.prompt = 20, !.expiresAfter = Hour]

Undo == [type |-> "plugin", timeout |-> Unset, retry |-> Retry, with |-> NoInput,
         sections |-> "plugin" :> PluginInput]

StepOf(id, type, input) ==
    [id |-> id, name |-> 10, type |-> type, timeout |-> Unset, retry |-> Retry, when |-> Unset,
     with |-> NoInput, sections |-> type :> input, rollback |-> Unset]

When(step) ==
    [root |-> "steps", step |-> step, segments |-> 3, sensitive |-> FALSE,
     equals |-> "completed", in |-> {}]

Base ==
    [header |-> TRUE, id |-> "rb", version |-> 1, timeout |-> Unset,
     steps |-> <<[StepOf("a", "http", HTTPInput) EXCEPT !.rollback = Undo],
                 [StepOf("b", "wait", WaitInput) EXCEPT !.when = When("a")]>>]

\* The documents that differ from Base in one field of one step.
Edits ==
    {[Base EXCEPT !.steps[1].timeout = t] :
        t \in {9, Second, 19, Hour, Hour + 1, Malformed}} \cup
    {[Base EXCEPT !.steps[1].retry.attempts = n] : n \in {1, 10, 11}} \cup
    {[Base EXCEPT !.steps[1].retry.initial = i, !.steps[1].retry.maximum = m] :
        i \in {0, 1, 2 * Second, 5 * Minute, 5 * Minute + 1},
        m \in {Unset, 3, 2 * Second, 30 * Minute, 30 * Minute + 1}} \cup
    {[Base EXCEPT !.steps[1].rollback.timeout = t] : t \in {9, Hour}} \cup
    {[Base EXCEPT !.steps[1].rollback.type = "wait"]} \cup
    {[Base EXCEPT !.steps[1].with = WaitInput]} \cup
    {[Base EXCEPT !.steps[1].sections = "http" :> HTTPInput @@ "wait" :> WaitInput]} \cup
    {[Base EXCEPT !.steps[1].type = t] : t \in {"shell", "plugin"}} \cup
    {[Base EXCEPT !.steps[1].id = n] : n \in {"n55", "n56", "b"}} \cup
    {[Base EXCEPT !.steps[2].id = n, !.steps[2].when = Unset] :
        n \in {"n64", "n65", "rollback-a"}} \cup
    {[Base EXCEPT !.steps[2].id = "db.main", !.steps[2].when = When(n)] :
        n \in {"a", "db.main", "n64"}} \cup
    {[Base EXCEPT !.steps[2].when.in = {"failed"}]} \cup
    {[Base EXCEPT !.steps[2] = StepOf("b", "approval", [ApprovalInput EXCEPT !.expiresIn = t])] :
        t \in {Unset, Minute - 1, 30 * Day}} \cup
    {[Base EXCEPT !.id = "n65"], [Base EXCEPT !.timeout = Day + 1], [Base EXCEPT !.steps = <<>>],
     [Base EXCEPT !.version = 2]}

\* Policies over the labels: 1, 2 and 3 are leaves, the others combine them.
Leaf(field, equals, in) ==
    [all |-> <<>>, any |-> <<>>, not |-> NoText, field |-> field, equals |-> equals, in |-> in]
Loop(all, any, not) ==
    [Leaf(NoText, NoText, {}) EXCEPT !.all = all, !.any = any, !.not = not]

MCExpression ==
    <<Leaf(<<"labels", "service">>, "db", {}),
      Leaf(<<"environment">>, NoText, {"prod", "stage"}),
      Leaf(<<"severity">>, "critical", {}),
      Loop(<<>>, <<>>, 2),
      Loop(<<1, 4>>, <<>>, NoText),
      Loop(<<>>, <<3, 5>>, NoText),
      Leaf(<<"labels", "token">>, "db", {}),
      Loop(<<1, 7>>, <<>>, NoText),
      Loop(<<1>>, <<2>>, NoText),
      Leaf(<<"severity">>, NoText, {})>>

MCSensitiveField == {<<"labels", "token">>}

MCEvent ==
    {[attributes |-> <<"severity">> :> s,
      labels |-> <<"labels", "service">> :> v @@ <<"labels", "environment">> :> e] :
        s \in {"critical", "info"}, v \in {"db", "long"}, e \in {"prod", "stage", "dev"}}

MCCut == [v \in {"critical", "info", "db", "prod", "stage", "dev", NoText, "long"} |->
             IF v = "long" THEN "prefix" ELSE v]

PolicyOf(version, match) ==
    [header |-> TRUE, id |-> "page", version |-> version, match |-> match, actions |-> "notify"]

\* Manifests of a plugin: the second changes the permissions under the same version.
ActionOf(name, permissions) ==
    [name |-> name, description |-> 5, permissions |-> permissions, handler |-> TRUE]
ManifestOf(version, actions) ==
    [id |-> "ops", version |-> version, actions |-> actions, bytes |-> 10 * Len(actions)]

MCManifests ==
    <<ManifestOf(1, <<ActionOf("restart", <<"ops">>)>>),
      ManifestOf(1, <<ActionOf("restart", <<"db", "ops">>), ActionOf("a", <<"b">>)>>),
      ManifestOf(2, <<ActionOf("restart", <<>>)>>)>>

NoManifests == <<>>

MCOffers ==
    {[runbooks |-> {e, [Base EXCEPT !.version = 2]}, policies |-> {}, manifests |-> NoManifests] :
        e \in Edits} \cup
    {[runbooks |-> {Base}, policies |-> {PolicyOf(1, n), PolicyOf(2, 6)},
      manifests |-> NoManifests] : n \in DOMAIN MCExpression} \cup
    {[runbooks |-> {}, policies |-> {PolicyOf(1, 6)}, manifests |-> MCManifests],
     [runbooks |-> {}, policies |-> {}, manifests |-> <<ManifestOf(1, <<>>)>>],
     [runbooks |-> {}, policies |-> {},
      manifests |-> <<ManifestOf(1, [i \in 1 .. 3 |-> ActionOf(<<"a", "b", "db">>[i], <<>>)])>>]}
=============================================================================
