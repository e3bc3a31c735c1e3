--------------------------- MODULE PolicyDocument ---------------------------
(***************************************************************************)
(* internal/policies: which policies are accepted, and how one is          *)
(* evaluated on an event and explained.                                    *)
(*                                                                         *)
(* Expressions are the nodes of the trees the YAML decoder built: a node   *)
(* is a number greater than those of its children.  A field is the         *)
(* sequence of its segments, so "labels.service" is <<"labels",            *)
(* "service">>.                                                            *)
(***************************************************************************)
EXTENDS Naturals, Sequences, FiniteSetsExt

CONSTANTS
    Expression,       \* node |-> [all, any : Seq(node), not : node, field, equals, in]
    SensitiveField,   \* the fields that have a sensitive word in them
    NoText,           \* the empty text, and the absent node or field
    Redacted,         \* "[REDACTED]"
    Cut               \* value |-> its first 256 bytes

Node == DOMAIN Expression

ASSUME ExpressionsAreTrees ==
    /\ Len(Expression) \in Nat /\ Node = 1 .. Len(Expression)
    /\ \A n \in Node :
         /\ Expression[n].all \in Seq(1 .. n - 1) /\ Expression[n].any \in Seq(1 .. n - 1)
         /\ Expression[n].not # NoText => Expression[n].not \in 1 .. n - 1

\* Which of all, any, not and field a node has.
Forms(e) ==
    (IF e.all # <<>> THEN {"all"} ELSE {}) \cup (IF e.any # <<>> THEN {"any"} ELSE {}) \cup
    (IF e.not # NoText THEN {"not"} ELSE {}) \cup (IF e.field # NoText THEN {"field"} ELSE {})

\* Children without the negated one.
ChildrenOfLoops(e) == Range(e.all) \cup Range(e.any)

Children(e) ==
    Range(e.all) \cup Range(e.any) \cup (IF e.not # NoText THEN {e.not} ELSE {})

isSensitiveField(field) == field \in SensitiveField

\* One call of validateExpression, given what it returns for the children.  A negation
\* returns before the checks on equals and in.
NodeIsValid(n, valid) ==
    LET e == Expression[n]
    IN /\ \E form \in {"all", "any", "not", "field"} : Forms(e) = {form}
       /\ \A c \in Children(e) : valid[c]
       /\ e.field # NoText => ~isSensitiveField(e.field) /\ (e.equals # NoText \/ e.in # {})
       /\ e.not = NoText => e.equals = NoText \/ e.in = {}

validateExpression[n \in Node] == NodeIsValid(n, validateExpression)

\* Policy documents: [header, id, version, match, actions].
ValidPolicy(d) ==
    d.header /\ d.id # NoText /\ d.version >= 1 /\ validateExpression[d.match]

-----------------------------------------------------------------------------
\* The inputs an event gives to an expression.
eventInputs(e) ==
    LET Of(field) ==
            CASE field \in DOMAIN e.attributes -> e.attributes[field]
              [] field = <<"environment">> /\ <<"labels", "environment">> \in DOMAIN e.labels ->
                   e.labels[<<"labels", "environment">>]
              [] field \in DOMAIN e.labels -> e.labels[field]
              [] OTHER -> NoText
    IN [field \in {Expression[n].field : n \in Node} |-> Of(field)]

\* The children a loop evaluates until one of them has the result that ends it.
Evaluated(children, result, ends) ==
    LET Ending == {i \in DOMAIN children : result[children[i]].ok = ends}
    IN IF Ending = {} THEN children ELSE SubSeq(children, 1, Min(Ending))

\* The explanations of some nodes, one after the other.
Joined(explanations) ==
    LET lines[i \in 0 .. Len(explanations)] ==
            IF i = 0 THEN <<>> ELSE lines[i - 1] \o explanations[i]
    IN lines[Len(explanations)]

\* The explanation of a node: those of the children evaluated, then its own line.
Explained(children, result, line) ==
    Append(Joined([i \in DOMAIN children |-> result[children[i]].explanation]), line)

\* What a leaf says about the value of its field.
Matches(e, value) == IF e.equals # NoText THEN value = e.equals ELSE value \in e.in

\* One call of eval, given what it returns for the children.
EvalNode(n, result, inputs) ==
    LET e == Expression[n]
        all == Evaluated(e.all, result, FALSE)
        any == Evaluated(e.any, result, TRUE)
        Line(ok) == [node |-> n, ok |-> ok]
        Loop(children, ok) == [ok |-> ok, explanation |-> Explained(children, result, Line(ok))]
        ok == Matches(e, inputs[e.field])
    IN CASE e.all # <<>> -> Loop(all, result[all[Len(all)]].ok)
         [] e.all = <<>> /\ e.any # <<>> -> Loop(any, result[any[Len(any)]].ok)
         [] e.all = <<>> /\ e.any = <<>> /\ e.not # NoText ->
              Loop(<<e.not>>, ~result[e.not].ok)
         [] OTHER -> [ok |-> ok, explanation |-> <<Line(ok)>>]

eval(root, inputs) ==
    LET result[n \in 1 .. root] == EvalNode(n, result, inputs) IN result[root]

\* collectFields: the fields of the tree, evaluated or not.
NodeFields(n, fields) ==
    (IF Expression[n].field # NoText THEN {Expression[n].field} ELSE {}) \cup
    UNION {fields[c] : c \in Children(Expression[n])}

collectFields[n \in Node] == NodeFields(n, collectFields)

sanitizeDecisionInput(field, value) ==
    IF isSensitiveField(field) THEN Redacted ELSE Cut[value]

Evaluate(d, e) ==
    LET inputs == eventInputs(e)
        outcome == eval(d.match, inputs)
    IN [matched |-> outcome.ok,
        explanation |-> outcome.explanation,
        inputs |-> [f \in collectFields[d.match] |-> sanitizeDecisionInput(f, inputs[f])],
        actions |-> IF outcome.ok THEN d.actions ELSE NoText]
=============================================================================
