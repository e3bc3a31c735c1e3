--------------------------- MODULE RunbookDocument ---------------------------
(***************************************************************************)
(* internal/runbooks: which documents are accepted, and what an execution  *)
(* of an accepted document puts into execution_steps.                      *)
(*                                                                         *)
(* A document is what the YAML decoder made of the text.  Durations are    *)
(* tenths of a second, the smallest bound of the code; Unset is an empty   *)
(* text or an absent part, Malformed a text that is no duration.  Texts of *)
(* which only the length matters are their number of bytes.                *)
(***************************************************************************)
EXTENDS Integers, Sequences, FiniteSets

CONSTANTS
    Unset, Malformed,
    NameLength,       \* the bytes of every name that has the characters of an identifier
    RollbackKey,      \* name |-> "rollback-" followed by the name
    FirstSegment      \* name |-> the name up to its first dot

ASSUME RollbackKeyAssumption ==
    \A x, y \in DOMAIN NameLength : RollbackKey[x] = RollbackKey[y] => x = y

Second == 10
Minute == 60 * Second
Hour   == 60 * Minute
Day    == 24 * Hour

StepType == {"http", "wait", "approval", "plugin"}

NoInput ==
    [method |-> Unset, url |-> Unset, headers |-> {}, body |-> 0, idempotencyHeader |-> Unset,
     idempotent |-> FALSE, duration |-> Unset, prompt |-> 0, expiresIn |-> Unset,
     expiresAfter |-> Unset, plugin |-> Unset, action |-> Unset, input |-> 0]

MaxBody == 256 * 1024

\* What the decoder returns: a record of type Document, whose steps are a list.
IsRunbook(d) ==
    /\ d = [header |-> d.header, id |-> d.id, version |-> d.version, timeout |-> d.timeout,
            steps |-> d.steps]
    /\ Len(d.steps) \in Nat /\ DOMAIN d.steps = 1 .. Len(d.steps)

-----------------------------------------------------------------------------
\* identifierPattern on the name followed by extra more bytes.
IsIdentifier(name, extra) == name \in DOMAIN NameLength /\ NameLength[name] + extra <= 64

boundedDuration(value, minimum, maximum) == value \in minimum .. maximum

inputIsZero(input) == input = NoInput

normalizeInput(input) ==
    [input EXCEPT !.idempotencyHeader =
                      IF input.idempotent /\ @ = Unset THEN "Idempotency-Key" ELSE @,
                  !.expiresIn = IF @ = Unset THEN input.expiresAfter ELSE @]

\* One input: the section named after the type, alone, or the generic one.
HasOneInput(step) ==
    LET present == DOMAIN step.sections
    IN present = {} \/ (present = {step.type} /\ inputIsZero(step.with))

InputOf(step) ==
    normalizeInput(IF step.type \in DOMAIN step.sections THEN step.sections[step.type]
                   ELSE step.with)

normalizeAction(action) ==
    [type |-> action.type, timeout |-> action.timeout, retry |-> action.retry,
     with |-> InputOf(action)]

normalize(step) ==
    [id |-> step.id, name |-> step.name, type |-> step.type, timeout |-> step.timeout,
     retry |-> step.retry, when |-> step.when, with |-> InputOf(step),
     rollback |-> IF step.rollback = Unset THEN Unset ELSE normalizeAction(step.rollback)]

-----------------------------------------------------------------------------
validateHTTP(input) ==
    /\ input.method \in {Unset, "GET", "POST", "PUT", "PATCH", "DELETE"}
    /\ input.url \in {"http", "https"}
    /\ input.body <= MaxBody
    /\ input.headers \subseteq {"plain"}

\* The backoffs written, or their defaults.
InitialBackoff(retry) == IF retry.initial = Unset THEN Second ELSE retry.initial
MaxBackoff(retry) == IF retry.maximum = Unset THEN 30 * Second ELSE retry.maximum

\* RetryIsValid without the comparison of the two backoffs.
RetryIsValidApart(retry) ==
    /\ retry.attempts \in 0 .. 10
    /\ boundedDuration(InitialBackoff(retry), Second \div 10, 5 * Minute)
    /\ boundedDuration(MaxBackoff(retry), Second \div 10, 30 * Minute)

\* ParsedRetry returns no error.
RetryIsValid(retry) ==
    /\ retry.attempts \in 0 .. 10
    /\ boundedDuration(InitialBackoff(retry), Second \div 10, 5 * Minute)
    /\ boundedDuration(MaxBackoff(retry), InitialBackoff(retry), 30 * Minute)

AtLeastOne(n) == IF n > 1 THEN n ELSE 1

ParsedRetry(retry) ==
    [maxAttempts |-> IF retry.attempts = 0 THEN 3 ELSE retry.attempts,
     initial |-> AtLeastOne(InitialBackoff(retry) \div Second),
     maximum |-> AtLeastOne(MaxBackoff(retry) \div Second)]

TimeoutSeconds(step) ==
    IF step.type \in {"wait", "approval"} \/ step.timeout = Unset THEN 30
    ELSE step.timeout \div Second

\* What validateStep asks of a step, or of its rollback action as a step.
ValidAction(step, with) ==
    /\ CASE step.type = "http" -> validateHTTP(with)
         [] step.type = "wait" -> boundedDuration(with.duration, Second, 7 * Day)
         [] step.type = "approval" ->
              /\ with.prompt \in 1 .. 2000
              /\ with.expiresIn = Unset \/ boundedDuration(with.expiresIn, Minute, 30 * Day)
         [] step.type = "plugin" ->
              /\ IsIdentifier(with.plugin, 0) /\ IsIdentifier(with.action, 0)
              /\ with.input <= MaxBody
         [] OTHER -> FALSE
    /\ RetryIsValid(step.retry)
    /\ step.timeout = Unset \/ boundedDuration(step.timeout, Second, Hour)

\* The rollback action is checked under the name of the step followed by "-rollback".
validateStep(step) ==
    /\ IsIdentifier(step.id, 0)
    /\ step.name <= 200
    /\ ValidAction(step, step.with)
    /\ step.rollback # Unset =>
         /\ step.rollback.type \in {"http", "plugin"}
         /\ IsIdentifier(step.id, 9)
         /\ ValidAction(step.rollback, step.rollback.with)

\* A field of a condition: its first segment, for "steps" the name that follows, the number
\* of segments, and whether it has one of the sensitive words in it.
validateCondition(when, ids) ==
    /\ (when.equals = Unset) # (when.in = {})
    /\ ~when.sensitive
    /\ \/ when.root \in {"execution.dry_run", "incident"}
       \/ when.root = "steps" /\ when.segments >= 3 /\ FirstSegment[when.step] \in ids

Validate(d) ==
    LET ids == {d.steps[i].id : i \in DOMAIN d.steps}
    IN /\ d.header                   \* apiVersion and kind
       /\ IsIdentifier(d.id, 0)
       /\ d.version >= 1
       /\ Len(d.steps) \in 1 .. 100
       /\ d.timeout = Unset \/ boundedDuration(d.timeout, Second, Day)
       /\ \A i \in DOMAIN d.steps : validateStep(d.steps[i])
       /\ \A i, j \in DOMAIN d.steps : d.steps[i].id = d.steps[j].id => i = j
       /\ \A i \in DOMAIN d.steps :
            d.steps[i].when # Unset => validateCondition(d.steps[i].when, ids)

Normalized(d) == [d EXCEPT !.steps = [i \in DOMAIN @ |-> normalize(@[i])]]

Inputs(d) ==
    {d.steps[i] : i \in DOMAIN d.steps} \cup
    {d.steps[i].rollback : i \in {j \in DOMAIN d.steps : d.steps[j].rollback # Unset}}

\* Parse accepts the document.
Parses(d) == (\A s \in Inputs(d) : HasOneInput(s)) /\ Validate(Normalized(d))

-----------------------------------------------------------------------------
Row(key, position, step, with) ==
    [key |-> key, position |-> position, type |-> step.type,
     timeout |-> TimeoutSeconds(step), retry |-> ParsedRetry(step.retry),
     idempotencyHeader |-> with.idempotencyHeader # Unset, expires |-> with.expiresIn # Unset]

\* The rows StartExecution inserts.
ForwardRows(d) ==
    LET steps == Normalized(d).steps
    IN {Row(steps[i].id, i - 1, steps[i], steps[i].with) : i \in DOMAIN steps}

\* The rows StartExecutionRollback inserts when the steps of the set done have completed.
RollbackRows(d, done) ==
    LET steps == Normalized(d).steps
        Sources == {i \in done : steps[i].rollback # Unset}
    IN {Row(RollbackKey[steps[i].id], Cardinality({j \in Sources : j > i}),
            steps[i].rollback, steps[i].rollback.with) : i \in Sources}

\* retryBackoff in whole seconds, for the byte of the hash that gives the jitter:
\* 0.75 + byte / 255 * 0.5 is (765 + 2 * byte) / 1020.
retryBackoff(retry, attempt, byte) ==
    LET raised == (retry.initial * 2 ^ AtLeastOne(attempt)) \div 2
        base == IF raised > retry.maximum THEN retry.maximum ELSE raised
    IN (base * (765 + 2 * byte)) \div 1020
=============================================================================
