--------------------------- MODULE DocumentProofs ---------------------------
(***************************************************************************)
(* What acceptance of a document means, for every document: a manifest     *)
(* whose actions can be called, a runbook that can be run and rolled back, *)
(* a policy whose decisions are explained.  With DefinitionsProofs, where  *)
(* everything in the tables is shown to be accepted, that is true of what  *)
(* the tables hold in every reachable state.                               *)
(***************************************************************************)
EXTENDS DefinitionsProofs

\* Zenon is tried first, and a step it is not made for cites the SMT solver.  Both get more time
\* than by default: preparing the next step counts against it.
USE ZenonT(30), SMTT(30)

(***************************************************************************)
(* Plugin calls.                                                           *)
(***************************************************************************)

\* The deadline the client sends is one the server accepts.
LEMMA DeadlineIsAccepted == 3600 \in 1 .. MaxDeadline
  BY SMTT(30) DEF MaxDeadline

\* handleAction and Call, for an input that fits into a request: the call succeeds exactly
\* when the handler did and the response with its output is not too long, and the server
\* takes it for a success when the output alone is not too long.
LEMMA BothEnds ==
    ASSUME NEW m, NEW r, NEW input \in Int, NEW ok \in BOOLEAN, NEW bytes \in Int,
           r.input = input, r.deadline = 3600, ManifestHasAction(m, r.action),
           1 <= input, input + RequestEnvelope <= MaxRequest
    PROVE  /\ CallSucceeds(r, handleAction(m, r, [ok |-> ok, bytes |-> bytes])) <=>
                  (ok /\ bytes + ResponseEnvelope <= MaxResponse)
           /\ handleAction(m, r, [ok |-> ok, bytes |-> bytes]).status = "succeeded" <=>
                  (ok /\ bytes <= MaxResponse)
  <1> DEFINE handled == [ok |-> ok, bytes |-> bytes]
             Answer(status, output, error) ==
                 [http |-> 200, status |-> status, key |-> r.key, output |-> output,
                  error |-> error]
  <1>1. /\ MaxDescription \in Nat /\ MaxRequest \in Nat /\ MaxResponse \in Nat
        /\ RequestEnvelope \in Nat /\ ResponseEnvelope \in Nat
    BY ProtocolAssumption, SMTT(30)
  <1>2. validateRequest(r) /\ ~(r.input + RequestEnvelope > MaxRequest)
    BY <1>1, DeadlineIsAccepted, SMTT(30) DEF validateRequest
  <1>3. handleAction(m, r, handled) =
            IF ~handled.ok
            THEN Answer("failed", 0, IF handled.bytes > MaxDescription THEN MaxDescription
                                     ELSE handled.bytes)
            ELSE IF handled.bytes > MaxResponse THEN Answer("failed", 0, 0)
            ELSE Answer("succeeded", handled.bytes, 0)
    BY <1>2, SMTT(30) DEF handleAction
  <1>4. CASE ~ok
    <2>1. handleAction(m, r, handled).status = "failed"
      BY <1>3, <1>4, SMTT(30)
    <2>2. ~CallSucceeds(r, handleAction(m, r, handled))
      BY <2>1, SMTT(30) DEF CallSucceeds
    <2> QED BY <2>1, <2>2, <1>4, SMTT(30)
  <1>5. CASE ok /\ bytes > MaxResponse
    <2>1. handleAction(m, r, handled).status = "failed"
      BY <1>3, <1>5, SMTT(30)
    <2>2. ~(bytes + ResponseEnvelope <= MaxResponse)
      BY <1>1, <1>5, SMTT(30)
    <2>3. ~CallSucceeds(r, handleAction(m, r, handled))
      BY <2>1, SMTT(30) DEF CallSucceeds
    <2> QED BY <1>1, <1>5, <2>1, <2>2, <2>3, SMTT(30)
  <1>6. CASE ok /\ ~(bytes > MaxResponse)
    <2>1. handleAction(m, r, handled) = Answer("succeeded", bytes, 0)
      BY <1>3, <1>6, SMTT(30)
    <2> DEFINE response == handleAction(m, r, handled)
    <2>2. /\ response.output = bytes /\ response.error = 0 /\ response.http = 200
          /\ response.key = r.key /\ response.status = "succeeded"
      BY <2>1, SMTT(30)
    <2>3. CallSucceeds(r, response) <=>
              /\ response.output + response.error + ResponseEnvelope <= MaxResponse
              /\ response.output <= MaxResponse /\ response.error <= MaxDescription
      BY <2>2, SMTT(30) DEF CallSucceeds
    <2> HIDE DEF response
    <2>4. CallSucceeds(r, response) <=> bytes + ResponseEnvelope <= MaxResponse
      BY <1>1, <2>2, <2>3, SMTT(30)
    <2> QED BY <1>1, <1>6, <2>2, <2>4, SMTT(30) DEF response
  <1> QED BY <1>4, <1>5, <1>6, SMTT(30)

\* Both ends know what becomes of a call of a declared action.
LEMMA DeclaredActionsAgree ==
    ASSUME NEW m, NEW i \in DOMAIN m.actions
    PROVE  CallOutcomes(m, m.actions[i].name)
  <1> DEFINE action == m.actions[i].name
             request(input) ==
                 [action |-> action, key |-> "key", input |-> input, deadline |-> 3600]
  <1> SUFFICES ASSUME NEW input \in {1, MaxRequest - RequestEnvelope}, NEW ok \in BOOLEAN,
                      NEW bytes \in {1, MaxResponse - ResponseEnvelope, MaxResponse,
                                     MaxResponse + 1}
               PROVE  CallOutcome(m, request(input), ok, bytes)
    BY DEF CallOutcomes
  <1> DEFINE r == request(input)
             response == handleAction(m, r, [ok |-> ok, bytes |-> bytes])
             fits == bytes + ResponseEnvelope <= MaxResponse
  <1>1. /\ input \in Int /\ 1 <= input /\ input + RequestEnvelope <= MaxRequest
        /\ bytes \in Int
    BY ProtocolAssumption, SMTT(30)
  <1>2. ManifestHasAction(m, action)
    BY DEF ManifestHasAction
  <1>3. r.input = input /\ r.deadline = 3600 /\ r.action = action
    OBVIOUS
  <1>4. fits => bytes <= MaxResponse
    BY <1>1, ProtocolAssumption, SMTT(30)
  <1> HIDE DEF r, action
  <1>5. /\ CallSucceeds(r, response) <=> (ok /\ fits)
        /\ response.status = "succeeded" <=> (ok /\ bytes <= MaxResponse)
    BY <1>1, <1>2, <1>3, BothEnds, SMTT(30)
  <1>6. CallOutcome(m, r, ok, bytes)
    <2> HIDE DEF response, fits
    <2>1. /\ CallSucceeds(r, response) <=> ok /\ fits
          /\ (response.status = "succeeded" /\ ~CallSucceeds(r, response)) <=>
                 (ok /\ ~fits /\ bytes <= MaxResponse)
      BY <1>4, <1>5
    <2> QED BY <2>1 DEF CallOutcome, response, fits
  <1> QED BY <1>6 DEF r

-----------------------------------------------------------------------------
(***************************************************************************)
(* Runbooks: retries and timeouts.                                         *)
(***************************************************************************)

\* The powers of two a retry can reach.
LEMMA PowerOfTwo ==
    ASSUME NEW n \in 1 .. 10
    PROVE  2 ^ AtLeastOne(n) \in Nat /\ 2 ^ AtLeastOne(n) >= 2
  <1>1. AtLeastOne(n) = n
    BY SMTT(30) DEF AtLeastOne
  <1> SUFFICES 2 ^ n \in Nat /\ 2 ^ n >= 2
    BY <1>1
  <1>c1. CASE n = 1 BY <1>c1, SMTT(30)
  <1>c2. CASE n = 2 BY <1>c2, SMTT(30)
  <1>c3. CASE n = 3 BY <1>c3, SMTT(30)
  <1>c4. CASE n = 4 BY <1>c4, SMTT(30)
  <1>c5. CASE n = 5 BY <1>c5, SMTT(30)
  <1>c6. CASE n = 6 BY <1>c6, SMTT(30)
  <1>c7. CASE n = 7 BY <1>c7, SMTT(30)
  <1>c8. CASE n = 8 BY <1>c8, SMTT(30)
  <1>c9. CASE n = 9 BY <1>c9, SMTT(30)
  <1>c10. CASE n = 10 BY <1>c10, SMTT(30)
  <1> QED BY <1>c1, <1>c2, <1>c3, <1>c4, <1>c5, <1>c6, <1>c7, <1>c8, <1>c9, <1>c10, SMTT(30)

\* Doubling does not go below the backoff it starts from.
LEMMA RaisedBackoff ==
    ASSUME NEW initial \in Nat, NEW p \in Nat, p >= 2
    PROVE  (initial * p) \div 2 \in Nat /\ (initial * p) \div 2 >= initial
  <1>1. initial * p \in Nat /\ initial * p >= 2 * initial
    <2>1. PICK k \in Nat : p = 2 + k
      <3>1. p - 2 \in Nat /\ p = 2 + (p - 2)
        BY SMTT(30)
      <3> QED BY <3>1
    <2>2. initial * p = 2 * initial + initial * k /\ initial * k \in Nat
      BY <2>1, SMTT(30)
    <2> QED BY <2>2, SMTT(30)
  <1> DEFINE q == initial * p
  <1> HIDE DEF q
  <1>2. q \in Nat /\ q >= 2 * initial
    BY <1>1 DEF q
  <1>3. q \div 2 \in Nat /\ q \div 2 >= initial
    BY <1>2, SMTT(30)
  <1> QED BY <1>3 DEF q

\* The jitter takes a quarter away at most, or adds one.
LEMMA JitterIsBounded ==
    ASSUME NEW base \in Nat, NEW byte \in 0 .. 255
    PROVE  LET delay == (base * (765 + 2 * byte)) \div 1020
           IN /\ delay \in Nat /\ 4 * delay <= 5 * base
              /\ base >= 2 => delay >= 1
  <1>1. base * (765 + 2 * byte) \in Nat
        /\ 765 * base <= base * (765 + 2 * byte)
        /\ base * (765 + 2 * byte) <= 1275 * base
    <2>1. base * (765 + 2 * byte) = 765 * base + 2 * (base * byte)
      BY SMTT(30)
    <2>2. base * byte \in Nat /\ base * byte <= 255 * base
      <3>1. 255 - byte \in Nat /\ base * (255 - byte) \in Nat
        BY SMTT(30)
      <3>2. base * (255 - byte) = 255 * base - base * byte
        BY SMTT(30)
      <3>3. base * byte \in Nat
        BY SMTT(30)
      <3> QED BY <3>1, <3>2, <3>3, SMTT(30)
    <2> QED BY <2>1, <2>2, SMTT(30)
  <1> DEFINE q == base * (765 + 2 * byte)
  <1> HIDE DEF q
  <1>2. q \in Nat /\ 765 * base <= q /\ q <= 1275 * base
    BY <1>1 DEF q
  <1>3. q \div 1020 \in Nat /\ 4 * (q \div 1020) <= 5 * base /\ (base >= 2 => q \div 1020 >= 1)
    BY <1>2, SMTT(30)
  <1> QED BY <1>3 DEF q

\* retryBackoff, for every retry policy whose backoffs are in order.
LEMMA BackoffOfOrderedRetry ==
    ASSUME NEW retry, retry.maxAttempts \in 1 .. 10, retry.initial \in Nat,
           retry.maximum \in Nat, retry.initial <= retry.maximum
    PROVE  BackoffIsSane(retry)
  <1> SUFFICES ASSUME NEW attempt \in 1 .. retry.maxAttempts, NEW byte \in {0, 127, 128, 255}
               PROVE  LET delay == retryBackoff(retry, attempt, byte)
                      IN /\ 4 * delay <= 5 * retry.maximum
                         /\ retry.initial >= 2 => delay >= 1
    BY DEF BackoffIsSane
  <1> DEFINE raised == (retry.initial * 2 ^ AtLeastOne(attempt)) \div 2
             base == IF raised > retry.maximum THEN retry.maximum ELSE raised
             delay == (base * (765 + 2 * byte)) \div 1020
  <1>1. raised \in Nat /\ raised >= retry.initial
    <2>1. attempt \in 1 .. 10
      BY SMTT(30)
    <2> QED BY <2>1, PowerOfTwo, RaisedBackoff, SMTT(30)
  <1>2. base \in Nat /\ base <= retry.maximum /\ base >= retry.initial
    <2> HIDE DEF raised
    <2> QED BY <1>1, SMTT(30)
  <1>3. delay = retryBackoff(retry, attempt, byte)
    BY DEF retryBackoff
  <1>4. delay \in Nat /\ 4 * delay <= 5 * base /\ (base >= 2 => delay >= 1)
    <2>1. byte \in 0 .. 255
      BY SMTT(30)
    <2> HIDE DEF base
    <2> QED BY <1>2, <2>1, JitterIsBounded, SMTT(30)
  <1> HIDE DEF delay, base
  <1>5. 4 * delay <= 5 * retry.maximum /\ (retry.initial >= 2 => delay >= 1)
    BY <1>2, <1>4, SMTT(30)
  <1> QED BY <1>3, <1>5

\* A duration of at least a tenth of a second, in seconds and at least one.
LEMMA WholeSeconds ==
    ASSUME NEW x \in Int, NEW y \in Int, 1 <= x, x <= y, y <= 18000
    PROVE  /\ AtLeastOne(x \div 10) \in Nat /\ AtLeastOne(y \div 10) \in Nat
           /\ 1 <= AtLeastOne(x \div 10) /\ AtLeastOne(x \div 10) <= AtLeastOne(y \div 10)
           /\ AtLeastOne(y \div 10) <= 1800
  <1>1. x \div 10 \in Nat /\ y \div 10 \in Nat /\ x \div 10 <= y \div 10 /\ y \div 10 <= 1800
    BY SMTT(30)
  <1> QED BY <1>1, SMTT(30) DEF AtLeastOne

\* ParsedRetry of a retry policy that was accepted.
LEMMA RetryIsSane ==
    ASSUME NEW retry, RetryIsValid(retry)
    PROVE  LET parsed == ParsedRetry(retry)
           IN /\ parsed.maxAttempts \in 1 .. 10
              /\ parsed.initial \in Nat /\ parsed.maximum \in Nat
              /\ 1 <= parsed.initial /\ parsed.initial <= parsed.maximum
              /\ parsed.maximum <= 1800
              /\ BackoffIsSane(parsed)
  <1> DEFINE x == InitialBackoff(retry)
             y == MaxBackoff(retry)
             parsed == ParsedRetry(retry)
  <1>1. x \in Int /\ y \in Int /\ 1 <= x /\ x <= y /\ y <= 18000
    <2>1. x \in Second \div 10 .. 5 * Minute /\ y \in x .. 30 * Minute
      BY DEF RetryIsValid, boundedDuration
    <2> HIDE DEF x, y
    <2>2. Second \div 10 = 1 /\ 5 * Minute = 3000 /\ 30 * Minute = 18000
      BY SMTT(30) DEF Minute, Second
    <2> QED BY <2>1, <2>2, SMTT(30)
  <1>2. /\ parsed.initial = AtLeastOne(x \div 10) /\ parsed.maximum = AtLeastOne(y \div 10)
        /\ parsed.maxAttempts = IF retry.attempts = 0 THEN 3 ELSE retry.attempts
    BY DEF ParsedRetry, Second
  <1>3. parsed.maxAttempts \in 1 .. 10
    <2>1. retry.attempts \in 0 .. 10
      BY DEF RetryIsValid
    <2> HIDE DEF parsed
    <2> QED BY <1>2, <2>1, SMTT(30)
  <1> HIDE DEF x, y, parsed
  <1>4. /\ parsed.initial \in Nat /\ parsed.maximum \in Nat
        /\ 1 <= parsed.initial /\ parsed.initial <= parsed.maximum
        /\ parsed.maximum <= 1800
    BY <1>1, <1>2, WholeSeconds, SMTT(30)
  <1>5. BackoffIsSane(parsed)
    BY <1>3, <1>4, BackoffOfOrderedRetry
  <1> QED BY <1>3, <1>4, <1>5, SMTT(30) DEF parsed

\* The bounds of a timeout, in tenths of a second.
LEMMA DurationUnits == Second = 10 /\ Hour = 36000
  BY SMTT(30) DEF Second, Minute, Hour

LEMMA DurationsAreNumbers == Second \in Int /\ Hour \in Int
  BY DurationUnits, SMTT(30)

LEMMA IntervalBounds ==
    ASSUME NEW a \in Int, NEW b \in Int, NEW t \in a .. b
    PROVE  t \in Int /\ a <= t /\ t <= b
  BY SMTT(30)

\* A timeout that is written, in seconds.
LEMMA TimeoutBounds ==
    ASSUME NEW t \in Int, Second <= t, t <= Hour
    PROVE  1 <= t \div Second /\ t \div Second <= 3600
  BY DurationUnits, SMTT(30)

\* StepTimeout of a step that was accepted, in seconds.
LEMMA TimeoutIsSane ==
    ASSUME NEW step, step.timeout = Unset \/ boundedDuration(step.timeout, Second, Hour)
    PROVE  1 <= TimeoutSeconds(step) /\ TimeoutSeconds(step) <= 3600
  <1>1. TimeoutSeconds(step) = 30 \/
        (step.timeout # Unset /\ TimeoutSeconds(step) = step.timeout \div Second)
    BY DEF TimeoutSeconds
  <1>2. CASE TimeoutSeconds(step) = 30
    BY <1>2, SMTT(30)
  <1>3. CASE step.timeout # Unset /\ TimeoutSeconds(step) = step.timeout \div Second
    <2>1. step.timeout \in Second .. Hour
      BY <1>3 DEF boundedDuration
    <2>2. step.timeout \in Int /\ Second <= step.timeout /\ step.timeout <= Hour
      BY <2>1, DurationsAreNumbers, IntervalBounds
    <2> QED BY <1>3, <2>2, TimeoutBounds, SMTT(30)
  <1> QED BY <1>1, <1>2, <1>3

\* The row of a step, or of its rollback, that validateStep accepted.
LEMMA RowOfValidAction ==
    ASSUME NEW step, NEW with, ValidAction(step, with), NEW key, NEW position
    PROVE  LET row == Row(key, position, step, with)
           IN RowIsSane(row) /\ BackoffIsSane(row.retry) /\ row.key = key /\ row.type = step.type
  <1> DEFINE row == Row(key, position, step, with)
  <1>1. /\ row.key = key /\ row.type = step.type /\ row.timeout = TimeoutSeconds(step)
        /\ row.retry = ParsedRetry(step.retry)
    BY DEF Row
  <1>2. /\ RetryIsValid(step.retry)
        /\ step.timeout = Unset \/ boundedDuration(step.timeout, Second, Hour)
    BY DEF ValidAction
  <1> HIDE DEF row
  <1>3. 1 <= row.timeout /\ row.timeout <= 3600
    BY <1>1, <1>2, TimeoutIsSane, SMTT(30)
  <1>4. RowIsSane(row) /\ BackoffIsSane(row.retry)
    BY <1>1, <1>2, <1>3, RetryIsSane, SMTT(30) DEF RowIsSane
  <1> QED BY <1>1, <1>4 DEF row

-----------------------------------------------------------------------------
(***************************************************************************)
(* Decisions.  eval, validateExpression, collectFields and the meaning of  *)
(* an expression are recursive functions on its nodes.  A least node shows *)
(* that each of them satisfies its equation, since a node needs nothing    *)
(* but its children, and then that eval and the meaning agree.             *)
(***************************************************************************)

INSTANCE WellFoundedInduction

\* Every set of numbers that is not empty has a least element.
LEMMA LeastNumber ==
    ASSUME NEW T, T \subseteq Nat, T # {}
    PROVE  \E n \in T : \A m \in T : n <= m
  <1>1. PICK n \in T : \A m \in T : ~(<<m, n>> \in OpToRel(<, Nat))
    BY NatLessThanWellFounded, WFMin
  <1>2. \A m \in T : ~(m < n)
    BY <1>1 DEF OpToRel
  <1> QED BY <1>2, SMTT(30)

LEMMA LeastIsMin ==
    ASSUME NEW T, T \subseteq Nat, T # {}
    PROVE  Min(T) \in T /\ \A m \in T : Min(T) <= m
  BY LeastNumber DEF Min

\* The nodes of an expression.
LEMMA ChildrenAreSmaller ==
    ASSUME NEW n \in Node
    PROVE  /\ n \in Nat /\ 1 <= n
           /\ 1 .. n \subseteq Node
           /\ Expression[n].all \in Seq(Node) /\ Expression[n].any \in Seq(Node)
           /\ Children(Expression[n]) \subseteq 1 .. n - 1
  <1> DEFINE e == Expression[n]
  <1>1. /\ n \in Nat /\ 1 <= n /\ 1 .. n \subseteq Node
        /\ e.all \in Seq(1 .. n - 1) /\ e.any \in Seq(1 .. n - 1)
        /\ e.not # NoText => e.not \in 1 .. n - 1
    BY ExpressionsAreTrees, SMTT(30)
  <1> HIDE DEF e
  <1>2. Range(e.all) \subseteq 1 .. n - 1 /\ Range(e.any) \subseteq 1 .. n - 1
    BY <1>1, SMTT(30) DEF Range
  <1>3. Children(e) \subseteq 1 .. n - 1
    BY <1>1, <1>2 DEF Children
  <1>4. e.all \in Seq(Node) /\ e.any \in Seq(Node)
    <2>1. 1 .. n - 1 \subseteq Node
      BY <1>1, SMTT(30)
    <2> QED BY <1>1, <2>1, SMTT(30)
  <1> QED BY <1>1, <1>3, <1>4 DEF e

LEMMA ChildComesFirst ==
    ASSUME NEW root \in Node, NEW n \in 1 .. root, NEW c \in Children(Expression[n])
    PROVE  c \in 1 .. root /\ ~(n <= c)
  <1>1. root \in Nat /\ n \in Node /\ n \in Nat
    BY ChildrenAreSmaller
  <1>2. c \in 1 .. n - 1
    BY <1>1, ChildrenAreSmaller
  <1> QED BY <1>1, <1>2, SMTT(30)

\* The children a loop evaluates: the first ones, at least one.
LEMMA EvaluatedChildren ==
    ASSUME NEW children \in Seq(Node), children # <<>>, NEW result, NEW ends,
           NEW some, some = Evaluated(children, result, ends)
    PROVE  /\ some \in Seq(Node) /\ Len(some) \in Nat /\ 1 <= Len(some) /\ Len(some) <= Len(children)
           /\ \A i \in 1 .. Len(some) : some[i] = children[i]
           /\ \/ /\ some = children
                 /\ \A i \in DOMAIN children : result[children[i]].ok # ends
              \/ result[some[Len(some)]].ok = ends
  <1> DEFINE Ending == {i \in DOMAIN children : result[children[i]].ok = ends}
  <1>1. Len(children) \in Nat /\ 1 <= Len(children) /\ DOMAIN children = 1 .. Len(children)
    BY SMTT(30)
  <1>2. some = IF Ending = {} THEN children ELSE SubSeq(children, 1, Min(Ending))
    BY DEF Evaluated
  <1>3. Ending \subseteq 1 .. Len(children)
    BY <1>1
  <1>4. CASE Ending = {}
    BY <1>1, <1>2, <1>4, SMTT(30)
  <1>5. CASE Ending # {}
    <2> HIDE DEF Ending
    <2>1. Min(Ending) \in Ending
      <3>1. Ending \subseteq Nat
        BY <1>3, SMTT(30)
      <3> QED BY <3>1, <1>5, LeastIsMin
    <2> DEFINE m == Min(Ending)
    <2>2. m \in 1 .. Len(children)
      BY <1>3, <2>1
    <2>3. some = SubSeq(children, 1, m)
      BY <1>2, <1>5
    <2> HIDE DEF m
    <2>4. some \in Seq(Node) /\ Len(some) = m /\ \A i \in 1 .. m : some[i] = children[i]
      BY <1>1, <2>2, <2>3, SMTT(30)
    <2>5. result[some[Len(some)]].ok = ends
      BY <2>1, <2>2, <2>4, SMTT(30) DEF Ending, m
    <2> QED BY <1>1, <2>2, <2>4, <2>5, SMTT(30)
  <1> QED BY <1>4, <1>5

\* Two functions have the same results for some nodes.
SameResults(nodes, g, h) == \A c \in nodes : g[c] = h[c]

\* What the last of the evaluated children says.
LastResult(children, result) == result[children[Len(children)]].ok

\* A loop returns what one of its children said: one that ends it, unless none does.
OneChildDecides(children, result, ends) ==
    \E c \in Range(children) :
        /\ LastResult(Evaluated(children, result, ends), result) = result[c].ok
        /\ result[c].ok = ends \/ \A b \in Range(children) : result[b].ok # ends

LEMMA LoopEnds ==
    ASSUME NEW children \in Seq(Node), children # <<>>, NEW result, NEW ends
    PROVE  OneChildDecides(children, result, ends)
  <1> DEFINE some == Evaluated(children, result, ends)
             c == some[Len(some)]
  <1>1. /\ Len(some) \in DOMAIN children /\ c = children[Len(some)]
        /\ \/ \A i \in DOMAIN children : result[children[i]].ok # ends
           \/ result[c].ok = ends
    BY EvaluatedChildren, SMTT(30)
  <1> HIDE DEF some
  <1>2. LastResult(some, result) = result[c].ok
    BY DEF LastResult
  <1>3. c \in Range(children)
    BY <1>1 DEF Range
  <1>4. result[c].ok = ends \/ \A b \in Range(children) : result[b].ok # ends
    BY <1>1 DEF Range
  <1> HIDE DEF c
  <1> QED BY <1>2, <1>3, <1>4 DEF some, OneChildDecides

\* A loop depends on nothing but the results of its children: which of them it evaluates,
\* what the last of those says, and how they are explained.
LEMMA EvaluatedIsLocal ==
    ASSUME NEW children \in Seq(Node), NEW g, NEW h, NEW ends, SameResults(Range(children), g, h)
    PROVE  Evaluated(children, g, ends) = Evaluated(children, h, ends)
  <1>1. \A i \in DOMAIN children : g[children[i]] = h[children[i]]
    BY DEF Range, SameResults
  <1>2. {i \in DOMAIN children : g[children[i]].ok = ends} =
            {i \in DOMAIN children : h[children[i]].ok = ends}
    BY <1>1
  <1> QED BY <1>2 DEF Evaluated

LEMMA EvaluatedAreChildren ==
    ASSUME NEW children \in Seq(Node), children # <<>>, NEW g, NEW h, NEW ends, NEW result,
           SameResults(Range(children), g, h)
    PROVE  /\ SameResults(Range(Evaluated(children, result, ends)), g, h)
           /\ Len(Evaluated(children, result, ends)) \in DOMAIN Evaluated(children, result, ends)
  <1> DEFINE some == Evaluated(children, result, ends)
  <1>1. /\ DOMAIN some \subseteq DOMAIN children /\ \A i \in DOMAIN some : some[i] = children[i]
        /\ Len(some) \in DOMAIN some
    BY EvaluatedChildren, SMTT(30)
  <1> HIDE DEF some
  <1>2. SameResults(Range(some), g, h)
    BY <1>1 DEF SameResults, Range
  <1> QED BY <1>1, <1>2 DEF some

LEMMA LastIsLocal ==
    ASSUME NEW some, Len(some) \in DOMAIN some, NEW g, NEW h, SameResults(Range(some), g, h)
    PROVE  LastResult(some, g) = LastResult(some, h)
  BY DEF LastResult, SameResults, Range

LEMMA ExplanationIsLocal ==
    ASSUME NEW some, NEW g, NEW h, NEW line, SameResults(Range(some), g, h)
    PROVE  Explained(some, g, line) = Explained(some, h, line)
  <1>1. [i \in DOMAIN some |-> g[some[i]].explanation] =
            [i \in DOMAIN some |-> h[some[i]].explanation]
    BY DEF SameResults, Range
  <1> QED BY <1>1 DEF Explained

\* eval of a node depends on nothing but the results of its children and, where the node
\* has none, the value of its field.
LEMMA EvalNodeIsLocal ==
    ASSUME NEW n \in Node, NEW g, NEW h, NEW x, NEW y,
           SameResults(Children(Expression[n]), g, h),
           Forms(Expression[n]) \subseteq {"field"} => x[Expression[n].field] = y[Expression[n].field]
    PROVE  EvalNode(n, g, x) = EvalNode(n, h, y)
  <1> DEFINE e == Expression[n]
             Line(ok) == [node |-> n, ok |-> ok]
             Loop(children, r, ok) ==
                 [ok |-> ok, explanation |-> Explained(children, r, Line(ok))]
  <1>1. e.all \in Seq(Node) /\ e.any \in Seq(Node)
    BY ChildrenAreSmaller
  <1>2. /\ SameResults(Range(e.all), g, h) /\ SameResults(Range(e.any), g, h)
        /\ e.not # NoText => g[e.not] = h[e.not]
    BY DEF Children, SameResults
  <1>3. ASSUME e.all # <<>> PROVE EvalNode(n, g, x) = EvalNode(n, h, y)
    <2>1. e.all \in Seq(Node) /\ e.all # <<>> /\ SameResults(Range(e.all), g, h)
      BY <1>1, <1>2, <1>3
    <2> DEFINE all == Evaluated(e.all, g, FALSE)
               ok == LastResult(all, g)
    <2>2. all = Evaluated(e.all, h, FALSE)
      <3> HIDE DEF e
      <3> QED BY <2>1, EvaluatedIsLocal
    <2>3. SameResults(Range(all), g, h) /\ Len(all) \in DOMAIN all
      <3> HIDE DEF e
      <3> QED BY <2>1, EvaluatedAreChildren
    <2>4. EvalNode(n, g, x) = Loop(all, g, ok)
      BY <1>3 DEF EvalNode, LastResult
    <2>5. EvalNode(n, h, y) = Loop(all, h, LastResult(all, h))
      BY <1>3, <2>2 DEF EvalNode, LastResult
    <2> HIDE DEF all
    <2>6. ok = LastResult(all, h)
      BY <2>3, LastIsLocal
    <2>7. Explained(all, g, Line(ok)) = Explained(all, h, Line(ok))
      BY <2>3, ExplanationIsLocal
    <2> HIDE DEF ok
    <2> QED BY <2>4, <2>5, <2>6, <2>7
  <1>4. ASSUME e.all = <<>>, e.any # <<>> PROVE EvalNode(n, g, x) = EvalNode(n, h, y)
    <2>1. e.any \in Seq(Node) /\ e.any # <<>> /\ SameResults(Range(e.any), g, h)
      BY <1>1, <1>2, <1>4
    <2> DEFINE any == Evaluated(e.any, g, TRUE)
               ok == LastResult(any, g)
    <2>2. any = Evaluated(e.any, h, TRUE)
      <3> HIDE DEF e
      <3> QED BY <2>1, EvaluatedIsLocal
    <2>3. SameResults(Range(any), g, h) /\ Len(any) \in DOMAIN any
      <3> HIDE DEF e
      <3> QED BY <2>1, EvaluatedAreChildren
    <2>4. EvalNode(n, g, x) = Loop(any, g, ok)
      BY <1>4 DEF EvalNode, LastResult
    <2>5. EvalNode(n, h, y) = Loop(any, h, LastResult(any, h))
      BY <1>4, <2>2 DEF EvalNode, LastResult
    <2> HIDE DEF any
    <2>6. ok = LastResult(any, h)
      BY <2>3, LastIsLocal
    <2>7. Explained(any, g, Line(ok)) = Explained(any, h, Line(ok))
      BY <2>3, ExplanationIsLocal
    <2> HIDE DEF ok
    <2> QED BY <2>4, <2>5, <2>6, <2>7
  <1>5. ASSUME e.all = <<>>, e.any = <<>>, e.not # NoText
        PROVE  EvalNode(n, g, x) = EvalNode(n, h, y)
    <2>1. g[e.not] = h[e.not]
      BY <1>2, <1>5
    <2> DEFINE ok == ~g[e.not].ok
    <2>2. EvalNode(n, g, x) = Loop(<<e.not>>, g, ok)
      BY <1>5 DEF EvalNode
    <2>3. EvalNode(n, h, y) = Loop(<<e.not>>, h, ok)
      BY <1>5, <2>1 DEF EvalNode
    <2>4. [i \in DOMAIN <<e.not>> |-> g[<<e.not>>[i]].explanation] =
              [i \in DOMAIN <<e.not>> |-> h[<<e.not>>[i]].explanation]
      BY <2>1, SMTT(30)
    <2>5. \A line : Explained(<<e.not>>, g, line) = Explained(<<e.not>>, h, line)
      BY <2>4 DEF Explained
    <2> HIDE DEF ok
    <2> QED BY <2>2, <2>3, <2>5
  <1>6. ASSUME e.all = <<>>, e.any = <<>>, e.not = NoText
        PROVE  EvalNode(n, g, x) = EvalNode(n, h, y)
    <2>1. x[e.field] = y[e.field]
      BY <1>6 DEF Forms
    <2> DEFINE ok == Matches(e, x[e.field])
    <2>2. EvalNode(n, g, x) = [ok |-> ok, explanation |-> <<Line(ok)>>]
      BY <1>6 DEF EvalNode
    <2>3. EvalNode(n, h, y) = [ok |-> ok, explanation |-> <<Line(ok)>>]
      BY <1>6, <2>1 DEF EvalNode
    <2> QED BY <2>2, <2>3
  <1> QED BY <1>3, <1>4, <1>5, <1>6

\* The results of eval for the nodes up to root.
IsEval(g, root, inputs) == g = [n \in 1 .. root |-> EvalNode(n, g, inputs)]

LEMMA EvalIsDefined ==
    ASSUME NEW root \in Node, NEW inputs
    PROVE  \E g : IsEval(g, root, inputs)
  <1> DEFINE T == {n \in 0 .. root : ~\E g : IsEval(g, n, inputs)}
  <1> SUFFICES ASSUME T # {} PROVE FALSE
    BY ChildrenAreSmaller, SMTT(30)
  <1>1. T \subseteq Nat
    BY ChildrenAreSmaller, SMTT(30)
  <1>2. PICK n \in T : \A m \in T : n <= m
    BY <1>1, LeastNumber
  <1>3. n # 0
    <2>1. IsEval(<<>>, 0, inputs)
      BY SMTT(30) DEF IsEval
    <2> QED BY <2>1
  <1>4. n - 1 \in 0 .. root /\ n - 1 \notin T /\ n \in Node /\ n \in Nat /\ 1 <= n
    BY <1>1, <1>2, <1>3, ChildrenAreSmaller, SMTT(30)
  <1>5. PICK g : IsEval(g, n - 1, inputs)
    BY <1>4
  <1> DEFINE h == [i \in 1 .. n |-> IF i = n THEN EvalNode(n, g, inputs) ELSE g[i]]
  <1>6. ASSUME NEW i \in 1 .. n PROVE h[i] = EvalNode(i, h, inputs)
    <2>1. i \in Node /\ Children(Expression[i]) \subseteq 1 .. i - 1 /\ i \in Nat
      BY <1>4, ChildrenAreSmaller
    <2>2. SameResults(Children(Expression[i]), g, h)
      BY <1>4, <2>1, SMTT(30) DEF SameResults
    <2> HIDE DEF h
    <2>3. EvalNode(i, g, inputs) = EvalNode(i, h, inputs)
      BY <2>1, <2>2, EvalNodeIsLocal, SMTT(30)
    <2>4. h[i] = EvalNode(i, g, inputs)
      <3>1. CASE i = n
        BY <3>1 DEF h
      <3>2. CASE i # n
        <4>1. i \in 1 .. n - 1
          BY <1>4, <2>1, <3>2, SMTT(30)
        <4>2. g[i] = EvalNode(i, g, inputs)
          BY <1>5, <4>1 DEF IsEval
        <4> QED BY <3>2, <4>2 DEF h
      <3> QED BY <3>1, <3>2
    <2> QED BY <2>3, <2>4
  <1>7. IsEval(h, n, inputs)
    <2>1. h = [i \in 1 .. n |-> h[i]]
      OBVIOUS
    <2> HIDE DEF h
    <2>2. [i \in 1 .. n |-> h[i]] = [i \in 1 .. n |-> EvalNode(i, h, inputs)]
      BY <1>6
    <2> QED BY <2>1, <2>2 DEF IsEval
  <1> QED BY <1>2, <1>7

LEMMA EvalEquation ==
    ASSUME NEW root \in Node, NEW inputs
    PROVE  \E g : IsEval(g, root, inputs) /\ eval(root, inputs) = g[root]
  <1> DEFINE g == CHOOSE g : IsEval(g, root, inputs)
  <1>1. IsEval(g, root, inputs)
    BY EvalIsDefined
  <1>2. eval(root, inputs) = g[root]
    BY DEF eval, IsEval
  <1> QED BY <1>1, <1>2

\* The same for the meaning of an expression, for validateExpression and for collectFields.
LEMMA NodeHoldsIsLocal ==
    ASSUME NEW n \in Node, NEW g, NEW h, NEW inputs, SameResults(Children(Expression[n]), g, h)
    PROVE  NodeHolds(n, g, inputs) = NodeHolds(n, h, inputs)
  <1> DEFINE e == Expression[n]
  <1>1. /\ SameResults(Range(e.all), g, h) /\ SameResults(Range(e.any), g, h)
        /\ e.not # NoText => g[e.not] = h[e.not]
    BY DEF Children, SameResults
  <1>2. NodeHolds(n, g, inputs) <=> NodeHolds(n, h, inputs)
    BY <1>1 DEF NodeHolds, SameResults
  <1>3. NodeHolds(n, g, inputs) \in BOOLEAN /\ NodeHolds(n, h, inputs) \in BOOLEAN
    BY DEF NodeHolds
  <1> QED BY <1>2, <1>3, SMTT(30)

LEMMA NodeIsValidIsLocal ==
    ASSUME NEW n \in Node, NEW g, NEW h, SameResults(Children(Expression[n]), g, h)
    PROVE  NodeIsValid(n, g) = NodeIsValid(n, h)
  <1>1. NodeIsValid(n, g) <=> NodeIsValid(n, h)
    BY DEF NodeIsValid, SameResults
  <1>2. NodeIsValid(n, g) \in BOOLEAN /\ NodeIsValid(n, h) \in BOOLEAN
    BY DEF NodeIsValid
  <1> QED BY <1>1, <1>2, SMTT(30)

LEMMA NodeFieldsIsLocal ==
    ASSUME NEW n \in Node, NEW g, NEW h, SameResults(Children(Expression[n]), g, h)
    PROVE  NodeFields(n, g) = NodeFields(n, h)
  <1>1. {g[c] : c \in Children(Expression[n])} = {h[c] : c \in Children(Expression[n])}
    BY DEF SameResults
  <1> QED BY <1>1 DEF NodeFields

\* Which nodes up to root hold.
IsHolds(g, root, inputs) == g = [n \in 1 .. root |-> NodeHolds(n, g, inputs)]

LEMMA HoldsIsDefined ==
    ASSUME NEW root \in Node, NEW inputs
    PROVE  \E g : IsHolds(g, root, inputs)
  <1> DEFINE T == {n \in 0 .. root : ~\E g : IsHolds(g, n, inputs)}
  <1> SUFFICES ASSUME T # {} PROVE FALSE
    BY ChildrenAreSmaller, SMTT(30)
  <1>1. T \subseteq Nat
    BY ChildrenAreSmaller, SMTT(30)
  <1>2. PICK n \in T : \A m \in T : n <= m
    BY <1>1, LeastNumber
  <1>3. n # 0
    <2>1. IsHolds(<<>>, 0, inputs)
      BY SMTT(30) DEF IsHolds
    <2> QED BY <2>1
  <1>4. n - 1 \in 0 .. root /\ n - 1 \notin T /\ n \in Node /\ n \in Nat /\ 1 <= n
    BY <1>1, <1>2, <1>3, ChildrenAreSmaller, SMTT(30)
  <1>5. PICK g : IsHolds(g, n - 1, inputs)
    BY <1>4
  <1> DEFINE h == [i \in 1 .. n |-> IF i = n THEN NodeHolds(n, g, inputs) ELSE g[i]]
  <1>6. ASSUME NEW i \in 1 .. n PROVE h[i] = NodeHolds(i, h, inputs)
    <2>1. i \in Node /\ Children(Expression[i]) \subseteq 1 .. i - 1 /\ i \in Nat
      BY <1>4, ChildrenAreSmaller
    <2>2. SameResults(Children(Expression[i]), g, h)
      BY <1>4, <2>1, SMTT(30) DEF SameResults
    <2> HIDE DEF h
    <2>3. NodeHolds(i, g, inputs) = NodeHolds(i, h, inputs)
      BY <2>1, <2>2, NodeHoldsIsLocal, SMTT(30)
    <2>4. h[i] = NodeHolds(i, g, inputs)
      <3>1. CASE i = n
        BY <3>1 DEF h
      <3>2. CASE i # n
        <4>1. i \in 1 .. n - 1
          BY <1>4, <2>1, <3>2, SMTT(30)
        <4>2. g[i] = NodeHolds(i, g, inputs)
          BY <1>5, <4>1 DEF IsHolds
        <4> QED BY <3>2, <4>2 DEF h
      <3> QED BY <3>1, <3>2
    <2> QED BY <2>3, <2>4
  <1>7. IsHolds(h, n, inputs)
    <2>1. h = [i \in 1 .. n |-> h[i]]
      OBVIOUS
    <2> HIDE DEF h
    <2>2. [i \in 1 .. n |-> h[i]] = [i \in 1 .. n |-> NodeHolds(i, h, inputs)]
      BY <1>6
    <2> QED BY <2>1, <2>2 DEF IsHolds
  <1> QED BY <1>2, <1>7

\* Which nodes up to root are valid.
IsValidate(g, root) == g = [n \in 1 .. root |-> NodeIsValid(n, g)]

LEMMA ValidateIsDefined ==
    ASSUME NEW root \in Node
    PROVE  \E g : IsValidate(g, root)
  <1> DEFINE T == {n \in 0 .. root : ~\E g : IsValidate(g, n)}
  <1> SUFFICES ASSUME T # {} PROVE FALSE
    BY ChildrenAreSmaller, SMTT(30)
  <1>1. T \subseteq Nat
    BY ChildrenAreSmaller, SMTT(30)
  <1>2. PICK n \in T : \A m \in T : n <= m
    BY <1>1, LeastNumber
  <1>3. n # 0
    <2>1. IsValidate(<<>>, 0)
      BY SMTT(30) DEF IsValidate
    <2> QED BY <2>1
  <1>4. n - 1 \in 0 .. root /\ n - 1 \notin T /\ n \in Node /\ n \in Nat /\ 1 <= n
    BY <1>1, <1>2, <1>3, ChildrenAreSmaller, SMTT(30)
  <1>5. PICK g : IsValidate(g, n - 1)
    BY <1>4
  <1> DEFINE h == [i \in 1 .. n |-> IF i = n THEN NodeIsValid(n, g) ELSE g[i]]
  <1>6. ASSUME NEW i \in 1 .. n PROVE h[i] = NodeIsValid(i, h)
    <2>1. i \in Node /\ Children(Expression[i]) \subseteq 1 .. i - 1 /\ i \in Nat
      BY <1>4, ChildrenAreSmaller
    <2>2. SameResults(Children(Expression[i]), g, h)
      BY <1>4, <2>1, SMTT(30) DEF SameResults
    <2> HIDE DEF h
    <2>3. NodeIsValid(i, g) = NodeIsValid(i, h)
      BY <2>1, <2>2, NodeIsValidIsLocal
    <2>4. h[i] = NodeIsValid(i, g)
      <3>1. CASE i = n
        BY <3>1 DEF h
      <3>2. CASE i # n
        <4>1. i \in 1 .. n - 1
          BY <1>4, <2>1, <3>2, SMTT(30)
        <4>2. g[i] = NodeIsValid(i, g)
          BY <1>5, <4>1 DEF IsValidate
        <4> QED BY <3>2, <4>2 DEF h
      <3> QED BY <3>1, <3>2
    <2> QED BY <2>3, <2>4
  <1>7. IsValidate(h, n)
    <2>1. h = [i \in 1 .. n |-> h[i]]
      OBVIOUS
    <2> HIDE DEF h
    <2>2. [i \in 1 .. n |-> h[i]] = [i \in 1 .. n |-> NodeIsValid(i, h)]
      BY <1>6
    <2> QED BY <2>1, <2>2 DEF IsValidate
  <1> QED BY <1>2, <1>7

\* The fields of the nodes up to root.
IsCollect(g, root) == g = [n \in 1 .. root |-> NodeFields(n, g)]

LEMMA CollectIsDefined ==
    ASSUME NEW root \in Node
    PROVE  \E g : IsCollect(g, root)
  <1> DEFINE T == {n \in 0 .. root : ~\E g : IsCollect(g, n)}
  <1> SUFFICES ASSUME T # {} PROVE FALSE
    BY ChildrenAreSmaller, SMTT(30)
  <1>1. T \subseteq Nat
    BY ChildrenAreSmaller, SMTT(30)
  <1>2. PICK n \in T : \A m \in T : n <= m
    BY <1>1, LeastNumber
  <1>3. n # 0
    <2>1. IsCollect(<<>>, 0)
      BY SMTT(30) DEF IsCollect
    <2> QED BY <2>1
  <1>4. n - 1 \in 0 .. root /\ n - 1 \notin T /\ n \in Node /\ n \in Nat /\ 1 <= n
    BY <1>1, <1>2, <1>3, ChildrenAreSmaller, SMTT(30)
  <1>5. PICK g : IsCollect(g, n - 1)
    BY <1>4
  <1> DEFINE h == [i \in 1 .. n |-> IF i = n THEN NodeFields(n, g) ELSE g[i]]
  <1>6. ASSUME NEW i \in 1 .. n PROVE h[i] = NodeFields(i, h)
    <2>1. i \in Node /\ Children(Expression[i]) \subseteq 1 .. i - 1 /\ i \in Nat
      BY <1>4, ChildrenAreSmaller
    <2>2. SameResults(Children(Expression[i]), g, h)
      BY <1>4, <2>1, SMTT(30) DEF SameResults
    <2> HIDE DEF h
    <2>3. NodeFields(i, g) = NodeFields(i, h)
      BY <2>1, <2>2, NodeFieldsIsLocal
    <2>4. h[i] = NodeFields(i, g)
      <3>1. CASE i = n
        BY <3>1 DEF h
      <3>2. CASE i # n
        <4>1. i \in 1 .. n - 1
          BY <1>4, <2>1, <3>2, SMTT(30)
        <4>2. g[i] = NodeFields(i, g)
          BY <1>5, <4>1 DEF IsCollect
        <4> QED BY <3>2, <4>2 DEF h
      <3> QED BY <3>1, <3>2
    <2> QED BY <2>3, <2>4
  <1>7. IsCollect(h, n)
    <2>1. h = [i \in 1 .. n |-> h[i]]
      OBVIOUS
    <2> HIDE DEF h
    <2>2. [i \in 1 .. n |-> h[i]] = [i \in 1 .. n |-> NodeFields(i, h)]
      BY <1>6
    <2> QED BY <2>1, <2>2 DEF IsCollect
  <1> QED BY <1>2, <1>7

LEMMA HoldsEquation ==
    ASSUME NEW root \in Node, NEW inputs
    PROVE  \E g : IsHolds(g, root, inputs) /\ Holds(root, inputs) = g[root]
  <1> DEFINE g == CHOOSE g : IsHolds(g, root, inputs)
  <1>1. IsHolds(g, root, inputs)
    BY HoldsIsDefined
  <1>2. Holds(root, inputs) = g[root]
    BY DEF Holds, IsHolds
  <1> QED BY <1>1, <1>2

LEMMA ValidateEquation ==
    ASSUME NEW n \in Node
    PROVE  validateExpression[n] = NodeIsValid(n, validateExpression)
  <1>1. Len(Expression) \in Node /\ Node = 1 .. Len(Expression)
    BY ExpressionsAreTrees, SMTT(30)
  <1>2. \E g : g = [i \in Node |-> NodeIsValid(i, g)]
    BY <1>1, ValidateIsDefined DEF IsValidate
  <1>3. validateExpression = [i \in Node |-> NodeIsValid(i, validateExpression)]
    BY <1>2 DEF validateExpression
  <1> QED BY <1>3

LEMMA CollectEquation ==
    ASSUME NEW n \in Node
    PROVE  collectFields[n] = NodeFields(n, collectFields)
  <1>1. Len(Expression) \in Node /\ Node = 1 .. Len(Expression)
    BY ExpressionsAreTrees, SMTT(30)
  <1>2. \E g : g = [i \in Node |-> NodeFields(i, g)]
    BY <1>1, CollectIsDefined DEF IsCollect
  <1>3. collectFields = [i \in Node |-> NodeFields(i, collectFields)]
    BY <1>2 DEF collectFields
  <1> QED BY <1>3

\* A valid node has one form.
LEMMA ValidNode ==
    ASSUME NEW n \in Node, validateExpression[n], NEW e, e = Expression[n]
    PROVE  /\ \/ e.all # <<>> /\ e.any = <<>> /\ e.not = NoText /\ e.field = NoText
              \/ e.all = <<>> /\ e.any # <<>> /\ e.not = NoText /\ e.field = NoText
              \/ e.all = <<>> /\ e.any = <<>> /\ e.not # NoText /\ e.field = NoText
              \/ e.all = <<>> /\ e.any = <<>> /\ e.not = NoText /\ e.field # NoText
           /\ \A c \in Children(e) : validateExpression[c]
           /\ e.field # NoText => ~isSensitiveField(e.field)
  <1>1. NodeIsValid(n, validateExpression)
    BY ValidateEquation
  <1>2. /\ \E form \in {"all", "any", "not", "field"} : Forms(e) = {form}
        /\ \A c \in Children(e) : validateExpression[c]
        /\ e.field # NoText => ~isSensitiveField(e.field)
    BY <1>1 DEF NodeIsValid
  <1>3. /\ e.all # <<>> <=> "all" \in Forms(e)
        /\ e.any # <<>> <=> "any" \in Forms(e)
        /\ e.not # NoText <=> "not" \in Forms(e)
        /\ e.field # NoText <=> "field" \in Forms(e)
    BY DEF Forms
  <1> QED BY <1>2, <1>3

\* What one call of eval returns is what the node means, when that is so for the children:
\* a loop that ends early has found the child that decides.
LEMMA NodeDecides ==
    ASSUME NEW n \in Node, validateExpression[n], NEW g, NEW h, NEW inputs,
           \A c \in Children(Expression[n]) : g[c].ok = h[c] /\ h[c] \in BOOLEAN
    PROVE  EvalNode(n, g, inputs).ok = NodeHolds(n, h, inputs)
  <1> DEFINE e == Expression[n]
  <1>1. /\ \/ e.all # <<>> /\ e.any = <<>> /\ e.not = NoText /\ e.field = NoText
           \/ e.all = <<>> /\ e.any # <<>> /\ e.not = NoText /\ e.field = NoText
           \/ e.all = <<>> /\ e.any = <<>> /\ e.not # NoText /\ e.field = NoText
           \/ e.all = <<>> /\ e.any = <<>> /\ e.not = NoText /\ e.field # NoText
    BY ValidNode
  <1>2. e.all \in Seq(Node) /\ e.any \in Seq(Node)
    BY ChildrenAreSmaller
  <1>3. \A c \in Range(e.all) \cup Range(e.any) : g[c].ok = h[c] /\ h[c] \in BOOLEAN
    BY DEF Children
  <1>4. NodeHolds(n, h, inputs) \in BOOLEAN
    BY DEF NodeHolds
  <1>5. CASE e.all # <<>>
    <2>1. e.any = <<>> /\ e.not = NoText /\ e.field = NoText
      BY <1>1, <1>5
    <2>2. PICK ends : ends = FALSE
      OBVIOUS
    <2>3. EvalNode(n, g, inputs).ok = LastResult(Evaluated(e.all, g, ends), g)
      BY <1>5, <2>1, <2>2 DEF EvalNode, LastResult
    <2>4. NodeHolds(n, h, inputs) <=> \A c \in Range(e.all) : h[c]
      BY <1>5, <2>1 DEF NodeHolds, Range
    <2>5. \A c \in Range(e.all) : g[c].ok = h[c] /\ h[c] \in BOOLEAN
      BY <1>3
    <2> HIDE DEF e
    <2>6. PICK c \in Range(e.all) :
              /\ LastResult(Evaluated(e.all, g, ends), g) = g[c].ok
              /\ g[c].ok = ends \/ \A b \in Range(e.all) : g[b].ok # ends
      <3>1. OneChildDecides(e.all, g, ends)
        BY <1>2, <1>5, LoopEnds
      <3> QED BY <3>1 DEF OneChildDecides
    <2>7. h[c] <=> \A b \in Range(e.all) : h[b]
      BY <2>2, <2>5, <2>6
    <2> QED BY <1>4, <2>3, <2>4, <2>5, <2>6, <2>7
  <1>6. CASE e.any # <<>>
    <2>1. e.all = <<>> /\ e.not = NoText /\ e.field = NoText
      BY <1>1, <1>6
    <2>2. PICK ends : ends = TRUE
      OBVIOUS
    <2>3. EvalNode(n, g, inputs).ok = LastResult(Evaluated(e.any, g, ends), g)
      BY <1>6, <2>1, <2>2 DEF EvalNode, LastResult
    <2>4. NodeHolds(n, h, inputs) <=> \E c \in Range(e.any) : h[c]
      BY <1>6, <2>1, SMTT(30) DEF NodeHolds, Range
    <2>5. \A c \in Range(e.any) : g[c].ok = h[c] /\ h[c] \in BOOLEAN
      BY <1>3
    <2> HIDE DEF e
    <2>6. PICK c \in Range(e.any) :
              /\ LastResult(Evaluated(e.any, g, ends), g) = g[c].ok
              /\ g[c].ok = ends \/ \A b \in Range(e.any) : g[b].ok # ends
      <3>1. OneChildDecides(e.any, g, ends)
        BY <1>2, <1>6, LoopEnds
      <3> QED BY <3>1 DEF OneChildDecides
    <2>7. h[c] <=> \E b \in Range(e.any) : h[b]
      BY <2>2, <2>5, <2>6
    <2> QED BY <1>4, <2>3, <2>4, <2>5, <2>6, <2>7
  <1>7. CASE e.not # NoText
    <2>1. e.all = <<>> /\ e.any = <<>> /\ e.field = NoText
      BY <1>1, <1>7
    <2>2. EvalNode(n, g, inputs).ok = ~g[e.not].ok
      BY <1>7, <2>1 DEF EvalNode
    <2>3. g[e.not].ok = h[e.not] /\ h[e.not] \in BOOLEAN
      BY <1>7 DEF Children
    <2>4. NodeHolds(n, h, inputs) <=> ~h[e.not]
      BY <1>7, <2>1, SMTT(30) DEF NodeHolds, Range
    <2> QED BY <1>4, <2>2, <2>3, <2>4
  <1>8. CASE e.field # NoText
    <2>1. e.all = <<>> /\ e.any = <<>> /\ e.not = NoText
      BY <1>1, <1>8
    <2>2. EvalNode(n, g, inputs).ok = Matches(e, inputs[e.field])
      BY <2>1 DEF EvalNode
    <2>3. NodeHolds(n, h, inputs) <=> Matches(e, inputs[e.field])
      BY <1>8, <2>1, SMTT(30) DEF NodeHolds, Range, Matches
    <2>4. Matches(e, inputs[e.field]) \in BOOLEAN
      <3>1. CASE e.equals # NoText
        BY <3>1 DEF Matches
      <3>2. CASE ~(e.equals # NoText)
        BY <3>2, SMTT(30) DEF Matches
      <3> QED BY <3>1, <3>2
    <2> QED BY <1>4, <2>2, <2>3, <2>4
  <1> QED BY <1>1, <1>5, <1>6, <1>7, <1>8

\* eval returns what a valid expression means: the least node for which it did not would
\* have children for which it does.
LEMMA EvalDecides ==
    ASSUME NEW root \in Node, validateExpression[root], NEW inputs
    PROVE  eval(root, inputs).ok = Holds(root, inputs)
  <1>1. PICK g : IsEval(g, root, inputs) /\ eval(root, inputs) = g[root]
    BY EvalEquation
  <1>2. PICK h : IsHolds(h, root, inputs) /\ Holds(root, inputs) = h[root]
    BY HoldsEquation
  <1>3. \A n \in 1 .. root : /\ g[n] = EvalNode(n, g, inputs)
                             /\ h[n] = NodeHolds(n, h, inputs)
    BY <1>1, <1>2 DEF IsEval, IsHolds
  <1> DEFINE T == {n \in 1 .. root : validateExpression[n] /\ g[n].ok # h[n]}
  <1>4. ASSUME T # {} PROVE FALSE
    <2>1. T \subseteq Nat
      BY ChildrenAreSmaller
    <2>2. PICK n \in T : \A m \in T : n <= m
      BY <1>4, <2>1, LeastNumber
    <2>3. n \in Node /\ validateExpression[n] /\ n \in 1 .. root /\ g[n].ok # h[n]
      BY ChildrenAreSmaller
    <2>4. ASSUME NEW c \in Children(Expression[n])
          PROVE  g[c].ok = h[c] /\ h[c] \in BOOLEAN
      <3>1. validateExpression[c]
        BY <2>3, ValidNode
      <3>2. c \in 1 .. root /\ ~(n <= c)
        BY <2>3, ChildComesFirst
      <3>3. NodeHolds(c, h, inputs) \in BOOLEAN
        BY DEF NodeHolds
      <3>4. c \notin T
        BY <2>2, <3>2
      <3> QED BY <1>3, <3>1, <3>2, <3>3, <3>4
    <2> HIDE DEF T
    <2>5. EvalNode(n, g, inputs).ok = NodeHolds(n, h, inputs)
      BY <2>3, <2>4, NodeDecides
    <2> QED BY <1>3, <2>3, <2>5
  <1>5. root \in 1 .. root
    BY ChildrenAreSmaller, SMTT(30)
  <1> QED BY <1>1, <1>2, <1>4, <1>5

\* The fields of a valid expression are fields of nodes, and none of them is sensitive.
LEMMA CollectedFields ==
    ASSUME NEW root \in Node, validateExpression[root], NEW f \in collectFields[root]
    PROVE  ~isSensitiveField(f) /\ \E n \in Node : f = Expression[n].field
  <1> DEFINE Fine == ~isSensitiveField(f) /\ \E n \in Node : f = Expression[n].field
             T == {n \in 1 .. root : validateExpression[n] /\ f \in collectFields[n]}
  <1> SUFFICES ASSUME ~Fine PROVE FALSE
    OBVIOUS
  <1>1. root \in T /\ T \subseteq Nat
    BY ChildrenAreSmaller, SMTT(30)
  <1>2. PICK n \in T : \A m \in T : n <= m
    BY <1>1, LeastNumber
  <1>3. n \in Node /\ validateExpression[n] /\ f \in NodeFields(n, collectFields) /\ n \in 1 .. root
    BY CollectEquation, ChildrenAreSmaller
  <1>4. CASE f = Expression[n].field /\ Expression[n].field # NoText
    BY <1>3, <1>4, ValidNode
  <1>5. ASSUME NEW c \in Children(Expression[n]), f \in collectFields[c] PROVE FALSE
    <2>1. validateExpression[c]
      BY <1>3, ValidNode
    <2>2. c \in 1 .. root /\ ~(n <= c)
      BY <1>3, ChildComesFirst
    <2> QED BY <1>2, <1>5, <2>1, <2>2
  <1> HIDE DEF Fine, T
  <1> QED BY <1>3, <1>4, <1>5 DEF NodeFields

\* eval depends on nothing but the inputs that the audit entry of the decision shows.
LEMMA EvalNeedsFieldsOnly ==
    ASSUME NEW root \in Node, validateExpression[root], NEW x, NEW y,
           \A f \in collectFields[root] : x[f] = y[f]
    PROVE  eval(root, x) = eval(root, y)
  <1>1. PICK g : IsEval(g, root, x) /\ eval(root, x) = g[root]
    BY EvalEquation
  <1>2. PICK h : IsEval(h, root, y) /\ eval(root, y) = h[root]
    BY EvalEquation
  <1>3. \A n \in 1 .. root : g[n] = EvalNode(n, g, x) /\ h[n] = EvalNode(n, h, y)
    BY <1>1, <1>2 DEF IsEval
  <1> DEFINE T == {n \in 1 .. root : /\ validateExpression[n] /\ g[n] # h[n]
                                     /\ \A f \in collectFields[n] : x[f] = y[f]}
  <1>4. ASSUME T # {} PROVE FALSE
    <2>1. T \subseteq Nat
      BY ChildrenAreSmaller
    <2>2. PICK n \in T : \A m \in T : n <= m
      BY <1>4, <2>1, LeastNumber
    <2>3. /\ n \in Node /\ validateExpression[n] /\ n \in 1 .. root /\ g[n] # h[n]
          /\ \A f \in NodeFields(n, collectFields) : x[f] = y[f]
      BY CollectEquation, ChildrenAreSmaller
    <2>4. ASSUME NEW c \in Children(Expression[n]) PROVE g[c] = h[c]
      <3>1. validateExpression[c]
        BY <2>3, ValidNode
      <3>2. c \in 1 .. root /\ ~(n <= c)
        BY <2>3, ChildComesFirst
      <3>3. \A f \in collectFields[c] : x[f] = y[f]
        BY <2>3 DEF NodeFields
      <3> QED BY <2>2, <3>1, <3>2, <3>3
    <2>5. SameResults(Children(Expression[n]), g, h)
      BY <2>4 DEF SameResults
    <2> HIDE DEF T
    <2>6. Forms(Expression[n]) \subseteq {"field"} => x[Expression[n].field] = y[Expression[n].field]
      <3> SUFFICES ASSUME Forms(Expression[n]) \subseteq {"field"}
                   PROVE  x[Expression[n].field] = y[Expression[n].field]
        OBVIOUS
      <3>1. Expression[n].field # NoText
        BY <2>3, ValidNode DEF Forms
      <3> QED BY <2>3, <3>1 DEF NodeFields
    <2>7. EvalNode(n, g, x) = EvalNode(n, h, y)
      BY <2>3, <2>5, <2>6, EvalNodeIsLocal, SMTT(30)
    <2> QED BY <1>3, <2>3, <2>7
  <1>5. root \in 1 .. root
    BY ChildrenAreSmaller, SMTT(30)
  <1> QED BY <1>1, <1>2, <1>4, <1>5

\* The parts of a decision.
LEMMA DecisionParts ==
    ASSUME NEW d, NEW e
    PROVE  /\ Evaluate(d, e).matched = eval(d.match, eventInputs(e)).ok
           /\ Evaluate(d, e) =
                  [matched |-> eval(d.match, eventInputs(e)).ok,
                   explanation |-> eval(d.match, eventInputs(e)).explanation,
                   inputs |-> Evaluate(d, e).inputs,
                   actions |-> IF eval(d.match, eventInputs(e)).ok THEN d.actions ELSE NoText]
  BY DEF Evaluate

\* Parse, Evaluate and collectFields, for every policy: what is accepted
\* decides what it means and explains the decision.
LEMMA AcceptedPolicyExplains ==
    ASSUME NEW d, d.match \in Node, ValidPolicy(d)
    PROVE  PolicyExplains(d)
  <1> DEFINE root == d.match
             Entry(e) == [inputs |-> eventInputs(e), decision |-> Evaluate(d, e)]
             decided == {Entry(e) : e \in Event}
             Uncut(x) == \A f \in DOMAIN x.decision.inputs : x.decision.inputs[f] = x.inputs[f]
  <1>1. root \in Node /\ validateExpression[root]
    BY DEF ValidPolicy
  <1>2. ASSUME NEW e \in Event
        PROVE  Evaluate(d, e).matched = Holds(root, eventInputs(e))
    <2>1. Evaluate(d, e).matched = eval(root, eventInputs(e)).ok
      BY DecisionParts
    <2> HIDE DEF root
    <2> QED BY <1>1, <2>1, EvalDecides
  <1>3. ASSUME NEW e \in Event
        PROVE  Redacted \notin Range(Evaluate(d, e).inputs)
    <2> SUFFICES ASSUME NEW f \in collectFields[root],
                        sanitizeDecisionInput(f, eventInputs(e)[f]) = Redacted
                 PROVE  FALSE
      <3>1. Evaluate(d, e).inputs = [f \in collectFields[root] |->
                                         sanitizeDecisionInput(f, eventInputs(e)[f])]
        BY DEF Evaluate
      <3> HIDE DEF root
      <3> QED BY <3>1 DEF Range
    <2>1. ~isSensitiveField(f) /\ \E n \in Node : f = Expression[n].field
      BY <1>1, CollectedFields
    <2>2. Cut[eventInputs(e)[f]] = Redacted
      BY <2>1 DEF sanitizeDecisionInput
    <2>3. f \in DOMAIN eventInputs(e)
      BY <2>1 DEF eventInputs
    <2>4. eventInputs(e)[f] \in Range(eventInputs(e))
      BY <2>3 DEF Range
    <2> QED BY <2>2, <2>4, DefinitionsAssumption
  <1>4. ASSUME NEW a \in Event, NEW b \in Event, Uncut(Entry(a)), Uncut(Entry(b)),
               Evaluate(d, a).inputs = Evaluate(d, b).inputs
        PROVE  Evaluate(d, a) = Evaluate(d, b)
    <2>1. \A f \in collectFields[root] : eventInputs(a)[f] = eventInputs(b)[f]
      <3>1. /\ DOMAIN Evaluate(d, a).inputs = collectFields[root]
            /\ DOMAIN Evaluate(d, b).inputs = collectFields[root]
        <4>1. /\ Evaluate(d, a).inputs = [f \in collectFields[root] |->
                                             sanitizeDecisionInput(f, eventInputs(a)[f])]
              /\ Evaluate(d, b).inputs = [f \in collectFields[root] |->
                                             sanitizeDecisionInput(f, eventInputs(b)[f])]
          BY DEF Evaluate
        <4> HIDE DEF root
        <4> QED BY <4>1
      <3>2. /\ \A f \in collectFields[root] : Evaluate(d, a).inputs[f] = eventInputs(a)[f]
            /\ \A f \in collectFields[root] : Evaluate(d, b).inputs[f] = eventInputs(b)[f]
        BY <1>4, <3>1
      <3> QED BY <1>4, <3>2
    <2>2. eval(root, eventInputs(a)) = eval(root, eventInputs(b))
      BY <1>1, <2>1, EvalNeedsFieldsOnly
    <2>3. Evaluate(d, a) = [matched |-> eval(root, eventInputs(a)).ok,
                            explanation |-> eval(root, eventInputs(a)).explanation,
                            inputs |-> Evaluate(d, a).inputs,
                            actions |-> IF eval(root, eventInputs(a)).ok THEN d.actions ELSE NoText]
      BY DecisionParts
    <2>4. Evaluate(d, b) = [matched |-> eval(root, eventInputs(b)).ok,
                            explanation |-> eval(root, eventInputs(b)).explanation,
                            inputs |-> Evaluate(d, b).inputs,
                            actions |-> IF eval(root, eventInputs(b)).ok THEN d.actions ELSE NoText]
      BY DecisionParts
    <2> QED BY <1>4, <2>2, <2>3, <2>4, SMTT(30)
  <1>5. ASSUME NEW x \in decided
        PROVE  x.decision.matched = Holds(root, x.inputs) /\ Redacted \notin Range(x.decision.inputs)
    <2>1. PICK e \in Event : x = Entry(e)
      OBVIOUS
    <2>2. x.inputs = eventInputs(e) /\ x.decision = Evaluate(d, e)
      BY <2>1
    <2> QED BY <1>2, <1>3, <2>2
  <1>6. ASSUME NEW x \in decided, NEW y \in decided, Uncut(x), Uncut(y),
               x.decision.inputs = y.decision.inputs
        PROVE  x.decision = y.decision
    <2>1. PICK a \in Event : x = Entry(a)
      OBVIOUS
    <2>2. PICK b \in Event : y = Entry(b)
      OBVIOUS
    <2>3. x.decision = Evaluate(d, a) /\ y.decision = Evaluate(d, b)
      BY <2>1, <2>2
    <2> HIDE DEF Uncut, Entry
    <2> QED BY <1>4, <1>6, <2>1, <2>2, <2>3
  <1> HIDE DEF root
  <1> QED BY <1>5, <1>6 DEF PolicyExplains, root

-----------------------------------------------------------------------------
(***************************************************************************)
(* Runbooks: the rows of an execution and of its rollback.                 *)
(***************************************************************************)

\* Normalization keeps the number of steps and their names.
LEMMA NormalizedSteps ==
    ASSUME NEW d, IsRunbook(d)
    PROVE  LET steps == Normalized(d).steps
           IN /\ steps = [i \in 1 .. Len(d.steps) |-> normalize(d.steps[i])]
              /\ DOMAIN steps = 1 .. Len(d.steps) /\ DOMAIN d.steps = 1 .. Len(d.steps)
              /\ Len(steps) = Len(d.steps) /\ Len(d.steps) \in Nat
              /\ \A i \in DOMAIN steps : steps[i].id = d.steps[i].id
  <1> DEFINE N == Len(d.steps)
             s == [i \in DOMAIN d.steps |-> normalize(d.steps[i])]
             steps == Normalized(d).steps
  <1>1. N \in Nat /\ DOMAIN d.steps = 1 .. N
    BY DEF IsRunbook
  <1>2. steps = s
    <2>1. d = [header |-> d.header, id |-> d.id, version |-> d.version,
               timeout |-> d.timeout, steps |-> d.steps]
      BY DEF IsRunbook
    <2>2. "steps" \in DOMAIN d
      BY <2>1, SMTT(30)
    <2>3. Normalized(d) = [d EXCEPT !.steps = s]
      BY DEF Normalized
    <2> HIDE DEF s
    <2> QED BY <2>2, <2>3
  <1>3. steps = [i \in 1 .. N |-> normalize(d.steps[i])]
    BY <1>1, <1>2
  <1> HIDE DEF steps
  <1>4. DOMAIN steps = 1 .. N /\ Len(steps) = N
    <2>1. DOMAIN steps = 1 .. N
      BY <1>3
    <2>2. steps \in Seq({normalize(d.steps[i]) : i \in 1 .. N})
      BY <1>1, <1>3, SMTT(30)
    <2> HIDE DEF N
    <2> QED BY <1>1, <2>1, <2>2, SequenceShape, SMTT(30)
  <1>5. \A i \in DOMAIN steps : steps[i].id = d.steps[i].id
    BY <1>3, <1>4 DEF normalize
  <1> QED BY <1>1, <1>3, <1>4, <1>5 DEF steps

\* What Parse checks of the steps.
LEMMA AcceptedSteps ==
    ASSUME NEW d, Parses(d)
    PROVE  LET steps == Normalized(d).steps
           IN /\ \A i \in DOMAIN steps : validateStep(steps[i])
              /\ \A i, j \in DOMAIN steps : steps[i].id = steps[j].id => i = j
  BY DEF Parses, Validate

INSTANCE FiniteSetTheorems

\* A set of rows numbered by an injective key has as many rows as numbers.
LEMMA NumberedRows ==
    ASSUME NEW n \in Nat, NEW row, NEW rows, rows = {row[i] : i \in 1 .. n},
           \A i, j \in 1 .. n : row[i].key = row[j].key => i = j
    PROVE  KeysAreDistinct(rows) /\ Cardinality(rows) = n
  <1> DEFINE f == [i \in 1 .. n |-> row[i]]
  <1>1. KeysAreDistinct(rows)
    BY SMTT(30) DEF KeysAreDistinct
  <1>2. f \in Bijection(1 .. n, rows)
    <2>1. f \in [1 .. n -> rows]
      OBVIOUS
    <2>2. \A i, j \in 1 .. n : f[i] = f[j] => i = j
      OBVIOUS
    <2>3. \A x \in rows : \E i \in 1 .. n : f[i] = x
      OBVIOUS
    <2> HIDE DEF f
    <2> QED BY <2>1, <2>2, <2>3 DEF Bijection, Injection, Surjection, IsInjective
  <1>3. IsFiniteSet(1 .. n) /\ Cardinality(1 .. n) = n
    BY FS_Interval, SMTT(30)
  <1>4. ExistsBijection(1 .. n, rows)
    BY <1>2 DEF ExistsBijection
  <1>5. Cardinality(rows) = n
    BY <1>3, <1>4, FS_Bijection
  <1> QED BY <1>1, <1>5

\* The rows of an execution: one for each step, under its name.
LEMMA ForwardRowsAreSane ==
    ASSUME NEW d, IsRunbook(d), Parses(d)
    PROVE  /\ KeysAreDistinct(ForwardRows(d)) /\ Cardinality(ForwardRows(d)) = Len(d.steps)
           /\ \A row \in ForwardRows(d) :
                /\ RowIsSane(row) /\ BackoffIsSane(row.retry)
                /\ \E i \in DOMAIN d.steps : row.key = d.steps[i].id
  <1> DEFINE n == Len(d.steps)
             steps == Normalized(d).steps
             row == [i \in 1 .. n |-> Row(steps[i].id, i - 1, steps[i], steps[i].with)]
  <1>1. /\ n \in Nat /\ DOMAIN steps = 1 .. n /\ DOMAIN d.steps = 1 .. n
        /\ \A i \in 1 .. n : steps[i].id = d.steps[i].id
    BY NormalizedSteps
  <1>2. /\ \A i \in 1 .. n : validateStep(steps[i])
        /\ \A i, j \in 1 .. n : steps[i].id = steps[j].id => i = j
    BY <1>1, AcceptedSteps
  <1>3. ForwardRows(d) = {row[i] : i \in 1 .. n}
    BY <1>1 DEF ForwardRows
  <1>4. ASSUME NEW i \in 1 .. n
        PROVE  /\ RowIsSane(row[i]) /\ BackoffIsSane(row[i].retry)
               /\ row[i].key = steps[i].id
    <2>1. ValidAction(steps[i], steps[i].with)
      BY <1>2, <1>4 DEF validateStep
    <2>2. row[i] = Row(steps[i].id, i - 1, steps[i], steps[i].with)
      BY <1>4
    <2> HIDE DEF row, steps
    <2> QED BY <2>1, <2>2, RowOfValidAction, SMTT(30)
  <1> HIDE DEF n, steps, row
  <1>6. KeysAreDistinct(ForwardRows(d)) /\ Cardinality(ForwardRows(d)) = n
    <2>1. \A i, j \in 1 .. n : row[i].key = row[j].key => i = j
      <3> SUFFICES ASSUME NEW i \in 1 .. n, NEW j \in 1 .. n, row[i].key = row[j].key
                   PROVE  i = j
        OBVIOUS
      <3>1. row[i].key = steps[i].id /\ row[j].key = steps[j].id
        BY <1>4
      <3> QED BY <1>2, <3>1
    <2> QED BY <1>1, <1>3, <2>1, NumberedRows
  <1>7. ASSUME NEW x \in ForwardRows(d)
        PROVE  /\ RowIsSane(x) /\ BackoffIsSane(x.retry)
               /\ \E i \in DOMAIN d.steps : x.key = d.steps[i].id
    <2>1. PICK i \in 1 .. n : x = row[i]
      BY <1>3, <1>7
    <2> QED BY <1>1, <1>4, <2>1
  <1> QED BY <1>6, <1>7 DEF n

\* The rows of a rollback: one for each completed step that declares an action, under the
\* name of the step with the prefix.
LEMMA RollbackRowsAreSane ==
    ASSUME NEW d, IsRunbook(d), Parses(d), NEW done \in SUBSET DOMAIN d.steps
    PROVE  /\ KeysAreDistinct(RollbackRows(d, done))
           /\ \A row \in RollbackRows(d, done) :
                /\ RowIsSane(row) /\ BackoffIsSane(row.retry)
                /\ row.type \in {"http", "plugin"}
                /\ \E i \in DOMAIN d.steps : row.key = RollbackKey[d.steps[i].id]
  <1> DEFINE n == Len(d.steps)
             steps == Normalized(d).steps
             Sources == {i \in done : steps[i].rollback # Unset}
             row(i) == Row(RollbackKey[steps[i].id], Cardinality({j \in Sources : j > i}),
                           steps[i].rollback, steps[i].rollback.with)
             rows == RollbackRows(d, done)
  <1>1. /\ DOMAIN steps = 1 .. n /\ DOMAIN d.steps = 1 .. n
        /\ \A i \in 1 .. n : steps[i].id = d.steps[i].id
    BY NormalizedSteps
  <1>2. /\ \A i \in 1 .. n : validateStep(steps[i])
        /\ \A i, j \in 1 .. n : steps[i].id = steps[j].id => i = j
    BY <1>1, AcceptedSteps
  <1>3. rows = {row(i) : i \in Sources}
    BY DEF RollbackRows
  <1>4. ASSUME NEW i \in Sources
        PROVE  /\ i \in 1 .. n /\ steps[i].id \in DOMAIN NameLength
               /\ RowIsSane(row(i)) /\ BackoffIsSane(row(i).retry)
               /\ row(i).key = RollbackKey[steps[i].id] /\ row(i).type \in {"http", "plugin"}
    <2>1. i \in 1 .. n /\ steps[i].rollback # Unset
      BY <1>1, <1>4
    <2>2. /\ steps[i].id \in DOMAIN NameLength
          /\ steps[i].rollback.type \in {"http", "plugin"}
          /\ ValidAction(steps[i].rollback, steps[i].rollback.with)
      BY <1>2, <2>1 DEF validateStep, IsIdentifier
    <2>3. row(i) = Row(RollbackKey[steps[i].id], Cardinality({j \in Sources : j > i}),
                       steps[i].rollback, steps[i].rollback.with)
      OBVIOUS
    <2> HIDE DEF row, steps, Sources
    <2> QED BY <2>1, <2>2, <2>3, RowOfValidAction, SMTT(30)
  <1> HIDE DEF n, steps, row, rows, Sources
  <1>5. KeysAreDistinct(rows)
    <2> SUFFICES ASSUME NEW x \in rows, NEW y \in rows, x.key = y.key PROVE x = y
      BY DEF KeysAreDistinct
    <2>1. PICK i \in Sources : x = row(i)
      BY <1>3
    <2>2. PICK j \in Sources : y = row(j)
      BY <1>3
    <2>3. steps[i].id = steps[j].id
      BY <1>4, <2>1, <2>2, RollbackKeyAssumption
    <2> QED BY <1>2, <1>4, <2>1, <2>2, <2>3
  <1>6. ASSUME NEW x \in rows
        PROVE  /\ RowIsSane(x) /\ BackoffIsSane(x.retry) /\ x.type \in {"http", "plugin"}
               /\ \E i \in DOMAIN d.steps : x.key = RollbackKey[d.steps[i].id]
    <2>1. PICK i \in Sources : x = row(i)
      BY <1>3, <1>6
    <2> QED BY <1>1, <1>4, <2>1
  <1> QED BY <1>5, <1>6 DEF rows

\* Parse, StartExecution and StartExecutionRollback, for every document: what is accepted
\* can be run and rolled back.
LEMMA AcceptedRunbookRuns ==
    ASSUME NEW d, IsRunbook(d), Parses(d)
    PROVE  RunbookRuns(d)
  <1> DEFINE ids == {d.steps[i].id : i \in DOMAIN d.steps}
  <1>1. ASSUME NEW done \in SUBSET DOMAIN d.steps, \A x \in ids : RollbackKey[x] \notin ids
        PROVE  KeysAreDistinct(ForwardRows(d) \cup RollbackRows(d, done))
    <2> DEFINE forward == ForwardRows(d)
               undo == RollbackRows(d, done)
    <2>1. KeysAreDistinct(forward) /\ KeysAreDistinct(undo)
      BY <1>1, ForwardRowsAreSane, RollbackRowsAreSane
    <2>2. \A x \in forward : x.key \in ids
      BY ForwardRowsAreSane
    <2>3. \A y \in undo : y.key \notin ids
      BY <1>1, RollbackRowsAreSane
    <2> HIDE DEF forward, undo, ids
    <2>4. KeysAreDistinct(forward \cup undo)
      BY <2>1, <2>2, <2>3 DEF KeysAreDistinct
    <2> QED BY <2>4 DEF forward, undo
  <1> QED BY <1>1, ForwardRowsAreSane, RollbackRowsAreSane DEF RunbookRuns

-----------------------------------------------------------------------------
(***************************************************************************)
(* What the tables hold.                                                   *)
(***************************************************************************)

\* Parse, StartExecution and StartExecutionRollback: whatever requests, documents and
\* failures, every runbook that gets into the tables can be run and rolled back.
THEOREM EveryStoredRunbookRuns == Spec => []StoredRunbooksRun
  <1>1. AcceptedInv => StoredRunbooksRun
    <2> SUFFICES ASSUME AcceptedInv, NEW d \in Stored("runbook", RunbookName)
                 PROVE  RunbookRuns(d)
      BY DEF StoredRunbooksRun
    <2>1. PICK n \in RunbookName : \E v \in DOMAIN versions[<<"runbook", n>>] :
              d = versions[<<"runbook", n>>][v]
      BY DEF Stored
    <2>2. <<"runbook", n>> \in Name
      BY DEF Name
    <2>3. d \in AcceptedDocument(<<"runbook", n>>)
      BY <2>1, <2>2 DEF AcceptedInv
    <2>4. PICK o \in Offers : d \in o.runbooks /\ Parses(d)
      BY <2>3 DEF AcceptedDocument
    <2>5. IsRunbook(d)
      BY <2>4, DefinitionsAssumption
    <2> QED BY <2>4, <2>5, AcceptedRunbookRuns
  <1> QED BY <1>1, AcceptedHolds, PTL

\* Parse, Evaluate and collectFields: whatever requests, documents and failures, every
\* policy that gets into the tables decides what its expression means, and the audit entry of
\* a decision shows all it depends on.
THEOREM EveryDecisionIsExplained == Spec => []DecisionsAreExplained
  <1>1. AcceptedInv => DecisionsAreExplained
    <2> SUFFICES ASSUME AcceptedInv, NEW d \in Stored("policy", PolicyName)
                 PROVE  PolicyExplains(d)
      BY DEF DecisionsAreExplained
    <2>1. PICK n \in PolicyName : \E v \in DOMAIN versions[<<"policy", n>>] :
              d = versions[<<"policy", n>>][v]
      BY DEF Stored
    <2>2. <<"policy", n>> \in Name
      BY DEF Name
    <2>3. d \in AcceptedDocument(<<"policy", n>>)
      BY <2>1, <2>2 DEF AcceptedInv
    <2>4. PICK o \in Offers : d \in o.policies /\ ValidPolicy(d)
      BY <2>3 DEF AcceptedDocument
    <2>5. d.match \in Node
      BY <2>4, DefinitionsAssumption
    <2> QED BY <2>4, <2>5, AcceptedPolicyExplains
  <1> QED BY <1>1, AcceptedHolds, PTL

\* registerPlugin, whatever manifests are served and registrations run beside each other:
\* the rows of a plugin describe one manifest.  Calls of its actions have the outcome of their
\* handler at both ends of the protocol, but for an output that fits the bound by less than
\* the envelope: there the server answers succeeded, and the client fails the call.
THEOREM EveryRegisteredPluginWorks == Spec => []RegisteredPluginsWork
  <1>1. AcceptedInv => RegisteredPluginsWork
    <2> SUFFICES ASSUME AcceptedInv, NEW k \in PluginKey, plugins[k] # NoPlugin
                 PROVE  LET m == [plugins[k].hash EXCEPT
                                      !.actions = pluginVersions[k][plugins[k].active]]
                        IN /\ m = plugins[k].hash
                           /\ plugins[k].permissions = collectPluginPermissions(m)
                           /\ ServerValidatesManifest(m) =>
                                \A i \in DOMAIN m.actions : CallOutcomes(m, m.actions[i].name)
      BY DEF RegisteredPluginsWork
    <2> DEFINE hash == plugins[k].hash
               m == [hash EXCEPT !.actions = pluginVersions[k][plugins[k].active]]
    <2>1. /\ IsManifest(hash) /\ pluginVersions[k][plugins[k].active] = hash.actions
          /\ plugins[k].permissions = collectPluginPermissions(hash)
      BY DEF AcceptedInv, PluginRowsAgree
    <2>2. m = hash
      <3>1. m = [hash EXCEPT !.actions = hash.actions]
        BY <2>1
      <3>2. hash = [id |-> hash.id, version |-> hash.version, actions |-> hash.actions,
                    bytes |-> hash.bytes]
        BY <2>1 DEF IsManifest
      <3> HIDE DEF hash
      <3>3. [hash EXCEPT !.actions = hash.actions] = hash
        BY <3>2
      <3> QED BY <3>1, <3>3
    <2>3. \A i \in DOMAIN hash.actions : CallOutcomes(hash, hash.actions[i].name)
      BY DeclaredActionsAgree
    <2> HIDE DEF m, hash
    <2>4. /\ m = hash /\ plugins[k].permissions = collectPluginPermissions(m)
          /\ \A i \in DOMAIN m.actions : CallOutcomes(m, m.actions[i].name)
      BY <2>1, <2>2, <2>3
    <2> QED BY <2>4 DEF m, hash
  <1> QED BY <1>1, AcceptedHolds, PTL

=============================================================================
