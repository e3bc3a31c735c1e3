----------------------------- MODULE MCGateway -----------------------------
(***************************************************************************)
(* A server and two workers, one of them a migration ahead; and a source   *)
(* with two signed requests and one that is not, of one message id.        *)
(***************************************************************************)
EXTENDS Gateway

CONSTANTS server, w1, w2, s1, r1, r2, r3

MCBuild == [p \in {server, w1, w2} |-> IF p = w1 THEN 3 ELSE 2]

Given == [masterKey |-> "key", bootstrapKey |-> "key"]
With(settings) ==
    [name \in DOMAIN Given \cup DOMAIN settings |->
        IF name \in DOMAIN Given THEN Given[name] ELSE settings[name]]

MCEnvironment ==
    {With([replayWindow |-> 2]),
     With([replayWindow |-> 1, autoMigrate |-> FALSE, maxDeliveries |-> 3]),
     With([replayWindow |-> 2, maxDeliveries |-> 1])}

MCRate == [s \in {s1} |-> 1]
MCBurst == [s \in {s1} |-> 3]
MCSourceOf == [r \in {r1, r2, r3} |-> s1]
MCSigned == [r \in {r1, r2, r3} |-> CASE r = r1 -> 4 [] r = r2 -> 3 [] r = r3 -> Bearer]
MCMsgIDOf == [r \in {r1, r2, r3} |-> "id"]

\* Whom the bounds leave to be started, and how often.
Starts(n) ==
    starts = [p \in Process |-> IF p \in DOMAIN n THEN MaxStarts - n[p] ELSE MaxStarts]

\* The bounds are used on one of these: server and worker start twice; the workers start,
\* one of them twice; the server starts twice and receives two requests; it starts once and
\* receives three within two ticks.
MCInit ==
    /\ Init
    /\ \/ /\ received = MaxReceived /\ clock = MaxTime
          /\ Starts([p \in {server, w1} |-> 2]) \/ Starts([p \in {w1, w2} |-> IF p = w1 THEN 2 ELSE 1])
       \/ /\ consumer = NoConsumer
          /\ \/ received = 1 /\ clock = 0 /\ Starts([p \in {server} |-> 2])
             \/ received = 0 /\ clock = MaxTime - 1 /\ Starts([p \in {server} |-> 1])

MCSpec == MCInit /\ [][Next]_vars /\ Fairness
=============================================================================
