--------------------------- MODULE Configuration ---------------------------
(***************************************************************************)
(* internal/config: what Load makes of the environment of a process.       *)
(*                                                                         *)
(* An environment is a function from the variables that are set to their   *)
(* values; a text that cannot be parsed is Malformed.  Durations are whole *)
(* seconds, and the sample ratio is in percent.                            *)
(***************************************************************************)
EXTENDS Integers, Functions

CONSTANTS Malformed

\* The variables Load parses, with their defaults.
Defaults ==
    [payload |-> 1048576, replayWindow |-> 300, dedupeWindow |-> 900, correlationWindow |-> 1800,
     workers |-> 8, maxDeliveries |-> 5, retryBase |-> 1, retryMax |-> 30, runbooks |-> 4,
     autoMigrate |-> TRUE, unauthenticated |-> FALSE, sampleRatio |-> 10, exportTimeout |-> 10]

\* Variables without a default: the master key, 32 bytes in base64, and the API key.
Required == {"masterKey", "bootstrapKey"}

\* envIntStrict, envFloatStrict, envBoolStrict, envDurationStrict
EnvStrict(environment, name) ==
    IF name \in DOMAIN environment THEN environment[name] ELSE Defaults[name]

\* The configuration Load builds before it checks the bounds.
Parsed(environment) == [name \in DOMAIN Defaults |-> EnvStrict(environment, name)]

\* The largest payload an operator may allow, in bytes.
MaxPayload == 64 * 1024 * 1024

\* Load returns no error.
LoadAccepts(environment) ==
    LET c == Parsed(environment)
    IN /\ \A name \in Required : name \in DOMAIN environment /\ environment[name] # Malformed
       /\ Malformed \notin Range(c)
       /\ c.payload \in 1 .. MaxPayload
       /\ c.replayWindow > 0 /\ c.dedupeWindow > 0 /\ c.correlationWindow > 0
       /\ c.workers \in 1 .. 128
       /\ c.maxDeliveries \in 2 .. 100
       /\ c.retryBase \in 1 .. 60
       /\ c.retryMax \in c.retryBase .. 900
       /\ c.runbooks \in 1 .. 64
       /\ c.sampleRatio \in 0 .. 100
       /\ c.exportTimeout \in 1 .. 60
=============================================================================
