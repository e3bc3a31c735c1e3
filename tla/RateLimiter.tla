---------------------------- MODULE RateLimiter ----------------------------
(***************************************************************************)
(* internal/ingestion/ratelimit.go: a token bucket for each source.        *)
(* A caller takes its time stamp before it takes the mutex, so the stamps  *)
(* come in any order.  Time is counted in ticks.                           *)
(***************************************************************************)
EXTENDS Integers, Sequences

CONSTANTS
    Source,
    Rate,       \* source |-> tokens per tick
    Burst,      \* source |-> capacity
    NoBucket    \* the source has not been used since the process started

ASSUME RateAssumption ==
    /\ Rate \in [Source -> Nat]
    /\ Burst \in [Source -> Nat]
    /\ NoBucket \notin [tokens : Int, last : Int]

VARIABLES
    buckets,    \* source |-> bucket
    admitted    \* history: source |-> the stamps admitted since the process started

limiterVars == <<buckets, admitted>>

\* NewLimiter
LimiterInit ==
    /\ buckets = [s \in Source |-> NoBucket]
    /\ admitted = [s \in Source |-> <<>>]

AtMost(n, bound) == IF n > bound THEN bound ELSE n

\* Mutant: a stamp before the last one takes no tokens back, and counts the time between them twice.
RefilledForward(s, now) ==
    [tokens |-> IF buckets[s] = NoBucket THEN Burst[s]
                ELSE IF now < buckets[s].last THEN buckets[s].tokens
                ELSE AtMost(buckets[s].tokens + Rate[s] * (now - buckets[s].last), Burst[s]),
     last |-> now]

\* The bucket with the tokens that have come in until now, or without those of the time since
\* now when the last stamp was a later one; a new one is full.
Refilled(s, now) ==
    [tokens |-> IF buckets[s] = NoBucket THEN Burst[s]
                ELSE AtMost(buckets[s].tokens + Rate[s] * (now - buckets[s].last), Burst[s]),
     last |-> now]

\* Allow returns true.
Admits(s, now) == Refilled(s, now).tokens >= 1

Allow(s, now) ==
    IF Admits(s, now)
    THEN /\ buckets' = [buckets EXCEPT ![s] = [tokens |-> Refilled(s, now).tokens - 1, last |-> now]]
         /\ admitted' = [admitted EXCEPT ![s] = Append(@, now)]
    ELSE /\ buckets' = [buckets EXCEPT ![s] = Refilled(s, now)]
         /\ UNCHANGED admitted

\* The process ends, and its limiters with it.
ForgetBuckets ==
    /\ buckets' = [s \in Source |-> NoBucket]
    /\ admitted' = [s \in Source |-> <<>>]

\* Between any two admissions of a source, in the order the mutex gave them, a process lets
\* in no more than the burst and what the rate allows for the time between their stamps,
\* even when the stamps run backwards.
AdmissionIsBounded ==
    \A s \in Source : \A i, j \in 1 .. Len(admitted[s]) :
        i <= j => j - i + 1 <= Burst[s] + Rate[s] * (admitted[s][j] - admitted[s][i])
=============================================================================
