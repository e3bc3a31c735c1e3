------------------------------ MODULE Startup ------------------------------
(***************************************************************************)
(* How the processes of a deployment start: the server and the worker load *)
(* their configuration, apply the migrations under an advisory lock, set   *)
(* up the stream and the consumer, and serve.  They start in any order and *)
(* with any two builds beside each other, and die at any moment.           *)
(***************************************************************************)
EXTENDS Configuration, Sequences, FiniteSets

CONSTANTS
    Server, Worker,     \* processes
    Build,              \* process |-> ExpectedMigrationVersion, the last migration embedded
    Environment,        \* environments a process may be started in
    NoConfig,           \* the process is down
    Nobody,             \* nobody holds the migration lock
    NoConsumer,         \* the durable consumer does not exist
    MaxStarts           \* bound: times each process is started

Process == Server \cup Worker

ASSUME StartupAssumption ==
    /\ Nobody \notin Process
    /\ \A p \in Process : Build[p] \in Nat

VARIABLES
    stage,              \* how far a process is
    config,             \* the configuration it runs with
    migrating,          \* the migration whose transaction it is about to commit, or 0
    migrationLock,      \* pg_advisory_lock(72719331)
    recorded,           \* schema_migrations
    executed,           \* history: the migrations executed, in order
    stream,             \* whether the stream exists
    consumer,           \* MaxDeliver of the durable consumer
    reconciledBy,       \* history: the worker that set it last
    starts

startupVars == <<stage, config, migrating, migrationLock, recorded, executed, stream, consumer,
                 reconciledBy, starts>>

StartupInit ==
    /\ stage = [p \in Process |-> "down"]
    /\ config = [p \in Process |-> NoConfig]
    /\ migrating = [p \in Process |-> 0]
    /\ migrationLock = Nobody
    /\ recorded = {}
    /\ executed = <<>>
    /\ stream = FALSE
    /\ consumer \in {NoConsumer, 5}
    /\ reconciledBy = Nobody
    /\ starts \in [Process -> 0 .. MaxStarts]

-----------------------------------------------------------------------------
Enter(p, s) == stage' = [stage EXCEPT ![p] = s]

\* config.Load and storage.Open; a process that is refused ends.
Load(p) ==
    /\ stage[p] = "down" /\ starts[p] < MaxStarts
    /\ starts' = [starts EXCEPT ![p] = @ + 1]
    /\ \E e \in Environment :
         IF LoadAccepts(e)
         THEN /\ config' = [config EXCEPT ![p] = Parsed(e)]
              /\ Enter(p, IF Parsed(e).autoMigrate THEN "locking" ELSE "connecting")
         ELSE UNCHANGED <<config, stage>>
    /\ UNCHANGED <<migrating, migrationLock, recorded, executed, stream, consumer, reconciledBy>>

\* pg_advisory_lock
LockMigrations(p) ==
    /\ stage[p] = "locking" /\ migrationLock = Nobody
    /\ migrationLock' = p
    /\ Enter(p, "migrating")
    /\ UNCHANGED <<config, migrating, recorded, executed, stream, consumer, reconciledBy, starts>>

\* The embedded migrations, in the order of their numbers, that have no row yet.
Missing(p) == {v \in 1 .. Build[p] : v \notin recorded}

\* The query for the next migration, and the statements of its transaction.
BeginMigration(p) ==
    /\ stage[p] = "migrating" /\ migrating[p] = 0
    /\ \E v \in Missing(p) :
         /\ \A w \in Missing(p) : v <= w
         /\ migrating' = [migrating EXCEPT ![p] = v]
    /\ UNCHANGED <<stage, config, migrationLock, recorded, executed, stream, consumer, reconciledBy,
                   starts>>

\* Mutant: the migration is not undone when its row is not written.
CommitMigrationApart(p) ==
    /\ stage[p] = "migrating" /\ migrating[p] # 0 /\ migrating[p] \notin recorded
    /\ executed' = Append(executed, migrating[p])
    /\ recorded' \in {recorded, recorded \cup {migrating[p]}}
    /\ migrating' = [migrating EXCEPT ![p] = 0]
    /\ UNCHANGED <<stage, config, migrationLock, stream, consumer, reconciledBy, starts>>

\* The migration and its row are committed together; a second row would not be.
CommitMigration(p) ==
    /\ stage[p] = "migrating" /\ migrating[p] # 0 /\ migrating[p] \notin recorded
    /\ executed' = Append(executed, migrating[p])
    /\ recorded' = recorded \cup {migrating[p]}
    /\ migrating' = [migrating EXCEPT ![p] = 0]
    /\ UNCHANGED <<stage, config, migrationLock, stream, consumer, reconciledBy, starts>>

\* Mutant: the lock stays with the pooled connection.
UnlockMigrationsLater(p) ==
    /\ stage[p] = "migrating" /\ migrating[p] = 0
    /\ Missing(p) = {}
    /\ Enter(p, "connecting")
    /\ UNCHANGED <<config, migrating, migrationLock, recorded, executed, stream, consumer,
                   reconciledBy, starts>>

\* The end of the loop, and the deferred unlock.
UnlockMigrations(p) ==
    /\ stage[p] = "migrating" /\ migrating[p] = 0
    /\ Missing(p) = {}
    /\ migrationLock' = Nobody
    /\ Enter(p, "connecting")
    /\ UNCHANGED <<config, migrating, recorded, executed, stream, consumer, reconciledBy, starts>>

\* messaging.Connect with ensureStream; a server then serves, a worker subscribes.
Connect(p) ==
    /\ stage[p] = "connecting"
    /\ stream' = TRUE
    /\ Enter(p, IF p \in Worker THEN "updating" ELSE "serving")
    /\ UNCHANGED <<config, migrating, migrationLock, recorded, executed, consumer, reconciledBy,
                   starts>>

\* The MaxDeliver of SubscriptionWithMaxDeliveries.
MaxDeliverOf(p) == IF config[p].maxDeliveries < 2 THEN 5 ELSE config[p].maxDeliveries

\* The consumer has the configuration of p, which begins to work.
Subscribed(p) ==
    /\ consumer' = MaxDeliverOf(p)
    /\ reconciledBy' = p
    /\ Enter(p, "serving")

\* UpdateConsumer, the first and the last call of reconcileConsumer.
UpdateConsumer(p) ==
    /\ stage[p] = "updating"
    /\ IF consumer = NoConsumer THEN Enter(p, "adding") /\ UNCHANGED <<consumer, reconciledBy>>
       ELSE Subscribed(p)
    /\ UNCHANGED <<config, migrating, migrationLock, recorded, executed, stream, starts>>

\* Mutant: whoever finds the name in use takes the consumer as it is.
AddConsumerAsItIs(p) ==
    /\ stage[p] = "adding"
    /\ consumer' = IF consumer = NoConsumer THEN MaxDeliverOf(p) ELSE consumer
    /\ reconciledBy' = p
    /\ Enter(p, "serving")
    /\ UNCHANGED <<config, migrating, migrationLock, recorded, executed, stream, starts>>

\* AddConsumer succeeds when the consumer does not exist, or exists with this configuration.
\* Otherwise another worker has added it since, and it is updated once more.
AddConsumer(p) ==
    /\ stage[p] = "adding"
    /\ IF consumer \in {NoConsumer, MaxDeliverOf(p)} THEN Subscribed(p)
       ELSE Enter(p, "updating") /\ UNCHANGED <<consumer, reconciledBy>>
    /\ UNCHANGED <<config, migrating, migrationLock, recorded, executed, stream, starts>>

\* The process dies or a step fails: its transaction is rolled back, and the lock goes with
\* the connection.
Die(p) ==
    /\ stage[p] # "down"
    /\ Enter(p, "down")
    /\ config' = [config EXCEPT ![p] = NoConfig]
    /\ migrating' = [migrating EXCEPT ![p] = 0]
    /\ migrationLock' = IF migrationLock = p THEN Nobody ELSE migrationLock
    /\ UNCHANGED <<recorded, executed, stream, consumer, reconciledBy, starts>>

StartupStep(p) ==
    \/ LockMigrations(p) \/ BeginMigration(p) \/ CommitMigration(p) \/ UnlockMigrations(p)
    \/ Connect(p) \/ UpdateConsumer(p) \/ AddConsumer(p)

-----------------------------------------------------------------------------
\* The process has left Migrate.
Migrated(p) == stage[p] \notin {"down", "locking", "migrating"} /\ config[p].autoMigrate

\* MigrationVersion, the greatest recorded migration, is the one the build expects.
HasExpectedVersion(p) == Build[p] \in recorded \cup {0} /\ \A v \in recorded : v <= Build[p]

\* /readyz of the server, and of the worker, which answers before it has subscribed.
Ready(p) ==
    /\ stage[p] \in {"updating", "adding", "serving"}
    /\ HasExpectedVersion(p)
    /\ stream

\* A migration is executed once, and after the ones before it, however many processes start
\* together, die in the middle or have other builds.  A process that migrates by itself works
\* only on a schema that has all of its migrations; and one that reports ready, which looks
\* at the greatest migration only, on exactly the schema of its build.
MigrationsAreOrdered ==
    /\ recorded = 1 .. Len(executed)
    /\ \A i \in 1 .. Len(executed) : executed[i] = i
    /\ \A p \in Process :
         /\ Migrated(p) => 1 .. Build[p] \subseteq recorded
         /\ Ready(p) => Len(executed) = Build[p]

\* The worker dead-letters an event at its own limit, the consumer stops delivering it at
\* its MaxDeliver: both are the same for the worker that subscribed last, when workers with
\* other limits find, add and update the consumer beside it.
LimitsAgree ==
    reconciledBy # Nobody /\ config[reconciledBy] # NoConfig /\ stage[reconciledBy] = "serving" =>
        consumer = config[reconciledBy].maxDeliveries

\* A process that has started serves, or dies: the migration lock is never left behind.
StartsFinish ==
    \A p \in Process : stage[p] # "down" ~> stage[p] \in {"serving", "down"}
=============================================================================
