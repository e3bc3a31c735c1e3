--------------------------- MODULE GatewayProofs ---------------------------
(***************************************************************************)
(* Proofs, for all processes, builds, rates, windows and requests, that    *)
(* the migrations are applied in order, that the worker and its consumer   *)
(* agree on the limit of deliveries, that a limiter admits no more than    *)
(* its rate and burst, that a signed request is stored once, and that an   *)
(* accepted one stays in the replay cache for a whole window.              *)
(***************************************************************************)
EXTENDS Gateway, TLAPS

\* Zenon is tried first, and a step it is not made for cites the SMT solver.  Both get more time
\* than by default: preparing the next step counts against it.
USE ZenonT(30), SMTT(30)

-----------------------------------------------------------------------------
(* The start of the processes.                                             *)

\* What is applied is a prefix of the migrations; only the holder of the lock migrates, and
\* the migration it is about to commit is the next one.
MigrationInv ==
    /\ executed \in Seq(Nat)
    /\ recorded = 1 .. Len(executed)
    /\ \A i \in 1 .. Len(executed) : executed[i] = i
    /\ DOMAIN stage = Process /\ DOMAIN config = Process /\ DOMAIN migrating = Process
    /\ \A p \in Process : stage[p] = "migrating" => migrationLock = p
    /\ \A p \in Process : migrating[p] # 0 =>
         stage[p] = "migrating" /\ migrating[p] = Len(executed) + 1
    /\ \A p \in Process : Migrated(p) => 1 .. Build[p] \subseteq recorded

\* The invariant holds when nothing has been started.
LEMMA MigrationInit == StartupInit => MigrationInv
BY StartupAssumption, SMTT(30) DEF StartupInit, MigrationInv, Migrated

\* It survives every step of starting and the end of any process.
LEMMA LoadKeepsMigrations ==
    ASSUME MigrationInv, NEW p \in Process, Load(p)
    PROVE  MigrationInv'
BY SMTT(30) DEF MigrationInv, Load, Enter, Migrated

\* Whoever migrates holds the lock, so the list it read is still the list.
LEMMA StepKeepsMigrations ==
    ASSUME MigrationInv, NEW p \in Process, StartupStep(p)
    PROVE  MigrationInv'
<1> USE StartupAssumption
<1>1. CASE LockMigrations(p)
  BY <1>1 DEF MigrationInv, LockMigrations, Enter, Migrated
<1>2. CASE BeginMigration(p)
  <2>1. PICK v \in Missing(p) : /\ \A w \in Missing(p) : v <= w
                                /\ migrating' = [migrating EXCEPT ![p] = v]
    BY <1>2 DEF BeginMigration
  <2>2. v = Len(executed) + 1
    BY <2>1, SMTT(30) DEF Missing, MigrationInv
  <2> QED
    BY <1>2, <2>1, <2>2 DEF MigrationInv, BeginMigration, Migrated
<1>3. CASE CommitMigration(p)
  <2>1. migrating[p] = Len(executed) + 1
    BY <1>3 DEF CommitMigration, MigrationInv
  <2>2. /\ executed' \in Seq(Nat)
        /\ Len(executed') = Len(executed) + 1
        /\ recorded' = 1 .. Len(executed')
        /\ \A i \in 1 .. Len(executed') : executed'[i] = i
    BY <1>3, <2>1, SMTT(30) DEF CommitMigration, MigrationInv
  <2>3. \A q \in Process : q # p => migrating[q] = 0
    BY <1>3 DEF CommitMigration, MigrationInv
  <2> QED
    BY <1>3, <2>2, <2>3 DEF CommitMigration, MigrationInv, Migrated
<1>4. CASE UnlockMigrations(p)
  <2>1. 1 .. Build[p] \subseteq recorded
    BY <1>4 DEF UnlockMigrations, Missing
  <2> QED
    BY <1>4, <2>1 DEF UnlockMigrations, MigrationInv, Enter, Migrated
<1>5. CASE Connect(p)
  BY <1>5 DEF Connect, MigrationInv, Enter, Migrated
<1>6. CASE UpdateConsumer(p)
  BY <1>6, SMTT(30) DEF UpdateConsumer, Subscribed, MigrationInv, Enter, Migrated
<1>7. CASE AddConsumer(p)
  BY <1>7, SMTT(30) DEF AddConsumer, Subscribed, MigrationInv, Enter, Migrated
<1> QED
  BY <1>1, <1>2, <1>3, <1>4, <1>5, <1>6, <1>7 DEF StartupStep

\* A process that dies leaves a prefix of the migrations, and the lock free.
LEMMA DieKeepsMigrations ==
    ASSUME MigrationInv, NEW p \in Process, Die(p)
    PROVE  MigrationInv'
BY DEF MigrationInv, Die, Enter, Migrated

\* No step of the gateway touches the migrations but those of starting.
LEMMA MigrationNext == MigrationInv /\ [Next]_vars => MigrationInv'
<1> SUFFICES ASSUME MigrationInv, [Next]_vars
             PROVE  MigrationInv'
  OBVIOUS
<1>1. CASE UNCHANGED startupVars
  BY <1>1 DEF startupVars, MigrationInv, Migrated
<1>2. ASSUME NEW p \in Process, Starting(p)
      PROVE  MigrationInv'
  BY <1>2, LoadKeepsMigrations, StepKeepsMigrations DEF Starting
<1>3. ASSUME NEW p \in Process, Stop(p)
      PROVE  MigrationInv'
  BY <1>3, DieKeepsMigrations DEF Stop
<1>4. ASSUME NEW h \in Handler, Handling(h)
      PROVE  UNCHANGED startupVars
  BY <1>4 DEF Handling, Receive, Limit, Verify, Reject, Publish, Accept, Release
<1>5. ASSUME NEW m \in late, ArriveLate(m) \/ Vanish(m)
      PROVE  UNCHANGED startupVars
  BY <1>5 DEF ArriveLate, Vanish
<1>6. Tick => UNCHANGED startupVars
  BY DEF Tick
<1> QED
  BY <1>1, <1>2, <1>3, <1>4, <1>5, <1>6 DEF Next, vars

\* Store.Migrate: the migrations are applied once and in order, and a process that is ready
\* has exactly those of its build, however processes of any builds start, race and die.
THEOREM MigrationsStayOrdered == Spec => []MigrationsAreOrdered
<1>1. Init => MigrationInv
  BY MigrationInit DEF Init
<1>2. MigrationInv => MigrationsAreOrdered
  <2> SUFFICES ASSUME MigrationInv, NEW p \in Process, Ready(p)
               PROVE  Len(executed) = Build[p]
    BY DEF MigrationInv, MigrationsAreOrdered
  <2> QED
    BY StartupAssumption, SMTT(30) DEF MigrationInv, Ready, HasExpectedVersion
<1> QED
  BY <1>1, <1>2, MigrationNext, PTL DEF Spec

-----------------------------------------------------------------------------
(* The configurations, and the limits on deliveries.                       *)

\* A process that is not down runs with what config.Load made of some environment it accepts.
ConfigInv ==
    /\ DOMAIN stage = Process /\ DOMAIN config = Process
    /\ \A p \in Process : stage[p] # "down" =>
         \E e \in Environment : LoadAccepts(e) /\ config[p] = Parsed(e)

\* A step of starting after the configuration is loaded keeps it, and starts one process.
LEMMA StepKeepsConfig ==
    ASSUME ConfigInv, NEW p \in Process, StartupStep(p)
    PROVE  /\ config' = config /\ stage[p] # "down" /\ DOMAIN stage' = Process
           /\ \A q \in Process : q # p => stage'[q] = stage[q]
<1>1. config' = config /\ stage[p] # "down"
  BY DEF StartupStep, LockMigrations, BeginMigration, CommitMigration, UnlockMigrations, Connect,
       UpdateConsumer, AddConsumer
<1>2. stage' = stage \/ \E s : Enter(p, s)
  BY DEF StartupStep, LockMigrations, BeginMigration, CommitMigration, UnlockMigrations, Connect,
       UpdateConsumer, AddConsumer, Subscribed
<1>3. DOMAIN stage = Process
  BY DEF ConfigInv
<1>4. DOMAIN stage' = Process /\ \A q \in Process : q # p => stage'[q] = stage[q]
  BY <1>2, <1>3 DEF Enter
<1> QED
  BY <1>1, <1>4

\* What loading a configuration does: the process is refused, or has one that is accepted.
LEMMA LoadKeepsConfig ==
    ASSUME ConfigInv, NEW p \in Process, Load(p)
    PROVE  \/ config' = config /\ stage' = stage
           \/ /\ stage[p] = "down" /\ stage'[p] \in {"locking", "connecting"}
              /\ DOMAIN stage' = Process /\ DOMAIN config' = Process
              /\ \E e \in Environment : LoadAccepts(e) /\ config'[p] = Parsed(e)
              /\ \A q \in Process : q # p => stage'[q] = stage[q] /\ config'[q] = config[q]
<1>1. PICK e \in Environment :
        IF LoadAccepts(e)
        THEN /\ config' = [config EXCEPT ![p] = Parsed(e)]
             /\ Enter(p, IF Parsed(e).autoMigrate THEN "locking" ELSE "connecting")
        ELSE UNCHANGED <<config, stage>>
  BY DEF Load
<1>2. CASE LoadAccepts(e)
  <2>1. DOMAIN stage = Process /\ DOMAIN config = Process
    BY DEF ConfigInv
  <2>2. stage[p] = "down"
    BY DEF Load
  <2>3. config' = [config EXCEPT ![p] = Parsed(e)]
    BY <1>1, <1>2
  <2>4. Enter(p, "locking") \/ Enter(p, "connecting")
    BY <1>1, <1>2
  <2>5. DOMAIN config' = Process /\ config'[p] = Parsed(e)
        /\ \A q \in Process : q # p => config'[q] = config[q]
    BY <2>1, <2>3
  <2>6. DOMAIN stage' = Process /\ stage'[p] \in {"locking", "connecting"}
        /\ \A q \in Process : q # p => stage'[q] = stage[q]
    BY <2>1, <2>4 DEF Enter
  <2> QED
    BY <1>2, <2>2, <2>5, <2>6
<1>3. CASE ~LoadAccepts(e)
  BY <1>1, <1>3
<1> QED
  BY <1>2, <1>3

\* A process that dies has no configuration; the others keep theirs.
LEMMA DieKeepsConfig ==
    ASSUME ConfigInv, NEW p \in Process, Die(p)
    PROVE  /\ DOMAIN stage' = Process /\ DOMAIN config' = Process
           /\ stage'[p] = "down"
           /\ \A q \in Process : q # p => stage'[q] = stage[q] /\ config'[q] = config[q]
BY DEF ConfigInv, Die, Enter

\* Nothing but starting and dying touches what the processes start with.
LEMMA OthersKeepStartup ==
    ASSUME [Next]_vars, ~\E p \in Process : Starting(p) \/ Stop(p)
    PROVE  UNCHANGED startupVars
<1>1. ASSUME NEW h \in Handler, Handling(h)
      PROVE  UNCHANGED startupVars
  BY <1>1 DEF Handling, Receive, Limit, Verify, Reject, Publish, Accept, Release
<1>2. ASSUME NEW m \in late, ArriveLate(m) \/ Vanish(m)
      PROVE  UNCHANGED startupVars
  BY <1>2 DEF ArriveLate, Vanish
<1>3. Tick => UNCHANGED startupVars
  BY DEF Tick
<1> QED
  BY <1>1, <1>2, <1>3 DEF Next, vars

\* No process is ever past Load without an accepted configuration.
LEMMA ConfigNext == ConfigInv /\ [Next]_vars => ConfigInv'
<1> SUFFICES ASSUME ConfigInv, [Next]_vars
             PROVE  ConfigInv'
  OBVIOUS
<1>1. CASE UNCHANGED startupVars
  BY <1>1 DEF startupVars, ConfigInv
<1>2. ASSUME NEW p \in Process, Load(p)
      PROVE  ConfigInv'
  BY <1>2, LoadKeepsConfig DEF ConfigInv
<1>3. ASSUME NEW p \in Process, StartupStep(p)
      PROVE  ConfigInv'
  BY <1>3, StepKeepsConfig DEF ConfigInv
<1>4. ASSUME NEW p \in Process, Die(p)
      PROVE  ConfigInv'
  BY <1>4, DieKeepsConfig DEF ConfigInv
<1> QED
  BY <1>1, <1>2, <1>3, <1>4, OthersKeepStartup DEF Starting, Stop

\* The consumer is set by workers alone, and only a worker is on its way to set it.
LimitsInv ==
    /\ reconciledBy \in Worker \cup {Nobody}
    /\ \A p \in Process : stage[p] \in {"updating", "adding"} => p \in Worker
    /\ LimitsAgree

\* A worker that subscribes gives the consumer the limit it works with: a configuration with
\* fewer than two deliveries, which the consumer would not take as it is, is never accepted.
LEMMA SubscribedAgrees ==
    ASSUME ConfigInv, NEW p \in Process, p \in Worker, stage[p] # "down", Subscribed(p),
           config' = config
    PROVE  reconciledBy' = p /\ LimitsAgree'
<1>1. PICK e \in Environment : LoadAccepts(e) /\ config[p] = Parsed(e)
  BY DEF ConfigInv
<1>2. config[p].maxDeliveries \in 2 .. 100
  BY <1>1, SMTT(30) DEF LoadAccepts
<1>3. consumer' = config[p].maxDeliveries /\ reconciledBy' = p
  BY <1>2, SMTT(30) DEF Subscribed, MaxDeliverOf
<1> QED
  BY <1>3 DEF LimitsAgree

\* The limits agree whatever process starts, subscribes or dies.
LEMMA LimitsNext == ConfigInv /\ LimitsInv /\ [Next]_vars => LimitsInv'
<1> SUFFICES ASSUME ConfigInv, LimitsInv, [Next]_vars
             PROVE  LimitsInv'
  OBVIOUS
<1>0. /\ reconciledBy \in Worker \cup {Nobody}
      /\ Worker \subseteq Process /\ Nobody \notin Process
      /\ DOMAIN stage = Process
      /\ \A p \in Process : stage[p] \in {"updating", "adding"} => p \in Worker
      /\ LimitsAgree
  BY StartupAssumption DEF LimitsInv, ConfigInv, Process
<1>1. CASE UNCHANGED startupVars
  BY <1>1 DEF startupVars, LimitsInv, LimitsAgree
<1>2. ASSUME NEW p \in Process, UNCHANGED <<consumer, reconciledBy>>,
             stage'[p] \notin {"updating", "adding", "serving"},
             \A q \in Process : q # p => stage'[q] = stage[q] /\ config'[q] = config[q]
      PROVE  LimitsInv'
  <2>1. \A q \in Process : stage'[q] \in {"updating", "adding"} => q \in Worker
    BY <1>0, <1>2
  <2>2. LimitsAgree'
    BY <1>0, <1>2 DEF LimitsAgree
  <2> QED
    BY <1>0, <1>2, <2>1, <2>2 DEF LimitsInv
<1>3. ASSUME NEW p \in Process, Load(p)
      PROVE  LimitsInv'
  <2>1. UNCHANGED <<consumer, reconciledBy>>
    BY <1>3 DEF Load
  <2>2. CASE config' = config /\ stage' = stage
    BY <2>1, <2>2 DEF LimitsInv, LimitsAgree
  <2> QED
    BY <1>2, <1>3, <2>1, <2>2, LoadKeepsConfig
<1>4. ASSUME NEW p \in Process, Die(p)
      PROVE  LimitsInv'
  <2>1. UNCHANGED <<consumer, reconciledBy>>
    BY <1>4 DEF Die
  <2> QED
    BY <1>2, <1>4, <2>1, DieKeepsConfig
<1>5. ASSUME NEW p \in Process, StartupStep(p)
      PROVE  LimitsInv'
  <2>1. /\ config' = config /\ stage[p] # "down"
        /\ \A q \in Process : q # p => stage'[q] = stage[q]
    BY <1>5, StepKeepsConfig
  <2>2. CASE BeginMigration(p) \/ CommitMigration(p)
    BY <2>1, <2>2 DEF BeginMigration, CommitMigration, LimitsInv, LimitsAgree
  <2>3. CASE LockMigrations(p) \/ UnlockMigrations(p)
    <3>1. UNCHANGED <<consumer, reconciledBy>> /\ stage'[p] \in {"migrating", "connecting"}
      BY <1>0, <2>3 DEF LockMigrations, UnlockMigrations, Enter
    <3> QED
      BY <1>2, <2>1, <3>1
  <2>4. CASE Connect(p)
    <3>1. /\ UNCHANGED <<consumer, reconciledBy>>
          /\ stage'[p] = IF p \in Worker THEN "updating" ELSE "serving"
      BY <1>0, <2>4 DEF Connect, Enter
    <3>2. \A q \in Process : stage'[q] \in {"updating", "adding"} => q \in Worker
      BY <1>0, <2>1, <3>1
    <3>3. LimitsAgree'
      BY <1>0, <2>1, <3>1 DEF LimitsAgree
    <3> QED
      BY <1>0, <3>1, <3>2, <3>3 DEF LimitsInv
  <2>5. CASE UpdateConsumer(p) \/ AddConsumer(p)
    <3>1. p \in Worker
      BY <1>0, <2>5 DEF UpdateConsumer, AddConsumer
    <3>2. CASE Subscribed(p)
      <4>1. stage'[p] = "serving"
        BY <1>0, <3>2 DEF Subscribed, Enter
      <4>2. \A q \in Process : stage'[q] \in {"updating", "adding"} => q \in Worker
        BY <1>0, <2>1, <4>1
      <4> QED
        BY <2>1, <3>1, <3>2, <4>2, SubscribedAgrees DEF LimitsInv
    <3>3. CASE ~Subscribed(p)
      <4>1. UNCHANGED <<consumer, reconciledBy>> /\ stage'[p] \in {"updating", "adding"}
        BY <1>0, <2>5, <3>3 DEF UpdateConsumer, AddConsumer, Enter
      <4>2. \A q \in Process : stage'[q] \in {"updating", "adding"} => q \in Worker
        BY <1>0, <2>1, <3>1
      <4>3. LimitsAgree'
        BY <1>0, <2>1, <4>1 DEF LimitsAgree
      <4> QED
        BY <1>0, <4>1, <4>2, <4>3 DEF LimitsInv
    <3> QED
      BY <3>2, <3>3
  <2> QED
    BY <1>5, <2>2, <2>3, <2>4, <2>5 DEF StartupStep
<1> QED
  BY <1>1, <1>3, <1>4, <1>5, OthersKeepStartup DEF Starting, Stop

\* reconcileConsumer: while the worker that subscribed last serves, the consumer stops at the
\* very delivery at which this worker dead-letters, whatever races it to create the consumer.
THEOREM LimitsStayEqual == Spec => []LimitsAgree
<1>1. Init => ConfigInv /\ LimitsInv
  BY StartupAssumption, SMTT(30) DEF Init, StartupInit, ConfigInv, LimitsInv, LimitsAgree
<1>2. LimitsInv => LimitsAgree
  BY DEF LimitsInv
<1> QED
  BY <1>1, <1>2, ConfigNext, LimitsNext, PTL DEF Spec

-----------------------------------------------------------------------------
(* The handlers.                                                           *)

\* A handler that has a request belongs to a server that is serving; its times are numbers.
HandlerInv ==
    /\ clock \in Int
    /\ DOMAIN stage = Process
    /\ handlers \in [Handler -> [stage : {"idle", "stamped", "admitted", "reserved", "published"},
                                 request : Request \cup {NoRequest}, at : Int]]
    /\ \A h \in Handler : handlers[h].stage # "idle" =>
         handlers[h].request \in Request /\ stage[TheServer] = "serving"

\* No handler runs at first.
LEMMA HandlerInit == Init => HandlerInv
BY SMTT(30) DEF Init, StartupInit, HandlerInv, Idle

\* A handler that runs has a request, and a server that serves it.
LEMMA HandlerNext == HandlerInv /\ [Next]_vars => HandlerInv'
<1> SUFFICES ASSUME HandlerInv, [Next]_vars
             PROVE  HandlerInv'
  OBVIOUS
<1> USE GatewayAssumption
<1>1. CASE UNCHANGED vars
  BY <1>1 DEF vars, handlerVars, startupVars, HandlerInv
<1>2. ASSUME NEW p \in Process, Starting(p)
      PROVE  HandlerInv'
  <2>1. UNCHANGED <<clock, handlers>>
    BY <1>2 DEF Starting, handlerVars
  <2>2. stage[p] # "serving" /\ DOMAIN stage' = Process
        /\ \A q \in Process : q # p => stage'[q] = stage[q]
    BY <1>2 DEF Starting, Load, StartupStep, LockMigrations, BeginMigration, CommitMigration,
         UnlockMigrations, Connect, UpdateConsumer, AddConsumer, Subscribed, Enter, HandlerInv
  <2> QED
    BY <2>1, <2>2 DEF HandlerInv, Process
<1>3. ASSUME NEW p \in Process, Stop(p)
      PROVE  HandlerInv'
  <2>1. clock' = clock /\ DOMAIN stage' = Process
        /\ \A q \in Process : q # p => stage'[q] = stage[q]
    BY <1>3 DEF Stop, Die, Enter, HandlerInv
  <2>2. CASE p = TheServer
    <3>1. handlers' = [h \in Handler |-> Idle]
      BY <1>3, <2>2 DEF Stop
    <3> QED
      BY <2>1, <3>1, SMTT(30) DEF HandlerInv, Idle
  <2>3. CASE p # TheServer
    <3>1. handlers' = handlers
      BY <1>3, <2>3 DEF Stop
    <3> QED
      BY <2>1, <2>3, <3>1 DEF HandlerInv, Process
  <2> QED
    BY <2>2, <2>3
<1>4. ASSUME NEW h \in Handler, Handling(h)
      PROVE  HandlerInv'
  <2>1. stage' = stage /\ clock' = clock
    BY <1>4 DEF Handling, Receive, Limit, Verify, Reject, Publish, Accept, Release, startupVars
  <2>2. ASSUME NEW r \in Request, Receive(h, r)
        PROVE  HandlerInv'
    BY <2>1, <2>2 DEF Receive, HandlerInv
  <2>3. CASE Answer(h)
    BY <2>1, <2>3, SMTT(30) DEF Answer, Idle, HandlerInv
  <2>4. ASSUME NEW s \in {"admitted", "reserved", "published"}, NEW at \in Int,
               Becomes(h, s, at), handlers[h].stage # "idle"
        PROVE  HandlerInv'
    BY <2>1, <2>4 DEF Becomes, HandlerInv
  <2>5. clock \in Int /\ handlers[h].at \in Int
    BY DEF HandlerInv
  <2> QED
    BY <1>4, <2>2, <2>3, <2>4, <2>5 DEF Handling, Limit, Verify, Reject, Publish, Accept, Release
<1>5. ASSUME NEW m \in late, ArriveLate(m) \/ Vanish(m)
      PROVE  HandlerInv'
  BY <1>5 DEF ArriveLate, Vanish, HandlerInv, startupVars
<1>6. CASE Tick
  BY <1>6, SMTT(30) DEF Tick, HandlerInv, startupVars
<1> QED
  BY <1>1, <1>2, <1>3, <1>4, <1>5, <1>6 DEF Next

-----------------------------------------------------------------------------
(* The limiter.                                                            *)

\* From any admission on, the requests let in and the tokens that are left are together no
\* more than the burst and what has come in until the last use of the bucket.
LimiterInv ==
    /\ admitted \in [Source -> Seq(Int)]
    /\ buckets \in [Source -> [tokens : Int, last : Int] \cup {NoBucket}]
    /\ \A s \in Source : buckets[s] = NoBucket => admitted[s] = <<>>
    /\ \A s \in Source : buckets[s] # NoBucket =>
         /\ buckets[s].tokens <= Burst[s]
         /\ \A i \in 1 .. Len(admitted[s]) :
              Len(admitted[s]) - i + 1 + buckets[s].tokens
                  <= Burst[s] + Rate[s] * (buckets[s].last - admitted[s][i])
    /\ AdmissionIsBounded

\* What the limiter multiplies are integers.
LEMMA ProductIsInt ==
    ASSUME NEW a \in Int, NEW b \in Int
    PROVE  a * b \in Int
BY SMTT(30)

\* What is earned over two intervals is what is earned over both together.
LEMMA RateAdds ==
    ASSUME NEW r \in Int, NEW x \in Int, NEW y \in Int, NEW z \in Int
    PROVE  r * (x - z) = r * (x - y) + r * (y - z)
BY SMTT(30)

\* A refill earns what the time since the last one allows, so a bound on tokens stays one.
LEMMA RefillAdds ==
    ASSUME NEW r \in Int, NEW now \in Int, NEW last \in Int, NEW a \in Int,
           NEW n \in Int, NEW t \in Int, NEW b \in Int,
           n + t <= b + r * (last - a)
    PROVE  n + (t + r * (now - last)) <= b + r * (now - a)
<1> DEFINE x == r * (now - last)
           y == r * (last - a)
           z == r * (now - a)
<1>1. z = x + y
  BY RateAdds, SMTT(30)
<1>2. x \in Int /\ y \in Int /\ z \in Int
  BY SMTT(30)
<1>3. n + t <= b + y
  OBVIOUS
<1> HIDE DEF x, y, z
<1>4. n + (t + x) <= b + z
  BY <1>1, <1>2, <1>3, SMTT(30)
<1> QED
  BY <1>4 DEF x, z

\* What comes in between two stamps, in any order, is what Refilled adds at most.
LEMMA RefillIsBounded ==
    ASSUME LimiterInv, NEW s \in Source, NEW now \in Int
    PROVE  /\ Refilled(s, now) \in [tokens : Int, last : Int]
           /\ Refilled(s, now).last = now
           /\ Refilled(s, now).tokens <= Burst[s]
           /\ \A i \in 1 .. Len(admitted[s]) :
                Len(admitted[s]) - i + 1 + Refilled(s, now).tokens
                    <= Burst[s] + Rate[s] * (now - admitted[s][i])
<1> USE RateAssumption
<1> Rate[s] \in Nat /\ Burst[s] \in Nat
  OBVIOUS
<1>1. CASE buckets[s] = NoBucket
  BY <1>1, SMTT(30) DEF LimiterInv, Refilled
<1>2. CASE buckets[s] # NoBucket
  <2> DEFINE t == buckets[s].tokens
             l == buckets[s].last
             inc == Rate[s] * (now - l)
  <2>1. t \in Int /\ l \in Int /\ inc \in Int
    BY <1>2, SMTT(30) DEF LimiterInv
  <2>2. Refilled(s, now) = [tokens |-> AtMost(t + inc, Burst[s]), last |-> now]
    BY <1>2 DEF Refilled
  <2>3. ASSUME NEW i \in 1 .. Len(admitted[s])
        PROVE  Len(admitted[s]) - i + 1 + (t + inc) <= Burst[s] + Rate[s] * (now - admitted[s][i])
    <3>1. admitted[s][i] \in Int /\ Len(admitted[s]) \in Nat
      BY SMTT(30) DEF LimiterInv
    <3>2. Len(admitted[s]) - i + 1 \in Int
      BY <3>1, SMTT(30)
    <3>3. Len(admitted[s]) - i + 1 + t <= Burst[s] + Rate[s] * (l - admitted[s][i])
      BY <1>2 DEF LimiterInv
    <3>4. Rate[s] \in Int /\ Burst[s] \in Int
      BY SMTT(30)
    <3>5. Len(admitted[s]) - i + 1 + (t + Rate[s] * (now - l))
              <= Burst[s] + Rate[s] * (now - admitted[s][i])
      <4> HIDE DEF t, l
      <4> HIDE RateAssumption
      <4> DEFINE n == Len(admitted[s]) - i + 1
                 a == admitted[s][i]
      <4>1. n \in Int /\ a \in Int /\ n + t <= Burst[s] + Rate[s] * (l - a)
        BY <3>1, <3>2, <3>3
      <4> HIDE DEF n, a
      <4>2. n + (t + Rate[s] * (now - l)) <= Burst[s] + Rate[s] * (now - a)
        BY <2>1, <3>4, <4>1, RefillAdds
      <4> QED
        BY <4>2 DEF n, a
    <3> QED
      BY <3>5
  <2>4. ASSUME NEW i \in 1 .. Len(admitted[s])
        PROVE  Rate[s] * (now - admitted[s][i]) \in Int /\ Len(admitted[s]) \in Nat
    <3>1. admitted[s][i] \in Int /\ Len(admitted[s]) \in Nat
      BY SMTT(30) DEF LimiterInv
    <3>2. Rate[s] \in Int /\ now - admitted[s][i] \in Int
      BY <3>1, SMTT(30)
    <3> QED
      BY <3>1, <3>2, ProductIsInt
  <2>5. AtMost(t + inc, Burst[s]) \in Int /\ AtMost(t + inc, Burst[s]) <= Burst[s]
        /\ AtMost(t + inc, Burst[s]) <= t + inc
    <3> HIDE DEF inc, t
    <3> QED
      BY <2>1, SMTT(30) DEF AtMost
  <2>6. ASSUME NEW i \in 1 .. Len(admitted[s])
        PROVE  Len(admitted[s]) - i + 1 + AtMost(t + inc, Burst[s])
                   <= Burst[s] + Rate[s] * (now - admitted[s][i])
    <3> DEFINE k == AtMost(t + inc, Burst[s])
               y == Rate[s] * (now - admitted[s][i])
    <3>1. k \in Int /\ y \in Int /\ k <= t + inc /\ Len(admitted[s]) \in Nat
          /\ Len(admitted[s]) - i + 1 + (t + inc) <= Burst[s] + y
      BY <2>3, <2>4, <2>5
    <3> HIDE DEF k, y, inc, t
    <3> HIDE RateAssumption
    <3> DEFINE n == Len(admitted[s]) - i + 1
               z == t + inc
    <3>2. n \in Int /\ z \in Int /\ Burst[s] \in Int /\ k <= z /\ n + z <= Burst[s] + y
      <4>1. n \in Int
        <5>1. Len(admitted[s]) \in Int /\ i \in Int
          BY <3>1, SMTT(30)
        <5> QED
          BY <5>1, SMTT(30)
      <4>2. z \in Int
        BY <2>1, SMTT(30)
      <4>3. Burst[s] \in Int
        BY SMTT(30)
      <4>4. k <= z /\ n + z <= Burst[s] + y
        BY <3>1
      <4> QED
        BY <4>1, <4>2, <4>3, <4>4
    <3> HIDE DEF n, z
    <3>3. n + k <= Burst[s] + y
      BY <3>1, <3>2, SMTT(30)
    <3> QED
      BY <3>3 DEF k, y, n
  <2> HIDE DEF inc, t, l
  <2> QED
    BY <2>2, <2>5, <2>6, SMTT(30)
<1> QED
  BY <1>1, <1>2

\* A request that is let in takes a token that was there.
LEMMA AllowKeepsLimiter ==
    ASSUME LimiterInv, NEW s \in Source, NEW now \in Int, Allow(s, now)
    PROVE  LimiterInv'
<1> USE RateAssumption
<1> DEFINE f == Refilled(s, now)
           n == Len(admitted[s])
<1>1. f \in [tokens : Int, last : Int] /\ f.last = now /\ f.tokens <= Burst[s]
  BY RefillIsBounded
<1>2. \A i \in 1 .. n : n - i + 1 + f.tokens <= Burst[s] + Rate[s] * (now - admitted[s][i])
  BY RefillIsBounded
<1>3. n \in Nat /\ admitted[s] \in Seq(Int) /\ Rate[s] \in Nat /\ Burst[s] \in Nat
  BY SMTT(30) DEF LimiterInv
<1>4. CASE ~Admits(s, now)
  <2>1. buckets' = [buckets EXCEPT ![s] = f] /\ admitted' = admitted
    BY <1>4 DEF Allow
  <2> HIDE DEF f
  <2>2. buckets'[s] = f /\ f # NoBucket
    BY <1>1, <2>1 DEF LimiterInv
  <2>3. \A q \in Source : q # s => buckets'[q] = buckets[q]
    BY <2>1 DEF LimiterInv
  <2>4. buckets' \in [Source -> [tokens : Int, last : Int] \cup {NoBucket}]
    BY <1>1, <2>1 DEF LimiterInv
  <2> QED
    BY <1>1, <1>2, <2>1, <2>2, <2>3, <2>4 DEF LimiterInv, AdmissionIsBounded
<1>5. CASE Admits(s, now)
  <2> DEFINE g == [tokens |-> f.tokens - 1, last |-> now]
  <2>1. buckets' = [buckets EXCEPT ![s] = g] /\ admitted' = [admitted EXCEPT ![s] = Append(@, now)]
        /\ f.tokens >= 1
    BY <1>5 DEF Allow, Admits
  <2> HIDE DEF f
  <2>2. g \in [tokens : Int, last : Int] /\ g.last = now /\ g.tokens = f.tokens - 1 /\ g # NoBucket
    BY <1>1, SMTT(30)
  <2> HIDE DEF g
  <2>3. /\ buckets' \in [Source -> [tokens : Int, last : Int] \cup {NoBucket}]
        /\ buckets'[s] = g
        /\ \A q \in Source : q # s => buckets'[q] = buckets[q]
    BY <2>1, <2>2 DEF LimiterInv
  <2>4. /\ admitted' \in [Source -> Seq(Int)]
        /\ Len(admitted'[s]) = n + 1
        /\ admitted'[s][n + 1] = now
        /\ \A i \in 1 .. n : admitted'[s][i] = admitted[s][i]
        /\ \A q \in Source : q # s => admitted'[q] = admitted[q]
    BY <1>3, <2>1, SMTT(30) DEF LimiterInv
  <2>5. \A i \in 1 .. n : n - i + 1 + f.tokens <= Burst[s] + Rate[s] * (now - admitted'[s][i])
    BY <1>2, <2>4
  <2>6. Rate[s] * (now - now) = 0
    BY <1>3, SMTT(30)
  <2>7. ASSUME NEW i \in 1 .. n + 1
        PROVE  (n + 1) - i + 1 + g.tokens <= Burst[s] + Rate[s] * (now - admitted'[s][i])
    <3>1. CASE i = n + 1
      BY <1>1, <1>3, <2>2, <2>4, <2>6, <3>1, SMTT(30)
    <3>2. CASE i \in 1 .. n
      <4> DEFINE y == Rate[s] * (now - admitted'[s][i])
      <4>1. n - i + 1 + f.tokens <= Burst[s] + y
        BY <2>5, <3>2
      <4>2. y \in Int
        <5>1. admitted'[s][i] \in Int
          BY <1>3, <2>4, <3>2, SMTT(30)
        <5>2. Rate[s] \in Int /\ now - admitted'[s][i] \in Int
          BY <1>3, <5>1, SMTT(30)
        <5> QED
          BY <5>2, ProductIsInt
      <4> HIDE DEF y
      <4>3. (n + 1) - i + 1 + g.tokens <= Burst[s] + y
        <5>1. n \in Int /\ Burst[s] \in Int /\ f.tokens \in Int /\ g.tokens = f.tokens - 1
          BY <1>1, <1>3, <2>2, SMTT(30)
        <5> HIDE DEF n
        <5>2. i \in Int
          BY <5>1, SMTT(30)
        <5> QED
          BY <4>1, <4>2, <5>1, <5>2, SMTT(30)
      <4> QED
        BY <4>3 DEF y
    <3>3. i = n + 1 \/ i \in 1 .. n
      <4> HIDE DEF n
      <4> QED
        BY <1>3, SMTT(30)
    <3> QED
      BY <3>1, <3>2, <3>3
  <2>8. ASSUME NEW i \in 1 .. n + 1, NEW j \in 1 .. n + 1, i <= j
        PROVE  j - i + 1 <= Burst[s] + Rate[s] * (admitted'[s][j] - admitted'[s][i])
    <3>1. CASE j = n + 1
      <4> DEFINE y == Rate[s] * (now - admitted'[s][i])
      <4>0. Rate[s] \in Int /\ now - admitted'[s][i] \in Int
        <5>1. admitted'[s] \in Seq(Int) /\ i \in 1 .. Len(admitted'[s])
          BY <2>4
        <5>2. admitted'[s][i] \in Int
          BY <5>1, SMTT(30)
        <5> QED
          BY <1>3, <5>2, SMTT(30)
      <4>1. y \in Int
        BY <4>0, ProductIsInt
      <4>2. (n + 1) - i + 1 + g.tokens <= Burst[s] + y
        BY <2>7
      <4> HIDE DEF y
      <4>3. j - i + 1 <= Burst[s] + y
        <5>1. n \in Int /\ g.tokens \in Int /\ g.tokens >= 0 /\ Burst[s] \in Int
          BY <1>1, <1>3, <2>1, <2>2, SMTT(30)
        <5> HIDE DEF n
        <5>2. i \in Int
          BY <5>1, SMTT(30)
        <5> QED
          BY <3>1, <4>1, <4>2, <5>1, <5>2, SMTT(30)
      <4> QED
        BY <2>4, <3>1, <4>3 DEF y
    <3>2. CASE j # n + 1
      <4>1. i \in 1 .. n /\ j \in 1 .. n
        BY <1>3, <2>8, <3>2, SMTT(30)
      <4>2. j - i + 1 <= Burst[s] + Rate[s] * (admitted[s][j] - admitted[s][i])
        BY <2>8, <4>1 DEF LimiterInv, AdmissionIsBounded
      <4> QED
        BY <2>4, <4>1, <4>2
    <3> QED
      BY <3>1, <3>2
  <2>9. AdmissionIsBounded'
    <3> SUFFICES ASSUME NEW q \in Source, NEW i \in 1 .. Len(admitted'[q]),
                        NEW j \in 1 .. Len(admitted'[q]), i <= j
                 PROVE  j - i + 1 <= Burst[q] + Rate[q] * (admitted'[q][j] - admitted'[q][i])
      BY DEF AdmissionIsBounded
    <3>1. CASE q = s
      BY <2>4, <2>8, <3>1
    <3>2. CASE q # s
      BY <2>4, <3>2 DEF LimiterInv, AdmissionIsBounded
    <3> QED
      BY <3>1, <3>2
  <2>10. ASSUME NEW q \in Source, buckets'[q] # NoBucket
         PROVE  /\ buckets'[q].tokens <= Burst[q]
                /\ \A i \in 1 .. Len(admitted'[q]) :
                     Len(admitted'[q]) - i + 1 + buckets'[q].tokens
                         <= Burst[q] + Rate[q] * (buckets'[q].last - admitted'[q][i])
    <3>1. CASE q = s
      <4>1. g.tokens <= Burst[s]
        BY <1>1, <1>3, <2>2, SMTT(30)
      <4> HIDE DEF n
      <4> QED
        BY <2>2, <2>3, <2>4, <2>7, <3>1, <4>1
    <3>2. CASE q # s
      BY <2>3, <2>4, <2>10, <3>2 DEF LimiterInv
    <3> QED
      BY <3>1, <3>2
  <2>11. \A q \in Source : buckets'[q] = NoBucket => admitted'[q] = <<>>
    BY <2>2, <2>3, <2>4 DEF LimiterInv
  <2> QED
    BY <2>3, <2>4, <2>9, <2>10, <2>11 DEF LimiterInv
<1> QED
  BY <1>4, <1>5

\* A restarted server has no buckets and has admitted nothing.
LEMMA NoBucketsKeepLimiter ==
    ASSUME buckets' = [s \in Source |-> NoBucket], admitted' = [s \in Source |-> <<>>]
    PROVE  LimiterInv'
<1>1. \A s \in Source : buckets'[s] = NoBucket /\ admitted'[s] = <<>>
  OBVIOUS
<1>2. admitted' \in [Source -> Seq(Int)]
  BY SMTT(30)
<1>3. \A s \in Source : 1 .. Len(admitted'[s]) = {}
  BY <1>1, SMTT(30)
<1> QED
  BY <1>1, <1>2, <1>3 DEF LimiterInv, AdmissionIsBounded

\* No step of a handler or of time breaks the bound on admissions.
LEMMA LimiterNext == LimiterInv /\ HandlerInv /\ [Next]_vars => LimiterInv'
<1> SUFFICES ASSUME LimiterInv, HandlerInv, [Next]_vars
             PROVE  LimiterInv'
  OBVIOUS
<1>1. CASE UNCHANGED limiterVars
  BY <1>1 DEF limiterVars, LimiterInv, AdmissionIsBounded
<1>2. ASSUME NEW p \in Process, Starting(p)
      PROVE  UNCHANGED limiterVars
  BY <1>2 DEF Starting
<1>3. ASSUME NEW p \in Process, Stop(p)
      PROVE  LimiterInv' \/ UNCHANGED limiterVars
  BY <1>3, NoBucketsKeepLimiter DEF Stop, ForgetBuckets
<1>4. ASSUME NEW h \in Handler, Limit(h)
      PROVE  LimiterInv'
  <2>1. handlers[h].request \in Request /\ handlers[h].at \in Int
    BY <1>4 DEF Limit, HandlerInv
  <2>2. SourceOf[handlers[h].request] \in Source
    BY <2>1, GatewayAssumption
  <2>3. Allow(SourceOf[handlers[h].request], handlers[h].at)
    BY <1>4 DEF Limit
  <2> QED
    BY <2>1, <2>2, <2>3, AllowKeepsLimiter
<1>5. ASSUME NEW h \in Handler, Handling(h)
      PROVE  UNCHANGED limiterVars \/ Limit(h)
  BY <1>5 DEF Handling, Receive, Verify, Reject, Publish, Accept, Release
<1>6. ASSUME NEW m \in late, ArriveLate(m) \/ Vanish(m)
      PROVE  UNCHANGED limiterVars
  BY <1>6 DEF ArriveLate, Vanish
<1>7. Tick => UNCHANGED limiterVars
  BY DEF Tick
<1> QED
  BY <1>1, <1>2, <1>3, <1>4, <1>5, <1>6, <1>7 DEF Next, vars

\* Limiter.Allow: whatever the order in which handlers with older and newer stamps reach the
\* mutex, and for every rate and burst, what is admitted between two stamps is bounded.
THEOREM AdmissionStaysBounded == Spec => []AdmissionIsBounded
<1>1. Init => LimiterInv /\ HandlerInv
  <2> SUFFICES ASSUME Init PROVE LimiterInv /\ HandlerInv
    OBVIOUS
  <2>1. buckets = [s \in Source |-> NoBucket] /\ admitted = [s \in Source |-> <<>>]
    BY DEF Init, LimiterInit
  <2>2. /\ admitted \in [Source -> Seq(Int)]
        /\ buckets \in [Source -> [tokens : Int, last : Int] \cup {NoBucket}]
    BY <2>1, SMTT(30)
  <2>3. \A s \in Source : buckets[s] = NoBucket /\ admitted[s] = <<>>
    BY <2>1
  <2>4. AdmissionIsBounded
    BY <2>3, SMTT(30) DEF AdmissionIsBounded
  <2>5. LimiterInv
    BY <2>2, <2>3, <2>4 DEF LimiterInv
  <2> QED
    BY <2>5, HandlerInit
<1>2. LimiterInv => AdmissionIsBounded
  BY DEF LimiterInv
<1> QED
  BY <1>1, <1>2, HandlerNext, LimiterNext, PTL DEF Spec

-----------------------------------------------------------------------------
(* The stream.                                                             *)

\* The message of a signed request may reach the stream now.
MayArrive(r, now) ==
    Signed[r] # Bearer => Fits(Signed[r] - now) /\ Fits(now - PublishTimeout - MaxDelay - Signed[r])

\* It is stored at most once, and the stream remembers it, or it was stored so long ago that
\* the request is out of its window.
KnownOrOver(r) ==
    Signed[r] # Bearer =>
        \/ copies[r] = 0
        \/ /\ copies[r] = 1
           /\ \/ rememberedAt[MsgIDOf[r]] # Never /\ Fits(Signed[r] - rememberedAt[MsgIDOf[r]])
              \/ Fits(Signed[r] - (clock - Duplicates))

\* Whatever is under way towards the stream was verified, and is within its deadline.
StoreInv ==
    /\ rememberedAt \in [MsgID -> Int \cup {Never}]
    /\ copies \in [Request -> Nat]
    /\ late \in SUBSET [request : Request, until : Int]
    /\ DOMAIN config = Process
    /\ stage[TheServer] # "down" => ReplayWindow \in Int /\ Fits(ReplayWindow)
    /\ \A h \in Handler : handlers[h].stage \in {"reserved", "published"} =>
         /\ handlers[h].at <= clock /\ clock <= handlers[h].at + PublishTimeout
         /\ Signed[handlers[h].request] # Bearer =>
              /\ Fits(Signed[handlers[h].request] - handlers[h].at)
              /\ Fits(handlers[h].at - Signed[handlers[h].request])
    /\ \A m \in late :
         /\ m.until - MaxDelay <= clock /\ clock <= m.until
         /\ Signed[m.request] # Bearer =>
              /\ Fits(Signed[m.request] - (m.until - MaxDelay))
              /\ Fits(m.until - PublishTimeout - MaxDelay - Signed[m.request])
    /\ \A r \in Request : KnownOrOver(r)

\* What the proofs about the stream need of the constants.
LEMMA TimesAreNumbers ==
    /\ PublishTimeout \in Nat /\ MaxDelay \in Nat /\ Duplicates \in Nat
    /\ Signed \in [Request -> Int \cup {Bearer}]
    /\ Never \notin Int /\ Bearer \notin Int
    /\ TheServer \in Process
BY GatewayAssumption DEF Process

\* What fits with a window fits with a smaller one.
LEMMA SmallerFits ==
    ASSUME NEW x \in Int, NEW y \in Int, x <= y, Fits(y)
    PROVE  Fits(x)
<1>1. PublishTimeout \in Int /\ MaxDelay \in Int /\ Duplicates \in Int
  BY TimesAreNumbers, SMTT(30)
<1> QED
  BY <1>1, SMTT(30) DEF Fits

\* A message that leaves at now, within the publish timeout of the moment at which its stamp
\* was verified, arrives in time.
LEMMA LeavesInTime ==
    ASSUME NEW stamp \in Int, NEW at \in Int, NEW now \in Int,
           at <= now, now <= at + PublishTimeout, Fits(stamp - at), Fits(at - stamp)
    PROVE  Fits(stamp - now) /\ Fits(now - PublishTimeout - stamp)
<1>1. PublishTimeout \in Int
  BY TimesAreNumbers, SMTT(30)
<1>2. /\ stamp - now \in Int /\ stamp - at \in Int /\ stamp - now <= stamp - at
      /\ now - PublishTimeout - stamp \in Int /\ at - stamp \in Int
      /\ now - PublishTimeout - stamp <= at - stamp
  BY <1>1, SMTT(30)
<1> QED
  BY <1>2, SmallerFits

\* An empty stream has no copies.
LEMMA StoreInit == Init => StoreInv
<1> SUFFICES ASSUME Init PROVE StoreInv
  OBVIOUS
<1>1. \A h \in Handler : handlers[h].stage = "idle"
  BY DEF Init, Idle
<1>2. stage[TheServer] = "down"
  BY GatewayAssumption DEF Init, StartupInit, Process
<1> QED
  BY <1>1, <1>2 DEF Init, StartupInit, StoreInv, KnownOrOver

\* A message that may arrive does not make a second copy.
LEMMA ArriveKeepsKnown ==
    ASSUME StoreInv, HandlerInv, clock' = clock, NEW r \in Request, MayArrive(r, clock), Arrive(r)
    PROVE  /\ rememberedAt' \in [MsgID -> Int \cup {Never}]
           /\ copies' \in [Request -> Nat]
           /\ \A q \in Request : KnownOrOver(q)'
<1> USE TimesAreNumbers
<1>1. CASE rememberedAt[MsgIDOf[r]] # Never
  BY <1>1 DEF Arrive, StoreInv, KnownOrOver
<1>2. CASE rememberedAt[MsgIDOf[r]] = Never
  <2> DEFINE id == MsgIDOf[r]
  <2>1. /\ rememberedAt' = [rememberedAt EXCEPT ![id] = clock]
        /\ copies' = [copies EXCEPT ![r] = @ + 1]
    BY <1>2 DEF Arrive
  <2>2. clock \in Int /\ id \in MsgID
    BY DEF HandlerInv, MsgID
  <2>3. /\ rememberedAt' \in [MsgID -> Int \cup {Never}]
        /\ copies' \in [Request -> Nat]
    <3>1. rememberedAt \in [MsgID -> Int \cup {Never}] /\ copies \in [Request -> Nat]
      BY DEF StoreInv
    <3>2. rememberedAt' \in [MsgID -> Int \cup {Never}]
      BY <2>1, <2>2, <3>1
    <3>3. copies[r] + 1 \in Nat
      BY <3>1, SMTT(30)
    <3>4. copies' \in [Request -> Nat]
      BY <2>1, <3>1, <3>3
    <3> QED
      BY <3>2, <3>4
  <2>4. ASSUME NEW q \in Request, Signed[q] # Bearer
        PROVE  KnownOrOver(q)'
    <3>1. Signed[q] \in Int /\ copies[q] \in Nat /\ MsgIDOf[q] \in MsgID
      BY <2>4 DEF StoreInv, MsgID
    <3>2. CASE q = r
      <4>1. copies[r] = 0
        <5>1. ~Fits(Signed[r] - (clock - Duplicates))
          BY <2>2, <2>4, <3>1, <3>2, SMTT(30) DEF MayArrive, Fits
        <5> QED
          BY <1>2, <2>4, <3>2, <5>1 DEF StoreInv, KnownOrOver
      <4>2. copies'[r] = 1 /\ rememberedAt'[id] = clock /\ clock # Never
        <5>1. copies'[r] = copies[r] + 1 /\ rememberedAt'[id] = clock
          BY <2>1, <2>2 DEF StoreInv
        <5>2. clock # Never
          BY <2>2
        <5> QED
          BY <4>1, <5>1, <5>2, SMTT(30)
      <4> QED
        BY <2>4, <3>2, <4>2 DEF KnownOrOver, MayArrive, Fits
    <3>3. CASE q # r /\ MsgIDOf[q] = id
      <4>1. copies'[q] = copies[q]
        BY <2>1, <3>3 DEF StoreInv
      <4>2. copies[q] = 0 \/ (copies[q] = 1 /\ Fits(Signed[q] - (clock - Duplicates)))
        <5>1. KnownOrOver(q) /\ rememberedAt[MsgIDOf[q]] = Never
          BY <1>2, <3>3 DEF StoreInv
        <5> QED
          BY <2>4, <5>1 DEF KnownOrOver, Fits
      <4> QED
        BY <4>1, <4>2 DEF KnownOrOver, Fits
    <3>4. CASE q # r /\ MsgIDOf[q] # id
      <4>1. copies'[q] = copies[q] /\ rememberedAt'[MsgIDOf[q]] = rememberedAt[MsgIDOf[q]]
        BY <2>1, <3>1, <3>4 DEF StoreInv
      <4> QED
        BY <4>1 DEF StoreInv, KnownOrOver, Fits
    <3> QED
      BY <3>2, <3>3, <3>4
  <2>5. \A q \in Request : KnownOrOver(q)'
    BY <2>4 DEF KnownOrOver
  <2> QED
    BY <2>3, <2>5
<1> QED
  BY <1>1, <1>2

\* The time of a handler or of a late message lets its message arrive.
LEMMA UnderWayMayArrive ==
    ASSUME StoreInv, HandlerInv
    PROVE  /\ \A h \in Handler : handlers[h].stage \in {"reserved", "published"} =>
                 MayArrive(handlers[h].request, clock)
           /\ \A m \in late : MayArrive(m.request, clock)
<1> USE TimesAreNumbers
<1>1. ASSUME NEW h \in Handler, handlers[h].stage \in {"reserved", "published"}
      PROVE  MayArrive(handlers[h].request, clock)
  <2>1. handlers[h].request \in Request /\ handlers[h].at \in Int /\ clock \in Int
    BY <1>1 DEF HandlerInv
  <2> SUFFICES ASSUME Signed[handlers[h].request] # Bearer
               PROVE  /\ Fits(Signed[handlers[h].request] - clock)
                      /\ Fits(clock - PublishTimeout - MaxDelay - Signed[handlers[h].request])
    BY DEF MayArrive
  <2> DEFINE stamp == Signed[handlers[h].request]
             at == handlers[h].at
  <2>2. stamp \in Int
    BY <2>1
  <2>3. at <= clock /\ clock <= at + PublishTimeout /\ Fits(stamp - at) /\ Fits(at - stamp)
    BY <1>1 DEF StoreInv
  <2> HIDE DEF stamp, at
  <2>4. Fits(stamp - clock) /\ Fits(clock - PublishTimeout - stamp)
    BY <2>1, <2>2, <2>3, LeavesInTime DEF at
  <2>5. Fits(clock - PublishTimeout - MaxDelay - stamp)
    <3>1. /\ clock - PublishTimeout - MaxDelay - stamp \in Int /\ clock - PublishTimeout - stamp \in Int
          /\ clock - PublishTimeout - MaxDelay - stamp <= clock - PublishTimeout - stamp
      BY <2>1, <2>2, SMTT(30)
    <3> QED
      BY <2>4, <3>1, SmallerFits
  <2> QED
    BY <2>4, <2>5 DEF stamp
<1>2. ASSUME NEW m \in late
      PROVE  MayArrive(m.request, clock)
  <2>1. m.request \in Request /\ m.until \in Int /\ clock \in Int
    BY DEF StoreInv, HandlerInv
  <2> SUFFICES ASSUME Signed[m.request] # Bearer
               PROVE  /\ Fits(Signed[m.request] - clock)
                      /\ Fits(clock - PublishTimeout - MaxDelay - Signed[m.request])
    BY DEF MayArrive
  <2> DEFINE stamp == Signed[m.request]
             until == m.until
  <2>2. stamp \in Int
    BY <2>1
  <2>3. /\ until - MaxDelay <= clock /\ clock <= until
        /\ Fits(stamp - (until - MaxDelay)) /\ Fits(until - PublishTimeout - MaxDelay - stamp)
    BY DEF StoreInv
  <2>4. until \in Int /\ clock \in Int
    BY <2>1
  <2> HIDE DEF stamp, until
  <2>5. /\ stamp - clock \in Int /\ stamp - (until - MaxDelay) \in Int
        /\ stamp - clock <= stamp - (until - MaxDelay)
        /\ clock - PublishTimeout - MaxDelay - stamp \in Int
        /\ until - PublishTimeout - MaxDelay - stamp \in Int
        /\ clock - PublishTimeout - MaxDelay - stamp <= until - PublishTimeout - MaxDelay - stamp
    BY <2>2, <2>3, <2>4, SMTT(30)
  <2>6. Fits(stamp - clock) /\ Fits(clock - PublishTimeout - MaxDelay - stamp)
    BY <2>3, <2>5, SmallerFits
  <2> QED
    BY <2>6 DEF stamp
<1> QED
  BY <1>1, <1>2

\* A message whose acknowledgement did not come is on its way, in time.
LEMMA SentIsInTime ==
    ASSUME StoreInv, HandlerInv, NEW h \in Handler, handlers[h].stage = "reserved",
           NEW m, m = UnderWay(h)
    PROVE  /\ m \in [request : Request, until : Int]
           /\ m.until - MaxDelay <= clock /\ clock <= m.until
           /\ Signed[m.request] # Bearer =>
                /\ Fits(Signed[m.request] - (m.until - MaxDelay))
                /\ Fits(m.until - PublishTimeout - MaxDelay - Signed[m.request])
<1> DEFINE r == handlers[h].request
           at == handlers[h].at
<1>1. r \in Request /\ at \in Int /\ clock \in Int
  BY DEF HandlerInv
<1>2. PublishTimeout \in Nat /\ MaxDelay \in Nat
  BY TimesAreNumbers
<1>3. m = [request |-> r, until |-> clock + MaxDelay]
  BY DEF UnderWay
<1>4. at <= clock /\ clock <= at + PublishTimeout
      /\ (Signed[r] # Bearer => Fits(Signed[r] - at) /\ Fits(at - Signed[r]))
  BY DEF StoreInv
<1> HIDE DEF r, at
<1>5. Signed[r] # Bearer => Fits(Signed[r] - clock) /\ Fits(clock - PublishTimeout - Signed[r])
  <2> SUFFICES ASSUME Signed[r] # Bearer
               PROVE  Fits(Signed[r] - clock) /\ Fits(clock - PublishTimeout - Signed[r])
    OBVIOUS
  <2>1. Signed[r] \in Int
    BY <1>1, TimesAreNumbers
  <2> QED
    BY <1>1, <1>4, <2>1, LeavesInTime
<1>6. clock + MaxDelay \in Int /\ (clock + MaxDelay) - MaxDelay = clock /\ clock <= clock + MaxDelay
      /\ (clock + MaxDelay) - PublishTimeout - MaxDelay = clock - PublishTimeout
      /\ clock <= clock
  BY <1>1, <1>2, SMTT(30)
<1>7. m.request = r /\ m.until = clock + MaxDelay /\ m \in [request : Request, until : Int]
  BY <1>1, <1>3, <1>6, SMTT(30)
<1> QED
  BY <1>5, <1>6, <1>7

\* No step makes a second copy while the windows fit.
LEMMA StoreNext == WindowsFit /\ StoreInv /\ HandlerInv /\ [Next]_vars => StoreInv'
<1> SUFFICES ASSUME WindowsFit, StoreInv, HandlerInv, [Next]_vars
             PROVE  StoreInv'
  OBVIOUS
<1> USE TimesAreNumbers
<1>1. CASE UNCHANGED vars
  BY <1>1 DEF vars, handlerVars, startupVars, StoreInv, KnownOrOver, ReplayWindow
<1>2. ASSUME NEW p \in Process, Starting(p)
      PROVE  StoreInv'
  <2>1. UNCHANGED handlerVars
    BY <1>2 DEF Starting
  <2>2. DOMAIN config' = Process
        /\ (stage'[TheServer] # "down" => ReplayWindow' \in Int /\ Fits(ReplayWindow'))
    <3>1. CASE Load(p)
      <4>1. PICK e \in Environment :
              IF LoadAccepts(e)
              THEN /\ config' = [config EXCEPT ![p] = Parsed(e)]
                   /\ Enter(p, IF Parsed(e).autoMigrate THEN "locking" ELSE "connecting")
              ELSE UNCHANGED <<config, stage>>
        BY <3>1 DEF Load
      <4>2. CASE LoadAccepts(e)
        <5>1. Parsed(e).replayWindow \in Int /\ Fits(Parsed(e).replayWindow)
          BY <4>2, GatewayAssumption, SMTT(30) DEF WindowsFit
        <5>2. config' = [config EXCEPT ![p] = Parsed(e)]
              /\ \A q \in Process : q # p => stage'[q] = stage[q]
          BY <4>1, <4>2 DEF Enter, HandlerInv
        <5> QED
          BY <5>1, <5>2 DEF StoreInv, ReplayWindow, Process
      <4>3. CASE ~LoadAccepts(e)
        BY <4>1, <4>3 DEF StoreInv, ReplayWindow
      <4> QED
        BY <4>2, <4>3
    <3>2. CASE StartupStep(p)
      <4>1. config' = config /\ stage[p] # "down"
        BY <3>2 DEF StartupStep, LockMigrations, BeginMigration, CommitMigration,
             UnlockMigrations, Connect, UpdateConsumer, AddConsumer
      <4>2. \A q \in Process : q # p => stage'[q] = stage[q]
        BY <3>2 DEF StartupStep, LockMigrations, BeginMigration, CommitMigration,
             UnlockMigrations, Connect, UpdateConsumer, AddConsumer, Subscribed, Enter, HandlerInv
      <4> QED
        BY <4>1, <4>2 DEF StoreInv, ReplayWindow, Process
    <3> QED
      BY <1>2, <3>1, <3>2 DEF Starting
  <2> QED
    BY <2>1, <2>2 DEF handlerVars, StoreInv, KnownOrOver
<1>3. ASSUME NEW p \in Process, Stop(p)
      PROVE  StoreInv'
  <2>1. /\ UNCHANGED <<clock, rememberedAt, copies>>
        /\ DOMAIN config' = Process
        /\ \A q \in Process : q # p => stage'[q] = stage[q] /\ config'[q] = config[q]
        /\ stage'[p] = "down"
    BY <1>3 DEF Stop, Die, Enter, StoreInv, HandlerInv
  <2>2. \A r \in Request : KnownOrOver(r)'
    BY <2>1 DEF StoreInv, KnownOrOver
  <2>3. CASE p = TheServer
    <3>1. handlers' = [h \in Handler |-> Idle]
      BY <1>3, <2>3 DEF Stop
    <3>2. PICK sent \in SUBSET {h \in Handler : handlers[h].stage = "reserved"} :
            late' = late \cup {UnderWay(h) : h \in sent}
      BY <1>3, <2>3 DEF Stop
    <3>3. /\ late' \in SUBSET [request : Request, until : Int]
          /\ \A m \in late' :
               /\ m.until - MaxDelay <= clock /\ clock <= m.until
               /\ Signed[m.request] # Bearer =>
                    /\ Fits(Signed[m.request] - (m.until - MaxDelay))
                    /\ Fits(m.until - PublishTimeout - MaxDelay - Signed[m.request])
      <4> SUFFICES ASSUME NEW m \in late'
                   PROVE  /\ m \in [request : Request, until : Int]
                          /\ m.until - MaxDelay <= clock /\ clock <= m.until
                          /\ Signed[m.request] # Bearer =>
                               /\ Fits(Signed[m.request] - (m.until - MaxDelay))
                               /\ Fits(m.until - PublishTimeout - MaxDelay - Signed[m.request])
        OBVIOUS
      <4>1. CASE m \in late
        BY <4>1 DEF StoreInv
      <4>2. CASE m \notin late
        <5>1. PICK h \in sent : m = UnderWay(h)
          BY <3>2, <4>2
        <5>2. h \in Handler /\ handlers[h].stage = "reserved"
          OBVIOUS
        <5> QED
          BY <5>1, <5>2, SentIsInTime
      <4> QED
        BY <4>1, <4>2
    <3> QED
      BY <2>1, <2>2, <2>3, <3>1, <3>3 DEF StoreInv, Idle
  <2>4. CASE p # TheServer
    <3>1. UNCHANGED <<handlers, late>>
      BY <1>3, <2>4 DEF Stop
    <3> QED
      BY <2>1, <2>2, <2>4, <3>1 DEF StoreInv, ReplayWindow, Process
  <2> QED
    BY <2>3, <2>4
<1>4. ASSUME NEW h \in Handler, Handling(h)
      PROVE  StoreInv'
  <2>1. /\ UNCHANGED <<clock, stage, config>>
        /\ stage[TheServer] # "down" => ReplayWindow' \in Int /\ Fits(ReplayWindow')
    BY <1>4 DEF Handling, Receive, Limit, Verify, Reject, Publish, Accept, Release, startupVars,
         StoreInv, ReplayWindow
  <2> DEFINE OnTime(g) ==
        handlers[g].stage \in {"reserved", "published"} =>
            /\ handlers[g].at <= clock /\ clock <= handlers[g].at + PublishTimeout
            /\ Signed[handlers[g].request] # Bearer =>
                 /\ Fits(Signed[handlers[g].request] - handlers[g].at)
                 /\ Fits(handlers[g].at - Signed[handlers[g].request])
  <2>2. \A g \in Handler : OnTime(g)
    BY DEF StoreInv
  <2>3. ASSUME \A g \in Handler : g # h => handlers'[g] = handlers[g], OnTime(h)',
               UNCHANGED <<late, rememberedAt, copies>>
        PROVE  StoreInv'
    <3>1. \A g \in Handler : OnTime(g)'
      BY <2>1, <2>2, <2>3
    <3>2. \A r \in Request : KnownOrOver(r)'
      BY <2>1, <2>3 DEF StoreInv, KnownOrOver
    <3> QED
      BY <2>1, <2>3, <3>1, <3>2 DEF StoreInv
  <2>4. ASSUME NEW r \in Request, Receive(h, r)
        PROVE  StoreInv'
    <3>1. handlers'[h].stage = "stamped" /\ \A g \in Handler : g # h => handlers'[g] = handlers[g]
      BY <2>4 DEF Receive, HandlerInv
    <3> QED
      BY <2>3, <2>4, <3>1 DEF Receive
  <2>5. Answer(h) => /\ \A g \in Handler : g # h => handlers'[g] = handlers[g]
                     /\ OnTime(h)'
    BY SMTT(30) DEF Answer, Idle, HandlerInv
  <2>6. CASE Limit(h)
    <3>1. UNCHANGED <<late, rememberedAt, copies>>
      BY <2>6 DEF Limit
    <3>2. CASE Answer(h)
      BY <2>3, <2>5, <3>1, <3>2
    <3>3. CASE Becomes(h, "admitted", handlers[h].at)
      <4>1. handlers'[h].stage = "admitted" /\ \A g \in Handler : g # h => handlers'[g] = handlers[g]
        BY <3>3 DEF Becomes, HandlerInv
      <4> QED
        BY <2>3, <3>1, <4>1
    <3> QED
      BY <2>6, <3>2, <3>3 DEF Limit
  <2>7. CASE Verify(h)
    <3>1. /\ handlers'[h].stage = "reserved" /\ handlers'[h].at = clock
          /\ handlers'[h].request = handlers[h].request
          /\ \A g \in Handler : g # h => handlers'[g] = handlers[g]
          /\ UNCHANGED <<late, rememberedAt, copies>>
      BY <2>7 DEF Verify, Becomes, HandlerInv
    <3>2. handlers[h].request \in Request /\ clock \in Int /\ ReplayWindow \in Int
          /\ Fits(ReplayWindow)
      BY <2>7 DEF Verify, HandlerInv, StoreInv
    <3>3. Signed[handlers[h].request] # Bearer =>
            Fits(Signed[handlers[h].request] - clock) /\ Fits(clock - Signed[handlers[h].request])
      <4> SUFFICES ASSUME Signed[handlers[h].request] # Bearer
                   PROVE  /\ Fits(Signed[handlers[h].request] - clock)
                          /\ Fits(clock - Signed[handlers[h].request])
        OBVIOUS
      <4>1. Signed[handlers[h].request] \in Int
        BY <3>2
      <4>2. /\ clock - Signed[handlers[h].request] <= ReplayWindow
            /\ Signed[handlers[h].request] - clock <= ReplayWindow
        BY <2>7 DEF Verify, Verifies
      <4>3. clock - Signed[handlers[h].request] \in Int /\ Signed[handlers[h].request] - clock \in Int
        BY <3>2, <4>1, SMTT(30)
      <4> QED
        BY <3>2, <4>2, <4>3, SmallerFits
    <3>4. OnTime(h)'
      <4>1. handlers'[h].at <= clock' /\ clock' <= handlers'[h].at + PublishTimeout
        <5>1. clock <= clock /\ clock <= clock + PublishTimeout
          BY <3>2, SMTT(30)
        <5> QED
          BY <2>1, <3>1, <5>1
      <4>2. Signed[handlers'[h].request] # Bearer =>
              /\ Fits(Signed[handlers'[h].request] - handlers'[h].at)
              /\ Fits(handlers'[h].at - Signed[handlers'[h].request])
        BY <3>1, <3>3
      <4> QED
        BY <4>1, <4>2 DEF Fits
    <3> QED
      BY <2>3, <3>1, <3>4
  <2>8. CASE Reject(h) \/ Accept(h)
    BY <2>3, <2>5, <2>8 DEF Reject, Accept
  <2>9. CASE Publish(h)
    <3>1. MayArrive(handlers[h].request, clock) /\ handlers[h].request \in Request
      BY <2>9, UnderWayMayArrive DEF Publish, HandlerInv
    <3>2. /\ rememberedAt' \in [MsgID -> Int \cup {Never}]
          /\ copies' \in [Request -> Nat]
          /\ \A q \in Request : KnownOrOver(q)'
      BY <2>1, <2>9, <3>1, ArriveKeepsKnown DEF Publish
    <3>3. /\ handlers'[h].at = handlers[h].at /\ handlers'[h].request = handlers[h].request
          /\ handlers[h].stage = "reserved"
          /\ \A g \in Handler : g # h => handlers'[g] = handlers[g]
          /\ late' = late
      BY <2>9 DEF Publish, Becomes, HandlerInv
    <3>4. \A g \in Handler : OnTime(g)'
      BY <2>1, <2>2, <3>3
    <3> QED
      BY <2>1, <3>2, <3>3, <3>4 DEF StoreInv
  <2>10. CASE Release(h)
    <3>1. UNCHANGED <<rememberedAt, copies>> /\ Answer(h)
      BY <2>10 DEF Release
    <3>2. CASE UNCHANGED late
      BY <2>3, <2>5, <3>1, <3>2
    <3>3. CASE handlers[h].stage = "reserved" /\ late' = late \cup {UnderWay(h)}
      <4>1. /\ late' \in SUBSET [request : Request, until : Int]
            /\ \A m \in late' :
                 /\ m.until - MaxDelay <= clock /\ clock <= m.until
                 /\ Signed[m.request] # Bearer =>
                      /\ Fits(Signed[m.request] - (m.until - MaxDelay))
                      /\ Fits(m.until - PublishTimeout - MaxDelay - Signed[m.request])
        <5> SUFFICES ASSUME NEW m \in late'
                     PROVE  /\ m \in [request : Request, until : Int]
                            /\ m.until - MaxDelay <= clock /\ clock <= m.until
                            /\ Signed[m.request] # Bearer =>
                                 /\ Fits(Signed[m.request] - (m.until - MaxDelay))
                                 /\ Fits(m.until - PublishTimeout - MaxDelay - Signed[m.request])
          OBVIOUS
        <5>1. CASE m \in late
          BY <5>1 DEF StoreInv
        <5>2. CASE m \notin late
          BY <3>3, <5>2, SentIsInTime
        <5> QED
          BY <5>1, <5>2
      <4>2. \A g \in Handler : OnTime(g)'
        BY <2>1, <2>2, <2>5, <3>1
      <4>3. \A r \in Request : KnownOrOver(r)'
        BY <2>1, <3>1 DEF StoreInv, KnownOrOver
      <4> QED
        BY <2>1, <3>1, <4>1, <4>2, <4>3 DEF StoreInv
    <3> QED
      BY <2>10, <3>2, <3>3 DEF Release
  <2> QED
    BY <1>4, <2>4, <2>6, <2>7, <2>8, <2>9, <2>10 DEF Handling
<1>5. ASSUME NEW m \in late, ArriveLate(m)
      PROVE  StoreInv'
  <2>1. UNCHANGED <<clock, handlers, stage, config>> /\ late' = late \ {m} /\ Arrive(m.request)
    BY <1>5 DEF ArriveLate, startupVars
  <2>2. m.request \in Request /\ MayArrive(m.request, clock)
    BY UnderWayMayArrive DEF StoreInv
  <2>3. /\ rememberedAt' \in [MsgID -> Int \cup {Never}]
        /\ copies' \in [Request -> Nat]
        /\ \A q \in Request : KnownOrOver(q)'
    BY <2>1, <2>2, ArriveKeepsKnown
  <2> QED
    BY <2>1, <2>3 DEF StoreInv, ReplayWindow
<1>6. ASSUME NEW m \in late, Vanish(m)
      PROVE  StoreInv'
  BY <1>6 DEF Vanish, startupVars, StoreInv, KnownOrOver, ReplayWindow
<1>7. CASE Tick
  <2>1. /\ UNCHANGED <<handlers, late, copies, stage, config>>
        /\ clock' = clock + 1 /\ clock \in Int
        /\ rememberedAt' = [i \in MsgID |-> IF Remembers(i, clock') THEN rememberedAt[i] ELSE Never]
    BY <1>7 DEF Tick, startupVars, HandlerInv
  <2>0. clock' = clock + 1 /\ clock \in Int /\ clock' \in Int /\ Duplicates \in Int
    BY <2>1, SMTT(30)
  <2>2. \A h \in Handler : handlers[h].stage \in {"reserved", "published"} =>
          handlers[h].at <= clock' /\ clock' <= handlers[h].at + PublishTimeout
    <3> TAKE h \in Handler
    <3>1. handlers[h].at \in Int
      BY DEF HandlerInv
    <3>2. handlers[h].stage \in {"reserved", "published"} =>
            handlers[h].at <= clock /\ clock < handlers[h].at + PublishTimeout
      BY <1>7 DEF Tick, StoreInv
    <3> QED
      BY <2>0, <3>1, <3>2, SMTT(30)
  <2>3. \A m \in late : m.until - MaxDelay <= clock' /\ clock' <= m.until
    <3> TAKE m \in late
    <3>1. m.until \in Int
      BY DEF StoreInv
    <3>2. m.until - MaxDelay <= clock /\ clock < m.until
      BY <1>7 DEF Tick, StoreInv
    <3> QED
      BY <2>0, <3>1, <3>2, SMTT(30)
  <2>4. ASSUME NEW r \in Request, Signed[r] # Bearer
        PROVE  KnownOrOver(r)'
    <3> DEFINE id == MsgIDOf[r]
    <3>1. Signed[r] \in Int /\ id \in MsgID
      BY <2>4 DEF MsgID
    <3>2. Fits(Signed[r] - (clock - Duplicates)) => Fits(Signed[r] - (clock' - Duplicates))
      <4>1. /\ Signed[r] - (clock - Duplicates) \in Int /\ Signed[r] - (clock' - Duplicates) \in Int
            /\ Signed[r] - (clock' - Duplicates) <= Signed[r] - (clock - Duplicates)
        BY <2>0, <3>1, SMTT(30)
      <4> QED
        BY <4>1, SmallerFits
    <3>3. CASE rememberedAt[id] # Never
      <4>1. rememberedAt[id] \in Int
        BY <3>1, <3>3 DEF StoreInv
      <4>2. KnownOrOver(r)
        BY DEF StoreInv
      <4>3. rememberedAt'[id] = IF clock' < rememberedAt[id] + Duplicates THEN rememberedAt[id] ELSE Never
        BY <2>1, <3>1, <3>3 DEF Remembers
      <4>4. CASE clock' < rememberedAt[id] + Duplicates
        BY <2>1, <3>3, <3>2, <4>2, <4>3, <4>4 DEF KnownOrOver
      <4>5. CASE ~(clock' < rememberedAt[id] + Duplicates)
        <5>1. /\ Signed[r] - rememberedAt[id] \in Int /\ Signed[r] - (clock' - Duplicates) \in Int
              /\ Signed[r] - (clock' - Duplicates) <= Signed[r] - rememberedAt[id]
          BY <2>0, <3>1, <4>1, <4>5, SMTT(30)
        <5>2. Fits(Signed[r] - rememberedAt[id]) => Fits(Signed[r] - (clock' - Duplicates))
          BY <5>1, SmallerFits
        <5> QED
          BY <2>1, <2>4, <3>2, <4>2, <5>2 DEF KnownOrOver
      <4> QED
        BY <4>4, <4>5
    <3>4. CASE rememberedAt[id] = Never
      <4>1. KnownOrOver(r)
        BY DEF StoreInv
      <4> QED
        BY <2>1, <2>4, <3>4, <3>2, <4>1 DEF KnownOrOver
    <3> QED
      BY <3>3, <3>4
  <2>5. \A r \in Request : KnownOrOver(r)'
    BY <2>4 DEF KnownOrOver
  <2>6. rememberedAt' \in [MsgID -> Int \cup {Never}]
    BY <2>1 DEF StoreInv
  <2> QED
    BY <2>1, <2>2, <2>3, <2>5, <2>6 DEF StoreInv, ReplayWindow
<1> QED
  BY <1>1, <1>2, <1>3, <1>4, <1>5, <1>6, <1>7 DEF Next

\* ingestWebhook: however often a signed request is sent, its acknowledgement lost, its
\* message delayed or the server restarted, the stream stores it once, when twice the replay
\* window, the publish timeout and the delay are less than the window of message ids.
THEOREM SignedIsStoredOnce == Spec => []StoredOnce
<1> DEFINE Inv == WindowsFit => StoreInv
<1>1. Init => Inv /\ HandlerInv
  BY StoreInit, HandlerInit
<1>2. Inv /\ HandlerInv /\ [Next]_vars => Inv'
  BY StoreNext
<1>3. Inv => StoredOnce
  <2> SUFFICES ASSUME Inv, WindowsFit, NEW r \in Request, Signed[r] # Bearer
               PROVE  copies[r] <= 1
    BY DEF StoredOnce
  <2>1. KnownOrOver(r)
    BY DEF StoreInv
  <2> QED
    BY <2>1, SMTT(30) DEF KnownOrOver
<1> HIDE DEF Inv
<1> QED
  BY <1>1, <1>2, <1>3, HandlerNext, PTL DEF Spec
-----------------------------------------------------------------------------
(* The replay cache.                                                       *)

\* A handler waits for the stream, and has the reservation of its request.
Pending(h) == handlers[h].stage \in {"reserved", "published"}

\* While the window is longer than a handler waits for the stream, a signed request that is
\* pending or accepted has the reservation it was given, it is pending in one handler only,
\* and no handler that could release its reservation is left once it is accepted.
ReservationsHold ==
    /\ \A h \in Handler : Pending(h) /\ Signed[handlers[h].request] # Bearer =>
         /\ seen[handlers[h].request] = handlers[h].at + ReplayWindow
         /\ \A g \in Handler : Pending(g) /\ handlers[g].request = handlers[h].request => g = h
    /\ \A a \in accepted : Signed[a.request] # Bearer =>
         /\ clock < a.at + ReplayWindow
         /\ seen[a.request] = a.at + ReplayWindow
         /\ \A h \in Handler : Pending(h) => handlers[h].request # a.request

\* The cache, what was accepted and the deadlines of the handlers.
CacheInv ==
    /\ seen \in [Request -> Int \cup {Never}]
    /\ accepted \in SUBSET [request : Request, at : Int]
    /\ accepted # {} => stage[TheServer] = "serving"
    /\ \A h \in Handler : Pending(h) =>
         handlers[h].at <= clock /\ clock <= handlers[h].at + PublishTimeout
    /\ stage[TheServer] = "serving" /\ ReplayWindow > PublishTimeout => ReservationsHold

\* The window of a server that is not down is a number.
LEMMA WindowIsNumber ==
    ASSUME ConfigInv, stage[TheServer] # "down"
    PROVE  ReplayWindow \in Int
<1>1. PICK e \in Environment : LoadAccepts(e) /\ config[TheServer] = Parsed(e)
  BY TimesAreNumbers DEF ConfigInv
<1>2. Parsed(e).replayWindow \in Nat
  BY <1>1, GatewayAssumption
<1> QED
  BY <1>1, <1>2, SMTT(30) DEF ReplayWindow

\* Nothing is reserved or accepted at first.
LEMMA CacheInit == Init => CacheInv
<1> SUFFICES ASSUME Init PROVE CacheInv
  OBVIOUS
<1>1. stage[TheServer] = "down"
  BY TimesAreNumbers DEF Init, StartupInit
<1>2. \A h \in Handler : ~Pending(h)
  BY DEF Init, Idle, Pending
<1>3. seen = [r \in Request |-> Never] /\ accepted = {}
  BY DEF Init
<1> QED
  BY <1>1, <1>2, <1>3 DEF CacheInv

\* Pruning at capacity removes no reservation that has not expired.
LEMMA PruningKeepsActive ==
    ASSUME CacheInv
    PROVE  /\ Pruned \in [Request -> Int \cup {Never}]
           /\ \A r \in Request : Active(r) => Pruned[r] = seen[r]
BY DEF CacheInv, Pruned

\* A signed request that is pending or accepted cannot be reserved again.
LEMMA HeldIsActive ==
    ASSUME CacheInv, HandlerInv, stage[TheServer] = "serving", ReplayWindow \in Int,
           ReplayWindow > PublishTimeout
    PROVE  /\ \A h \in Handler : Pending(h) /\ Signed[handlers[h].request] # Bearer =>
                Active(handlers[h].request)
           /\ \A a \in accepted : Signed[a.request] # Bearer => Active(a.request)
<1>1. ReservationsHold
  BY DEF CacheInv
<1>2. PublishTimeout \in Int /\ clock \in Int /\ Never \notin Int
  BY TimesAreNumbers, SMTT(30) DEF HandlerInv
<1>3. ASSUME NEW at \in Int, NEW r, seen[r] = at + ReplayWindow, clock < at + ReplayWindow
      PROVE  Active(r)
  <2>1. at + ReplayWindow \in Int
    BY <1>3, SMTT(30)
  <2> QED
    BY <1>2, <1>3, <2>1 DEF Active
<1>4. ASSUME NEW h \in Handler, Pending(h), Signed[handlers[h].request] # Bearer
      PROVE  Active(handlers[h].request)
  <2>1. handlers[h].at \in Int
    BY DEF HandlerInv
  <2>2. clock <= handlers[h].at + PublishTimeout
    BY <1>4 DEF CacheInv
  <2>3. clock < handlers[h].at + ReplayWindow
    BY <1>2, <2>1, <2>2, SMTT(30)
  <2>4. seen[handlers[h].request] = handlers[h].at + ReplayWindow
    BY <1>1, <1>4 DEF ReservationsHold
  <2> QED
    BY <1>3, <2>1, <2>3, <2>4
<1>5. ASSUME NEW a \in accepted, Signed[a.request] # Bearer
      PROVE  Active(a.request)
  <2>1. a.at \in Int
    BY DEF CacheInv
  <2>2. clock < a.at + ReplayWindow /\ seen[a.request] = a.at + ReplayWindow
    BY <1>1, <1>5 DEF ReservationsHold
  <2> QED
    BY <1>3, <2>1, <2>2
<1> QED
  BY <1>4, <1>5

\* A step that makes no handler pending, accepts nothing and removes no active reservation.
LEMMA QuietStep ==
    ASSUME CacheInv, HandlerInv, ConfigInv, UNCHANGED <<clock, accepted, stage, config>>,
           \A g \in Handler : Pending(g)' =>
               /\ Pending(g)
               /\ handlers'[g].request = handlers[g].request /\ handlers'[g].at = handlers[g].at,
           seen' \in [Request -> Int \cup {Never}],
           \A r \in Request : Active(r) => seen'[r] = seen[r]
    PROVE  CacheInv'
<1>1. \A h \in Handler : Pending(h)' =>
        handlers'[h].at <= clock' /\ clock' <= handlers'[h].at + PublishTimeout
  BY DEF CacheInv
<1>2. ReplayWindow' = ReplayWindow
  BY DEF ReplayWindow
<1>3. ASSUME stage[TheServer] = "serving", ReplayWindow > PublishTimeout
      PROVE  ReservationsHold'
  <2>1. ReservationsHold
    BY <1>3 DEF CacheInv
  <2>2. ReplayWindow \in Int
    BY <1>3, WindowIsNumber
  <2>3. ASSUME NEW h \in Handler, Pending(h)', Signed[handlers'[h].request] # Bearer
        PROVE  /\ seen'[handlers'[h].request] = handlers'[h].at + ReplayWindow
               /\ \A g \in Handler : Pending(g)' /\ handlers'[g].request = handlers'[h].request =>
                    g = h
    <3>1. Pending(h) /\ handlers[h].request \in Request
      BY <2>3 DEF HandlerInv, Pending
    <3>2. Active(handlers[h].request)
      BY <1>3, <2>2, <2>3, <3>1, HeldIsActive
    <3> QED
      BY <2>1, <2>3, <3>1, <3>2, SMTT(30) DEF ReservationsHold
  <2>4. ASSUME NEW a \in accepted, Signed[a.request] # Bearer
        PROVE  /\ clock < a.at + ReplayWindow
               /\ seen'[a.request] = a.at + ReplayWindow
               /\ \A h \in Handler : Pending(h)' => handlers'[h].request # a.request
    <3>1. a.request \in Request
      BY DEF CacheInv
    <3>2. Active(a.request)
      BY <1>3, <2>2, <2>4, HeldIsActive
    <3> QED
      BY <2>1, <2>4, <3>1, <3>2, SMTT(30) DEF ReservationsHold
  <2> QED
    BY <1>2, <2>3, <2>4 DEF ReservationsHold
<1> QED
  BY <1>1, <1>2, <1>3 DEF CacheInv

\* Reserve: the request had no active reservation, so nobody holds or relies on one.
LEMMA VerifyKeepsCache ==
    ASSUME CacheInv, HandlerInv, ConfigInv, NEW h \in Handler, Verify(h)
    PROVE  CacheInv'
<1> DEFINE r == handlers[h].request
<1>1. /\ UNCHANGED <<clock, accepted, stage, config>>
      /\ handlers[h].stage = "admitted" /\ ~Pending(h)
      /\ r \in Request /\ clock \in Int /\ stage[TheServer] = "serving"
  BY DEF Verify, startupVars, HandlerInv, Pending
<1>2. /\ handlers'[h].stage = "reserved" /\ handlers'[h].request = r /\ handlers'[h].at = clock
      /\ \A g \in Handler : g # h => handlers'[g] = handlers[g]
  BY DEF Verify, Becomes, HandlerInv
<1>3. ReplayWindow \in Int /\ ReplayWindow' = ReplayWindow
  <2>1. ReplayWindow \in Int
    BY <1>1, WindowIsNumber
  <2> QED
    BY <1>1, <2>1 DEF ReplayWindow
<1>4. PublishTimeout \in Nat /\ Never \notin Int
  BY TimesAreNumbers
<1>5. \A g \in Handler : Pending(g)' =>
        handlers'[g].at <= clock' /\ clock' <= handlers'[g].at + PublishTimeout
  <2>1. clock <= clock /\ clock <= clock + PublishTimeout
    BY <1>1, <1>4, SMTT(30)
  <2>2. \A g \in Handler : g # h /\ Pending(g)' =>
          handlers'[g].at <= clock' /\ clock' <= handlers'[g].at + PublishTimeout
    BY <1>1, <1>2 DEF CacheInv, Pending
  <2> QED
    BY <1>1, <1>2, <2>1, <2>2
<1>6. \/ Signed[r] = Bearer /\ seen' = seen
      \/ Signed[r] # Bearer /\ ~Active(r) /\ seen' = [Pruned EXCEPT ![r] = clock + ReplayWindow]
  BY DEF Verify, Reserve
<1>7. /\ seen' \in [Request -> Int \cup {Never}]
      /\ \A q \in Request : Active(q) => seen'[q] = seen[q]
  <2>1. CASE seen' = seen
    BY <2>1 DEF CacheInv
  <2>2. CASE ~Active(r) /\ seen' = [Pruned EXCEPT ![r] = clock + ReplayWindow]
    <3>1. clock + ReplayWindow \in Int
      BY <1>1, <1>3, SMTT(30)
    <3> QED
      BY <1>1, <2>2, <3>1, PruningKeepsActive
  <2> QED
    BY <1>6, <2>1, <2>2
<1>8. ASSUME ReplayWindow > PublishTimeout
      PROVE  ReservationsHold'
  <2>1. ReservationsHold
    BY <1>1, <1>8 DEF CacheInv
  <2>2. /\ \A g \in Handler : Pending(g) /\ Signed[handlers[g].request] # Bearer =>
             Active(handlers[g].request)
        /\ \A a \in accepted : Signed[a.request] # Bearer => Active(a.request)
    BY <1>1, <1>3, <1>8, HeldIsActive
  <2>3. \A g \in Handler : Pending(g) => handlers[g].request \in Request
    BY DEF HandlerInv, Pending
  <2>4. \A a \in accepted : a.request \in Request
    BY DEF CacheInv
  <2>5. ASSUME Signed[r] # Bearer
        PROVE  /\ \A g \in Handler : Pending(g) => handlers[g].request # r
               /\ \A a \in accepted : a.request # r
               /\ seen'[r] = clock + ReplayWindow
    <3>1. ~Active(r) /\ seen' = [Pruned EXCEPT ![r] = clock + ReplayWindow]
      BY <1>6, <2>5
    <3>2. seen'[r] = clock + ReplayWindow
      BY <1>1, <3>1, PruningKeepsActive
    <3> QED
      BY <2>2, <2>5, <3>1, <3>2
  <2>6. \A g \in Handler : Pending(g)' <=> g = h \/ Pending(g)
    BY <1>2 DEF Pending
  <2>7. ASSUME NEW g \in Handler, Pending(g)', Signed[handlers'[g].request] # Bearer
        PROVE  /\ seen'[handlers'[g].request] = handlers'[g].at + ReplayWindow
               /\ \A k \in Handler : Pending(k)' /\ handlers'[k].request = handlers'[g].request =>
                    k = g
    <3>1. CASE g = h
      BY <1>2, <2>5, <2>6, <2>7, <3>1
    <3>2. CASE g # h
      <4>1. Pending(g) /\ handlers'[g] = handlers[g] /\ Active(handlers[g].request)
        BY <1>2, <2>2, <2>6, <2>7, <3>2
      <4>2. seen'[handlers[g].request] = handlers[g].at + ReplayWindow
        BY <1>7, <2>1, <2>3, <2>7, <4>1 DEF ReservationsHold
      <4>3. handlers[g].request # r
        BY <2>5, <2>7, <4>1
      <4>4. \A k \in Handler : Pending(k) /\ handlers[k].request = handlers[g].request => k = g
        BY <2>1, <2>7, <4>1 DEF ReservationsHold
      <4> QED
        BY <1>2, <2>6, <4>1, <4>2, <4>3, <4>4
    <3> QED
      BY <3>1, <3>2
  <2>8. ASSUME NEW a \in accepted, Signed[a.request] # Bearer
        PROVE  /\ clock < a.at + ReplayWindow
               /\ seen'[a.request] = a.at + ReplayWindow
               /\ \A g \in Handler : Pending(g)' => handlers'[g].request # a.request
    <3>1. /\ clock < a.at + ReplayWindow
          /\ seen[a.request] = a.at + ReplayWindow
          /\ \A g \in Handler : Pending(g) => handlers[g].request # a.request
      BY <2>1, <2>8 DEF ReservationsHold
    <3>2. seen'[a.request] = seen[a.request]
      BY <1>7, <2>2, <2>4, <2>8
    <3>3. a.request # r
      BY <2>5, <2>8
    <3> QED
      BY <1>2, <2>6, <3>1, <3>2, <3>3
  <2> QED
    BY <1>1, <1>3, <2>7, <2>8 DEF ReservationsHold
<1> QED
  BY <1>1, <1>3, <1>5, <1>7, <1>8 DEF CacheInv

\* The handler that accepts a request was the only one that could release its reservation.
LEMMA AcceptKeepsCache ==
    ASSUME CacheInv, HandlerInv, ConfigInv, NEW h \in Handler, Accept(h)
    PROVE  CacheInv'
<1> DEFINE r == handlers[h].request
           new == [request |-> r, at |-> handlers[h].at]
<1>1. /\ UNCHANGED <<clock, seen, stage, config>>
      /\ accepted' = accepted \cup {new}
      /\ Pending(h) /\ r \in Request /\ handlers[h].at \in Int /\ clock \in Int
      /\ stage[TheServer] = "serving"
  BY DEF Accept, startupVars, HandlerInv, Pending
<1>2. ~Pending(h)' /\ \A g \in Handler : g # h => handlers'[g] = handlers[g]
  BY DEF Accept, Answer, Idle, HandlerInv, Pending
<1>3. ReplayWindow \in Int /\ ReplayWindow' = ReplayWindow
  <2>1. ReplayWindow \in Int
    BY <1>1, WindowIsNumber
  <2> QED
    BY <1>1, <2>1 DEF ReplayWindow
<1>4. accepted' \in SUBSET [request : Request, at : Int] /\ seen' \in [Request -> Int \cup {Never}]
  BY <1>1, SMTT(30) DEF CacheInv
<1>5. \A g \in Handler : Pending(g)' => g # h /\ Pending(g) /\ handlers'[g] = handlers[g]
  BY <1>2 DEF Pending
<1>6. \A g \in Handler : Pending(g)' =>
        handlers'[g].at <= clock' /\ clock' <= handlers'[g].at + PublishTimeout
  BY <1>1, <1>5 DEF CacheInv
<1>7. ASSUME ReplayWindow > PublishTimeout
      PROVE  ReservationsHold'
  <2>1. ReservationsHold
    BY <1>1, <1>7 DEF CacheInv
  <2>2. clock < handlers[h].at + ReplayWindow
    <3>1. clock <= handlers[h].at + PublishTimeout /\ PublishTimeout \in Int
      BY <1>1, TimesAreNumbers, SMTT(30) DEF CacheInv
    <3> QED
      BY <1>1, <1>3, <1>7, <3>1, SMTT(30)
  <2>3. ASSUME Signed[r] # Bearer
        PROVE  /\ seen[r] = handlers[h].at + ReplayWindow
               /\ \A g \in Handler : Pending(g)' => handlers'[g].request # r
    BY <1>1, <1>5, <2>1, <2>3 DEF ReservationsHold
  <2>4. ASSUME NEW a \in accepted', Signed[a.request] # Bearer
        PROVE  /\ clock < a.at + ReplayWindow
               /\ seen[a.request] = a.at + ReplayWindow
               /\ \A g \in Handler : Pending(g)' => handlers'[g].request # a.request
    <3>1. CASE a \in accepted
      BY <1>5, <2>1, <2>4, <3>1 DEF ReservationsHold
    <3>2. CASE a = new
      <4>1. a.request = r /\ a.at = handlers[h].at
        BY <3>2
      <4> QED
        BY <2>2, <2>3, <2>4, <4>1
    <3> QED
      BY <1>1, <3>1, <3>2
  <2>5. \A g \in Handler : Pending(g)' /\ Signed[handlers'[g].request] # Bearer =>
          /\ seen[handlers'[g].request] = handlers'[g].at + ReplayWindow
          /\ \A k \in Handler : Pending(k)' /\ handlers'[k].request = handlers'[g].request => k = g
    BY <1>5, <2>1 DEF ReservationsHold
  <2> QED
    BY <1>1, <1>3, <2>4, <2>5 DEF ReservationsHold
<1> QED
  BY <1>1, <1>3, <1>4, <1>6, <1>7 DEF CacheInv

\* release does not ask whose reservation it removes: it is the one of this handler.
LEMMA ReleaseKeepsCache ==
    ASSUME CacheInv, HandlerInv, ConfigInv, NEW h \in Handler, Release(h)
    PROVE  CacheInv'
<1> DEFINE r == handlers[h].request
<1>1. /\ UNCHANGED <<clock, accepted, stage, config>>
      /\ Pending(h) /\ r \in Request /\ stage[TheServer] = "serving"
  BY DEF Release, startupVars, HandlerInv, Pending
<1>2. ~Pending(h)' /\ \A g \in Handler : g # h => handlers'[g] = handlers[g]
  BY DEF Release, Answer, Idle, HandlerInv, Pending
<1>3. ReplayWindow' = ReplayWindow
  BY <1>1 DEF ReplayWindow
<1>4. seen' = IF Signed[r] = Bearer THEN seen ELSE [seen EXCEPT ![r] = Never]
  BY DEF Release
<1>5. /\ seen' \in [Request -> Int \cup {Never}]
      /\ \A q \in Request : Signed[r] = Bearer \/ q # r => seen'[q] = seen[q]
  BY <1>1, <1>4 DEF CacheInv
<1>6. \A g \in Handler : Pending(g)' => g # h /\ Pending(g) /\ handlers'[g] = handlers[g]
  BY <1>2 DEF Pending
<1>7. \A g \in Handler : Pending(g)' =>
        handlers'[g].at <= clock' /\ clock' <= handlers'[g].at + PublishTimeout
  BY <1>1, <1>6 DEF CacheInv
<1>8. ASSUME ReplayWindow > PublishTimeout
      PROVE  ReservationsHold'
  <2>1. ReservationsHold
    BY <1>1, <1>8 DEF CacheInv
  <2>2. ASSUME NEW g \in Handler, Pending(g)', Signed[handlers'[g].request] # Bearer
        PROVE  /\ seen'[handlers'[g].request] = handlers'[g].at + ReplayWindow
               /\ \A k \in Handler : Pending(k)' /\ handlers'[k].request = handlers'[g].request =>
                    k = g
    <3>1. g # h /\ Pending(g) /\ handlers'[g] = handlers[g] /\ handlers[g].request \in Request
      BY <1>6, <2>2 DEF HandlerInv, Pending
    <3>2. handlers[g].request # r
      BY <1>1, <2>1, <2>2, <3>1 DEF ReservationsHold
    <3>3. seen[handlers[g].request] = handlers[g].at + ReplayWindow
      BY <2>1, <2>2, <3>1 DEF ReservationsHold
    <3>4. \A k \in Handler : Pending(k) /\ handlers[k].request = handlers[g].request => k = g
      BY <2>1, <2>2, <3>1 DEF ReservationsHold
    <3> QED
      BY <1>5, <1>6, <3>1, <3>2, <3>3, <3>4
  <2>3. ASSUME NEW a \in accepted, Signed[a.request] # Bearer
        PROVE  /\ clock < a.at + ReplayWindow
               /\ seen'[a.request] = a.at + ReplayWindow
               /\ \A g \in Handler : Pending(g)' => handlers'[g].request # a.request
    <3>1. /\ clock < a.at + ReplayWindow
          /\ seen[a.request] = a.at + ReplayWindow
          /\ \A g \in Handler : Pending(g) => handlers[g].request # a.request
      BY <2>1, <2>3 DEF ReservationsHold
    <3>2. a.request \in Request /\ a.request # r
      BY <1>1, <3>1 DEF CacheInv
    <3> QED
      BY <1>5, <1>6, <3>1, <3>2
  <2> QED
    BY <1>1, <1>3, <2>2, <2>3 DEF ReservationsHold
<1> QED
  BY <1>1, <1>3, <1>5, <1>7, <1>8 DEF CacheInv

\* Time forgets what was accepted a window ago, and passes no deadline of a handler.
LEMMA TickKeepsCache ==
    ASSUME CacheInv, HandlerInv, ConfigInv, Tick
    PROVE  CacheInv'
<1>1. /\ UNCHANGED <<handlers, seen, stage, config>>
      /\ clock' = clock + 1 /\ clock \in Int
      /\ accepted' = {a \in accepted : clock' < a.at + ReplayWindow}
  BY DEF Tick, startupVars, HandlerInv
<1>2. ReplayWindow' = ReplayWindow
  BY <1>1 DEF ReplayWindow
<1>3. \A h \in Handler : Pending(h)' <=> Pending(h)
  BY <1>1 DEF Pending
<1>4. ASSUME NEW h \in Handler, Pending(h)
      PROVE  handlers[h].at <= clock' /\ clock' <= handlers[h].at + PublishTimeout
  <2>1. handlers[h].at \in Int /\ PublishTimeout \in Int
    BY TimesAreNumbers, SMTT(30) DEF HandlerInv
  <2>2. handlers[h].at <= clock /\ clock < handlers[h].at + PublishTimeout
    BY <1>4 DEF CacheInv, Tick, Pending
  <2> QED
    BY <1>1, <2>1, <2>2, SMTT(30)
<1>5. ReservationsHold => ReservationsHold'
  BY <1>1, <1>2, <1>3 DEF ReservationsHold
<1>6. accepted' \subseteq accepted
  BY <1>1
<1> QED
  BY <1>1, <1>2, <1>3, <1>4, <1>5, <1>6 DEF CacheInv

\* A server that does not serve, or that has just stopped, has nothing pending or accepted.
LEMMA EmptyKeepsCache ==
    ASSUME accepted' = {}, \A h \in Handler : ~Pending(h)', seen' \in [Request -> Int \cup {Never}]
    PROVE  CacheInv'
BY DEF CacheInv, ReservationsHold

\* Starting a process leaves the handlers alone, and a server that starts has none.
LEMMA StartingKeepsCache ==
    ASSUME CacheInv, HandlerInv, ConfigInv, NEW p \in Process, Starting(p)
    PROVE  CacheInv'
<1>1. UNCHANGED <<clock, handlers, seen, accepted>>
  BY DEF Starting, handlerVars
<1>2. /\ stage[p] # "serving"
      /\ \A q \in Process : q # p => stage'[q] = stage[q] /\ config'[q] = config[q]
  <2>1. CASE Load(p)
    <3>1. stage[p] = "down"
      BY <2>1 DEF Load
    <3> QED
      BY <2>1, <3>1, LoadKeepsConfig
  <2>2. CASE StartupStep(p)
    <3>1. stage[p] # "serving"
      BY <2>2 DEF StartupStep, LockMigrations, BeginMigration, CommitMigration, UnlockMigrations,
           Connect, UpdateConsumer, AddConsumer
    <3> QED
      BY <2>2, <3>1, StepKeepsConfig
  <2> QED
    BY <2>1, <2>2 DEF Starting
<1>3. CASE p = TheServer
  <2>1. \A h \in Handler : ~Pending(h)'
    BY <1>1, <1>2, <1>3 DEF HandlerInv, Pending
  <2>2. accepted' = {} /\ seen' \in [Request -> Int \cup {Never}]
    BY <1>1, <1>2, <1>3 DEF CacheInv
  <2> QED
    BY <2>1, <2>2, EmptyKeepsCache
<1>4. CASE p # TheServer
  <2>1. stage'[TheServer] = stage[TheServer] /\ ReplayWindow' = ReplayWindow
    BY <1>2, <1>4, TimesAreNumbers DEF ReplayWindow
  <2> QED
    BY <1>1, <2>1 DEF CacheInv, ReservationsHold, Pending
<1> QED
  BY <1>3, <1>4

\* The cache and what was accepted go with the server.
LEMMA StopKeepsCache ==
    ASSUME CacheInv, HandlerInv, ConfigInv, NEW p \in Process, Stop(p)
    PROVE  CacheInv'
<1>1. CASE p = TheServer
  <2>1. handlers' = [h \in Handler |-> Idle] /\ seen' = [r \in Request |-> Never] /\ accepted' = {}
    BY <1>1 DEF Stop
  <2>2. \A h \in Handler : ~Pending(h)'
    BY <2>1 DEF Pending, Idle
  <2>3. seen' \in [Request -> Int \cup {Never}]
    BY <2>1
  <2> QED
    BY <2>1, <2>2, <2>3, EmptyKeepsCache
<1>2. CASE p # TheServer
  <2>1. UNCHANGED <<clock, handlers, seen, accepted>>
    BY <1>2 DEF Stop
  <2>2. stage'[TheServer] = stage[TheServer] /\ ReplayWindow' = ReplayWindow
    BY <1>2, TimesAreNumbers, DieKeepsConfig DEF ReplayWindow, Stop
  <2> QED
    BY <2>1, <2>2 DEF CacheInv, ReservationsHold, Pending
<1> QED
  BY <1>1, <1>2

\* Steps of a handler that neither reserve, accept nor release.
LEMMA QuietHandling ==
    ASSUME CacheInv, HandlerInv, ConfigInv, NEW h \in Handler,
           (\E r \in Request : Receive(h, r)) \/ Limit(h) \/ Reject(h) \/ Publish(h)
    PROVE  CacheInv'
<1>1. UNCHANGED <<clock, accepted, stage, config>>
  BY DEF Receive, Limit, Reject, Publish, startupVars
<1>2. /\ seen' \in [Request -> Int \cup {Never}]
      /\ \A r \in Request : Active(r) => seen'[r] = seen[r]
  <2>1. seen' = seen \/ seen' = Pruned
    BY DEF Receive, Limit, Reject, Publish
  <2>2. seen \in [Request -> Int \cup {Never}]
    BY DEF CacheInv
  <2> QED
    BY <2>1, <2>2, PruningKeepsActive
<1>3. \A g \in Handler : g # h => handlers'[g] = handlers[g]
  BY DEF Receive, Limit, Reject, Publish, Answer, Becomes, HandlerInv
<1>4. ASSUME Pending(h)'
      PROVE  /\ Pending(h)
             /\ handlers'[h].request = handlers[h].request /\ handlers'[h].at = handlers[h].at
  <2>1. ASSUME Answer(h) PROVE FALSE
    BY <1>4, <2>1 DEF Answer, Idle, Pending, HandlerInv
  <2>2. ASSUME NEW r \in Request, Receive(h, r) PROVE FALSE
    BY <1>4, <2>2 DEF Receive, Pending, HandlerInv
  <2>3. ASSUME Becomes(h, "admitted", handlers[h].at) PROVE FALSE
    BY <1>4, <2>3 DEF Becomes, Pending, HandlerInv
  <2>4. Publish(h)
    BY <2>1, <2>2, <2>3 DEF Limit, Reject
  <2> QED
    BY <2>4 DEF Publish, Becomes, Pending, HandlerInv
<1>5. \A g \in Handler : Pending(g)' =>
        /\ Pending(g)
        /\ handlers'[g].request = handlers[g].request /\ handlers'[g].at = handlers[g].at
  BY <1>3, <1>4 DEF Pending
<1> QED
  BY <1>1, <1>2, <1>5, QuietStep

\* The cache keeps its promises in every step.
LEMMA CacheNext == CacheInv /\ HandlerInv /\ ConfigInv /\ [Next]_vars => CacheInv'
<1> SUFFICES ASSUME CacheInv, HandlerInv, ConfigInv, [Next]_vars
             PROVE  CacheInv'
  OBVIOUS
<1>1. CASE UNCHANGED <<clock, handlers, seen, accepted, stage, config>>
  BY <1>1 DEF CacheInv, ReservationsHold, Pending, ReplayWindow
<1>2. UNCHANGED vars => UNCHANGED <<clock, handlers, seen, accepted, stage, config>>
  BY DEF vars, handlerVars, startupVars
<1>3. ASSUME NEW m \in late, ArriveLate(m) \/ Vanish(m)
      PROVE  UNCHANGED <<clock, handlers, seen, accepted, stage, config>>
  BY <1>3 DEF ArriveLate, Vanish, startupVars
<1>4. ASSUME NEW h \in Handler, Handling(h)
      PROVE  CacheInv'
  BY <1>4, QuietHandling, VerifyKeepsCache, AcceptKeepsCache, ReleaseKeepsCache DEF Handling
<1> QED
  BY <1>1, <1>2, <1>3, <1>4, StartingKeepsCache, StopKeepsCache, TickKeepsCache DEF Next

\* ReplayCache: a request that was accepted is refused until its window is over, for every
\* capacity of the cache, whatever other requests are verified, refused, released or pruned
\* meanwhile, when the window is longer than the publish timeout.
THEOREM AcceptedStaysRemembered == Spec => []AcceptedIsRemembered
<1>1. Init => ConfigInv
  BY DEF Init, StartupInit, ConfigInv
<1>2. CacheInv /\ HandlerInv /\ ConfigInv => AcceptedIsRemembered
  <2> SUFFICES ASSUME CacheInv, HandlerInv, ConfigInv, NEW a \in accepted,
                      Signed[a.request] # Bearer, ReplayWindow > PublishTimeout
               PROVE  Active(a.request)
    BY DEF AcceptedIsRemembered
  <2>1. stage[TheServer] = "serving"
    BY DEF CacheInv
  <2>2. ReplayWindow \in Int
    BY <2>1, WindowIsNumber
  <2> QED
    BY <2>1, <2>2, HeldIsActive
<1> QED
  BY <1>1, <1>2, CacheInit, HandlerInit, CacheNext, HandlerNext, ConfigNext, PTL DEF Spec
=============================================================================
