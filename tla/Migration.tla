------------------------------ MODULE Migration ------------------------------
(***************************************************************************)
(* Schema migrations: processes that run `migration <version>` against one *)
(* database, and service instances that refuse to start unless the version *)
(* is the one their build knows as the latest.                             *)
(*                                                                         *)
(* A migrator makes sure that migration_info exists, reads the current     *)
(* version, and only then opens the transaction in which it runs the steps *)
(* between that version and its target and writes the target to            *)
(* migration_info.  The locks of ALTER TABLE, CREATE TABLE and of the row  *)
(* in migration_info make such transactions wait for each other, or        *)
(* PostgreSQL aborts one of them (a Fault here), so at most one is open;   *)
(* what it starts from was read before.                                    *)
(*                                                                         *)
(* The schema is the set of steps in force.  Steps differ in what they     *)
(* need: CREATE TABLE fails on an existing table, DELETE or ADD COLUMN on  *)
(* a missing one, DROP COLUMN IF EXISTS and an empty StepDown do not mind. *)
(***************************************************************************)
EXTENDS Integers, Sequences

CONSTANTS
    Migrators, Services,
    Max,            \* number of migrations there are in any build
    Known,          \* Known[p]: how many of them the build of p has, GetMaxVersion
    StrictUp,       \* steps whose StepUp fails when they are already in force
    UpNeeds,        \* UpNeeds[i]: steps that must be in force for StepUp of i
    DownNeeds,      \* DownNeeds[i]: the same for StepDown of i
    Commands,       \* the targets the migrators may be started with
    InitialTables,  \* migration_info before they start: <<>> if it does not exist
    NoOne,
    MaxFaults       \* bound of the model

Versions == 0..Max

ASSUME MigrationConstants ==
    /\ Max \in Nat /\ MaxFaults \in Nat
    /\ Known \in [Migrators \union Services -> Versions]
    /\ StrictUp \subseteq 1..Max
    /\ UpNeeds \in [1..Max -> SUBSET (1..Max)]
    /\ \A i \in 1..Max : \A j \in UpNeeds[i] : j < i
    /\ DownNeeds \in [1..Max -> SUBSET (1..Max)]
    /\ Commands \subseteq [Migrators -> Nat]
    /\ \A t \in InitialTables : t = <<>> \/ \E v \in Versions : t = <<v>>
    /\ NoOne \notin Migrators

VARIABLES
    info,      \* the rows of migration_info, <<>> if there is no such table
    schema,    \* steps in force
    command,   \* command[p]: the version p was asked for; never changes
    pc,        \* where p is
    cur,       \* currentVer of SetDBVersion
    txn,       \* the migrator whose transaction is open, or NoOne
    at,        \* currentVer of execStepsInTx, in that transaction
    work,      \* the schema as that transaction sees it
    service,   \* service[s]: it has passed prepareDBMigrations
    faults     \* failed statements, connections and processes so far

transaction == <<txn, at, work>>
vars == <<info, schema, command, pc, cur, transaction, service, faults>>

Init ==
    /\ info \in InitialTables
    /\ schema = IF info = <<>> THEN {} ELSE 1..info[1]
    /\ command \in Commands
    /\ pc = [p \in Migrators |-> "init"]
    /\ cur = [p \in Migrators |-> 0]
    /\ txn = NoOne /\ at = 0 /\ work = {}
    /\ service = [s \in Services |-> FALSE]
    /\ faults = 0

GoTo(p, where) == pc' = [pc EXCEPT ![p] = where]

-----------------------------------------------------------------------------
\* Mutant: the row is inserted whether there is one or not.
InitInfoTable_AlwaysInserts(p) ==
    /\ pc[p] = "init"
    /\ info' = Append(info, 0)
    /\ GoTo(p, "read")
    /\ UNCHANGED <<schema, command, cur, transaction, service, faults>>

\* Mutant: CREATE TABLE without IF NOT EXISTS.
InitInfoTable_OnlyOnce(p) ==
    /\ pc[p] = "init"
    /\ \/ info = <<>> /\ info' = <<0>> /\ GoTo(p, "read")
       \/ info # <<>> /\ GoTo(p, "failed") /\ UNCHANGED info
    /\ UNCHANGED <<schema, command, cur, transaction, service, faults>>

\* getDBForMigrations: one transaction that creates the table with its row.
InitInfoTable(p) ==
    /\ pc[p] = "init"
    /\ info' = IF info = <<>> THEN <<0>> ELSE info
    /\ GoTo(p, "read")
    /\ UNCHANGED <<schema, command, cur, transaction, service, faults>>

\* SetDBVersion up to its call of execStepsInTx, and the latter's early return.
SetDBVersion(p) ==
    /\ pc[p] = "read"
    /\ \/ /\ \/ command[p] > Known[p]
             \/ Len(info) # 1
             \/ info[1] > Known[p]
          /\ GoTo(p, "failed")
          /\ UNCHANGED cur
       \/ /\ command[p] <= Known[p]
          /\ Len(info) = 1 /\ info[1] <= Known[p]
          /\ cur' = [cur EXCEPT ![p] = info[1]]
          /\ GoTo(p, IF info[1] = command[p] THEN "done" ELSE "begin")
    /\ UNCHANGED <<info, schema, command, transaction, service, faults>>

Begin(p) ==
    /\ pc[p] = "begin"
    /\ txn = NoOne
    /\ txn' = p /\ at' = cur[p] /\ work' = schema
    /\ GoTo(p, "steps")
    /\ UNCHANGED <<info, schema, command, cur, service, faults>>

CanStepUp(i) == UpNeeds[i] \subseteq work /\ (i \in StrictUp => i \notin work)
CanStepDown(i) == DownNeeds[i] \subseteq work

\* Dropping what step i created drops what was built on it.
Undone(i) == {i} \union {j \in 1..Max : i \in UpNeeds[j]}

Step(p) ==
    /\ pc[p] = "steps" /\ txn = p
    /\ \/ /\ at < command[p] /\ CanStepUp(at + 1)
          /\ work' = work \union {at + 1}
          /\ at' = at + 1
       \/ /\ at > command[p] /\ CanStepDown(at)
          /\ work' = work \ Undone(at)
          /\ at' = at - 1
    /\ UNCHANGED <<info, schema, command, pc, cur, txn, service, faults>>

Close(p, where) ==
    /\ txn' = NoOne /\ at' = 0 /\ work' = {}
    /\ GoTo(p, where)

\* A step returns an error.
StepFails(p) ==
    /\ pc[p] = "steps" /\ txn = p
    /\ \/ at < command[p] /\ ~CanStepUp(at + 1)
       \/ at > command[p] /\ ~CanStepDown(at)
    /\ Close(p, "failed")
    /\ UNCHANGED <<info, schema, command, cur, service, faults>>

\* Mutant: version=$1 is the version before the last step.
Commit_OneBehind(p) ==
    /\ pc[p] = "steps" /\ txn = p /\ at = command[p]
    /\ info' = <<IF cur[p] < at THEN at - 1 ELSE at + 1>>
    /\ schema' = work
    /\ Close(p, "done")
    /\ UNCHANGED <<command, cur, service, faults>>

\* updateVersionInDB and COMMIT.
Commit(p) ==
    /\ pc[p] = "steps" /\ txn = p /\ at = command[p]
    /\ Len(info) = 1
    /\ info' = <<at>>
    /\ schema' = work
    /\ Close(p, "done")
    /\ UNCHANGED <<command, cur, service, faults>>

-----------------------------------------------------------------------------
\* Mutant: without a transaction the steps run so far stay.
Fault_KeepsSteps(p) ==
    /\ faults < MaxFaults
    /\ faults' = faults + 1
    /\ pc[p] \in {"init", "read", "begin", "steps"}
    /\ schema' = IF txn = p THEN work ELSE schema
    /\ IF txn = p THEN Close(p, "failed")
       ELSE GoTo(p, "failed") /\ UNCHANGED transaction
    /\ UNCHANGED <<info, command, cur, service>>

\* The process dies or its connection breaks: PostgreSQL rolls back.
Fault(p) ==
    /\ faults < MaxFaults
    /\ faults' = faults + 1
    /\ pc[p] \in {"init", "read", "begin", "steps"}
    /\ IF txn = p THEN Close(p, "failed")
       ELSE GoTo(p, "failed") /\ UNCHANGED transaction
    /\ UNCHANGED <<info, schema, command, cur, service>>

\* The connection breaks after COMMIT took effect.
CommitUnknown(p) ==
    /\ faults < MaxFaults
    /\ faults' = faults + 1
    /\ pc[p] = "steps" /\ txn = p /\ at = command[p] /\ Len(info) = 1
    /\ info' = <<at>> /\ schema' = work
    /\ Close(p, "failed")
    /\ UNCHANGED <<command, cur, service>>

\* A migrator that failed is started again with the same command.
Restart(p) ==
    /\ pc[p] = "failed"
    /\ GoTo(p, "init")
    /\ UNCHANGED <<info, schema, command, cur, transaction, service, faults>>

-----------------------------------------------------------------------------
\* Mutant: a newer database is accepted.
StartService_AtLeast(s) ==
    /\ ~service[s]
    /\ Len(info) = 1 /\ info[1] >= Known[s]
    /\ service' = [service EXCEPT ![s] = TRUE]
    /\ UNCHANGED <<info, schema, command, pc, cur, transaction, faults>>

\* prepareDBMigrations: an instance that finds another version exits.
StartService(s) ==
    /\ ~service[s]
    /\ Len(info) = 1 /\ info[1] = Known[s]
    /\ service' = [service EXCEPT ![s] = TRUE]
    /\ UNCHANGED <<info, schema, command, pc, cur, transaction, faults>>

-----------------------------------------------------------------------------

Migrate(p) ==
    \/ InitInfoTable(p)
    \/ SetDBVersion(p)
    \/ Begin(p)
    \/ Step(p)
    \/ StepFails(p)
    \/ Commit(p)
    \/ Restart(p)

Next ==
    \/ \E p \in Migrators : Migrate(p) \/ Fault(p) \/ CommitUnknown(p)
    \/ \E s \in Services : StartService(s)

Spec == Init /\ [][Next]_vars

\* Processes that can run do, and whoever deploys the service starts a migrator
\* and an instance again until they succeed.
FairSpec ==
    /\ Spec
    /\ \A p \in Migrators : WF_vars(Migrate(p))
    /\ \A s \in Services : WF_vars(StartService(s))

-----------------------------------------------------------------------------
\* Every variable has its type: migration_info has at most one row.
MigrationTypeOK ==
    /\ info = <<>> \/ \E v \in Versions : info = <<v>>
    /\ schema \subseteq 1..Max
    /\ command \in Commands
    /\ pc \in [Migrators -> {"init", "read", "begin", "steps", "failed", "done"}]
    /\ cur \in [Migrators -> Versions]
    /\ txn \in Migrators \union {NoOne}
    /\ at \in Versions /\ work \subseteq 1..Max
    /\ service \in [Services -> BOOLEAN]
    /\ faults \in Nat
    /\ \A p \in Migrators : pc[p] = "steps" => txn = p
    /\ \A p \in Migrators : pc[p] \in {"begin", "steps"} => command[p] <= Known[p]

\* The version in migration_info says which steps are in force: migrators that
\* read the version before another one changes it leave no step out and add none
\* beyond it, whichever steps fail when they meet their own work, and whatever
\* breaks off.  (For migrators with the same target, see SameTarget.)
VersionMatchesSchema ==
    /\ info = <<>> => schema = {}
    /\ \A v \in Versions : info = <<v>> => schema = 1..v

\* An instance starts only on a database with exactly the steps its build knows.
ServiceStartsOnItsSchema ==
    [][\A s \in Services : ~service[s] /\ service'[s] => schema = 1..Known[s]]_vars

\* If the target exists in the migrators' builds, and the database is not beyond
\* them, all migrators end with success, however they get in each other's way,
\* and the instances of that build start.
MigrationCompletes ==
    \A t \in Versions :
        (/\ \A p \in Migrators : command[p] = t /\ t <= Known[p]
         /\ info = <<>> \/ \A p \in Migrators : info[1] <= Known[p])
        ~> /\ \A p \in Migrators : pc[p] = "done"
           /\ info = <<t>>
           /\ \A s \in Services : Known[s] = t => service[s]

-----------------------------------------------------------------------------
\* All migrators were started with the same target.
SameTarget == \A p, q \in Migrators : command[p] = command[q]

\* What a migrator has read is still the version, or another one has brought the
\* database to the common target meanwhile.
ReadInv ==
    \A p \in Migrators : pc[p] = "begin" => info = <<cur[p]>> \/ info = <<command[p]>>

\* The open transaction has the steps up to where it is, or it runs steps another
\* migrator has run before it and sees those of the common target.
WorkInv ==
    \A p \in Migrators : txn = p =>
        /\ pc[p] = "steps"
        /\ work = 1..at \/ work = 1..command[p]
        /\ info # <<>>

\* The inductive invariant behind VersionMatchesSchema, for migrators that share
\* their target: what SetDBVersion read before its transaction may be stale, but
\* then the database already is where it is heading.
MigrationInv == SameTarget /\ VersionMatchesSchema /\ ReadInv /\ WorkInv
=============================================================================
