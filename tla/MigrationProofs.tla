--------------------------- MODULE MigrationProofs ---------------------------
(***************************************************************************)
(* Migrators with a common target keep migration_info and the schema in    *)
(* step, for any number of migrators, migrations, faults and restarts, and *)
(* whatever the single steps need or refuse.                               *)
(***************************************************************************)
EXTENDS Migration, TLAPS

\* The migrators may be started with any target, but all with the same one.
CommonTarget == \A f \in Commands : \A p, q \in Migrators : f[p] = f[q]

IInv == MigrationTypeOK /\ MigrationInv

-----------------------------------------------------------------------------
\* Neither of the facts about numbers needs the state.

\* One more step up extends the steps in force by one (execStepsInTx).
LEMMA UpTo ==
    ASSUME NEW n \in Nat
    PROVE  (1..n) \union {n + 1} = 1..(n + 1)
  BY SMT

\* One step down takes away the last step in force and whatever was built on it.
LEMMA DownFrom ==
    ASSUME NEW n \in Nat, n > 0, NEW S \in SUBSET Nat, \A j \in S : j > n
    PROVE  (1..n) \ ({n} \union S) = 1..(n - 1)
  BY SMT

\* A step that is in force already changes nothing, neither does one beyond the target.
LEMMA Stale ==
    ASSUME NEW t \in Nat, NEW n \in Nat
    PROVE  /\ n < t => (1..t) \union {n + 1} = 1..t
           /\ \A S \in SUBSET Nat : n > t /\ (\A j \in S : j > n)
                  => (1..t) \ ({n} \union S) = 1..t
  BY SMT

\* Two version tables with one row are equal only if their versions are.
LEMMA OneRow ==
    /\ \A v : Len(<<v>>) = 1 /\ <<v>>[1] = v /\ <<v>> # <<>>
    /\ Len(<<>>) = 0
    /\ \A v, w : <<v>> = <<w>> => v = w
  OBVIOUS

-----------------------------------------------------------------------------
\* Type correctness, whatever the targets are.

\* What migration_info holds, when it holds a row, is a version.
LEMMA VersionRead ==
    ASSUME MigrationTypeOK, Len(info) = 1
    PROVE  info[1] \in Versions
<1>1. CASE info = <<>>
  BY <1>1, OneRow
<1>2. CASE \E v \in Versions : info = <<v>>
  BY <1>2, OneRow, Zenon
<1> QED BY <1>1, <1>2 DEF MigrationTypeOK

LEMMA TypeInit ==
    ASSUME Init
    PROVE  MigrationTypeOK
<1> USE MigrationConstants
<1>1. info = <<>> \/ \E v \in Versions : info = <<v>>
  BY DEF Init
<1>2. schema \subseteq 1..Max
  BY <1>1, OneRow DEF Init, Versions
<1> QED BY <1>1, <1>2 DEF Init, MigrationTypeOK, Versions

\* A transaction stays within the migrations of its build: Step goes towards the
\* target, which SetDBVersion has compared with GetMaxVersion.
LEMMA TypeStep ==
    ASSUME MigrationTypeOK, [Next]_vars
    PROVE  MigrationTypeOK'
<1> USE MigrationConstants
<1>0. 0 \in Versions /\ {} \subseteq 1..Max
  BY DEF Versions
<1>1. ASSUME NEW p \in Migrators, InitInfoTable(p) PROVE MigrationTypeOK'
  BY <1>0, <1>1 DEF MigrationTypeOK, InitInfoTable, GoTo, transaction
<1>2. ASSUME NEW p \in Migrators, SetDBVersion(p) PROVE MigrationTypeOK'
  <2>1. /\ cur' \in [Migrators -> Versions]
        /\ pc' \in [Migrators -> {"init", "read", "begin", "steps", "failed", "done"}]
        /\ \A q \in Migrators : q # p => pc'[q] = pc[q]
        /\ pc'[p] \in {"failed", "done", "begin"}
        /\ pc'[p] = "begin" => command[p] <= Known[p]
    BY <1>2, VersionRead DEF MigrationTypeOK, SetDBVersion, GoTo
  <2> QED BY <1>2, <2>1 DEF MigrationTypeOK, SetDBVersion, transaction
<1>3. ASSUME NEW p \in Migrators, Begin(p) PROVE MigrationTypeOK'
  BY <1>3 DEF MigrationTypeOK, Begin, GoTo
<1>4. ASSUME NEW p \in Migrators, Step(p) PROVE MigrationTypeOK'
  <2>1. /\ at \in Nat /\ command[p] \in Nat /\ command[p] <= Max /\ at <= Max
    BY <1>4 DEF Step, MigrationTypeOK, Versions
  <2>2. at' \in Versions /\ work' \subseteq 1..Max
    <3>1. work \subseteq 1..Max  BY DEF MigrationTypeOK
    <3>2. CASE at < command[p] /\ work' = work \union {at + 1} /\ at' = at + 1
      BY <2>1, <3>1, <3>2 DEF Versions
    <3>3. CASE at > command[p] /\ work' = work \ Undone(at) /\ at' = at - 1
      <4>1. at' \in Versions  BY <2>1, <3>3 DEF Versions
      <4>2. work' \subseteq work  BY <3>3
      <4> QED BY <3>1, <4>1, <4>2
    <3> QED BY <1>4, <3>2, <3>3 DEF Step
  <2> QED BY <1>4, <2>2 DEF MigrationTypeOK, Step
<1>5. ASSUME NEW p \in Migrators, StepFails(p) \/ Fault(p) PROVE MigrationTypeOK'
  <2>1. /\ UNCHANGED <<info, schema, command, cur, service>>
        /\ GoTo(p, "failed")
        /\ \/ UNCHANGED transaction /\ txn # p
           \/ txn' = NoOne /\ at' = 0 /\ work' = {}
        /\ faults' \in Nat
    BY <1>5 DEF StepFails, Fault, Close, MigrationTypeOK
  <2>2. /\ pc' \in [Migrators -> {"init", "read", "begin", "steps", "failed", "done"}]
        /\ pc'[p] = "failed" /\ \A q \in Migrators : q # p => pc'[q] = pc[q]
    BY <2>1 DEF MigrationTypeOK, GoTo
  <2>3. /\ txn' \in Migrators \union {NoOne} /\ at' \in Versions /\ work' \subseteq 1..Max
        /\ \A q \in Migrators : pc'[q] = "steps" => txn' = q
    BY <1>0, <1>5, <2>1, <2>2 DEF MigrationTypeOK, transaction, StepFails, Fault
  <2> QED BY <2>1, <2>2, <2>3 DEF MigrationTypeOK
<1>6. ASSUME NEW p \in Migrators, Commit(p) \/ CommitUnknown(p) PROVE MigrationTypeOK'
  <2>1. /\ info' = <<at>> /\ schema' = work
        /\ txn' = NoOne /\ at' = 0 /\ work' = {}
        /\ GoTo(p, "failed") \/ GoTo(p, "done")
        /\ UNCHANGED <<command, cur, service>>
        /\ faults' \in Nat
    BY <1>6 DEF Commit, CommitUnknown, Close, MigrationTypeOK
  <2>2. /\ pc' \in [Migrators -> {"init", "read", "begin", "steps", "failed", "done"}]
        /\ pc'[p] \in {"failed", "done"} /\ \A q \in Migrators : q # p => pc'[q] = pc[q]
    BY <2>1 DEF MigrationTypeOK, GoTo
  <2>3. \A q \in Migrators : q # p => pc[q] # "steps"
    BY <1>6 DEF MigrationTypeOK, Commit, CommitUnknown
  <2> QED BY <1>0, <2>1, <2>2, <2>3 DEF MigrationTypeOK
<1>7. ASSUME NEW p \in Migrators, Restart(p) PROVE MigrationTypeOK'
  BY <1>7 DEF MigrationTypeOK, Restart, GoTo, transaction, Versions
<1>8. ASSUME NEW s \in Services, StartService(s) PROVE MigrationTypeOK'
  BY <1>8 DEF MigrationTypeOK, StartService, transaction
<1>9. CASE UNCHANGED vars
  BY <1>9 DEF MigrationTypeOK, vars, transaction
<1> QED
  BY <1>1, <1>2, <1>3, <1>4, <1>5, <1>6, <1>7, <1>8, <1>9 DEF Next, Migrate

-----------------------------------------------------------------------------
\* The initial states satisfy the invariant.
LEMMA InitIInv ==
    ASSUME CommonTarget, Init
    PROVE  IInv
<1> USE MigrationConstants
<1>1. info = <<>> \/ \E v \in Versions : info = <<v>>
  BY DEF Init
<1>2. VersionMatchesSchema
  BY <1>1, OneRow DEF Init, VersionMatchesSchema
<1>3. SameTarget /\ ReadInv /\ WorkInv
  BY DEF Init, CommonTarget, SameTarget, ReadInv, WorkInv
<1> QED BY <1>2, <1>3, TypeInit DEF IInv, MigrationInv

-----------------------------------------------------------------------------
\* Steps that leave the transaction, the schema and the version alone.
LEMMA NoTransactionStep ==
    ASSUME IInv, NEW p \in Migrators,
           SetDBVersion(p) \/ Restart(p)
    PROVE  MigrationInv'
<1> USE MigrationConstants DEF IInv, MigrationInv
<1>1. CASE SetDBVersion(p)
  <2>1. SameTarget' /\ VersionMatchesSchema' /\ WorkInv'
    BY <1>1 DEF SameTarget, VersionMatchesSchema, WorkInv, SetDBVersion, GoTo,
                transaction, MigrationTypeOK
  <2>2. ReadInv'
    BY <1>1, OneRow DEF ReadInv, SetDBVersion, GoTo, transaction, MigrationTypeOK
  <2> QED BY <2>1, <2>2
<1>2. CASE Restart(p)
  BY <1>2 DEF SameTarget, VersionMatchesSchema, ReadInv, WorkInv, Restart, GoTo,
              transaction, MigrationTypeOK
<1> QED BY <1>1, <1>2

\* getDBForMigrations creates migration_info at version 0 on an empty schema.
LEMMA InitInfoTableStep ==
    ASSUME IInv, NEW p \in Migrators, InitInfoTable(p)
    PROVE  MigrationInv'
<1> USE MigrationConstants DEF IInv, MigrationInv
<1>0. 1..0 = {}
  OBVIOUS
<1>1. \/ info = <<>> /\ info' = <<0>>
      \/ info' = info /\ \E v \in Versions : info = <<v>>
  BY DEF InitInfoTable, MigrationTypeOK
<1>2. VersionMatchesSchema'
  <2>1. schema' = schema
    BY DEF InitInfoTable
  <2>2. CASE info = <<>> /\ info' = <<0>>
    BY <1>0, <2>1, <2>2, OneRow DEF VersionMatchesSchema
  <2>3. CASE info' = info
    BY <2>1, <2>3 DEF VersionMatchesSchema
  <2> QED BY <1>1, <2>2, <2>3
<1>3. SameTarget' /\ ReadInv' /\ WorkInv'
  BY OneRow DEF SameTarget, ReadInv, WorkInv, InitInfoTable, GoTo, transaction,
                MigrationTypeOK
<1> QED BY <1>2, <1>3

\* Begin sees the steps of the version that was read, or those of the target.
LEMMA BeginStep ==
    ASSUME IInv, NEW p \in Migrators, Begin(p)
    PROVE  MigrationInv'
<1> USE MigrationConstants DEF IInv, MigrationInv
<1>1. SameTarget' /\ VersionMatchesSchema' /\ ReadInv'
  BY DEF SameTarget, VersionMatchesSchema, ReadInv, Begin, GoTo, MigrationTypeOK
<1>2. schema = 1..cur[p] \/ schema = 1..command[p]
  BY OneRow DEF Begin, ReadInv, VersionMatchesSchema, MigrationTypeOK
<1>3. info # <<>>
  BY OneRow DEF Begin, ReadInv
<1>4. WorkInv'
  BY <1>2, <1>3 DEF WorkInv, Begin, GoTo, MigrationTypeOK
<1> QED BY <1>1, <1>4

\* StepUp and StepDown keep to the steps of where the transaction is.
LEMMA StepStep ==
    ASSUME IInv, NEW p \in Migrators, Step(p)
    PROVE  MigrationInv'
<1> USE MigrationConstants DEF IInv, MigrationInv
<1>0. /\ at \in Nat /\ command[p] \in Nat /\ command[p] <= Max /\ at <= Max
      /\ work = 1..at \/ work = 1..command[p]
  BY DEF Step, MigrationTypeOK, WorkInv, Versions
<1>1. work' = 1..(at') \/ work' = 1..command[p]
  <2>1. CASE at < command[p] /\ work' = work \union {at + 1} /\ at' = at + 1
    BY <1>0, <2>1, UpTo, Stale
  <2>2. CASE at > command[p] /\ work' = work \ Undone(at) /\ at' = at - 1
    <3> DEFINE S == {j \in 1..Max : at \in UpNeeds[j]}
    <3>1. S \in SUBSET Nat /\ \A j \in S : j > at
      BY <1>0
    <3>2. Undone(at) = {at} \union S
      BY DEF Undone
    <3> HIDE DEF S
    <3> QED BY <1>0, <2>2, <3>1, <3>2, DownFrom, Stale
  <2> QED BY <2>1, <2>2 DEF Step
<1>2. SameTarget' /\ VersionMatchesSchema' /\ ReadInv'
  BY DEF SameTarget, VersionMatchesSchema, ReadInv, Step
<1>3. WorkInv'
  BY <1>1 DEF WorkInv, Step, MigrationTypeOK
<1> QED BY <1>2, <1>3

\* A transaction that is rolled back, or a migrator that fails without one.
LEMMA RollBackStep ==
    ASSUME IInv, NEW p \in Migrators, StepFails(p) \/ Fault(p)
    PROVE  MigrationInv'
<1> USE MigrationConstants DEF IInv, MigrationInv
<1>1. /\ UNCHANGED <<info, schema, command, cur, service>>
      /\ GoTo(p, "failed")
      /\ \/ UNCHANGED transaction /\ txn # p
         \/ txn' = NoOne /\ at' = 0 /\ work' = {}
  BY DEF StepFails, Fault, Close, MigrationTypeOK
<1>2. SameTarget' /\ VersionMatchesSchema' /\ ReadInv'
  BY <1>1 DEF SameTarget, VersionMatchesSchema, ReadInv, GoTo, MigrationTypeOK
<1>3. WorkInv'
  BY <1>1 DEF WorkInv, GoTo, transaction, MigrationTypeOK
<1> QED BY <1>2, <1>3

\* COMMIT publishes the steps up to the target together with its number.
LEMMA CommitStep ==
    ASSUME IInv, NEW p \in Migrators, Commit(p) \/ CommitUnknown(p)
    PROVE  MigrationInv'
<1> USE MigrationConstants DEF IInv, MigrationInv
<1>1. /\ txn = p /\ at = command[p] /\ at \in Versions /\ work = 1..at
  BY DEF Commit, CommitUnknown, WorkInv, MigrationTypeOK
<1>2. /\ info' = <<at>> /\ schema' = work
      /\ txn' = NoOne /\ at' = 0 /\ work' = {}
      /\ GoTo(p, "failed") \/ GoTo(p, "done")
      /\ UNCHANGED <<command, cur, service>>
  BY DEF Commit, CommitUnknown, Close, MigrationTypeOK
<1>3. VersionMatchesSchema'
  BY <1>1, <1>2, OneRow DEF VersionMatchesSchema
<1>4. SameTarget' /\ ReadInv'
  BY <1>1, <1>2 DEF SameTarget, ReadInv, GoTo, MigrationTypeOK
<1>5. WorkInv'
  BY <1>2 DEF WorkInv
<1> QED BY <1>3, <1>4, <1>5

\* The start of a service instance reads migration_info and writes nothing.
LEMMA StartServiceStep ==
    ASSUME IInv, NEW s \in Services, StartService(s)
    PROVE  MigrationInv'
  BY DEF IInv, MigrationInv, SameTarget, VersionMatchesSchema, ReadInv, WorkInv,
         StartService, transaction

\* Every step of the system preserves the invariant.
LEMMA NextIInv ==
    ASSUME IInv, [Next]_vars
    PROVE  IInv'
<1>0. MigrationTypeOK'
  BY TypeStep DEF IInv
<1>1. ASSUME UNCHANGED vars PROVE MigrationInv'
  BY <1>1 DEF IInv, MigrationInv, SameTarget, VersionMatchesSchema, ReadInv, WorkInv,
              vars, transaction
<1>2. ASSUME NEW p \in Migrators, Migrate(p) \/ Fault(p) \/ CommitUnknown(p)
      PROVE  MigrationInv'
  BY <1>2, NoTransactionStep, InitInfoTableStep, BeginStep, StepStep, RollBackStep,
     CommitStep DEF Migrate
<1> QED BY <1>0, <1>1, <1>2, StartServiceStep DEF Next, IInv

-----------------------------------------------------------------------------
\* Whatever the targets of the migrators are, migration_info has at most one row,
\* and no transaction leaves the range of the migrations of its build.
THEOREM MigrationTypeCorrect == Spec => []MigrationTypeOK
<1>1. Init => MigrationTypeOK
  BY TypeInit
<1>2. MigrationTypeOK /\ [Next]_vars => MigrationTypeOK'
  BY TypeStep
<1> QED BY <1>1, <1>2, PTL DEF Spec

\* The invariant holds for migrators with a common target: execStepsInTx starts
\* from the version SetDBVersion read, or finds the target already reached.
THEOREM MigrationSafe ==
    ASSUME CommonTarget
    PROVE  Spec => [](MigrationTypeOK /\ MigrationInv)
<1>1. Init => IInv
  BY InitIInv
<1>2. IInv /\ [Next]_vars => IInv'
  BY NextIInv
<1>3. Spec => []IInv
  BY <1>1, <1>2, PTL DEF Spec
<1> QED BY <1>3 DEF IInv

\* The version in migration_info always says which migrations are in force,
\* although SetDBVersion reads it outside the transaction that applies them.
THEOREM VersionAlwaysMatches ==
    ASSUME CommonTarget
    PROVE  Spec => []VersionMatchesSchema
<1>1. MigrationTypeOK /\ MigrationInv => VersionMatchesSchema
  BY DEF MigrationInv
<1> QED BY <1>1, MigrationSafe, PTL

\* prepareDBMigrations lets an instance start only on the schema of its build.
THEOREM ServiceFitsSchema ==
    ASSUME CommonTarget
    PROVE  Spec => ServiceStartsOnItsSchema
<1>1. VersionMatchesSchema /\ MigrationTypeOK /\ [Next]_vars =>
        [\A s \in Services : ~service[s] /\ service'[s] => schema = 1..Known[s]]_vars
  <2> SUFFICES ASSUME VersionMatchesSchema, MigrationTypeOK, [Next]_vars,
                      NEW s \in Services, ~service[s], service'[s]
               PROVE  schema = 1..Known[s]
    OBVIOUS
  <2>1. StartService(s)
    <3>1. service' # service
      OBVIOUS
    <3>2. PICK t \in Services : StartService(t)
      BY <3>1 DEF Next, vars, Migrate, InitInfoTable, SetDBVersion, Begin, Step, StepFails,
                  Commit, Restart, Fault, CommitUnknown
    <3>3. s = t
      BY <3>2 DEF StartService, MigrationTypeOK
    <3> QED BY <3>2, <3>3
  <2>2. info = <<Known[s]>> /\ Known[s] \in Versions
    <3>1. Known[s] \in Versions
      BY MigrationConstants
    <3>2. Len(info) = 1 /\ info[1] = Known[s]
      BY <2>1 DEF StartService
    <3> QED BY <3>1, <3>2, OneRow DEF MigrationTypeOK
  <2> QED BY <2>2 DEF VersionMatchesSchema
<1>2. MigrationTypeOK /\ MigrationInv => VersionMatchesSchema /\ MigrationTypeOK
  BY DEF MigrationInv
<1> QED BY <1>1, <1>2, MigrationSafe, PTL DEF Spec, ServiceStartsOnItsSchema
=============================================================================
