# Verification of the Insights Results Aggregator

TLA+ models of the aggregator, TLC configurations that check them on small
instances, and TLAPS proofs for every instance. The repository is under `src/`.

## The system

The aggregator takes messages with the results of analysing OpenShift clusters
from Kafka, stores them in PostgreSQL, and serves them over REST.

| Part | State | Operations | What is hard about it |
|---|---|---|---|
| OCP consumer and writer (`consumer/`, `storage/ocp_recommendations_storage.go`) | offsets, `clustersLastChecked`, tables `report`, `rule_hit`, `recommendation`, `report_info`, `consumer_error` | `ConsumeClaim`, `HandleMessage`, `storeInDB` with four transactions | partial failure between transactions, at-least-once delivery, several replicas with private caches, change of organization |
| Message parsing (`ocp_processing.go`, `processing.go`) | none | `deserializeMessage`, `checkReportStructure`, allow list, date | which malformed messages are errors and which are skipped |
| DVO consumer and writer (`dvo_processing.go`, `dvo_recommendations_storage.go`) | `dvo.dvo_report`, its own cache | `WriteReportForCluster`, grouping by namespace | an empty report deletes the only record of the last date; numbers aggregated over overlapping workloads; `reported_at` read back and stored again |
| REST: toggles, feedback, ratings, disabling (`server/`, `storage/rule_*.go`) | `cluster_rule_toggle`, `cluster_rule_user_feedback`, `cluster_user_rule_disable_feedback`, `rule_disable`, `advisor_ratings` | upserts after a permission check | check and write are separate statements |
| REST: reading (`server/reports.go`, `server.go`) | none | several queries per response | the queries see different states |
| DELETE endpoints, debug mode (`server/server.go`) | `report` | `deleteOrganizations`, `deleteClusters` | other tables and caches keep their rows |
| Migrations (`migration/`) | `migration_info`, the schema | `InitInfoTable`, `SetDBVersion`, the version check at start | the version is read before the transaction; several processes at once; failing steps |
| Life cycle (`aggregator.go`, `consumer.go`, `server.go`) | two instances, two start signals, sessions of the consumer | `startService`, `stopService`, `Serve`, `Close` | whichever part fails first must end the other; `stopService` runs in two goroutines; work in progress at the stop |
| Redis storage, producers, configuration, metrics, types | none of the aggregator's own | | |

The consumer calls the storage; storage and REST server share the database; the
replicas share the database and the Kafka consumer group and nothing else. A
service instance runs a consumer and a REST server, and starts only on the schema
version that the migration command has brought the database to.

What makes the parts correct: a cluster's rows belong to one organization, agree
with each other and never go back in time; no message is lost without a trace or
blocks its partition; redelivery does no lasting damage; user data follows its
cluster; a response shows one report although it is read in pieces; the version in
`migration_info` says which schema there is; the process ends when it should, and
cleanly when it says so. `PROJECT.json` lists the hazards with the lines where they bite.

## Modules

Operators named `X_Y` in front of an operator `X` are mutants of `X`: plausible
bugs that a property has to notice. Modules `MC...` hold the sets of messages,
reports and commands for TLC.

* `OcpWriter`: the OCP consumer and writer. One action per step of a claim's
  goroutine (`StartMessage`, `UpdateOrgID`, `CheckReport`, `UpdateReport`,
  `LookUpRecommendations`, `ReplaceRecommendations`, `AddRecommendations`,
  `WriteInfo`, `WriteConsumerError`, `SendDeadLetter`, `MarkMessage`), the actions of
  Kafka (`Produce`, `CommitOffsets`, `Rebalance`, `LoseSession`), `Crash`, `Tick`, a
  REST request in two steps (`CheckRequest`, `ServeRequest`) and the two DELETE
  endpoints.
* `LatestReport`: the abstract specification of what the `report` and `rule_hit`
  tables promise, a register with the current report of each cluster.
* `OcpWriterProps`: the properties, the inductive invariants `WriterInv`,
  `AccountingInv` and `ConvergenceInv`, and the refinement mapping to `LatestReport`.
* `OcpWriterProofs`: type correctness. `OcpWriterSafety`: consistency of the
  tables. `OcpWriterAccounting`: no message is lost, redelivery converges.
  `OcpWriterRefinement`: what readers and users of the tables rely on.
* `DvoWriter`, `DvoWriterProps`: the DVO consumer and writer and its properties.
  `DvoWriterProofs`: its theorems, and that its aggregation is exact.
* `ReportReader`: REST clients that read reports and toggle rules. It extends
  `LatestReport`: readers are composed with what the writer is shown to implement
  instead of with the writer itself. `ReportReaderProofs`: its theorems.
* `Migration`: migrators and starting services. `MigrationProofs`: its theorems.
* `Lifecycle`: the goroutines of one service process. `LifecycleProofs`: its theorems.

### OcpWriter

Tables are sets of rows. Columns that no property tells apart are left out; a
rule stands for its module and error key, a date is a number, `NoTime` (0) is a
date that does not parse. `report.hits` stands for the rules in the stored JSON.
User tables are keyed by cluster: one rule and one user stand for all.
`cache[r]` is `clustersLastChecked` of replica `r`. `position[p]` counts the
messages marked in the present session and `committed[p]` those whose offset is
committed. `job[p]` is the program counter of the goroutine that runs
`ConsumeClaim` for partition `p`, with `storedAtTime` of `storeInDB` and `known`, the
dates of earlier hits that a transaction has looked up; its field `stored` is kept
for the properties only.

A transaction is one step, as its intermediate states are invisible to others and
vanish with a crash. `WriteReportForCluster` and `WriteRecommendationsForCluster` are
two steps each, since what they look up (the cache, the report table, and on another
connection `created_at` and `impacted_since`) can be stale when they write. Without a
cached date of the cluster the recommendations are only added (`AddRecommendations`),
which looks nothing up. Transactions fail in two ways: a statement fails and
nothing happens, or COMMIT reports an error and may or may not have taken effect.
An error inside `updateOrgIDInTables` is only logged there, but PostgreSQL has
aborted the transaction and COMMIT fails.

`Faults` says what may fail in a run: `statement`, `commit`, `lookup` (the query
for `created_at` and `impacted_since`, whose errors are logged, and which may also
return only some of the rows) and `sink` (`consumer_error` or the dead letter
topic).

### DvoWriter

The same consumer with the DVO processor. The topic has one partition, so the claim
is a program counter (`stage`) and both transactions of `storeInDB` are single
steps. `MapWorkloadRecommendations` is the code's pass over the recommendations,
with the function's maps in an accumulator; `RowContents` of `DvoWriterProps` says
what the numbers of a namespace should be without going through the list, and
`RowsAreOneReport` compares the two on everything that gets stored. Dates count in
ticks and `RFC3339` drops the fraction of a second, as `getReportedAtMap` does when
it formats `reported_at`. The dead letter topic is left out: `sendDeadLetter` does
nothing without a producer, only logs an error of it, and nothing reads the topic.
`failed` has the messages that failed in some delivery and were, or should have been,
sent there.

### ReportReader

`request[k]` holds the handler of client `k` with its local variables. A report is
read in three steps (`ReadReport`, `ReadRuleHits`, `ReadToggles`), a toggle is a
permission check (`CheckToggle`) and an upsert (`ToggleRuleForCluster`);
`StoreReport` and `MoveCluster` are the writer's transactions. The permission check
compares the organization of the cluster with that of the token; the organization
that is written comes from the path and is compared with neither, so `CheckToggle`
only asks for a report of the cluster. `seen`, `settled` and `by` are kept for the
properties only: the reports there have been during the request, the toggles nobody
has toggled during it, and the organization whose choice a toggle is. A move leaves
`settled` alone, so that `TogglesAreShown` is about moves between the queries too; a
reader whose cluster has left its organization (`Left`) may miss disabled rules.

### Migration

A migrator goes through `InitInfoTable`, `SetDBVersion` (which reads the version),
`Begin`, a `Step` for each migration and `Commit`. The schema is the set of
migrations in force, `work` is the schema as the open transaction sees it.
`UpNeeds`, `DownNeeds` and `StrictUp` say on which schemas a step fails: TLC gets
the four DVO migrations (a table, its indexes, a DELETE, a column), the proofs are
for any. Transactions that change the schema hold locks that keep others out, or
PostgreSQL aborts one of them, which is `Fault`.

### Lifecycle

The goroutines main, consumer, loop (started by `Serve`), claim (started by Sarama),
server and signal, with the flags and channels they share: the two start signals,
`consumer.ready`, the contexts of `startService` and of `Serve`. `stopService` is
run by main and by the signal handler, possibly at the same time. Reaching an
`exitCode` ends all of them. `log.Fatal` in the loop is `Fatal`.

### External parts

Modelled from how the code uses them: Kafka and Sarama (marked offsets are committed
some time later; an orderly rebalance commits them first; when a session is lost, by
eviction from the group or because the commit fails, the claim goes on from the older
committed offset, at the same or at another replica, while all processes keep their
caches; a crashed replica's claims resume from the committed offset too; closing a
consumer group waits for its session, whose claims finish what they have fetched),
`net/http` (`Shutdown`
makes `ListenAndServe` return at once and itself waits for requests), the clock and
PostgreSQL (READ COMMITTED, primary keys, aborted transactions).

### Assumptions

* `KeyedByCluster`: all messages of a cluster are in one partition. The deployed
  topics have one partition. Without it, two claims write rows of one cluster and
  the look-up in `WriteReportForCluster` is not serialised with the write. Keyed
  topics with several partitions are covered by the theorems.
* `~Debug`: the DELETE endpoints are not registered, except in `writer_live`,
  `CoreSafe`, `RecommendationsAlwaysMatch` and `ReportNeverOlder`.
  With them and a failed transaction, `rule_hit` rows of a deleted report can stay
  with an organization that the cluster has left, so that neither
  `ClusterHasOneOrg` nor `RuleHitsMatchReport` holds there.
* A claim changes hands between two messages: `ConsumeClaim` finishes its message
  before its session is over. A replica that the group has evicted while it handles a
  message would be a second writer of the cluster together with the next owner, until
  it is done; as without keys, the look-up in `WriteReportForCluster` would then not
  be serialised with the write. Such a message is assumed to be done before the next
  owner writes about its cluster.
* `CommonTarget`: migrators that run at the same time have the same target. Two
  builds with different targets break `VersionMatchesSchema`: each runs its steps
  from the version it has read, and the one that commits last writes its own
  version over a schema that has the other's steps too.
* The Go map `clustersLastChecked` is shared by the claims of a replica without a
  lock. A race that the Go runtime detects ends the process, which is `Crash`.

## Runs

`tlc -workers 2 -config <run>.cfg <module>`. Deadlock checking is off where a
bounded topic ends or a process exits; `report_reader` checks it.

| Run | Module | Shows |
|---|---|---|
| `writer_faults` | `MCOcpWriter` | `TypeOK`, `WriterInv`, `ClusterHasOneOrg`, `RuleHitsMatchReport`, `RecommendationsMatchStoredReport`, `ReportNeverGetsOlder` with two replicas, a crash or a lost session, and failing statements, look-ups and commits |
| `writer_redelivery` | `MCOcpWriter` | `AccountingInv`, `ConvergenceInv`, `NothingSilentlyLost`, `OldReportIsInDatabase`, `RedeliveryConverges`, `ImplementsLatestReport` with every kind of message, two replicas, a crash or a lost session, and failing statements |
| `writer_history` | `MCOcpWriter` | `HitSinceIsKept` while the clock advances and reports come late or again, `WriterKeepsUserRowsOwned` while toggles and feedback race with changes of organization |
| `writer_live` | `MCOcpWriter` | `EveryMessageConsumed` with every kind of fault and unusable message; `CoreInv`, `RecommendationsMatchStoredReport` and `ReportNeverGetsOlder` with the DELETE endpoints |
| `dvo_writer` | `MCDvoWriter` | `DvoTypeOK`, `DvoInv`, `RowsAreOneReport`, `DvoConverges`, `TableIsCurrent`, `ReportedAtIsKept` with two replicas, a crash, a rebalance, a lost session and failing transactions |
| `migration` | `MCMigration` | `MigrationTypeOK`, `MigrationInv`, `VersionMatchesSchema`, `ServiceStartsOnItsSchema`, `MigrationCompletes` for two migrators, from every version or no table to every target, with faults, and services of two builds |
| `lifecycle` | `Lifecycle` | `LifecycleTypeOK`, `LifecycleInv`, `CleanExit`, `Termination`: every part may fail, the signal may come at any time |
| `report_reader` | `MCReportReader` | `ReaderInv`, `ResponseIsOneReport`, `TogglesAreShown`: two clients, two organizations, two reports, moves and toggles between the queries |

Four runs show that the code does not do what its comments say (`findings` in
`PROJECT.json` quotes them):

* `recs_after_restart`: after a restart, recommendations of an old report are
  added to those of the stored one, since the cache that decides on deleting them
  is empty.
* `cache_before_commit`: the cache is set before COMMIT. After a failed COMMIT a
  redelivery is skipped as old although nothing is stored. `OldReportIsInDatabase`
  holds for failing statements (`writer_redelivery`, and proved) and fails for
  commits.
* `dvo_empty_report`: a DVO report without recommendations deletes all rows of its
  cluster and with them its date. A process whose cache does not have the cluster
  then stores an older report that arrives late. When reports arrive in order this
  cannot happen as long as no session is lost (`DvoConverges`). When one is lost it
  can: replica 1 handles a report and then an empty one, commits neither and loses its
  session; replica 2 gets the first report again, stores and commits it; the claim
  returns to replica 1, whose cache refuses the empty report, and the rows of the
  first stay. `DvoConverges` and `TableIsCurrent` exclude exactly this (`Repeatable`):
  a last report with rows is safe after lost sessions too.
* `stop_in_flight`: `Serve` returns when it is cancelled, and the storage is closed
  while a claim is still handling a message. The message then fails and is sent to
  the dead letter topic; `CleanExit` shows that at least it has been dealt with when
  the process exits with code 0.

Two smaller divergences, which no run is about: `report_info` is overwritten by a
report refused as too old, as the comment at `src/storage/info_rules.go:44-46` says
it is not (`RedeliveryConverges` includes that the last report repairs it); and
`rule_hit` gets a timestamp of its own (`ocp_recommendations_storage.go:958`), while
the comment at `src/consumer/ocp_processing.go:193-195` says it is that of
`recommendation`.

`RedeliveryConverges` leaves out a last report that is itself a dead letter, which
`NothingSilentlyLost` is about. That recommendations and versions of old reports get
stored in between is the subject of a finding; the property says that the damage
ends with the last report of an ordered partition.

### Bounds

`MaxMessages` (1 to 3), `MaxInterruptions` (0 or 1, crashes and lost sessions of
`OcpWriter`), `MaxCrashes`, `MaxRebalances` and `MaxLosses` (0 to 2, those of
`DvoWriter` and the sessions of `Lifecycle`), `MaxNow` (1 or 2), `MaxFaults` (2) and
`MaxRequests` (0 to 2) bound the instances. Three messages of one cluster are enough
for a report, a newer one of another organization and an old one afterwards; one
crash empties a cache and repeats deliveries, one lost session repeats them to a warm
cache. Rebalances of `OcpWriter` are not bounded, and a lost session with a rebalance
after it takes the claim of `DvoWriter` away from a replica and back. One cluster is enough where only rows of the same
cluster meet; the theorems are for any number. Two migrators, each of which may fail
and start again, give every order of reading the version and committing. Two clients
are a reader and a user, or two users, one of them with an outdated check. Replicas
and clients are symmetric in the runs that declare it.

### Fairness

* `EveryMessageConsumed`: weak fairness of `HandleStep(p)`, as a claim's goroutine
  runs whenever it can and every call it makes returns, with an error at the latest,
  and of `CommitOffsets(p)`, as Sarama commits marked offsets periodically. Nothing
  is assumed of faults and rebalances, and of crashes and lost sessions only
  `MaxInterruptions`.
* `MigrationCompletes`: weak fairness of each migrator and each starting service,
  that is, of the scheduler and of whoever starts a failed process again (a job or a
  deployment that restarts it). Faults are bounded by `MaxFaults`.
* `Termination`: weak fairness of each goroutine, of requests and messages in
  progress (the server's handlers and `HandleMessage` return) and of the broker's
  answers. None for the signal, new requests and new messages.

## Proofs

`OcpWriter`, for every number of replicas, partitions, clusters, organizations,
rules, messages, crashes and lost sessions:

* `TypeCorrect`: `Spec => []TypeOK`, for any `Faults` and without further
  assumptions. It needs `JobOK` beside `TypeOK`: a claim past `updateOrgID` has a
  date that parses, and a claim about to stamp rows has read the clock.
* `CoreSafe`: `Spec => []CoreInv`, for any `Faults` and keyed topics, with or without
  the DELETE endpoints. `RecommendationsAlwaysMatch` is its part that matters to
  users, and `ReportNeverOlder` (the action property `ReportNeverGetsOlder`)
  follows from it.
* `WriterSafe`: `Spec => []WriterInv`, which adds what the `rule_hit` table holds, and
  needs that the DELETE endpoints are off. `OneOrgAlways` and `RuleHitsAlwaysMatch`
  are its parts that matter to users.
* `WriterRefinesLatestReport`: the refinement, under the assumptions of `WriterSafe`.
* `UserRowsStayOwned`: `WriterKeepsUserRowsOwned`, under the same assumptions.
* `HitSinceAlwaysKept`: `HitSinceIsKept`, when also no look-up fails. For `rule_hit` it
  says that `created_at` is kept as long as every stored report hits the rule. For
  `recommendation` it is only about rows that are there before and after a step: a
  late report that is refused as old still replaces the recommendations, and a rule it
  does not hit starts anew with the next report.
* `ConvergenceSafe`, `RedeliveryAlwaysConverges`: `ConvergenceInv` and, if the sinks
  work, `RedeliveryConverges`. COMMIT and look-ups may fail.
* `AccountingSafe`, `OldReportsAreStored`, `NothingLost`: `AccountingInv`,
  `OldReportIsInDatabase` and `NothingSilentlyLost`, when also no COMMIT fails
  (`cache_before_commit` shows why) and, for the last, the sinks work.

The argument: queries of the writer look for rows by organization *and* cluster and
miss rows of other organizations. So one has to know that there are none, from
`updateOrgID` until the message is done: in the tables that `updateOrgID` asks for
the current organization (`DecidingSettled`, which needs `DecidingHasOneOrg`) and in
`rule_hit` (`OrgSettled`, `ClusterHasOneOrg`). As `rule_hit` is moved but not asked,
the latter needs `RuleHitHasReport`, which deleting a report breaks; so `CoreInv` is
without it. `NewestWhenWritten` carries what `CheckReport`
saw to the write, `CachedOnceStored` makes the third transaction delete before it
inserts. Lemma `OtherCluster` is where keyed topics come in: two claims never work
on the same cluster. `CoreClusterStep` and `HitClusterStep` then reduce a claim's step
to the rows of its own cluster; the other steps write no table or only delete
(`QuietSteps`).

`AccountingInv` goes on from there: since a stored report only gets more recent
(`HasReportKept`, from `ReportNeverOlder`), a date in a cache keeps standing for a
report in the database (`CacheInDatabase`), and so does what a claim has found out
(`ClaimAccounted`). The cache is written in the transaction that writes the report,
so the two agree as long as COMMIT does not fail.

`RuleHitsMatchReport` makes the join of `report` and `rule_hit` the `report` table
itself (`JoinIsReport`), so for the refinement it is enough to follow that table:
`UpdateOrgID` moves the register of its cluster, `UpdateReport` replaces it by a
report that was parsed and allowed (`ClaimValid`) and is not older
(`NewestWhenWritten`), and every other step stutters. The times since when a rule
hits are carried from the old rows to the new ones; that needs one row per rule and
cluster (`OneRowPerHit`), as two would disagree, and that what was looked up is still
so when the rows are replaced (`KnownIsCurrent`): `HistoryInv`. User rows follow their cluster
because a user can only act on a cluster that has a report (`UserRowsHaveReport`), and
that table is the first one `checkOrgIDForCluster` asks.

`ConvergenceInv` is about the last report of a cluster in an ordered partition. No
stored report is newer (`ReportFromLog`), and no cached date either (`CacheFromLog`). So
`WriteReportForCluster` refuses it only where its own date is in the cache, at a replica
that handled it and lost the session before the offset was committed; such a date
stands for a report that is stored, or for a dead letter (`CachedLast`). Refused or not,
the report is in the table and the cache has the cluster (`LastIsStored`), so that
the recommendations before it are deleted, and afterwards nobody writes about the
cluster except to move it (`NobodyElseWrites`) or to write the same again.

`Migration`, for every number of migrators, services, migrations and faults, any
requirements of the single steps, and a common target: `MigrationSafe`,
`VersionAlwaysMatches`, `ServiceFitsSchema`. The version a migrator has read may be
stale when its transaction begins, but then another one has already reached the
target (`ReadInv`): its steps either fail or change nothing, and it commits the
target again (`WorkInv`).

`ReportReader`, for every number of clients, clusters, organizations, rules and
reports: `ReaderSafe`, `ResponsesAreReports`, `TogglesAlwaysShown`. `StillRecent`
carries the first query to the second, `TogglesOwned` and `SettledStands` the state
of the toggles from the first query to the last, where they are still those of the
organization unless the cluster was seen to leave it.

`DvoWriter`, for every number of replicas, clusters, namespaces, rules, workloads,
messages, crashes, rebalances and lost sessions, and any `Faults`:

* `AggregationIsExact`: the accumulator of `mapWorkloadRecommendations` ends up with
  what `RowContents` defines, for recommendations of any number and overlap. The
  proof goes along the prefixes of the list. Induction is used in the form of a
  set of numbers that contains 0 and the successor of each of its members
  (`NatSetInduction`, from the least element of the complement), which the provers
  can instantiate, unlike an induction rule with an operator for a parameter.
* `DvoTypeCorrect`, `DvoTableIsConsistent`, `DvoRowsAreOneReport`: `DvoTypeOK`,
  `DvoInv` and `RowsAreOneReport`, the latter from `AggregationIsExact`.
* `DvoTableIsCurrent`, `DvoAlwaysConverges`: `TableIsCurrent` and `DvoConverges`. An
  empty report leaves no date behind, so that only the caches keep old reports out.
  In an ordered topic they are not needed for that, and what has to be shown is that
  they do no harm by keeping out the last report. Without lost sessions they never do:
  `CacheFromLog` says that the owner's cache knows only what it has handled since it
  started, and the other caches only what is behind the committed offset. With lost
  sessions the last report is refused where its own date is cached. If it has rows, they
  were stored then and nothing has replaced them (`CachedLast`, `StoredStays`,
  `RefusedIsStored`), as the SELECT refuses everything older; if it has none, older
  reports may have been stored meanwhile, which is why `Repeatable` excludes it. A
  COMMIT with unknown outcome does no harm: its message counts as failed.
* `ReportedAtAlwaysKept`: `ReportedAtIsKept`, when no look-up fails.

`Lifecycle`, for every number of requests, messages and rebalances and whatever
fails: `LifecycleTypeCorrect`, `StoppingIsOrderly`, `ExitIsClean`. Both callers of
`stopService` may be anywhere; a caller past `Shutdown` knows that no request is in
progress and none can come (`ShutdownDone`), one past `Close` that there is no session
and no way into another (`CloseDone`). `StoppedForCause` connects the exit code with
the signal, and `StartedByMain` is needed because `Serve` starts the loop: as long as
the consumer has not been created there is none to wait for.

Model-checked only: liveness (`EveryMessageConsumed`, `MigrationCompletes`,
`Termination`), which is out of the prover's reach, as is `ENABLED`. Every other
property of the passing runs is a theorem.

## Plan

`ReportReader`: failing queries, and votes and reasons for disabling, with the
theorems extended to them.

## Not modelled

* The JSON structure checks of `checkReportStructure` and `parseReportContent`: pure
  functions of a text; their outcome is a field of the message.
* System wide disabling, ratings and the remaining GET endpoints: single statements
  on tables that nothing else writes, or one query and its formatting.
* Redis: only read here, written by another service.
* The OCP migrations one by one: what distinguishes them for `Migration` is which
  steps fail on which schema, and the theorems hold for any such requirements.
* Configuration, broker settings, metrics, types, response formatting, the payload
  tracker: no state that a property could be about.
* The JavaScript under `src/docs`: third-party libraries of generated documentation.
