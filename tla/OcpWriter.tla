------------------------------ MODULE OcpWriter ------------------------------
(***************************************************************************)
(* The OCP writer of the Insights Results Aggregator: consumer processes   *)
(* (replicas) take messages with cluster reports from the partitions of a  *)
(* Kafka topic and store each one in PostgreSQL with four transactions,    *)
(* one after the other:                                                    *)
(*                                                                         *)
(*   updateOrgID -> WriteReportForCluster -> WriteRecommendationsForCluster*)
(*               -> WriteReportInfoForCluster                              *)
(*                                                                         *)
(* A message is marked as consumed whether it was stored or not; a failed  *)
(* one goes to the consumer_error table and to the dead letter topic.      *)
(* Every table is a set of rows.  A transaction is one step: READ COMMITTED*)
(* hides its intermediate states and a crash inside it rolls it back.      *)
(* The two that read before they write are two steps, because what they    *)
(* have read (the cache, the report table, the dates of earlier hits on    *)
(* another connection) can be stale when they write.                       *)
(***************************************************************************)
EXTENDS Integers, Sequences, FiniteSets

CONSTANTS
    Replicas,      \* db-writer processes, each with its own clustersLastChecked
    Partitions,    \* partitions of the results topic
    Clusters,
    Orgs,
    Rules,         \* (rule module, error key) pairs
    Versions,      \* cluster versions an INFO rule can report
    NoVersion,     \* the report has no version_info item
    Messages,      \* what can be produced into the topic
    PartitionsOf,  \* PartitionsOf[c]: where the producer may put messages of c
    AllowedOrgs,   \* the allow list; Orgs when it is disabled
    UserTables,    \* tables of user data that carry org_id
    KeepsOrg,      \* those whose upsert leaves org_id of an existing row alone
    Faults,        \* what may go wrong in this instance, see FaultKinds
    Debug,         \* the DELETE endpoints are registered
    MaxMessages, MaxInterruptions, MaxRequests, MaxNow   \* bounds of the model

NoTime == 0                \* an unparsable LastChecked, an absent cache entry
Time == Nat \ {NoTime}

Message ==
    [kind: {"valid", "unparsable", "empty"}, cluster: Clusters, org: Orgs,
     lastChecked: Nat, hits: SUBSET Rules, version: Versions \union {NoVersion}]

(***************************************************************************)
(* statement: BEGIN or a statement of a transaction fails, it rolls back.  *)
(* commit:    COMMIT reports an error; whether it took effect is unknown.  *)
(* lookup:    the query for created_at / impacted_since fails, or breaks   *)
(*            off, or some of its rows cannot be scanned.                  *)
(* sink:      writing consumer_error or the dead letter topic fails.       *)
(***************************************************************************)
FaultKinds == {"statement", "commit", "lookup", "sink"}

ASSUME ConstantsAssumption ==
    /\ Messages \subseteq Message
    /\ PartitionsOf \in [Clusters -> SUBSET Partitions]
    /\ AllowedOrgs \subseteq Orgs
    /\ KeepsOrg \subseteq UserTables
    /\ Faults \subseteq FaultKinds
    /\ Debug \in BOOLEAN
    /\ MaxMessages \in Nat /\ MaxInterruptions \in Nat /\ MaxRequests \in Nat
    /\ MaxNow \in Time
    /\ Partitions # {} => Replicas # {}

VARIABLES
    log,        \* log[p]: the messages of partition p
    committed,  \* committed[p]: consumer group offset, what a new owner resumes from
    position,   \* position[p]: messages marked in the current session
    owner,      \* owner[p]: the replica that has claimed p
    job,        \* job[p]: where the claim's goroutine is with its message
    cache,      \* cache[r][c]: clustersLastChecked of replica r, NoTime if absent
    report, ruleHit, recommendation, reportInfo, userRows,   \* tables
    consumerError, deadLetter,   \* <<partition, index>> of failed messages
    request,    \* REST toggle / feedback requests whose checks have passed
    now,        \* wall clock, in the resolution of the stored timestamps
    interruptions   \* crashes and lost sessions so far

tables == <<report, ruleHit, recommendation, reportInfo, userRows>>
kafka == <<log, committed, position, owner>>
sinks == <<consumerError, deadLetter>>
env == <<request, now, interruptions>>
vars == <<kafka, job, cache, tables, sinks, env>>

ReportRow == [cluster: Clusters, org: Orgs, lastChecked: Time, hits: SUBSET Rules]
RuleHitRow == [cluster: Clusters, org: Orgs, rule: Rules, createdAt: Time]
RecommendationRow ==
    [cluster: Clusters, org: Orgs, rule: Rules, createdAt: Time, impactedSince: Time]
ReportInfoRow == [cluster: Clusters, org: Orgs, version: Versions]
UserRow == [table: UserTables, cluster: Clusters, org: Orgs]

(***************************************************************************)
(* stage: the next thing the claim's goroutine does with its message;      *)
(* stored: this delivery wrote the report table (kept for the properties); *)
(* storedAt: the local variable storedAtTime of storeInDB;                 *)
(* known: the dates of earlier hits that a transaction has looked up.      *)
(***************************************************************************)
Stages == {"idle", "org", "report", "apply", "recs", "replace", "info",
           "fail", "deadLetter", "mark"}
HitDate == [rule: Rules, since: Time]
Job == [stage: Stages, stored: BOOLEAN, storedAt: Nat, known: SUBSET HitDate]
Idle == [stage |-> "idle", stored |-> FALSE, storedAt |-> NoTime, known |-> {}]

Init ==
    /\ log = [p \in Partitions |-> <<>>]
    /\ committed = [p \in Partitions |-> 0]
    /\ position = [p \in Partitions |-> 0]
    /\ owner \in [Partitions -> Replicas]
    /\ job = [p \in Partitions |-> Idle]
    /\ cache = [r \in Replicas |-> [c \in Clusters |-> NoTime]]
    /\ report = {} /\ ruleHit = {} /\ recommendation = {} /\ reportInfo = {}
    /\ userRows = {}
    /\ consumerError = {} /\ deadLetter = {}
    /\ request = {}
    /\ now = 1
    /\ interruptions = 0

-----------------------------------------------------------------------------
\* The message partition p's goroutine is working on, and its cluster's rows.

Msg(p) == log[p][position[p] + 1]

Of(table, c) == {row \in table : row.cluster = c}
Owned(table, c, o) == {row \in table : row.cluster = c /\ row.org = o}
RulesOf(rows) == {row.rule : row \in rows}

GoTo(p, stage) == job' = [job EXCEPT ![p] = [@ EXCEPT !.stage = stage, !.known = {}]]

-----------------------------------------------------------------------------
\* Kafka and the wall clock.

\* A message arrives; the producer decides on its partition.
Produce(p, m) ==
    /\ Len(log[p]) < MaxMessages
    /\ p \in PartitionsOf[m.cluster]
    /\ log' = [log EXCEPT ![p] = Append(@, m)]
    /\ UNCHANGED <<committed, position, owner, job, cache, tables, sinks, env>>

\* Mutant: the message being processed is committed too.
CommitOffsets_OneTooMany(p) ==
    /\ committed[p] # position[p]
    /\ committed' = [committed EXCEPT ![p] = position[p] + 1]
    /\ UNCHANGED <<log, position, owner, job, cache, tables, sinks, env>>

\* Sarama commits the marked offsets in the background.
CommitOffsets(p) ==
    /\ committed[p] # position[p]
    /\ committed' = [committed EXCEPT ![p] = position[p]]
    /\ UNCHANGED <<log, position, owner, job, cache, tables, sinks, env>>

\* An orderly rebalance: the session flushes its marks and another replica, whose
\* cache knows nothing of what the previous owner stored, gets the claim.
Rebalance(p, r) ==
    /\ job[p].stage = "idle"
    /\ owner[p] # r
    /\ owner' = [owner EXCEPT ![p] = r]
    /\ committed' = [committed EXCEPT ![p] = position[p]]
    /\ UNCHANGED <<log, position, job, cache, tables, sinks, env>>

\* The group takes the claim away, or the flush of the marks fails: what was marked
\* since the last commit is delivered again.  The processes live on with what they
\* have cached, and r may be the one that had the claim, or had it earlier.  Sarama
\* lets ConsumeClaim finish its message before the session is over.
LoseSession(p, r) ==
    /\ job[p].stage = "idle"
    /\ committed[p] # position[p]
    /\ interruptions < MaxInterruptions
    /\ interruptions' = interruptions + 1
    /\ owner' = [owner EXCEPT ![p] = r]
    /\ position' = [position EXCEPT ![p] = committed[p]]
    /\ UNCHANGED <<log, committed, job, cache, tables, sinks, request, now>>

\* Replica r dies and comes back with the empty map that
\* NewOCPRecommendationsFromConnection makes: startConsumer never calls Init, and
\* prepareDB calls it for a storage it then closes.  The claims of r resume from
\* the committed offsets.
Crash(r) ==
    LET claims == {p \in Partitions : owner[p] = r}
    IN  /\ interruptions < MaxInterruptions
        /\ interruptions' = interruptions + 1
        /\ cache' = [cache EXCEPT ![r] = [c \in Clusters |-> NoTime]]
        /\ job' = [p \in Partitions |-> IF p \in claims THEN Idle ELSE job[p]]
        /\ position' = [p \in Partitions |->
                            IF p \in claims THEN committed[p] ELSE position[p]]
        /\ UNCHANGED <<log, committed, owner, tables, sinks, request, now>>

Tick ==
    /\ now < MaxNow
    /\ now' = now + 1
    /\ UNCHANGED <<kafka, job, cache, tables, sinks, request, interruptions>>

-----------------------------------------------------------------------------
(***************************************************************************)
(* HandleMessage up to storeInDB: a message that cannot be parsed or whose *)
(* organization is not allowed fails, an empty report is skipped without   *)
(* an error.                                                               *)
(***************************************************************************)
StartMessage(p) ==
    /\ job[p].stage = "idle"
    /\ position[p] < Len(log[p])
    /\ \/ /\ Msg(p).kind = "empty"
          /\ GoTo(p, "mark")
       \/ /\ Msg(p).kind # "empty"
          /\ Msg(p).kind = "unparsable" \/ Msg(p).org \notin AllowedOrgs
          /\ GoTo(p, "fail")
       \/ /\ Msg(p).kind = "valid" /\ Msg(p).org \in AllowedOrgs
          /\ GoTo(p, "org")
    /\ UNCHANGED <<kafka, cache, tables, sinks, env>>

-----------------------------------------------------------------------------
\* storeInDB, first transaction: updateOrgID and the date check after it.

\* The org_id checkOrgIDForCluster may find: the first of three tables decides.
CurrentOrgs(c) ==
    LET orgs(table) == {row.org : row \in Of(table, c)}
    IN  IF orgs(report) # {} THEN orgs(report)
        ELSE IF orgs(recommendation) # {} THEN orgs(recommendation)
        ELSE orgs(reportInfo)

SetOrg(table, c, o) ==
    {IF row.cluster = c THEN [row EXCEPT !.org = o] ELSE row : row \in table}

\* Setting one org_id on these rows of c would violate a primary key.
OrgMoveConflicts(c) ==
    \E table \in {ruleHit, recommendation} :
        \E a, b \in Of(table, c) : a.rule = b.rule /\ a.org # b.org

\* Mutant: rule_hit is not among the tables to update.
UpdateOrgIDForCluster_NoRuleHit(o, c) ==
    \/ /\ CurrentOrgs(c) = {} \/ o \in CurrentOrgs(c)
       /\ UNCHANGED tables
    \/ /\ CurrentOrgs(c) \ {o} # {}
       /\ ~OrgMoveConflicts(c)
       /\ report' = SetOrg(report, c, o)
       /\ recommendation' = SetOrg(recommendation, c, o)
       /\ reportInfo' = SetOrg(reportInfo, c, o)
       /\ userRows' = SetOrg(userRows, c, o)
       /\ UNCHANGED ruleHit

\* Mutant: the tables of user data stay with the old organization.
UpdateOrgIDForCluster_NoUserRows(o, c) ==
    \/ /\ CurrentOrgs(c) = {} \/ o \in CurrentOrgs(c)
       /\ UNCHANGED tables
    \/ /\ CurrentOrgs(c) \ {o} # {}
       /\ ~OrgMoveConflicts(c)
       /\ report' = SetOrg(report, c, o)
       /\ recommendation' = SetOrg(recommendation, c, o)
       /\ reportInfo' = SetOrg(reportInfo, c, o)
       /\ ruleHit' = SetOrg(ruleHit, c, o)
       /\ UNCHANGED userRows

\* The whole transaction.  rule_hit and the user tables follow the organization
\* of the cluster, although they are not looked at when deciding.
UpdateOrgIDForCluster(o, c) ==
    \/ /\ CurrentOrgs(c) = {} \/ o \in CurrentOrgs(c)
       /\ UNCHANGED tables
    \/ /\ CurrentOrgs(c) \ {o} # {}
       /\ ~OrgMoveConflicts(c)
       /\ report' = SetOrg(report, c, o)
       /\ recommendation' = SetOrg(recommendation, c, o)
       /\ reportInfo' = SetOrg(reportInfo, c, o)
       /\ ruleHit' = SetOrg(ruleHit, c, o)
       /\ userRows' = SetOrg(userRows, c, o)

\* An UPDATE that fails inside updateOrgIDInTables is only logged there, but
\* PostgreSQL has aborted the transaction by then and COMMIT returns an error.
\* A date that does not parse fails the message after the organization moved.
UpdateOrgID(p) ==
    /\ job[p].stage = "org"
    /\ \/ /\ UpdateOrgIDForCluster(Msg(p).org, Msg(p).cluster)
          /\ \/ GoTo(p, IF Msg(p).lastChecked = NoTime THEN "fail" ELSE "report")
             \/ "commit" \in Faults /\ GoTo(p, "fail")
       \/ /\ \/ Faults \intersect {"statement", "commit"} # {}
             \/ OrgMoveConflicts(Msg(p).cluster)
          /\ UNCHANGED tables
          /\ GoTo(p, "fail")
    /\ UNCHANGED <<kafka, cache, sinks, env>>

-----------------------------------------------------------------------------
\* storeInDB, second transaction: WriteReportForCluster.

\* The report is not newer than the one this process wrote last: ErrOldReport.
OldByCache(p) ==
    LET known == cache[owner[p]][Msg(p).cluster]
    IN  known # NoTime /\ Msg(p).lastChecked <= known

\* Mutant: the database is not asked for a more recent report.
NewerInDB_Unchecked(p) == FALSE

\* Mutant: last_checked_at >= $3.
NewerInDB_OrEqual(p) ==
    \E row \in Owned(report, Msg(p).cluster, Msg(p).org) :
        row.lastChecked >= Msg(p).lastChecked

\* SELECT ... WHERE org_id = $1 AND cluster = $2 AND last_checked_at > $3
NewerInDB(p) ==
    \E row \in Owned(report, Msg(p).cluster, Msg(p).org) :
        row.lastChecked > Msg(p).lastChecked

\* The rows getRuleKeyCreatedAtMap knows about; its errors are only logged.
LookedUp(rows) == IF "lookup" \in Faults THEN SUBSET rows ELSE {rows}

\* Mutant: the map is keyed by another form of the rule's name: no rule is found.
CreatedAtOf_Missed(rows) == {}

\* The map from rule to created_at made of them.
CreatedAtOf(rows) == {[rule |-> row.rule, since |-> row.createdAt] : row \in rows}

\* storedAtTime, then everything up to and with the look-up of updateReport, which
\* uses a connection of its own.  Both ways of being too old make writeOCPReport
\* return nil, so that storeInDB goes on to the recommendations.
CheckReport(p) ==
    /\ job[p].stage = "report"
    /\ \/ /\ OldByCache(p) \/ NewerInDB(p)
          /\ job' = [job EXCEPT ![p] = [@ EXCEPT !.stage = "recs", !.storedAt = now]]
       \/ /\ ~OldByCache(p) /\ ~NewerInDB(p)
          /\ \E rows \in LookedUp(Owned(ruleHit, Msg(p).cluster, Msg(p).org)) :
                 job' = [job EXCEPT ![p] = [@ EXCEPT !.stage = "apply", !.storedAt = now,
                                                     !.known = CreatedAtOf(rows)]]
       \/ /\ ~OldByCache(p)
          /\ "statement" \in Faults \/ ("commit" \in Faults /\ NewerInDB(p))
          /\ GoTo(p, "fail")
    /\ UNCHANGED <<kafka, cache, tables, sinks, env>>

\* Since when the rules in hits hit: a rule that was hit before keeps its date, a
\* new one gets the time t.
HitsSince(hits, known, t) ==
    {k \in known : k.rule \in hits}
    \union {[rule |-> r, since |-> t] : r \in hits \ RulesOf(known)}

RuleHitRows(m, known) ==
    {[cluster |-> m.cluster, org |-> m.org, rule |-> k.rule, createdAt |-> k.since] :
        k \in HitsSince(m.hits, known, now)}

ReportRowOf(m) ==
    [cluster |-> m.cluster, org |-> m.org,
     lastChecked |-> m.lastChecked, hits |-> m.hits]

\* Mutant: the rule hits of the previous report are not deleted.
WriteTables_NoDelete(m, known) ==
    /\ ruleHit' = ruleHit \union RuleHitRows(m, known)
    /\ report' = (report \ Of(report, m.cluster)) \union {ReportRowOf(m)}
    /\ UNCHANGED <<recommendation, reportInfo, userRows>>

\* DELETE and INSERT on rule_hit, upsert ON CONFLICT (cluster) on report.
WriteTables(m, known) ==
    /\ ruleHit' = (ruleHit \ Owned(ruleHit, m.cluster, m.org)) \union RuleHitRows(m, known)
    /\ report' = (report \ Of(report, m.cluster)) \union {ReportRowOf(m)}
    /\ UNCHANGED <<recommendation, reportInfo, userRows>>

\* Mutant: the cache is left alone.
SetCache_Forgotten(p) == UNCHANGED cache

\* The cache is set inside the transaction, before COMMIT can fail.
SetCache(p) ==
    cache' = [cache EXCEPT ![owner[p]][Msg(p).cluster] = Msg(p).lastChecked]

\* Mutant: the cache is set before updateReport has succeeded.
UpdateReport_CacheFirst(p) ==
    /\ job[p].stage = "apply"
    /\ \/ /\ WriteTables(Msg(p), job[p].known)
          /\ job' = [job EXCEPT ![p] = [@ EXCEPT !.stage = "recs", !.stored = TRUE, !.known = {}]]
       \/ /\ "statement" \in Faults
          /\ UNCHANGED tables
          /\ GoTo(p, "fail")
    /\ SetCache(p)
    /\ UNCHANGED <<kafka, sinks, env>>

\* Mutant: an error of updateReport is logged and dropped.
UpdateReport_ErrorDropped(p) ==
    /\ job[p].stage = "apply"
    /\ \/ /\ WriteTables(Msg(p), job[p].known)
          /\ SetCache(p)
       \/ /\ "statement" \in Faults
          /\ UNCHANGED <<tables, cache>>
    /\ GoTo(p, "recs")
    /\ UNCHANGED <<kafka, sinks, env>>

UpdateReport(p) ==
    /\ job[p].stage = "apply"
    /\ \/ /\ WriteTables(Msg(p), job[p].known)
          /\ SetCache(p)
          /\ job' = [job EXCEPT ![p] = [@ EXCEPT !.stage = "recs", !.stored = TRUE, !.known = {}]]
       \/ /\ "commit" \in Faults
          /\ WriteTables(Msg(p), job[p].known) \/ UNCHANGED tables
          /\ SetCache(p)
          /\ GoTo(p, "fail")
       \/ /\ "statement" \in Faults
          /\ UNCHANGED <<tables, cache>>
          /\ GoTo(p, "fail")
    /\ UNCHANGED <<kafka, sinks, env>>

-----------------------------------------------------------------------------
\* storeInDB, third transaction: WriteRecommendationsForCluster.

RecommendationRows(m, known, at) ==
    {[cluster |-> m.cluster, org |-> m.org, rule |-> k.rule,
      createdAt |-> at, impactedSince |-> k.since] : k \in HitsSince(m.hits, known, at)}

ImpactedSinceOf(rows) == {[rule |-> row.rule, since |-> row.impactedSince] : row \in rows}

Recommended(p) == Owned(recommendation, Msg(p).cluster, Msg(p).org)

\* Existing rows are only replaced when this process has written a report of the
\* cluster.  The dates of those rows are looked up on another connection first.
LookUpRecommendations(p) ==
    /\ job[p].stage = "recs"
    /\ cache[owner[p]][Msg(p).cluster] # NoTime
    /\ \/ \E rows \in LookedUp(Recommended(p)) :
              job' = [job EXCEPT ![p] = [@ EXCEPT !.stage = "replace",
                                                  !.known = ImpactedSinceOf(rows)]]
       \/ "statement" \in Faults /\ GoTo(p, "fail")
    /\ UNCHANGED <<kafka, cache, tables, sinks, env>>

\* What a transaction that writes recommendations leaves of them.
SetRecommendations(rows) ==
    recommendation' = rows /\ UNCHANGED <<report, ruleHit, reportInfo, userRows>>

\* DELETE and INSERT.
ReplaceRecommendations(p) ==
    /\ job[p].stage = "replace"
    /\ \/ /\ SetRecommendations((recommendation \ Recommended(p))
                \union RecommendationRows(Msg(p), job[p].known, job[p].storedAt))
          /\ GoTo(p, "info") \/ ("commit" \in Faults /\ GoTo(p, "fail"))
       \/ /\ Faults \intersect {"statement", "commit"} # {}
          /\ UNCHANGED tables
          /\ GoTo(p, "fail")
    /\ UNCHANGED <<kafka, cache, sinks, env>>

\* Without an entry in the cache there is only the INSERT, which must not meet a row
\* with the same primary key.
AddRecommendations(p) ==
    LET duplicates == RulesOf(Recommended(p)) \intersect Msg(p).hits
    IN  /\ job[p].stage = "recs"
        /\ cache[owner[p]][Msg(p).cluster] = NoTime
        /\ \/ /\ duplicates = {}
              /\ SetRecommendations(recommendation
                     \union RecommendationRows(Msg(p), {}, job[p].storedAt))
              /\ GoTo(p, "info") \/ ("commit" \in Faults /\ GoTo(p, "fail"))
           \/ /\ duplicates # {} \/ Faults \intersect {"statement", "commit"} # {}
              /\ UNCHANGED tables
              /\ GoTo(p, "fail")
        /\ UNCHANGED <<kafka, cache, sinks, env>>

-----------------------------------------------------------------------------
\* storeInDB, fourth transaction: WriteReportInfoForCluster.

\* Upsert ON CONFLICT (cluster_id) if the report has a version_info item.
UpsertInfo(m) ==
    /\ IF m.version = NoVersion
       THEN UNCHANGED reportInfo
       ELSE reportInfo' = (reportInfo \ Of(reportInfo, m.cluster))
                \union {[cluster |-> m.cluster, org |-> m.org, version |-> m.version]}
    /\ UNCHANGED <<report, ruleHit, recommendation, userRows>>

WriteInfo(p) ==
    /\ job[p].stage = "info"
    /\ \/ /\ UpsertInfo(Msg(p))
          /\ GoTo(p, "mark") \/ ("commit" \in Faults /\ GoTo(p, "fail"))
       \/ /\ Faults \intersect {"statement", "commit"} # {}
          /\ UNCHANGED tables
          /\ GoTo(p, "fail")
    /\ UNCHANGED <<kafka, cache, sinks, env>>

-----------------------------------------------------------------------------
\* The rest of HandleMessage and ConsumeClaim.

\* A plain INSERT with primary key (topic, partition, topic_offset): for a
\* message delivered before it fails, as any other failure here it is logged.
WriteConsumerError(p) ==
    /\ job[p].stage = "fail"
    /\ \/ consumerError' = consumerError \union {<<p, position[p] + 1>>}
       \/ "sink" \in Faults /\ UNCHANGED consumerError
    /\ GoTo(p, "deadLetter")
    /\ UNCHANGED <<kafka, cache, tables, deadLetter, env>>

\* Mutant: ConsumeClaim leaves a message that failed unmarked.
SendDeadLetter_Unmarked(p) ==
    /\ job[p].stage = "deadLetter"
    /\ \/ deadLetter' = deadLetter \union {<<p, position[p] + 1>>}
       \/ "sink" \in Faults /\ UNCHANGED deadLetter
    /\ job' = [job EXCEPT ![p] = Idle]
    /\ UNCHANGED <<kafka, cache, tables, consumerError, env>>

SendDeadLetter(p) ==
    /\ job[p].stage = "deadLetter"
    /\ \/ deadLetter' = deadLetter \union {<<p, position[p] + 1>>}
       \/ "sink" \in Faults /\ UNCHANGED deadLetter
    /\ GoTo(p, "mark")
    /\ UNCHANGED <<kafka, cache, tables, consumerError, env>>

\* ConsumeClaim marks the message whatever HandleMessage returned.
MarkMessage(p) ==
    /\ job[p].stage = "mark"
    /\ position' = [position EXCEPT ![p] = @ + 1]
    /\ job' = [job EXCEPT ![p] = Idle]
    /\ UNCHANGED <<log, committed, owner, cache, tables, sinks, env>>

-----------------------------------------------------------------------------
\* The REST server works on the same tables.

\* readClusterRuleParams and checkUserClusterPermissions of a request to toggle or
\* rate a rule of cluster c, which must have a report.  The organization o it writes
\* is the one in its path: it is not compared with that of the cluster.
CheckRequest(t, c, o) ==
    /\ Cardinality(request) < MaxRequests
    /\ Of(report, c) # {}
    /\ request' = request \union {[table |-> t, cluster |-> c, org |-> o]}
    /\ UNCHANGED <<kafka, job, cache, tables, sinks, now, interruptions>>

\* The upsert the request ends with, keyed by cluster and rule.
ServeRequest(q) ==
    LET same == {row \in userRows : row.table = q.table /\ row.cluster = q.cluster}
    IN  /\ q \in request
        /\ request' = request \ {q}
        /\ userRows' = IF same # {} /\ q.table \in KeepsOrg
                       THEN userRows
                       ELSE (userRows \ same) \union {q}
        /\ UNCHANGED <<kafka, job, cache, report, ruleHit, recommendation,
                       reportInfo, sinks, now, interruptions>>

\* Both DELETE endpoints remove rows of the report table and of no other.
DeleteReportsForOrg(o) ==
    /\ Debug
    /\ report' = {row \in report : row.org # o}
    /\ UNCHANGED <<kafka, job, cache, ruleHit, recommendation, reportInfo,
                   userRows, sinks, env>>

DeleteReportsForCluster(c) ==
    /\ Debug
    /\ report' = report \ Of(report, c)
    /\ UNCHANGED <<kafka, job, cache, ruleHit, recommendation, reportInfo,
                   userRows, sinks, env>>

-----------------------------------------------------------------------------

HandleStep(p) ==
    \/ StartMessage(p)
    \/ UpdateOrgID(p)
    \/ CheckReport(p)
    \/ UpdateReport(p)
    \/ LookUpRecommendations(p)
    \/ ReplaceRecommendations(p)
    \/ AddRecommendations(p)
    \/ WriteInfo(p)
    \/ WriteConsumerError(p)
    \/ SendDeadLetter(p)
    \/ MarkMessage(p)

Next ==
    \/ \E p \in Partitions :
        \/ HandleStep(p)
        \/ CommitOffsets(p)
        \/ \E m \in Messages : Produce(p, m)
        \/ \E r \in Replicas : Rebalance(p, r) \/ LoseSession(p, r)
    \/ \E r \in Replicas : Crash(r)
    \/ Tick
    \/ \E t \in UserTables, c \in Clusters, o \in Orgs : CheckRequest(t, c, o)
    \/ \E q \in request : ServeRequest(q)
    \/ \E o \in Orgs : DeleteReportsForOrg(o)
    \/ \E c \in Clusters : DeleteReportsForCluster(c)

Spec == Init /\ [][Next]_vars

\* A claim's goroutine keeps running while its process lives, and Sarama's
\* committer runs every second.
Fairness ==
    \A p \in Partitions : WF_vars(HandleStep(p)) /\ WF_vars(CommitOffsets(p))

FairSpec == Spec /\ Fairness

=============================================================================
