---------------------------- MODULE OcpWriterProps ---------------------------
(***************************************************************************)
(* What is claimed of OcpWriter.  Unless a comment says otherwise a claim  *)
(* is for topics where all messages of a cluster share one partition       *)
(* (KeyedByCluster; the deployed topics have a single partition) and for   *)
(* servers without the DELETE endpoints (~Debug).                          *)
(***************************************************************************)
EXTENDS OcpWriter

KeyedByCluster == \A c \in Clusters : \A p, q \in PartitionsOf[c] : p = q

\* Every variable has its type; a job in progress has a message to work on.
TypeOK ==
    /\ log \in [Partitions -> Seq(Messages)]
    /\ committed \in [Partitions -> Nat]
    /\ position \in [Partitions -> Nat]
    /\ owner \in [Partitions -> Replicas]
    /\ job \in [Partitions -> Job]
    /\ cache \in [Replicas -> [Clusters -> Nat]]
    /\ report \subseteq ReportRow
    /\ ruleHit \subseteq RuleHitRow
    /\ recommendation \subseteq RecommendationRow
    /\ reportInfo \subseteq ReportInfoRow
    /\ userRows \subseteq UserRow
    /\ consumerError \subseteq Partitions \X Nat
    /\ deadLetter \subseteq Partitions \X Nat
    /\ request \subseteq UserRow
    /\ now \in Time
    /\ interruptions \in Nat
    /\ \A p \in Partitions :
        /\ committed[p] <= position[p]
        /\ position[p] <= Len(log[p])
        /\ job[p].stage # "idle" => position[p] < Len(log[p])

-----------------------------------------------------------------------------

\* The rows the writer keeps about clusters.
Rows == report \union ruleHit \union recommendation \union reportInfo

\* updateOrgID moves a cluster between organizations in every table, whatever
\* interleaving of crashes, redeliveries and failed transactions went before:
\* at no time do two organizations own rows of one cluster.
ClusterHasOneOrg ==
    \A a, b \in Rows : a.cluster = b.cluster => a.org = b.org

\* The report that GET .../report reads and the rule_hit rows it joins with in a
\* second query describe the same archive: the rules hit by a stored report are
\* exactly the rule_hit rows of its cluster and organization.
RuleHitsMatchReport ==
    \A row \in report : RulesOf(Owned(ruleHit, row.cluster, row.org)) = row.hits

\* Once a delivery has written its report and then its recommendations, the
\* cluster has exactly the recommendations of that report, also when the cache
\* of the process was empty or stale before.
RecommendationsMatchStoredReport ==
    \A p \in Partitions : job[p].stage = "info" /\ job[p].stored =>
        RulesOf(Of(recommendation, Msg(p).cluster)) = Msg(p).hits

\* The report table has a report of c that is at least as recent as t.
HasReport(c, t) == \E row \in report : row.cluster = c /\ row.lastChecked >= t

\* An ErrOldReport, or the warning that the database has a more recent report,
\* is never wrong: such a report is in the report table (types.ErrOldReport).
OldReportIsInDatabase ==
    \A p \in Partitions : job[p].stage = "recs" /\ ~job[p].stored =>
        HasReport(Msg(p).cluster, Msg(p).lastChecked)

\* Message i of partition p is stored or superseded, empty, or in both sinks.
Accounted(p, i) ==
    LET m == log[p][i]
    IN  \/ m.kind = "empty"
        \/ <<p, i>> \in deadLetter /\ <<p, i>> \in consumerError
        \/ m.kind = "valid" /\ m.lastChecked # NoTime /\ HasReport(m.cluster, m.lastChecked)

\* No message disappears: once it has been marked, the report table holds a
\* report of its cluster that is at least as recent, or the message was empty,
\* or it is in the dead letter topic and in consumer_error.
NothingSilentlyLost ==
    \A p \in Partitions : \A i \in 1..position[p] : Accounted(p, i)

Valid(m) == m.kind = "valid" /\ m.org \in AllowedOrgs /\ m.lastChecked # NoTime

\* Partition p holds the reports of each cluster in the order they were made.
InOrder(p) ==
    \A i, j \in DOMAIN log[p] :
        i < j /\ Valid(log[p][i]) /\ Valid(log[p][j])
              /\ log[p][i].cluster = log[p][j].cluster
            => log[p][i].lastChecked < log[p][j].lastChecked

\* Report i is the last one of its cluster in partition p, which is in order.
LastReport(p, i) ==
    /\ InOrder(p)
    /\ i \in DOMAIN log[p] /\ Valid(log[p][i])
    /\ \A j \in DOMAIN log[p] :
           j > i => ~(Valid(log[p][j]) /\ log[p][j].cluster = log[p][i].cluster)

\* What the tables hold of the cluster of m is what m says.
StoredIs(m) ==
    {<<row.lastChecked, row.hits>> : row \in Of(report, m.cluster)} = {<<m.lastChecked, m.hits>>}

RecommendedIs(m) == RulesOf(Of(recommendation, m.cluster)) = m.hits

InfoIs(m) ==
    m.version # NoVersion => {row.version : row \in Of(reportInfo, m.cluster)} = {m.version}

\* Consumption is at least once, and redelivered reports do damage the
\* recommendation and report_info tables; but when a partition whose reports are
\* in order has been read to its end, all tables agree on the last report of each
\* cluster again, however often deliveries were interrupted and repeated and
\* whichever of them failed, unless that last report is itself a dead letter.
RedeliveryConverges ==
    \A p \in Partitions : \A i \in DOMAIN log[p] :
        position[p] = Len(log[p]) /\ LastReport(p, i) /\ <<p, i>> \notin deadLetter =>
            StoredIs(log[p][i]) /\ RecommendedIs(log[p][i]) /\ InfoIs(log[p][i])

-----------------------------------------------------------------------------
\* What a step may never do.

\* The stored report of a cluster is never replaced by an older one, neither by
\* a redelivery to a process with an empty cache nor by a replica whose cache is
\* behind the database.
ReportNeverGetsOlder ==
    [][\A old \in report, new \in report' :
           old.cluster = new.cluster => old.lastChecked <= new.lastChecked]_vars

\* As long as every stored report of a cluster hits a rule, created_at of the rule in
\* rule_hit is kept: no step that leaves a report with the rule in it changes the
\* date, drops the row or adds a second one, although the dates are read before the
\* rows are deleted and inserted again.  impacted_since in recommendation is only
\* kept as long as the row is there: a late report that is refused as old still
\* removes rows, and the report after it starts them anew.
HitSinceIsKept ==
    [][/\ \A old \in ruleHit, row \in report' :
              row.cluster = old.cluster /\ old.rule \in row.hits =>
                  {hit.createdAt : hit \in {x \in ruleHit' : x.cluster = old.cluster
                                                         /\ x.rule = old.rule}}
                      = {old.createdAt}
       /\ \A old \in recommendation, new \in recommendation' :
              old.cluster = new.cluster /\ old.rule = new.rule
                  => old.impactedSince = new.impactedSince]_vars

UserRowsOwned(c) ==
    \A row \in Of(userRows, c), owned \in Of(report, c) : row.org = owned.org

\* Users' toggles and feedback follow their cluster to its new organization: only
\* a REST request can separate them, which writes the organization of its path.
WriterKeepsUserRowsOwned ==
    [][\A c \in Clusters : UserRowsOwned(c) /\ request' = request => UserRowsOwned(c)']_vars

\* Writing recommendations replaces those of the previously stored reports of
\* the cluster ("Delete current recommendations for the cluster if some report
\* has been previously stored for this cluster").
RecommendationsReplaced ==
    \A p \in Partitions : job[p].stage = "info" =>
        RulesOf(Of(recommendation, Msg(p).cluster)) = Msg(p).hits

-----------------------------------------------------------------------------

\* A message that cannot be stored does not block its partition: every message
\* is eventually consumed for good.
EveryMessageConsumed ==
    \A p \in Partitions : \A i \in 1..MaxMessages :
        (Len(log[p]) >= i) ~> (committed[p] >= i)

-----------------------------------------------------------------------------
(***************************************************************************)
(* The inductive invariant.  A message has a parsed date once its          *)
(* organization has been dealt with, and a storedAtTime once its report    *)
(* has been checked; only UpdateReport sets stored.  From updateOrgID on,  *)
(* all rows of its cluster belong to its organization: the look-ups by     *)
(* (org_id, cluster), which miss rows of other organizations, miss         *)
(* nothing.  What CheckReport found out is still true when UpdateReport    *)
(* writes, because nobody else writes reports of the cluster.  rule_hit,   *)
(* which updateOrgID does not look at, never has rows of a cluster without *)
(* a report.                                                               *)
(***************************************************************************)
Writing == {"report", "apply", "recs", "replace", "info"}

JobOK ==
    \A p \in Partitions :
        /\ job[p].stage \in Writing => Msg(p).lastChecked \in Time
        /\ job[p].stage \in {"apply", "recs", "replace"} => job[p].storedAt \in Time
        /\ job[p].stored => job[p].stage \notin {"idle", "org", "report", "apply"}

LogKeyed ==
    \A p \in Partitions : \A i \in 1..Len(log[p]) : p \in PartitionsOf[log[p][i].cluster]

OrgSettled ==
    \A p \in Partitions : job[p].stage \in Writing =>
        \A row \in Rows : row.cluster = Msg(p).cluster => row.org = Msg(p).org

NewestWhenWritten ==
    \A p \in Partitions : job[p].stage = "apply" =>
        \A row \in report : row.cluster = Msg(p).cluster =>
            row.lastChecked <= Msg(p).lastChecked

OneReportPerCluster == \A a, b \in report : a.cluster = b.cluster => a = b

RuleHitHasReport == \A hit \in ruleHit : \E row \in report : row.cluster = hit.cluster

CachedOnceStored ==
    \A p \in Partitions : job[p].stage = "recs" /\ job[p].stored =>
        cache[owner[p]][Msg(p).cluster] # NoTime

\* What the proofs show to be inductive for TypeOK and for the safety of the
\* report and rule_hit tables.
WriterInv ==
    /\ JobOK
    /\ LogKeyed
    /\ OrgSettled
    /\ NewestWhenWritten
    /\ OneReportPerCluster
    /\ RuleHitHasReport
    /\ CachedOnceStored
    /\ ClusterHasOneOrg
    /\ RuleHitsMatchReport
    /\ RecommendationsMatchStoredReport

(***************************************************************************)
(* What remains of it with the DELETE endpoints, which leave rule_hit rows *)
(* without a report behind: the rows of a cluster in the tables that       *)
(* updateOrgID decides by still belong to one organization.                *)
(***************************************************************************)
DecidingRows == report \union recommendation \union reportInfo

DecidingSettled ==
    \A p \in Partitions : job[p].stage \in Writing =>
        \A row \in DecidingRows : row.cluster = Msg(p).cluster => row.org = Msg(p).org

DecidingHasOneOrg == \A a, b \in DecidingRows : a.cluster = b.cluster => a.org = b.org

\* Whoever deletes reports in between, a claim writes for the one organization that
\* its cluster's rows belong to, over a report that is not newer, and leaves the
\* recommendations of the report it has stored.
CoreInv ==
    /\ JobOK
    /\ LogKeyed
    /\ DecidingSettled
    /\ NewestWhenWritten
    /\ OneReportPerCluster
    /\ CachedOnceStored
    /\ DecidingHasOneOrg
    /\ RecommendationsMatchStoredReport

(***************************************************************************)
(* The invariant for OldReportIsInDatabase and NothingSilentlyLost, when   *)
(* no COMMIT has an unknown outcome and, for the latter, the sinks work.   *)
(* A date in a cache stands for a report that the database has; so do the  *)
(* stages after WriteReportForCluster, whichever way it ended.             *)
(***************************************************************************)
CacheInDatabase ==
    \A r \in Replicas, c \in Clusters :
        cache[r][c] # NoTime => HasReport(c, cache[r][c])

SinksWork == "sink" \notin Faults

ClaimAccounted(p) ==
    /\ job[p].stage \in Writing \union {"org"} => Msg(p).kind = "valid"
    /\ job[p].stage \in {"recs", "replace", "info"} => HasReport(Msg(p).cluster, Msg(p).lastChecked)
    /\ SinksWork /\ job[p].stage = "deadLetter" => <<p, position[p] + 1>> \in consumerError
    /\ SinksWork /\ job[p].stage = "mark" => Accounted(p, position[p] + 1)

\* What the proofs show to be inductive together with WriterInv.
AccountingInv ==
    /\ CacheInDatabase
    /\ \A p \in Partitions : ClaimAccounted(p)
    /\ SinksWork => NothingSilentlyLost

(***************************************************************************)
(* The invariant for RedeliveryConverges, when the sinks work.  No stored  *)
(* report is newer than the last one of its cluster in an ordered          *)
(* partition, and no cached date either.  So the last report is refused as *)
(* old only by a replica that has cached its own date, because it lost the *)
(* session before the offset was committed; then the report is stored, and *)
(* since the cache has the cluster its recommendations are replaced.       *)
(***************************************************************************)
\* Only reports that were parsed and allowed reach the database.
ClaimValid ==
    \A p \in Partitions : job[p].stage \in Writing \union {"org"} =>
        Msg(p).kind = "valid" /\ Msg(p).org \in AllowedOrgs

\* One of the first n messages of partition p is a report of c with the date t.
Dated(p, n, c, t) ==
    \E i \in 1..Len(log[p]) :
        i <= n /\ Valid(log[p][i]) /\ log[p][i].cluster = c /\ log[p][i].lastChecked = t

ReportFromLog ==
    \A row \in report : \E p \in Partitions :
        Dated(p, Len(log[p]), row.cluster, row.lastChecked)

\* A replica has cached dates of reports that are in the topic.
CacheFromLog ==
    \A r \in Replicas, c \in Clusters : cache[r][c] # NoTime =>
        \E p \in Partitions : Dated(p, Len(log[p]), c, cache[r][c])

\* A cached date of a last report is not a promise that nobody kept.
CachedLast ==
    \A p \in Partitions : \A i \in 1..Len(log[p]) : \A r \in Replicas :
        cache[r][log[p][i].cluster] = log[p][i].lastChecked /\ LastReport(p, i) =>
            \/ StoredIs(log[p][i])
            \/ <<p, i>> \in deadLetter
            \/ r = owner[p] /\ i = position[p] + 1 /\ job[p].stage \in {"fail", "deadLetter"}

LastIsStored ==
    \A p \in Partitions :
        /\ job[p].stage \in {"recs", "replace", "info"}
        /\ LastReport(p, position[p] + 1)
        /\ <<p, position[p] + 1>> \notin deadLetter
        => /\ StoredIs(Msg(p))
           /\ job[p].stage = "recs" => cache[owner[p]][Msg(p).cluster] # NoTime
           /\ job[p].stage = "info" => RecommendedIs(Msg(p))

Handled(p) == IF job[p].stage = "mark" THEN position[p] + 1 ELSE position[p]

HandledLastSettled ==
    \A p \in Partitions : \A i \in 1..Handled(p) :
        LastReport(p, i) /\ <<p, i>> \notin deadLetter =>
            StoredIs(log[p][i]) /\ RecommendedIs(log[p][i]) /\ InfoIs(log[p][i])

\* What the proofs show to be inductive together with WriterInv: from the moment
\* its handling has ended, the tables are those of the last report of a cluster.
ConvergenceInv ==
    /\ ReportFromLog
    /\ CacheFromLog
    /\ ClaimValid
    /\ SinksWork => CachedLast /\ LastIsStored /\ HandledLastSettled

-----------------------------------------------------------------------------
(***************************************************************************)
(* For HitSinceIsKept: neither table has two rows of a cluster and a rule, *)
(* which is more than the primary keys ask for, as those include the       *)
(* organization; and what a look-up has found is still so when the rows    *)
(* are replaced, or a part of it if look-ups can fail.                     *)
(***************************************************************************)
OneRowPerHit(table) ==
    \A a, b \in table : a.cluster = b.cluster /\ a.rule = b.rule => a = b

Found(known, all) == known \subseteq all /\ ("lookup" \notin Faults => known = all)

KnownIsCurrent ==
    \A p \in Partitions :
        /\ job[p].stage = "apply" =>
               Found(job[p].known, CreatedAtOf(Owned(ruleHit, Msg(p).cluster, Msg(p).org)))
        /\ job[p].stage = "replace" => Found(job[p].known, ImpactedSinceOf(Recommended(p)))

HistoryInv == OneRowPerHit(ruleHit) /\ OneRowPerHit(recommendation) /\ KnownIsCurrent

-----------------------------------------------------------------------------
\* The report and rule_hit tables implement LatestReport.

latestOf ==
    [c \in Clusters |->
        {[cluster |-> c, org |-> row.org, lastChecked |-> row.lastChecked,
          hits |-> RulesOf(Owned(ruleHit, c, row.org))] : row \in Of(report, c)}]

Latest == INSTANCE LatestReport
              WITH latest <- latestOf,
                   Reports <- {ReportRowOf(m) : m \in {x \in Messages : Valid(x)}}

\* A reader that joins report with rule_hit sees a LatestReport register: always
\* one report as it was made, however the steps of writers and failures interleave.
ImplementsLatestReport == Latest!LatestSpec
=============================================================================
