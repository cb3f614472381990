---------------------------- MODULE DvoWriterProps ---------------------------
(***************************************************************************)
(* What is claimed of DvoWriter.                                           *)
(***************************************************************************)
EXTENDS DvoWriter

\* Every variable has its type, and only a report with a date is written.
DvoTypeOK ==
    /\ log \in Seq(Messages)
    /\ committed \in Nat /\ position \in Nat
    /\ committed <= position /\ position <= Len(log)
    /\ owner \in Replicas
    /\ stage \in Stages
    /\ stage # "idle" => position < Len(log)
    /\ stage = "write" => Msg.lastChecked \in Time
    /\ cache \in [Replicas -> [Clusters -> Nat]]
    /\ dvoReport \subseteq DvoRow
    /\ failed \subseteq 1..Len(log)
    /\ crashes \in Nat /\ rebalances \in Nat /\ losses \in Nat

Valid(m) == m.kind = "valid" /\ m.org \in AllowedOrgs /\ m.lastChecked # NoTime

-----------------------------------------------------------------------------
\* What a row should say about namespace ns, defined from the recommendations as
\* a whole and not by going through them.

\* Positions <<i, j>> of the workloads of ns: the j-th of the i-th recommendation.
Places(recs, ns) ==
    UNION {{<<i, j>> : j \in {k \in DOMAIN recs[i].workloads :
                                  recs[i].workloads[k].namespace = ns}} :
               i \in DOMAIN recs}

RowContents(m, ns) ==
    LET places == Places(m.recommendations, ns)
        rec(p) == m.recommendations[p[1]]
    IN  [namespace |-> ns,
         recommendations |-> Cardinality({p[1] : p \in places}),
         objects |-> Cardinality({rec(p).workloads[p[2]].uid : p \in places}),
         ruleHits |-> [r \in WorkloadRules |->
                           Cardinality({p \in places : rec(p).rule = r})],
         lastChecked |-> m.lastChecked]

ReportContents(m) ==
    {RowContents(m, ns) : ns \in {x \in Namespaces : Places(m.recommendations, x) # {}}}

ContentsOf(row) ==
    [namespace |-> row.namespace, recommendations |-> row.recommendations,
     objects |-> row.objects, ruleHits |-> row.ruleHits, lastChecked |-> row.lastChecked]

\* The rows of a cluster are always those of one report that was made of it: all
\* of its namespaces and no namespace of another report, with the numbers that
\* mapWorkloadRecommendations should find, owned by one organization.
RowsAreOneReport ==
    \A c \in Clusters : Of(c) # {} =>
        /\ \A a, b \in Of(c) : a.org = b.org
        /\ \E i \in 1..Len(log) :
            /\ Valid(log[i]) /\ log[i].cluster = c
            /\ {ContentsOf(row) : row \in Of(c)} = ReportContents(log[i])

\* reported_at is the date of an earlier report of the namespace or of this one:
\* it is never after last_checked_at, although it is read back, formatted and
\* stored again with each report.
ReportedNotAfterChecked ==
    \A row \in dvoReport : row.reportedAt <= row.lastChecked

InOrder ==
    \A i, j \in DOMAIN log :
        i < j /\ Valid(log[i]) /\ Valid(log[j]) /\ log[i].cluster = log[j].cluster
            => log[i].lastChecked < log[j].lastChecked

\* Report i is the last one of its cluster in a partition that is in order.
LastReport(i) ==
    /\ i \in DOMAIN log /\ Valid(log[i])
    /\ \A j \in DOMAIN log :
           j > i => ~(Valid(log[j]) /\ log[j].cluster = log[i].cluster)
    /\ InOrder

\* What the table says of cluster c; it is what report i says.
ContentsIn(c) == {ContentsOf(row) : row \in Of(c)}
IsStored(i) == ContentsIn(log[i].cluster) = ReportContents(log[i])

\* An empty report leaves no row with its date.  So when older reports are delivered
\* again and written, and the empty one then comes to a replica that has its date in
\* the cache from before it lost the session, the empty one is refused.
Repeatable(i) == losses = 0 \/ ReportContents(log[i]) # {}

\* When a partition whose reports are in order has been read to its end, the rows of
\* each cluster are those of its last report, none if it had no recommendations,
\* however often crashes, rebalances and lost sessions made reports be delivered
\* again to processes with other caches and whichever of them failed; unless that
\* last report is one that failed itself, or an empty one after a lost session.
DvoConverges ==
    position = Len(log) =>
        \A i \in DOMAIN log : i \notin failed /\ LastReport(i) /\ Repeatable(i) => IsStored(i)

-----------------------------------------------------------------------------
\* What a step may never do.

\* While a namespace keeps its row, its reported_at survives each rewrite up to
\* the fraction of a second that the conversion of getReportedAtMap loses, and
\* last_checked_at of the cluster does not go back.
ReportedAtIsKept ==
    [][\A old \in dvoReport, new \in dvoReport' :
           old.cluster = new.cluster =>
               /\ old.lastChecked <= new.lastChecked
               /\ old.namespace = new.namespace
                      => new.reportedAt \in {old.reportedAt, RFC3339(old.reportedAt)}]_vars

-----------------------------------------------------------------------------
\* "Only the latest report for a given cluster is stored": the rows of a cluster
\* are not older than a report of it that was consumed without an error.
OnlyLatestReportIsStored ==
    \A row \in dvoReport : \A i \in 1..position :
        Valid(log[i]) /\ i \notin failed /\ log[i].cluster = row.cluster
            => row.lastChecked >= log[i].lastChecked

-----------------------------------------------------------------------------
\* The organization of the cluster is settled before its report is written, so
\* that look-ups by (org_id, cluster_id) see all rows of the cluster.
OrgSettled ==
    stage = "write" => \A row \in Of(Msg.cluster) : row.org = Msg.org

OneDatePerCluster ==
    \A a, b \in dvoReport :
        a.cluster = b.cluster => a.lastChecked = b.lastChecked /\ a.org = b.org

OneRowPerNamespace ==
    \A a, b \in dvoReport : a.cluster = b.cluster /\ a.namespace = b.namespace => a = b

\* Only reports that StartMessage let through reach the transactions.
OnlyValidWritten ==
    stage \in {"org", "write"} => Msg.kind = "valid" /\ Msg.org \in AllowedOrgs

\* How far the reports reach that a process may have put into its cache, as long as
\* no session is lost.  Those of the owner are forgotten when a crash takes the
\* position back, those of another process are behind the offset that was committed
\* when it gave up the claim.
CacheReach(r) ==
    IF r # owner THEN committed
    ELSE IF stage \in {"mark", "fail"} THEN position + 1 ELSE position

\* A cached date is that of a report of the topic; of one that will not be read again
\* with the entry still there, unless a session was lost.
CacheFromLog ==
    \A r \in Replicas, c \in Clusters : cache[r][c] # NoTime =>
        \E i \in 1..Len(log) :
            /\ losses = 0 => i <= CacheReach(r)
            /\ Valid(log[i]) /\ log[i].cluster = c /\ log[i].lastChecked = cache[r][c]

\* Inductive together with DvoTypeOK.
DvoInv ==
    /\ OrgSettled
    /\ OnlyValidWritten
    /\ OneDatePerCluster
    /\ OneRowPerNamespace
    /\ ReportedNotAfterChecked
    /\ CacheFromLog

\* Who has cached the date of a last report that has rows has stored it, or failed.
CachedLast ==
    \A i \in 1..Len(log) : \A r \in Replicas :
        /\ cache[r][log[i].cluster] = log[i].lastChecked
        /\ LastReport(i) /\ ReportContents(log[i]) # {}
        => \/ IsStored(i)
           \/ i \in failed
           \/ r = owner /\ i = position + 1 /\ stage = "fail"

Handled == IF stage = "mark" THEN position + 1 ELSE position

\* From the moment the last report of a cluster has been handled the table is that
\* of this report: also when it was refused as old, which means that an earlier
\* delivery of it has left its date in the cache of the process.
TableIsCurrent ==
    /\ CachedLast
    /\ \A i \in 1..Handled :
           i \notin failed /\ LastReport(i) /\ Repeatable(i) => IsStored(i)
=============================================================================
