------------------------------ MODULE DvoWriter ------------------------------
(***************************************************************************)
(* The DVO writer: the Kafka consumer of OcpWriter with DVORulesProcessor  *)
(* and DVORecommendationsDBStorage.  A message carries the workload        *)
(* recommendations of one cluster; dvo.dvo_report gets one row for each    *)
(* namespace they touch, with numbers aggregated from them.  A message     *)
(* takes two transactions,                                                 *)
(*                                                                         *)
(*   UpdateOrgIDForCluster -> WriteReportForCluster                        *)
(*                                                                         *)
(* each of which is one step here: the topic has one partition, its claim  *)
(* is the only writer of the table, and a crash inside a transaction rolls *)
(* it back.  DeleteReportsForOrg of this storage is not called by anyone.  *)
(***************************************************************************)
EXTENDS Integers, Sequences, FiniteSets, SequencesExt

CONSTANTS
    Replicas,          \* dvo-writer processes, one of which owns the claim
    Clusters, Orgs, Namespaces,
    WorkloadRules,     \* composite rule IDs
    BadRule,           \* a component GenerateCompositeRuleID refuses
    Workloads,         \* UIDs of workload objects
    Messages,          \* what can be produced into the topic
    AllowedOrgs,       \* the allow list; Orgs when it is disabled
    TicksPerSecond,    \* resolution of last_checked_at
    Faults,            \* {"statement", "commit", "lookup"}, as in OcpWriter
    MaxMessages, MaxCrashes, MaxRebalances, MaxLosses   \* bounds of the model

NoTime == 0            \* an unparsable LastChecked, an absent cache entry
Time == Nat \ {NoTime}

\* types.WorkloadRecommendation: a rule and the workloads it hits.
Recommendation ==
    [rule: WorkloadRules \union {BadRule},
     workloads: Seq([namespace: Namespaces, uid: Workloads])]

Message ==
    [kind: {"valid", "unparsable", "empty"}, cluster: Clusters, org: Orgs,
     lastChecked: Nat, recommendations: Seq(Recommendation)]

ASSUME DvoConstants ==
    /\ Messages \subseteq Message
    /\ BadRule \notin WorkloadRules
    /\ TicksPerSecond \in Nat \ {0}
    /\ Faults \subseteq {"statement", "commit", "lookup"}
    /\ MaxMessages \in Nat /\ MaxCrashes \in Nat /\ MaxRebalances \in Nat /\ MaxLosses \in Nat

VARIABLES
    log,         \* the messages of the topic's partition
    committed,   \* consumer group offset
    position,    \* messages marked in the current session
    owner,       \* the replica that has the claim
    stage,       \* the next thing its goroutine does with the message
    cache,       \* cache[r][c]: clustersLastChecked, NoTime if absent
    dvoReport,   \* the rows of dvo.dvo_report
    failed,      \* indexes of the messages that failed in some delivery
    crashes, rebalances, losses

kafka == <<log, committed, position, owner>>
counters == <<crashes, rebalances, losses>>
vars == <<kafka, stage, cache, dvoReport, failed, counters>>

Stages == {"idle", "org", "write", "fail", "mark"}

DvoRow ==
    [cluster: Clusters, org: Orgs, namespace: Namespaces,
     recommendations: Nat, objects: Nat, ruleHits: [WorkloadRules -> Nat],
     reportedAt: Nat, lastChecked: Time]

Init ==
    /\ log = <<>>
    /\ committed = 0
    /\ position = 0
    /\ owner \in Replicas
    /\ stage = "idle"
    /\ cache = [r \in Replicas |-> [c \in Clusters |-> NoTime]]
    /\ dvoReport = {}
    /\ failed = {}
    /\ crashes = 0 /\ rebalances = 0 /\ losses = 0

Msg == log[position + 1]

Of(c) == {row \in dvoReport : row.cluster = c}
Owned(c, o) == {row \in Of(c) : row.org = o}

-----------------------------------------------------------------------------
\* Kafka and the processes.

Produce(m) ==
    /\ Len(log) < MaxMessages
    /\ log' = Append(log, m)
    /\ UNCHANGED <<committed, position, owner, stage, cache, dvoReport,
                   failed, counters>>

CommitOffsets ==
    /\ committed # position
    /\ committed' = position
    /\ UNCHANGED <<log, position, owner, stage, cache, dvoReport, failed, counters>>

\* An orderly rebalance: the session flushes its marks, and the claim moves, between
\* two messages, to a replica with a cache of its own.
Rebalance(r) ==
    /\ rebalances < MaxRebalances
    /\ stage = "idle" /\ owner # r
    /\ owner' = r
    /\ committed' = position
    /\ rebalances' = rebalances + 1
    /\ UNCHANGED <<log, position, stage, cache, dvoReport, failed, crashes, losses>>

\* The group takes the claim away, or the flush of the marks fails: what was marked
\* since the last commit is delivered again, to r or later to another replica.  All
\* processes live on with what they have cached.
LoseSession(r) ==
    /\ losses < MaxLosses
    /\ stage = "idle"
    /\ committed # position
    /\ owner' = r
    /\ position' = committed
    /\ losses' = losses + 1
    /\ UNCHANGED <<log, committed, stage, cache, dvoReport, failed, crashes, rebalances>>

\* The owner dies and comes back with the empty map of
\* NewDVORecommendationsFromConnection: nobody calls Init on this storage.
Crash ==
    /\ crashes < MaxCrashes
    /\ crashes' = crashes + 1
    /\ cache' = [cache EXCEPT ![owner] = [c \in Clusters |-> NoTime]]
    /\ stage' = "idle"
    /\ position' = committed
    /\ UNCHANGED <<log, committed, owner, dvoReport, failed, rebalances, losses>>

-----------------------------------------------------------------------------
\* commonProcessMessage up to storeInDB: empty Metrics are skipped.
StartMessage ==
    /\ stage = "idle"
    /\ position < Len(log)
    /\ \/ Msg.kind = "empty" /\ stage' = "mark"
       \/ /\ Msg.kind # "empty"
          /\ Msg.kind = "unparsable" \/ Msg.org \notin AllowedOrgs
          /\ stage' = "fail"
       \/ Msg.kind = "valid" /\ Msg.org \in AllowedOrgs /\ stage' = "org"
    /\ UNCHANGED <<kafka, cache, dvoReport, failed, counters>>

-----------------------------------------------------------------------------
\* First transaction: updateDVOOrgID; the date is parsed after it.

\* Setting one org_id would give two rows the same primary key.
OrgMoveConflicts(c) ==
    \E a, b \in Of(c) : a.namespace = b.namespace /\ a.org # b.org

\* Mutant: the rows stay with the organization that reported them.
UpdateOrgIDForCluster_Dropped(o, c) == UNCHANGED dvoReport

\* Any row of the cluster may be the one LIMIT 1 returns.
UpdateOrgIDForCluster(o, c) ==
    \/ /\ Of(c) = {} \/ Owned(c, o) # {}
       /\ UNCHANGED dvoReport
    \/ /\ Of(c) \ Owned(c, o) # {}
       /\ ~OrgMoveConflicts(c)
       /\ dvoReport' = (dvoReport \ Of(c)) \union {[row EXCEPT !.org = o] : row \in Of(c)}

\* Mutant: a date that does not parse is not an error.
UpdateOrgID_DateIgnored ==
    /\ stage = "org"
    /\ UpdateOrgIDForCluster(Msg.org, Msg.cluster)
    /\ stage' = "write"
    /\ UNCHANGED <<kafka, cache, failed, counters>>

\* A date that does not parse fails the message after the organization moved.
UpdateOrgID ==
    /\ stage = "org"
    /\ \/ /\ UpdateOrgIDForCluster(Msg.org, Msg.cluster)
          /\ \/ stage' = IF Msg.lastChecked = NoTime THEN "fail" ELSE "write"
             \/ "commit" \in Faults /\ stage' = "fail"
       \/ /\ Faults \intersect {"statement", "commit"} # {} \/ OrgMoveConflicts(Msg.cluster)
          /\ UNCHANGED dvoReport
          /\ stage' = "fail"
    /\ UNCHANGED <<kafka, cache, failed, counters>>

-----------------------------------------------------------------------------
(***************************************************************************)
(* mapWorkloadRecommendations: from recommendations with workloads of all  *)
(* namespaces to namespaces with aggregated numbers, in one pass.  The     *)
(* accumulator holds the function's maps; namespaceMap is its domain, seen *)
(* (the names in it are left out), inRec stands for the keys of            *)
(* objectsPerRecommendation.                                               *)
(***************************************************************************)
NothingMapped ==
    [seen |-> {}, inRec |-> {},
     count |-> [ns \in Namespaces |-> 0],
     objects |-> [ns \in Namespaces |-> {}],
     ruleHits |-> [ns \in Namespaces |-> [r \in WorkloadRules |-> 0]]]

\* updateRuleHitsCountsForNamespace only logs a rule it cannot make an ID for.
CountRuleHit(hits, rule) ==
    IF rule \in WorkloadRules THEN [hits EXCEPT ![rule] = @ + 1] ELSE hits

\* Mutant: a workload that was seen before is not counted for another rule.
MapWorkload_Once(acc, rule, w) ==
    [acc EXCEPT !.seen = @ \union {w.namespace},
                !.inRec = @ \union {w.namespace},
                !.ruleHits[w.namespace] = IF w.uid \in acc.objects[w.namespace]
                                          THEN @ ELSE CountRuleHit(@, rule),
                !.objects[w.namespace] = @ \union {w.uid}]

MapWorkload(acc, rule, w) ==
    [acc EXCEPT !.seen = @ \union {w.namespace},
                !.inRec = @ \union {w.namespace},
                !.ruleHits[w.namespace] = CountRuleHit(@, rule),
                !.objects[w.namespace] = @ \union {w.uid}]

\* One turn of the outer loop: the workloads, then the namespaces they were in.
MapRecommendation(acc, rec) ==
    LET mapped == FoldLeft(LAMBDA a, w : MapWorkload(a, rec.rule, w),
                           [acc EXCEPT !.inRec = {}], rec.workloads)
    IN  [mapped EXCEPT !.count = [ns \in Namespaces |->
             IF ns \in mapped.seen /\ ns \in mapped.inRec THEN @[ns] + 1 ELSE @[ns]]]

MapWorkloadRecommendations(recommendations) ==
    FoldLeft(MapRecommendation, NothingMapped, recommendations)

-----------------------------------------------------------------------------
\* Second transaction: WriteReportForCluster.

OldByCache ==
    LET known == cache[owner][Msg.cluster]
    IN  known # NoTime /\ Msg.lastChecked <= known

\* SELECT ... WHERE org_id = $1 AND cluster_id = $2 AND last_checked_at > $3
NewerInDB ==
    \E row \in Owned(Msg.cluster, Msg.org) : row.lastChecked > Msg.lastChecked

\* Formatted as RFC3339 a timestamp loses the fraction of its second.
RFC3339(t) == t - (t % TicksPerSecond)

\* Mutant: the date of the previous report instead of reported_at.
ReportedAtMap_LastChecked(rows) ==
    [ns \in {row.namespace : row \in rows} |->
        RFC3339((CHOOSE row \in rows : row.namespace = ns).lastChecked)]

\* getReportedAtMap: namespace -> reported_at of its row.
ReportedAtMap(rows) ==
    [ns \in {row.namespace : row \in rows} |->
        RFC3339((CHOOSE row \in rows : row.namespace = ns).reportedAt)]

\* The rows it knows about; its errors are only logged.
LookedUp(rows) == IF "lookup" \in Faults THEN SUBSET rows ELSE {rows}

\* The rows updateReport inserts, one for each namespace.
NamespaceRows(m, reportedAt) ==
    LET mapped == MapWorkloadRecommendations(m.recommendations)
    IN  {[cluster |-> m.cluster, org |-> m.org, namespace |-> ns,
          recommendations |-> mapped.count[ns],
          objects |-> Cardinality(mapped.objects[ns]),
          ruleHits |-> mapped.ruleHits[ns],
          reportedAt |-> IF ns \in DOMAIN reportedAt THEN reportedAt[ns]
                         ELSE m.lastChecked,
          lastChecked |-> m.lastChecked] : ns \in mapped.seen}

\* Mutant: a report without recommendations leaves the table alone.
UpdateReport_SkipEmpty(m) ==
    LET old == Owned(m.cluster, m.org)
    IN  \E known \in LookedUp(old) :
            dvoReport' = IF m.recommendations = <<>> THEN dvoReport
                         ELSE (dvoReport \ old) \union NamespaceRows(m, ReportedAtMap(known))

\* DELETE, then INSERT; nothing is inserted for an empty list.
UpdateReport(m) ==
    LET old == Owned(m.cluster, m.org)
    IN  \E known \in LookedUp(old) :
            dvoReport' = (dvoReport \ old) \union NamespaceRows(m, ReportedAtMap(known))

\* A report that is too old makes writeDVOReport return nil.  The cache is set
\* before COMMIT can fail.
WriteReport ==
    /\ stage = "write"
    /\ \/ /\ OldByCache \/ NewerInDB
          /\ stage' = "mark"
          /\ UNCHANGED <<cache, dvoReport>>
       \/ /\ ~OldByCache /\ ~NewerInDB
          /\ cache' = [cache EXCEPT ![owner][Msg.cluster] = Msg.lastChecked]
          /\ \/ UpdateReport(Msg) /\ stage' = "mark"
             \/ /\ "commit" \in Faults
                /\ UpdateReport(Msg) \/ UNCHANGED dvoReport
                /\ stage' = "fail"
       \/ /\ ~OldByCache
          /\ "statement" \in Faults \/ ("commit" \in Faults /\ NewerInDB)
          /\ stage' = "fail"
          /\ UNCHANGED <<cache, dvoReport>>
    /\ UNCHANGED <<kafka, failed, counters>>

-----------------------------------------------------------------------------
\* The rest of HandleMessage and ConsumeClaim.  This storage has no
\* consumer_error table: sendDeadLetter is all that a failure brings about.  Without
\* a producer it does nothing and an error of the producer is only logged, so that
\* nothing in the program depends on what reaches the topic: it is left out, and
\* failed has the messages that were, or should have been, sent there.

SendDeadLetter ==
    /\ stage = "fail"
    /\ failed' = failed \union {position + 1}
    /\ stage' = "mark"
    /\ UNCHANGED <<kafka, cache, dvoReport, counters>>

MarkMessage ==
    /\ stage = "mark"
    /\ position' = position + 1
    /\ stage' = "idle"
    /\ UNCHANGED <<log, committed, owner, cache, dvoReport, failed, counters>>

-----------------------------------------------------------------------------

HandleStep ==
    \/ StartMessage
    \/ UpdateOrgID
    \/ WriteReport
    \/ SendDeadLetter
    \/ MarkMessage

Next ==
    \/ HandleStep
    \/ CommitOffsets
    \/ \E m \in Messages : Produce(m)
    \/ \E r \in Replicas : Rebalance(r) \/ LoseSession(r)
    \/ Crash

Spec == Init /\ [][Next]_vars
=============================================================================
