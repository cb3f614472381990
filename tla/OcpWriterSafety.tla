--------------------------- MODULE OcpWriterSafety ---------------------------
(***************************************************************************)
(* Proofs that the tables stay consistent for every number of replicas,    *)
(* partitions, clusters, messages, crashes and lost sessions and any set   *)
(* of faults, provided that the messages of a cluster share a partition.   *)
(* The core of it holds with the DELETE endpoints too; what is said of     *)
(* rule_hit needs that they are off.                                       *)
(***************************************************************************)
EXTENDS OcpWriterProofs

-----------------------------------------------------------------------------
\* Two claims never work on the same cluster.
LEMMA OtherCluster ==
    ASSUME KeyedByCluster, TypeOK, LogKeyed,
           NEW p \in Partitions, NEW q \in Partitions, p # q,
           position[p] < Len(log[p]), position[q] < Len(log[q])
    PROVE  Msg(p).cluster # Msg(q).cluster
  <1>1. /\ position[p] + 1 \in 1..Len(log[p]) /\ position[q] + 1 \in 1..Len(log[q])
        /\ Msg(p) \in Message /\ Msg(q) \in Message
    BY MsgType
  <1>2. p \in PartitionsOf[Msg(p).cluster] /\ q \in PartitionsOf[Msg(q).cluster]
    BY <1>1 DEF LogKeyed, Msg
  <1>3. Msg(p).cluster \in Clusters /\ Msg(q).cluster \in Clusters  BY <1>1, MsgFields
  <1> QED  BY <1>2, <1>3 DEF KeyedByCluster

-----------------------------------------------------------------------------
\* The part of CoreInv that is about the tables and the jobs working on them.
CoreTables ==
    /\ DecidingSettled
    /\ NewestWhenWritten
    /\ OneReportPerCluster
    /\ CachedOnceStored
    /\ DecidingHasOneOrg
    /\ RecommendationsMatchStoredReport

\* What WriterInv adds to it: rule_hit rows follow the report.
HitTables ==
    /\ OrgSettled
    /\ RuleHitHasReport
    /\ ClusterHasOneOrg
    /\ RuleHitsMatchReport

\* A step that writes nothing, except that reports may be deleted, and starts no
\* writing job.
LEMMA CoreQuietStep ==
    ASSUME CoreTables,
           report' \subseteq report, UNCHANGED <<recommendation, reportInfo>>,
           \A p \in Partitions : job'[p].stage \in Writing =>
               /\ job'[p].stage = job[p].stage /\ job'[p].stored = job[p].stored
               /\ Msg(p)' = Msg(p)
               /\ cache'[owner'[p]][Msg(p).cluster] = cache[owner[p]][Msg(p).cluster]
    PROVE  CoreTables'
  <1>1. DecidingRows' \subseteq DecidingRows  BY DEF DecidingRows
  <1>2. DecidingSettled'  BY <1>1 DEF CoreTables, DecidingSettled
  <1>3. NewestWhenWritten'  BY DEF CoreTables, NewestWhenWritten, Writing
  <1>4. OneReportPerCluster'  BY DEF CoreTables, OneReportPerCluster
  <1>5. CachedOnceStored'  BY DEF CoreTables, CachedOnceStored, Writing
  <1>6. DecidingHasOneOrg'  BY <1>1 DEF CoreTables, DecidingHasOneOrg
  <1>7. RecommendationsMatchStoredReport'
    BY DEF CoreTables, RecommendationsMatchStoredReport, RulesOf, Of, Writing
  <1> QED  BY <1>2, <1>3, <1>4, <1>5, <1>6, <1>7 DEF CoreTables

\* The same for rule_hit, where it does not matter how far a writing job gets.
LEMMA HitQuietStep ==
    ASSUME HitTables,
           UNCHANGED <<report, ruleHit, recommendation, reportInfo>>,
           \A p \in Partitions : job'[p].stage \in Writing =>
               job[p].stage \in Writing /\ Msg(p)' = Msg(p)
    PROVE  HitTables'
  <1>1. Rows' = Rows  BY DEF Rows
  <1>2. OrgSettled'  BY <1>1 DEF HitTables, OrgSettled
  <1>3. ClusterHasOneOrg'  BY <1>1 DEF HitTables, ClusterHasOneOrg
  <1>4. RuleHitHasReport' /\ RuleHitsMatchReport'
    BY DEF HitTables, RuleHitHasReport, RuleHitsMatchReport, RulesOf, Owned
  <1> QED  BY <1>2, <1>3, <1>4 DEF HitTables

\* The claim p works on the rows of its message's cluster c, and leaves what the
\* other claims rely on alone: it is enough to look at c.
LEMMA CoreClusterStep ==
    ASSUME KeyedByCluster, TypeOK, LogKeyed, CoreTables,
           NEW p \in Partitions, position[p] < Len(log[p]),
           NEW c \in Clusters, c = Msg(p).cluster,
           UNCHANGED kafka,
           \A q \in Partitions \ {p} : job'[q] = job[q],
           \A x : x.cluster # c =>
               /\ x \in report' <=> x \in report
               /\ x \in recommendation' <=> x \in recommendation
               /\ x \in reportInfo' <=> x \in reportInfo,
           \A r \in Replicas : \A d \in Clusters \ {c} : cache'[r][d] = cache[r][d],
           \A x \in DecidingRows' : x.cluster = c => x.org = Msg(p).org,
           job'[p].stage = "apply" =>
               \A x \in report' : x.cluster = c => x.lastChecked <= Msg(p).lastChecked,
           job'[p].stage = "recs" /\ job'[p].stored => cache'[owner[p]][c] # NoTime,
           job'[p].stage = "info" /\ job'[p].stored =>
               RulesOf(Of(recommendation', c)) = Msg(p).hits,
           \A x, y \in report' : x.cluster = c /\ y.cluster = c => x = y
    PROVE  CoreTables'
  <1>1. \A q \in Partitions : Msg(q)' = Msg(q) /\ owner'[q] = owner[q]
    BY DEF Msg, kafka
  <1>2. ASSUME NEW q \in Partitions, q # p, job[q].stage # "idle"
        PROVE  Msg(q).cluster # c /\ Msg(q).cluster \in Clusters
    <2>1. position[q] < Len(log[q])  BY <1>2 DEF TypeOK
    <2>2. Msg(q) \in Message  BY <2>1, MsgType
    <2> QED  BY <1>2, <2>1, <2>2, OtherCluster, MsgFields
  <1>3. \A x : x.cluster # c => (x \in DecidingRows' <=> x \in DecidingRows)
    BY DEF DecidingRows
  <1>4. DecidingSettled'
    <2> SUFFICES ASSUME NEW q \in Partitions, job'[q].stage \in Writing,
                        NEW x \in DecidingRows', x.cluster = Msg(q).cluster
                 PROVE  x.org = Msg(q).org
      BY <1>1 DEF DecidingSettled
    <2>1. CASE q = p  BY <2>1
    <2>2. CASE q # p
      <3>1. job[q].stage \in Writing /\ job[q].stage # "idle"  BY <2>2 DEF Writing
      <3>2. x.cluster # c  BY <2>2, <3>1, <1>2
      <3>3. x \in DecidingRows  BY <3>2, <1>3
      <3> QED  BY <3>1, <3>3 DEF CoreTables, DecidingSettled
    <2> QED  BY <2>1, <2>2
  <1>5. NewestWhenWritten'
    <2> SUFFICES ASSUME NEW q \in Partitions, job'[q].stage = "apply",
                        NEW x \in report', x.cluster = Msg(q).cluster
                 PROVE  x.lastChecked <= Msg(q).lastChecked
      BY <1>1 DEF NewestWhenWritten
    <2>1. CASE q = p  BY <2>1
    <2>2. CASE q # p
      <3>1. job[q].stage = "apply" /\ job[q].stage # "idle"  BY <2>2
      <3>2. x.cluster # c  BY <2>2, <3>1, <1>2
      <3>3. x \in report  BY <3>2
      <3> QED  BY <3>1, <3>3 DEF CoreTables, NewestWhenWritten
    <2> QED  BY <2>1, <2>2
  <1>6. OneReportPerCluster'
    <2> SUFFICES ASSUME NEW x \in report', NEW y \in report', x.cluster = y.cluster
                 PROVE  x = y
      BY DEF OneReportPerCluster
    <2>1. CASE x.cluster = c  BY <2>1
    <2>2. CASE x.cluster # c  BY <2>2 DEF CoreTables, OneReportPerCluster
    <2> QED  BY <2>1, <2>2
  <1>7. CachedOnceStored'
    <2> SUFFICES ASSUME NEW q \in Partitions, job'[q].stage = "recs", job'[q].stored
                 PROVE  cache'[owner[q]][Msg(q).cluster] # NoTime
      BY <1>1 DEF CachedOnceStored
    <2>1. CASE q = p  BY <2>1
    <2>2. CASE q # p
      <3>1. job[q].stage = "recs" /\ job[q].stored /\ job[q].stage # "idle"  BY <2>2
      <3>2. Msg(q).cluster \in Clusters \ {c} /\ owner[q] \in Replicas
        BY <2>2, <3>1, <1>2 DEF TypeOK
      <3> QED  BY <3>1, <3>2 DEF CoreTables, CachedOnceStored
    <2> QED  BY <2>1, <2>2
  <1>8. DecidingHasOneOrg'
    <2> SUFFICES ASSUME NEW x \in DecidingRows', NEW y \in DecidingRows', x.cluster = y.cluster
                 PROVE  x.org = y.org
      BY DEF DecidingHasOneOrg
    <2>1. CASE x.cluster = c  BY <2>1
    <2>2. CASE x.cluster # c  BY <2>2, <1>3 DEF CoreTables, DecidingHasOneOrg
    <2> QED  BY <2>1, <2>2
  <1>9. RecommendationsMatchStoredReport'
    <2> SUFFICES ASSUME NEW q \in Partitions, job'[q].stage = "info", job'[q].stored
                 PROVE  RulesOf(Of(recommendation', Msg(q).cluster)) = Msg(q).hits
      BY <1>1 DEF RecommendationsMatchStoredReport, RulesOf, Of
    <2>1. CASE q = p  BY <2>1
    <2>2. CASE q # p
      <3>1. job[q].stage = "info" /\ job[q].stored /\ job[q].stage # "idle"  BY <2>2
      <3>2. Msg(q).cluster # c  BY <2>2, <3>1, <1>2
      <3>3. Of(recommendation', Msg(q).cluster) = Of(recommendation, Msg(q).cluster)
        BY <3>2 DEF Of
      <3> QED  BY <3>1, <3>3 DEF CoreTables, RecommendationsMatchStoredReport
    <2> QED  BY <2>1, <2>2
  <1> QED  BY <1>4, <1>5, <1>6, <1>7, <1>8, <1>9 DEF CoreTables

\* The same for rule_hit.
LEMMA HitClusterStep ==
    ASSUME KeyedByCluster, TypeOK, LogKeyed, HitTables,
           NEW p \in Partitions, position[p] < Len(log[p]),
           NEW c \in Clusters, c = Msg(p).cluster,
           UNCHANGED kafka,
           \A q \in Partitions \ {p} : job'[q] = job[q],
           \A x : x.cluster # c =>
               /\ x \in report' <=> x \in report
               /\ x \in ruleHit' <=> x \in ruleHit
               /\ x \in recommendation' <=> x \in recommendation
               /\ x \in reportInfo' <=> x \in reportInfo,
           \A x \in Rows' : x.cluster = c => x.org = Msg(p).org,
           \A x \in ruleHit' : x.cluster = c => \E y \in report' : y.cluster = c,
           \A x \in report' : x.cluster = c => RulesOf(Owned(ruleHit', c, x.org)) = x.hits
    PROVE  HitTables'
  <1>1. \A q \in Partitions : Msg(q)' = Msg(q)  BY DEF Msg, kafka
  <1>2. \A x : x.cluster # c => (x \in Rows' <=> x \in Rows)  BY DEF Rows
  <1>3. OrgSettled'
    <2> SUFFICES ASSUME NEW q \in Partitions, job'[q].stage \in Writing,
                        NEW x \in Rows', x.cluster = Msg(q).cluster
                 PROVE  x.org = Msg(q).org
      BY <1>1 DEF OrgSettled
    <2>1. CASE q = p  BY <2>1
    <2>2. CASE q # p
      <3>1. job[q].stage \in Writing /\ position[q] < Len(log[q])
        BY <2>2 DEF Writing, TypeOK
      <3>2. x.cluster # c  BY <2>2, <3>1, OtherCluster
      <3>3. x \in Rows  BY <3>2, <1>2
      <3> QED  BY <3>1, <3>3 DEF HitTables, OrgSettled
    <2> QED  BY <2>1, <2>2
  <1>4. RuleHitHasReport'
    <2> SUFFICES ASSUME NEW x \in ruleHit'
                 PROVE  \E y \in report' : y.cluster = x.cluster
      BY DEF RuleHitHasReport
    <2>1. CASE x.cluster = c  BY <2>1
    <2>2. CASE x.cluster # c
      <3>1. x \in ruleHit  BY <2>2
      <3>2. PICK y \in report : y.cluster = x.cluster
        BY <3>1 DEF HitTables, RuleHitHasReport
      <3> QED  BY <2>2, <3>2
    <2> QED  BY <2>1, <2>2
  <1>5. ClusterHasOneOrg'
    <2> SUFFICES ASSUME NEW x \in Rows', NEW y \in Rows', x.cluster = y.cluster
                 PROVE  x.org = y.org
      BY DEF ClusterHasOneOrg
    <2>1. CASE x.cluster = c  BY <2>1
    <2>2. CASE x.cluster # c  BY <2>2, <1>2 DEF HitTables, ClusterHasOneOrg
    <2> QED  BY <2>1, <2>2
  <1>6. RuleHitsMatchReport'
    <2> SUFFICES ASSUME NEW x \in report'
                 PROVE  RulesOf(Owned(ruleHit', x.cluster, x.org)) = x.hits
      BY DEF RuleHitsMatchReport, RulesOf, Owned
    <2>1. CASE x.cluster = c  BY <2>1
    <2>2. CASE x.cluster # c
      <3>1. Owned(ruleHit', x.cluster, x.org) = Owned(ruleHit, x.cluster, x.org)
        BY <2>2 DEF Owned
      <3>2. x \in report  BY <2>2
      <3> QED  BY <3>1, <3>2 DEF HitTables, RuleHitsMatchReport
    <2> QED  BY <2>1, <2>2
  <1> QED  BY <1>3, <1>4, <1>5, <1>6 DEF HitTables

-----------------------------------------------------------------------------
\* The first transaction leaves the rows that it decides by with the organization
\* of the message.
LEMMA CoreOrgMoved ==
    ASSUME TypeOK, CoreTables, NEW c \in Clusters, NEW o \in Orgs,
           UpdateOrgIDForCluster(o, c)
    PROVE  /\ \A x : x.cluster # c =>
                  /\ x \in report' <=> x \in report
                  /\ x \in recommendation' <=> x \in recommendation
                  /\ x \in reportInfo' <=> x \in reportInfo
           /\ \A x \in DecidingRows' : x.cluster = c => x.org = o
           /\ \A x, y \in report' : x.cluster = c /\ y.cluster = c => x = y
  <1>1. CASE UNCHANGED tables /\ (CurrentOrgs(c) = {} \/ o \in CurrentOrgs(c))
    <2>1. /\ report' = report /\ recommendation' = recommendation /\ reportInfo' = reportInfo
          /\ DecidingRows' = DecidingRows
      BY <1>1 DEF tables, DecidingRows
    <2>2. \A x \in DecidingRows : x.cluster = c => x.org = o
      <3>1. CASE CurrentOrgs(c) = {}
        <4>1. Of(report, c) = {} /\ Of(recommendation, c) = {} /\ Of(reportInfo, c) = {}
          BY <3>1 DEF CurrentOrgs
        <4> QED  BY <4>1 DEF DecidingRows, Of
      <3>2. CASE o \in CurrentOrgs(c)
        <4>1. PICK y \in DecidingRows : y.cluster = c /\ y.org = o
          BY <3>2 DEF CurrentOrgs, Of, DecidingRows
        <4> QED  BY <4>1 DEF CoreTables, DecidingHasOneOrg
      <3> QED  BY <3>1, <3>2, <1>1
    <2> QED  BY <2>1, <2>2 DEF CoreTables, OneReportPerCluster
  <1>2. CASE /\ report' = SetOrg(report, c, o)
             /\ recommendation' = SetOrg(recommendation, c, o)
             /\ reportInfo' = SetOrg(reportInfo, c, o)
    <2>1. /\ report \in SUBSET ReportRow
          /\ recommendation \in SUBSET RecommendationRow
          /\ reportInfo \in SUBSET ReportInfoRow
      BY DEF TypeOK
    <2>2. /\ \A x : x.cluster # c => (x \in report' <=> x \in report)
          /\ \A x \in report' : x.cluster = c => x.org = o
          /\ \A x, y \in report' : x.cluster = c /\ y.cluster = c => x = y
      BY <1>2, <2>1 DEF SetOrg, ReportRow, CoreTables, OneReportPerCluster
    <2>3. /\ \A x : x.cluster # c => (x \in recommendation' <=> x \in recommendation)
          /\ \A x \in recommendation' : x.cluster = c => x.org = o
      BY <1>2, <2>1 DEF SetOrg, RecommendationRow
    <2>4. /\ \A x : x.cluster # c => (x \in reportInfo' <=> x \in reportInfo)
          /\ \A x \in reportInfo' : x.cluster = c => x.org = o
      BY <1>2, <2>1 DEF SetOrg, ReportInfoRow
    <2>5. \A x \in DecidingRows' : x.cluster = c => x.org = o
      BY <2>2, <2>3, <2>4 DEF DecidingRows
    <2> QED  BY <2>2, <2>3, <2>4, <2>5
  <1> QED  BY <1>1, <1>2 DEF UpdateOrgIDForCluster

\* If the rule hits of a cluster have a report, it leaves every row of the cluster with
\* the organization of the message: those it looked at and those it did not.
LEMMA OrgMoved ==
    ASSUME TypeOK, HitTables, NEW c \in Clusters, NEW o \in Orgs,
           UpdateOrgIDForCluster(o, c)
    PROVE  /\ \A x : x.cluster # c =>
                  /\ x \in report' <=> x \in report
                  /\ x \in ruleHit' <=> x \in ruleHit
                  /\ x \in recommendation' <=> x \in recommendation
                  /\ x \in reportInfo' <=> x \in reportInfo
           /\ \A x \in Rows' : x.cluster = c => x.org = o
           /\ \A x \in ruleHit' : x.cluster = c => \E y \in report' : y.cluster = c
           /\ \A x \in report' : x.cluster = c => RulesOf(Owned(ruleHit', c, x.org)) = x.hits
  <1>1. CASE UNCHANGED tables /\ (CurrentOrgs(c) = {} \/ o \in CurrentOrgs(c))
    <2>1. /\ report' = report /\ ruleHit' = ruleHit
          /\ recommendation' = recommendation /\ reportInfo' = reportInfo
          /\ Rows' = Rows
      BY <1>1 DEF tables, Rows
    <2>2. \A x \in Rows : x.cluster = c => x.org = o
      <3>1. CASE CurrentOrgs(c) = {}
        <4>1. Of(report, c) = {} /\ Of(recommendation, c) = {} /\ Of(reportInfo, c) = {}
          BY <3>1 DEF CurrentOrgs
        <4>2. \A x \in ruleHit : x.cluster # c
          BY <4>1 DEF HitTables, RuleHitHasReport, Of
        <4> QED  BY <4>1, <4>2 DEF Rows, Of
      <3>2. CASE o \in CurrentOrgs(c)
        <4>1. PICK y \in Rows : y.cluster = c /\ y.org = o
          BY <3>2 DEF CurrentOrgs, Of, Rows
        <4> QED  BY <4>1 DEF HitTables, ClusterHasOneOrg
      <3> QED  BY <3>1, <3>2, <1>1
    <2> QED
      BY <2>1, <2>2 DEF HitTables, RuleHitHasReport, RuleHitsMatchReport
  <1>2. CASE /\ report' = SetOrg(report, c, o)
             /\ recommendation' = SetOrg(recommendation, c, o)
             /\ reportInfo' = SetOrg(reportInfo, c, o)
             /\ ruleHit' = SetOrg(ruleHit, c, o)
    <2>1. /\ report \in SUBSET ReportRow /\ ruleHit \in SUBSET RuleHitRow
          /\ recommendation \in SUBSET RecommendationRow
          /\ reportInfo \in SUBSET ReportInfoRow
      BY DEF TypeOK
    <2>a. \A x \in report' : \E y \in report :
              /\ x.cluster = y.cluster /\ x.hits = y.hits
              /\ x.org = (IF y.cluster = c THEN o ELSE y.org)
      BY <1>2, <2>1 DEF SetOrg, ReportRow
    <2>b. \A x \in ruleHit' : \E y \in ruleHit :
              /\ x.cluster = y.cluster /\ x.rule = y.rule
              /\ x.org = (IF y.cluster = c THEN o ELSE y.org)
      BY <1>2, <2>1 DEF SetOrg, RuleHitRow
    <2>c. \A x \in recommendation' : \E y \in recommendation :
              x.cluster = y.cluster /\ x.org = (IF y.cluster = c THEN o ELSE y.org)
      BY <1>2, <2>1 DEF SetOrg, RecommendationRow
    <2>d. \A x \in reportInfo' : \E y \in reportInfo :
              x.cluster = y.cluster /\ x.org = (IF y.cluster = c THEN o ELSE y.org)
      BY <1>2, <2>1 DEF SetOrg, ReportInfoRow
    <2>e. ASSUME NEW y \in report, y.cluster = c
          PROVE  \E x \in report' : x.cluster = c
      <3>1. [y EXCEPT !.org = o] \in report'  BY <1>2, <2>e DEF SetOrg
      <3>2. [y EXCEPT !.org = o].cluster = c  BY <2>1, <2>e DEF ReportRow
      <3> QED  BY <3>1, <3>2
    <2>f. ASSUME NEW y \in ruleHit, y.cluster = c
          PROVE  \E x \in ruleHit' : x.cluster = c /\ x.rule = y.rule /\ x.org = o
      <3>1. [y EXCEPT !.org = o] \in ruleHit'  BY <1>2, <2>f DEF SetOrg
      <3>2. /\ [y EXCEPT !.org = o].cluster = c /\ [y EXCEPT !.org = o].rule = y.rule
            /\ [y EXCEPT !.org = o].org = o
        BY <2>1, <2>f DEF RuleHitRow
      <3> QED  BY <3>1, <3>2
    <2>2. \A x : x.cluster # c => (x \in report' <=> x \in report)
      BY <1>2, <2>1 DEF SetOrg, ReportRow
    <2>3. \A x : x.cluster # c => (x \in ruleHit' <=> x \in ruleHit)
      BY <1>2, <2>1 DEF SetOrg, RuleHitRow
    <2>4. \A x : x.cluster # c => (x \in recommendation' <=> x \in recommendation)
      BY <1>2, <2>1 DEF SetOrg, RecommendationRow
    <2>5. \A x : x.cluster # c => (x \in reportInfo' <=> x \in reportInfo)
      BY <1>2, <2>1 DEF SetOrg, ReportInfoRow
    <2>6. \A x \in Rows' : x.cluster = c => x.org = o
      BY <2>a, <2>b, <2>c, <2>d DEF Rows
    <2>7. \A x \in ruleHit' : x.cluster = c => \E y \in report' : y.cluster = c
      <3> SUFFICES ASSUME NEW x \in ruleHit', x.cluster = c
                   PROVE  \E y \in report' : y.cluster = c
        OBVIOUS
      <3>1. PICK z \in ruleHit : z.cluster = c  BY <2>b
      <3>2. PICK y \in report : y.cluster = c
        BY <3>1 DEF HitTables, RuleHitHasReport
      <3> QED  BY <3>2, <2>e
    <2>8. ASSUME NEW x \in report', x.cluster = c
          PROVE  RulesOf(Owned(ruleHit', c, x.org)) = x.hits
      <3>1. PICK y \in report : y.cluster = c /\ y.hits = x.hits /\ x.org = o
        BY <2>8, <2>a
      <3>2. RulesOf(Owned(ruleHit, c, y.org)) = y.hits
        BY <3>1 DEF HitTables, RuleHitsMatchReport
      <3>3. \A z \in ruleHit : z.cluster = c => z.org = y.org
        BY <3>1 DEF HitTables, ClusterHasOneOrg, Rows
      <3>4. ASSUME NEW r
            PROVE  (\E z \in ruleHit' : z.cluster = c /\ z.org = o /\ z.rule = r)
                   <=> (\E z \in ruleHit : z.cluster = c /\ z.org = y.org /\ z.rule = r)
        <4>1. \A z \in ruleHit' : z.cluster = c =>
                  \E w \in ruleHit : w.cluster = c /\ w.rule = z.rule
          BY <2>b
        <4>2. \A w \in ruleHit : w.cluster = c =>
                  \E z \in ruleHit' : z.cluster = c /\ z.rule = w.rule /\ z.org = o
          BY <2>f
        <4> QED  BY <4>1, <4>2, <3>3
      <3>5. RulesOf(Owned(ruleHit', c, o)) = RulesOf(Owned(ruleHit, c, y.org))
        BY <3>4 DEF RulesOf, Owned
      <3> QED  BY <3>1, <3>2, <3>5
    <2> QED  BY <2>2, <2>3, <2>4, <2>5, <2>6, <2>7, <2>8
  <1> QED  BY <1>1, <1>2 DEF UpdateOrgIDForCluster

\* The rules of the rows that updateReport and insertRecommendations insert are the
\* rules of the report, whatever the look-up found.
LEMMA InsertedRules ==
    ASSUME NEW m, NEW known, NEW at
    PROVE  /\ RulesOf(RuleHitRows(m, known)) = m.hits
           /\ \A x \in RuleHitRows(m, known) : x.cluster = m.cluster /\ x.org = m.org
           /\ RulesOf(RecommendationRows(m, known, at)) = m.hits
           /\ \A x \in RecommendationRows(m, known, at) :
                  x.cluster = m.cluster /\ x.org = m.org
  <1> DEFINE hit(k) == [cluster |-> m.cluster, org |-> m.org,
                        rule |-> k.rule, createdAt |-> k.since]
             rec(k) == [cluster |-> m.cluster, org |-> m.org, rule |-> k.rule,
                        createdAt |-> at, impactedSince |-> k.since]
  <1>1. \A k : /\ hit(k).rule = k.rule /\ hit(k).cluster = m.cluster /\ hit(k).org = m.org
               /\ rec(k).rule = k.rule /\ rec(k).cluster = m.cluster /\ rec(k).org = m.org
    OBVIOUS
  <1>2. /\ RuleHitRows(m, known) = {hit(k) : k \in HitsSince(m.hits, known, now)}
        /\ RecommendationRows(m, known, at) = {rec(k) : k \in HitsSince(m.hits, known, at)}
    BY DEF RuleHitRows, RecommendationRows
  <1> HIDE DEF hit, rec
  <1>3. /\ {k.rule : k \in HitsSince(m.hits, known, now)} = m.hits
        /\ {k.rule : k \in HitsSince(m.hits, known, at)} = m.hits
    BY HitsSinceType DEF RulesOf
  <1>4. ASSUME NEW r
        PROVE  /\ r \in RulesOf(RuleHitRows(m, known)) <=> r \in m.hits
               /\ r \in RulesOf(RecommendationRows(m, known, at)) <=> r \in m.hits
    <2>1. /\ r \in m.hits <=> \E k \in HitsSince(m.hits, known, now) : k.rule = r
          /\ r \in m.hits <=> \E k \in HitsSince(m.hits, known, at) : k.rule = r
      BY <1>3
    <2>2. r \in RulesOf(RuleHitRows(m, known))
              <=> \E k \in HitsSince(m.hits, known, now) : k.rule = r
      BY <1>1, <1>2 DEF RulesOf
    <2>3. r \in RulesOf(RecommendationRows(m, known, at))
              <=> \E k \in HitsSince(m.hits, known, at) : k.rule = r
      BY <1>1, <1>2 DEF RulesOf
    <2> QED  BY <2>1, <2>2, <2>3
  <1>5. RulesOf(RuleHitRows(m, known)) = m.hits  BY <1>4
  <1>6. RulesOf(RecommendationRows(m, known, at)) = m.hits  BY <1>4
  <1> QED  BY <1>1, <1>2, <1>5, <1>6

\* The second transaction leaves the cluster with the report of the message and
\* with its rule hits, provided that all rows it finds belong to the organization.
LEMMA ReportWritten ==
    ASSUME NEW m \in Message, NEW known, WriteTables(m, known),
           \A x \in Rows : x.cluster = m.cluster => x.org = m.org
    PROVE  /\ \A x : x.cluster # m.cluster =>
                  /\ x \in report' <=> x \in report
                  /\ x \in ruleHit' <=> x \in ruleHit
                  /\ x \in recommendation' <=> x \in recommendation
                  /\ x \in reportInfo' <=> x \in reportInfo
           /\ \A x \in Rows' : x.cluster = m.cluster => x.org = m.org
           /\ \A x \in report' : x.cluster = m.cluster => x = ReportRowOf(m)
           /\ ReportRowOf(m) \in report' /\ ReportRowOf(m).cluster = m.cluster
           /\ ReportRowOf(m).lastChecked = m.lastChecked
           /\ RulesOf(Owned(ruleHit', m.cluster, m.org)) = ReportRowOf(m).hits
           /\ \A x : x.cluster = m.cluster => (x \in ruleHit' <=> x \in RuleHitRows(m, known))
  <1> DEFINE old == Owned(ruleHit, m.cluster, m.org)
  <1>1. ruleHit' = (ruleHit \ old) \union RuleHitRows(m, known)  BY DEF WriteTables
  <1>2. /\ report' = (report \ Of(report, m.cluster)) \union {ReportRowOf(m)}
        /\ UNCHANGED <<recommendation, reportInfo>>
    BY DEF WriteTables
  <1>4. /\ RulesOf(RuleHitRows(m, known)) = m.hits
        /\ \A x \in RuleHitRows(m, known) : x.cluster = m.cluster /\ x.org = m.org
    BY InsertedRules
  <1>5. /\ ReportRowOf(m).cluster = m.cluster /\ ReportRowOf(m).org = m.org
        /\ ReportRowOf(m).hits = m.hits /\ ReportRowOf(m).lastChecked = m.lastChecked
    BY DEF ReportRowOf
  <1>6. \A x \in ruleHit : x.cluster = m.cluster => x \in old
    BY DEF Rows, Owned
  <1>7. \A x : x.cluster = m.cluster => (x \in ruleHit' <=> x \in RuleHitRows(m, known))
    BY <1>1, <1>6
  <1>8. Owned(ruleHit', m.cluster, m.org) = RuleHitRows(m, known)
    BY <1>4, <1>7 DEF Owned
  <1>9. \A x : x.cluster # m.cluster =>
            (x \in ruleHit' <=> x \in ruleHit) /\ (x \in report' <=> x \in report)
    BY <1>1, <1>2, <1>4, <1>5 DEF Owned, Of
  <1>10. \A x \in report' : x.cluster = m.cluster => x = ReportRowOf(m)
    BY <1>2 DEF Of
  <1>11. \A x \in Rows' : x.cluster = m.cluster => x.org = m.org
    BY <1>2, <1>4, <1>5, <1>7, <1>10 DEF Rows
  <1> QED  BY <1>2, <1>4, <1>5, <1>7, <1>8, <1>9, <1>10, <1>11

\* The third transaction touches the cluster's recommendations only; if it deletes
\* the old ones it leaves exactly those of the message.
LEMMA RecommendationsWritten ==
    ASSUME NEW m, NEW known, NEW at, NEW gone \in SUBSET Owned(recommendation, m.cluster, m.org),
           SetRecommendations((recommendation \ gone) \union RecommendationRows(m, known, at)),
           \A x \in recommendation : x.cluster = m.cluster => x.org = m.org
    PROVE  /\ UNCHANGED <<report, ruleHit, reportInfo>>
           /\ \A x : x.cluster # m.cluster => (x \in recommendation' <=> x \in recommendation)
           /\ \A x \in recommendation' : x.cluster = m.cluster => x.org = m.org
           /\ gone = Owned(recommendation, m.cluster, m.org) =>
                  /\ Of(recommendation', m.cluster) = RecommendationRows(m, known, at)
                  /\ RulesOf(Of(recommendation', m.cluster)) = m.hits
  <1> DEFINE old == Owned(recommendation, m.cluster, m.org)
             new == RecommendationRows(m, known, at)
  <1>1. /\ \A x \in gone : x.cluster = m.cluster
        /\ \A x \in recommendation : x.cluster = m.cluster => x \in old
    BY DEF Owned
  <1>2. /\ recommendation' = (recommendation \ gone) \union new
        /\ UNCHANGED <<report, ruleHit, reportInfo>>
    BY DEF SetRecommendations
  <1>3. RulesOf(new) = m.hits /\ \A x \in new : x.cluster = m.cluster /\ x.org = m.org
    BY InsertedRules
  <1> HIDE DEF old, new
  <1>4. /\ \A x : x.cluster # m.cluster => (x \in recommendation' <=> x \in recommendation)
        /\ \A x \in recommendation' : x.cluster = m.cluster => x.org = m.org
    BY <1>1, <1>2, <1>3
  <1>5. ASSUME gone = old PROVE Of(recommendation', m.cluster) = new
    BY <1>1, <1>2, <1>3, <1>5 DEF Of
  <1> QED  BY <1>2, <1>3, <1>4, <1>5 DEF old, new

\* Which of the two forms it takes depends on the cache.
LEMMA RecommendationSteps ==
    ASSUME TypeOK, NEW p \in Partitions, ReplaceRecommendations(p) \/ AddRecommendations(p)
    PROVE  /\ job[p].stage \in {"recs", "replace"} /\ UNCHANGED <<kafka, cache, sinks, env>>
           /\ \/ UNCHANGED tables /\ GoTo(p, "fail")
              \/ /\ \E s \in {"info", "fail"} : GoTo(p, s)
                 /\ \E known \in SUBSET HitDate, gone \in SUBSET Recommended(p) :
                     /\ SetRecommendations((recommendation \ gone)
                            \union RecommendationRows(Msg(p), known, job[p].storedAt))
                     /\ \/ /\ job[p].stage = "replace" /\ known = job[p].known
                           /\ gone = Recommended(p)
                        \/ /\ job[p].stage = "recs" /\ known = {} /\ gone = {}
                           /\ cache[owner[p]][Msg(p).cluster] = NoTime
                           /\ RulesOf(Recommended(p)) \intersect Msg(p).hits = {}
  <1>1. job[p].known \in SUBSET HitDate /\ {} \in SUBSET HitDate  BY DEF TypeOK, Job
  <1>2. recommendation \ {} = recommendation  OBVIOUS
  <1>3. CASE ReplaceRecommendations(p)
    BY <1>1, <1>3 DEF ReplaceRecommendations
  <1>4. CASE AddRecommendations(p)
    <2>1. /\ job[p].stage = "recs" /\ cache[owner[p]][Msg(p).cluster] = NoTime
          /\ UNCHANGED <<kafka, cache, sinks, env>>
      BY <1>4 DEF AddRecommendations
    <2>2. \/ UNCHANGED tables /\ GoTo(p, "fail")
          \/ /\ RulesOf(Recommended(p)) \intersect Msg(p).hits = {}
             /\ SetRecommendations(recommendation
                    \union RecommendationRows(Msg(p), {}, job[p].storedAt))
             /\ \E s \in {"info", "fail"} : GoTo(p, s)
      BY <1>4 DEF AddRecommendations
    <2> QED  BY <1>1, <1>2, <2>1, <2>2
  <1> QED  BY <1>3, <1>4

\* The last transaction touches the cluster's report_info only.
LEMMA InfoWritten ==
    ASSUME NEW m, UpsertInfo(m),
           \A x \in reportInfo : x.cluster = m.cluster => x.org = m.org
    PROVE  /\ UNCHANGED <<report, ruleHit, recommendation>>
           /\ \A x : x.cluster # m.cluster => (x \in reportInfo' <=> x \in reportInfo)
           /\ \A x \in reportInfo' : x.cluster = m.cluster => x.org = m.org
  <1> DEFINE c == m.cluster
             new == [cluster |-> c, org |-> m.org, version |-> m.version]
  <1>1. /\ UNCHANGED <<report, ruleHit, recommendation>>
        /\ \/ reportInfo' = reportInfo
           \/ reportInfo' = (reportInfo \ Of(reportInfo, c)) \union {new}
    BY DEF UpsertInfo
  <1>2. new.cluster = c /\ new.org = m.org  OBVIOUS
  <1> HIDE DEF new
  <1> QED  BY <1>1, <1>2 DEF Of

-----------------------------------------------------------------------------
\* A claim that is not idle works on a message.
LEMMA Working ==
    ASSUME TypeOK, NEW p \in Partitions, job[p].stage # "idle"
    PROVE  /\ position[p] < Len(log[p]) /\ Msg(p) \in Message
           /\ Msg(p).cluster \in Clusters /\ Msg(p).org \in Orgs
  <1>1. position[p] < Len(log[p])  BY DEF TypeOK
  <1>2. Msg(p) \in Message  BY <1>1, MsgType
  <1> QED  BY <1>1, <1>2, MsgFields

\* A claim's goroutine works on its own claim only.
LEMMA OtherClaims ==
    ASSUME TypeOK, NEW q \in Partitions, HandleStep(q), NEW p \in Partitions, p # q
    PROVE  job'[p] = job[p] /\ position'[p] = position[p] /\ UNCHANGED <<log, committed, owner>>
  <1>1. ASSUME NEW s, GoTo(q, s) PROVE job'[p] = job[p]  BY <1>1 DEF GoTo, TypeOK
  <1>2. CASE StartMessage(q) \/ UpdateOrgID(q) \/ WriteInfo(q) \/ WriteConsumerError(q)
                 \/ SendDeadLetter(q)
    BY <1>1, <1>2
       DEF StartMessage, UpdateOrgID, WriteInfo, WriteConsumerError, SendDeadLetter, kafka
  <1>3. CASE CheckReport(q)  BY <1>3, CheckReportJob DEF CheckReport, kafka
  <1>4. CASE UpdateReport(q)  BY <1>4, UpdateReportJob DEF UpdateReport, kafka
  <1>5. CASE LookUpRecommendations(q)  BY <1>5, LookUpJob DEF LookUpRecommendations, kafka
  <1>6. CASE ReplaceRecommendations(q) \/ AddRecommendations(q)
    BY <1>1, <1>6 DEF ReplaceRecommendations, AddRecommendations, kafka
  <1>7. CASE MarkMessage(q)  BY <1>7 DEF MarkMessage, TypeOK
  <1> QED  BY <1>2, <1>3, <1>4, <1>5, <1>6, <1>7 DEF HandleStep

\* A crash or a lost session sends claims back to the committed offset; nothing else
\* moves an offset but MarkMessage.
LEMMA ClaimSteps ==
    ASSUME TypeOK, [Next]_vars, NEW p \in Partitions
    PROVE  \/ HandleStep(p)
           \/ /\ job'[p] = job[p] /\ position'[p] = position[p]
              /\ job[p].stage # "idle" => owner'[p] = owner[p]
           \/ job'[p].stage = "idle" /\ position'[p] = committed[p]
  <1>1. ASSUME NEW q \in Partitions, HandleStep(q), p # q
        PROVE  job'[p] = job[p] /\ position'[p] = position[p] /\ owner'[p] = owner[p]
    BY <1>1, OtherClaims
  <1>2. ASSUME NEW q \in Partitions, NEW r \in Replicas, LoseSession(q, r)
        PROVE  \/ job'[p] = job[p] /\ position'[p] = position[p] /\ owner'[p] = owner[p]
               \/ job'[p].stage = "idle" /\ position'[p] = committed[p]
    BY <1>2 DEF LoseSession, TypeOK
  <1>3. ASSUME NEW r \in Replicas, Crash(r)
        PROVE  \/ job'[p] = job[p] /\ position'[p] = position[p] /\ owner'[p] = owner[p]
               \/ job'[p].stage = "idle" /\ position'[p] = committed[p]
    BY <1>3 DEF Crash, Idle
  <1>4. ASSUME NEW q \in Partitions, NEW r \in Replicas, Rebalance(q, r)
        PROVE  /\ job'[p] = job[p] /\ position'[p] = position[p]
               /\ job[p].stage # "idle" => owner'[p] = owner[p]
    BY <1>4 DEF Rebalance, TypeOK
  <1> QED
    BY <1>1, <1>2, <1>3, <1>4 DEF Next, vars, kafka, CommitOffsets, Produce, Tick, CheckRequest,
       ServeRequest, DeleteReportsForOrg, DeleteReportsForCluster

\* The other steps than those of updateOrgID and the transactions leave the tables
\* alone, except that reports may be deleted, and a claim that is writing after them
\* is as it was before.
LEMMA QuietSteps ==
    ASSUME TypeInv, Next
    PROVE  \/ \E p \in Partitions :
                  \/ UpdateOrgID(p) \/ CheckReport(p) \/ UpdateReport(p)
                  \/ LookUpRecommendations(p) \/ ReplaceRecommendations(p)
                  \/ AddRecommendations(p) \/ WriteInfo(p)
           \/ /\ report' \subseteq report /\ (~Debug => report' = report)
              /\ UNCHANGED <<ruleHit, recommendation, reportInfo>>
              /\ \A p \in Partitions : job'[p].stage \in Writing =>
                     /\ job'[p] = job[p] /\ Msg(p)' = Msg(p)
                     /\ owner'[p] = owner[p] /\ cache'[owner[p]] = cache[owner[p]]
  <1> USE DEF TypeInv
  <1> DEFINE Kept(p) == /\ job'[p] = job[p] /\ Msg(p)' = Msg(p)
                        /\ owner'[p] = owner[p] /\ cache'[owner[p]] = cache[owner[p]]
             Quiet == /\ report' = report
                      /\ UNCHANGED <<ruleHit, recommendation, reportInfo>>
                      /\ \A p \in Partitions : job'[p].stage \in Writing => Kept(p)
             QuietOrDeleted == /\ report' \subseteq report /\ (~Debug => report' = report)
                               /\ UNCHANGED <<ruleHit, recommendation, reportInfo>>
                               /\ \A p \in Partitions : job'[p].stage \in Writing => Kept(p)
  <1>s. "idle" \notin Writing /\ {"mark", "fail", "org", "deadLetter"} \subseteq Stages \ Writing
    BY DEF Stages, Writing
  <1>1. ASSUME NEW p \in Partitions, NEW s \in Stages \ Writing, GoTo(p, s),
               UNCHANGED <<kafka, cache, tables>>
        PROVE  Quiet
    <2>1. job'[p].stage = s /\ \A q \in Partitions \ {p} : job'[q] = job[q]
      BY <1>1, GoToType
    <2>2. \A q \in Partitions : Msg(q)' = Msg(q) /\ owner'[q] = owner[q]
      BY <1>1 DEF Msg, kafka
    <2> QED  BY <1>1, <2>1, <2>2 DEF tables
  <1>2. ASSUME NEW p \in Partitions,
               StartMessage(p) \/ WriteConsumerError(p) \/ SendDeadLetter(p)
        PROVE  Quiet
    BY <1>1, <1>2, <1>s DEF StartMessage, WriteConsumerError, SendDeadLetter
  <1>3. ASSUME NEW p \in Partitions, MarkMessage(p) PROVE Quiet
    <2>1. /\ job'[p].stage = "idle"
          /\ \A q \in Partitions \ {p} : job'[q] = job[q] /\ position'[q] = position[q]
      BY <1>3 DEF MarkMessage, TypeOK, Idle
    <2>2. UNCHANGED <<log, owner, cache, report, ruleHit, recommendation, reportInfo>>
      BY <1>3 DEF MarkMessage, tables
    <2>3. \A q \in Partitions \ {p} : Msg(q)' = Msg(q)  BY <2>1, <2>2 DEF Msg
    <2> QED  BY <2>1, <2>2, <2>3, <1>s
  <1>4. ASSUME NEW p \in Partitions, CommitOffsets(p) PROVE Quiet
    <2>1. UNCHANGED <<log, position, owner, job, cache, tables>>  BY <1>4 DEF CommitOffsets
    <2> QED  BY <2>1 DEF Msg, tables
  <1>5. ASSUME NEW p \in Partitions, NEW m \in Messages, Produce(p, m) PROVE Quiet
    <2>1. /\ log' = [log EXCEPT ![p] = Append(log[p], m)]
          /\ UNCHANGED <<position, owner, job, cache, tables>>
      BY <1>5 DEF Produce
    <2>2. ASSUME NEW q \in Partitions, job[q].stage # "idle" PROVE Msg(q)' = Msg(q)
      <3>1. log[q] \in Seq(Messages) /\ position[q] + 1 \in 1..Len(log[q])
        BY <2>2, MsgType DEF TypeOK
      <3> QED  BY <2>1, <3>1 DEF Msg, TypeOK
    <2> QED  BY <2>1, <2>2, <1>s DEF tables
  <1>6. ASSUME NEW p \in Partitions, NEW r \in Replicas, Rebalance(p, r) PROVE Quiet
    <2>1. /\ job[p].stage = "idle"
          /\ \A q \in Partitions \ {p} : owner'[q] = owner[q]
          /\ UNCHANGED <<log, position, job, cache, tables>>
      BY <1>6 DEF Rebalance, TypeOK
    <2> QED  BY <2>1, <1>s DEF Msg, tables
  <1>l. ASSUME NEW p \in Partitions, NEW r \in Replicas, LoseSession(p, r) PROVE Quiet
    <2>1. /\ job[p].stage = "idle"
          /\ \A q \in Partitions \ {p} : owner'[q] = owner[q] /\ position'[q] = position[q]
          /\ UNCHANGED <<log, job, cache, tables>>
      BY <1>l DEF LoseSession, TypeOK
    <2> QED  BY <2>1, <1>s DEF Msg, tables
  <1>7. ASSUME NEW r \in Replicas, Crash(r) PROVE Quiet
    <2>1. UNCHANGED <<log, owner, tables>>  BY <1>7 DEF Crash
    <2>2. \A p \in Partitions :
              \/ job'[p].stage = "idle"
              \/ /\ job'[p] = job[p] /\ position'[p] = position[p]
                 /\ cache'[owner[p]] = cache[owner[p]]
      BY <1>7 DEF Crash, Idle, TypeOK
    <2>3. \A p \in Partitions : position'[p] = position[p] => Msg(p)' = Msg(p)
      BY <2>1 DEF Msg
    <2> QED  BY <2>1, <2>2, <2>3, <1>s DEF tables
  <1>8. ASSUME UNCHANGED <<kafka, job, cache, report, ruleHit, recommendation, reportInfo>>
        PROVE  Quiet
    BY <1>8 DEF kafka, Msg
  <1>9. ASSUME \/ Tick
               \/ \E t \in UserTables, c \in Clusters, o \in Orgs : CheckRequest(t, c, o)
               \/ \E q \in request : ServeRequest(q)
        PROVE  Quiet
    BY <1>9, <1>8 DEF Tick, CheckRequest, ServeRequest, tables
  <1>10. ASSUME \/ \E o \in Orgs : DeleteReportsForOrg(o)
                \/ \E c \in Clusters : DeleteReportsForCluster(c)
         PROVE  QuietOrDeleted
    BY <1>10 DEF DeleteReportsForOrg, DeleteReportsForCluster, kafka, Msg
  <1>11. Quiet => QuietOrDeleted  OBVIOUS
  <1>12. \/ \E p \in Partitions :
                \/ UpdateOrgID(p) \/ CheckReport(p) \/ UpdateReport(p)
                \/ LookUpRecommendations(p) \/ ReplaceRecommendations(p)
                \/ AddRecommendations(p) \/ WriteInfo(p)
         \/ QuietOrDeleted
    <2> HIDE DEF Quiet, QuietOrDeleted
    <2>1. CASE \E p \in Partitions : HandleStep(p)
      <3>1. PICK p \in Partitions : HandleStep(p)  BY <2>1
      <3>2. ASSUME StartMessage(p) \/ WriteConsumerError(p) \/ SendDeadLetter(p)
            PROVE  QuietOrDeleted
        BY <3>2, <1>2, <1>11
      <3>3. ASSUME MarkMessage(p) PROVE QuietOrDeleted  BY <3>3, <1>3, <1>11
      <3> QED  BY <3>1, <3>2, <3>3 DEF HandleStep
    <2>2. CASE \E p \in Partitions :
                   \/ CommitOffsets(p)
                   \/ \E m \in Messages : Produce(p, m)
                   \/ \E r \in Replicas : Rebalance(p, r) \/ LoseSession(p, r)
      BY <2>2, <1>4, <1>5, <1>6, <1>l, <1>11
    <2>3. CASE \E r \in Replicas : Crash(r)  BY <2>3, <1>7, <1>11
    <2> QED  BY <2>1, <2>2, <2>3, <1>9, <1>10, <1>11 DEF Next
  <1> QED  BY <1>12

\* Once UpdateReport has noted the message in the cache of its process, the cache
\* knows the cluster.
LEMMA CacheSet ==
    ASSUME TypeInv, NEW p \in Partitions, job[p].stage = "apply", SetCache(p)
    PROVE  /\ \A r \in Replicas : \A d \in Clusters \ {Msg(p).cluster} :
                  cache'[r][d] = cache[r][d]
           /\ cache'[owner[p]][Msg(p).cluster] # NoTime
  <1>1. /\ cache \in [Replicas -> [Clusters -> Nat]] /\ owner[p] \in Replicas
        /\ Msg(p).cluster \in Clusters /\ Msg(p).lastChecked \in Time
    BY Working DEF TypeInv, TypeOK, JobOK, Writing
  <1> QED  BY <1>1 DEF SetCache, Time

\* The core holds through every step, those of the DELETE endpoints included.
LEMMA CoreStep ==
    ASSUME KeyedByCluster, TypeInv, LogKeyed, CoreTables, Next
    PROVE  CoreTables'
  <1> USE DEF TypeInv
  \* Steps in which a claim leaves the tables and the cache alone.
  <1>q. ASSUME NEW p \in Partitions, NEW s \in Stages \ Writing, GoTo(p, s),
               UNCHANGED <<kafka, cache, tables>>
        PROVE  CoreTables'
    <2>1. job'[p].stage = s /\ \A q \in Partitions \ {p} : job'[q] = job[q]
      BY <1>q, GoToType
    <2>2. \A q \in Partitions : Msg(q)' = Msg(q) /\ owner'[q] = owner[q]
      BY <1>q DEF Msg, kafka
    <2>3. UNCHANGED <<cache, report, recommendation, reportInfo>>  BY <1>q DEF tables
    <2> QED  BY <1>q, <2>1, <2>2, <2>3, CoreQuietStep
  <1>s. {"mark", "fail"} \subseteq Stages \ Writing  BY DEF Stages, Writing
  <1>1. ASSUME NEW p \in Partitions, UpdateOrgID(p) PROVE CoreTables'
    <2>1. job[p].stage = "org" /\ UNCHANGED <<kafka, cache>>
      BY <1>1 DEF UpdateOrgID
    <2>2. CASE UNCHANGED tables /\ GoTo(p, "fail")  BY <2>1, <2>2, <1>q, <1>s
    <2>3. CASE UpdateOrgIDForCluster(Msg(p).org, Msg(p).cluster)
      <3>1. PICK s \in {"fail", "report"} : GoTo(p, s)  BY <1>1 DEF UpdateOrgID
      <3>2. s \in Stages  BY DEF Stages
      <3>3. job'[p].stage = s /\ \A q \in Partitions \ {p} : job'[q] = job[q]
        BY <3>1, <3>2, GoToType
      <3>4. /\ position[p] < Len(log[p]) /\ Msg(p).cluster \in Clusters /\ Msg(p).org \in Orgs
        BY <2>1, Working
      <3> DEFINE c == Msg(p).cluster
      <3>5. /\ \A x : x.cluster # c =>
                   /\ x \in report' <=> x \in report
                   /\ x \in recommendation' <=> x \in recommendation
                   /\ x \in reportInfo' <=> x \in reportInfo
            /\ \A x \in DecidingRows' : x.cluster = c => x.org = Msg(p).org
            /\ \A x, y \in report' : x.cluster = c /\ y.cluster = c => x = y
        BY <2>3, <3>4, CoreOrgMoved
      <3>6. c = Msg(p).cluster /\ c \in Clusters  BY <3>4
      <3> HIDE DEF c
      <3> QED  BY <2>1, <3>1, <3>3, <3>4, <3>5, <3>6, CoreClusterStep
    <2> QED  BY <1>1, <2>2, <2>3 DEF UpdateOrgID
  <1>2. ASSUME NEW p \in Partitions, CheckReport(p) PROVE CoreTables'
    <2>1. job[p].stage = "report" /\ UNCHANGED <<kafka, cache, tables>>
      BY <1>2 DEF CheckReport
    <2>3. /\ job'[p].stage \in {"recs", "apply", "fail"} /\ job'[p].stored = job[p].stored
          /\ job'[p].stage = "apply" => ~NewerInDB(p)
          /\ \A q \in Partitions \ {p} : job'[q] = job[q]
      BY <1>2, CheckReportJob
    <2>4. CoreTables'
      <3>2. UNCHANGED <<report, recommendation, reportInfo, cache>> /\ DecidingRows' = DecidingRows
        BY <2>1 DEF DecidingRows, tables
      <3>3. \A x \in DecidingRows : x.cluster = Msg(p).cluster => x.org = Msg(p).org
        BY <2>1 DEF CoreTables, DecidingSettled, Writing
      <3>4. ASSUME job'[p].stage = "apply", NEW x \in report, x.cluster = Msg(p).cluster
            PROVE  x.lastChecked <= Msg(p).lastChecked
        <4>1. x \in Owned(report, Msg(p).cluster, Msg(p).org)
          BY <3>3, <3>4 DEF DecidingRows, Owned
        <4>2. ~(x.lastChecked > Msg(p).lastChecked)  BY <2>3, <3>4, <4>1 DEF NewerInDB
        <4>3. x.lastChecked \in Nat /\ Msg(p).lastChecked \in Nat
          BY <2>1, Working, MsgFields DEF TypeOK, ReportRow, Time
        <4> QED  BY <4>2, <4>3
      <3>5. ~job'[p].stored  BY <2>1, <2>3 DEF JobOK
      <3>6. position[p] < Len(log[p]) /\ Msg(p).cluster \in Clusters  BY <2>1, Working
      <3> DEFINE c == Msg(p).cluster
      <3>7. c = Msg(p).cluster /\ c \in Clusters  BY <3>6
      <3> HIDE DEF c
      <3>8. \A x, y \in report' : x.cluster = c /\ y.cluster = c => x = y
        BY <3>2 DEF CoreTables, OneReportPerCluster
      <3> QED
        BY <2>1, <2>3, <3>2, <3>3, <3>4, <3>5, <3>6, <3>7, <3>8, CoreClusterStep
    <2> QED  BY <2>4
  <1>3. ASSUME NEW p \in Partitions, UpdateReport(p) PROVE CoreTables'
    <2>1. job[p].stage = "apply" /\ UNCHANGED kafka  BY <1>3 DEF UpdateReport
    <2>2. CASE UNCHANGED <<tables, cache>> /\ GoTo(p, "fail")  BY <2>1, <2>2, <1>q, <1>s
    <2>3. CASE /\ SetCache(p)
               /\ UNCHANGED tables \/ WriteTables(Msg(p), job[p].known)
      <3>1. PICK s \in {"fail", "recs"} :
                /\ job'[p].stage = s
                /\ \A q \in Partitions \ {p} : job'[q] = job[q]
        BY <1>3, UpdateReportJob
      <3>2. position[p] < Len(log[p]) /\ Msg(p) \in Message  BY <2>1, Working
      <3>3. \A x \in DecidingRows : x.cluster = Msg(p).cluster => x.org = Msg(p).org
        BY <2>1 DEF CoreTables, DecidingSettled, Writing
      <3> DEFINE c == Msg(p).cluster
                 row == ReportRowOf(Msg(p))
      <3>4. row.cluster = c /\ row.org = Msg(p).org  BY DEF ReportRowOf
      <3>5. /\ report' = report \/ report' = (report \ Of(report, c)) \union {row}
            /\ UNCHANGED <<recommendation, reportInfo>>
        BY <2>3 DEF WriteTables, tables
      <3>6. c = Msg(p).cluster /\ c \in Clusters  BY <2>1, Working
      <3>7. /\ \A r \in Replicas : \A d \in Clusters \ {c} : cache'[r][d] = cache[r][d]
            /\ cache'[owner[p]][c] # NoTime
        BY <2>1, <2>3, CacheSet
      <3> HIDE DEF c, row
      <3>8. \A x : x.cluster # c => (x \in report' <=> x \in report)
        BY <3>4, <3>5 DEF Of
      <3>9. \A x, y \in report' : x.cluster = c /\ y.cluster = c => x = y
        BY <3>5 DEF Of, CoreTables, OneReportPerCluster
      <3>10. \A x \in DecidingRows' : x.cluster = c => x.org = Msg(p).org
        BY <3>3, <3>4, <3>5, <3>6 DEF DecidingRows
      <3> QED
        BY <2>1, <3>1, <3>2, <3>5, <3>6, <3>7, <3>8, <3>9, <3>10, CoreClusterStep
    <2> QED  BY <1>3, <2>2, <2>3 DEF UpdateReport
  <1>r. ASSUME NEW p \in Partitions, LookUpRecommendations(p) PROVE CoreTables'
    <2>1. job[p].stage = "recs" /\ UNCHANGED <<kafka, cache, tables>>
      BY <1>r DEF LookUpRecommendations
    <2>2. /\ job'[p].stage \in {"replace", "fail"}
          /\ \A q \in Partitions \ {p} : job'[q] = job[q]
      BY <1>r, LookUpJob
    <2>3. /\ position[p] < Len(log[p]) /\ Msg(p).cluster \in Clusters  BY <2>1, Working
    <2>4. UNCHANGED <<report, recommendation, reportInfo>> /\ DecidingRows' = DecidingRows
      BY <2>1 DEF tables, DecidingRows
    <2>5. /\ \A x \in DecidingRows : x.cluster = Msg(p).cluster => x.org = Msg(p).org
          /\ \A x, y \in report : x.cluster = y.cluster => x = y
      BY <2>1 DEF CoreTables, DecidingSettled, OneReportPerCluster, Writing
    <2> DEFINE c == Msg(p).cluster
    <2>6. c = Msg(p).cluster /\ c \in Clusters  BY <2>3
    <2> HIDE DEF c
    <2> QED  BY <2>1, <2>2, <2>3, <2>4, <2>5, <2>6, CoreClusterStep
  <1>4. ASSUME NEW p \in Partitions, ReplaceRecommendations(p) \/ AddRecommendations(p)
        PROVE  CoreTables'
    <2>1. job[p].stage \in {"recs", "replace"} /\ UNCHANGED <<kafka, cache>>
      BY <1>4, RecommendationSteps
    <2>2. CASE UNCHANGED tables /\ GoTo(p, "fail")  BY <2>1, <2>2, <1>q, <1>s
    <2>3. ASSUME NEW s \in {"info", "fail"}, GoTo(p, s),
                 NEW known \in SUBSET HitDate, NEW gone \in SUBSET Recommended(p),
                 SetRecommendations((recommendation \ gone)
                     \union RecommendationRows(Msg(p), known, job[p].storedAt)),
                 \/ gone = Recommended(p)
                 \/ job[p].stage = "recs" /\ cache[owner[p]][Msg(p).cluster] = NoTime
          PROVE  CoreTables'
      <3>2. s \in Stages  BY DEF Stages
      <3>3. /\ job'[p].stage = s /\ job'[p].stored = job[p].stored
            /\ \A q \in Partitions \ {p} : job'[q] = job[q]
        BY <2>3, <3>2, GoToType
      <3>4. position[p] < Len(log[p]) /\ Msg(p).cluster \in Clusters
        BY <2>1, Working
      <3>5. \A x \in DecidingRows : x.cluster = Msg(p).cluster => x.org = Msg(p).org
        BY <2>1 DEF CoreTables, DecidingSettled, Writing
      <3> DEFINE c == Msg(p).cluster
      <3>6. /\ UNCHANGED <<report, reportInfo>>
            /\ \A x : x.cluster # c => (x \in recommendation' <=> x \in recommendation)
            /\ \A x \in recommendation' : x.cluster = c => x.org = Msg(p).org
            /\ gone = Recommended(p) => RulesOf(Of(recommendation', c)) = Msg(p).hits
        <4>1. \A x \in recommendation : x.cluster = Msg(p).cluster => x.org = Msg(p).org
          BY <3>5 DEF DecidingRows
        <4> QED  BY <2>3, <4>1, RecommendationsWritten DEF Recommended
      <3>7. job[p].stored => gone = Recommended(p)
        BY <2>3 DEF CoreTables, CachedOnceStored
      <3>8. c = Msg(p).cluster /\ c \in Clusters  BY <3>4
      <3> HIDE DEF c
      <3>9. /\ \A x, y \in report' : x.cluster = c /\ y.cluster = c => x = y
            /\ \A x \in DecidingRows' : x.cluster = c => x.org = Msg(p).org
        BY <3>5, <3>6, <3>8 DEF CoreTables, OneReportPerCluster, DecidingRows
      <3> QED
        BY <2>1, <2>3, <3>3, <3>4, <3>6, <3>7, <3>8, <3>9, CoreClusterStep
    <2> QED  BY <1>4, <2>2, <2>3, RecommendationSteps
  <1>5. ASSUME NEW p \in Partitions, WriteInfo(p) PROVE CoreTables'
    <2>1. job[p].stage = "info" /\ UNCHANGED <<kafka, cache>>  BY <1>5 DEF WriteInfo
    <2>2. PICK s \in {"mark", "fail"} : GoTo(p, s)  BY <1>5 DEF WriteInfo
    <2>3. CASE UNCHANGED tables  BY <2>1, <2>2, <2>3, <1>q, <1>s
    <2>4. CASE UpsertInfo(Msg(p))
      <3>1. s \in Stages  BY DEF Stages
      <3>2. job'[p].stage = s /\ \A q \in Partitions \ {p} : job'[q] = job[q]
        BY <2>2, <3>1, GoToType
      <3>3. position[p] < Len(log[p])  BY <2>1, Working
      <3>4. \A x \in DecidingRows : x.cluster = Msg(p).cluster => x.org = Msg(p).org
        BY <2>1 DEF CoreTables, DecidingSettled, Writing
      <3> DEFINE c == Msg(p).cluster
      <3>5. /\ UNCHANGED <<report, ruleHit, recommendation>>
            /\ \A x : x.cluster # c => (x \in reportInfo' <=> x \in reportInfo)
            /\ \A x \in reportInfo' : x.cluster = c => x.org = Msg(p).org
        BY <2>4, <3>4, InfoWritten DEF DecidingRows
      <3>6. c = Msg(p).cluster /\ c \in Clusters  BY <2>1, Working
      <3> HIDE DEF c
      <3>7. /\ \A x, y \in report' : x.cluster = c /\ y.cluster = c => x = y
            /\ \A x \in DecidingRows' : x.cluster = c => x.org = Msg(p).org
        BY <3>4, <3>5, <3>6 DEF CoreTables, OneReportPerCluster, DecidingRows
      <3> QED
        BY <2>1, <2>2, <3>2, <3>3, <3>5, <3>6, <3>7, CoreClusterStep
    <2> QED  BY <1>5, <2>3, <2>4 DEF WriteInfo
  <1>6. ASSUME /\ report' \subseteq report /\ UNCHANGED <<recommendation, reportInfo>>
               /\ \A p \in Partitions : job'[p].stage \in Writing =>
                      /\ job'[p] = job[p] /\ Msg(p)' = Msg(p)
                      /\ owner'[p] = owner[p] /\ cache'[owner[p]] = cache[owner[p]]
        PROVE  CoreTables'
    BY <1>6, CoreQuietStep
  <1> QED  BY <1>1, <1>2, <1>3, <1>4, <1>5, <1>6, <1>r, QuietSteps

\* So do the rule hits, when nobody deletes reports.
LEMMA RuleHitStep ==
    ASSUME KeyedByCluster, ~Debug, TypeInv, LogKeyed, HitTables, Next
    PROVE  HitTables'
  <1> USE DEF TypeInv
  \* Steps in which a claim leaves the tables alone.
  <1>q. ASSUME NEW p \in Partitions, UNCHANGED <<kafka, tables>>,
               job'[p].stage \in Writing => job[p].stage \in Writing,
               \A q \in Partitions \ {p} : job'[q] = job[q]
        PROVE  HitTables'
    <2>1. \A q \in Partitions : Msg(q)' = Msg(q)  BY <1>q DEF Msg, kafka
    <2>2. UNCHANGED <<report, ruleHit, recommendation, reportInfo>>  BY <1>q DEF tables
    <2> QED  BY <1>q, <2>1, <2>2, HitQuietStep
  <1>f. ASSUME NEW p \in Partitions, NEW s \in Stages, GoTo(p, s)
        PROVE  job'[p].stage = s /\ \A q \in Partitions \ {p} : job'[q] = job[q]
    BY <1>f, GoToType
  <1>s. {"mark", "fail"} \subseteq Stages \ Writing /\ {"report", "info"} \subseteq Stages
    BY DEF Stages, Writing
  \* Steps in which it writes rows of its message's cluster.
  <1>o. ASSUME NEW p \in Partitions, job[p].stage \in Writing
        PROVE  \A x \in Rows : x.cluster = Msg(p).cluster => x.org = Msg(p).org
    BY <1>o DEF HitTables, OrgSettled
  <1>1. ASSUME NEW p \in Partitions, UpdateOrgID(p) PROVE HitTables'
    <2>1. job[p].stage = "org" /\ UNCHANGED kafka  BY <1>1 DEF UpdateOrgID
    <2>2. CASE UNCHANGED tables /\ GoTo(p, "fail")  BY <2>1, <2>2, <1>q, <1>f, <1>s
    <2>3. CASE UpdateOrgIDForCluster(Msg(p).org, Msg(p).cluster)
      <3>1. \A q \in Partitions \ {p} : job'[q] = job[q]
        BY <1>1, <1>f, <1>s DEF UpdateOrgID
      <3>2. /\ position[p] < Len(log[p]) /\ Msg(p).cluster \in Clusters /\ Msg(p).org \in Orgs
        BY <2>1, Working
      <3> DEFINE c == Msg(p).cluster
      <3>3. /\ \A x : x.cluster # c =>
                   /\ x \in report' <=> x \in report
                   /\ x \in ruleHit' <=> x \in ruleHit
                   /\ x \in recommendation' <=> x \in recommendation
                   /\ x \in reportInfo' <=> x \in reportInfo
            /\ \A x \in Rows' : x.cluster = c => x.org = Msg(p).org
            /\ \A x \in ruleHit' : x.cluster = c => \E y \in report' : y.cluster = c
            /\ \A x \in report' : x.cluster = c => RulesOf(Owned(ruleHit', c, x.org)) = x.hits
        BY <2>3, <3>2, OrgMoved
      <3>4. c = Msg(p).cluster /\ c \in Clusters  BY <3>2
      <3> HIDE DEF c
      <3> QED  BY <2>1, <3>1, <3>2, <3>3, <3>4, HitClusterStep
    <2> QED  BY <1>1, <2>2, <2>3 DEF UpdateOrgID
  <1>2. ASSUME NEW p \in Partitions, CheckReport(p) PROVE HitTables'
    <2>1. job[p].stage \in Writing /\ UNCHANGED <<kafka, tables>>
      BY <1>2 DEF CheckReport, Writing
    <2>2. \A q \in Partitions \ {p} : job'[q] = job[q]  BY <1>2, CheckReportJob
    <2> QED  BY <2>1, <2>2, <1>q
  <1>3. ASSUME NEW p \in Partitions, UpdateReport(p) PROVE HitTables'
    <2>1. job[p].stage \in Writing /\ job[p].stage # "idle" /\ UNCHANGED kafka
      BY <1>3 DEF UpdateReport, Writing
    <2>2. \A q \in Partitions \ {p} : job'[q] = job[q]  BY <1>3, UpdateReportJob
    <2>3. CASE UNCHANGED tables  BY <2>1, <2>2, <2>3, <1>q
    <2>4. CASE WriteTables(Msg(p), job[p].known)
      <3>1. position[p] < Len(log[p]) /\ Msg(p) \in Message  BY <2>1, Working
      <3>2. \A x \in Rows : x.cluster = Msg(p).cluster => x.org = Msg(p).org
        BY <2>1, <1>o
      <3> DEFINE c == Msg(p).cluster
                 row == ReportRowOf(Msg(p))
      <3>3. /\ \A x : x.cluster # c =>
                   /\ x \in report' <=> x \in report
                   /\ x \in ruleHit' <=> x \in ruleHit
                   /\ x \in recommendation' <=> x \in recommendation
                   /\ x \in reportInfo' <=> x \in reportInfo
            /\ \A x \in Rows' : x.cluster = c => x.org = Msg(p).org
            /\ \A x \in report' : x.cluster = c => x = row
            /\ row \in report' /\ row.cluster = c
            /\ RulesOf(Owned(ruleHit', c, Msg(p).org)) = row.hits
        BY <2>4, <3>1, <3>2, ReportWritten
      <3>4. c = Msg(p).cluster /\ c \in Clusters /\ row.org = Msg(p).org
        BY <2>1, Working DEF ReportRowOf
      <3> HIDE DEF c, row
      <3>5. /\ \A x \in ruleHit' : x.cluster = c => \E y \in report' : y.cluster = c
            /\ \A x \in report' : x.cluster = c => RulesOf(Owned(ruleHit', c, x.org)) = x.hits
        BY <3>3, <3>4
      <3> QED  BY <2>1, <2>2, <3>1, <3>3, <3>4, <3>5, HitClusterStep
    <2> QED  BY <1>3, <2>3, <2>4 DEF UpdateReport
  \* Transactions that leave report and rule_hit alone.
  <1>k. ASSUME NEW p \in Partitions, job[p].stage \in Writing, UNCHANGED <<kafka, report, ruleHit>>,
               \A q \in Partitions \ {p} : job'[q] = job[q],
               \A x : x.cluster # Msg(p).cluster =>
                   /\ x \in recommendation' <=> x \in recommendation
                   /\ x \in reportInfo' <=> x \in reportInfo,
               \A x \in recommendation' \union reportInfo' :
                   x.cluster = Msg(p).cluster => x.org = Msg(p).org
        PROVE  HitTables'
    <2>1. job[p].stage # "idle"  BY <1>k DEF Writing
    <2>2. position[p] < Len(log[p]) /\ Msg(p).cluster \in Clusters  BY <2>1, Working
    <2> DEFINE c == Msg(p).cluster
    <2>3. c = Msg(p).cluster /\ c \in Clusters  BY <2>2
    <2> HIDE DEF c
    <2>4. /\ \A x \in Rows' : x.cluster = c => x.org = Msg(p).org
          /\ \A x \in ruleHit' : x.cluster = c => \E y \in report' : y.cluster = c
      BY <1>k, <1>o, <2>3 DEF Rows, HitTables, RuleHitHasReport
    <2>5. \A x \in report' : x.cluster = c => RulesOf(Owned(ruleHit', c, x.org)) = x.hits
      BY <1>k DEF HitTables, RuleHitsMatchReport
    <2> QED  BY <1>k, <2>2, <2>3, <2>4, <2>5, HitClusterStep
  <1>r. ASSUME NEW p \in Partitions, LookUpRecommendations(p) PROVE HitTables'
    <2>1. job[p].stage \in Writing /\ UNCHANGED <<kafka, tables>>
      BY <1>r DEF LookUpRecommendations, Writing
    <2>2. \A q \in Partitions \ {p} : job'[q] = job[q]  BY <1>r, LookUpJob
    <2> QED  BY <2>1, <2>2, <1>q
  <1>4. ASSUME NEW p \in Partitions, ReplaceRecommendations(p) \/ AddRecommendations(p)
        PROVE  HitTables'
    <2>1. job[p].stage \in Writing /\ UNCHANGED kafka
      BY <1>4, RecommendationSteps DEF Writing
    <2>2. \A q \in Partitions \ {p} : job'[q] = job[q]
      BY <1>4, <1>f, <1>s, RecommendationSteps
    <2>3. CASE UNCHANGED tables  BY <2>1, <2>2, <2>3, <1>q
    <2>4. ASSUME NEW known \in SUBSET HitDate, NEW gone \in SUBSET Recommended(p),
                 SetRecommendations((recommendation \ gone)
                     \union RecommendationRows(Msg(p), known, job[p].storedAt))
          PROVE  HitTables'
      <3>2. \A x \in recommendation \union reportInfo :
                x.cluster = Msg(p).cluster => x.org = Msg(p).org
        BY <2>1, <1>o DEF Rows
      <3>3. /\ UNCHANGED <<report, ruleHit, reportInfo>>
            /\ \A x : x.cluster # Msg(p).cluster =>
                   (x \in recommendation' <=> x \in recommendation)
            /\ \A x \in recommendation' : x.cluster = Msg(p).cluster => x.org = Msg(p).org
        BY <2>4, <3>2, RecommendationsWritten DEF Recommended
      <3> QED  BY <2>1, <2>2, <3>2, <3>3, <1>k
    <2> QED  BY <1>4, <2>3, <2>4, RecommendationSteps
  <1>5. ASSUME NEW p \in Partitions, WriteInfo(p) PROVE HitTables'
    <2>1. job[p].stage \in Writing /\ job[p].stage # "idle" /\ UNCHANGED kafka
      BY <1>5 DEF WriteInfo, Writing
    <2>2. \A q \in Partitions \ {p} : job'[q] = job[q]
      BY <1>5, <1>f, <1>s DEF WriteInfo
    <2>3. CASE UNCHANGED tables  BY <2>1, <2>2, <2>3, <1>q
    <2>4. CASE UpsertInfo(Msg(p))
      <3>1. \A x \in recommendation \union reportInfo :
                x.cluster = Msg(p).cluster => x.org = Msg(p).org
        BY <2>1, <1>o DEF Rows
      <3>2. /\ UNCHANGED <<report, ruleHit, recommendation>>
            /\ \A x : x.cluster # Msg(p).cluster => (x \in reportInfo' <=> x \in reportInfo)
            /\ \A x \in reportInfo' : x.cluster = Msg(p).cluster => x.org = Msg(p).org
        BY <2>4, <3>1, InfoWritten
      <3> QED  BY <2>1, <2>2, <3>1, <3>2, <1>k
    <2> QED  BY <1>5, <2>3, <2>4 DEF WriteInfo
  <1>6. ASSUME /\ UNCHANGED <<report, ruleHit, recommendation, reportInfo>>
               /\ \A p \in Partitions : job'[p].stage \in Writing =>
                      job'[p] = job[p] /\ Msg(p)' = Msg(p)
        PROVE  HitTables'
    BY <1>6, HitQuietStep
  <1> QED  BY <1>1, <1>2, <1>3, <1>4, <1>5, <1>6, <1>r, QuietSteps

-----------------------------------------------------------------------------
\* Messages stay where their cluster's partition is.
LEMMA LogKeyedStep == TypeOK /\ LogKeyed /\ [Next]_vars => LogKeyed'
  <1> SUFFICES ASSUME TypeOK, LogKeyed, [Next]_vars PROVE LogKeyed'  OBVIOUS
  <1>1. ASSUME NEW p \in Partitions, NEW m \in Messages, Produce(p, m) PROVE LogKeyed'
    <2>1. p \in PartitionsOf[m.cluster] /\ log' = [log EXCEPT ![p] = Append(log[p], m)]
      BY <1>1 DEF Produce
    <2> SUFFICES ASSUME NEW q \in Partitions, NEW i \in 1..Len(log'[q])
                 PROVE  q \in PartitionsOf[log'[q][i].cluster]
      BY DEF LogKeyed
    <2>2. log[q] \in Seq(Messages)  BY DEF TypeOK
    <2>3. CASE q # p  BY <2>1, <2>3 DEF LogKeyed, TypeOK
    <2>4. CASE q = p
      <3>1. log'[q] = Append(log[q], m)  BY <2>1, <2>4 DEF TypeOK
      <3>2. CASE i = Len(log[q]) + 1  BY <2>1, <2>2, <2>4, <3>1, <3>2
      <3>3. CASE i # Len(log[q]) + 1
        <4>1. i \in 1..Len(log[q]) /\ log'[q][i] = log[q][i]  BY <2>2, <3>1, <3>3
        <4> QED  BY <4>1 DEF LogKeyed
      <3> QED  BY <3>2, <3>3
    <2> QED  BY <2>3, <2>4
  <1>2. ASSUME UNCHANGED log PROVE LogKeyed'  BY <1>2 DEF LogKeyed
  <1>3. ASSUME NEW p \in Partitions, HandleStep(p) PROVE UNCHANGED log
    BY <1>3 DEF HandleStep, StartMessage, UpdateOrgID, CheckReport, UpdateReport,
        LookUpRecommendations, ReplaceRecommendations, AddRecommendations, WriteInfo,
        WriteConsumerError, SendDeadLetter, MarkMessage, kafka
  <1> QED
    BY <1>1, <1>2, <1>3 DEF Next, vars, kafka, CommitOffsets, Rebalance, LoseSession, Crash, Tick,
       CheckRequest, ServeRequest, DeleteReportsForOrg, DeleteReportsForCluster

\* The two invariants with the type invariant, and what separates them.
CoreSafetyInv == TypeOK /\ CoreInv

SafetyInv == TypeOK /\ WriterInv

LEMMA SafetyIsCore == SafetyInv <=> CoreSafetyInv /\ HitTables
  <1>1. DecidingRows \subseteq Rows  BY DEF DecidingRows, Rows
  <1>2. OrgSettled => DecidingSettled  BY <1>1 DEF OrgSettled, DecidingSettled
  <1>3. ClusterHasOneOrg => DecidingHasOneOrg  BY <1>1 DEF ClusterHasOneOrg, DecidingHasOneOrg
  <1> QED  BY <1>2, <1>3 DEF SafetyInv, CoreSafetyInv, WriterInv, CoreInv, HitTables

LEMMA SafetyInit == Init => SafetyInv
  <1> SUFFICES ASSUME Init PROVE SafetyInv  OBVIOUS
  <1>1. TypeInv  BY TypeInit
  <1>2. /\ Rows = {} /\ report = {} /\ ruleHit = {}
        /\ \A p \in Partitions : job[p].stage = "idle" /\ Len(log[p]) = 0
    BY DEF Init, Rows, Idle
  <1>3. LogKeyed  BY <1>2 DEF LogKeyed
  <1>4. /\ OrgSettled /\ NewestWhenWritten /\ OneReportPerCluster /\ RuleHitHasReport
        /\ CachedOnceStored /\ ClusterHasOneOrg /\ RuleHitsMatchReport
        /\ RecommendationsMatchStoredReport
    BY <1>2 DEF OrgSettled, NewestWhenWritten, OneReportPerCluster,
       RuleHitHasReport, CachedOnceStored, ClusterHasOneOrg, RuleHitsMatchReport,
       RecommendationsMatchStoredReport, Writing
  <1> QED  BY <1>1, <1>3, <1>4 DEF SafetyInv, WriterInv, TypeInv

LEMMA CoreSafetyStep ==
    ASSUME KeyedByCluster
    PROVE  CoreSafetyInv /\ [Next]_vars => CoreSafetyInv'
  <1> SUFFICES ASSUME CoreSafetyInv, [Next]_vars PROVE CoreSafetyInv'  OBVIOUS
  <1>1. TypeInv /\ LogKeyed /\ CoreTables
    BY DEF CoreSafetyInv, CoreInv, TypeInv, CoreTables
  <1>2. TypeInv' /\ LogKeyed'  BY <1>1, TypeStep, LogKeyedStep DEF TypeInv
  <1>3. CoreTables'
    <2>1. CASE Next  BY <1>1, <2>1, CoreStep
    <2>2. CASE UNCHANGED vars
      <3>1. UNCHANGED <<kafka, job, cache, report, recommendation, reportInfo>>
        BY <2>2 DEF vars, tables
      <3> QED  BY <1>1, <3>1, CoreQuietStep DEF kafka, Msg
    <2> QED  BY <2>1, <2>2
  <1> QED  BY <1>2, <1>3 DEF CoreSafetyInv, CoreInv, TypeInv, CoreTables

LEMMA SafetyStep ==
    ASSUME KeyedByCluster, ~Debug
    PROVE  SafetyInv /\ [Next]_vars => SafetyInv'
  <1> SUFFICES ASSUME SafetyInv, [Next]_vars PROVE SafetyInv'  OBVIOUS
  <1>1. CoreSafetyInv /\ HitTables  BY SafetyIsCore
  <1>2. CoreSafetyInv'  BY <1>1, CoreSafetyStep
  <1>3. HitTables'
    <2>1. CASE Next
      BY <1>1, <2>1, RuleHitStep DEF CoreSafetyInv, CoreInv, TypeInv
    <2>2. CASE UNCHANGED vars
      <3>1. UNCHANGED <<kafka, job, report, ruleHit, recommendation, reportInfo>>
        BY <2>2 DEF vars, tables
      <3> QED  BY <1>1, <3>1, HitQuietStep DEF kafka, Msg
    <2> QED  BY <2>1, <2>2
  <1>4. (SafetyInv <=> CoreSafetyInv /\ HitTables)'  BY SafetyIsCore, PTL
  <1> QED  BY <1>2, <1>3, <1>4

\* For keyed topics, the core of the inductive invariant holds in every reachable
\* state, whatever fails, crashes, loses its session or is deleted.
THEOREM CoreSafe ==
    ASSUME KeyedByCluster
    PROVE  Spec => []CoreInv
  <1>1. CoreSafetyInv /\ [Next]_vars => CoreSafetyInv'  BY CoreSafetyStep
  <1>2. Init => CoreSafetyInv  BY SafetyInit, SafetyIsCore
  <1>3. CoreSafetyInv => CoreInv  BY DEF CoreSafetyInv
  <1> QED  BY <1>1, <1>2, <1>3, PTL DEF Spec

\* For keyed topics and without the DELETE endpoints, all parts of the inductive
\* invariant hold in every reachable state, whatever fails, crashes or loses its session.
THEOREM WriterSafe ==
    ASSUME KeyedByCluster, ~Debug
    PROVE  Spec => []WriterInv
  <1>1. SafetyInv /\ [Next]_vars => SafetyInv'  BY SafetyStep
  <1>2. Spec => []SafetyInv  BY <1>1, SafetyInit, PTL DEF Spec
  <1>3. SafetyInv => WriterInv  BY DEF SafetyInv
  <1> QED  BY <1>2, <1>3, PTL

\* updateOrgID never leaves the rows of a cluster with two organizations.
THEOREM OneOrgAlways ==
    ASSUME KeyedByCluster, ~Debug
    PROVE  Spec => []ClusterHasOneOrg
  <1>1. Spec => []WriterInv  BY WriterSafe
  <1>2. WriterInv => ClusterHasOneOrg  BY DEF WriterInv
  <1> QED  BY <1>1, <1>2, PTL

\* The rule_hit rows of a cluster are always the hits of its stored report.
THEOREM RuleHitsAlwaysMatch ==
    ASSUME KeyedByCluster, ~Debug
    PROVE  Spec => []RuleHitsMatchReport
  <1>1. Spec => []WriterInv  BY WriterSafe
  <1>2. WriterInv => RuleHitsMatchReport  BY DEF WriterInv
  <1> QED  BY <1>1, <1>2, PTL

\* A delivery that stores its report also leaves exactly its recommendations,
\* whatever the cache of its process held before and whoever deletes its report.
THEOREM RecommendationsAlwaysMatch ==
    ASSUME KeyedByCluster
    PROVE  Spec => []RecommendationsMatchStoredReport
  <1>1. Spec => []CoreInv  BY CoreSafe
  <1>2. CoreInv => RecommendationsMatchStoredReport  BY DEF CoreInv
  <1> QED  BY <1>1, <1>2, PTL

\* A step that changes the date of the stored report of a cluster is UpdateReport,
\* and what CheckReport asked the database for still holds then.
LEMMA NotOlderStep ==
    ASSUME TypeOK, OneReportPerCluster, NewestWhenWritten, [Next]_vars,
           NEW old \in report, NEW new \in report', old.cluster = new.cluster
    PROVE  old.lastChecked <= new.lastChecked
  <1>1. old.lastChecked \in Nat /\ report \subseteq ReportRow  BY DEF TypeOK, ReportRow, Time
  <1>2. ASSUME NEW y \in report, y.cluster = new.cluster, y.lastChecked = new.lastChecked
        PROVE  old.lastChecked <= new.lastChecked
    <2>1. y = old  BY <1>2 DEF OneReportPerCluster
    <2> QED  BY <1>1, <1>2, <2>1
  <1>3. CASE UNCHANGED report  BY <1>2, <1>3
  <1>4. ASSUME NEW p \in Partitions, UpdateOrgID(p) PROVE old.lastChecked <= new.lastChecked
    <2>1. CASE UNCHANGED report  BY <1>3, <2>1
    <2>2. CASE report' = SetOrg(report, Msg(p).cluster, Msg(p).org)
      <3>1. PICK y \in report :
                new = IF y.cluster = Msg(p).cluster THEN [y EXCEPT !.org = Msg(p).org] ELSE y
        BY <2>2 DEF SetOrg
      <3>2. y.cluster = new.cluster /\ y.lastChecked = new.lastChecked
        BY <1>1, <3>1 DEF ReportRow
      <3> QED  BY <3>2, <1>2
    <2> QED  BY <1>4, <2>1, <2>2 DEF UpdateOrgID, UpdateOrgIDForCluster, tables
  <1>5. ASSUME NEW p \in Partitions, UpdateReport(p) PROVE old.lastChecked <= new.lastChecked
    <2>1. CASE UNCHANGED report  BY <1>3, <2>1
    <2>2. CASE WriteTables(Msg(p), job[p].known)
      <3>1. CASE new \in report  BY <3>1, <1>2
      <3>2. CASE new = ReportRowOf(Msg(p))
        <4>1. new.cluster = Msg(p).cluster /\ new.lastChecked = Msg(p).lastChecked
          BY <3>2 DEF ReportRowOf
        <4> QED  BY <1>5, <4>1 DEF UpdateReport, NewestWhenWritten
      <3> QED  BY <2>2, <3>1, <3>2 DEF WriteTables
    <2> QED  BY <1>5, <2>1, <2>2 DEF UpdateReport, tables
  <1>6. ASSUME new \in report PROVE old.lastChecked <= new.lastChecked  BY <1>2, <1>6
  <1>7. \/ UNCHANGED report
        \/ \E p \in Partitions : UpdateOrgID(p) \/ UpdateReport(p)
        \/ report' \subseteq report
    BY DEF Next, vars, tables, HandleStep, StartMessage, CheckReport, LookUpRecommendations,
       ReplaceRecommendations, AddRecommendations, SetRecommendations, WriteInfo, UpsertInfo,
       WriteConsumerError, SendDeadLetter, MarkMessage, CommitOffsets, Produce, Rebalance,
       LoseSession, Crash, Tick, CheckRequest,
       ServeRequest, DeleteReportsForOrg, DeleteReportsForCluster, Of
  <1> QED  BY <1>3, <1>4, <1>5, <1>6, <1>7

\* The stored report of a cluster is never replaced by an older one, whether or not
\* reports are deleted in between.
THEOREM ReportNeverOlder ==
    ASSUME KeyedByCluster
    PROVE  Spec => ReportNeverGetsOlder
  <1>1. CoreSafetyInv /\ [Next]_vars => CoreSafetyInv'  BY CoreSafetyStep
  <1>2. CoreSafetyInv /\ [Next]_vars =>
            [\A old \in report, new \in report' :
                 old.cluster = new.cluster => old.lastChecked <= new.lastChecked]_vars
    BY NotOlderStep DEF CoreSafetyInv, CoreInv
  <1>3. Init => CoreSafetyInv  BY SafetyInit, SafetyIsCore
  <1> QED  BY <1>1, <1>2, <1>3, PTL DEF Spec, ReportNeverGetsOlder
=============================================================================
