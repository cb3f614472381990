------------------------- MODULE OcpWriterRefinement -------------------------
(***************************************************************************)
(* What the readers of the tables can rely on, proved for every number of  *)
(* replicas, partitions, clusters, messages, crashes and lost sessions,    *)
(* keyed topics and no DELETE endpoints.  The writer implements            *)
(* LatestReport: a reader that joins report with rule_hit sees one register*)
(* per cluster.  The dates since when rules hit survive the replacement of *)
(* their rows, unless a look-up fails.  Rows of user data follow their     *)
(* cluster to its new organization.                                        *)
(***************************************************************************)
EXTENDS OcpWriterAccounting

RefinementInv == SafetyInv /\ ClaimValid

-----------------------------------------------------------------------------
\* The refinement, step by step.

\* Since the rule hits match the report, the join of the two tables is the report
\* table itself.
LEMMA JoinIsReport ==
    SafetyInv => /\ latestOf = [c \in Clusters |-> Of(report, c)]
                 /\ report \subseteq ReportRow
  <1> SUFFICES ASSUME SafetyInv
               PROVE  /\ latestOf = [c \in Clusters |-> Of(report, c)]
                      /\ report \subseteq ReportRow
    OBVIOUS
  <1>1. report \subseteq ReportRow /\ RuleHitsMatchReport
    BY DEF SafetyInv, WriterInv, TypeOK
  <1>2. ASSUME NEW c \in Clusters, NEW row \in Of(report, c)
        PROVE  [cluster |-> c, org |-> row.org, lastChecked |-> row.lastChecked,
                hits |-> RulesOf(Owned(ruleHit, c, row.org))] = row
    <2>1. /\ row \in ReportRow /\ row.cluster = c
          /\ RulesOf(Owned(ruleHit, c, row.org)) = row.hits
      BY <1>1 DEF Of, RuleHitsMatchReport
    <2> QED  BY <2>1 DEF ReportRow
  <1>3. ASSUME NEW c \in Clusters PROVE latestOf[c] = Of(report, c)
    BY <1>2 DEF latestOf
  <1>4. latestOf = [c \in Clusters |-> latestOf[c]]  BY DEF latestOf
  <1> QED  BY <1>1, <1>3, <1>4

\* updateOrgID transfers the cluster with its report, if it has one.
LEMMA UpdateOrgIDTransfers ==
    ASSUME TypeOK, latestOf = [c \in Clusters |-> Of(report, c)],
           latestOf' = [c \in Clusters |-> Of(report', c)],
           NEW p \in Partitions, UpdateOrgID(p)
    PROVE  [Latest!LatestNext]_latestOf
  <1>1. CASE UNCHANGED report  BY <1>1
  <1>2. CASE report' = SetOrg(report, Msg(p).cluster, Msg(p).org)
    <2> DEFINE c == Msg(p).cluster
               o == Msg(p).org
    <2>1. c \in Clusters /\ o \in Orgs
      BY MsgType, MsgFields DEF UpdateOrgID, TypeOK
    <2>2. report' = {IF row.cluster = c THEN [row EXCEPT !.org = o] ELSE row : row \in report}
      BY <1>2 DEF SetOrg
    <2>3. \A row \in report : [row EXCEPT !.org = o].cluster = row.cluster
      BY DEF TypeOK, ReportRow
    <2> HIDE DEF c, o
    <2>4. \A d \in Clusters \ {c} : Of(report', d) = Of(report, d)
      BY <2>2, <2>3 DEF Of
    <2>5. Of(report', c) = {[row EXCEPT !.org = o] : row \in Of(report, c)}
      BY <2>2, <2>3 DEF Of
    <2>6. CASE Of(report, c) = {}
      <3>1. Of(report', c) = Of(report, c)  BY <2>5, <2>6
      <3>2. latestOf' = latestOf  BY <2>4, <3>1
      <3> QED  BY <3>2
    <2>7. CASE Of(report, c) # {}
      <3>1. latestOf[c] = Of(report, c)  BY <2>1
      <3>2. latestOf' =
                [latestOf EXCEPT ![c] = {[row EXCEPT !.org = o] : row \in latestOf[c]}]
        BY <2>1, <2>4, <2>5, <3>1
      <3>3. Latest!Transfer(c, o)  BY <2>7, <3>1, <3>2 DEF Latest!Transfer
      <3> QED  BY <2>1, <3>3 DEF Latest!LatestNext
    <2> QED  BY <2>6, <2>7
  <1> QED  BY <1>1, <1>2 DEF UpdateOrgID, UpdateOrgIDForCluster, tables

\* Writing a report replaces the current one.
LEMMA UpdateReportReplaces ==
    ASSUME RefinementInv, latestOf = [c \in Clusters |-> Of(report, c)],
           latestOf' = [c \in Clusters |-> Of(report', c)],
           NEW p \in Partitions, UpdateReport(p)
    PROVE  [Latest!LatestNext]_latestOf
  <1>1. CASE UNCHANGED report  BY <1>1
  <1>2. CASE WriteTables(Msg(p), job[p].known)
    <2> DEFINE m == Msg(p)
               c == m.cluster
               new == ReportRowOf(m)
    <2>1. TypeOK /\ job[p].stage = "apply"
      BY DEF RefinementInv, SafetyInv, UpdateReport
    <2>2. m \in Messages /\ c \in Clusters
      BY <2>1, MsgType, MsgFields DEF TypeOK
    <2>3. Valid(m)
      <3>1. m.lastChecked \in Time
        BY <2>1 DEF RefinementInv, SafetyInv, WriterInv, JobOK, Writing
      <3>2. m.kind = "valid" /\ m.org \in AllowedOrgs
        BY <2>1 DEF RefinementInv, ClaimValid, Writing
      <3> QED  BY <3>1, <3>2 DEF Valid, Time
    <2>4. /\ new.cluster = c /\ new.org = m.org /\ new.lastChecked = m.lastChecked
          /\ report' = (report \ Of(report, c)) \union {new}
      BY <1>2 DEF WriteTables, ReportRowOf
    <2>5. \A row \in Of(report, c) : row.org = m.org /\ row.lastChecked <= m.lastChecked
      BY <2>1 DEF RefinementInv, SafetyInv, WriterInv, OrgSettled, NewestWhenWritten,
                  Of, Rows, Writing
    <2>6. new \in {ReportRowOf(x) : x \in {y \in Messages : Valid(y)}}
      BY <2>2, <2>3
    <2> HIDE DEF m, c, new
    <2>7. /\ Of(report', c) = {new}
          /\ \A d \in Clusters \ {c} : Of(report', d) = Of(report, d)
      BY <2>4 DEF Of
    <2>8. latestOf[c] = Of(report, c)  BY <2>2
    <2>9. latestOf' = [latestOf EXCEPT ![c] = {new}]  BY <2>2, <2>7
    <2>10. \A old \in latestOf[new.cluster] :
               old.lastChecked <= new.lastChecked /\ old.org = new.org
      BY <2>4, <2>5, <2>8
    <2>11. latestOf' = [latestOf EXCEPT ![new.cluster] = {new}]  BY <2>4, <2>9
    <2>12. Latest!Replace(new)  BY <2>10, <2>11 DEF Latest!Replace
    <2> QED  BY <2>6, <2>12 DEF Latest!LatestNext
  <1> QED  BY <1>1, <1>2 DEF UpdateReport, tables

LEMMA RefinementInit == Init => RefinementInv /\ Latest!LatestInit
  <1> SUFFICES ASSUME Init PROVE RefinementInv /\ Latest!LatestInit  OBVIOUS
  <1>1. SafetyInv  BY SafetyInit
  <1>2. ClaimValid  BY DEF Init, Idle, ClaimValid, Writing
  <1>3. latestOf = [c \in Clusters |-> {}]
    BY <1>1, JoinIsReport DEF Init, Of
  <1> QED  BY <1>1, <1>2, <1>3 DEF RefinementInv, Latest!LatestInit

LEMMA RefinementStep ==
    ASSUME KeyedByCluster, ~Debug
    PROVE  RefinementInv /\ [Next]_vars => RefinementInv' /\ [Latest!LatestNext]_latestOf
  <1>1. SafetyInv /\ [Next]_vars => SafetyInv'  BY SafetyStep
  <1>2. (SafetyInv => latestOf = [c \in Clusters |-> Of(report, c)])'
    <2>1. SafetyInv => latestOf = [c \in Clusters |-> Of(report, c)]  BY JoinIsReport
    <2> QED  BY <2>1, PTL
  <1> SUFFICES ASSUME RefinementInv, [Next]_vars
               PROVE  RefinementInv' /\ [Latest!LatestNext]_latestOf
    OBVIOUS
  <1>3. SafetyInv /\ SafetyInv' /\ TypeOK  BY <1>1 DEF RefinementInv, SafetyInv
  <1>4. RefinementInv'  BY <1>3, ClaimValidStep DEF RefinementInv
  <1>5. /\ latestOf = [c \in Clusters |-> Of(report, c)]
        /\ latestOf' = [c \in Clusters |-> Of(report', c)]
    BY <1>2, <1>3, JoinIsReport DEF Of
  <1>6. ASSUME UNCHANGED report PROVE [Latest!LatestNext]_latestOf  BY <1>5, <1>6
  <1>7. \/ UNCHANGED report
        \/ \E p \in Partitions : UpdateOrgID(p) \/ UpdateReport(p)
    BY DEF Next, vars, tables, HandleStep, StartMessage, CheckReport, LookUpRecommendations,
       ReplaceRecommendations, AddRecommendations, SetRecommendations, WriteInfo, UpsertInfo,
       WriteConsumerError, SendDeadLetter, MarkMessage, CommitOffsets, Produce, Rebalance,
       LoseSession, Crash, Tick, CheckRequest, ServeRequest, DeleteReportsForOrg,
       DeleteReportsForCluster
  <1> QED
    BY <1>3, <1>4, <1>5, <1>6, <1>7, UpdateOrgIDTransfers, UpdateReportReplaces

\* A reader that joins report with rule_hit sees a LatestReport register, however
\* transactions, failures, crashes and redeliveries interleave.
THEOREM WriterRefinesLatestReport ==
    ASSUME KeyedByCluster, ~Debug
    PROVE  Spec => ImplementsLatestReport
  <1>1. RefinementInv /\ [Next]_vars => RefinementInv' /\ [Latest!LatestNext]_latestOf
    BY RefinementStep
  <1> QED
    BY <1>1, RefinementInit, PTL DEF Spec, ImplementsLatestReport, Latest!LatestSpec

-----------------------------------------------------------------------------
\* The dates since when rules hit.

HitInv == SafetyInv /\ HistoryInv

CreatedAtKept ==
    \A old \in ruleHit, new \in ruleHit' :
        old.cluster = new.cluster /\ old.rule = new.rule => old.createdAt = new.createdAt

ImpactedSinceKept ==
    \A old \in recommendation, new \in recommendation' :
        old.cluster = new.cluster /\ old.rule = new.rule
            => old.impactedSince = new.impactedSince

\* A table that is left alone, or only moved to another organization.
LEMMA MovedRowsKept ==
    ASSUME TypeOK, NEW c \in Clusters, NEW o \in Orgs
    PROVE  /\ OneRowPerHit(ruleHit) /\ ruleHit' \in {ruleHit, SetOrg(ruleHit, c, o)} =>
                  OneRowPerHit(ruleHit') /\ CreatedAtKept
           /\ OneRowPerHit(recommendation)
                  /\ recommendation' \in {recommendation, SetOrg(recommendation, c, o)} =>
                  OneRowPerHit(recommendation') /\ ImpactedSinceKept
  <1> DEFINE move(row) == IF row.cluster = c THEN [row EXCEPT !.org = o] ELSE row
  <1>1. ASSUME OneRowPerHit(ruleHit), ruleHit' \in {ruleHit, SetOrg(ruleHit, c, o)}
        PROVE  OneRowPerHit(ruleHit') /\ CreatedAtKept
    <2>1. CASE ruleHit' = ruleHit  BY <1>1, <2>1 DEF OneRowPerHit, CreatedAtKept
    <2>2. CASE ruleHit' = SetOrg(ruleHit, c, o)
      <3>1. ASSUME NEW row \in ruleHit
            PROVE  /\ move(row).cluster = row.cluster /\ move(row).rule = row.rule
                   /\ move(row).createdAt = row.createdAt
        BY DEF TypeOK, RuleHitRow
      <3>2. ruleHit' = {move(row) : row \in ruleHit}  BY <2>2 DEF SetOrg
      <3> HIDE DEF move
      <3> QED  BY <1>1, <3>1, <3>2 DEF OneRowPerHit, CreatedAtKept
    <2> QED  BY <1>1, <2>1, <2>2
  <1>2. ASSUME OneRowPerHit(recommendation),
               recommendation' \in {recommendation, SetOrg(recommendation, c, o)}
        PROVE  OneRowPerHit(recommendation') /\ ImpactedSinceKept
    <2>1. CASE recommendation' = recommendation
      BY <1>2, <2>1 DEF OneRowPerHit, ImpactedSinceKept
    <2>2. CASE recommendation' = SetOrg(recommendation, c, o)
      <3>1. ASSUME NEW row \in recommendation
            PROVE  /\ move(row).cluster = row.cluster /\ move(row).rule = row.rule
                   /\ move(row).impactedSince = row.impactedSince
        BY DEF TypeOK, RecommendationRow
      <3>2. recommendation' = {move(row) : row \in recommendation}  BY <2>2 DEF SetOrg
      <3> HIDE DEF move
      <3> QED  BY <1>2, <3>1, <3>2 DEF OneRowPerHit, ImpactedSinceKept
    <2> QED  BY <1>2, <2>1, <2>2
  <1> QED  BY <1>1, <1>2

\* With one date for each rule that was hit before, every rule gets one date, and a
\* rule that was hit before gets that one.
LEMMA DatesKept ==
    ASSUME NEW hits, NEW known, NEW t, \A a, b \in known : a.rule = b.rule => a = b
    PROVE  /\ \A a, b \in HitsSince(hits, known, t) : a.rule = b.rule => a = b
           /\ \A k \in known, a \in HitsSince(hits, known, t) : a.rule = k.rule => a = k
  <1> DEFINE fresh == {[rule |-> r, since |-> t] : r \in hits \ RulesOf(known)}
  <1>1. HitsSince(hits, known, t) = {k \in known : k.rule \in hits} \union fresh
    BY DEF HitsSince
  <1>2. \A a \in fresh : a.rule \notin RulesOf(known)  OBVIOUS
  <1>3. \A a, b \in fresh : a.rule = b.rule => a = b  OBVIOUS
  <1> HIDE DEF fresh
  <1>4. \A k \in known : k.rule \in RulesOf(known)  BY DEF RulesOf
  <1> QED  BY <1>1, <1>2, <1>3, <1>4

\* A look-up finds one date for each rule, because there is one row for each.
LEMMA DatesFound ==
    ASSUME NEW c, NEW o, NEW known
    PROVE  /\ OneRowPerHit(ruleHit) /\ Found(known, CreatedAtOf(Owned(ruleHit, c, o))) =>
                  /\ \A a, b \in known : a.rule = b.rule => a = b
                  /\ "lookup" \notin Faults => \A x \in Owned(ruleHit, c, o) :
                         \E k \in known : k.rule = x.rule /\ k.since = x.createdAt
           /\ OneRowPerHit(recommendation)
                  /\ Found(known, ImpactedSinceOf(Owned(recommendation, c, o))) =>
                  /\ \A a, b \in known : a.rule = b.rule => a = b
                  /\ "lookup" \notin Faults => \A x \in Owned(recommendation, c, o) :
                         \E k \in known : k.rule = x.rule /\ k.since = x.impactedSince
  <1> DEFINE hit(x) == [rule |-> x.rule, since |-> x.createdAt]
             rec(x) == [rule |-> x.rule, since |-> x.impactedSince]
             hits == Owned(ruleHit, c, o)
             recs == Owned(recommendation, c, o)
  <1>1. \A x : /\ hit(x).rule = x.rule /\ hit(x).since = x.createdAt
               /\ rec(x).rule = x.rule /\ rec(x).since = x.impactedSince
    OBVIOUS
  <1>2. CreatedAtOf(hits) = {hit(x) : x \in hits} /\ ImpactedSinceOf(recs) = {rec(x) : x \in recs}
    BY DEF CreatedAtOf, ImpactedSinceOf
  <1> HIDE DEF hit, rec
  <1>3. \A x \in hits : x \in ruleHit /\ x.cluster = c  BY DEF Owned
  <1>4. \A x \in recs : x \in recommendation /\ x.cluster = c  BY DEF Owned
  <1> HIDE DEF hits, recs
  <1>5. OneRowPerHit(ruleHit) =>
            \A a, b \in CreatedAtOf(hits) : a.rule = b.rule => a = b
    <2> SUFFICES ASSUME OneRowPerHit(ruleHit), NEW a \in CreatedAtOf(hits),
                        NEW b \in CreatedAtOf(hits), a.rule = b.rule
                 PROVE  a = b
      OBVIOUS
    <2>1. PICK x \in hits, y \in hits : a = hit(x) /\ b = hit(y)  BY <1>2
    <2>2. x.rule = y.rule  BY <1>1, <2>1
    <2>3. x = y  BY <1>3, <2>2 DEF OneRowPerHit
    <2> QED  BY <2>1, <2>3
  <1>6. OneRowPerHit(recommendation) =>
            \A a, b \in ImpactedSinceOf(recs) : a.rule = b.rule => a = b
    <2> SUFFICES ASSUME OneRowPerHit(recommendation), NEW a \in ImpactedSinceOf(recs),
                        NEW b \in ImpactedSinceOf(recs), a.rule = b.rule
                 PROVE  a = b
      OBVIOUS
    <2>1. PICK x \in recs, y \in recs : a = rec(x) /\ b = rec(y)  BY <1>2
    <2>2. x.rule = y.rule  BY <1>1, <2>1
    <2>3. x = y  BY <1>4, <2>2 DEF OneRowPerHit
    <2> QED  BY <2>1, <2>3
  <1>7. /\ \A x \in hits : \E k \in CreatedAtOf(hits) : k.rule = x.rule /\ k.since = x.createdAt
        /\ \A x \in recs : \E k \in ImpactedSinceOf(recs) :
               k.rule = x.rule /\ k.since = x.impactedSince
    BY <1>1, <1>2
  <1> QED  BY <1>5, <1>6, <1>7 DEF Found, hits, recs

\* WriteReportForCluster keeps created_at of every rule that hits again: the rows
\* of the cluster all belong to the organization it looks them up by.
LEMMA WrittenHitsKept ==
    ASSUME OneRowPerHit(ruleHit), NEW m \in Message, NEW known, WriteTables(m, known),
           Found(known, CreatedAtOf(Owned(ruleHit, m.cluster, m.org))),
           \A x \in Rows : x.cluster = m.cluster => x.org = m.org
    PROVE  /\ OneRowPerHit(ruleHit')
           /\ "lookup" \notin Faults => CreatedAtKept
  <1> DEFINE since == HitsSince(m.hits, known, now)
             hit(k) == [cluster |-> m.cluster, org |-> m.org,
                        rule |-> k.rule, createdAt |-> k.since]
             old == Owned(ruleHit, m.cluster, m.org)
  <1>1. /\ \A x : x.cluster # m.cluster => (x \in ruleHit' <=> x \in ruleHit)
        /\ \A x : x.cluster = m.cluster => (x \in ruleHit' <=> x \in RuleHitRows(m, known))
    BY ReportWritten
  <1>2. \A k : hit(k).rule = k.rule /\ hit(k).createdAt = k.since  OBVIOUS
  <1>3. RuleHitRows(m, known) = {hit(k) : k \in since}  BY DEF RuleHitRows
  <1>4. /\ \A a, b \in known : a.rule = b.rule => a = b
        /\ "lookup" \notin Faults =>
               \A x \in old : \E k \in known : k.rule = x.rule /\ k.since = x.createdAt
    BY DatesFound
  <1>5. /\ \A a, b \in since : a.rule = b.rule => a = b
        /\ \A k \in known, a \in since : a.rule = k.rule => a = k
    BY <1>4, DatesKept
  <1>6. \A x \in ruleHit : x.cluster = m.cluster => x \in old  BY DEF Rows, Owned
  <1> HIDE DEF since, hit, old
  <1>7. \A x \in ruleHit' : x.cluster = m.cluster => \E k \in since : x = hit(k)
    BY <1>1, <1>3
  <1>8. OneRowPerHit(ruleHit')
    BY <1>1, <1>2, <1>5, <1>7 DEF OneRowPerHit
  <1>9. "lookup" \notin Faults => CreatedAtKept
    <2> SUFFICES ASSUME "lookup" \notin Faults, NEW x \in ruleHit, NEW y \in ruleHit',
                        x.cluster = y.cluster, x.rule = y.rule
                 PROVE  x.createdAt = y.createdAt
      BY DEF CreatedAtKept
    <2>1. CASE x.cluster # m.cluster
      <3>1. y \in ruleHit  BY <1>1, <2>1
      <3> QED  BY <3>1 DEF OneRowPerHit
    <2>2. CASE x.cluster = m.cluster
      <3>1. PICK k \in known : k.rule = x.rule /\ k.since = x.createdAt  BY <1>4, <1>6, <2>2
      <3>2. PICK a \in since : y = hit(a)  BY <1>7, <2>2
      <3>3. a = k  BY <1>2, <1>5, <3>1, <3>2
      <3> QED  BY <1>2, <3>1, <3>2, <3>3
    <2> QED  BY <2>1, <2>2
  <1> QED  BY <1>8, <1>9

\* WriteRecommendationsForCluster keeps impacted_since likewise, whether it deletes
\* the previous rows or only adds to them.
LEMMA WrittenRecommendationsKept ==
    ASSUME OneRowPerHit(recommendation), NEW m, NEW known, NEW at,
           NEW gone \in SUBSET Owned(recommendation, m.cluster, m.org),
           SetRecommendations((recommendation \ gone) \union RecommendationRows(m, known, at)),
           \A x \in recommendation : x.cluster = m.cluster => x.org = m.org,
           \/ /\ gone = Owned(recommendation, m.cluster, m.org)
              /\ Found(known, ImpactedSinceOf(Owned(recommendation, m.cluster, m.org)))
           \/ /\ known = {} /\ gone = {}
              /\ RulesOf(Owned(recommendation, m.cluster, m.org)) \intersect m.hits = {}
    PROVE  /\ OneRowPerHit(recommendation')
           /\ "lookup" \notin Faults => ImpactedSinceKept
  <1> DEFINE since == HitsSince(m.hits, known, at)
             rec(k) == [cluster |-> m.cluster, org |-> m.org, rule |-> k.rule,
                        createdAt |-> at, impactedSince |-> k.since]
             rows == RecommendationRows(m, known, at)
             old == Owned(recommendation, m.cluster, m.org)
  <1>1. recommendation' = (recommendation \ gone) \union rows  BY DEF SetRecommendations
  <1>2. \A k : /\ rec(k).rule = k.rule /\ rec(k).impactedSince = k.since
               /\ rec(k).cluster = m.cluster
    OBVIOUS
  <1>3. rows = {rec(k) : k \in since}  BY DEF RecommendationRows
  <1>4. \A x \in rows : x.cluster = m.cluster /\ x.rule \in m.hits
    BY InsertedRules DEF RulesOf
  <1>5. \A x \in recommendation : x.cluster = m.cluster => x \in old  BY DEF Owned
  <1>6. \A x \in old : x \in recommendation /\ x.cluster = m.cluster  BY DEF Owned
  <1>7. \A x \in old : x.rule \in RulesOf(old)  BY DEF RulesOf
  <1>8. CASE gone = old /\ Found(known, ImpactedSinceOf(old))
    <2>1. /\ \A a, b \in known : a.rule = b.rule => a = b
          /\ "lookup" \notin Faults =>
                 \A x \in old : \E k \in known : k.rule = x.rule /\ k.since = x.impactedSince
      BY <1>8, DatesFound
    <2>2. /\ \A a, b \in since : a.rule = b.rule => a = b
          /\ \A k \in known, a \in since : a.rule = k.rule => a = k
      BY <2>1, DatesKept
    <2> HIDE DEF since, rec, rows, old
    <2>3. \A x \in recommendation' :
              \/ x.cluster # m.cluster /\ x \in recommendation
              \/ x.cluster = m.cluster /\ \E k \in since : x = rec(k)
      BY <1>1, <1>3, <1>4, <1>5, <1>8
    <2>4. OneRowPerHit(recommendation')  BY <1>2, <2>2, <2>3 DEF OneRowPerHit
    <2>5. "lookup" \notin Faults => ImpactedSinceKept
      <3> SUFFICES ASSUME "lookup" \notin Faults,
                          NEW x \in recommendation, NEW y \in recommendation',
                          x.cluster = y.cluster, x.rule = y.rule
                   PROVE  x.impactedSince = y.impactedSince
        BY DEF ImpactedSinceKept
      <3>1. CASE x.cluster # m.cluster
        <4>1. y \in recommendation  BY <2>3, <3>1
        <4> QED  BY <4>1 DEF OneRowPerHit
      <3>2. CASE x.cluster = m.cluster
        <4>1. PICK k \in known : k.rule = x.rule /\ k.since = x.impactedSince
          BY <1>5, <2>1, <3>2
        <4>2. PICK a \in since : y = rec(a)  BY <2>3, <3>2
        <4>3. a = k  BY <1>2, <2>2, <4>1, <4>2
        <4> QED  BY <1>2, <4>1, <4>2, <4>3
      <3> QED  BY <3>1, <3>2
    <2> QED  BY <2>4, <2>5
  <1>9. CASE known = {} /\ gone = {} /\ RulesOf(old) \intersect m.hits = {}
    <2>1. \A a, b \in since : a.rule = b.rule => a = b  BY <1>9, DatesKept
    <2> HIDE DEF since, rec, rows, old
    <2>2. recommendation' = recommendation \union rows  BY <1>1, <1>9
    <2>3. \A x \in rows : \A y \in recommendation : ~(y.cluster = x.cluster /\ y.rule = x.rule)
      BY <1>4, <1>5, <1>7, <1>9
    <2>4. \A x, y \in rows : x.rule = y.rule => x = y  BY <1>2, <1>3, <2>1
    <2>5. OneRowPerHit(recommendation')  BY <2>2, <2>3, <2>4 DEF OneRowPerHit
    <2>6. ImpactedSinceKept  BY <2>2, <2>3 DEF OneRowPerHit, ImpactedSinceKept
    <2> QED  BY <2>5, <2>6
  <1> QED  BY <1>8, <1>9

\* Nobody else changes the rows of a cluster whose report is being written.
LEMMA RowsKept ==
    ASSUME KeyedByCluster, SafetyInv, [Next]_vars, NEW p \in Partitions,
           job[p].stage \in Writing, ~HandleStep(p)
    PROVE  /\ Of(ruleHit', Msg(p).cluster) = Of(ruleHit, Msg(p).cluster)
           /\ Of(recommendation', Msg(p).cluster) = Of(recommendation, Msg(p).cluster)
  <1>1. TypeOK /\ LogKeyed /\ HitTables /\ OrgSettled
    BY SafetyIsCore DEF SafetyInv, WriterInv
  <1> DEFINE c == Msg(p).cluster
  <1>2. ASSUME NEW q \in Partitions, q # p, job[q].stage # "idle"
        PROVE  /\ Msg(q).cluster # c /\ Msg(q) \in Message
               /\ Msg(q).cluster \in Clusters /\ Msg(q).org \in Orgs
    BY <1>1, <1>2, Working, OtherCluster DEF Writing
  <1>3. CASE UNCHANGED <<ruleHit, recommendation>>  BY <1>3
  <1>4. ASSUME NEW q \in Partitions, UpdateOrgID(q), q # p, ~UNCHANGED tables
        PROVE  \A x : x.cluster = c => /\ x \in ruleHit' <=> x \in ruleHit
                                       /\ x \in recommendation' <=> x \in recommendation
    <2>1. job[q].stage # "idle" /\ UpdateOrgIDForCluster(Msg(q).org, Msg(q).cluster)
      BY <1>4 DEF UpdateOrgID
    <2> QED  BY <1>1, <1>2, <1>4, <2>1, OrgMoved
  <1>5. ASSUME NEW q \in Partitions, UpdateReport(q), q # p, ~UNCHANGED tables
        PROVE  \A x : x.cluster = c => /\ x \in ruleHit' <=> x \in ruleHit
                                       /\ x \in recommendation' <=> x \in recommendation
    <2>1. job[q].stage = "apply" /\ WriteTables(Msg(q), job[q].known)
      BY <1>5 DEF UpdateReport
    <2>2. \A x \in Rows : x.cluster = Msg(q).cluster => x.org = Msg(q).org
      BY <1>1, <2>1 DEF OrgSettled, Writing
    <2> QED  BY <1>2, <1>5, <2>1, <2>2, ReportWritten
  <1>6. ASSUME NEW q \in Partitions, ReplaceRecommendations(q) \/ AddRecommendations(q), q # p,
               ~UNCHANGED tables
        PROVE  \A x : x.cluster = c => /\ x \in ruleHit' <=> x \in ruleHit
                                       /\ x \in recommendation' <=> x \in recommendation
    <2>1. job[q].stage \in {"recs", "replace"}  BY <1>1, <1>6, RecommendationSteps
    <2>2. PICK known \in SUBSET HitDate, gone \in SUBSET Recommended(q) :
              SetRecommendations((recommendation \ gone)
                  \union RecommendationRows(Msg(q), known, job[q].storedAt))
      BY <1>1, <1>6, RecommendationSteps
    <2>3. \A x \in recommendation : x.cluster = Msg(q).cluster => x.org = Msg(q).org
      BY <1>1, <2>1 DEF OrgSettled, Rows, Writing
    <2>4. /\ UNCHANGED ruleHit
          /\ \A x : x.cluster # Msg(q).cluster => (x \in recommendation' <=> x \in recommendation)
      BY <2>2, <2>3, RecommendationsWritten DEF Recommended
    <2> QED  BY <1>2, <1>6, <2>1, <2>4
  <1>7. \/ UNCHANGED <<ruleHit, recommendation>>
        \/ \E q \in Partitions : /\ \/ UpdateOrgID(q) \/ UpdateReport(q)
                                    \/ ReplaceRecommendations(q) \/ AddRecommendations(q)
                                 /\ ~UNCHANGED tables
    BY DEF Next, vars, tables, HandleStep, StartMessage, CheckReport, LookUpRecommendations,
       WriteInfo, UpsertInfo, WriteConsumerError, SendDeadLetter, MarkMessage, CommitOffsets,
       Produce, Rebalance, LoseSession, Crash, Tick, CheckRequest, ServeRequest,
       DeleteReportsForOrg, DeleteReportsForCluster
  <1>8. ASSUME NEW q \in Partitions, \/ UpdateOrgID(q) \/ UpdateReport(q)
                                     \/ ReplaceRecommendations(q) \/ AddRecommendations(q)
        PROVE  q # p
    BY <1>8 DEF HandleStep
  <1> QED  BY <1>3, <1>4, <1>5, <1>6, <1>7, <1>8 DEF Of

\* What a transaction has looked up is still so when it writes.
LEMMA KnownStep ==
    ASSUME KeyedByCluster, SafetyInv, KnownIsCurrent, [Next]_vars
    PROVE  KnownIsCurrent'
  <1>1. TypeOK  BY DEF SafetyInv
  <1>2. ASSUME NEW c, NEW o
        PROVE  /\ \A rows \in LookedUp(Owned(ruleHit, c, o)) :
                      Found(CreatedAtOf(rows), CreatedAtOf(Owned(ruleHit, c, o)))
               /\ \A rows \in LookedUp(Owned(recommendation, c, o)) :
                      Found(ImpactedSinceOf(rows), ImpactedSinceOf(Owned(recommendation, c, o)))
    <2>1. ASSUME NEW rows, NEW all, rows \in LookedUp(all)
          PROVE  rows \subseteq all /\ ("lookup" \notin Faults => rows = all)
      BY <2>1 DEF LookedUp
    <2> QED  BY <2>1 DEF Found, CreatedAtOf, ImpactedSinceOf
  <1>3. SUFFICES ASSUME NEW p \in Partitions, job'[p].stage \in {"apply", "replace"}
                 PROVE  /\ job'[p].stage = "apply" =>
                               Found(job'[p].known, CreatedAtOf(
                                   Owned(ruleHit', Msg(p)'.cluster, Msg(p)'.org)))
                        /\ job'[p].stage = "replace" =>
                               Found(job'[p].known, ImpactedSinceOf(
                                   Owned(recommendation', Msg(p)'.cluster, Msg(p)'.org)))
    BY DEF KnownIsCurrent, Recommended, Found
  <1>4. CASE HandleStep(p)
    <2>1. ASSUME NEW s \in Stages \ {"apply", "replace"}, GoTo(p, s) PROVE FALSE
      BY <1>1, <1>3, <2>1, GoToType
    <2>2. /\ ~StartMessage(p) /\ ~UpdateOrgID(p) /\ ~WriteInfo(p) /\ ~WriteConsumerError(p)
          /\ ~SendDeadLetter(p)
      BY <2>1 DEF StartMessage, UpdateOrgID, WriteInfo, WriteConsumerError, SendDeadLetter, Stages
    <2>3. ~MarkMessage(p)  BY <1>1, <1>3 DEF MarkMessage, TypeOK, Idle
    <2>4. ~UpdateReport(p)  BY <1>1, <1>3, UpdateReportJob
    <2>5. ~ReplaceRecommendations(p) /\ ~AddRecommendations(p)
      <3>1. ReplaceRecommendations(p) \/ AddRecommendations(p)
                => \E s \in {"info", "fail"} : GoTo(p, s)
        BY <1>1, RecommendationSteps
      <3> QED  BY <2>1, <3>1 DEF Stages
    <2>6. CASE CheckReport(p)
      <3>1. UNCHANGED <<kafka, tables>>  BY <2>6 DEF CheckReport
      <3>2. Msg(p)' = Msg(p) /\ ruleHit' = ruleHit  BY <3>1 DEF Msg, kafka, tables
      <3>3. job'[p].stage = "apply"  BY <1>1, <1>3, <2>6, CheckReportJob
      <3>4. PICK rows \in LookedUp(Owned(ruleHit, Msg(p).cluster, Msg(p).org)) :
                job'[p].known = CreatedAtOf(rows)
        BY <1>1, <2>6, <3>3, CheckReportJob
      <3> QED  BY <1>2, <3>2, <3>3, <3>4
    <2>7. CASE LookUpRecommendations(p)
      <3>1. UNCHANGED <<kafka, tables>>  BY <2>7 DEF LookUpRecommendations
      <3>2. Msg(p)' = Msg(p) /\ recommendation' = recommendation
        BY <3>1 DEF Msg, kafka, tables
      <3>3. job'[p].stage = "replace"  BY <1>1, <1>3, <2>7, LookUpJob
      <3>4. PICK rows \in LookedUp(Recommended(p)) : job'[p].known = ImpactedSinceOf(rows)
        BY <1>1, <1>3, <2>7, LookUpJob
      <3> QED  BY <1>2, <3>2, <3>3, <3>4 DEF Recommended
    <2> QED  BY <1>4, <2>2, <2>3, <2>4, <2>5, <2>6, <2>7 DEF HandleStep
  <1>5. CASE ~HandleStep(p)
    <2>1. job'[p] = job[p] /\ position'[p] = position[p]  BY <1>1, <1>3, <1>5, ClaimSteps
    <2>2. job[p].stage \in Writing /\ job[p].stage # "idle"  BY <1>3, <2>1 DEF Writing
    <2>3. position[p] + 1 \in 1..Len(log[p])  BY <1>1, <2>2, Working, MsgType
    <2>4. Msg(p)' = Msg(p)  BY <1>1, <2>1, <2>3, LogKept DEF Msg
    <2>5. /\ Of(ruleHit', Msg(p).cluster) = Of(ruleHit, Msg(p).cluster)
          /\ Of(recommendation', Msg(p).cluster) = Of(recommendation, Msg(p).cluster)
      BY <1>5, <2>2, RowsKept
    <2>6. /\ Owned(ruleHit', Msg(p).cluster, Msg(p).org)
                 = Owned(ruleHit, Msg(p).cluster, Msg(p).org)
          /\ Owned(recommendation', Msg(p).cluster, Msg(p).org)
                 = Owned(recommendation, Msg(p).cluster, Msg(p).org)
      BY <2>5 DEF Of, Owned
    <2> QED  BY <1>3, <2>1, <2>4, <2>6 DEF KnownIsCurrent, Recommended
  <1> QED  BY <1>4, <1>5

LEMMA HitStep ==
    ASSUME KeyedByCluster, ~Debug, HitInv, [Next]_vars
    PROVE  /\ HitInv'
           /\ "lookup" \notin Faults => CreatedAtKept /\ ImpactedSinceKept
  <1>1. /\ SafetyInv /\ SafetyInv' /\ TypeOK /\ KnownIsCurrent
        /\ OneRowPerHit(ruleHit) /\ OneRowPerHit(recommendation)
    BY SafetyStep DEF HitInv, SafetyInv, HistoryInv
  <1> DEFINE Kept == /\ OneRowPerHit(ruleHit') /\ OneRowPerHit(recommendation')
                     /\ "lookup" \notin Faults => CreatedAtKept /\ ImpactedSinceKept
  <1>2. ASSUME UNCHANGED ruleHit PROVE OneRowPerHit(ruleHit') /\ CreatedAtKept
    BY <1>1, <1>2 DEF OneRowPerHit, CreatedAtKept
  <1>3. ASSUME UNCHANGED recommendation
        PROVE  OneRowPerHit(recommendation') /\ ImpactedSinceKept
    BY <1>1, <1>3 DEF OneRowPerHit, ImpactedSinceKept
  <1>4. ASSUME UNCHANGED <<ruleHit, recommendation>> PROVE Kept  BY <1>2, <1>3, <1>4
  \* Once the organization is settled it is that of all rows of the cluster.
  <1>5. ASSUME NEW p \in Partitions, job[p].stage \in Writing
        PROVE  /\ Msg(p) \in Message
               /\ \A x \in Rows : x.cluster = Msg(p).cluster => x.org = Msg(p).org
    BY <1>1, <1>5, Working DEF SafetyInv, WriterInv, OrgSettled, Writing
  <1>6. ASSUME NEW p \in Partitions, UpdateOrgID(p) PROVE Kept
    <2>1. CASE UNCHANGED tables  BY <2>1, <1>4 DEF tables
    <2>2. CASE /\ ruleHit' = SetOrg(ruleHit, Msg(p).cluster, Msg(p).org)
               /\ recommendation' = SetOrg(recommendation, Msg(p).cluster, Msg(p).org)
      <3>1. Msg(p).cluster \in Clusters /\ Msg(p).org \in Orgs
        BY <1>1, <1>6, Working DEF UpdateOrgID
      <3> QED  BY <1>1, <2>2, <3>1, MovedRowsKept
    <2> QED  BY <1>6, <2>1, <2>2 DEF UpdateOrgID, UpdateOrgIDForCluster
  <1>7. ASSUME NEW p \in Partitions, UpdateReport(p) PROVE Kept
    <2>1. CASE UNCHANGED tables  BY <2>1, <1>4 DEF tables
    <2>2. CASE WriteTables(Msg(p), job[p].known)
      <3>1. job[p].stage = "apply" /\ UNCHANGED recommendation
        BY <1>7, <2>2 DEF UpdateReport, WriteTables
      <3>2. Found(job[p].known, CreatedAtOf(Owned(ruleHit, Msg(p).cluster, Msg(p).org)))
        BY <1>1, <3>1 DEF KnownIsCurrent
      <3>3. OneRowPerHit(ruleHit') /\ ("lookup" \notin Faults => CreatedAtKept)
        BY <1>1, <1>5, <2>2, <3>1, <3>2, WrittenHitsKept DEF Writing
      <3> QED  BY <1>3, <3>1, <3>3
    <2> QED  BY <1>7, <2>1, <2>2 DEF UpdateReport
  <1>8. ASSUME NEW p \in Partitions, ReplaceRecommendations(p) \/ AddRecommendations(p)
        PROVE  Kept
    <2>1. CASE UNCHANGED tables  BY <2>1, <1>4 DEF tables
    <2>2. CASE ~UNCHANGED tables
      <3> DEFINE old == Owned(recommendation, Msg(p).cluster, Msg(p).org)
      <3>1. job[p].stage \in Writing  BY <1>1, <1>8, RecommendationSteps DEF Writing
      <3>2. PICK known \in SUBSET HitDate, gone \in SUBSET old :
                /\ SetRecommendations((recommendation \ gone)
                       \union RecommendationRows(Msg(p), known, job[p].storedAt))
                /\ \/ job[p].stage = "replace" /\ known = job[p].known /\ gone = old
                   \/ known = {} /\ gone = {} /\ RulesOf(old) \intersect Msg(p).hits = {}
        BY <1>1, <1>8, <2>2, RecommendationSteps DEF Recommended
      <3>3. job[p].stage = "replace" => Found(job[p].known, ImpactedSinceOf(old))
        BY <1>1 DEF KnownIsCurrent, Recommended
      <3>4. \A x \in recommendation : x.cluster = Msg(p).cluster => x.org = Msg(p).org
        BY <1>5, <3>1 DEF Rows
      <3>5. /\ OneRowPerHit(recommendation')
            /\ "lookup" \notin Faults => ImpactedSinceKept
        BY <1>1, <3>2, <3>3, <3>4, WrittenRecommendationsKept
      <3>6. UNCHANGED ruleHit  BY <3>2 DEF SetRecommendations
      <3> QED  BY <1>2, <3>5, <3>6
    <2> QED  BY <2>1, <2>2
  <1>9. \/ UNCHANGED <<ruleHit, recommendation>>
        \/ \E p \in Partitions : \/ UpdateOrgID(p) \/ UpdateReport(p)
                                 \/ ReplaceRecommendations(p) \/ AddRecommendations(p)
    BY DEF Next, vars, tables, HandleStep, StartMessage, CheckReport, LookUpRecommendations,
       WriteInfo, UpsertInfo, WriteConsumerError, SendDeadLetter, MarkMessage, CommitOffsets,
       Produce, Rebalance, LoseSession, Crash, Tick, CheckRequest, ServeRequest,
       DeleteReportsForOrg, DeleteReportsForCluster
  <1>10. Kept  BY <1>4, <1>6, <1>7, <1>8, <1>9
  <1>11. KnownIsCurrent'  BY <1>1, KnownStep
  <1> QED  BY <1>1, <1>10, <1>11 DEF HitInv, HistoryInv, OneRowPerHit

\* As long as the stored reports of a cluster hit a rule, there is one rule_hit row for
\* it, with the same created_at; and as long as a recommendation is not removed it keeps
\* impacted_since.  The look-ups for the dates must work.
THEOREM HitSinceAlwaysKept ==
    ASSUME KeyedByCluster, ~Debug, "lookup" \notin Faults
    PROVE  Spec => HitSinceIsKept
  <1> DEFINE Dates(old) ==
          {hit.createdAt : hit \in {x \in ruleHit' : x.cluster = old.cluster
                                                 /\ x.rule = old.rule}}
  <1>1. Init => HitInv
    BY SafetyInit DEF Init, Idle, HitInv, HistoryInv, OneRowPerHit, KnownIsCurrent
  <1>2. HitInv /\ [Next]_vars => HitInv' /\ CreatedAtKept /\ ImpactedSinceKept
    BY HitStep
  <1>3. HitInv' /\ CreatedAtKept /\ ImpactedSinceKept =>
            [/\ \A old \in ruleHit, row \in report' :
                    row.cluster = old.cluster /\ old.rule \in row.hits =>
                        Dates(old) = {old.createdAt}
             /\ \A old \in recommendation, new \in recommendation' :
                    old.cluster = new.cluster /\ old.rule = new.rule
                        => old.impactedSince = new.impactedSince]_vars
    <2> SUFFICES ASSUME HitInv', CreatedAtKept, ImpactedSinceKept,
                        NEW old \in ruleHit, NEW row \in report',
                        row.cluster = old.cluster, old.rule \in row.hits
                 PROVE  Dates(old) = {old.createdAt}
      BY DEF ImpactedSinceKept
    <2>1. RulesOf(Owned(ruleHit', row.cluster, row.org)) = row.hits
      BY DEF HitInv, SafetyInv, WriterInv, RuleHitsMatchReport
    <2>2. PICK x \in ruleHit' : x.cluster = old.cluster /\ x.rule = old.rule
      BY <2>1 DEF RulesOf, Owned
    <2>3. \A y \in ruleHit' : y.cluster = old.cluster /\ y.rule = old.rule
              => y.createdAt = old.createdAt
      BY DEF CreatedAtKept
    <2> QED  BY <2>2, <2>3
  <1> QED  BY <1>1, <1>2, <1>3, PTL DEF Spec, HitSinceIsKept

-----------------------------------------------------------------------------
\* Rows of user data.  A request is only made for a cluster that has a report, and
\* a report is never removed: the first report of a cluster meets no user rows.

UserRowsHaveReport ==
    \A row \in userRows \union request : HasReport(row.cluster, 0)

UserInv == SafetyInv /\ UserRowsHaveReport

\* Every report is recent enough to be some report.
LEMMA AnyReport ==
    ASSUME TypeOK, NEW c
    PROVE  HasReport(c, 0) <=> \E row \in report : row.cluster = c
  <1>1. \A row \in report : row.lastChecked >= 0  BY DEF TypeOK, ReportRow, Time
  <1> QED  BY <1>1 DEF HasReport

LEMMA UserRowsHaveReportStep ==
    ASSUME ~Debug, UserInv, SafetyInv', [Next]_vars
    PROVE  UserRowsHaveReport'
  <1>1. SafetyInv /\ TypeOK  BY DEF UserInv, SafetyInv
  <1>2. ASSUME NEW x \in userRows' \union request', NEW y \in userRows \union request,
               x.cluster = y.cluster
        PROVE  HasReport(x.cluster, 0)'
    <2>1. HasReport(y.cluster, 0)  BY DEF UserInv, UserRowsHaveReport
    <2>2. HasReport(y.cluster, 0)'  BY <1>1, <2>1, HasReportKept
    <2> QED  BY <1>2, <2>2
  <1>3. CASE UNCHANGED <<userRows, request>>  BY <1>2, <1>3 DEF UserRowsHaveReport
  <1>4. ASSUME NEW p \in Partitions, UpdateOrgID(p) PROVE UserRowsHaveReport'
    <2>1. CASE UNCHANGED tables  BY <1>3, <1>4, <2>1 DEF UpdateOrgID, tables, env
    <2>2. CASE userRows' = SetOrg(userRows, Msg(p).cluster, Msg(p).org)
      <3>1. ASSUME NEW x \in userRows' PROVE \E y \in userRows : x.cluster = y.cluster
        <4>1. PICK y \in userRows :
                  x = IF y.cluster = Msg(p).cluster THEN [y EXCEPT !.org = Msg(p).org] ELSE y
          BY <2>2, <3>1 DEF SetOrg
        <4> QED  BY <1>1, <4>1 DEF TypeOK, UserRow
      <3>2. UNCHANGED request  BY <1>4 DEF UpdateOrgID, env
      <3> QED  BY <1>2, <3>1, <3>2 DEF UserRowsHaveReport
    <2> QED  BY <1>4, <2>1, <2>2 DEF UpdateOrgID, UpdateOrgIDForCluster
  <1>5. ASSUME NEW t \in UserTables, NEW c \in Clusters, NEW o \in Orgs, CheckRequest(t, c, o)
        PROVE  UserRowsHaveReport'
    <2> DEFINE q == [table |-> t, cluster |-> c, org |-> o]
    <2>1. q.cluster = c  OBVIOUS
    <2>2. request' = request \union {q} /\ UNCHANGED <<report, userRows>>
      BY <1>5 DEF CheckRequest, tables
    <2>3. \E row \in report : row.cluster = c  BY <1>5 DEF CheckRequest, Of
    <2>4. HasReport(c, 0)  BY <1>1, <2>3, AnyReport
    <2>5. HasReport(c, 0)'  BY <1>1, <2>4, HasReportKept
    <2> HIDE DEF q
    <2> QED  BY <1>2, <2>1, <2>2, <2>5 DEF UserRowsHaveReport
  <1>6. ASSUME NEW q \in request, ServeRequest(q) PROVE UserRowsHaveReport'
    <2>1. userRows' \subseteq userRows \union request /\ request' \subseteq request
      BY <1>6 DEF ServeRequest
    <2> QED  BY <1>2, <2>1 DEF UserRowsHaveReport
  <1>7. \/ UNCHANGED <<userRows, request>>
        \/ \E p \in Partitions : UpdateOrgID(p)
        \/ \E t \in UserTables, c \in Clusters, o \in Orgs : CheckRequest(t, c, o)
        \/ \E q \in request : ServeRequest(q)
    BY DEF Next, vars, tables, env, HandleStep, StartMessage, CheckReport, UpdateReport,
       WriteTables, LookUpRecommendations, ReplaceRecommendations, AddRecommendations,
       SetRecommendations, WriteInfo, UpsertInfo, WriteConsumerError, SendDeadLetter,
       MarkMessage, CommitOffsets, Produce, Rebalance, LoseSession, Crash, Tick,
       DeleteReportsForOrg, DeleteReportsForCluster
  <1> QED  BY <1>3, <1>4, <1>5, <1>6, <1>7

LEMMA UserRowsOwnedStep ==
    ASSUME ~Debug, UserInv, [Next]_vars, UNCHANGED request,
           NEW c \in Clusters, UserRowsOwned(c)
    PROVE  UserRowsOwned(c)'
  <1>1. SafetyInv /\ TypeOK  BY DEF UserInv, SafetyInv
  <1>2. CASE UNCHANGED <<report, userRows>>  BY <1>2 DEF UserRowsOwned, Of
  <1>3. ASSUME NEW p \in Partitions, UpdateOrgID(p) PROVE UserRowsOwned(c)'
    <2>1. CASE UNCHANGED tables  BY <1>2, <2>1 DEF tables
    <2>2. CASE /\ report' = SetOrg(report, Msg(p).cluster, Msg(p).org)
               /\ userRows' = SetOrg(userRows, Msg(p).cluster, Msg(p).org)
      <3> SUFFICES ASSUME NEW x \in userRows', NEW y \in report',
                          x.cluster = c, y.cluster = c
                   PROVE  x.org = y.org
        BY DEF UserRowsOwned, Of
      <3>1. PICK a \in userRows :
                x = IF a.cluster = Msg(p).cluster THEN [a EXCEPT !.org = Msg(p).org] ELSE a
        BY <2>2 DEF SetOrg
      <3>2. PICK b \in report :
                y = IF b.cluster = Msg(p).cluster THEN [b EXCEPT !.org = Msg(p).org] ELSE b
        BY <2>2 DEF SetOrg
      <3>3. a.cluster = c /\ b.cluster = c
        BY <1>1, <3>1, <3>2 DEF TypeOK, UserRow, ReportRow
      <3>4. CASE c = Msg(p).cluster
        BY <1>1, <3>1, <3>2, <3>3, <3>4 DEF TypeOK, UserRow, ReportRow
      <3>5. CASE c # Msg(p).cluster
        BY <3>1, <3>2, <3>3, <3>5 DEF UserRowsOwned, Of
      <3> QED  BY <3>4, <3>5
    <2> QED  BY <1>3, <2>1, <2>2 DEF UpdateOrgID, UpdateOrgIDForCluster
  <1>4. ASSUME NEW p \in Partitions, UpdateReport(p) PROVE UserRowsOwned(c)'
    <2>1. CASE UNCHANGED tables  BY <1>2, <2>1 DEF tables
    <2>2. CASE WriteTables(Msg(p), job[p].known)
      <3> DEFINE new == ReportRowOf(Msg(p))
      <3>1. /\ new.cluster = Msg(p).cluster /\ new.org = Msg(p).org
            /\ report' = (report \ Of(report, Msg(p).cluster)) \union {new}
            /\ UNCHANGED userRows
        BY <2>2 DEF WriteTables, ReportRowOf
      <3> HIDE DEF new
      <3>2. CASE c # Msg(p).cluster  BY <3>1, <3>2 DEF UserRowsOwned, Of
      <3>3. CASE c = Msg(p).cluster
        \* The user rows agree with the report before, whose organization is settled.
        <4>1. ASSUME NEW x \in userRows, x.cluster = c PROVE x.org = Msg(p).org
          <5>1. HasReport(c, 0)  BY <4>1 DEF UserInv, UserRowsHaveReport
          <5>2. PICK y \in report : y.cluster = c  BY <1>1, <5>1, AnyReport
          <5>3. x.org = y.org  BY <4>1, <5>2 DEF UserRowsOwned, Of
          <5>4. y.org = Msg(p).org
            BY <1>1, <1>4, <3>3, <5>2
               DEF SafetyInv, WriterInv, OrgSettled, Rows, Writing, UpdateReport
          <5> QED  BY <5>3, <5>4
        <4> QED  BY <3>1, <3>3, <4>1 DEF UserRowsOwned, Of
      <3> QED  BY <3>2, <3>3
    <2> QED  BY <1>4, <2>1, <2>2 DEF UpdateReport
  <1>5. ASSUME NEW q \in request, ServeRequest(q) PROVE FALSE  BY <1>5 DEF ServeRequest
  <1>6. \/ UNCHANGED <<report, userRows>>
        \/ \E p \in Partitions : UpdateOrgID(p) \/ UpdateReport(p)
        \/ \E q \in request : ServeRequest(q)
    BY DEF Next, vars, tables, HandleStep, StartMessage, CheckReport, LookUpRecommendations,
       ReplaceRecommendations, AddRecommendations, SetRecommendations, WriteInfo, UpsertInfo,
       WriteConsumerError, SendDeadLetter, MarkMessage, CommitOffsets, Produce, Rebalance,
       LoseSession, Crash, Tick, CheckRequest, DeleteReportsForOrg, DeleteReportsForCluster
  <1> QED  BY <1>2, <1>3, <1>4, <1>5, <1>6

\* Only a REST request separates toggles and feedback from the organization of their
\* cluster, by writing the one of its path; no step of the writer does.
THEOREM UserRowsStayOwned ==
    ASSUME KeyedByCluster, ~Debug
    PROVE  Spec => WriterKeepsUserRowsOwned
  <1>1. Init => UserInv
    BY SafetyInit DEF Init, UserInv, UserRowsHaveReport
  <1>2. UserInv /\ [Next]_vars => UserInv'
    BY SafetyStep, UserRowsHaveReportStep DEF UserInv
  <1>3. UserInv /\ [Next]_vars =>
            [\A c \in Clusters :
                 UserRowsOwned(c) /\ request' = request => UserRowsOwned(c)']_vars
    BY UserRowsOwnedStep
  <1> QED  BY <1>1, <1>2, <1>3, PTL DEF Spec, WriterKeepsUserRowsOwned
=============================================================================
