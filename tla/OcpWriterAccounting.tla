------------------------- MODULE OcpWriterAccounting -------------------------
(***************************************************************************)
(* Proofs that a report is only called old when a report at least as       *)
(* recent is stored, that no consumed message is lost without a trace, and *)
(* that redelivery converges, for every number of replicas, partitions,    *)
(* clusters, messages, crashes and lost sessions, statements and look-ups  *)
(* that may fail, keyed topics and no DELETE endpoints.  For the first two *)
(* COMMIT must not fail: the run cache_before_commit shows why.            *)
(***************************************************************************)
EXTENDS OcpWriterSafety

AccountingAssumptions == KeyedByCluster /\ ~Debug /\ "commit" \notin Faults

\* Once the database has a report of c as recent as t, it keeps one.
LEMMA HasReportKept ==
    ASSUME ~Debug, SafetyInv, [Next]_vars, NEW c, NEW t \in Nat, HasReport(c, t)
    PROVE  HasReport(c, t)'
  <1>1. PICK old \in report : old.cluster = c /\ old.lastChecked >= t  BY DEF HasReport
  <1>2. TypeOK /\ TypeOK'
    BY TypeStep DEF SafetyInv, WriterInv, TypeInv
  <1>3. \E new \in report' : new.cluster = c
    <2>1. CASE UNCHANGED report  BY <1>1, <2>1
    <2>2. ASSUME NEW p \in Partitions, UpdateOrgID(p) PROVE \E new \in report' : new.cluster = c
      <3>1. CASE UNCHANGED report  BY <1>1, <3>1
      <3>2. CASE report' = SetOrg(report, Msg(p).cluster, Msg(p).org)
        <4> DEFINE new == IF old.cluster = Msg(p).cluster
                          THEN [old EXCEPT !.org = Msg(p).org] ELSE old
        <4>1. new \in report'  BY <3>2, <1>1 DEF SetOrg
        <4>2. new.cluster = c  BY <1>1, <1>2 DEF TypeOK, ReportRow
        <4> QED  BY <4>1, <4>2
      <3> QED  BY <2>2, <3>1, <3>2 DEF UpdateOrgID, UpdateOrgIDForCluster, tables
    <2>3. ASSUME NEW p \in Partitions, UpdateReport(p) PROVE \E new \in report' : new.cluster = c
      <3>1. CASE UNCHANGED report  BY <1>1, <3>1
      <3>2. CASE WriteTables(Msg(p), job[p].known)
        <4>1. /\ report' = (report \ Of(report, Msg(p).cluster)) \union {ReportRowOf(Msg(p))}
              /\ ReportRowOf(Msg(p)).cluster = Msg(p).cluster
          BY <3>2 DEF WriteTables, ReportRowOf
        <4>2. CASE c = Msg(p).cluster  BY <4>1, <4>2
        <4>3. CASE c # Msg(p).cluster  BY <1>1, <4>1, <4>3 DEF Of
        <4> QED  BY <4>2, <4>3
      <3> QED  BY <2>3, <3>1, <3>2 DEF UpdateReport, tables
    <2>4. \/ UNCHANGED report
          \/ \E p \in Partitions : UpdateOrgID(p) \/ UpdateReport(p)
      BY DEF Next, vars, tables, HandleStep, StartMessage, CheckReport, LookUpRecommendations,
         ReplaceRecommendations, AddRecommendations, SetRecommendations, WriteInfo, UpsertInfo,
         WriteConsumerError, SendDeadLetter, MarkMessage, CommitOffsets, Produce, Rebalance,
         LoseSession, Crash, Tick, CheckRequest, ServeRequest, DeleteReportsForOrg,
         DeleteReportsForCluster
    <2> QED  BY <2>1, <2>2, <2>3, <2>4
  <1>4. PICK new \in report' : new.cluster = c  BY <1>3
  <1>5. old.lastChecked <= new.lastChecked  BY <1>1, <1>4, NotOlderStep DEF SafetyInv, WriterInv
  <1>6. old.lastChecked \in Nat /\ new.lastChecked \in Nat
    BY <1>1, <1>2, <1>4 DEF TypeOK, ReportRow, Time
  <1>7. new.lastChecked >= t  BY <1>1, <1>5, <1>6
  <1> QED  BY <1>4, <1>7 DEF HasReport

\* The log is only appended to.
LEMMA LogKept ==
    ASSUME TypeOK, [Next]_vars, NEW p \in Partitions, NEW i \in 1..Len(log[p])
    PROVE  log'[p][i] = log[p][i]
  <1>1. ASSUME NEW q \in Partitions, NEW m \in Messages, Produce(q, m)
        PROVE  log'[p][i] = log[p][i]
    <2>1. log' = [log EXCEPT ![q] = Append(log[q], m)]  BY <1>1 DEF Produce
    <2>2. log[p] \in Seq(Messages)  BY DEF TypeOK
    <2>3. Append(log[p], m)[i] = log[p][i]  BY <2>2
    <2> QED  BY <2>1, <2>3 DEF TypeOK
  <1>2. ASSUME NEW q \in Partitions, HandleStep(q) PROVE UNCHANGED log
    BY <1>2 DEF HandleStep, StartMessage, UpdateOrgID, CheckReport, UpdateReport,
        LookUpRecommendations, ReplaceRecommendations, AddRecommendations, WriteInfo,
        WriteConsumerError, SendDeadLetter, MarkMessage, kafka
  <1> QED
    BY <1>1, <1>2 DEF Next, vars, kafka, CommitOffsets, Rebalance, LoseSession, Crash, Tick,
       CheckRequest, ServeRequest, DeleteReportsForOrg, DeleteReportsForCluster

\* Nothing is removed from the sinks.
LEMMA SinksKept ==
    ASSUME [Next]_vars
    PROVE  deadLetter \subseteq deadLetter' /\ consumerError \subseteq consumerError'
  BY DEF Next, vars, sinks, HandleStep, StartMessage, UpdateOrgID, CheckReport, UpdateReport,
     LookUpRecommendations, ReplaceRecommendations, AddRecommendations, WriteInfo,
     WriteConsumerError, SendDeadLetter, MarkMessage, CommitOffsets, Produce, Rebalance,
     LoseSession, Crash, Tick, CheckRequest, ServeRequest,
     DeleteReportsForOrg, DeleteReportsForCluster

\* A message that is accounted for stays so.
LEMMA AccountedKept ==
    ASSUME ~Debug, SafetyInv, [Next]_vars, NEW p \in Partitions, NEW i \in 1..Len(log[p]),
           Accounted(p, i)
    PROVE  Accounted(p, i)'
  <1>1. TypeOK  BY DEF SafetyInv
  <1>2. log[p][i] \in Message  BY <1>1, ConstantsAssumption DEF TypeOK
  <1>3. log[p][i].lastChecked \in Nat  BY <1>2, MsgFields
  <1>4. log'[p][i] = log[p][i]  BY <1>1, LogKept
  <1>5. deadLetter \subseteq deadLetter' /\ consumerError \subseteq consumerError'  BY SinksKept
  <1>6. HasReport(log[p][i].cluster, log[p][i].lastChecked)
            => HasReport(log[p][i].cluster, log[p][i].lastChecked)'
    BY <1>3, <1>4, HasReportKept
  <1> QED  BY <1>4, <1>5, <1>6 DEF Accounted, HasReport

-----------------------------------------------------------------------------
\* A date enters a cache together with its report.
LEMMA CacheStep ==
    ASSUME AccountingAssumptions, SafetyInv, CacheInDatabase, [Next]_vars
    PROVE  CacheInDatabase'
  <1>1. TypeOK /\ ~Debug /\ "commit" \notin Faults  BY DEF SafetyInv, AccountingAssumptions
  <1>2. SUFFICES ASSUME NEW r \in Replicas, NEW c \in Clusters, cache'[r][c] # NoTime
                 PROVE  HasReport(c, cache[r][c])'
    BY DEF CacheInDatabase, HasReport
  <1>3. ASSUME cache'[r][c] = cache[r][c] PROVE HasReport(c, cache[r][c])'
    <2>1. HasReport(c, cache[r][c]) /\ cache[r][c] \in Nat
      BY <1>1, <1>2, <1>3 DEF CacheInDatabase, TypeOK
    <2>2. ASSUME NEW t \in Nat, HasReport(c, t) PROVE HasReport(c, t)'
      BY <1>1, <2>2, HasReportKept
    <2>3. \A t \in Nat : HasReport(c, t) =>
              \E row \in report' : row.cluster = c /\ row.lastChecked >= t
      BY <2>2 DEF HasReport
    <2> QED  BY <1>3, <2>1, <2>3 DEF HasReport
  <1>4. ASSUME NEW p \in Partitions, UpdateReport(p) PROVE HasReport(c, cache[r][c])'
    <2>1. CASE UNCHANGED cache  BY <1>3, <2>1
    <2>2. CASE WriteTables(Msg(p), job[p].known) /\ SetCache(p)
      <3>1. CASE r = owner[p] /\ c = Msg(p).cluster
        <4>1. cache'[r][c] = Msg(p).lastChecked  BY <1>1, <2>2, <3>1 DEF SetCache, TypeOK
        <4>2. position[p] < Len(log[p])  BY <1>1, <1>4 DEF UpdateReport, TypeOK
        <4>3. Msg(p).lastChecked \in Nat  BY <1>1, <4>2, MsgType, MsgFields
        <4>4. ReportRowOf(Msg(p)) \in report'  BY <2>2 DEF WriteTables
        <4>5. /\ ReportRowOf(Msg(p)).cluster = c
              /\ ReportRowOf(Msg(p)).lastChecked >= Msg(p).lastChecked
          BY <3>1, <4>3 DEF ReportRowOf
        <4> QED  BY <4>1, <4>4, <4>5 DEF HasReport
      <3>2. CASE r # owner[p] \/ c # Msg(p).cluster
        <4>1. cache'[r][c] = cache[r][c]  BY <1>1, <2>2, <3>2 DEF SetCache, TypeOK
        <4> QED  BY <1>3, <4>1
      <3> QED  BY <3>1, <3>2
    <2> QED  BY <1>1, <1>4, <2>1, <2>2 DEF UpdateReport
  <1>5. ASSUME NEW s \in Replicas, Crash(s) PROVE HasReport(c, cache[r][c])'
    <2>1. cache' = [cache EXCEPT ![s] = [d \in Clusters |-> NoTime]]  BY <1>5 DEF Crash
    <2>2. cache'[r][c] = cache[r][c]  BY <1>1, <1>2, <2>1 DEF TypeOK
    <2> QED  BY <1>3, <2>2
  <1>6. \/ UNCHANGED cache
        \/ \E p \in Partitions : UpdateReport(p)
        \/ \E s \in Replicas : Crash(s)
    BY DEF Next, vars, HandleStep, StartMessage, UpdateOrgID, CheckReport, LookUpRecommendations,
       ReplaceRecommendations, AddRecommendations, WriteInfo, WriteConsumerError,
       SendDeadLetter, MarkMessage, CommitOffsets, Produce, Rebalance, LoseSession, Tick,
       CheckRequest, ServeRequest, DeleteReportsForOrg, DeleteReportsForCluster
  <1> QED  BY <1>3, <1>4, <1>5, <1>6

\* A claim that stays at its stage remains accounted for.
LEMMA ClaimKept ==
    ASSUME ~Debug, SafetyInv, [Next]_vars, NEW p \in Partitions, ClaimAccounted(p),
           job'[p].stage = job[p].stage, position'[p] = position[p]
    PROVE  ClaimAccounted(p)'
  <1>1. CASE job[p].stage = "idle"  BY <1>1 DEF ClaimAccounted, Writing
  <1>2. CASE job[p].stage # "idle"
    <2>1. position[p] < Len(log[p])  BY <1>2 DEF SafetyInv, TypeOK
    <2>2. position[p] + 1 \in 1..Len(log[p]) /\ Msg(p) \in Message
      BY <2>1, MsgType DEF SafetyInv
    <2>3. Msg(p)' = Msg(p)  BY <2>2, LogKept DEF Msg, SafetyInv
    <2>4. consumerError \subseteq consumerError'  BY SinksKept
    <2>5. Accounted(p, position[p] + 1) => Accounted(p, position[p] + 1)'
      BY <2>2, AccountedKept
    <2>6. HasReport(Msg(p).cluster, Msg(p).lastChecked)
              => HasReport(Msg(p).cluster, Msg(p).lastChecked)'
      <3>1. Msg(p).lastChecked \in Nat  BY <2>2, MsgFields
      <3>2. ASSUME NEW c, NEW t \in Nat, HasReport(c, t) PROVE HasReport(c, t)'
        BY <3>2, HasReportKept
      <3>3. \A c : \A t \in Nat : HasReport(c, t) =>
                \E row \in report' : row.cluster = c /\ row.lastChecked >= t
        BY <3>2 DEF HasReport
      <3> QED  BY <2>3, <3>1, <3>3 DEF HasReport
    <2> QED  BY <2>3, <2>4, <2>5, <2>6 DEF ClaimAccounted, Accounted
  <1> QED  BY <1>1, <1>2

\* Every way through HandleMessage ends with the message accounted for.
LEMMA ClaimStep ==
    ASSUME AccountingAssumptions, SafetyInv, CacheInDatabase, [Next]_vars,
           NEW p \in Partitions, ClaimAccounted(p)
    PROVE  ClaimAccounted(p)'
  <1>1. /\ TypeOK /\ JobOK /\ ~Debug /\ "commit" \notin Faults
        /\ \A q \in Partitions : job[q].stage \in Stages
    BY DEF SafetyInv, WriterInv, AccountingAssumptions, TypeOK, Job
  <1>2. TypeOK'  BY TypeStep DEF SafetyInv, WriterInv, TypeInv
  <1>i. ASSUME job'[p].stage \in {"idle", "fail"} PROVE ClaimAccounted(p)'
    BY <1>i DEF ClaimAccounted, Writing
  <1>k. ASSUME job'[p] = job[p], position'[p] = position[p] PROVE ClaimAccounted(p)'
    BY <1>1, <1>k, ClaimKept
  \* What the message and its report are after a step of the claim.
  <1>m. ASSUME position[p] < Len(log[p]), UNCHANGED kafka
        PROVE  /\ Msg(p)' = Msg(p) /\ Msg(p).lastChecked \in Nat
               /\ HasReport(Msg(p).cluster, Msg(p).lastChecked)
                      => HasReport(Msg(p).cluster, Msg(p).lastChecked)'
    <2>1. Msg(p)' = Msg(p)  BY <1>m DEF Msg, kafka
    <2>2. Msg(p).lastChecked \in Nat  BY <1>1, <1>m, MsgType, MsgFields
    <2>3. ASSUME NEW c, NEW t \in Nat, HasReport(c, t) PROVE HasReport(c, t)'
      BY <1>1, <2>3, HasReportKept
    <2>4. \A c : \A t \in Nat : HasReport(c, t) =>
              \E row \in report' : row.cluster = c /\ row.lastChecked >= t
      BY <2>3 DEF HasReport
    <2> QED  BY <2>1, <2>2, <2>4 DEF HasReport
  <1>s. ASSUME NEW s \in Stages, GoTo(p, s) PROVE job'[p].stage = s
    BY <1>1, <1>s, GoToType
  <1>3. ASSUME StartMessage(p) PROVE ClaimAccounted(p)'
    <2>1. position[p] < Len(log[p]) /\ UNCHANGED kafka  BY <1>3 DEF StartMessage
    <2>2. \/ Msg(p).kind = "empty" /\ GoTo(p, "mark")
          \/ GoTo(p, "fail")
          \/ Msg(p).kind = "valid" /\ GoTo(p, "org")
      BY <1>3 DEF StartMessage
    <2>3. \/ Msg(p).kind = "empty" /\ job'[p].stage = "mark"
          \/ job'[p].stage = "fail"
          \/ Msg(p).kind = "valid" /\ job'[p].stage = "org"
      BY <2>2, <1>s DEF Stages
    <2>4. Msg(p)' = Msg(p) /\ log'[p][position'[p] + 1] = Msg(p)  BY <2>1 DEF Msg, kafka
    <2> QED  BY <2>3, <2>4 DEF ClaimAccounted, Accounted, Writing
  <1>4. ASSUME UpdateOrgID(p) PROVE ClaimAccounted(p)'
    <2>1. job[p].stage = "org" /\ UNCHANGED kafka  BY <1>4 DEF UpdateOrgID
    <2>2. GoTo(p, "fail") \/ GoTo(p, "report")  BY <1>4 DEF UpdateOrgID
    <2>3. job'[p].stage \in {"fail", "report"}  BY <2>2, <1>s DEF Stages
    <2>4. Msg(p)' = Msg(p) /\ Msg(p).kind = "valid"  BY <2>1 DEF Msg, kafka, ClaimAccounted
    <2> QED  BY <2>3, <2>4 DEF ClaimAccounted
  <1>5. ASSUME CheckReport(p) PROVE ClaimAccounted(p)'
    <2>1. job[p].stage = "report" /\ UNCHANGED <<kafka, tables>>  BY <1>5 DEF CheckReport
    <2>2. position[p] < Len(log[p])  BY <1>1, <2>1 DEF TypeOK
    <2>3. Msg(p).kind = "valid" /\ Msg(p)' = Msg(p) /\ Msg(p).lastChecked \in Nat
      BY <1>m, <2>1, <2>2 DEF ClaimAccounted, Writing
    <2>4. CASE job'[p].stage = "fail"  BY <1>i, <2>4
    <2>5. CASE job'[p].stage = "apply"  BY <2>3, <2>5 DEF ClaimAccounted
    <2>6. CASE job'[p].stage = "recs" /\ (OldByCache(p) \/ NewerInDB(p))
      <3>1. job'[p].stage = "recs"  BY <2>6
      <3>2. Msg(p).cluster \in Clusters /\ owner[p] \in Replicas
        BY <1>1, <2>2, MsgType, MsgFields DEF TypeOK
      <3>3. CASE OldByCache(p)
        <4> DEFINE known == cache[owner[p]][Msg(p).cluster]
        <4>1. known # NoTime /\ Msg(p).lastChecked <= known  BY <3>3 DEF OldByCache
        <4>2. known \in Nat  BY <1>1, <3>2 DEF TypeOK
        <4>3. PICK row \in report : row.cluster = Msg(p).cluster /\ row.lastChecked >= known
          BY <3>2, <4>1 DEF CacheInDatabase, HasReport
        <4>4. row.lastChecked \in Nat  BY <1>1 DEF TypeOK, ReportRow, Time
        <4>5. row.lastChecked >= Msg(p).lastChecked  BY <2>3, <4>1, <4>2, <4>3, <4>4
        <4> QED  BY <4>3, <4>5, <2>1, <2>3, <3>1 DEF ClaimAccounted, HasReport, tables
      <3>4. CASE NewerInDB(p)
        <4>1. PICK row \in report :
                  row.cluster = Msg(p).cluster /\ row.lastChecked > Msg(p).lastChecked
          BY <3>4 DEF NewerInDB, Owned
        <4>2. row.lastChecked \in Nat  BY <1>1 DEF TypeOK, ReportRow, Time
        <4>3. row.lastChecked >= Msg(p).lastChecked  BY <2>3, <4>1, <4>2
        <4> QED  BY <4>1, <4>3, <2>1, <2>3, <3>1 DEF ClaimAccounted, HasReport, tables
      <3> QED  BY <2>6, <3>3, <3>4
    <2> QED  BY <1>1, <1>5, <2>4, <2>5, <2>6, CheckReportJob
  <1>6. ASSUME UpdateReport(p) PROVE ClaimAccounted(p)'
    <2>1. job[p].stage = "apply" /\ UNCHANGED kafka  BY <1>6 DEF UpdateReport
    <2>2. position[p] < Len(log[p])  BY <1>1, <2>1 DEF TypeOK
    <2>3. Msg(p).kind = "valid" /\ Msg(p)' = Msg(p) /\ Msg(p).lastChecked \in Nat
      BY <1>m, <2>1, <2>2 DEF ClaimAccounted, Writing
    <2>4. CASE job'[p].stage = "fail"  BY <1>i, <2>4
    <2>5. CASE job'[p].stage = "recs" /\ WriteTables(Msg(p), job[p].known)
      <3>1. job'[p].stage = "recs"  BY <2>5
      <3>2. ReportRowOf(Msg(p)) \in report'  BY <2>5 DEF WriteTables
      <3>3. /\ ReportRowOf(Msg(p)).cluster = Msg(p).cluster
            /\ ReportRowOf(Msg(p)).lastChecked >= Msg(p).lastChecked
        BY <2>3 DEF ReportRowOf
      <3> QED  BY <2>3, <3>1, <3>2, <3>3 DEF ClaimAccounted, HasReport
    <2> QED  BY <1>1, <1>6, <2>4, <2>5, UpdateReportJob
  <1>7. ASSUME LookUpRecommendations(p) \/ ReplaceRecommendations(p) \/ AddRecommendations(p)
        PROVE  ClaimAccounted(p)'
    <2>1. job[p].stage \in {"recs", "replace"} /\ UNCHANGED kafka
      BY <1>1, <1>7, RecommendationSteps DEF LookUpRecommendations
    <2>2. position[p] < Len(log[p])  BY <1>1, <2>1 DEF TypeOK
    <2>3. ASSUME ~LookUpRecommendations(p) PROVE job'[p].stage \in {"fail", "info"}
      <3>1. \E s \in {"info", "fail"} : GoTo(p, s)  BY <1>1, <1>7, <2>3, RecommendationSteps
      <3> QED  BY <3>1, <1>s DEF Stages
    <2>4. job'[p].stage \in {"fail", "info", "replace"}  BY <1>1, <2>3, LookUpJob
    <2>5. /\ Msg(p).kind = "valid" /\ Msg(p)' = Msg(p)
          /\ HasReport(Msg(p).cluster, Msg(p).lastChecked)'
      BY <1>m, <2>1, <2>2 DEF ClaimAccounted, Writing
    <2> QED  BY <2>4, <2>5 DEF ClaimAccounted, HasReport
  <1>8. ASSUME WriteInfo(p) PROVE ClaimAccounted(p)'
    <2>1. job[p].stage = "info" /\ UNCHANGED kafka  BY <1>8 DEF WriteInfo
    <2>2. position[p] < Len(log[p])  BY <1>1, <2>1 DEF TypeOK
    <2>3. GoTo(p, "fail") \/ GoTo(p, "mark")  BY <1>8 DEF WriteInfo
    <2>4. job'[p].stage \in {"fail", "mark"}  BY <2>3, <1>s DEF Stages
    <2>5. /\ Msg(p).kind = "valid" /\ Msg(p)' = Msg(p) /\ Msg(p).lastChecked # NoTime
          /\ HasReport(Msg(p).cluster, Msg(p).lastChecked)'
      BY <1>1, <1>m, <2>1, <2>2 DEF ClaimAccounted, Writing, JobOK, Time
    <2>6. Accounted(p, position[p] + 1)'
      <3>1. log'[p][position'[p] + 1] = Msg(p) /\ position'[p] = position[p]
        BY <2>1 DEF Msg, kafka
      <3> QED  BY <2>5, <3>1 DEF Accounted, HasReport, Msg
    <2> QED  BY <2>4, <2>6 DEF ClaimAccounted, Writing
  <1>9. ASSUME WriteConsumerError(p) PROVE ClaimAccounted(p)'
    <2>1. GoTo(p, "deadLetter") /\ UNCHANGED kafka  BY <1>9 DEF WriteConsumerError
    <2>2. job'[p].stage = "deadLetter"  BY <2>1, <1>s DEF Stages
    <2>3. position'[p] = position[p]  BY <2>1 DEF kafka
    <2>4. SinksWork => <<p, position[p] + 1>> \in consumerError'
      BY <1>9 DEF WriteConsumerError, SinksWork
    <2> QED  BY <2>2, <2>3, <2>4 DEF ClaimAccounted, Writing
  <1>10. ASSUME SendDeadLetter(p) PROVE ClaimAccounted(p)'
    <2>1. /\ job[p].stage = "deadLetter" /\ GoTo(p, "mark") /\ UNCHANGED <<kafka, consumerError>>
      BY <1>10 DEF SendDeadLetter
    <2>2. job'[p].stage = "mark"  BY <2>1, <1>s DEF Stages
    <2>3. position'[p] = position[p]  BY <2>1 DEF kafka
    <2>4. SinksWork => /\ <<p, position[p] + 1>> \in deadLetter'
                       /\ <<p, position[p] + 1>> \in consumerError'
      BY <1>10, <2>1 DEF SendDeadLetter, SinksWork, ClaimAccounted
    <2> QED  BY <2>2, <2>3, <2>4 DEF ClaimAccounted, Accounted, Writing
  <1>11. ASSUME MarkMessage(p) PROVE ClaimAccounted(p)'
    <2>1. job'[p].stage = "idle"  BY <1>1, <1>11 DEF MarkMessage, TypeOK, Idle
    <2> QED  BY <1>i, <2>1
  <1>12. ASSUME HandleStep(p) PROVE ClaimAccounted(p)'
    BY <1>3, <1>4, <1>5, <1>6, <1>7, <1>8, <1>9, <1>10, <1>11, <1>12 DEF HandleStep
  <1> QED  BY <1>1, <1>i, <1>k, <1>12, ClaimSteps

\* Offsets move over messages that are accounted for.
LEMMA LostStep ==
    ASSUME AccountingAssumptions, SinksWork, SafetyInv, [Next]_vars, NothingSilentlyLost,
           \A p \in Partitions : ClaimAccounted(p)
    PROVE  NothingSilentlyLost'
  <1>1. TypeOK /\ ~Debug  BY DEF SafetyInv, AccountingAssumptions
  <1>2. SUFFICES ASSUME NEW p \in Partitions, NEW i \in 1..position'[p]
                 PROVE  Accounted(p, i)'
    BY DEF NothingSilentlyLost
  <1>3. /\ position[p] \in Nat /\ Len(log[p]) \in Nat /\ position[p] <= Len(log[p])
        /\ committed[p] \in Nat /\ committed[p] <= position[p]
    BY <1>1 DEF TypeOK
  <1>4. ASSUME i \in 1..position[p] PROVE Accounted(p, i)'
    <2>1. Accounted(p, i) /\ i \in 1..Len(log[p])  BY <1>3, <1>4 DEF NothingSilentlyLost
    <2> QED  BY <1>1, <2>1, AccountedKept
  <1>5. ASSUME MarkMessage(p) PROVE Accounted(p, i)'
    <2>1. job[p].stage = "mark" /\ position'[p] = position[p] + 1
      BY <1>1, <1>5 DEF MarkMessage, TypeOK
    <2>2. Accounted(p, position[p] + 1)  BY <2>1 DEF ClaimAccounted
    <2>3. position[p] + 1 \in 1..Len(log[p])
      <3>1. position[p] < Len(log[p])  BY <1>1, <2>1 DEF TypeOK
      <3> QED  BY <1>3, <3>1
    <2>4. CASE i = position[p] + 1  BY <1>1, <2>2, <2>3, <2>4, AccountedKept
    <2>5. CASE i # position[p] + 1
      <3>1. i \in 1..position[p]  BY <1>3, <2>1, <2>5
      <3> QED  BY <1>4, <3>1
    <2> QED  BY <2>4, <2>5
  <1>6. ASSUME position'[p] \in {position[p], committed[p]} PROVE Accounted(p, i)'
    BY <1>3, <1>4, <1>6
  <1>7. ASSUME HandleStep(p), ~MarkMessage(p) PROVE position'[p] = position[p]
    BY <1>7 DEF HandleStep, StartMessage, UpdateOrgID, CheckReport, UpdateReport,
       LookUpRecommendations, ReplaceRecommendations, AddRecommendations, WriteInfo,
       WriteConsumerError, SendDeadLetter, kafka
  <1> QED  BY <1>1, <1>5, <1>6, <1>7, ClaimSteps

-----------------------------------------------------------------------------

LEMMA AccountingInit == Init => AccountingInv
  <1> SUFFICES ASSUME Init PROVE AccountingInv  OBVIOUS
  <1>1. \A p \in Partitions : job[p].stage = "idle" /\ position[p] = 0  BY DEF Init, Idle
  <1>2. \A p \in Partitions : ClaimAccounted(p)  BY <1>1 DEF ClaimAccounted, Writing
  <1>3. NothingSilentlyLost  BY <1>1 DEF NothingSilentlyLost
  <1>4. CacheInDatabase  BY DEF Init, CacheInDatabase
  <1> QED  BY <1>2, <1>3, <1>4 DEF AccountingInv

\* The invariant of the accounting holds in every reachable state.
THEOREM AccountingSafe ==
    ASSUME AccountingAssumptions
    PROVE  Spec => []AccountingInv
  <1>1. SafetyInv /\ [Next]_vars => SafetyInv'  BY SafetyStep DEF AccountingAssumptions
  <1>2. SafetyInv /\ AccountingInv /\ [Next]_vars => AccountingInv'
    <2> SUFFICES ASSUME SafetyInv, AccountingInv, [Next]_vars PROVE AccountingInv'  OBVIOUS
    <2>1. CacheInDatabase'  BY CacheStep DEF AccountingInv
    <2>2. \A p \in Partitions : ClaimAccounted(p)'  BY ClaimStep DEF AccountingInv
    <2>3. SinksWork => NothingSilentlyLost'  BY LostStep DEF AccountingInv
    <2>4. SinksWork' = SinksWork  BY DEF SinksWork
    <2> QED  BY <2>1, <2>2, <2>3, <2>4 DEF AccountingInv
  <1> QED  BY <1>1, <1>2, SafetyInit, AccountingInit, PTL DEF Spec

\* WriteReportForCluster refuses a report as old only when the report table holds
\* one of its cluster that is at least as recent.
THEOREM OldReportsAreStored ==
    ASSUME AccountingAssumptions
    PROVE  Spec => []OldReportIsInDatabase
  <1>1. Spec => []AccountingInv  BY AccountingSafe
  <1>2. AccountingInv => OldReportIsInDatabase
    BY DEF AccountingInv, ClaimAccounted, OldReportIsInDatabase
  <1> QED  BY <1>1, <1>2, PTL

\* With working sinks, a message that ConsumeClaim has marked was empty, is stored
\* or superseded in the report table, or is in consumer_error and in the dead
\* letter topic.
THEOREM NothingLost ==
    ASSUME AccountingAssumptions, SinksWork
    PROVE  Spec => []NothingSilentlyLost
  <1>1. Spec => []AccountingInv  BY AccountingSafe
  <1>2. AccountingInv => NothingSilentlyLost  BY DEF AccountingInv
  <1> QED  BY <1>1, <1>2, PTL

-----------------------------------------------------------------------------
(***************************************************************************)
(* Redelivery: all tables agree on the last report of a cluster once it    *)
(* has been handled.  Here COMMIT may fail as well.                        *)
(***************************************************************************)
\* A report that comes as far as the database was parsed and its organization
\* is allowed.
LEMMA ClaimValidStep ==
    ASSUME TypeOK, ClaimValid, [Next]_vars
    PROVE  ClaimValid'
  \* A claim that is being written was being written, or has just been started.
  <1>s. ASSUME NEW p \in Partitions, UNCHANGED kafka, NEW s, job'[p].stage = s,
               s \in Writing \union {"org"} => job[p].stage \in Writing \union {"org"},
               \A q \in Partitions \ {p} : job'[q] = job[q]
        PROVE  ClaimValid'
    BY <1>s DEF ClaimValid, kafka, Msg
  <1>g. ASSUME NEW p \in Partitions, UNCHANGED kafka, NEW s \in Stages, GoTo(p, s),
               s \in Writing \union {"org"} => job[p].stage \in Writing \union {"org"}
        PROVE  ClaimValid'
    BY <1>g, <1>s, GoToType
  <1> USE DEF Stages, Writing
  <1>1. ASSUME NEW p \in Partitions, StartMessage(p) PROVE ClaimValid'
    <2>1. UNCHANGED kafka  BY <1>1 DEF StartMessage
    <2>2. CASE Msg(p).kind = "valid" /\ Msg(p).org \in AllowedOrgs /\ GoTo(p, "org")
      <3>1. \A q \in Partitions : Msg(q)' = Msg(q)  BY <2>1 DEF kafka, Msg
      <3>2. \A q \in Partitions \ {p} : job'[q] = job[q]  BY <2>2, GoToType
      <3> QED  BY <2>2, <3>1, <3>2 DEF ClaimValid
    <2>3. CASE GoTo(p, "mark") \/ GoTo(p, "fail")  BY <2>1, <2>3, <1>g
    <2> QED  BY <1>1, <2>2, <2>3 DEF StartMessage
  <1>2. ASSUME NEW p \in Partitions, UpdateOrgID(p) PROVE ClaimValid'
    <2>1. /\ job[p].stage = "org" /\ UNCHANGED kafka
          /\ GoTo(p, "fail") \/ GoTo(p, "report")
      BY <1>2 DEF UpdateOrgID
    <2> QED  BY <2>1, <1>g
  <1>3. ASSUME NEW p \in Partitions, CheckReport(p) PROVE ClaimValid'
    <2>1. /\ job[p].stage = "report" /\ UNCHANGED kafka
          /\ \A q \in Partitions \ {p} : job'[q] = job[q]
      BY <1>3, CheckReportJob DEF CheckReport
    <2> QED  BY <2>1, <1>s
  <1>4. ASSUME NEW p \in Partitions, UpdateReport(p) PROVE ClaimValid'
    <2>1. /\ job[p].stage = "apply" /\ UNCHANGED kafka
          /\ \A q \in Partitions \ {p} : job'[q] = job[q]
      BY <1>4, UpdateReportJob DEF UpdateReport
    <2> QED  BY <2>1, <1>s
  <1>5. ASSUME NEW p \in Partitions, LookUpRecommendations(p) \/ ReplaceRecommendations(p)
                                         \/ AddRecommendations(p) \/ WriteInfo(p)
        PROVE  ClaimValid'
    <2>1. CASE LookUpRecommendations(p)
      <3>1. /\ job[p].stage = "recs" /\ UNCHANGED kafka
            /\ \A q \in Partitions \ {p} : job'[q] = job[q]
        BY <2>1, LookUpJob DEF LookUpRecommendations
      <3> QED  BY <3>1, <1>s
    <2>2. CASE ~LookUpRecommendations(p)
      <3>1. /\ job[p].stage \in {"recs", "replace", "info"} /\ UNCHANGED kafka
            /\ \E s \in {"info", "mark", "fail"} : GoTo(p, s)
        BY <1>5, <2>2, RecommendationSteps DEF WriteInfo
      <3> QED  BY <3>1, <1>g
    <2> QED  BY <2>1, <2>2
  <1>6. ASSUME NEW p \in Partitions, WriteConsumerError(p) \/ SendDeadLetter(p)
        PROVE  ClaimValid'
    <2>1. UNCHANGED kafka /\ \E s \in {"deadLetter", "mark"} : GoTo(p, s)
      BY <1>6 DEF WriteConsumerError, SendDeadLetter
    <2> QED  BY <2>1, <1>g
  \* Steps after which every job in progress is as it was before.
  <1>r. ASSUME \A p \in Partitions : job'[p].stage # "idle" =>
                   job'[p] = job[p] /\ Msg(p)' = Msg(p)
        PROVE  ClaimValid'
    BY <1>r DEF ClaimValid
  <1>7. ASSUME NEW p \in Partitions, MarkMessage(p) PROVE ClaimValid'
    <2>1. /\ job'[p].stage = "idle" /\ UNCHANGED log
          /\ \A q \in Partitions \ {p} : job'[q] = job[q] /\ position'[q] = position[q]
      BY <1>7 DEF MarkMessage, TypeOK, Idle
    <2> QED  BY <2>1, <1>r DEF Msg
  <1>8. ASSUME NEW p \in Partitions, NEW m \in Messages, Produce(p, m) PROVE ClaimValid'
    <2>1. log' = [log EXCEPT ![p] = Append(log[p], m)] /\ UNCHANGED <<position, job>>
      BY <1>8 DEF Produce
    <2>2. ASSUME NEW q \in Partitions, job[q].stage # "idle" PROVE Msg(q)' = Msg(q)
      <3>1. log[q] \in Seq(Messages) /\ position[q] + 1 \in 1..Len(log[q])
        BY <2>2, MsgType DEF TypeOK
      <3> QED  BY <2>1, <3>1 DEF Msg, TypeOK
    <2> QED  BY <2>1, <2>2, <1>r
  <1>9. ASSUME NEW r \in Replicas, Crash(r) PROVE ClaimValid'
    <2>1. \A p \in Partitions :
              job'[p].stage = "idle" \/ (job'[p] = job[p] /\ position'[p] = position[p])
      BY <1>9 DEF Crash, Idle
    <2> QED  BY <1>9, <2>1, <1>r DEF Msg, Crash
  <1>10. ASSUME NEW p \in Partitions, NEW r \in Replicas, LoseSession(p, r) PROVE ClaimValid'
    <2>1. \A q \in Partitions : job'[q].stage # "idle" =>
              job'[q] = job[q] /\ position'[q] = position[q]
      BY <1>10 DEF LoseSession, TypeOK
    <2> QED  BY <1>10, <2>1, <1>r DEF Msg, LoseSession
  <1>11. ASSUME UNCHANGED <<log, position, job>> PROVE ClaimValid'
    BY <1>11, <1>r DEF Msg
  <1> QED
    BY <1>1, <1>2, <1>3, <1>4, <1>5, <1>6, <1>7, <1>8, <1>9, <1>10, <1>11
       DEF Next, HandleStep, vars, kafka, env, CommitOffsets, Rebalance, Tick,
           CheckRequest, ServeRequest, DeleteReportsForOrg, DeleteReportsForCluster

-----------------------------------------------------------------------------
\* A partition only grows.
LEMMA LogGrows ==
    ASSUME TypeOK, TypeOK', [Next]_vars, NEW p \in Partitions
    PROVE  /\ Len(log[p]) \in Nat /\ Len(log'[p]) \in Nat /\ Len(log[p]) <= Len(log'[p])
           /\ DOMAIN log[p] = 1..Len(log[p]) /\ DOMAIN log'[p] = 1..Len(log'[p])
  <1>1. log[p] \in Seq(Messages) /\ log'[p] \in Seq(Messages)  BY DEF TypeOK
  <1>2. ASSUME NEW q \in Partitions, NEW m \in Messages, Produce(q, m)
        PROVE  Len(log[p]) <= Len(log'[p])
    <2>1. log' = [log EXCEPT ![q] = Append(log[q], m)]  BY <1>2 DEF Produce
    <2>2. Len(Append(log[p], m)) = Len(log[p]) + 1  BY <1>1
    <2> QED  BY <1>1, <2>1, <2>2 DEF TypeOK
  <1>3. ASSUME NEW q \in Partitions, HandleStep(q) PROVE UNCHANGED log
    BY <1>3 DEF HandleStep, StartMessage, UpdateOrgID, CheckReport, UpdateReport,
        LookUpRecommendations, ReplaceRecommendations, AddRecommendations, WriteInfo,
        WriteConsumerError, SendDeadLetter, MarkMessage, kafka
  <1>4. ASSUME UNCHANGED log PROVE Len(log[p]) <= Len(log'[p])  BY <1>1, <1>4
  <1>5. Len(log[p]) <= Len(log'[p])
    BY <1>2, <1>3, <1>4 DEF Next, vars, kafka, CommitOffsets, Rebalance, LoseSession, Crash, Tick,
       CheckRequest, ServeRequest, DeleteReportsForOrg, DeleteReportsForCluster
  <1> QED  BY <1>1, <1>5

\* A report that is the last one of its cluster has been so since it arrived.
LEMMA LastReportBefore ==
    ASSUME TypeOK, TypeOK', [Next]_vars, NEW p \in Partitions, NEW i \in 1..Len(log[p]),
           LastReport(p, i)'
    PROVE  LastReport(p, i)
  <1>1. /\ Len(log[p]) \in Nat /\ Len(log'[p]) \in Nat /\ Len(log[p]) <= Len(log'[p])
        /\ DOMAIN log[p] = 1..Len(log[p]) /\ DOMAIN log'[p] = 1..Len(log'[p])
    BY LogGrows
  <1>2. \A j \in 1..Len(log[p]) : log'[p][j] = log[p][j]  BY LogKept
  <1>3. \A j \in DOMAIN log[p] : j \in DOMAIN log'[p]  BY <1>1
  <1>4. InOrder(p)  BY <1>1, <1>2, <1>3 DEF LastReport, InOrder, Valid
  <1> QED  BY <1>1, <1>2, <1>3, <1>4 DEF LastReport, Valid

\* Moving a cluster to another organization changes nothing else.
LEMMA OrgMoveKeepsContents ==
    ASSUME TypeOK, NEW d, NEW o, UpdateOrgIDForCluster(o, d), NEW c
    PROVE  /\ {<<row.lastChecked, row.hits>> : row \in Of(report', c)}
                  = {<<row.lastChecked, row.hits>> : row \in Of(report, c)}
           /\ RulesOf(Of(recommendation', c)) = RulesOf(Of(recommendation, c))
           /\ {row.version : row \in Of(reportInfo', c)}
                  = {row.version : row \in Of(reportInfo, c)}
           /\ \A x \in report' : \E y \in report :
                  x.cluster = y.cluster /\ x.lastChecked = y.lastChecked
  <1>1. CASE UNCHANGED tables  BY <1>1 DEF tables, Of, RulesOf
  <1>2. CASE /\ report' = SetOrg(report, d, o)
             /\ recommendation' = SetOrg(recommendation, d, o)
             /\ reportInfo' = SetOrg(reportInfo, d, o)
    <2>1. /\ \A x \in report' : \E y \in report :
                 x.cluster = y.cluster /\ x.lastChecked = y.lastChecked /\ x.hits = y.hits
          /\ \A y \in report : \E x \in report' :
                 x.cluster = y.cluster /\ x.lastChecked = y.lastChecked /\ x.hits = y.hits
      <3> DEFINE moved(y) == IF y.cluster = d THEN [y EXCEPT !.org = o] ELSE y
      <3>1. \A y \in report : /\ moved(y).cluster = y.cluster /\ moved(y).hits = y.hits
                              /\ moved(y).lastChecked = y.lastChecked
        BY DEF TypeOK, ReportRow
      <3>2. report' = {moved(y) : y \in report}  BY <1>2 DEF SetOrg
      <3> HIDE DEF moved
      <3> QED  BY <3>1, <3>2
    <2>2. /\ \A x \in recommendation' : \E y \in recommendation :
                 x.cluster = y.cluster /\ x.rule = y.rule
          /\ \A y \in recommendation : \E x \in recommendation' :
                 x.cluster = y.cluster /\ x.rule = y.rule
      <3> DEFINE moved(y) == IF y.cluster = d THEN [y EXCEPT !.org = o] ELSE y
      <3>1. \A y \in recommendation : moved(y).cluster = y.cluster /\ moved(y).rule = y.rule
        BY DEF TypeOK, RecommendationRow
      <3>2. recommendation' = {moved(y) : y \in recommendation}  BY <1>2 DEF SetOrg
      <3> HIDE DEF moved
      <3> QED  BY <3>1, <3>2
    <2>3. /\ \A x \in reportInfo' : \E y \in reportInfo :
                 x.cluster = y.cluster /\ x.version = y.version
          /\ \A y \in reportInfo : \E x \in reportInfo' :
                 x.cluster = y.cluster /\ x.version = y.version
      <3> DEFINE moved(y) == IF y.cluster = d THEN [y EXCEPT !.org = o] ELSE y
      <3>1. \A y \in reportInfo : moved(y).cluster = y.cluster /\ moved(y).version = y.version
        BY DEF TypeOK, ReportInfoRow
      <3>2. reportInfo' = {moved(y) : y \in reportInfo}  BY <1>2 DEF SetOrg
      <3> HIDE DEF moved
      <3> QED  BY <3>1, <3>2
    <2>4. {<<row.lastChecked, row.hits>> : row \in Of(report', c)}
              = {<<row.lastChecked, row.hits>> : row \in Of(report, c)}
      BY <2>1 DEF Of
    <2>5. RulesOf(Of(recommendation', c)) = RulesOf(Of(recommendation, c))
      BY <2>2 DEF Of, RulesOf
    <2>6. {row.version : row \in Of(reportInfo', c)} = {row.version : row \in Of(reportInfo, c)}
      BY <2>3 DEF Of
    <2> QED  BY <2>1, <2>4, <2>5, <2>6
  <1> QED  BY <1>1, <1>2 DEF UpdateOrgIDForCluster

\* Only the claim that writes reports of cluster c changes what the tables say of c.
LEMMA ContentsKept ==
    ASSUME ~Debug, SafetyInv, [Next]_vars, NEW c,
           \A q \in Partitions : Msg(q).cluster = c =>
               /\ ~UpdateReport(q) /\ ~WriteInfo(q)
               /\ ~ReplaceRecommendations(q) /\ ~AddRecommendations(q)
    PROVE  /\ {<<row.lastChecked, row.hits>> : row \in Of(report', c)}
                  = {<<row.lastChecked, row.hits>> : row \in Of(report, c)}
           /\ RulesOf(Of(recommendation', c)) = RulesOf(Of(recommendation, c))
           /\ {row.version : row \in Of(reportInfo', c)}
                  = {row.version : row \in Of(reportInfo, c)}
  <1>1. TypeOK /\ OrgSettled  BY DEF SafetyInv, WriterInv
  <1> DEFINE Kept ==
          /\ {<<row.lastChecked, row.hits>> : row \in Of(report', c)}
                 = {<<row.lastChecked, row.hits>> : row \in Of(report, c)}
          /\ RulesOf(Of(recommendation', c)) = RulesOf(Of(recommendation, c))
          /\ {row.version : row \in Of(reportInfo', c)}
                 = {row.version : row \in Of(reportInfo, c)}
  <1>2. ASSUME Of(report', c) = Of(report, c), Of(recommendation', c) = Of(recommendation, c),
               Of(reportInfo', c) = Of(reportInfo, c)
        PROVE  Kept
    BY <1>2
  <1>3. ASSUME UNCHANGED <<report, recommendation, reportInfo>> PROVE Kept
    BY <1>2, <1>3
  <1>4. ASSUME NEW q \in Partitions, UpdateOrgID(q) PROVE Kept
    <2>1. CASE UNCHANGED tables  BY <1>3, <2>1 DEF tables
    <2>2. CASE UpdateOrgIDForCluster(Msg(q).org, Msg(q).cluster)
      BY <1>1, <2>2, OrgMoveKeepsContents
    <2> QED  BY <1>4, <2>1, <2>2 DEF UpdateOrgID
  \* A claim past its first transaction has a message, and the rows of the cluster.
  <1>m. ASSUME NEW q \in Partitions, job[q].stage \in Writing
        PROVE  /\ Msg(q) \in Message
               /\ \A x \in Rows : x.cluster = Msg(q).cluster => x.org = Msg(q).org
    <2>1. position[q] < Len(log[q])  BY <1>1, <1>m DEF TypeOK, Writing
    <2> QED  BY <1>1, <1>m, <2>1, MsgType DEF OrgSettled
  <1>5. ASSUME NEW q \in Partitions, UpdateReport(q) PROVE Kept
    <2>1. CASE UNCHANGED tables  BY <1>3, <2>1 DEF tables
    <2>2. CASE WriteTables(Msg(q), job[q].known)
      <3>1. Msg(q).cluster # c /\ job[q].stage \in Writing  BY <1>5 DEF UpdateReport, Writing
      <3>2. \A x : x.cluster # Msg(q).cluster => (x \in report' <=> x \in report)
        BY <1>1, <1>m, <2>2, <3>1, ReportWritten
      <3>3. UNCHANGED <<recommendation, reportInfo>>  BY <2>2 DEF WriteTables
      <3> QED  BY <1>2, <3>1, <3>2, <3>3 DEF Of
    <2> QED  BY <1>5, <2>1, <2>2 DEF UpdateReport
  <1>6. ASSUME NEW q \in Partitions, ReplaceRecommendations(q) \/ AddRecommendations(q)
        PROVE  Kept
    <2>1. CASE UNCHANGED tables  BY <1>3, <2>1 DEF tables
    <2>2. CASE ~UNCHANGED tables
      <3>1. Msg(q).cluster # c /\ job[q].stage \in Writing
        BY <1>1, <1>6, RecommendationSteps DEF Writing
      <3>2. PICK known \in SUBSET HitDate, gone \in SUBSET Recommended(q) :
                SetRecommendations((recommendation \ gone)
                    \union RecommendationRows(Msg(q), known, job[q].storedAt))
        BY <1>1, <1>6, <2>2, RecommendationSteps
      <3>3. /\ UNCHANGED <<report, reportInfo>>
            /\ \A x : x.cluster # Msg(q).cluster =>
                   (x \in recommendation' <=> x \in recommendation)
        BY <1>m, <3>1, <3>2, RecommendationsWritten DEF Rows, Recommended
      <3> QED  BY <1>2, <3>1, <3>3 DEF Of
    <2> QED  BY <2>1, <2>2
  <1>7. ASSUME NEW q \in Partitions, WriteInfo(q) PROVE Kept
    <2>1. CASE UNCHANGED tables  BY <1>3, <2>1 DEF tables
    <2>2. CASE UpsertInfo(Msg(q))
      <3>1. Msg(q).cluster # c  BY <1>7
      <3>2. Of(reportInfo', c) = Of(reportInfo, c)  BY <2>2, <3>1 DEF UpsertInfo, Of
      <3>3. UNCHANGED <<report, recommendation>>  BY <2>2 DEF UpsertInfo
      <3> QED  BY <1>2, <3>2, <3>3
    <2> QED  BY <1>7, <2>1, <2>2 DEF WriteInfo
  <1>8. \/ UNCHANGED <<report, recommendation, reportInfo>>
        \/ \E q \in Partitions : \/ UpdateOrgID(q) \/ UpdateReport(q)
                                 \/ WriteInfo(q) \/ ReplaceRecommendations(q)
                                 \/ AddRecommendations(q)
    BY DEF Next, vars, tables, HandleStep, StartMessage, CheckReport, LookUpRecommendations,
       WriteConsumerError, SendDeadLetter, MarkMessage, CommitOffsets, Produce, Rebalance,
       LoseSession, Crash, Tick, CheckRequest, ServeRequest, DeleteReportsForOrg,
         DeleteReportsForCluster
  <1> HIDE DEF Kept
  <1>9. Kept  BY <1>3, <1>4, <1>5, <1>6, <1>7, <1>8
  <1> QED  BY <1>9 DEF Kept

\* A stored report is one of the partition's.
LEMMA ReportFromLogStep ==
    ASSUME ~Debug, SafetyInv, ClaimValid, ReportFromLog, [Next]_vars
    PROVE  ReportFromLog'
  <1>1. TypeOK /\ JobOK /\ OrgSettled /\ TypeOK'
    BY TypeStep DEF SafetyInv, WriterInv, TypeInv
  <1>2. SUFFICES ASSUME NEW row \in report'
                 PROVE  \E p \in Partitions : \E i \in 1..Len(log'[p]) :
                            /\ i <= Len(log'[p]) /\ Valid(log'[p][i])
                            /\ log'[p][i].cluster = row.cluster
                            /\ log'[p][i].lastChecked = row.lastChecked
    BY DEF ReportFromLog, Dated, Valid
  <1>3. ASSUME NEW old \in report, old.cluster = row.cluster, old.lastChecked = row.lastChecked
        PROVE  \E p \in Partitions : \E i \in 1..Len(log'[p]) :
                            /\ i <= Len(log'[p]) /\ Valid(log'[p][i])
                            /\ log'[p][i].cluster = row.cluster
                            /\ log'[p][i].lastChecked = row.lastChecked
    <2>1. PICK p \in Partitions : Dated(p, Len(log[p]), row.cluster, row.lastChecked)
      BY <1>3 DEF ReportFromLog
    <2>2. PICK i \in 1..Len(log[p]) : /\ Valid(log[p][i]) /\ log[p][i].cluster = row.cluster
                                      /\ log[p][i].lastChecked = row.lastChecked
      BY <2>1 DEF Dated
    <2>3. log'[p][i] = log[p][i] /\ i \in 1..Len(log'[p]) /\ i <= Len(log'[p])
      BY <1>1, LogKept, LogGrows
    <2> QED  BY <2>2, <2>3
  <1>4. ASSUME NEW q \in Partitions, UpdateOrgID(q) PROVE \E old \in report :
              old.cluster = row.cluster /\ old.lastChecked = row.lastChecked
    <2>1. CASE UNCHANGED tables  BY <2>1 DEF tables
    <2>2. CASE UpdateOrgIDForCluster(Msg(q).org, Msg(q).cluster)
      BY <1>1, <2>2, OrgMoveKeepsContents
    <2> QED  BY <1>4, <2>1, <2>2 DEF UpdateOrgID
  <1>5. ASSUME NEW q \in Partitions, UpdateReport(q), row \notin report
        PROVE  \E p \in Partitions : \E i \in 1..Len(log'[p]) :
                            /\ i <= Len(log'[p]) /\ Valid(log'[p][i])
                            /\ log'[p][i].cluster = row.cluster
                            /\ log'[p][i].lastChecked = row.lastChecked
    <2>1. job[q].stage = "apply" /\ UNCHANGED kafka  BY <1>5 DEF UpdateReport
    <2>2. report' = (report \ Of(report, Msg(q).cluster)) \union {ReportRowOf(Msg(q))}
      BY <1>5 DEF UpdateReport, WriteTables, tables
    <2>3. row = ReportRowOf(Msg(q))  BY <1>5, <2>2
    <2>4. row.cluster = Msg(q).cluster /\ row.lastChecked = Msg(q).lastChecked
      BY <2>3 DEF ReportRowOf
    <2>5. Valid(Msg(q))  BY <1>1, <2>1 DEF ClaimValid, JobOK, Writing, Valid, Time
    <2>6. position[q] < Len(log[q])  BY <1>1, <2>1 DEF TypeOK
    <2>7. position[q] + 1 \in 1..Len(log'[q]) /\ position[q] + 1 <= Len(log'[q])
          /\ log'[q][position[q] + 1] = Msg(q)
      BY <1>1, <2>1, <2>6, MsgType DEF kafka, Msg
    <2> QED  BY <2>4, <2>5, <2>7
  <1>6. \/ row \in report
        \/ \E q \in Partitions : UpdateOrgID(q) \/ UpdateReport(q)
    BY DEF Next, vars, tables, HandleStep, StartMessage, CheckReport, LookUpRecommendations,
         ReplaceRecommendations, AddRecommendations, SetRecommendations, WriteInfo, UpsertInfo,
         WriteConsumerError, SendDeadLetter, MarkMessage, CommitOffsets, Produce, Rebalance,
         LoseSession, Crash, Tick, CheckRequest, ServeRequest, DeleteReportsForOrg,
         DeleteReportsForCluster
  <1> QED  BY <1>3, <1>4, <1>5, <1>6

\* A cached date is kept, forgotten in a crash, or that of a report being written.
LEMMA CacheEntry ==
    ASSUME TypeOK, [Next]_vars, NEW r \in Replicas, NEW c \in Clusters
    PROVE  \/ cache'[r][c] = cache[r][c]
           \/ Crash(r) /\ cache'[r][c] = NoTime
           \/ \E p \in Partitions : /\ UpdateReport(p) /\ owner[p] = r /\ Msg(p).cluster = c
                                    /\ cache'[r][c] = Msg(p).lastChecked
  <1>1. ASSUME NEW p \in Partitions, UpdateReport(p), cache'[r][c] # cache[r][c]
        PROVE  /\ owner[p] = r /\ Msg(p).cluster = c
               /\ cache'[r][c] = Msg(p).lastChecked
    <2>1. SetCache(p)  BY <1>1 DEF UpdateReport
    <2> QED  BY <1>1, <2>1 DEF SetCache, TypeOK
  <1>2. ASSUME NEW s \in Replicas, Crash(s), cache'[r][c] # cache[r][c]
        PROVE  Crash(r) /\ cache'[r][c] = NoTime
    <2>1. cache' = [cache EXCEPT ![s] = [d \in Clusters |-> NoTime]]  BY <1>2 DEF Crash
    <2>2. s = r /\ cache'[r][c] = NoTime  BY <1>2, <2>1 DEF TypeOK
    <2> QED  BY <1>2, <2>2
  <1>3. \/ UNCHANGED cache
        \/ \E p \in Partitions : UpdateReport(p)
        \/ \E s \in Replicas : Crash(s)
    BY DEF Next, vars, HandleStep, StartMessage, UpdateOrgID, CheckReport, LookUpRecommendations,
       ReplaceRecommendations, AddRecommendations, WriteInfo, WriteConsumerError,
       SendDeadLetter, MarkMessage, CommitOffsets, Produce, Rebalance, LoseSession, Tick,
       CheckRequest, ServeRequest, DeleteReportsForOrg, DeleteReportsForCluster
  <1> QED  BY <1>1, <1>2, <1>3

\* A report that is being written is a valid one of its partition.
LEMMA WrittenReport ==
    ASSUME TypeOK, JobOK, ClaimValid, NEW p \in Partitions, job[p].stage \in Writing
    PROVE  /\ Valid(Msg(p)) /\ Msg(p) \in Message
           /\ position[p] + 1 \in 1..Len(log[p]) /\ log[p][position[p] + 1] = Msg(p)
  <1>1. position[p] < Len(log[p])  BY DEF TypeOK, Writing
  <1>2. Valid(Msg(p))  BY DEF ClaimValid, JobOK, Valid, Time
  <1> QED  BY <1>1, <1>2, MsgType DEF Msg

\* A cached date is that of a report of the topic as well.
LEMMA CacheFromLogStep ==
    ASSUME SafetyInv, ClaimValid, CacheFromLog, [Next]_vars
    PROVE  CacheFromLog'
  <1>1. TypeOK /\ JobOK /\ TypeOK'
    BY TypeStep DEF SafetyInv, WriterInv, TypeInv
  <1>2. SUFFICES ASSUME NEW r \in Replicas, NEW c \in Clusters, cache'[r][c] # NoTime
                 PROVE  \E p \in Partitions : \E i \in 1..Len(log'[p]) :
                            /\ i <= Len(log'[p]) /\ Valid(log'[p][i])
                            /\ log'[p][i].cluster = c
                            /\ log'[p][i].lastChecked = cache'[r][c]
    BY DEF CacheFromLog, Dated, Valid
  <1>3. \E p \in Partitions : \E i \in 1..Len(log[p]) :
            Valid(log[p][i]) /\ log[p][i].cluster = c /\ log[p][i].lastChecked = cache'[r][c]
    <2>1. CASE cache'[r][c] = cache[r][c]  BY <1>2, <2>1 DEF CacheFromLog, Dated
    <2>2. ASSUME NEW p \in Partitions, UpdateReport(p), Msg(p).cluster = c,
                 cache'[r][c] = Msg(p).lastChecked
          PROVE  \E i \in 1..Len(log[p]) : /\ Valid(log[p][i]) /\ log[p][i].cluster = c
                                           /\ log[p][i].lastChecked = cache'[r][c]
      <3>1. job[p].stage \in Writing  BY <2>2 DEF UpdateReport, Writing
      <3> QED  BY <1>1, <2>2, <3>1, WrittenReport
    <2> QED  BY <1>1, <1>2, <2>1, <2>2, CacheEntry
  <1>4. \A p \in Partitions : \A i \in 1..Len(log[p]) :
            log'[p][i] = log[p][i] /\ i \in 1..Len(log'[p]) /\ i <= Len(log'[p])
    BY <1>1, LogKept, LogGrows
  <1> QED  BY <1>3, <1>4

-----------------------------------------------------------------------------
\* The partition of a cluster is the only one with messages of it.
LEMMA OnePartition ==
    ASSUME KeyedByCluster, TypeOK, LogKeyed, NEW p \in Partitions, NEW q \in Partitions,
           NEW i \in 1..Len(log[p]), NEW j \in 1..Len(log[q]),
           log[p][i].cluster = log[q][j].cluster
    PROVE  p = q
  <1>1. log[p][i] \in Message  BY ConstantsAssumption DEF TypeOK
  <1>2. log[p][i].cluster \in Clusters  BY <1>1, MsgFields
  <1>3. p \in PartitionsOf[log[p][i].cluster] /\ q \in PartitionsOf[log[q][j].cluster]
    BY DEF LogKeyed
  <1> QED  BY <1>2, <1>3 DEF KeyedByCluster

\* No report of the topic is newer than the last one of its cluster.
LEMMA LastIsNewest ==
    ASSUME KeyedByCluster, TypeOK, LogKeyed, NEW p \in Partitions, NEW i \in 1..Len(log[p]),
           LastReport(p, i), NEW q \in Partitions, NEW j \in 1..Len(log[q]),
           Valid(log[q][j]), log[q][j].cluster = log[p][i].cluster
    PROVE  /\ q = p /\ j <= i
           /\ log[q][j].lastChecked <= log[p][i].lastChecked
           /\ log[q][j].lastChecked = log[p][i].lastChecked => j = i
  <1>1. q = p  BY OnePartition
  <1>2. log[p] \in Seq(Messages)  BY DEF TypeOK
  <1>3. /\ i \in DOMAIN log[p] /\ j \in DOMAIN log[p] /\ Valid(log[p][i])
        /\ i \in Nat /\ j \in Nat
    BY <1>1, <1>2 DEF LastReport
  <1>4. j <= i  BY <1>1, <1>3 DEF LastReport
  <1>5. log[p][i] \in Message /\ log[p][j] \in Message
    BY <1>1, <1>2, ConstantsAssumption
  <1>6. log[p][i].lastChecked \in Nat /\ log[p][j].lastChecked \in Nat  BY <1>5, MsgFields
  <1>7. j < i => log[p][j].lastChecked < log[p][i].lastChecked
    BY <1>1, <1>3 DEF LastReport, InOrder
  <1>8. j = i \/ j < i  BY <1>3, <1>4
  <1> QED  BY <1>1, <1>4, <1>6, <1>7, <1>8

\* Whoever writes reports of a cluster whose last report was handled, or is being
\* handled by another claim: there is nobody.
LEMMA NobodyElseWrites ==
    ASSUME KeyedByCluster, SafetyInv, ClaimValid, NEW p \in Partitions,
           NEW i \in 1..Len(log[p]), LastReport(p, i), i <= position[p] + 1,
           NEW q \in Partitions, job[q].stage \in Writing, Msg(q).cluster = log[p][i].cluster
    PROVE  q = p /\ i = position[p] + 1
  <1>1. TypeOK /\ JobOK /\ LogKeyed  BY DEF SafetyInv, WriterInv
  <1>2. position[q] < Len(log[q])  BY <1>1 DEF TypeOK, Writing
  <1>3. position[q] + 1 \in 1..Len(log[q])  BY <1>1, <1>2, MsgType
  <1>4. q = p  BY <1>1, <1>3, OnePartition DEF Msg
  <1>5. Valid(Msg(p))  BY <1>1, <1>4 DEF ClaimValid, JobOK, Valid, Time
  <1>6. position[p] + 1 \in DOMAIN log[p] /\ position[p] \in Nat
    BY <1>1, <1>3, <1>4 DEF TypeOK
  <1>7. ~(position[p] + 1 > i)  BY <1>4, <1>5, <1>6 DEF LastReport, Msg
  <1> QED  BY <1>4, <1>6, <1>7

\* WriteTables leaves the report of m and no other of its cluster.
LEMMA StoredIsWritten ==
    ASSUME NEW m, NEW known, WriteTables(m, known)
    PROVE  {<<row.lastChecked, row.hits>> : row \in Of(report', m.cluster)}
               = {<<m.lastChecked, m.hits>>}
  <1> DEFINE new == ReportRowOf(m)
  <1>1. report' = (report \ Of(report, m.cluster)) \union {new}  BY DEF WriteTables
  <1>2. new.cluster = m.cluster /\ new.lastChecked = m.lastChecked /\ new.hits = m.hits
    BY DEF ReportRowOf
  <1> HIDE DEF new
  <1>3. Of(report', m.cluster) = {new}  BY <1>1, <1>2 DEF Of
  <1> QED  BY <1>2, <1>3

\* A last report stays stored: only its own claim can write over it.
LEMMA StoredKept ==
    ASSUME KeyedByCluster, ~Debug, SafetyInv, ClaimValid, [Next]_vars, NEW p \in Partitions,
           NEW i \in 1..Len(log[p]), LastReport(p, i), StoredIs(log[p][i])
    PROVE  {<<row.lastChecked, row.hits>> : row \in Of(report', log[p][i].cluster)}
               = {<<log[p][i].lastChecked, log[p][i].hits>>}
  <1>1. TypeOK /\ JobOK /\ LogKeyed /\ NewestWhenWritten  BY DEF SafetyInv, WriterInv
  <1> DEFINE c == log[p][i].cluster
  <1>2. {<<row.lastChecked, row.hits>> : row \in Of(report, c)}
            = {<<log[p][i].lastChecked, log[p][i].hits>>}
    BY DEF StoredIs
  <1>3. CASE UNCHANGED report  BY <1>2, <1>3 DEF Of
  <1>4. ASSUME NEW q \in Partitions, UpdateReport(q), Msg(q).cluster = c, ~UNCHANGED report
        PROVE  {<<row.lastChecked, row.hits>> : row \in Of(report', c)}
                   = {<<log[p][i].lastChecked, log[p][i].hits>>}
    <2>1. job[q].stage = "apply" /\ job[q].stage \in Writing  BY <1>4 DEF UpdateReport, Writing
    <2>2. /\ Valid(Msg(q)) /\ Msg(q) \in Message
          /\ position[q] + 1 \in 1..Len(log[q]) /\ log[q][position[q] + 1] = Msg(q)
      BY <1>1, <2>1, WrittenReport
    <2>3. /\ q = p /\ Msg(q).lastChecked <= log[p][i].lastChecked
          /\ Msg(q).lastChecked = log[p][i].lastChecked => position[q] + 1 = i
      BY <1>1, <1>4, <2>2, LastIsNewest
    <2>4. PICK row \in Of(report, c) : row.lastChecked = log[p][i].lastChecked
      <3>1. <<log[p][i].lastChecked, log[p][i].hits>>
                \in {<<row.lastChecked, row.hits>> : row \in Of(report, c)}
        BY <1>2
      <3> QED  BY <3>1
    <2>5. log[p][i].lastChecked <= Msg(q).lastChecked
      BY <1>1, <1>4, <2>1, <2>4 DEF NewestWhenWritten, Of
    <2>6. Msg(q).lastChecked \in Nat /\ log[p][i].lastChecked \in Nat
      <3>1. log[p][i] \in Message  BY <1>1, ConstantsAssumption DEF TypeOK
      <3> QED  BY <2>2, <3>1, MsgFields
    <2>7. Msg(q) = log[p][i]  BY <2>2, <2>3, <2>5, <2>6
    <2>8. WriteTables(Msg(q), job[q].known)  BY <1>4 DEF UpdateReport, tables
    <2> QED  BY <2>7, <2>8, StoredIsWritten
  <1>5. ASSUME \A q \in Partitions : Msg(q).cluster = c => ~UpdateReport(q), ~UNCHANGED report
        PROVE  {<<row.lastChecked, row.hits>> : row \in Of(report', c)}
                   = {<<log[p][i].lastChecked, log[p][i].hits>>}
    <2>1. ASSUME NEW q \in Partitions,
                 WriteInfo(q) \/ ReplaceRecommendations(q) \/ AddRecommendations(q)
          PROVE  UNCHANGED report
      BY <2>1 DEF WriteInfo, UpsertInfo, ReplaceRecommendations, AddRecommendations,
         SetRecommendations, tables
    <2> QED  BY <1>2, <1>5, <2>1, ContentsKept
  <1> QED  BY <1>3, <1>4, <1>5

\* A claim that is working is interrupted by a crash only, which clears the cache.
LEMMA ClaimInterrupted ==
    ASSUME TypeOK, [Next]_vars, NEW p \in Partitions, job[p].stage # "idle"
    PROVE  \/ HandleStep(p)
           \/ job'[p] = job[p] /\ position'[p] = position[p] /\ owner'[p] = owner[p]
           \/ Crash(owner[p]) /\ job'[p].stage = "idle"
  <1>1. ASSUME NEW q \in Partitions, HandleStep(q), p # q
        PROVE  job'[p] = job[p] /\ position'[p] = position[p] /\ owner'[p] = owner[p]
    BY <1>1, OtherClaims
  <1>2. ASSUME NEW q \in Partitions, NEW r \in Replicas, Rebalance(q, r) \/ LoseSession(q, r)
        PROVE  job'[p] = job[p] /\ position'[p] = position[p] /\ owner'[p] = owner[p]
    <2>1. p # q /\ UNCHANGED job  BY <1>2 DEF Rebalance, LoseSession
    <2>2. CASE Rebalance(q, r)  BY <2>1, <2>2 DEF Rebalance, TypeOK
    <2>3. CASE LoseSession(q, r)  BY <2>1, <2>3 DEF LoseSession, TypeOK
    <2> QED  BY <1>2, <2>1, <2>2, <2>3
  <1>3. ASSUME NEW r \in Replicas, Crash(r)
        PROVE  \/ job'[p] = job[p] /\ position'[p] = position[p] /\ owner'[p] = owner[p]
               \/ Crash(owner[p]) /\ job'[p].stage = "idle"
    BY <1>3 DEF Crash, Idle
  <1>4. CASE UNCHANGED <<job, position, owner>>  BY <1>4
  <1> QED  BY <1>1, <1>2, <1>3, <1>4 DEF Next, vars, kafka, env, CommitOffsets, Produce, Tick,
             CheckRequest, ServeRequest, DeleteReportsForOrg, DeleteReportsForCluster

\* Who has cached the date of a last report has stored it, or the report failed.
LEMMA CachedLastStep ==
    ASSUME KeyedByCluster, ~Debug, SinksWork, SafetyInv, ClaimValid, CacheFromLog, CachedLast,
           [Next]_vars
    PROVE  CachedLast'
  <1>1. TypeOK /\ JobOK /\ LogKeyed /\ TypeOK' /\ LogKeyed'
    BY TypeStep, LogKeyedStep DEF SafetyInv, WriterInv, TypeInv
  <1>2. SUFFICES ASSUME NEW p \in Partitions, NEW i \in 1..Len(log'[p]), NEW r \in Replicas,
                        cache'[r][log'[p][i].cluster] = log'[p][i].lastChecked,
                        LastReport(p, i)'
                 PROVE  \/ StoredIs(log[p][i])'
                        \/ <<p, i>> \in deadLetter'
                        \/ /\ r = owner'[p] /\ i = position'[p] + 1
                           /\ job'[p].stage \in {"fail", "deadLetter"}
    BY DEF CachedLast
  <1> DEFINE c == log'[p][i].cluster
             t == log'[p][i].lastChecked
  <1>3. log'[p][i] \in Message /\ Valid(log[p][i])'
    <2>1. log'[p] \in Seq(Messages)  BY <1>1 DEF TypeOK
    <2>2. log'[p][i] \in Message  BY <2>1, ConstantsAssumption
    <2> QED  BY <1>2, <2>2 DEF LastReport
  <1>4. c \in Clusters /\ t \in Nat /\ t # NoTime  BY <1>3, MsgFields DEF Valid
  <1>5. ASSUME NEW q \in Partitions, UpdateReport(q), Msg(q).cluster = c, Msg(q).lastChecked = t
        PROVE  i \in 1..Len(log[p]) /\ q = p /\ position[p] + 1 = i /\ Msg(p) = log'[p][i]
    <2>1. UNCHANGED kafka /\ job[q].stage \in Writing  BY <1>5 DEF UpdateReport, Writing
    <2>2. /\ Valid(Msg(q)) /\ position[q] + 1 \in 1..Len(log[q])
          /\ log[q][position[q] + 1] = Msg(q)
      BY <1>1, <2>1, WrittenReport
    <2>3. i \in 1..Len(log[p]) /\ log'[p][i] = log[p][i]  BY <2>1 DEF kafka
    <2>4. LastReport(p, i)  BY <1>1, <1>2, <2>3, LastReportBefore
    <2>5. q = p /\ position[q] + 1 = i  BY <1>1, <1>5, <2>2, <2>3, <2>4, LastIsNewest
    <2> QED  BY <2>2, <2>3, <2>5
  \* The report has just arrived: a cached date is that of an older one.
  <1>6. CASE i \notin 1..Len(log[p])
    <2>1. cache[r][c] = t  BY <1>1, <1>2, <1>4, <1>5, <1>6, CacheEntry
    <2>q. PICK q \in Partitions : Dated(q, Len(log[q]), c, t)
      BY <1>4, <2>1 DEF CacheFromLog
    <2>2. PICK j \in 1..Len(log[q]) :
              Valid(log[q][j]) /\ log[q][j].cluster = c /\ log[q][j].lastChecked = t
      BY <2>q DEF Dated
    <2>3. log'[q][j] = log[q][j] /\ j \in 1..Len(log'[q])
      BY <1>1, LogKept, LogGrows
    <2>4. q = p /\ j = i
      <3>1. Valid(log[q][j])'  BY <2>2, <2>3 DEF Valid
      <3>2. q = p
        BY <1>1, <2>2, <2>3, <1>4 DEF LogKeyed, KeyedByCluster
      <3>3. /\ i \in DOMAIN log'[p] /\ j \in DOMAIN log'[p] /\ i \in Nat /\ j \in Nat
        BY <1>1, <2>3, <3>2 DEF TypeOK
      <3>4. ~(j > i)  BY <2>2, <2>3, <3>1, <3>2, <3>3, <1>2 DEF LastReport
      <3>5. ~(j < i)
        <4>1. j < i => log'[p][j].lastChecked < log'[p][i].lastChecked
          BY <1>2, <1>3, <2>2, <2>3, <3>1, <3>2, <3>3 DEF LastReport, InOrder
        <4> QED  BY <1>4, <2>2, <2>3, <3>2, <4>1
      <3> QED  BY <3>2, <3>3, <3>4, <3>5
    <2> QED  BY <1>6, <2>4
  <1>7. CASE i \in 1..Len(log[p])
    <2>1. LastReport(p, i) /\ log'[p][i] = log[p][i]
      BY <1>1, <1>2, <1>7, LastReportBefore, LogKept
    <2>2. CASE cache'[r][c] = cache[r][c]
      <3>1. \/ StoredIs(log[p][i])
            \/ <<p, i>> \in deadLetter
            \/ r = owner[p] /\ i = position[p] + 1 /\ job[p].stage \in {"fail", "deadLetter"}
        BY <1>2, <1>7, <2>1, <2>2 DEF CachedLast
      <3>2. CASE StoredIs(log[p][i])
        BY <1>7, <2>1, <3>2, StoredKept DEF StoredIs
      <3>3. CASE <<p, i>> \in deadLetter  BY <3>3, SinksKept
      <3>4. CASE r = owner[p] /\ i = position[p] + 1 /\ job[p].stage \in {"fail", "deadLetter"}
        <4>1. ASSUME HandleStep(p)
              PROVE  \/ <<p, i>> \in deadLetter'
                     \/ /\ r = owner'[p] /\ i = position'[p] + 1
                        /\ job'[p].stage = "deadLetter"
          <5>1. WriteConsumerError(p) \/ SendDeadLetter(p)
            BY <3>4, <4>1 DEF HandleStep, StartMessage, UpdateOrgID, CheckReport, UpdateReport,
               LookUpRecommendations, ReplaceRecommendations, AddRecommendations, WriteInfo,
               MarkMessage
          <5>2. CASE WriteConsumerError(p)
            <6>1. UNCHANGED kafka /\ GoTo(p, "deadLetter")  BY <5>2 DEF WriteConsumerError
            <6>2. job'[p].stage = "deadLetter"  BY <1>1, <6>1, GoToType DEF Stages
            <6> QED  BY <3>4, <6>1, <6>2 DEF kafka
          <5>3. CASE SendDeadLetter(p)
            BY <3>4, <5>3 DEF SendDeadLetter, SinksWork
          <5> QED  BY <5>1, <5>2, <5>3
        <4>2. CASE Crash(owner[p])
          <5>1. cache'[owner[p]] = [d \in Clusters |-> NoTime]  BY <1>1, <4>2 DEF Crash, TypeOK
          <5> QED  BY <1>2, <1>4, <3>4, <5>1
        <4> QED  BY <1>1, <3>4, <4>1, <4>2, ClaimInterrupted
      <3> QED  BY <3>1, <3>2, <3>3, <3>4
    <2>3. CASE \E q \in Partitions : /\ UpdateReport(q) /\ owner[q] = r /\ Msg(q).cluster = c
                                     /\ cache'[r][c] = Msg(q).lastChecked
      <3>1. /\ UpdateReport(p) /\ owner[p] = r /\ position[p] + 1 = i
            /\ Msg(p) = log'[p][i]
        BY <1>2, <1>5, <2>3
      <3>2. UNCHANGED kafka  BY <3>1 DEF UpdateReport
      <3>3. CASE WriteTables(Msg(p), job[p].known)
        BY <3>1, <3>3, StoredIsWritten DEF StoredIs
      <3>4. CASE job'[p].stage = "fail"  BY <3>1, <3>2, <3>4 DEF kafka
      <3> QED  BY <1>1, <3>1, <3>3, <3>4, UpdateReportJob
    <2> QED  BY <1>1, <1>2, <1>4, <2>2, <2>3, CacheEntry
  <1> QED  BY <1>6, <1>7

\* The last report of a cluster is stored when its claim comes to the recommendations:
\* by this delivery, or by an earlier one that has left its date in the cache.  Since
\* the cache knows the cluster, the recommendations are then replaced.
LEMMA LastIsStoredStep ==
    ASSUME KeyedByCluster, ~Debug, SinksWork, SafetyInv, ClaimValid, ReportFromLog,
           CacheFromLog, CachedLast, LastIsStored, [Next]_vars
    PROVE  LastIsStored'
  <1>1. TypeOK /\ JobOK /\ LogKeyed /\ OrgSettled /\ TypeOK'
    BY TypeStep DEF SafetyInv, WriterInv, TypeInv
  <1> DEFINE After == {"recs", "replace", "info"}
  <1>2. SUFFICES ASSUME NEW p \in Partitions, job'[p].stage \in After,
                        LastReport(p, position[p] + 1)',
                        <<p, position'[p] + 1>> \notin deadLetter'
                 PROVE  /\ StoredIs(Msg(p))'
                        /\ job'[p].stage = "recs" => cache'[owner'[p]][Msg(p)'.cluster] # NoTime
                        /\ job'[p].stage = "info" => RecommendedIs(Msg(p))'
    BY DEF LastIsStored
  <1> DEFINE i == position[p] + 1
  \* What is so of every step after which the claim is at one of these stages.
  <1>3. ASSUME position'[p] = position[p], job[p].stage \in Writing
        PROVE  /\ i \in 1..Len(log[p]) /\ log[p][i] = Msg(p) /\ Msg(p)' = Msg(p)
               /\ Valid(Msg(p)) /\ Msg(p) \in Message /\ Msg(p).cluster \in Clusters
               /\ Msg(p).lastChecked \in Nat /\ owner[p] \in Replicas
               /\ LastReport(p, i) /\ <<p, i>> \notin deadLetter
    <2>1. /\ Valid(Msg(p)) /\ Msg(p) \in Message /\ i \in 1..Len(log[p])
          /\ log[p][i] = Msg(p)
      BY <1>1, <1>3, WrittenReport
    <2>2. LastReport(p, i) /\ log'[p][i] = log[p][i]
      BY <1>1, <1>2, <1>3, <2>1, LastReportBefore, LogKept
    <2>3. <<p, i>> \notin deadLetter  BY <1>2, <1>3, SinksKept
    <2>4. Msg(p)' = Msg(p)  BY <1>3, <2>1, <2>2 DEF Msg
    <2>5. Msg(p).cluster \in Clusters /\ Msg(p).lastChecked \in Nat  BY <2>1, MsgFields
    <2> QED  BY <1>1, <2>1, <2>2, <2>3, <2>4, <2>5 DEF TypeOK
  <1>4. ASSUME CheckReport(p)
        PROVE  StoredIs(Msg(p))' /\ job'[p].stage = "recs"
               /\ cache'[owner'[p]][Msg(p)'.cluster] # NoTime
    <2>1. job[p].stage = "report" /\ UNCHANGED <<kafka, cache, tables>>  BY <1>4 DEF CheckReport
    <2>2. /\ i \in 1..Len(log[p]) /\ log[p][i] = Msg(p) /\ Msg(p)' = Msg(p)
          /\ Valid(Msg(p)) /\ Msg(p) \in Message /\ Msg(p).cluster \in Clusters
          /\ Msg(p).lastChecked \in Nat /\ owner[p] \in Replicas
          /\ LastReport(p, i) /\ <<p, i>> \notin deadLetter
      BY <1>3, <2>1 DEF kafka, Writing
    <2>3. ASSUME NEW q \in Partitions, NEW known, Dated(q, Len(log[q]), Msg(p).cluster, known)
          PROVE  known \in Nat /\ known <= Msg(p).lastChecked
      <3>1. PICK j \in 1..Len(log[q]) : /\ Valid(log[q][j]) /\ log[q][j].cluster = Msg(p).cluster
                                        /\ log[q][j].lastChecked = known
        BY <2>3 DEF Dated
      <3>2. log[q][j] \in Message  BY <1>1, ConstantsAssumption DEF TypeOK
      <3>3. known <= Msg(p).lastChecked  BY <1>1, <2>2, <3>1, LastIsNewest
      <3> QED  BY <3>1, <3>2, <3>3, MsgFields
    <2>4. ~NewerInDB(p)
      <3> SUFFICES ASSUME NEW row \in report, row.cluster = Msg(p).cluster,
                          row.lastChecked > Msg(p).lastChecked
                   PROVE  FALSE
        BY DEF NewerInDB, Owned
      <3>1. row.lastChecked \in Nat /\ row.lastChecked <= Msg(p).lastChecked
        BY <2>3 DEF ReportFromLog
      <3> QED  BY <2>2, <3>1
    <2>5. OldByCache(p) /\ job'[p].stage = "recs"  BY <1>1, <1>2, <1>4, <2>4, CheckReportJob
    <2> DEFINE known == cache[owner[p]][Msg(p).cluster]
    <2>6. known # NoTime /\ Msg(p).lastChecked <= known  BY <2>5 DEF OldByCache
    <2>7. known \in Nat /\ known <= Msg(p).lastChecked  BY <2>2, <2>3, <2>6 DEF CacheFromLog
    <2>8. known = Msg(p).lastChecked  BY <2>2, <2>6, <2>7
    <2>9. StoredIs(Msg(p))  BY <2>1, <2>2, <2>8 DEF CachedLast
    <2>10. StoredIs(Msg(p))'  BY <2>1, <2>2, <2>9 DEF StoredIs, Of, tables
    <2>11. cache'[owner'[p]][Msg(p)'.cluster] = known  BY <2>1, <2>2 DEF kafka
    <2> QED  BY <2>5, <2>6, <2>10, <2>11
  <1>5. ASSUME UpdateReport(p)
        PROVE  StoredIs(Msg(p))' /\ job'[p].stage = "recs"
               /\ cache'[owner'[p]][Msg(p)'.cluster] # NoTime
    <2>1. job[p].stage = "apply" /\ UNCHANGED kafka  BY <1>5 DEF UpdateReport
    <2>2. /\ Valid(Msg(p)) /\ Msg(p).cluster \in Clusters /\ owner[p] \in Replicas
          /\ Msg(p)' = Msg(p)
      BY <1>3, <2>1 DEF kafka, Writing
    <2>3. job'[p].stage = "recs" /\ WriteTables(Msg(p), job[p].known) /\ SetCache(p)
      BY <1>1, <1>2, <1>5, UpdateReportJob
    <2>4. StoredIs(Msg(p))'  BY <2>2, <2>3, StoredIsWritten DEF StoredIs
    <2>5. cache'[owner[p]][Msg(p).cluster] = Msg(p).lastChecked
      BY <1>1, <2>2, <2>3 DEF SetCache, TypeOK
    <2> QED  BY <2>1, <2>2, <2>3, <2>4, <2>5 DEF kafka, Valid
  <1>6. ASSUME LookUpRecommendations(p) PROVE StoredIs(Msg(p))' /\ job'[p].stage = "replace"
    <2>1. job[p].stage = "recs" /\ UNCHANGED <<kafka, tables>>  BY <1>6 DEF LookUpRecommendations
    <2>2. Msg(p)' = Msg(p) /\ LastReport(p, i) /\ <<p, i>> \notin deadLetter
      BY <1>3, <2>1 DEF kafka, Writing
    <2>3. StoredIs(Msg(p))  BY <2>1, <2>2 DEF LastIsStored
    <2>4. job'[p].stage = "replace"  BY <1>1, <1>2, <1>6, LookUpJob
    <2> QED  BY <2>1, <2>2, <2>3, <2>4 DEF StoredIs, Of, tables
  <1>7. ASSUME ReplaceRecommendations(p) \/ AddRecommendations(p)
        PROVE  StoredIs(Msg(p))' /\ job'[p].stage = "info" /\ RecommendedIs(Msg(p))'
    <2>1. job[p].stage \in {"recs", "replace"} /\ UNCHANGED kafka
      BY <1>1, <1>7, RecommendationSteps
    <2>2. /\ Msg(p)' = Msg(p) /\ LastReport(p, i) /\ <<p, i>> \notin deadLetter
      BY <1>3, <2>1 DEF kafka, Writing
    <2>3. /\ StoredIs(Msg(p))
          /\ job[p].stage = "recs" => cache[owner[p]][Msg(p).cluster] # NoTime
      BY <2>1, <2>2 DEF LastIsStored
    <2>4. ~GoTo(p, "fail")  BY <1>1, <1>2, GoToType DEF Stages
    <2>5. GoTo(p, "info")  BY <1>1, <1>7, <2>4, RecommendationSteps
    <2>6. job'[p].stage = "info"  BY <1>1, <2>5, GoToType DEF Stages
    <2>7. PICK known \in SUBSET HitDate, gone \in SUBSET Recommended(p) :
              /\ SetRecommendations((recommendation \ gone)
                     \union RecommendationRows(Msg(p), known, job[p].storedAt))
              /\ gone = Recommended(p)
      BY <1>1, <1>7, <2>3, <2>4, RecommendationSteps
    <2>8. \A x \in recommendation : x.cluster = Msg(p).cluster => x.org = Msg(p).org
      BY <1>1, <2>1 DEF OrgSettled, Rows, Writing
    <2>9. UNCHANGED report /\ RulesOf(Of(recommendation', Msg(p).cluster)) = Msg(p).hits
      BY <2>7, <2>8, RecommendationsWritten DEF Recommended
    <2>10. StoredIs(Msg(p))'  BY <2>2, <2>3, <2>9 DEF StoredIs, Of
    <2>11. RecommendedIs(Msg(p))'  BY <2>2, <2>9 DEF RecommendedIs
    <2> QED  BY <2>6, <2>10, <2>11
  <1>8. ASSUME HandleStep(p)
        PROVE  \/ CheckReport(p) \/ UpdateReport(p) \/ LookUpRecommendations(p)
               \/ ReplaceRecommendations(p) \/ AddRecommendations(p)
    <2>1. ASSUME NEW s \in Stages \ After, GoTo(p, s) PROVE FALSE  BY <1>1, <1>2, <2>1, GoToType
    <2>2. ~StartMessage(p) /\ ~UpdateOrgID(p) /\ ~WriteInfo(p) /\ ~WriteConsumerError(p)
          /\ ~SendDeadLetter(p)
      BY <2>1 DEF StartMessage, UpdateOrgID, WriteInfo, WriteConsumerError, SendDeadLetter, Stages
    <2>3. ~MarkMessage(p)  BY <1>1, <1>2 DEF MarkMessage, TypeOK, Idle
    <2> QED  BY <1>8, <2>2, <2>3 DEF HandleStep
  \* The claim is where it was: nobody else writes what the tables say of its cluster.
  <1>9. ASSUME ~HandleStep(p), job'[p] = job[p], position'[p] = position[p], owner'[p] = owner[p]
        PROVE  /\ StoredIs(Msg(p))'
               /\ job'[p].stage = "recs" => cache'[owner'[p]][Msg(p)'.cluster] # NoTime
               /\ job'[p].stage = "info" => RecommendedIs(Msg(p))'
    <2>1. job[p].stage \in After /\ job[p].stage \in Writing  BY <1>2, <1>9 DEF Writing
    <2>2. /\ i \in 1..Len(log[p]) /\ log[p][i] = Msg(p) /\ Msg(p)' = Msg(p)
          /\ Msg(p).cluster \in Clusters /\ owner[p] \in Replicas
          /\ LastReport(p, i) /\ <<p, i>> \notin deadLetter
      BY <1>3, <1>9, <2>1
    <2>3. /\ StoredIs(Msg(p))
          /\ job[p].stage = "recs" => cache[owner[p]][Msg(p).cluster] # NoTime
          /\ job[p].stage = "info" => RecommendedIs(Msg(p))
      BY <2>1, <2>2 DEF LastIsStored
    <2>4. i <= position[p] + 1 /\ i \in Nat  BY <1>1 DEF TypeOK
    <2>5. ASSUME NEW q \in Partitions, Msg(q).cluster = Msg(p).cluster, job[q].stage \in Writing
          PROVE  q = p
      BY <2>2, <2>4, <2>5, NobodyElseWrites
    <2>6. \A q \in Partitions : Msg(q).cluster = Msg(p).cluster =>
              /\ ~UpdateReport(q) /\ ~WriteInfo(q)
              /\ ~ReplaceRecommendations(q) /\ ~AddRecommendations(q)
      <3>1. ASSUME NEW q \in Partitions, Msg(q).cluster = Msg(p).cluster,
                   UpdateReport(q) \/ WriteInfo(q)
                   \/ ReplaceRecommendations(q) \/ AddRecommendations(q)
            PROVE  FALSE
        <4>1. job[q].stage \in Writing
          BY <3>1 DEF UpdateReport, WriteInfo, ReplaceRecommendations, AddRecommendations, Writing
        <4>2. q = p  BY <2>5, <3>1, <4>1
        <4> QED  BY <1>9, <3>1, <4>2 DEF HandleStep
      <3> QED  BY <3>1
    <2>7. /\ {<<row.lastChecked, row.hits>> : row \in Of(report', Msg(p).cluster)}
                 = {<<row.lastChecked, row.hits>> : row \in Of(report, Msg(p).cluster)}
          /\ RulesOf(Of(recommendation', Msg(p).cluster))
                 = RulesOf(Of(recommendation, Msg(p).cluster))
      BY <2>6, ContentsKept
    <2>8. StoredIs(Msg(p))'  BY <2>2, <2>3, <2>7 DEF StoredIs
    <2>9. job[p].stage = "info" => RecommendedIs(Msg(p))'
      BY <2>2, <2>3, <2>7 DEF RecommendedIs
    <2>10. ~Crash(owner[p])
      <3>1. Crash(owner[p]) => job'[p].stage = "idle"  BY DEF Crash, Idle
      <3> QED  BY <1>2, <3>1
    <2>11. cache'[owner[p]][Msg(p).cluster] = cache[owner[p]][Msg(p).cluster]
      BY <1>1, <2>2, <2>6, <2>10, CacheEntry
    <2> QED  BY <1>9, <2>2, <2>3, <2>8, <2>9, <2>11
  <1>10. CASE HandleStep(p)  BY <1>4, <1>5, <1>6, <1>7, <1>8, <1>10
  <1>11. CASE ~HandleStep(p)
    <2>1. job'[p].stage # "idle"  BY <1>2
    <2>2. /\ job'[p] = job[p] /\ position'[p] = position[p]
          /\ job[p].stage # "idle" => owner'[p] = owner[p]
      BY <1>1, <1>11, <2>1, ClaimSteps
    <2> QED  BY <1>9, <1>11, <2>1, <2>2
  <1> QED  BY <1>10, <1>11

\* The tables say what the last report says when its handling ends, and after that
\* nobody writes what they say of its cluster.
LEMMA HandledStep ==
    ASSUME KeyedByCluster, ~Debug, SinksWork, SafetyInv, ClaimValid, LastIsStored,
           HandledLastSettled, [Next]_vars
    PROVE  HandledLastSettled'
  <1>1. TypeOK /\ JobOK /\ TypeOK'
    BY TypeStep DEF SafetyInv, WriterInv, TypeInv
  <1>2. SUFFICES ASSUME NEW p \in Partitions, NEW i \in 1..Handled(p)', LastReport(p, i)',
                        <<p, i>> \notin deadLetter'
                 PROVE  (StoredIs(log[p][i]) /\ RecommendedIs(log[p][i]) /\ InfoIs(log[p][i]))'
    BY DEF HandledLastSettled
  <1>3. /\ position[p] \in Nat /\ committed[p] \in Nat /\ position'[p] \in Nat
        /\ committed[p] <= position[p] /\ position[p] <= Len(log[p]) /\ Len(log[p]) \in Nat
        /\ job[p].stage = "mark" => position[p] < Len(log[p])
    BY <1>1 DEF TypeOK
  <1>4. ASSUME i <= Len(log[p])
        PROVE  /\ i \in 1..Len(log[p]) /\ LastReport(p, i) /\ <<p, i>> \notin deadLetter
               /\ log'[p][i] = log[p][i]
    <2>1. i \in 1..Len(log[p])
      <3>1. i \in Nat /\ i >= 1  BY <1>1, <1>2, <1>3 DEF Handled, TypeOK
      <3> QED  BY <1>3, <1>4, <3>1
    <2>2. LastReport(p, i) /\ log'[p][i] = log[p][i]
      BY <1>1, <1>2, <2>1, LastReportBefore, LogKept
    <2> QED  BY <1>2, <2>1, <2>2, SinksKept
  \* A report that had been handled before the step.
  <1>5. ASSUME i <= Handled(p)
        PROVE  (StoredIs(log[p][i]) /\ RecommendedIs(log[p][i]) /\ InfoIs(log[p][i]))'
    <2>1. i <= Len(log[p]) /\ i <= position[p] + 1
      BY <1>1, <1>2, <1>3, <1>5 DEF Handled, TypeOK
    <2>2. i \in 1..Handled(p)  BY <1>3, <1>4, <1>5, <2>1 DEF Handled
    <2>3. StoredIs(log[p][i]) /\ RecommendedIs(log[p][i]) /\ InfoIs(log[p][i])
      BY <1>4, <2>1, <2>2 DEF HandledLastSettled
    <2> DEFINE c == log[p][i].cluster
    <2>4. ASSUME NEW q \in Partitions, Msg(q).cluster = c, job[q].stage \in Writing
          PROVE  FALSE
      <3>1. q = p /\ i = position[p] + 1  BY <1>4, <2>1, <2>4, NobodyElseWrites
      <3>2. job[p].stage = "mark"  BY <1>3, <1>5, <3>1 DEF Handled
      <3> QED  BY <2>4, <3>1, <3>2 DEF Writing
    <2>5. \A q \in Partitions : Msg(q).cluster = c =>
              /\ ~UpdateReport(q) /\ ~WriteInfo(q)
              /\ ~ReplaceRecommendations(q) /\ ~AddRecommendations(q)
      BY <2>4 DEF UpdateReport, ReplaceRecommendations, AddRecommendations, WriteInfo, Writing
    <2>6. /\ {<<row.lastChecked, row.hits>> : row \in Of(report', c)}
                 = {<<row.lastChecked, row.hits>> : row \in Of(report, c)}
          /\ RulesOf(Of(recommendation', c)) = RulesOf(Of(recommendation, c))
          /\ {row.version : row \in Of(reportInfo', c)}
                 = {row.version : row \in Of(reportInfo, c)}
      BY <2>5, ContentsKept
    <2>7. log'[p][i] = log[p][i]  BY <1>4, <2>1
    <2>8. StoredIs(log[p][i])'  BY <2>3, <2>6, <2>7 DEF StoredIs
    <2>9. RecommendedIs(log[p][i])'  BY <2>3, <2>6, <2>7 DEF RecommendedIs
    <2>10. InfoIs(log[p][i])'  BY <2>3, <2>6, <2>7 DEF InfoIs
    <2> QED  BY <2>8, <2>9, <2>10
  \* The step with which its handling ends.
  <1>6. ASSUME ~(i <= Handled(p)), position'[p] = position[p], job'[p].stage = "mark",
               position[p] < Len(log[p])
        PROVE  i = position[p] + 1 /\ Valid(Msg(p)) /\ Msg(p)' = Msg(p) /\ log'[p][i] = Msg(p)
               /\ LastReport(p, position[p] + 1)
    <2>1. Handled(p) \in {position[p], position[p] + 1} /\ Handled(p)' = position[p] + 1
      BY <1>6 DEF Handled
    <2>2. i = position[p] + 1 /\ i <= Len(log[p])
      BY <1>2, <1>3, <1>6, <2>1
    <2>3. LastReport(p, i) /\ log'[p][i] = log[p][i]  BY <1>4, <2>2
    <2> QED  BY <1>6, <2>2, <2>3 DEF LastReport, Msg
  <1>7. ASSUME WriteInfo(p), ~(i <= Handled(p))
        PROVE  (StoredIs(log[p][i]) /\ RecommendedIs(log[p][i]) /\ InfoIs(log[p][i]))'
    <2>1. job[p].stage = "info" /\ UNCHANGED kafka  BY <1>7 DEF WriteInfo
    <2>2. position[p] < Len(log[p]) /\ position'[p] = position[p]
      BY <1>1, <2>1 DEF TypeOK, kafka
    <2>3. CASE GoTo(p, "fail")
      <3>1. job'[p].stage = "fail"  BY <1>1, <2>3, GoToType DEF Stages
      <3>2. Handled(p)' = position[p] /\ Handled(p) = position[p]
        BY <2>1, <2>2, <3>1 DEF Handled
      <3> QED  BY <1>2, <1>3, <1>7, <3>2
    <2>4. CASE UpsertInfo(Msg(p)) /\ GoTo(p, "mark")
      <3>1. job'[p].stage = "mark"  BY <1>1, <2>4, GoToType DEF Stages
      <3>2. /\ i = position[p] + 1 /\ Msg(p)' = Msg(p) /\ log'[p][i] = Msg(p)
            /\ LastReport(p, position[p] + 1)
        BY <1>6, <1>7, <2>2, <3>1
      <3>3. <<p, position[p] + 1>> \notin deadLetter  BY <1>2, <3>2, SinksKept
      <3>4. StoredIs(Msg(p)) /\ RecommendedIs(Msg(p))  BY <2>1, <3>2, <3>3 DEF LastIsStored
      <3>5. UNCHANGED <<report, recommendation>>  BY <2>4 DEF UpsertInfo
      <3>6. Msg(p).version # NoVersion =>
                {row.version : row \in Of(reportInfo', Msg(p).cluster)} = {Msg(p).version}
        <4> SUFFICES ASSUME Msg(p).version # NoVersion
                     PROVE  {row.version : row \in Of(reportInfo', Msg(p).cluster)}
                                = {Msg(p).version}
          OBVIOUS
        <4> DEFINE new == [cluster |-> Msg(p).cluster, org |-> Msg(p).org,
                           version |-> Msg(p).version]
        <4>1. reportInfo' = (reportInfo \ Of(reportInfo, Msg(p).cluster)) \union {new}
          BY <2>4 DEF UpsertInfo
        <4>2. new.cluster = Msg(p).cluster /\ new.version = Msg(p).version  OBVIOUS
        <4> HIDE DEF new
        <4>3. Of(reportInfo', Msg(p).cluster) = {new}  BY <4>1, <4>2 DEF Of
        <4> QED  BY <4>2, <4>3
      <3>7. StoredIs(log[p][i])'  BY <3>2, <3>4, <3>5 DEF StoredIs, Of
      <3>8. RecommendedIs(log[p][i])'  BY <3>2, <3>4, <3>5 DEF RecommendedIs, Of, RulesOf
      <3>9. InfoIs(log[p][i])'  BY <3>2, <3>6 DEF InfoIs
      <3> QED  BY <3>7, <3>8, <3>9
    <2> QED  BY <1>7, <2>3, <2>4 DEF WriteInfo
  <1>8. ASSUME StartMessage(p) PROVE i <= Handled(p)
    <2>1. position[p] < Len(log[p]) /\ UNCHANGED kafka /\ job[p].stage = "idle"
      BY <1>8 DEF StartMessage
    <2>2. CASE Msg(p).kind = "empty" /\ GoTo(p, "mark")
      <3>1. job'[p].stage = "mark"  BY <1>1, <2>2, GoToType DEF Stages
      <3>2. ~(i <= Handled(p)) => Valid(Msg(p))  BY <1>6, <2>1, <3>1 DEF kafka
      <3> QED  BY <2>2, <3>2 DEF Valid
    <2>3. CASE GoTo(p, "fail") \/ GoTo(p, "org")
      <3>1. job'[p].stage \in {"fail", "org"}  BY <1>1, <2>3, GoToType DEF Stages
      <3>2. Handled(p)' = Handled(p)  BY <2>1, <3>1 DEF Handled, kafka
      <3> QED  BY <1>2, <1>3, <2>1, <3>2 DEF Handled
    <2> QED  BY <1>8, <2>2, <2>3 DEF StartMessage
  <1>9. ASSUME SendDeadLetter(p) PROVE i <= Handled(p)
    <2>1. /\ GoTo(p, "mark") /\ UNCHANGED kafka /\ job[p].stage = "deadLetter"
          /\ deadLetter' = deadLetter \union {<<p, position[p] + 1>>}
      BY <1>9 DEF SendDeadLetter, SinksWork
    <2>2. position[p] < Len(log[p]) /\ position'[p] = position[p]
      BY <1>1, <2>1 DEF TypeOK, kafka
    <2>3. job'[p].stage = "mark"  BY <1>1, <2>1, GoToType DEF Stages
    <2>4. ~(i <= Handled(p)) => i = position[p] + 1  BY <1>6, <2>2, <2>3
    <2> QED  BY <1>2, <2>1, <2>4
  <1>10. ASSUME MarkMessage(p) PROVE i <= Handled(p)
    <2>1. job[p].stage = "mark" /\ job'[p].stage = "idle" /\ position'[p] = position[p] + 1
      BY <1>1, <1>10 DEF MarkMessage, TypeOK, Idle
    <2>2. Handled(p)' = Handled(p)  BY <2>1 DEF Handled
    <2>3. Handled(p) \in Nat  BY <1>3 DEF Handled
    <2> QED  BY <1>2, <2>2, <2>3
  <1>11. ASSUME job'[p].stage = "idle", position'[p] = committed[p] PROVE i <= Handled(p)
    <2>1. Handled(p) \in Nat /\ Handled(p) >= position[p]  BY <1>3 DEF Handled
    <2>2. Handled(p)' = committed[p]  BY <1>11 DEF Handled
    <2> QED  BY <1>2, <1>3, <2>1, <2>2
  <1>12. ASSUME position'[p] = position[p], job'[p].stage # "mark" \/ job'[p] = job[p]
         PROVE  i <= Handled(p)
    <2>1. Handled(p) \in Nat /\ Handled(p) >= position[p]  BY <1>3 DEF Handled
    <2>2. Handled(p)' \in {Handled(p), position[p]}  BY <1>12 DEF Handled
    <2> QED  BY <1>2, <1>3, <2>1, <2>2
  <1>13. ASSUME UpdateOrgID(p) \/ CheckReport(p) \/ UpdateReport(p) \/ LookUpRecommendations(p)
                    \/ ReplaceRecommendations(p) \/ AddRecommendations(p)
                    \/ WriteConsumerError(p)
         PROVE  i <= Handled(p)
    <2>1. UNCHANGED kafka
      BY <1>13 DEF UpdateOrgID, CheckReport, UpdateReport, LookUpRecommendations,
         ReplaceRecommendations, AddRecommendations, WriteConsumerError
    <2>2. CASE CheckReport(p) \/ UpdateReport(p) \/ LookUpRecommendations(p)
      BY <1>1, <1>12, <2>1, <2>2, CheckReportJob, UpdateReportJob, LookUpJob DEF kafka
    <2>3. CASE UpdateOrgID(p) \/ ReplaceRecommendations(p) \/ AddRecommendations(p)
                   \/ WriteConsumerError(p)
      <3>1. \E s \in {"report", "fail", "info", "deadLetter"} : GoTo(p, s)
        BY <1>1, <2>3, RecommendationSteps DEF UpdateOrgID, WriteConsumerError
      <3>2. job'[p].stage # "mark"  BY <1>1, <3>1, GoToType DEF Stages
      <3> QED  BY <1>12, <2>1, <3>2 DEF kafka
    <2> QED  BY <1>13, <2>2, <2>3
  <1>14. HandleStep(p) => WriteInfo(p) \/ i <= Handled(p)
    BY <1>8, <1>9, <1>10, <1>13 DEF HandleStep
  <1>15. WriteInfo(p) \/ i <= Handled(p)
    BY <1>1, <1>11, <1>12, <1>14, ClaimSteps
  <1> QED  BY <1>5, <1>7, <1>15

-----------------------------------------------------------------------------

LEMMA ConvergenceInit == Init => ConvergenceInv
  <1> SUFFICES ASSUME Init PROVE ConvergenceInv  OBVIOUS
  <1>1. \A p \in Partitions : job[p].stage = "idle" /\ position[p] = 0  BY DEF Init, Idle
  <1>2. ReportFromLog /\ CacheFromLog  BY DEF Init, ReportFromLog, CacheFromLog
  <1>3. ClaimValid /\ LastIsStored  BY <1>1 DEF ClaimValid, LastIsStored, Writing
  <1>l. CachedLast
    <2>1. \A p \in Partitions : 1..Len(log[p]) = {}  BY DEF Init
    <2> QED  BY <2>1 DEF CachedLast
  <1>4. HandledLastSettled  BY <1>1 DEF HandledLastSettled, Handled
  <1> QED  BY <1>2, <1>3, <1>4, <1>l DEF ConvergenceInv

\* The invariant of redelivery holds in every reachable state, whatever fails and
\* also when a replica gets a claim again for which it has cached dates: the last
\* report of a cluster is refused as old only when that very report is stored, and
\* its recommendations are then replaced all the same.
THEOREM ConvergenceSafe ==
    ASSUME KeyedByCluster, ~Debug
    PROVE  Spec => []ConvergenceInv
  <1>1. SafetyInv /\ [Next]_vars => SafetyInv'  BY SafetyStep
  <1>2. SafetyInv /\ ConvergenceInv /\ [Next]_vars => ConvergenceInv'
    <2> SUFFICES ASSUME SafetyInv, ConvergenceInv, [Next]_vars PROVE ConvergenceInv'  OBVIOUS
    <2>1. ReportFromLog /\ CacheFromLog /\ ClaimValid  BY DEF ConvergenceInv
    <2>2. TypeOK  BY DEF SafetyInv
    <2>3. ReportFromLog' /\ CacheFromLog'  BY <2>1, ReportFromLogStep, CacheFromLogStep
    <2>4. ClaimValid'  BY <2>1, <2>2, ClaimValidStep
    <2>5. SinksWork => CachedLast' /\ LastIsStored' /\ HandledLastSettled'
      BY <2>1, CachedLastStep, LastIsStoredStep, HandledStep DEF ConvergenceInv
    <2>6. SinksWork' = SinksWork  BY DEF SinksWork
    <2> QED  BY <2>3, <2>4, <2>5, <2>6 DEF ConvergenceInv
  <1> QED  BY <1>1, <1>2, SafetyInit, ConvergenceInit, PTL DEF Spec

\* With working sinks, when an ordered partition has been read to its end, the
\* report, recommendation and report_info tables hold what the last report of each
\* cluster says, however often storeInDB was repeated, broken off or failed, unless
\* that report is a dead letter.
THEOREM RedeliveryAlwaysConverges ==
    ASSUME KeyedByCluster, ~Debug, SinksWork
    PROVE  Spec => []RedeliveryConverges
  <1>1. Spec => []ConvergenceInv  BY ConvergenceSafe
  <1>2. Spec => []TypeOK  BY TypeCorrect
  <1>3. TypeOK /\ ConvergenceInv => RedeliveryConverges
    <2> SUFFICES ASSUME TypeOK, HandledLastSettled,
                        NEW p \in Partitions, NEW i \in DOMAIN log[p],
                        position[p] = Len(log[p]), LastReport(p, i), <<p, i>> \notin deadLetter
                 PROVE  StoredIs(log[p][i]) /\ RecommendedIs(log[p][i]) /\ InfoIs(log[p][i])
      BY DEF ConvergenceInv, RedeliveryConverges
    <2>1. log[p] \in Seq(Messages) /\ position[p] \in Nat  BY DEF TypeOK
    <2>2. i \in 1..Handled(p)  BY <2>1 DEF Handled
    <2> QED  BY <2>2 DEF HandledLastSettled
  <1> QED  BY <1>1, <1>2, <1>3, PTL
=============================================================================
