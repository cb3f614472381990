--------------------------- MODULE OcpWriterProofs ---------------------------
(***************************************************************************)
(* Proofs about OcpWriter for every number of replicas, partitions,        *)
(* clusters, messages, crashes, lost sessions and any set of faults.       *)
(***************************************************************************)
EXTENDS OcpWriterProps, TLAPS

-----------------------------------------------------------------------------
\* Facts about the operators the model is built from.

\* The message a claim works on is one of the produced messages.
LEMMA MsgType ==
    ASSUME TypeOK, NEW p \in Partitions, position[p] < Len(log[p])
    PROVE  /\ Msg(p) \in Messages
           /\ Msg(p) \in Message
           /\ position[p] + 1 \in 1..Len(log[p])
  <1>1. log[p] \in Seq(Messages) /\ position[p] \in Nat  BY DEF TypeOK
  <1>2. position[p] + 1 \in 1..Len(log[p])  BY <1>1
  <1>3. Msg(p) \in Messages  BY <1>1, <1>2 DEF Msg
  <1> QED  BY <1>2, <1>3, ConstantsAssumption

\* Fields of a message.
LEMMA MsgFields ==
    ASSUME NEW m \in Message
    PROVE  /\ m.cluster \in Clusters /\ m.org \in Orgs /\ m.lastChecked \in Nat
           /\ m.hits \in SUBSET Rules /\ m.version \in Versions \union {NoVersion}
  BY DEF Message

\* Changing the organization of a cluster's rows keeps their types.
LEMMA SetOrgType ==
    ASSUME NEW c \in Clusters, NEW o \in Orgs
    PROVE  /\ \A t \in SUBSET ReportRow : SetOrg(t, c, o) \in SUBSET ReportRow
           /\ \A t \in SUBSET RuleHitRow : SetOrg(t, c, o) \in SUBSET RuleHitRow
           /\ \A t \in SUBSET RecommendationRow : SetOrg(t, c, o) \in SUBSET RecommendationRow
           /\ \A t \in SUBSET ReportInfoRow : SetOrg(t, c, o) \in SUBSET ReportInfoRow
           /\ \A t \in SUBSET UserRow : SetOrg(t, c, o) \in SUBSET UserRow
  <1>1. ASSUME NEW t \in SUBSET ReportRow PROVE SetOrg(t, c, o) \in SUBSET ReportRow
    BY <1>1 DEF SetOrg, ReportRow
  <1>2. ASSUME NEW t \in SUBSET RuleHitRow PROVE SetOrg(t, c, o) \in SUBSET RuleHitRow
    BY <1>2 DEF SetOrg, RuleHitRow
  <1>3. ASSUME NEW t \in SUBSET RecommendationRow
        PROVE  SetOrg(t, c, o) \in SUBSET RecommendationRow
    BY <1>3 DEF SetOrg, RecommendationRow
  <1>4. ASSUME NEW t \in SUBSET ReportInfoRow PROVE SetOrg(t, c, o) \in SUBSET ReportInfoRow
    BY <1>4 DEF SetOrg, ReportInfoRow
  <1>5. ASSUME NEW t \in SUBSET UserRow PROVE SetOrg(t, c, o) \in SUBSET UserRow
    BY <1>5 DEF SetOrg, UserRow
  <1> QED  BY <1>1, <1>2, <1>3, <1>4, <1>5

\* updateOrgID's transaction keeps the types of the tables.
LEMMA UpdateOrgType ==
    ASSUME TypeOK, NEW c \in Clusters, NEW o \in Orgs, UpdateOrgIDForCluster(o, c)
    PROVE  /\ report' \subseteq ReportRow /\ ruleHit' \subseteq RuleHitRow
           /\ recommendation' \subseteq RecommendationRow
           /\ reportInfo' \subseteq ReportInfoRow /\ userRows' \subseteq UserRow
  BY SetOrgType DEF TypeOK, UpdateOrgIDForCluster, tables

\* The dates written for the hits of a report: one for each hit, and times.
LEMMA HitsSinceType ==
    ASSUME NEW hits, NEW known, NEW t
    PROVE  /\ RulesOf(HitsSince(hits, known, t)) = hits
           /\ hits \subseteq Rules /\ known \subseteq HitDate /\ t \in Time =>
                  HitsSince(hits, known, t) \subseteq HitDate
  <1> DEFINE fresh == {[rule |-> r, since |-> t] : r \in hits \ RulesOf(known)}
             kept == {k \in known : k.rule \in hits}
  <1>1. HitsSince(hits, known, t) = kept \union fresh  BY DEF HitsSince
  <1>2. \A k \in kept : k.rule \in hits  OBVIOUS
  <1>3. \A k \in fresh : k.rule \in hits  OBVIOUS
  <1>4. ASSUME NEW r \in hits PROVE \E k \in kept \union fresh : k.rule = r
    <2>1. CASE r \in RulesOf(known)  BY <2>1 DEF RulesOf
    <2>2. CASE r \notin RulesOf(known)
      <3>1. [rule |-> r, since |-> t] \in fresh /\ [rule |-> r, since |-> t].rule = r  BY <2>2
      <3> QED  BY <3>1
    <2> QED  BY <2>1, <2>2
  <1>5. hits \subseteq Rules /\ t \in Time => fresh \subseteq HitDate  BY DEF HitDate
  <1>6. known \subseteq HitDate => kept \subseteq HitDate  OBVIOUS
  <1> HIDE DEF fresh, kept
  <1>7. RulesOf(HitsSince(hits, known, t)) = hits  BY <1>1, <1>2, <1>3, <1>4 DEF RulesOf
  <1> QED  BY <1>1, <1>5, <1>6, <1>7

\* What is looked up has the type of a map from rules to times.
LEMMA LookedUpType ==
    ASSUME TypeOK, NEW c, NEW o
    PROVE  /\ \A rows \in LookedUp(Owned(ruleHit, c, o)) : CreatedAtOf(rows) \subseteq HitDate
           /\ \A rows \in LookedUp(Owned(recommendation, c, o)) :
                  ImpactedSinceOf(rows) \subseteq HitDate
  <1>1. ASSUME NEW rows \in SUBSET RuleHitRow PROVE CreatedAtOf(rows) \subseteq HitDate
    BY DEF CreatedAtOf, RuleHitRow, HitDate
  <1>2. ASSUME NEW rows \in SUBSET RecommendationRow
        PROVE  ImpactedSinceOf(rows) \subseteq HitDate
    BY DEF ImpactedSinceOf, RecommendationRow, HitDate
  <1>3. /\ Owned(ruleHit, c, o) \subseteq RuleHitRow
        /\ Owned(recommendation, c, o) \subseteq RecommendationRow
    BY DEF Owned, TypeOK
  <1> QED  BY <1>1, <1>2, <1>3 DEF LookedUp

\* The transaction that writes a report keeps the types of the tables.
LEMMA WriteTablesType ==
    ASSUME TypeOK, NEW m \in Message, m.lastChecked \in Time,
           NEW known \in SUBSET HitDate, WriteTables(m, known)
    PROVE  /\ report' \subseteq ReportRow /\ ruleHit' \subseteq RuleHitRow
           /\ UNCHANGED <<recommendation, reportInfo, userRows>>
  <1>1. ReportRowOf(m) \in ReportRow  BY MsgFields DEF ReportRowOf, ReportRow
  <1>2. now \in Time /\ m.hits \subseteq Rules  BY MsgFields DEF TypeOK
  <1>3. HitsSince(m.hits, known, now) \subseteq HitDate  BY <1>2, HitsSinceType
  <1>4. ASSUME NEW k \in HitDate
        PROVE  [cluster |-> m.cluster, org |-> m.org, rule |-> k.rule, createdAt |-> k.since]
                   \in RuleHitRow
    BY MsgFields DEF HitDate, RuleHitRow
  <1>5. RuleHitRows(m, known) \subseteq RuleHitRow  BY <1>3, <1>4 DEF RuleHitRows
  <1>6. ruleHit \subseteq RuleHitRow /\ report \subseteq ReportRow  BY DEF TypeOK
  <1>7. ruleHit' \subseteq RuleHitRow  BY <1>5, <1>6 DEF WriteTables
  <1>8. report' \subseteq ReportRow  BY <1>1, <1>6 DEF WriteTables, Of
  <1> QED  BY <1>7, <1>8 DEF WriteTables

\* And so do those that write recommendations.
LEMMA RecommendationRowsType ==
    ASSUME NEW m \in Message, NEW at \in Time, NEW known \in SUBSET HitDate
    PROVE  RecommendationRows(m, known, at) \in SUBSET RecommendationRow
  <1>1. HitsSince(m.hits, known, at) \subseteq HitDate  BY MsgFields, HitsSinceType
  <1>2. ASSUME NEW k \in HitDate
        PROVE  [cluster |-> m.cluster, org |-> m.org, rule |-> k.rule,
                createdAt |-> at, impactedSince |-> k.since] \in RecommendationRow
    BY MsgFields DEF HitDate, RecommendationRow
  <1> QED  BY <1>1, <1>2 DEF RecommendationRows

-----------------------------------------------------------------------------
\* Type correctness.  It needs to know that an unparsable date never gets as far
\* as the report table, and that rows are never stamped with an unset time.

TypeInv == TypeOK /\ JobOK

LEMMA TypeInit == Init => TypeInv
  <1> SUFFICES ASSUME Init PROVE TypeInv  OBVIOUS
  <1>1. /\ job \in [Partitions -> Job]
        /\ \A p \in Partitions : job[p].stage = "idle" /\ ~job[p].stored
    BY DEF Init, Idle, Job, Stages, NoTime
  <1>2. now \in Time  BY DEF Init, Time, NoTime
  <1>3. /\ log \in [Partitions -> Seq(Messages)]
        /\ \A p \in Partitions : Len(log[p]) = 0
    BY DEF Init
  <1>4. cache \in [Replicas -> [Clusters -> Nat]]  BY DEF Init, NoTime
  <1>5. TypeOK  BY <1>1, <1>2, <1>3, <1>4 DEF Init, TypeOK
  <1>6. JobOK  BY <1>1 DEF JobOK, Writing
  <1> QED  BY <1>5, <1>6 DEF TypeInv

\* Moving a claim from stage to stage keeps the type of job.
LEMMA GoToType ==
    ASSUME TypeOK, NEW p \in Partitions, NEW s \in Stages, GoTo(p, s)
    PROVE  /\ job' \in [Partitions -> Job]
           /\ job'[p].stage = s
           /\ job'[p].storedAt = job[p].storedAt
           /\ job'[p].stored = job[p].stored
           /\ job'[p].known = {}
           /\ \A q \in Partitions \ {p} : job'[q] = job[q]
  BY DEF GoTo, TypeOK, Job

\* So does noting that the report has been stored.
LEMMA SetStoredType ==
    ASSUME TypeOK, NEW p \in Partitions, NEW s \in Stages, NEW b \in BOOLEAN,
           NEW k \in SUBSET HitDate,
           job' = [job EXCEPT ![p] = [@ EXCEPT !.stage = s, !.stored = b, !.known = k]]
    PROVE  /\ job' \in [Partitions -> Job]
           /\ job'[p].stage = s
           /\ job'[p].storedAt = job[p].storedAt
           /\ job'[p].stored = b
           /\ job'[p].known = k
           /\ \A q \in Partitions \ {p} : job'[q] = job[q]
  BY DEF TypeOK, Job

\* What CheckReport makes of the job of its claim.
LEMMA CheckReportJob ==
    ASSUME TypeOK, NEW p \in Partitions, CheckReport(p)
    PROVE  /\ job' \in [Partitions -> Job]
           /\ job'[p].stage \in {"recs", "apply", "fail"}
           /\ job'[p].stage # "fail" => job'[p].storedAt = now
           /\ job'[p].stage = "recs" => OldByCache(p) \/ NewerInDB(p)
           /\ job'[p].stage = "apply" =>
                  /\ ~OldByCache(p) /\ ~NewerInDB(p)
                  /\ \E rows \in LookedUp(Owned(ruleHit, Msg(p).cluster, Msg(p).org)) :
                         job'[p].known = CreatedAtOf(rows)
           /\ job'[p].stored = job[p].stored
           /\ \A q \in Partitions \ {p} : job'[q] = job[q]
  <1>1. now \in Nat /\ {"recs", "apply", "fail"} \subseteq Stages  BY DEF TypeOK, Time, Stages
  <1>2. CASE /\ OldByCache(p) \/ NewerInDB(p)
             /\ job' = [job EXCEPT ![p] = [@ EXCEPT !.stage = "recs", !.storedAt = now]]
    BY <1>1, <1>2 DEF TypeOK, Job
  <1>3. CASE /\ ~OldByCache(p) /\ ~NewerInDB(p)
             /\ \E rows \in LookedUp(Owned(ruleHit, Msg(p).cluster, Msg(p).org)) :
                    job' = [job EXCEPT ![p] = [@ EXCEPT !.stage = "apply", !.storedAt = now,
                                                        !.known = CreatedAtOf(rows)]]
    <2>1. PICK rows \in LookedUp(Owned(ruleHit, Msg(p).cluster, Msg(p).org)) :
              job' = [job EXCEPT ![p] = [@ EXCEPT !.stage = "apply", !.storedAt = now,
                                                  !.known = CreatedAtOf(rows)]]
      BY <1>3
    <2> DEFINE k == CreatedAtOf(rows)
    <2>2. k \in SUBSET HitDate  BY LookedUpType
    <2>3. job' = [job EXCEPT ![p] = [@ EXCEPT !.stage = "apply", !.storedAt = now, !.known = k]]
      BY <2>1
    <2> HIDE DEF k
    <2>4. /\ job' \in [Partitions -> Job] /\ job'[p].stage = "apply" /\ job'[p].storedAt = now
          /\ job'[p].stored = job[p].stored /\ job'[p].known = k
          /\ \A q \in Partitions \ {p} : job'[q] = job[q]
      BY <1>1, <2>2, <2>3 DEF TypeOK, Job
    <2> QED  BY <1>3, <2>4 DEF k
  <1>4. CASE GoTo(p, "fail")
    <2>1. /\ job' \in [Partitions -> Job] /\ job'[p].stage = "fail"
          /\ job'[p].stored = job[p].stored
          /\ \A q \in Partitions \ {p} : job'[q] = job[q]
      BY <1>1, <1>4, GoToType
    <2> QED  BY <2>1
  <1> QED  BY <1>2, <1>3, <1>4 DEF CheckReport

\* And UpdateReport.
LEMMA UpdateReportJob ==
    ASSUME TypeOK, NEW p \in Partitions, UpdateReport(p)
    PROVE  /\ job' \in [Partitions -> Job]
           /\ \/ /\ job'[p].stage = "recs" /\ job'[p].stored
                 /\ WriteTables(Msg(p), job[p].known) /\ SetCache(p)
              \/ job'[p].stage = "fail" /\ job'[p].stored = job[p].stored
           /\ job'[p].storedAt = job[p].storedAt
           /\ \A q \in Partitions \ {p} : job'[q] = job[q]
  <1>1. {"recs", "fail"} \subseteq Stages /\ TRUE \in BOOLEAN /\ {} \in SUBSET HitDate
    BY DEF Stages
  <1>2. CASE /\ job' = [job EXCEPT ![p] = [@ EXCEPT !.stage = "recs", !.stored = TRUE,
                                                     !.known = {}]]
             /\ WriteTables(Msg(p), job[p].known) /\ SetCache(p)
    <2>1. /\ job' \in [Partitions -> Job] /\ job'[p].stage = "recs"
          /\ job'[p].storedAt = job[p].storedAt /\ job'[p].stored = TRUE
          /\ \A q \in Partitions \ {p} : job'[q] = job[q]
      BY <1>1, <1>2, SetStoredType
    <2> QED  BY <1>2, <2>1
  <1>3. CASE GoTo(p, "fail")
    <2>1. /\ job' \in [Partitions -> Job] /\ job'[p].stage = "fail"
          /\ job'[p].storedAt = job[p].storedAt /\ job'[p].stored = job[p].stored
          /\ \A q \in Partitions \ {p} : job'[q] = job[q]
      BY <1>1, <1>3, GoToType
    <2> QED  BY <2>1
  <1> QED  BY <1>2, <1>3 DEF UpdateReport

\* And LookUpRecommendations.
LEMMA LookUpJob ==
    ASSUME TypeOK, NEW p \in Partitions, LookUpRecommendations(p)
    PROVE  /\ job' \in [Partitions -> Job]
           /\ \/ /\ job'[p].stage = "replace"
                 /\ \E rows \in LookedUp(Recommended(p)) :
                        job'[p].known = ImpactedSinceOf(rows)
              \/ job'[p].stage = "fail"
           /\ job'[p].storedAt = job[p].storedAt
           /\ job'[p].stored = job[p].stored
           /\ \A q \in Partitions \ {p} : job'[q] = job[q]
  <1>1. {"replace", "fail"} \subseteq Stages  BY DEF Stages
  <1>2. CASE GoTo(p, "fail")  BY <1>1, <1>2, GoToType
  <1>3. CASE \E rows \in LookedUp(Recommended(p)) :
                 job' = [job EXCEPT ![p] = [@ EXCEPT !.stage = "replace",
                                                     !.known = ImpactedSinceOf(rows)]]
    <2>1. PICK rows \in LookedUp(Recommended(p)) :
              job' = [job EXCEPT ![p] = [@ EXCEPT !.stage = "replace",
                                                  !.known = ImpactedSinceOf(rows)]]
      BY <1>3
    <2> DEFINE k == ImpactedSinceOf(rows)
    <2>2. k \in SUBSET HitDate  BY LookedUpType DEF Recommended
    <2>3. job' = [job EXCEPT ![p] = [@ EXCEPT !.stage = "replace", !.known = k]]  BY <2>1
    <2> HIDE DEF k
    <2>4. /\ job' \in [Partitions -> Job] /\ job'[p].stage = "replace"
          /\ job'[p].storedAt = job[p].storedAt
          /\ job'[p].stored = job[p].stored /\ job'[p].known = k
          /\ \A q \in Partitions \ {p} : job'[q] = job[q]
      BY <1>1, <2>2, <2>3 DEF TypeOK, Job
    <2> QED  BY <2>4 DEF k
  <1> QED  BY <1>2, <1>3 DEF LookUpRecommendations

LEMMA TypeStep == TypeInv /\ [Next]_vars => TypeInv'
  <1> SUFFICES ASSUME TypeInv, [Next]_vars PROVE TypeInv'  OBVIOUS
  <1> USE DEF TypeInv
  <1>0. \A p \in Partitions : job[p].stage \in Stages /\ job[p].storedAt \in Nat
                              /\ job[p].stored \in BOOLEAN /\ job[p].known \subseteq HitDate
    BY DEF TypeOK, Job
  \* Steps that leave the offsets and the log alone.
  <1>a. ASSUME UNCHANGED kafka, job' \in [Partitions -> Job],
               cache' \in [Replicas -> [Clusters -> Nat]],
               report' \subseteq ReportRow, ruleHit' \subseteq RuleHitRow,
               recommendation' \subseteq RecommendationRow,
               reportInfo' \subseteq ReportInfoRow, userRows' \subseteq UserRow,
               consumerError' \subseteq Partitions \X Nat,
               deadLetter' \subseteq Partitions \X Nat,
               request' \subseteq UserRow, now' \in Time, interruptions' \in Nat,
               \A p \in Partitions : job'[p].stage # "idle" => position[p] < Len(log[p])
        PROVE  TypeOK'
    BY <1>a DEF TypeOK, kafka
  <1>1. ASSUME NEW p \in Partitions, StartMessage(p) PROVE TypeInv'
    <2>1. PICK s \in {"mark", "fail", "org"} : GoTo(p, s)  BY <1>1 DEF StartMessage
    <2>2. s \in Stages  BY DEF Stages
    <2>3. /\ UNCHANGED <<kafka, cache, tables, sinks, env>> /\ position[p] < Len(log[p])
          /\ job[p].stage = "idle"
      BY <1>1 DEF StartMessage
    <2>4. TypeOK'
      BY <2>1, <2>2, <2>3, GoToType, <1>a DEF TypeOK, kafka, tables, sinks, env
    <2>5. JobOK'
      BY <2>1, <2>2, <2>3, GoToType DEF JobOK, kafka, Msg, Writing
    <2> QED  BY <2>4, <2>5
  <1>2. ASSUME NEW p \in Partitions, UpdateOrgID(p) PROVE TypeInv'
    <2>1. job[p].stage = "org" /\ UNCHANGED <<kafka, cache, sinks, env>>
      BY <1>2 DEF UpdateOrgID
    <2>2. position[p] < Len(log[p])  BY <2>1 DEF TypeOK
    <2>3. Msg(p) \in Message  BY <2>2, MsgType
    <2>4. PICK s \in {"fail", "report"} :
              GoTo(p, s) /\ (s = "report" => Msg(p).lastChecked # NoTime)
      BY <1>2 DEF UpdateOrgID
    <2>5. s \in Stages  BY DEF Stages
    <2>6. /\ report' \subseteq ReportRow /\ ruleHit' \subseteq RuleHitRow
          /\ recommendation' \subseteq RecommendationRow
          /\ reportInfo' \subseteq ReportInfoRow /\ userRows' \subseteq UserRow
      <3>1. CASE UpdateOrgIDForCluster(Msg(p).org, Msg(p).cluster)
        BY <3>1, <2>3, UpdateOrgType, MsgFields
      <3>2. CASE UNCHANGED tables  BY <3>2 DEF TypeOK, tables
      <3> QED  BY <3>1, <3>2, <1>2 DEF UpdateOrgID
    <2>7. TypeOK'
      BY <2>1, <2>2, <2>4, <2>5, <2>6, GoToType, <1>a DEF TypeOK, kafka, sinks, env
    <2>8. Msg(p).lastChecked \in Nat  BY <2>3, MsgFields
    <2>9. s = "report" => Msg(p).lastChecked \in Time  BY <2>4, <2>8 DEF Time
    <2>10. \A q \in Partitions : Msg(q)' = Msg(q)  BY <2>1 DEF Msg, kafka
    <2>11. JobOK'
      BY <2>1, <2>4, <2>5, <2>9, <2>10, GoToType DEF JobOK, Writing
    <2> QED  BY <2>7, <2>11
  <1>3. ASSUME NEW p \in Partitions, CheckReport(p) PROVE TypeInv'
    <2>1. job[p].stage = "report" /\ UNCHANGED <<kafka, cache, tables, sinks, env>>
      BY <1>3 DEF CheckReport
    <2>2. position[p] < Len(log[p])  BY <2>1 DEF TypeOK
    <2>3. now \in Time /\ now \in Nat  BY DEF TypeOK, Time
    <2>4. /\ job' \in [Partitions -> Job]
          /\ job'[p].stage \in {"recs", "apply", "fail"}
          /\ job'[p].stage # "fail" => job'[p].storedAt = now
          /\ job'[p].stored = job[p].stored
          /\ \A q \in Partitions \ {p} : job'[q] = job[q]
      BY <1>3, CheckReportJob
    <2>6. TypeOK'
      BY <2>1, <2>2, <2>4, <1>a DEF TypeOK, kafka, tables, sinks, env
    <2>7. \A q \in Partitions : Msg(q)' = Msg(q)  BY <2>1 DEF Msg, kafka
    <2>8. JobOK'
      BY <2>1, <2>3, <2>4, <2>7 DEF JobOK, Writing
    <2> QED  BY <2>6, <2>8
  <1>4. ASSUME NEW p \in Partitions, UpdateReport(p) PROVE TypeInv'
    <2>1. job[p].stage = "apply" /\ UNCHANGED <<kafka, sinks, env>>
      BY <1>4 DEF UpdateReport
    <2>2. position[p] < Len(log[p])  BY <2>1 DEF TypeOK
    <2>3. Msg(p) \in Message /\ Msg(p).lastChecked \in Time
      BY <2>1, <2>2, MsgType DEF JobOK, Writing
    <2>4. /\ report' \subseteq ReportRow /\ ruleHit' \subseteq RuleHitRow
          /\ UNCHANGED <<recommendation, reportInfo, userRows>>
      <3>1. CASE WriteTables(Msg(p), job[p].known)  BY <1>0, <3>1, <2>3, WriteTablesType
      <3>2. CASE UNCHANGED tables  BY <3>2 DEF TypeOK, tables
      <3> QED  BY <3>1, <3>2, <1>4 DEF UpdateReport
    <2>5. cache' \in [Replicas -> [Clusters -> Nat]]
      <3>1. /\ cache \in [Replicas -> [Clusters -> Nat]] /\ owner[p] \in Replicas
            /\ Msg(p).lastChecked \in Nat
        BY <2>3, MsgFields DEF TypeOK
      <3>2. CASE SetCache(p)  BY <3>1, <3>2 DEF SetCache
      <3>3. CASE UNCHANGED cache  BY <3>1, <3>3
      <3> QED  BY <3>2, <3>3, <1>4 DEF UpdateReport
    <2>7. /\ job' \in [Partitions -> Job]
          /\ job'[p].stage \in {"recs", "fail"}
          /\ job'[p].storedAt = job[p].storedAt
          /\ \A q \in Partitions \ {p} : job'[q] = job[q]
      BY <1>4, UpdateReportJob
    <2>8. TypeOK'
      BY <2>1, <2>2, <2>4, <2>5, <2>7, <1>a DEF TypeOK, kafka, sinks, env
    <2>9. \A q \in Partitions : Msg(q)' = Msg(q)  BY <2>1 DEF Msg, kafka
    <2>10. JobOK'  BY <2>1, <2>7, <2>9 DEF JobOK, Writing
    <2> QED  BY <2>8, <2>10
  <1>r. ASSUME NEW p \in Partitions, LookUpRecommendations(p) PROVE TypeInv'
    <2>1. job[p].stage = "recs" /\ UNCHANGED <<kafka, cache, tables, sinks, env>>
      BY <1>r DEF LookUpRecommendations
    <2>2. position[p] < Len(log[p])  BY <2>1 DEF TypeOK
    <2>4. /\ job' \in [Partitions -> Job] /\ job'[p].stage \in {"replace", "fail"}
          /\ job'[p].storedAt = job[p].storedAt /\ job'[p].stored = job[p].stored
          /\ \A q \in Partitions \ {p} : job'[q] = job[q]
      BY <1>r, LookUpJob
    <2>5. TypeOK'
      BY <2>1, <2>2, <2>4, <1>a DEF TypeOK, kafka, tables, sinks, env
    <2>6. \A q \in Partitions : Msg(q)' = Msg(q)  BY <2>1 DEF Msg, kafka
    <2>7. JobOK'  BY <2>1, <2>4, <2>6 DEF JobOK, Writing
    <2> QED  BY <2>5, <2>7
  <1>5. ASSUME NEW p \in Partitions, ReplaceRecommendations(p) \/ AddRecommendations(p)
        PROVE  TypeInv'
    <2>1. job[p].stage \in {"recs", "replace"} /\ UNCHANGED <<kafka, cache, sinks, env>>
      BY <1>5 DEF ReplaceRecommendations, AddRecommendations
    <2>2. position[p] < Len(log[p])  BY <2>1 DEF TypeOK
    <2>3. Msg(p) \in Message /\ job[p].storedAt \in Time
      BY <2>1, <2>2, MsgType DEF JobOK
    <2>4. /\ recommendation' \subseteq RecommendationRow
          /\ UNCHANGED <<report, ruleHit, reportInfo, userRows>>
      <3>1. ASSUME NEW known \in SUBSET HitDate, NEW rest \in SUBSET recommendation,
                   SetRecommendations(rest
                       \union RecommendationRows(Msg(p), known, job[p].storedAt))
            PROVE  /\ recommendation' \subseteq RecommendationRow
                   /\ UNCHANGED <<report, ruleHit, reportInfo, userRows>>
        BY <2>3, <3>1, RecommendationRowsType DEF SetRecommendations, TypeOK
      <3>2. CASE UNCHANGED tables  BY <3>2 DEF TypeOK, tables
      <3>3. /\ {} \in SUBSET HitDate /\ job[p].known \in SUBSET HitDate
            /\ recommendation \ Recommended(p) \in SUBSET recommendation
        BY <1>0
      <3> QED  BY <3>1, <3>2, <3>3, <1>5 DEF ReplaceRecommendations, AddRecommendations
    <2>5. PICK s \in {"info", "fail"} : GoTo(p, s)
      BY <1>5 DEF ReplaceRecommendations, AddRecommendations
    <2>6. s \in Stages  BY DEF Stages
    <2>7. TypeOK'
      BY <2>1, <2>2, <2>4, <2>5, <2>6, GoToType, <1>a DEF TypeOK, kafka, sinks, env
    <2>8. \A q \in Partitions : Msg(q)' = Msg(q)  BY <2>1 DEF Msg, kafka
    <2>9. JobOK'  BY <2>1, <2>5, <2>6, <2>8, GoToType DEF JobOK, Writing
    <2> QED  BY <2>7, <2>9
  <1>6. ASSUME NEW p \in Partitions, WriteInfo(p) PROVE TypeInv'
    <2>1. job[p].stage = "info" /\ UNCHANGED <<kafka, cache, sinks, env>>
      BY <1>6 DEF WriteInfo
    <2>2. position[p] < Len(log[p])  BY <2>1 DEF TypeOK
    <2>3. Msg(p) \in Message  BY <2>2, MsgType
    <2>4. /\ reportInfo' \subseteq ReportInfoRow
          /\ UNCHANGED <<report, ruleHit, recommendation, userRows>>
      <3>1. CASE UpsertInfo(Msg(p))
        <4>1. Msg(p).version # NoVersion =>
                [cluster |-> Msg(p).cluster, org |-> Msg(p).org, version |-> Msg(p).version]
                    \in ReportInfoRow
          BY <2>3, MsgFields DEF ReportInfoRow
        <4> QED  BY <3>1, <4>1 DEF UpsertInfo, TypeOK, Of
      <3>2. CASE UNCHANGED tables  BY <3>2 DEF TypeOK, tables
      <3> QED  BY <3>1, <3>2, <1>6 DEF WriteInfo
    <2>5. PICK s \in {"mark", "fail"} : GoTo(p, s)  BY <1>6 DEF WriteInfo
    <2>6. s \in Stages  BY DEF Stages
    <2>7. TypeOK'
      BY <2>1, <2>2, <2>4, <2>5, <2>6, GoToType, <1>a DEF TypeOK, kafka, sinks, env
    <2>8. \A q \in Partitions : Msg(q)' = Msg(q)  BY <2>1 DEF Msg, kafka
    <2>9. JobOK'  BY <2>5, <2>6, <2>8, GoToType DEF JobOK, Writing
    <2> QED  BY <2>7, <2>9
  <1>7. ASSUME NEW p \in Partitions, WriteConsumerError(p) \/ SendDeadLetter(p)
        PROVE  TypeInv'
    <2>1. /\ job[p].stage \in {"fail", "deadLetter"}
          /\ UNCHANGED <<kafka, cache, tables, env>>
      BY <1>7 DEF WriteConsumerError, SendDeadLetter
    <2>2. position[p] < Len(log[p])  BY <2>1 DEF TypeOK
    <2>3. <<p, position[p] + 1>> \in Partitions \X Nat  BY DEF TypeOK
    <2>4. consumerError' \subseteq Partitions \X Nat /\ deadLetter' \subseteq Partitions \X Nat
      BY <1>7, <2>3 DEF WriteConsumerError, SendDeadLetter, TypeOK
    <2>5. PICK s \in {"deadLetter", "mark"} : GoTo(p, s)
      BY <1>7 DEF WriteConsumerError, SendDeadLetter
    <2>6. s \in Stages  BY DEF Stages
    <2>7. TypeOK'
      BY <2>1, <2>2, <2>4, <2>5, <2>6, GoToType, <1>a DEF TypeOK, kafka, tables, env
    <2>8. \A q \in Partitions : Msg(q)' = Msg(q)  BY <2>1 DEF Msg, kafka
    <2>9. JobOK'  BY <2>5, <2>6, <2>8, GoToType DEF JobOK, Writing
    <2> QED  BY <2>7, <2>9
  <1>8. ASSUME NEW p \in Partitions, MarkMessage(p) PROVE TypeInv'
    <2>1. Idle \in Job /\ Idle.stage = "idle" /\ ~Idle.stored  BY DEF Idle, Job, Stages, NoTime
    <2>2. job' \in [Partitions -> Job]  BY <1>8, <2>1 DEF MarkMessage, TypeOK
    <2>3. /\ job'[p].stage = "idle" /\ ~job'[p].stored
          /\ \A q \in Partitions \ {p} : job'[q] = job[q]
      BY <1>8, <2>1 DEF MarkMessage, TypeOK
    <2>4. position[p] < Len(log[p])  BY <1>8 DEF MarkMessage, TypeOK
    <2>5. /\ position' \in [Partitions -> Nat]
          /\ position'[p] = position[p] + 1
          /\ \A q \in Partitions \ {p} : position'[q] = position[q]
      BY <1>8 DEF MarkMessage, TypeOK
    <2>6. UNCHANGED <<log, committed, owner, cache, tables, sinks, env>>
      BY <1>8 DEF MarkMessage
    <2>7. \A q \in Partitions : Len(log[q]) \in Nat  BY DEF TypeOK
    <2>a. \A q \in Partitions :
             /\ committed[q] <= position'[q] /\ position'[q] <= Len(log[q])
             /\ job'[q].stage # "idle" => position'[q] < Len(log[q])
      <3>1. ASSUME NEW q \in Partitions
            PROVE  /\ committed[q] \in Nat /\ position[q] \in Nat
                   /\ committed[q] <= position[q] /\ position[q] <= Len(log[q])
                   /\ job[q].stage # "idle" => position[q] < Len(log[q])
        BY DEF TypeOK
      <3> QED  BY <2>3, <2>4, <2>5, <2>7, <3>1
    <2>8. TypeOK'
      BY <2>2, <2>5, <2>6, <2>a DEF TypeOK, tables, sinks, env
    <2>9. \A q \in Partitions \ {p} : Msg(q)' = Msg(q)  BY <2>5, <2>6 DEF Msg
    <2>10. JobOK'  BY <2>3, <2>9 DEF JobOK, Writing
    <2> QED  BY <2>8, <2>10
  <1>9. ASSUME NEW p \in Partitions, CommitOffsets(p) PROVE TypeInv'
    BY <1>9 DEF CommitOffsets, TypeOK, JobOK, Msg, tables, sinks, env
  <1>10. ASSUME NEW p \in Partitions, NEW m \in Messages, Produce(p, m) PROVE TypeInv'
    <2>1. /\ log' = [log EXCEPT ![p] = Append(log[p], m)]
          /\ UNCHANGED <<committed, position, owner, job, cache, tables, sinks, env>>
      BY <1>10 DEF Produce
    <2>2. log[p] \in Seq(Messages)  BY DEF TypeOK
    <2>3. /\ Append(log[p], m) \in Seq(Messages)
          /\ Len(Append(log[p], m)) = Len(log[p]) + 1
          /\ \A i \in 1..Len(log[p]) : Append(log[p], m)[i] = log[p][i]
      BY <2>2
    <2>4. /\ log' \in [Partitions -> Seq(Messages)]
          /\ log'[p] = Append(log[p], m)
          /\ \A q \in Partitions \ {p} : log'[q] = log[q]
      BY <2>1, <2>3 DEF TypeOK
    <2>5. ASSUME NEW q \in Partitions
          PROVE  Len(log[q]) \in Nat /\ Len(log'[q]) \in Nat /\ Len(log'[q]) >= Len(log[q])
      <3>1. Len(log[q]) \in Nat  BY DEF TypeOK
      <3> QED  BY <3>1, <2>3, <2>4
    <2>6. TypeOK'
      BY <2>1, <2>4, <2>5 DEF TypeOK, tables, sinks, env
    <2>7. ASSUME NEW q \in Partitions, job[q].stage # "idle" PROVE Msg(q)' = Msg(q)
      BY <2>1, <2>3, <2>4, <2>7 DEF Msg, TypeOK
    <2>8. JobOK'  BY <2>1, <2>7 DEF JobOK, Writing
    <2> QED  BY <2>6, <2>8
  <1>11. ASSUME NEW p \in Partitions, NEW r \in Replicas, Rebalance(p, r) PROVE TypeInv'
    BY <1>11 DEF Rebalance, TypeOK, JobOK, Msg, tables, sinks, env
  <1>l. ASSUME NEW p \in Partitions, NEW r \in Replicas, LoseSession(p, r) PROVE TypeInv'
    <2>1. /\ job[p].stage = "idle" /\ interruptions' = interruptions + 1
          /\ UNCHANGED <<log, committed, job, cache, tables, sinks, request, now>>
      BY <1>l DEF LoseSession
    <2>2. /\ owner' \in [Partitions -> Replicas] /\ position' \in [Partitions -> Nat]
          /\ position'[p] = committed[p]
          /\ \A q \in Partitions \ {p} : position'[q] = position[q]
      BY <1>l DEF LoseSession, TypeOK
    <2>3. ASSUME NEW q \in Partitions
          PROVE  /\ committed[q] <= position'[q] /\ position'[q] <= Len(log[q])
                 /\ job[q].stage # "idle" => position'[q] < Len(log[q])
      <3>1. /\ committed[q] \in Nat /\ position[q] \in Nat /\ Len(log[q]) \in Nat
            /\ committed[q] <= position[q] /\ position[q] <= Len(log[q])
            /\ job[q].stage # "idle" => position[q] < Len(log[q])
        BY DEF TypeOK
      <3> QED  BY <2>1, <2>2, <3>1
    <2>4. TypeOK'  BY <2>1, <2>2, <2>3 DEF TypeOK, tables, sinks
    <2>5. \A q \in Partitions \ {p} : Msg(q)' = Msg(q)  BY <2>1, <2>2 DEF Msg
    <2>6. JobOK'  BY <2>1, <2>5 DEF JobOK, Writing
    <2> QED  BY <2>4, <2>6
  <1>12. ASSUME NEW r \in Replicas, Crash(r) PROVE TypeInv'
    <2>1. Idle \in Job /\ Idle.stage = "idle" /\ ~Idle.stored  BY DEF Idle, Job, Stages, NoTime
    <2>2. /\ UNCHANGED <<log, committed, owner, tables, sinks, request, now>>
          /\ interruptions' = interruptions + 1
          /\ cache' \in [Replicas -> [Clusters -> Nat]]
      BY <1>12 DEF Crash, TypeOK, NoTime
    <2>3. \A p \in Partitions :
             \/ job'[p] = Idle /\ position'[p] = committed[p]
             \/ job'[p] = job[p] /\ position'[p] = position[p]
      BY <1>12 DEF Crash
    <2>4. job' \in [Partitions -> Job] /\ position' \in [Partitions -> Nat]
      BY <1>12, <2>1 DEF Crash, TypeOK
    <2>5. \A p \in Partitions : Len(log[p]) \in Nat  BY DEF TypeOK
    <2>a. \A q \in Partitions :
             /\ committed[q] <= position'[q] /\ position'[q] <= Len(log[q])
             /\ job'[q].stage # "idle" => position'[q] < Len(log[q])
      <3>1. ASSUME NEW q \in Partitions
            PROVE  /\ committed[q] \in Nat /\ position[q] \in Nat
                   /\ committed[q] <= position[q] /\ position[q] <= Len(log[q])
                   /\ job[q].stage # "idle" => position[q] < Len(log[q])
        BY DEF TypeOK
      <3> QED  BY <2>1, <2>3, <2>5, <3>1
    <2>6. TypeOK'
      BY <2>2, <2>4, <2>a DEF TypeOK, tables, sinks
    <2>7. \A p \in Partitions :
             \/ job'[p].stage = "idle" /\ ~job'[p].stored
             \/ job'[p] = job[p] /\ Msg(p)' = Msg(p)
      BY <2>1, <2>2, <2>3 DEF Msg
    <2>8. JobOK'  BY <2>7 DEF JobOK, Writing
    <2> QED  BY <2>6, <2>8
  <1>13. ASSUME Tick PROVE TypeInv'
    BY <1>13 DEF Tick, TypeOK, JobOK, Msg, Time, NoTime, kafka, tables, sinks
  <1>14. ASSUME NEW t \in UserTables, NEW c \in Clusters, NEW o \in Orgs,
                CheckRequest(t, c, o)
         PROVE  TypeInv'
    <2>1. [table |-> t, cluster |-> c, org |-> o] \in UserRow  BY DEF UserRow
    <2> QED
      BY <1>14, <2>1 DEF CheckRequest, TypeOK, JobOK, Msg, kafka, tables, sinks
  <1>15. ASSUME NEW q \in request, ServeRequest(q) PROVE TypeInv'
    BY <1>15 DEF ServeRequest, TypeOK, JobOK, Msg, kafka, sinks
  <1>16. ASSUME NEW o \in Orgs, DeleteReportsForOrg(o) PROVE TypeInv'
    BY <1>16 DEF DeleteReportsForOrg, TypeOK, JobOK, Msg, kafka, sinks, env
  <1>17. ASSUME NEW c \in Clusters, DeleteReportsForCluster(c) PROVE TypeInv'
    BY <1>17 DEF DeleteReportsForCluster, TypeOK, JobOK, Msg, kafka, sinks, env, Of
  <1>18. ASSUME UNCHANGED vars PROVE TypeInv'
    BY <1>18 DEF vars, TypeOK, JobOK, Msg, kafka, tables, sinks, env
  <1> QED
    BY <1>1, <1>2, <1>3, <1>4, <1>5, <1>6, <1>7, <1>8, <1>9, <1>10, <1>11, <1>12, <1>r, <1>l,
       <1>13, <1>14, <1>15, <1>16, <1>17, <1>18
       DEF Next, HandleStep

\* Every reachable state is well typed: in particular a date that does not parse
\* never reaches the report table, and no claim works past the end of its log.
THEOREM TypeCorrect == Spec => []TypeOK
  <1>1. Spec => []TypeInv  BY TypeInit, TypeStep, PTL DEF Spec
  <1>2. TypeInv => TypeOK  BY DEF TypeInv
  <1> QED  BY <1>1, <1>2, PTL
=============================================================================
