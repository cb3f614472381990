------------------------- MODULE ReportReaderProofs --------------------------
(***************************************************************************)
(* Proofs about ReportReader for every number of clients, clusters,        *)
(* organizations, rules and reports.                                       *)
(***************************************************************************)
EXTENDS ReportReader, TLAPS

\* The fields of a request that is reading or has been answered.
LEMMA ReadingType ==
    ASSUME ReaderTypeOK, NEW k \in Clients,
           request[k].stage \in {"hits", "toggles", "done"}
    PROVE  request[k] \in Reading
  <1>1. request[k] \in {Idle} \union Reading \union Toggling  BY DEF ReaderTypeOK
  <1>2. Idle.stage = "idle"  BY DEF Idle
  <1>3. request[k] \in Toggling => request[k].stage = "upsert"  BY DEF Toggling
  <1> QED  BY <1>1, <1>2, <1>3

LEMMA TogglingType ==
    ASSUME ReaderTypeOK, NEW k \in Clients, request[k].stage = "upsert"
    PROVE  request[k] \in Toggling
  <1>1. request[k] \in {Idle} \union Reading \union Toggling  BY DEF ReaderTypeOK
  <1>2. Idle.stage = "idle"  BY DEF Idle
  <1>3. request[k] \in Reading => request[k].stage # "upsert"  BY DEF Reading
  <1> QED  BY <1>1, <1>2, <1>3

\* What a change of the reports of c does to the requests.
LEMMA WatchedRequests ==
    ASSUME ReaderTypeOK, NEW c \in Clusters,
           latest'[c] \subseteq Report, request' = Watched(c)
    PROVE  /\ request' \in [Clients -> {Idle} \union Reading \union Toggling]
           /\ \A k \in Clients :
               \/ ~IsReading(k, c) /\ request'[k] = request[k]
               \/ /\ IsReading(k, c)
                  /\ request'[k].stage = request[k].stage
                  /\ request'[k].cluster = request[k].cluster
                  /\ request'[k].org = request[k].org
                  /\ request'[k].lastChecked = request[k].lastChecked
                  /\ request'[k].hits = request[k].hits
                  /\ request'[k].disabled = request[k].disabled
                  /\ request'[k].seen = request[k].seen \union latest'[c]
                  /\ request'[k].settled = request[k].settled
  <1>1. ASSUME NEW k \in Clients, IsReading(k, c)
        PROVE  /\ request'[k] \in Reading
               /\ request'[k].stage = request[k].stage
               /\ request'[k].cluster = request[k].cluster
               /\ request'[k].org = request[k].org
               /\ request'[k].lastChecked = request[k].lastChecked
               /\ request'[k].hits = request[k].hits
               /\ request'[k].disabled = request[k].disabled
               /\ request'[k].seen = request[k].seen \union latest'[c]
               /\ request'[k].settled = request[k].settled
    <2>1. request[k] \in Reading  BY <1>1, ReadingType DEF IsReading
    <2> DEFINE new == [request[k] EXCEPT !.seen = request[k].seen \union latest'[c]]
    <2>2. request'[k] = new  BY <1>1 DEF Watched
    <2>3. request[k].seen \union latest'[c] \in SUBSET Report
      BY <2>1 DEF Reading
    <2>4. new \in Reading  BY <2>1, <2>3 DEF Reading
    <2> QED  BY <2>1, <2>2, <2>4 DEF Reading
  <1>2. ASSUME NEW k \in Clients, ~IsReading(k, c) PROVE request'[k] = request[k]
    BY <1>2 DEF Watched
  <1>3. request' \in [Clients -> {Idle} \union Reading \union Toggling]
    <2>1. DOMAIN request' = Clients /\ request' = [k \in Clients |-> request'[k]]
      BY DEF Watched
    <2>2. ASSUME NEW k \in Clients PROVE request'[k] \in {Idle} \union Reading \union Toggling
      <3>1. CASE IsReading(k, c)  BY <1>1, <3>1
      <3>2. CASE ~IsReading(k, c)  BY <1>2, <3>2 DEF ReaderTypeOK
      <3> QED  BY <3>1, <3>2
    <2> QED  BY <2>1, <2>2
  <1> QED  BY <1>1, <1>2, <1>3

-----------------------------------------------------------------------------
\* Toggle t is the choice s that request q has to show.
Stands(t, q, s) ==
    /\ t.cluster = q.cluster /\ t.rule = s[1] /\ t.disabled = s[2]
    /\ t.org = q.org \/ Left(q)

\* The requests in progress are not harmed by a change of the reports of c to S.
LEMMA WatchedStep ==
    ASSUME ReaderInv, NEW c \in Clusters, NEW S,
           latest' = [latest EXCEPT ![c] = S], S \subseteq Report, S # {},
           \A a, b \in S : a = b /\ a.cluster = c,
           \A old \in latest[c], new \in S : old.lastChecked <= new.lastChecked,
           request' = Watched(c)
    PROVE  /\ latest' \in [Clusters -> SUBSET Report]
           /\ request' \in [Clients -> {Idle} \union Reading \union Toggling]
           /\ OneLatest' /\ StillRecent' /\ ResponseIsOneReport' /\ TogglesAreShown'
  <1>1. /\ ReaderTypeOK /\ OneLatest /\ StillRecent /\ ResponseIsOneReport /\ TogglesAreShown
    BY DEF ReaderInv
  <1>2. /\ latest' \in [Clusters -> SUBSET Report] /\ latest'[c] = S
        /\ \A d \in Clusters \ {c} : latest'[d] = latest[d]
    BY <1>1 DEF ReaderTypeOK
  <1>3. /\ request' \in [Clients -> {Idle} \union Reading \union Toggling]
        /\ \A k \in Clients :
               \/ ~IsReading(k, c) /\ request'[k] = request[k]
               \/ /\ IsReading(k, c)
                  /\ request'[k].stage = request[k].stage
                  /\ request'[k].cluster = request[k].cluster
                  /\ request'[k].org = request[k].org
                  /\ request'[k].lastChecked = request[k].lastChecked
                  /\ request'[k].hits = request[k].hits
                  /\ request'[k].disabled = request[k].disabled
                  /\ request'[k].seen = request[k].seen \union latest'[c]
                  /\ request'[k].settled = request[k].settled
    BY <1>1, <1>2, WatchedRequests
  <1>4. OneLatest'  BY <1>1, <1>2 DEF OneLatest
  <1>5. StillRecent'
    <2> SUFFICES ASSUME NEW k \in Clients, request'[k].stage = "hits"
                 PROVE  /\ latest'[request'[k].cluster] # {}
                        /\ latest'[request'[k].cluster] \subseteq request'[k].seen
                        /\ \A row \in latest'[request'[k].cluster] :
                               row.lastChecked >= request'[k].lastChecked
      BY DEF StillRecent
    <2>1. request[k].stage = "hits" /\ request'[k].cluster = request[k].cluster  BY <1>3
    <2>2. request[k] \in Reading  BY <1>1, <2>1, ReadingType
    <2>3. request[k].cluster \in Clusters /\ request[k].lastChecked \in Nat
      BY <2>2 DEF Reading
    <2>4. CASE request[k].cluster = c
      <3>1. IsReading(k, c)  BY <2>1, <2>4 DEF IsReading
      <3>2. PICK old \in latest[c] : old.lastChecked >= request[k].lastChecked
        BY <1>1, <2>1, <2>4 DEF StillRecent
      <3>3. old.lastChecked \in Nat  BY <1>1, <3>2 DEF ReaderTypeOK, Report
      <3>4. ASSUME NEW row \in S PROVE row.lastChecked >= request[k].lastChecked
        <4>1. row.lastChecked \in Nat  BY DEF Report
        <4>2. old.lastChecked <= row.lastChecked  BY <3>2
        <4> QED  BY <2>3, <3>2, <3>3, <4>1, <4>2
      <3> QED  BY <1>2, <1>3, <2>1, <2>4, <3>1, <3>4
    <2>5. CASE request[k].cluster # c
      <3>1. request'[k] = request[k]  BY <1>3, <2>5 DEF IsReading
      <3>2. latest'[request[k].cluster] = latest[request[k].cluster]  BY <1>2, <2>3, <2>5
      <3> QED  BY <1>1, <2>1, <3>1, <3>2 DEF StillRecent
    <2> QED  BY <2>4, <2>5
  <1>6. ResponseIsOneReport'
    <2> SUFFICES ASSUME NEW k \in Clients, request'[k].stage \in {"toggles", "done"}
                 PROVE  \E row \in request'[k].seen :
                           \/ /\ row.org = request'[k].org /\ row.hits = request'[k].hits
                              /\ row.lastChecked >= request'[k].lastChecked
                           \/ row.org # request'[k].org /\ request'[k].hits = {}
      BY DEF ResponseIsOneReport
    <2>1. request[k].stage \in {"toggles", "done"}  BY <1>3
    <2>2. PICK row \in request[k].seen :
              \/ /\ row.org = request[k].org /\ row.hits = request[k].hits
                 /\ row.lastChecked >= request[k].lastChecked
              \/ row.org # request[k].org /\ request[k].hits = {}
      BY <1>1, <2>1 DEF ResponseIsOneReport
    <2> QED  BY <1>3, <2>2
  <1>7. TogglesAreShown'
    <2> SUFFICES ASSUME NEW k \in Clients, request'[k].stage = "done",
                        NEW s \in request'[k].settled, s[1] \in request'[k].hits
                 PROVE  /\ s[1] \in request'[k].disabled => s[2]
                        /\ s[2] => s[1] \in request'[k].disabled \/ Left(request'[k])
      BY DEF TogglesAreShown
    <2>1. request'[k] = request[k]  BY <1>3 DEF IsReading
    <2> QED  BY <1>1, <2>1 DEF TogglesAreShown
  <1> QED  BY <1>2, <1>3, <1>4, <1>5, <1>6, <1>7

LEMMA StoreReportStep ==
    ASSUME ReaderInv, NEW new \in Reports, StoreReport(new)
    PROVE  ReaderInv'
  <1> DEFINE c == new.cluster
  <1>1. new \in Report /\ c \in Clusters /\ {new} \subseteq Report
    BY ReaderConstants DEF Report
  <1>2. /\ latest' = [latest EXCEPT ![c] = {new}]
        /\ \A old \in latest[c] : old.lastChecked <= new.lastChecked
        /\ request' = Watched(c) /\ toggles' = toggles
    BY DEF StoreReport, Replace
  <1>3. ReaderTypeOK /\ OneToggle /\ TogglesOwned /\ SettledStands  BY DEF ReaderInv
  <1>4. /\ latest' \in [Clusters -> SUBSET Report]
        /\ request' \in [Clients -> {Idle} \union Reading \union Toggling]
        /\ OneLatest' /\ StillRecent' /\ ResponseIsOneReport' /\ TogglesAreShown'
    <2>1. /\ \A a, b \in {new} : a = b /\ a.cluster = c
          /\ \A old \in latest[c], x \in {new} : old.lastChecked <= x.lastChecked
          /\ {new} # {}
      BY <1>2
    <2> HIDE DEF c
    <2> QED  BY <1>1, <1>2, <2>1, WatchedStep
  <1>5. ReaderTypeOK'  BY <1>2, <1>3, <1>4 DEF ReaderTypeOK
  <1>6. OneToggle' /\ TogglesOwned'  BY <1>2, <1>3 DEF OneToggle, TogglesOwned
  <1>7. SettledStands'
    <2> SUFFICES ASSUME NEW k \in Clients, request'[k].stage \in {"hits", "toggles"},
                        NEW s \in request'[k].settled
                 PROVE  \E t \in toggles' : Stands(t, request'[k], s)
      BY DEF SettledStands, Stands
    <2>1. latest'[c] \subseteq Report  BY <1>1, <1>4
    <2> HIDE DEF c
    <2>2. /\ request'[k].stage = request[k].stage /\ request'[k].cluster = request[k].cluster
          /\ request'[k].org = request[k].org /\ request'[k].settled = request[k].settled
          /\ request[k].seen \subseteq request'[k].seen
      BY <1>1, <1>2, <1>3, <2>1, WatchedRequests
    <2>3. PICK t \in toggles : Stands(t, request[k], s)
      BY <1>3, <2>2 DEF SettledStands, Stands
    <2>4. Stands(t, request'[k], s)  BY <2>2, <2>3 DEF Stands, Left
    <2> QED  BY <1>2, <2>4
  <1> QED  BY <1>4, <1>5, <1>6, <1>7 DEF ReaderInv

LEMMA MoveClusterStep ==
    ASSUME ReaderInv, NEW c \in Clusters, NEW o \in Orgs, MoveCluster(c, o)
    PROVE  ReaderInv'
  <1> DEFINE S == {[old EXCEPT !.org = o] : old \in latest[c]}
             moved(t) == IF t.cluster = c THEN [t EXCEPT !.org = o, !.by = o] ELSE t
  <1>1. /\ ReaderTypeOK /\ OneLatest /\ OneToggle /\ TogglesOwned /\ SettledStands
    BY DEF ReaderInv
  <1>2. /\ latest[c] # {} /\ latest' = [latest EXCEPT ![c] = S]
        /\ request' = Watched(c)
        /\ toggles' = {moved(t) : t \in toggles}
    BY DEF MoveCluster, Transfer
  <1>3. latest[c] \subseteq Report  BY <1>1 DEF ReaderTypeOK
  <1>4. \A old \in latest[c] :
            /\ [old EXCEPT !.org = o] \in Report /\ [old EXCEPT !.org = o].cluster = old.cluster
            /\ [old EXCEPT !.org = o].lastChecked = old.lastChecked
            /\ old.lastChecked \in Nat
    BY <1>3 DEF Report
  <1>5. S \subseteq Report /\ S # {}  BY <1>2, <1>4
  <1>6. \A a, b \in S : a = b /\ a.cluster = c  
    <2> SUFFICES ASSUME NEW a \in S, NEW b \in S PROVE a = b /\ a.cluster = c  OBVIOUS
    <2>1. PICK x \in latest[c] : a = [x EXCEPT !.org = o]  OBVIOUS
    <2>2. PICK y \in latest[c] : b = [y EXCEPT !.org = o]  OBVIOUS
    <2>3. x = y /\ x.cluster = c  BY <1>1 DEF OneLatest
    <2> QED  BY <1>4, <2>1, <2>2, <2>3
  <1>7. \A old \in latest[c], new \in S : old.lastChecked <= new.lastChecked
    <2> SUFFICES ASSUME NEW old \in latest[c], NEW new \in S
                 PROVE  old.lastChecked <= new.lastChecked
      OBVIOUS
    <2>1. PICK x \in latest[c] : new = [x EXCEPT !.org = o]  OBVIOUS
    <2>2. x = old  BY <1>1, <2>1 DEF OneLatest
    <2> QED  BY <1>4, <2>1, <2>2
  <1>8. /\ latest' \in [Clusters -> SUBSET Report]
        /\ request' \in [Clients -> {Idle} \union Reading \union Toggling]
        /\ OneLatest' /\ StillRecent' /\ ResponseIsOneReport' /\ TogglesAreShown'
    <2> HIDE DEF S, moved
    <2> QED  BY <1>2, <1>5, <1>6, <1>7, WatchedStep
  <1>9. \A t \in toggles : /\ moved(t) \in Toggle /\ moved(t).cluster = t.cluster
                           /\ moved(t).rule = t.rule /\ moved(t).disabled = t.disabled
                           /\ moved(t).org = moved(t).by
                           /\ t.cluster # c => moved(t) = t
    BY <1>1 DEF ReaderTypeOK, Toggle, TogglesOwned
  <1>10. ReaderTypeOK'
    <2>1. toggles' \subseteq Toggle
      <3> HIDE DEF moved
      <3> QED  BY <1>2, <1>9
    <2> QED  BY <1>8, <2>1 DEF ReaderTypeOK
  <1>11. OneToggle' /\ TogglesOwned'
    <2> HIDE DEF moved
    <2> QED  BY <1>1, <1>2, <1>9 DEF OneToggle, TogglesOwned
  <1>12. SettledStands'
    <2> SUFFICES ASSUME NEW k \in Clients, request'[k].stage \in {"hits", "toggles"},
                        NEW s \in request'[k].settled
                 PROVE  \E t \in toggles' : Stands(t, request'[k], s)
      BY DEF SettledStands, Stands
    <2>1. latest'[c] \subseteq Report  BY <1>8
    <2>2. /\ request'[k].stage = request[k].stage /\ request'[k].cluster = request[k].cluster
          /\ request'[k].org = request[k].org /\ request'[k].settled = request[k].settled
          /\ request[k].seen \subseteq request'[k].seen
          /\ IsReading(k, c) => latest'[c] \subseteq request'[k].seen
      BY <1>1, <1>2, <2>1, WatchedRequests
    <2>3. PICK t \in toggles : Stands(t, request[k], s)
      BY <1>1, <2>2 DEF SettledStands, Stands
    <2>4. moved(t) \in toggles'  BY <1>2, <2>3
    <2>5. CASE t.cluster # c
      <3>1. moved(t) = t  BY <2>5
      <3>2. Stands(t, request'[k], s)  BY <2>2, <2>3 DEF Stands, Left
      <3> QED  BY <2>4, <3>1, <3>2
    <2>6. CASE t.cluster = c
      <3>1. IsReading(k, c)  BY <2>2, <2>3, <2>6 DEF Stands, IsReading
      <3>2. moved(t).org = o  BY <1>1, <2>6 DEF ReaderTypeOK, Toggle
      <3>3. PICK row \in latest'[c] : row.org = o
        <4>1. PICK old \in latest[c] : TRUE  BY <1>2
        <4>2. [old EXCEPT !.org = o] \in latest'[c]  BY <1>1, <1>2 DEF ReaderTypeOK
        <4>3. [old EXCEPT !.org = o].org = o  BY <1>3 DEF Report
        <4> QED  BY <4>2, <4>3
      <3>4. o = request'[k].org \/ Left(request'[k])  BY <2>2, <3>1, <3>3 DEF Left
      <3>5. /\ moved(t).cluster = t.cluster /\ moved(t).rule = t.rule
            /\ moved(t).disabled = t.disabled
        BY <1>9, <2>3
      <3> HIDE DEF moved
      <3>6. Stands(moved(t), request'[k], s)  BY <2>2, <2>3, <3>2, <3>4, <3>5 DEF Stands
      <3> QED  BY <2>4, <3>6
    <2> QED  BY <2>5, <2>6
  <1> QED  BY <1>8, <1>10, <1>11, <1>12 DEF ReaderInv

-----------------------------------------------------------------------------
\* What the invariant says of the request q of one client.
RequestOK(q) ==
    /\ q \in {Idle} \union Reading \union Toggling
    /\ q.stage = "hits" =>
           /\ latest[q.cluster] # {} /\ latest[q.cluster] \subseteq q.seen
           /\ \A row \in latest[q.cluster] : row.lastChecked >= q.lastChecked
    /\ q.stage \in {"hits", "toggles"} =>
           \A s \in q.settled : \E t \in toggles : Stands(t, q, s)
    /\ q.stage \in {"toggles", "done"} =>
           \E row \in q.seen :
               \/ row.org = q.org /\ row.hits = q.hits /\ row.lastChecked >= q.lastChecked
               \/ row.org # q.org /\ q.hits = {}
    /\ q.stage = "done" =>
           \A s \in q.settled : s[1] \in q.hits =>
               /\ s[1] \in q.disabled => s[2]
               /\ s[2] => s[1] \in q.disabled \/ Left(q)

\* A step of client k on the same tables keeps the invariant if its request is
\* as it should be.
LEMMA OneRequestStep ==
    ASSUME ReaderInv, NEW k \in Clients, NEW q, request' = [request EXCEPT ![k] = q],
           RequestOK(q), UNCHANGED <<latest, toggles>>
    PROVE  ReaderInv'
  <1>1. /\ ReaderTypeOK /\ OneLatest /\ StillRecent /\ OneToggle /\ TogglesOwned
        /\ SettledStands /\ ResponseIsOneReport /\ TogglesAreShown
    BY DEF ReaderInv
  <1>2. request'[k] = q /\ \A j \in Clients \ {k} : request'[j] = request[j]
    BY <1>1 DEF ReaderTypeOK
  <1>3. ReaderTypeOK'  BY <1>1 DEF ReaderTypeOK, RequestOK
  <1>4. OneLatest' /\ OneToggle' /\ TogglesOwned'
    BY <1>1 DEF OneLatest, OneToggle, TogglesOwned
  <1>5. StillRecent'  BY <1>1, <1>2 DEF StillRecent, RequestOK
  <1>6. SettledStands'  BY <1>1, <1>2 DEF SettledStands, RequestOK, Stands
  <1>7. ResponseIsOneReport'  BY <1>1, <1>2 DEF ResponseIsOneReport, RequestOK
  <1>8. TogglesAreShown'  BY <1>1, <1>2 DEF TogglesAreShown, RequestOK
  <1> QED  BY <1>3, <1>4, <1>5, <1>6, <1>7, <1>8 DEF ReaderInv

LEMMA ReadReportStep ==
    ASSUME ReaderInv, NEW k \in Clients, NEW c \in Clusters, NEW o \in Orgs, ReadReport(k, c, o)
    PROVE  ReaderInv'
  <1>1. ReaderTypeOK /\ OneLatest /\ TogglesOwned  BY DEF ReaderInv
  <1> DEFINE own == {<<t.rule, t.disabled>> : t \in {x \in toggles : x.cluster = c /\ x.by = o}}
  <1>2. PICK row \in latest[c] :
           /\ row.org = o
           /\ request' = [request EXCEPT ![k] =
               [stage |-> "hits", cluster |-> c, org |-> o, lastChecked |-> row.lastChecked,
                hits |-> {}, disabled |-> {}, seen |-> latest[c], settled |-> own]]
    BY DEF ReadReport
  <1> DEFINE q == [stage |-> "hits", cluster |-> c, org |-> o, lastChecked |-> row.lastChecked,
                   hits |-> {}, disabled |-> {}, seen |-> latest[c], settled |-> own]
  <1>3. own \in SUBSET (Rules \X BOOLEAN)  BY <1>1 DEF ReaderTypeOK, Toggle
  <1>4. latest[c] \subseteq Report /\ row.lastChecked \in Nat
    BY <1>1, <1>2 DEF ReaderTypeOK, Report
  <1>5. \A s \in own : \E t \in toggles :
            t.cluster = c /\ t.org = o /\ t.rule = s[1] /\ t.disabled = s[2]
    BY <1>1 DEF TogglesOwned
  <1> HIDE DEF own
  <1>6. q \in Reading  BY <1>3, <1>4 DEF Reading
  <1>7. \A x \in latest[c] : x.lastChecked >= row.lastChecked
    BY <1>1, <1>2, <1>4 DEF OneLatest
  <1>8. RequestOK(q)  BY <1>2, <1>5, <1>6, <1>7 DEF RequestOK, Stands
  <1>9. UNCHANGED <<latest, toggles>>  BY DEF ReadReport
  <1> QED  BY <1>2, <1>8, <1>9, OneRequestStep

LEMMA ReadRuleHitsStep ==
    ASSUME ReaderInv, NEW k \in Clients, ReadRuleHits(k)
    PROVE  ReaderInv'
  <1>1. ReaderTypeOK /\ OneLatest /\ StillRecent /\ SettledStands  BY DEF ReaderInv
  <1> DEFINE old == request[k]
             hits == RuleHits(old.cluster, old.org)
             q == [old EXCEPT !.stage = "toggles", !.hits = hits]
  <1>2. old.stage = "hits" /\ UNCHANGED <<latest, toggles>>  BY DEF ReadRuleHits
  <1>3. old \in Reading  BY <1>1, <1>2, ReadingType
  <1>4. old.cluster \in Clusters /\ old.org \in Orgs /\ old.lastChecked \in Nat
    BY <1>3 DEF Reading
  <1>5. request' = [request EXCEPT ![k] = q]  BY DEF ReadRuleHits
  <1>6. PICK row \in latest[old.cluster] :
           /\ row \in old.seen /\ row.lastChecked >= old.lastChecked
           /\ row.hits \in SUBSET Rules
           /\ latest[old.cluster] = {row}
    BY <1>1, <1>2, <1>4 DEF StillRecent, OneLatest, ReaderTypeOK, Report
  <1>7. hits = IF row.org = old.org THEN row.hits ELSE {}  BY <1>6 DEF RuleHits
  <1>8. hits \in SUBSET Rules  BY <1>6, <1>7
  <1> HIDE DEF hits
  <1>9. /\ q \in Reading /\ q.stage = "toggles" /\ q.hits = hits /\ q.seen = old.seen
        /\ q.cluster = old.cluster /\ q.org = old.org /\ q.lastChecked = old.lastChecked
        /\ q.settled = old.settled
    BY <1>3, <1>8 DEF Reading
  <1>10. \A s \in old.settled : \E t \in toggles : Stands(t, q, s)
    <2>1. \A s \in old.settled : \E t \in toggles : Stands(t, old, s)
      BY <1>1, <1>2 DEF SettledStands, Stands
    <2>2. \A t, s : Stands(t, old, s) => Stands(t, q, s)
      <3> HIDE DEF q, old
      <3> QED  BY <1>9 DEF Stands, Left
    <2> HIDE DEF q, old
    <2> QED  BY <2>1, <2>2
  <1> HIDE DEF q, old
  <1>11. RequestOK(q)  BY <1>6, <1>7, <1>9, <1>10 DEF RequestOK
  <1> QED  BY <1>2, <1>5, <1>11, OneRequestStep

LEMMA ReadTogglesStep ==
    ASSUME ReaderInv, NEW k \in Clients, ReadToggles(k)
    PROVE  ReaderInv'
  <1>1. ReaderTypeOK /\ OneToggle /\ SettledStands /\ ResponseIsOneReport  BY DEF ReaderInv
  <1> DEFINE old == request[k]
             off == DisabledRules(old.cluster, old.org)
             q == [old EXCEPT !.stage = "done", !.disabled = old.hits \intersect off]
  <1>2. old.stage = "toggles" /\ UNCHANGED <<latest, toggles>>  BY DEF ReadToggles
  <1>3. old \in Reading  BY <1>1, <1>2, ReadingType
  <1>4. request' = [request EXCEPT ![k] = q]  BY DEF ReadToggles
  <1>5. old.hits \intersect off \in SUBSET Rules  BY <1>3 DEF Reading
  <1>6. ASSUME NEW s \in old.settled
        PROVE  (s[1] \in off => s[2]) /\ (s[2] => s[1] \in off \/ Left(old))
    <2>1. PICK t \in toggles : Stands(t, old, s)
      BY <1>1, <1>2 DEF SettledStands, Stands
    <2>2. ASSUME s[1] \in off PROVE s[2]
      <3>1. PICK x \in toggles : /\ x.org = old.org /\ x.disabled /\ x.cluster = old.cluster
                                 /\ x.rule = s[1]
        BY <2>2 DEF DisabledRules
      <3>2. x = t  BY <1>1, <2>1, <3>1 DEF OneToggle, Stands
      <3>3. t.disabled = s[2]  BY <2>1 DEF Stands
      <3> QED  BY <3>1, <3>2, <3>3
    <2>3. ASSUME s[2], ~Left(old) PROVE s[1] \in off
      BY <2>1, <2>3 DEF DisabledRules, Stands
    <2> QED  BY <2>2, <2>3
  <1> HIDE DEF off
  <1>7. /\ q \in Reading /\ q.stage = "done" /\ q.hits = old.hits /\ q.seen = old.seen
        /\ q.org = old.org /\ q.lastChecked = old.lastChecked
        /\ q.settled = old.settled /\ q.disabled = old.hits \intersect off
    BY <1>3, <1>5 DEF Reading
  <1>8. \E row \in old.seen :
           \/ row.org = old.org /\ row.hits = old.hits /\ row.lastChecked >= old.lastChecked
           \/ row.org # old.org /\ old.hits = {}
    BY <1>1, <1>2 DEF ResponseIsOneReport
  <1> HIDE DEF q, old
  <1>9. Left(q) <=> Left(old)  BY <1>7 DEF Left
  <1>10. RequestOK(q)  BY <1>6, <1>7, <1>8, <1>9 DEF RequestOK
  <1> QED  BY <1>2, <1>4, <1>10, OneRequestStep

LEMMA CheckToggleStep ==
    ASSUME ReaderInv, NEW k \in Clients, NEW c \in Clusters, NEW o \in Orgs, NEW r \in Rules,
           NEW d \in BOOLEAN, CheckToggle(k, c, r, o, d)
    PROVE  ReaderInv'
  <1> DEFINE q == [stage |-> "upsert", cluster |-> c, rule |-> r, org |-> o, disabled |-> d]
  <1>1. request' = [request EXCEPT ![k] = q] /\ UNCHANGED <<latest, toggles>>
    BY DEF CheckToggle
  <1>2. q \in Toggling /\ q.stage = "upsert"  BY DEF Toggling
  <1> HIDE DEF q
  <1>3. RequestOK(q)  BY <1>2 DEF RequestOK
  <1> QED  BY <1>1, <1>3, OneRequestStep

LEMMA ToggleStep ==
    ASSUME ReaderInv, NEW k \in Clients, ToggleRuleForCluster(k)
    PROVE  ReaderInv'
  <1>1. /\ ReaderTypeOK /\ OneLatest /\ StillRecent /\ OneToggle /\ TogglesOwned
        /\ SettledStands /\ ResponseIsOneReport /\ TogglesAreShown
    BY DEF ReaderInv
  <1> DEFINE q == request[k]
             new == [cluster |-> q.cluster, rule |-> q.rule, org |-> q.org,
                     disabled |-> q.disabled, by |-> q.org]
  <1>2. /\ q.stage = "upsert" /\ UNCHANGED latest
        /\ toggles' = {row \in toggles : row.cluster # q.cluster \/ row.rule # q.rule} \union {new}
        /\ request' = [j \in Clients |->
               IF j = k THEN Idle
               ELSE IF IsReading(j, q.cluster)
               THEN [request[j] EXCEPT !.settled = {s \in request[j].settled : s[1] # q.rule}]
               ELSE request[j]]
    BY DEF ToggleRuleForCluster, Upserted
  <1>3. q \in Toggling  BY <1>1, <1>2, TogglingType
  <1>4. new \in Toggle /\ new.org = new.by /\ new.cluster = q.cluster /\ new.rule = q.rule
    BY <1>3 DEF Toggling, Toggle
  <1> HIDE DEF new
  <1>5. toggles' \subseteq Toggle  BY <1>1, <1>2, <1>4 DEF ReaderTypeOK
  <1>6. OneToggle'  BY <1>1, <1>2, <1>4 DEF OneToggle
  <1>7. TogglesOwned'  BY <1>1, <1>2, <1>4 DEF TogglesOwned
  <1>8. request'[k] = Idle /\ Idle.stage = "idle"  BY <1>2 DEF Idle
  <1>9. ASSUME NEW j \in Clients \ {k}
        PROVE  \/ ~IsReading(j, q.cluster) /\ request'[j] = request[j]
               \/ /\ IsReading(j, q.cluster)
                  /\ request'[j] \in Reading
                  /\ request'[j].stage = request[j].stage
                  /\ request'[j].cluster = request[j].cluster
                  /\ request'[j].org = request[j].org
                  /\ request'[j].lastChecked = request[j].lastChecked
                  /\ request'[j].hits = request[j].hits
                  /\ request'[j].seen = request[j].seen
                  /\ request'[j].settled = {s \in request[j].settled : s[1] # q.rule}
    <2>1. CASE IsReading(j, q.cluster)
      <3>1. request[j] \in Reading  BY <1>1, <2>1, ReadingType DEF IsReading
      <3> DEFINE left == {s \in request[j].settled : s[1] # q.rule}
      <3>2. request'[j] = [request[j] EXCEPT !.settled = left]  BY <1>2, <2>1
      <3>3. left \in SUBSET (Rules \X BOOLEAN)  BY <3>1 DEF Reading
      <3> HIDE DEF left
      <3>4. /\ request'[j] \in Reading
            /\ request'[j].stage = request[j].stage
            /\ request'[j].cluster = request[j].cluster
            /\ request'[j].org = request[j].org
            /\ request'[j].lastChecked = request[j].lastChecked
            /\ request'[j].hits = request[j].hits
            /\ request'[j].seen = request[j].seen
            /\ request'[j].settled = left
        BY <3>1, <3>2, <3>3 DEF Reading
      <3> QED  BY <2>1, <3>4 DEF left
    <2>2. CASE ~IsReading(j, q.cluster)  BY <1>2, <2>2
    <2> QED  BY <2>1, <2>2
  <1>10. request' \in [Clients -> {Idle} \union Reading \union Toggling]
    <2>1. \A j \in Clients : request'[j] \in {Idle} \union Reading \union Toggling
      BY <1>1, <1>8, <1>9 DEF ReaderTypeOK
    <2>2. request' = [j \in Clients |-> request'[j]]  BY <1>2
    <2> QED  BY <2>1, <2>2
  <1>11. ReaderTypeOK'  BY <1>1, <1>2, <1>5, <1>10 DEF ReaderTypeOK
  <1>12. OneLatest'  BY <1>1, <1>2 DEF OneLatest
  <1>13. StillRecent'  BY <1>1, <1>2, <1>8, <1>9 DEF StillRecent
  <1>14. ResponseIsOneReport'  BY <1>1, <1>8, <1>9 DEF ResponseIsOneReport
  <1>15. TogglesAreShown'
    <2>1. \A j \in Clients : request'[j].stage = "done" => request'[j] = request[j]
      BY <1>8, <1>9 DEF IsReading
    <2> QED  BY <1>1, <2>1 DEF TogglesAreShown
  <1>16. SettledStands'
    <2> SUFFICES ASSUME NEW j \in Clients, request'[j].stage \in {"hits", "toggles"},
                        NEW s \in request'[j].settled
                 PROVE  \E t \in toggles' : Stands(t, request'[j], s)
      BY DEF SettledStands, Stands
    <2>1. j \in Clients \ {k}  BY <1>8
    <2>2. /\ request[j].stage \in {"hits", "toggles"} /\ s \in request[j].settled
          /\ request'[j].cluster = request[j].cluster /\ request'[j].org = request[j].org
          /\ request'[j].seen = request[j].seen
          /\ request[j].cluster = q.cluster => s[1] # q.rule
      BY <1>9, <2>1 DEF IsReading
    <2>3. PICK t \in toggles : Stands(t, request[j], s)
      BY <1>1, <2>2 DEF SettledStands, Stands
    <2>4. t \in toggles'  BY <1>2, <2>2, <2>3 DEF Stands
    <2>5. Stands(t, request'[j], s)  BY <2>2, <2>3 DEF Stands, Left
    <2> QED  BY <2>4, <2>5
  <1> QED  BY <1>6, <1>7, <1>11, <1>12, <1>13, <1>14, <1>15, <1>16 DEF ReaderInv

-----------------------------------------------------------------------------

LEMMA ReaderInitOK == ReaderInit => ReaderInv
  <1> SUFFICES ASSUME ReaderInit PROVE ReaderInv  OBVIOUS
  <1>1. /\ latest = [c \in Clusters |-> {}] /\ toggles = {}
        /\ request = [k \in Clients |-> Idle] /\ Idle.stage = "idle"
    BY DEF ReaderInit, LatestInit, Idle
  <1>2. ReaderTypeOK  BY <1>1 DEF ReaderTypeOK
  <1>3. /\ OneLatest /\ StillRecent /\ OneToggle /\ TogglesOwned /\ SettledStands
        /\ ResponseIsOneReport /\ TogglesAreShown
    BY <1>1 DEF OneLatest, StillRecent, OneToggle, TogglesOwned, SettledStands,
       ResponseIsOneReport, TogglesAreShown
  <1> QED  BY <1>2, <1>3 DEF ReaderInv

LEMMA ReaderStep == ReaderInv /\ [ReaderNext]_readerVars => ReaderInv'
  <1> SUFFICES ASSUME ReaderInv, [ReaderNext]_readerVars PROVE ReaderInv'  OBVIOUS
  <1>1. CASE UNCHANGED readerVars
    BY <1>1 DEF readerVars, ReaderInv, ReaderTypeOK, OneLatest, StillRecent, OneToggle,
       TogglesOwned, SettledStands, ResponseIsOneReport, TogglesAreShown
  <1>2. CASE ReaderNext
    BY <1>2, StoreReportStep, MoveClusterStep, ReadReportStep, ReadRuleHitsStep,
       ReadTogglesStep, CheckToggleStep, ToggleStep DEF ReaderNext
  <1> QED  BY <1>1, <1>2

\* The inductive invariant of the report and toggle endpoints.
THEOREM ReaderSafe == ReaderSpec => []ReaderInv
  BY ReaderInitOK, ReaderStep, PTL DEF ReaderSpec

\* ReadReportForCluster returns one report with its own hits, or no hits when the
\* cluster has left meanwhile, although its two queries share no transaction.
THEOREM ResponsesAreReports == ReaderSpec => []ResponseIsOneReport
  <1>1. ReaderInv => ResponseIsOneReport  BY DEF ReaderInv
  <1> QED  BY <1>1, ReaderSafe, PTL

\* A report shows what its organization has chosen for each rule that nobody toggles
\* during the request; only if the cluster leaves the organization between the queries
\* may a disabled rule be shown as enabled.
THEOREM TogglesAlwaysShown == ReaderSpec => []TogglesAreShown
  <1>1. ReaderInv => TogglesAreShown  BY DEF ReaderInv
  <1> QED  BY <1>1, ReaderSafe, PTL
=============================================================================
