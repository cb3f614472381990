---------------------------- MODULE ReportReader -----------------------------
(***************************************************************************)
(* GET .../report and the enable / disable endpoints of the REST server,   *)
(* running beside the writer.  The tables report and rule_hit are the      *)
(* LatestReport register that the writer implements; a handler sends its   *)
(* queries one by one on no transaction, and anything may happen between   *)
(* them: the report is replaced, the cluster moves to another              *)
(* organization with all its rows, another user toggles a rule.            *)
(*                                                                         *)
(* The user_id only selects votes and reasons, which are added to the      *)
(* response in the same way as the toggles are, and are left out.          *)
(***************************************************************************)
EXTENDS LatestReport

CONSTANTS
    Rules,    \* (rule module, error key) pairs
    Clients

ASSUME ReaderConstants ==
    Reports \subseteq [cluster: Clusters, org: Orgs, lastChecked: Nat, hits: SUBSET Rules]

VARIABLES
    toggles,   \* rows of cluster_rule_toggle
    request    \* request[k]: the request of client k and what is known of its answer

readerVars == <<latest, toggles, request>>

Report == [cluster: Clusters, org: Orgs, lastChecked: Nat, hits: SUBSET Rules]

\* by: the organization whose choice the row is, the one that wrote it last or the
\* one its cluster has moved to since (kept for the properties only).
Toggle == [cluster: Clusters, rule: Rules, org: Orgs, disabled: BOOLEAN, by: Orgs]

(***************************************************************************)
(* stage: the query the handler sends next.  lastChecked, hits, disabled:  *)
(* its local variables.  For the properties only: seen, the reports of the *)
(* cluster there have been since the first query, and settled, the toggles *)
(* that its organization had then and nobody has overwritten since.        *)
(***************************************************************************)
Idle == [stage |-> "idle"]
Reading ==
    [stage: {"hits", "toggles", "done"}, cluster: Clusters, org: Orgs, lastChecked: Nat,
     hits: SUBSET Rules, disabled: SUBSET Rules, seen: SUBSET Report,
     settled: SUBSET (Rules \X BOOLEAN)]
Toggling == [stage: {"upsert"}, cluster: Clusters, rule: Rules, org: Orgs, disabled: BOOLEAN]
IsReading(k, c) == request[k].stage \in {"hits", "toggles"} /\ request[k].cluster = c

ReaderInit ==
    /\ LatestInit
    /\ toggles = {}
    /\ request = [k \in Clients |-> Idle]

-----------------------------------------------------------------------------
\* The writer, see LatestReport.

\* What the requests about c could have seen of its reports, had they asked now.
Watched(c) ==
    [k \in Clients |->
        IF IsReading(k, c) THEN [request[k] EXCEPT !.seen = @ \union latest'[c]]
        ELSE request[k]]

StoreReport(new) ==
    /\ Replace(new)
    /\ request' = Watched(new.cluster)
    /\ UNCHANGED toggles

\* Mutant: cluster_rule_toggle is not among the tables to update.
MoveCluster_NoToggles(c, o) ==
    /\ \A row \in latest[c] : row.org # o
    /\ Transfer(c, o)
    /\ toggles' = {IF row.cluster = c THEN [row EXCEPT !.by = o] ELSE row : row \in toggles}
    /\ request' = Watched(c)

\* updateOrgIDInTables: cluster_rule_toggle is one of the tables that move.
MoveCluster(c, o) ==
    /\ \A row \in latest[c] : row.org # o
    /\ Transfer(c, o)
    /\ toggles' = {IF row.cluster = c THEN [row EXCEPT !.org = o, !.by = o] ELSE row :
                       row \in toggles}
    /\ request' = Watched(c)

-----------------------------------------------------------------------------
\* readReportForCluster: ReadReportForCluster and getFeedbackAndTogglesOnRules.

\* SELECT ... FROM report WHERE org_id = $1 AND cluster = $2: a request for a
\* cluster of another organization ends here.
ReadReport(k, c, o) ==
    /\ request[k].stage \in {"idle", "done"}
    /\ \E row \in latest[c] :
        /\ row.org = o
        /\ request' = [request EXCEPT ![k] =
               [stage |-> "hits", cluster |-> c, org |-> o, lastChecked |-> row.lastChecked,
                hits |-> {}, disabled |-> {}, seen |-> latest[c],
                settled |-> {<<t.rule, t.disabled>> :
                                t \in {x \in toggles : x.cluster = c /\ x.by = o}}]]
    /\ UNCHANGED <<latest, toggles>>

\* Mutant: rule_hit is asked by cluster only.
RuleHits_AnyOrg(c, o) == UNION {row.hits : row \in latest[c]}

\* SELECT ... FROM rule_hit WHERE org_id = $1 AND cluster_id = $2
RuleHits(c, o) == UNION {row.hits : row \in {x \in latest[c] : x.org = o}}

ReadRuleHits(k) ==
    /\ request[k].stage = "hits"
    /\ request' = [request EXCEPT ![k].stage = "toggles",
                                  ![k].hits = RuleHits(request[k].cluster, request[k].org)]
    /\ UNCHANGED <<latest, toggles>>

\* getRuleToggleMapForCluster: ListOfDisabledRules of the organization, those of
\* other clusters skipped.
DisabledRules(c, o) ==
    {row.rule : row \in {x \in toggles : x.org = o /\ x.disabled /\ x.cluster = c}}

ReadToggles(k) ==
    /\ request[k].stage = "toggles"
    /\ request' = [request EXCEPT ![k].stage = "done",
                                  ![k].disabled = request[k].hits \intersect
                                      DisabledRules(request[k].cluster, request[k].org)]
    /\ UNCHANGED <<latest, toggles>>

-----------------------------------------------------------------------------
\* toggleRuleForCluster.

\* readClusterRuleParams wants a report of the cluster.  The permission check compares
\* its organization with that of the token; the one that is written comes from the path
\* and is compared with neither.
CheckToggle(k, c, r, o, d) ==
    /\ request[k].stage \in {"idle", "done"}
    /\ latest[c] # {}
    /\ request' = [request EXCEPT ![k] =
           [stage |-> "upsert", cluster |-> c, rule |-> r, org |-> o, disabled |-> d]]
    /\ UNCHANGED <<latest, toggles>>

\* Mutant: org_id is not among the columns that ON CONFLICT updates.
Upserted_KeepsOrg(q) ==
    LET same == {row \in toggles : row.cluster = q.cluster /\ row.rule = q.rule}
    IN  IF same = {}
        THEN toggles \union {[cluster |-> q.cluster, rule |-> q.rule, org |-> q.org,
                              disabled |-> q.disabled, by |-> q.org]}
        ELSE (toggles \ same)
             \union {[row EXCEPT !.disabled = q.disabled, !.by = q.org] : row \in same}

\* INSERT ... ON CONFLICT (cluster_id, rule_id, error_key) DO UPDATE
Upserted(q) ==
    {row \in toggles : row.cluster # q.cluster \/ row.rule # q.rule}
    \union {[cluster |-> q.cluster, rule |-> q.rule, org |-> q.org,
             disabled |-> q.disabled, by |-> q.org]}

ToggleRuleForCluster(k) ==
    LET q == request[k]
    IN  /\ q.stage = "upsert"
        /\ toggles' = Upserted(q)
        /\ request' = [j \in Clients |->
               IF j = k THEN Idle
               ELSE IF IsReading(j, q.cluster)
               THEN [request[j] EXCEPT !.settled = {s \in @ : s[1] # q.rule}]
               ELSE request[j]]
        /\ UNCHANGED latest

-----------------------------------------------------------------------------

ReaderNext ==
    \/ \E new \in Reports : StoreReport(new)
    \/ \E c \in Clusters, o \in Orgs : MoveCluster(c, o)
    \/ \E k \in Clients :
        \/ ReadRuleHits(k)
        \/ ReadToggles(k)
        \/ ToggleRuleForCluster(k)
        \/ \E c \in Clusters, o \in Orgs :
            \/ ReadReport(k, c, o)
            \/ \E r \in Rules, d \in BOOLEAN : CheckToggle(k, c, r, o, d)

ReaderSpec == ReaderInit /\ [][ReaderNext]_readerVars

-----------------------------------------------------------------------------
\* Every variable has its type.
ReaderTypeOK ==
    /\ latest \in [Clusters -> SUBSET Report]
    /\ toggles \subseteq Toggle
    /\ request \in [Clients -> {Idle} \union Reading \union Toggling]

\* The two queries of ReadReportForCluster may see different states, but what they
\* return together is one report that was current during the request and is at
\* least as recent as the last_checked_at returned with it; or no hits, because
\* the cluster has left the organization meanwhile.
ResponseIsOneReport ==
    \A k \in Clients : request[k].stage \in {"toggles", "done"} =>
        LET q == request[k]
        IN  \E row \in q.seen :
               \/ row.org = q.org /\ row.hits = q.hits /\ row.lastChecked >= q.lastChecked
               \/ row.org # q.org /\ q.hits = {}

\* The cluster was seen with another organization during the request.
Left(q) == \E row \in q.seen : row.org # q.org

\* What the organization, or the previous ones before the cluster moved to it, chose
\* for a rule when the request began is what its report shows, if nobody toggles the
\* rule during the request: whatever requests with outdated permission checks there
\* were, and whatever moves there are between the queries.  A rule is never shown as
\* disabled by mistake; a disabled one is shown as enabled only if the cluster left
\* the organization during the request, whose last query then misses its toggles.
TogglesAreShown ==
    \A k \in Clients : request[k].stage = "done" =>
        \A s \in request[k].settled : s[1] \in request[k].hits =>
            /\ s[1] \in request[k].disabled => s[2]
            /\ s[2] => s[1] \in request[k].disabled \/ Left(request[k])

-----------------------------------------------------------------------------
\* The inductive invariant.

\* A cluster has at most one report.
OneLatest ==
    \A c \in Clusters : \A a, b \in latest[c] : a = b /\ a.cluster = c

\* Between the two queries the reports only get more recent, and are watched.
StillRecent ==
    \A k \in Clients : request[k].stage = "hits" =>
        LET c == request[k].cluster
        IN  /\ latest[c] # {} /\ latest[c] \subseteq request[k].seen
            /\ \A row \in latest[c] : row.lastChecked >= request[k].lastChecked

OneToggle ==
    \A a, b \in toggles : a.cluster = b.cluster /\ a.rule = b.rule => a = b

\* A toggle carries the org_id of the organization it is meant for: moves take
\* every row of the cluster along, and the upsert overwrites what an outdated
\* request left behind.
TogglesOwned == \A t \in toggles : t.org = t.by

SettledStands ==
    \A k \in Clients : request[k].stage \in {"hits", "toggles"} =>
        \A s \in request[k].settled : \E t \in toggles :
            /\ t.cluster = request[k].cluster /\ t.rule = s[1] /\ t.disabled = s[2]
            /\ t.org = request[k].org \/ Left(request[k])

\* What is proved to be inductive, for any number of clients and reports.
ReaderInv ==
    /\ ReaderTypeOK
    /\ OneLatest
    /\ StillRecent
    /\ OneToggle
    /\ TogglesOwned
    /\ SettledStands
    /\ ResponseIsOneReport
    /\ TogglesAreShown
=============================================================================
