----------------------------- MODULE LatestReport ----------------------------
(***************************************************************************)
(* What the report and rule_hit tables promise to their readers: for each  *)
(* cluster at most one current report, which is one of those that were     *)
(* made of it, as a whole, and is never replaced by an older one or by one *)
(* of another organization.  The organization that owns a cluster may      *)
(* change; that moves the report and changes nothing else about it.        *)
(***************************************************************************)
EXTENDS Integers

CONSTANTS
    Clusters, Orgs,
    Reports    \* what may be reported: records with cluster, org, lastChecked, hits

\* latest[c]: the set holding c's current report, or the empty set.
VARIABLE latest

LatestInit == latest = [c \in Clusters |-> {}]

\* A report that is at least as recent as the current one takes its place, after
\* the cluster has been transferred to the organization it is reported for.
Replace(new) ==
    /\ \A old \in latest[new.cluster] :
           old.lastChecked <= new.lastChecked /\ old.org = new.org
    /\ latest' = [latest EXCEPT ![new.cluster] = {new}]

\* The cluster moves to another organization with its report.
Transfer(c, o) ==
    /\ latest[c] # {}
    /\ latest' = [latest EXCEPT ![c] = {[old EXCEPT !.org = o] : old \in @}]

LatestNext ==
    \/ \E new \in Reports : Replace(new)
    \/ \E c \in Clusters, o \in Orgs : Transfer(c, o)

LatestSpec == LatestInit /\ [][LatestNext]_latest
=============================================================================
