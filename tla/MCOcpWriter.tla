----------------------------- MODULE MCOcpWriter -----------------------------
(***************************************************************************)
(* Instances of OcpWriter for TLC.                                         *)
(***************************************************************************)
EXTENDS OcpWriterProps, TLC

CONSTANTS p1, c1, o1, o2, h1, h2, v1, v2, toggle, feedback

Valid1(c, o, t, hits, v) ==
    [kind |-> "valid", cluster |-> c, org |-> o, lastChecked |-> t,
     hits |-> hits, version |-> v]

\* Reports of one cluster: both organizations, three dates, every set of hits.
ReportMessages ==
    {Valid1(c1, o1, 1, {h1}, v1), Valid1(c1, o2, 1, {h1, h2}, v1),
     Valid1(c1, o1, 2, {h2}, v1), Valid1(c1, o2, 3, {}, v1)}

\* Reports whose version follows their date, and messages that are refused.
OddMessages ==
    {[Valid1(c1, o1, 1, {h1}, v1) EXCEPT !.kind = k] : k \in {"unparsable", "empty"}}
    \union {Valid1(c1, o2, NoTime, {h1}, v1)}
MixedMessages ==
    {Valid1(c1, o1, 1, {h1}, v1), Valid1(c1, o1, 2, {h1, h2}, v2),
     Valid1(c1, o2, 2, {h2}, NoVersion), Valid1(c1, o2, 3, {}, v1)}
    \union {m \in OddMessages : m.kind # "unparsable"}

\* A rule that keeps hitting, with a late report between; the cluster moves as well.
HistoryMessages ==
    {Valid1(c1, o1, 2, {h1}, NoVersion), Valid1(c1, o2, 1, {h2}, NoVersion),
     Valid1(c1, o2, 3, {h1, h2}, NoVersion)}

\* A message for each way of not being stored, and two that can be.
PoisonMessages ==
    OddMessages \union {Valid1(c1, o1, t, {h1}, v1) : t \in {NoTime, 1}}
                \union {Valid1(c1, o1, 2, {h2}, v1)}

OnePartition == [c \in Clusters |-> {p1}]
ASSUME KeyedByCluster

ReplicaSymmetry == Permutations(Replicas)
=============================================================================
