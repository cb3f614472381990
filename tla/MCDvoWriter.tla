----------------------------- MODULE MCDvoWriter -----------------------------
(***************************************************************************)
(* Instances of DvoWriter for TLC.                                         *)
(***************************************************************************)
EXTENDS DvoWriterProps, TLC

CONSTANTS c1, o1, o2, n1, n2, k1, k2, w1, w2

W(ns, uid) == [namespace |-> ns, uid |-> uid]
Rec(rule, workloads) == [rule |-> rule, workloads |-> workloads]

Dvo(o, t, recs) ==
    [kind |-> "valid", cluster |-> c1, org |-> o, lastChecked |-> t,
     recommendations |-> recs]

\* Two rules on the same workload of one namespace and one of them on another
\* namespace; a workload listed twice, a rule without an ID, an empty list.
OverlappingRecs ==
    <<Rec(k1, <<W(n1, w1), W(n2, w2)>>), Rec(k2, <<W(n1, w1), W(n1, w2)>>)>>
OddRecs == <<Rec(BadRule, <<W(n1, w1)>>), Rec(k1, <<>>), Rec(k2, <<W(n1, w1), W(n1, w1)>>)>>
SingleRec == <<Rec(k1, <<W(n2, w1)>>)>>

\* Dates with and without a fraction of a second, in both organizations.
ReportMessages ==
    {Dvo(o1, 3, OverlappingRecs), Dvo(o2, 4, SingleRec), Dvo(o1, 5, <<>>),
     Dvo(o1, 7, OddRecs)}

DvoMessages ==
    ReportMessages
    \union {Dvo(o2, NoTime, SingleRec)}
    \union {[Dvo(o1, 3, <<>>) EXCEPT !.kind = k] : k \in {"unparsable", "empty"}}

\* A report and, made later, one without recommendations.
EmptyReportMessages == {Dvo(o1, 3, SingleRec), Dvo(o1, 5, <<>>)}

\* The replicas are alike.
ReplicaSymmetry == Permutations(Replicas)
=============================================================================
