--------------------------- MODULE MCReportReader ----------------------------
(***************************************************************************)
(* An instance of ReportReader for TLC.                                    *)
(***************************************************************************)
EXTENDS ReportReader, TLC

CONSTANTS c1, o1, o2, h1, h2

\* Two reports of one cluster, for two organizations, with hits that change.
SomeReports ==
    {[cluster |-> c1, org |-> o1, lastChecked |-> 1, hits |-> {h1, h2}],
     [cluster |-> c1, org |-> o2, lastChecked |-> 2, hits |-> {h1}]}

ClientSymmetry == Permutations(Clients)
=============================================================================
