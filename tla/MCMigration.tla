----------------------------- MODULE MCMigration -----------------------------
(***************************************************************************)
(* Instances of Migration for TLC, with the four DVO migrations: create    *)
(* the table, create its indexes, delete rows, add a column.               *)
(***************************************************************************)
EXTENDS Migration

CONSTANTS m1, m2, s1, s2

DvoStrictUp == {1, 2, 4}
DvoUpNeeds == <<{}, {1}, {1}, {1}>>
DvoDownNeeds == <<{1}, {2}, {}, {1}>>

\* One build for the migrators, the previous one for an instance that is left.
OneBuild == [x \in {m1, m2, s1, s2} |-> IF x = s2 THEN 3 ELSE 4]

\* The migrators agree on a target, which may be out of range.
SameCommand == {[p \in Migrators |-> t] : t \in 0..5}
AnyTable == {<<>>} \union {<<v>> : v \in Versions}
=============================================================================
