---------------------------- MODULE MCReplication ----------------------------
(* Who the backups are, which processes may be stopped, and how long the     *)
(* texts are, in the runs.                                                   *)
EXTENDS Replication, TLC

CONSTANTS b1, b2

OneBackup == {b1}
TwoOfThem == {b1, b2}
PrimaryAndOne == {Primary, b1}
Nobody == {}

\* A struct of the second id is cut by the length of one of the first, and so is
\* a row, whose second comma is its fourth character: that brings a backup down,
\* while the length of a struct of the second id lets the row pass for a struct.
SizeOf == [t \in Texts |-> CASE t = Blank -> 0 [] t = Row -> 5 [] OTHER -> 1 + 2 * t.id]
FieldsOf == [t \in Texts |-> CASE t = Blank -> 0 [] t = Row -> 4 [] OTHER -> 2]

Alike == Permutations(Backups)
=============================================================================
