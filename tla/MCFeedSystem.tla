---------------------------- MODULE MCFeedSystem ----------------------------
(***************************************************************************)
(* Small instances of FeedSystem: what the users type, and the symmetry of *)
(* the sessions whose users do the same (for invariants only).             *)
(***************************************************************************)
EXTENDS FeedSystem

CONSTANTS other, nobody, m1  \* two profile names and a message

Command(type, data) == [type |-> type, data |-> data]
Everyone(commands) == [s \in Sessions |-> commands]

NoCommands == Everyone(<<>>)
OneCommand == Everyone(<<Command("FOLLOW", other)>>)
\* one that is refused and one that is not
FollowAndSend == Everyone(<<Command("FOLLOW", nobody), Command("SEND", m1)>>)

Alike == Permutations(Sessions \ Quitters)
=============================================================================
