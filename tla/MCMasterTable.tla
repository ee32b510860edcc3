---------------------------- MODULE MCMasterTable ----------------------------
(***************************************************************************)
(* Small instances of MasterTable: profiles that sort one after another,   *)
(* with names that the file can hold and with names that it cannot.        *)
(***************************************************************************)
EXTENDS MasterTable, TLC

CONSTANTS a, b, c

Alphabetical == (Dot :> 1) @@ (Comma :> 0) @@ (a :> 2) @@ (b :> 3) @@ (c :> 4)

\* One name begins another, as the map's order needs it to be looked at.
Plain == {<<a>>, <<b>>, <<b, c>>}

\* A name with a dot in it, beside one without.
Dotted == {<<a>>, <<b, Dot, c>>}

\* The threads of the sessions are alike.
AnyThread == Permutations(Threads)
=============================================================================
