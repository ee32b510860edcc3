------------------------------ MODULE FileText ------------------------------
(***************************************************************************)
(* The text of backup_table.txt: what save_backup_table writes for a table *)
(* and what load_backup_table makes of a file (MasterTable.cpp:98-172).    *)
(*                                                                         *)
(* A name is the sequence of its characters.  The dot is a character like  *)
(* any other to the users, and the end of the name to the reader; a comma  *)
(* ends a follower, and no user has one in his name, since receive_CONNECT *)
(* cuts what it gets at the first.                                         *)
(***************************************************************************)
EXTENDS Naturals, SequencesExt

CONSTANTS
  Characters,  \* what users make names of
  Dot, Comma,  \* "." and ","
  Code         \* the number of each character

ASSUME TextAssumption ==
  /\ Dot \in Characters /\ Comma \notin Characters
  /\ Code \in [Characters \union {Comma} -> Nat]

\* A name that is read may hold commas.
Texts == Seq(Characters \union {Comma})

-----------------------------------------------------------------------------
(* Writing *)

\* A name, a dot, and each follower with a comma behind it.
Line(name, followers) ==
  name \o <<Dot>> \o FlattenSeq([i \in DOMAIN followers |-> followers[i] \o <<Comma>>])

\* The lines of a table, each under the name it is written for.
Lines(tb) == [n \in DOMAIN tb |-> Line(n, tb[n])]

\* The map's order, which is that of the lines: m comes before n.
Precedes(m, n) ==
  \/ IsStrictPrefix(m, n)
  \/ \E i \in DOMAIN m \intersect DOMAIN n :
       SubSeq(m, 1, i - 1) = SubSeq(n, 1, i - 1) /\ Code[m[i]] < Code[n[i]]

-----------------------------------------------------------------------------
(* Reading *)

\* strtok_r passes over delimiters, takes what comes before the next one, and
\* goes on behind that.
Passed(text, delimiter) ==
  LET first == SelectInSeq(text, LAMBDA x : x # delimiter)
  IN  IF first = 0 THEN <<>> ELSE SubSeq(text, first, Len(text))

TokenEnd(text, delimiter) ==
  SelectInSeq(Append(Passed(text, delimiter), delimiter), LAMBDA x : x = delimiter)

Token(text, delimiter) ==
  SubSeq(Passed(text, delimiter), 1, TokenEnd(text, delimiter) - 1)

Behind(text, delimiter) ==
  SubSeq(Passed(text, delimiter), TokenEnd(text, delimiter) + 1, Len(Passed(text, delimiter)))

\* It is called until nothing is left to take.
TokensOf(text, delimiter) ==
  LET left[k \in 0..Len(text)] == IF k = 0 THEN text ELSE Behind(left[k - 1], delimiter)
      calls == {k \in 1..Len(text) : Passed(left[k - 1], delimiter) # <<>>}
  IN  [k \in calls |-> Token(left[k - 1], delimiter)]

\* The name is read up to the first dot behind its beginning.  A line of dots
\* has none: the string made from that NULL stops the process.
HasName(line) == Passed(line, Dot) # <<>>
NameRead(line) == Token(line, Dot)

\* The followers are read behind that dot; a bug begins at the line's start.
FollowersFromStart(line) == TokensOf(line, Comma)
FollowersRead(line) == TokensOf(Behind(line, Dot), Comma)

\* insert does not replace: of the lines read with one name the first counts.
FirstOf(names) == CHOOSE n \in names : \A m \in names \ {n} : Precedes(n, m)

\* The table made of the lines of a file; a bug skips those without followers.
RowsRead(file, lines) ==
  [name \in {NameRead(file[n]) : n \in lines} |->
     FollowersRead(file[FirstOf({n \in lines : NameRead(file[n]) = name})])]

ReadFollowed(file) == RowsRead(file, {n \in DOMAIN file : FollowersRead(file[n]) # <<>>})
Read(file) == RowsRead(file, DOMAIN file)
=============================================================================
