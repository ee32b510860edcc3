----------------------------- MODULE MasterTable -----------------------------
(***************************************************************************)
(* The profile table of the server (MasterTable.cpp) and the file it is    *)
(* saved in, as the threads of all sessions use them: a connection may add *)
(* a profile, FOLLOW adds a follower, SEND walks over the followers.  Each *)
(* change of the table rewrites the whole file; the server may be killed   *)
(* and started again, with the table that the text of the file is read as. *)
(*                                                                         *)
(* RWLockProof shows that the table's lock excludes: a writer is the only  *)
(* one inside, so that only the steps of the file, which a kill can come   *)
(* between, and the walk of the readers are taken apart here.              *)
(***************************************************************************)
EXTENDS FileText

CONSTANTS
  Threads,    \* session threads
  Profiles,   \* names that users connect with
  Messages,   \* messages that are sent, each once
  Nobody,     \* "not-connected"
  Free,       \* no thread writes the table
  MaxKills,   \* bound: how often the server is killed
  KillInSave  \* whether it may be killed while it writes the file

ASSUME TableAssumption ==
  /\ Profiles \subseteq Seq(Characters) \ {<<>>}
  /\ Nobody \notin Profiles
  /\ Free \notin Threads
  /\ MaxKills \in Nat
  /\ KillInSave \in BOOLEAN

VARIABLES
  up,        \* the server process runs
  table,     \* the followers of each profile that has a row
  inbox,     \* all that was put into messages_to_receive of each row
  file,      \* the lines of backup_table.txt, by the names they are for
  writer,    \* the thread that has the table's lock exclusively
  pc,        \* where each thread is
  user,      \* currentUser of each thread
  arg,       \* the profile, or the message, its command is about
  rest,      \* followers its SEND has not come to yet
  kills,
  answered,  \* <<follower, followed>>: the FOLLOWs answered by an ACK
  sent,      \* messages taken from a SEND so far
  due,       \* <<message, follower>>: followed before the SEND was taken
  done       \* messages whose SEND was answered

memory == <<table, inbox, writer, pc, user, arg, rest>>
vars == <<memory, up, file, kills, answered, sent, due, done>>

IsTable(f) == DOMAIN f \subseteq Texts /\ f \in [DOMAIN f -> Seq(Texts)]
IsFile(f) == DOMAIN f \subseteq Texts /\ f \in [DOMAIN f -> Texts]
Nothing == [n \in {} |-> <<>>]
HasRow(n) == n \in DOMAIN table

TypeOK ==
  /\ up \in BOOLEAN
  /\ IsTable(table) /\ IsFile(file)
  /\ inbox \in [DOMAIN table -> Seq(Messages)]
  /\ writer \in Threads \union {Free}
  /\ pc \in [Threads -> {"idle", "changed", "saving", "cut", "reply", "walk"}]
  /\ user \in [Threads -> Profiles \union {Nobody}]
  /\ arg \in [Threads -> {Nobody} \union Messages \union Texts]
  /\ rest \in [Threads -> Seq(Texts)]
  /\ kills \in Nat
  /\ answered \subseteq Profiles \X Texts
  /\ sent \subseteq Messages /\ done \subseteq Messages
  /\ due \subseteq Messages \X Profiles

ForAll(x) == [t \in Threads |-> x]

Init ==
  /\ up = TRUE
  /\ table = Nothing /\ inbox = Nothing /\ file = Nothing
  /\ writer = Free
  /\ pc = ForAll("idle") /\ user = ForAll(Nobody)
  /\ arg = ForAll(Nobody) /\ rest = ForAll(<<>>)
  /\ kills = 0
  /\ answered = {} /\ sent = {} /\ due = {} /\ done = {}

Goto(t, from, to) == up /\ pc[t] = from /\ pc' = [pc EXCEPT ![t] = to]

\* read_write_mutex of the table is free for a writer, or for a reader.
NobodyWrites == writer = Free
NobodyInside == NobodyWrites /\ \A t \in Threads : pc[t] # "walk"

-----------------------------------------------------------------------------
(* Changes of the table *)

\* A new row has no followers and no messages.
WithRow(f, name) == [n \in DOMAIN f \union {name} |-> IF n = name THEN <<>> ELSE f[n]]

\* addUserIfNotExists, called by receive_CONNECT.
AddUser(t, name) ==
  /\ NobodyInside /\ user[t] = Nobody
  /\ arg' = [arg EXCEPT ![t] = name]
  /\ \/ /\ ~HasRow(name)
        /\ Goto(t, "idle", "changed")
        /\ table' = WithRow(table, name)
        /\ inbox' = WithRow(inbox, name)
        /\ writer' = t
     \/ /\ HasRow(name)
        /\ Goto(t, "idle", "reply")
        /\ UNCHANGED <<table, inbox, writer>>
  /\ UNCHANGED <<up, file, user, rest, kills, answered, sent, due, done>>

\* followUser's condition; a bug does not look who follows already.
NewFollowerAlways(follower, followed) ==
  HasRow(follower) /\ HasRow(followed) /\ followed # follower
NewFollower(follower, followed) ==
  /\ HasRow(follower) /\ HasRow(followed)
  /\ followed # follower
  /\ follower \notin ToSet(table[followed])

\* A refused FOLLOW changes nothing and is answered by an ERROR.
followUser(t, followed) ==
  /\ NobodyInside /\ user[t] # Nobody
  /\ NewFollower(user[t], followed)
  /\ Goto(t, "idle", "changed")
  /\ table' = [table EXCEPT ![followed] = Append(@, user[t])]
  /\ arg' = [arg EXCEPT ![t] = followed]
  /\ writer' = t
  /\ UNCHANGED <<up, inbox, file, user, rest, kills, answered, sent, due, done>>

-----------------------------------------------------------------------------
(* save_backup_table, with the lock of the change still held *)

\* Open with trunc.
Truncate(t) ==
  /\ Goto(t, "changed", "saving")
  /\ file' = Nothing
  /\ UNCHANGED <<up, table, inbox, writer, user, arg, rest, kills, answered, sent, due, done>>

\* The stream flushes what fills its buffer: all lines before that of a name,
\* and that line up to some character.
WriteSome(t) ==
  /\ Goto(t, "saving", "cut")
  /\ \E name \in DOMAIN table : \E k \in 1..Len(Lines(table)[name]) :
       LET before == {n \in DOMAIN table : Precedes(n, name)}
       IN  file' = [n \in before \union {name} |->
                      IF n = name THEN SubSeq(Lines(table)[n], 1, k) ELSE Lines(table)[n]]
  /\ UNCHANGED <<up, table, inbox, writer, user, arg, rest, kills, answered, sent, due, done>>

\* close writes the rest, and the lock is released; a bug forgets the rest.
SavedNothing == file
Saved == Lines(table)

CloseFile(t) ==
  /\ Goto(t, "saving", "reply") \/ Goto(t, "cut", "reply")
  /\ file' = Saved
  /\ writer' = Free
  /\ UNCHANGED <<up, table, inbox, user, arg, rest, kills, answered, sent, due, done>>

\* The ACK of CONNECT or of FOLLOW.
Answer(t) ==
  /\ Goto(t, "reply", "idle")
  /\ \/ /\ user[t] = Nobody
        /\ user' = [user EXCEPT ![t] = arg[t]]
        /\ UNCHANGED answered
     \/ /\ user[t] # Nobody
        /\ answered' = answered \union {<<user[t], arg[t]>>}
        /\ UNCHANGED user
  /\ arg' = [arg EXCEPT ![t] = Nobody]
  /\ UNCHANGED <<up, table, inbox, file, writer, rest, kills, sent, due, done>>

\* The session is over; its thread stands for a new one.
Disconnect(t) ==
  /\ up /\ pc[t] = "idle" /\ user[t] # Nobody
  /\ user' = [user EXCEPT ![t] = Nobody]
  /\ UNCHANGED <<up, table, inbox, file, writer, pc, arg, rest, kills, answered, sent, due, done>>

-----------------------------------------------------------------------------
(* sendMessageToFollowers, with the lock shared *)

\* The message goes to whom it should: a bug forgets the last follower.
RecipientsButLast(t) == Front(table[user[t]])
Recipients(t) == table[user[t]]

SendMessage(t, message) ==
  /\ NobodyWrites /\ user[t] # Nobody
  /\ message \notin sent
  /\ Goto(t, "idle", "walk")
  /\ arg' = [arg EXCEPT ![t] = message]
  /\ rest' = [rest EXCEPT ![t] = Recipients(t)]
  /\ sent' = sent \union {message}
  /\ due' = due \union {<<message, p[1]>> : p \in {q \in answered : q[2] = user[t]}}
  /\ UNCHANGED <<up, table, inbox, file, writer, user, kills, answered, done>>

\* The server stops, and with it every session; the file stays.
Stop ==
  /\ up' = FALSE
  /\ table' = Nothing /\ inbox' = Nothing
  /\ writer' = Free
  /\ pc' = ForAll("idle") /\ user' = ForAll(Nobody)
  /\ arg' = ForAll(Nobody) /\ rest' = ForAll(<<>>)
  /\ due' = {} /\ done' = {}
  /\ UNCHANGED <<file, answered, sent>>

\* What is put into the row; a bug swaps addNotification's arguments.
NotificationSwapped(t) == user[t]
Notification(t) == arg[t]

\* addNotification in the row of the next follower, if it has one: find()
\* is dereferenced unseen.
NotifyFollower(t) ==
  /\ up /\ pc[t] = "walk" /\ rest[t] # <<>>
  /\ \/ /\ HasRow(Head(rest[t]))
        /\ inbox' = [inbox EXCEPT ![Head(rest[t])] = Append(@, Notification(t))]
        /\ rest' = [rest EXCEPT ![t] = Tail(@)]
        /\ UNCHANGED <<up, table, file, writer, pc, user, arg, answered, sent, due, done>>
     \/ /\ ~HasRow(Head(rest[t]))
        /\ Stop
  /\ UNCHANGED kills

AnswerSend(t) ==
  /\ rest[t] = <<>>
  /\ Goto(t, "walk", "idle")
  /\ done' = done \union {arg[t]}
  /\ arg' = [arg EXCEPT ![t] = Nobody]
  /\ UNCHANGED <<up, table, inbox, file, writer, user, rest, kills, answered, sent, due>>

-----------------------------------------------------------------------------
(* The end of the process, and its start *)

Saving == \E t \in Threads : pc[t] \in {"saving", "cut"}

Kill ==
  /\ up /\ kills < MaxKills
  /\ KillInSave \/ ~Saving
  /\ kills' = kills + 1
  /\ Stop

\* A line without a name stops the process before it serves anybody.
load_backup_table ==
  /\ ~up
  /\ \A n \in DOMAIN file : HasName(file[n])
  /\ up' = TRUE
  /\ table' = Read(file)
  /\ inbox' = [n \in DOMAIN Read(file) |-> <<>>]
  /\ UNCHANGED <<writer, pc, user, arg, rest, file, kills, answered, sent, due, done>>

\* One step of the thread of a session.
Thread(t) ==
  \/ \E name \in Profiles : AddUser(t, name)
  \/ \E name \in DOMAIN table : followUser(t, name)
  \/ Truncate(t) \/ WriteSome(t) \/ CloseFile(t) \/ Answer(t)
  \/ \E message \in Messages : SendMessage(t, message)
  \/ NotifyFollower(t) \/ AnswerSend(t) \/ Disconnect(t)

Next == (\E t \in Threads : Thread(t)) \/ Kill \/ load_backup_table

Spec == Init /\ [][Next]_vars

-----------------------------------------------------------------------------
\* Every follower in the table has a row of its own, also after a restart:
\* sendMessageToFollowers dereferences what find() returns for each.
FollowersHaveRows ==
  up => \A n \in DOMAIN table : ToSet(table[n]) \subseteq DOMAIN table

\* A FOLLOW that was answered by an ACK is in force whenever the server runs,
\* whatever other threads save and however often the server was killed.
FollowsSurvive ==
  up => \A p \in answered : HasRow(p[2]) /\ p[1] \in ToSet(table[p[2]])

\* A message reaches a follower once, however many sessions, restarts and
\* repeated FOLLOWs there were.
OncePerFollower == \A n \in DOMAIN inbox : IsInjective(inbox[n])

\* Once a SEND is answered, its message is with everybody whose FOLLOW had
\* been answered before the SEND was taken, in this run of the server.
ReachesFollowers ==
  \A d \in due : d[1] \in done => HasRow(d[2]) /\ d[1] \in ToSet(inbox[d[2]])

\* Whenever nobody changes the table, a start of the server would read from
\* the file the same rows with the same followers in the same order.
FileReadsBack == up /\ NobodyWrites => Read(file) = table

-----------------------------------------------------------------------------
(* The invariant behind these, as long as no kill comes inside a save and  *)
(* no name has a dot: the other names are not read as they are written     *)

PlainNames == \A n \in Profiles : Dot \notin ToSet(n)

\* The one with the lock is the one between a change and the end of its save.
WriterInv ==
  /\ \A t \in Threads : pc[t] \in {"changed", "saving", "cut"} <=> writer = t
  /\ writer # Free => \A t \in Threads : pc[t] # "walk"

\* No session outlives the server; one that is connected has its row.
UserInv ==
  \A t \in Threads : /\ ~up => pc[t] = "idle"
                     /\ user[t] # Nobody => up /\ HasRow(user[t])

\* p follows according to tb.
Follows(tb, p) == p[2] \in DOMAIN tb /\ p[1] \in ToSet(tb[p[2]])

\* All names are users' names.
OfProfiles(tb) == DOMAIN tb \subseteq Profiles /\ tb \in [DOMAIN tb -> Seq(Profiles)]

WholeTable(tb) ==
  /\ OfProfiles(tb)
  /\ \A n \in DOMAIN tb : ToSet(tb[n]) \subseteq DOMAIN tb /\ IsInjective(tb[n])
  /\ \A p \in answered : Follows(tb, p)

\* What is not in the file yet is what the one with the lock has changed.
FileInv ==
  /\ up => WholeTable(table)
  /\ ~Saving => WholeTable(Read(file))
  /\ FileReadsBack

\* What t will answer is in the table, and once it is saved also in the file.
PendingInv ==
  \A t \in Threads : pc[t] \in {"changed", "saving", "cut", "reply"} =>
    /\ arg[t] \in Profiles
    /\ user[t] = Nobody => HasRow(arg[t])
    /\ user[t] # Nobody =>
         /\ Follows(table, <<user[t], arg[t]>>)
         /\ pc[t] = "reply" /\ ~Saving => Follows(Read(file), <<user[t], arg[t]>>)

\* The message of a walk goes once to each follower that is left.
WalkInv ==
  \A t \in Threads : pc[t] = "walk" =>
    /\ arg[t] \in sent \ done
    /\ IsInjective(rest[t]) /\ ToSet(rest[t]) \subseteq DOMAIN table
    /\ \A n \in ToSet(rest[t]) : arg[t] \notin ToSet(inbox[n])
    /\ \A d \in due : d[1] = arg[t] =>
         d[2] \in ToSet(rest[t]) \/ d[1] \in ToSet(inbox[d[2]])
    /\ \A u \in Threads : pc[u] = "walk" /\ arg[u] = arg[t] => u = t

\* Only what was sent is in a row.
SentInv ==
  /\ \A n \in DOMAIN table : ToSet(inbox[n]) \subseteq sent
  /\ \A d \in due : up /\ d[1] \in sent /\ HasRow(d[2])
  /\ done \subseteq sent

TableInv ==
  /\ TypeOK /\ WriterInv /\ UserInv /\ FileInv /\ PendingInv
  /\ WalkInv /\ SentInv /\ OncePerFollower /\ ReachesFollowers
=============================================================================
