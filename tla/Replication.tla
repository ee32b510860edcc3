----------------------------- MODULE Replication -----------------------------
(***************************************************************************)
(* The primary and its backups (server.cpp): a servers_socket_thread of    *)
(* the primary for each backup, the primary_communication_thread of each   *)
(* backup, and the connection between the two.                             *)
(*                                                                         *)
(* Sequence numbers are left out: no ACK's number is compared, every       *)
(* heartbeat is answered whatever its number, and the primary sends one    *)
(* packet of its FIFO again and again, so that the only question is whether *)
(* the backup has handled it (updated).  A packet of the FIFO is its type  *)
(* and the length its text had when the packet was made: the text of all of *)
(* them is what the one global buffer holds when they are sent.  The       *)
(* backup's case UPDATE_ROW is missing, since none is ever sent: a defect  *)
(* of the code that theorem RowsStayQueued of ReplicationProof states.     *)
(***************************************************************************)
EXTENDS Integers, Sequences, FiniteSets

CONSTANTS
  Backups,     \* processes started as backup, each once
  Primary,     \* the process started as primary
  MAX_TRIES,   \* tries after which a peer counts as dead
  MaxInFlight, \* bound: unread packets of a connection on which one more is sent
  MaxPings,    \* the same bound for heartbeats
  Mortal,      \* bound: the processes that may be killed or interrupted
  Row,         \* the text of a row
  Blank,       \* an empty text
  Size,        \* characters of each text, without the newline behind it
  Fields       \* characters of each text up to its second comma

ASSUME ReplicationAssumption ==
  /\ IsFiniteSet(Backups) /\ Primary \notin Backups
  /\ MAX_TRIES \in Nat /\ MaxInFlight \in Nat /\ MaxPings \in Nat
  /\ Mortal \subseteq Backups \union {Primary}

VARIABLES
  up,                   \* the primary's process is alive
  signalled,            \* processes whose termination_signal is set
  hasRows,              \* the primary's masterTable has a row
  num_backup_servers,
  servers_table,        \* of the primary: the backups it knows
  packet_to_send_table, \* the FIFO of each id
  payload,              \* the global buffer
  ppc,                  \* where the primary's thread for a backup is
  current_server_id,    \* the id the thread has given
  visited,              \* the last id its cold replication has passed
  primaryTries,         \* its send_tries
  bpc,                  \* where a backup's thread is
  my_backup_id,
  backupTries,          \* the backup's send_tries
  updated,              \* it has handled an update
  known,                \* the backup's servers_table
  toPrimary, toBackup   \* packets written and not yet read

tables == <<num_backup_servers, servers_table, packet_to_send_table, payload>>
world == <<up, signalled, hasRows>>
primaryThread == <<ppc, current_server_id, visited, primaryTries>>
backupThread == <<bpc, my_backup_id, backupTries, updated, known>>
links == <<toPrimary, toBackup>>
vars == <<tables, world, primaryThread, backupThread, links>>

UNDEFINED_ID == -1
Ids == 1..Cardinality(Backups)
Struct(id, b) == [id |-> id, owner |-> b]
Structs == [id : Ids, owner : Backups]

Texts == Structs \union {Row, Blank}

\* A struct's text goes on behind its second comma; a row's may end before one.
ASSUME TextsAssumption ==
  /\ Row # Blank /\ {Row, Blank} \intersect Structs = {}
  /\ Size \in [Texts -> Nat] /\ Fields \in [Texts -> Nat]
  /\ \A x \in Structs : Fields[x] < Size[x]
  /\ Fields[Row] <= Size[Row] /\ Size[Blank] = 0

IdPacket(type, id) == [type |-> type, id |-> id]
Queued(type, length) == [type |-> type, length |-> length]
Update(queued, text) == [type |-> queued.type, length |-> queued.length, text |-> text]
Ack == [type |-> "ACK"]
Heartbeat == [type |-> "HEARTBEAT"]

UpdateTypes == {"UPDATE_BACKUP", "UPDATE_ROW"}

\* Everything that is ever written to a connection.
Packets ==
  [type : {"CONNECT_SERVER", "SET_ID"}, id : Ids \union {0, UNDEFINED_ID}]
    \union [type : UpdateTypes, length : Nat, text : Texts]
    \union {Ack, Heartbeat}

Over == {"done", "exited", "crashed", "killed"}
PrimaryOpen(b) == up /\ ppc[b] # "done"
BackupOpen(b) == bpc[b] \notin Over

\* What one recv can return, and what it leaves.
Batches(q) == {SubSeq(q, 1, k) : k \in 1..Len(q)}
After(q, batch) == SubSeq(q, Len(batch) + 1, Len(q))
Has(batch, type) == \E i \in 1..Len(batch) : batch[i].type = type
AckEach(batch, type) ==
  [n \in 1..Cardinality({i \in 1..Len(batch) : batch[i].type = type}) |-> Ack]

\* A mutant: a try is not counted.
NoMore(tries) == tries

\* The count of tries after one more.
OneMore(tries) == tries + 1

\* What is written to a closed end is lost.
BackupWrites(b, packets) ==
  toPrimary' = [toPrimary EXCEPT ![b] = IF PrimaryOpen(b) THEN @ \o packets ELSE @]
PrimaryWrites(b, packets) ==
  toBackup' = [toBackup EXCEPT ![b] = IF BackupOpen(b) THEN @ \o packets ELSE @]

Room(b, bound) ==
  PrimaryOpen(b) /\ BackupOpen(b) => Len(toPrimary[b]) + Len(toBackup[b]) < bound

TypeOK ==
  /\ up \in BOOLEAN /\ hasRows \in BOOLEAN
  /\ signalled \subseteq Backups \union {Primary}
  /\ num_backup_servers \in 0..Cardinality(Backups)
  /\ servers_table \subseteq Structs
  /\ packet_to_send_table \in [Ids -> Seq([type : UpdateTypes, length : Nat])]
  /\ payload \in Texts
  /\ ppc \in [Backups -> {"none", "connect", "load", "count", "take", "table", "offer",
                          "setid", "cold", "struct", "structPacket", "rows", "row",
                          "rowPacket", "recv", "send", "done"}]
  /\ current_server_id \in [Backups -> Ids \union {0, UNDEFINED_ID}]
  /\ visited \in [Backups -> Ids \union {0}]
  /\ primaryTries \in [Backups -> 0..(MAX_TRIES + 1)]
  /\ bpc \in [Backups -> {"start", "connected", "await", "id", "ping", "loop"} \union Over]
  /\ my_backup_id \in [Backups -> Ids \union {UNDEFINED_ID}]
  /\ backupTries \in [Backups -> 0..(MAX_TRIES + 1)]
  /\ updated \in [Backups -> BOOLEAN]
  /\ known \in [Backups -> SUBSET [text : Texts, whole : BOOLEAN]]
  /\ toPrimary \in [Backups -> Seq(Packets)]
  /\ toBackup \in [Backups -> Seq(Packets)]

Init ==
  /\ up = TRUE /\ signalled = {} /\ hasRows \in BOOLEAN
  /\ num_backup_servers = 0 /\ servers_table = {}
  /\ packet_to_send_table = [id \in Ids |-> <<>>]
  /\ payload = Blank
  /\ ppc = [b \in Backups |-> "none"]
  /\ current_server_id = [b \in Backups |-> UNDEFINED_ID]
  /\ visited = [b \in Backups |-> 0]
  /\ primaryTries = [b \in Backups |-> 0]
  /\ bpc = [b \in Backups |-> "start"]
  /\ my_backup_id = [b \in Backups |-> UNDEFINED_ID]
  /\ backupTries = [b \in Backups |-> 0]
  /\ updated = [b \in Backups |-> FALSE]
  /\ known = [b \in Backups |-> {}]
  /\ toPrimary = [b \in Backups |-> <<>>]
  /\ toBackup = [b \in Backups |-> <<>>]

-----------------------------------------------------------------------------
(* The world: clients bring rows, processes are killed or interrupted.     *)

ClientConnects ==
  /\ up /\ ~hasRows
  /\ hasRows' = TRUE
  /\ UNCHANGED <<up, signalled, tables, primaryThread, backupThread, links>>

KillPrimary ==
  /\ up /\ Primary \in Mortal
  /\ up' = FALSE
  /\ UNCHANGED <<signalled, hasRows, tables, primaryThread, backupThread, links>>

KillBackup(b) ==
  /\ b \in Mortal /\ bpc[b] \notin Over \union {"start"}
  /\ bpc' = [bpc EXCEPT ![b] = "killed"]
  /\ UNCHANGED <<my_backup_id, backupTries, updated, known,
                 tables, world, primaryThread, links>>

set_termination_signal(p) ==
  /\ p \in Mortal \ signalled
  /\ signalled' = signalled \union {p}
  /\ UNCHANGED <<up, hasRows, tables, primaryThread, backupThread, links>>

-----------------------------------------------------------------------------
(* The backup's thread.                                                    *)

setup_socket(b) ==
  /\ bpc[b] = "start"
  /\ bpc' = [bpc EXCEPT ![b] = "connected"]
  /\ UNCHANGED <<my_backup_id, backupTries, updated, known, links, tables, world, primaryThread>>

\* CONNECT_SERVER is written once: what the loop that follows writes again is a
\* buffer it has cleared.
send_CONNECT_SERVER(b) ==
  /\ bpc[b] = "connected"
  /\ bpc' = [bpc EXCEPT ![b] = "await"]
  /\ BackupWrites(b, <<IdPacket("CONNECT_SERVER", my_backup_id[b])>>)
  /\ UNCHANGED <<my_backup_id, backupTries, updated, known, toBackup,
                 tables, world, primaryThread>>

\* The first ACK ends send_CONNECT_SERVER; the rest of the read is dropped.
ConnectAcked(b) ==
  /\ bpc[b] = "await"
  /\ \E batch \in Batches(toBackup[b]) :
       /\ Has(batch, "ACK")
       /\ toBackup' = [toBackup EXCEPT ![b] = After(@, batch)]
  /\ bpc' = [bpc EXCEPT ![b] = "id"]
  /\ backupTries' = [backupTries EXCEPT ![b] = 0]
  /\ UNCHANGED <<my_backup_id, updated, known, toPrimary, tables, world, primaryThread>>

ConnectUnanswered(b) ==
  /\ bpc[b] = "await"
  /\ backupTries' = [backupTries EXCEPT ![b] = OneMore(@)]
  /\ bpc' = [bpc EXCEPT ![b] = IF backupTries[b] < MAX_TRIES THEN @ ELSE "exited"]
  /\ UNCHANGED <<my_backup_id, updated, known, links, tables, world, primaryThread>>

\* Reads until something comes; the last packet of the read gives the id.
receive_SET_ID(b) ==
  /\ bpc[b] = "id"
  /\ \E batch \in Batches(toBackup[b]) :
       /\ my_backup_id' = [my_backup_id EXCEPT ![b] = batch[Len(batch)].id]
       /\ toBackup' = [toBackup EXCEPT ![b] = After(@, batch)]
  /\ BackupWrites(b, <<Ack>>)
  /\ bpc' = [bpc EXCEPT ![b] = "ping"]
  /\ UNCHANGED <<backupTries, updated, known, tables, world, primaryThread>>

FirstPing(b) ==
  /\ bpc[b] = "ping"
  /\ bpc' = [bpc EXCEPT ![b] = "loop"]
  /\ BackupWrites(b, <<Heartbeat>>)
  /\ UNCHANGED <<my_backup_id, backupTries, updated, known, toBackup,
                 tables, world, primaryThread>>

\* A mutant: one try too many.
BackupLoopEndLate(b, tries) ==
  IF b \in signalled \/ tries > MAX_TRIES + 1 THEN "done" ELSE "loop"

\* Where a turn of the loop ends, with this many tries.
BackupLoopEnd(b, tries) ==
  IF b \in signalled \/ tries > MAX_TRIES THEN "done" ELSE "loop"

\* The update of a read that is new: the first, if none was handled before.
New(b, batch) ==
  {batch[i] : i \in {k \in 1..Len(batch) :
                      /\ ~updated[b] /\ batch[k].type = "UPDATE_BACKUP"
                      /\ ~Has(SubSeq(batch, 1, k - 1), "UPDATE_BACKUP")}}

\* Of a text buffer_to_packet keeps as many characters as the packet says: of a
\* longer struct the port is cut.
Received(p) == [text |-> p.text, whole |-> Size[p.text] <= p.length]

\* buffer_to_packet fails on an update without text, and with it the process;
\* unserialize_server_struct on a text that ends before something follows its
\* second comma, which it sees only if the update is new.
Fails(b, batch) ==
  \/ \E i \in 1..Len(batch) : batch[i].type = "UPDATE_BACKUP" /\ batch[i].text = Blank
  \/ \E p \in New(b, batch) : p.length <= Fields[p.text] \/ Size[p.text] <= Fields[p.text]

CrashOnUpdate(b) ==
  /\ bpc[b] = "loop"
  /\ \E batch \in Batches(toBackup[b]) :
       /\ Fails(b, batch)
       /\ toBackup' = [toBackup EXCEPT ![b] = After(@, batch)]
  /\ bpc' = [bpc EXCEPT ![b] = "crashed"]
  /\ UNCHANGED <<my_backup_id, backupTries, updated, known, toPrimary,
                 tables, world, primaryThread>>

\* A new update is stored, and every update answered.
RecvFromPrimary(b) ==
  /\ bpc[b] = "loop"
  /\ \E batch \in Batches(toBackup[b]) :
       LET tries == IF Has(batch, "ACK") THEN 0 ELSE backupTries[b]
       IN /\ ~Fails(b, batch)
          /\ toBackup' = [toBackup EXCEPT ![b] = After(@, batch)]
          /\ BackupWrites(b, AckEach(batch, "UPDATE_BACKUP"))
          /\ known' = [known EXCEPT ![b] = @ \union {Received(p) : p \in New(b, batch)}]
          /\ updated' = [updated EXCEPT ![b] = @ \/ Has(batch, "UPDATE_BACKUP")]
          /\ backupTries' = [backupTries EXCEPT ![b] = tries]
          /\ bpc' = [bpc EXCEPT ![b] = BackupLoopEnd(b, tries)]
  /\ UNCHANGED <<my_backup_id, tables, world, primaryThread>>

send_ping_to_primary(b) ==
  /\ bpc[b] = "loop"
  /\ Room(b, MaxPings)
  /\ BackupWrites(b, <<Heartbeat>>)
  /\ backupTries' = [backupTries EXCEPT ![b] = OneMore(@)]
  /\ bpc' = [bpc EXCEPT ![b] = BackupLoopEnd(b, OneMore(backupTries[b]))]
  /\ UNCHANGED <<my_backup_id, updated, known, toBackup, tables, world, primaryThread>>

LeaveLoop(b) ==
  /\ bpc[b] = "loop" /\ b \in signalled
  /\ bpc' = [bpc EXCEPT ![b] = "done"]
  /\ UNCHANGED <<my_backup_id, backupTries, updated, known, links, tables, world, primaryThread>>

-----------------------------------------------------------------------------
(* The primary's thread for backup b.                                      *)

Goto(b, from, to) == up /\ ppc[b] = from /\ ppc' = [ppc EXCEPT ![b] = to]

Accept(b) ==
  /\ bpc[b] # "start"
  /\ Goto(b, "none", "connect")
  /\ UNCHANGED <<current_server_id, visited, primaryTries, tables, world, backupThread, links>>

receive_CONNECT_SERVER(b) ==
  /\ \E batch \in Batches(toPrimary[b]) :
       LET id == batch[Len(batch)].id IN
       /\ Goto(b, "connect", IF id = UNDEFINED_ID THEN "load" ELSE "table")
       /\ current_server_id' = [current_server_id EXCEPT ![b] = id]
       /\ toPrimary' = [toPrimary EXCEPT ![b] = After(@, batch)]
  /\ PrimaryWrites(b, <<Ack>>)
  /\ UNCHANGED <<visited, primaryTries, tables, world, backupThread>>

\* num_backup_servers++ is a load and a store, and the id is read back by a
\* statement of its own.
LoadCount(b) ==
  /\ Goto(b, "load", "count")
  /\ current_server_id' = [current_server_id EXCEPT ![b] = num_backup_servers]
  /\ UNCHANGED <<visited, primaryTries, tables, world, backupThread, links>>

CountBackup(b) ==
  /\ Goto(b, "count", "take")
  /\ num_backup_servers' = current_server_id[b] + 1
  /\ UNCHANGED <<current_server_id, visited, primaryTries, world, backupThread, links,
                 servers_table, packet_to_send_table, payload>>

TakeId(b) ==
  /\ Goto(b, "take", "table")
  /\ current_server_id' = [current_server_id EXCEPT ![b] = num_backup_servers]
  /\ UNCHANGED <<visited, primaryTries, tables, world, backupThread, links>>

\* A mutant: the last backup with an id stays.
InsertOver(table, struct) == {x \in table : x.id # struct.id} \union {struct}

\* The struct of the first backup with an id stays.
Insert(table, struct) ==
  IF \E x \in table : x.id = struct.id THEN table ELSE table \union {struct}

AddServer(b) ==
  /\ Goto(b, "table", "offer")
  /\ servers_table' = Insert(servers_table, Struct(current_server_id[b], b))
  /\ UNCHANGED <<num_backup_servers, packet_to_send_table, payload, current_server_id,
                 visited, primaryTries, world, backupThread, links>>

\* A mutant: the id is read from the global counter.
SetLatestId(b) == IdPacket("SET_ID", num_backup_servers)

SetId(b) == IdPacket("SET_ID", current_server_id[b])

send_SET_ID(b) ==
  /\ Goto(b, "offer", "setid")
  /\ PrimaryWrites(b, <<SetId(b)>>)
  /\ UNCHANGED <<current_server_id, visited, primaryTries, toPrimary, tables, world, backupThread>>

\* The first ACK ends send_SET_ID; a heartbeat in the same read is dropped.
SetIdAcked(b) ==
  /\ Goto(b, "setid", "cold")
  /\ \E batch \in Batches(toPrimary[b]) :
       /\ Has(batch, "ACK")
       /\ toPrimary' = [toPrimary EXCEPT ![b] = After(@, batch)]
  /\ primaryTries' = [primaryTries EXCEPT ![b] = 0]
  /\ UNCHANGED <<current_server_id, visited, toBackup, tables, world, backupThread>>

SetIdUnanswered(b) ==
  /\ Goto(b, "setid", IF primaryTries[b] < MAX_TRIES THEN "setid" ELSE "done")
  /\ Room(b, MaxInFlight)
  /\ PrimaryWrites(b, <<SetId(b)>>)
  /\ primaryTries' = [primaryTries EXCEPT ![b] = @ + 1]
  /\ UNCHANGED <<current_server_id, visited, toPrimary, tables, world, backupThread>>

\* Cold replication: one update for each known backup, then for each row (one
\* stands for all).  The buffer is cleared and written, its length taken for a
\* packet that refers to it, without a lock.
ToVisit(b) == {x \in servers_table : x.id > visited[b]}

ClearPayload(b) ==
  /\ \/ /\ Goto(b, "cold", "struct")
        /\ \E x \in ToVisit(b) :
             /\ \A y \in ToVisit(b) : x.id <= y.id
             /\ visited' = [visited EXCEPT ![b] = x.id]
     \/ hasRows /\ Goto(b, "rows", "row") /\ UNCHANGED visited
  /\ payload' = Blank
  /\ UNCHANGED <<num_backup_servers, servers_table, packet_to_send_table, current_server_id,
                 primaryTries, world, backupThread, links>>

\* A mutant: the cleared buffer is queued.
serialize_nothing(x) == Blank

\* The text of a struct is the struct; it can be parsed again.
serialize_server_struct(x) == x

Serialize(b) ==
  /\ \/ /\ Goto(b, "struct", "structPacket")
        /\ \E x \in servers_table : x.id = visited[b] /\ payload' = serialize_server_struct(x)
     \/ Goto(b, "row", "rowPacket") /\ payload' = Row
  /\ UNCHANGED <<num_backup_servers, servers_table, packet_to_send_table, current_server_id,
                 visited, primaryTries, world, backupThread, links>>

\* Of what the buffer holds by now; each text ends with a newline.
strlen(text) == IF text = Blank THEN 0 ELSE Size[text] + 1

Push(b, type) ==
  packet_to_send_table' =
    [packet_to_send_table EXCEPT ![current_server_id[b]] = Append(@, Queued(type, strlen(payload)))]

create_packet(b) ==
  /\ \/ Goto(b, "structPacket", "cold") /\ Push(b, "UPDATE_BACKUP")
     \/ Goto(b, "rowPacket", "recv") /\ Push(b, "UPDATE_ROW")
  /\ UNCHANGED <<num_backup_servers, servers_table, payload, current_server_id, visited,
                 primaryTries, world, backupThread, links>>

EndOfTable(b) ==
  /\ \/ ToVisit(b) = {} /\ Goto(b, "cold", "rows")
     \/ ~hasRows /\ Goto(b, "rows", "recv")
  /\ UNCHANGED <<current_server_id, visited, primaryTries, tables, world, backupThread, links>>

\* The FIFO after an ACK: pop_front is called on a copy of it.
Popped(fifo) == fifo

RecvFromBackup(b) ==
  /\ Goto(b, "recv", "send")
  /\ \E batch \in Batches(toPrimary[b]) :
       /\ toPrimary' = [toPrimary EXCEPT ![b] = After(@, batch)]
       /\ PrimaryWrites(b, AckEach(batch, "HEARTBEAT"))
       /\ IF Has(batch, "ACK")
          THEN /\ primaryTries' = [primaryTries EXCEPT ![b] = 0]
               /\ packet_to_send_table' =
                    [packet_to_send_table EXCEPT ![current_server_id[b]] = Popped(@)]
          ELSE UNCHANGED <<primaryTries, packet_to_send_table>>
  /\ UNCHANGED <<num_backup_servers, servers_table, payload, current_server_id, visited,
                 world, backupThread>>

RecvNothing(b) ==
  /\ Goto(b, "recv", "send")
  /\ UNCHANGED <<current_server_id, visited, primaryTries, tables, world, backupThread, links>>

\* A mutant: only a write that succeeds counts.
TriesAfterSuccess(b, fifo) == IF BackupOpen(b) THEN primaryTries[b] + 1 ELSE primaryTries[b]

\* A write that fails counts as a try too; nothing to send does not.
TriesAfterSend(b, fifo) == IF fifo = <<>> THEN primaryTries[b] ELSE primaryTries[b] + 1

\* Sends the front of the FIFO with what the buffer holds by now.
send_UPDATE(b) ==
  LET fifo == packet_to_send_table[current_server_id[b]]
      tries == TriesAfterSend(b, fifo)
  IN /\ Room(b, MaxInFlight)
     /\ Goto(b, "send", IF Primary \in signalled \/ tries > MAX_TRIES THEN "done" ELSE "recv")
     /\ PrimaryWrites(b, IF fifo = <<>> THEN <<>> ELSE <<Update(fifo[1], payload)>>)
     /\ primaryTries' = [primaryTries EXCEPT ![b] = tries]
     /\ UNCHANGED <<current_server_id, visited, toPrimary, tables, world, backupThread>>

-----------------------------------------------------------------------------
BackupThread(b) ==
  \/ send_CONNECT_SERVER(b) \/ ConnectAcked(b) \/ ConnectUnanswered(b) \/ receive_SET_ID(b) \/ FirstPing(b)
  \/ CrashOnUpdate(b) \/ RecvFromPrimary(b) \/ send_ping_to_primary(b) \/ LeaveLoop(b)

PrimaryThread(b) ==
  \/ receive_CONNECT_SERVER(b) \/ LoadCount(b) \/ CountBackup(b) \/ TakeId(b) \/ AddServer(b)
  \/ send_SET_ID(b) \/ SetIdAcked(b) \/ SetIdUnanswered(b)
  \/ ClearPayload(b) \/ Serialize(b) \/ create_packet(b) \/ EndOfTable(b)
  \/ RecvFromBackup(b) \/ RecvNothing(b) \/ send_UPDATE(b)

Next ==
  \/ ClientConnects \/ KillPrimary
  \/ \E p \in Backups \union {Primary} : set_termination_signal(p)
  \/ \E b \in Backups : \/ KillBackup(b) \/ setup_socket(b) \/ BackupThread(b)
                        \/ Accept(b) \/ PrimaryThread(b)

Spec == Init /\ [][Next]_vars

\* Threads run and main accepts until it shuts down; the operators and the
\* clients owe nothing.
Fairness ==
  \A b \in Backups :
    /\ WF_vars(BackupThread(b)) /\ WF_vars(PrimaryThread(b))
    /\ WF_vars(Primary \notin signalled /\ Accept(b))

FairSpec == Spec /\ Fairness
-----------------------------------------------------------------------------
(* Properties.                                                             *)

\* Once the handshake is over a backup has the id under which the primary's
\* thread keeps it (server.cpp:774-776, 897-900), whatever was repeated and dropped.
IdsAgree ==
  \A b \in Backups : bpc[b] \in {"ping", "loop", "done"} => my_backup_id[b] = current_server_id[b]

\* The texts the primary's buffer can have held.
Written == servers_table \union IF hasRows THEN {Row} ELSE {}

\* Whatever a backup has in its servers_table comes from one text of the
\* primary's (server.cpp:816-831): no two owners for one id, and no server that
\* never was, but for a port that has lost digits to the length of a shorter
\* text of another struct or row, and for a row with commas in it.
KnownIsTrue ==
  \A b \in Backups : \A x \in known[b] :
    /\ x.text \in Written
    /\ ~x.whole => \E y \in Written : Size[y] + 1 < Size[x.text]

\* A backup that is alone, at a primary without rows, is never brought down by
\* an update (server.cpp:820); any row or second backup can do it.
SurvivesAlone ==
  \A b \in Backups :
    bpc[b] = "crashed" => hasRows \/ \E c \in Backups \ {b} : ppc[c] # "none"

\* A handshake ends: the two sides do not wait for each other, though each
\* drops and repeats packets.  Only a backup whose primary is gone waits for
\* ever, in receive_SET_ID (server.cpp:375-378).
HandshakeEnds ==
  \A b \in Backups :
    bpc[b] \in {"await", "id"} ~>
      \/ bpc[b] \notin {"await", "id"}
      \/ bpc[b] = "id" /\ ~PrimaryOpen(b)

\* A primary that is gone is noticed by every backup in its loop (857-863).
DeadPrimaryNoticed ==
  \A b \in Backups : (bpc[b] = "loop" /\ ~PrimaryOpen(b)) ~> bpc[b] \in Over

\* A backup that is gone is noticed by the primary's thread (987-991), unless it
\* went before it sent CONNECT_SERVER, for which the thread waits for ever
\* (438-441), or main had stopped accepting.
DeadBackupNoticed ==
  \A b \in Backups :
    bpc[b] \in Over ~>
      \/ ~PrimaryOpen(b)
      \/ ppc[b] = "connect" /\ toPrimary[b] = <<>>
      \/ ppc[b] = "none" /\ Primary \in signalled
=============================================================================
