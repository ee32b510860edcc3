-------------------------- MODULE ReplicationProof --------------------------
(***************************************************************************)
(* The inductive invariant of Replication, for any number of backups and   *)
(* any bounds, and the theorems that follow from it.                       *)
(***************************************************************************)
EXTENDS Replication, SequencesExt, FiniteSetTheorems, SequenceTheorems, TLAPS

-----------------------------------------------------------------------------
(* The invariant *)

Unnumbered == {"none", "connect", "load", "count"}
Early == Unnumbered \union {"take", "table", "offer"}
Queueing == {"cold", "struct", "structPacket"}
Serving == {"rows", "row", "rowPacket", "recv", "send"}
Unlisted == Unnumbered \union {"take", "table"}

\* The threads that have counted their backup.
Passed == {b \in Backups : ppc[b] \notin Unnumbered}

\* The counter never passes the number of backups that were counted, though
\* increments can be lost.
CountInv ==
  /\ num_backup_servers <= Cardinality(Passed)
  /\ Passed # {} => num_backup_servers > 0
  /\ \A b \in Backups :
       /\ ppc[b] = "count" => current_server_id[b] \in 0..Cardinality(Passed)
       /\ ppc[b] \notin Unnumbered \union {"take"} => current_server_id[b] \in Ids

\* Who has tried too often gives up at once.
TriesInv ==
  \A b \in Backups :
    /\ ppc[b] # "done" => primaryTries[b] <= MAX_TRIES
    /\ bpc[b] \notin {"done", "exited"} => backupTries[b] <= MAX_TRIES

\* Where the two sides of a handshake can be, and what is in between.
HandshakeInv(b) ==
  LET q == toBackup[b]
      r == toPrimary[b]
  IN /\ ppc[b] \in {"none", "connect"} =>
          /\ bpc[b] \in {"start", "connected", "await"} \union Over
          /\ q = <<>>
          /\ \A p \in ToSet(r) : p = IdPacket("CONNECT_SERVER", UNDEFINED_ID)
     /\ bpc[b] \in {"start", "connected"} =>
          /\ ppc[b] \in {"none", "connect"}
          /\ r = <<>> /\ my_backup_id[b] = UNDEFINED_ID
     /\ bpc[b] = "await" =>
          /\ ppc[b] \notin {"none", "connect"} => q # <<>>
          /\ q # <<>> => q[1] = Ack
          /\ \A i \in 2..Len(q) : q[i] = SetId(b)
     /\ bpc[b] = "id" => \A i \in 1..Len(q) : q[i] = SetId(b)
     /\ ppc[b] \in Early /\ bpc[b] = "await" => Len(q) <= 1
     /\ ppc[b] \in Early /\ bpc[b] = "id" => q = <<>>
     /\ bpc[b] \in {"start", "connected", "await", "id"} =>
          /\ ppc[b] \notin Queueing \union Serving
          /\ \A p \in ToSet(r) : p # Ack
     /\ bpc[b] \in {"ping", "loop", "done"} =>
          /\ ppc[b] \notin Early
          /\ my_backup_id[b] = current_server_id[b]

\* The buffer and the updates on their way hold structs of the primary's table,
\* rows or nothing, and so do the texts whose lengths the packets have.
Lengths == {strlen(t) : t \in Written \union {Blank}}

TruthInv ==
  /\ payload \in Written \union {Blank}
  /\ \A id \in Ids : \A e \in ToSet(packet_to_send_table[id]) : e.length \in Lengths
  /\ \A b \in Backups :
       /\ ppc[b] \in {"row", "rowPacket"} => hasRows
       /\ \A x \in known[b] :
            /\ x.text \in Written
            /\ ~x.whole => \E y \in Written : Size[y] + 1 < Size[x.text]
       /\ \A p \in ToSet(toBackup[b]) :
            p.type = "UPDATE_BACKUP" => p.text \in Written \union {Blank} /\ p.length \in Lengths

\* A backup's own struct is in the table before its FIFO is filled, and so at
\* the FIFO's front.
QueueInv ==
  /\ \A id \in Ids :
       packet_to_send_table[id] # <<>> => packet_to_send_table[id][1].type = "UPDATE_BACKUP"
  /\ \A b \in Backups :
       /\ ppc[b] \in {"offer", "setid"} \union Queueing =>
            \E x \in servers_table : x.id = current_server_id[b]
       /\ ppc[b] \in Early \union {"setid"} => visited[b] = 0
       /\ ppc[b] = "cold" => visited[b] = 0 \/ packet_to_send_table[current_server_id[b]] # <<>>
       /\ ppc[b] \in Serving => packet_to_send_table[current_server_id[b]] # <<>>
       /\ \A p \in ToSet(toBackup[b]) : p.type # "UPDATE_ROW"

\* Threads for two backups run, or have run.
Crowd == \E b, c \in Backups : b # c /\ ppc[b] # "none" /\ ppc[c] # "none"

\* A thread that has filled the buffer.
Filled(b) ==
  \/ ppc[b] = "cold" /\ visited[b] # 0
  \/ ppc[b] \in {"structPacket", "rows", "rowPacket", "recv", "send"}

\* Without another there is one struct, and only another thread leaves the buffer
\* blank behind a thread that has filled it, or makes it measure nothing.
AloneInv ==
  /\ \A x \in servers_table : ppc[x.owner] \notin Unlisted /\ x.id = current_server_id[x.owner]
  /\ \A id \in Ids : \A e \in ToSet(packet_to_send_table[id]) : e.length = 0 => Crowd
  /\ \A b \in Backups :
       /\ Filled(b) /\ payload = Blank => Crowd
       /\ \A p \in ToSet(toBackup[b]) :
            p.type = "UPDATE_BACKUP" /\ (p.text = Blank \/ p.length = 0) => Crowd
       /\ bpc[b] = "crashed" => hasRows \/ Crowd

IInv ==
  /\ TypeOK /\ CountInv /\ TriesInv /\ TruthInv /\ QueueInv /\ AloneInv
  /\ \A b \in Backups : HandshakeInv(b)

-----------------------------------------------------------------------------
(* Channels and batches *)

\* What a FIFO holds.
Entries == [type : UpdateTypes, length : Nat]

\* What is written to a connection are packets.
LEMMA PacketsWritten ==
  /\ Ack \in Packets /\ Heartbeat \in Packets
  /\ \A id \in Ids \union {0, UNDEFINED_ID} :
       IdPacket("CONNECT_SERVER", id) \in Packets /\ IdPacket("SET_ID", id) \in Packets
  /\ \A e \in Entries, x \in Texts :
       LET p == Update(e, x)
       IN  p \in Packets /\ p.type = e.type /\ p.length = e.length /\ p.text = x
BY DEF Packets, Ack, Heartbeat, IdPacket, Update, Entries

\* The lengths of texts: only the empty one has none.
LEMMA TextLengths ==
  ASSUME NEW t \in Texts
  PROVE  /\ strlen(t) \in Nat /\ Size[t] \in Nat /\ Fields[t] \in Nat
         /\ t = Blank => strlen(t) = 0
         /\ t # Blank => strlen(t) = Size[t] + 1 /\ strlen(t) # 0
BY TextsAssumption DEF strlen

\* The elements of a sequence.
LEMMA Elements ==
  ASSUME NEW S, NEW q \in Seq(S)
  PROVE  /\ ToSet(q) = {q[i] : i \in 1..Len(q)}
         /\ ToSet(q) \subseteq S
         /\ Len(q) \in Nat
BY LenProperties, ElementOfSeq DEF ToSet

\* What a read returns is a nonempty prefix; the rest stays, in its order.
LEMMA BatchIsPrefix ==
  ASSUME NEW S, NEW q \in Seq(S), NEW batch \in Batches(q)
  PROVE  /\ batch \in Seq(S) /\ Len(batch) \in 1..Len(q)
         /\ \A i \in 1..Len(batch) : batch[i] = q[i]
         /\ After(q, batch) \in Seq(S)
         /\ Len(After(q, batch)) = Len(q) - Len(batch)
         /\ \A i \in 1..Len(After(q, batch)) : After(q, batch)[i] = q[i + Len(batch)]
<1>1. PICK k \in 1..Len(q) : batch = SubSeq(q, 1, k)
  BY DEF Batches
<1>2. Len(q) \in Nat /\ \A i \in 1..Len(q) : q[i] \in S
  BY LenProperties, ElementOfSeq
<1>3. /\ batch \in Seq(S) /\ Len(batch) = k
      /\ \A i \in 1..k : batch[i] = q[i]
  BY <1>1, <1>2, SubSeqProperties
<1>4. \A i \in (k + 1)..Len(q) : q[i] \in S
  BY <1>2
<1>5. /\ SubSeq(q, k + 1, Len(q)) \in Seq(S)
      /\ Len(SubSeq(q, k + 1, Len(q))) = IF k + 1 <= Len(q) THEN Len(q) - (k + 1) + 1 ELSE 0
      /\ \A i \in 1..(Len(q) - (k + 1) + 1) : SubSeq(q, k + 1, Len(q))[i] = q[(k + 1) + i - 1]
  BY <1>2, <1>4, SubSeqProperties
<1>6. After(q, batch) = SubSeq(q, k + 1, Len(q))
  BY <1>3 DEF After
<1> QED
  BY <1>2, <1>3, <1>5, <1>6

\* So what is read, and what stays, are elements of the channel.
LEMMA BatchElements ==
  ASSUME NEW S, NEW q \in Seq(S), NEW batch \in Batches(q)
  PROVE  /\ ToSet(batch) \subseteq ToSet(q) /\ ToSet(After(q, batch)) \subseteq ToSet(q)
         /\ batch[Len(batch)] \in ToSet(batch)
         /\ q # <<>>
<1>1. /\ batch \in Seq(S) /\ After(q, batch) \in Seq(S)
      /\ Len(q) \in Nat /\ Len(batch) \in 1..Len(q)
  BY BatchIsPrefix, LenProperties
<1>2. /\ ToSet(q) = {q[i] : i \in 1..Len(q)}
      /\ ToSet(batch) = {batch[i] : i \in 1..Len(batch)}
      /\ ToSet(After(q, batch)) = {After(q, batch)[i] : i \in 1..Len(After(q, batch))}
  BY <1>1, Elements
<1>3. \A i \in 1..Len(batch) : i \in 1..Len(q) /\ batch[i] = q[i]
  BY <1>1, BatchIsPrefix
<1>4. \A i \in 1..Len(After(q, batch)) :
        i + Len(batch) \in 1..Len(q) /\ After(q, batch)[i] = q[i + Len(batch)]
  BY <1>1, BatchIsPrefix
<1>5. Len(batch) \in 1..Len(batch) /\ Len(q) # 0
  BY <1>1
<1>6. q # <<>>
  BY <1>5
<1> QED
  BY <1>2, <1>3, <1>4, <1>5, <1>6

\* What a write adds to a channel.
LEMMA WriteElements ==
  ASSUME NEW S, NEW q \in Seq(S), NEW p \in Seq(S)
  PROVE  /\ q \o p \in Seq(S)
         /\ ToSet(q \o p) = ToSet(q) \union ToSet(p)
<1>1. /\ Len(q) \in Nat /\ Len(p) \in Nat
      /\ q \o p \in Seq(S) /\ Len(q \o p) = Len(q) + Len(p)
      /\ \A i \in 1..(Len(q) + Len(p)) : (q \o p)[i] = IF i <= Len(q) THEN q[i] ELSE p[i - Len(q)]
  BY LenProperties, ConcatProperties
<1>2. /\ ToSet(q \o p) = {(q \o p)[i] : i \in 1..Len(q \o p)}
      /\ ToSet(q) = {q[i] : i \in 1..Len(q)}
      /\ ToSet(p) = {p[i] : i \in 1..Len(p)}
  BY <1>1, Elements
<1>3. ToSet(q \o p) \subseteq ToSet(q) \union ToSet(p)
  <2> SUFFICES ASSUME NEW i \in 1..(Len(q) + Len(p))
      PROVE  (q \o p)[i] \in ToSet(q) \union ToSet(p)
    BY <1>1, <1>2
  <2>1. CASE i <= Len(q)
    BY <1>1, <1>2, <2>1
  <2>2. CASE ~(i <= Len(q))
    <3>1. i - Len(q) \in 1..Len(p) /\ (q \o p)[i] = p[i - Len(q)]
      BY <1>1, <2>2
    <3> QED
      BY <1>2, <3>1
  <2> QED
    BY <2>1, <2>2
<1>4. \A i \in 1..Len(q) : q[i] \in ToSet(q \o p)
  <2> TAKE i \in 1..Len(q)
  <2>1. i \in 1..(Len(q) + Len(p)) /\ (q \o p)[i] = q[i]
    BY <1>1
  <2> QED
    BY <1>1, <1>2, <2>1
<1>5. \A i \in 1..Len(p) : p[i] \in ToSet(q \o p)
  <2> TAKE i \in 1..Len(p)
  <2>1. i + Len(q) \in 1..(Len(q) + Len(p)) /\ (q \o p)[i + Len(q)] = p[i]
    BY <1>1
  <2> QED
    BY <1>1, <1>2, <2>1
<1> QED
  BY <1>1, <1>2, <1>3, <1>4, <1>5

\* One packet goes behind the others.
LEMMA WriteOne ==
  ASSUME NEW S, NEW q \in Seq(S), NEW p \in S
  PROVE  /\ q \o <<p>> \in Seq(S) /\ q \o <<p>> = Append(q, p)
         /\ Len(q) \in Nat /\ Len(q \o <<p>>) = Len(q) + 1
         /\ \A i \in 1..Len(q) : (q \o <<p>>)[i] = q[i]
         /\ (q \o <<p>>)[Len(q) + 1] = p
         /\ ToSet(q \o <<p>>) = ToSet(q) \union {p}
<1>1. q \o <<p>> = Append(q, p)
  BY AppendIsConcat
<1>2. <<p>> \in Seq(S) /\ Len(<<p>>) = 1 /\ <<p>>[1] = p
  OBVIOUS
<1>3. ToSet(<<p>>) = {<<p>>[i] : i \in 1..1}
  BY <1>2, Elements
<1>4. ToSet(<<p>>) = {p}
  BY <1>2, <1>3
<1>5. ToSet(q \o <<p>>) = ToSet(q) \union {p}
  <2> DEFINE one == <<p>>
  <2>1. one \in Seq(S) /\ ToSet(one) = {p}
    BY <1>2, <1>4
  <2> HIDE DEF one
  <2>2. ToSet(q \o one) = ToSet(q) \union {p}
    BY <2>1, WriteElements
  <2> QED
    BY <2>2 DEF one
<1>6. Len(q) \in Nat
  BY LenProperties
<1> QED
  BY <1>1, <1>5, <1>6, AppendProperties

\* The ACKs for a batch.
LEMMA AcksForBatch ==
  ASSUME NEW batch \in Seq(Packets), NEW type
  PROVE  AckEach(batch, type) \in Seq(Packets) /\ ToSet(AckEach(batch, type)) \subseteq {Ack}
<1> DEFINE I == {i \in 1..Len(batch) : batch[i].type = type}
           k == Cardinality(I)
<1>1. k \in Nat
  <2>1. Len(batch) \in Int /\ 1 \in Int
    BY LenProperties
  <2>2. IsFiniteSet(1..Len(batch))
    BY <2>1, FS_Interval
  <2>3. I \in SUBSET (1..Len(batch))
    OBVIOUS
  <2>4. IsFiniteSet(I)
    BY <2>2, <2>3, FS_Subset
  <2> QED
    BY <2>4, FS_CardinalityType
<1>2. AckEach(batch, type) = [n \in 1..k |-> Ack]
  BY DEF AckEach
<1> HIDE DEF k
<1>3. AckEach(batch, type) \in [1..k -> Packets]
  BY <1>2, PacketsWritten
<1>4. AckEach(batch, type) \in Seq(Packets)
  BY <1>1, <1>3, SeqDef
<1>5. ToSet(AckEach(batch, type)) \subseteq {Ack}
  BY <1>2 DEF ToSet
<1> QED
  BY <1>4, <1>5

-----------------------------------------------------------------------------
(* Who changes what *)

BackupStep(b) == KillBackup(b) \/ setup_socket(b) \/ BackupThread(b)
PrimaryStep(b) == Accept(b) \/ PrimaryThread(b)

WorldStep ==
  \/ ClientConnects \/ KillPrimary \/ UNCHANGED vars
  \/ \E p \in Backups \union {Primary} : set_termination_signal(p)

\* Packets written by the primary's thread.
LEMMA PrimaryWritesPackets ==
  ASSUME TypeOK, NEW b \in Backups, NEW packets \in Seq(Packets), PrimaryWrites(b, packets)
  PROVE  /\ toBackup' \in [Backups -> Seq(Packets)]
         /\ \A c \in Backups \ {b} : toBackup'[c] = toBackup[c]
         /\ toBackup'[b] = IF BackupOpen(b) THEN toBackup[b] \o packets ELSE toBackup[b]
<1>1. toBackup \in [Backups -> Seq(Packets)] /\ toBackup[b] \o packets \in Seq(Packets)
  BY WriteElements DEF TypeOK
<1> QED
  BY <1>1 DEF PrimaryWrites

\* Packets written by a backup.
LEMMA BackupWritesPackets ==
  ASSUME TypeOK, NEW b \in Backups, NEW packets \in Seq(Packets), BackupWrites(b, packets)
  PROVE  /\ toPrimary' \in [Backups -> Seq(Packets)]
         /\ \A c \in Backups \ {b} : toPrimary'[c] = toPrimary[c]
         /\ toPrimary'[b] = IF PrimaryOpen(b) THEN toPrimary[b] \o packets ELSE toPrimary[b]
<1>1. toPrimary \in [Backups -> Seq(Packets)] /\ toPrimary[b] \o packets \in Seq(Packets)
  BY WriteElements DEF TypeOK
<1> QED
  BY <1>1 DEF BackupWrites

\* A thread of the primary changes what it keeps for its own backup.
LEMMA PrimaryFrame ==
  ASSUME TypeOK, NEW b \in Backups, PrimaryStep(b)
  PROVE  /\ UNCHANGED <<world, backupThread>> /\ up
         /\ \E pc : ppc' = [ppc EXCEPT ![b] = pc] /\ pc # "none" /\ ppc[b] # "done"
         /\ \A c \in Backups \ {b} :
              /\ ppc'[c] = ppc[c] /\ current_server_id'[c] = current_server_id[c]
              /\ visited'[c] = visited[c] /\ primaryTries'[c] = primaryTries[c]
              /\ toPrimary'[c] = toPrimary[c] /\ toBackup'[c] = toBackup[c]
<1> USE DEF TypeOK, Goto, tables, world, backupThread, primaryThread, links, PrimaryWrites
<1>1. CASE Accept(b)
  BY <1>1 DEF Accept
<1>2. CASE receive_CONNECT_SERVER(b)
  BY <1>2 DEF receive_CONNECT_SERVER
<1>3. CASE LoadCount(b) \/ CountBackup(b) \/ TakeId(b) \/ AddServer(b)
  BY <1>3 DEF LoadCount, CountBackup, TakeId, AddServer
<1>4. CASE send_SET_ID(b) \/ SetIdAcked(b) \/ SetIdUnanswered(b)
  BY <1>4 DEF send_SET_ID, SetIdAcked, SetIdUnanswered
<1>5. CASE ClearPayload(b) \/ Serialize(b) \/ create_packet(b) \/ EndOfTable(b)
  BY <1>5 DEF ClearPayload, Serialize, create_packet, EndOfTable
<1>6. CASE RecvFromBackup(b) \/ RecvNothing(b)
  BY <1>6 DEF RecvFromBackup, RecvNothing
<1>7. CASE send_UPDATE(b)
  BY <1>7 DEF send_UPDATE
<1> QED
  BY <1>1, <1>2, <1>3, <1>4, <1>5, <1>6, <1>7 DEF PrimaryStep, PrimaryThread

\* A backup's thread changes what belongs to itself.
LEMMA BackupFrame ==
  ASSUME TypeOK, NEW b \in Backups, BackupStep(b)
  PROVE  /\ UNCHANGED <<world, tables, primaryThread>>
         /\ bpc[b] \notin Over
         /\ \A c \in Backups \ {b} :
              /\ bpc'[c] = bpc[c] /\ my_backup_id'[c] = my_backup_id[c]
              /\ backupTries'[c] = backupTries[c] /\ known'[c] = known[c]
              /\ toPrimary'[c] = toPrimary[c] /\ toBackup'[c] = toBackup[c]
<1> USE DEF TypeOK, tables, world, backupThread, primaryThread, links, BackupWrites, Over
<1>1. CASE KillBackup(b) \/ setup_socket(b) \/ send_CONNECT_SERVER(b)
  BY <1>1 DEF KillBackup, setup_socket, send_CONNECT_SERVER
<1>2. CASE ConnectAcked(b) \/ ConnectUnanswered(b) \/ receive_SET_ID(b) \/ FirstPing(b)
  BY <1>2 DEF ConnectAcked, ConnectUnanswered, receive_SET_ID, FirstPing
<1>3. CASE CrashOnUpdate(b) \/ send_ping_to_primary(b) \/ LeaveLoop(b)
  BY <1>3 DEF CrashOnUpdate, send_ping_to_primary, LeaveLoop
<1>4. CASE RecvFromPrimary(b)
  BY <1>4 DEF RecvFromPrimary
<1> QED
  BY <1>1, <1>2, <1>3, <1>4 DEF BackupStep, BackupThread

-----------------------------------------------------------------------------
(* Types *)

\* Ids are numbers up to the number of backups.
LEMMA IdNumbers ==
  /\ Cardinality(Backups) \in Nat
  /\ Ids \subseteq Nat \ {0}
  /\ UNDEFINED_ID \notin Ids \union {0}
BY ReplicationAssumption, FS_CardinalityType DEF Ids, UNDEFINED_ID

\* No more backups are counted than there are.
LEMMA PassedCount ==
  /\ IsFiniteSet(Passed) /\ Cardinality(Passed) \in Nat
  /\ Cardinality(Passed) <= Cardinality(Backups)
BY ReplicationAssumption, FS_Subset, FS_CardinalityType DEF Passed

\* What a new update brings is in the primary's table or a row, and cut only if
\* another text is shorter, unless it brings the backup down.
LEMMA NewsIsTrue ==
  ASSUME TypeOK, TruthInv, NEW b \in Backups, NEW batch \in Batches(toBackup[b]),
         ~Fails(b, batch), NEW p \in New(b, batch)
  PROVE  /\ Received(p) \in [text : Texts, whole : BOOLEAN]
         /\ Received(p).text \in Written
         /\ ~Received(p).whole => \E y \in Written : Size[y] + 1 < Size[Received(p).text]
<1>1. batch \in Seq(Packets) /\ ToSet(batch) \subseteq ToSet(toBackup[b])
  BY BatchIsPrefix, BatchElements DEF TypeOK
<1>2. PICK k \in 1..Len(batch) : p = batch[k] /\ p.type = "UPDATE_BACKUP"
  BY DEF New
<1>3. p \in ToSet(toBackup[b]) /\ p \in Packets
  BY <1>1, <1>2, Elements, ElementOfSeq
<1>4. p \in [type : UpdateTypes, length : Nat, text : Texts]
  BY <1>2, <1>3 DEF Packets, Ack, Heartbeat
<1>5. p.text # Blank /\ ~(p.length <= Fields[p.text])
  BY <1>2 DEF Fails
<1>6. p.text \in Written /\ p.length \in Lengths
  BY <1>2, <1>3, <1>5 DEF TruthInv
<1>7. Received(p).text = p.text /\ Received(p).whole = (Size[p.text] <= p.length)
  BY DEF Received
<1>8. ASSUME ~(Size[p.text] <= p.length)
      PROVE  \E y \in Written : Size[y] + 1 < Size[p.text]
  <2>1. PICK y \in Written \union {Blank} : p.length = strlen(y)
    BY <1>6 DEF Lengths
  <2>2. y \in Texts
    BY <2>1 DEF Written, Texts, TypeOK
  <2>3. p.length # 0
    BY <1>4, <1>5, TextLengths
  <2>4. y # Blank /\ p.length = Size[y] + 1 /\ Size[y] \in Nat
    BY <2>1, <2>2, <2>3, TextLengths
  <2>5. Size[y] + 1 < Size[p.text]
    BY <1>4, <1>8, <2>4, TextLengths
  <2> QED
    BY <2>1, <2>4, <2>5
<1>9. Received(p) \in [text : Texts, whole : BOOLEAN]
  BY <1>4 DEF Received
<1> QED
  BY <1>6, <1>7, <1>8, <1>9

\* What is in the channels of a handshake.
LEMMA HandshakePackets ==
  ASSUME TypeOK, NEW b \in Backups, HandshakeInv(b)
  PROVE  /\ ppc[b] = "connect" =>
              \A batch \in Batches(toPrimary[b]) : batch[Len(batch)].id = UNDEFINED_ID
         /\ bpc[b] = "id" =>
              \A batch \in Batches(toBackup[b]) : batch[Len(batch)].id = current_server_id[b]
<1>1. ASSUME ppc[b] = "connect", NEW batch \in Batches(toPrimary[b])
      PROVE  batch[Len(batch)].id = UNDEFINED_ID
  <2>1. batch[Len(batch)] \in ToSet(toPrimary[b])
    BY BatchElements DEF TypeOK
  <2> QED
    BY <1>1, <2>1 DEF HandshakeInv, IdPacket
<1>2. ASSUME bpc[b] = "id", NEW batch \in Batches(toBackup[b])
      PROVE  batch[Len(batch)].id = current_server_id[b]
  <2>1. /\ Len(batch) \in 1..Len(toBackup[b]) /\ Len(toBackup[b]) \in Nat
        /\ batch[Len(batch)] = toBackup[b][Len(batch)]
    BY BatchIsPrefix, LenProperties DEF TypeOK
  <2> QED
    BY <1>2, <2>1 DEF HandshakeInv, SetId, IdPacket
<1> QED
  BY <1>1, <1>2

\* The steps of the world.
LEMMA WorldTypeOK == TypeOK /\ WorldStep => TypeOK'
BY DEF TypeOK, WorldStep, ClientConnects, KillPrimary, set_termination_signal, vars, tables, world,
       primaryThread, backupThread, links

\* The steps of a backup.
LEMMA BackupTypeOK ==
  ASSUME IInv, NEW b \in Backups, BackupStep(b)
  PROVE  TypeOK'
<1> USE ReplicationAssumption DEF tables, world, backupThread, primaryThread, links, Over
<1>1. TypeOK /\ backupTries[b] \in 0..MAX_TRIES + 1
  BY DEF IInv, TypeOK
<1>2. bpc[b] \in {"start", "connected", "await", "id", "ping", "loop"} => OneMore(backupTries[b]) \in 0..(MAX_TRIES + 1)
  BY <1>1 DEF IInv, TriesInv, OneMore
<1>3. CASE KillBackup(b) \/ setup_socket(b) \/ LeaveLoop(b)
  BY <1>1, <1>3 DEF KillBackup, setup_socket, LeaveLoop, TypeOK
<1>4. CASE send_CONNECT_SERVER(b)
  <2>1. <<IdPacket("CONNECT_SERVER", my_backup_id[b])>> \in Seq(Packets)
    BY <1>1, PacketsWritten DEF TypeOK
  <2>2. toPrimary' \in [Backups -> Seq(Packets)]
    BY <1>1, <1>4, <2>1, BackupWritesPackets DEF send_CONNECT_SERVER
  <2> QED
    BY <1>1, <1>4, <2>2 DEF send_CONNECT_SERVER, TypeOK
<1>5. CASE ConnectAcked(b) \/ CrashOnUpdate(b)
  <2>1. PICK batch \in Batches(toBackup[b]) : toBackup' = [toBackup EXCEPT ![b] = After(@, batch)]
    BY <1>5 DEF ConnectAcked, CrashOnUpdate
  <2>2. toBackup' \in [Backups -> Seq(Packets)]
    BY <1>1, <2>1, BatchIsPrefix DEF TypeOK
  <2>3. UNCHANGED <<my_backup_id, updated, known, toPrimary>>
    BY <1>5 DEF ConnectAcked, CrashOnUpdate
  <2>4. bpc' \in [Backups -> {"start", "connected", "await", "id", "ping", "loop"} \union Over]
    BY <1>1, <1>5 DEF ConnectAcked, CrashOnUpdate, TypeOK
  <2>5. backupTries' \in [Backups -> 0..(MAX_TRIES + 1)]
    <3>1. backupTries' = [backupTries EXCEPT ![b] = 0] \/ UNCHANGED backupTries
      BY <1>5 DEF ConnectAcked, CrashOnUpdate
    <3>2. 0 \in 0..(MAX_TRIES + 1)
      OBVIOUS
    <3> QED
      BY <1>1, <3>1, <3>2 DEF TypeOK
  <2>6. UNCHANGED <<tables, world, primaryThread>>
    BY <1>5 DEF ConnectAcked, CrashOnUpdate
  <2> QED
    BY <1>1, <2>2, <2>3, <2>4, <2>5, <2>6 DEF TypeOK
<1>6. CASE ConnectUnanswered(b)
  BY <1>1, <1>2, <1>6 DEF ConnectUnanswered, TypeOK
<1>7. CASE receive_SET_ID(b)
  <2>1. PICK batch \in Batches(toBackup[b]) :
          /\ my_backup_id' = [my_backup_id EXCEPT ![b] = batch[Len(batch)].id]
          /\ toBackup' = [toBackup EXCEPT ![b] = After(@, batch)]
    BY <1>7 DEF receive_SET_ID
  <2>2. toBackup' \in [Backups -> Seq(Packets)]
    BY <1>1, <2>1, BatchIsPrefix DEF TypeOK
  <2>3. <<Ack>> \in Seq(Packets)
    BY PacketsWritten
  <2>4. toPrimary' \in [Backups -> Seq(Packets)]
    BY <1>1, <1>7, <2>3, BackupWritesPackets DEF receive_SET_ID
  <2>5. toBackup[b] # <<>> /\ ppc[b] \notin Early
    BY <1>1, <1>7, <2>1, BatchElements DEF receive_SET_ID, IInv, HandshakeInv, TypeOK
  <2>6. batch[Len(batch)].id \in Ids
    BY <1>1, <1>7, <2>1, <2>5, HandshakePackets DEF receive_SET_ID, IInv, CountInv, Early
  <2> QED
    BY <1>1, <1>7, <2>1, <2>2, <2>4, <2>6 DEF receive_SET_ID, TypeOK
<1>8. CASE FirstPing(b) \/ send_ping_to_primary(b)
  <2>1. <<Heartbeat>> \in Seq(Packets)
    BY PacketsWritten
  <2>2. toPrimary' \in [Backups -> Seq(Packets)]
    BY <1>1, <1>8, <2>1, BackupWritesPackets DEF FirstPing, send_ping_to_primary
  <2>3. CASE FirstPing(b)
    BY <1>1, <2>2, <2>3 DEF FirstPing, TypeOK
  <2>4. CASE send_ping_to_primary(b)
    <3>1. BackupLoopEnd(b, OneMore(backupTries[b])) \in {"done", "loop"}
      BY DEF BackupLoopEnd
    <3> QED
      BY <1>1, <1>2, <2>2, <2>4, <3>1 DEF send_ping_to_primary, TypeOK
  <2> QED
    BY <1>8, <2>3, <2>4
<1>9. CASE RecvFromPrimary(b)
  <2>1. PICK batch \in Batches(toBackup[b]), tries \in {0, backupTries[b]} :
          /\ ~Fails(b, batch)
          /\ toBackup' = [toBackup EXCEPT ![b] = After(@, batch)]
          /\ BackupWrites(b, AckEach(batch, "UPDATE_BACKUP"))
          /\ known' = [known EXCEPT ![b] = @ \union {Received(p) : p \in New(b, batch)}]
          /\ updated' = [updated EXCEPT ![b] = @ \/ Has(batch, "UPDATE_BACKUP")]
          /\ backupTries' = [backupTries EXCEPT ![b] = tries]
          /\ bpc' = [bpc EXCEPT ![b] = BackupLoopEnd(b, tries)]
    BY <1>9 DEF RecvFromPrimary
  <2>2. toBackup' \in [Backups -> Seq(Packets)] /\ batch \in Seq(Packets)
    BY <1>1, <2>1, BatchIsPrefix DEF TypeOK
  <2>3. toPrimary' \in [Backups -> Seq(Packets)]
    BY <1>1, <2>1, <2>2, AcksForBatch, BackupWritesPackets
  <2>4. {Received(p) : p \in New(b, batch)} \subseteq [text : Texts, whole : BOOLEAN]
    BY <1>1, <2>1, NewsIsTrue DEF IInv
  <2>5. known' \in [Backups -> SUBSET [text : Texts, whole : BOOLEAN]]
    BY <1>1, <2>1, <2>4 DEF TypeOK
  <2>6. Has(batch, "UPDATE_BACKUP") \in BOOLEAN
    BY DEF Has
  <2>7. updated' \in [Backups -> BOOLEAN]
    BY <1>1, <2>1, <2>6 DEF TypeOK
  <2>8. backupTries' \in [Backups -> 0..(MAX_TRIES + 1)]
    <3>1. backupTries \in [Backups -> 0..(MAX_TRIES + 1)] /\ tries \in 0..(MAX_TRIES + 1)
      BY <1>1 DEF TypeOK
    <3> QED
      BY <2>1, <3>1
  <2>9. bpc' \in [Backups -> {"start", "connected", "await", "id", "ping", "loop"} \union Over]
    <3>1. BackupLoopEnd(b, tries) \in {"done", "loop"}
      BY DEF BackupLoopEnd
    <3> QED
      BY <1>1, <2>1, <3>1 DEF TypeOK
  <2>10. UNCHANGED <<my_backup_id, tables, world, primaryThread>>
    BY <1>9 DEF RecvFromPrimary
  <2> QED
    BY <1>1, <2>2, <2>3, <2>5, <2>7, <2>8, <2>9, <2>10 DEF TypeOK
<1> QED
  BY <1>3, <1>4, <1>5, <1>6, <1>7, <1>8, <1>9 DEF BackupStep, BackupThread

\* A backup that is counted was not counted before.
LEMMA OneMorePassed ==
  ASSUME TypeOK, NEW b \in Backups, ppc[b] = "count", ppc' = [ppc EXCEPT ![b] = "take"]
  PROVE  /\ b \in Passed' /\ Cardinality(Passed') = Cardinality(Passed) + 1
         /\ Cardinality(Passed) + 1 <= Cardinality(Backups)
<1>1. Passed' = Passed \union {b} /\ b \notin Passed
  BY DEF Passed, Unnumbered, TypeOK
<1>2. Cardinality(Passed') = Cardinality(Passed) + 1
  BY <1>1, PassedCount, FS_AddElement
<1>3. Passed \union {b} \in SUBSET Backups
  BY DEF Passed
<1>4. Cardinality(Passed \union {b}) <= Cardinality(Backups)
  BY <1>3, ReplicationAssumption, FS_Subset
<1> QED
  BY <1>1, <1>2, <1>4

\* The front of the FIFO of a thread that sends from it is a struct's.
LEMMA FrontOfFifo ==
  ASSUME IInv, NEW b \in Backups, ppc[b] \in Serving
  PROVE  LET fifo == packet_to_send_table[current_server_id[b]]
         IN  /\ current_server_id[b] \in Ids
             /\ fifo \in Seq(Entries) /\ fifo # <<>>
             /\ fifo[1] \in Entries /\ fifo[1] \in ToSet(fifo) /\ fifo[1].type = "UPDATE_BACKUP"
<1> DEFINE fifo == packet_to_send_table[current_server_id[b]]
<1>1. current_server_id[b] \in Ids
  BY DEF IInv, CountInv, Unnumbered, Serving
<1>2. fifo \in Seq(Entries) /\ fifo # <<>> /\ fifo[1].type = "UPDATE_BACKUP"
  BY <1>1 DEF IInv, TypeOK, QueueInv, Entries
<1> HIDE DEF fifo
<1>3. 1 \in 1..Len(fifo)
  BY <1>2, EmptySeq, LenProperties
<1>4. fifo[1] \in Entries /\ fifo[1] \in ToSet(fifo)
  BY <1>2, <1>3, Elements, ElementOfSeq
<1> QED
  BY <1>1, <1>2, <1>4 DEF fifo

\* The steps of a thread of the primary.
LEMMA PrimaryTypeOK ==
  ASSUME IInv, NEW b \in Backups, PrimaryStep(b)
  PROVE  TypeOK'
<1> USE ReplicationAssumption DEF tables, world, backupThread, primaryThread, links, Goto
<1>1. TypeOK /\ primaryTries[b] \in 0..MAX_TRIES + 1
  BY DEF IInv, TypeOK
<1>2. ppc[b] # "done" => primaryTries[b] + 1 \in 0..(MAX_TRIES + 1)
  BY <1>1 DEF IInv, TriesInv
<1>3. CASE Accept(b) \/ AddServer(b)
  <2>1. CASE Accept(b)
    BY <1>1, <2>1 DEF Accept, TypeOK
  <2>2. CASE AddServer(b)
    <3>1. current_server_id[b] \in Ids
      BY <2>2 DEF AddServer, IInv, CountInv, Unnumbered
    <3>2. Insert(servers_table, Struct(current_server_id[b], b)) \subseteq Structs
      BY <1>1, <3>1 DEF Insert, Struct, Structs, TypeOK
    <3> QED
      BY <1>1, <2>2, <3>2 DEF AddServer, TypeOK
  <2> QED
    BY <1>3, <2>1, <2>2
<1>4. CASE receive_CONNECT_SERVER(b)
  <2>1. PICK batch \in Batches(toPrimary[b]) :
          /\ ppc' = [ppc EXCEPT ![b] = IF batch[Len(batch)].id = UNDEFINED_ID THEN "load" ELSE "table"]
          /\ current_server_id' = [current_server_id EXCEPT ![b] = batch[Len(batch)].id]
          /\ toPrimary' = [toPrimary EXCEPT ![b] = After(@, batch)]
    BY <1>4 DEF receive_CONNECT_SERVER
  <2>2. ppc[b] = "connect" /\ batch[Len(batch)].id = UNDEFINED_ID
    BY <1>1, <1>4, HandshakePackets DEF receive_CONNECT_SERVER, IInv
  <2>3. toPrimary' \in [Backups -> Seq(Packets)]
    BY <1>1, <2>1, BatchIsPrefix DEF TypeOK
  <2>4. <<Ack>> \in Seq(Packets)
    BY PacketsWritten
  <2>5. toBackup' \in [Backups -> Seq(Packets)]
    BY <1>1, <1>4, <2>4, PrimaryWritesPackets DEF receive_CONNECT_SERVER
  <2> QED
    BY <1>1, <1>4, <2>1, <2>2, <2>3, <2>5 DEF receive_CONNECT_SERVER, TypeOK
<1>5. CASE LoadCount(b) \/ CountBackup(b) \/ TakeId(b)
  <2>1. num_backup_servers \in Ids \union {0}
    BY <1>1, IdNumbers DEF TypeOK, Ids
  <2>2. CASE LoadCount(b)
    BY <1>1, <2>1, <2>2 DEF LoadCount, TypeOK
  <2>3. CASE TakeId(b)
    BY <1>1, <2>1, <2>3 DEF TakeId, TypeOK
  <2>4. CASE CountBackup(b)
    <3>1. current_server_id[b] \in 0..Cardinality(Passed) /\ Cardinality(Passed) + 1 <= Cardinality(Backups)
      BY <1>1, <2>4, OneMorePassed DEF CountBackup, IInv, CountInv
    <3>2. current_server_id[b] + 1 \in 0..Cardinality(Backups)
      BY <3>1, PassedCount, IdNumbers
    <3> QED
      BY <1>1, <2>4, <3>2 DEF CountBackup, TypeOK
  <2> QED
    BY <1>5, <2>2, <2>3, <2>4
<1>6. CASE send_SET_ID(b) \/ SetIdUnanswered(b)
  <2>1. <<SetId(b)>> \in Seq(Packets)
    BY <1>1, PacketsWritten DEF TypeOK, SetId
  <2>2. toBackup' \in [Backups -> Seq(Packets)]
    BY <1>1, <1>6, <2>1, PrimaryWritesPackets DEF send_SET_ID, SetIdUnanswered
  <2>3. CASE send_SET_ID(b)
    BY <1>1, <2>2, <2>3 DEF send_SET_ID, TypeOK
  <2>4. CASE SetIdUnanswered(b)
    BY <1>1, <1>2, <2>2, <2>4 DEF SetIdUnanswered, TypeOK
  <2> QED
    BY <1>6, <2>3, <2>4
<1>7. CASE SetIdAcked(b)
  <2>1. toPrimary' \in [Backups -> Seq(Packets)]
    <3>1. PICK batch \in Batches(toPrimary[b]) : toPrimary' = [toPrimary EXCEPT ![b] = After(@, batch)]
      BY <1>7 DEF SetIdAcked
    <3> QED
      BY <1>1, <3>1, BatchIsPrefix DEF TypeOK
  <2>2. primaryTries' \in [Backups -> 0..(MAX_TRIES + 1)]
    <3>1. primaryTries \in [Backups -> 0..(MAX_TRIES + 1)] /\ 0 \in 0..(MAX_TRIES + 1)
      BY <1>1 DEF TypeOK
    <3> QED
      BY <1>7, <3>1 DEF SetIdAcked
  <2>3. /\ ppc' = [ppc EXCEPT ![b] = "cold"]
        /\ UNCHANGED <<current_server_id, visited, toBackup, tables, world, backupThread>>
    BY <1>7 DEF SetIdAcked
  <2> QED
    BY <1>1, <2>1, <2>2, <2>3 DEF TypeOK
<1>8. CASE ClearPayload(b) \/ EndOfTable(b) \/ RecvNothing(b)
  <2>1. CASE ClearPayload(b)
    <3>1. Blank \in Texts
      BY DEF Texts
    <3>2. \A x \in servers_table : x.id \in Ids
      BY <1>1 DEF TypeOK, Structs
    <3>3. visited' \in [Backups -> Ids \union {0}]
      <4>1. \/ visited' = visited
            \/ \E x \in servers_table : visited' = [visited EXCEPT ![b] = x.id]
        BY <2>1 DEF ClearPayload, ToVisit
      <4> QED
        BY <1>1, <3>2, <4>1 DEF TypeOK
    <3>4. \E pc \in {"struct", "row"} : ppc' = [ppc EXCEPT ![b] = pc]
      BY <2>1 DEF ClearPayload
    <3> QED
      BY <1>1, <2>1, <3>1, <3>3, <3>4 DEF ClearPayload, TypeOK
  <2>2. CASE EndOfTable(b) \/ RecvNothing(b)
    BY <1>1, <2>2 DEF EndOfTable, RecvNothing, TypeOK
  <2> QED
    BY <1>8, <2>1, <2>2
<1>9. CASE Serialize(b) \/ create_packet(b)
  <2>1. CASE Serialize(b)
    <3>1. payload' \in Texts
      BY <1>1, <2>1 DEF Serialize, serialize_server_struct, TypeOK, Texts
    <3>2. \E pc \in {"structPacket", "rowPacket"} : ppc' = [ppc EXCEPT ![b] = pc]
      BY <2>1 DEF Serialize
    <3> QED
      BY <1>1, <2>1, <3>1, <3>2 DEF Serialize, TypeOK
  <2>2. CASE create_packet(b)
    <3>1. PICK type \in UpdateTypes : Push(b, type)
      BY <2>2 DEF create_packet, UpdateTypes
    <3>2. Queued(type, strlen(payload)) \in Entries
      BY <1>1, TextLengths DEF Queued, Entries, TypeOK
    <3>3. \A id \in Ids : Append(packet_to_send_table[id], Queued(type, strlen(payload))) \in Seq(Entries)
      BY <1>1, <3>2, AppendProperties DEF TypeOK, Entries
    <3>4. packet_to_send_table' \in [Ids -> Seq(Entries)]
      BY <1>1, <3>1, <3>3 DEF Push, TypeOK, Entries
    <3>5. \E pc \in {"cold", "recv"} : ppc' = [ppc EXCEPT ![b] = pc]
      BY <2>2 DEF create_packet
    <3> QED
      BY <1>1, <2>2, <3>4, <3>5 DEF create_packet, TypeOK, Entries
  <2> QED
    BY <1>9, <2>1, <2>2
<1>10. CASE RecvFromBackup(b)
  <2>1. PICK batch \in Batches(toPrimary[b]) :
          /\ toPrimary' = [toPrimary EXCEPT ![b] = After(@, batch)]
          /\ PrimaryWrites(b, AckEach(batch, "HEARTBEAT"))
    BY <1>10 DEF RecvFromBackup
  <2>2. toPrimary' \in [Backups -> Seq(Packets)] /\ batch \in Seq(Packets)
    BY <1>1, <2>1, BatchIsPrefix DEF TypeOK
  <2>3. toBackup' \in [Backups -> Seq(Packets)]
    BY <1>1, <2>1, <2>2, AcksForBatch, PrimaryWritesPackets
  <2>4. packet_to_send_table' = packet_to_send_table
    BY <1>1, <1>10 DEF RecvFromBackup, Popped, TypeOK
  <2>5. primaryTries' \in [Backups -> 0..(MAX_TRIES + 1)]
    <3>1. primaryTries \in [Backups -> 0..(MAX_TRIES + 1)] /\ 0 \in 0..(MAX_TRIES + 1)
      BY <1>1 DEF TypeOK
    <3>2. primaryTries' = primaryTries \/ primaryTries' = [primaryTries EXCEPT ![b] = 0]
      BY <1>10 DEF RecvFromBackup
    <3> QED
      BY <3>1, <3>2
  <2> QED
    BY <1>1, <1>10, <2>2, <2>3, <2>4, <2>5 DEF RecvFromBackup, TypeOK
<1>11. CASE send_UPDATE(b)
  <2> DEFINE fifo == packet_to_send_table[current_server_id[b]]
             sent == IF fifo = <<>> THEN <<>> ELSE <<Update(fifo[1], payload)>>
             tries == TriesAfterSend(b, fifo)
  <2>1. fifo # <<>> /\ fifo[1] \in Entries
    BY <1>11, FrontOfFifo DEF send_UPDATE, IInv, Serving
  <2>2. sent = <<Update(fifo[1], payload)>> /\ sent \in Seq(Packets)
    <3>1. Update(fifo[1], payload) \in Packets
      BY <1>1, <2>1, PacketsWritten DEF TypeOK
    <3> QED
      BY <2>1, <3>1
  <2>3. tries \in 0..(MAX_TRIES + 1)
    BY <1>1, <1>2, <1>11, <2>1 DEF send_UPDATE, TriesAfterSend
  <2>4. /\ PrimaryWrites(b, sent)
        /\ primaryTries' = [primaryTries EXCEPT ![b] = tries]
        /\ \E pc \in {"done", "recv"} : ppc' = [ppc EXCEPT ![b] = pc]
        /\ UNCHANGED <<current_server_id, visited, toPrimary, tables, world, backupThread>>
    BY <1>11 DEF send_UPDATE
  <2> HIDE DEF sent, tries, fifo
  <2>5. toBackup' \in [Backups -> Seq(Packets)]
    BY <1>1, <2>2, <2>4, PrimaryWritesPackets
  <2> QED
    BY <1>1, <2>3, <2>4, <2>5 DEF TypeOK
<1> QED
  BY <1>3, <1>4, <1>5, <1>6, <1>7, <1>8, <1>9, <1>10, <1>11 DEF PrimaryStep, PrimaryThread

-----------------------------------------------------------------------------
(* Counting backups and tries *)

\* Later steps of a thread that has its id, and steps before it counts.
LEMMA CountStays ==
  ASSUME IInv, NEW b \in Backups, NEW pc, ppc' = [ppc EXCEPT ![b] = pc],
         num_backup_servers' = num_backup_servers,
         \A c \in Backups \ {b} : current_server_id'[c] = current_server_id[c],
         \/ /\ ppc[b] \in Unnumbered /\ pc \in Unnumbered
            /\ pc = "count" => current_server_id'[b] \in 0..Cardinality(Passed)
         \/ /\ ppc[b] \notin Unnumbered /\ pc \notin Unnumbered
            /\ pc # "take" => current_server_id'[b] \in Ids
  PROVE  CountInv'
<1>1. TypeOK /\ CountInv
  BY DEF IInv
<1>2. Passed' = Passed
  BY <1>1 DEF Passed, TypeOK
<1>3. ppc'[b] = pc /\ \A c \in Backups \ {b} : ppc'[c] = ppc[c]
  BY <1>1 DEF TypeOK
<1>4. \A c \in Backups :
        /\ ppc'[c] = "count" => current_server_id'[c] \in 0..Cardinality(Passed)
        /\ ppc'[c] \notin Unnumbered \union {"take"} => current_server_id'[c] \in Ids
  BY <1>1, <1>3 DEF CountInv, Unnumbered
<1> QED
  BY <1>1, <1>2, <1>4 DEF CountInv

\* The steps of a thread of the primary.
LEMMA PrimaryCountInv ==
  ASSUME IInv, NEW b \in Backups, PrimaryStep(b)
  PROVE  CountInv'
<1> USE IdNumbers, PassedCount DEF tables, world, backupThread, primaryThread, links, Goto
<1>1. TypeOK /\ CountInv /\ HandshakeInv(b)
  BY DEF IInv
<1>2. CASE Accept(b)
  BY <1>2, CountStays DEF Accept, Unnumbered
<1>3. CASE receive_CONNECT_SERVER(b)
  <2>1. ppc[b] = "connect" /\ ppc' = [ppc EXCEPT ![b] = "load"]
    BY <1>1, <1>3, HandshakePackets DEF receive_CONNECT_SERVER
  <2>2. /\ num_backup_servers' = num_backup_servers
        /\ \A c \in Backups \ {b} : current_server_id'[c] = current_server_id[c]
    BY <1>1, <1>3 DEF receive_CONNECT_SERVER, TypeOK
  <2> QED
    BY <2>1, <2>2, CountStays DEF Unnumbered
<1>4. CASE LoadCount(b)
  <2>1. num_backup_servers \in 0..Cardinality(Passed)
    BY <1>1 DEF CountInv, TypeOK
  <2>2. /\ ppc[b] = "load" /\ ppc' = [ppc EXCEPT ![b] = "count"]
        /\ num_backup_servers' = num_backup_servers
        /\ current_server_id'[b] = num_backup_servers
        /\ \A c \in Backups \ {b} : current_server_id'[c] = current_server_id[c]
    BY <1>1, <1>4 DEF LoadCount, TypeOK
  <2> QED
    BY <2>1, <2>2, CountStays DEF Unnumbered
<1>5. CASE CountBackup(b)
  <2>1. /\ ppc[b] = "count" /\ ppc' = [ppc EXCEPT ![b] = "take"]
        /\ num_backup_servers' = current_server_id[b] + 1
        /\ current_server_id' = current_server_id
    BY <1>5 DEF CountBackup
  <2>2. b \in Passed' /\ Cardinality(Passed') = Cardinality(Passed) + 1
    BY <1>1, <2>1, OneMorePassed
  <2>3. current_server_id[b] \in 0..Cardinality(Passed)
    BY <1>1, <2>1 DEF CountInv
  <2>4. num_backup_servers' <= Cardinality(Passed') /\ num_backup_servers' > 0
    BY <2>1, <2>2, <2>3
  <2>5. \A c \in Backups :
          /\ ppc'[c] = "count" => ppc[c] = "count"
          /\ ppc'[c] \notin Unnumbered \union {"take"} => ppc[c] \notin Unnumbered \union {"take"}
    BY <1>1, <2>1 DEF TypeOK
  <2>6. \A c \in Backups :
          /\ ppc'[c] = "count" => current_server_id'[c] \in 0..Cardinality(Passed')
          /\ ppc'[c] \notin Unnumbered \union {"take"} => current_server_id'[c] \in Ids
    BY <1>1, <2>1, <2>2, <2>5 DEF CountInv
  <2> QED
    BY <2>4, <2>6 DEF CountInv
<1>6. CASE TakeId(b)
  <2>1. /\ ppc[b] = "take" /\ ppc' = [ppc EXCEPT ![b] = "table"]
        /\ num_backup_servers' = num_backup_servers
        /\ current_server_id'[b] = num_backup_servers
        /\ \A c \in Backups \ {b} : current_server_id'[c] = current_server_id[c]
    BY <1>1, <1>6 DEF TakeId, TypeOK
  <2>2. b \in Passed
    BY <2>1 DEF Passed, Unnumbered
  <2>3. num_backup_servers \in Ids
    BY <1>1, <2>2 DEF CountInv, TypeOK, Ids
  <2> QED
    BY <2>1, <2>3, CountStays DEF Unnumbered
<1>7. CASE \/ AddServer(b) \/ send_SET_ID(b) \/ SetIdAcked(b) \/ SetIdUnanswered(b)
           \/ ClearPayload(b) \/ Serialize(b) \/ create_packet(b) \/ EndOfTable(b)
           \/ RecvFromBackup(b) \/ RecvNothing(b) \/ send_UPDATE(b)
  <2>1. /\ ppc[b] \notin Unnumbered \union {"take"}
        /\ \E pc : pc \notin Unnumbered \union {"take"} /\ ppc' = [ppc EXCEPT ![b] = pc]
        /\ num_backup_servers' = num_backup_servers /\ current_server_id' = current_server_id
    BY <1>7 DEF AddServer, send_SET_ID, SetIdAcked, SetIdUnanswered, ClearPayload, Serialize, create_packet, EndOfTable, RecvFromBackup, RecvNothing, send_UPDATE, Unnumbered
  <2>2. current_server_id[b] \in Ids
    BY <1>1, <2>1 DEF CountInv
  <2> QED
    BY <2>1, <2>2, CountStays
<1> QED
  BY <1>2, <1>3, <1>4, <1>5, <1>6, <1>7 DEF PrimaryStep, PrimaryThread

\* Who is out of tries is out.
LEMMA NextTriesInv ==
  ASSUME IInv, NEW b \in Backups, BackupStep(b) \/ PrimaryStep(b)
  PROVE  TriesInv'
<1> USE ReplicationAssumption DEF tables, world, backupThread, primaryThread, links, Goto
<1>1. TypeOK /\ TriesInv
  BY DEF IInv
<1>2. CASE BackupStep(b)
  <2>1. bpc'[b] \notin {"done", "exited"} => backupTries'[b] <= MAX_TRIES
    <3>1. bpc[b] \notin {"done", "exited"} /\ backupTries[b] \in Nat /\ backupTries[b] <= MAX_TRIES
      <4>1. backupTries[b] \in 0..(MAX_TRIES + 1)
        BY <1>1 DEF TypeOK
      <4>2. bpc[b] \notin {"done", "exited"}
        BY <1>1, <1>2, BackupFrame DEF Over
      <4> QED
        BY <1>1, <4>1, <4>2 DEF TriesInv
    <3>2. CASE KillBackup(b) \/ setup_socket(b) \/ send_CONNECT_SERVER(b) \/ receive_SET_ID(b)
               \/ FirstPing(b) \/ CrashOnUpdate(b) \/ LeaveLoop(b)
      BY <3>1, <3>2 DEF KillBackup, setup_socket, send_CONNECT_SERVER, receive_SET_ID, FirstPing,
           CrashOnUpdate, LeaveLoop
    <3>3. CASE ConnectAcked(b) \/ ConnectUnanswered(b) \/ send_ping_to_primary(b)
      BY <1>1, <3>1, <3>3 DEF ConnectAcked, ConnectUnanswered, send_ping_to_primary, OneMore,
           BackupLoopEnd, TypeOK
    <3>4. CASE RecvFromPrimary(b)
      <4>1. PICK tries \in {0, backupTries[b]} : backupTries' = [backupTries EXCEPT ![b] = tries]
        BY <3>4 DEF RecvFromPrimary
      <4> QED
        BY <1>1, <3>1, <4>1 DEF TypeOK
    <3> QED
      BY <1>2, <3>2, <3>3, <3>4 DEF BackupStep, BackupThread
  <2> QED
    BY <1>1, <1>2, <2>1, BackupFrame DEF TriesInv
<1>3. CASE PrimaryStep(b)
  <2>1. ppc'[b] # "done" => primaryTries'[b] <= MAX_TRIES
    <3>1. ppc[b] # "done" /\ primaryTries[b] \in Nat /\ primaryTries[b] <= MAX_TRIES
      <4>1. primaryTries[b] \in 0..(MAX_TRIES + 1)
        BY <1>1 DEF TypeOK
      <4>2. ppc[b] # "done"
        BY <1>1, <1>3, PrimaryFrame
      <4> QED
        BY <1>1, <4>1, <4>2 DEF TriesInv
    <3>2. CASE \/ primaryTries' = primaryTries \/ primaryTries' = [primaryTries EXCEPT ![b] = 0]
      BY <1>1, <3>1, <3>2 DEF TypeOK
    <3>3. CASE SetIdUnanswered(b) \/ send_UPDATE(b)
      BY <1>1, <3>1, <3>3 DEF SetIdUnanswered, send_UPDATE, TriesAfterSend, TypeOK
    <3>4. \/ primaryTries' = primaryTries \/ primaryTries' = [primaryTries EXCEPT ![b] = 0]
          \/ SetIdUnanswered(b) \/ send_UPDATE(b)
      BY <1>3 DEF PrimaryStep, PrimaryThread, Accept, receive_CONNECT_SERVER, LoadCount, CountBackup,
           TakeId, AddServer, send_SET_ID, SetIdAcked, ClearPayload, Serialize, create_packet, EndOfTable, RecvFromBackup, RecvNothing
    <3> QED
      BY <3>2, <3>3, <3>4
  <2> QED
    BY <1>1, <1>3, <2>1, PrimaryFrame DEF TriesInv
<1> QED
  BY <1>2, <1>3

-----------------------------------------------------------------------------
(* The handshake *)

\* A step for one backup leaves the handshakes of the others alone.
LEMMA OthersHandshake ==
  ASSUME IInv, NEW b \in Backups, BackupStep(b) \/ PrimaryStep(b), NEW c \in Backups \ {b}
  PROVE  HandshakeInv(c)'
<1>1. HandshakeInv(c) /\ TypeOK
  BY DEF IInv
<1>2. /\ ppc'[c] = ppc[c] /\ current_server_id'[c] = current_server_id[c]
      /\ bpc'[c] = bpc[c] /\ my_backup_id'[c] = my_backup_id[c]
      /\ toPrimary'[c] = toPrimary[c] /\ toBackup'[c] = toBackup[c]
  BY <1>1, BackupFrame, PrimaryFrame DEF primaryThread, backupThread
<1> QED
  BY <1>1, <1>2 DEF HandshakeInv, SetId

\* A backup's own steps.
LEMMA BackupHandshake ==
  ASSUME IInv, NEW b \in Backups, BackupStep(b)
  PROVE  HandshakeInv(b)'
<1> USE DEF tables, world, backupThread, primaryThread, links
<1>1. TypeOK /\ HandshakeInv(b) /\ TypeOK'
  BY BackupTypeOK DEF IInv
<1>2. ppc' = ppc /\ current_server_id' = current_server_id
  BY <1>1, BackupFrame
<1>3. /\ toBackup[b] \in Seq(Packets) /\ Len(toBackup[b]) \in Nat
      /\ toPrimary[b] \in Seq(Packets)
  BY <1>1, LenProperties DEF TypeOK
<1>4. CASE KillBackup(b) \/ setup_socket(b) \/ ConnectUnanswered(b)
  <2>1. UNCHANGED <<toBackup, toPrimary, my_backup_id>>
    BY <1>4 DEF KillBackup, setup_socket, ConnectUnanswered
  <2>2. \/ bpc'[b] \in {"killed", "exited"}
        \/ bpc[b] = "start" /\ bpc'[b] = "connected"
        \/ bpc'[b] = bpc[b]
    BY <1>1, <1>4 DEF KillBackup, setup_socket, ConnectUnanswered, TypeOK
  <2> QED
    BY <1>1, <1>2, <2>1, <2>2 DEF HandshakeInv, SetId, Over
<1>5. CASE send_CONNECT_SERVER(b)
  <2> DEFINE connect == IdPacket("CONNECT_SERVER", UNDEFINED_ID)
  <2>1. /\ bpc[b] = "connected" /\ bpc'[b] = "await" /\ toBackup' = toBackup
        /\ ppc[b] \in {"none", "connect"} /\ toBackup[b] = <<>> /\ toPrimary[b] = <<>>
        /\ my_backup_id[b] = UNDEFINED_ID
    BY <1>1, <1>5 DEF send_CONNECT_SERVER, TypeOK, HandshakeInv
  <2>2. connect \in Packets /\ connect # Ack
    BY PacketsWritten DEF IdPacket, Ack
  <2>3. BackupWrites(b, <<connect>>)
    BY <1>5, <2>1 DEF send_CONNECT_SERVER
  <2>4. toPrimary'[b] \in {toPrimary[b], toPrimary[b] \o <<connect>>}
    <3>1. <<connect>> \in Seq(Packets)
      BY <2>2
    <3> HIDE DEF connect
    <3> QED
      BY <1>1, <2>3, <3>1, BackupWritesPackets
  <2> HIDE DEF connect
  <2>5. \A p \in ToSet(toPrimary'[b]) : p = connect
    <3>1. ToSet(toPrimary[b]) = {}
      BY <2>1 DEF ToSet
    <3>2. ToSet(toPrimary[b] \o <<connect>>) = {connect}
      BY <1>3, <2>2, <3>1, WriteOne
    <3> QED
      BY <2>4, <3>1, <3>2
  <2>6. /\ \A i \in 2..Len(toBackup[b]) : FALSE
        /\ Len(toBackup[b]) <= 1
    BY <2>1
  <2>7. \A p \in ToSet(toPrimary'[b]) : p # Ack
    BY <2>2, <2>5
  <2> QED
    BY <1>2, <2>1, <2>5, <2>6, <2>7 DEF HandshakeInv, connect, Queueing, Serving
<1>6. CASE ConnectAcked(b)
  <2>1. PICK batch \in Batches(toBackup[b]) : toBackup' = [toBackup EXCEPT ![b] = After(@, batch)]
    BY <1>6 DEF ConnectAcked
  <2>2. /\ bpc[b] = "await" /\ bpc'[b] = "id"
        /\ toPrimary' = toPrimary /\ my_backup_id' = my_backup_id
        /\ toBackup'[b] = After(toBackup[b], batch)
    BY <1>1, <1>6, <2>1 DEF ConnectAcked, TypeOK
  <2>3. /\ Len(batch) \in 1..Len(toBackup[b])
        /\ toBackup'[b] \in Seq(Packets)
        /\ Len(toBackup'[b]) = Len(toBackup[b]) - Len(batch)
        /\ \A i \in 1..Len(toBackup'[b]) : toBackup'[b][i] = toBackup[b][i + Len(batch)]
    <3> DEFINE rest == After(toBackup[b], batch)
    <3>1. /\ Len(batch) \in 1..Len(toBackup[b])
          /\ rest \in Seq(Packets) /\ Len(rest) = Len(toBackup[b]) - Len(batch)
          /\ \A i \in 1..Len(rest) : rest[i] = toBackup[b][i + Len(batch)]
      BY <1>3, BatchIsPrefix
    <3>2. toBackup'[b] = rest
      BY <2>2
    <3> HIDE DEF rest
    <3> QED
      BY <3>1, <3>2
  <2>4. toBackup[b] # <<>>
    BY <1>3, BatchElements
  <2>5. \A i \in 1..Len(toBackup'[b]) : toBackup'[b][i] = SetId(b)
    <3> TAKE i \in 1..Len(toBackup'[b])
    <3>1. i + Len(batch) \in 2..Len(toBackup[b])
      BY <1>3, <2>3
    <3> QED
      BY <1>1, <2>2, <2>3, <3>1 DEF HandshakeInv
  <2>6. SetId(b)' = SetId(b)
    BY <1>2 DEF SetId
  <2>7. ppc[b] \in Early => toBackup'[b] = <<>>
    <3> SUFFICES ASSUME ppc[b] \in Early PROVE toBackup'[b] = <<>>
      OBVIOUS
    <3>1. Len(toBackup[b]) <= 1
      BY <1>1, <2>2 DEF HandshakeInv
    <3>2. Len(toBackup'[b]) = 0
      BY <1>3, <2>3, <3>1
    <3> QED
      BY <2>3, <3>2
  <2>8. ppc[b] \notin {"none", "connect"}
    BY <1>1, <2>4 DEF HandshakeInv
  <2> QED
    BY <1>1, <1>2, <2>2, <2>5, <2>6, <2>7, <2>8 DEF HandshakeInv
<1>7. CASE receive_SET_ID(b)
  <2>1. PICK batch \in Batches(toBackup[b]) :
          my_backup_id' = [my_backup_id EXCEPT ![b] = batch[Len(batch)].id]
    BY <1>7 DEF receive_SET_ID
  <2>2. bpc[b] = "id" /\ bpc'[b] = "ping" /\ my_backup_id'[b] = current_server_id[b]
    BY <1>1, <1>7, <2>1, HandshakePackets DEF receive_SET_ID, TypeOK
  <2>3. ppc[b] \notin Early
    BY <1>1, <1>3, <2>1, <2>2, BatchElements DEF HandshakeInv
  <2> QED
    BY <1>2, <2>2, <2>3 DEF HandshakeInv, Early, Unnumbered
<1>8. CASE FirstPing(b) \/ CrashOnUpdate(b) \/ RecvFromPrimary(b) \/ send_ping_to_primary(b) \/ LeaveLoop(b)
  <2>1. /\ bpc[b] \in {"ping", "loop"} /\ bpc'[b] \in {"loop", "done", "crashed"}
        /\ my_backup_id' = my_backup_id
    BY <1>1, <1>8 DEF FirstPing, CrashOnUpdate, RecvFromPrimary, send_ping_to_primary, LeaveLoop,
         BackupLoopEnd, TypeOK
  <2> QED
    BY <1>1, <1>2, <2>1 DEF HandshakeInv, Early, Unnumbered
<1> QED
  BY <1>4, <1>5, <1>6, <1>7, <1>8 DEF BackupStep, BackupThread

\* The primary's offer of an id goes behind what is there.
LEMMA OfferId ==
  ASSUME TypeOK, NEW b \in Backups, HandshakeInv(b), PrimaryWrites(b, <<SetId(b)>>),
         ppc[b] \in {"offer", "setid"}, NEW pc \in {"setid", "done"}, ppc' = [ppc EXCEPT ![b] = pc],
         UNCHANGED <<bpc, current_server_id, my_backup_id, toPrimary>>
  PROVE  HandshakeInv(b)'
<1> DEFINE q == toBackup[b]
           s == toBackup'[b]
<1>1. /\ q \in Seq(Packets) /\ SetId(b) \in Packets
      /\ s = IF BackupOpen(b) THEN q \o <<SetId(b)>> ELSE q
  <2>1. SetId(b) \in Packets
    BY PacketsWritten DEF TypeOK, SetId
  <2>2. <<SetId(b)>> \in Seq(Packets)
    BY <2>1
  <2> QED
    BY <2>1, <2>2, PrimaryWritesPackets DEF TypeOK
<1>2. SetId(b)' = SetId(b) /\ ppc'[b] = pc
  BY DEF SetId, TypeOK
<1>3. CASE bpc[b] \in {"await", "id"}
  <2>1. /\ s = q \o <<SetId(b)>>
        /\ Len(q) \in Nat /\ Len(s) = Len(q) + 1
        /\ \A i \in 1..Len(q) : s[i] = q[i]
        /\ s[Len(q) + 1] = SetId(b)
    BY <1>1, <1>3, WriteOne DEF BackupOpen, Over
  <2>2. s # <<>>
    BY <2>1
  <2>3. CASE bpc[b] = "await"
    <3>1. /\ q # <<>> /\ q[1] = Ack /\ \A i \in 2..Len(q) : q[i] = SetId(b)
      BY <2>3 DEF HandshakeInv
    <3>2. Len(q) >= 1
      BY <1>1, <2>1, <3>1, EmptySeq
    <3>3. s[1] = Ack /\ \A i \in 2..Len(s) : s[i] = SetId(b)
      BY <2>1, <3>1, <3>2
    <3> QED
      BY <1>2, <2>2, <2>3, <3>3 DEF HandshakeInv, Early, Unnumbered, Queueing, Serving
  <2>4. CASE bpc[b] = "id"
    <3>1. \A i \in 1..Len(q) : q[i] = SetId(b)
      BY <2>4 DEF HandshakeInv
    <3>2. \A i \in 1..Len(s) : s[i] = SetId(b)
      BY <2>1, <3>1
    <3> QED
      BY <1>2, <2>4, <3>2 DEF HandshakeInv, Early, Unnumbered, Queueing, Serving
  <2> QED
    BY <1>3, <2>3, <2>4
<1>4. CASE bpc[b] \notin {"await", "id"}
  BY <1>2, <1>4 DEF HandshakeInv, Early, Unnumbered, Queueing, Serving
<1> QED
  BY <1>3, <1>4

\* An ACK in a read is the packet Ack.
LEMMA AckRead ==
  ASSUME TypeOK, NEW b \in Backups, NEW batch \in Batches(toPrimary[b]), Has(batch, "ACK")
  PROVE  Ack \in ToSet(toPrimary[b])
<1>1. batch \in Seq(Packets) /\ ToSet(batch) \subseteq ToSet(toPrimary[b])
  BY BatchIsPrefix, BatchElements DEF TypeOK
<1>2. PICK i \in 1..Len(batch) : batch[i].type = "ACK"
  BY DEF Has
<1>3. batch[i] \in Packets /\ batch[i] \in ToSet(batch)
  BY <1>1, Elements, ElementOfSeq
<1>4. batch[i] = Ack
  <2>1. \A p \in [type : {"CONNECT_SERVER", "SET_ID"}, id : Ids \union {0, UNDEFINED_ID}] : p.type # "ACK"
    OBVIOUS
  <2>2. \A p \in [type : UpdateTypes, length : Nat, text : Texts] : p.type # "ACK"
    BY DEF UpdateTypes
  <2>3. Heartbeat.type # "ACK"
    BY DEF Heartbeat
  <2> QED
    BY <1>2, <1>3, <2>1, <2>2, <2>3 DEF Packets
<1> QED
  BY <1>1, <1>3, <1>4

\* The steps of the primary's thread.
LEMMA PrimaryHandshake ==
  ASSUME IInv, NEW b \in Backups, PrimaryStep(b)
  PROVE  HandshakeInv(b)'
<1> USE DEF tables, world, backupThread, primaryThread, links, Goto
<1>1. TypeOK /\ HandshakeInv(b)
  BY DEF IInv
<1>2. bpc' = bpc /\ my_backup_id' = my_backup_id
  BY <1>1, PrimaryFrame
<1>3. CASE Accept(b)
  BY <1>1, <1>2, <1>3 DEF Accept, HandshakeInv, SetId, TypeOK, Early, Unnumbered, Queueing, Serving
<1>4. CASE receive_CONNECT_SERVER(b)
  <2>1. PICK batch \in Batches(toPrimary[b]) :
          /\ ppc' = [ppc EXCEPT ![b] = IF batch[Len(batch)].id = UNDEFINED_ID THEN "load" ELSE "table"]
          /\ toPrimary' = [toPrimary EXCEPT ![b] = After(@, batch)]
    BY <1>4 DEF receive_CONNECT_SERVER
  <2>2. ppc[b] = "connect" /\ ppc'[b] = "load"
    BY <1>1, <1>4, <2>1, HandshakePackets DEF receive_CONNECT_SERVER, TypeOK
  <2>3. /\ toPrimary[b] # <<>>
        /\ ToSet(toPrimary'[b]) \subseteq ToSet(toPrimary[b])
    BY <1>1, <2>1, BatchElements DEF TypeOK
  <2>4. toBackup[b] = <<>> /\ bpc[b] \in {"await", "exited", "crashed", "killed"}
    BY <1>1, <2>2, <2>3 DEF HandshakeInv, Over, Early, Unnumbered
  <2>5. bpc[b] = "await" => toBackup'[b] = <<>> \o <<Ack>>
    <3>1. <<Ack>> \in Seq(Packets)
      BY PacketsWritten
    <3> QED
      BY <1>1, <1>4, <2>4, <3>1, PrimaryWritesPackets DEF receive_CONNECT_SERVER, BackupOpen, Over
  <2>6. bpc[b] = "await" => toBackup'[b] # <<>> /\ toBackup'[b][1] = Ack /\ Len(toBackup'[b]) = 1
    <3> DEFINE one == <<>> \o <<Ack>>
    <3>1. one = <<Ack>>
      OBVIOUS
    <3>2. one # <<>> /\ one[1] = Ack /\ Len(one) = 1
      BY <3>1
    <3>3. bpc[b] = "await" => toBackup'[b] = one
      BY <2>5
    <3> HIDE DEF one
    <3> QED
      BY <3>2, <3>3
  <2>7. bpc[b] = "await" => Len(toBackup'[b]) <= 1 /\ \A i \in 2..Len(toBackup'[b]) : FALSE
    <3>1. \A n : n = 1 => n <= 1 /\ \A i \in 2..n : FALSE
      OBVIOUS
    <3> QED
      BY <2>6, <3>1
  <2>8. bpc[b] = "await" => \A p \in ToSet(toPrimary'[b]) : p # Ack
    BY <1>1, <2>3 DEF HandshakeInv
  <2>9. bpc'[b] \notin {"start", "connected", "id", "ping", "loop", "done"}
    BY <1>2, <2>4
  <2> QED
    BY <1>2, <2>2, <2>6, <2>7, <2>8, <2>9 DEF HandshakeInv, Queueing, Serving
<1>5. CASE LoadCount(b) \/ CountBackup(b) \/ TakeId(b) \/ AddServer(b)
  <2>1. /\ ppc[b] \in Early \ {"none", "connect"} /\ ppc'[b] \in Early \ {"none", "connect"}
        /\ UNCHANGED <<toPrimary, toBackup>>
    BY <1>1, <1>5 DEF LoadCount, CountBackup, TakeId, AddServer, TypeOK, Early, Unnumbered
  <2>2. ppc'[b] \notin Queueing \union Serving
    BY <2>1 DEF Early, Unnumbered, Queueing, Serving
  <2>3. \A n \in Nat : n <= 1 => \A i \in 2..n : FALSE
    OBVIOUS
  <2>4. Len(toBackup[b]) \in Nat
    BY <1>1, LenProperties DEF TypeOK
  <2>5. bpc[b] = "id" => \A i \in 1..Len(toBackup[b]) : FALSE
    BY <1>1, <2>1 DEF HandshakeInv
  <2> QED
    BY <1>1, <1>2, <2>1, <2>2, <2>3, <2>4, <2>5 DEF HandshakeInv
<1>6. CASE send_SET_ID(b) \/ SetIdUnanswered(b)
  <2>1. /\ PrimaryWrites(b, <<SetId(b)>>) /\ ppc[b] \in {"offer", "setid"}
        /\ \E pc \in {"setid", "done"} : ppc' = [ppc EXCEPT ![b] = pc]
        /\ UNCHANGED <<current_server_id, toPrimary>>
    BY <1>6 DEF send_SET_ID, SetIdUnanswered
  <2> QED
    BY <1>1, <1>2, <2>1, OfferId
<1>7. CASE SetIdAcked(b)
  <2>1. Ack \in ToSet(toPrimary[b])
    BY <1>1, <1>7, AckRead DEF SetIdAcked
  <2>2. ppc[b] = "setid" /\ ppc'[b] = "cold" /\ current_server_id' = current_server_id
    BY <1>1, <1>7 DEF SetIdAcked, TypeOK
  <2> QED
    BY <1>1, <1>2, <2>1, <2>2 DEF HandshakeInv, Early, Unnumbered
<1>8. CASE \/ ClearPayload(b) \/ Serialize(b) \/ create_packet(b) \/ EndOfTable(b)
           \/ RecvFromBackup(b) \/ RecvNothing(b) \/ send_UPDATE(b)
  <2>1. /\ ppc[b] \in Queueing \union Serving
        /\ \E pc \in Queueing \union Serving \union {"done"} : ppc' = [ppc EXCEPT ![b] = pc]
        /\ current_server_id' = current_server_id
    BY <1>8 DEF ClearPayload, Serialize, create_packet, EndOfTable, RecvFromBackup,
         RecvNothing, send_UPDATE, Queueing, Serving
  <2>2. ppc'[b] \in Queueing \union Serving \union {"done"}
    BY <1>1, <2>1 DEF TypeOK
  <2> QED
    BY <1>1, <1>2, <2>1, <2>2 DEF HandshakeInv, Early, Unnumbered, Queueing, Serving
<1> QED
  BY <1>3, <1>4, <1>5, <1>6, <1>7, <1>8 DEF PrimaryStep, PrimaryThread

-----------------------------------------------------------------------------
(* Tables, FIFOs and the buffer *)

\* Nothing leaves the table or a FIFO, and what comes to a FIFO has the length of
\* what the buffer holds.  The buffer gets a struct, a row if there is one, or is
\* cleared.
LEMMA TablesGrow ==
  ASSUME IInv, NEW b \in Backups, PrimaryStep(b)
  PROVE  /\ servers_table \subseteq servers_table'
         /\ \A id \in Ids :
              LET q == packet_to_send_table[id]
                  s == packet_to_send_table'[id]
              IN  /\ q # <<>> => s # <<>>
                  /\ s # <<>> => s[1].type = "UPDATE_BACKUP"
                  /\ \A e \in ToSet(s) :
                       \/ e \in ToSet(q)
                       \/ ppc[b] \in {"structPacket", "rowPacket"} /\ e.length = strlen(payload)
         /\ payload' \in Written \union {Blank}
         /\ payload' = Blank => payload = Blank \/ ppc'[b] \in {"struct", "row"}
<1> USE DEF tables, world, backupThread, primaryThread, links, Goto
<1>1. /\ TypeOK /\ servers_table \subseteq Structs
      /\ payload \in Written \union {Blank}
      /\ \A id \in Ids :
           packet_to_send_table[id] # <<>> => packet_to_send_table[id][1].type = "UPDATE_BACKUP"
  BY DEF IInv, TypeOK, TruthInv, QueueInv
<1>2. CASE UNCHANGED tables
  BY <1>1, <1>2
<1>3. CASE CountBackup(b) \/ AddServer(b)
  BY <1>1, <1>3 DEF CountBackup, AddServer, Insert
<1>4. CASE ClearPayload(b)
  <2>1. payload' = Blank /\ ppc'[b] \in {"struct", "row"}
    BY <1>1, <1>4 DEF ClearPayload, TypeOK
  <2> QED
    BY <1>1, <1>4, <2>1 DEF ClearPayload
<1>5. CASE Serialize(b)
  <2>1. UNCHANGED <<servers_table, packet_to_send_table>>
    BY <1>5 DEF Serialize
  <2>2. payload' \in Written /\ payload' # Blank
    BY <1>1, <1>5, TextsAssumption DEF Serialize, serialize_server_struct, Written, IInv, TruthInv
  <2> QED
    BY <1>1, <2>1, <2>2
<1>6. CASE create_packet(b)
  <2>1. PICK type \in UpdateTypes :
          /\ Push(b, type)
          /\ \/ ppc[b] = "structPacket" /\ type = "UPDATE_BACKUP"
             \/ ppc[b] = "rowPacket"
    BY <1>6 DEF create_packet, UpdateTypes
  <2> DEFINE id == current_server_id[b]
             q == packet_to_send_table[id]
             e == Queued(type, strlen(payload))
  <2>2. id \in Ids
    BY <2>1 DEF IInv, CountInv, Unnumbered
  <2>3. e \in Entries /\ e.type = type /\ e.length = strlen(payload)
    BY <1>1, TextLengths DEF Queued, Entries, TypeOK
  <2>4. q \in Seq(Entries) /\ (q # <<>> => q[1].type = "UPDATE_BACKUP")
    BY <1>1, <2>2 DEF TypeOK, Entries
  <2>5. q = <<>> => type = "UPDATE_BACKUP"
    BY <2>1 DEF IInv, QueueInv, Serving
  <2>6. /\ packet_to_send_table'[id] = Append(q, e)
        /\ \A i \in Ids \ {id} : packet_to_send_table'[i] = packet_to_send_table[i]
    BY <1>1, <2>1, <2>2 DEF Push, TypeOK
  <2>7. UNCHANGED <<servers_table, payload>>
    BY <1>6 DEF create_packet
  <2> HIDE DEF q, e
  <2>8. /\ Append(q, e) # <<>> /\ ToSet(Append(q, e)) = ToSet(q) \union {e}
        /\ Append(q, e)[1] = IF q = <<>> THEN e ELSE q[1]
    <3>1. /\ ToSet(Append(q, e)) = ToSet(q) \union {e} /\ Len(q) \in Nat
          /\ \A i \in 1..Len(q) : Append(q, e)[i] = q[i]
          /\ Append(q, e)[Len(q) + 1] = e
      <4>1. /\ Append(q, e) = q \o <<e>> /\ ToSet(q \o <<e>>) = ToSet(q) \union {e}
            /\ Len(q) \in Nat /\ \A i \in 1..Len(q) : (q \o <<e>>)[i] = q[i]
            /\ (q \o <<e>>)[Len(q) + 1] = e
        BY <2>3, <2>4, WriteOne
      <4> QED
        BY <4>1
    <3>2. Append(q, e) # <<>> /\ (q = <<>> => Len(q) = 0) /\ (q # <<>> => Len(q) # 0)
      BY <2>3, <2>4, EmptySeq, AppendProperties
    <3> QED
      BY <3>1, <3>2
  <2>9. packet_to_send_table'[id][1].type = "UPDATE_BACKUP"
    BY <2>3, <2>4, <2>5, <2>6, <2>8
  <2>10. ASSUME NEW i \in Ids
         PROVE  /\ packet_to_send_table[i] # <<>> => packet_to_send_table'[i] # <<>>
                /\ packet_to_send_table'[i] # <<>> => packet_to_send_table'[i][1].type = "UPDATE_BACKUP"
                /\ \A x \in ToSet(packet_to_send_table'[i]) :
                     \/ x \in ToSet(packet_to_send_table[i])
                     \/ ppc[b] \in {"structPacket", "rowPacket"} /\ x.length = strlen(payload)
    <3>1. CASE i = id
      BY <2>1, <2>3, <2>6, <2>8, <2>9, <3>1 DEF q
    <3>2. CASE i # id
      BY <1>1, <2>6, <3>2
    <3> QED
      BY <3>1, <3>2
  <2> QED
    BY <1>1, <2>7, <2>10
<1>7. CASE RecvFromBackup(b)
  <2>1. UNCHANGED tables
    BY <1>1, <1>7 DEF RecvFromBackup, Popped, TypeOK
  <2> QED
    BY <1>2, <2>1
<1>8. \/ UNCHANGED tables \/ CountBackup(b) \/ AddServer(b) \/ ClearPayload(b)
      \/ Serialize(b) \/ create_packet(b) \/ RecvFromBackup(b)
  BY DEF PrimaryStep, PrimaryThread, Accept, receive_CONNECT_SERVER, LoadCount, TakeId, send_SET_ID,
       SetIdAcked, SetIdUnanswered, EndOfTable, RecvNothing, send_UPDATE
<1> QED
  BY <1>2, <1>3, <1>4, <1>5, <1>6, <1>7, <1>8

\* What a step can bring into the channel to a backup.
LEMMA Delivered ==
  ASSUME IInv, NEW b \in Backups, BackupStep(b) \/ PrimaryStep(b),
         NEW c \in Backups, NEW p \in ToSet(toBackup'[c])
  PROVE  \/ p \in ToSet(toBackup[c])
         \/ p.type \in {"ACK", "SET_ID"}
         \/ /\ c = b /\ ppc[b] = "send"
            /\ p.type = "UPDATE_BACKUP" /\ p.text = payload
            /\ \E id \in Ids : \E e \in ToSet(packet_to_send_table[id]) : p.length = e.length
<1> USE DEF tables, world, backupThread, primaryThread, links, Goto
<1>1. TypeOK /\ toBackup[c] \in Seq(Packets)
  BY DEF IInv, TypeOK
<1>2. CASE c # b \/ toBackup' = toBackup
  BY <1>1, <1>2, BackupFrame, PrimaryFrame
<1>3. CASE c = b /\ BackupStep(b) /\ toBackup' # toBackup
  <2>1. PICK batch \in Batches(toBackup[b]) : toBackup' = [toBackup EXCEPT ![b] = After(@, batch)]
    BY <1>3 DEF BackupStep, BackupThread, KillBackup, setup_socket, send_CONNECT_SERVER, ConnectAcked,
         ConnectUnanswered, receive_SET_ID, FirstPing, CrashOnUpdate, RecvFromPrimary,
         send_ping_to_primary, LeaveLoop
  <2> QED
    BY <1>1, <1>3, <2>1, BatchElements DEF TypeOK
<1>4. CASE c = b /\ PrimaryStep(b)
  <2>1. ASSUME NEW packets \in Seq(Packets), PrimaryWrites(b, packets)
        PROVE  ToSet(toBackup'[b]) \subseteq ToSet(toBackup[b]) \union ToSet(packets)
    BY <1>1, <1>4, <2>1, PrimaryWritesPackets, WriteElements
  <2>2. \A x \in Packets : <<x>> \in Seq(Packets) /\ ToSet(<<x>>) = {x}
    <3> TAKE x \in Packets
    <3>1. <<x>> \in Seq(Packets) /\ Len(<<x>>) = 1 /\ <<x>>[1] = x
      OBVIOUS
    <3>2. ToSet(<<x>>) = {<<x>>[i] : i \in 1..1}
      BY <3>1, Elements
    <3> QED
      BY <3>1, <3>2
  <2>3. Ack \in Packets /\ SetId(b) \in Packets /\ Ack.type = "ACK" /\ SetId(b).type = "SET_ID"
    <3>1. current_server_id[b] \in Ids \union {0, UNDEFINED_ID}
      BY <1>1 DEF TypeOK
    <3> QED
      <4>1. Ack \in Packets /\ SetId(b) \in Packets
        BY <3>1, PacketsWritten DEF SetId
      <4>2. Ack.type = "ACK" /\ SetId(b).type = "SET_ID"
        BY DEF Ack, SetId, IdPacket
      <4> QED
        BY <4>1, <4>2
  <2>4. CASE receive_CONNECT_SERVER(b)
    <3>1. PrimaryWrites(b, <<Ack>>)
      BY <2>4 DEF receive_CONNECT_SERVER
    <3>2. <<Ack>> \in Seq(Packets) /\ ToSet(<<Ack>>) = {Ack}
      BY <2>2, <2>3
    <3>3. ToSet(toBackup'[b]) \subseteq ToSet(toBackup[b]) \union {Ack}
      BY <2>1, <3>1, <3>2
    <3> QED
      BY <1>4, <2>3, <3>3
  <2>5. CASE send_SET_ID(b) \/ SetIdUnanswered(b)
    BY <1>4, <2>1, <2>2, <2>3, <2>5 DEF send_SET_ID, SetIdUnanswered
  <2>6. CASE RecvFromBackup(b)
    <3>1. PICK batch \in Batches(toPrimary[b]) : PrimaryWrites(b, AckEach(batch, "HEARTBEAT"))
      BY <2>6 DEF RecvFromBackup
    <3>2. batch \in Seq(Packets)
      BY <1>1, BatchIsPrefix DEF TypeOK
    <3>3. AckEach(batch, "HEARTBEAT") \in Seq(Packets) /\ ToSet(AckEach(batch, "HEARTBEAT")) \subseteq {Ack}
      BY <3>2, AcksForBatch
    <3> QED
      BY <1>4, <2>1, <2>3, <3>1, <3>3
  <2>7. CASE send_UPDATE(b)
    <3> DEFINE fifo == packet_to_send_table[current_server_id[b]]
               sent == IF fifo = <<>> THEN <<>> ELSE <<Update(fifo[1], payload)>>
               update == Update(fifo[1], payload)
    <3>1. /\ fifo # <<>> /\ fifo[1] \in Entries /\ fifo[1].type = "UPDATE_BACKUP"
          /\ current_server_id[b] \in Ids /\ fifo[1] \in ToSet(fifo)
      BY <2>7, FrontOfFifo DEF send_UPDATE, Serving
    <3>2. /\ sent = <<update>> /\ update \in Packets
          /\ update.type = "UPDATE_BACKUP" /\ update.text = payload /\ update.length = fifo[1].length
      BY <1>1, <3>1, PacketsWritten DEF TypeOK
    <3>6. \E id \in Ids : \E e \in ToSet(packet_to_send_table[id]) : update.length = e.length
      BY <3>1, <3>2
    <3>3. PrimaryWrites(b, sent) /\ ppc[b] = "send"
      BY <2>7 DEF send_UPDATE
    <3> HIDE DEF sent, fifo, update
    <3>4. sent \in Seq(Packets) /\ ToSet(sent) = {update}
      BY <2>2, <3>2
    <3>5. ToSet(toBackup'[b]) \subseteq ToSet(toBackup[b]) \union {update}
      BY <2>1, <3>3, <3>4
    <3> QED
      BY <1>4, <3>2, <3>3, <3>5, <3>6
  <2>8. \/ toBackup' = toBackup \/ receive_CONNECT_SERVER(b) \/ send_SET_ID(b) \/ SetIdUnanswered(b)
        \/ RecvFromBackup(b) \/ send_UPDATE(b)
    BY <1>4 DEF PrimaryStep, PrimaryThread, Accept, LoadCount, CountBackup, TakeId, AddServer,
         SetIdAcked, ClearPayload, Serialize, create_packet, EndOfTable, RecvNothing
  <2> QED
    BY <1>2, <2>4, <2>5, <2>6, <2>7, <2>8
<1> QED
  BY <1>2, <1>3, <1>4

\* What has been written stays written.
LEMMA WrittenGrows ==
  ASSUME IInv, NEW b \in Backups, BackupStep(b) \/ PrimaryStep(b)
  PROVE  Written \subseteq Written' /\ hasRows' = hasRows /\ Lengths \subseteq Lengths'
<1>1. hasRows' = hasRows /\ servers_table \subseteq servers_table'
  BY BackupFrame, PrimaryFrame, TablesGrow DEF IInv, world, tables
<1>2. Written \subseteq Written'
  BY <1>1 DEF Written
<1>3. \A t : strlen(t)' = strlen(t)
  BY DEF strlen
<1>4. ASSUME NEW n \in Lengths PROVE n \in Lengths'
  BY <1>2, <1>3 DEF Lengths
<1> QED
  BY <1>1, <1>2, <1>4

\* The primary's table, what is on its way, and what a backup has learnt.
LEMMA NextTruthInv ==
  ASSUME IInv, NEW b \in Backups, BackupStep(b) \/ PrimaryStep(b)
  PROVE  TruthInv'
<1> USE DEF tables, world, backupThread, primaryThread, links
<1>1. TypeOK /\ TruthInv
  BY DEF IInv
<1>2. Written \subseteq Written' /\ hasRows' = hasRows /\ Lengths \subseteq Lengths'
  BY WrittenGrows
<1>3. payload' \in Written' \union {Blank}
  BY <1>1, <1>2, BackupFrame, TablesGrow DEF TruthInv
<1>4. ASSUME NEW c \in Backups, NEW x \in known'[c]
      PROVE  /\ x.text \in Written
             /\ ~x.whole => \E y \in Written : Size[y] + 1 < Size[x.text]
  <2>1. CASE x \in known[c]
    BY <1>1, <2>1 DEF TruthInv
  <2>2. CASE x \notin known[c]
    <3>1. BackupStep(b) /\ known' # known
      BY <1>1, <1>4, <2>2, PrimaryFrame
    <3>2. RecvFromPrimary(b)
      BY <3>1 DEF BackupStep, BackupThread, KillBackup, setup_socket, send_CONNECT_SERVER, ConnectAcked,
           ConnectUnanswered, receive_SET_ID, FirstPing, CrashOnUpdate, send_ping_to_primary, LeaveLoop
    <3>3. PICK batch \in Batches(toBackup[b]) :
            /\ ~Fails(b, batch)
            /\ known' = [known EXCEPT ![b] = @ \union {Received(p) : p \in New(b, batch)}]
      BY <3>2 DEF RecvFromPrimary
    <3>4. \E p \in New(b, batch) : x = Received(p)
      BY <1>1, <1>4, <2>2, <3>3 DEF TypeOK
    <3> QED
      BY <1>1, <3>3, <3>4, NewsIsTrue
  <2> QED
    BY <2>1, <2>2
<1>5. \A id \in Ids : \A e \in ToSet(packet_to_send_table'[id]) : e.length \in Lengths
  <2>1. strlen(payload) \in Lengths
    BY <1>1 DEF TruthInv, Lengths
  <2>2. \A id \in Ids : \A e \in ToSet(packet_to_send_table'[id]) :
          e \in ToSet(packet_to_send_table[id]) \/ e.length = strlen(payload)
    BY <1>1, BackupFrame, TablesGrow
  <2> QED
    BY <1>1, <2>1, <2>2 DEF TruthInv
<1>6. ASSUME NEW c \in Backups, NEW p \in ToSet(toBackup'[c]), p.type = "UPDATE_BACKUP"
      PROVE  p.text \in Written \union {Blank} /\ p.length \in Lengths
  <2>1. CASE p \in ToSet(toBackup[c])
    BY <1>1, <1>6, <2>1 DEF TruthInv
  <2>2. CASE /\ p.text = payload
             /\ \E id \in Ids : \E e \in ToSet(packet_to_send_table[id]) : p.length = e.length
    BY <1>1, <2>2 DEF TruthInv
  <2> QED
    BY <1>6, <2>1, <2>2, Delivered
<1>7. ASSUME NEW c \in Backups, ppc'[c] \in {"row", "rowPacket"}
      PROVE  hasRows
  <2>1. CASE ppc'[c] = ppc[c]
    BY <1>1, <1>7, <2>1 DEF TruthInv
  <2>2. CASE ppc'[c] # ppc[c]
    <3>1. PrimaryStep(b) /\ c = b
      BY <1>1, <2>2, BackupFrame, PrimaryFrame
    <3>2. ClearPayload(b) \/ Serialize(b)
      BY <1>1, <1>7, <2>2, <3>1 DEF PrimaryStep, PrimaryThread, Accept, receive_CONNECT_SERVER, LoadCount,
           CountBackup, TakeId, AddServer, send_SET_ID, SetIdAcked, SetIdUnanswered, create_packet,
           EndOfTable, RecvFromBackup, RecvNothing, send_UPDATE, Goto, TypeOK
    <3> QED
      BY <1>1, <1>7, <3>1, <3>2 DEF ClearPayload, Serialize, Goto, TypeOK, TruthInv
  <2> QED
    BY <2>1, <2>2
<1>8. ASSUME NEW c \in Backups, NEW x \in known'[c]
      PROVE  /\ x.text \in Written'
             /\ ~x.whole => \E y \in Written' : Size[y] + 1 < Size[x.text]
  BY <1>2, <1>4
<1> QED
  BY <1>2, <1>3, <1>5, <1>6, <1>7, <1>8 DEF TruthInv

\* Who has gone through the table has met its own backup's struct there.
LEMMA VisitedAll ==
  ASSUME IInv, NEW b \in Backups, ppc[b] = "cold", ToVisit(b) = {}
  PROVE  visited[b] # 0
<1>1. PICK x \in servers_table : x.id = current_server_id[b]
  BY DEF IInv, QueueInv, Queueing
<1>2. x.id \in Ids
  BY <1>1 DEF IInv, CountInv, Unnumbered
<1>3. x.id > 0
  <2>1. \A n \in Ids : n > 0
    BY IdNumbers
  <2> QED
    BY <1>2, <2>1
<1>4. visited[b] = 0 => x \in ToVisit(b)
  BY <1>1, <1>3 DEF ToVisit
<1> QED
  BY <1>4

\* No update of a row leaves the primary, and its own struct is in front of it.
LEMMA NextQueueInv ==
  ASSUME IInv, NEW b \in Backups, BackupStep(b) \/ PrimaryStep(b)
  PROVE  QueueInv'
<1> USE DEF tables, world, backupThread, primaryThread, links
<1>1. TypeOK /\ QueueInv /\ CountInv
  BY DEF IInv
<1>2. /\ servers_table \subseteq servers_table'
      /\ \A id \in Ids :
           /\ packet_to_send_table[id] # <<>> => packet_to_send_table'[id] # <<>>
           /\ packet_to_send_table'[id] # <<>> => packet_to_send_table'[id][1].type = "UPDATE_BACKUP"
  BY <1>1, BackupFrame, TablesGrow DEF QueueInv
<1>3. ASSUME NEW c \in Backups, NEW p \in ToSet(toBackup'[c])
      PROVE  p.type # "UPDATE_ROW"
  <2>1. p.type \in {"ACK", "SET_ID"} \/ p \in ToSet(toBackup[c]) \/ p.type = "UPDATE_BACKUP"
    BY <1>3, Delivered DEF Update
  <2> QED
    BY <1>1, <2>1 DEF QueueInv
<1>4. \A c \in Backups : ppc[c] \in Queueing \union Serving => current_server_id[c] \in Ids
  BY <1>1 DEF CountInv, Queueing, Serving, Unnumbered
<1>5. ASSUME NEW c \in Backups, ppc'[c] = ppc[c], visited'[c] = visited[c],
             current_server_id'[c] = current_server_id[c] \/ ppc[c] \in Unnumbered \union {"take"}
      PROVE  /\ ppc'[c] \in {"offer", "setid"} \union Queueing =>
                  \E x \in servers_table' : x.id = current_server_id'[c]
             /\ ppc'[c] \in Early \union {"setid"} => visited'[c] = 0
             /\ ppc'[c] = "cold" =>
                  visited'[c] = 0 \/ packet_to_send_table'[current_server_id'[c]] # <<>>
             /\ ppc'[c] \in Serving => packet_to_send_table'[current_server_id'[c]] # <<>>
  BY <1>1, <1>2, <1>4, <1>5 DEF QueueInv, Queueing, Serving, Unnumbered
<1>6. CASE BackupStep(b)
  <2>1. \A c \in Backups : ppc'[c] = ppc[c] /\ visited'[c] = visited[c]
                           /\ current_server_id'[c] = current_server_id[c]
    BY <1>1, <1>6, BackupFrame
  <2> QED
    BY <1>2, <1>3, <1>5, <2>1 DEF QueueInv
<1>7. CASE PrimaryStep(b)
  <2> USE DEF Goto
  <2>1. \A c \in Backups \ {b} : ppc'[c] = ppc[c] /\ visited'[c] = visited[c]
                                 /\ current_server_id'[c] = current_server_id[c]
    BY <1>1, <1>7, PrimaryFrame
  <2> DEFINE Own ==
        /\ ppc'[b] \in {"offer", "setid"} \union Queueing =>
             \E x \in servers_table' : x.id = current_server_id'[b]
        /\ ppc'[b] \in Early \union {"setid"} => visited'[b] = 0
        /\ ppc'[b] = "cold" =>
             visited'[b] = 0 \/ packet_to_send_table'[current_server_id'[b]] # <<>>
        /\ ppc'[b] \in Serving => packet_to_send_table'[current_server_id'[b]] # <<>>
  <2> HIDE DEF Own
  <2> SUFFICES Own
    <3>1. ASSUME Own PROVE QueueInv'
      <4>1. \A c \in Backups \ {b} :
            /\ ppc'[c] \in {"offer", "setid"} \union Queueing =>
                 \E x \in servers_table' : x.id = current_server_id'[c]
            /\ ppc'[c] \in Early \union {"setid"} => visited'[c] = 0
            /\ ppc'[c] = "cold" =>
                 visited'[c] = 0 \/ packet_to_send_table'[current_server_id'[c]] # <<>>
            /\ ppc'[c] \in Serving => packet_to_send_table'[current_server_id'[c]] # <<>>
        BY <1>5, <2>1
      <4> QED
        BY <1>2, <1>3, <3>1, <4>1 DEF QueueInv, Own
    <3> QED
      BY <3>1
  <2> USE DEF Own
  <2>2. CASE Accept(b) \/ receive_CONNECT_SERVER(b) \/ LoadCount(b) \/ CountBackup(b) \/ TakeId(b)
    <3>1. /\ ppc[b] \in Early /\ ppc'[b] \in Early \ {"offer"} /\ visited'[b] = visited[b]
      BY <1>1, <2>2 DEF Accept, receive_CONNECT_SERVER, LoadCount, CountBackup, TakeId, TypeOK,
           Early, Unnumbered
    <3> QED
      BY <1>1, <3>1 DEF QueueInv, Early, Unnumbered, Queueing, Serving
  <2>3. CASE AddServer(b)
    <3>1. /\ ppc[b] = "table" /\ ppc'[b] = "offer" /\ visited'[b] = visited[b]
          /\ current_server_id' = current_server_id
          /\ servers_table' = Insert(servers_table, Struct(current_server_id[b], b))
      BY <1>1, <2>3 DEF AddServer, TypeOK
    <3>2. \E x \in servers_table' : x.id = current_server_id[b]
      <4>1. Struct(current_server_id[b], b).id = current_server_id[b]
        BY DEF Struct
      <4> QED
        BY <3>1, <4>1 DEF Insert
    <3> QED
      BY <1>1, <3>1, <3>2 DEF QueueInv, Early, Unnumbered, Queueing, Serving
  <2>4. CASE send_SET_ID(b) \/ SetIdAcked(b) \/ SetIdUnanswered(b)
    <3>1. /\ ppc[b] \in {"offer", "setid"} /\ ppc'[b] \in {"setid", "cold", "done"}
          /\ visited'[b] = visited[b] /\ current_server_id' = current_server_id
      BY <1>1, <2>4 DEF send_SET_ID, SetIdAcked, SetIdUnanswered, TypeOK
    <3> QED
      BY <1>1, <1>2, <3>1 DEF QueueInv, Early, Unnumbered, Queueing, Serving
  <2>5. CASE \/ ClearPayload(b) \/ Serialize(b) \/ RecvFromBackup(b) \/ RecvNothing(b)
             \/ send_UPDATE(b) \/ (EndOfTable(b) /\ ppc[b] = "rows")
    <3>1. /\ \/ ppc[b] \in Queueing /\ ppc'[b] \in {"struct", "structPacket"}
             \/ ppc[b] \in Serving /\ ppc'[b] \in Serving \union {"done"}
          /\ current_server_id' = current_server_id
      BY <1>1, <2>5 DEF ClearPayload, Serialize, RecvFromBackup, RecvNothing, send_UPDATE,
           EndOfTable, TypeOK, Queueing, Serving
    <3> QED
      BY <1>1, <1>2, <1>4, <3>1 DEF QueueInv, Early, Unnumbered, Queueing, Serving
  <2>6. CASE create_packet(b)
    <3>1. PICK type \in UpdateTypes : Push(b, type)
      BY <2>6 DEF create_packet, UpdateTypes
    <3>2. /\ \/ ppc[b] = "structPacket" /\ ppc'[b] = "cold"
             \/ ppc[b] = "rowPacket" /\ ppc'[b] = "recv"
          /\ current_server_id' = current_server_id /\ servers_table' = servers_table
      BY <1>1, <2>6 DEF create_packet, TypeOK
    <3>3. /\ current_server_id[b] \in Ids
          /\ packet_to_send_table[current_server_id[b]] \in Seq(Entries)
          /\ Queued(type, strlen(payload)) \in Entries
      <4>1. payload \in Texts
        BY <1>1 DEF TypeOK
      <4>2. strlen(payload) \in Nat
        BY <4>1, TextLengths
      <4> QED
        BY <1>1, <1>4, <3>2, <4>2 DEF Queueing, Serving, TypeOK, Entries, Queued
    <3>4. packet_to_send_table'[current_server_id[b]] # <<>>
      <4>1. Append(packet_to_send_table[current_server_id[b]], Queued(type, strlen(payload))) # <<>>
        BY <3>3, AppendProperties
      <4> QED
        BY <1>1, <3>1, <3>3, <4>1 DEF Push, TypeOK
    <3> QED
      BY <1>1, <3>2, <3>4 DEF QueueInv, Early, Unnumbered, Queueing, Serving
  <2>7. CASE EndOfTable(b) /\ ppc[b] = "cold"
    <3>1. /\ ToVisit(b) = {} /\ ppc'[b] = "rows" /\ current_server_id' = current_server_id
      BY <1>1, <2>7 DEF EndOfTable, TypeOK
    <3>2. current_server_id[b] \in Ids
      BY <1>4, <2>7 DEF Queueing
    <3>3. packet_to_send_table[current_server_id[b]] # <<>>
      BY <1>1, <2>7, <3>1, VisitedAll DEF QueueInv, Queueing
    <3> QED
      BY <1>2, <3>1, <3>2, <3>3 DEF Early, Unnumbered, Queueing, Serving
  <2>8. EndOfTable(b) => ppc[b] \in {"cold", "rows"}
    BY DEF EndOfTable
  <2> QED
    BY <1>7, <2>2, <2>3, <2>4, <2>5, <2>6, <2>7, <2>8 DEF PrimaryStep, PrimaryThread
<1> QED
  BY <1>6, <1>7

\* A crowd does not disperse, and who acts beside a thread of the primary makes
\* one.
LEMMA CrowdStays ==
  ASSUME IInv, NEW b \in Backups, BackupStep(b) \/ PrimaryStep(b)
  PROVE  /\ Crowd => Crowd'
         /\ \A c \in Backups \ {b} : PrimaryStep(b) /\ ppc[c] # "none" => Crowd'
<1>1. TypeOK
  BY DEF IInv
<1>2. \A c \in Backups : ppc[c] # "none" => ppc'[c] # "none"
  BY <1>1, BackupFrame, PrimaryFrame DEF TypeOK, primaryThread
<1>3. PrimaryStep(b) => ppc'[b] # "none"
  BY <1>1, PrimaryFrame DEF TypeOK
<1> QED
  BY <1>2, <1>3 DEF Crowd

\* Without rows and without a second thread there is only one text.
LEMMA OneText ==
  ASSUME IInv, ~hasRows, ~Crowd, NEW x \in Written, NEW y \in Written
  PROVE  x = y
<1>1. x \in servers_table /\ y \in servers_table
  BY DEF Written
<1>2. x \in Structs /\ y \in Structs
  BY <1>1 DEF IInv, TypeOK
<1>3. ppc[x.owner] # "none" /\ ppc[y.owner] # "none" /\ x.owner \in Backups /\ y.owner \in Backups
  BY <1>1, <1>2 DEF IInv, AloneInv, Unlisted, Unnumbered, Structs
<1>4. x.owner = y.owner
  BY <1>3 DEF Crowd
<1>5. x.id = y.id
  BY <1>1, <1>4 DEF IInv, AloneInv
<1> QED
  BY <1>2, <1>4, <1>5 DEF Structs

\* So no update can bring a backup down.
LEMMA AloneReads ==
  ASSUME IInv, ~hasRows, ~Crowd, NEW b \in Backups, NEW batch \in Batches(toBackup[b])
  PROVE  ~Fails(b, batch)
<1>1. batch \in Seq(Packets) /\ ToSet(batch) \subseteq ToSet(toBackup[b])
  BY BatchIsPrefix, BatchElements DEF IInv, TypeOK
<1>2. \A i \in 1..Len(batch) : batch[i] \in ToSet(toBackup[b]) /\ batch[i] \in Packets
  BY <1>1, Elements, ElementOfSeq
<1>3. ASSUME NEW i \in 1..Len(batch), batch[i].type = "UPDATE_BACKUP"
      PROVE  /\ batch[i].text # Blank
             /\ ~(batch[i].length <= Fields[batch[i].text])
             /\ ~(Size[batch[i].text] <= Fields[batch[i].text])
  <2> DEFINE p == batch[i]
  <2>1. p \in ToSet(toBackup[b]) /\ p \in Packets /\ p.type = "UPDATE_BACKUP"
    BY <1>2, <1>3
  <2> HIDE DEF p
  <2>2. p.text # Blank /\ p.length # 0 /\ p.text \in Written /\ p.length \in Lengths
    BY <2>1 DEF IInv, AloneInv, TruthInv
  <2>3. PICK y \in Written \union {Blank} : p.length = strlen(y)
    BY <2>2 DEF Lengths
  <2>4. y \in Texts /\ p.text \in Structs /\ p.text \in Texts
    BY <2>2, <2>3 DEF Written, Texts, IInv, TypeOK
  <2>5. y # Blank /\ p.length = Size[y] + 1
    BY <2>2, <2>3, <2>4, TextLengths
  <2>6. y = p.text
    BY <2>2, <2>3, <2>5, OneText
  <2>7. Fields[p.text] < Size[p.text] /\ Fields[p.text] \in Nat /\ Size[p.text] \in Nat
    BY <2>4, TextsAssumption, TextLengths
  <2>8. ~(p.length <= Fields[p.text]) /\ ~(Size[p.text] <= Fields[p.text])
    BY <2>5, <2>6, <2>7
  <2> QED
    BY <2>2, <2>8 DEF p
<1>4. \A p \in New(b, batch) : \E i \in 1..Len(batch) : p = batch[i] /\ batch[i].type = "UPDATE_BACKUP"
  BY DEF New
<1> QED
  BY <1>3, <1>4 DEF Fails

\* A blank buffer behind a thread that has filled it is the work of another.
LEMMA NextFilled ==
  ASSUME IInv, NEW b \in Backups, BackupStep(b) \/ PrimaryStep(b),
         NEW c \in Backups, Filled(c)', payload' = Blank
  PROVE  Crowd'
<1> USE DEF tables, world, backupThread, primaryThread, links
<1>1. TypeOK /\ AloneInv
  BY DEF IInv
<1>2. CASE BackupStep(b)
  <2>1. Filled(c) /\ payload = Blank
    BY <1>1, <1>2, BackupFrame DEF Filled
  <2> QED
    BY <1>1, <2>1, CrowdStays DEF AloneInv
<1>3. CASE PrimaryStep(b) /\ c # b
  <2>1. ppc'[c] = ppc[c] /\ ppc[c] # "none"
    BY <1>1, <1>3, PrimaryFrame DEF Filled
  <2> QED
    BY <1>3, <2>1, CrowdStays
<1>4. CASE PrimaryStep(b) /\ c = b
  <2> USE DEF Goto
  <2>1. ppc'[b] \in {"cold", "structPacket", "rows", "rowPacket", "recv", "send"}
    BY <1>4 DEF Filled
  <2>2. CASE SetIdAcked(b)
    <3>1. ppc'[b] = "cold" /\ visited'[b] = 0
      BY <1>1, <2>2 DEF SetIdAcked, IInv, QueueInv, TypeOK
    <3> QED
      BY <1>4, <3>1 DEF Filled
  <2>3. CASE Serialize(b)
    <3>1. payload' # Blank
      BY <1>1, <2>3, TextsAssumption DEF Serialize, serialize_server_struct, TypeOK
    <3> QED
      BY <3>1
  <2>4. CASE create_packet(b) \/ RecvFromBackup(b) \/ RecvNothing(b) \/ send_UPDATE(b)
    <3>1. payload' = payload /\ ppc[b] \in {"structPacket", "rowPacket", "recv", "send"}
      BY <1>1, <2>4 DEF create_packet, RecvFromBackup, RecvNothing, send_UPDATE
    <3> QED
      BY <1>1, <3>1, CrowdStays DEF AloneInv, Filled
  <2>5. CASE EndOfTable(b)
    <3>1. /\ payload' = payload
          /\ ppc[b] = "rows" \/ (ppc[b] = "cold" /\ ToVisit(b) = {})
      BY <1>1, <2>5 DEF EndOfTable
    <3>2. Filled(b)
      BY <3>1, VisitedAll DEF Filled
    <3> QED
      BY <1>1, <3>1, <3>2, CrowdStays DEF AloneInv
  <2>6. \/ SetIdAcked(b) \/ Serialize(b) \/ create_packet(b) \/ RecvFromBackup(b) \/ RecvNothing(b)
        \/ send_UPDATE(b) \/ EndOfTable(b)
    BY <1>1, <1>4, <2>1 DEF PrimaryStep, PrimaryThread, Accept, receive_CONNECT_SERVER, LoadCount,
         CountBackup, TakeId, AddServer, send_SET_ID, SetIdUnanswered, ClearPayload, TypeOK
  <2> QED
    BY <2>2, <2>3, <2>4, <2>5, <2>6
<1> QED
  BY <1>2, <1>3, <1>4

\* A struct is put into the table by its owner's thread, which keeps its id.
LEMMA NextListed ==
  ASSUME IInv, NEW b \in Backups, BackupStep(b) \/ PrimaryStep(b), NEW x \in servers_table'
  PROVE  ppc'[x.owner] \notin Unlisted /\ x.id = current_server_id'[x.owner]
<1> USE DEF tables, world, backupThread, primaryThread, links, Goto
<1>1. TypeOK /\ AloneInv
  BY DEF IInv
<1>2. CASE x \in servers_table
  <2>1. x.owner \in Backups /\ ppc[x.owner] \notin Unlisted /\ x.id = current_server_id[x.owner]
    BY <1>1, <1>2 DEF AloneInv, TypeOK, Structs
  <2>2. CASE BackupStep(b) \/ x.owner # b
    BY <1>1, <2>1, <2>2, BackupFrame, PrimaryFrame
  <2>3. CASE PrimaryStep(b) /\ x.owner = b
    <3>1. ppc'[b] \notin Unlisted /\ current_server_id' = current_server_id
      BY <1>1, <2>1, <2>3 DEF PrimaryStep, PrimaryThread, Accept, receive_CONNECT_SERVER, LoadCount,
           CountBackup, TakeId, AddServer, send_SET_ID, SetIdAcked, SetIdUnanswered, ClearPayload,
           Serialize, create_packet, EndOfTable, RecvFromBackup, RecvNothing, send_UPDATE,
           TypeOK, Unlisted, Unnumbered
    <3> QED
      BY <2>1, <2>3, <3>1
  <2> QED
    BY <2>2, <2>3
<1>3. CASE x \notin servers_table
  <2>1. PrimaryStep(b) /\ servers_table' # servers_table
    BY <1>3, BackupFrame, <1>1
  <2>2. AddServer(b)
    BY <2>1 DEF PrimaryStep, PrimaryThread, Accept, receive_CONNECT_SERVER, LoadCount, CountBackup, TakeId,
         send_SET_ID, SetIdAcked, SetIdUnanswered, ClearPayload, Serialize, create_packet, EndOfTable,
         RecvFromBackup, RecvNothing, send_UPDATE
  <2>3. x = Struct(current_server_id[b], b) /\ ppc'[b] = "offer" /\ current_server_id' = current_server_id
    BY <1>1, <1>3, <2>2 DEF AddServer, Insert, TypeOK
  <2> QED
    BY <2>3 DEF Struct, Unlisted, Unnumbered
<1> QED
  BY <1>2, <1>3

\* Only a crowd, or a row, brings a backup down.
LEMMA NextAloneInv ==
  ASSUME IInv, NEW b \in Backups, BackupStep(b) \/ PrimaryStep(b)
  PROVE  AloneInv'
<1> USE DEF tables, world, backupThread, primaryThread, links
<1>1. TypeOK /\ AloneInv
  BY DEF IInv
<1>2. hasRows' = hasRows /\ (Crowd => Crowd')
  BY WrittenGrows, CrowdStays
<1>3. ASSUME NEW id \in Ids, NEW e \in ToSet(packet_to_send_table'[id]), e.length = 0
      PROVE  Crowd'
  <2>1. CASE e \in ToSet(packet_to_send_table[id])
    BY <1>1, <1>2, <1>3, <2>1 DEF AloneInv
  <2>2. CASE e \notin ToSet(packet_to_send_table[id])
    <3>1. PrimaryStep(b)
      BY <1>1, <1>3, <2>2, BackupFrame
    <3>2. ppc[b] \in {"structPacket", "rowPacket"} /\ strlen(payload) = 0
      BY <1>3, <2>2, <3>1, TablesGrow
    <3>3. payload = Blank
      BY <1>1, <3>2, TextLengths DEF TypeOK
    <3> QED
      BY <1>1, <1>2, <3>2, <3>3 DEF AloneInv, Filled
  <2> QED
    BY <2>1, <2>2
<1>4. ASSUME NEW c \in Backups, NEW p \in ToSet(toBackup'[c]),
             p.type = "UPDATE_BACKUP", p.text = Blank \/ p.length = 0
      PROVE  Crowd'
  <2>1. CASE p \in ToSet(toBackup[c])
    BY <1>1, <1>2, <1>4, <2>1 DEF AloneInv
  <2>2. CASE /\ c = b /\ ppc[b] = "send" /\ p.text = payload
             /\ \E id \in Ids : \E e \in ToSet(packet_to_send_table[id]) : p.length = e.length
    BY <1>1, <1>2, <1>4, <2>2 DEF AloneInv, Filled
  <2> QED
    BY <1>4, <2>1, <2>2, Delivered
<1>5. ASSUME NEW c \in Backups, bpc'[c] = "crashed"
      PROVE  hasRows \/ Crowd
  <2>1. CASE bpc[c] = "crashed"
    BY <1>1, <2>1 DEF AloneInv
  <2>2. CASE bpc[c] # "crashed"
    <3>1. c = b /\ BackupStep(b)
      BY <1>1, <1>5, <2>2, BackupFrame, PrimaryFrame
    <3>2. CrashOnUpdate(b)
      BY <1>1, <1>5, <2>2, <3>1 DEF BackupStep, BackupThread, KillBackup, setup_socket,
           send_CONNECT_SERVER, ConnectAcked, ConnectUnanswered, receive_SET_ID, FirstPing,
           RecvFromPrimary, send_ping_to_primary, LeaveLoop, BackupLoopEnd, TypeOK
    <3>3. PICK batch \in Batches(toBackup[b]) : Fails(b, batch)
      BY <3>2 DEF CrashOnUpdate
    <3> QED
      BY <3>3, AloneReads
  <2> QED
    BY <2>1, <2>2
<1>6. \A x \in servers_table' : ppc'[x.owner] \notin Unlisted /\ x.id = current_server_id'[x.owner]
  BY NextListed
<1>7. \A c \in Backups : Filled(c)' /\ payload' = Blank => Crowd'
  BY NextFilled
<1> QED
  BY <1>2, <1>3, <1>4, <1>5, <1>6, <1>7 DEF AloneInv

-----------------------------------------------------------------------------
(* The theorems *)

\* At the start nobody has connected, nothing has been sent.
LEMMA InitIInv == Init => IInv
<1> SUFFICES ASSUME Init PROVE IInv
  OBVIOUS
<1> USE ReplicationAssumption, IdNumbers DEF Init
<1>1. TypeOK
  <2>1. <<>> \in Seq(Packets) /\ <<>> \in Seq([type : UpdateTypes, length : Nat]) /\ Blank \in Texts
    BY EmptySeq DEF Texts
  <2>2. num_backup_servers \in 0..Cardinality(Backups) /\ 0 \in 0..(MAX_TRIES + 1)
    OBVIOUS
  <2> QED
    BY <2>1, <2>2 DEF TypeOK
<1>2. Passed = {} /\ CountInv
  <2>1. Passed = {}
    BY DEF Passed, Unnumbered
  <2> QED
    BY <2>1, FS_EmptySet DEF CountInv, Unnumbered
<1>3. TriesInv
  BY DEF TriesInv
<1>4. /\ \A b \in Backups : ToSet(toBackup[b]) = {} /\ ToSet(toPrimary[b]) = {}
      /\ \A id \in Ids : ToSet(packet_to_send_table[id]) = {}
  BY DEF ToSet
<1>5. TruthInv
  BY <1>4 DEF TruthInv
<1>6. QueueInv
  BY <1>4 DEF QueueInv, Queueing, Serving
<1>7. AloneInv
  BY <1>4 DEF AloneInv, Filled
<1>8. \A b \in Backups : HandshakeInv(b)
  BY <1>4 DEF HandshakeInv, Queueing, Serving, Over
<1> QED
  BY <1>1, <1>2, <1>3, <1>5, <1>6, <1>7, <1>8 DEF IInv

\* Rows, signals and the end of the primary disturb nothing.
LEMMA WorldIInv ==
  ASSUME IInv, WorldStep
  PROVE  IInv'
<1>1. /\ UNCHANGED <<tables, primaryThread, backupThread, links>>
      /\ hasRows => hasRows'
  BY DEF WorldStep, ClientConnects, KillPrimary, set_termination_signal, vars, world, IInv, TypeOK
<1> USE <1>1 DEF IInv, tables, primaryThread, backupThread, links
<1>2. TypeOK'
  BY WorldTypeOK
<1>3. Passed' = Passed
  BY DEF Passed
<1>4. CountInv' /\ TriesInv'
  BY <1>3 DEF CountInv, TriesInv
<1>5. QueueInv'
  BY DEF QueueInv
<1>6. AloneInv'
  BY DEF AloneInv, Crowd, Filled
<1>8. TruthInv'
  <2>1. Written \subseteq Written'
    BY DEF Written
  <2>2. \A t : strlen(t)' = strlen(t)
    BY DEF strlen
  <2>3. ASSUME NEW n \in Lengths PROVE n \in Lengths'
    BY <2>1, <2>2, <2>3 DEF Lengths
  <2>4. payload' \in Written' \union {Blank}
    BY <2>1 DEF TruthInv
  <2>5. \A b \in Backups : ppc'[b] \in {"row", "rowPacket"} => hasRows'
    BY DEF TruthInv
  <2>6. \A b \in Backups : \A x \in known'[b] :
          /\ x.text \in Written'
          /\ ~x.whole => \E y \in Written' : Size[y] + 1 < Size[x.text]
    BY <2>1 DEF TruthInv
  <2>7. /\ \A id \in Ids : \A e \in ToSet(packet_to_send_table'[id]) : e.length \in Lengths'
        /\ \A b \in Backups : \A p \in ToSet(toBackup'[b]) :
             p.type = "UPDATE_BACKUP" => p.text \in Written' \union {Blank} /\ p.length \in Lengths'
    BY <2>1, <2>3 DEF TruthInv
  <2> QED
    BY <2>4, <2>5, <2>6, <2>7 DEF TruthInv
<1>7. \A b \in Backups : HandshakeInv(b)'
  BY DEF HandshakeInv, SetId
<1> QED
  BY <1>2, <1>4, <1>5, <1>6, <1>7, <1>8

\* Every step keeps the invariant.
LEMMA NextIInv == IInv /\ [Next]_vars => IInv'
<1> SUFFICES ASSUME IInv, [Next]_vars PROVE IInv'
  OBVIOUS
<1>1. CASE WorldStep
  BY <1>1, WorldIInv
<1>2. ASSUME NEW b \in Backups, BackupStep(b) \/ PrimaryStep(b)
      PROVE  IInv'
  <2>1. TypeOK'
    BY <1>2, BackupTypeOK, PrimaryTypeOK
  <2>2. CountInv'
    <3>1. CASE BackupStep(b)
      <4>1. UNCHANGED <<tables, primaryThread>>
        BY <3>1, BackupFrame DEF IInv
      <4>2. Passed' = Passed
        BY <4>1 DEF Passed, primaryThread
      <4> QED
        BY <4>1, <4>2 DEF IInv, CountInv, primaryThread, tables
    <3> QED
      BY <1>2, <3>1, PrimaryCountInv
  <2>3. HandshakeInv(b)' /\ \A c \in Backups \ {b} : HandshakeInv(c)'
    BY <1>2, BackupHandshake, PrimaryHandshake, OthersHandshake
  <2> QED
    BY <1>2, <2>1, <2>2, <2>3, NextTriesInv, NextTruthInv, NextQueueInv, NextAloneInv DEF IInv
<1> QED
  BY <1>1, <1>2 DEF Next, WorldStep, BackupStep, PrimaryStep

\* The invariant of the primary, its backups and what is between them.
THEOREM ReplicationInvariant == Spec => []IInv
BY InitIInv, NextIInv, PTL DEF Spec

\* Ids, FIFOs and tables keep their types: no id is given that has no FIFO.
THEOREM ReplicationTypes == Spec => []TypeOK
<1>1. IInv => TypeOK
  BY DEF IInv
<1> QED
  BY <1>1, ReplicationInvariant, PTL

\* A handshake that is over has left the same id on both sides, whatever was
\* repeated or dropped in it and however many backups joined at once.
THEOREM IdsAlwaysAgree == Spec => []IdsAgree
<1>1. IInv => IdsAgree
  BY DEF IInv, HandshakeInv, IdsAgree
<1> QED
  BY <1>1, ReplicationInvariant, PTL

\* Whatever the texts and their lengths, a backup believes in no server that the
\* primary has not written, and in a wrong port only where another text is shorter.
THEOREM BackupsKnowTheTruth == Spec => []KnownIsTrue
<1>1. IInv => KnownIsTrue
  BY DEF IInv, TruthInv, KnownIsTrue
<1> QED
  BY <1>1, ReplicationInvariant, PTL

\* Only rows and other backups endanger a backup.
THEOREM AloneIsSafe == Spec => []SurvivesAlone
<1>1. IInv => SurvivesAlone
  <2>1. ASSUME IInv, NEW b \in Backups, bpc[b] = "crashed", ~hasRows
        PROVE  \E c \in Backups \ {b} : ppc[c] # "none"
    <3>1. Crowd
      BY <2>1 DEF IInv, AloneInv
    <3> QED
      BY <3>1 DEF Crowd
  <2> QED
    BY <2>1 DEF SurvivesAlone
<1> QED
  BY <1>1, ReplicationInvariant, PTL

\* Cold replication queues rows; here, none is ever on its way to a backup.
RowsNeverSent == \A b \in Backups : ~Has(toBackup[b], "UPDATE_ROW")

\* A defect: cold replication is to send every row (server.cpp:547, 921), but the
\* FIFO is popped in a copy (server.cpp:957), so that its front, a struct, is sent
\* for ever, with any number of rows and backups.  This is why Replication needs no
\* case UPDATE_ROW.
THEOREM RowsStayQueued == Spec => []RowsNeverSent
<1>1. ASSUME IInv, NEW b \in Backups
      PROVE  ~Has(toBackup[b], "UPDATE_ROW")
  <2>1. \A i \in 1..Len(toBackup[b]) : toBackup[b][i] \in ToSet(toBackup[b])
    BY <1>1, Elements DEF IInv, TypeOK
  <2> QED
    BY <1>1, <2>1 DEF Has, IInv, QueueInv
<1>2. IInv => RowsNeverSent
  BY <1>1 DEF RowsNeverSent
<1> QED
  BY <1>2, ReplicationInvariant, PTL
=============================================================================
