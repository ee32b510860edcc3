# Verification of the notification service

The repository is a small Twitter-like service: users connect to a server as a
*profile*, follow other profiles, and send messages that every follower of the
profile receives as notifications. A profile may have two sessions (two client
processes) at a time. A primary server replicates its table to backup servers.

This directory holds TLA+ modules translated from the code, the TLC
configurations that check them on small instances, and TLAPS proofs of the main
invariants for instances of any size. Line numbers are those of `src/src/*.cpp`
and `src/include/*.hpp`.

## 1. The system

| part | code | state it keeps | operations |
|---|---|---|---|
| readers/writer lock | `Row.cpp:127-143`, `MasterTable.cpp:183-199` | `reader_counter`, `reader_mutex`, `read_write_mutex` | shared lock and unlock; writers lock the second mutex directly |
| row of a profile | `Row.cpp` | `active_sessions`, `sessions`, `followers`, `messages_to_receive`, `notification_delivered` | connectUser, closeSession, add/has/get/popNotification, get/set_notification_delivered, followers |
| profile table | `MasterTable.cpp` | `table`: name to row | addUserIfNotExists, followUser, sendMessageToFollowers, getRow, addRow, getTable |
| backup file | `MasterTable.cpp:99-172` | `backup_table.txt` | save (truncate and rewrite), load |
| session thread | `server.cpp:1000-1107`, handlers `245-426`, `564-600` | `seqn`, `send_tries`, `max_reference_seqn`, `currentUser` | one turn of its loop: send the next notification, read, handle each packet read, sleep |
| accept loop | `server.cpp:1115-1274` | list of threads, `termination_signal` | accept, start threads, close, join, exit |
| primary's replication thread | `server.cpp:877-998`, `428-562`, `660-746` | `servers_table`, `num_backup_servers`, `packet_to_send_table` | CONNECT_SERVER, SET_ID, cold replication, updates |
| backup's replication thread | `server.cpp:749-874`, `365-394`, `603-657` | `my_backup_id`, its own table | CONNECT_SERVER, heartbeats, UPDATE_BACKUP, UPDATE_ROW |
| client, communication thread | `client.cpp:144-338` | `seqn`, `packets_to_send_fifo`, `max_reference_seqn` | CONNECT, receive and acknowledge, send with retries, DISCONNECT |
| client, interface thread | `client.cpp:433-532` | `payload`, `packets_received_fifo` | commands, printing |
| client, change of server | `client.cpp:343-430` | `server_change_signal` | listen, take SERVER_CHANGE, restart the communication thread |
| packets | `packet.cpp` | none | create, serialise, parse |
| row serialisation | `Row.cpp:145-302`, `session.cpp` | none | text with `#`, `$` and `&` between fields |

How they interact: a client's communication thread and a session thread
exchange packets over one TCP connection; every packet but ACK and ERROR is
answered by an ACK or an ERROR with the same number, and a notification is
repeated until its ACK comes. Session threads of one profile share its row
through the lock. A SEND in one thread appends to the rows of the followers,
where their threads find it in a later turn. main only accepts and joins. In
the client the two threads share two FIFOs under mutexes, and `seqn` and the
payload buffer without.

What is hard here, and what must be true of each part:

* **lock**: readers enter and leave while others do; a mutex is unlocked by
  another thread than the one that locked it. It must exclude, and not jam.
* **two sessions, one list**: the threads agree through one Boolean, read and
  written in separate critical sections, who removes a notification. Nothing may
  be removed that no session received; nobody may take the front of an empty
  list; no session may see notifications backwards.
* **retransmission both ways**: a notification is repeated every turn, a command
  up to three times; reads return several packets of which the client looks at
  the first; ACKs are matched by number, or not at all. What one side gives must
  arrive once and in order.
* **places**: `active_sessions` limits a profile to two sessions and selects how
  an ACK is treated. It must count exactly the sessions that are in, however
  each one ends.
* **handlers without a user**: all handlers but CONNECT's need the session's
  row; none may run before CONNECT.
* **table and file**: one row's change, the rewriting of the whole file, and the
  walk over all followers, by threads of all sessions, with restarts. What was
  answered must not be forgotten, and no row that is needed be missing.
* **replication**: an unlocked counter gives the ids, an unlocked table and one
  global buffer hold what is sent, the length of each update was taken when it was
  queued, a FIFO is popped in a copy, and both sides repeat and drop packets. The two sides must agree on the id, a backup must
  learn nothing that is not so, and each must notice that the other is gone.
* **file text**: names are written as they are and read back by splitting at
  dots and commas. What is read must be what was written.
* **shutdown**: a signal handler takes a mutex the thread it interrupts may
  hold; main joins threads that wait for others. Nothing may be freed that a
  thread still uses, and the server must end.
* **change of server**: communication threads start one another, other threads
  write the address they connect to, and main joins one thread by its id. There
  must be one connection at a time, to a server that exists, and the client
  must end when the user says so.

## 2. Modules

    AbstractRWLock   what a readers/writer lock promises
    RWLock           the lock of Row and MasterTable, mutex by mutex
    RWLockProof      its proofs

    Wire             connections and packets
    SocketThread     one row, main, and the session threads     (EXTENDS Wire)
    Client           the client processes                       (EXTENDS Wire)
    ReliableFifo     what a session promises in either direction
    FeedSystem       all of it together, and its properties     (EXTENDS SocketThread, Client)
    MCFeedSystem     what the users type in the runs
    FeedTypesProof   types of handlers, messages and clients    (EXTENDS FeedSystem)
    FeedSystemProof  the inductive invariant of sessions        (EXTENDS FeedTypesProof)
    DeliveryProof    what notifications and commands are promised (EXTENDS FeedSystemProof)

    FileText         the text of the file and its parsing
    MasterTable      the table of all profiles and its file     (EXTENDS FileText)
    MCMasterTable    the profiles of the runs                   (EXTENDS MasterTable)
    MasterTableProof the text that is read back, and the invariant (EXTENDS MasterTable)

    Replication      the primary and its backups
    MCReplication    the backups of its runs                    (EXTENDS Replication)
    ReplicationProof its inductive invariant and theorems       (EXTENDS Replication)

    Shutdown         the signal, the threads and main's joins
    ShutdownProof    its inductive invariant and theorems       (EXTENDS Shutdown)

    ServerChange     how a client changes to another server
    ServerChangeProof its inductive invariant and theorems      (EXTENDS ServerChange)

The modules of the feed and of the table look at the same session threads from
two sides, `Shutdown` at when they and the replication threads end, and
`ServerChange` at the threads whose inner life is in `Client`. What one takes
from another is said where it takes it.

### RWLock

A thread is at one of the points between two mutex operations. `CountIn` takes
`reader_mutex` and increments; `FirstReaderLocks` waits for `read_write_mutex`
with `reader_mutex` held; `EnterRead` unlocks it; `CountOut`, `LastReaderUnlocks`
and `LeaveRead` mirror them; `WriteLock` and `WriteUnlock` are a writer.
`AbstractRWLock` has a set of threads reading and a set writing; the mapping
counts a thread from the step that lets it in to the step that lets it out.

The feed modules use the result: each Row operation is one atomic step, and only
what lies *between* two Row operations of a thread can be interleaved.

### Wire

Two FIFO channels and two open/closed ends for each session. `Batches(q)` are
the results one read of a channel can have: any non-empty prefix of what has
arrived. Writing to an end that is closed loses the packet (the server writes
with `MSG_NOSIGNAL` and ignores the result).

### SocketThread

All sessions in `Sessions` belong to profile `Me`; its row exists, because
handling CONNECT creates it first (`addUserIfNotExists`) and nothing removes
one. The variables are those of the row (`active_sessions`,
`notification_delivered`, `messages_to_receive`), of main (`up`,
`termination_signal`, `listening`) and of each thread (`seqn`, `send_tries`,
`max_reference_seqn`, `connected` for `currentUser`, `inbuf` for what `strtok_r`
has not taken from the buffer yet, and `spc`).

| `spc` | the thread is about to | action |
|---|---|---|
| `none` | be started by main | `Accept` |
| `send` | look for a notification | `hasNewNotification` |
| `peek` | take the front and write it | `send_notification` |
| `recv` | read | `RecvBatch`, `RecvNothing` |
| `parse` | handle the next packet | `Duplicate`, `receive_CONNECT`, `receive_FOLLOW`, `receive_SEND`, `receive_DISCONNECT`, `receive_ACK`, `StrayAck` |
| `flag`, `set`, `wait` | read, set, wait on the delivered flag | `get_notification_delivered`, `set_notification_delivered`, `WaitReleased`, `WaitTimedOut` |
| `pop`, `clear` | remove the front, clear the flag | `popNotification`, `ClearDelivered` |
| `sleep` | test the loop's condition | `LoopAgain`, `LeaveLoop` |
| `done` | nothing: it has ended | |

`Crash` is what the build does on `front()` of an empty list and on
`find(...)->second` of a missing row: the process dies, and with it all
connections. Undefined behaviour that the build turns into something harmless is
modelled by that: `closeSession` looks its session up by the address of a local,
never finds it, and frees what `end()` holds, a null pointer.

### Client

One process per session. `cpc` is the communication thread (`connect`, `await`,
`loop`, `send`, `sending`, `dead`), `ipc` the interface thread: `TypeCommand` is
the parsing of a line, with `payload` overwritten and `seqn` read; `PushCommand`
is `seqn++` and the push, which waits while `send_message` holds the mutex; the
unlocked increment may lose the communication thread's. `send_message`,
`ReadNothing`, `ReadReply` and `Retry` are the loop of three reads: any ACK
confirms, an ERROR has the packet written again, anything else is thrown away.
A process ends by `Disconnect` after control-C or control-D (`Quit`), by being
killed (`Kill`), or by `LoseConnection`: by SIGPIPE when it writes to a closed
connection, or by parsing the empty buffer of an end of file while it waits for
the answer to CONNECT.

### MasterTable

Where the feed modules look at one profile's row from all sides, this one looks
at all rows: `table` (followers by name), `inbox` (what was ever put into
`messages_to_receive`), `file` (`backup_table.txt`), and the session threads.
`RWLockProof` shows that the table's lock excludes; it is therefore one variable
(`writer`), and its sections are taken apart only where something can come
between.

| `pc` | the thread | actions |
|---|---|---|
| `idle` | takes the next packet | `AddUser`, `followUser`, `SendMessage`, `Disconnect` |
| `changed` | has changed the table, with the lock | `Truncate` |
| `saving`, `cut` | writes the file, with the lock | `WriteSome`, `CloseFile` |
| `reply` | has released the lock | `Answer` |
| `walk` | goes over the followers, with the lock shared | `NotifyFollower`, `AnswerSend` |

Characters reach the file in the order of the map's lines, when the stream's
buffer fills (`WriteSome`: all lines before one, and that one up to any
character) and at `close`. `Kill` stops the process anywhere (`KillInSave`) or
anywhere but between truncation and close. `load_backup_table` makes the table
that the text of the file is read as (`Read`, below), so that a restart changes
what the parser changes: a profile with a dot in its name comes back under
another name, with another follower. A line of dots alone has no name; the server
does not start with one in its file. A follower without a row stops the process
when a SEND comes to it (`NotifyFollower`). `answered`, `sent`, `due` and `done`
are histories for the properties. A thread stands for one session after another.
That CONNECT can be refused for lack of a place is in `SocketThread`; nothing else
about rows is repeated here.

### FileText

A name is the sequence of its `Characters`, of which the dot is one. Commas are in
no name, because `receive_CONNECT` cuts its payload at the first (and reads the
listening port from what follows). `Line` is the text of a row; `Passed`,
`TokenEnd`, `Token` and `Behind` are one call of `strtok_r`, which `TokensOf`
repeats until nothing is left; `NameRead` and `FollowersRead` are what
`load_backup_table` takes from a line: dots at its beginning are passed over, the
name ends at the next one, and all behind that is followers. `Read` is the map it
builds, in which the first of the lines read with one name counts; `Precedes` is
the order of the map and so of the lines, with any order of characters (`Code`).
So `b.c` comes back as `b` with a follower `c.`, unless there is a `b`, which
precedes it; and `.b`, which precedes `b`, takes its row.

### Replication

One primary and `Backups`, with a connection between each backup's thread and
the primary's thread for it.

| `bpc` | the backup is about to | actions |
|---|---|---|
| `start` | connect | `setup_socket` |
| `connected` | write CONNECT_SERVER | `send_CONNECT_SERVER` |
| `await` | read for its ACK | `ConnectAcked`, `ConnectUnanswered` |
| `id` | read until something comes, and take it for SET_ID | `receive_SET_ID` |
| `ping` | send the first heartbeat | `FirstPing` |
| `loop` | read, or send a heartbeat | `RecvFromPrimary`, `CrashOnUpdate`, `send_ping_to_primary`, `LeaveLoop` |

| `ppc` | the primary's thread is about to | actions |
|---|---|---|
| `none` | be started | `Accept` |
| `connect` | read until CONNECT_SERVER comes, and answer | `receive_CONNECT_SERVER` |
| `load`, `count`, `take` | load the counter, store it, read it back | `LoadCount`, `CountBackup`, `TakeId` |
| `table` | put the backup into `servers_table` | `AddServer` |
| `offer`, `setid` | write SET_ID, read for its ACK | `send_SET_ID`, `SetIdAcked`, `SetIdUnanswered` |
| `cold`, `rows` | clear the buffer for the next struct or row | `ClearPayload`, `EndOfTable` |
| `struct`, `row` | write it into the buffer | `Serialize` |
| `structPacket`, `rowPacket` | take the length of what the buffer holds and queue the packet | `create_packet` |
| `recv`, `send` | read, send the front of its FIFO | `RecvFromBackup`, `RecvNothing`, `send_UPDATE` |

A queued packet is its type and a length: its text is the global buffer's, at
the moment it is written (`payload`), its length that of what the buffer held when
`create_packet` was called, perhaps the text of another thread. The backup keeps
no more characters than the packet says (`Received`), so that a longer text
arrives cut; `Size` and `Fields` say how long each text is and where its second
comma stands. `Fails` is what brings a backup down: a packet without text in
`buffer_to_packet`, and in `unserialize_server_struct` a text of which nothing is
left behind its second comma, be it a row's or a struct that was cut there. A row
that has two commas, and enough of it behind them, passes for a struct. The FIFO belongs to
an id, not to a thread. `Popped` is the identity, because `pop_front` is called on
a copy (`server.cpp:957`). The primary's own struct is not in `servers_table`.

What follows from it, and is easy to see in TLC's traces: a backup is only ever
sent the struct at the front of its FIFO, that of the smallest id it was given,
with whatever text the buffer holds, cut to the length it was queued with; two
backups that connect together can get
one id, one FIFO and one entry (the increment at 897 has no lock, though
the comment at 909 calls the id unique); a row that exists when a backup joins
can crash a backup instead of reaching it.

### Shutdown

`exit_hook_handler` runs on the thread the system interrupts (`handler`), and
takes `termination_signal_mutex` as the threads do that ask. A thread is at
`turn`, asks (`ask`, `asked`) and goes on, leaves, or ends by itself; a
thread for another server first waits for its CONNECT_SERVER or SET_ID
(`wait`). A backup's main first starts the thread for its primary
(`ConnectToPrimary`); if that gets no ACK for its CONNECT_SERVER it calls `exit`,
and the process ends without joins (`send_CONNECT_SERVER`, `server.cpp:770`). A
thread of the primary whose SET_ID is not acknowledged only ends (`EndInTurn`). `get_next_session_id` uses the same mutex (`number`, `numbered`).
Main accepts a client, accepts a server, asks; after the signal it joins the
threads in the order of the list (`pthread_join`), deletes rows and pointers
(`deleteRows`) and exits. `Leave` of a session thread without a user brings the
process down: it closes a session in the row of `not-connected`, which does not
exist.

### ServerChange

`communication_thread` copies the parameters, but the address in them is a
pointer; `setup_socket` uses the address as it is by then. A thread in its loop
ends at control-C (`LeaveLoop`) or starts the next (`DetectChange`,
`HandOver`). A `server_change_thread` for each announcement writes the address,
the port and the signal in three steps, without a lock. If it takes the
announcement for one received already (the variable it compares with has never
been set) it acknowledges it and reads on, and may take a later one
(`AlreadyReceived`). main waits for the thread that `communication_tid` names when it
calls `pthread_join`, then calls `exit`.

### What the models leave out

* Payloads are names or numbers; a notification is its position in the order of
  arrival. Packets are kept whole: the split of one over two reads is not
  modelled, nor the bytes that `strncpy` without a terminator leaves behind a
  notification's text.
* The payload a client's packet is sent with is the present content of the buffer
  it points to (`Client`); the length stored earlier is taken to fit. In
  `Replication` it is not.
* `SocketThread` starts a thread when the client has written CONNECT; main
  accepts before that, but until something is read the thread does nothing that
  anybody sees. Its crash at a shutdown without CONNECT is in `Shutdown`.
* `send_message_to_client` labels a notification MSG or CONNECT (type 3 or 0) by
  the delivered flag; the client does not look, so both are MSG.
* Another profile's SEND is the step `addNotification`. What this profile's SEND
  appends is in other profiles' rows, and is recorded as `executed`.
* FOLLOW changes the followed profile's list of followers; seen from `Me` that
  is the set `following`.
* `LoopReceive` with nothing to send goes back to the loop in one step.
* Sequence numbers do not wrap; the code's do, at 65536, in the packet only.
* The text of rows and sessions (`serialize_row`, `unserialize_row`, `session.cpp`).
  It is made for cold replication and never parsed, since no row is sent; in
  `Replication` it is one text with a length. Its parser would not be ready for
  it: `strtok_r` merges empty fields, so that a row without followers or waiting
  messages leaves the last field NULL (`Row.cpp:271-303`); each of two sessions is
  parsed from the beginning of the field, and so as the first (258); names and
  messages may hold the delimiters. Nor does `closeSession` ever erase a session:
  it looks up the address of a local (14-16).
* In `Replication` texts are written to and read from the shared buffer as wholes
  (no two of them mixed character by character), `serialize_server_struct` clears
  `BUFFER_SIZE` characters of a buffer that is declared with `PAYLOAD_SIZE`
  (`server.cpp:39`), and all servers' addresses are `inet_ntoa`'s one string.
* `getTable` copies the map without its lock, while another thread may insert:
  that is undefined behaviour without a bounded set of outcomes, and the copy is
  taken to be made in one step.
* `addRow` and the backup's case UPDATE_ROW: no row is ever received. That is a
  defect, which theorem `RowsStayQueued` states: cold replication is to send every
  row (`server.cpp:547`, 921, `Docs/TODO_list.txt:7-9`).
* Sequence numbers in `Replication`: no ACK's number is compared there, and an
  update is only distinguished as new or not.
* One row stands for all in cold replication, since none is ever sent.
* Texts longer than their buffer, and failures of `malloc`, `pthread_create` and
  of the reading of arguments.
* The second look at the signal that main's loop and the threads take to print a
  message.

## 3. Properties

Of the lock: `LockInv`, `MutualExclusion`, `ImplementsAbstract`, `NeverJammed`.

Of the feed, in `FeedSystem`:

* `PlacesCounted`: `active_sessions` is the number of connected sessions, at
  most two, through refusals, disconnections, timeouts, and shutdown.
* `ConnectedFirst`: no handler but CONNECT's runs for an unconnected session.
* `SessionInv`: the inductive invariant behind both (section 6).
* `NothingLost`: what was popped had been taken in by a session.
* `NeverFrontOfEmpty`: no `front()` or `pop_front()` of an empty list.
* `NeverBackwards`: no session sees a notification after a later one; `SeenInv`
  is the invariant behind it. What a client took in (`Accepted`) holds a
  `NoData` for each ACK or ERROR that its loop printed; the order is that of the
  notifications among them.
* `FeedIsReliable`: to a profile with one session its feed is a reliable FIFO
  (`ReliableFifo`, by a refinement mapping).
* `CommandsAreReliable`: so are the commands of a user who waits for each
  confirmation.
* `ListenerInv` and `CommandInv`: the invariants behind the promises to one
  session that listens, and to users who wait.
* `CommandsInOrder`: what remains of that to a user who does not wait. No command
  is executed twice or after a later one; some are left out, or name what a later
  one names. It is proved for every instance (section 6) and is in no listed run:
  TLC found no violation of it, or of the invariant `NumbersInv` behind it, on
  instances with `Patient = FALSE` (8.7 million states) before the proof.
* `EveryNotificationPrinted`, `DeadSessionIsClosed`, `TypedIsExecuted`: liveness.

Of the table, in `MasterTable`:

* `FollowsSurvive`: a FOLLOW answered by an ACK is in force whenever the server
  runs, after other threads' saves and after restarts.
* `FollowersHaveRows`: each follower has a row, on which
  `sendMessageToFollowers` relies when it dereferences `find`.
* `ReachesFollowers`: an answered SEND is with everybody whose FOLLOW had been
  answered before; `OncePerFollower`: and with nobody twice.
* `TableInv`: the inductive invariant behind them (section 6).
* `FileReadsBack`: whenever nobody changes the table, the text of the file is read
  as the table that is in memory.

Of replication, in `Replication`:

* `IdsAgree`: after the handshake the backup has the id its thread has.
* `KnownIsTrue`: whatever a backup has stored was read from one text that the
  primary wrote, the struct of a server in its table or a row; and from a cut one
  only if another text is shorter. It does not say that all is well: a port may
  have lost digits, and a row with commas in it pass for a server.
* `SurvivesAlone`: a crash needs a row or a second backup.
* `HandshakeEnds`, `DeadPrimaryNoticed`, `DeadBackupNoticed`: liveness, with the
  waits without a way out as their stated exceptions.

Of shutdown: `NoUseAfterDelete`, and `ShutdownEnds`, again with its exceptions:
the handler that waits for its own thread, and the thread that waits for another
server. Crashes and the `exit` of a backup without primary count as ends.

Of the change of server: `TornOnlyByTwo` (an address of one server with the port
of another needs two that announce themselves), `OneCommunication`,
`UserEndsClient`.

## 4. Runs

Bounds: `NumNotifs` notifications arrive; each thread's wait times out at most
`MaxTimeouts` times; a client calls `send_message` at most `MaxSends` times;
`Script` is what each user types.

| run | instance | shows |
|---|---|---|
| `RWLock` | 3 threads, each reading and writing again and again | the lock excludes, implements the abstract lock, and under fairness of the threads no one waits for ever |
| `Listener` | 1 session that only listens, 2 notifications, the code's `MAX_TRIES`; kill, quit, termination anywhere; fair | the feed is reliable; nothing is lost; the list is never empty when its front is taken; every notification is printed, or the session ends; a dead client's place is freed |
| `Sessions` | 3 sessions for 2 places, 2 notifications, one of the clients may quit, each thread's wait may time out once | the places and the session phases; whatever the races of two sessions do, none goes backwards |
| `PatientUser` | 1 session, a FOLLOW that is refused and a SEND, one notification in between, quits and kills, 2 tries of `send_message`; fair | commands are executed once and in order, and the invariant that this rests on holds; what is typed is executed, or the session ends, or the bound on sends is used up |
| `Table` | 2 threads, 3 profiles without dots that follow each other, one name the beginning of another, one message, disconnections, one kill, not inside a save | the table's four properties, and that the text of the file is read back as the table |
| `Replica` | 1 backup, the code's `MAX_TRIES`, 3 packets or heartbeats in flight; both processes may be killed or interrupted; fair | the handshake ends, and each side notices that the other is gone |
| `TwoBackups` | 2 backups, 1 try, 2 packets in flight, heartbeats only on an empty connection, a row before or after; structs of two lengths, and a row that a third length cuts before it can be parsed | ids, what backups learn, and what brings them down |
| `Shutdown` | 1 client, 1 backup, and a primary or none, 2 signals; fair | nothing is used after it was deleted; the server ends |
| `ServerChange` | 2 announcing servers; fair | one connection at a time, to a whole address; the client ends |

Three more runs show that something the repository says is not so; each checks
one property, and TLC finds the counterexample:

| run | property | what happens |
|---|---|---|
| `StaleAck` | `NothingLost` | one session: the client acknowledges the late ACK of its own command, with a number that is that of a notification |
| `CutSave` | `FollowsSurvive` | as `Table`, but the kill may come inside a save: the file is cut, and a FOLLOW answered long before is gone |
| `DottedName` | `FollowersHaveRows` | as `Table` with a profile `b.c`: after a restart there is a row `b` with a follower `c.`, who has none, and `find()` gives `end()` when `b` sends |

These delimit what holds. One session that only listens gets a perfect feed
(`Listener`); with a second session the guarantee shrinks to `NeverBackwards`
(`Sessions`): `NothingLost` and `NeverFrontOfEmpty`, put into the
configuration of that run, fail there, by an ACK of the second session that
comes when the next notification is at the front, and by two threads that pop
the same one. Already one session that both types and listens can lose a
notification (`StaleAck`). Commands are reliable for a user who waits
(`PatientUser`): with `Patient = FALSE` a command typed before the ACK of CONNECT
is answered as a duplicate and dropped, and one typed before the previous was
sent replaces its argument. The table survives restarts unless a save was cut or
a name has a dot (`Table`, `CutSave`, `DottedName`; `FollowsSurvive` fails in the
latter too).

A change of server is not survived. The comments at `client.cpp:341-342` and
`394-395` and `Docs/TODO_list.txt:16-18`, 22 want the client to go on with the new
primary; but main has joined the thread that hands over (575-576), and ends the
process with the new connection in it. `[][alive' \/ termination_signal]_vars`,
that the client ends only when it was asked to, put into `ServerChange.cfg`, is
violated by one announcement; no property of the run asserts either.

Why the bounds are enough: two notifications are the fewest for which an ACK can
be taken for that of another, a notification skipped, or a flag outlive its
notification; numbers grow by one and are only compared with neighbours, so that
a third adds no new comparison. Three sessions are one more than there are
places. One timed-out wait per thread lets each order of timeouts happen.
`MAX_TRIES` is the code's where the tries matter and the size permits, and less
where it only makes states (`Sessions`, where 0 still lets a notification be
written once more; how often it is repeated matters in `Listener`, and what
`Sessions` checks is proved for every number). `MaxSends` exceeds
the number of commands so that a command can be given up and sent again; as many
packets as a channel ever holds are bounded by the tries and the sends.

For the table, three profiles allow a follower who is followed, two followers of
one profile, and a bystander, and one name that is the beginning of another, which
is where the order of the lines counts; two threads a change or a save of one between any
two steps of the other; one kill a restart with the file as it was left. What
the instance cannot show (more of each) is proved.

For replication, a second backup is what the races about the counter, the table,
the buffer and a shared id need; a third would meet the same two at a time, and
the safety properties are proved for any number. Liveness is about the two ends
of one connection, and there with the code's three tries. `MaxInFlight` bounds
how many packets nobody has read when one more is sent, and `MaxPings` how many
when it is a heartbeat; three are enough for an ACK, its repetition and an update
to be in one read. The lengths are such that one struct cuts the other's port, one
cuts the row where that crashes the backup, and one lets the row be parsed. A process is killed at most
once and not restarted: it would be a new one.

For shutdown, a client, a backup and a primary are the three kinds of threads, of
which one may hold the mutex while another asks or has not connected; with two
signals a handler can wait for its own thread while another comes through. For the change of
server, two announcements are the fewest of which the parts can be mixed, and
give three communication threads, one more than main could have known.

`SPECIFICATION UnprintedSpec`, used by invariants that look at printed and
unprinted notifications together, leaves out the step that moves them between
the two. `SYMMETRY Alike` permutes the sessions whose clients do not quit (`Quitters`), or
the backups, `AnyThread` threads, in runs of invariants only. All runs but
`RWLock`'s turn deadlock checking off: when the clients have gone, or the server
has crashed or finished, nothing more happens, and that is how these programs
end.

## 5. Fairness

* Threads and main are scheduled: weak fairness of every thread and of `Accept`.
  A thread's own choices (read or nothing, timed out or released) are inside.
* TCP delivers what was written while the writer lives: strong fairness of the
  reads, because `recv` does not block and a turn may find nothing; not of reads
  from a writer that died, whose last packets may be lost.
* pthread mutexes need not be fair: only weak fairness is assumed of lock steps,
  except in `RWLock`, whose run says under which fairness nobody starves.
* The user, the operator, other profiles, and the one who kills a client owe
  nothing: no fairness of `TypeCommand`, `Quit`, `Kill`, `addNotification`,
  `set_termination_signal`. `LoseConnection` has none either.
* In `Replication` both threads of a connection run, and main accepts while its
  signal is not set. That is all: reading nothing is a choice of a thread, and
  the tries end it.
* In `Shutdown` main and the threads run, and a handler that waits gets the
  mutex if it is free again and again (strong fairness of `HandlerLocks`): those
  who hold it hold it for a test and sleep between two. Nothing is assumed of
  the other server that a thread waits for; the tries of CONNECT_SERVER end by
  themselves.
* In `ServerChange` the client's threads run. Servers need not answer a CONNECT
  (`Connected` has no fairness) nor announce themselves, and the user need not
  press control-C.

## 6. Proofs

Proved by TLAPS, for any values of the constants that satisfy the named
assumptions (`SessionsAssumption`: finitely many sessions; `ServerAssumption`,
`ClientAssumption`: the bounds are numbers, `Me` is a profile, scripts are
sequences of commands; `ThreadsAssumption`: finitely many threads, and `Free` is
none of them; `TableAssumption`: profiles are names that are not empty, and the names of the
constants are apart;
`TextAssumption`: the dot is a character and the comma is none, and characters are
ordered by numbers; `ReplicationAssumption`: finitely many backups, the primary none of them, the
bounds are numbers; `TextsAssumption`: a row's text, the empty one and a struct's
differ and have lengths, the empty one 0, and a struct's goes on behind its second
comma; `ShutdownAssumption`: clients, peers, main and `Free` are apart;
`ChangeAssumption`: finitely many announcers, the first server none of them):

* `RWLockProof`: `LockInvariant`, `MutualExclusionHolds`, `Refinement`. The
  invariant ties `reader_counter` to the number of readers that have counted
  themselves, and the holder of `read_write_mutex` to the readers as a group or
  to one writer. Mutual exclusion alone is not inductive: whether a reader that
  leaves may unlock depends on how many others have counted themselves.
* `FeedSystemProof`: `SessionInvariant`, and from it `TypeCorrect`,
  `PlacesAreCounted` and `ConnectComesFirst`.
* `DeliveryProof`: `SeenInvariant` and `NotificationsInOrder`, for any number of
  sessions; `ListenerInvariant`, and from it `OneListenerLosesNothing`,
  `OneListenerNeverFrontOfEmpty` and `OneListenerFeedIsReliable`, for a profile
  with one session that types nothing; `CommandInvariant` and
  `PatientCommandsAreReliable`, for any number of sessions whose users wait
  (`Patient = TRUE`), whatever notifications come in between; and
  `NumbersInvariant` and `CommandsStayInOrder`, whether the users wait or not.
* `MasterTableProof`: `TableInvariant`, and from it `TableTypes`,
  `AnsweredFollowsSurvive`, `EveryFollowerHasRow`, `AnsweredSendReaches`,
  `NoMessageTwice` and `FileComesBack`, all for `KillInSave = FALSE` and
  `PlainNames` (no profile has a dot in its name); `CutSave` and `DottedName` show
  that neither can be left out. That `NotifyFollower` does not take its branch for
  a missing row (the process dies) is what `EveryFollowerHasRow` says: only a cut
  file or a name with a dot leads there.
* `ReplicationProof`: `ReplicationInvariant`, and from it `ReplicationTypes`,
  `IdsAlwaysAgree`, `BackupsKnowTheTruth`, `AloneIsSafe` and `RowsStayQueued`,
  for any number of backups, tries and kills, and any lengths of texts.
* `ShutdownProof`: `ShutdownInvariant`, `ShutdownTypes`, `DeletedLast`.
* `ServerChangeProof`: `ChangeInvariant`, `ChangeTypes`,
  `OneCommunicationHolds`, `TornNeedsTwo`.

`SessionInv` is needed because `PlacesCounted` and `ConnectedFirst` are not
inductive. That `receive_CONNECT` counts a session once needs that a session
asks once; that needs that the client does not write CONNECT again on a
connection the server still serves, for which the answer to CONNECT must have
been an ACK. Hence the phases of a session whose connection the server has open:
*before* (nothing written), *asking* (one CONNECT, in the channel or in the
batch being handled, and no other packet), *joined* (connected, no CONNECT
anywhere, and the ACK first in the channel while the client waits for it). That
no place is given back twice needs that a connected session's thread has not
ended (`OwnsSocket`), and that handlers find a packet needs `HasWork`.

The proof has one lemma per action (does it keep the types, the phase of its
own session and of the others, and the count), grouped by which variables an
action changes: an action that leaves a session alone leaves its phase alone.
`FeedTypesProof` holds the lemmas on types and on batches (a prefix of a channel
and its rest are packets of that channel). TLC checks `SessionInv` in
`Sessions`, so that each lemma's statement had been tried before its proof.

The hypotheses of `DeliveryProof` are where the code's promises end, as other
runs show: with a second session, or with commands, notifications are lost
(the end of section 4, `StaleAck`), and a user who does not wait loses commands,
though none is executed twice or out of order. Within them the theorems need no bound: the kills, quits,
retransmissions, batches, lost packets, timeouts and the shutdown are those of
the model.

`NeverBackwards` says nothing of what is still on its way, and so is not
inductive. `SeenInv` takes a client's *stream*, what it took in and what is in
its channel, and says that the stream is in order and nowhere behind `Oldest`,
the number of the notification at the front of the row. A notification is
written only from the front, so that it goes behind all that is in the stream;
the front only moves forward; and a read drops a part of the stream, which keeps
its order.

For one listener, `ListenerInv` relates three counts: what the server removed
(`Oldest`), what it counts as confirmed (`seqn`), and what the client took in
(`last_seqn`). The first two agree but between pop and the count; the client is at
most one ahead. That an ACK pops the right notification rests on what an ACK in
the channel or the batch can say: the number of a notification that the client
took in (`Confirming`); and that the client takes in each notification once, on
the numbers of those on their way (`Arriving`). So the step that removes
notification n finds n taken in, and what the client took in is always
`OneTo(last_seqn)`: `FeedIsReliable` follows, each step being a put (a
notification arrives), a take (the client reads a new one) or neither.

For commands, `CommandInv` has three parts for each session. `OneAtATime` follows
the last command through the client: typed, pushed, being sent, confirmed, with
`seqn` 2j - 1 for the j-th, because a command and its confirmation count one
each. `NoCommandLost` says that, while the connection is open, a command that
was sent has been executed or is in the channel or the batch. A confirmation can
be a stale ACK, and the next command be written before the one confirmed is
handled: hence `InTurn`, by which each command in a channel is executed, the
next one, or behind its predecessor. `ExecutedFirst` says that what was executed
is a beginning of the script, and that `max_reference_seqn` tells the last
executed command from the next, so that `Duplicate` takes exactly the repetitions.
`CommandsAreReliable` follows: a step puts (the user types), takes (a handler
executes the next command) or does neither.

A user who does not wait makes two threads of the client read and write `seqn` and
`payload` at once, so that the number of the j-th command cannot be computed
from j. `NumbersInv` says that there is a numbering `g` of the commands
typed so far that grows strictly: the interface thread's `seqn++` may lose what the
communication thread counted meanwhile, but not its own step, and so the next
command is beyond the last. Every command in the queue, in a channel or in the
batch carries the number of one that was typed (`NumberedAs`, `SentAs`), and the
server's `max_reference_seqn` is beyond the numbers of all it executed
(`ThreadNumbers`). A handler that finds a packet fresh therefore has one with a
later index than all before, and `CommandsInOrder` is the sequence of these
indices. What a command is about may be that of a later one, since `payload` is
overwritten before the communication thread reads it.

TLC checks `CommandInv` in `PatientUser`, and was run on `SeenInv` and `ListenerInv`
over instances with two sessions and one before their proofs.
Each proof goes by what a write, a read, or the handling of a packet does to a
channel (lemmas about sequences, `WriteInOrder`, `ArrivingRead`, `InTurnTaken` and
the like), and then action by action; a frame lemma says that a step of one
session leaves what is said of another alone.

`TableInv` says what must be true between the steps of a change. A FOLLOW is in
the table before it is in the file, and answered after both: `PendingInv` carries
it there. The file may be out of date only while somebody has the lock
(`FileInv`, `WriterInv`), and anything only between truncation and close, so that
at a kill elsewhere it holds all that was answered. For the walk, `WalkInv` says
that a message is in no row of a follower still to come, and in that of each
follower who was due and has been passed; it needs that no two walks carry the
same message and that a list of followers has no repetition, which `followUser`'s
check and a whole file preserve. One lemma per action; those that leave the walks
or the table alone share `WalksStay` and `TableStays`. TLC was run on `TableInv`
over the instance of `Table` before the proof.

`FileComesBack` is about texts of any length. The library's induction theorems
cannot be used (they take an operator), so `MasterTableProof` proves what it needs
from the well-foundedness of < on Nat: `SetInduction`, stated of a set of numbers,
and `Recursion`, that a function defined by its previous value exists. With these
the text is taken apart once and for all: where each piece stands in a
`FlattenSeq` (`FlattenSteps`, `PieceFound`), that a call of `strtok_r` finds the
piece and stops at its delimiter (`TokenFound`, `BehindNothing`), and that repeated
calls therefore find all pieces and then nothing (`TokensFound`, `Written`). So
of a line whose name has no dot the name and the followers are read as they were
written (`LineWritten`, `LineRead`), and no two lines are read with one name
(`LinesRead`): a table of such names is read back as it was. `TableInv` has
that as a part (`FileInv`): a start replaces the table by what the file is read as,
which is whole because nobody was writing it when the process was killed.

For `Replication`, `IInv` has a conjunct for each thing the properties rest on.
`CountInv` keeps the ids within `Ids`: the counter, and the id any thread has
loaded, are at most the number of threads that are past their store, so that a
thread that counts now stays within the number of backups even if stores are lost.
`HandshakeInv` goes by phases like `SessionInv`: which packets may be on a
connection while the two sides are at given points; that the first packet a
backup waiting for its id reads is an ACK or a SET_ID with its thread's id is
what repetition must not destroy, and `IdsAgree` follows. `TruthInv` says that
each text, in the buffer, on a connection or known, is a row's or of a server
in the table, which only grows, and that every length in a FIFO or on a
connection is that of such a text; so one that cuts a text is of a shorter one. `QueueInv` says that the front of an id's FIFO
is a struct: a thread queues its own struct, which is in the table since before
its cold replication, before any row; and because nothing is popped, no
row ever comes to the front. `AloneInv` says that, unless threads
for two backups have run (`Crowd`), the buffer is not blank behind a thread that
has filled it (`Filled`), no packet has length 0 and there is one struct: without
rows every text is that struct and every length its own, so that nothing is cut. `TriesInv` bounds the tries. A lemma per
conjunct and action that can disturb it; actions that leave its variables alone
share a frame lemma.

For `Shutdown`, `NoUseAfterDelete` needs that whoever has a thread started is in
the list, that those before `joined` have ended, and that main starts none once
it joins (`JoinInv`). For `ServerChange`, `OrderInv` says that communication
threads are started in order and all but the latest have ended, `CountInv` that
a hand-over needs a signal and a signal an announcer who has not counted yet, so
that the threads do not run out, and `ParamsInv` that, as
long as one server alone has announced itself, the parameters are its own once
it has signalled, and every later thread has connected to them.

Only model-checked: all liveness, which is out of the prover's reach, and every
violation. Every invariant and action property of a passing run is stated by a
theorem. Not stated for more sessions than the theorems do: what
`NothingLost`, `NeverFrontOfEmpty` and `FeedIsReliable` say is false there.

## 7. Plan

Done: the lock; the core (row, session threads, clients, connections); the
inductive invariant of sessions; the order of notifications, and the promises to
one listener, to users who wait, and to users who do not; the table, its file, the
file's text and their invariant; replication; shutdown; the change of server; a proof module for
each.

Next, in this order:

1. What is left of the guarantee for two sessions, beyond the order of
   notifications: which pops can lose one, as a property and a theorem.
2. A parameter for the width of `seqn` in `Wire`, and runs across the wrap.
3. Packets split over two reads.

Not modelled, and not planned: the text of rows, as long as none is sent; the layout of packets' text, printing, argument
parsing, build files and scripts. What a torn copy of `std::map`, a text
longer than its buffer, or a failed allocation does is undefined, and no set of
outcomes would be faithful.
