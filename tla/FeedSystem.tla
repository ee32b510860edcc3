----------------------------- MODULE FeedSystem -----------------------------
(***************************************************************************)
(* The sessions of one profile from end to end: their client processes,    *)
(* their connections and their threads in the server, sharing one Row.     *)
(***************************************************************************)
EXTENDS SocketThread, Client, SequencesExt

vars == <<serverVars, wireVars, clientVars>>

\* Every variable of the composed system has the type the code gives it.
TypeOK == WireTypeOK /\ ServerTypeOK /\ ClientTypeOK

Init == WireInit /\ ServerInit /\ ClientInit

Next ==
  \/ ServerNext /\ UNCHANGED clientVars
  \/ ClientNext /\ UNCHANGED serverVars

Spec == Init /\ [][Next]_vars

\* The scheduler runs main and every thread that can run.  TCP delivers what
\* was written to a peer that reads again and again, as long as the writer
\* lives.  The user, the operator, the other profiles and a kill owe no step.
Fairness ==
  \A s \in Sessions :
    /\ WF_vars(Accept(s) /\ UNCHANGED clientVars)
    /\ WF_vars(Thread(s) /\ UNCHANGED clientVars)
    /\ SF_vars(clientOpen[s] /\ RecvBatch(s) /\ UNCHANGED clientVars)
    /\ WF_vars(Communication(s) /\ UNCHANGED serverVars)
    /\ SF_vars(serverOpen[s] /\ (LoopReceive(s) \/ ReadReply(s)) /\ UNCHANGED serverVars)
    /\ WF_vars((PushCommand(s) \/ Display(s)) /\ UNCHANGED serverVars)

FairSpec == Spec /\ Fairness

\* Nobody looks at the screens: printing moves packets between two variables
\* the safety properties read only together.
UnprintedSpec == Init /\ [][Next /\ UNCHANGED displayed]_vars

-----------------------------------------------------------------------------
(* Places *)

ConnectedSessions == {s \in Sessions : connected[s]}

\* A profile has at most two sessions, and active_sessions counts exactly
\* those that connectUser admitted and closeSession has not closed, however
\* they end: DISCONNECT, no answer to MAX_TRIES notifications, or shutdown.
\* The count decides whether an ACK pops or waits for the other session.
PlacesCounted ==
  active_sessions = Cardinality(ConnectedSessions) /\ active_sessions <= 2

\* No handler but receive_CONNECT runs in a thread whose session is not
\* connected: receive_SEND, receive_ACK and receive_DISCONNECT would look for
\* the row of "not-connected" and crash the server.
ConnectedFirst ==
  \A s \in Sessions :
    up /\ spc[s] = "parse" /\ Head(inbuf[s]).type # "CONNECT" => connected[s]

\* What the two invariants above rest on.  While the server's end of a
\* connection is open, its session is in one of three phases; in the first
\* two it is not connected and its CONNECT is the only packet around.
OnlyConnect(q) == Len(q) = 1 /\ q[1].type = "CONNECT"
NoConnect(q) == \A i \in 1..Len(q) : q[i].type # "CONNECT"

Before(s) ==
  /\ cpc[s] \in {"connect", "dead"} /\ spc[s] = "none"
  /\ ~connected[s] /\ max_reference_seqn[s] = 0
  /\ toServer[s] = <<>> /\ inbuf[s] = <<>> /\ toClient[s] = <<>>

Asking(s) ==
  /\ cpc[s] \in {"await", "dead"}
  /\ ~connected[s] /\ max_reference_seqn[s] = 0 /\ toClient[s] = <<>>
  /\ \/ /\ OnlyConnect(toServer[s]) /\ inbuf[s] = <<>>
        /\ spc[s] \in {"none", "send", "recv", "sleep"}
     \/ toServer[s] = <<>> /\ OnlyConnect(inbuf[s]) /\ spc[s] = "parse"

Joined(s) ==
  /\ cpc[s] # "connect" /\ connected[s]
  /\ NoConnect(toServer[s]) /\ NoConnect(inbuf[s])
  /\ cpc[s] = "await" => toClient[s] # <<>> /\ Head(toClient[s]).type = "ACK"

\* While the server runs, a thread that has started and not ended has its
\* socket open, and only such a thread's session is connected.
OwnsSocket(s) ==
  /\ spc[s] \notin {"none", "done"} \/ (listening /\ spc[s] = "none") => serverOpen[s]
  /\ connected[s] => spc[s] \notin {"none", "done"}

Phase(s) ==
  /\ serverOpen[s] => Before(s) \/ Asking(s) \/ Joined(s)
  /\ up => OwnsSocket(s)
  /\ clientOpen[s] <=> cpc[s] # "dead"

\* A thread that handles packets and a client that sends one have one.
HasWork ==
  \A s \in Sessions :
    /\ spc[s] = "parse" => inbuf[s] # <<>>
    /\ cpc[s] \in {"send", "sending"} => packets_to_send[s] # <<>>

\* A session asks to connect once, is admitted before anything else it sends
\* is handled, and never asks again on the same connection; and each session
\* that was admitted is counted.
SessionInv ==
  /\ TypeOK
  /\ PlacesCounted
  /\ HasWork
  /\ \A s \in Sessions : Phase(s)

-----------------------------------------------------------------------------
(* Notifications *)

\* What the client of session s took in: printed, or waiting to be printed.
\* It prints ACK and ERROR packets too: those are NoData here.
Accepted(s) == displayed[s] \o packets_received[s]

AcceptedBySome == UNION {ToSet(Accepted(s)) : s \in Sessions}

\* The notifications popNotification took out of the row.
Popped == 1 .. (arrived - Len(messages_to_receive))

\* A notification is removed from the row only after a session of the profile
\* took it in, whatever is retransmitted, killed or stopped meanwhile.
NothingLost == Popped \subseteq AcceptedBySome

\* getNotification and popNotification find a notification: front() of an
\* empty list is undefined and crashes the server.
NeverFrontOfEmpty ==
  \A s \in Sessions : up /\ spc[s] \in {"peek", "pop"} => messages_to_receive # <<>>

\* A session may see a notification again, but none after a later one.
InOrder(q) ==
  \A i, j \in 1..Len(q) : i <= j /\ q[i] # NoData /\ q[j] # NoData => q[i] <= q[j]

NeverBackwards == \A s \in Sessions : InOrder(Accepted(s))

\* What NeverBackwards rests on: what a client took in and what is on its way
\* to it are in order together, and none of it is behind the notification at
\* the front of the row, which is the oldest that was not popped.
Numbers(q) == [i \in 1..Len(q) |-> q[i].data]
Stream(s) == Accepted(s) \o Numbers(toClient[s])
Oldest == arrived - Len(messages_to_receive) + 1

Numbered ==
  /\ Len(messages_to_receive) <= arrived
  /\ \A i \in 1..Len(messages_to_receive) : messages_to_receive[i] = Oldest + i - 1

UpTo(q, n) == \A i \in 1..Len(q) : q[i] # NoData => q[i] \in 1..n

\* The list of the row holds the latest notifications, numbered without a
\* gap, and each client's stream is in order and not behind their first.
SeenInv ==
  /\ Numbered
  /\ \A s \in Sessions : InOrder(Stream(s)) /\ UpTo(Stream(s), Oldest)

\* The first n notifications.
OneTo(n) == [i \in 1..n |-> i]

\* To a profile with one session the feed is a reliable FIFO, in spite of
\* batches, lost reads and retransmissions: each notification is taken in
\* once, in the order of arrival, with none skipped.
Feed == INSTANCE ReliableFifo WITH
          Lines <- Sessions,
          sent <- [s \in Sessions |-> OneTo(arrived)],
          got <- [s \in Sessions |-> Accepted(s)]
FeedIsReliable == Feed!FSpec

\* What the three promises above rest on, for a profile whose only session s
\* types nothing.  The server counts what the session confirmed, the client
\* what it took in, and between the two counts lies at most one notification.
OnlyListens(s) == typed[s] = 0 /\ ipc[s] = "idle" /\ packets_to_send[s] = <<>>

InStep(s) ==
  /\ seqn[s] + (IF spc[s] = "clear" THEN 1 ELSE 0) = Oldest - 1
  /\ last_seqn[s] \in {seqn[s], seqn[s] + 1} /\ last_seqn[s] <= arrived
  /\ Accepted(s) = OneTo(last_seqn[s])
  /\ spc[s] \notin {"flag", "set", "wait"}
  /\ spc[s] \in {"pop", "clear"} => last_seqn[s] = seqn[s] + 1
  /\ spc[s] = "peek" => messages_to_receive # <<>>

\* Of the packets of a client that took in so many notifications and may have
\* ended, each confirms one that it took in; its DISCONNECT is its last.
Confirms(p, taken, ended) ==
  /\ p.type \in {"CONNECT", "ACK", "DISCONNECT"}
  /\ p.type = "ACK" => p.seqn < taken
  /\ p.type = "DISCONNECT" => ended

Confirming(q, taken, ended) == \A i \in 1..Len(q) : Confirms(q[i], taken, ended)

\* On the way to a client at pc are the answer to CONNECT, in front, and
\* notifications whose sequence numbers are those the server had reached.
Notification(p, reached, latest) ==
  /\ p.type = "MSG" /\ p.seqn <= reached
  /\ p.data = p.seqn + 1 /\ p.data <= latest

Arriving(q, pc, reached, latest) ==
  /\ \A i \in 1..Len(q) :
       \/ q[i].type = "ACK" /\ i = 1 /\ pc \in {"await", "dead"}
       \/ Notification(q[i], reached, latest)
  /\ q # <<>> => pc # "connect" /\ (pc = "await" => q[1].type = "ACK")

ListenerInv ==
  \A s \in Sessions :
    /\ OnlyListens(s) /\ InStep(s)
    /\ Confirming(toServer[s], last_seqn[s], cpc[s] = "dead")
    /\ Confirming(inbuf[s], last_seqn[s], cpc[s] = "dead")
    /\ Arriving(toClient[s], cpc[s], seqn[s], arrived)

\* Every notification for a connected session is printed, or the session ends.
SessionOver(s) == ~up \/ ~connected[s] \/ cpc[s] = "dead"
EveryNotificationPrinted ==
  \A s \in Sessions : \A n \in 1..NumNotifs :
    connected[s] /\ arrived >= n ~> n \in ToSet(displayed[s]) \/ SessionOver(s)

\* The place of a client that is gone is freed once a notification waits that
\* its last ACK does not pop.  (recv's 0 is ignored: without a notification
\* the place would stay taken.)
DeadSessionIsClosed ==
  \A s \in Sessions :
    cpc[s] = "dead" /\ connected[s] /\ messages_to_receive # <<>>
      ~> ~connected[s] \/ messages_to_receive = <<>>

-----------------------------------------------------------------------------
(* Commands *)

Typed(s) == SubSeq(Script[s], 1, typed[s])

\* A user who waits for one command to be confirmed before typing the next
\* has every command executed in order and once, in spite of retransmissions
\* by send_message, refused commands that are sent again, and notifications
\* that arrive between a command and its ACK.
Commands == INSTANCE ReliableFifo WITH
              Lines <- Sessions,
              sent <- [s \in Sessions |-> Typed(s)],
              got <- executed
CommandsAreReliable == Commands!FSpec

\* What CommandsAreReliable rests on.  Commands and their confirmations count
\* the client's seqn up in turn, so that the j-th command has number 2j - 1.
CommandPacket(s, j) == Packet(Script[s][j].type, 2 * j - 1, Script[s][j].data)
QueuedPacket(s, j) == [CommandPacket(s, j) EXCEPT !.data = NoData]
IsCommand(p) == p.type \in {"FOLLOW", "SEND"}
Holds(q, p) == \E i \in 1..Len(q) : q[i] = p
Count(s) == Len(executed[s])

\* The client has typed nothing; or the last command is with the interface
\* thread; or it is in the FIFO; or it is confirmed.
NotYetTyped(s) ==
  /\ cpc[s] \in {"connect", "await"} /\ ipc[s] = "idle"
  /\ typed[s] = 0 /\ client_seqn[s] = 0 /\ packets_to_send[s] = <<>>

BeingTyped(s) ==
  /\ cpc[s] = "loop" /\ ipc[s] = "push" /\ packets_to_send[s] = <<>>
  /\ typed[s] > 0 /\ client_seqn[s] = 2 * typed[s] - 1
  /\ pending[s] = QueuedPacket(s, typed[s]) /\ payload[s] = Script[s][typed[s]].data

BeingSent(s) ==
  /\ cpc[s] \in {"loop", "send", "sending"} /\ ipc[s] = "idle"
  /\ typed[s] > 0 /\ client_seqn[s] = 2 * typed[s]
  /\ packets_to_send[s] = <<QueuedPacket(s, typed[s])>>
  /\ payload[s] = Script[s][typed[s]].data
  /\ cpc[s] = "sending" => outgoing[s] = CommandPacket(s, typed[s])

Confirmed(s) ==
  /\ cpc[s] = "loop" /\ ipc[s] = "idle" /\ packets_to_send[s] = <<>>
  /\ client_seqn[s] = 2 * typed[s] + 1

OneAtATime(s) ==
  cpc[s] = "dead" \/ NotYetTyped(s) \/ BeingTyped(s) \/ BeingSent(s) \/ Confirmed(s)

\* What was executed is what was typed first, and the thread remembers the
\* number of the last command, or of CONNECT.
ExecutedFirst(s) ==
  /\ Count(s) <= typed[s] /\ typed[s] <= Len(Script[s])
  /\ executed[s] = SubSeq(Script[s], 1, Count(s))
  /\ connected[s] => max_reference_seqn[s] = (IF Count(s) = 0 THEN 1 ELSE 2 * Count(s))
  /\ ~connected[s] /\ spc[s] # "done" => max_reference_seqn[s] = 0 /\ Count(s) = 0
  /\ spc[s] \in {"none", "send", "peek", "recv", "sleep"} => inbuf[s] = <<>>

\* What session s, which typed n commands of which e were executed, has in
\* channel q behind what it has in channel before: its CONNECT has number 0,
\* and a command is executed, or the next one, or behind its predecessor.
InTurn(s, q, before, n, e) ==
  \A i \in 1..Len(q) :
    /\ q[i].type = "CONNECT" => q[i].seqn = 0
    /\ IsCommand(q[i]) =>
         \E j \in 1..n :
           /\ q[i] = CommandPacket(s, j)
           /\ \/ j <= e + 1
              \/ \E h \in 1..(i - 1) : q[h] = CommandPacket(s, j - 1)
              \/ Holds(before, CommandPacket(s, j - 1))

\* While the connection is up, a command that was sent is executed or will be.
WasSent(s, j) == j < typed[s] \/ cpc[s] = "sending" \/ Confirmed(s)

NoCommandLost(s) ==
  serverOpen[s] =>
    \A j \in 1..typed[s] :
      WasSent(s, j) => \/ j <= Count(s)
                       \/ Holds(inbuf[s], CommandPacket(s, j))
                       \/ Holds(toServer[s], CommandPacket(s, j))

Obeyed(s) ==
  /\ OneAtATime(s) /\ ExecutedFirst(s) /\ NoCommandLost(s)
  /\ InTurn(s, inbuf[s], <<>>, typed[s], Count(s))
  /\ InTurn(s, toServer[s], inbuf[s], typed[s], Count(s))

CommandInv == \A s \in Sessions : Obeyed(s)

\* What remains of that to a user who does not wait, as two threads count one
\* seqn and fill one payload: no command is executed twice, or after a later
\* one, though it may be left out, or be about what a later one is about.
IsStretched(f) == \A i, j \in DOMAIN f : i < j => f[i] < f[j]

ObeyedInOrder(s) ==
  \E was \in [1..Count(s) -> 1..typed[s]] :
    /\ IsStretched(was)
    /\ \A i \in 1..Count(s) :
         /\ executed[s][i].type = Script[s][was[i]].type
         /\ \E k \in was[i]..typed[s] : executed[s][i].data = Script[s][k].data

CommandsInOrder == \A s \in Sessions : ObeyedInOrder(s)

\* What that user types is executed, or the session ends, or the bound on
\* sends is used up.
TypedIsExecuted ==
  \A s \in Sessions : \A k \in 1..Len(Script[s]) :
    typed[s] >= k ~> Len(executed[s]) >= k \/ SessionOver(s) \/ sends[s] = MaxSends
=============================================================================
