---------------------------- MODULE SocketThread ----------------------------
(***************************************************************************)
(* The server's side of the sessions of one profile: the Row of the        *)
(* profile (Row.cpp) and the socket_thread that main starts for each       *)
(* connection (server.cpp:1000-1107).  A session stands for one client     *)
(* process, its connection and its thread.                                 *)
(*                                                                         *)
(* A step of a thread is what it does between two accesses to the Row that *)
(* another thread can come between; each Row operation is atomic, by the   *)
(* mutual exclusion that RWLockProof proves of the lock around it.         *)
(***************************************************************************)
EXTENDS Wire

CONSTANTS
  MAX_TRIES,     \* the macro of server.hpp
  Profiles,      \* the profiles in the master table
  Me,            \* the profile the sessions connect as
  NumNotifs,     \* bound: notifications that arrive for Me
  MaxTimeouts,   \* bound: waits of receive_ACK that time out, per session
  MayTerminate   \* whether the operator may stop the server

ASSUME ServerAssumption ==
  /\ MAX_TRIES \in Nat /\ NumNotifs \in Nat /\ MaxTimeouts \in Nat
  /\ Me \in Profiles

VARIABLES
  up,                      \* the server process runs
  termination_signal,
  listening,               \* main still accepts connections
  active_sessions,         \* Row
  notification_delivered,  \* Row
  messages_to_receive,     \* Row: notifications are numbered as they arrive
  arrived,                 \* how many notifications have arrived
  following,               \* profiles whose follower list holds Me
  spc,                     \* where each thread is; "none" before accept
  connected,               \* currentUser # "not-connected"
  seqn, send_tries, max_reference_seqn,
  inbuf,                   \* packets of the last recv not handled yet
  timeouts,                \* how often the thread's wait timed out
  executed                 \* the commands the thread executed, in order

rowVars == <<active_sessions, notification_delivered, messages_to_receive, arrived, following>>
mainVars == <<up, termination_signal, listening>>
threadVars == <<spc, connected, seqn, send_tries, max_reference_seqn, inbuf, timeouts, executed>>
serverVars == <<mainVars, rowVars, threadVars>>

\* executed records what a command was and what it was about.
CommandsExecuted == [type : {"FOLLOW", "SEND"}, data : Payloads]

\* max_reference_seqn starts at -1 and seqn at 0.  Here max_reference_seqn is
\* one more than in the code: the least sequence number not yet seen.
ThreadPoints == {"none", "send", "peek", "recv", "parse", "sleep",
                 "flag", "set", "wait", "pop", "clear", "done"}

ServerTypeOK ==
  /\ up \in BOOLEAN /\ termination_signal \in BOOLEAN /\ listening \in BOOLEAN
  /\ active_sessions \in Nat
  /\ notification_delivered \in BOOLEAN
  /\ messages_to_receive \in Seq(Nat)
  /\ arrived \in Nat
  /\ following \subseteq Profiles
  /\ spc \in [Sessions -> ThreadPoints]
  /\ connected \in [Sessions -> BOOLEAN]
  /\ seqn \in [Sessions -> Nat]
  /\ send_tries \in [Sessions -> Nat]
  /\ max_reference_seqn \in [Sessions -> Nat]
  /\ inbuf \in [Sessions -> Seq(Packets)]
  /\ timeouts \in [Sessions -> Nat]
  /\ executed \in [Sessions -> Seq(CommandsExecuted)]

ServerInit ==
  /\ up = TRUE /\ termination_signal = FALSE /\ listening = TRUE
  /\ active_sessions = 0
  /\ notification_delivered = FALSE
  /\ messages_to_receive = <<>>
  /\ arrived = 0
  /\ following = {}
  /\ spc = [s \in Sessions |-> "none"]
  /\ connected = [s \in Sessions |-> FALSE]
  /\ seqn = [s \in Sessions |-> 0]
  /\ send_tries = [s \in Sessions |-> 0]
  /\ max_reference_seqn = [s \in Sessions |-> 0]
  /\ inbuf = [s \in Sessions |-> <<>>]
  /\ timeouts = [s \in Sessions |-> 0]
  /\ executed = [s \in Sessions |-> <<>>]

Goto(s, from, to) == spc[s] = from /\ spc' = [spc EXCEPT ![s] = to]

\* An access through a null or end() pointer: the process dies and with it
\* every connection.
Crash ==
  /\ up' = FALSE
  /\ serverOpen' = [s \in Sessions |-> FALSE]
  /\ UNCHANGED <<termination_signal, listening, rowVars, threadVars,
                 toServer, toClient, clientOpen>>

CloseSocket(s) == serverOpen' = [serverOpen EXCEPT ![s] = FALSE]

-----------------------------------------------------------------------------
(* main and the rest of the server *)

\* main accepts the connection and starts socket_thread.  The client made the
\* connection, and wrote its CONNECT, before.
Accept(s) ==
  /\ up /\ listening /\ toServer[s] # <<>>
  /\ Goto(s, "none", "send")
  /\ UNCHANGED <<mainVars, rowVars, connected, seqn, send_tries,
                 max_reference_seqn, inbuf, timeouts, executed, wireVars>>

set_termination_signal ==
  /\ up /\ MayTerminate /\ ~termination_signal
  /\ termination_signal' = TRUE
  /\ UNCHANGED <<up, listening, rowVars, threadVars, wireVars>>

\* main leaves its loop: the connections it never accepted are refused.
StopListening ==
  /\ up /\ termination_signal /\ listening
  /\ listening' = FALSE
  /\ serverOpen' = [s \in Sessions |-> serverOpen[s] /\ spc[s] # "none"]
  /\ UNCHANGED <<up, termination_signal, rowVars, threadVars,
                 toServer, toClient, clientOpen>>

\* main has joined every thread.
ExitServer ==
  /\ up /\ ~listening
  /\ \A s \in Sessions : spc[s] \in {"none", "done"}
  /\ up' = FALSE
  /\ UNCHANGED <<termination_signal, listening, rowVars, threadVars, wireVars>>

\* Where a new notification goes in the list; a bug puts it in front.
AddInFront(list, n) == <<n>> \o list
AddLast(list, n) == Append(list, n)

\* Another profile that Me follows sends a message.
addNotification ==
  /\ up /\ arrived < NumNotifs
  /\ arrived' = arrived + 1
  /\ messages_to_receive' = AddLast(messages_to_receive, arrived + 1)
  /\ UNCHANGED <<active_sessions, notification_delivered, following,
                 mainVars, threadVars, wireVars>>

-----------------------------------------------------------------------------
(* The loop of socket_thread *)

\* hasNewNotification.  That a session is connected makes active_sessions 1
\* or 2, so the thread goes on to send; its value and the delivered flag only
\* choose the packet's type, MSG or 0, which the client does not look at.
hasNewNotification(s) ==
  /\ up
  /\ \/ connected[s] /\ messages_to_receive # <<>> /\ Goto(s, "send", "peek")
     \/ (~connected[s] \/ messages_to_receive = <<>>) /\ Goto(s, "send", "recv")
  /\ UNCHANGED <<mainVars, rowVars, connected, seqn, send_tries,
                 max_reference_seqn, inbuf, timeouts, executed, wireVars>>

\* The write counts as one more try; a bug does not count it.
CountNoTry(s) == UNCHANGED send_tries
CountTry(s) == send_tries' = [send_tries EXCEPT ![s] = @ + 1]

\* getNotification and the write.  The list may have been emptied by another
\* thread since hasNewNotification: front() of an empty list crashes.
send_notification(s) ==
  /\ up /\ spc[s] = "peek"
  /\ \/ /\ messages_to_receive = <<>>
        /\ Crash
     \/ /\ messages_to_receive # <<>>
        /\ Goto(s, "peek", "recv")
        /\ ServerWrites(s, Packet("MSG", seqn[s], Head(messages_to_receive)))
        /\ CountTry(s)
        /\ UNCHANGED <<mainVars, rowVars, connected, seqn, max_reference_seqn,
                       inbuf, timeouts, executed, toServer, serverOpen, clientOpen>>

\* recv on the non-blocking socket: nothing has arrived, or the peer is gone.
RecvNothing(s) ==
  /\ up
  /\ Goto(s, "recv", "sleep")
  /\ UNCHANGED <<mainVars, rowVars, connected, seqn, send_tries,
                 max_reference_seqn, inbuf, timeouts, executed, wireVars>>

RecvBatch(s) ==
  /\ up
  /\ Goto(s, "recv", "parse")
  /\ \E batch \in Batches(toServer[s]) :
       /\ inbuf' = [inbuf EXCEPT ![s] = batch]
       /\ toServer' = [toServer EXCEPT ![s] = After(@, batch)]
  /\ UNCHANGED <<mainVars, rowVars, connected, seqn, send_tries,
                 max_reference_seqn, timeouts, executed, toClient, serverOpen, clientOpen>>

\* The loop condition, after the sleep that ends an iteration.
LoopAgain(s) ==
  /\ up
  /\ ~termination_signal /\ send_tries[s] <= MAX_TRIES
  /\ Goto(s, "sleep", "send")
  /\ UNCHANGED <<mainVars, rowVars, connected, seqn, send_tries,
                 max_reference_seqn, inbuf, timeouts, executed, wireVars>>

\* closeSession gives the place back.  Its lookup by a local's address never
\* finds the session, which stays in the map; the free of what end() holds
\* is, as built, the free of a null pointer.  A bug gives back two places.
GiveBackTwo(n) == n - 2
GiveBackOne(n) == n - 1

closeSession(s) ==
  /\ active_sessions' = GiveBackOne(active_sessions)
  /\ connected' = [connected EXCEPT ![s] = FALSE]
  /\ CloseSocket(s)
  /\ UNCHANGED <<notification_delivered, messages_to_receive, arrived, following>>

\* The end of the thread.  A thread whose client never connected has no row
\* to close the session in: getRow("not-connected") crashes the server.
LeaveLoop(s) ==
  /\ up /\ spc[s] = "sleep"
  /\ termination_signal \/ send_tries[s] > MAX_TRIES
  /\ \/ /\ ~connected[s]
        /\ Crash
     \/ /\ connected[s]
        /\ Goto(s, "sleep", "done")
        /\ closeSession(s)
        /\ UNCHANGED <<mainVars, seqn, send_tries, max_reference_seqn, inbuf,
                       timeouts, executed, toServer, toClient, clientOpen>>

-----------------------------------------------------------------------------
(* Handlers: each takes one packet out of the batch; after the last one the
   thread goes to sleep. *)

NextPacket(s, rest) == spc' = [spc EXCEPT ![s] = IF rest = <<>> THEN "sleep" ELSE "parse"]
Parsing(s, types) == up /\ spc[s] = "parse" /\ Head(inbuf[s]).type \in types
TakePacket(s) == inbuf' = [inbuf EXCEPT ![s] = Tail(@)]
Handle(s) == TakePacket(s) /\ NextPacket(s, Tail(inbuf[s]))
\* The packet was not seen before; a bug lets every packet through.
FreshAlways(s) == TRUE
Fresh(s) == Head(inbuf[s]).seqn >= max_reference_seqn[s]

\* A bug remembers the next packet too.
RememberNext(s) == max_reference_seqn' = [max_reference_seqn EXCEPT ![s] = Head(inbuf[s]).seqn + 2]
Remember(s) == max_reference_seqn' = [max_reference_seqn EXCEPT ![s] = Head(inbuf[s]).seqn + 1]
Reply(s, type) == ServerWrites(s, Packet(type, Head(inbuf[s]).seqn, NoData))

\* Already received this message: answer again, do nothing.
Duplicate(s) ==
  /\ Parsing(s, PacketTypes \ {"ACK"}) /\ ~Fresh(s)
  /\ Handle(s)
  /\ Reply(s, "ACK")
  /\ UNCHANGED <<mainVars, rowVars, connected, seqn, send_tries,
                 max_reference_seqn, timeouts, executed, toServer, serverOpen, clientOpen>>

\* connectUser's condition; a bug lets a third session in.
HasPlaceForThree == active_sessions <= 2
HasPlace == active_sessions < 2

\* The connection of a refused session is closed and its thread ends; a bug
\* lets the thread go on.
RefuseAndStay(s) == NextPacket(s, Tail(inbuf[s])) /\ UNCHANGED serverOpen
Refuse(s) == CloseSocket(s) /\ Goto(s, "parse", "done")

\* connectUser takes one of the two places; without one the thread answers
\* ERROR, closes the connection and ends.
receive_CONNECT(s) ==
  /\ Parsing(s, {"CONNECT"}) /\ Fresh(s)
  /\ Remember(s)
  /\ \/ /\ HasPlace
        /\ Handle(s)
        /\ active_sessions' = active_sessions + 1
        /\ connected' = [connected EXCEPT ![s] = TRUE]
        /\ Reply(s, "ACK")
        /\ UNCHANGED serverOpen
     \/ /\ ~HasPlace
        /\ TakePacket(s)
        /\ Reply(s, "ERROR")
        /\ Refuse(s)
        /\ UNCHANGED <<active_sessions, connected>>
  /\ UNCHANGED <<mainVars, notification_delivered, messages_to_receive, arrived,
                 following, seqn, send_tries, timeouts, executed, toServer, clientOpen>>

\* A command the thread executes, with followUser's four outcomes.
Execute(s) ==
  executed' = [executed EXCEPT ![s] =
                 Append(@, [type |-> Head(inbuf[s]).type, data |-> Head(inbuf[s]).data])]

CanFollow(s, profile) == connected[s] /\ profile \in Profiles \ (following \union {Me})

receive_FOLLOW(s) ==
  /\ Parsing(s, {"FOLLOW"}) /\ Fresh(s)
  /\ Handle(s) /\ Remember(s) /\ Execute(s)
  /\ LET profile == Head(inbuf[s]).data
     IN  \/ /\ CanFollow(s, profile)
            /\ following' = following \union {profile}
            /\ Reply(s, "ACK")
         \/ /\ ~CanFollow(s, profile)
            /\ Reply(s, "ERROR")
            /\ UNCHANGED following
  /\ UNCHANGED <<mainVars, active_sessions, notification_delivered, messages_to_receive,
                 arrived, connected, seqn, send_tries, timeouts,
                 toServer, serverOpen, clientOpen>>

\* sendMessageToFollowers: the rows it changes are those of other profiles.
\* It would look for a row that does not exist if the session was not
\* connected, and so would receive_DISCONNECT and receive_ACK:
\* ConnectedFirst, in FeedSystem, says that it always is.
receive_SEND(s) ==
  /\ Parsing(s, {"SEND"}) /\ Fresh(s) /\ connected[s]
  /\ Handle(s) /\ Remember(s) /\ Execute(s)
  /\ Reply(s, "ACK")
  /\ UNCHANGED <<mainVars, rowVars, connected, seqn, send_tries, timeouts,
                 toServer, serverOpen, clientOpen>>

receive_DISCONNECT(s) ==
  /\ Parsing(s, {"DISCONNECT"}) /\ Fresh(s) /\ connected[s]
  /\ TakePacket(s) /\ Remember(s)
  /\ closeSession(s)
  /\ Goto(s, "parse", "done")
  /\ UNCHANGED <<mainVars, seqn, send_tries, timeouts, executed,
                 toServer, toClient, clientOpen>>

-----------------------------------------------------------------------------
(* receive_ACK, step by step *)

\* The ACK is for the notification now being sent; a bug takes any ACK.
AnyAckMatches(s) == TRUE
AckMatches(s) == Head(inbuf[s]).seqn = seqn[s]

StrayAck(s) ==
  /\ Parsing(s, {"ACK"}) /\ ~AckMatches(s)
  /\ Handle(s)
  /\ UNCHANGED <<mainVars, rowVars, connected, seqn, send_tries,
                 max_reference_seqn, timeouts, executed, wireVars>>

\* getActiveSessions decides: a session on its own pops; one of two agrees
\* with the other through notification_delivered.
receive_ACK(s) ==
  /\ Parsing(s, {"ACK"}) /\ AckMatches(s) /\ connected[s]
  /\ TakePacket(s)
  /\ \/ active_sessions = 1 /\ Goto(s, "parse", "pop")
     \/ active_sessions # 1 /\ Goto(s, "parse", "flag")
  /\ UNCHANGED <<mainVars, rowVars, connected, seqn, send_tries,
                 max_reference_seqn, timeouts, executed, wireVars>>

get_notification_delivered(s) ==
  /\ up
  /\ \/ notification_delivered /\ Goto(s, "flag", "pop")
     \/ ~notification_delivered /\ Goto(s, "flag", "set")
  /\ UNCHANGED <<mainVars, rowVars, connected, seqn, send_tries,
                 max_reference_seqn, inbuf, timeouts, executed, wireVars>>

set_notification_delivered(s) ==
  /\ up
  /\ Goto(s, "set", "wait")
  /\ notification_delivered' = TRUE
  /\ UNCHANGED <<mainVars, active_sessions, messages_to_receive, arrived, following,
                 connected, seqn, send_tries, max_reference_seqn, inbuf, timeouts,
                 executed, wireVars>>

\* receive_ACK returns 0: back to the batch with the next sequence number; a
\* bug keeps the number.
AcknowledgedSameNumber(s, from) ==
  /\ spc[s] = from /\ NextPacket(s, inbuf[s])
  /\ UNCHANGED seqn
  /\ send_tries' = [send_tries EXCEPT ![s] = 0]

Acknowledged(s, from) ==
  /\ spc[s] = from /\ NextPacket(s, inbuf[s])
  /\ seqn' = [seqn EXCEPT ![s] = @ + 1]
  /\ send_tries' = [send_tries EXCEPT ![s] = 0]

\* The spin loop ends because the other thread cleared the flag...
WaitReleased(s) ==
  /\ up /\ ~notification_delivered
  /\ Acknowledged(s, "wait")
  /\ UNCHANGED <<mainVars, rowVars, connected, max_reference_seqn, inbuf,
                 timeouts, executed, wireVars>>

\* ...or because more than three seconds have passed: the flag stays.
WaitTimedOut(s) ==
  /\ up /\ notification_delivered /\ timeouts[s] < MaxTimeouts
  /\ Acknowledged(s, "wait")
  /\ timeouts' = [timeouts EXCEPT ![s] = @ + 1]
  /\ UNCHANGED <<mainVars, rowVars, connected, max_reference_seqn, inbuf,
                 executed, wireVars>>

\* popNotification: pop under the lock, then clear the flag under the lock.
popNotification(s) ==
  /\ up /\ spc[s] = "pop"
  /\ \/ /\ messages_to_receive = <<>>
        /\ Crash
     \/ /\ messages_to_receive # <<>>
        /\ Goto(s, "pop", "clear")
        /\ messages_to_receive' = Tail(messages_to_receive)
        /\ UNCHANGED <<mainVars, active_sessions, notification_delivered, arrived,
                       following, connected, seqn, send_tries, max_reference_seqn,
                       inbuf, timeouts, executed, wireVars>>

ClearDelivered(s) ==
  /\ up
  /\ Acknowledged(s, "clear")
  /\ notification_delivered' = FALSE
  /\ UNCHANGED <<mainVars, active_sessions, messages_to_receive, arrived, following,
                 connected, max_reference_seqn, inbuf, timeouts, executed, wireVars>>

-----------------------------------------------------------------------------
\* The steps of the thread of session s.
Thread(s) ==
  \/ hasNewNotification(s) \/ send_notification(s)
  \/ RecvNothing(s) \/ RecvBatch(s) \/ LoopAgain(s) \/ LeaveLoop(s)
  \/ Duplicate(s) \/ receive_CONNECT(s) \/ receive_FOLLOW(s) \/ receive_SEND(s)
  \/ receive_DISCONNECT(s) \/ StrayAck(s) \/ receive_ACK(s)
  \/ get_notification_delivered(s) \/ set_notification_delivered(s)
  \/ WaitReleased(s) \/ WaitTimedOut(s) \/ popNotification(s) \/ ClearDelivered(s)

ServerNext ==
  \/ set_termination_signal \/ StopListening \/ ExitServer \/ addNotification
  \/ \E s \in Sessions : Accept(s) \/ Thread(s)
=============================================================================
