-------------------------- MODULE FeedTypesProof ---------------------------
(***************************************************************************)
(* Every step of the system keeps the types of its variables, given that   *)
(* whoever handles or sends a packet has one and a connected session is    *)
(* counted.  FeedSystemProof shows that they do.                           *)
(***************************************************************************)
EXTENDS FeedSystem, FiniteSetTheorems, SequenceTheorems, TLAPS

-----------------------------------------------------------------------------
(* Channels *)

\* What a read returns is a nonempty prefix, and the rest stays.
LEMMA BatchProperties ==
  ASSUME NEW S, NEW q \in Seq(S), NEW batch \in Batches(q)
  PROVE  /\ batch \in Seq(S) /\ batch # <<>>
         /\ Len(batch) \in 1..Len(q)
         /\ \A i \in 1..Len(batch) : batch[i] = q[i]
         /\ After(q, batch) \in Seq(S)
         /\ Len(After(q, batch)) = Len(q) - Len(batch)
         /\ \A i \in 1..Len(After(q, batch)) : After(q, batch)[i] = q[i + Len(batch)]
         /\ q # <<>> /\ Head(batch) \in S /\ Head(batch) = Head(q)
<1>1. PICK k \in 1..Len(q) : batch = SubSeq(q, 1, k)
  BY DEF Batches
<1>2. Len(q) \in Nat
  BY LenProperties
<1>3. /\ batch \in Seq(S) /\ Len(batch) = k
      /\ \A i \in 1..k : batch[i] = q[i]
  BY <1>1, <1>2, SubSeqProperties
<1>4. /\ After(q, batch) \in Seq(S)
      /\ Len(After(q, batch)) = Len(q) - k
      /\ \A i \in 1..(Len(q) - k) : After(q, batch)[i] = q[i + k]
  <2>1. CASE k < Len(q)
    <3>1. /\ SubSeq(q, k+1, Len(q)) \in Seq(S)
          /\ Len(SubSeq(q, k+1, Len(q))) = Len(q) - k
          /\ \A i \in 1..(Len(q) - k) : SubSeq(q, k+1, Len(q))[i] = q[(k+1)+i-1]
      BY <2>1, <1>2, SubSeqProperties
    <3> QED
      BY <3>1, <1>2, <1>3 DEF After
  <2>2. CASE k = Len(q)
    <3>1. SubSeq(q, k+1, Len(q)) = <<>>
      BY <2>2, <1>2, SubSeqProperties
    <3> QED
      BY <3>1, <1>2, <1>3, <2>2 DEF After
  <2> QED
    BY <2>1, <2>2, <1>2
<1>5. batch # <<>> /\ q # <<>>
  BY <1>2, <1>3
<1>6. Head(batch) = batch[1] /\ Head(q) = q[1] /\ batch[1] = q[1] /\ q[1] \in S
  BY <1>2, <1>3, <1>5, HeadTailProperties, ElementOfSeq
<1> QED
  BY <1>2, <1>3, <1>4, <1>5, <1>6

\* Packets built by the handlers are packets.
LEMMA PacketType ==
  ASSUME NEW type \in PacketTypes, NEW n \in Nat, NEW d \in Payloads
  PROVE  Packet(type, n, d) \in Packets
BY DEF Packet, Packets

\* A write keeps the channels sequences of packets.
LEMMA WrittenType ==
  ASSUME NEW q \in [Sessions -> Seq(Packets)], NEW s \in Sessions,
         NEW p \in Packets, NEW open
  PROVE  Written(q, s, p, open) \in [Sessions -> Seq(Packets)]
<1>1. Append(q[s], p) \in Seq(Packets)
  BY AppendProperties
<1> QED
  BY <1>1 DEF Written

\* What the types need: HasWork, and that a connected session is counted.
Busy ==
  /\ HasWork
  /\ \A s \in Sessions : connected[s] => active_sessions > 0

-----------------------------------------------------------------------------
(* Types: the server *)

\* The steps of main keep the types.
LEMMA MainTypes ==
  ASSUME WireTypeOK, ServerTypeOK,
         set_termination_signal \/ StopListening \/ ExitServer \/ addNotification
  PROVE  WireTypeOK' /\ ServerTypeOK'
<1> USE DEF WireTypeOK, ServerTypeOK, wireVars, rowVars, mainVars, threadVars
<1>1. CASE set_termination_signal
  BY <1>1 DEF set_termination_signal
<1>2. CASE StopListening
  BY <1>2 DEF StopListening
<1>3. CASE ExitServer
  BY <1>3 DEF ExitServer
<1>4. CASE addNotification
  <2>1. Append(messages_to_receive, arrived + 1) \in Seq(Nat)
    BY AppendProperties
  <2> QED
    BY <1>4, <2>1 DEF addNotification, AddLast
<1> QED
  BY <1>1, <1>2, <1>3, <1>4

\* So do the steps of a thread outside its handlers.
LEMMA LoopTypes ==
  ASSUME WireTypeOK, ServerTypeOK, Busy, NEW s \in Sessions,
         \/ Accept(s) \/ hasNewNotification(s) \/ send_notification(s)
         \/ RecvNothing(s) \/ RecvBatch(s) \/ LoopAgain(s) \/ LeaveLoop(s)
  PROVE  WireTypeOK' /\ ServerTypeOK'
<1> USE DEF WireTypeOK, ServerTypeOK, wireVars, rowVars, mainVars, threadVars,
            Goto, ThreadPoints
<1>1. CASE Accept(s)
  BY <1>1 DEF Accept
<1>2. CASE hasNewNotification(s)
  BY <1>2 DEF hasNewNotification
<1>3. CASE send_notification(s)
  <2>1. CASE Crash
    BY <2>1 DEF Crash
  <2>2. CASE messages_to_receive # <<>> /\ ~Crash
    <3>1. Head(messages_to_receive) \in Nat
      BY <2>2, HeadTailProperties
    <3>2. Packet("MSG", seqn[s], Head(messages_to_receive)) \in Packets
      BY <3>1 DEF Packet, Packets, PacketTypes, Payloads
    <3>3. Written(toClient, s, Packet("MSG", seqn[s], Head(messages_to_receive)), clientOpen)
            \in [Sessions -> Seq(Packets)]
      BY <3>2, WrittenType
    <3>4. CountTry(s)
      BY <1>3, <2>2 DEF send_notification
    <3>5. send_tries' \in [Sessions -> Nat]
      BY <3>4 DEF CountTry
    <3> QED
      BY <1>3, <2>2, <3>3, <3>5 DEF send_notification, ServerWrites
  <2> QED
    BY <1>3, <2>1, <2>2 DEF send_notification
<1>4. CASE RecvNothing(s)
  BY <1>4 DEF RecvNothing
<1>5. CASE RecvBatch(s)
  <2>1. PICK batch \in Batches(toServer[s]) :
          /\ inbuf' = [inbuf EXCEPT ![s] = batch]
          /\ toServer' = [toServer EXCEPT ![s] = After(@, batch)]
    BY <1>5 DEF RecvBatch
  <2>2. batch \in Seq(Packets) /\ After(toServer[s], batch) \in Seq(Packets)
    BY BatchProperties
  <2> QED
    BY <1>5, <2>1, <2>2 DEF RecvBatch
<1>6. CASE LoopAgain(s)
  BY <1>6 DEF LoopAgain
<1>7. CASE LeaveLoop(s)
  <2>1. CASE Crash
    BY <2>1 DEF Crash
  <2>2. CASE connected[s] /\ ~Crash
    <3>1. active_sessions - 1 \in Nat
      BY <2>2 DEF Busy, HasWork
    <3> QED
      BY <1>7, <2>2, <3>1 DEF LeaveLoop, closeSession, GiveBackOne, CloseSocket
  <2> QED
    BY <1>7, <2>1, <2>2 DEF LeaveLoop
<1> QED
  BY <1>1, <1>2, <1>3, <1>4, <1>5, <1>6, <1>7

\* A reply carries the number of the packet it answers.
LEMMA ReplyType ==
  ASSUME WireTypeOK, ServerTypeOK, NEW s \in Sessions, inbuf[s] # <<>>,
         NEW type \in PacketTypes, Reply(s, type)
  PROVE  toClient' \in [Sessions -> Seq(Packets)]
<1>1. Head(inbuf[s]).seqn \in Nat
  <2>1. Head(inbuf[s]) \in Packets
    BY HeadTailProperties DEF ServerTypeOK
  <2> QED
    BY <2>1 DEF Packets
<1>2. Packet(type, Head(inbuf[s]).seqn, NoData) \in Packets
  BY <1>1, PacketType DEF Payloads
<1>3. Written(toClient, s, Packet(type, Head(inbuf[s]).seqn, NoData), clientOpen)
        \in [Sessions -> Seq(Packets)]
  BY <1>2, WrittenType DEF WireTypeOK
<1> QED
  BY <1>3 DEF Reply, ServerWrites

\* The handlers of packets other than ACK keep the types.
LEMMA HandlerTypes ==
  ASSUME WireTypeOK, ServerTypeOK, Busy, NEW s \in Sessions,
         \/ Duplicate(s) \/ receive_CONNECT(s) \/ receive_FOLLOW(s)
         \/ receive_SEND(s) \/ receive_DISCONNECT(s)
  PROVE  WireTypeOK' /\ ServerTypeOK'
<1> USE DEF WireTypeOK, ServerTypeOK
<1>1. inbuf[s] # <<>>
  BY DEF Busy, HasWork, Duplicate, receive_CONNECT, receive_FOLLOW, receive_SEND,
         receive_DISCONNECT, Parsing
<1>2. /\ Head(inbuf[s]) \in Packets
      /\ Tail(inbuf[s]) \in Seq(Packets)
  BY <1>1, HeadTailProperties
<1>3. /\ Head(inbuf[s]).seqn \in Nat
      /\ Head(inbuf[s]).data \in Payloads
  BY <1>2 DEF Packets
<1>4. TakePacket(s) => inbuf' \in [Sessions -> Seq(Packets)]
  BY <1>2 DEF TakePacket
<1>5. Handle(s) => inbuf' \in [Sessions -> Seq(Packets)]
                   /\ spc' \in [Sessions -> ThreadPoints]
  BY <1>4 DEF Handle, NextPacket, ThreadPoints
<1>6. Remember(s) => max_reference_seqn' \in [Sessions -> Nat]
  BY <1>3 DEF Remember
<1>7. \A type \in PacketTypes : Reply(s, type) => toClient' \in [Sessions -> Seq(Packets)]
  BY <1>1, ReplyType
<1>8. Goto(s, "parse", "done") => spc' \in [Sessions -> ThreadPoints]
  BY DEF Goto, ThreadPoints
<1>9. ASSUME Head(inbuf[s]).type \in {"FOLLOW", "SEND"}, Execute(s)
      PROVE  executed' \in [Sessions -> Seq(CommandsExecuted)]
  <2>1. [type |-> Head(inbuf[s]).type, data |-> Head(inbuf[s]).data] \in CommandsExecuted
    BY <1>3, <1>9 DEF CommandsExecuted
  <2>2. Append(executed[s], [type |-> Head(inbuf[s]).type, data |-> Head(inbuf[s]).data])
          \in Seq(CommandsExecuted)
    BY <2>1, AppendProperties
  <2> QED
    BY <2>2, <1>9 DEF Execute
<1>10. ASSUME closeSession(s), connected[s]
       PROVE  /\ active_sessions' \in Nat
              /\ connected' \in [Sessions -> BOOLEAN]
              /\ serverOpen' \in [Sessions -> BOOLEAN]
              /\ UNCHANGED <<notification_delivered, messages_to_receive, arrived, following>>
  <2>1. active_sessions - 1 \in Nat
    BY <1>10 DEF Busy, HasWork
  <2> QED
    BY <2>1, <1>10 DEF closeSession, GiveBackOne, CloseSocket
<1> USE DEF mainVars, rowVars, PacketTypes
<1>11. CASE Duplicate(s)
  BY <1>11, <1>5, <1>7 DEF Duplicate
<1>12. CASE receive_CONNECT(s)
  <2>1. CASE HasPlace
    <3>1. /\ Handle(s) /\ Reply(s, "ACK") /\ Remember(s)
          /\ active_sessions' = active_sessions + 1
          /\ connected' = [connected EXCEPT ![s] = TRUE]
          /\ UNCHANGED <<serverOpen, mainVars, notification_delivered, messages_to_receive,
                         arrived, following, seqn, send_tries, timeouts, executed,
                         toServer, clientOpen>>
      BY <1>12, <2>1 DEF receive_CONNECT
    <3>2. toClient' \in [Sessions -> Seq(Packets)]
      BY <3>1, <1>7
    <3>3. /\ active_sessions' \in Nat
          /\ connected' \in [Sessions -> BOOLEAN]
      BY <3>1
    <3> QED
      BY <3>1, <3>2, <3>3, <1>5, <1>6
  <2>2. CASE ~HasPlace
    <3>1. /\ TakePacket(s) /\ Reply(s, "ERROR") /\ Remember(s) /\ Refuse(s)
          /\ UNCHANGED <<active_sessions, connected, mainVars, notification_delivered,
                         messages_to_receive, arrived, following, seqn, send_tries,
                         timeouts, executed, toServer, clientOpen>>
      BY <1>12, <2>2 DEF receive_CONNECT
    <3>2. serverOpen' \in [Sessions -> BOOLEAN]
      BY <3>1 DEF Refuse, CloseSocket
    <3>3. spc' \in [Sessions -> ThreadPoints]
      BY <3>1, <1>8 DEF Refuse
    <3> QED
      BY <3>1, <3>2, <3>3, <1>4, <1>6, <1>7
  <2> QED
    BY <2>1, <2>2
<1>13. CASE receive_FOLLOW(s)
  <2>1. /\ Handle(s) /\ Remember(s) /\ Execute(s)
        /\ Head(inbuf[s]).type \in {"FOLLOW", "SEND"}
        /\ UNCHANGED <<mainVars, active_sessions, notification_delivered, messages_to_receive,
                       arrived, connected, seqn, send_tries, timeouts,
                       toServer, serverOpen, clientOpen>>
    BY <1>13 DEF receive_FOLLOW, Parsing
  <2>2. Reply(s, "ACK") \/ Reply(s, "ERROR")
    BY <1>13 DEF receive_FOLLOW
  <2>3. following' \subseteq Profiles
    BY <1>13 DEF receive_FOLLOW, CanFollow
  <2>4. toClient' \in [Sessions -> Seq(Packets)]
    BY <2>2, <1>7
  <2> QED
    BY <2>1, <2>3, <2>4, <1>5, <1>6, <1>9
<1>14. CASE receive_SEND(s)
  <2>1. Head(inbuf[s]).type \in {"FOLLOW", "SEND"}
    BY <1>14 DEF receive_SEND, Parsing
  <2> QED
    BY <1>14, <2>1, <1>5, <1>6, <1>7, <1>9 DEF receive_SEND
<1>15. CASE receive_DISCONNECT(s)
  BY <1>15, <1>4, <1>6, <1>8, <1>10 DEF receive_DISCONNECT
<1> QED
  BY <1>11, <1>12, <1>13, <1>14, <1>15

\* The steps of receive_ACK keep the types.
LEMMA AckTypes ==
  ASSUME WireTypeOK, ServerTypeOK, Busy, NEW s \in Sessions,
         \/ StrayAck(s) \/ receive_ACK(s)
         \/ get_notification_delivered(s) \/ set_notification_delivered(s)
         \/ WaitReleased(s) \/ WaitTimedOut(s) \/ popNotification(s) \/ ClearDelivered(s)
  PROVE  WireTypeOK' /\ ServerTypeOK'
<1> USE DEF WireTypeOK, ServerTypeOK, wireVars, rowVars, mainVars, threadVars
<1>1. \A from, to \in ThreadPoints : Goto(s, from, to) => spc' \in [Sessions -> ThreadPoints]
  BY DEF Goto
<1>2. \A from \in ThreadPoints : Acknowledged(s, from) =>
        /\ spc' \in [Sessions -> ThreadPoints]
        /\ seqn' \in [Sessions -> Nat]
        /\ send_tries' \in [Sessions -> Nat]
  BY DEF Acknowledged, NextPacket, ThreadPoints
<1>3. inbuf[s] # <<>> => Tail(inbuf[s]) \in Seq(Packets)
  BY HeadTailProperties
<1>4. TakePacket(s) /\ inbuf[s] # <<>> => inbuf' \in [Sessions -> Seq(Packets)]
  BY <1>3 DEF TakePacket
<1>5. CASE StrayAck(s)
  <2>1. inbuf[s] # <<>>
    BY <1>5 DEF StrayAck, Parsing, Busy, HasWork
  <2> QED
    BY <1>5, <2>1, <1>4 DEF StrayAck, Handle, NextPacket, ThreadPoints
<1>6. CASE receive_ACK(s)
  <2>1. inbuf[s] # <<>>
    BY <1>6 DEF receive_ACK, Parsing, Busy, HasWork
  <2>2. spc' \in [Sessions -> ThreadPoints]
    BY <1>6, <1>1 DEF receive_ACK, ThreadPoints
  <2> QED
    BY <1>6, <2>1, <2>2, <1>4 DEF receive_ACK
<1>7. CASE get_notification_delivered(s)
  BY <1>7 DEF get_notification_delivered, Goto, ThreadPoints
<1>8. CASE set_notification_delivered(s)
  BY <1>8 DEF set_notification_delivered, Goto, ThreadPoints
<1>9. CASE WaitReleased(s)
  BY <1>9, <1>2 DEF WaitReleased, ThreadPoints
<1>10. CASE WaitTimedOut(s)
  <2>1. timeouts' \in [Sessions -> Nat]
    BY <1>10 DEF WaitTimedOut
  <2> QED
    BY <1>10, <2>1, <1>2 DEF WaitTimedOut, ThreadPoints
<1>11. CASE popNotification(s)
  <2>1. CASE messages_to_receive = <<>>
    BY <1>11, <2>1 DEF popNotification, Crash
  <2>2. CASE messages_to_receive # <<>>
    <3>1. Tail(messages_to_receive) \in Seq(Nat)
      BY <2>2, HeadTailProperties
    <3> QED
      BY <1>11, <2>2, <3>1 DEF popNotification, Goto, ThreadPoints
  <2> QED
    BY <2>1, <2>2
<1>12. CASE ClearDelivered(s)
  BY <1>12, <1>2 DEF ClearDelivered, ThreadPoints
<1> QED
  BY <1>5, <1>6, <1>7, <1>8, <1>9, <1>10, <1>11, <1>12

-----------------------------------------------------------------------------
(* Types: the client *)

\* No packet counts as a command packet, and command packets are packets.
LEMMA CommandPacketTypes == NoPacket \in CommandPackets /\ CommandPackets \subseteq Packets
BY DEF NoPacket, Packet, CommandPackets, Packets, PacketTypes, Payloads

\* What the user types is a command.
LEMMA ScriptType ==
  ASSUME NEW s \in Sessions, NEW k \in 1..Len(Script[s])
  PROVE  Script[s][k].type \in {"FOLLOW", "SEND"} /\ Script[s][k].data \in Data
<1>1. Script[s] \in Seq([type : {"FOLLOW", "SEND"}, data : Data])
  BY ClientAssumption DEF ClientAssumption
<1>2. Script[s][k] \in [type : {"FOLLOW", "SEND"}, data : Data]
  BY <1>1, ElementOfSeq
<1> QED
  BY <1>2

\* The interface thread and the end of the process keep the types.
LEMMA InterfaceTypes ==
  ASSUME WireTypeOK, ClientTypeOK, NEW s \in Sessions,
         Interface(s) \/ Quit(s) \/ Kill(s) \/ LoseConnection(s)
  PROVE  WireTypeOK' /\ ClientTypeOK'
<1> USE DEF WireTypeOK, ClientTypeOK, wireVars, Set
<1>1. CASE TypeCommand(s)
  <2> DEFINE command == Script[s][typed[s] + 1]
  <2>1. typed[s] + 1 \in 1..Len(Script[s])
    <3>1. Script[s] \in Seq([type : {"FOLLOW", "SEND"}, data : Data])
      BY ClientAssumption DEF ClientAssumption
    <3>2. Len(Script[s]) \in Nat
      BY <3>1, LenProperties
    <3>3. typed[s] < Len(Script[s])
      BY <1>1 DEF TypeCommand
    <3> QED
      BY <3>2, <3>3
  <2>2. command.type \in {"FOLLOW", "SEND"} /\ command.data \in Data
    BY <2>1, ScriptType
  <2>3. /\ payload' = [payload EXCEPT ![s] = command.data]
        /\ pending' = [pending EXCEPT ![s] = Packet(command.type, client_seqn[s], NoData)]
        /\ typed' = [typed EXCEPT ![s] = typed[s] + 1]
        /\ ipc' = [ipc EXCEPT ![s] = "push"]
        /\ UNCHANGED <<cpc, client_seqn, packets_to_send, packets_received, outgoing,
                       tries, last_seqn, quitting, sends, displayed, wireVars>>
    BY <1>1 DEF TypeCommand
  <2> HIDE DEF command
  <2>4. Packet(command.type, client_seqn[s], NoData) \in CommandPackets
    BY <2>2 DEF CommandPackets, Packet, Payloads
  <2>5. payload' \in [Sessions -> Payloads]
    BY <2>2, <2>3 DEF Payloads
  <2>6. pending' \in [Sessions -> CommandPackets]
    BY <2>3, <2>4
  <2>7. typed' \in [Sessions -> Nat]
    BY <2>3
  <2> QED
    BY <2>3, <2>5, <2>6, <2>7
<1>2. CASE PushCommand(s)
  <2>1. Append(packets_to_send[s], pending[s]) \in Seq(CommandPackets)
    BY AppendProperties
  <2>2. pending[s].seqn \in Nat
    BY DEF CommandPackets
  <2>3. client_seqn' \in [Sessions -> Nat]
    BY <1>2, <2>2 DEF PushCommand
  <2>4. NoPacket \in CommandPackets
    BY CommandPacketTypes
  <2> QED
    BY <1>2, <2>1, <2>3, <2>4 DEF PushCommand
<1>3. CASE Display(s)
  <2>1. displayed[s] \o packets_received[s] \in Seq(Payloads)
    BY ConcatProperties
  <2>2. <<>> \in Seq(Payloads)
    BY EmptySeq
  <2> QED
    BY <1>3, <2>1, <2>2 DEF Display
<1>4. CASE Quit(s)
  BY <1>4 DEF Quit
<1>5. CASE Kill(s)
  BY <1>5 DEF Kill, Exit
<1>6. CASE LoseConnection(s)
  BY <1>6 DEF LoseConnection, Exit
<1> QED
  BY <1>1, <1>2, <1>3, <1>4, <1>5, <1>6 DEF Interface

\* A read leaves packets, and its first one is a packet.
LEMMA ReadingType ==
  ASSUME WireTypeOK, NEW s \in Sessions, NEW batch, Reading(s, batch)
  PROVE  /\ toClient' \in [Sessions -> Seq(Packets)]
         /\ Head(batch) \in Packets
         /\ Head(batch).seqn \in Nat
         /\ Head(batch).data \in Payloads
<1>1. batch \in Batches(toClient[s]) /\ toClient[s] \in Seq(Packets)
  BY DEF Reading, WireTypeOK
<1>2. After(toClient[s], batch) \in Seq(Packets) /\ Head(batch) \in Packets
  BY <1>1, BatchProperties
<1>3. toClient' = [toClient EXCEPT ![s] = After(toClient[s], batch)]
  BY DEF Reading, Set
<1> QED
  BY <1>2, <1>3 DEF WireTypeOK, Packets

\* Retry only touches the program counter, the packet and the count.
LEMMA RetryType ==
  ASSUME ClientTypeOK, NEW s \in Sessions, Retry(s)
  PROVE  /\ cpc' \in [Sessions -> {"connect", "await", "loop", "send", "sending", "dead"}]
         /\ tries' \in [Sessions -> Nat]
         /\ outgoing' \in [Sessions -> CommandPackets]
<1>1. NoPacket \in CommandPackets
  BY CommandPacketTypes
<1>2. tries[s] + 1 \in Nat
  BY DEF ClientTypeOK
<1>3. CASE tries' = Set(tries, s, tries[s] + 1) /\ UNCHANGED <<cpc, outgoing>>
  BY <1>2, <1>3 DEF Set, ClientTypeOK
<1>4. CASE tries' = Set(tries, s, 0) /\ outgoing' = Set(outgoing, s, NoPacket)
           /\ CGoto(s, "sending", "loop")
  BY <1>1, <1>4 DEF Set, ClientTypeOK, CGoto
<1> QED
  BY <1>3, <1>4 DEF Retry

\* The communication thread keeps the types.
LEMMA CommunicationTypes ==
  ASSUME WireTypeOK, ClientTypeOK, Busy, NEW s \in Sessions, Communication(s)
  PROVE  WireTypeOK' /\ ClientTypeOK'
<1> USE DEF WireTypeOK, ClientTypeOK, wireVars
<1>1. ASSUME NEW p \in Packets, ClientWrites(s, p)
      PROVE  toServer' \in [Sessions -> Seq(Packets)]
  <2>1. Written(toServer, s, p, serverOpen) \in [Sessions -> Seq(Packets)]
    BY WrittenType
  <2> QED
    BY <2>1, <1>1 DEF ClientWrites
<1>2. \A from, to \in {"connect", "await", "loop", "send", "sending", "dead"} :
        CGoto(s, from, to) =>
          cpc' \in [Sessions -> {"connect", "await", "loop", "send", "sending", "dead"}]
  BY DEF CGoto
<1>3. NoPacket \in CommandPackets /\ CommandPackets \subseteq Packets
  BY CommandPacketTypes
<1>4. \A type \in PacketTypes : Packet(type, client_seqn[s], NoData) \in Packets
  BY PacketType DEF Payloads
<1>0. client_seqn[s] + 1 \in Nat
  OBVIOUS
<1>5. CASE send_connect_message(s)
  <2>1. ClientWrites(s, Packet("CONNECT", client_seqn[s], NoData)) /\ CGoto(s, "connect", "await")
    BY <1>5 DEF send_connect_message
  <2>2. toServer' \in [Sessions -> Seq(Packets)]
    BY <2>1, <1>1, <1>4 DEF PacketTypes
  <2> QED
    BY <1>5, <2>1, <2>2, <1>2 DEF send_connect_message
<1>6. CASE ReceiveConnectReply(s)
  <2>1. PICK batch : /\ Reading(s, batch)
                     /\ \/ CGoto(s, "await", "loop")
                           /\ client_seqn' = Set(client_seqn, s, client_seqn[s] + 1)
                        \/ CGoto(s, "await", "connect") /\ UNCHANGED client_seqn
    BY <1>6 DEF ReceiveConnectReply
  <2>2. toClient' \in [Sessions -> Seq(Packets)]
    BY <2>1, ReadingType
  <2>3. client_seqn' \in [Sessions -> Nat]
    BY <2>1, <1>0 DEF Set
  <2>4. cpc' \in [Sessions -> {"connect", "await", "loop", "send", "sending", "dead"}]
    BY <2>1, <1>2
  <2> QED
    BY <1>6, <2>2, <2>3, <2>4 DEF ReceiveConnectReply
<1>7. CASE LoopReceive(s)
  <2>1. PICK batch :
          /\ Reading(s, batch)
          /\ \/ /\ packets_received' = Set(packets_received, s,
                                           Append(packets_received[s], Head(batch).data))
                /\ last_seqn' = Set(last_seqn, s, Head(batch).seqn + 1)
             \/ UNCHANGED <<packets_received, last_seqn>>
          /\ ClientWrites(s, Packet("ACK", Head(batch).seqn, NoData))
    BY <1>7 DEF LoopReceive
  <2>2. /\ toClient' \in [Sessions -> Seq(Packets)]
        /\ Head(batch).seqn \in Nat
        /\ Head(batch).data \in Payloads
    BY <2>1, ReadingType
  <2>3. Packet("ACK", Head(batch).seqn, NoData) \in Packets
    BY <2>2, PacketType DEF PacketTypes, Payloads
  <2>4. toServer' \in [Sessions -> Seq(Packets)]
    BY <2>1, <2>3, <1>1
  <2>5. Append(packets_received[s], Head(batch).data) \in Seq(Payloads)
    BY <2>2, AppendProperties
  <2>6. packets_received' \in [Sessions -> Seq(Payloads)]
    BY <2>1, <2>5 DEF Set
  <2>7. last_seqn' \in [Sessions -> Nat]
    <3>1. Head(batch).seqn + 1 \in Nat
      BY <2>2
    <3> QED
      BY <2>1, <3>1 DEF Set
  <2>8. cpc' \in [Sessions -> {"connect", "await", "loop", "send", "sending", "dead"}]
    BY <1>7 DEF LoopReceive, CGoto
  <2> QED
    BY <1>7, <2>2, <2>4, <2>6, <2>7, <2>8 DEF LoopReceive
<1>8. CASE LoopNothing(s)
  BY <1>8 DEF LoopNothing, CGoto
<1>9. CASE send_message(s)
  <2> DEFINE packet == [Head(packets_to_send[s]) EXCEPT !.data = payload[s]]
  <2>1. packets_to_send[s] # <<>>
    BY <1>9 DEF send_message, CGoto, Busy, HasWork
  <2>2. Head(packets_to_send[s]) \in CommandPackets
    BY <2>1, HeadTailProperties
  <2>3. packet \in CommandPackets
    BY <2>2 DEF CommandPackets
  <2>4. /\ outgoing' = Set(outgoing, s, packet)
        /\ ClientWrites(s, packet)
        /\ CGoto(s, "send", "sending")
        /\ tries' = Set(tries, s, 0)
        /\ sends' = Set(sends, s, sends[s] + 1)
        /\ UNCHANGED <<ipc, client_seqn, payload, pending, packets_to_send,
                       packets_received, last_seqn, quitting, typed, displayed,
                       toClient, serverOpen, clientOpen>>
    BY <1>9 DEF send_message
  <2> HIDE DEF packet
  <2>5. toServer' \in [Sessions -> Seq(Packets)]
    BY <2>3, <2>4, <1>1, <1>3
  <2>6. /\ outgoing' \in [Sessions -> CommandPackets]
        /\ tries' \in [Sessions -> Nat]
        /\ sends' \in [Sessions -> Nat]
    BY <2>3, <2>4 DEF Set
  <2> QED
    BY <2>4, <2>5, <2>6, <1>2
<1>10. CASE ReadNothing(s)
  BY <1>10, RetryType DEF ReadNothing
<1>11. CASE ReadReply(s)
  <2>1. PICK batch :
          /\ Reading(s, batch)
          /\ \/ /\ packets_to_send' = Set(packets_to_send, s, Tail(packets_to_send[s]))
                /\ client_seqn' = Set(client_seqn, s, client_seqn[s] + 1)
                /\ CGoto(s, "sending", "loop")
                /\ tries' = Set(tries, s, 0)
                /\ outgoing' = Set(outgoing, s, NoPacket)
                /\ UNCHANGED toServer
             \/ /\ ClientWrites(s, outgoing[s])
                /\ Retry(s)
                /\ UNCHANGED <<client_seqn, packets_to_send>>
             \/ /\ Retry(s)
                /\ UNCHANGED <<client_seqn, packets_to_send, toServer>>
    BY <1>11 DEF ReadReply
  <2>2. packets_to_send[s] # <<>>
    BY <1>11 DEF ReadReply, Busy, HasWork
  <2>3. Tail(packets_to_send[s]) \in Seq(CommandPackets)
    BY <2>2, HeadTailProperties
  <2>4. toClient' \in [Sessions -> Seq(Packets)]
    BY <2>1, ReadingType
  <2>5. /\ packets_to_send' \in [Sessions -> Seq(CommandPackets)]
        /\ client_seqn' \in [Sessions -> Nat]
    <3>1. \/ /\ packets_to_send' = [packets_to_send EXCEPT ![s] = Tail(packets_to_send[s])]
             /\ client_seqn' = [client_seqn EXCEPT ![s] = client_seqn[s] + 1]
          \/ UNCHANGED <<client_seqn, packets_to_send>>
      BY <2>1 DEF Set
    <3>2. CASE UNCHANGED <<client_seqn, packets_to_send>>
      BY <3>2
    <3>3. CASE /\ packets_to_send' = [packets_to_send EXCEPT ![s] = Tail(packets_to_send[s])]
               /\ client_seqn' = [client_seqn EXCEPT ![s] = client_seqn[s] + 1]
      <4>1. packets_to_send' \in [Sessions -> Seq(CommandPackets)]
        BY <3>3, <2>3
      <4>2. client_seqn' \in [Sessions -> Nat]
        BY <3>3, <1>0
      <4> QED
        BY <4>1, <4>2
    <3> QED
      BY <3>1, <3>2, <3>3
  <2>6. toServer' \in [Sessions -> Seq(Packets)]
    BY <2>1, <1>1, <1>3
  <2>7. /\ cpc' \in [Sessions -> {"connect", "await", "loop", "send", "sending", "dead"}]
        /\ tries' \in [Sessions -> Nat]
        /\ outgoing' \in [Sessions -> CommandPackets]
    <3>1. CASE Retry(s)
      BY <3>1, RetryType
    <3>2. CASE /\ CGoto(s, "sending", "loop")
               /\ tries' = Set(tries, s, 0)
               /\ outgoing' = Set(outgoing, s, NoPacket)
      BY <3>2, <1>2, <1>3 DEF Set
    <3> QED
      BY <2>1, <3>1, <3>2
  <2> QED
    BY <1>11, <2>4, <2>5, <2>6, <2>7 DEF ReadReply
<1>12. CASE Disconnect(s)
  <2>1. toServer' \in [Sessions -> Seq(Packets)]
    <3>1. ClientWrites(s, Packet("DISCONNECT", client_seqn[s], NoData))
      BY <1>12 DEF Disconnect
    <3> QED
      BY <3>1, <1>1, <1>4 DEF PacketTypes
  <2> QED
    BY <1>12, <2>1, <1>0 DEF Disconnect, Exit, Set
<1> QED
  BY <1>5, <1>6, <1>7, <1>8, <1>9, <1>10, <1>11, <1>12 DEF Communication
=============================================================================
