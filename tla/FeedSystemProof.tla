-------------------------- MODULE FeedSystemProof --------------------------
(***************************************************************************)
(* The sessions of a profile, for any number of sessions, notifications,   *)
(* tries and commands: SessionInv is an inductive invariant of Spec, and   *)
(* from it follow type correctness, the count of the profile's sessions    *)
(* and that nothing is handled before CONNECT.                             *)
(***************************************************************************)
EXTENDS FeedTypesProof

-----------------------------------------------------------------------------
(* CONNECT packets in a channel *)

\* No CONNECT comes from writing another packet.
LEMMA AppendNoConnect ==
  ASSUME NEW q \in Seq(Packets), NoConnect(q), NEW p \in Packets, p.type # "CONNECT"
  PROVE  NoConnect(Append(q, p))
<1>1. /\ Len(Append(q, p)) = Len(q) + 1 /\ Len(q) \in Nat
      /\ \A i \in 1..Len(q) : Append(q, p)[i] = q[i]
      /\ Append(q, p)[Len(q) + 1] = p
  BY AppendProperties, LenProperties
<1>2. ASSUME NEW i \in 1..Len(Append(q, p))
      PROVE  Append(q, p)[i].type # "CONNECT"
  <2>1. CASE i = Len(q) + 1
    BY <1>1, <2>1
  <2>2. CASE i \in 1..Len(q)
    BY <1>1, <2>2 DEF NoConnect
  <2> QED
    BY <1>1, <2>1, <2>2
<1> QED
  BY <1>2 DEF NoConnect

\* Nor from taking one out.
LEMMA TailNoConnect ==
  ASSUME NEW q \in Seq(Packets), q # <<>>, NoConnect(q)
  PROVE  NoConnect(Tail(q)) /\ Head(q).type # "CONNECT"
<1>1. /\ Len(Tail(q)) = Len(q) - 1 /\ Len(q) \in Nat /\ Len(q) > 0
      /\ \A i \in 1..Len(Tail(q)) : Tail(q)[i] = q[i + 1]
  BY HeadTailProperties, LenProperties, EmptySeq
<1>2. Head(q) = q[1]
  OBVIOUS
<1>3. ASSUME NEW i \in 1..Len(Tail(q))
      PROVE  Tail(q)[i].type # "CONNECT"
  <2>1. i + 1 \in 1..Len(q)
    BY <1>1
  <2> QED
    BY <1>1, <2>1 DEF NoConnect
<1>4. 1 \in 1..Len(q)
  BY <1>1
<1> QED
  BY <1>2, <1>3, <1>4 DEF NoConnect

\* The only CONNECT is the head and nothing is behind it.
LEMMA TailOnlyConnect ==
  ASSUME NEW q \in Seq(Packets), OnlyConnect(q)
  PROVE  Tail(q) = <<>> /\ Head(q).type = "CONNECT" /\ q # <<>>
<1>1. Len(q) = 1 /\ q[1].type = "CONNECT"
  BY DEF OnlyConnect
<1>2. q # <<>>
  BY <1>1, EmptySeq
<1>3. Tail(q) \in Seq(Packets) /\ Len(Tail(q)) = 0
  BY <1>1, <1>2, HeadTailProperties
<1>4. Tail(q) = <<>>
  BY <1>3, EmptySeq
<1> QED
  BY <1>1, <1>2, <1>4

\* A read takes the only CONNECT whole, and brings none where there is none.
LEMMA BatchConnect ==
  ASSUME NEW q \in Seq(Packets), NEW batch \in Batches(q)
  PROVE  /\ OnlyConnect(q) => OnlyConnect(batch) /\ After(q, batch) = <<>>
         /\ NoConnect(q) => NoConnect(batch) /\ NoConnect(After(q, batch))
<1>1. /\ Len(q) \in Nat /\ Len(batch) \in 1..Len(q)
      /\ \A i \in 1..Len(batch) : batch[i] = q[i]
      /\ After(q, batch) \in Seq(Packets)
      /\ Len(After(q, batch)) = Len(q) - Len(batch)
      /\ \A i \in 1..Len(After(q, batch)) : After(q, batch)[i] = q[i + Len(batch)]
  BY BatchProperties, LenProperties
<1>2. ASSUME OnlyConnect(q)
      PROVE  OnlyConnect(batch) /\ After(q, batch) = <<>>
  <2>1. Len(batch) = 1 /\ Len(After(q, batch)) = 0
    BY <1>1, <1>2 DEF OnlyConnect
  <2>2. After(q, batch) = <<>>
    BY <2>1, <1>1, EmptySeq
  <2> QED
    BY <1>1, <1>2, <2>1, <2>2 DEF OnlyConnect
<1>3. ASSUME NoConnect(q)
      PROVE  NoConnect(batch) /\ NoConnect(After(q, batch))
  <2>1. \A i \in 1..Len(batch) : i \in 1..Len(q)
    BY <1>1
  <2>2. \A i \in 1..Len(After(q, batch)) : i + Len(batch) \in 1..Len(q)
    BY <1>1
  <2> QED
    BY <1>1, <1>3, <2>1, <2>2 DEF NoConnect
<1> QED
  BY <1>2, <1>3

-----------------------------------------------------------------------------
(* The count of sessions *)

\* A connected session is counted.
LEMMA CountedPositive ==
  ASSUME ServerTypeOK, PlacesCounted, NEW s \in Sessions, connected[s]
  PROVE  active_sessions > 0
<1>1. IsFiniteSet(ConnectedSessions)
  BY SessionsAssumption, FS_Subset DEF ConnectedSessions, SessionsAssumption
<1>2. s \in ConnectedSessions
  BY DEF ConnectedSessions
<1>3. Cardinality(ConnectedSessions) # 0 /\ Cardinality(ConnectedSessions) \in Nat
  BY <1>1, <1>2, FS_EmptySet, FS_CardinalityType
<1> QED
  BY <1>3 DEF PlacesCounted

\* connectUser counts the session it admits.
LEMMA PlaceTaken ==
  ASSUME ServerTypeOK, PlacesCounted, NEW s \in Sessions, ~connected[s],
         active_sessions < 2, active_sessions' = active_sessions + 1,
         connected' = [connected EXCEPT ![s] = TRUE]
  PROVE  PlacesCounted'
<1>1. IsFiniteSet(ConnectedSessions)
  BY SessionsAssumption, FS_Subset DEF ConnectedSessions, SessionsAssumption
<1>2. ConnectedSessions' = ConnectedSessions \union {s} /\ s \notin ConnectedSessions
  BY DEF ConnectedSessions, ServerTypeOK
<1>3. Cardinality(ConnectedSessions') = Cardinality(ConnectedSessions) + 1
  BY <1>1, <1>2, FS_AddElement
<1> QED
  BY <1>3 DEF PlacesCounted, ServerTypeOK

\* closeSession gives the place of a connected session back.
LEMMA PlaceGivenBack ==
  ASSUME ServerTypeOK, PlacesCounted, NEW s \in Sessions, connected[s], closeSession(s)
  PROVE  PlacesCounted'
<1>1. IsFiniteSet(ConnectedSessions)
  BY SessionsAssumption, FS_Subset DEF ConnectedSessions, SessionsAssumption
<1>2. ConnectedSessions' = ConnectedSessions \ {s} /\ s \in ConnectedSessions
  BY DEF ConnectedSessions, ServerTypeOK, closeSession
<1>3. Cardinality(ConnectedSessions') = Cardinality(ConnectedSessions) - 1
  BY <1>1, <1>2, FS_RemoveElement
<1>4. active_sessions' = active_sessions - 1
  BY DEF closeSession, GiveBackOne
<1> QED
  BY <1>3, <1>4 DEF PlacesCounted, ServerTypeOK

\* Nothing else changes the count.
LEMMA PlacesSame ==
  ASSUME PlacesCounted, UNCHANGED <<active_sessions, connected>>
  PROVE  PlacesCounted'
BY DEF PlacesCounted, ConnectedSessions

-----------------------------------------------------------------------------
(* One session moves, the others stay *)

\* Nothing that Phase and HasWork say of session t changes.
Same(t) ==
  /\ toServer'[t] = toServer[t] /\ toClient'[t] = toClient[t]
  /\ serverOpen'[t] = serverOpen[t] /\ clientOpen'[t] = clientOpen[t]
  /\ spc'[t] = spc[t] /\ connected'[t] = connected[t] /\ inbuf'[t] = inbuf[t]
  /\ max_reference_seqn'[t] = max_reference_seqn[t]
  /\ cpc'[t] = cpc[t] /\ packets_to_send'[t] = packets_to_send[t]

\* HasWork, of one session.
Work(t) ==
  /\ spc[t] = "parse" => inbuf[t] # <<>>
  /\ cpc[t] \in {"send", "sending"} => packets_to_send[t] # <<>>

Good(t) == Phase(t) /\ Work(t)

\* A session that nothing happens to stays as it was.
LEMMA SameGood ==
  ASSUME NEW t \in Sessions, Good(t), Same(t), UNCHANGED <<up, listening>>
  PROVE  Good(t)'
BY DEF Same, Good, Phase, Work, OwnsSocket, Before, Asking, Joined

\* The parts of SessionInv that are not types.
Sound == PlacesCounted /\ \A t \in Sessions : Good(t)

\* So it is enough to look at the session that moves.
LEMMA OneMoves ==
  ASSUME Sound, NEW s \in Sessions, UNCHANGED <<up, listening>>,
         \A t \in Sessions \ {s} : Same(t), Good(s)', PlacesCounted'
  PROVE  Sound'
BY SameGood DEF Sound

\* A crash closes every connection and moves no thread.
LEMMA CrashSound ==
  ASSUME WireTypeOK, ServerTypeOK, Sound, Crash, UNCHANGED clientVars
  PROVE  Sound'
<1>1. PlacesCounted'
  BY PlacesSame DEF Sound, Crash, rowVars, threadVars
<1>2. ASSUME NEW t \in Sessions
      PROVE  Good(t)'
  BY DEF Sound, Good, Phase, Work, Crash, rowVars, threadVars, clientVars
<1> QED
  BY <1>1, <1>2 DEF Sound

-----------------------------------------------------------------------------
(* The server *)

\* A write does not change the head of a channel that has one.
LEMMA WriteKeepsHead ==
  ASSUME WireTypeOK, NEW s \in Sessions, NEW p \in Packets, ServerWrites(s, p),
         toClient[s] # <<>>
  PROVE  toClient'[s] # <<>> /\ Head(toClient'[s]) = Head(toClient[s])
<1>0. toClient[s] \in Seq(Packets)
  BY DEF WireTypeOK
<1>1. Append(toClient[s], p) # <<>>
  BY <1>0, AppendProperties
<1>2. Head(Append(toClient[s], p)) = Head(toClient[s])
  BY <1>0, HeadTailAppend, Zenon
<1>3. toClient'[s] \in {toClient[s], Append(toClient[s], p)}
  BY DEF ServerWrites, Written, WireTypeOK
<1> QED
  BY <1>1, <1>2, <1>3

\* A thread that ends closes its session and its socket.
LEMMA CloseSound ==
  ASSUME WireTypeOK, ServerTypeOK, Sound, UNCHANGED clientVars, NEW s \in Sessions,
         connected[s], closeSession(s), spc' = [spc EXCEPT ![s] = "done"],
         UNCHANGED <<up, listening, toServer, toClient, clientOpen>>,
         \A t \in Sessions \ {s} : inbuf'[t] = inbuf[t]
                                   /\ max_reference_seqn'[t] = max_reference_seqn[t]
  PROVE  Sound'
<1>1. /\ connected' = [connected EXCEPT ![s] = FALSE]
      /\ serverOpen' = [serverOpen EXCEPT ![s] = FALSE]
  BY DEF closeSession, CloseSocket
<1>2. \A t \in Sessions \ {s} : Same(t)
  BY <1>1 DEF Same, clientVars
<1>3. ~serverOpen'[s] /\ ~connected'[s] /\ spc'[s] = "done"
  BY <1>1 DEF WireTypeOK, ServerTypeOK
<1>4. Good(s)
  BY DEF Sound
<1>5. Good(s)'
  BY <1>3, <1>4 DEF Good, Phase, Work, OwnsSocket, clientVars
<1>6. PlacesCounted'
  BY PlaceGivenBack DEF Sound
<1> QED
  BY <1>2, <1>5, <1>6, OneMoves

\* The steps of main.
LEMMA MainSound ==
  ASSUME WireTypeOK, ServerTypeOK, Sound, UNCHANGED clientVars,
         set_termination_signal \/ StopListening \/ ExitServer \/ addNotification
  PROVE  Sound'
<1> USE DEF wireVars, rowVars, mainVars, threadVars, clientVars
<1>1. UNCHANGED <<active_sessions, connected>>
  BY DEF set_termination_signal, StopListening, ExitServer, addNotification
<1>2. PlacesCounted'
  BY <1>1, PlacesSame DEF Sound
<1>3. ASSUME NEW t \in Sessions
      PROVE  Good(t)'
  <2>0. Good(t)
    BY DEF Sound
  <2>1. CASE set_termination_signal \/ addNotification
    BY <2>0, <2>1, SameGood DEF set_termination_signal, addNotification, Same
  <2>2. CASE StopListening
    <3>1. /\ serverOpen'[t] = (serverOpen[t] /\ spc[t] # "none")
          /\ listening' = FALSE
          /\ UNCHANGED <<up, toServer, toClient, clientOpen, spc, connected, inbuf,
                         max_reference_seqn, cpc, packets_to_send>>
      BY <2>2 DEF StopListening
    <3> QED
      BY <2>0, <3>1 DEF WireTypeOK, Good, Phase, Work, OwnsSocket, Before, Asking, Joined
  <2>3. CASE ExitServer
    <3>1. /\ up' = FALSE
          /\ UNCHANGED <<serverOpen, toServer, toClient, clientOpen, spc, connected,
                         inbuf, max_reference_seqn, cpc, packets_to_send>>
      BY <2>3 DEF ExitServer
    <3> QED
      BY <2>0, <3>1 DEF Good, Phase, Work, Before, Asking, Joined
  <2> QED
    BY <2>1, <2>2, <2>3
<1> QED
  BY <1>2, <1>3 DEF Sound

\* A thread's steps outside its handlers.
LEMMA LoopSound ==
  ASSUME WireTypeOK, ServerTypeOK, Sound, UNCHANGED clientVars, NEW s \in Sessions,
         \/ Accept(s) \/ hasNewNotification(s) \/ send_notification(s)
         \/ RecvNothing(s) \/ RecvBatch(s) \/ LoopAgain(s) \/ LeaveLoop(s)
  PROVE  Sound'
<1> USE DEF wireVars, rowVars, mainVars, threadVars, clientVars
<1>0. Good(s) /\ PlacesCounted
  BY DEF Sound
\* Most steps only move the thread.
<1>1. ASSUME NEW to \in {"send", "recv", "sleep", "peek"}, spc' = [spc EXCEPT ![s] = to],
             up, spc[s] = "none" => listening /\ to = "send",
             spc[s] \in {"none", "send", "recv", "sleep"},
             connected[s] \/ to # "peek", 
             spc[s] = "none" => toServer[s] # <<>>,
             UNCHANGED <<up, listening, active_sessions, connected, max_reference_seqn,
                         inbuf, toServer, toClient, serverOpen, clientOpen>>
      PROVE  Sound'
  <2>1. \A t \in Sessions \ {s} : Same(t)
    BY <1>1 DEF Same
  <2>2. spc'[s] = to
    BY <1>1 DEF ServerTypeOK
  <2>3. Good(s)'
    BY <1>0, <1>1, <2>2 DEF Good, Phase, Work, OwnsSocket, Before, Asking, Joined
  <2>4. PlacesCounted'
    BY <1>0, <1>1, PlacesSame
  <2> QED
    BY <1>1, <2>1, <2>3, <2>4, OneMoves
<1>2. CASE Accept(s)
  BY <1>2, <1>1 DEF Accept, Goto
<1>3. CASE hasNewNotification(s)
  <2>1. PICK to \in {"recv", "peek"} : Goto(s, "send", to) /\ (connected[s] \/ to # "peek")
    BY <1>3 DEF hasNewNotification
  <2> QED
    BY <1>1, <1>3, <2>1 DEF hasNewNotification, Goto
<1>4. CASE RecvNothing(s)
  BY <1>4, <1>1 DEF RecvNothing, Goto
<1>5. CASE LoopAgain(s)
  BY <1>5, <1>1 DEF LoopAgain, Goto
<1>6. CASE send_notification(s)
  <2>1. CASE messages_to_receive = <<>>
    BY <1>6, <2>1, CrashSound DEF send_notification
  <2>2. CASE messages_to_receive # <<>>
    <3>1. /\ up /\ spc[s] = "peek" /\ spc' = [spc EXCEPT ![s] = "recv"]
          /\ ServerWrites(s, Packet("MSG", seqn[s], Head(messages_to_receive)))
          /\ UNCHANGED <<up, listening, active_sessions, connected, max_reference_seqn,
                         inbuf, toServer, serverOpen, clientOpen>>
      BY <1>6, <2>2 DEF send_notification, Goto
    <3>2. PICK p : ServerWrites(s, p)
      BY <3>1
    <3>3. \A t \in Sessions \ {s} : toClient'[t] = toClient[t]
      BY <3>2 DEF ServerWrites, Written, WireTypeOK
    <3>4. \A t \in Sessions \ {s} : Same(t)
      BY <3>1, <3>3 DEF Same
    <3>5. connected[s] /\ Joined(s) /\ serverOpen[s]
      BY <1>0, <3>1 DEF Good, Phase, OwnsSocket, Before, Asking, Joined
    <3>6. cpc[s] = "await" => toClient'[s] # <<>> /\ Head(toClient'[s]).type = "ACK"
      <4>0. Packet("MSG", seqn[s], Head(messages_to_receive)) \in Packets
        <5>1. Head(messages_to_receive) \in Nat
          BY <2>2, HeadTailProperties DEF ServerTypeOK
        <5> QED
          BY <5>1, PacketType DEF ServerTypeOK, PacketTypes, Payloads
      <4> QED
        BY <4>0, <3>1, <3>5, WriteKeepsHead DEF Joined
    <3>7. spc'[s] = "recv"
      BY <3>1 DEF ServerTypeOK
    <3>8. Good(s)'
      BY <1>0, <3>1, <3>5, <3>6, <3>7 DEF Good, Phase, Work, OwnsSocket, Joined
    <3>9. PlacesCounted'
      BY <1>0, <3>1, PlacesSame
    <3> QED
      BY <3>1, <3>4, <3>8, <3>9, OneMoves
  <2> QED
    BY <2>1, <2>2
<1>7. CASE RecvBatch(s)
  <2>1. PICK batch \in Batches(toServer[s]) :
          /\ inbuf' = [inbuf EXCEPT ![s] = batch]
          /\ toServer' = [toServer EXCEPT ![s] = After(@, batch)]
    BY <1>7 DEF RecvBatch
  <2>2. /\ up /\ spc[s] = "recv" /\ spc' = [spc EXCEPT ![s] = "parse"]
        /\ UNCHANGED <<up, listening, active_sessions, connected, max_reference_seqn,
                       toClient, serverOpen, clientOpen>>
    BY <1>7 DEF RecvBatch, Goto
  <2>3. \A t \in Sessions \ {s} : Same(t)
    BY <2>1, <2>2 DEF Same, WireTypeOK, ServerTypeOK
  <2>4. spc'[s] = "parse" /\ inbuf'[s] = batch /\ toServer'[s] = After(toServer[s], batch)
    BY <2>1, <2>2 DEF WireTypeOK, ServerTypeOK
  <2>5. /\ batch # <<>> /\ toServer[s] # <<>>
        /\ OnlyConnect(toServer[s]) => OnlyConnect(batch) /\ After(toServer[s], batch) = <<>>
        /\ NoConnect(toServer[s]) => NoConnect(batch) /\ NoConnect(After(toServer[s], batch))
    BY BatchProperties, BatchConnect DEF WireTypeOK
  <2>6. Good(s)'
    BY <1>0, <2>2, <2>4, <2>5 DEF Good, Phase, Work, OwnsSocket, Before, Asking, Joined
  <2>7. PlacesCounted'
    BY <1>0, <2>2, PlacesSame
  <2> QED
    BY <2>2, <2>3, <2>6, <2>7, OneMoves
<1>8. CASE LeaveLoop(s)
  <2>1. CASE ~connected[s]
    BY <1>8, <2>1, CrashSound DEF LeaveLoop
  <2>2. CASE connected[s]
    <3>1. /\ closeSession(s) /\ Goto(s, "sleep", "done")
          /\ UNCHANGED <<up, listening, max_reference_seqn, inbuf, toServer, toClient, clientOpen>>
      BY <1>8, <2>2 DEF LeaveLoop
    <3> QED
      BY <1>0, <2>2, <3>1, CloseSound DEF Goto
  <2> QED
    BY <2>1, <2>2
<1> QED
  BY <1>2, <1>3, <1>4, <1>5, <1>6, <1>7, <1>8

\* A joined thread that takes a packet and stays is still joined.
LEMMA TakenGood ==
  ASSUME WireTypeOK, ServerTypeOK, NEW s \in Sessions, Good(s), up, spc[s] = "parse",
         connected[s], NEW x \in {"sleep", "parse", "pop", "flag"},
         spc'[s] = x, inbuf'[s] = Tail(inbuf[s]), x = "parse" => Tail(inbuf[s]) # <<>>,
         connected'[s], cpc[s] = "await" => toClient'[s] # <<>> /\ Head(toClient'[s]).type = "ACK",
         UNCHANGED <<up, listening, toServer, serverOpen, clientOpen, cpc, packets_to_send>>
  PROVE  Good(s)'
<1>1. Joined(s) /\ serverOpen[s] /\ inbuf[s] # <<>>
  BY DEF Good, Phase, Work, OwnsSocket, Before, Asking, Joined
<1>2. NoConnect(Tail(inbuf[s]))
  BY <1>1, TailNoConnect DEF Joined, ServerTypeOK
<1> QED
  BY <1>1, <1>2 DEF Good, Phase, Work, OwnsSocket, Joined

\* The handlers of packets other than ACK.
LEMMA HandlerSound ==
  ASSUME WireTypeOK, ServerTypeOK, Sound, UNCHANGED clientVars, NEW s \in Sessions,
         \/ Duplicate(s) \/ receive_CONNECT(s) \/ receive_FOLLOW(s)
         \/ receive_SEND(s) \/ receive_DISCONNECT(s)
  PROVE  Sound'
<1> USE DEF rowVars, mainVars, clientVars
<1>0. Good(s) /\ PlacesCounted
  BY DEF Sound
<1>1. /\ up /\ spc[s] = "parse" /\ inbuf[s] # <<>> /\ inbuf[s] \in Seq(Packets)
      /\ Head(inbuf[s]) \in Packets /\ Head(inbuf[s]).seqn \in Nat
  <2>1. up /\ spc[s] = "parse" /\ inbuf[s] # <<>>
    BY <1>0 DEF Duplicate, receive_CONNECT, receive_FOLLOW, receive_SEND,
                receive_DISCONNECT, Parsing, Good, Work
  <2>2. Head(inbuf[s]) \in Packets
    BY <2>1, HeadTailProperties DEF ServerTypeOK
  <2> QED
    BY <2>1, <2>2 DEF Packets, ServerTypeOK
<1>2. \/ Joined(s) /\ Head(inbuf[s]).type # "CONNECT"
      \/ /\ Asking(s) /\ Head(inbuf[s]).type = "CONNECT" /\ Fresh(s)
         /\ Tail(inbuf[s]) = <<>> /\ toServer[s] = <<>>
  <2>1. Joined(s) \/ (Asking(s) /\ OnlyConnect(inbuf[s]))
    BY <1>0, <1>1 DEF Good, Phase, OwnsSocket, Before, Asking
  <2>2. CASE Joined(s)
    BY <1>1, <2>2, TailNoConnect DEF Joined
  <2>3. CASE Asking(s) /\ OnlyConnect(inbuf[s])
    <3>1. Fresh(s)
      BY <1>1, <2>3 DEF Fresh, Asking
    <3>2. toServer[s] = <<>>
      BY <1>1, <2>3 DEF Asking
    <3> QED
      BY <1>1, <2>3, <3>1, <3>2, TailOnlyConnect
  <2> QED
    BY <2>1, <2>2, <2>3
<1>3. \A type \in PacketTypes : Packet(type, Head(inbuf[s]).seqn, NoData) \in Packets
  BY <1>1, PacketType DEF Payloads
\* A handler that answers a joined session and goes on.
<1>4. ASSUME NEW type \in PacketTypes, Reply(s, type), Handle(s), connected[s],
             \A t \in Sessions \ {s} : max_reference_seqn'[t] = max_reference_seqn[t],
             UNCHANGED <<up, listening, active_sessions, connected, toServer,
                         serverOpen, clientOpen>>
      PROVE  Sound'
  <2>1. ServerWrites(s, Packet(type, Head(inbuf[s]).seqn, NoData))
    BY <1>4 DEF Reply
  <2>2. \A t \in Sessions \ {s} : toClient'[t] = toClient[t]
    BY <2>1 DEF ServerWrites, Written, WireTypeOK
  <2>3. \A t \in Sessions \ {s} : Same(t)
    BY <1>4, <2>2 DEF Same, Handle, TakePacket, NextPacket
  <2>4. Joined(s)
    BY <1>2, <1>4 DEF Asking
  <2>5. cpc[s] = "await" => toClient'[s] # <<>> /\ Head(toClient'[s]).type = "ACK"
    BY <1>3, <2>1, <2>4, WriteKeepsHead DEF Joined
  <2>6. PICK x \in {"sleep", "parse"} : spc'[s] = x /\ (x = "parse" => Tail(inbuf[s]) # <<>>)
    BY <1>4 DEF Handle, NextPacket, ServerTypeOK
  <2>7. inbuf'[s] = Tail(inbuf[s])
    BY <1>4 DEF Handle, TakePacket, ServerTypeOK
  <2>8. Good(s)'
    BY <1>0, <1>1, <1>4, <2>5, <2>6, <2>7, TakenGood
  <2>9. PlacesCounted'
    BY <1>0, <1>4, PlacesSame
  <2> QED
    BY <1>4, <2>3, <2>8, <2>9, OneMoves
<1>5. Remember(s) => \A t \in Sessions \ {s} : max_reference_seqn'[t] = max_reference_seqn[t]
  BY DEF Remember
<1>6. CASE Duplicate(s)
  <2>1. connected[s]
    BY <1>6, <1>2 DEF Duplicate, Joined
  <2> QED
    BY <1>6, <2>1, <1>4 DEF Duplicate, PacketTypes
<1>7. CASE receive_CONNECT(s)
  <2>1. /\ ~connected[s] /\ Asking(s) /\ Head(inbuf[s]).type = "CONNECT"
        /\ Tail(inbuf[s]) = <<>> /\ toServer[s] = <<>> /\ serverOpen[s] /\ toClient[s] = <<>>
    BY <1>0, <1>1, <1>2, <1>7 DEF receive_CONNECT, Parsing, Asking, Good, Phase, OwnsSocket
  <2>2. PICK type \in {"ACK", "ERROR"} :
          ServerWrites(s, Packet(type, Head(inbuf[s]).seqn, NoData))
    BY <1>7 DEF receive_CONNECT, Reply
  <2>3. \A t \in Sessions \ {s} : toClient'[t] = toClient[t]
    BY <2>2 DEF ServerWrites, Written, WireTypeOK
  <2>4. CASE HasPlace
    <3>1. /\ Handle(s) /\ Remember(s) /\ Reply(s, "ACK")
          /\ active_sessions' = active_sessions + 1
          /\ connected' = [connected EXCEPT ![s] = TRUE]
          /\ UNCHANGED <<up, listening, toServer, serverOpen, clientOpen>>
      BY <1>7, <2>4 DEF receive_CONNECT
    <3>2. \A t \in Sessions \ {s} : Same(t)
      BY <3>1, <1>5, <2>3 DEF Same, Handle, TakePacket, NextPacket
    <3>3. cpc[s] = "await" => toClient'[s] # <<>> /\ Head(toClient'[s]).type = "ACK"
      <4> DEFINE p == Packet("ACK", Head(inbuf[s]).seqn, NoData)
      <4>1. ASSUME cpc[s] = "await"
            PROVE  toClient'[s] = Append(<<>>, p)
        <5>1. clientOpen[s]
          BY <4>1, <1>0 DEF Good, Phase
        <5> QED
          BY <3>1, <5>1, <2>1 DEF Reply, ServerWrites, Written, WireTypeOK
      <4>2. p.type = "ACK" /\ p \in Packets
        BY <1>3 DEF Packet, PacketTypes
      <4> HIDE DEF p
      <4>3. Append(<<>>, p) # <<>> /\ Head(Append(<<>>, p)) = p
        BY <4>2
      <4> QED
        BY <4>1, <4>2, <4>3
    <3>4. /\ spc'[s] = "sleep" /\ inbuf'[s] = <<>> /\ connected'[s]
      BY <3>1, <2>1 DEF Handle, TakePacket, NextPacket, ServerTypeOK
    <3>5. NoConnect(<<>>)
      BY EmptySeq DEF NoConnect
    <3>6. Good(s)'
      BY <1>0, <2>1, <3>1, <3>3, <3>4, <3>5
         DEF Good, Phase, Work, OwnsSocket, Asking, Joined
    <3>7. PlacesCounted'
      BY <1>0, <2>1, <2>4, <3>1, PlaceTaken DEF HasPlace
    <3> QED
      BY <3>1, <3>2, <3>6, <3>7, OneMoves
  <2>5. CASE ~HasPlace
    <3>1. /\ TakePacket(s) /\ Remember(s)
          /\ serverOpen' = [serverOpen EXCEPT ![s] = FALSE]
          /\ spc' = [spc EXCEPT ![s] = "done"]
          /\ UNCHANGED <<up, listening, active_sessions, connected, toServer, clientOpen>>
      BY <1>7, <2>5 DEF receive_CONNECT, Refuse, CloseSocket, Goto
    <3>2. \A t \in Sessions \ {s} : Same(t)
      BY <3>1, <1>5, <2>3 DEF Same, TakePacket
    <3>3. spc'[s] = "done" /\ ~serverOpen'[s]
      BY <3>1 DEF ServerTypeOK, WireTypeOK
    <3>4. Good(s)'
      BY <1>0, <2>1, <3>1, <3>3 DEF Good, Phase, Work, OwnsSocket
    <3>5. PlacesCounted'
      BY <1>0, <3>1, PlacesSame
    <3> QED
      BY <3>1, <3>2, <3>4, <3>5, OneMoves
  <2> QED
    BY <2>4, <2>5
<1>8. CASE receive_FOLLOW(s)
  <2>1. connected[s]
    BY <1>8, <1>2 DEF receive_FOLLOW, Parsing, Joined
  <2>2. PICK type \in PacketTypes : Reply(s, type)
    BY <1>8 DEF receive_FOLLOW, PacketTypes
  <2> QED
    BY <1>8, <2>1, <2>2, <1>4, <1>5 DEF receive_FOLLOW
<1>9. CASE receive_SEND(s)
  BY <1>9, <1>4, <1>5 DEF receive_SEND, PacketTypes
<1>10. CASE receive_DISCONNECT(s)
  <2>1. /\ connected[s] /\ closeSession(s) /\ Goto(s, "parse", "done")
        /\ TakePacket(s) /\ Remember(s)
        /\ UNCHANGED <<up, listening, toServer, toClient, clientOpen>>
    BY <1>10 DEF receive_DISCONNECT
  <2>2. spc' = [spc EXCEPT ![s] = "done"]
    BY <2>1 DEF Goto
  <2>3. \A t \in Sessions \ {s} : inbuf'[t] = inbuf[t]
    BY <2>1 DEF TakePacket, ServerTypeOK
  <2>4. \A t \in Sessions \ {s} : max_reference_seqn'[t] = max_reference_seqn[t]
    BY <2>1, <1>5
  <2> QED
    BY <2>1, <2>2, <2>3, <2>4, CloseSound
<1> QED
  BY <1>6, <1>7, <1>8, <1>9, <1>10

\* The steps of receive_ACK.
LEMMA AckSound ==
  ASSUME WireTypeOK, ServerTypeOK, Sound, UNCHANGED clientVars, NEW s \in Sessions,
         \/ StrayAck(s) \/ receive_ACK(s)
         \/ get_notification_delivered(s) \/ set_notification_delivered(s)
         \/ WaitReleased(s) \/ WaitTimedOut(s) \/ popNotification(s) \/ ClearDelivered(s)
  PROVE  Sound'
<1> USE DEF wireVars, rowVars, mainVars, threadVars, clientVars
<1>0. Good(s) /\ PlacesCounted
  BY DEF Sound
\* The thread takes the ACK.
<1>1. CASE StrayAck(s) \/ receive_ACK(s)
  <2>1. /\ up /\ spc[s] = "parse" /\ Head(inbuf[s]).type = "ACK" /\ TakePacket(s)
        /\ UNCHANGED <<up, listening, active_sessions, connected, max_reference_seqn,
                       toServer, toClient, serverOpen, clientOpen>>
    BY <1>1 DEF StrayAck, receive_ACK, Handle, Parsing
  <2>2. PICK x \in {"sleep", "parse", "pop", "flag"} :
          spc' = [spc EXCEPT ![s] = x] /\ (x = "parse" => Tail(inbuf[s]) # <<>>)
    BY <1>1 DEF StrayAck, receive_ACK, Handle, NextPacket, Goto
  <2>3. inbuf[s] # <<>>
    BY <1>0, <2>1 DEF Good, Work
  <2>4. connected[s] /\ Joined(s)
    <3>1. Joined(s) \/ OnlyConnect(inbuf[s])
      BY <1>0, <2>1 DEF Good, Phase, OwnsSocket, Before, Asking
    <3>2. ~OnlyConnect(inbuf[s])
      BY <2>1, TailOnlyConnect DEF ServerTypeOK
    <3> QED
      BY <3>1, <3>2 DEF Joined
  <2>5. \A t \in Sessions \ {s} : Same(t)
    BY <2>1, <2>2 DEF Same, TakePacket
  <2>6. spc'[s] = x /\ inbuf'[s] = Tail(inbuf[s])
    BY <2>1, <2>2 DEF TakePacket, ServerTypeOK
  <2>7. Good(s)'
    BY <1>0, <2>1, <2>2, <2>4, <2>6, TakenGood DEF Joined
  <2>8. PlacesCounted'
    BY <1>0, <2>1, PlacesSame
  <2> QED
    BY <2>1, <2>5, <2>7, <2>8, OneMoves
\* The thread moves on within receive_ACK, or leaves it for the next packet.
<1>2. ASSUME NEW x \in {"pop", "set", "wait", "clear", "sleep", "parse"},
             spc' = [spc EXCEPT ![s] = x], x = "parse" => inbuf[s] # <<>>,
             up, spc[s] \in {"flag", "set", "wait", "pop", "clear"},
             UNCHANGED <<up, listening, active_sessions, connected, max_reference_seqn,
                         inbuf, toServer, toClient, serverOpen, clientOpen>>
      PROVE  Sound'
  <2>1. \A t \in Sessions \ {s} : Same(t)
    BY <1>2 DEF Same
  <2>2. spc'[s] = x
    BY <1>2 DEF ServerTypeOK
  <2>3. Good(s)'
    BY <1>0, <1>2, <2>2 DEF Good, Phase, Work, OwnsSocket, Before, Asking, Joined
  <2>4. PlacesCounted'
    BY <1>0, <1>2, PlacesSame
  <2> QED
    BY <1>2, <2>1, <2>3, <2>4, OneMoves
<1>3. CASE get_notification_delivered(s) \/ set_notification_delivered(s)
  <2>1. /\ up /\ spc[s] \in {"flag", "set"}
        /\ UNCHANGED <<up, listening, active_sessions, connected, max_reference_seqn,
                       inbuf, toServer, toClient, serverOpen, clientOpen>>
    BY <1>3 DEF get_notification_delivered, set_notification_delivered, Goto
  <2>2. PICK x \in {"pop", "set", "wait"} : spc' = [spc EXCEPT ![s] = x]
    BY <1>3 DEF get_notification_delivered, set_notification_delivered, Goto
  <2> QED
    BY <1>2, <2>1, <2>2
<1>4. CASE WaitReleased(s) \/ WaitTimedOut(s) \/ ClearDelivered(s)
  <2>1. /\ up /\ spc[s] \in {"wait", "clear"}
        /\ UNCHANGED <<up, listening, active_sessions, connected, max_reference_seqn,
                       inbuf, toServer, toClient, serverOpen, clientOpen>>
    BY <1>4 DEF WaitReleased, WaitTimedOut, ClearDelivered, Acknowledged
  <2>2. PICK x \in {"sleep", "parse"} :
          spc' = [spc EXCEPT ![s] = x] /\ (x = "parse" => inbuf[s] # <<>>)
    BY <1>4 DEF WaitReleased, WaitTimedOut, ClearDelivered, Acknowledged, NextPacket
  <2> QED
    BY <1>2, <2>1, <2>2
<1>5. CASE popNotification(s)
  <2>1. CASE messages_to_receive = <<>>
    BY <1>5, <2>1, CrashSound DEF popNotification
  <2>2. CASE messages_to_receive # <<>>
    BY <1>5, <2>2, <1>2 DEF popNotification, Goto
  <2> QED
    BY <2>1, <2>2
<1> QED
  BY <1>1, <1>3, <1>4, <1>5

-----------------------------------------------------------------------------
(* The client *)

\* A client that writes a packet other than CONNECT leaves the session joined.
LEMMA ClientWriteJoined ==
  ASSUME WireTypeOK, NEW s \in Sessions, NEW p \in Packets, p.type # "CONNECT",
         ClientWrites(s, p)
  PROVE  /\ NoConnect(toServer[s]) => NoConnect(toServer'[s])
         /\ \A t \in Sessions \ {s} : toServer'[t] = toServer[t]
<1>1. toServer'[s] \in {toServer[s], Append(toServer[s], p)}
  BY DEF ClientWrites, Written, WireTypeOK
<1>2. NoConnect(toServer[s]) => NoConnect(Append(toServer[s], p))
  BY AppendNoConnect DEF WireTypeOK
<1>3. \A t \in Sessions \ {s} : toServer'[t] = toServer[t]
  BY DEF ClientWrites, Written, WireTypeOK
<1> QED
  BY <1>1, <1>2, <1>3

\* A client that is past the answer to CONNECT, and goes on or ends, leaves
\* its session in its phase as long as it writes no CONNECT.
LEMMA ClientMovesOn ==
  ASSUME WireTypeOK, ClientTypeOK, NEW s \in Sessions, Good(s),
         cpc[s] \in {"loop", "send", "sending"},
         NEW x \in {"loop", "send", "sending", "dead"}, cpc'[s] = x,
         x \in {"send", "sending"} => packets_to_send'[s] # <<>>,
         clientOpen'[s] <=> x # "dead",
         NoConnect(toServer[s]) => NoConnect(toServer'[s]),
         UNCHANGED serverVars, UNCHANGED serverOpen
  PROVE  Good(s)'
BY DEF Good, Phase, Work, OwnsSocket, Before, Asking, Joined,
       serverVars, mainVars, threadVars

\* What a client does changes nothing of another session.
LEMMA ClientFrame ==
  ASSUME Sound, UNCHANGED serverVars, NEW s \in Sessions,
         \A t \in Sessions \ {s} :
           /\ toServer'[t] = toServer[t] /\ toClient'[t] = toClient[t]
           /\ serverOpen'[t] = serverOpen[t] /\ clientOpen'[t] = clientOpen[t]
           /\ cpc'[t] = cpc[t] /\ packets_to_send'[t] = packets_to_send[t],
         Good(s)'
  PROVE  Sound'
<1>1. UNCHANGED <<up, listening, active_sessions, connected>>
  BY DEF serverVars, mainVars, rowVars, threadVars
<1>2. \A t \in Sessions \ {s} : Same(t)
  BY DEF Same, serverVars, threadVars
<1>3. PlacesCounted'
  BY <1>1, PlacesSame DEF Sound
<1> QED
  BY <1>1, <1>2, <1>3, OneMoves

\* The interface thread, and the end of the process.
LEMMA InterfaceSound ==
  ASSUME WireTypeOK, ClientTypeOK, Sound, UNCHANGED serverVars, NEW s \in Sessions,
         Interface(s) \/ Quit(s) \/ Kill(s) \/ LoseConnection(s)
  PROVE  Sound'
<1> USE DEF wireVars
<1>0. Good(s)
  BY DEF Sound
<1>1. CASE TypeCommand(s) \/ Display(s) \/ Quit(s)
  <2>1. UNCHANGED <<toServer, toClient, serverOpen, clientOpen, cpc, packets_to_send>>
    BY <1>1 DEF TypeCommand, Display, Quit
  <2>2. Good(s)'
    BY <1>0, <2>1 DEF Good, Phase, Work, OwnsSocket, Before, Asking, Joined,
                      serverVars, mainVars, threadVars
  <2> QED
    BY <2>1, <2>2, ClientFrame
<1>2. CASE PushCommand(s)
  <2>1. /\ packets_to_send' = [packets_to_send EXCEPT ![s] = Append(packets_to_send[s], pending[s])]
        /\ UNCHANGED <<toServer, toClient, serverOpen, clientOpen, cpc>>
    BY <1>2 DEF PushCommand, Set
  <2>2. packets_to_send'[s] # <<>>
    <3>1. packets_to_send[s] \in Seq(CommandPackets) /\ pending[s] \in CommandPackets
      BY DEF ClientTypeOK
    <3>2. Append(packets_to_send[s], pending[s]) # <<>>
      BY <3>1, AppendProperties
    <3> QED
      BY <2>1, <3>2 DEF ClientTypeOK
  <2>3. Good(s)'
    BY <1>0, <2>1, <2>2 DEF Good, Phase, Work, OwnsSocket, Before, Asking, Joined,
                            serverVars, mainVars, threadVars
  <2> QED
    BY <2>1, <2>3, ClientFrame
<1>3. CASE Kill(s) \/ LoseConnection(s)
  <2>1. /\ cpc' = [cpc EXCEPT ![s] = "dead"]
        /\ clientOpen' = [clientOpen EXCEPT ![s] = FALSE]
        /\ UNCHANGED <<toServer, toClient, serverOpen, packets_to_send>>
    BY <1>3 DEF Kill, LoseConnection, Exit, Set
  <2>2. cpc'[s] = "dead" /\ ~clientOpen'[s]
    BY <2>1 DEF ClientTypeOK, WireTypeOK
  <2>3. Good(s)'
    BY <1>0, <2>1, <2>2 DEF Good, Phase, Work, OwnsSocket, Before, Asking, Joined,
                            serverVars, mainVars, threadVars
  <2>4. \A t \in Sessions \ {s} : cpc'[t] = cpc[t] /\ clientOpen'[t] = clientOpen[t]
    BY <2>1 DEF ClientTypeOK, WireTypeOK
  <2> QED
    BY <2>1, <2>3, <2>4, ClientFrame
<1> QED
  BY <1>1, <1>2, <1>3 DEF Interface

\* What a read leaves alone.
LEMMA ReadingFrame ==
  ASSUME WireTypeOK, NEW s \in Sessions, NEW batch, Reading(s, batch)
  PROVE  /\ \A t \in Sessions \ {s} : toClient'[t] = toClient[t]
         /\ toClient[s] # <<>> /\ Head(batch) = Head(toClient[s])
<1>1. batch \in Batches(toClient[s]) /\ toClient[s] \in Seq(Packets)
  BY DEF Reading, WireTypeOK
<1>2. toClient[s] # <<>> /\ Head(batch) = Head(toClient[s])
  BY <1>1, BatchProperties
<1> QED
  BY <1>2 DEF Reading, Set, WireTypeOK

\* The communication thread.
LEMMA CommunicationSound ==
  ASSUME WireTypeOK, ClientTypeOK, Sound, UNCHANGED serverVars, NEW s \in Sessions,
         Communication(s)
  PROVE  Sound'
<1> USE DEF wireVars
<1>0. Good(s)
  BY DEF Sound
<1>1. CommandPackets \subseteq Packets /\ \A p \in CommandPackets : p.type # "CONNECT"
  BY CommandPacketTypes DEF CommandPackets
<1>2. CASE send_connect_message(s)
  <2> DEFINE p == Packet("CONNECT", client_seqn[s], NoData)
  <2>1. /\ cpc[s] = "connect" /\ cpc' = [cpc EXCEPT ![s] = "await"]
        /\ ClientWrites(s, p)
        /\ UNCHANGED <<toClient, serverOpen, clientOpen, packets_to_send>>
    BY <1>2 DEF send_connect_message, CGoto
  <2>2. p \in Packets /\ p.type = "CONNECT"
    <3>1. p \in Packets
      BY PacketType DEF PacketTypes, Payloads, ClientTypeOK
    <3> QED
      BY <3>1 DEF Packet
  <2> HIDE DEF p
  <2>3. \A t \in Sessions \ {s} : toServer'[t] = toServer[t]
    BY <2>1 DEF ClientWrites, Written, WireTypeOK
  <2>4. ASSUME serverOpen[s]
        PROVE  Before(s) /\ OnlyConnect(toServer'[s])
    <3>1. Before(s)
      BY <1>0, <2>1, <2>4 DEF Good, Phase, Asking, Joined
    <3>2. toServer'[s] = Append(<<>>, p)
      BY <2>1, <2>4, <3>1 DEF ClientWrites, Written, WireTypeOK, Before
    <3>3. Len(Append(<<>>, p)) = 1 /\ Append(<<>>, p)[1] = p
      BY <2>2
    <3> QED
      BY <2>2, <3>1, <3>2, <3>3 DEF OnlyConnect
  <2>5. cpc'[s] = "await"
    BY <2>1 DEF ClientTypeOK
  <2>6. Good(s)'
    BY <1>0, <2>1, <2>4, <2>5 DEF Good, Phase, Work, OwnsSocket, Before, Asking,
                                  serverVars, mainVars, threadVars
  <2> QED
    BY <2>1, <2>3, <2>6, ClientFrame
<1>3. CASE ReceiveConnectReply(s)
  <2>1. PICK batch : /\ Reading(s, batch)
                     /\ \/ Head(batch).type = "ACK" /\ CGoto(s, "await", "loop")
                        \/ Head(batch).type # "ACK" /\ CGoto(s, "await", "connect")
    BY <1>3 DEF ReceiveConnectReply
  <2>2. UNCHANGED <<toServer, serverOpen, clientOpen, packets_to_send>>
    BY <1>3 DEF ReceiveConnectReply
  <2>3. /\ \A t \in Sessions \ {s} : toClient'[t] = toClient[t]
        /\ toClient[s] # <<>> /\ Head(batch) = Head(toClient[s])
    BY <2>1, ReadingFrame
  <2>4. serverOpen[s] => Joined(s) /\ Head(toClient[s]).type = "ACK"
    BY <1>0, <2>1, <2>3 DEF Good, Phase, Before, Asking, Joined, CGoto
  <2>5. /\ cpc[s] = "await" /\ cpc'[s] \in {"loop", "connect"}
        /\ Head(toClient[s]).type = "ACK" => cpc'[s] = "loop"
        /\ \A t \in Sessions \ {s} : cpc'[t] = cpc[t]
    BY <2>1, <2>3 DEF CGoto, ClientTypeOK
  <2>6. Good(s)'
    BY <1>0, <2>2, <2>4, <2>5 DEF Good, Phase, Work, OwnsSocket, Joined,
                                  serverVars, mainVars, threadVars
  <2> QED
    BY <2>2, <2>3, <2>5, <2>6, ClientFrame
<1>4. CASE LoopReceive(s)
  <2>1. PICK batch : /\ Reading(s, batch)
                     /\ ClientWrites(s, Packet("ACK", Head(batch).seqn, NoData))
    BY <1>4 DEF LoopReceive
  <2>2. PICK x \in {"loop", "send"} : /\ CGoto(s, "loop", x)
                                      /\ x = "send" => packets_to_send[s] # <<>>
    BY <1>4 DEF LoopReceive, CanSend
  <2>3. UNCHANGED <<packets_to_send, serverOpen, clientOpen>>
    BY <1>4 DEF LoopReceive
  <2>4. Packet("ACK", Head(batch).seqn, NoData) \in Packets
    BY <2>1, ReadingType, PacketType DEF PacketTypes, Payloads
  <2>5. /\ NoConnect(toServer[s]) => NoConnect(toServer'[s])
        /\ \A t \in Sessions \ {s} : toServer'[t] = toServer[t]
    <3>1. Packet("ACK", Head(batch).seqn, NoData).type # "CONNECT"
      BY DEF Packet
    <3> QED
      BY <2>1, <2>4, <3>1, ClientWriteJoined
  <2>6. \A t \in Sessions \ {s} : toClient'[t] = toClient[t]
    BY <2>1, ReadingFrame
  <2>7. cpc[s] = "loop" /\ cpc'[s] = x /\ \A t \in Sessions \ {s} : cpc'[t] = cpc[t]
    BY <2>2 DEF CGoto, ClientTypeOK
  <2>8. clientOpen'[s] <=> x # "dead"
    BY <1>0, <2>3, <2>7 DEF Good, Phase
  <2>9. Good(s)'
    BY <1>0, <2>2, <2>3, <2>5, <2>7, <2>8, ClientMovesOn
  <2> QED
    BY <2>3, <2>5, <2>6, <2>7, <2>9, ClientFrame
<1>5. CASE LoopNothing(s)
  <2>1. /\ cpc[s] = "loop" /\ cpc' = [cpc EXCEPT ![s] = "send"]
        /\ packets_to_send[s] # <<>>
        /\ UNCHANGED <<toServer, toClient, serverOpen, clientOpen, packets_to_send>>
    BY <1>5 DEF LoopNothing, CGoto, CanSend
  <2>2. cpc'[s] = "send"
    BY <2>1 DEF ClientTypeOK
  <2>3. clientOpen'[s]
    BY <1>0, <2>1 DEF Good, Phase
  <2>4. Good(s)'
    BY <1>0, <2>1, <2>2, <2>3, ClientMovesOn
  <2> QED
    BY <2>1, <2>4, ClientFrame
<1>6. CASE send_message(s)
  <2> DEFINE p == [Head(packets_to_send[s]) EXCEPT !.data = payload[s]]
  <2>1. /\ cpc[s] = "send" /\ cpc' = [cpc EXCEPT ![s] = "sending"]
        /\ ClientWrites(s, p)
        /\ UNCHANGED <<toClient, serverOpen, clientOpen, packets_to_send>>
    BY <1>6 DEF send_message, CGoto
  <2>2. packets_to_send[s] # <<>>
    BY <1>0, <2>1 DEF Good, Work
  <2>3. p \in CommandPackets
    <3>1. Head(packets_to_send[s]) \in CommandPackets
      BY <2>2, HeadTailProperties DEF ClientTypeOK
    <3> QED
      BY <3>1 DEF CommandPackets, ClientTypeOK
  <2> HIDE DEF p
  <2>4. /\ NoConnect(toServer[s]) => NoConnect(toServer'[s])
        /\ \A t \in Sessions \ {s} : toServer'[t] = toServer[t]
    BY <1>1, <2>1, <2>3, ClientWriteJoined
  <2>5. cpc'[s] = "sending"
    BY <2>1 DEF ClientTypeOK
  <2>6. clientOpen'[s]
    BY <1>0, <2>1 DEF Good, Phase
  <2>7. Good(s)'
    BY <1>0, <2>1, <2>2, <2>4, <2>5, <2>6, ClientMovesOn
  <2> QED
    BY <2>1, <2>4, <2>7, ClientFrame
\* Retry stays, or goes back to the loop.
<1>7. ASSUME Retry(s), cpc[s] = "sending"
      PROVE  /\ cpc'[s] \in {"sending", "loop"}
             /\ \A t \in Sessions \ {s} : cpc'[t] = cpc[t]
  BY <1>7 DEF Retry, CGoto, ClientTypeOK
<1>8. CASE ReadNothing(s)
  <2>1. /\ cpc[s] = "sending" /\ Retry(s)
        /\ UNCHANGED <<toServer, toClient, serverOpen, clientOpen, packets_to_send>>
    BY <1>8 DEF ReadNothing
  <2>2. clientOpen'[s] /\ packets_to_send'[s] # <<>>
    BY <1>0, <2>1 DEF Good, Phase, Work
  <2>3. Good(s)'
    BY <1>0, <1>7, <2>1, <2>2, ClientMovesOn
  <2> QED
    BY <1>7, <2>1, <2>3, ClientFrame
<1>9. CASE ReadReply(s)
  <2>1. PICK batch :
          /\ Reading(s, batch)
          /\ \/ /\ packets_to_send' = Set(packets_to_send, s, Tail(packets_to_send[s]))
                /\ CGoto(s, "sending", "loop")
                /\ UNCHANGED toServer
             \/ /\ ClientWrites(s, outgoing[s]) \/ UNCHANGED toServer
                /\ Retry(s)
                /\ UNCHANGED packets_to_send
    BY <1>9 DEF ReadReply
  <2>2. cpc[s] = "sending" /\ UNCHANGED <<serverOpen, clientOpen>>
    BY <1>9 DEF ReadReply
  <2>3. \A t \in Sessions \ {s} : toClient'[t] = toClient[t]
    BY <2>1, ReadingFrame
  <2>4. /\ NoConnect(toServer[s]) => NoConnect(toServer'[s])
        /\ \A t \in Sessions \ {s} : toServer'[t] = toServer[t]
    <3>1. CASE UNCHANGED toServer
      BY <3>1
    <3>2. CASE ClientWrites(s, outgoing[s])
      <4>1. outgoing[s] \in Packets /\ outgoing[s].type # "CONNECT"
        BY <1>1 DEF ClientTypeOK
      <4> QED
        BY <3>2, <4>1, ClientWriteJoined
    <3> QED
      BY <2>1, <3>1, <3>2
  <2>5. /\ cpc'[s] \in {"sending", "loop"}
        /\ cpc'[s] = "sending" => packets_to_send'[s] # <<>>
        /\ \A t \in Sessions \ {s} : /\ cpc'[t] = cpc[t]
                                     /\ packets_to_send'[t] = packets_to_send[t]
    <3>1. CASE /\ packets_to_send' = Set(packets_to_send, s, Tail(packets_to_send[s]))
               /\ CGoto(s, "sending", "loop")
      BY <3>1 DEF Set, CGoto, ClientTypeOK
    <3>2. CASE Retry(s) /\ UNCHANGED packets_to_send
      BY <1>0, <1>7, <2>2, <3>2 DEF Good, Work
    <3> QED
      BY <2>1, <3>1, <3>2
  <2>6. clientOpen'[s]
    BY <1>0, <2>2 DEF Good, Phase
  <2>7. Good(s)'
    BY <1>0, <2>2, <2>4, <2>5, <2>6, ClientMovesOn
  <2> QED
    BY <2>2, <2>3, <2>4, <2>5, <2>7, ClientFrame
<1>10. CASE Disconnect(s)
  <2>1. /\ cpc[s] = "loop" /\ cpc' = [cpc EXCEPT ![s] = "dead"]
        /\ clientOpen' = [clientOpen EXCEPT ![s] = FALSE]
        /\ ClientWrites(s, Packet("DISCONNECT", client_seqn[s], NoData))
        /\ UNCHANGED <<toClient, serverOpen, packets_to_send>>
    BY <1>10 DEF Disconnect, Exit, Set
  <2>2. Packet("DISCONNECT", client_seqn[s], NoData) \in Packets
    BY PacketType DEF PacketTypes, Payloads, ClientTypeOK
  <2>3. Packet("DISCONNECT", client_seqn[s], NoData).type # "CONNECT"
    BY DEF Packet
  <2>4. /\ NoConnect(toServer[s]) => NoConnect(toServer'[s])
        /\ \A t \in Sessions \ {s} : toServer'[t] = toServer[t]
    BY <2>1, <2>2, <2>3, ClientWriteJoined
  <2>5. cpc'[s] = "dead" /\ ~clientOpen'[s]
    BY <2>1 DEF ClientTypeOK, WireTypeOK
  <2>6. Good(s)'
    BY <1>0, <2>1, <2>4, <2>5, ClientMovesOn
  <2>7. \A t \in Sessions \ {s} : cpc'[t] = cpc[t] /\ clientOpen'[t] = clientOpen[t]
    BY <2>1 DEF ClientTypeOK, WireTypeOK
  <2> QED
    BY <2>1, <2>4, <2>6, <2>7, ClientFrame
<1> QED
  BY <1>2, <1>3, <1>4, <1>5, <1>6, <1>8, <1>9, <1>10 DEF Communication

-----------------------------------------------------------------------------
(* SessionInv is inductive *)

\* SessionInv is the types and Sound.
LEMMA SessionInvSplit == SessionInv <=> TypeOK /\ Sound
BY DEF SessionInv, Sound, Good, Work, HasWork

\* It holds when the server starts.
LEMMA InitSessionInv ==
  ASSUME Init
  PROVE  SessionInv
<1> USE DEF Init, WireInit, ServerInit, ClientInit
<1>1. <<>> \in Seq(Packets) /\ <<>> \in Seq(Nat) /\ <<>> \in Seq(CommandsExecuted)
      /\ <<>> \in Seq(CommandPackets) /\ <<>> \in Seq(Payloads)
  BY EmptySeq
<1>2. NoPacket \in CommandPackets /\ NoData \in Payloads
  BY CommandPacketTypes DEF Payloads
<1>3. WireTypeOK
  BY <1>1 DEF WireTypeOK
<1>4. ServerTypeOK
  BY <1>1 DEF ServerTypeOK, ThreadPoints
<1>5. ClientTypeOK
  BY <1>1, <1>2 DEF ClientTypeOK
<1>6. PlacesCounted
  <2>1. ConnectedSessions = {}
    BY DEF ConnectedSessions
  <2> QED
    BY <2>1, FS_EmptySet DEF PlacesCounted
<1>7. \A s \in Sessions : Good(s)
  BY DEF Good, Phase, Work, OwnsSocket, Before
<1> QED
  BY <1>3, <1>4, <1>5, <1>6, <1>7, SessionInvSplit DEF TypeOK, Sound

\* Every step keeps it.
LEMMA NextSessionInv ==
  ASSUME SessionInv, [Next]_vars
  PROVE  SessionInv'
<1>1. TypeOK /\ Sound
  BY SessionInvSplit
<1>2. WireTypeOK /\ ServerTypeOK /\ ClientTypeOK
  BY <1>1 DEF TypeOK
<1>3. Busy
  BY <1>1, <1>2, CountedPositive DEF Busy, Sound, Good, Work, HasWork
<1>4. CASE ServerNext /\ UNCHANGED clientVars
  <2>1. WireTypeOK' /\ ServerTypeOK'
    BY <1>2, <1>3, <1>4, MainTypes, LoopTypes, HandlerTypes, AckTypes
       DEF ServerNext, Thread
  <2>2. ClientTypeOK'
    BY <1>2, <1>4 DEF ClientTypeOK, clientVars
  <2>3. Sound'
    BY <1>1, <1>2, <1>4, MainSound, LoopSound, HandlerSound, AckSound
       DEF ServerNext, Thread
  <2> QED
    BY <2>1, <2>2, <2>3 DEF TypeOK, SessionInv, Sound, Good, Work, HasWork
<1>5. CASE ClientNext /\ UNCHANGED serverVars
  <2>1. WireTypeOK' /\ ClientTypeOK'
    BY <1>2, <1>3, <1>5, InterfaceTypes, CommunicationTypes DEF ClientNext
  <2>2. ServerTypeOK'
    BY <1>2, <1>5 DEF ServerTypeOK, serverVars, mainVars, rowVars, threadVars
  <2>3. Sound'
    BY <1>1, <1>2, <1>5, InterfaceSound, CommunicationSound DEF ClientNext
  <2> QED
    BY <2>1, <2>2, <2>3 DEF TypeOK, SessionInv, Sound, Good, Work, HasWork
<1>6. CASE UNCHANGED vars
  <2>1. UNCHANGED serverVars /\ UNCHANGED wireVars /\ UNCHANGED clientVars
    BY <1>6 DEF vars
  <2>2. WireTypeOK' /\ ServerTypeOK' /\ ClientTypeOK'
    BY <1>2, <2>1 DEF WireTypeOK, ServerTypeOK, ClientTypeOK, wireVars, serverVars,
                      mainVars, rowVars, threadVars, clientVars
  <2>3. \A s \in Sessions : Same(s)
    BY <2>1 DEF Same, wireVars, serverVars, threadVars, clientVars
  <2>4. UNCHANGED <<up, listening, active_sessions, connected>>
    BY <2>1 DEF serverVars, mainVars, rowVars, threadVars
  <2>5. Sound'
    BY <1>1, <2>3, <2>4, SameGood, PlacesSame DEF Sound
  <2> QED
    BY <2>2, <2>5 DEF TypeOK, SessionInv, Sound, Good, Work, HasWork
<1> QED
  BY <1>4, <1>5, <1>6 DEF Next

\* The inductive invariant: every session is admitted before anything else it
\* sends is handled, asks once, and is counted.
THEOREM SessionInvariant == Spec => []SessionInv
BY InitSessionInv, NextSessionInv, PTL DEF Spec

\* Every variable has its type.
THEOREM TypeCorrect == Spec => []TypeOK
<1>1. SessionInv => TypeOK
  BY DEF SessionInv
<1> QED
  BY <1>1, SessionInvariant, PTL

\* A profile has at most two sessions, and active_sessions counts exactly the
\* connected ones, however their sessions end.
THEOREM PlacesAreCounted == Spec => []PlacesCounted
<1>1. SessionInv => PlacesCounted
  BY DEF SessionInv
<1> QED
  BY <1>1, SessionInvariant, PTL

\* No handler but receive_CONNECT runs for a session that is not connected.
THEOREM ConnectComesFirst == Spec => []ConnectedFirst
<1>1. ASSUME SessionInv, NEW s \in Sessions, up, spc[s] = "parse",
             Head(inbuf[s]).type # "CONNECT"
      PROVE  connected[s]
  <2>1. Phase(s) /\ inbuf[s] \in Seq(Packets)
    BY <1>1 DEF SessionInv, TypeOK, ServerTypeOK
  <2>2. ~OnlyConnect(inbuf[s])
    BY <1>1, <2>1, TailOnlyConnect
  <2> QED
    BY <1>1, <2>1, <2>2 DEF Phase, OwnsSocket, Before, Asking, Joined
<1>2. SessionInv => ConnectedFirst
  BY <1>1 DEF ConnectedFirst
<1> QED
  BY <1>2, SessionInvariant, PTL
=============================================================================
