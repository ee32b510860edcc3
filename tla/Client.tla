------------------------------- MODULE Client -------------------------------
(***************************************************************************)
(* The client process of a session (client.cpp): the communication thread, *)
(* which owns the connection, and the interface thread, which takes the    *)
(* user's commands and prints what the server sent.  They share seqn, the  *)
(* two FIFOs, and the payload buffer that every queued packet points to.   *)
(***************************************************************************)
EXTENDS Wire

CONSTANTS
  CLIENT_MAX_TRIES,  \* the macro MAX_TRIES of client.hpp
  Script,            \* Script[s]: the commands the user of s types, in order
  Patient,           \* whether the user waits for one command to be confirmed,
                     \* and for the connection, before typing the next
  Quitters,          \* the sessions whose users may stop the client
  MayDie,            \* whether the client process may be killed
  MaxSends           \* bound: calls of send_message per session

ASSUME ClientAssumption ==
  /\ CLIENT_MAX_TRIES \in Nat /\ MaxSends \in Nat
  /\ Script \in [Sessions -> Seq([type : {"FOLLOW", "SEND"}, data : Data])]

VARIABLES
  cpc,             \* where the communication thread is
  ipc,             \* where the interface thread is
  client_seqn,     \* the global seqn
  payload,         \* the buffer packets_to_send_fifo's packets point to
  pending,         \* the interface thread's packet_to_send
  packets_to_send, packets_received,   \* the two FIFOs
  outgoing,        \* the serialized packet send_message is sending
  tries,           \* of send_message
  last_seqn,       \* max_reference_seqn of communication_loop, plus one
  quitting,        \* termination_signal
  typed, sends,    \* how many commands were typed, and send_message called
  displayed        \* what the interface thread printed, in order

clientVars == <<cpc, ipc, client_seqn, payload, pending, packets_to_send,
                packets_received, outgoing, tries, last_seqn, quitting,
                typed, sends, displayed>>

NoPacket == Packet("ACK", 0, NoData)

\* What the interface thread makes: a command, or no packet.
CommandPackets == [type : {"FOLLOW", "SEND", "ACK"}, seqn : Nat, data : Payloads]

ClientTypeOK ==
  /\ cpc \in [Sessions -> {"connect", "await", "loop", "send", "sending", "dead"}]
  /\ ipc \in [Sessions -> {"idle", "push"}]
  /\ client_seqn \in [Sessions -> Nat]
  /\ payload \in [Sessions -> Payloads]
  /\ pending \in [Sessions -> CommandPackets]
  /\ packets_to_send \in [Sessions -> Seq(CommandPackets)]
  /\ packets_received \in [Sessions -> Seq(Payloads)]
  /\ outgoing \in [Sessions -> CommandPackets]
  /\ tries \in [Sessions -> Nat]
  /\ last_seqn \in [Sessions -> Nat]
  /\ quitting \in [Sessions -> BOOLEAN]
  /\ typed \in [Sessions -> Nat]
  /\ sends \in [Sessions -> Nat]
  /\ displayed \in [Sessions -> Seq(Payloads)]

ClientInit ==
  /\ cpc = [s \in Sessions |-> "connect"]
  /\ ipc = [s \in Sessions |-> "idle"]
  /\ client_seqn = [s \in Sessions |-> 0]
  /\ payload = [s \in Sessions |-> NoData]
  /\ pending = [s \in Sessions |-> NoPacket]
  /\ packets_to_send = [s \in Sessions |-> <<>>]
  /\ packets_received = [s \in Sessions |-> <<>>]
  /\ outgoing = [s \in Sessions |-> NoPacket]
  /\ tries = [s \in Sessions |-> 0]
  /\ last_seqn = [s \in Sessions |-> 0]
  /\ quitting = [s \in Sessions |-> FALSE]
  /\ typed = [s \in Sessions |-> 0]
  /\ sends = [s \in Sessions |-> 0]
  /\ displayed = [s \in Sessions |-> <<>>]

CGoto(s, from, to) == cpc[s] = from /\ cpc' = [cpc EXCEPT ![s] = to]
Set(f, s, v) == [f EXCEPT ![s] = v]

-----------------------------------------------------------------------------
(* The interface thread *)

CanType(s) ==
  Patient => cpc[s] = "loop" /\ packets_to_send[s] = <<>>

\* The user typed a command: the thread writes it into payload and makes a
\* packet with the present seqn.
TypeCommand(s) ==
  /\ cpc[s] # "dead" /\ ipc[s] = "idle" /\ ~quitting[s]
  /\ typed[s] < Len(Script[s]) /\ CanType(s)
  /\ LET command == Script[s][typed[s] + 1]
     IN  /\ payload' = Set(payload, s, command.data)
         /\ pending' = Set(pending, s, Packet(command.type, client_seqn[s], NoData))
  /\ typed' = Set(typed, s, typed[s] + 1)
  /\ ipc' = Set(ipc, s, "push")
  /\ UNCHANGED <<cpc, client_seqn, packets_to_send, packets_received, outgoing, tries,
                 last_seqn, quitting, sends, displayed, wireVars>>

\* seqn++ and the push, once packets_to_send_mutex is free: the communication
\* thread holds it all through send_message.  The increment takes no lock, so
\* that it may store one more than the value the packet got, and lose an
\* increment the communication thread made since.
PushCommand(s) ==
  /\ cpc[s] \notin {"dead", "sending"} /\ ipc[s] = "push"
  /\ \E n \in {client_seqn[s], pending[s].seqn} : client_seqn' = Set(client_seqn, s, n + 1)
  /\ packets_to_send' = Set(packets_to_send, s, Append(packets_to_send[s], pending[s]))
  /\ pending' = Set(pending, s, NoPacket)
  /\ ipc' = Set(ipc, s, "idle")
  /\ UNCHANGED <<cpc, payload, packets_received, outgoing, tries, last_seqn, quitting,
                 typed, sends, displayed, wireVars>>

\* The thread empties packets_received_fifo onto the screen.
Display(s) ==
  /\ cpc[s] # "dead" /\ ipc[s] = "idle" /\ packets_received[s] # <<>>
  /\ displayed' = Set(displayed, s, displayed[s] \o packets_received[s])
  /\ packets_received' = Set(packets_received, s, <<>>)
  /\ UNCHANGED <<cpc, ipc, client_seqn, payload, pending, packets_to_send, outgoing,
                 tries, last_seqn, quitting, typed, sends, wireVars>>

\* Control-C or the end of the input.
Quit(s) ==
  /\ s \in Quitters /\ cpc[s] # "dead" /\ ~quitting[s]
  /\ quitting' = Set(quitting, s, TRUE)
  /\ UNCHANGED <<cpc, ipc, client_seqn, payload, pending, packets_to_send, packets_received,
                 outgoing, tries, last_seqn, typed, sends, displayed, wireVars>>

-----------------------------------------------------------------------------
(* The end of the process *)

Exit(s) ==
  /\ cpc' = Set(cpc, s, "dead")
  /\ clientOpen' = Set(clientOpen, s, FALSE)
  /\ UNCHANGED <<ipc, payload, pending, packets_to_send, packets_received, outgoing,
                 tries, last_seqn, quitting, typed, sends, displayed,
                 toClient, serverOpen>>

Kill(s) ==
  /\ MayDie /\ cpc[s] # "dead"
  /\ Exit(s)
  /\ UNCHANGED <<client_seqn, toServer>>

\* The server's end is closed.  A client waiting for the answer to CONNECT
\* reads the end of the file and takes an empty buffer apart; one that writes
\* again, to answer, to send or to disconnect, is stopped by SIGPIPE.  One
\* that does neither lives on: recv's 0 is ignored here too.
LoseConnection(s) ==
  /\ ~serverOpen[s]
  /\ \/ cpc[s] \in {"connect", "await", "send"}
     \/ cpc[s] \in {"loop", "sending"} /\ toClient[s] # <<>>
     \/ cpc[s] = "loop" /\ quitting[s]
  /\ Exit(s)
  /\ UNCHANGED <<client_seqn, toServer>>

-----------------------------------------------------------------------------
(* The communication thread *)

send_connect_message(s) ==
  /\ CGoto(s, "connect", "await")
  /\ ClientWrites(s, Packet("CONNECT", client_seqn[s], NoData))
  /\ UNCHANGED <<ipc, client_seqn, payload, pending, packets_to_send, packets_received,
                 outgoing, tries, last_seqn, quitting, typed, sends, displayed,
                 toClient, serverOpen, clientOpen>>

\* The first packet of what a read returns; the rest of the batch is dropped.
Reading(s, batch) ==
  /\ batch \in Batches(toClient[s])
  /\ toClient' = Set(toClient, s, After(toClient[s], batch))

ReceiveConnectReply(s) ==
  /\ \E batch \in Batches(toClient[s]) :
       /\ Reading(s, batch)
       /\ \/ /\ Head(batch).type = "ACK"
             /\ CGoto(s, "await", "loop")
             /\ client_seqn' = Set(client_seqn, s, client_seqn[s] + 1)
          \/ /\ Head(batch).type # "ACK"
             /\ CGoto(s, "await", "connect")
             /\ UNCHANGED client_seqn
  /\ UNCHANGED <<ipc, payload, pending, packets_to_send, packets_received, outgoing,
                 tries, last_seqn, quitting, typed, sends, displayed,
                 toServer, serverOpen, clientOpen>>

CanSend(s) == packets_to_send[s] # <<>> /\ sends[s] < MaxSends

\* A packet whose number is new is printed; two bugs, one printing every
\* packet and one skipping the next number.
IsNewAlways(s, packet) == TRUE
IsNewLate(s, packet) == packet.seqn > last_seqn[s]
IsNew(s, packet) == packet.seqn >= last_seqn[s]

\* The receiving half of communication_loop: whatever the packet is, it is
\* printed if its number is new, and acknowledged.  The sending half follows
\* if there is something to send.
LoopReceive(s) ==
  /\ ~quitting[s]
  /\ CGoto(s, "loop", IF CanSend(s) THEN "send" ELSE "loop")
  /\ \E batch \in Batches(toClient[s]) :
       /\ Reading(s, batch)
       /\ LET packet == Head(batch)
          IN  /\ \/ /\ IsNew(s, packet)
                    /\ packets_received' =
                         Set(packets_received, s, Append(packets_received[s], packet.data))
                    /\ last_seqn' = Set(last_seqn, s, packet.seqn + 1)
                 \/ /\ ~IsNew(s, packet)
                    /\ UNCHANGED <<packets_received, last_seqn>>
              /\ ClientWrites(s, Packet("ACK", packet.seqn, NoData))
  /\ UNCHANGED <<ipc, client_seqn, payload, pending, packets_to_send, outgoing, tries,
                 quitting, typed, sends, displayed, serverOpen, clientOpen>>

\* Nothing has arrived.
LoopNothing(s) ==
  /\ ~quitting[s] /\ CanSend(s)
  /\ CGoto(s, "loop", "send")
  /\ UNCHANGED <<ipc, client_seqn, payload, pending, packets_to_send, packets_received,
                 outgoing, tries, last_seqn, quitting, typed, sends, displayed, wireVars>>

\* The head of the FIFO goes out with what payload holds now.
send_message(s) ==
  /\ CGoto(s, "send", "sending")
  /\ LET packet == [Head(packets_to_send[s]) EXCEPT !.data = payload[s]]
     IN  /\ outgoing' = Set(outgoing, s, packet)
         /\ ClientWrites(s, packet)
  /\ tries' = Set(tries, s, 0)
  /\ sends' = Set(sends, s, sends[s] + 1)
  /\ UNCHANGED <<ipc, client_seqn, payload, pending, packets_to_send, packets_received,
                 last_seqn, quitting, typed, displayed, toClient, serverOpen, clientOpen>>

\* One of send_message's reads did not confirm: try again, or give up and
\* leave the packet in the FIFO.
Retry(s) ==
  \/ /\ tries[s] + 1 < CLIENT_MAX_TRIES
     /\ tries' = Set(tries, s, tries[s] + 1)
     /\ UNCHANGED <<cpc, outgoing>>
  \/ /\ tries[s] + 1 = CLIENT_MAX_TRIES
     /\ tries' = Set(tries, s, 0)
     /\ outgoing' = Set(outgoing, s, NoPacket)
     /\ CGoto(s, "sending", "loop")

ReadNothing(s) ==
  /\ cpc[s] = "sending"
  /\ Retry(s)
  /\ UNCHANGED <<ipc, client_seqn, payload, pending, packets_to_send, packets_received,
                 last_seqn, quitting, typed, sends, displayed, wireVars>>

\* Any ACK confirms the packet; an ERROR makes the thread write it again;
\* anything else is thrown away.
ReadReply(s) ==
  /\ cpc[s] = "sending"
  /\ \E batch \in Batches(toClient[s]) :
       /\ Reading(s, batch)
       /\ \/ /\ Head(batch).type = "ACK"
             /\ packets_to_send' = Set(packets_to_send, s, Tail(packets_to_send[s]))
             /\ client_seqn' = Set(client_seqn, s, client_seqn[s] + 1)
             /\ CGoto(s, "sending", "loop")
             /\ tries' = Set(tries, s, 0)
             /\ outgoing' = Set(outgoing, s, NoPacket)
             /\ UNCHANGED toServer
          \/ /\ Head(batch).type = "ERROR"
             /\ ClientWrites(s, outgoing[s])
             /\ Retry(s)
             /\ UNCHANGED <<client_seqn, packets_to_send>>
          \/ /\ Head(batch).type = "MSG"
             /\ Retry(s)
             /\ UNCHANGED <<client_seqn, packets_to_send, toServer>>
  /\ UNCHANGED <<ipc, payload, pending, packets_received, last_seqn, quitting,
                 typed, sends, displayed, serverOpen, clientOpen>>

\* The end of communication_loop: DISCONNECT, close, and main exits.
Disconnect(s) ==
  /\ quitting[s] /\ cpc[s] = "loop"
  /\ ClientWrites(s, Packet("DISCONNECT", client_seqn[s], NoData))
  /\ client_seqn' = Set(client_seqn, s, client_seqn[s] + 1)
  /\ Exit(s)

Communication(s) ==
  \/ send_connect_message(s) \/ ReceiveConnectReply(s)
  \/ LoopReceive(s) \/ LoopNothing(s) \/ send_message(s)
  \/ ReadNothing(s) \/ ReadReply(s) \/ Disconnect(s)

Interface(s) == TypeCommand(s) \/ PushCommand(s) \/ Display(s)

ClientNext ==
  \E s \in Sessions :
    Communication(s) \/ Interface(s) \/ Quit(s) \/ Kill(s) \/ LoseConnection(s)
=============================================================================
