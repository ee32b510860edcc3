-------------------------------- MODULE Wire --------------------------------
(***************************************************************************)
(* The TCP connections between the client processes and the server, one    *)
(* per session, and the packets they carry (packet.cpp).                   *)
(*                                                                         *)
(* A connection is two reliable FIFO channels.  One recv or read returns   *)
(* the packets that have arrived so far, so several packets can come out   *)
(* of one call: the server splits them again, the client looks only at the *)
(* first.  Packets are kept whole; a write to an end that its owner has    *)
(* closed is lost.                                                         *)
(***************************************************************************)
EXTENDS Naturals, Sequences, FiniteSets

CONSTANTS
  Sessions,  \* client processes that ever run, all of the same profile
  Data,      \* payloads of commands: profile names and messages
  NoData     \* the payload of a packet whose payload nobody reads

ASSUME SessionsAssumption == IsFiniteSet(Sessions)

VARIABLES
  toServer, toClient,     \* packets written and not yet read
  serverOpen, clientOpen  \* which ends of the connection are still open

wireVars == <<toServer, toClient, serverOpen, clientOpen>>

Packet(type, seqn, data) == [type |-> type, seqn |-> seqn, data |-> data]

PacketTypes == {"CONNECT", "FOLLOW", "SEND", "MSG", "ACK", "ERROR", "DISCONNECT"}

\* A notification's payload is its number.
Payloads == Nat \union Data \union {NoData}

Packets == [type : PacketTypes, seqn : Nat, data : Payloads]

WireTypeOK ==
  /\ toServer \in [Sessions -> Seq(Packets)]
  /\ toClient \in [Sessions -> Seq(Packets)]
  /\ serverOpen \in [Sessions -> BOOLEAN]
  /\ clientOpen \in [Sessions -> BOOLEAN]

WireInit ==
  /\ toServer = [s \in Sessions |-> <<>>]
  /\ toClient = [s \in Sessions |-> <<>>]
  /\ serverOpen = [s \in Sessions |-> TRUE]
  /\ clientOpen = [s \in Sessions |-> TRUE]

\* The channel q after packet p is written to session s, whose reader is open
\* or not.
Written(q, s, p, open) == IF open[s] THEN [q EXCEPT ![s] = Append(@, p)] ELSE q

ServerWrites(s, p) == toClient' = Written(toClient, s, p, clientOpen)
ClientWrites(s, p) == toServer' = Written(toServer, s, p, serverOpen)

\* What one read of a channel that holds q can return, and what it leaves.
Batches(q) == {SubSeq(q, 1, k) : k \in 1..Len(q)}
After(q, batch) == SubSeq(q, Len(batch) + 1, Len(q))
=============================================================================
