---------------------------- MODULE ServerChange ----------------------------
(***************************************************************************)
(* How a client changes to another server (client.cpp:294-430, 539-581):   *)
(* main, which waits for a communication thread and then ends the process; *)
(* the communication threads, of which each starts the next; and a         *)
(* server_change_thread for each server that announces itself.  What a     *)
(* communication thread exchanges with its server is in Client.            *)
(*                                                                         *)
(* Servers are outside: one may announce itself, though no code sends      *)
(* SERVER_CHANGE so far, and it may answer a CONNECT.                      *)
(***************************************************************************)
EXTENDS Naturals, FiniteSets

CONSTANTS
  Announcers,  \* servers that announce themselves, each until it is taken
  FirstServer  \* the one the client is started with

ASSUME ChangeAssumption == IsFiniteSet(Announcers) /\ FirstServer \notin Announcers

Servers == Announcers \union {FirstServer}

\* Communication threads in the order of their start: none starts two.
Comms == 1..(Cardinality(Announcers) + 1)

VARIABLES
  alive,                     \* the process
  termination_signal, server_change_signal,
  server_ip_address, port,   \* communication_parameters, one for all threads
  communication_tid,
  joins,                     \* the thread main waits for; 0 before
  cpc,                       \* where each communication thread is
  copied,                    \* its own copy of the port; the address is a pointer
  server,                    \* the address and port it has connected to
  apc                        \* where the thread for each announcer is

params == <<server_ip_address, port>>
signals == <<termination_signal, server_change_signal>>
threads == <<communication_tid, cpc, copied, server>>
vars == <<alive, signals, params, joins, threads, apc>>

TypeOK ==
  /\ {alive, termination_signal, server_change_signal} \subseteq BOOLEAN
  /\ server_ip_address \in Servers /\ port \in Servers
  /\ communication_tid \in Comms /\ joins \in Comms \union {0}
  /\ cpc \in [Comms -> {"none", "start", "setup", "await", "loop", "change", "done"}]
  /\ copied \in [Comms -> Servers] /\ server \in [Comms -> Servers \X Servers]
  /\ apc \in [Announcers -> {"none", "recv", "acked", "port", "signal", "told", "done"}]

Init ==
  /\ alive = TRUE /\ termination_signal = FALSE /\ server_change_signal = FALSE
  /\ server_ip_address = FirstServer /\ port = FirstServer
  /\ communication_tid = 1 /\ joins = 0
  /\ cpc = [c \in Comms |-> IF c = 1 THEN "start" ELSE "none"]
  /\ copied = [c \in Comms |-> FirstServer]
  /\ server = [c \in Comms |-> <<FirstServer, FirstServer>>]
  /\ apc = [a \in Announcers |-> "none"]

-----------------------------------------------------------------------------
(* main and the user *)

\* main waits for the thread that communication_tid names when it calls
\* pthread_join.
pthread_join ==
  /\ alive /\ joins = 0
  /\ joins' = communication_tid
  /\ UNCHANGED <<alive, signals, params, threads, apc>>

Joined == cpc[joins] = "done"

\* pthread_cancel and exit: every other thread ends with the process.
Exit ==
  /\ alive /\ joins # 0 /\ Joined
  /\ alive' = FALSE
  /\ UNCHANGED <<signals, params, joins, threads, apc>>

\* Control-C or control-D.
set_termination_signal ==
  /\ alive /\ ~termination_signal
  /\ termination_signal' = TRUE
  /\ UNCHANGED <<alive, server_change_signal, params, joins, threads, apc>>

-----------------------------------------------------------------------------
(* Communication threads *)

Goto(c, from, to) == alive /\ cpc[c] = from /\ cpc' = [cpc EXCEPT ![c] = to]

\* The parameters are copied, but not the text of the address.
communication_thread(c) ==
  /\ Goto(c, "start", "setup")
  /\ copied' = [copied EXCEPT ![c] = port]
  /\ UNCHANGED <<alive, signals, params, joins, communication_tid, server, apc>>

setup_socket(c) ==
  /\ Goto(c, "setup", "await")
  /\ server' = [server EXCEPT ![c] = <<server_ip_address, copied[c]>>]
  /\ UNCHANGED <<alive, signals, params, joins, communication_tid, copied, apc>>

\* The answer to CONNECT, which the thread awaits without a way out.
Connected(c) ==
  /\ Goto(c, "await", "loop")
  /\ UNCHANGED <<alive, signals, params, joins, communication_tid, copied, server, apc>>

\* A mutant: only the first thread looks at the signal.
FirstLeaves(c) == termination_signal /\ c = 1

Leaves(c) == termination_signal

\* The loop's condition; the thread disconnects.
LeaveLoop(c) ==
  /\ Leaves(c)
  /\ Goto(c, "loop", "done")
  /\ UNCHANGED <<alive, signals, params, joins, communication_tid, copied, server, apc>>

\* A mutant: the loop ends before it looks for a change.
SeesNoChange == server_change_signal /\ termination_signal

SeesChange == server_change_signal

DetectChange(c) ==
  /\ SeesChange
  /\ Goto(c, "loop", "change")
  /\ UNCHANGED <<alive, signals, params, joins, communication_tid, copied, server, apc>>

\* A mutant: the thread starts two.
NextButOne(c) == c + 2

NextThread(c) == c + 1

\* A mutant: the thread goes on.
GoesOn == "loop"

Ends == "done"

\* The next thread inherits the FIFO of commands; this one ends.
HandOver(c) ==
  /\ alive /\ cpc[c] = "change"
  /\ cpc' = [cpc EXCEPT ![c] = Ends, ![NextThread(c)] = "start"]
  /\ communication_tid' = NextThread(c)
  /\ server_change_signal' = FALSE
  /\ UNCHANGED <<alive, termination_signal, params, joins, copied, server, apc>>

-----------------------------------------------------------------------------
(* server_change_thread *)

Step(a, from, to) == alive /\ apc[a] = from /\ apc' = [apc EXCEPT ![a] = to]

\* The thread reads its socket, before and after it has acknowledged something.
Reading == {"recv", "acked"}

\* listen_thread accepts.
Accept(a) ==
  /\ ~termination_signal
  /\ Step(a, "none", "recv")
  /\ UNCHANGED <<alive, signals, params, joins, threads>>

\* The number of the last change, with which the first is compared, was never
\* set: any announcement may be taken for one received already, which is
\* acknowledged and no more.  A later one has a greater number.
AlreadyReceived(a) ==
  /\ Step(a, "recv", "acked")
  /\ UNCHANGED <<alive, signals, params, joins, threads>>

\* The condition of the thread's loop.
StopReading(a) ==
  /\ termination_signal
  /\ apc[a] \in Reading /\ Step(a, apc[a], "done")
  /\ UNCHANGED <<alive, signals, params, joins, threads>>

ParseAddress(a) ==
  /\ apc[a] \in Reading /\ Step(a, apc[a], "port")
  /\ server_ip_address' = a
  /\ UNCHANGED <<alive, signals, port, joins, threads>>

ParsePort(a) ==
  /\ Step(a, "port", "signal")
  /\ port' = a
  /\ UNCHANGED <<alive, signals, server_ip_address, joins, threads>>

\* A mutant: the change is signalled before the port is parsed.
ParsedAddress == "port"

Parsed == "signal"

Signal(a) ==
  /\ Step(a, Parsed, "told")
  /\ server_change_signal' = TRUE
  /\ UNCHANGED <<alive, termination_signal, params, joins, threads>>

-----------------------------------------------------------------------------
Communication(c) ==
  \/ communication_thread(c) \/ setup_socket(c)
  \/ LeaveLoop(c) \/ DetectChange(c) \/ HandOver(c)

Parsing(a) == ParsePort(a) \/ Signal(a)

Next ==
  \/ pthread_join \/ Exit \/ set_termination_signal
  \/ \E c \in Comms : Communication(c) \/ Connected(c)
  \/ \E a \in Announcers : Accept(a) \/ AlreadyReceived(a) \/ StopReading(a) \/ ParseAddress(a) \/ Parsing(a)

Spec == Init /\ [][Next]_vars

\* The client's threads run; the servers and the user owe nothing.
Fairness ==
  /\ WF_vars(pthread_join \/ Exit)
  /\ \A c \in Comms : WF_vars(Communication(c))
  /\ \A a \in Announcers : WF_vars(Parsing(a))

FairSpec == Spec /\ Fairness
-----------------------------------------------------------------------------
(* Properties *)

Changed(a) == apc[a] \in {"port", "signal", "told"}

\* A server that announces itself alone is the one a new communication thread
\* connects to, though address, port and signal are written without a lock
\* (client.cpp:370-383).  Two that do it at once can leave the address of one
\* with the port of the other.
TornOnlyByTwo ==
  \A c \in Comms \ {1} :
    cpc[c] \in {"await", "loop"} /\ server[c][1] # server[c][2] =>
      \E a, b \in Announcers : a # b /\ Changed(a) /\ Changed(b)

\* No thread but the latest is in its loop, or will be: one server at a time
\* gets the user's commands.
OneCommunication ==
  \A c \in Comms : cpc[c] \notin {"none", "done"} => c = communication_tid

Stuck == \E c \in Comms : cpc[c] = "await"

\* The user can end the client (534-537), unless a thread waits for the answer
\* to its CONNECT, where it does not look at the signal.
UserEndsClient == <>termination_signal => <>[](~alive \/ Stuck)
=============================================================================
