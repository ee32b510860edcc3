------------------------------ MODULE Shutdown ------------------------------
(***************************************************************************)
(* How a server ends (server.cpp:1109-1274): the signal handler, which runs *)
(* on whichever thread the system interrupts and takes the mutex of        *)
(* termination_signal; the threads that look at the signal once in a turn; *)
(* and main, which accepts until it sees the signal, joins every thread,   *)
(* and only then deletes what the threads use.                             *)
(*                                                                         *)
(* What a turn does besides is in SocketThread and Replication.  One kind  *)
(* of signal is sent: the system blocks it in a thread while its handler   *)
(* runs there.  The second look at the signal, for a message, is left out. *)
(***************************************************************************)
EXTENDS Naturals, Sequences, FiniteSets

CONSTANTS
  Clients,    \* threads in socket_thread
  Peers,      \* threads in servers_socket_thread
  ToPrimary,  \* the thread in primary_communication_thread, on a backup
  Main,
  Free,       \* no thread holds the mutex
  MaxSignals  \* bound: how often the operator interrupts the server

Servers == Peers \union {ToPrimary}
Threads == Clients \union Servers
All == Threads \union {Main}

ASSUME ShutdownAssumption ==
  /\ Clients \intersect Servers = {} /\ ToPrimary \notin Peers
  /\ Main \notin Threads /\ Free \notin All
  /\ MaxSignals \in Nat

VARIABLES
  up,                       \* the process runs
  termination_signal,
  termination_signal_mutex, \* its owner
  signals,                  \* sent so far
  handler,                  \* what the handler on a thread is about to do
  pc,                       \* where each thread is
  connected,                \* currentUser # "not-connected"
  threads_list,             \* of main
  joined,                   \* how many of them main has joined
  deleted                   \* main has freed the socket pointers and the rows

signalVars == <<termination_signal, signals, handler>>
mainVars == <<threads_list, joined, deleted>>
vars == <<up, termination_signal_mutex, signalVars, mainVars, pc, connected>>

TypeOK ==
  /\ up \in BOOLEAN /\ termination_signal \in BOOLEAN /\ deleted \in BOOLEAN
  /\ termination_signal_mutex \in All \union {Free}
  /\ signals \in 0..MaxSignals
  /\ handler \in [All -> {"none", "lock", "set"}]
  /\ pc \in [All -> {"none", "start", "accept", "servers", "join", "exit",
                     "connect", "wait", "turn", "number", "numbered",
                     "ask", "asked", "leave", "done"}]
  /\ connected \in [Clients -> BOOLEAN]
  /\ threads_list \in Seq(Threads)
  /\ joined \in 0..Len(threads_list)

\* A primary accepts at once, a backup first connects to its primary.
Init ==
  /\ up = TRUE /\ termination_signal = FALSE /\ deleted = FALSE
  /\ termination_signal_mutex = Free
  /\ signals = 0
  /\ handler = [t \in All |-> "none"]
  /\ \E first \in {"start", "accept"} :
       pc = [t \in All |-> IF t = Main THEN first ELSE "none"]
  /\ connected = [c \in Clients |-> FALSE]
  /\ threads_list = <<>> /\ joined = 0

\* A thread runs unless a handler runs on it.
Goto(t, from, to) ==
  up /\ handler[t] = "none" /\ pc[t] = from /\ pc' = [pc EXCEPT ![t] = to]

Lock(t) == termination_signal_mutex = Free /\ termination_signal_mutex' = t
Unlock == termination_signal_mutex' = Free

-----------------------------------------------------------------------------
(* exit_hook_handler *)

Interrupt(t) ==
  /\ up /\ signals < MaxSignals
  /\ pc[t] \notin {"none", "done"} /\ handler[t] = "none"
  /\ signals' = signals + 1
  /\ handler' = [handler EXCEPT ![t] = "lock"]
  /\ UNCHANGED <<up, termination_signal, termination_signal_mutex, mainVars, pc, connected>>

HandlerLocks(t) ==
  /\ up /\ handler[t] = "lock"
  /\ Lock(t)
  /\ handler' = [handler EXCEPT ![t] = "set"]
  /\ UNCHANGED <<up, termination_signal, signals, mainVars, pc, connected>>

set_termination_signal(t) ==
  /\ up /\ handler[t] = "set"
  /\ termination_signal' = TRUE
  /\ Unlock
  /\ handler' = [handler EXCEPT ![t] = "none"]
  /\ UNCHANGED <<up, signals, mainVars, pc, connected>>

-----------------------------------------------------------------------------
(* get_termination_signal, by main and at the end of a turn *)

Ask(t) ==
  /\ Goto(t, "ask", "asked")
  /\ Lock(t)
  /\ UNCHANGED <<up, signalVars, mainVars, connected>>

\* A mutant: only main looks at the signal.
MainLeaves(t) == termination_signal /\ t = Main

Leaves(t) == termination_signal

\* Turns also end because a peer that is connected no longer answers.
AnswerThread(t) ==
  /\ t # Main
  /\ \/ ~Leaves(t) /\ Goto(t, "asked", "turn")
     \/ Leaves(t) /\ Goto(t, "asked", "leave")
     \/ (t \in Clients => connected[t]) /\ Goto(t, "asked", "leave")
  /\ Unlock
  /\ UNCHANGED <<up, signalVars, mainVars, connected>>

\* Main closes the sockets it listens on before it joins.
AnswerMain ==
  /\ Goto(Main, "asked", IF Leaves(Main) THEN "join" ELSE "accept")
  /\ Unlock
  /\ UNCHANGED <<up, signalVars, mainVars, connected>>

-----------------------------------------------------------------------------
(* Threads *)

Turn(t) ==
  /\ Goto(t, "turn", "ask")
  /\ UNCHANGED <<up, termination_signal_mutex, signalVars, mainVars, connected>>

\* The client's CONNECT: get_next_session_id uses the same mutex.
receive_CONNECT(c) ==
  /\ ~connected[c]
  /\ Goto(c, "turn", "number")
  /\ UNCHANGED <<up, termination_signal_mutex, signalVars, mainVars, connected>>

get_next_session_id(c) ==
  /\ Goto(c, "number", "numbered")
  /\ Lock(c)
  /\ UNCHANGED <<up, signalVars, mainVars, connected>>

\* With no place left the thread ends.
Connected(c) ==
  /\ \/ Goto(c, "numbered", "ask") /\ connected' = [connected EXCEPT ![c] = TRUE]
     \/ Goto(c, "numbered", "done") /\ UNCHANGED connected
  /\ Unlock
  /\ UNCHANGED <<up, signalVars, mainVars>>

\* DISCONNECT, or a SET_ID that is not acknowledged.
EndInTurn(t) ==
  /\ t # ToPrimary /\ (t \in Clients => connected[t])
  /\ Goto(t, "turn", "done")
  /\ UNCHANGED <<up, termination_signal_mutex, signalVars, mainVars, connected>>

\* Unanswered after the last try, the thread calls exit for all of them.
send_CONNECT_SERVER ==
  /\ \/ Goto(ToPrimary, "connect", "wait") /\ UNCHANGED up
     \/ Goto(ToPrimary, "connect", "done") /\ up' = FALSE
  /\ UNCHANGED <<termination_signal_mutex, signalVars, mainVars, connected>>

\* receive_CONNECT_SERVER and receive_SET_ID wait, and do not ask.
PeerSpeaks(p) ==
  /\ Goto(p, "wait", "turn")
  /\ UNCHANGED <<up, termination_signal_mutex, signalVars, mainVars, connected>>

\* Without a user there is no row to close the session in.
Leave(t) ==
  /\ up' = (t \in Clients => connected[t])
  /\ Goto(t, "leave", "done")
  /\ UNCHANGED <<termination_signal_mutex, signalVars, mainVars, connected>>

-----------------------------------------------------------------------------
(* main *)

\* accept does not block; a thread is started for what it returns, and on a
\* backup one for the connection to the primary.
Accept(t, from, first, to) ==
  /\ pc[t] = "none"
  /\ up /\ handler[Main] = "none" /\ pc[Main] = from
  /\ pc' = [pc EXCEPT ![t] = first, ![Main] = to]
  /\ threads_list' = Append(threads_list, t)
  /\ UNCHANGED <<up, termination_signal_mutex, signalVars, joined, deleted, connected>>

AcceptClient(c) == Accept(c, "accept", "turn", "servers")
ConnectToPrimary == Accept(ToPrimary, "start", "connect", "accept")
AcceptServer(p) == Accept(p, "servers", "wait", "ask")

AcceptNobody ==
  /\ Goto(Main, "accept", "servers") \/ Goto(Main, "servers", "ask")
  /\ UNCHANGED <<up, termination_signal_mutex, signalVars, mainVars, connected>>

\* A mutant: a thread that is leaving counts as ended.
EndedOrLeaving(t) == pc[t] \in {"leave", "done"}

Ended(t) == pc[t] = "done"

\* A mutant: the iterator of the list goes on twice.
SkipOne(i) == i + 2

GoOn(i) == i + 1

pthread_join ==
  /\ joined < Len(threads_list)
  /\ Ended(threads_list[joined + 1])
  /\ Goto(Main, "join", "join")
  /\ joined' = GoOn(joined)
  /\ UNCHANGED <<up, termination_signal_mutex, signalVars, threads_list, deleted, connected>>

deleteRows ==
  /\ joined = Len(threads_list)
  /\ Goto(Main, "join", "exit")
  /\ deleted' = TRUE
  /\ UNCHANGED <<up, termination_signal_mutex, signalVars, threads_list, joined, connected>>

Exit ==
  /\ Goto(Main, "exit", "done")
  /\ up' = FALSE
  /\ UNCHANGED <<termination_signal_mutex, signalVars, mainVars, connected>>

-----------------------------------------------------------------------------
Thread(t) ==
  \/ Ask(t) \/ AnswerThread(t) \/ Turn(t) \/ EndInTurn(t) \/ Leave(t)
  \/ t = ToPrimary /\ send_CONNECT_SERVER
  \/ t \in Clients /\ (receive_CONNECT(t) \/ get_next_session_id(t) \/ Connected(t))

MainThread ==
  \/ ConnectToPrimary
  \/ (\E c \in Clients : AcceptClient(c)) \/ (\E p \in Peers : AcceptServer(p)) \/ AcceptNobody
  \/ Ask(Main) \/ AnswerMain \/ pthread_join \/ deleteRows \/ Exit

Next ==
  \/ MainThread
  \/ \E t \in Threads : Thread(t)
  \/ \E p \in Servers : PeerSpeaks(p)
  \/ \E t \in All : Interrupt(t) \/ HandlerLocks(t) \/ set_termination_signal(t)

Spec == Init /\ [][Next]_vars

\* All threads run.  They sleep between two looks at the signal, so that a
\* handler that waits for the mutex gets it; peers and the operator owe nothing.
Fairness ==
  /\ WF_vars(MainThread)
  /\ \A t \in Threads : WF_vars(Thread(t))
  /\ \A t \in All : SF_vars(HandlerLocks(t)) /\ WF_vars(set_termination_signal(t))

FairSpec == Spec /\ Fairness
-----------------------------------------------------------------------------
(* Properties *)

\* When main frees the rows and the socket pointers, no thread is left that
\* could use them (server.cpp:1255-1267).
NoUseAfterDelete == deleted => \A t \in Threads : pc[t] \in {"none", "done"}

\* A handler that has interrupted the owner of the mutex it waits for.
Jammed == \E t \in All : handler[t] = "lock" /\ termination_signal_mutex = t

Interrupted == termination_signal \/ \E t \in All : handler[t] # "none"

\* Once the server is interrupted it ends: it exits, or a thread without a
\* user, or one whose primary does not answer, brings it down.  Only two things keep it up for ever: a handler that
\* waits for a mutex its own thread holds (server.cpp:97-101), and a thread
\* that waits for the first word of another server (375-378, 438-441).
ShutdownEnds ==
  <>Interrupted => <>[](~up \/ Jammed \/ \E p \in Servers : pc[p] = "wait")
=============================================================================
