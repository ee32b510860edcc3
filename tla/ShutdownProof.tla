---------------------------- MODULE ShutdownProof ----------------------------
(***************************************************************************)
(* Main frees what the threads use only after the last of them has ended,  *)
(* however many there are and whenever the server is interrupted.          *)
(***************************************************************************)
EXTENDS Shutdown, SequenceTheorems, TLAPS

-----------------------------------------------------------------------------
(* The invariant *)

\* Every thread that was started is in the list, and main goes through the
\* list in order: what it has passed has ended, and at the end that is all.
JoinInv ==
  /\ \A t \in Threads :
       pc[t] # "none" => \E i \in 1..Len(threads_list) : threads_list[i] = t
  /\ \A i \in 1..joined : pc[threads_list[i]] = "done"
  /\ deleted \/ pc[Main] \in {"exit", "done"} => joined = Len(threads_list)
  /\ deleted => pc[Main] \in {"exit", "done"}

IInv == TypeOK /\ JoinInv

-----------------------------------------------------------------------------
(* The steps *)

\* At the start main has started nobody.
LEMMA InitIInv == Init => IInv
<1> SUFFICES ASSUME Init PROVE IInv
  OBVIOUS
<1>1. threads_list \in Seq(Threads) /\ joined \in 0..Len(threads_list)
  BY EmptySeq DEF Init
<1>2. TypeOK
  <2>1. pc \in [All -> {"start", "accept", "none"}] /\ handler \in [All -> {"none"}]
    BY DEF Init
  <2>2. connected \in [Clients -> BOOLEAN]
    BY DEF Init
  <2>3. signals \in 0..MaxSignals
    BY ShutdownAssumption DEF Init
  <2> QED
    BY <1>1, <2>1, <2>2, <2>3 DEF Init, TypeOK
<1>3. JoinInv
  BY ShutdownAssumption DEF Init, JoinInv, All, Threads, Servers
<1> QED
  BY <1>2, <1>3 DEF IInv

\* A thread other than main that goes on, and has not ended before.
LEMMA ThreadGoesOn ==
  ASSUME IInv, NEW t \in Threads, NEW to,
         pc[t] \notin {"none", "done"}, pc' = [pc EXCEPT ![t] = to],
         UNCHANGED mainVars
  PROVE  JoinInv'
<1> USE DEF IInv, TypeOK, mainVars, All, Threads, Servers
<1>1. pc'[Main] = pc[Main]
  BY ShutdownAssumption
<1>2. \A u \in Threads : pc'[u] # "none" => pc[u] # "none"
  OBVIOUS
<1>3. \A i \in 1..joined : threads_list[i] \in Threads /\ threads_list[i] # t
  BY ElementOfSeq DEF JoinInv
<1>4. \A i \in 1..joined : pc'[threads_list[i]] = "done"
  BY <1>3 DEF JoinInv
<1> QED
  BY <1>1, <1>2, <1>4 DEF JoinInv

\* Main goes on, but neither joins nor leaves the joins.
LEMMA MainGoesOn ==
  ASSUME IInv, NEW to \in {"accept", "servers", "ask", "asked", "join"},
         pc[Main] \notin {"exit", "done"}, pc' = [pc EXCEPT ![Main] = to],
         UNCHANGED mainVars
  PROVE  JoinInv'
<1> USE DEF IInv, TypeOK, mainVars, All, Threads, Servers
<1>1. \A u \in Threads : pc'[u] = pc[u]
  BY ShutdownAssumption
<1>2. \A i \in 1..joined : threads_list[i] \in Threads
  BY ElementOfSeq
<1>3. pc'[Main] = to
  OBVIOUS
<1> QED
  BY <1>1, <1>2, <1>3 DEF JoinInv

\* Handlers come and go on any thread, and leave the threads where they are.
LEMMA HandlerInv ==
  ASSUME IInv, NEW t \in All,
         Interrupt(t) \/ HandlerLocks(t) \/ set_termination_signal(t)
  PROVE  IInv'
<1> USE DEF IInv, mainVars
<1>1. TypeOK'
  <2>1. CASE Interrupt(t)
    BY <2>1, ShutdownAssumption DEF TypeOK, Interrupt
  <2>2. CASE HandlerLocks(t) \/ set_termination_signal(t)
    BY <2>2 DEF TypeOK, HandlerLocks, set_termination_signal, Lock, Unlock
  <2> QED
    BY <2>1, <2>2
<1>2. UNCHANGED <<mainVars, pc>>
  BY DEF Interrupt, HandlerLocks, set_termination_signal
<1> QED
  BY <1>1, <1>2 DEF JoinInv

\* The steps of a thread.
LEMMA ThreadInv ==
  ASSUME IInv, NEW t \in Threads, Thread(t) \/ (t \in Servers /\ PeerSpeaks(t))
  PROVE  IInv'
<1> USE DEF IInv, Goto, signalVars, Lock, Unlock
<1>1. t # Main /\ t \in All
  BY ShutdownAssumption DEF All
<1>2. UNCHANGED mainVars
  BY DEF Thread, Ask, AnswerThread, Turn, EndInTurn, Leave, receive_CONNECT,
         get_next_session_id, Connected, send_CONNECT_SERVER, PeerSpeaks
<1>3. /\ UNCHANGED <<termination_signal, signals, handler>>
      /\ up' \in BOOLEAN
      /\ termination_signal_mutex' \in {termination_signal_mutex, t, Free}
      /\ \/ t \in Clients /\ connected' = [connected EXCEPT ![t] = TRUE]
         \/ UNCHANGED connected
  BY <1>1 DEF Thread, Ask, AnswerThread, Turn, EndInTurn, Leave, receive_CONNECT,
         get_next_session_id, Connected, send_CONNECT_SERVER, PeerSpeaks, TypeOK
<1>4. /\ pc[t] \notin {"none", "done"}
      /\ \E to \in {"wait", "turn", "number", "numbered", "ask", "asked", "leave", "done"} :
           pc' = [pc EXCEPT ![t] = to]
  BY <1>1 DEF Thread, Ask, AnswerThread, Turn, EndInTurn, Leave, receive_CONNECT,
         get_next_session_id, Connected, send_CONNECT_SERVER, PeerSpeaks
<1>5. TypeOK'
  BY <1>1, <1>2, <1>3, <1>4 DEF TypeOK, mainVars
<1>6. JoinInv'
  BY <1>2, <1>4, ThreadGoesOn
<1> QED
  BY <1>5, <1>6

\* Main starts a thread and puts it into its list.
LEMMA AcceptInv ==
  ASSUME IInv, NEW t \in Threads, NEW from \in {"start", "accept", "servers"},
         NEW first \in {"connect", "turn", "wait"}, NEW to \in {"accept", "servers", "ask"},
         Accept(t, from, first, to)
  PROVE  IInv'
<1> USE DEF IInv, Accept, signalVars
<1>1. t # Main /\ Main \in All /\ t \in All /\ Threads \subseteq All
  BY ShutdownAssumption DEF All
<1>2. /\ threads_list' \in Seq(Threads)
      /\ Len(threads_list') = Len(threads_list) + 1
      /\ \A i \in 1..Len(threads_list) : threads_list'[i] = threads_list[i]
      /\ threads_list'[Len(threads_list) + 1] = t
      /\ Len(threads_list) \in Nat
  BY AppendProperties, LenProperties DEF TypeOK
<1>3. TypeOK'
  BY <1>1, <1>2 DEF TypeOK
<1>4. pc'[Main] = to /\ pc'[t] = first /\ \A u \in Threads \ {t} : pc'[u] = pc[u]
  BY <1>1, ShutdownAssumption DEF TypeOK
<1>5. ~deleted
  BY DEF JoinInv
<1>6. \A i \in 1..joined : pc'[threads_list'[i]] = "done"
  <2> TAKE i \in 1..joined
  <2>1. i \in 1..Len(threads_list) /\ threads_list[i] \in Threads
    BY <1>2, ElementOfSeq DEF TypeOK
  <2>2. pc[threads_list[i]] = "done"
    BY DEF JoinInv
  <2> QED
    BY <1>2, <1>4, <2>1, <2>2
<1>7. ASSUME NEW u \in Threads, pc'[u] # "none"
      PROVE  \E i \in 1..Len(threads_list') : threads_list'[i] = u
  BY <1>2, <1>4, <1>7 DEF JoinInv
<1> QED
  BY <1>3, <1>4, <1>5, <1>6, <1>7 DEF JoinInv

\* Main finds nobody to accept, or looks at the signal.
LEMMA MainLooksInv ==
  ASSUME IInv, AcceptNobody \/ Ask(Main) \/ AnswerMain
  PROVE  IInv'
<1> USE DEF IInv, Goto, signalVars, Lock, Unlock
<1>1. Main \in All
  BY DEF All
<1>2. UNCHANGED mainVars
  BY DEF AcceptNobody, Ask, AnswerMain
<1>3. /\ pc[Main] \notin {"exit", "done"}
      /\ \E to \in {"accept", "servers", "ask", "asked", "join"} : pc' = [pc EXCEPT ![Main] = to]
  BY DEF AcceptNobody, Ask, AnswerMain
<1>4. TypeOK'
  BY <1>1, <1>2, <1>3 DEF TypeOK, mainVars, AcceptNobody, Ask, AnswerMain
<1>5. JoinInv'
  BY <1>2, <1>3, MainGoesOn
<1> QED
  BY <1>4, <1>5

\* Main joins the next thread of the list.
LEMMA pthread_joinInv ==
  ASSUME IInv, pthread_join
  PROVE  IInv'
<1> USE DEF IInv, Goto, pthread_join, signalVars, GoOn, Ended
<1>1. /\ joined' = joined + 1 /\ joined + 1 \in 0..Len(threads_list)
      /\ pc' = pc /\ Len(threads_list) \in Nat
  BY LenProperties DEF TypeOK
<1>2. TypeOK'
  BY <1>1 DEF TypeOK
<1>3. \A i \in 1..(joined + 1) : pc[threads_list[i]] = "done"
  BY <1>1 DEF JoinInv, TypeOK
<1> QED
  BY <1>1, <1>2, <1>3 DEF JoinInv

\* Main frees rows and pointers, and ends.
LEMMA EndInv ==
  ASSUME IInv, deleteRows \/ Exit
  PROVE  IInv'
<1> USE DEF IInv, Goto, signalVars, mainVars
<1>1. Main \in All /\ Main \notin Threads /\ Threads \subseteq All
  BY ShutdownAssumption DEF All
<1>2. TypeOK'
  BY <1>1 DEF TypeOK, deleteRows, Exit
<1>3. /\ UNCHANGED <<threads_list, joined>>
      /\ joined = Len(threads_list)
      /\ pc'[Main] \in {"exit", "done"}
      /\ \A u \in Threads : pc'[u] = pc[u]
  BY <1>1 DEF deleteRows, Exit, TypeOK, JoinInv
<1>4. \A i \in 1..joined : threads_list[i] \in Threads
  BY ElementOfSeq DEF TypeOK
<1> QED
  BY <1>2, <1>3, <1>4 DEF JoinInv

\* Every step keeps the invariant.
LEMMA NextIInv == IInv /\ [Next]_vars => IInv'
<1> SUFFICES ASSUME IInv, [Next]_vars PROVE IInv'
  OBVIOUS
<1>1. CASE UNCHANGED vars
  BY <1>1 DEF IInv, TypeOK, JoinInv, vars, signalVars, mainVars
<1>2. CASE MainThread
  <2>1. ASSUME NEW c \in Clients, AcceptClient(c) PROVE IInv'
    BY <2>1, AcceptInv DEF AcceptClient, Threads
  <2>2. ASSUME NEW p \in Peers, AcceptServer(p) PROVE IInv'
    BY <2>2, AcceptInv DEF AcceptServer, Threads, Servers
  <2>3. ASSUME ConnectToPrimary PROVE IInv'
    BY <2>3, AcceptInv DEF ConnectToPrimary, Threads, Servers
  <2> QED
    BY <1>2, <2>1, <2>2, <2>3, MainLooksInv, pthread_joinInv, EndInv DEF MainThread
<1>3. CASE (\E t \in Threads : Thread(t)) \/ (\E p \in Servers : PeerSpeaks(p))
  BY <1>3, ThreadInv DEF Threads
<1>4. CASE \E t \in All : Interrupt(t) \/ HandlerLocks(t) \/ set_termination_signal(t)
  BY <1>4, HandlerInv
<1> QED
  BY <1>1, <1>2, <1>3, <1>4 DEF Next

-----------------------------------------------------------------------------
(* The theorems *)

\* The list main joins is complete, and joined in order.
THEOREM ShutdownInvariant == Spec => []IInv
BY InitIInv, NextIInv, PTL DEF Spec

\* No thread is left when main frees the rows and the socket pointers.
THEOREM DeletedLast == Spec => []NoUseAfterDelete
<1>1. IInv => NoUseAfterDelete
  BY DEF IInv, JoinInv, NoUseAfterDelete
<1> QED
  BY <1>1, ShutdownInvariant, PTL

\* The list holds threads, and main never joins past its end.
THEOREM ShutdownTypes == Spec => []TypeOK
<1>1. IInv => TypeOK
  BY DEF IInv
<1> QED
  BY <1>1, ShutdownInvariant, PTL
=============================================================================
