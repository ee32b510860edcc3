-------------------------- MODULE ServerChangeProof --------------------------
(***************************************************************************)
(* Whatever servers announce themselves, one communication thread has the  *)
(* user's commands, and only two announcements at once leave it with the   *)
(* address of one server and the port of another.                          *)
(***************************************************************************)
EXTENDS ServerChange, FiniteSetTheorems, TLAPS

-----------------------------------------------------------------------------
(* The invariant *)

\* Threads come one after the other: those before the latest have ended, those
\* after it have not been started.
OrderInv ==
  \A c \in Comms :
    /\ c < communication_tid => cpc[c] = "done"
    /\ c > communication_tid => cpc[c] = "none"

Told == {a \in Announcers : apc[a] = "told"}

\* A thread is started for a signal, and each announcer signals once.
CountInv ==
  /\ communication_tid <= Cardinality(Told) + 1
  /\ server_change_signal => communication_tid <= Cardinality(Told)
  /\ \A c \in Comms : cpc[c] = "change" => server_change_signal

Single == \A a, b \in Announcers : Changed(a) /\ Changed(b) => a = b

\* As long as one server alone has announced itself the parameters are its own
\* when it signals, and nobody changes them later.
ParamsInv ==
  Single =>
    /\ \A a \in Announcers :
         /\ Changed(a) => server_ip_address = a
         /\ apc[a] \in {"signal", "told"} => port = a
    /\ server_change_signal => Told # {}
    /\ \A c \in Comms \ {1} :
         /\ cpc[c] # "none" => Told # {}
         /\ cpc[c] = "setup" => copied[c] = port
         /\ cpc[c] \in {"await", "loop"} => server[c][1] = server[c][2]

IInv == TypeOK /\ OrderInv /\ CountInv /\ ParamsInv

-----------------------------------------------------------------------------
(* Counting *)

\* There are as many threads to come as announcers, and one more.
LEMMA CommsFacts ==
  /\ Cardinality(Announcers) \in Nat
  /\ Comms \subseteq Nat \ {0} /\ 1 \in Comms
BY ChangeAssumption, FS_CardinalityType DEF Comms

\* Nobody signals who is not an announcer.
LEMMA ToldCount ==
  /\ IsFiniteSet(Told) /\ Cardinality(Told) \in Nat
  /\ Cardinality(Told) <= Cardinality(Announcers)
BY ChangeAssumption, FS_Subset, FS_CardinalityType DEF Told

\* One more that has signalled is one more in the count.
LEMMA ToldGrows ==
  ASSUME NEW a \in Announcers, TypeOK,
         apc[a] # "told", apc' = [apc EXCEPT ![a] = "told"]
  PROVE  Cardinality(Told') = Cardinality(Told) + 1
<1>1. Told' = Told \union {a} /\ a \notin Told
  BY DEF Told, TypeOK
<1> QED
  BY <1>1, ToldCount, FS_AddElement

-----------------------------------------------------------------------------
(* The steps *)

\* At the start there is one thread and no announcement.
LEMMA InitIInv == Init => IInv
<1> SUFFICES ASSUME Init PROVE IInv
  OBVIOUS
<1> USE CommsFacts
<1>1. TypeOK
  BY DEF Init, TypeOK, Servers
<1>2. OrderInv
  BY DEF Init, OrderInv
<1>3. CountInv
  BY ToldCount DEF Init, CountInv
<1>4. ParamsInv
  BY DEF Init, ParamsInv, Changed
<1> QED
  BY <1>1, <1>2, <1>3, <1>4 DEF IInv

\* Steps of main and the user change nothing the invariant is about.
LEMMA MainInv ==
  ASSUME IInv, pthread_join \/ Exit \/ set_termination_signal \/ UNCHANGED vars
  PROVE  IInv'
<1> USE DEF IInv
<1>1. UNCHANGED <<server_change_signal, params, threads, apc>>
  BY DEF pthread_join, Exit, set_termination_signal, vars, signals
<1>2. TypeOK'
  BY DEF TypeOK, pthread_join, Exit, set_termination_signal, vars, signals, params, threads
<1>3. Told' = Told /\ (OrderInv /\ CountInv)'
  BY <1>1 DEF Told, OrderInv, CountInv, threads
<1>4. ParamsInv'
  BY <1>1, <1>3 DEF ParamsInv, Single, Changed, params, threads
<1> QED
  BY <1>2, <1>3, <1>4

\* A communication thread that connects, leaves or sees the change.
LEMMA CommunicationInv ==
  ASSUME IInv, NEW c \in Comms,
         communication_thread(c) \/ setup_socket(c) \/ Connected(c) \/ LeaveLoop(c) \/ DetectChange(c)
  PROVE  IInv'
<1> USE CommsFacts DEF IInv, threads, params, signals, Goto
<1>1. /\ UNCHANGED <<server_change_signal, params, communication_tid, apc, joins>>
      /\ alive /\ alive' = alive /\ termination_signal' = termination_signal
      /\ cpc[c] \notin {"none", "done", "change"}
  BY DEF communication_thread, setup_socket, Connected, LeaveLoop, DetectChange
<1>2. PICK pc \in {"setup", "await", "loop", "done", "change"} :
        /\ cpc' = [cpc EXCEPT ![c] = pc]
        /\ pc = "change" => server_change_signal
  BY DEF communication_thread, setup_socket, Connected, LeaveLoop, DetectChange, SeesChange
<1>3. TypeOK'
  <2>1. copied' \in [Comms -> Servers] /\ server' \in [Comms -> Servers \X Servers]
    BY DEF TypeOK, communication_thread, setup_socket, Connected, LeaveLoop, DetectChange
  <2> QED
    BY <1>1, <1>2, <2>1 DEF TypeOK
<1>4. c = communication_tid
  BY <1>1 DEF OrderInv, TypeOK
<1>5. OrderInv'
  BY <1>1, <1>2, <1>4 DEF OrderInv, TypeOK
<1>6. Told' = Told /\ CountInv'
  BY <1>1, <1>2 DEF Told, CountInv, TypeOK
<1>7. ParamsInv'
  <2> SUFFICES ASSUME Single', NEW d \in Comms \ {1}
      PROVE  /\ cpc'[d] # "none" => Told # {}
             /\ cpc'[d] = "setup" => copied'[d] = port
             /\ cpc'[d] \in {"await", "loop"} => server'[d][1] = server'[d][2]
    BY <1>1, <1>6 DEF ParamsInv, Single, Changed
  <2>1. Single
    BY <1>1 DEF Single, Changed
  <2>2. CASE d # c
    <3>1. cpc'[d] = cpc[d] /\ copied'[d] = copied[d] /\ server'[d] = server[d]
      BY <1>2, <2>2 DEF TypeOK, communication_thread, setup_socket, Connected, LeaveLoop, DetectChange
    <3> QED
      BY <2>1, <3>1 DEF ParamsInv
  <2>3. CASE d = c
    <3>1. Told # {}
      BY <1>1, <2>1, <2>3 DEF ParamsInv
    <3>2. PICK a \in Announcers : server_ip_address = a /\ port = a
      BY <2>1, <3>1 DEF ParamsInv, Told, Changed
    <3>3. CASE communication_thread(c)
      BY <2>3, <3>1, <3>3 DEF communication_thread, TypeOK
    <3>4. CASE setup_socket(c)
      BY <2>1, <2>3, <3>1, <3>2, <3>4 DEF setup_socket, ParamsInv, TypeOK
    <3>5. CASE Connected(c) \/ LeaveLoop(c) \/ DetectChange(c)
      BY <2>1, <2>3, <3>1, <3>5 DEF Connected, LeaveLoop, DetectChange, ParamsInv, TypeOK
    <3> QED
      BY <3>3, <3>4, <3>5
  <2> QED
    BY <2>2, <2>3
<1> QED
  BY <1>3, <1>5, <1>6, <1>7

\* The latest thread hands over to the next and ends.
LEMMA HandOverInv ==
  ASSUME IInv, NEW c \in Comms, HandOver(c)
  PROVE  IInv'
<1> USE CommsFacts, ToldCount DEF IInv, threads, params, signals, HandOver, NextThread, Ends
<1>1. c = communication_tid /\ server_change_signal
  BY DEF OrderInv, CountInv, TypeOK
<1>2. c + 1 \in Comms /\ c + 1 <= Cardinality(Told) + 1
  BY <1>1 DEF CountInv, Comms
<1>3. TypeOK'
  BY <1>2 DEF TypeOK
<1>4. OrderInv'
  BY <1>1, <1>2 DEF OrderInv, TypeOK
<1>5. Told' = Told
  BY DEF Told
<1>6. CountInv'
  <2>1. \A d \in Comms : cpc'[d] # "change"
    BY <1>1, <1>2 DEF OrderInv, TypeOK
  <2> QED
    BY <1>1, <1>2, <1>5, <2>1 DEF CountInv
<1>7. ParamsInv'
  <2> SUFFICES ASSUME Single' PROVE ParamsInv'
    BY DEF ParamsInv
  <2>1. Single /\ Told # {}
    BY <1>1 DEF Single, Changed, ParamsInv
  <2>2. \A d \in Comms : cpc'[d] \in {"await", "loop", "setup"} => cpc'[d] = cpc[d]
    BY <1>2 DEF TypeOK
  <2> QED
    BY <1>5, <2>1, <2>2 DEF ParamsInv, Changed
<1> QED
  BY <1>3, <1>4, <1>6, <1>7

\* An announcement that has not been parsed yet, or never is.
LEMMA AcceptInv ==
  ASSUME IInv, NEW a \in Announcers, Accept(a) \/ AlreadyReceived(a) \/ StopReading(a)
  PROVE  IInv'
<1> USE DEF IInv, threads, params, signals, Step
<1>1. /\ UNCHANGED <<alive, signals, params, joins, threads>>
      /\ ~Changed(a)
  BY DEF Accept, AlreadyReceived, StopReading, Reading, Changed
<1>2. PICK pc \in {"recv", "acked", "done"} : apc' = [apc EXCEPT ![a] = pc]
  BY DEF Accept, AlreadyReceived, StopReading
<1>3. TypeOK'
  BY <1>1, <1>2 DEF TypeOK
<1>4. \A b \in Announcers : Changed(b)' = Changed(b) /\ (Changed(b) => apc'[b] = apc[b])
  BY <1>1, <1>2 DEF Changed, TypeOK
<1>5. Told' = Told /\ (OrderInv /\ CountInv)'
  BY <1>1, <1>2 DEF Told, OrderInv, CountInv, TypeOK, Changed
<1>6. ParamsInv'
  <2> SUFFICES ASSUME Single' PROVE ParamsInv'
    BY DEF ParamsInv
  <2>1. Single
    BY <1>4 DEF Single
  <2>2. \A b \in Announcers : apc'[b] \in {"signal", "told"} => apc[b] = apc'[b]
    BY <1>2 DEF TypeOK
  <2> QED
    BY <1>1, <1>4, <1>5, <2>1, <2>2 DEF ParamsInv
<1> QED
  BY <1>3, <1>5, <1>6

\* While an announcer that is alone is being parsed nobody has been told, and
\* the first communication thread is the only one.
LEMMA AloneUntold ==
  ASSUME IInv, Single', NEW a \in Announcers, apc[a] # "told", Changed(a)',
         \A b \in Announcers \ {a} : apc'[b] = apc[b]
  PROVE  Told = {}
BY DEF Told, Single, Changed, IInv

\* The announcement is parsed: the address, then the port.
LEMMA ParseInv ==
  ASSUME IInv, NEW a \in Announcers, ParseAddress(a) \/ ParsePort(a)
  PROVE  IInv'
<1> USE DEF IInv, threads, params, signals, Step
<1>1. /\ UNCHANGED <<alive, signals, joins, threads>>
      /\ apc[a] \in Reading \union {"port"} /\ Changed(a)'
  BY DEF ParseAddress, ParsePort, Changed, TypeOK
<1>2. PICK pc \in {"port", "signal"} : apc' = [apc EXCEPT ![a] = pc]
  BY DEF ParseAddress, ParsePort
<1>3. TypeOK'
  BY <1>1, <1>2 DEF TypeOK, Servers, ParseAddress, ParsePort
<1>4. Told' = Told /\ (OrderInv /\ CountInv)'
  BY <1>1, <1>2 DEF Told, Reading, OrderInv, CountInv, TypeOK
<1>5. ParamsInv'
  <2> SUFFICES ASSUME Single' PROVE ParamsInv'
    BY DEF ParamsInv
  <2>1. Told = {}
    BY <1>1, <1>2, AloneUntold DEF Reading, TypeOK
  <2>2. Single
    BY <1>1, <1>2 DEF Single, Changed, Reading, TypeOK
  <2>3. \A b \in Announcers \ {a} : ~Changed(b)'
    BY <1>1 DEF Single
  <2>4. Changed(a)' => server_ip_address' = a
    BY <2>2 DEF ParseAddress, ParsePort, ParamsInv, Changed
  <2>5. apc'[a] \in {"signal", "told"} => port' = a
    BY <1>2 DEF ParseAddress, ParsePort, TypeOK
  <2>6. /\ server_change_signal' => Told' # {}
        /\ \A c \in Comms \ {1} : cpc'[c] = "none"
    BY <1>1, <1>4, <2>1, <2>2 DEF ParamsInv
  <2> QED
    BY <2>3, <2>4, <2>5, <2>6 DEF ParamsInv, Changed
<1> QED
  BY <1>3, <1>4, <1>5

\* The change is signalled.
LEMMA SignalInv ==
  ASSUME IInv, NEW a \in Announcers, Signal(a)
  PROVE  IInv'
<1> USE DEF IInv, threads, params, signals, Step, Signal, Parsed
<1>1. TypeOK'
  BY DEF TypeOK
<1>2. a \in Told' /\ Told \subseteq Told' /\ Cardinality(Told') = Cardinality(Told) + 1
  <2>1. apc[a] # "told" /\ apc' = [apc EXCEPT ![a] = "told"]
    OBVIOUS
  <2> QED
    BY <2>1, ToldGrows DEF Told, TypeOK
<1>3. OrderInv' /\ CountInv'
  BY <1>2, CommsFacts, ToldCount DEF OrderInv, CountInv, TypeOK
<1>4. ParamsInv'
  <2> SUFFICES ASSUME Single' PROVE ParamsInv'
    BY DEF ParamsInv
  <2>1. \A b \in Announcers :
          /\ Changed(b)' <=> Changed(b)
          /\ apc'[b] \in {"signal", "told"} <=> apc[b] \in {"signal", "told"}
    <3>1. \A b \in Announcers \ {a} : apc'[b] = apc[b]
      BY DEF TypeOK
    <3>2. apc'[a] = "told" /\ apc[a] = "signal"
      BY DEF TypeOK
    <3> QED
      BY <3>1, <3>2 DEF Changed
  <2>2. Single
    BY <2>1 DEF Single
  <2> QED
    BY <1>2, <2>1, <2>2 DEF ParamsInv
<1> QED
  BY <1>1, <1>3, <1>4

-----------------------------------------------------------------------------
(* The theorems *)

\* Every step keeps the invariant.
LEMMA NextIInv == IInv /\ [Next]_vars => IInv'
<1> SUFFICES ASSUME IInv, [Next]_vars PROVE IInv'
  OBVIOUS
<1>1. CASE pthread_join \/ Exit \/ set_termination_signal \/ UNCHANGED vars
  BY <1>1, MainInv
<1>2. CASE \E c \in Comms : Communication(c) \/ Connected(c)
  BY <1>2, CommunicationInv, HandOverInv DEF Communication
<1>3. CASE \E a \in Announcers : Accept(a) \/ AlreadyReceived(a) \/ StopReading(a) \/ ParseAddress(a) \/ Parsing(a)
  BY <1>3, AcceptInv, ParseInv, SignalInv DEF Parsing
<1> QED
  BY <1>1, <1>2, <1>3 DEF Next

\* The invariant of the change of server.
THEOREM ChangeInvariant == Spec => []IInv
BY InitIInv, NextIInv, PTL DEF Spec

\* One server at a time gets the commands, however many announce themselves.
THEOREM OneCommunicationHolds == Spec => []OneCommunication
<1>1. IInv => OneCommunication
  BY CommsFacts DEF IInv, OrderInv, TypeOK, OneCommunication
<1> QED
  BY <1>1, ChangeInvariant, PTL

\* A new thread connects to a server that exists, unless two announced
\* themselves.
THEOREM TornNeedsTwo == Spec => []TornOnlyByTwo
<1>1. IInv => TornOnlyByTwo
  BY DEF IInv, ParamsInv, Single, TornOnlyByTwo
<1> QED
  BY <1>1, ChangeInvariant, PTL

\* No thread number exceeds the number of announcers by more than one.
THEOREM ChangeTypes == Spec => []TypeOK
<1>1. IInv => TypeOK
  BY DEF IInv
<1> QED
  BY <1>1, ChangeInvariant, PTL
=============================================================================
