------------------------------- MODULE RWLock -------------------------------
(***************************************************************************)
(* The readers/writer lock that every Row and the MasterTable carry: two   *)
(* pthread mutexes and a counter.  A reader brackets its section with      *)
(* shared_reader_lock / shared_reader_unlock; a writer locks               *)
(* read_write_mutex directly.  The two classes hold the same code          *)
(* (Row.cpp:127-143, MasterTable.cpp:183-199).                             *)
(*                                                                         *)
(* One action is one pthread call with the counter update that follows it  *)
(* while reader_mutex is held.  read_write_mutex may be unlocked by        *)
(* another reader than the one that locked it: glibc's default mutex,      *)
(* which the code uses, releases it whoever asks.                          *)
(***************************************************************************)
EXTENDS Naturals, FiniteSets

CONSTANTS
  Threads,  \* the threads of the server that use this lock
  Free      \* the owner of a mutex nobody holds

ASSUME ThreadsAssumption == IsFiniteSet(Threads) /\ Free \notin Threads

VARIABLES
  pc,                \* where each thread is in the lock's code
  reader_mutex,      \* owner of reader_mutex, or Free
  read_write_mutex,  \* the thread that last locked read_write_mutex, or Free
  reader_counter

vars == <<pc, reader_mutex, read_write_mutex, reader_counter>>

\* The points of the lock's code a thread can be at.
Points == {"idle", "wantRead", "entering", "entered", "reading",
           "exiting", "exited", "wantWrite", "writing"}

\* The points at which a thread has reader_mutex.
InReaderMutex == {"entering", "entered", "exiting", "exited"}

\* The points at which reader_counter counts the thread.
Counted == {"entering", "entered", "reading"}

CountedThreads == {t \in Threads : pc[t] \in Counted}

TypeOK ==
  /\ pc \in [Threads -> Points]
  /\ reader_mutex \in Threads \union {Free}
  /\ read_write_mutex \in Threads \union {Free}
  /\ reader_counter \in Nat

Init ==
  /\ pc = [t \in Threads |-> "idle"]
  /\ reader_mutex = Free
  /\ read_write_mutex = Free
  /\ reader_counter = 0

Goto(t, from, to) == pc[t] = from /\ pc' = [pc EXCEPT ![t] = to]

-----------------------------------------------------------------------------
\* A thread decides to read or to write (the callers: getActiveSessions,
\* getFollowers, connectUser, popNotification, ...).
StartRead(t) ==
  /\ Goto(t, "idle", "wantRead")
  /\ UNCHANGED <<reader_mutex, read_write_mutex, reader_counter>>

StartWrite(t) ==
  /\ Goto(t, "idle", "wantWrite")
  /\ UNCHANGED <<reader_mutex, read_write_mutex, reader_counter>>

\* A bug the lock could have: a reader counts itself before it owns
\* reader_mutex.
CountInUnlocked(t) ==
  /\ Goto(t, "wantRead", "entering")
  /\ reader_mutex' = t
  /\ reader_counter' = reader_counter + 1
  /\ UNCHANGED read_write_mutex

\* shared_reader_lock
CountIn(t) ==
  /\ Goto(t, "wantRead", "entering")
  /\ reader_mutex = Free
  /\ reader_mutex' = t
  /\ reader_counter' = reader_counter + 1
  /\ UNCHANGED read_write_mutex

\* Bug: every reader goes through, even while the first one still waits.
FirstReaderAlways(t) ==
  /\ Goto(t, "entering", "entered")
  /\ UNCHANGED <<reader_mutex, read_write_mutex, reader_counter>>

\* The first reader takes the lock for all readers, waiting for a writer to
\* leave while it holds reader_mutex; later readers go straight through.
FirstReaderLocks(t) ==
  /\ Goto(t, "entering", "entered")
  /\ \/ reader_counter = 1 /\ read_write_mutex = Free /\ read_write_mutex' = t
     \/ reader_counter # 1 /\ UNCHANGED read_write_mutex
  /\ UNCHANGED <<reader_mutex, reader_counter>>

EnterRead(t) ==
  /\ Goto(t, "entered", "reading")
  /\ reader_mutex' = Free
  /\ UNCHANGED <<read_write_mutex, reader_counter>>

\* shared_reader_unlock
CountOut(t) ==
  /\ Goto(t, "reading", "exiting")
  /\ reader_mutex = Free
  /\ reader_mutex' = t
  /\ reader_counter' = reader_counter - 1
  /\ UNCHANGED read_write_mutex

\* Bug: the last reader forgets to release the lock of all readers.
LastReaderKeeps(t) ==
  /\ Goto(t, "exiting", "exited")
  /\ UNCHANGED <<reader_mutex, read_write_mutex, reader_counter>>

LastReaderUnlocks(t) ==
  /\ Goto(t, "exiting", "exited")
  /\ \/ reader_counter = 0 /\ read_write_mutex' = Free
     \/ reader_counter # 0 /\ UNCHANGED read_write_mutex
  /\ UNCHANGED <<reader_mutex, reader_counter>>

LeaveRead(t) ==
  /\ Goto(t, "exited", "idle")
  /\ reader_mutex' = Free
  /\ UNCHANGED <<read_write_mutex, reader_counter>>

\* pthread_mutex_lock / unlock on read_write_mutex, around a write.
WriteLock(t) ==
  /\ Goto(t, "wantWrite", "writing")
  /\ read_write_mutex = Free
  /\ read_write_mutex' = t
  /\ UNCHANGED <<reader_mutex, reader_counter>>

WriteUnlock(t) ==
  /\ Goto(t, "writing", "idle")
  /\ read_write_mutex' = Free
  /\ UNCHANGED <<reader_mutex, reader_counter>>

-----------------------------------------------------------------------------
\* The steps a thread takes once it has asked for the lock.
Inside(t) ==
  \/ CountIn(t) \/ FirstReaderLocks(t) \/ EnterRead(t)
  \/ CountOut(t) \/ LastReaderUnlocks(t) \/ LeaveRead(t)
  \/ WriteLock(t) \/ WriteUnlock(t)

Next == \E t \in Threads : StartRead(t) \/ StartWrite(t) \/ Inside(t)

Spec == Init /\ [][Next]_vars

\* The scheduler runs every thread that can run; a mutex gives no order
\* among the threads that wait for it, so no strong fairness.
FairSpec == Spec /\ \A t \in Threads : WF_vars(Inside(t))

-----------------------------------------------------------------------------
\* No reader sees the row or the table while a writer changes it, and no two
\* writers change it at once.
MutualExclusion ==
  \A t, u \in Threads : t # u /\ pc[t] = "writing" => pc[u] \notin {"reading", "writing"}

\* The inductive strengthening of MutualExclusion.  The lock of all readers
\* is held from the moment the first reader has it until the last one gives
\* it back, and reader_counter is the number of readers in between.
ReadersHold == \E t \in Threads : pc[t] \in {"entered", "reading", "exiting"}

ReaderMutexInv ==
  \A t \in Threads : pc[t] \in InReaderMutex <=> reader_mutex = t

CounterInv == reader_counter = Cardinality(CountedThreads)

WriterInv ==
  /\ \A t \in Threads : pc[t] = "writing" => read_write_mutex = t
  /\ \A t \in Threads : pc[t] = "writing" => ~ ReadersHold
  /\ ReadersHold => read_write_mutex # Free

LockInv == TypeOK /\ ReaderMutexInv /\ CounterInv /\ WriterInv

\* The sections the lock protects, as the abstract lock sees them.
Abstract == INSTANCE AbstractRWLock WITH
              readers <- {t \in Threads : pc[t] = "reading"},
              writers <- {t \in Threads : pc[t] = "writing"}

ImplementsAbstract == Abstract!ASpec

\* The lock never jams: when every thread of the server is waiting for it or
\* inside it, one of them gets through and leaves.
NeverJammed == (\A t \in Threads : pc[t] # "idle") ~> (\E t \in Threads : pc[t] = "idle")
=============================================================================
