---------------------------- MODULE RWLockProof ----------------------------
(***************************************************************************)
(* Proofs about the readers/writer lock, for any finite set of threads.    *)
(* LockInv is inductive; mutual exclusion and the refinement of the        *)
(* abstract lock follow from it.                                           *)
(***************************************************************************)
EXTENDS RWLock, FiniteSetTheorems, TLAPS

\* The readers can be counted.
LEMMA CountedFinite == IsFiniteSet(CountedThreads)
BY ThreadsAssumption, FS_Subset DEF CountedThreads

\* The counter is 0 when no reader is counted, and 1 when only one is.
LEMMA CountedByCounter ==
  ASSUME CounterInv
  PROVE  /\ reader_counter = 0 <=> CountedThreads = {}
         /\ \A t \in CountedThreads : reader_counter = 1 <=> CountedThreads = {t}
<1>1. reader_counter = 0 <=> CountedThreads = {}
  BY CountedFinite, FS_EmptySet DEF CounterInv
<1>2. ASSUME NEW t \in CountedThreads
      PROVE  reader_counter = 1 <=> CountedThreads = {t}
  <2>1. /\ IsFiniteSet(CountedThreads \ {t})
        /\ Cardinality(CountedThreads \ {t}) = Cardinality(CountedThreads) - 1
    BY <1>2, CountedFinite, FS_RemoveElement
  <2>2. Cardinality(CountedThreads \ {t}) = 0 <=> CountedThreads \ {t} = {}
    BY <2>1, FS_EmptySet
  <2>3. Cardinality(CountedThreads) \in Nat
    BY CountedFinite, FS_CardinalityType
  <2>4. reader_counter = 1 <=> CountedThreads \ {t} = {}
    BY <2>1, <2>2, <2>3 DEF CounterInv
  <2> QED
    BY <1>2, <2>4
<1> QED
  BY <1>1, <1>2

\* A step that neither counts a thread in nor out keeps the counter right.
LEMMA CounterUnchanged ==
  ASSUME CounterInv, reader_counter' = reader_counter,
         CountedThreads' = CountedThreads
  PROVE  CounterInv'
BY DEF CounterInv

\* The lock of a new Row or MasterTable is free.
LEMMA InitLockInv == Init => LockInv
<1> SUFFICES ASSUME Init PROVE LockInv
  OBVIOUS
<1> USE DEF Init
<1>1. TypeOK
  BY DEF TypeOK, Points
<1>2. ReaderMutexInv
  BY ThreadsAssumption DEF ReaderMutexInv, InReaderMutex
<1>3. CounterInv
  <2>1. CountedThreads = {}
    BY DEF CountedThreads, Counted
  <2> QED
    BY <2>1, FS_EmptySet DEF CounterInv
<1>4. WriterInv
  BY DEF WriterInv, ReadersHold
<1> QED
  BY <1>1, <1>2, <1>3, <1>4 DEF LockInv

\* No call on a mutex, and no step between two calls, breaks it.
LEMMA NextLockInv == LockInv /\ [Next]_vars => LockInv'
<1> SUFFICES ASSUME LockInv, [Next]_vars PROVE LockInv'
  OBVIOUS
<1> USE DEF LockInv, TypeOK, Points, Goto
<1>1. ASSUME NEW t \in Threads, StartRead(t) \/ StartWrite(t)
      PROVE  LockInv'
  <2>1. TypeOK' /\ ReaderMutexInv' /\ WriterInv'
    BY <1>1 DEF StartRead, StartWrite, ReaderMutexInv, InReaderMutex, WriterInv, ReadersHold
  <2>2. CountedThreads' = CountedThreads
    BY <1>1 DEF StartRead, StartWrite, CountedThreads, Counted
  <2> QED
    BY <1>1, <2>1, <2>2, CounterUnchanged DEF StartRead, StartWrite
<1>2. ASSUME NEW t \in Threads, CountIn(t)
      PROVE  LockInv'
  <2>1. TypeOK' /\ ReaderMutexInv' /\ WriterInv'
    BY <1>2, ThreadsAssumption DEF CountIn, ReaderMutexInv, InReaderMutex, WriterInv, ReadersHold
  <2>2. CountedThreads' = CountedThreads \union {t} /\ t \notin CountedThreads
    BY <1>2 DEF CountIn, CountedThreads, Counted
  <2>3. CounterInv'
    BY <1>2, <2>2, CountedFinite, FS_AddElement DEF CountIn, CounterInv
  <2> QED
    BY <2>1, <2>3
<1>3. ASSUME NEW t \in Threads, FirstReaderLocks(t)
      PROVE  LockInv'
  <2>1. t \in CountedThreads
    BY <1>3 DEF FirstReaderLocks, CountedThreads, Counted
  <2>2. CountedThreads' = CountedThreads
    BY <1>3 DEF FirstReaderLocks, CountedThreads, Counted
  <2>3. CounterInv'
    BY <1>3, <2>2, CounterUnchanged DEF FirstReaderLocks
  <2>4. TypeOK' /\ ReaderMutexInv'
    BY <1>3 DEF FirstReaderLocks, ReaderMutexInv, InReaderMutex
  <2>5. WriterInv'
    <3>1. CASE reader_counter = 1
      \* the first reader: no thread writes, since read_write_mutex was free
      BY <1>3, <3>1, ThreadsAssumption DEF FirstReaderLocks, WriterInv, ReadersHold
    <3>2. CASE reader_counter # 1
      \* a later reader: another counted thread reads, and holds for both
      <4>1. PICK u \in CountedThreads : u # t
        BY <2>1, <3>2, CountedByCounter
      <4>2. u \in Threads /\ pc[u] = "reading"
        BY <1>3, <4>1 DEF FirstReaderLocks, CountedThreads, Counted, ReaderMutexInv, InReaderMutex
      <4>3. ReadersHold
        BY <4>2 DEF ReadersHold
      <4> QED
        BY <1>3, <3>2, <4>3 DEF FirstReaderLocks, WriterInv, ReadersHold
    <3> QED
      BY <3>1, <3>2
  <2> QED
    BY <2>3, <2>4, <2>5
<1>4. ASSUME NEW t \in Threads, EnterRead(t)
      PROVE  LockInv'
  <2>1. TypeOK' /\ ReaderMutexInv' /\ WriterInv'
    BY <1>4, ThreadsAssumption DEF EnterRead, ReaderMutexInv, InReaderMutex, WriterInv, ReadersHold
  <2>2. CountedThreads' = CountedThreads
    BY <1>4 DEF EnterRead, CountedThreads, Counted
  <2> QED
    BY <1>4, <2>1, <2>2, CounterUnchanged DEF EnterRead
<1>5. ASSUME NEW t \in Threads, CountOut(t)
      PROVE  LockInv'
  <2>1. CountedThreads' = CountedThreads \ {t} /\ t \in CountedThreads
    BY <1>5 DEF CountOut, CountedThreads, Counted
  <2>2. CounterInv'
    BY <1>5, <2>1, CountedFinite, FS_RemoveElement DEF CountOut, CounterInv
  <2>3. reader_counter' \in Nat
    BY <2>1, <2>2, CountedFinite, FS_RemoveElement, FS_CardinalityType DEF CounterInv
  <2>4. TypeOK' /\ ReaderMutexInv' /\ WriterInv'
    BY <1>5, <2>3, ThreadsAssumption DEF CountOut, ReaderMutexInv, InReaderMutex, WriterInv, ReadersHold
  <2> QED
    BY <2>2, <2>4
<1>6. ASSUME NEW t \in Threads, LastReaderUnlocks(t)
      PROVE  LockInv'
  <2>1. CountedThreads' = CountedThreads
    BY <1>6 DEF LastReaderUnlocks, CountedThreads, Counted
  <2>2. CounterInv'
    BY <1>6, <2>1, CounterUnchanged DEF LastReaderUnlocks
  <2>3. TypeOK' /\ ReaderMutexInv'
    BY <1>6 DEF LastReaderUnlocks, ReaderMutexInv, InReaderMutex
  <2>4. \A w \in Threads : pc[w] # "writing"
    BY <1>6 DEF LastReaderUnlocks, WriterInv, ReadersHold
  <2>5. WriterInv'
    <3>1. CASE reader_counter = 0
      \* the last reader: no reader is left that the lock is held for
      <4>1. \A u \in Threads : pc[u] \notin Counted
        BY <3>1, CountedByCounter DEF CountedThreads
      <4>2. \A u \in Threads : u # t => pc[u] # "exiting"
        BY <1>6 DEF LastReaderUnlocks, ReaderMutexInv, InReaderMutex
      <4>3. ~ ReadersHold'
        BY <1>6, <4>1, <4>2 DEF LastReaderUnlocks, ReadersHold, Counted
      <4> QED
        BY <1>6, <2>4, <4>3 DEF LastReaderUnlocks, WriterInv
    <3>2. CASE reader_counter # 0
      \* a reader is still counted: it holds the lock on, or waits for it
      BY <1>6, <2>4, <3>2 DEF LastReaderUnlocks, WriterInv, ReadersHold
    <3> QED
      BY <3>1, <3>2
  <2> QED
    BY <2>2, <2>3, <2>5
<1>7. ASSUME NEW t \in Threads, LeaveRead(t)
      PROVE  LockInv'
  <2>1. TypeOK' /\ ReaderMutexInv' /\ WriterInv'
    BY <1>7, ThreadsAssumption DEF LeaveRead, ReaderMutexInv, InReaderMutex, WriterInv, ReadersHold
  <2>2. CountedThreads' = CountedThreads
    BY <1>7 DEF LeaveRead, CountedThreads, Counted
  <2> QED
    BY <1>7, <2>1, <2>2, CounterUnchanged DEF LeaveRead
<1>8. ASSUME NEW t \in Threads, WriteLock(t)
      PROVE  LockInv'
  <2>1. TypeOK' /\ ReaderMutexInv' /\ WriterInv'
    BY <1>8, ThreadsAssumption DEF WriteLock, ReaderMutexInv, InReaderMutex, WriterInv, ReadersHold
  <2>2. CountedThreads' = CountedThreads
    BY <1>8 DEF WriteLock, CountedThreads, Counted
  <2> QED
    BY <1>8, <2>1, <2>2, CounterUnchanged DEF WriteLock
<1>9. ASSUME NEW t \in Threads, WriteUnlock(t)
      PROVE  LockInv'
  <2>1. TypeOK' /\ ReaderMutexInv' /\ WriterInv'
    BY <1>9, ThreadsAssumption DEF WriteUnlock, ReaderMutexInv, InReaderMutex, WriterInv, ReadersHold
  <2>2. CountedThreads' = CountedThreads
    BY <1>9 DEF WriteUnlock, CountedThreads, Counted
  <2> QED
    BY <1>9, <2>1, <2>2, CounterUnchanged DEF WriteUnlock
<1>10. CASE UNCHANGED vars
  <2>1. TypeOK' /\ ReaderMutexInv' /\ WriterInv'
    BY <1>10 DEF vars, ReaderMutexInv, WriterInv, ReadersHold
  <2>2. CountedThreads' = CountedThreads
    BY <1>10 DEF vars, CountedThreads
  <2> QED
    BY <1>10, <2>1, <2>2, CounterUnchanged DEF vars
<1> QED
  BY <1>1, <1>2, <1>3, <1>4, <1>5, <1>6, <1>7, <1>8, <1>9, <1>10 DEF Next, Inside

\* Type correctness and the strengthened invariant, in every reachable state.
THEOREM LockInvariant == Spec => []LockInv
<1>1. Init => LockInv
  BY InitLockInv
<1>2. LockInv /\ [Next]_vars => LockInv'
  BY NextLockInv
<1> QED
  BY <1>1, <1>2, PTL DEF Spec

\* A row or the table is never read while it is written, nor written by two
\* threads at once, however many threads the server runs.
THEOREM MutualExclusionHolds == Spec => []MutualExclusion
<1>1. LockInv => MutualExclusion
  BY DEF LockInv, WriterInv, ReadersHold, MutualExclusion
<1> QED
  BY <1>1, LockInvariant, PTL

\* The lock implements the abstract readers/writer lock.
THEOREM Refinement == Spec => ImplementsAbstract
<1> USE DEF Abstract!AInit, Abstract!ANext, Abstract!avars
<1>1. Init => Abstract!AInit
  BY DEF Init
<1>2. LockInv /\ LockInv' /\ [Next]_vars => [Abstract!ANext]_(Abstract!avars)
  <2> SUFFICES ASSUME LockInv, LockInv', [Next]_vars
               PROVE  [Abstract!ANext]_(Abstract!avars)
    OBVIOUS
  <2> USE DEF LockInv, TypeOK, Points, Goto
  <2>1. ASSUME NEW t \in Threads, EnterRead(t)
        PROVE  Abstract!BeginRead(t)
    BY <2>1 DEF EnterRead, WriterInv, ReadersHold, Abstract!BeginRead
  <2>2. ASSUME NEW t \in Threads, CountOut(t)
        PROVE  Abstract!EndRead(t)
    BY <2>2 DEF CountOut, Abstract!EndRead
  <2>3. ASSUME NEW t \in Threads, WriteLock(t)
        PROVE  Abstract!BeginWrite(t)
    <3>1. \A u \in Threads : pc[u] \notin {"reading", "writing"}
      BY <2>3, ThreadsAssumption DEF WriteLock, WriterInv, ReadersHold
    <3>2. \A u \in Threads : pc'[u] = IF u = t THEN "writing" ELSE pc[u]
      BY <2>3 DEF WriteLock
    <3> QED
      BY <3>1, <3>2 DEF Abstract!BeginWrite
  <2>4. ASSUME NEW t \in Threads, WriteUnlock(t)
        PROVE  Abstract!EndWrite(t)
    BY <2>4 DEF WriteUnlock, Abstract!EndWrite
  <2>5. ASSUME NEW t \in Threads,
               \/ StartRead(t) \/ StartWrite(t) \/ CountIn(t)
               \/ FirstReaderLocks(t) \/ LastReaderUnlocks(t) \/ LeaveRead(t)
        PROVE  UNCHANGED Abstract!avars
    BY <2>5 DEF StartRead, StartWrite, CountIn, FirstReaderLocks, LastReaderUnlocks, LeaveRead
  <2>6. CASE UNCHANGED vars
    BY <2>6 DEF vars
  <2> QED
    BY <2>1, <2>2, <2>3, <2>4, <2>5, <2>6 DEF Next, Inside
<1> QED
  BY <1>1, <1>2, LockInvariant, PTL DEF Spec, ImplementsAbstract, Abstract!ASpec
=============================================================================
