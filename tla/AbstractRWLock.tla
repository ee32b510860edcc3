--------------------------- MODULE AbstractRWLock ---------------------------
(***************************************************************************)
(* What a readers/writer lock promises its callers: at any time either     *)
(* any number of threads read or one thread writes.  RWLock, the lock of   *)
(* Row and MasterTable, is shown to implement it.                          *)
(***************************************************************************)

CONSTANT Threads

VARIABLES
  readers,  \* the threads inside a shared section
  writers   \* the threads inside an exclusive section

avars == <<readers, writers>>

AInit == readers = {} /\ writers = {}

BeginRead(t) ==
  /\ t \notin readers \union writers
  /\ writers = {}
  /\ readers' = readers \union {t}
  /\ UNCHANGED writers

EndRead(t) ==
  /\ t \in readers
  /\ readers' = readers \ {t}
  /\ UNCHANGED writers

BeginWrite(t) ==
  /\ readers = {} /\ writers = {}
  /\ writers' = {t}
  /\ UNCHANGED readers

EndWrite(t) ==
  /\ t \in writers
  /\ writers' = writers \ {t}
  /\ UNCHANGED readers

ANext == \E t \in Threads : BeginRead(t) \/ EndRead(t) \/ BeginWrite(t) \/ EndWrite(t)

ASpec == AInit /\ [][ANext]_avars
=============================================================================
