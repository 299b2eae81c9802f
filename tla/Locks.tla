-------------------------------- MODULE Locks --------------------------------
(***************************************************************************)
(* The lock classes of src/src/threads.hpp as values and operators on      *)
(* them.  A lock is a value that a component keeps in a variable of its    *)
(* own; "Can..." is the condition under which the blocking call returns,   *)
(* "...Locked" the value of the lock afterwards.                           *)
(*                                                                         *)
(* Mutex_RW wraps pthread_rwlock_t with its default attributes: a reader   *)
(* enters whenever no writer holds the lock, whether or not a writer       *)
(* waits.  SpinLock wraps a pthread_spinlock_t, which is not recursive: a  *)
(* thread that locks it twice waits for itself.                            *)
(*                                                                         *)
(* The guards (ScopedLockImpl, ReadScopedLockImpl, WriteScopedLockImpl)    *)
(* lock in their constructor and unlock in their destructor, also when an  *)
(* exception unwinds the scope.  Their flag m_locked belongs to the guard, *)
(* so in the code modelled here each guard locks once and unlocks once.    *)
(***************************************************************************)
CONSTANT NoThread   \* the owner of a lock that nobody holds

(* Mutex_RW: at most one writer, or any number of readers. *)
RWFree == [writer |-> NoThread, readers |-> {}]

CanRdLock(lock) == lock.writer = NoThread

RdLocked(lock, t) == [writer |-> lock.writer, readers |-> lock.readers \cup {t}]

CanWrLock(lock) == lock.writer = NoThread /\ lock.readers = {}

WrLocked(lock, t) == [writer |-> t, readers |-> lock.readers]

(* pthread_rwlock_unlock: the writer's lock if t holds it, else t's share. *)
RWUnlocked(lock, t) ==
  IF lock.writer = t THEN [writer |-> NoThread, readers |-> lock.readers]
                     ELSE [writer |-> lock.writer, readers |-> lock.readers \ {t}]

RWLockOf(threads) == [writer : threads \cup {NoThread}, readers : SUBSET threads]
=============================================================================
