--------------------------- MODULE ConfigVarProofs ---------------------------
(***************************************************************************)
(* What the locking of ConfigVar guarantees, for any number of threads,    *)
(* variables, listeners and values.                                        *)
(***************************************************************************)
EXTENDS ConfigVar, WellFoundedInduction, TLAPS

USE RolesAssumption, ValueAssumption
    DEF memory, frames, history, vars, Goto

-----------------------------------------------------------------------------
(* The iterator *)

(* Incrementing the iterator gives the next element in the order of keys,  *)
(* or end() when there is none.                                            *)
LEMMA NextKeyIsNext ==
  ASSUME NEW v \in Var, NEW k \in Nat, Keys(v) \subseteq Nat \ {0}
  PROVE  LET n == NextKey(v, k) IN
         /\ n \in Nat
         /\ n = End => \A j \in Keys(v) : j <= k
         /\ n # End => n \in Keys(v) /\ n > k /\ \A j \in Keys(v) : j > k => n <= j
<1> DEFINE later == {j \in Keys(v) : j > k}
<1>1. CASE later = {}
  BY <1>1 DEF NextKey, End
<1>2. CASE later # {}
  <2>1. \E j \in later : \A i \in later : j <= i
    <3>1. PICK j \in later : \A i \in later : <<i, j>> \notin OpToRel(<, Nat)
      BY <1>2, NatLessThanWellFounded, WFMin
    <3>2. j \in Nat /\ \A i \in later : i \in Nat /\ ~ (i < j)
      BY <3>1 DEF OpToRel
    <3>3. QED
      BY <3>2
  <2>2. NextKey(v, k) \in later /\ \A i \in later : NextKey(v, k) <= i
    BY <1>2, <2>1 DEF NextKey
  <2>3. QED
    BY <2>2 DEF End
<1>3. QED
  BY <1>1, <1>2

-----------------------------------------------------------------------------
(* Types *)

LEMMA LockTypes ==
  ASSUME NEW lock \in RWLockOf(Thread), NEW t \in Thread
  PROVE  /\ RdLocked(lock, t) \in RWLockOf(Thread)
         /\ WrLocked(lock, t) \in RWLockOf(Thread)
         /\ RWUnlocked(lock, t) \in RWLockOf(Thread)
BY DEF RWLockOf, RdLocked, WrLocked, RWUnlocked

LEMMA LocksTyped ==
  ASSUME TypeOK, NEW t \in Thread
  PROVE  /\ [m_lock EXCEPT ![obj[t]] = RdLocked(@, t)] \in [Var -> RWLockOf(Thread)]
         /\ [m_lock EXCEPT ![obj[t]] = WrLocked(@, t)] \in [Var -> RWLockOf(Thread)]
         /\ [m_lock EXCEPT ![obj[t]] = RWUnlocked(@, t)] \in [Var -> RWLockOf(Thread)]
<1>1. obj[t] \in Var /\ m_lock \in [Var -> RWLockOf(Thread)]
  BY DEF TypeOK
<1>2. QED
  BY <1>1, LockTypes

(* A thread about to use s_fun_id as a key has incremented it. *)
Counted == \A t \in Thread : pc[t] \in {"add_insert", "add_return"} => s_fun_id # 0

LEMMA InitType == Init => TypeOK
BY DEF Init, TypeOK, Keys, Field, Whole, RWLockOf, RWFree, Label, End

LEMMA NextType == TypeOK /\ Counted /\ IteratorValid /\ [Next]_vars => TypeOK'
<1> SUFFICES ASSUME TypeOK, Counted, IteratorValid, [Next]_vars PROVE TypeOK'
  OBVIOUS
<1> USE DEF TypeOK, Label, Field, Keys, Whole, End
<1>1. ASSUME NEW t \in Thread, Call(t) PROVE TypeOK'
  <2>1. CASE CallGet(t)
    BY <2>1 DEF CallGet, Enter
  <2>2. CASE CallSet(t)
    BY <2>2 DEF CallSet, Enter
  <2>3. CASE CallAdd(t)
    BY <2>3 DEF CallAdd, Enter
  <2>4. CASE CallDel(t)
    BY <2>4 DEF CallDel, Enter
  <2>5. CASE CallClear(t)
    BY <2>5 DEF CallClear, Enter
  <2>6. CASE CallFind(t)
    BY <2>6 DEF CallFind, Enter
  <2>7. QED
    BY <1>1, <2>1, <2>2, <2>3, <2>4, <2>5, <2>6 DEF Call
<1>2. ASSUME NEW t \in Thread, Set(t) PROVE TypeOK'
  <2>1. CASE CompareLo(t) \/ CompareHi(t)
    BY <2>1 DEF CompareLo, CompareHi
  <2>2. CASE SetLock(t)
    <3>1. NextKey(obj[t], End) \in Nat
      BY NextKeyIsNext
    <3>2. QED
      BY <2>2, <3>1, LocksTyped DEF SetLock, WriteLock, StartPass
  <2>3. CASE Notify(t)
    <3>1. NextKey(obj[t], key[t]) \in Nat
      BY NextKeyIsNext
    <3>2. m_callbacks[obj[t]][key[t]] \in Callback
      BY <2>3 DEF Notify, CallListener, IteratorValid
    <3>3. heard' \in [Var -> SUBSET Callback] /\ told' \in [Thread -> SUBSET Nat]
      BY <2>3, <3>2 DEF Notify, CallListener
    <3>4. view' \in [Var -> [Callback -> Field]]
      BY <2>3 DEF Notify, CallListener
    <3>5. QED
      BY <2>3, <3>1, <3>3, <3>4 DEF Notify, CallListener
  <2>4. CASE NotifyThrows(t) \/ NotifyEnd(t)
    <3>1. CASE NotifyThrows(t)
      BY <3>1, LocksTyped DEF NotifyThrows, Release
    <3>2. CASE NotifyEnd(t)
      BY <3>2, LocksTyped DEF NotifyEnd, Release
    <3>3. QED
      BY <2>4, <3>1, <3>2
  <2>5. CASE AssignLock(t)
    BY <2>5, LocksTyped DEF AssignLock, ReadLock
  <2>6. CASE AssignLo(t)
    BY <2>6 DEF AssignLo
  <2>7. CASE AssignHi(t)
    BY <2>7, LocksTyped DEF AssignHi, Release
  <2>8. QED
    BY <1>2, <2>1, <2>2, <2>3, <2>4, <2>5, <2>6, <2>7 DEF Set
<1>3. ASSUME NEW t \in Thread, Add(t) PROVE TypeOK'
  <2>1. CASE AddLock(t)
    BY <2>1, LocksTyped DEF AddLock, WriteLock
  <2>2. CASE AddLoad(t)
    BY <2>2 DEF AddLoad
  <2>3. CASE AddIncr(t)
    BY <2>3 DEF AddIncr
  <2>4. CASE AddInsert(t)
    BY <2>4 DEF AddInsert, WithKey, Counted
  <2>5. CASE AddReturn(t)
    BY <2>5, LocksTyped DEF AddReturn, Release, Counted
  <2>6. QED
    BY <1>3, <2>1, <2>2, <2>3, <2>4, <2>5 DEF Add
<1>4. ASSUME NEW t \in Thread, GetLock(t) \/ GetLo(t) \/ GetHi(t) PROVE TypeOK'
  <2>1. CASE GetLock(t)
    BY <2>1, LocksTyped DEF GetLock, ReadLock
  <2>2. CASE GetLo(t)
    BY <2>2 DEF GetLo
  <2>3. CASE GetHi(t)
    BY <2>3, LocksTyped DEF GetHi, Release
  <2>4. QED
    BY <1>4, <2>1, <2>2, <2>3
<1>5. ASSUME NEW t \in Thread, DelLock(t) \/ DelErase(t) PROVE TypeOK'
  <2>1. CASE DelLock(t)
    BY <2>1, LocksTyped DEF DelLock, WriteLock
  <2>2. CASE DelErase(t)
    BY <2>2, LocksTyped DEF DelErase, Release, WithoutKey
  <2>3. QED
    BY <1>5, <2>1, <2>2
<1>6. ASSUME NEW t \in Thread, ClearLock(t) \/ ClearAll(t) PROVE TypeOK'
  <2>1. CASE ClearLock(t)
    BY <2>1, LocksTyped DEF ClearLock, WriteLock
  <2>2. CASE ClearAll(t)
    BY <2>2, LocksTyped DEF ClearAll, Release
  <2>3. QED
    BY <1>6, <2>1, <2>2
<1>7. ASSUME NEW t \in Thread, FindLock(t) \/ Find(t) PROVE TypeOK'
  <2>1. CASE FindLock(t)
    BY <2>1, LocksTyped DEF FindLock, ReadLock
  <2>2. CASE Find(t)
    <3>1. fun' \in [Thread -> Callback]
      <4>1. CASE key[t] \in Keys(obj[t])
        <5>1. m_callbacks[obj[t]][key[t]] \in Callback
          BY <4>1
        <5>2. fun' = [fun EXCEPT ![t] = m_callbacks[obj[t]][key[t]]]
          BY <2>2, <4>1 DEF Find
        <5>3. QED
          BY <5>1, <5>2
      <4>2. CASE key[t] \notin Keys(obj[t])
        BY <2>2, <4>2 DEF Find
      <4>3. QED
        BY <4>1, <4>2
    <3>2. /\ Goto(t, "find", "idle") /\ Release(t)
          /\ UNCHANGED <<memory, obj, val, key, got, ops, history>>
      BY <2>2 DEF Find
    <3>3. QED
      BY <3>1, <3>2, LocksTyped DEF Release
  <2>3. QED
    BY <1>7, <2>1, <2>2
<1>8. CASE UNCHANGED vars
  BY <1>8
<1>9. QED
  BY <1>1, <1>2, <1>3, <1>4, <1>5, <1>6, <1>7, <1>8 DEF Next, Step, Finished


-----------------------------------------------------------------------------
(* Locks *)

(* What the lock of an object says of the threads inside its methods.      *)
LockHeld ==
  /\ \A t \in Thread : pc[t] \in Writing => m_lock[obj[t]].writer = t
  /\ \A t \in Thread : pc[t] \in Reading => t \in m_lock[obj[t]].readers
  /\ \A v \in Var : m_lock[v].writer # NoThread => m_lock[v].readers = {}
  /\ LockReleased

LEMMA NextCounted == TypeOK /\ Counted /\ [Next]_vars => Counted'
<1> SUFFICES ASSUME TypeOK, Counted, [Next]_vars PROVE Counted'
  OBVIOUS
<1> USE DEF TypeOK, Counted
<1>1. ASSUME NEW t \in Thread, Call(t) PROVE Counted'
  BY <1>1 DEF Call, CallGet, CallSet, CallAdd, CallDel, CallClear, CallFind, Enter
<1>2. ASSUME NEW t \in Thread, Set(t) PROVE Counted'
  BY <1>2 DEF Set, CompareLo, CompareHi, SetLock, WriteLock, StartPass, Notify,
     CallListener, NotifyThrows, NotifyEnd, AssignLock, ReadLock, AssignLo, AssignHi
<1>3. ASSUME NEW t \in Thread, AddIncr(t) PROVE Counted'
  BY <1>3 DEF AddIncr
<1>4. ASSUME NEW t \in Thread, AddLock(t) \/ AddLoad(t) \/ AddInsert(t) \/ AddReturn(t)
      PROVE  Counted'
  BY <1>4 DEF AddLock, WriteLock, AddLoad, AddInsert, AddReturn
<1>5. ASSUME NEW t \in Thread, Step(t), ~ Set(t), ~ Add(t) PROVE Counted'
  BY <1>5 DEF Step, GetLock, ReadLock, GetLo, GetHi, DelLock, WriteLock, DelErase,
     ClearLock, ClearAll, FindLock, Find
<1>6. CASE UNCHANGED vars
  BY <1>6
<1>7. QED
  BY <1>1, <1>2, <1>3, <1>4, <1>5, <1>6 DEF Next, Step, Add, Finished

(* The four things a step of a thread t can do with the lock of obj[t].    *)
LEMMA LockSteps ==
  ASSUME TypeOK, LockHeld, NEW t \in Thread, NEW from, NEW to, Goto(t, from, to),
         UNCHANGED obj,
         \/ /\ UNCHANGED m_lock
            /\ from \in Writing <=> to \in Writing
            /\ from \in Reading <=> to \in Reading
         \/ /\ CanRdLock(m_lock[obj[t]])
            /\ m_lock' = [m_lock EXCEPT ![obj[t]] = RdLocked(@, t)]
            /\ from \notin Writing \cup Reading /\ to \in Reading \ Writing
         \/ /\ CanWrLock(m_lock[obj[t]])
            /\ m_lock' = [m_lock EXCEPT ![obj[t]] = WrLocked(@, t)]
            /\ from \notin Writing \cup Reading /\ to \in Writing \ Reading
         \/ /\ Release(t)
            /\ from \in Writing \cup Reading
            /\ to \notin Writing \cup Reading
  PROVE  LockHeld'
<1> USE DEF TypeOK, LockHeld, LockReleased
<1>0. obj[t] \in Var /\ NoThread \notin Thread
  OBVIOUS
<1>1. CASE UNCHANGED m_lock /\ (from \in Writing <=> to \in Writing)
                            /\ (from \in Reading <=> to \in Reading)
  BY <1>1
<1>2. CASE /\ CanRdLock(m_lock[obj[t]])
           /\ m_lock' = [m_lock EXCEPT ![obj[t]] = RdLocked(@, t)]
           /\ from \notin Writing \cup Reading /\ to \in Reading \ Writing
  BY <1>0, <1>2 DEF CanRdLock, RdLocked
<1>3. CASE /\ CanWrLock(m_lock[obj[t]])
           /\ m_lock' = [m_lock EXCEPT ![obj[t]] = WrLocked(@, t)]
           /\ from \notin Writing \cup Reading /\ to \in Writing \ Reading
  BY <1>0, <1>3 DEF CanWrLock, WrLocked
<1>4. CASE /\ Release(t)
           /\ from \in Writing \cup Reading
           /\ to \notin Writing \cup Reading
  BY <1>0, <1>4 DEF Release, RWUnlocked
<1>5. QED
  BY <1>1, <1>2, <1>3, <1>4

LEMMA NextLocks == TypeOK /\ LockHeld /\ [Next]_vars => LockHeld'
<1> SUFFICES ASSUME TypeOK, LockHeld, [Next]_vars PROVE LockHeld'
  OBVIOUS
<1> USE DEF Writing, Reading
<1>1. ASSUME NEW t \in Thread, Call(t) PROVE LockHeld'
  <2>1. PICK v \in Var, first \in {"get_lock", "cmp_lo", "add_lock", "del_lock",
                                   "clear_lock", "find_lock"} : Enter(t, v, first)
    BY <1>1 DEF Call, CallGet, CallSet, CallAdd, CallDel, CallClear, CallFind, TypeOK
  <2>2. QED
    BY <2>1 DEF Enter, LockHeld, LockReleased, TypeOK
<1>2. ASSUME NEW t \in Thread, Set(t) PROVE LockHeld'
  <2>1. CASE CompareLo(t) \/ CompareHi(t)
    BY <2>1, LockSteps DEF CompareLo, CompareHi
  <2>2. CASE SetLock(t)
    <3>1. WriteLock(t, "set_lock", "notify") /\ UNCHANGED obj
      BY <2>2 DEF SetLock, StartPass
    <3>2. QED
      BY <3>1, LockSteps DEF WriteLock
  <2>3. CASE Notify(t)
    BY <2>3, LockSteps DEF Notify, CallListener
  <2>4. CASE NotifyThrows(t) \/ NotifyEnd(t)
    BY <2>4, LockSteps DEF NotifyThrows, NotifyEnd
  <2>5. CASE AssignLock(t)
    BY <2>5, LockSteps DEF AssignLock, ReadLock
  <2>6. CASE AssignLo(t) \/ AssignHi(t)
    BY <2>6, LockSteps DEF AssignLo, AssignHi
  <2>7. QED
    BY <1>2, <2>1, <2>2, <2>3, <2>4, <2>5, <2>6 DEF Set
<1>3. ASSUME NEW t \in Thread, Add(t) PROVE LockHeld'
  <2>1. CASE AddLock(t)
    BY <2>1, LockSteps DEF AddLock, WriteLock
  <2>2. CASE AddLoad(t) \/ AddIncr(t)
    BY <2>2, LockSteps DEF AddLoad, AddIncr
  <2>3. CASE AddInsert(t) \/ AddReturn(t)
    BY <2>3, LockSteps DEF AddInsert, AddReturn
  <2>4. QED
    BY <1>3, <2>1, <2>2, <2>3 DEF Add
<1>4. ASSUME NEW t \in Thread, Step(t), ~ Set(t), ~ Add(t) PROVE LockHeld'
  <2>1. CASE GetLock(t) \/ FindLock(t)
    BY <2>1, LockSteps DEF GetLock, FindLock, ReadLock
  <2>2. CASE GetLo(t) \/ GetHi(t)
    BY <2>2, LockSteps DEF GetLo, GetHi
  <2>3. CASE DelLock(t) \/ ClearLock(t)
    BY <2>3, LockSteps DEF DelLock, ClearLock, WriteLock
  <2>4. CASE DelErase(t) \/ ClearAll(t) \/ Find(t)
    BY <2>4, LockSteps DEF DelErase, ClearAll, Find
  <2>5. QED
    BY <1>4, <2>1, <2>2, <2>3, <2>4 DEF Step
<1>5. CASE UNCHANGED vars
  BY <1>5 DEF LockHeld, LockReleased
<1>6. QED
  BY <1>1, <1>2, <1>3, <1>4, <1>5 DEF Next, Finished

(* Nobody else is in a scope of the object whose listeners t runs.         *)
LEMMA HeldExcludes ==
  ASSUME TypeOK, LockHeld, NEW t \in Thread, NEW u \in Thread,
         t # u, obj[t] = obj[u], pc[t] = "notify"
  PROVE  pc[u] \notin Writing \cup Reading
<1>1. m_lock[obj[t]].writer = t /\ t # NoThread
  BY DEF LockHeld, Writing
<1>2. m_lock[obj[t]].readers = {}
  BY <1>1 DEF LockHeld, TypeOK
<1>3. QED
  BY <1>1, <1>2 DEF LockHeld

LEMMA HeldIsolates == TypeOK /\ LockHeld => PassIsolated
<1>1. Label \subseteq Writing \cup Reading \cup {"idle"} \cup Waiting \cup Comparing
  BY DEF Label, Writing, Reading, Waiting, Comparing
<1>2. QED
  BY <1>1, HeldExcludes DEF PassIsolated, TypeOK

-----------------------------------------------------------------------------
(* The loop over m_callbacks *)

(* While t runs the listeners, whatever another thread does leaves the     *)
(* object of t, and the loop, as they are.                                 *)
Undisturbed(t) ==
  /\ pc'[t] = "notify" /\ obj'[t] = obj[t] /\ key'[t] = key[t] /\ told'[t] = told[t]
  /\ m_callbacks'[obj[t]] = m_callbacks[obj[t]]
  /\ m_val'[obj[t]] = m_val[obj[t]]

LEMMA OthersLeavePass ==
  ASSUME TypeOK, LockHeld, NEW t \in Thread, NEW u \in Thread, t # u,
         pc[t] = "notify", Call(u) \/ Step(u)
  PROVE  Undisturbed(t)
<1> USE DEF TypeOK, Undisturbed, Writing, Reading
<1>0. obj[u] = obj[t] => pc[u] \notin Writing \cup Reading
  BY HeldExcludes
<1>1. CASE Call(u)
  BY <1>1 DEF Call, CallGet, CallSet, CallAdd, CallDel, CallClear, CallFind, Enter
<1>2. CASE AssignLo(u) \/ AssignHi(u)
  BY <1>0, <1>2 DEF AssignLo, AssignHi
<1>3. CASE AddInsert(u)
  BY <1>0, <1>3 DEF AddInsert
<1>4. CASE DelErase(u) \/ ClearAll(u)
  BY <1>0, <1>4 DEF DelErase, ClearAll
<1>5. CASE SetLock(u)
  BY <1>5 DEF SetLock, WriteLock, StartPass
<1>6. CASE Notify(u)
  BY <1>6 DEF Notify, CallListener
<1>7. CASE CompareLo(u) \/ CompareHi(u) \/ NotifyThrows(u) \/ NotifyEnd(u) \/ AssignLock(u)
  BY <1>7 DEF CompareLo, CompareHi, NotifyThrows, NotifyEnd, AssignLock, ReadLock
<1>8. CASE AddLock(u) \/ AddLoad(u) \/ AddIncr(u) \/ AddReturn(u)
  BY <1>8 DEF AddLock, WriteLock, AddLoad, AddIncr, AddReturn
<1>9. CASE GetLock(u) \/ GetLo(u) \/ GetHi(u)
  BY <1>9 DEF GetLock, ReadLock, GetLo, GetHi
<1>10. CASE DelLock(u) \/ ClearLock(u) \/ FindLock(u) \/ Find(u)
  BY <1>10 DEF DelLock, ClearLock, WriteLock, FindLock, ReadLock, Find
<1>11. QED
  BY <1>1, <1>2, <1>3, <1>4, <1>5, <1>6, <1>7, <1>8, <1>9, <1>10 DEF Step, Set, Add

LEMMA PassSteps ==
  ASSUME TypeOK, LockHeld, [Next]_vars, NEW t \in Thread, pc[t] = "notify"
  PROVE  Notify(t) \/ NotifyThrows(t) \/ NotifyEnd(t) \/ Undisturbed(t)
<1>1. CASE UNCHANGED vars
  BY <1>1 DEF Undisturbed
<1>2. ASSUME NEW u \in Thread, Call(u) \/ Step(u), u # t PROVE Undisturbed(t)
  BY <1>2, OthersLeavePass
<1>3. CASE Call(t)
  BY <1>3 DEF Call, CallGet, CallSet, CallAdd, CallDel, CallClear, CallFind, Enter
<1>4. CASE Step(t)
  BY <1>4 DEF Step, Set, Add, GetLock, GetLo, GetHi, CompareLo, CompareHi, SetLock,
     AssignLock, AssignLo, AssignHi, AddLock, AddLoad, AddIncr, AddInsert,
     AddReturn, DelLock, DelErase, ClearLock, ClearAll, FindLock, Find, ReadLock, WriteLock
<1>5. QED
  BY <1>1, <1>2, <1>3, <1>4 DEF Next, Finished

(* A thread enters the loop by SetLock only, with the iterator at begin(). *)
LEMMA PassStart ==
  ASSUME TypeOK, [Next]_vars, NEW t \in Thread, pc[t] # "notify", pc'[t] = "notify"
  PROVE  SetLock(t)
<1> USE DEF TypeOK
<1>1. ASSUME NEW u \in Thread, Call(u) PROVE FALSE
  BY <1>1 DEF Call, CallGet, CallSet, CallAdd, CallDel, CallClear, CallFind, Enter
<1>2. ASSUME NEW u \in Thread, Step(u) PROVE SetLock(t)
  BY <1>2 DEF Step, Set, Add, GetLock, GetLo, GetHi, CompareLo, CompareHi, SetLock, Notify,
     CallListener, NotifyThrows, NotifyEnd,
     AssignLock, AssignLo, AssignHi, AddLock, AddLoad, AddIncr, AddInsert,
     AddReturn, DelLock, DelErase, ClearLock, ClearAll, FindLock, Find, ReadLock, WriteLock
<1>3. QED
  BY <1>1, <1>2 DEF Next, Finished

LEMMA NextIterator == TypeOK /\ LockHeld /\ IteratorValid /\ [Next]_vars => IteratorValid'
<1> SUFFICES ASSUME TypeOK, LockHeld, IteratorValid, [Next]_vars,
                    NEW t \in Thread, pc'[t] = "notify"
             PROVE  key'[t] \in Keys(obj[t])' \cup {End}
  BY DEF IteratorValid
<1>0. obj[t] \in Var /\ key[t] \in Nat /\ Keys(obj[t]) \subseteq Nat \ {0}
  BY DEF TypeOK
<1>1. CASE pc[t] # "notify"
  <2>1. SetLock(t)
    BY <1>1, PassStart
  <2>2. key' = [key EXCEPT ![t] = NextKey(obj[t], End)] /\ UNCHANGED <<m_callbacks, obj>>
    BY <2>1 DEF SetLock, StartPass
  <2>3. NextKey(obj[t], End) \in Keys(obj[t]) \cup {End}
    BY <1>0, NextKeyIsNext DEF End
  <2>4. QED
    BY <2>2, <2>3 DEF TypeOK, Keys
<1>2. CASE pc[t] = "notify"
  <2>1. CASE Notify(t)
    <3>1. key' = [key EXCEPT ![t] = NextKey(obj[t], key[t])] /\ UNCHANGED <<m_callbacks, obj>>
      BY <2>1 DEF Notify, CallListener
    <3>2. NextKey(obj[t], key[t]) \in Keys(obj[t]) \cup {End}
      BY <1>0, NextKeyIsNext
    <3>3. QED
      BY <3>1, <3>2 DEF TypeOK, Keys
  <2>2. CASE NotifyThrows(t) \/ NotifyEnd(t)
    BY <2>2 DEF NotifyThrows, NotifyEnd, TypeOK
  <2>3. CASE Undisturbed(t)
    BY <1>2, <2>3 DEF Undisturbed, IteratorValid, Keys
  <2>4. QED
    BY <1>2, <2>1, <2>2, <2>3, PassSteps
<1>3. QED
  BY <1>1, <1>2

LEMMA NextVisits ==
  TypeOK /\ LockHeld /\ IteratorValid /\ PassVisitsEach /\ [Next]_vars => PassVisitsEach'
<1> SUFFICES ASSUME TypeOK, LockHeld, IteratorValid, PassVisitsEach, [Next]_vars,
                    NEW t \in Thread, pc'[t] = "notify"
             PROVE  told'[t] = {k \in Keys(obj[t])' : key'[t] = End \/ k < key'[t]}
  BY DEF PassVisitsEach
<1>0. obj[t] \in Var /\ key[t] \in Nat /\ Keys(obj[t]) \subseteq Nat \ {0}
  BY DEF TypeOK
<1>1. CASE pc[t] # "notify"
  <2> DEFINE n == NextKey(obj[t], End)
  <2>1. SetLock(t)
    BY <1>1, PassStart
  <2>2. key'[t] = n /\ told'[t] = {} /\ Keys(obj[t])' = Keys(obj[t])
    BY <2>1 DEF SetLock, StartPass, TypeOK, Keys
  <2>3. /\ n \in Nat
        /\ n = End => \A j \in Keys(obj[t]) : j <= End
        /\ n # End => \A j \in Keys(obj[t]) : j > End => n <= j
    BY <1>0, NextKeyIsNext DEF End
  <2>4. \A k \in Keys(obj[t]) : ~ (n = End \/ k < n)
    BY <1>0, <2>3 DEF End
  <2>5. QED
    BY <2>2, <2>4
<1>2. CASE pc[t] = "notify"
  <2>1. CASE Notify(t)
    <3> DEFINE n == NextKey(obj[t], key[t])
    <3>1. /\ key'[t] = n /\ told'[t] = told[t] \cup {key[t]} /\ key[t] # End
          /\ Keys(obj[t])' = Keys(obj[t])
      BY <2>1 DEF Notify, CallListener, TypeOK, Keys
    <3>2. /\ n \in Nat
          /\ n = End => \A j \in Keys(obj[t]) : j <= key[t]
          /\ n # End => n > key[t] /\ \A j \in Keys(obj[t]) : j > key[t] => n <= j
      BY <1>0, NextKeyIsNext
    <3>3. told[t] = {k \in Keys(obj[t]) : k < key[t]} /\ key[t] \in Keys(obj[t])
      BY <1>2, <3>1 DEF PassVisitsEach, IteratorValid
    <3>4. \A k \in Keys(obj[t]) : (n = End \/ k < n) <=> (k < key[t] \/ k = key[t])
      BY <1>0, <3>2 DEF End
    <3>5. QED
      BY <3>1, <3>3, <3>4
  <2>2. CASE NotifyThrows(t) \/ NotifyEnd(t)
    BY <2>2 DEF NotifyThrows, NotifyEnd, TypeOK
  <2>3. CASE Undisturbed(t)
    BY <1>2, <2>3 DEF Undisturbed, PassVisitsEach, Keys
  <2>4. QED
    BY <1>2, <2>1, <2>2, <2>3, PassSteps
<1>3. QED
  BY <1>1, <1>2

-----------------------------------------------------------------------------
(* Theorems *)

(* The inductive invariant: types hold because the iterator is valid, the  *)
(* iterator is valid because the lock is held.                             *)
Inv == TypeOK /\ Counted /\ LockHeld /\ IteratorValid /\ PassVisitsEach

THEOREM Invariance == Spec => []Inv
<1>1. Init => Inv
  <2>1. Init => LockHeld
    BY DEF Init, LockHeld, LockReleased, Writing, Reading, RWFree
  <2>2. Init => Counted /\ IteratorValid /\ PassVisitsEach
    BY DEF Init, Counted, IteratorValid, PassVisitsEach
  <2>3. QED
    BY <2>1, <2>2, InitType DEF Inv
<1>2. Inv /\ [Next]_vars => Inv'
  BY NextType, NextCounted, NextLocks, NextIterator, NextVisits DEF Inv
<1>3. QED
  BY <1>1, <1>2, PTL DEF Spec

(* Every variable keeps its type, and no key of m_callbacks is 0.          *)
THEOREM TypeCorrect == Spec => []TypeOK
BY Invariance, PTL DEF Inv

(* While setValue runs the listeners of an object, the other threads that  *)
(* call its methods wait for the lock or compare m_val, which nobody       *)
(* assigns.                                                                *)
THEOREM Isolation == Spec => []PassIsolated
<1>1. Inv => PassIsolated
  BY HeldIsolates DEF Inv
<1>2. QED
  BY <1>1, Invariance, PTL

(* A thread has no lock outside the scopes of its method, also when a      *)
(* listener has thrown.                                                    *)
THEOREM LocksReleased == Spec => []LockReleased
<1>1. Inv => LockReleased
  BY DEF Inv, LockHeld
<1>2. QED
  BY <1>1, Invariance, PTL

(* No call of addListener, delListener or clearListener invalidates the    *)
(* iterator of the loop over m_callbacks.                                  *)
THEOREM IteratorSafe == Spec => []IteratorValid
BY Invariance, PTL DEF Inv

(* The loop calls the listeners in the order of their keys, each once.     *)
THEOREM VisitsEach == Spec => []PassVisitsEach
BY Invariance, PTL DEF Inv

(* All the listeners of one pass are given the same old value.             *)
THEOREM SameOldValue == Spec => OldValueFixed
<1> DEFINE Fixed == \A t \in Thread : pc[t] = "notify" => m_val'[obj[t]] = m_val[obj[t]]
<1>1. Inv /\ [Next]_vars => Fixed
  <2> SUFFICES ASSUME TypeOK, LockHeld, [Next]_vars, NEW t \in Thread, pc[t] = "notify"
               PROVE  m_val'[obj[t]] = m_val[obj[t]]
    BY DEF Inv
  <2>1. CASE Notify(t) \/ NotifyThrows(t) \/ NotifyEnd(t)
    BY <2>1 DEF Notify, CallListener, NotifyThrows, NotifyEnd
  <2>2. CASE Undisturbed(t)
    BY <2>2 DEF Undisturbed
  <2>3. QED
    BY <2>1, <2>2, PassSteps
<1>2. Inv /\ [Next]_vars => [Fixed]_vars
  BY <1>1
<1> HIDE DEF Fixed
<1>3. Spec => [][Fixed]_vars
  BY <1>2, Invariance, PTL DEF Spec
<1>4. QED
  BY <1>3 DEF Fixed, OldValueFixed

-----------------------------------------------------------------------------
(* What the listeners believe.  setValue tells the listeners in one        *)
(* critical section and assigns in another: that the last value they were  *)
(* told is the value of the object is for programs in which one thread     *)
(* calls setValue and no listener throws.                                  *)

OneSetter == \A t, u \in Setter : t = u

Assigning == {"assign_lock", "assign_lo", "assign_hi"}

Changing == {"cmp_lo", "cmp_hi", "set_lock", "notify"} \cup Assigning

SettersChange == \A t \in Thread : pc[t] \in Changing => t \in Setter

HasHeard(v, k) == k \in Keys(v) /\ m_callbacks[v][k] \in heard[v]

Believed(v, k) == view[v][m_callbacks[v][k]]

Told(t, k) == \E j \in told[t] : m_callbacks[obj[t]][j] = m_callbacks[obj[t]][k]

(* Inside the loop, the listeners it has called believe the new value, the *)
(* others the one that m_val still has.                                    *)
PassTells ==
  \A t \in Thread : pc[t] = "notify" =>
    \A k : HasHeard(obj[t], k) =>
      Believed(obj[t], k) = IF Told(t, k) THEN Whole(val[t]) ELSE m_val[obj[t]]

(* After it all of them do, but those that have registered since.          *)
AllTold ==
  \A t \in Thread : pc[t] \in Assigning =>
    \A k : HasHeard(obj[t], k) => Believed(obj[t], k) = Whole(val[t])

HalfWritten == \A t \in Thread : pc[t] = "assign_hi" => m_val[obj[t]].lo = val[t]

HearInv == HeardIsHeld /\ PassTells /\ AllTold /\ HalfWritten

LEMMA NextChange == TypeOK /\ SettersChange /\ [Next]_vars => SettersChange'
<1> SUFFICES ASSUME TypeOK, SettersChange, [Next]_vars PROVE SettersChange'
  OBVIOUS
<1> USE DEF TypeOK, SettersChange, Changing, Assigning
<1>1. ASSUME NEW t \in Thread, Call(t) PROVE SettersChange'
  BY <1>1 DEF Call, CallGet, CallSet, CallAdd, CallDel, CallClear, CallFind, Enter
<1>2. ASSUME NEW t \in Thread, Set(t) PROVE SettersChange'
  BY <1>2 DEF Set, CompareLo, CompareHi, SetLock, WriteLock, StartPass, Notify,
     CallListener, NotifyThrows, NotifyEnd, AssignLock, ReadLock, AssignLo, AssignHi
<1>3. ASSUME NEW t \in Thread, Add(t) PROVE SettersChange'
  BY <1>3 DEF Add, AddLock, WriteLock, AddLoad, AddIncr, AddInsert, AddReturn
<1>4. ASSUME NEW t \in Thread, Step(t), ~ Set(t), ~ Add(t) PROVE SettersChange'
  BY <1>4 DEF Step, GetLock, ReadLock, GetLo, GetHi, DelLock, WriteLock, DelErase,
     ClearLock, ClearAll, FindLock, Find
<1>5. CASE UNCHANGED vars
  BY <1>5
<1>6. QED
  BY <1>1, <1>2, <1>3, <1>4, <1>5 DEF Next, Finished

(* The only setter is at work: nobody else tells or assigns.               *)
LEMMA OneMover ==
  ASSUME OneSetter, SettersChange, NEW t \in Thread, pc[t] \in Changing,
         NEW u \in Thread, pc[u] \in {"notify"} \cup Assigning
  PROVE  u = t
BY DEF OneSetter, SettersChange, Changing

(* A step that is none of setValue's, and leaves the listeners alone.      *)
LEMMA QuietHears ==
  ASSUME TypeOK, HearInv, NEW t \in Thread, NEW from, NEW to, Goto(t, from, to),
         from \notin {"notify"} \cup Assigning, to \notin {"notify"} \cup Assigning,
         UNCHANGED <<m_val, m_callbacks, view, heard, told>>,
         \A u \in Thread : u # t => obj'[u] = obj[u] /\ val'[u] = val[u]
  PROVE  HearInv'
<1> USE DEF TypeOK, Assigning
<1>1. \A u \in Thread : u # t => pc'[u] = pc[u]
  OBVIOUS
<1>2. pc[t] = from /\ pc'[t] = to
  OBVIOUS
<1>3. \A v, k : (HasHeard(v, k)' <=> HasHeard(v, k)) /\ Believed(v, k)' = Believed(v, k)
  BY DEF HasHeard, Believed, Keys
<1>4. \A v \in Var : Settled(v)' => Settled(v)
  BY <1>1, <1>2 DEF Settled
<1>5. HeardIsHeld'
  BY <1>3, <1>4 DEF HearInv, HeardIsHeld, HasHeard, Believed, Keys
<1>6. PassTells'
  <2> SUFFICES ASSUME NEW u \in Thread, pc'[u] = "notify", NEW k, HasHeard(obj[u], k)'
               PROVE  Believed(obj[u], k)' = IF Told(u, k)' THEN Whole(val[u])' ELSE m_val[obj[u]]'
    BY DEF PassTells
  <2>1. u # t /\ pc[u] = "notify" /\ obj'[u] = obj[u] /\ val'[u] = val[u]
    BY <1>1, <1>2
  <2>2. Told(u, k)' <=> Told(u, k)
    BY <2>1 DEF Told
  <2>3. Whole(val[u])' = Whole(val[u])
    BY <2>1 DEF Whole
  <2>4. HasHeard(obj[u], k) /\ Believed(obj[u], k)' = Believed(obj[u], k)
    BY <1>3, <2>1
  <2>5. QED
    BY <2>1, <2>2, <2>3, <2>4 DEF HearInv, PassTells
<1>7. AllTold'
  BY <1>1, <1>2, <1>3 DEF HearInv, AllTold
<1>8. HalfWritten'
  BY <1>1, <1>2 DEF HearInv, HalfWritten
<1>9. QED
  BY <1>5, <1>6, <1>7, <1>8 DEF HearInv

(* The loop begins: nobody has been told of the new value.                 *)
LEMMA BeginHears ==
  ASSUME TypeOK, HearInv, SettersChange, OneSetter, NEW t \in Thread, SetLock(t)
  PROVE  HearInv'
<1> USE DEF TypeOK, Assigning
<1>1. /\ Goto(t, "set_lock", "notify") /\ told'[t] = {}
      /\ UNCHANGED <<m_val, m_callbacks, view, heard, obj, val>>
  BY DEF SetLock, WriteLock, StartPass
<1>2. \A u \in Thread : pc[u] \notin {"notify"} \cup Assigning
  BY <1>1, OneMover DEF Changing
<1>3. \A v, k : (HasHeard(v, k)' <=> HasHeard(v, k)) /\ Believed(v, k)' = Believed(v, k)
  BY <1>1 DEF HasHeard, Believed, Keys
<1>4. \A v \in Var : Settled(v)
  BY <1>2 DEF Settled
<1>5. \A v \in Var : \A k : HasHeard(v, k) => Believed(v, k) = m_val[v]
  BY <1>4 DEF HearInv, HeardIsHeld, HasHeard, Believed
<1>6. \A u \in Thread : u # t => pc'[u] \notin {"notify"} \cup Assigning
  BY <1>1, <1>2
<1>7. HeardIsHeld'
  BY <1>1, <1>3, <1>5 DEF HeardIsHeld, HasHeard, Believed, Keys
<1>8. PassTells'
  <2>1. \A k : ~ Told(t, k)'
    BY <1>1 DEF Told
  <2>2. QED
    BY <1>1, <1>3, <1>5, <1>6, <2>1 DEF PassTells
<1>9. AllTold' /\ HalfWritten'
  BY <1>1, <1>6 DEF AllTold, HalfWritten
<1>10. QED
  BY <1>7, <1>8, <1>9 DEF HearInv

(* The loop calls one listener, under whatever keys it is registered.      *)
LEMMA TellHears ==
  ASSUME TypeOK, IteratorValid, HearInv, SettersChange, OneSetter, NEW t \in Thread, Notify(t)
  PROVE  HearInv'
<1> USE DEF TypeOK, Assigning
<1> DEFINE v == obj[t]
           c == m_callbacks[v][key[t]]
<1>1. /\ pc[t] = "notify" /\ key[t] # End /\ pc' = pc
      /\ view' = [view EXCEPT ![v][c] = Whole(val[t])]
      /\ heard' = [heard EXCEPT ![v] = @ \cup {c}]
      /\ told'[t] = told[t] \cup {key[t]}
      /\ UNCHANGED <<m_val, m_callbacks, obj, val>>
  BY DEF Notify, CallListener
<1>2. v \in Var /\ c \in Callback
  BY <1>1 DEF IteratorValid
<1>3. \A u \in Thread : pc[u] \in {"notify"} \cup Assigning => u = t
  BY <1>1, OneMover DEF Changing
<1>4. /\ \A k : HasHeard(v, k)' /\ m_callbacks[v][k] # c => HasHeard(v, k)
      /\ \A k : m_callbacks[v][k] # c /\ HasHeard(v, k)' => Believed(v, k)' = Believed(v, k)
      /\ \A k : m_callbacks[v][k] = c => Believed(v, k)' = Whole(val[t])
  BY <1>1, <1>2 DEF HasHeard, Believed, Keys
<1>5. HeardIsHeld'
  <2> SUFFICES ASSUME NEW w \in Var, Settled(w)', NEW k \in Keys(w)',
                      m_callbacks'[w][k] \in heard'[w]
               PROVE  view'[w][m_callbacks'[w][k]] = m_val'[w]
    BY DEF HeardIsHeld
  <2>1. w # v /\ Settled(w)
    BY <1>1 DEF Settled
  <2>2. view'[w] = view[w] /\ heard'[w] = heard[w] /\ k \in Keys(w)
    BY <1>1, <1>2, <2>1 DEF Keys
  <2>3. QED
    BY <1>1, <2>1, <2>2 DEF HearInv, HeardIsHeld
<1>6. PassTells'
  <2> SUFFICES ASSUME NEW k, HasHeard(v, k)'
               PROVE  Believed(v, k)' = IF Told(t, k)' THEN Whole(val[t]) ELSE m_val[v]
    BY <1>1, <1>3 DEF PassTells
  <2>1. CASE m_callbacks[v][k] = c
    <3>1. Told(t, k)'
      BY <1>1, <2>1 DEF Told
    <3>2. QED
      BY <1>4, <2>1, <3>1
  <2>2. CASE m_callbacks[v][k] # c
    <3>1. Told(t, k)' <=> Told(t, k)
      BY <1>1, <2>2 DEF Told
    <3>2. HasHeard(v, k) /\ Believed(v, k)' = Believed(v, k)
      BY <1>4, <2>2
    <3>3. QED
      BY <1>1, <3>1, <3>2 DEF HearInv, PassTells
  <2>3. QED
    BY <2>1, <2>2
<1>7. AllTold' /\ HalfWritten'
  BY <1>1, <1>3 DEF AllTold, HalfWritten
<1>8. QED
  BY <1>5, <1>6, <1>7 DEF HearInv

(* The loop is over: all have been told.                                   *)
LEMMA EndHears ==
  ASSUME TypeOK, PassVisitsEach, HearInv, SettersChange, OneSetter, NEW t \in Thread,
         NotifyEnd(t)
  PROVE  HearInv'
<1> USE DEF TypeOK, Assigning
<1>1. /\ pc[t] = "notify" /\ key[t] = End /\ pc' = [pc EXCEPT ![t] = "assign_lock"]
      /\ UNCHANGED <<m_val, m_callbacks, view, heard, told, obj, val>>
  BY DEF NotifyEnd
<1>2. \A u \in Thread : pc[u] \in {"notify"} \cup Assigning => u = t
  BY <1>1, OneMover DEF Changing
<1>3. \A v, k : (HasHeard(v, k)' <=> HasHeard(v, k)) /\ Believed(v, k)' = Believed(v, k)
  BY <1>1 DEF HasHeard, Believed, Keys
<1>4. told[t] = Keys(obj[t])
  BY <1>1 DEF PassVisitsEach
<1>5. \A k : HasHeard(obj[t], k) => Told(t, k)
  BY <1>4 DEF HasHeard, Told
<1>6. \A k : HasHeard(obj[t], k) => Believed(obj[t], k) = Whole(val[t])
  BY <1>1, <1>5 DEF HearInv, PassTells
<1>7. AllTold' /\ HalfWritten' /\ PassTells'
  BY <1>1, <1>2, <1>3, <1>6 DEF AllTold, HalfWritten, PassTells
<1>8. \A v \in Var : Settled(v)' => Settled(v)
  BY <1>1 DEF Settled
<1>9. HeardIsHeld'
  BY <1>1, <1>8 DEF HearInv, HeardIsHeld, Keys
<1>10. QED
  BY <1>7, <1>9 DEF HearInv

(* The assignment, field by field.                                         *)
LEMMA AssignHears ==
  ASSUME TypeOK, HearInv, SettersChange, OneSetter, NEW t \in Thread,
         AssignLock(t) \/ AssignLo(t) \/ AssignHi(t)
  PROVE  HearInv'
<1> USE DEF TypeOK, Assigning
<1>1. /\ pc[t] \in Assigning /\ UNCHANGED <<m_callbacks, view, heard, told, obj, val>>
      /\ \A u \in Thread : u # t => pc'[u] = pc[u]
      /\ \A v \in Var : v # obj[t] => m_val'[v] = m_val[v]
  BY DEF AssignLock, ReadLock, AssignLo, AssignHi
<1>2. \A u \in Thread : pc[u] \in {"notify"} \cup Assigning => u = t
  BY <1>1, OneMover DEF Changing
<1>3. \A v, k : (HasHeard(v, k)' <=> HasHeard(v, k)) /\ Believed(v, k)' = Believed(v, k)
  BY <1>1 DEF HasHeard, Believed, Keys
<1>4. pc'[t] # "notify"
  BY DEF AssignLock, ReadLock, AssignLo, AssignHi
<1>5. PassTells' /\ AllTold'
  BY <1>1, <1>2, <1>3, <1>4 DEF HearInv, PassTells, AllTold
<1>6. HalfWritten'
  <2> SUFFICES ASSUME NEW u \in Thread, pc'[u] = "assign_hi" PROVE m_val'[obj[u]].lo = val[u]
    BY <1>1 DEF HalfWritten
  <2>1. u = t
    BY <1>1, <1>2
  <2>2. AssignLo(t)
    BY <2>1 DEF AssignLock, ReadLock, AssignLo, AssignHi
  <2>3. QED
    BY <2>1, <2>2 DEF AssignLo
<1>7. ASSUME NEW v \in Var, v # obj[t], Settled(v)', NEW k, HasHeard(v, k)
      PROVE  Believed(v, k) = m_val'[v]
  <2>1. Settled(v)
    BY <1>1, <1>7 DEF Settled
  <2>2. QED
    BY <1>1, <1>7, <2>1 DEF HearInv, HeardIsHeld, HasHeard, Believed
<1>8. ASSUME NEW v \in Var, v = obj[t], Settled(v)', NEW k, HasHeard(v, k)
      PROVE  Believed(v, k) = m_val'[v]
  <2>1. AssignHi(t)
    BY <1>1, <1>8 DEF Settled, AssignLock, ReadLock, AssignLo
  <2>2. m_val'[v] = [lo |-> m_val[v].lo, hi |-> val[t]] /\ pc[t] = "assign_hi"
    BY <1>8, <2>1 DEF AssignHi
  <2>3. m_val'[v] = Whole(val[t])
    BY <1>8, <2>2 DEF HearInv, HalfWritten, Whole
  <2>4. QED
    BY <1>1, <1>8, <2>3 DEF HearInv, AllTold
<1>9. HeardIsHeld'
  <2> SUFFICES ASSUME NEW v \in Var, Settled(v)', NEW k \in Keys(v)',
                      m_callbacks'[v][k] \in heard'[v]
               PROVE  view'[v][m_callbacks'[v][k]] = m_val'[v]
    BY DEF HeardIsHeld
  <2>1. HasHeard(v, k) /\ view'[v][m_callbacks'[v][k]] = Believed(v, k)
    BY <1>1 DEF HasHeard, Believed, Keys
  <2>2. Believed(v, k) = m_val'[v]
    BY <1>7, <1>8, <2>1
  <2>3. QED
    BY <2>1, <2>2
<1>10. QED
  BY <1>5, <1>6, <1>9 DEF HearInv

(* Listeners come and go while nobody is in the loop over them: those that *)
(* stay keep what they believe, those that come have heard nothing.        *)
LEMMA ListenersHear ==
  ASSUME TypeOK, LockHeld, HearInv, NEW t \in Thread,
         pc[t] \in Writing, pc[t] \notin {"notify"} \cup Assigning,
         pc'[t] \notin {"notify"} \cup Assigning,
         \A u \in Thread : u # t => pc'[u] = pc[u],
         UNCHANGED <<m_val, told, obj, val>>,
         \A v \in Var : \A k : HasHeard(v, k)' =>
           HasHeard(v, k) /\ Believed(v, k)' = Believed(v, k),
         \A v \in Var : v # obj[t] => m_callbacks'[v] = m_callbacks[v]
  PROVE  HearInv'
<1> USE DEF TypeOK, Assigning
<1>1. \A u \in Thread : pc[u] = "notify" => obj[u] # obj[t]
  BY HeldExcludes
<1>2. HeardIsHeld'
  <2>1. \A v \in Var : Settled(v)' => Settled(v)
    BY DEF Settled
  <2>2. QED
    BY <2>1 DEF HearInv, HeardIsHeld, HasHeard, Believed
<1>3. PassTells'
  <2> SUFFICES ASSUME NEW u \in Thread, pc'[u] = "notify", NEW k, HasHeard(obj[u], k)'
               PROVE  Believed(obj[u], k)' = IF Told(u, k)' THEN Whole(val[u]) ELSE m_val[obj[u]]
    BY DEF PassTells, Whole
  <2>1. u # t /\ pc[u] = "notify" /\ obj[u] \in Var
    OBVIOUS
  <2>2. m_callbacks'[obj[u]] = m_callbacks[obj[u]]
    BY <1>1, <2>1
  <2>3. Told(u, k)' <=> Told(u, k)
    BY <2>2 DEF Told
  <2>4. HasHeard(obj[u], k) /\ Believed(obj[u], k)' = Believed(obj[u], k)
    BY <2>1
  <2>5. QED
    BY <2>1, <2>3, <2>4 DEF HearInv, PassTells
<1>4. AllTold'
  <2> SUFFICES ASSUME NEW u \in Thread, pc'[u] \in Assigning, NEW k, HasHeard(obj[u], k)'
               PROVE  Believed(obj[u], k)' = Whole(val[u])
    BY DEF AllTold, Whole
  <2>1. pc[u] \in Assigning /\ obj[u] \in Var
    OBVIOUS
  <2>2. HasHeard(obj[u], k) /\ Believed(obj[u], k)' = Believed(obj[u], k)
    BY <2>1
  <2>3. QED
    BY <2>1, <2>2 DEF HearInv, AllTold
<1>5. HalfWritten'
  BY DEF HearInv, HalfWritten
<1>6. QED
  BY <1>2, <1>3, <1>4, <1>5 DEF HearInv

LEMMA NextHears ==
  ASSUME OneSetter, Thrower = {}, Inv, SettersChange, HearInv, [Next]_vars
  PROVE  HearInv'
<1>0. TypeOK /\ LockHeld /\ IteratorValid /\ PassVisitsEach
  BY DEF Inv
<1>1. ASSUME NEW t \in Thread, Call(t) PROVE HearInv'
  <2>1. PICK v \in Var, first \in {"get_lock", "cmp_lo", "add_lock", "del_lock",
                                   "clear_lock", "find_lock"} : Enter(t, v, first)
    BY <1>0, <1>1 DEF Call, CallGet, CallSet, CallAdd, CallDel, CallClear, CallFind, TypeOK
  <2>2. \A u \in Thread : u # t => obj'[u] = obj[u] /\ val'[u] = val[u]
    BY <1>0, <1>1 DEF Call, CallGet, CallSet, CallAdd, CallDel, CallClear, CallFind, Enter,
       TypeOK
  <2>3. Goto(t, "idle", first) /\ UNCHANGED <<m_val, m_callbacks, view, heard, told>>
    BY <2>1 DEF Enter
  <2>4. QED
    BY <1>0, <2>1, <2>2, <2>3, QuietHears DEF Assigning
<1>2. ASSUME NEW t \in Thread, Set(t) PROVE HearInv'
  <2>1. CASE CompareLo(t) \/ CompareHi(t)
    <3>1. PICK from \in {"cmp_lo", "cmp_hi"}, to \in {"cmp_hi", "idle", "set_lock"} :
            Goto(t, from, to)
      BY <2>1 DEF CompareLo, CompareHi
    <3>2. UNCHANGED <<m_val, m_callbacks, view, heard, told, obj, val>>
      BY <2>1 DEF CompareLo, CompareHi
    <3>3. QED
      BY <1>0, <3>1, <3>2, QuietHears DEF Assigning
  <2>2. CASE SetLock(t)
    BY <1>0, <2>2, BeginHears
  <2>3. CASE Notify(t)
    BY <1>0, <2>3, TellHears
  <2>4. CASE NotifyThrows(t)
    BY <2>4 DEF NotifyThrows
  <2>5. CASE NotifyEnd(t)
    BY <1>0, <2>5, EndHears
  <2>6. CASE AssignLock(t) \/ AssignLo(t) \/ AssignHi(t)
    BY <1>0, <2>6, AssignHears
  <2>7. QED
    BY <1>2, <2>1, <2>2, <2>3, <2>4, <2>5, <2>6 DEF Set
<1>3. ASSUME NEW t \in Thread, AddInsert(t) PROVE HearInv'
  <2>1. /\ Goto(t, "add_insert", "add_return")
        /\ m_callbacks' = [m_callbacks EXCEPT ![obj[t]] = WithKey(@, s_fun_id, fun[t])]
        /\ view' = [view EXCEPT ![obj[t]][fun[t]] = m_val[obj[t]]]
        /\ heard' = [heard EXCEPT ![obj[t]] = @ \ {fun[t]}]
        /\ UNCHANGED <<m_val, told, obj, val>>
    BY <1>3 DEF AddInsert
  <2>2. \A v \in Var : v # obj[t] =>
          m_callbacks'[v] = m_callbacks[v] /\ view'[v] = view[v] /\ heard'[v] = heard[v]
    BY <1>0, <2>1 DEF TypeOK
  <2>3. /\ DOMAIN m_callbacks'[obj[t]] = Keys(obj[t]) \cup {s_fun_id}
        /\ m_callbacks'[obj[t]][s_fun_id] = fun[t]
        /\ \A k \in Keys(obj[t]) : k # s_fun_id => m_callbacks'[obj[t]][k] = m_callbacks[obj[t]][k]
        /\ \A c \in heard'[obj[t]] :
             c # fun[t] /\ c \in heard[obj[t]] /\ view'[obj[t]][c] = view[obj[t]][c]
    BY <1>0, <2>1 DEF TypeOK, WithKey, Keys
  <2>4. \A v \in Var : \A k : HasHeard(v, k)' => HasHeard(v, k) /\ Believed(v, k)' = Believed(v, k)
    BY <2>2, <2>3 DEF HasHeard, Believed, Keys
  <2>5. pc[t] = "add_insert" /\ pc'[t] = "add_return" /\ \A u \in Thread : u # t => pc'[u] = pc[u]
    BY <1>0, <2>1 DEF TypeOK
  <2>6. QED
    BY <1>0, <2>1, <2>2, <2>4, <2>5, ListenersHear DEF Assigning, Writing
<1>4. ASSUME NEW t \in Thread, DelErase(t) \/ ClearAll(t) PROVE HearInv'
  <2>1. /\ pc[t] \in {"del_erase", "clear_all"} /\ pc'[t] = "idle"
        /\ \A u \in Thread : u # t => pc'[u] = pc[u]
        /\ UNCHANGED <<m_val, view, heard, told, obj, val>>
    BY <1>0, <1>4 DEF DelErase, ClearAll, TypeOK
  <2>2. \A v \in Var : v # obj[t] => m_callbacks'[v] = m_callbacks[v]
    BY <1>0, <1>4 DEF DelErase, ClearAll, TypeOK
  <2>3. \A k \in DOMAIN m_callbacks'[obj[t]] :
          k \in Keys(obj[t]) /\ m_callbacks'[obj[t]][k] = m_callbacks[obj[t]][k]
    <3>1. CASE DelErase(t)
      BY <1>0, <3>1 DEF DelErase, WithoutKey, Keys, TypeOK
    <3>2. CASE ClearAll(t)
      BY <1>0, <3>2 DEF ClearAll, TypeOK
    <3>3. QED
      BY <1>4, <3>1, <3>2
  <2>4. \A v \in Var : \A k : HasHeard(v, k)' => HasHeard(v, k) /\ Believed(v, k)' = Believed(v, k)
    BY <2>1, <2>2, <2>3 DEF HasHeard, Believed, Keys
  <2>5. QED
    BY <1>0, <2>1, <2>2, <2>4, ListenersHear DEF Assigning, Writing
<1>5. ASSUME NEW t \in Thread, AddLock(t) \/ AddLoad(t) \/ AddIncr(t) \/ AddReturn(t)
      PROVE  HearInv'
  <2>1. PICK from \in {"add_lock", "add_load", "add_incr", "add_return"},
             to \in {"add_load", "add_incr", "add_insert", "idle"} : Goto(t, from, to)
    BY <1>5 DEF AddLock, WriteLock, AddLoad, AddIncr, AddReturn
  <2>2. UNCHANGED <<m_val, m_callbacks, view, heard, told, obj, val>>
    BY <1>5 DEF AddLock, AddLoad, AddIncr, AddReturn
  <2>3. QED
    BY <1>0, <2>1, <2>2, QuietHears DEF Assigning
<1>6. ASSUME NEW t \in Thread, \/ GetLock(t) \/ GetLo(t) \/ GetHi(t) \/ DelLock(t)
                               \/ ClearLock(t) \/ FindLock(t) \/ Find(t)
      PROVE  HearInv'
  <2>1. PICK from \in Label \ ({"notify"} \cup Assigning),
             to \in Label \ ({"notify"} \cup Assigning) : Goto(t, from, to)
    BY <1>6 DEF GetLock, GetLo, GetHi, DelLock, ClearLock, FindLock, Find, ReadLock, WriteLock,
       Label, Assigning
  <2>2. UNCHANGED <<m_val, m_callbacks, view, heard, told, obj, val>>
    BY <1>6 DEF GetLock, GetLo, GetHi, DelLock, ClearLock, FindLock, Find
  <2>3. QED
    BY <1>0, <2>1, <2>2, QuietHears
<1>7. CASE UNCHANGED vars
  BY <1>7 DEF HearInv, HeardIsHeld, Settled, PassTells, AllTold, HalfWritten, HasHeard, Believed,
     Told, Keys
<1>8. QED
  BY <1>1, <1>2, <1>3, <1>4, <1>5, <1>6, <1>7 DEF Next, Step, Add, Finished

(* When the setValues are over, what a listener was last told is the value *)
(* of its object, if one thread calls setValue and no listener throws.     *)
THEOREM ListenersAgree ==
  ASSUME OneSetter, Thrower = {} PROVE Spec => []HeardIsHeld
<1>1. Init => SettersChange /\ HearInv
  BY DEF Init, SettersChange, Changing, Assigning, HearInv, HeardIsHeld, PassTells, AllTold,
     HalfWritten, Keys
<1>2. Inv /\ SettersChange /\ HearInv /\ [Next]_vars => SettersChange' /\ HearInv'
  BY NextChange, NextHears DEF Inv
<1>3. HearInv => HeardIsHeld
  BY DEF HearInv
<1>4. QED
  BY <1>1, <1>2, <1>3, Invariance, PTL DEF Spec
=============================================================================
