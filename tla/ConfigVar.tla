------------------------------ MODULE ConfigVar ------------------------------
(***************************************************************************)
(* The objects of class ConfigVar<T> (src/src/config.hpp), for one type T, *)
(* used by several threads at once.                                        *)
(*                                                                         *)
(* A value of T is a record of two fields that the compiler copies and     *)
(* compares one after the other, as it does for the class Person of        *)
(* test/config_test.cpp: setValue assigns m_val while it holds only a      *)
(* shared lock, so the order in which fields are read and written matters. *)
(*                                                                         *)
(* Each step of a thread is one access to memory shared with others: the   *)
(* acquisition of a lock, the load or store of a field, one call of a      *)
(* listener.  A guard is released in the same step as the last access of   *)
(* its scope.                                                              *)
(*                                                                         *)
(* A definition named "...Mutant" is the code with one mistake in it, kept *)
(* to show that a property depends on the line it changes; no              *)
(* specification uses it.                                                  *)
(***************************************************************************)
EXTENDS Naturals, FiniteSets, Locks

CONSTANTS
  Thread,     \* the threads of the program
  Getter,     \* those that call getValue, toString and getListener
  Setter,     \* those that call setValue, directly or through fromString
  Registrar,  \* those that call addListener, delListener and clearListener
  Var,        \* the ConfigVar<T> objects; they share the counter s_fun_id
  Val,        \* the values of one field of T
  Default,    \* the default_value, in each field
  Callback,   \* the functions registered as listeners
  Thrower,    \* the listeners that may throw an exception
  MaxOps      \* bound on the calls a thread makes

ASSUME RolesAssumption ==
  /\ Getter \subseteq Thread /\ Setter \subseteq Thread /\ Registrar \subseteq Thread
  /\ NoThread \notin Thread

ASSUME ValueAssumption ==
  /\ Default \in Val
  /\ Var # {} /\ Callback # {} /\ Thrower \subseteq Callback
  /\ MaxOps \in Nat

VARIABLES
  m_val,        \* m_val[v], the value of v, field by field
  m_callbacks,  \* m_callbacks[v], a function from the keys in use to listeners
  m_lock,       \* m_lock[v], the Mutex_RW of v
  s_fun_id,     \* the static counter in addListener, one for all of Var
  pc,           \* where each thread is
  obj,          \* obj[t], the ConfigVar whose method t executes
  val,          \* val[t], the argument of setValue
  key,          \* key[t], the iterator of setValue, or the key of a listener
  fun,          \* fun[t], the listener t registers
  got,          \* got[t], what t has copied in getValue
  ops,          \* ops[t], the calls t has made
  view,         \* history: view[v][c], the value listener c believes v has
  heard,        \* history: heard[v], the listeners called since they registered
  told,         \* history: told[t], the keys t has called in its loop
  granted       \* history: what addListener returned and nobody removed yet

memory == <<m_val, m_callbacks, s_fun_id>>
frames == <<obj, val, key, fun, got>>
history == <<view, heard, told, granted>>
vars == <<memory, m_lock, pc, frames, ops, history>>

Whole(x) == [lo |-> x, hi |-> x]

IsWhole(r) == r.lo = r.hi

(* The keys of std::map m_callbacks, and the iterator that follows key k. *)
(* Keys start at 1 because addListener increments before it uses the      *)
(* counter; 0 stands for end().                                           *)
End == 0

Keys(v) == DOMAIN m_callbacks[v]

NextKey(v, k) ==
  LET later == {j \in Keys(v) : j > k}
  IN  IF later = {} THEN End ELSE CHOOSE j \in later : \A i \in later : j <= i

WithKey(f, k, c) == [j \in DOMAIN f \cup {k} |-> IF j = k THEN c ELSE f[j]]

WithoutKey(f, k) == [j \in DOMAIN f \ {k} |-> f[j]]

(* ConfigVar::ConfigVar *)
Init ==
  /\ m_val = [v \in Var |-> Whole(Default)]
  /\ m_callbacks = [v \in Var |-> [k \in {} |-> NoThread]]
  /\ m_lock = [v \in Var |-> RWFree]
  /\ s_fun_id = 0
  /\ pc = [t \in Thread |-> "idle"]
  /\ obj = [t \in Thread |-> CHOOSE v \in Var : TRUE]
  /\ val = [t \in Thread |-> Default]
  /\ key = [t \in Thread |-> End]
  /\ fun = [t \in Thread |-> CHOOSE c \in Callback : TRUE]
  /\ got = [t \in Thread |-> Whole(Default)]
  /\ ops = [t \in Thread |-> 0]
  /\ view = [v \in Var |-> [c \in Callback |-> Whole(Default)]]
  /\ heard = [v \in Var |-> {}]
  /\ told = [t \in Thread |-> {}]
  /\ granted = {}

Goto(t, from, to) == pc[t] = from /\ pc' = [pc EXCEPT ![t] = to]

(* A thread enters a method of v. *)
Enter(t, v, first) ==
  /\ Goto(t, "idle", first)
  /\ ops[t] < MaxOps
  /\ ops' = [ops EXCEPT ![t] = @ + 1]
  /\ obj' = [obj EXCEPT ![t] = v]
  /\ UNCHANGED <<memory, m_lock, got, history>>

ReadLock(t, from, to) ==
  /\ Goto(t, from, to)
  /\ CanRdLock(m_lock[obj[t]])
  /\ m_lock' = [m_lock EXCEPT ![obj[t]] = RdLocked(@, t)]

WriteLock(t, from, to) ==
  /\ Goto(t, from, to)
  /\ CanWrLock(m_lock[obj[t]])
  /\ m_lock' = [m_lock EXCEPT ![obj[t]] = WrLocked(@, t)]

Release(t) == m_lock' = [m_lock EXCEPT ![obj[t]] = RWUnlocked(@, t)]

-----------------------------------------------------------------------------
(* getValue and toString: copy m_val under the read lock. *)
CallGet(t) ==
  /\ t \in Getter
  /\ \E v \in Var : Enter(t, v, "get_lock")
  /\ UNCHANGED <<val, key, fun>>

GetLock(t) ==
  /\ ReadLock(t, "get_lock", "get_lo")
  /\ UNCHANGED <<memory, frames, ops, history>>

GetLo(t) ==
  /\ Goto(t, "get_lo", "get_hi")
  /\ got' = [got EXCEPT ![t] = [lo |-> m_val[obj[t]].lo, hi |-> @.hi]]
  /\ UNCHANGED <<memory, m_lock, obj, val, key, fun, ops, history>>

GetHi(t) ==
  /\ Goto(t, "get_hi", "idle")
  /\ got' = [got EXCEPT ![t] = [lo |-> @.lo, hi |-> m_val[obj[t]].hi]]
  /\ Release(t)
  /\ UNCHANGED <<memory, obj, val, key, fun, ops, history>>

-----------------------------------------------------------------------------
(* setValue.  fromString calls it with the value it has parsed; a string   *)
(* that does not parse leaves the object alone.                            *)
CallSet(t) ==
  /\ t \in Setter
  /\ \E v \in Var, x \in Val :
        /\ Enter(t, v, "cmp_lo")
        /\ val' = [val EXCEPT ![t] = x]
  /\ UNCHANGED <<key, fun>>

(* val == m_val, without a lock: equal in the first field, or go on ... *)
CompareLo(t) ==
  /\ \/ m_val[obj[t]].lo = val[t] /\ Goto(t, "cmp_lo", "cmp_hi")
     \/ m_val[obj[t]].lo # val[t] /\ Goto(t, "cmp_lo", "set_lock")
  /\ UNCHANGED <<memory, m_lock, frames, ops, history>>

(* ... and equal in the second one too: nothing to do. *)
CompareHi(t) ==
  /\ \/ m_val[obj[t]].hi = val[t] /\ Goto(t, "cmp_hi", "idle")
     \/ m_val[obj[t]].hi # val[t] /\ Goto(t, "cmp_hi", "set_lock")
  /\ UNCHANGED <<memory, m_lock, frames, ops, history>>

StartPass(t, k) ==
  /\ key' = [key EXCEPT ![t] = k]
  /\ told' = [told EXCEPT ![t] = {}]
  /\ UNCHANGED <<memory, obj, val, fun, got, ops, view, heard, granted>>

SetLockSharedMutant(t) ==
  ReadLock(t, "set_lock", "notify") /\ StartPass(t, NextKey(obj[t], End))

SetLockSkipsMutant(t) ==
  /\ WriteLock(t, "set_lock", "notify")
  /\ StartPass(t, NextKey(obj[t], NextKey(obj[t], End)))

SetLock(t) ==
  WriteLock(t, "set_lock", "notify") /\ StartPass(t, NextKey(obj[t], End))

(* One iteration of the loop over m_callbacks: the listener is called with *)
(* the value m_val still has and the value to come.                        *)
CallListener(t, new) ==
  LET c == m_callbacks[obj[t]][key[t]] IN
  /\ Goto(t, "notify", "notify")
  /\ key[t] # End
  /\ view' = [view EXCEPT ![obj[t]][c] = new]
  /\ heard' = [heard EXCEPT ![obj[t]] = @ \cup {c}]
  /\ told' = [told EXCEPT ![t] = @ \cup {key[t]}]
  /\ key' = [key EXCEPT ![t] = NextKey(obj[t], key[t])]
  /\ UNCHANGED <<memory, m_lock, obj, val, fun, got, ops, granted>>

Notify(t) == CallListener(t, Whole(val[t]))

(* A listener throws: the guard unlocks and the exception leaves setValue. *)
NotifyThrowsMutant(t) ==
  /\ Goto(t, "notify", "idle")
  /\ key[t] # End
  /\ m_callbacks[obj[t]][key[t]] \in Thrower
  /\ UNCHANGED <<memory, m_lock, frames, ops, history>>

NotifyThrows(t) ==
  /\ Goto(t, "notify", "idle")
  /\ key[t] # End
  /\ m_callbacks[obj[t]][key[t]] \in Thrower
  /\ Release(t)
  /\ UNCHANGED <<memory, frames, ops, history>>

NotifyEnd(t) ==
  /\ Goto(t, "notify", "assign_lock")
  /\ key[t] = End
  /\ Release(t)
  /\ UNCHANGED <<memory, frames, ops, history>>

(* m_val = val, under a ReadLock. *)
AssignLockMutant(t) ==
  /\ Goto(t, "assign_lock", "assign_lo")
  /\ UNCHANGED <<memory, m_lock, frames, ops, history>>

AssignLock(t) ==
  /\ ReadLock(t, "assign_lock", "assign_lo")
  /\ UNCHANGED <<memory, frames, ops, history>>

AssignLo(t) ==
  /\ Goto(t, "assign_lo", "assign_hi")
  /\ m_val' = [m_val EXCEPT ![obj[t]] = [lo |-> val[t], hi |-> @.hi]]
  /\ UNCHANGED <<m_callbacks, s_fun_id, m_lock, frames, ops, history>>

AssignHi(t) ==
  /\ Goto(t, "assign_hi", "idle")
  /\ m_val' = [m_val EXCEPT ![obj[t]] = [lo |-> @.lo, hi |-> val[t]]]
  /\ Release(t)
  /\ UNCHANGED <<m_callbacks, s_fun_id, frames, ops, history>>

-----------------------------------------------------------------------------
(* addListener.  The counter is static, the lock belongs to the object.    *)
(* The caller is taken to know the value v has when it registers.          *)
CallAdd(t) ==
  /\ t \in Registrar
  /\ \E v \in Var, c \in Callback :
        /\ Enter(t, v, "add_lock")
        /\ fun' = [fun EXCEPT ![t] = c]
  /\ UNCHANGED <<val, key>>

AddLockMutant(t) ==
  /\ ReadLock(t, "add_lock", "add_load")
  /\ UNCHANGED <<memory, frames, ops, history>>

AddLock(t) ==
  /\ WriteLock(t, "add_lock", "add_load")
  /\ UNCHANGED <<memory, frames, ops, history>>

(* ++s_fun_id is a load and a store. *)
AddLoad(t) ==
  /\ Goto(t, "add_load", "add_incr")
  /\ key' = [key EXCEPT ![t] = s_fun_id]
  /\ UNCHANGED <<memory, m_lock, obj, val, fun, got, ops, history>>

AddIncr(t) ==
  /\ Goto(t, "add_incr", "add_insert")
  /\ s_fun_id' = key[t] + 1
  /\ UNCHANGED <<m_val, m_callbacks, m_lock, frames, ops, history>>

AddInsert(t) ==
  /\ Goto(t, "add_insert", "add_return")
  /\ m_callbacks' = [m_callbacks EXCEPT ![obj[t]] = WithKey(@, s_fun_id, fun[t])]
  /\ view' = [view EXCEPT ![obj[t]][fun[t]] = m_val[obj[t]]]
  /\ heard' = [heard EXCEPT ![obj[t]] = @ \ {fun[t]}]
  /\ UNCHANGED <<m_val, s_fun_id, m_lock, frames, ops, told, granted>>

AddReturn(t) ==
  /\ Goto(t, "add_return", "idle")
  /\ key' = [key EXCEPT ![t] = s_fun_id]
  /\ granted' = granted \cup {<<obj[t], s_fun_id, fun[t]>>}
  /\ Release(t)
  /\ UNCHANGED <<memory, obj, val, fun, got, ops, view, heard, told>>

-----------------------------------------------------------------------------
(* delListener, with a key some addListener returned. *)
CallDel(t) ==
  /\ t \in Registrar
  /\ \E g \in granted :
        /\ Enter(t, g[1], "del_lock")
        /\ key' = [key EXCEPT ![t] = g[2]]
  /\ UNCHANGED <<val, fun>>

DelLockMutant(t) ==
  /\ Goto(t, "del_lock", "del_erase")
  /\ UNCHANGED <<memory, m_lock, frames, ops, history>>

DelLock(t) ==
  /\ WriteLock(t, "del_lock", "del_erase")
  /\ UNCHANGED <<memory, frames, ops, history>>

DelErase(t) ==
  /\ Goto(t, "del_erase", "idle")
  /\ m_callbacks' = [m_callbacks EXCEPT ![obj[t]] = WithoutKey(@, key[t])]
  /\ granted' = {g \in granted : g[1] # obj[t] \/ g[2] # key[t]}
  /\ Release(t)
  /\ UNCHANGED <<m_val, s_fun_id, frames, ops, view, heard, told>>

(* clearListener *)
CallClear(t) ==
  /\ t \in Registrar
  /\ \E v \in Var : Enter(t, v, "clear_lock")
  /\ UNCHANGED <<val, key, fun>>

ClearLock(t) ==
  /\ WriteLock(t, "clear_lock", "clear_all")
  /\ UNCHANGED <<memory, frames, ops, history>>

ClearAll(t) ==
  /\ Goto(t, "clear_all", "idle")
  /\ m_callbacks' = [m_callbacks EXCEPT ![obj[t]] = [k \in {} |-> NoThread]]
  /\ granted' = {g \in granted : g[1] # obj[t]}
  /\ Release(t)
  /\ UNCHANGED <<m_val, s_fun_id, frames, ops, view, heard, told>>

(* getListener: the listener of a granted key, under the read lock. *)
CallFind(t) ==
  /\ t \in Getter
  /\ \E g \in granted :
        /\ Enter(t, g[1], "find_lock")
        /\ key' = [key EXCEPT ![t] = g[2]]
  /\ UNCHANGED <<val, fun>>

FindLock(t) ==
  /\ ReadLock(t, "find_lock", "find")
  /\ UNCHANGED <<memory, frames, ops, history>>

Find(t) ==
  /\ Goto(t, "find", "idle")
  /\ \/ key[t] \in Keys(obj[t]) /\ fun' = [fun EXCEPT ![t] = m_callbacks[obj[t]][key[t]]]
     \/ key[t] \notin Keys(obj[t]) /\ fun' = fun   \* nullptr
  /\ Release(t)
  /\ UNCHANGED <<memory, obj, val, key, got, ops, history>>

-----------------------------------------------------------------------------
Call(t) == CallGet(t) \/ CallSet(t) \/ CallAdd(t) \/ CallDel(t) \/ CallClear(t) \/ CallFind(t)

Set(t) ==
  \/ CompareLo(t) \/ CompareHi(t)
  \/ SetLock(t) \/ Notify(t) \/ NotifyThrows(t) \/ NotifyEnd(t)
  \/ AssignLock(t) \/ AssignLo(t) \/ AssignHi(t)

Add(t) == AddLock(t) \/ AddLoad(t) \/ AddIncr(t) \/ AddInsert(t) \/ AddReturn(t)

Step(t) ==
  \/ GetLock(t) \/ GetLo(t) \/ GetHi(t)
  \/ Set(t)
  \/ Add(t)
  \/ DelLock(t) \/ DelErase(t)
  \/ ClearLock(t) \/ ClearAll(t)
  \/ FindLock(t) \/ Find(t)

(* Every call has returned and no thread makes another one. *)
Finished ==
  /\ \A t \in Thread : pc[t] = "idle" /\ ops[t] = MaxOps
  /\ UNCHANGED vars

Next == (\E t \in Thread : Call(t) \/ Step(t)) \/ Finished

Spec == Init /\ [][Next]_vars

(* A thread inside a method is scheduled until the method returns; whether *)
(* a thread calls a method is its own choice.                              *)
FairSpec == Spec /\ \A t \in Thread : WF_vars(Step(t))
-----------------------------------------------------------------------------
(* Properties *)

Label == {"idle", "get_lock", "get_lo", "get_hi", "cmp_lo", "cmp_hi",
          "set_lock", "notify", "assign_lock", "assign_lo", "assign_hi",
          "add_lock", "add_load", "add_incr", "add_insert", "add_return",
          "del_lock", "del_erase", "clear_lock", "clear_all", "find_lock", "find"}

(* Where a thread holds the lock of its object for writing, for reading.   *)
Writing == {"notify", "add_load", "add_incr", "add_insert", "add_return",
            "del_erase", "clear_all"}
Reading == {"get_lo", "get_hi", "assign_lo", "assign_hi", "find"}

Field == [lo : Val, hi : Val]

(* Type invariant.  The keys of m_callbacks are never 0: addListener       *)
(* increments the counter before it uses it.                               *)
TypeOK ==
  /\ m_val \in [Var -> Field]
  /\ DOMAIN m_callbacks = Var
  /\ \A v \in Var : /\ Keys(v) \subseteq Nat \ {0}
                    /\ \A k \in Keys(v) : m_callbacks[v][k] \in Callback
  /\ m_lock \in [Var -> RWLockOf(Thread)]
  /\ s_fun_id \in Nat
  /\ pc \in [Thread -> Label]
  /\ obj \in [Thread -> Var]
  /\ val \in [Thread -> Val]
  /\ key \in [Thread -> Nat]
  /\ fun \in [Thread -> Callback]
  /\ got \in [Thread -> Field]
  /\ ops \in [Thread -> Nat]
  /\ view \in [Var -> [Callback -> Field]]
  /\ heard \in [Var -> SUBSET Callback]
  /\ told \in [Thread -> SUBSET Nat]
  /\ granted \subseteq Var \X (Nat \ {0}) \X Callback

(* Where a thread has nothing to do with a lock: outside all methods, in   *)
(* front of a scope, or at the comparison of setValue.                     *)
Waiting == {"get_lock", "set_lock", "assign_lock", "add_lock", "del_lock",
            "clear_lock", "find_lock"}
Comparing == {"cmp_lo", "cmp_hi"}

(* While setValue runs the listeners of an object, every other thread that *)
(* calls a method of the object waits for its lock, or is at the           *)
(* comparison of setValue, which reads m_val without a lock (line 304):    *)
(* none assigns m_val, changes m_callbacks, runs the listeners too or      *)
(* copies the value.                                                       *)
PassIsolated ==
  \A t, u \in Thread :
    t # u /\ obj[t] = obj[u] /\ pc[t] = "notify" => pc[u] \in {"idle"} \cup Waiting \cup Comparing

(* Whatever way a method is left, by its end, by an early return or by the *)
(* exception of a listener, the thread has no lock of any object any more; *)
(* and inside a method it has none but that of its scope.                  *)
LockReleased ==
  \A t \in Thread, v \in Var :
    /\ m_lock[v].writer = t => obj[t] = v /\ pc[t] \in Writing
    /\ t \in m_lock[v].readers => obj[t] = v /\ pc[t] \in Reading

(* The iterator of the loop over m_callbacks always points to an element   *)
(* or to end(): no addListener, delListener or clearListener of another    *)
(* thread invalidates it.                                                  *)
IteratorValid ==
  \A t \in Thread : pc[t] = "notify" => key[t] \in Keys(obj[t]) \cup {End}

(* The loop visits the listeners in the order of their keys, skips none    *)
(* and calls none twice: those called are those before the iterator.       *)
PassVisitsEach ==
  \A t \in Thread : pc[t] = "notify" =>
    told[t] = {k \in Keys(obj[t]) : key[t] = End \/ k < key[t]}

(* All the listeners of one pass are given the same old value: m_val does  *)
(* not change under a loop over m_callbacks.                               *)
OldValueFixed ==
  [][\A t \in Thread : pc[t] = "notify" => m_val'[obj[t]] = m_val[obj[t]]]_vars

(* What addListener returns is the key of the listener it was given, until *)
(* somebody removes it: neither lost nor overwritten.  The code does not   *)
(* keep this for several objects of one type, which count with the static  *)
(* s_fun_id under locks of their own and read it three times.              *)
KeyNamesListener ==
  \A g \in granted : g[2] \in Keys(g[1]) /\ m_callbacks[g[1]][g[2]] = g[3]

(* getValue returns a value that somebody set, never the first field of    *)
(* one and the second field of another.                                    *)
ReadsWhole == \A t \in Thread : pc[t] = "idle" => IsWhole(got[t])

(* No thread is between the first listener call and the last store of a    *)
(* setValue on v.                                                          *)
Settled(v) ==
  \A t \in Thread :
    obj[t] = v => pc[t] \notin {"notify", "assign_lock", "assign_lo", "assign_hi"}

(* Once the setValues in progress are over, the new value a listener was   *)
(* last called with is the value of the object.                            *)
HeardIsHeld ==
  \A v \in Var : Settled(v) =>
    \A k \in Keys(v) :
      m_callbacks[v][k] \in heard[v] => view[v][m_callbacks[v][k]] = m_val[v]

(* Every call returns. *)
CallsReturn == \A t \in Thread : pc[t] # "idle" ~> pc[t] = "idle"
=============================================================================
