------------------------------ MODULE LockOrder ------------------------------
(***************************************************************************)
(* Threads that nest the guards of src/src/threads.hpp.                    *)
(*                                                                         *)
(* A program is what one call does with locks: a sequence of the locks     *)
(* that guards take and drop, from the constructor and the destructor of   *)
(* each guard.  A thread runs one program after another.  Which programs   *)
(* there are is for the modules that use this one to say (SystemLocks).    *)
(*                                                                         *)
(* A lock is a Mutex_RW, or one of Mutex, SpinLock and CASLock, which here *)
(* are the same: the thread waits until nobody holds it, itself included.  *)
(* The calls of Mutex_RW return EDEADLK to a thread that holds the lock    *)
(* for writing; the code does not look at the result, so that it goes on   *)
(* as if it held the lock once more, and the unlock of the inner guard     *)
(* gives up the lock of the outer one.                                     *)
(***************************************************************************)
EXTENDS Naturals, Sequences

CONSTANTS
  Thread,
  NoThread,    \* the holder of a lock that nobody holds
  Lock,
  RW,          \* those of the locks that are a Mutex_RW
  Program,     \* the programs of the threads
  Rank,        \* Rank[l], the place of lock l in the order ...
  MaxRank      \* ... and the last place

Steps == [op : {"read", "write", "drop"}, lock : Lock]

ASSUME LockAssumption ==
  /\ NoThread \notin Thread
  /\ RW \subseteq Lock
  /\ Program \subseteq Seq(Steps)
  /\ MaxRank \in Nat /\ Rank \in [Lock -> 0 .. MaxRank]

VARIABLES
  prog,      \* prog[t], the program that thread t runs
  at,        \* at[t], the next step of it
  holder,    \* holder[l], the thread that holds l alone
  readers    \* readers[l][t], how often t holds l for reading

vars == <<prog, at, holder, readers>>

Init ==
  /\ prog = [t \in Thread |-> <<>>]
  /\ at = [t \in Thread |-> 1]
  /\ holder = [l \in Lock |-> NoThread]
  /\ readers = [l \in Lock |-> [t \in Thread |-> 0]]

Inside(t) == at[t] <= Len(prog[t])

Step(t) == prog[t][at[t]]

-----------------------------------------------------------------------------
Start(t) ==
  /\ ~ Inside(t)
  /\ \E p \in Program : prog' = [prog EXCEPT ![t] = p]
  /\ at' = [at EXCEPT ![t] = 1]
  /\ UNCHANGED <<holder, readers>>

Advance(t, op) ==
  /\ Inside(t) /\ Step(t).op = op
  /\ at' = [at EXCEPT ![t] = @ + 1]
  /\ UNCHANGED prog

(* EDEADLK: the call returns and nothing changes. *)
Again(t, l) == l \in RW /\ holder[l] = t

(* rdlock: nobody writes. *)
CanRead(t, l) == Again(t, l) \/ holder[l] = NoThread

Read(t) ==
  LET l == Step(t).lock IN
  /\ Advance(t, "read")
  /\ CanRead(t, l)
  /\ readers' = IF Again(t, l) THEN readers ELSE [readers EXCEPT ![l][t] = @ + 1]
  /\ UNCHANGED holder

(* lock and wrlock: nobody holds the lock, not even for reading. *)
CanWrite(t, l) ==
  Again(t, l) \/ (holder[l] = NoThread /\ \A u \in Thread : readers[l][u] = 0)

Write(t) ==
  LET l == Step(t).lock IN
  /\ Advance(t, "write")
  /\ CanWrite(t, l)
  /\ holder' = [holder EXCEPT ![l] = t]
  /\ UNCHANGED readers

(* unlock: of a Mutex_RW, the writer's lock if t has it, else a share of t. *)
DropAlone(t) ==
  LET l == Step(t).lock IN
  /\ Advance(t, "drop")
  /\ holder[l] = t \/ l \notin RW
  /\ holder' = [holder EXCEPT ![l] = NoThread]
  /\ UNCHANGED readers

DropShare(t) ==
  LET l == Step(t).lock IN
  /\ Advance(t, "drop")
  /\ holder[l] # t /\ l \in RW
  /\ readers' = [readers EXCEPT ![l][t] = IF @ = 0 THEN 0 ELSE @ - 1]
  /\ UNCHANGED holder

Move(t) == Read(t) \/ Write(t) \/ DropAlone(t) \/ DropShare(t)

Next == \E t \in Thread : Start(t) \/ Move(t)

Spec == Init /\ [][Next]_vars
-----------------------------------------------------------------------------
(* The discipline *)

Takes(p, j) == p[j].op \in {"read", "write"}

(* The guards that are alive before step i of p, as the steps that made     *)
(* them.                                                                    *)
Open(p, i) ==
  {j \in 1 .. i - 1 : /\ Takes(p, j)
                      /\ \A k \in j + 1 .. i - 1 : p[k].op = "drop" => p[k].lock # p[j].lock}

(* A program takes locks in the order of their ranks, drops what it has     *)
(* taken, and ends with no lock.                                            *)
Ordered(p) ==
  /\ \A i \in DOMAIN p :
       IF Takes(p, i) THEN \A j \in Open(p, i) : Rank[p[j].lock] < Rank[p[i].lock]
       ELSE \E j \in Open(p, i) : p[j].lock = p[i].lock
  /\ \A i \in DOMAIN p : p[i].op = "read" => p[i].lock \in RW
  /\ Open(p, Len(p) + 1) = {}

(* ... and takes no lock that is before place r. *)
From(r, p) == p \in Seq(Steps) /\ Ordered(p) /\ \A i \in DOMAIN p : r <= Rank[p[i].lock]

Disciplined == \A p \in Program : Ordered(p)
-----------------------------------------------------------------------------
(* Properties *)

Owns(t, step) == IF step.op = "read" THEN readers[step.lock][t] > 0 ELSE holder[step.lock] = t

(* What t has, nobody else has, unless it is for reading. *)
Excludes(t, step) ==
  \A u \in Thread \ {t} :
    holder[step.lock] # u /\ (step.op = "write" => readers[step.lock][u] = 0)

(* Whoever is in the scope of a guard has its lock, to the end of the scope *)
(* (the guards of threads.hpp 29-113 know it by their own m_locked only),   *)
(* and nobody else has, unless both only read.                              *)
ScopesHold ==
  \A t \in Thread : \A j \in Open(prog[t], at[t]) :
    Owns(t, prog[t][j]) /\ Excludes(t, prog[t][j])

CanMove(t) ==
  LET l == Step(t).lock IN
  CASE Step(t).op = "read" -> CanRead(t, l)
    [] Step(t).op = "write" -> CanWrite(t, l)
    [] OTHER -> TRUE

(* The threads never all wait for each other, or one for itself: whenever   *)
(* some are inside a call, one of them can go on.                           *)
NotStuck ==
  (\E t \in Thread : Inside(t)) => \E t \in Thread : Inside(t) /\ CanMove(t)
=============================================================================
