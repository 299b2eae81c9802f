-------------------------------- MODULE Thread -------------------------------
(***************************************************************************)
(* Class Thread (src/src/threads.hpp, threads.cpp): a constructor that     *)
(* starts a pthread and waits on a Semaphore until the new thread has      *)
(* taken what it needs from the object, join, a destructor that detaches,  *)
(* and the names of threads.                                               *)
(*                                                                         *)
(* The threads of the program are main and, for each Thread object, the    *)
(* pthread it starts, which is called by the object's name.  A callback    *)
(* may use Thread objects too, so each thread has a pc: "idle" is a thread *)
(* that runs code of its own.  Objects are held by Thread::ptr, so none is *)
(* destroyed while another thread is inside one of its methods; the new    *)
(* thread itself holds only a raw pointer.                                 *)
(*                                                                         *)
(* A definition named "...Mutant" is the code with one mistake in it; no   *)
(* specification uses it.                                                  *)
(***************************************************************************)
EXTENDS Naturals

CONSTANTS
  Obj,        \* the Thread objects a run may create
  Main,       \* the thread that runs main()
  NoObj,      \* nullptr
  Name,       \* the names given to threads
  Unknown     \* "UNKNOWN", the name of a thread that was given none

Actor == Obj \cup {Main}

ASSUME ObjAssumption == Main \notin Obj /\ NoObj \notin Actor /\ Unknown \notin Name

VARIABLES
  object,         \* object[o]: "none", "alive" from the constructor on, "gone"
  m_id,           \* m_id[o]: has the id been stored
  m_thread,       \* m_thread[o]: is the handle non-zero
  m_callback,     \* m_callback[o]: does it hold the function
  m_name,
  m_semaphore,
  t_thread,       \* thread_local: t_thread[a], the object of thread a
  t_thread_name,  \* thread_local
  pthread,        \* pthread[o]: "none", "joinable", "joined" or "detached"
  pc,             \* where each thread is
  on,             \* on[a], the object whose method thread a executes
  overlapped,     \* history: overlapped[o], two threads have been inside join of o at once
  interrupted     \* history: interrupted[o], a signal has ended the constructor of o

fields == <<m_id, m_thread, m_callback, m_name, m_semaphore>>
locals == <<t_thread, t_thread_name>>
history == <<overlapped, interrupted>>
vars == <<object, fields, locals, pthread, pc, on, history>>

Init ==
  /\ object = [o \in Obj |-> "none"]
  /\ m_id = [o \in Obj |-> FALSE]
  /\ m_thread = [o \in Obj |-> FALSE]
  /\ m_callback = [o \in Obj |-> FALSE]
  /\ m_name = [o \in Obj |-> Unknown]
  /\ m_semaphore = [o \in Obj |-> 0]
  /\ t_thread = [a \in Actor |-> NoObj]
  /\ t_thread_name = [a \in Actor |-> Unknown]
  /\ pthread = [o \in Obj |-> "none"]
  /\ pc = [a \in Actor |-> IF a = Main THEN "idle" ELSE "none"]
  /\ on = [a \in Actor |-> NoObj]
  /\ overlapped = [o \in Obj |-> FALSE]
  /\ interrupted = [o \in Obj |-> FALSE]

Goto(a, from, to) == pc[a] = from /\ pc' = [pc EXCEPT ![a] = to]

(* The constructor of the object has returned to its caller. *)
Built(o) ==
  object[o] = "alive" /\ \A a \in Actor : on[a] = o => pc[a] \notin {"create", "wait"}

-----------------------------------------------------------------------------
(* Semaphore *)

PostTwiceMutant(o) == m_semaphore' = [m_semaphore EXCEPT ![o] = @ + 2]

Post(o) == m_semaphore' = [m_semaphore EXCEPT ![o] = @ + 1]

WaitOk(o) == m_semaphore[o] > 0 /\ m_semaphore' = [m_semaphore EXCEPT ![o] = @ - 1]

-----------------------------------------------------------------------------
(* The constructor *)

CallCtor(a, o, name) ==
  /\ Goto(a, "idle", "create")
  /\ object[o] = "none"
  /\ object' = [object EXCEPT ![o] = "alive"]
  /\ m_name' = [m_name EXCEPT ![o] = name]   \* Unknown stands for name.empty()
  /\ m_callback' = [m_callback EXCEPT ![o] = TRUE]
  /\ on' = [on EXCEPT ![a] = o]
  /\ UNCHANGED <<m_id, m_thread, m_semaphore, locals, pthread, history>>

(* pthread_create stores the handle and lets the new thread run. *)
Create(a) ==
  LET o == on[a] IN
  /\ pc[a] = "create"
  /\ pc' = [pc EXCEPT ![a] = "wait", ![o] = "run_name"]
  /\ pthread' = [pthread EXCEPT ![o] = "joinable"]
  /\ m_thread' = [m_thread EXCEPT ![o] = TRUE]
  /\ UNCHANGED <<object, m_id, m_callback, m_name, m_semaphore, locals, on, history>>

(* The constructor throws: the members are destroyed, ~Thread is not called. *)
CreateFails(a) ==
  /\ Goto(a, "create", "idle")
  /\ object' = [object EXCEPT ![on[a]] = "gone"]
  /\ UNCHANGED <<fields, locals, pthread, on, history>>

CtorWaitMutant(a) ==
  /\ Goto(a, "wait", "idle")
  /\ UNCHANGED <<object, fields, locals, pthread, on, history>>

CtorWait(a) ==
  /\ Goto(a, "wait", "idle")
  /\ WaitOk(on[a])
  /\ UNCHANGED <<object, m_id, m_thread, m_callback, m_name, locals, pthread, on, history>>

(* A signal: sem_wait returns EINTR, Semaphore::wait throws, and so does the *)
(* constructor.  The new thread goes on with what the memory still holds.    *)
CtorInterrupted(a) ==
  /\ Goto(a, "wait", "idle")
  /\ object' = [object EXCEPT ![on[a]] = "gone"]
  /\ interrupted' = [interrupted EXCEPT ![on[a]] = TRUE]
  /\ UNCHANGED <<fields, locals, pthread, on, overlapped>>

-----------------------------------------------------------------------------
(* Thread::run, executed by the new thread o *)

RunName(o) ==
  /\ Goto(o, "run_name", "run_id")
  /\ t_thread' = [t_thread EXCEPT ![o] = o]
  /\ t_thread_name' = [t_thread_name EXCEPT ![o] = m_name[o]]
  /\ UNCHANGED <<object, fields, pthread, on, history>>

RunId(o) ==
  /\ Goto(o, "run_id", "run_swap")
  /\ m_id' = [m_id EXCEPT ![o] = TRUE]
  /\ UNCHANGED <<object, m_thread, m_callback, m_name, m_semaphore, locals, pthread, on, history>>

RunSwapCopiesMutant(o) ==
  /\ Goto(o, "run_swap", "run_notify")
  /\ UNCHANGED <<object, fields, locals, pthread, on, history>>

RunSwap(o) ==
  /\ Goto(o, "run_swap", "run_notify")
  /\ m_callback' = [m_callback EXCEPT ![o] = FALSE]
  /\ UNCHANGED <<object, m_id, m_thread, m_name, m_semaphore, locals, pthread, on, history>>

RunNotifyMutant(o) ==
  /\ Goto(o, "run_notify", "idle")
  /\ UNCHANGED <<object, fields, locals, pthread, on, history>>

(* After notify() the thread does not use the object any more; it calls the *)
(* callback it has taken.                                                   *)
RunNotify(o) ==
  /\ Goto(o, "run_notify", "idle")
  /\ Post(o)
  /\ UNCHANGED <<object, m_id, m_thread, m_callback, m_name, locals, pthread, on, history>>

(* The callback returns and so does run. *)
RunReturn(o) ==
  /\ Goto(o, "idle", "over")
  /\ UNCHANGED <<object, fields, locals, pthread, on, history>>

-----------------------------------------------------------------------------
(* join.  When m_thread is 0 it does nothing. *)

Joining == {"join_call", "joining", "join_clear"}

Joins(a, o) == on[a] = o /\ pc[a] \in Joining

JoinCheck(a, o) ==
  /\ Built(o)
  /\ m_thread[o]
  /\ Goto(a, "idle", "join_call")
  /\ on' = [on EXCEPT ![a] = o]
  /\ overlapped' = [overlapped EXCEPT ![o] = @ \/ \E b \in Actor : Joins(b, o)]
  /\ UNCHANGED <<object, fields, locals, pthread, interrupted>>

(* pthread_join refuses the thread itself, a thread that another one is     *)
(* joining, and (at best) a handle that is not joinable: join throws.       *)
Refused(a) ==
  LET o == on[a] IN
  \/ o = a
  \/ pthread[o] # "joinable"
  \/ \E b \in Actor : on[b] = o /\ pc[b] = "joining"

JoinCall(a) ==
  /\ \/ Goto(a, "join_call", "joining") /\ ~ Refused(a)
     \/ Goto(a, "join_call", "idle") /\ Refused(a)
  /\ UNCHANGED <<object, fields, locals, pthread, on, history>>

JoinWaitMutant(a) ==
  /\ Goto(a, "joining", "join_clear")
  /\ pthread' = [pthread EXCEPT ![on[a]] = "joined"]
  /\ UNCHANGED <<object, fields, locals, on, history>>

JoinWaitPollsMutant(a) ==
  /\ pc[a] = "joining"
  /\ m_semaphore[on[a]] = 0
  /\ UNCHANGED vars

JoinWait(a) ==
  /\ Goto(a, "joining", "join_clear")
  /\ pc[on[a]] = "over"
  /\ pthread' = [pthread EXCEPT ![on[a]] = "joined"]
  /\ UNCHANGED <<object, fields, locals, on, history>>

JoinClearMutant(a) ==
  /\ Goto(a, "join_clear", "idle")
  /\ UNCHANGED <<object, fields, locals, pthread, on, history>>

(* m_thread = 0 *)
JoinClear(a) ==
  /\ Goto(a, "join_clear", "idle")
  /\ m_thread' = [m_thread EXCEPT ![on[a]] = FALSE]
  /\ UNCHANGED <<object, m_id, m_callback, m_name, m_semaphore, locals, pthread, on, history>>

-----------------------------------------------------------------------------
(* ~Thread, when the last Thread::ptr goes *)
LastPtrGoes(a, o) ==
  /\ pc[a] = "idle"
  /\ Built(o)
  /\ \A b \in Actor : ~ Joins(b, o)

DestroyMutant(a, o) ==
  /\ LastPtrGoes(a, o)
  /\ object' = [object EXCEPT ![o] = "gone"]
  /\ UNCHANGED <<fields, locals, pthread, pc, on, history>>

Destroy(a, o) ==
  /\ LastPtrGoes(a, o)
  /\ object' = [object EXCEPT ![o] = "gone"]
  /\ pthread' = [pthread EXCEPT ![o] = IF m_thread[o] THEN "detached" ELSE @]
  /\ UNCHANGED <<fields, locals, pc, on, history>>

(* SetName, with a name that is not empty *)
SetNameMutant(a, name) ==
  /\ pc[a] = "idle"
  /\ t_thread_name' = [t_thread_name EXCEPT ![a] = name]
  /\ UNCHANGED <<object, fields, t_thread, pthread, pc, on, history>>

SetName(a, name) ==
  /\ pc[a] = "idle"
  /\ \/ t_thread[a] = NoObj /\ UNCHANGED m_name
     \/ t_thread[a] # NoObj /\ m_name' = [m_name EXCEPT ![t_thread[a]] = name]
  /\ t_thread_name' = [t_thread_name EXCEPT ![a] = name]
  /\ UNCHANGED <<object, m_id, m_thread, m_callback, m_semaphore, t_thread, pthread,
                 pc, on, history>>

-----------------------------------------------------------------------------
Ctor(a) == Create(a) \/ CreateFails(a) \/ CtorWait(a) \/ CtorInterrupted(a)

Run(o) == RunName(o) \/ RunId(o) \/ RunSwap(o) \/ RunNotify(o)

JoinStep(a) == JoinCall(a) \/ JoinWait(a) \/ JoinClear(a)

Call(a) ==
  \/ \E o \in Obj, name \in Name \cup {Unknown} : CallCtor(a, o, name)
  \/ \E o \in Obj : JoinCheck(a, o) \/ Destroy(a, o)
  \/ \E name \in Name : SetName(a, name)

Next ==
  \/ \E a \in Actor : Call(a) \/ Ctor(a) \/ JoinStep(a)
  \/ \E o \in Obj : Run(o) \/ RunReturn(o)

Spec == Init /\ [][Next]_vars

(* The system runs every thread; what a callback calls is its own choice,   *)
(* but it returns.  No signal has to come.                                  *)
FairSpec ==
  /\ Spec
  /\ \A a \in Actor : /\ WF_vars(Create(a) \/ CreateFails(a))
                      /\ WF_vars(CtorWait(a))
                      /\ WF_vars(JoinStep(a))
  /\ \A o \in Obj : WF_vars(Run(o)) /\ SF_vars(RunReturn(o))
-----------------------------------------------------------------------------
(* Properties *)

Starting == {"run_name", "run_id", "run_swap", "run_notify"}
Label == {"none", "idle", "create", "wait", "over"} \cup Starting \cup Joining

(* Type invariant.  The semaphore of a Thread is 0 or 1.                    *)
TypeOK ==
  /\ object \in [Obj -> {"none", "alive", "gone"}]
  /\ m_id \in [Obj -> BOOLEAN]
  /\ m_thread \in [Obj -> BOOLEAN]
  /\ m_callback \in [Obj -> BOOLEAN]
  /\ m_name \in [Obj -> Name \cup {Unknown}]
  /\ m_semaphore \in [Obj -> 0..1]
  /\ t_thread \in [Actor -> Obj \cup {NoObj}]
  /\ t_thread_name \in [Actor -> Name \cup {Unknown}]
  /\ pthread \in [Obj -> {"none", "joinable", "joined", "detached"}]
  /\ pc \in [Actor -> Label]
  /\ on \in [Actor -> Obj \cup {NoObj}]
  /\ overlapped \in [Obj -> BOOLEAN]
  /\ interrupted \in [Obj -> BOOLEAN]

(* When the constructor has returned, the new thread has stored its id,     *)
(* taken the callback out of the object and is past notify(): getID() is    *)
(* never read before it is written, and the references the callback holds   *)
(* are not kept by the object.                                              *)
HandshakeDone ==
  \A o \in Obj : Built(o) =>
    m_id[o] /\ ~ m_callback[o] /\ m_semaphore[o] = 0 /\ pc[o] \notin Starting \cup {"none"}

(* run uses the object it was given only while the object exists: the       *)
(* creator cannot destroy it before the new thread has what it needs.  A    *)
(* signal that interrupts the constructor is the only thing that can.       *)
StartsAlive == \A o \in Obj : pc[o] \in Starting => object[o] = "alive" \/ interrupted[o]

(* pthread_join and pthread_detach are given handles that are still         *)
(* joinable, whichever threads join an object, one after the other, and     *)
(* destroy it: no pthread is joined twice, or joined and detached.  Only an *)
(* object that two threads have been joining at once is exempt: each tests  *)
(* m_thread before the other clears it.                                     *)
HandleValid ==
  /\ \A a \in Actor : pc[a] = "join_call" /\ ~ overlapped[on[a]] => pthread[on[a]] = "joinable"
  /\ \A o \in Obj :
       /\ object[o] = "alive" /\ m_thread[o] /\ ~ overlapped[o]
       /\ \A a \in Actor : on[a] = o => pc[a] # "join_clear"
       => pthread[o] = "joinable"

(* No pthread is left joinable when its object is gone: nobody could join   *)
(* it any more, and its stack would never be freed.  An interrupted         *)
(* constructor leaves it so.                                                *)
NoneLeaked == \A o \in Obj : object[o] = "gone" => pthread[o] # "joinable" \/ interrupted[o]

(* GetThis() of a thread that runs dangles in two cases only: ~Thread found *)
(* it not joined and has detached it, or a signal has interrupted its       *)
(* constructor.  Where a join has returned, the thread was over before the  *)
(* object went.                                                             *)
ThisAlive ==
  \A o \in Obj : object[o] = "gone" /\ pc[o] \notin {"none", "over"} =>
                 pthread[o] = "detached" \/ interrupted[o]

(* GetName() of a thread and getName() of its object give the same name.    *)
NamesAgree ==
  \A o \in Obj :
    object[o] = "alive" /\ pc[o] \notin {"none", "run_name"} => t_thread_name[o] = m_name[o]

(* The life of the thread of each object, and what the program may do with  *)
(* the object.                                                              *)
lifeOf ==
  [o \in Obj |-> IF pc[o] \in Starting \cup {"none"} THEN "new"
                 ELSE IF pc[o] = "over" THEN "over" ELSE "running"]

handleOf ==
  [o \in Obj |-> IF \/ pthread[o] = "none" \/ interrupted[o]
                    \/ object[o] = "alive" /\ ~ Built(o) THEN "none"
                 ELSE IF object[o] = "gone" THEN "dropped"
                 ELSE IF m_thread[o] THEN "held" ELSE "joined"]

Life == INSTANCE ThreadLife WITH life <- lifeOf, handle <- handleOf

(* The constructor returns when the thread has begun, the callback is       *)
(* called once, and join returns when it is over.                           *)
ImplementsLife == Life!Spec

(* A constructor returns or throws. *)
CtorReturns == \A a \in Actor : pc[a] = "wait" ~> pc[a] # "wait"

(* Threads that wait for each other in a circle. *)
Circle == \E S \in SUBSET Obj \ {{}} : \A o \in S : pc[o] = "joining" /\ on[o] \in S

(* join returns or throws, whoever else creates, joins and destroys         *)
(* threads, unless threads join each other in a circle.                     *)
JoinReturns == \A a \in Actor : pc[a] \in Joining ~> pc[a] \notin Joining \/ Circle
=============================================================================
