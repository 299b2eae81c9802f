---------------------------- MODULE ThreadProofs -----------------------------
(***************************************************************************)
(* What the constructor, join and the destructor of Thread guarantee, for  *)
(* any number of threads and objects, whoever joins and destroys them, and *)
(* although pthread_create may fail and signals may interrupt sem_wait.    *)
(***************************************************************************)
EXTENDS Thread, TLAPS

USE ObjAssumption DEF fields, locals, history, vars, Goto, Actor, Joins

Constructing == {"create", "wait"}

(* A thread inside a method is there with an object.  The object that a    *)
(* constructor builds is alive, and it has one constructor.                *)
Callers ==
  /\ \A a \in Actor : pc[a] \in Constructing \cup Joining => on[a] \in Obj
  /\ \A a \in Actor : pc[a] \in Constructing => object[on[a]] = "alive"
  /\ \A a, b \in Actor :
       pc[a] \in Constructing /\ pc[b] \in Constructing /\ on[a] = on[b] => a = b

(* Before pthread_create there is no thread and nobody has notified.       *)
Unborn(o) ==
  pc[o] = "none" /\ pthread[o] = "none" /\ m_semaphore[o] = 0 /\ m_thread[o] = FALSE

BeforeCreate ==
  /\ \A o \in Obj : object[o] = "none" => Unborn(o)
  /\ \A a \in Actor : pc[a] = "create" => Unborn(on[a])

(* The new thread, until it notifies, has a creator that waits, or has lost *)
(* its object to a signal; what it has done so far.                         *)
Stages ==
  /\ \A o \in Obj : pc[o] \in Starting =>
       object[o] = "gone" \/ \E a \in Actor : pc[a] = "wait" /\ on[a] = o
  /\ \A o \in Obj : pc[o] \in Starting => m_semaphore[o] = 0
  /\ \A o \in Obj : pc[o] \in {"run_swap", "run_notify"} => m_id[o] = TRUE
  /\ \A o \in Obj : pc[o] = "run_notify" => m_callback[o] = FALSE

(* The semaphore is 0 until the thread notifies, then 1 until the          *)
(* constructor has taken it.                                               *)
Ready(o, count) ==
  /\ m_semaphore[o] = count
  /\ pc[o] \notin Starting \cup {"none"}
  /\ m_id[o] = TRUE /\ m_callback[o] = FALSE

Handshake ==
  \A a \in Actor : pc[a] = "wait" =>
    \/ pc[on[a]] \in Starting /\ m_semaphore[on[a]] = 0
    \/ Ready(on[a], 1)

AllReady == \A o \in Obj : Built(o) => Ready(o, 0)

Start == Callers /\ BeforeCreate /\ Stages /\ Handshake /\ AllReady

(* Nothing is constructed and nothing has started.                         *)
LEMMA InitStart == Init => TypeOK /\ Start
<1> SUFFICES ASSUME Init PROVE TypeOK /\ Start
  OBVIOUS
<1> USE DEF Init
<1>1. TypeOK
  BY DEF TypeOK, Label
<1>2. \A a \in Actor : pc[a] \in {"idle", "none"}
  OBVIOUS
<1>3. Callers /\ BeforeCreate
  BY <1>2 DEF Callers, BeforeCreate, Unborn, Constructing, Joining
<1>4. Stages /\ Handshake /\ AllReady
  BY <1>2 DEF Stages, Handshake, AllReady, Built, Starting
<1>5. QED
  BY <1>1, <1>3, <1>4 DEF Start

(* The types, which need the handshake: notify finds the semaphore at 0.   *)
LEMMA NextType == TypeOK /\ Start /\ [Next]_vars => TypeOK'
<1> SUFFICES ASSUME TypeOK, Start, [Next]_vars PROVE TypeOK'
  OBVIOUS
<1> USE DEF TypeOK, Label, Starting, Joining
<1>1. ASSUME NEW a \in Actor, Call(a) PROVE TypeOK'
  <2>1. ASSUME NEW o \in Obj, NEW name \in Name \cup {Unknown}, CallCtor(a, o, name)
        PROVE  TypeOK'
    BY <2>1 DEF CallCtor
  <2>2. ASSUME NEW o \in Obj, JoinCheck(a, o) PROVE TypeOK'
    BY <2>2 DEF JoinCheck
  <2>3. ASSUME NEW o \in Obj, Destroy(a, o) PROVE TypeOK'
    BY <2>3 DEF Destroy
  <2>4. ASSUME NEW name \in Name, SetName(a, name) PROVE TypeOK'
    BY <2>4 DEF SetName
  <2>5. QED
    BY <1>1, <2>1, <2>2, <2>3, <2>4 DEF Call
<1>2. ASSUME NEW a \in Actor, Ctor(a) PROVE TypeOK'
  <2>1. on[a] \in Obj
    BY <1>2 DEF Ctor, Create, CreateFails, CtorWait, CtorInterrupted, Start, Callers,
       Constructing
  <2>2. CASE Create(a)
    BY <2>1, <2>2 DEF Create
  <2>3. CASE CreateFails(a) \/ CtorInterrupted(a)
    BY <2>1, <2>3 DEF CreateFails, CtorInterrupted
  <2>4. CASE CtorWait(a)
    BY <2>1, <2>4 DEF CtorWait, WaitOk
  <2>5. QED
    BY <1>2, <2>2, <2>3, <2>4 DEF Ctor
<1>3. ASSUME NEW a \in Actor, JoinStep(a) PROVE TypeOK'
  <2>1. CASE JoinCall(a)
    BY <2>1 DEF JoinCall
  <2>2. CASE JoinWait(a)
    BY <2>2 DEF JoinWait
  <2>3. CASE JoinClear(a)
    BY <2>3 DEF JoinClear
  <2>4. QED
    BY <1>3, <2>1, <2>2, <2>3 DEF JoinStep
<1>4. ASSUME NEW o \in Obj, Run(o) \/ RunReturn(o) PROVE TypeOK'
  <2>1. CASE RunName(o)
    BY <2>1 DEF RunName
  <2>2. CASE RunId(o)
    BY <2>2 DEF RunId
  <2>3. CASE RunSwap(o)
    BY <2>3 DEF RunSwap
  <2>4. CASE RunNotify(o)
    <3>1. m_semaphore[o] = 0
      BY <2>4 DEF RunNotify, Start, Stages
    <3>2. QED
      BY <2>4, <3>1 DEF RunNotify, Post
  <2>5. CASE RunReturn(o)
    BY <2>5 DEF RunReturn
  <2>6. QED
    BY <1>4, <2>1, <2>2, <2>3, <2>4, <2>5 DEF Run
<1>5. CASE UNCHANGED vars
  BY <1>5
<1>6. QED
  BY <1>1, <1>2, <1>3, <1>4, <1>5 DEF Next

(* Every step keeps what the handshake relies on.                         *)
LEMMA NextStart == TypeOK /\ Start /\ [Next]_vars => Start'
<1> SUFFICES ASSUME TypeOK, Start, [Next]_vars PROVE Start'
  OBVIOUS
<1> USE DEF Start, Callers, BeforeCreate, Unborn, Stages, Handshake, AllReady, Ready,
        Constructing, Starting, Joining
<1> USE DEF TypeOK, Label
<1>1. ASSUME NEW a \in Actor, NEW o \in Obj, NEW name \in Name \cup {Unknown},
             CallCtor(a, o, name)
      PROVE  Start'
  <2>1. Callers' /\ BeforeCreate'
    BY <1>1 DEF CallCtor
  <2>2. Stages' /\ Handshake'
    BY <1>1, SMTT(30) DEF CallCtor
  <2>3. AllReady'
    BY <1>1 DEF CallCtor, Built
  <2>4. QED
    BY <2>1, <2>2, <2>3
<1>2. ASSUME NEW a \in Actor, NEW o \in Obj, JoinCheck(a, o) PROVE Start'
  BY <1>2, SMTT(30) DEF JoinCheck, Built
<1>3. ASSUME NEW a \in Actor, NEW o \in Obj, Destroy(a, o) PROVE Start'
  BY <1>3, SMTT(30) DEF Destroy, LastPtrGoes, Built
<1>4. ASSUME NEW a \in Actor, NEW name \in Name, SetName(a, name) PROVE Start'
  BY <1>4 DEF SetName, Built
<1>5. ASSUME NEW a \in Actor, Create(a) PROVE Start'
  <2> DEFINE o == on[a]
  <2>1. o \in Obj /\ pc[a] = "create" /\ pc[o] = "none" /\ m_semaphore[o] = 0
    BY <1>5 DEF Create
  <2>2. \A b \in Actor : b # a /\ pc[b] \in Constructing => on[b] # o
    BY <2>1
  <2>3. /\ pc' = [pc EXCEPT ![a] = "wait", ![o] = "run_name"]
        /\ pthread' = [pthread EXCEPT ![o] = "joinable"]
        /\ m_thread' = [m_thread EXCEPT ![o] = TRUE]
        /\ UNCHANGED <<object, m_id, m_callback, m_semaphore, on>>
    BY <1>5 DEF Create
  <2> HIDE DEF o
  <2>4. Callers'
    BY <2>1, <2>2, <2>3 DEF o
  <2>5. BeforeCreate'
    BY <2>1, <2>2, <2>3 DEF o
  <2>6. Stages'
    <3>1. ASSUME NEW q \in Obj, pc'[q] \in Starting
          PROVE  object'[q] = "gone" \/ \E b \in Actor : pc'[b] = "wait" /\ on'[b] = q
      <4>1. CASE q = o
        BY <2>1, <2>3, <4>1 DEF o
      <4>2. CASE q # o /\ object[q] # "gone"
        <5>1. PICK b \in Actor : pc[b] = "wait" /\ on[b] = q
          BY <2>1, <2>3, <3>1, <4>2
        <5>2. pc'[b] = "wait" /\ on'[b] = q
          BY <2>1, <2>3, <5>1
        <5>3. QED
          BY <5>2
      <4>3. CASE object[q] = "gone"
        BY <2>3, <4>3
      <4>4. QED
        BY <4>1, <4>2, <4>3
    <3>2. ASSUME NEW q \in Obj
          PROVE  /\ pc'[q] \in Starting => m_semaphore'[q] = 0
                 /\ pc'[q] \in {"run_swap", "run_notify"} => m_id'[q] = TRUE
                 /\ pc'[q] = "run_notify" => m_callback'[q] = FALSE
      <4>1. CASE q = o
        BY <2>1, <2>3, <4>1
      <4>2. CASE q # o
        BY <2>1, <2>3, <4>2
      <4>3. QED
        BY <4>1, <4>2
    <3>3. QED
      BY <3>1, <3>2
  <2>7. Handshake'
    BY <2>1, <2>2, <2>3 DEF o
  <2>8. AllReady'
    BY <2>1, <2>2, <2>3, SMTT(30) DEF Built, o
  <2>9. QED
    BY <2>4, <2>5, <2>6, <2>7, <2>8
<1>6. ASSUME NEW a \in Actor, CreateFails(a) \/ CtorInterrupted(a) PROVE Start'
  <2>1. /\ pc[a] \in {"create", "wait"} /\ pc' = [pc EXCEPT ![a] = "idle"]
        /\ object' = [object EXCEPT ![on[a]] = "gone"] /\ on[a] \in Obj
        /\ UNCHANGED <<fields, pthread, on>>
    BY <1>6 DEF CreateFails, CtorInterrupted
  <2>2. Callers' /\ BeforeCreate'
    BY <2>1
  <2>3. Stages'
    <3>1. ASSUME NEW o \in Obj, pc'[o] \in Starting
          PROVE  object'[o] = "gone" \/ \E b \in Actor : pc'[b] = "wait" /\ on'[b] = o
      <4>1. CASE o = on[a] \/ object[o] = "gone"
        BY <2>1, <4>1
      <4>2. CASE o # on[a] /\ object[o] # "gone"
        <5>1. PICK b \in Actor : pc[b] = "wait" /\ on[b] = o
          BY <2>1, <3>1, <4>2
        <5>2. pc'[b] = "wait" /\ on'[b] = o
          BY <2>1, <4>2, <5>1
        <5>3. QED
          BY <5>2
      <4>3. QED
        BY <4>1, <4>2
    <3>2. \A o \in Obj : pc'[o] \in Starting => pc'[o] = pc[o]
      BY <2>1
    <3>3. QED
      BY <2>1, <3>1, <3>2
  <2>4. Handshake'
    <3>1. \A b \in Actor : pc'[b] = "wait" => b # a /\ pc[b] = "wait" /\ on'[b] = on[b]
      BY <2>1
    <3>2. \A b \in Actor : pc[b] = "wait" => on[b] \in Obj
      OBVIOUS
    <3>3. \A o \in Obj :
            /\ pc[o] \in Starting => pc'[o] = pc[o]
            /\ pc[o] \notin Starting \cup {"none"} => pc'[o] \notin Starting \cup {"none"}
      BY <2>1
    <3>4. QED
      BY <2>1, <3>1, <3>2, <3>3
  <2>5. AllReady'
    BY <2>1 DEF Built
  <2>6. QED
    BY <2>2, <2>3, <2>4, <2>5
<1>7. ASSUME NEW a \in Actor, CtorWait(a) PROVE Start'
  <2>1. Ready(on[a], 1) /\ on[a] \in Obj
    BY <1>7 DEF CtorWait, WaitOk
  <2>2. Callers' /\ BeforeCreate' /\ Handshake'
    BY <1>7 DEF CtorWait, WaitOk
  <2>3. Stages'
    <3>1. /\ pc' = [pc EXCEPT ![a] = "idle"] /\ UNCHANGED <<object, m_id, m_callback, on>>
          /\ m_semaphore' = [m_semaphore EXCEPT ![on[a]] = 0]
      BY <1>7, <2>1 DEF CtorWait, WaitOk
    <3>2. \A o \in Obj : pc'[o] \in Starting => pc[o] \in Starting /\ o # on[a]
      BY <2>1, <3>1
    <3>3. QED
      BY <2>1, <3>1, <3>2
  <2>4. AllReady'
    BY <1>7, <2>1 DEF CtorWait, WaitOk, Built
  <2>5. QED
    BY <2>2, <2>3, <2>4
<1>8. ASSUME NEW a \in Actor, JoinStep(a) PROVE Start'
  <2>1. CASE JoinCall(a)
    <3>1. /\ pc[a] = "join_call"
          /\ pc' = [pc EXCEPT ![a] = "joining"] \/ pc' = [pc EXCEPT ![a] = "idle"]
          /\ UNCHANGED <<object, m_id, m_thread, m_callback, m_semaphore, pthread, on>>
      BY <2>1 DEF JoinCall
    <3>2. Callers' /\ BeforeCreate'
      BY <3>1, SMTT(30)
    <3>3. Stages' /\ Handshake'
      BY <3>1, SMTT(30)
    <3>4. AllReady'
      BY <3>1 DEF Built
    <3>5. QED
      BY <3>2, <3>3, <3>4
  <2>2. CASE JoinWait(a)
    <3>1. UNCHANGED <<object, m_id, m_thread, m_callback, m_semaphore, on>>
      BY <2>2 DEF JoinWait
    <3>2. pc[a] = "joining" /\ pc' = [pc EXCEPT ![a] = "join_clear"]
      BY <2>2 DEF JoinWait
    <3>3. \A o \in Obj : Unborn(o) => pthread'[o] = "none"
      BY <2>2 DEF JoinWait
    <3>4. Callers' /\ BeforeCreate'
      BY <3>1, <3>2, <3>3
    <3>5. Stages' /\ Handshake' /\ AllReady'
      BY <3>1, <3>2 DEF Built
    <3>6. QED
      BY <3>4, <3>5
  <2>3. CASE JoinClear(a)
    <3>1. Callers' /\ BeforeCreate'
      BY <2>3 DEF JoinClear
    <3>2. Stages' /\ Handshake'
      BY <2>3, SMTT(30) DEF JoinClear
    <3>3. AllReady'
      BY <2>3 DEF JoinClear, Built
    <3>4. QED
      BY <3>1, <3>2, <3>3
  <2>4. QED
    BY <1>8, <2>1, <2>2, <2>3 DEF JoinStep
<1>9. ASSUME NEW o \in Obj, RunName(o) PROVE Start'
  BY <1>9 DEF RunName, Built
<1>10. ASSUME NEW o \in Obj, RunId(o) PROVE Start'
  BY <1>10, SMTT(30) DEF RunId, Built
<1>11. ASSUME NEW o \in Obj, RunSwap(o) PROVE Start'
  BY <1>11 DEF RunSwap, Built
<1>12. ASSUME NEW o \in Obj, RunNotify(o) PROVE Start'
  <2>1. Callers' /\ BeforeCreate' /\ Stages'
    BY <1>12, SMTT(30) DEF RunNotify, Post
  <2>2. Handshake'
    BY <1>12 DEF RunNotify, Post
  <2>3. AllReady'
    BY <1>12 DEF RunNotify, Post, Built
  <2>4. QED
    BY <2>1, <2>2, <2>3
<1>13. ASSUME NEW o \in Obj, RunReturn(o) PROVE Start'
  BY <1>13 DEF RunReturn, Built
<1>14. CASE UNCHANGED vars
  BY <1>14 DEF Built
<1>15. QED
  BY <1>1, <1>2, <1>3, <1>4, <1>5, <1>6, <1>7, <1>8, <1>9, <1>10, <1>11, <1>12, <1>13,
     <1>14 DEF Next, Call, Ctor, Run
-----------------------------------------------------------------------------
(* Handles *)

(* The pthread of an object whose constructor has returned: joined and over *)
(* when m_thread is 0.                                                      *)
Settled(o) ==
  pthread[o] # "none" /\ (m_thread[o] = FALSE => pthread[o] = "joined" /\ pc[o] = "over")

Handles ==
  /\ \A a \in Actor : pc[a] = "wait" => m_thread[on[a]] = TRUE /\ pthread[on[a]] = "joinable"
  /\ \A o \in Obj : Built(o) => Settled(o)

Joiners ==
  /\ \A a \in Actor : pc[a] \in Joining => Built(on[a])
  /\ \A a \in Actor : pc[a] = "join_clear" => pthread[on[a]] = "joined" /\ pc[on[a]] = "over"

(* Before any object exists there is no handle.                            *)
LEMMA InitHandles == Init => Handles /\ Joiners
<1> SUFFICES ASSUME Init PROVE Handles /\ Joiners
  OBVIOUS
<1>1. \A a \in Actor : pc[a] \in {"idle", "none"}
  BY DEF Init
<1>2. \A o \in Obj : object[o] = "none"
  BY DEF Init
<1>3. QED
  BY <1>1, <1>2 DEF Handles, Joiners, Built, Joining

(* An object that a thread joins stays, with its constructor returned.     *)
LEMMA NextJoiners ==
  TypeOK /\ Start /\ Handles /\ Joiners /\ [Next]_vars => Joiners'
<1> SUFFICES ASSUME TypeOK, Start, Handles, Joiners, [Next]_vars PROVE Joiners'
  OBVIOUS
<1> USE DEF TypeOK, Label, Start, Callers, BeforeCreate, Unborn, Joining, Starting, Constructing
<1>1. ASSUME NEW a \in Actor, NEW o \in Obj, NEW name \in Name \cup {Unknown},
             CallCtor(a, o, name)
      PROVE Joiners'
  BY <1>1 DEF CallCtor, Built, Settled, Handles, Joiners
<1>2. ASSUME NEW a \in Actor, NEW o \in Obj, JoinCheck(a, o) PROVE Joiners'
  BY <1>2 DEF JoinCheck, Built, Settled, Handles, Joiners
<1>3. ASSUME NEW a \in Actor, NEW o \in Obj, Destroy(a, o) PROVE Joiners'
  BY <1>3 DEF Destroy, LastPtrGoes, Built, Settled, Handles, Joiners
<1>4. ASSUME NEW a \in Actor, NEW name \in Name, SetName(a, name) PROVE Joiners'
  BY <1>4 DEF SetName, Built, Settled, Handles, Joiners
<1>5. ASSUME NEW a \in Actor, Create(a) PROVE Joiners'
  BY <1>5, SMTT(30) DEF Create, Built, Settled, Handles, Joiners
<1>6. ASSUME NEW a \in Actor, CreateFails(a) \/ CtorInterrupted(a) PROVE Joiners'
  <2>1. /\ pc[a] \in {"create", "wait"} /\ pc' = [pc EXCEPT ![a] = "idle"]
        /\ object' = [object EXCEPT ![on[a]] = "gone"] /\ on[a] \in Obj
        /\ UNCHANGED <<m_thread, pthread, on>>
    BY <1>6 DEF CreateFails, CtorInterrupted
  <2>2. \A b \in Actor : pc'[b] \in Joining => b # a /\ pc'[b] = pc[b]
    BY <2>1
  <2>3. \A b \in Actor : pc[b] \in Joining => on[b] # on[a]
    BY <2>1 DEF Joiners, Built
  <2>4. \A o \in Obj : Built(o) /\ o # on[a] => Built(o)'
    BY <2>1 DEF Built
  <2>5. \A o \in Obj : pc[o] = "over" => pc'[o] = "over"
    BY <2>1
  <2>6. ASSUME NEW b \in Actor, pc'[b] \in Joining
        PROVE  /\ Built(on[b])'
               /\ pc'[b] = "join_clear" => pthread'[on'[b]] = "joined" /\ pc'[on'[b]] = "over"
    <3>1. pc[b] \in Joining /\ pc'[b] = pc[b] /\ on[b] \in Obj /\ on[b] # on[a] /\ on'[b] = on[b]
      BY <2>1, <2>2, <2>3, <2>6
    <3>2. Built(on[b]) /\ (pc[b] = "join_clear" => pthread[on[b]] = "joined" /\ pc[on[b]] = "over")
      BY <3>1 DEF Joiners
    <3>3. ASSUME NEW o, o = on[b] PROVE Built(o)'
      BY <2>4, <3>1, <3>2, <3>3
    <3>4. QED
      BY <2>1, <2>5, <3>1, <3>2, <3>3
  <2>7. QED
    BY <2>6 DEF Joiners
<1>7. ASSUME NEW a \in Actor, CtorWait(a) PROVE Joiners'
  BY <1>7 DEF CtorWait, Built, Settled, Handles, Joiners
<1>8. ASSUME NEW a \in Actor, JoinCall(a) PROVE Joiners'
  BY <1>8 DEF JoinCall, Built, Settled, Handles, Joiners
<1>9. ASSUME NEW a \in Actor, JoinWait(a) PROVE Joiners'
  BY <1>9 DEF JoinWait, Built, Settled, Handles, Joiners
<1>10. ASSUME NEW a \in Actor, JoinClear(a) PROVE Joiners'
  BY <1>10 DEF JoinClear, Built, Settled, Handles, Joiners
<1>11. ASSUME NEW o \in Obj, Run(o) \/ RunReturn(o) PROVE Joiners'
  BY <1>11, SMTT(60) DEF Run, RunName, RunId, RunSwap, RunNotify, RunReturn, Built, Settled,
     Handles, Joiners
<1>12. CASE UNCHANGED vars
  BY <1>12 DEF Built, Settled, Handles, Joiners
<1>13. QED
  BY <1>1, <1>2, <1>3, <1>4, <1>5, <1>6, <1>7, <1>8, <1>9, <1>10, <1>11, <1>12
     DEF Next, Call, Ctor, JoinStep

(* Every step keeps m_thread and the pthread in accord.                    *)
LEMMA NextHandles ==
  TypeOK /\ Start /\ Handles /\ Joiners /\ [Next]_vars => Handles'
<1> SUFFICES ASSUME TypeOK, Start, Handles, Joiners, [Next]_vars PROVE Handles'
  OBVIOUS
<1> USE DEF TypeOK, Label, Start, Callers, BeforeCreate, Unborn, Joining, Starting, Constructing
<1>1. ASSUME NEW a \in Actor, NEW o \in Obj, NEW name \in Name \cup {Unknown},
             CallCtor(a, o, name)
      PROVE Handles'
  BY <1>1, SMTT(30) DEF CallCtor, Built, Settled, Handles, Joiners
<1>2. ASSUME NEW a \in Actor, NEW o \in Obj, JoinCheck(a, o) PROVE Handles'
  BY <1>2 DEF JoinCheck, Built, Settled, Handles, Joiners
<1>3. ASSUME NEW a \in Actor, NEW o \in Obj, Destroy(a, o) PROVE Handles'
  BY <1>3 DEF Destroy, LastPtrGoes, Built, Settled, Handles, Joiners
<1>4. ASSUME NEW a \in Actor, NEW name \in Name, SetName(a, name) PROVE Handles'
  BY <1>4 DEF SetName, Built, Settled, Handles, Joiners
<1>5. ASSUME NEW a \in Actor, Create(a) PROVE Handles'
  BY <1>5, SMTT(30) DEF Create, Built, Settled, Handles, Joiners
<1>6. ASSUME NEW a \in Actor, CreateFails(a) \/ CtorInterrupted(a) PROVE Handles'
  <2>1. /\ pc[a] \in {"create", "wait"} /\ pc' = [pc EXCEPT ![a] = "idle"]
        /\ object' = [object EXCEPT ![on[a]] = "gone"] /\ on[a] \in Obj
        /\ UNCHANGED <<m_thread, pthread, on>>
    BY <1>6 DEF CreateFails, CtorInterrupted
  <2>2. \A b \in Actor : pc'[b] = "wait" => pc[b] = "wait"
    BY <2>1
  <2>3. ASSUME NEW o \in Obj, Built(o)' PROVE Built(o) /\ o # on[a]
    BY <2>1, <2>3 DEF Built
  <2>4. \A o \in Obj : Settled(o) => Settled(o)'
    BY <2>1 DEF Settled
  <2>5. \A o \in Obj : Built(o)' => Settled(o)'
    BY <2>3, <2>4 DEF Handles
  <2>6. QED
    BY <2>1, <2>2, <2>5 DEF Handles
<1>7. ASSUME NEW a \in Actor, CtorWait(a) PROVE Handles'
  BY <1>7 DEF CtorWait, Built, Settled, Handles, Joiners
<1>8. ASSUME NEW a \in Actor, JoinCall(a) PROVE Handles'
  BY <1>8 DEF JoinCall, Built, Settled, Handles, Joiners
<1>9. ASSUME NEW a \in Actor, JoinWait(a) PROVE Handles'
  BY <1>9 DEF JoinWait, Built, Settled, Handles, Joiners
<1>10. ASSUME NEW a \in Actor, JoinClear(a) PROVE Handles'
  BY <1>10, SMTT(30) DEF JoinClear, Built, Settled, Handles, Joiners
<1>11. ASSUME NEW o \in Obj, Run(o) \/ RunReturn(o) PROVE Handles'
  BY <1>11, SMTT(30) DEF Run, RunName, RunId, RunSwap, RunNotify, RunReturn, Built, Settled,
     Handles, Joiners
<1>12. CASE UNCHANGED vars
  BY <1>12 DEF Built, Settled, Handles, Joiners
<1>13. QED
  BY <1>1, <1>2, <1>3, <1>4, <1>5, <1>6, <1>7, <1>8, <1>9, <1>10, <1>11, <1>12
     DEF Next, Call, Ctor, JoinStep

-----------------------------------------------------------------------------
(* Names *)

(* A thread that runs a Thread object has itself as GetThis() from the      *)
(* first statement of run on, and main has no object.                       *)
OwnThis ==
  /\ t_thread[Main] = NoObj
  /\ \A o \in Obj : t_thread[o] = IF pc[o] \in {"none", "run_name"} THEN NoObj ELSE o

(* The names agree also while the object is on its way out: what SetName    *)
(* writes through t_thread it writes into the thread as well.               *)
Agree == \A o \in Obj : pc[o] \notin {"none", "run_name"} => t_thread_name[o] = m_name[o]

(* Before any thread runs there is nothing to disagree on.                 *)
LEMMA InitNames == Init => OwnThis /\ Agree
BY DEF Init, OwnThis, Agree

(* Every step keeps the names of a thread and of its object equal.         *)
LEMMA NextNames ==
  TypeOK /\ Start /\ OwnThis /\ Agree /\ [Next]_vars => OwnThis' /\ Agree'
<1> SUFFICES ASSUME TypeOK, Start, OwnThis, Agree, [Next]_vars
             PROVE  OwnThis' /\ Agree'
  OBVIOUS
<1> USE DEF TypeOK, Label, OwnThis, Agree
<1>1. ASSUME NEW a \in Actor, Call(a) PROVE OwnThis' /\ Agree'
  <2>1. ASSUME NEW o \in Obj, NEW name \in Name \cup {Unknown}, CallCtor(a, o, name)
        PROVE  OwnThis' /\ Agree'
    BY <2>1 DEF CallCtor, Start, BeforeCreate, Unborn
  <2>2. ASSUME NEW o \in Obj, JoinCheck(a, o) \/ Destroy(a, o)
        PROVE  OwnThis' /\ Agree'
    BY <2>2 DEF JoinCheck, Destroy, LastPtrGoes
  <2>3. ASSUME NEW name \in Name, SetName(a, name) PROVE OwnThis' /\ Agree'
    BY <2>3 DEF SetName
  <2>4. QED
    BY <1>1, <2>1, <2>2, <2>3 DEF Call
<1>2. ASSUME NEW a \in Actor, Ctor(a) PROVE OwnThis' /\ Agree'
  <2>1. on[a] \in Obj /\ (pc[a] = "create" => pc[on[a]] = "none")
    BY <1>2 DEF Ctor, Create, CreateFails, CtorWait, CtorInterrupted, Start, Callers,
       BeforeCreate, Unborn, Constructing
  <2>2. CASE Create(a)
    BY <2>1, <2>2 DEF Create
  <2>3. CASE CreateFails(a) \/ CtorWait(a) \/ CtorInterrupted(a)
    BY <2>3 DEF CreateFails, CtorWait, CtorInterrupted
  <2>4. QED
    BY <1>2, <2>2, <2>3 DEF Ctor
<1>3. ASSUME NEW a \in Actor, JoinStep(a) PROVE OwnThis' /\ Agree'
  BY <1>3 DEF JoinStep, JoinCall, JoinWait, JoinClear
<1>4. ASSUME NEW o \in Obj, Run(o) \/ RunReturn(o) PROVE OwnThis' /\ Agree'
  <2>1. CASE RunName(o)
    BY <2>1 DEF RunName
  <2>2. CASE ~ RunName(o)
    BY <1>4, <2>2 DEF Run, RunId, RunSwap, RunNotify, RunReturn
  <2>3. QED
    BY <2>1, <2>2
<1>5. CASE UNCHANGED vars
  BY <1>5
<1>6. QED
  BY <1>1, <1>2, <1>3, <1>4, <1>5 DEF Next

-----------------------------------------------------------------------------
(* The inductive invariant *)

IInv == TypeOK /\ Start /\ Handles /\ Joiners

THEOREM Invariance == Spec => []IInv
<1>1. Init => IInv
  BY InitStart, InitHandles DEF IInv
<1>2. IInv /\ [Next]_vars => IInv'
  BY NextType, NextStart, NextHandles, NextJoiners DEF IInv
<1>3. QED
  BY <1>1, <1>2, PTL DEF Spec

-----------------------------------------------------------------------------
(* One join at a time *)

(* An object that has never been joined by two threads at once is joined by *)
(* one thread now.                                                          *)
OneJoiner ==
  \A a, b \in Actor :
    pc[a] \in Joining /\ pc[b] \in Joining /\ on[a] = on[b] /\ ~ overlapped[on[a]] => a = b

(* Who is about to join, or joins, has a handle that is joinable, and so   *)
(* has who finds a handle in m_thread, but for the moment before m_thread  *)
(* is cleared.                                                             *)
JoinedOnce ==
  /\ HandleValid
  /\ \A a \in Actor : pc[a] = "joining" /\ ~ overlapped[on[a]] => pthread[on[a]] = "joinable"

(* Every step keeps both.                                                  *)
LEMMA NextJoinedOnce ==
  ASSUME IInv, OneJoiner, JoinedOnce, [Next]_vars
  PROVE  OneJoiner' /\ JoinedOnce'
<1> USE DEF IInv, TypeOK, Label, Start, Callers, BeforeCreate, Unborn, Joining, Starting,
        Constructing
<1> DEFINE Goal == OneJoiner' /\ JoinedOnce'
<1>1. ASSUME NEW a \in Actor, NEW o \in Obj, NEW name \in Name \cup {Unknown},
             CallCtor(a, o, name)
      PROVE  Goal
  <2>1. /\ pc[a] = "idle" /\ pc' = [pc EXCEPT ![a] = "create"]
        /\ on' = [on EXCEPT ![a] = o]
        /\ object' = [object EXCEPT ![o] = "alive"]
        /\ object[o] = "none" /\ m_thread[o] = FALSE
        /\ UNCHANGED <<m_thread, pthread, overlapped>>
    BY <1>1 DEF CallCtor
  <2>2. \A b \in Actor : pc[b] \in Constructing \cup Joining => on[b] # o
    BY <2>1 DEF Joiners, Built
  <2>3. OneJoiner'
    BY <2>1, <2>2 DEF OneJoiner
  <2>4. JoinedOnce'
    BY <2>1, <2>2 DEF JoinedOnce, HandleValid
  <2>5. QED
    BY <2>3, <2>4
<1>2. ASSUME NEW a \in Actor, NEW o \in Obj, JoinCheck(a, o) PROVE Goal
  <2>1. /\ pc[a] = "idle" /\ pc' = [pc EXCEPT ![a] = "join_call"]
        /\ on' = [on EXCEPT ![a] = o] /\ UNCHANGED <<object, m_thread, pthread>>
        /\ object[o] = "alive" /\ m_thread[o]
        /\ overlapped' =
             [overlapped EXCEPT ![o] = @ \/ \E b \in Actor : on[b] = o /\ pc[b] \in Joining]
    BY <1>2 DEF JoinCheck, Built
  <2>2. /\ \A p \in Obj : ~ overlapped'[p] => ~ overlapped[p]
        /\ ~ overlapped'[o] => \A b \in Actor : on[b] = o => pc[b] \notin Joining
    BY <2>1
  <2>3. ~ overlapped'[o] => pthread[o] = "joinable"
    BY <2>1, <2>2 DEF JoinedOnce, HandleValid
  <2>4. OneJoiner'
    BY <2>1, <2>2 DEF OneJoiner
  <2>5. ASSUME NEW b \in Actor, pc'[b] \in {"join_call", "joining"}, ~ overlapped'[on'[b]]
        PROVE  pthread'[on'[b]] = "joinable"
    <3>1. CASE b = a
      BY <2>1, <2>3, <2>5, <3>1
    <3>2. CASE b # a
      BY <2>1, <2>2, <2>5, <3>2 DEF JoinedOnce, HandleValid
    <3>3. QED
      BY <3>1, <3>2
  <2>6. ASSUME NEW p \in Obj, object'[p] = "alive", m_thread'[p], ~ overlapped'[p],
               \A b \in Actor : on'[b] = p => pc'[b] # "join_clear"
        PROVE  pthread'[p] = "joinable"
    <3>1. CASE p = o
      BY <2>1, <2>3, <2>6, <3>1
    <3>2. CASE p # o
      <4>1. \A b \in Actor : on[b] = p => pc[b] # "join_clear"
        BY <2>1, <2>6, <3>2
      <4>2. QED
        BY <2>1, <2>2, <2>6, <4>1 DEF JoinedOnce, HandleValid
    <3>3. QED
      BY <3>1, <3>2
  <2>7. JoinedOnce'
    BY <2>5, <2>6 DEF JoinedOnce, HandleValid
  <2>8. QED
    BY <2>4, <2>7
<1>3. ASSUME NEW a \in Actor, NEW o \in Obj, Destroy(a, o) PROVE Goal
  <2>1. /\ object' = [object EXCEPT ![o] = "gone"]
        /\ \A p \in Obj : p # o => pthread'[p] = pthread[p]
        /\ UNCHANGED <<m_thread, pc, on, overlapped>>
    BY <1>3 DEF Destroy
  <2>2. \A b \in Actor : pc[b] \in Joining => on[b] \in Obj /\ on[b] # o
    BY <1>3 DEF Destroy, LastPtrGoes
  <2>3. OneJoiner'
    BY <2>1 DEF OneJoiner
  <2>4. JoinedOnce'
    BY <2>1, <2>2 DEF JoinedOnce, HandleValid
  <2>5. QED
    BY <2>3, <2>4
<1>4. ASSUME NEW a \in Actor, NEW name \in Name, SetName(a, name) PROVE Goal
  BY <1>4 DEF SetName, OneJoiner, JoinedOnce, HandleValid
<1>5. ASSUME NEW a \in Actor, Create(a) PROVE Goal
  <2>1. /\ pc[a] = "create" /\ on[a] \in Obj /\ pc[on[a]] = "none"
        /\ pc' = [pc EXCEPT ![a] = "wait", ![on[a]] = "run_name"]
        /\ pthread' = [pthread EXCEPT ![on[a]] = "joinable"]
        /\ m_thread' = [m_thread EXCEPT ![on[a]] = TRUE]
        /\ UNCHANGED <<object, on, overlapped>>
    BY <1>5 DEF Create
  <2>2. OneJoiner'
    BY <2>1 DEF OneJoiner
  <2>3. \A b \in Actor : pc'[b] \in Joining => pc[b] = pc'[b] /\ on[b] \in Obj
    BY <2>1
  <2>4. ASSUME NEW o \in Obj, object'[o] = "alive", m_thread'[o], ~ overlapped'[o],
               \A b \in Actor : on'[b] = o => pc'[b] # "join_clear"
        PROVE  pthread'[o] = "joinable"
    <3>1. CASE o = on[a]
      BY <2>1, <3>1
    <3>2. CASE o # on[a]
      <4>1. /\ m_thread[o] /\ pthread'[o] = pthread[o] /\ object[o] = "alive"
            /\ ~ overlapped[o]
        BY <2>1, <2>4, <3>2
      <4>2. \A b \in Actor : on[b] = o => pc[b] # "join_clear"
        BY <2>1, <2>4
      <4>3. QED
        BY <4>1, <4>2 DEF JoinedOnce, HandleValid
    <3>3. QED
      BY <3>1, <3>2
  <2>5. ASSUME NEW b \in Actor, pc'[b] \in {"join_call", "joining"}, ~ overlapped'[on'[b]]
        PROVE  pthread'[on'[b]] = "joinable"
    <3>1. pc[b] = pc'[b] /\ on[b] \in Obj /\ ~ overlapped[on[b]]
      BY <2>1, <2>3, <2>5
    <3>2. pthread[on[b]] = "joinable"
      BY <2>5, <3>1 DEF JoinedOnce, HandleValid
    <3>3. QED
      BY <2>1, <3>1, <3>2
  <2>6. JoinedOnce'
    BY <2>4, <2>5 DEF JoinedOnce, HandleValid
  <2>7. QED
    BY <2>2, <2>6
<1>6. ASSUME NEW a \in Actor, CreateFails(a) \/ CtorWait(a) \/ CtorInterrupted(a) PROVE Goal
  <2>1. /\ pc[a] \in {"create", "wait"} /\ pc' = [pc EXCEPT ![a] = "idle"] /\ on[a] \in Obj
        /\ object' = [object EXCEPT ![on[a]] = "gone"] \/ UNCHANGED object
        /\ UNCHANGED <<m_thread, pthread, on, overlapped>>
    BY <1>6 DEF CreateFails, CtorWait, CtorInterrupted
  <2>2. OneJoiner'
    BY <2>1 DEF OneJoiner
  <2>3. JoinedOnce'
    BY <2>1 DEF JoinedOnce, HandleValid
  <2>4. QED
    BY <2>2, <2>3
<1>7. ASSUME NEW a \in Actor, JoinCall(a) PROVE Goal
  BY <1>7 DEF JoinCall, OneJoiner, JoinedOnce, HandleValid
<1>8. ASSUME NEW a \in Actor, JoinWait(a) PROVE Goal
  <2>1. /\ pc[a] = "joining" /\ pc' = [pc EXCEPT ![a] = "join_clear"] /\ on[a] \in Obj
        /\ pthread' = [pthread EXCEPT ![on[a]] = "joined"]
        /\ UNCHANGED <<object, m_thread, on, overlapped>>
    BY <1>8 DEF JoinWait
  <2>2. \A b \in Actor :
          b # a /\ pc[b] \in Joining /\ ~ overlapped[on[b]] => on[b] # on[a]
    BY <2>1 DEF OneJoiner
  <2>3. OneJoiner'
    BY <2>1 DEF OneJoiner
  <2>4. ASSUME NEW o \in Obj, object'[o] = "alive", m_thread'[o], ~ overlapped'[o],
               \A b \in Actor : on'[b] = o => pc'[b] # "join_clear"
        PROVE  pthread'[o] = "joinable"
    <3>1. o # on[a]
      BY <2>1, <2>4
    <3>2. /\ m_thread[o] /\ pthread'[o] = pthread[o] /\ object[o] = "alive"
          /\ ~ overlapped[o]
      BY <2>1, <2>4, <3>1
    <3>3. \A b \in Actor : on[b] = o => pc[b] # "join_clear"
      BY <2>1, <2>4
    <3>4. QED
      BY <3>2, <3>3 DEF JoinedOnce, HandleValid
  <2>5. ASSUME NEW b \in Actor, pc'[b] \in {"join_call", "joining"}, ~ overlapped'[on'[b]]
        PROVE  pthread'[on'[b]] = "joinable"
    <3>1. /\ b # a /\ pc[b] = pc'[b] /\ on'[b] = on[b] /\ on[b] \in Obj
          /\ ~ overlapped[on[b]]
      BY <2>1, <2>5
    <3>2. on[b] # on[a]
      BY <2>2, <2>5, <3>1
    <3>3. pthread[on[b]] = "joinable"
      BY <2>5, <3>1 DEF JoinedOnce, HandleValid
    <3>4. QED
      BY <2>1, <3>1, <3>2, <3>3
  <2>6. JoinedOnce'
    BY <2>4, <2>5 DEF JoinedOnce, HandleValid
  <2>7. QED
    BY <2>3, <2>6
<1>9. ASSUME NEW a \in Actor, JoinClear(a) PROVE Goal
  <2>1. /\ pc[a] = "join_clear" /\ pc' = [pc EXCEPT ![a] = "idle"] /\ on[a] \in Obj
        /\ m_thread' = [m_thread EXCEPT ![on[a]] = FALSE]
        /\ UNCHANGED <<object, pthread, on, overlapped>>
    BY <1>9 DEF JoinClear
  <2>2. OneJoiner'
    BY <2>1 DEF OneJoiner
  <2>3. ASSUME NEW o \in Obj, object'[o] = "alive", m_thread'[o], ~ overlapped'[o],
               \A b \in Actor : on'[b] = o => pc'[b] # "join_clear"
        PROVE  pthread'[o] = "joinable"
    <3>1. o # on[a]
      BY <2>1, <2>3
    <3>2. \A b \in Actor : on[b] = o => pc[b] # "join_clear"
      BY <2>1, <2>3, <3>1
    <3>3. object[o] = "alive" /\ m_thread[o] /\ ~ overlapped[o]
      BY <2>1, <2>3, <3>1
    <3>4. QED
      BY <2>1, <3>2, <3>3 DEF JoinedOnce, HandleValid
  <2>4. \A b \in Actor : pc'[b] \in Joining => pc[b] = pc'[b]
    BY <2>1
  <2>5. JoinedOnce'
    BY <2>1, <2>3, <2>4 DEF JoinedOnce, HandleValid
  <2>6. QED
    BY <2>2, <2>5
<1>10. ASSUME NEW o \in Obj, Run(o) \/ RunReturn(o) PROVE Goal
  <2>1. /\ pc[o] \notin Joining
        /\ \E to \in Label \ Joining : pc' = [pc EXCEPT ![o] = to]
        /\ UNCHANGED <<object, m_thread, pthread, on, overlapped>>
    BY <1>10 DEF Run, RunName, RunId, RunSwap, RunNotify, RunReturn
  <2>2. OneJoiner'
    BY <2>1 DEF OneJoiner
  <2>3. JoinedOnce'
    BY <2>1 DEF JoinedOnce, HandleValid
  <2>4. QED
    BY <2>2, <2>3
<1>11. CASE UNCHANGED vars
  BY <1>11 DEF OneJoiner, JoinedOnce, HandleValid
<1>12. QED
  BY <1>1, <1>2, <1>3, <1>4, <1>5, <1>6, <1>7, <1>8, <1>9, <1>10, <1>11
     DEF Next, Call, Ctor, JoinStep

-----------------------------------------------------------------------------
(* The destructor *)

(* What an interrupted constructor was building is no object.              *)
Cut == \A o \in Obj : interrupted[o] => object[o] = "gone"

(* Every step keeps this: no method is called on what is gone.              *)
LEMMA NextCut ==
  ASSUME IInv, Cut, [Next]_vars
  PROVE  Cut'
<1> USE DEF IInv, TypeOK, Start, Callers, Constructing, Cut
<1>1. ASSUME NEW a \in Actor, Call(a) PROVE Cut'
  <2>1. ASSUME NEW o \in Obj, NEW name \in Name \cup {Unknown}, CallCtor(a, o, name)
        PROVE  Cut'
    BY <2>1 DEF CallCtor
  <2>2. ASSUME NEW o \in Obj, JoinCheck(a, o) \/ Destroy(a, o) PROVE Cut'
    BY <2>2 DEF JoinCheck, Destroy
  <2>3. ASSUME NEW name \in Name, SetName(a, name) PROVE Cut'
    BY <2>3 DEF SetName
  <2>4. QED
    BY <1>1, <2>1, <2>2, <2>3 DEF Call
<1>2. ASSUME NEW a \in Actor, Ctor(a) PROVE Cut'
  BY <1>2 DEF Ctor, Create, CreateFails, CtorWait, CtorInterrupted
<1>3. ASSUME NEW a \in Actor, JoinStep(a) PROVE Cut'
  BY <1>3 DEF JoinStep, JoinCall, JoinWait, JoinClear
<1>4. ASSUME NEW o \in Obj, Run(o) \/ RunReturn(o) PROVE Cut'
  BY <1>4 DEF Run, RunName, RunId, RunSwap, RunNotify, RunReturn
<1>5. CASE UNCHANGED vars
  BY <1>5
<1>6. QED
  BY <1>1, <1>2, <1>3, <1>4, <1>5 DEF Next

(* An object that goes while its thread runs was not joined: where m_thread *)
(* is 0 the thread is over.                                                 *)
LEMMA NextThisAlive ==
  ASSUME IInv, ThisAlive, [Next]_vars
  PROVE  ThisAlive'
<1> USE DEF IInv, TypeOK, Label, Start, Callers, BeforeCreate, Unborn, Joining, Starting,
        Constructing
<1>1. ASSUME NEW a \in Actor, Call(a) PROVE ThisAlive'
  <2>1. ASSUME NEW o \in Obj, NEW name \in Name \cup {Unknown}, CallCtor(a, o, name)
        PROVE  ThisAlive'
    BY <2>1 DEF CallCtor, ThisAlive
  <2>2. ASSUME NEW o \in Obj, JoinCheck(a, o) PROVE ThisAlive'
    BY <2>2 DEF JoinCheck, ThisAlive
  <2>3. ASSUME NEW o \in Obj, Destroy(a, o) PROVE ThisAlive'
    <3>1. m_thread[o] \/ pc[o] = "over"
      BY <2>3 DEF Destroy, LastPtrGoes, Handles, Settled
    <3>2. QED
      BY <2>3, <3>1 DEF Destroy, ThisAlive
  <2>4. ASSUME NEW name \in Name, SetName(a, name) PROVE ThisAlive'
    BY <2>4 DEF SetName, ThisAlive
  <2>5. QED
    BY <1>1, <2>1, <2>2, <2>3, <2>4 DEF Call
<1>2. ASSUME NEW a \in Actor, Ctor(a) PROVE ThisAlive'
  <2>1. CASE Create(a)
    <3>1. /\ pc[a] = "create" /\ on[a] \in Obj /\ object[on[a]] = "alive"
          /\ pc' = [pc EXCEPT ![a] = "wait", ![on[a]] = "run_name"]
          /\ pthread' = [pthread EXCEPT ![on[a]] = "joinable"]
          /\ UNCHANGED <<object, interrupted>>
      BY <2>1 DEF Create
    <3>2. \A o \in Obj : pc[o] \in {"none", "over"} /\ object[o] = "gone" => pc'[o] = pc[o]
      BY <3>1
    <3>3. \A o \in Obj : pthread'[o] # "joinable" => pthread[o] = pthread'[o]
      BY <3>1
    <3>4. QED
      BY <3>1, <3>2, <3>3 DEF ThisAlive
  <2>2. CASE CreateFails(a)
    BY <2>2 DEF CreateFails, ThisAlive
  <2>3. CASE CtorWait(a)
    BY <2>3 DEF CtorWait, ThisAlive
  <2>4. CASE CtorInterrupted(a)
    BY <2>4 DEF CtorInterrupted, Handles, ThisAlive
  <2>5. QED
    BY <1>2, <2>1, <2>2, <2>3, <2>4 DEF Ctor
<1>3. ASSUME NEW a \in Actor, JoinStep(a) PROVE ThisAlive'
  BY <1>3 DEF JoinStep, JoinCall, JoinWait, JoinClear, Joiners, Built, ThisAlive
<1>4. ASSUME NEW o \in Obj, Run(o) \/ RunReturn(o) PROVE ThisAlive'
  BY <1>4 DEF Run, RunName, RunId, RunSwap, RunNotify, RunReturn, ThisAlive
<1>5. CASE UNCHANGED vars
  BY <1>5 DEF ThisAlive
<1>6. QED
  BY <1>1, <1>2, <1>3, <1>4, <1>5 DEF Next

-----------------------------------------------------------------------------
(* The end of the object *)

Ended == StartsAlive /\ NoneLeaked

(* A constructor that has created the pthread throws for a signal only, and *)
(* nothing else but ~Thread ends the life of the object.                    *)
LEMMA NextEnded ==
  ASSUME IInv, Ended, [Next]_vars
  PROVE  Ended'
<1> USE DEF IInv, TypeOK, Label, Start, Callers, BeforeCreate, Unborn, Joining, Starting,
        Constructing
<1>1. ASSUME NEW a \in Actor, Call(a) PROVE Ended'
  <2>1. ASSUME NEW o \in Obj, NEW name \in Name \cup {Unknown}, CallCtor(a, o, name)
        PROVE  Ended'
    BY <2>1 DEF CallCtor, Ended, StartsAlive, NoneLeaked
  <2>2. ASSUME NEW o \in Obj, JoinCheck(a, o) PROVE Ended'
    BY <2>2 DEF JoinCheck, Ended, StartsAlive, NoneLeaked
  <2>3. ASSUME NEW o \in Obj, Destroy(a, o) PROVE Ended'
    <3>1. pc[o] \notin Starting /\ Settled(o)
      BY <2>3 DEF Destroy, LastPtrGoes, AllReady, Ready, Handles
    <3>2. QED
      BY <2>3, <3>1 DEF Destroy, Settled, Ended, StartsAlive, NoneLeaked
  <2>4. ASSUME NEW name \in Name, SetName(a, name) PROVE Ended'
    BY <2>4 DEF SetName, Ended, StartsAlive, NoneLeaked
  <2>5. QED
    BY <1>1, <2>1, <2>2, <2>3, <2>4 DEF Call
<1>2. ASSUME NEW a \in Actor, Ctor(a) PROVE Ended'
  BY <1>2 DEF Ctor, Create, CreateFails, CtorWait, CtorInterrupted, Ended, StartsAlive,
     NoneLeaked
<1>3. ASSUME NEW a \in Actor, JoinStep(a) PROVE Ended'
  BY <1>3 DEF JoinStep, JoinCall, JoinWait, JoinClear, Ended, StartsAlive, NoneLeaked
<1>4. ASSUME NEW o \in Obj, Run(o) \/ RunReturn(o) PROVE Ended'
  BY <1>4 DEF Run, RunName, RunId, RunSwap, RunNotify, RunReturn, Ended, StartsAlive,
     NoneLeaked
<1>5. CASE UNCHANGED vars
  BY <1>5 DEF Ended, StartsAlive, NoneLeaked
<1>6. QED
  BY <1>1, <1>2, <1>3, <1>4, <1>5 DEF Next

-----------------------------------------------------------------------------
(* Theorems *)

(* Every variable keeps its type; the semaphore never counts beyond 1.     *)
THEOREM TypeCorrect == Spec => []TypeOK
<1>1. IInv => TypeOK
  BY DEF IInv
<1>2. QED
  BY Invariance, <1>1, PTL

(* When Thread::Thread has returned, the thread has its id and has taken   *)
(* the callback out of the object, however many threads are being started  *)
(* and although other constructors are interrupted.                        *)
THEOREM HandshakeIsDone == Spec => []HandshakeDone
<1>1. IInv => HandshakeDone
  BY DEF IInv, Start, AllReady, Ready, HandshakeDone
<1>2. QED
  BY Invariance, <1>1, PTL

(* GetName() in a thread and getName() of its object agree from the first  *)
(* statement of run on, whatever SetName is called with.                   *)
THEOREM NamesAlwaysAgree == Spec => []NamesAgree
<1>1. Init => OwnThis /\ Agree
  BY InitNames
<1>2. IInv /\ OwnThis /\ Agree /\ [Next]_vars => OwnThis' /\ Agree'
  BY NextNames DEF IInv
<1>3. Agree => NamesAgree
  BY DEF Agree, NamesAgree
<1>4. QED
  BY Invariance, <1>1, <1>2, <1>3, PTL DEF Spec

(* No pthread is joined twice, or joined and detached, as long as no two    *)
(* threads are inside join of its object at once.                           *)
THEOREM HandlesAreValid == Spec => []HandleValid
<1>1. Init => OneJoiner /\ JoinedOnce
  <2>1. Init => \A a \in Actor : pc[a] \in {"idle", "none"}
    BY DEF Init
  <2>2. QED
    BY <2>1 DEF Init, OneJoiner, JoinedOnce, HandleValid, Joining
<1>2. IInv /\ OneJoiner /\ JoinedOnce /\ [Next]_vars => OneJoiner' /\ JoinedOnce'
  BY NextJoinedOnce
<1>3. JoinedOnce => HandleValid
  BY DEF JoinedOnce
<1>4. QED
  BY Invariance, <1>1, <1>2, <1>3, PTL DEF Spec

(* A callback may use GetThis() for as long as it runs, unless ~Thread has  *)
(* detached its thread or its constructor was interrupted.                  *)
THEOREM ThisStaysAlive == Spec => []ThisAlive
<1>1. Init => ThisAlive
  BY DEF Init, ThisAlive
<1>2. IInv /\ ThisAlive /\ [Next]_vars => ThisAlive'
  BY NextThisAlive
<1>3. QED
  BY Invariance, <1>1, <1>2, PTL DEF Spec

(* How objects end, always.                                                *)
LEMMA AlwaysEnded == Spec => []Ended
<1>1. Init => Ended
  BY DEF Init, Ended, StartsAlive, NoneLeaked, Starting
<1>2. IInv /\ Ended /\ [Next]_vars => Ended'
  BY NextEnded
<1>3. QED
  BY Invariance, <1>1, <1>2, PTL DEF Spec

(* Thread::run uses the object only while it exists, unless a signal has    *)
(* interrupted the constructor of that object.                              *)
THEOREM ThreadStartsAlive == Spec => []StartsAlive
BY AlwaysEnded, PTL DEF Ended

(* ~Thread leaves no pthread joinable, whoever joins the object before; a   *)
(* constructor that a signal interrupts does.                               *)
THEOREM NoThreadLeaked == Spec => []NoneLeaked
BY AlwaysEnded, PTL DEF Ended

-----------------------------------------------------------------------------
(* Refinement *)

(* The initial states map to initial states.                               *)
LEMMA InitLife == Init => Life!Init
BY DEF Init, Life!Init, lifeOf, handleOf, Starting

(* A function on S that differs from f at x only.                           *)
LEMMA ChangedAt ==
  ASSUME NEW S, NEW f, NEW g, f = [y \in S |-> f[y]], g = [y \in S |-> g[y]],
         NEW x \in S, \A y \in S : y # x => g[y] = f[y]
  PROVE  g = [f EXCEPT ![x] = g[x]]
OBVIOUS

(* Every step maps to a step of ThreadLife or to a stutter.                *)
LEMMA NextLife ==
  ASSUME IInv, IInv', Cut, [Next]_vars
  PROVE  [Life!Next]_<<lifeOf, handleOf>>
<1>0. /\ lifeOf = [p \in Obj |-> lifeOf[p]] /\ lifeOf' = [p \in Obj |-> lifeOf'[p]]
      /\ handleOf = [p \in Obj |-> handleOf[p]] /\ handleOf' = [p \in Obj |-> handleOf'[p]]
  BY DEF lifeOf, handleOf
<1> DEFINE Same == lifeOf' = lifeOf /\ handleOf' = handleOf
<1> USE DEF IInv, TypeOK, Label, Start, Callers, BeforeCreate, Unborn, Constructing,
        Joining, Starting, Cut
<1>1. ASSUME NEW a \in Actor, NEW o \in Obj, NEW name \in Name \cup {Unknown},
             CallCtor(a, o, name)
      PROVE  Same
  BY <1>1 DEF CallCtor, lifeOf, handleOf, Built
<1>2. ASSUME NEW a \in Actor, NEW o \in Obj, JoinCheck(a, o) PROVE Same
  BY <1>2, SMTT(30) DEF JoinCheck, lifeOf, handleOf, Built
<1>3. ASSUME NEW a \in Actor, NEW o \in Obj, Destroy(a, o) PROVE Life!Drop(o)
  <2>1. lifeOf' = lifeOf
    BY <1>3 DEF Destroy, LastPtrGoes, lifeOf
  <2>2. handleOf[o] \in {"held", "joined"}
    BY <1>3 DEF Destroy, LastPtrGoes, handleOf, Built, Handles, Settled
  <2>3. handleOf'[o] = "dropped"
    <3>1. ~ interrupted[o] /\ UNCHANGED interrupted
      BY <1>3 DEF Destroy, LastPtrGoes, Built
    <3>2. object'[o] = "gone" /\ pthread'[o] # "none"
      BY <1>3 DEF Destroy, LastPtrGoes, Handles, Settled
    <3>3. QED
      BY <3>1, <3>2 DEF handleOf
  <2>4. \A p \in Obj : p # o => handleOf'[p] = handleOf[p]
    BY <1>3 DEF Destroy, LastPtrGoes, handleOf, Built
  <2>5. handleOf' = [handleOf EXCEPT ![o] = "dropped"]
    BY <1>0, <2>3, <2>4, ChangedAt
  <2>6. QED
    BY <2>1, <2>2, <2>5 DEF Life!Drop
<1>4. ASSUME NEW a \in Actor, NEW name \in Name, SetName(a, name) PROVE Same
  BY <1>4 DEF SetName, lifeOf, handleOf, Built
<1>5. ASSUME NEW a \in Actor, Create(a) PROVE Same
  BY <1>5 DEF Create, lifeOf, handleOf, Built
<1>6. ASSUME NEW a \in Actor, CreateFails(a) \/ CtorInterrupted(a) PROVE Same
  <2>1. CASE CreateFails(a)
    BY <2>1 DEF CreateFails, lifeOf, handleOf, Built
  <2>2. CASE CtorInterrupted(a)
    BY <2>2 DEF CtorInterrupted, lifeOf, handleOf, Built
  <2>3. QED
    BY <1>6, <2>1, <2>2
<1>7. ASSUME NEW a \in Actor, CtorWait(a) PROVE Life!Hand(on[a])
  <2> DEFINE o == on[a]
  <2>1. o \in Obj /\ object[o] = "alive" /\ Ready(o, 1) /\ pthread[o] = "joinable"
        /\ m_thread[o] = TRUE
    BY <1>7 DEF CtorWait, WaitOk, Handshake, Ready, Handles
  <2>2. /\ pc[a] = "wait" /\ pc' = [pc EXCEPT ![a] = "idle"]
        /\ UNCHANGED <<object, m_thread, pthread, on, interrupted>>
    BY <1>7 DEF CtorWait
  <2>3. \A b \in Actor : b # a /\ pc[b] \in Constructing => on[b] # o
    BY <2>2
  <2> HIDE DEF o
  <2>4. lifeOf' = lifeOf
    BY <2>2 DEF lifeOf
  <2>5. lifeOf[o] # "new"
    BY <2>1 DEF lifeOf, Ready
  <2>6. handleOf[o] = "none"
    BY <2>1, <2>2 DEF handleOf, Built, o
  <2>7. handleOf'[o] = "held"
    BY <2>1, <2>2, <2>3 DEF handleOf, Built, o
  <2>8. \A p \in Obj : p # o => handleOf'[p] = handleOf[p]
    BY <2>2 DEF handleOf, Built, o
  <2>9. handleOf' = [handleOf EXCEPT ![o] = "held"]
    BY <1>0, <2>1, <2>7, <2>8, ChangedAt
  <2>10. QED
    BY <2>4, <2>5, <2>6, <2>9 DEF Life!Hand, o
<1>8. ASSUME NEW a \in Actor, JoinCall(a) PROVE Same
  BY <1>8 DEF JoinCall, lifeOf, handleOf, Built
<1>9. ASSUME NEW a \in Actor, JoinWait(a) PROVE Same
  BY <1>9 DEF JoinWait, lifeOf, handleOf, Built, Joiners, Handles, Settled
<1>10. ASSUME NEW a \in Actor, JoinClear(a) PROVE Life!Join(on[a]) \/ Same
  <2> DEFINE o == on[a]
  <2>1. o \in Obj /\ Built(o) /\ pthread[o] = "joined" /\ pc[o] = "over"
    BY <1>10 DEF JoinClear, Joiners
  <2>2. /\ pc[a] = "join_clear" /\ pc' = [pc EXCEPT ![a] = "idle"]
        /\ m_thread' = [m_thread EXCEPT ![o] = FALSE]
        /\ UNCHANGED <<object, pthread, on, interrupted>>
    BY <1>10 DEF JoinClear
  <2> HIDE DEF o
  <2>3. \A p \in Obj : Built(p)' <=> Built(p)
    BY <2>2 DEF Built
  <2>4. lifeOf' = lifeOf /\ lifeOf[o] = "over"
    BY <2>1, <2>2 DEF lifeOf
  <2>5. \A p \in Obj : p # o => handleOf'[p] = handleOf[p]
    BY <2>2, <2>3 DEF handleOf
  <2>6. handleOf[o] \in {"held", "joined"} /\ handleOf'[o] = "joined"
    BY <2>1, <2>2, <2>3 DEF handleOf, Built
  <2>7. handleOf' = [handleOf EXCEPT ![o] = "joined"]
    BY <1>0, <2>1, <2>5, <2>6, ChangedAt
  <2>8. CASE handleOf[o] = "held"
    BY <2>4, <2>7, <2>8 DEF Life!Join, o
  <2>9. CASE handleOf[o] = "joined"
    <3>1. \A p \in Obj : handleOf'[p] = handleOf[p]
      BY <2>5, <2>6, <2>9
    <3>2. QED
      BY <2>4, <3>1 DEF handleOf
  <2>10. QED
    BY <2>6, <2>8, <2>9
<1>11. ASSUME NEW o \in Obj, RunName(o) \/ RunId(o) \/ RunSwap(o) PROVE Same
  BY <1>11 DEF RunName, RunId, RunSwap, lifeOf, handleOf, Built
<1>12. ASSUME NEW o \in Obj, RunNotify(o) PROVE Life!Begin(o)
  <2>1. /\ pc[o] = "run_notify" /\ pc' = [pc EXCEPT ![o] = "idle"]
        /\ UNCHANGED <<object, m_thread, pthread, on, interrupted>>
    BY <1>12 DEF RunNotify
  <2>2. handleOf' = handleOf
    BY <2>1 DEF handleOf, Built
  <2>3. lifeOf[o] = "new" /\ lifeOf'[o] = "running"
    BY <2>1 DEF lifeOf
  <2>4. \A p \in Obj : p # o => lifeOf'[p] = lifeOf[p]
    BY <2>1 DEF lifeOf
  <2>5. lifeOf' = [lifeOf EXCEPT ![o] = "running"]
    BY <1>0, <2>3, <2>4, ChangedAt
  <2>6. QED
    BY <2>2, <2>3, <2>5 DEF Life!Begin
<1>13. ASSUME NEW o \in Obj, RunReturn(o) PROVE Life!End(o)
  <2>1. /\ pc[o] = "idle" /\ pc' = [pc EXCEPT ![o] = "over"]
        /\ UNCHANGED <<object, m_thread, pthread, on, interrupted>>
    BY <1>13 DEF RunReturn
  <2>2. handleOf' = handleOf
    BY <2>1 DEF handleOf, Built
  <2>3. lifeOf[o] = "running" /\ lifeOf'[o] = "over"
    BY <2>1 DEF lifeOf
  <2>4. \A p \in Obj : p # o => lifeOf'[p] = lifeOf[p]
    BY <2>1 DEF lifeOf
  <2>5. lifeOf' = [lifeOf EXCEPT ![o] = "over"]
    BY <1>0, <2>3, <2>4, ChangedAt
  <2>6. QED
    BY <2>2, <2>3, <2>5 DEF Life!End
<1>14. CASE UNCHANGED vars
  BY <1>14 DEF lifeOf, handleOf, Built
<1>15. QED
  <2>1. \A a \in Actor : pc[a] \in Constructing \cup Joining => on[a] \in Obj
    OBVIOUS
  <2>2. QED
    BY <1>1, <1>2, <1>3, <1>4, <1>5, <1>6, <1>7, <1>8, <1>9, <1>10, <1>11, <1>12, <1>13,
       <1>14, <2>1 DEF Next, Call, Ctor, JoinStep, Run, CtorWait, JoinClear,
       Life!Next

(* Class Thread implements ThreadLife: a thread begins before its           *)
(* constructor returns, runs its callback once, and join waits for its end. *)
THEOREM LifeImplemented == Spec => ImplementsLife
<1>1. Init => Life!Init /\ Cut
  BY InitLife DEF Init, Cut
<1>2. IInv /\ Cut /\ [Next]_vars => Cut'
  BY NextCut
<1>3. IInv /\ IInv' /\ Cut /\ [Next]_vars => [Life!Next]_<<lifeOf, handleOf>>
  BY NextLife
<1>4. QED
  BY Invariance, <1>1, <1>2, <1>3, PTL DEF Spec, ImplementsLife, Life!Spec
=============================================================================
