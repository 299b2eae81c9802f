---------------------------- MODULE LoggerProofs -----------------------------
(***************************************************************************)
(* What the locking of Logger and its appenders guarantees, for any number *)
(* of threads, loggers and appenders, any level and any bound.             *)
(***************************************************************************)
EXTENDS Logger, SequenceTheorems, WellFoundedInduction, TLAPS

USE ThreadAssumption, BoundAssumption, ObjectAssumption, FormatterAssumption
    DEF locals, vars, Goto, Thread

-----------------------------------------------------------------------------
(* The list of appenders *)

(* delAppender keeps what it does not erase.                               *)
LEMMA ErasedInList ==
  ASSUME NEW S, NEW list \in Seq(S), NEW a \in S
  PROVE  /\ Erased(list, a) \in Seq(S)
         /\ \A i \in DOMAIN Erased(list, a) : \E j \in DOMAIN list : Erased(list, a)[i] = list[j]
<1>1. CASE \A j \in DOMAIN list : list[j] # a
  BY <1>1 DEF Erased
<1>2. CASE \E j \in DOMAIN list : list[j] = a
  <2> DEFINE i == CHOOSE i \in DOMAIN list : list[i] = a /\ \A j \in 1..(i - 1) : list[j] # a
             before == SubSeq(list, 1, i - 1)
             after == SubSeq(list, i + 1, Len(list))
  <2>1. Erased(list, a) = before \o after
    BY <1>2 DEF Erased
  <2>2. i \in DOMAIN list
    <3> DEFINE places == {j \in DOMAIN list : list[j] = a}
    <3>1. places \subseteq Nat /\ places # {}
      BY <1>2
    <3>2. \E k \in places : \A j \in places : k <= j
      <4> HIDE DEF places
      <4>1. PICK k \in places : \A j \in places : <<j, k>> \notin OpToRel(<, Nat)
        BY <3>1, NatLessThanWellFounded, WFMin
      <4>2. k \in Nat /\ \A j \in places : j \in Nat /\ ~ (j < k)
        BY <3>1, <4>1 DEF OpToRel
      <4>3. QED
        BY <4>2
    <3>3. PICK k \in places : \A j \in places : k <= j
      BY <3>2
    <3>4. \A j \in 1..(k - 1) : list[j] # a
      BY <3>3
    <3>5. QED
      BY <3>4
  <2> HIDE DEF i
  <2>3. i \in 1..Len(list) /\ i \in Nat /\ Len(list) \in Nat
    BY <2>2
  <2>4. /\ before \in Seq(S) /\ Len(before) = i - 1
        /\ \A k \in 1..(i - 1) : before[k] = list[k]
    <3>1. \A k \in 1..(i - 1) : list[k] \in S
      BY <2>3
    <3>2. /\ before \in Seq(S)
          /\ Len(before) = IF 1 <= i - 1 THEN i - 1 - 1 + 1 ELSE 0
          /\ \A k \in 1..(i - 1 - 1 + 1) : before[k] = list[1 + k - 1]
      BY <2>3, <3>1, SubSeqProperties
    <3>3. QED
      BY <2>3, <3>2
  <2>5. /\ after \in Seq(S) /\ Len(after) = Len(list) - i
        /\ \A k \in 1..(Len(list) - i) : after[k] = list[i + k]
    <3>1. \A k \in (i + 1)..Len(list) : list[k] \in S
      BY <2>3
    <3>2. /\ after \in Seq(S)
          /\ Len(after) = IF i + 1 <= Len(list) THEN Len(list) - (i + 1) + 1 ELSE 0
          /\ \A k \in 1..(Len(list) - (i + 1) + 1) : after[k] = list[i + 1 + k - 1]
      BY <2>3, <3>1, SubSeqProperties
    <3>3. QED
      BY <2>3, <3>2
  <2> HIDE DEF before, after
  <2>6. /\ before \o after \in Seq(S) /\ Len(before \o after) = Len(list) - 1
        /\ \A k \in 1..(Len(list) - 1) :
             (before \o after)[k] = IF k <= i - 1 THEN before[k] ELSE after[k - (i - 1)]
    <3>1. /\ before \o after \in Seq(S)
          /\ Len(before \o after) = Len(before) + Len(after)
          /\ \A k \in 1..(Len(before) + Len(after)) :
               (before \o after)[k] =
                 IF k <= Len(before) THEN before[k] ELSE after[k - Len(before)]
      BY <2>4, <2>5, ConcatProperties
    <3>2. Len(before) = i - 1 /\ Len(before) + Len(after) = Len(list) - 1
      BY <2>3, <2>4, <2>5
    <3>3. QED
      BY <3>1, <3>2
  <2>7. ASSUME NEW k \in DOMAIN Erased(list, a)
        PROVE  \E j \in DOMAIN list : Erased(list, a)[k] = list[j]
    <3>1. k \in 1..(Len(list) - 1)
      BY <2>1, <2>6
    <3>2. CASE k <= i - 1
      <4>1. k \in 1..(i - 1) /\ k \in 1..Len(list)
        BY <2>3, <3>1, <3>2
      <4>2. Erased(list, a)[k] = list[k]
        BY <2>1, <2>4, <2>6, <3>1, <3>2, <4>1
      <4>3. QED
        BY <4>1, <4>2
    <3>3. CASE k > i - 1
      <4>1. k - (i - 1) \in 1..(Len(list) - i) /\ i + (k - (i - 1)) \in 1..Len(list)
        BY <2>3, <3>1, <3>3
      <4>2. Erased(list, a)[k] = list[i + (k - (i - 1))]
        BY <2>1, <2>3, <2>5, <2>6, <3>1, <3>3, <4>1, SMTT(30)
      <4>3. QED
        BY <4>1, <4>2
    <3>4. QED
      BY <2>3, <3>1, <3>2, <3>3
  <2>8. QED
    BY <2>1, <2>6, <2>7
<1>3. QED
  BY <1>1, <1>2

-----------------------------------------------------------------------------
(* Types *)

(* What stands in the list of a logger is an appender.                      *)
LEMMA CurrentListed ==
  ASSUME TypeOK, NEW w \in Writer, pos[w] \in DOMAIN m_appenders[lg[w]]
  PROVE  Current(w) \in Appenders
<1>1. m_appenders[lg[w]] \in Seq(Appenders)
  BY DEF TypeOK, ObjectsOK, ThreadsOK
<1>2. QED
  BY <1>1 DEF Current

(* The places where an administrator or a writer is between the            *)
(* acquisition and the release of the lock of its logger.                  *)
InLogger == {"test", "loop", "print", "write", "add_get", "add_set", "add_push",
             "del_erase", "clear_all"}

(* Nothing is being written, and the lists are those the threads start with. *)
LEMMA InitType == Init => TypeOK
<1> SUFFICES ASSUME Init PROVE TypeOK
  OBVIOUS
<1>1. (CHOOSE x \in Level : TRUE) \in Level /\ (CHOOSE l \in Loggers : TRUE) \in Loggers
      /\ (CHOOSE a \in Appenders : TRUE) \in Appenders
  OBVIOUS
<1>2. ObjectsOK
  BY DEF Init, ObjectsOK
<1>3. ThreadsOK
  <2>1. /\ pc \in [Thread -> WriterLabel \cup AdminLabel]
        /\ \A w \in Writer : pc[w] \in WriterLabel
        /\ \A t \in Admin : pc[t] \in AdminLabel
    BY DEF Init, WriterLabel, AdminLabel
  <2>2. lg \in [Thread -> Loggers] /\ ap \in [Admin -> Appenders]
    BY <1>1 DEF Init
  <2>3. pos \in [Writer -> Nat \ {0}] /\ n \in [Thread -> Nat]
    BY DEF Init
  <2>4. QED
    BY <2>1, <2>2, <2>3 DEF ThreadsOK
<1>4. LinesOK
  BY <1>1 DEF Init, LinesOK, NoEvent, Event
<1>5. QED
  BY <1>2, <1>3, <1>4 DEF TypeOK

(* Taking and giving back a lock keeps the type of the locks.               *)
LEMMA MutexTyped ==
  ASSUME ObjectsOK, NEW t \in Thread, NEW o, Acquire(t, o) \/ Free(o)
  PROVE  m_mutex' \in [Loggers \cup Appenders -> Thread \cup {NoThread}]
<1>1. m_mutex \in [Loggers \cup Appenders -> Thread \cup {NoThread}]
  BY DEF ObjectsOK
<1>2. CASE Acquire(t, o)
  BY <1>1, <1>2 DEF Acquire
<1>3. CASE Free(o)
  BY <1>1, <1>3 DEF Free
<1>4. QED
  BY <1>2, <1>3

(* Every step keeps the types of the loggers and the appenders.             *)
LEMMA NextObjects == TypeOK /\ LoopInList /\ [Next]_vars => ObjectsOK'
<1> SUFFICES ASSUME ObjectsOK, ThreadsOK, LinesOK, LoopInList, [Next]_vars PROVE ObjectsOK'
  BY DEF TypeOK
<1> USE DEF ObjectsOK, ThreadsOK, Free, Acquire
<1>1. ASSUME NEW w \in Writer, Log(w) PROVE ObjectsOK'
  <2>1. CASE MakeEvent(w)
    BY <2>1 DEF MakeEvent, LinesOK, Event
  <2>2. CASE LogLock(w) \/ LogRefuse(w) \/ LogEnd(w)
    <3> HIDE DEF ObjectsOK, ThreadsOK, Free, Acquire
    <3>1. Acquire(w, lg[w]) \/ Free(lg[w])
      BY <2>2 DEF LogLock, LogRefuse, LogEnd
    <3>2. m_mutex' \in [Loggers \cup Appenders -> Thread \cup {NoThread}]
      BY <3>1, MutexTyped
    <3>3. UNCHANGED <<m_level, m_appenders, m_formatter>>
      BY <2>2 DEF LogLock, LogRefuse, LogEnd
    <3>4. QED
      BY <3>2, <3>3 DEF ObjectsOK
  <2>3. CASE LogLoop(w) \/ AppenderTest(w) \/ AppenderLock(w)
    <3> HIDE DEF ObjectsOK, ThreadsOK, Free, Acquire
    <3>1. UNCHANGED m_mutex \/ Acquire(w, Current(w))
      BY <2>3 DEF LogLoop, AppenderTest, Reached, AppenderLock
    <3>2. m_mutex' \in [Loggers \cup Appenders -> Thread \cup {NoThread}]
      BY <3>1, MutexTyped DEF ObjectsOK
    <3>3. UNCHANGED <<m_level, m_appenders, m_formatter>>
      BY <2>3 DEF LogLoop, AppenderTest, Reached, AppenderLock
    <3>4. QED
      BY <3>2, <3>3 DEF ObjectsOK
  <2>4. CASE AppenderWrite(w)
    BY <2>4 DEF AppenderWrite
  <2>5. QED
    BY <1>1, <2>1, <2>2, <2>3, <2>4 DEF Log
<1>2. ASSUME NEW t \in Admin, Reconfigure(t) PROVE ObjectsOK'
  <2>1. CASE AddLock(t) \/ DelLock(t) \/ ClearLock(t)
    <3>1. Acquire(t, lg[t]) /\ UNCHANGED <<m_level, m_appenders, m_formatter>>
      BY <2>1 DEF AddLock, DelLock, ClearLock, AdminLock
    <3>2. QED
      BY <3>1
  <2>2. CASE AddHas(t) \/ AddHasNone(t)
    BY <2>2 DEF AddHas, AddHasNone, AddGet
  <2>7. CASE AddSet(t)
    <3>1. m_formatter[lg[t]] \in Formatter /\ ap[t] \in Appenders /\ ap[t] \notin Loggers
      OBVIOUS
    <3>2. m_formatter' = [m_formatter EXCEPT ![ap[t]] = m_formatter[lg[t]]]
      BY <2>7 DEF AddSet
    <3>3. UNCHANGED <<m_level, m_appenders, m_mutex>>
      BY <2>7 DEF AddSet
    <3>4. QED
      BY <3>1, <3>2, <3>3
  <2>3. CASE AddPush(t)
    BY <2>3 DEF AddPush
  <2>4. CASE DelErase(t)
    <3>1. Erased(m_appenders[lg[t]], ap[t]) \in Seq(Appenders)
      BY ErasedInList
    <3>2. /\ m_appenders' = [m_appenders EXCEPT ![lg[t]] = Erased(m_appenders[lg[t]], ap[t])]
          /\ Free(lg[t]) /\ UNCHANGED <<m_level, m_formatter>>
      BY <2>4 DEF DelErase
    <3> HIDE DEF Free
    <3>3. m_appenders' \in [Loggers -> Seq(Appenders)]
      BY <3>1, <3>2
    <3>4. m_mutex' \in [Loggers \cup Appenders -> Thread \cup {NoThread}]
      BY <3>2 DEF Free
    <3>5. QED
      BY <3>2, <3>3, <3>4
  <2>5. CASE ClearAll(t)
    BY <2>5 DEF ClearAll
  <2>6. QED
    BY <1>2, <2>1, <2>2, <2>3, <2>4, <2>5, <2>7 DEF Reconfigure
<1>3. ASSUME NEW t \in Admin, NEW l \in Loggers, NEW lv \in Level, SetLevel(t, l, lv)
      PROVE  ObjectsOK'
  BY <1>3 DEF SetLevel
<1>4. CASE UNCHANGED <<m_level, m_appenders, m_formatter, m_mutex>>
  BY <1>4
<1>6. ASSUME NEW t \in Admin, NEW o \in Loggers \cup Appenders, NEW f \in Formatter,
             SetFormatter(t, o, f) \/ SetFormatterPtr(t, o, f)
      PROVE  ObjectsOK'
  <2>1. /\ m_formatter' = [m_formatter EXCEPT ![o] = f]
        /\ UNCHANGED <<m_level, m_appenders, m_mutex>>
    BY <1>6 DEF SetFormatter, SetFormatterPtr
  <2>2. QED
    BY <2>1
<1>5. QED
  <2>1. ASSUME NEW w \in Writer, Log(w) \/ \E l \in Loggers, lv \in Level : Check(w, l, lv)
        PROVE  ObjectsOK'
    BY <1>1, <1>4, <2>1 DEF Check
  <2>2. ASSUME NEW t \in Admin,
               \/ Reconfigure(t)
               \/ \E l \in Loggers, lv \in Level : SetLevel(t, l, lv)
               \/ \E o \in Loggers \cup Appenders, f \in Formatter : SetFormatter(t, o, f)
               \/ \E a \in Appenders, f \in Formatter : SetFormatterPtr(t, a, f)
               \/ \E l \in Loggers, a \in Appenders, op \in {"add", "del", "clear"} :
                    CallOp(t, op, l, a)
        PROVE  ObjectsOK'
    <3> HIDE DEF ObjectsOK, ThreadsOK, Free, Acquire
    <3>1. QED
      BY <1>2, <1>3, <1>4, <1>6, <2>2 DEF CallOp
  <2> HIDE DEF ObjectsOK, ThreadsOK, Free, Acquire
  <2>3. QED
    BY <1>4, <2>1, <2>2 DEF Next, Spin, Finished

(* ... those of the places and the locals of the threads ...                *)
LEMMA NextThreads == TypeOK /\ [Next]_vars => ThreadsOK'
<1> SUFFICES ASSUME ThreadsOK, [Next]_vars PROVE ThreadsOK'
  BY DEF TypeOK
<1> USE DEF ThreadsOK, WriterLabel, AdminLabel, Begin
<1>1. ASSUME NEW w \in Writer, Log(w) PROVE ThreadsOK'
  <2>1. CASE MakeEvent(w) \/ LogLock(w) \/ LogRefuse(w) \/ AppenderLock(w) \/ LogEnd(w)
    BY <2>1 DEF MakeEvent, LogLock, LogRefuse, AppenderTest, Reached, AppenderLock, LogEnd
  <2>2. CASE LogLoop(w)
    BY <2>2 DEF LogLoop
  <2>3. CASE AppenderWrite(w)
    BY <2>3 DEF AppenderWrite
  <2>4. CASE AppenderTest(w)
    <3>1. \E to \in {"loop", "print"} : pc' = [pc EXCEPT ![w] = to]
      BY <2>4 DEF AppenderTest
    <3>2. \E k \in Nat \ {0} : pos' = [pos EXCEPT ![w] = k]
      <4>1. pos[w] \in Nat \ {0} /\ pos[w] + 1 \in Nat \ {0}
        OBVIOUS
      <4>2. pos' = [pos EXCEPT ![w] = pos[w]] \/ pos' = [pos EXCEPT ![w] = pos[w] + 1]
        BY <2>4 DEF AppenderTest
      <4>3. QED
        BY <4>1, <4>2
    <3>3. UNCHANGED <<lg, ap, n>>
      BY <2>4 DEF AppenderTest
    <3>4. QED
      BY <3>1, <3>2, <3>3
  <2>5. QED
    BY <1>1, <2>1, <2>2, <2>3, <2>4 DEF Log
<1>2. ASSUME NEW t \in Admin, Reconfigure(t) PROVE ThreadsOK'
  <2>1. CASE AddLock(t) \/ DelLock(t) \/ ClearLock(t)
    <3>1. ASSUME NEW from, NEW to \in AdminLabel, AdminLock(t, from, to)
          PROVE  ThreadsOK'
      BY <3>1 DEF AdminLock
    <3> HIDE DEF ThreadsOK
    <3>2. CASE AddLock(t)
      BY <3>1, <3>2 DEF AddLock
    <3>3. CASE DelLock(t)
      BY <3>1, <3>3 DEF DelLock
    <3>4. CASE ClearLock(t)
      BY <3>1, <3>4 DEF ClearLock
    <3>5. QED
      BY <2>1, <3>2, <3>3, <3>4
  <2>2. CASE AddHas(t) \/ AddHasNone(t) \/ AddSet(t)
    BY <2>2 DEF AddHas, AddHasNone, AddGet, AddSet
  <2>3. CASE AddPush(t)
    BY <2>3 DEF AddPush
  <2>4. CASE DelErase(t) \/ ClearAll(t)
    <3>1. pc' = [pc EXCEPT ![t] = "idle"] /\ UNCHANGED <<lg, ap, pos, n>>
      BY <2>4 DEF DelErase, ClearAll
    <3>2. QED
      BY <3>1
  <2>5. QED
    BY <1>2, <2>1, <2>2, <2>3, <2>4 DEF Reconfigure
<1>3. ASSUME NEW w \in Writer, NEW l \in Loggers, NEW lv \in Level, Check(w, l, lv)
      PROVE  ThreadsOK'
  BY <1>3 DEF Check
<1>4. ASSUME NEW t \in Admin, NEW l \in Loggers, NEW lv \in Level, SetLevel(t, l, lv)
      PROVE  ThreadsOK'
  BY <1>4 DEF SetLevel
<1>5. ASSUME NEW t \in Admin, NEW l \in Loggers, NEW a \in Appenders,
             NEW op \in {"add", "del", "clear"}, CallOp(t, op, l, a)
      PROVE  ThreadsOK'
  BY <1>5 DEF CallOp
<1>6. CASE UNCHANGED vars
  BY <1>6
<1>8. ASSUME NEW t \in Admin, NEW o \in Loggers \cup Appenders, NEW f \in Formatter,
             SetFormatter(t, o, f) \/ SetFormatterPtr(t, o, f)
      PROVE  ThreadsOK'
  <2>1. UNCHANGED <<pc, lg, ap, pos>> /\ n' = [n EXCEPT ![t] = @ + 1]
    BY <1>8 DEF SetFormatter, SetFormatterPtr
  <2>2. QED
    BY <2>1
<1> HIDE DEF ThreadsOK, WriterLabel, AdminLabel, Begin
<1>7. QED
  <2>1. ASSUME NEW w \in Writer, Log(w) \/ \E l \in Loggers, lv \in Level : Check(w, l, lv)
        PROVE  ThreadsOK'
    BY <1>1, <1>3, <2>1
  <2>2. ASSUME NEW t \in Admin,
               \/ Reconfigure(t)
               \/ \E l \in Loggers, lv \in Level : SetLevel(t, l, lv)
               \/ \E o \in Loggers \cup Appenders, f \in Formatter : SetFormatter(t, o, f)
               \/ \E a \in Appenders, f \in Formatter : SetFormatterPtr(t, a, f)
               \/ \E l \in Loggers, a \in Appenders, op \in {"add", "del", "clear"} :
                    CallOp(t, op, l, a)
        PROVE  ThreadsOK'
    BY <1>2, <1>4, <1>5, <1>8, <2>2
  <2>3. QED
    BY <1>6, <2>1, <2>2 DEF Next, Spin, Finished

(* ... and those of the events and the lines.                               *)
LEMMA NextLines == TypeOK /\ LoopInList /\ [Next]_vars => LinesOK'
<1> SUFFICES ASSUME ObjectsOK, ThreadsOK, LinesOK, LoopInList, [Next]_vars PROVE LinesOK'
  BY DEF TypeOK
<1>0. TypeOK
  BY DEF TypeOK
<1> USE DEF LinesOK, Event
<1>1. ASSUME NEW w \in Writer, NEW l \in Loggers, NEW lv \in Level, Check(w, l, lv)
      PROVE  LinesOK'
  <2>1. [from |-> w, id |-> n[w] + 1, level |-> lv] \in Event
    BY DEF ThreadsOK
  <2>2. ev' = [ev EXCEPT ![w] = [from |-> w, id |-> n[w] + 1, level |-> lv]] /\ out' = out
    BY <1>1 DEF Check
  <2>3. QED
    BY <2>1, <2>2
<1>2. ASSUME NEW w \in Writer, AppenderWrite(w) PROVE LinesOK'
  <2> DEFINE a == Current(w)
             line == [event |-> ev[w], logger |-> lg[w]]
  <2>1. a \in Appenders
    BY <1>0, <1>2, CurrentListed DEF AppenderWrite, LoopInList
  <2>2. line \in [event : Event, logger : Loggers]
    BY DEF ThreadsOK
  <2> HIDE DEF a, line
  <2>3. out' = [out EXCEPT ![a] = Append(@, line)] /\ UNCHANGED ev
    BY <1>2 DEF AppenderWrite, a, line
  <2>4. Append(out[a], line) \in Seq([event : Event, logger : Loggers])
    <3>1. out[a] \in Seq([event : Event, logger : Loggers])
      BY <2>1
    <3> HIDE DEF Event
    <3>2. QED
      BY <2>2, <3>1, AppendProperties
  <2>5. QED
    BY <2>1, <2>3, <2>4
<1>3. CASE UNCHANGED <<ev, out>>
  BY <1>3
<1>4. QED
  BY <1>1, <1>2, <1>3
     DEF Next, Log, MakeEvent, LogLock, LogLoop, LogRefuse, AppenderTest, Reached,
     AppenderLock, LogEnd,
         SetLevel, SetFormatter, SetFormatterPtr, CallOp, Reconfigure, AddLock, DelLock,
         ClearLock, AdminLock,
         AddHas, AddHasNone, AddGet, AddSet, AddPush, DelErase, ClearAll, Spin, Finished

(* Every step keeps the types; writing needs the loop to be in the list.   *)
LEMMA NextType == TypeOK /\ LoopInList /\ [Next]_vars => TypeOK'
BY NextObjects, NextThreads, NextLines DEF TypeOK

-----------------------------------------------------------------------------
(* Locks *)

(* Who is inside a method of a logger, or writes, owns the lock.           *)
LoggerHeld == \A t \in Thread : pc[t] \in InLogger => m_mutex[lg[t]] = t

AppenderHeld == \A w \in Writer : pc[w] = "write" => m_mutex[Current(w)] = w

(* No thread is inside a method.                                            *)
LEMMA InitHeld == Init => LoggerHeld /\ AppenderHeld /\ LoopInList
BY DEF Init, LoggerHeld, AppenderHeld, LoopInList, InLogger

(* What a step of thread t can do with the lock of lg[t].                  *)
LEMMA LoggerSteps ==
  ASSUME TypeOK, LoggerHeld, NEW t \in Thread, NEW from, NEW to, Goto(t, from, to),
         UNCHANGED lg,
         \/ UNCHANGED m_mutex /\ (to \in InLogger => from \in InLogger)
         \/ Acquire(t, lg[t])
         \/ Free(lg[t]) /\ from \in InLogger /\ to \notin InLogger
         \/ /\ \E a \in Appenders : Acquire(t, a) \/ Free(a)
            /\ to \in InLogger => from \in InLogger
  PROVE  LoggerHeld'
<1> USE DEF LoggerHeld
<1>1. /\ lg \in [Thread -> Loggers] /\ pc \in [Thread -> WriterLabel \cup AdminLabel]
      /\ m_mutex \in [Loggers \cup Appenders -> Thread \cup {NoThread}]
  BY DEF TypeOK, ObjectsOK, ThreadsOK
<1>2. CASE UNCHANGED m_mutex /\ (to \in InLogger => from \in InLogger)
  BY <1>1, <1>2
<1>3. CASE Acquire(t, lg[t])
  BY <1>1, <1>3 DEF Acquire
<1>4. CASE Free(lg[t]) /\ from \in InLogger /\ to \notin InLogger
  BY <1>1, <1>4 DEF Free
<1>5. CASE /\ \E a \in Appenders : Acquire(t, a) \/ Free(a)
           /\ to \in InLogger => from \in InLogger
  BY <1>1, <1>5 DEF Acquire, Free
<1>6. QED
  BY <1>2, <1>3, <1>4, <1>5

(* Every step keeps the logger's lock with the thread that is inside.       *)
LEMMA NextLoggerHeld ==
  TypeOK /\ LoopInList /\ LoggerHeld /\ [Next]_vars => LoggerHeld'
<1> SUFFICES ASSUME TypeOK, LoopInList, LoggerHeld, [Next]_vars PROVE LoggerHeld'
  OBVIOUS
<1>1. ASSUME NEW w \in Writer, Log(w) PROVE LoggerHeld'
  <2>1. CASE MakeEvent(w) \/ LogLoop(w)
    <3>1. CASE MakeEvent(w)
      <4>1. Goto(w, "event", "lock") /\ UNCHANGED <<lg, m_mutex>>
        BY <3>1 DEF MakeEvent
      <4>2. "lock" \notin InLogger
        BY DEF InLogger
      <4>3. QED
        BY <4>1, <4>2, LoggerSteps
    <3>2. CASE LogLoop(w)
      BY <3>2, LoggerSteps DEF LogLoop, InLogger
    <3>3. QED
      BY <2>1, <3>1, <3>2
  <2>2. CASE LogLock(w)
    BY <2>2, LoggerSteps DEF LogLock
  <2>3. CASE LogRefuse(w) \/ LogEnd(w)
    BY <2>3, LoggerSteps DEF LogRefuse, LogEnd, InLogger
  <2>4. CASE AppenderLock(w) \/ AppenderWrite(w)
    <3>1. Current(w) \in Appenders
      <4>1. pos[w] \in 1..Len(m_appenders[lg[w]])
        BY <2>4 DEF AppenderTest, Reached, AppenderLock, AppenderWrite, LoopInList, TypeOK,
           ObjectsOK, ThreadsOK
      <4>2. QED
        BY <4>1, CurrentListed DEF TypeOK, ObjectsOK, ThreadsOK
    <3>2. PICK from, to : Goto(w, from, to) /\ from \in InLogger
      BY <2>4 DEF AppenderLock, Reached, AppenderWrite, InLogger
    <3>3. UNCHANGED lg /\ (Acquire(w, Current(w)) \/ Free(Current(w)))
      BY <2>4 DEF AppenderLock, AppenderWrite
    <3>4. QED
      BY <3>1, <3>2, <3>3, LoggerSteps
  <2>5. CASE AppenderTest(w)
    <3>1. PICK to \in {"loop", "print"} : Goto(w, "loop", to)
      BY <2>5 DEF AppenderTest
    <3>2. UNCHANGED <<lg, m_mutex>> /\ "loop" \in InLogger
      BY <2>5 DEF AppenderTest, InLogger
    <3>3. QED
      BY <3>1, <3>2, LoggerSteps
  <2>6. QED
    BY <1>1, <2>1, <2>2, <2>3, <2>4, <2>5 DEF Log
<1>2. ASSUME NEW t \in Admin, Reconfigure(t) PROVE LoggerHeld'
  <2>1. CASE AddLock(t) \/ DelLock(t) \/ ClearLock(t)
    BY <2>1, LoggerSteps DEF AddLock, DelLock, ClearLock, AdminLock
  <2>2. CASE AddHas(t) \/ AddHasNone(t) \/ AddSet(t)
    BY <2>2, LoggerSteps DEF AddHas, AddHasNone, AddGet, AddSet, InLogger
  <2>3. CASE AddPush(t) \/ DelErase(t) \/ ClearAll(t)
    BY <2>3, LoggerSteps DEF AddPush, DelErase, ClearAll, InLogger
  <2>4. QED
    BY <1>2, <2>1, <2>2, <2>3 DEF Reconfigure
<1>3. ASSUME NEW w \in Writer, NEW l \in Loggers, NEW lv \in Level, Check(w, l, lv)
      PROVE  LoggerHeld'
  BY <1>3 DEF Check, LoggerHeld, InLogger, TypeOK, ThreadsOK
<1>4. ASSUME NEW t \in Admin, NEW l \in Loggers, NEW a \in Appenders,
             NEW op \in {"add", "del", "clear"}, CallOp(t, op, l, a)
      PROVE  LoggerHeld'
  BY <1>4 DEF CallOp, LoggerHeld, InLogger, TypeOK, ThreadsOK
<1>5. CASE UNCHANGED <<pc, lg, m_mutex>>
  BY <1>5 DEF LoggerHeld
<1>6. QED
  BY <1>1, <1>2, <1>3, <1>4, <1>5 DEF Next, SetLevel, SetFormatter, SetFormatterPtr, Spin,
     Finished

(* A writer in the middle of a line: nobody else changes its place, nor the *)
(* list of the logger whose lock it holds.                                  *)
LEMMA WriterKept ==
  ASSUME TypeOK, LoggerHeld, [Next]_vars, NEW v \in Writer,
         pc[v] \in {"print", "write"}, pc'[v] \in {"print", "write"}
  PROVE  lg'[v] = lg[v] /\ pos'[v] = pos[v] /\ m_appenders'[lg[v]] = m_appenders[lg[v]]
<1> DEFINE Kept == lg'[v] = lg[v] /\ pos'[v] = pos[v] /\ m_appenders'[lg[v]] = m_appenders[lg[v]]
<1>1. /\ m_appenders \in [Loggers -> Seq(Appenders)] /\ lg \in [Thread -> Loggers]
      /\ pos \in [Writer -> Nat \ {0}] /\ pc \in [Thread -> WriterLabel \cup AdminLabel]
      /\ m_mutex[lg[v]] = v
  BY DEF TypeOK, ObjectsOK, ThreadsOK, LoggerHeld, InLogger
<1>2. ASSUME NEW w \in Writer, Log(w) PROVE Kept
  <2>1. CASE LogLoop(w) \/ AppenderTest(w) \/ AppenderWrite(w)
    BY <1>1, <2>1 DEF LogLoop, AppenderTest, AppenderWrite
  <2>2. CASE ~ LogLoop(w) /\ ~ AppenderTest(w) /\ ~ AppenderWrite(w)
    BY <1>2, <2>2 DEF Log, MakeEvent, LogLock, LogRefuse, AppenderLock, LogEnd
  <2>3. QED
    BY <2>1, <2>2
<1>3. ASSUME NEW t \in Admin, Reconfigure(t) PROVE Kept
  <2>1. CASE AddPush(t) \/ DelErase(t) \/ ClearAll(t)
    <3>1. lg[t] # lg[v]
      BY <1>1, <2>1 DEF AddPush, DelErase, ClearAll, LoggerHeld, InLogger
    <3>2. QED
      BY <1>1, <2>1, <3>1 DEF AddPush, DelErase, ClearAll
  <2>2. CASE AddLock(t) \/ DelLock(t) \/ ClearLock(t)
    BY <2>2 DEF AddLock, DelLock, ClearLock, AdminLock
  <2>4. CASE AddHas(t) \/ AddHasNone(t) \/ AddSet(t)
    BY <2>4 DEF AddHas, AddHasNone, AddGet, AddSet
  <2>3. QED
    BY <1>3, <2>1, <2>2, <2>4 DEF Reconfigure
<1>4. ASSUME NEW w \in Writer, NEW l \in Loggers, NEW lv \in Level, Check(w, l, lv)
      PROVE  Kept
  BY <1>1, <1>4 DEF Check
<1>5. ASSUME NEW t \in Admin, NEW l \in Loggers, NEW a \in Appenders,
             NEW op \in {"add", "del", "clear"}, CallOp(t, op, l, a)
      PROVE  Kept
  BY <1>1, <1>5 DEF CallOp
<1>6. CASE UNCHANGED <<lg, pos, m_appenders>>
  BY <1>6
<1>7. QED
  BY <1>2, <1>3, <1>4, <1>5, <1>6 DEF Next, SetLevel, SetFormatter, SetFormatterPtr, Spin,
     Finished

(* Nor does anybody else take or give back the appender it writes to.       *)
LEMMA MutexKept ==
  ASSUME TypeOK, LoopInList, LoggerHeld, AppenderHeld, [Next]_vars,
         NEW v \in Writer, pc[v] = "write", pc'[v] = "write"
  PROVE  m_mutex'[Current(v)] = v
<1>1. /\ lg \in [Thread -> Loggers] /\ pc \in [Thread -> WriterLabel \cup AdminLabel]
      /\ m_mutex \in [Loggers \cup Appenders -> Thread \cup {NoThread}]
  BY DEF TypeOK, ObjectsOK, ThreadsOK
<1>2. m_mutex[Current(v)] = v /\ Current(v) \in Appenders
  BY DEF AppenderHeld, LoopInList, Current, TypeOK, ObjectsOK, ThreadsOK
<1>3. ASSUME NEW o, Acquire(v, o) \/ \E t \in Thread : Acquire(t, o) PROVE m_mutex'[Current(v)] = v
  BY <1>1, <1>2, <1>3 DEF Acquire
<1>4. ASSUME NEW t \in Thread, Free(lg[t]) PROVE m_mutex'[Current(v)] = v
  BY <1>1, <1>2, <1>4 DEF Free
<1>5. ASSUME NEW w \in Writer, Log(w) PROVE m_mutex'[Current(v)] = v
  <2>1. CASE AppenderWrite(w)
    <3>1. w # v
      BY <1>1, <2>1 DEF AppenderWrite
    <3>2. m_mutex[Current(w)] = w /\ Free(Current(w))
      BY <2>1 DEF AppenderWrite, AppenderHeld
    <3>3. QED
      BY <1>1, <1>2, <3>1, <3>2 DEF Free
  <2>2. CASE LogLock(w) \/ AppenderLock(w)
    BY <1>3, <2>2 DEF LogLock, AppenderTest, Reached, AppenderLock
  <2>3. CASE LogRefuse(w) \/ LogEnd(w)
    BY <1>4, <2>3 DEF LogRefuse, LogEnd
  <2>4. CASE MakeEvent(w) \/ LogLoop(w) \/ AppenderTest(w)
    BY <1>2, <2>4 DEF MakeEvent, LogLoop, AppenderTest
  <2>5. QED
    BY <1>5, <2>1, <2>2, <2>3, <2>4 DEF Log
<1>6. ASSUME NEW t \in Admin, Reconfigure(t) PROVE m_mutex'[Current(v)] = v
  <2>1. CASE AddLock(t) \/ DelLock(t) \/ ClearLock(t)
    BY <1>3, <2>1 DEF AddLock, DelLock, ClearLock, AdminLock
  <2>2. CASE AddPush(t) \/ DelErase(t) \/ ClearAll(t)
    BY <1>4, <2>2 DEF AddPush, DelErase, ClearAll
  <2>3. CASE AddHas(t) \/ AddHasNone(t) \/ AddSet(t)
    BY <1>2, <2>3 DEF AddHas, AddHasNone, AddGet, AddSet
  <2>4. QED
    BY <1>6, <2>1, <2>2, <2>3 DEF Reconfigure
<1>7. CASE UNCHANGED m_mutex
  BY <1>2, <1>7
<1>8. QED
  BY <1>5, <1>6, <1>7 DEF Next, Check, SetLevel, SetFormatter, SetFormatterPtr, CallOp, Spin,
     Finished

(* How a writer gets to an appender: by the test of StdoutLogAppender::log, *)
(* or with the lock.                                                        *)
LEMMA Arrival ==
  ASSUME TypeOK, [Next]_vars, NEW v \in Writer,
         pc'[v] \in {"print", "write"}, pc'[v] # pc[v]
  PROVE  \/ AppenderLock(v)
         \/ pc'[v] = "print" /\ AppenderTest(v)
<1>0. pc \in [Thread -> WriterLabel \cup AdminLabel]
  BY DEF TypeOK, ThreadsOK
<1>1. ASSUME NEW t \in Thread, NEW from, NEW to, Goto(t, from, to)
      PROVE  t = v /\ (to = "print" \/ to = "write")
  BY <1>0, <1>1
<1>2. ASSUME NEW w \in Writer, Log(w), ~ AppenderLock(w), ~ AppenderTest(w) PROVE FALSE
  <2>1. \/ Goto(w, "event", "lock") \/ Goto(w, "lock", "test") \/ Goto(w, "test", "loop")
        \/ Goto(w, "test", "idle") \/ Goto(w, "write", "loop") \/ Goto(w, "loop", "idle")
    BY <1>2 DEF Log, MakeEvent, LogLock, LogLoop, LogRefuse, AppenderWrite, LogEnd
  <2>2. PICK from, to : Goto(w, from, to) /\ to \in {"lock", "test", "loop", "idle"}
    BY <2>1
  <2>3. w \in Thread
    BY DEF Thread
  <2>4. QED
    BY <1>1, <2>2, <2>3
<1>3. ASSUME NEW t \in Admin, Reconfigure(t) PROVE FALSE
  <2>1. PICK to \in AdminLabel : pc' = [pc EXCEPT ![t] = to]
    BY <1>3 DEF Reconfigure, AddLock, DelLock, ClearLock, AdminLock, AddHas, AddHasNone,
       AddGet, AddSet, AddPush, DelErase, ClearAll, AdminLabel
  <2>2. to # "print" /\ to # "write"
    BY <2>1 DEF AdminLabel
  <2>3. QED
    BY <1>0, <2>1, <2>2
<1>4. ASSUME NEW w \in Writer, NEW l \in Loggers, NEW lv \in Level, Check(w, l, lv)
      PROVE  FALSE
  <2>1. pc[w] = "idle" /\ pc' = [pc EXCEPT ![w] = "event"]
    BY <1>4 DEF Check
  <2>2. QED
    BY <1>0, <2>1
<1>5. ASSUME NEW t \in Admin, NEW l \in Loggers, NEW a \in Appenders,
             NEW op \in {"add", "del", "clear"}, CallOp(t, op, l, a)
      PROVE  FALSE
  <2>1. pc[t] = "idle" /\ pc' = [pc EXCEPT ![t] = op] /\ op \notin {"print", "write"}
    BY <1>5 DEF CallOp
  <2>2. QED
    BY <1>0, <2>1
<1>6. pc' # pc
  OBVIOUS
<1>7. \A w \in Writer : AppenderLock(w) => w = v
  BY <1>1 DEF AppenderLock, Reached
<1>8. \A w \in Writer : AppenderTest(w) => w = v /\ pc'[v] = "print"
  BY <1>0 DEF AppenderTest
<1>9. QED
  BY <1>2, <1>3, <1>4, <1>5, <1>6, <1>7, <1>8
     DEF Next, SetLevel, SetFormatter, SetFormatterPtr, Spin, Finished

(* A writer gets to a line with the appender's lock, at a place in the list. *)
LEMMA NextWriters ==
  TypeOK /\ LoopInList /\ LoggerHeld /\ AppenderHeld /\ [Next]_vars => AppenderHeld' /\ LoopInList'
<1> SUFFICES ASSUME TypeOK, LoopInList, LoggerHeld, AppenderHeld, [Next]_vars,
                    NEW v \in Writer, pc'[v] \in {"print", "write"}
             PROVE  /\ pc'[v] = "write" => m_mutex'[Current(v)'] = v
                    /\ pos'[v] \in DOMAIN (m_appenders'[lg'[v]])
  BY DEF AppenderHeld, LoopInList
<1>0. /\ m_appenders \in [Loggers -> Seq(Appenders)] /\ lg \in [Thread -> Loggers]
      /\ pos \in [Writer -> Nat \ {0}] /\ pc \in [Thread -> WriterLabel \cup AdminLabel]
      /\ m_mutex \in [Loggers \cup Appenders -> Thread \cup {NoThread}]
  BY DEF TypeOK, ObjectsOK, ThreadsOK
<1>1. CASE pc'[v] = pc[v]
  <2>1. lg'[v] = lg[v] /\ pos'[v] = pos[v] /\ m_appenders'[lg[v]] = m_appenders[lg[v]]
    BY <1>1, WriterKept
  <2>2. pos[v] \in DOMAIN m_appenders[lg[v]]
    BY <1>1 DEF LoopInList
  <2>3. Current(v)' = Current(v) /\ Current(v) \in Appenders
    BY <1>0, <2>1, <2>2 DEF Current
  <2>4. pc'[v] = "write" => m_mutex'[Current(v)] = v
    BY <1>1, MutexKept
  <2>5. QED
    BY <2>1, <2>2, <2>3, <2>4
<1>2. CASE AppenderLock(v)
  <2>1. pos[v] \in DOMAIN m_appenders[lg[v]] /\ Current(v) \in Appenders
    <3>1. pos[v] \in DOMAIN m_appenders[lg[v]]
      BY <1>0, <1>2 DEF AppenderLock, Reached, LoopInList
    <3>2. QED
      BY <1>0, <3>1 DEF Current
  <2>2. UNCHANGED <<lg, pos, m_appenders>> /\ Current(v)' = Current(v)
    BY <1>2 DEF AppenderLock, Current
  <2>3. m_mutex'[Current(v)] = v
    BY <1>0, <1>2, <2>1 DEF AppenderLock, Acquire
  <2>4. QED
    BY <2>1, <2>2, <2>3
<1>3. CASE pc'[v] = "print" /\ AppenderTest(v)
  <2>1. UNCHANGED <<lg, pos, m_appenders>> /\ pos[v] <= Len(m_appenders[lg[v]])
    BY <1>0, <1>3 DEF AppenderTest
  <2>2. QED
    BY <1>0, <1>3, <2>1
<1>4. QED
  BY <1>1, <1>2, <1>3, Arrival

-----------------------------------------------------------------------------
(* Formatters *)

(* addAppender has given the appender a formatter before it is in the list. *)
Formatted == FormatterSet /\ \A t \in Admin : pc[t] = "add_push" => m_formatter[ap[t]] # NoFormatter

(* The appenders the threads find have a formatter.                         *)
LEMMA InitFormatted == Init => Formatted
<1> SUFFICES ASSUME Init PROVE Formatted
  OBVIOUS
<1>1. \A i \in DOMAIN Attached : Attached[i] \in Appenders /\ m_formatter[Attached[i]] = Default
  BY DEF Init
<1>2. FormatterSet
  BY <1>1 DEF FormatterSet, Init
<1>3. QED
  BY <1>2 DEF Formatted, Init

(* No step takes a formatter away or adds an appender without one.          *)
LEMMA NextFormatted == TypeOK /\ Formatted /\ [Next]_vars => Formatted'
<1> SUFFICES ASSUME TypeOK, Formatted, [Next]_vars PROVE Formatted'
  OBVIOUS
<1>0. /\ m_appenders \in [Loggers -> Seq(Appenders)]
      /\ \A l \in Loggers : m_formatter[l] # NoFormatter
      /\ m_formatter \in [Loggers \cup Appenders -> Formatter \cup {NoFormatter}]
      /\ lg \in [Thread -> Loggers] /\ ap \in [Admin -> Appenders]
      /\ pc \in [Thread -> WriterLabel \cup AdminLabel]
  BY DEF TypeOK, ObjectsOK, ThreadsOK
<1> USE DEF Formatted, FormatterSet
<1>1. ASSUME NEW w \in Writer, Log(w) PROVE Formatted'
  <2>1. UNCHANGED <<m_appenders, m_formatter, ap>> /\ \A t \in Admin : pc'[t] = pc[t]
    BY <1>0, <1>1 DEF Log, MakeEvent, LogLock, LogLoop, LogRefuse, AppenderTest, Reached,
       AppenderLock,
       AppenderWrite, LogEnd
  <2>2. QED
    BY <2>1
<1>2. ASSUME NEW t \in Admin, Reconfigure(t) PROVE Formatted'
  <2>1. CASE AddLock(t) \/ DelLock(t) \/ ClearLock(t)
    BY <1>0, <2>1 DEF AddLock, DelLock, ClearLock, AdminLock
  <2>2. CASE AddHas(t)
    BY <1>0, <2>2 DEF AddHas, AddGet
  <2>7. CASE AddHasNone(t)
    BY <1>0, <2>7 DEF AddHasNone, AddGet
  <2>8. CASE AddSet(t)
    <3>1. \A o \in Loggers \cup Appenders :
            m_formatter[o] # NoFormatter => m_formatter'[o] # NoFormatter
      BY <1>0, <2>8 DEF AddSet
    <3>2. m_formatter'[ap[t]] # NoFormatter
      BY <1>0, <2>8 DEF AddSet
    <3>3. pc' = [pc EXCEPT ![t] = "add_push"] /\ UNCHANGED <<m_appenders, ap>>
      BY <2>8 DEF AddSet
    <3>4. FormatterSet'
      BY <1>0, <3>1, <3>3
    <3>5. \A u \in Admin : pc'[u] = "add_push" => m_formatter'[ap'[u]] # NoFormatter
      BY <1>0, <3>1, <3>2, <3>3
    <3>6. QED
      BY <3>4, <3>5
  <2>3. CASE AddPush(t)
    <3>1. m_formatter[ap[t]] # NoFormatter
      BY <2>3 DEF AddPush
    <3>2. \A l \in Loggers : \A i \in DOMAIN m_appenders'[l] :
            \/ m_appenders'[l][i] = ap[t]
            \/ i \in DOMAIN m_appenders[l] /\ m_appenders'[l][i] = m_appenders[l][i]
      <4> DEFINE old == m_appenders[lg[t]]
                 new == Append(old, ap[t])
      <4>1. /\ Len(new) = Len(old) + 1 /\ new[Len(old) + 1] = ap[t]
            /\ \A i \in 1..Len(old) : new[i] = old[i]
            /\ new \in Seq(Appenders) /\ old \in Seq(Appenders)
        BY <1>0, AppendProperties
      <4> HIDE DEF new
      <4>2. \A i \in DOMAIN new : new[i] = ap[t] \/ (i \in DOMAIN old /\ new[i] = old[i])
        <5>1. DOMAIN new = 1..(Len(old) + 1) /\ DOMAIN old = 1..Len(old) /\ Len(old) \in Nat
          BY <4>1, LenProperties
        <5>2. ASSUME NEW i \in 1..(Len(old) + 1)
              PROVE  new[i] = ap[t] \/ (i \in 1..Len(old) /\ new[i] = old[i])
          <6>1. CASE i = Len(old) + 1
            BY <4>1, <6>1
          <6>2. CASE i # Len(old) + 1
            <7>1. i \in 1..Len(old)
              BY <5>1, <6>2
            <7>2. QED
              BY <4>1, <7>1
          <6>3. QED
            BY <6>1, <6>2
        <5>3. QED
          BY <5>1, <5>2
      <4>3. m_appenders' = [m_appenders EXCEPT ![lg[t]] = new]
        BY <2>3 DEF AddPush, new
      <4>4. QED
        BY <1>0, <4>2, <4>3
    <3>3. UNCHANGED <<m_formatter, ap>> /\ pc' = [pc EXCEPT ![t] = "idle"]
      BY <2>3 DEF AddPush
    <3>4. \A u \in Admin : pc'[u] = "add_push" => pc[u] = "add_push"
      BY <1>0, <3>3
    <3>5. FormatterSet'
      BY <3>1, <3>2, <3>3
    <3>6. QED
      BY <3>3, <3>4, <3>5
  <2>4. CASE DelErase(t)
    <3>1. \A i \in DOMAIN Erased(m_appenders[lg[t]], ap[t]) :
            \E j \in DOMAIN m_appenders[lg[t]] :
              Erased(m_appenders[lg[t]], ap[t])[i] = m_appenders[lg[t]][j]
      BY <1>0, ErasedInList
    <3>2. \A l \in Loggers : \A i \in DOMAIN m_appenders'[l] :
            \E j \in DOMAIN m_appenders[l] : m_appenders'[l][i] = m_appenders[l][j]
      <4>1. m_appenders' = [m_appenders EXCEPT ![lg[t]] = Erased(m_appenders[lg[t]], ap[t])]
        BY <2>4 DEF DelErase
      <4>2. QED
        BY <1>0, <3>1, <4>1
    <3>3. UNCHANGED <<m_formatter, ap>> /\ pc' = [pc EXCEPT ![t] = "idle"]
      BY <2>4 DEF DelErase
    <3>4. QED
      BY <1>0, <3>2, <3>3
  <2>5. CASE ClearAll(t)
    BY <1>0, <2>5 DEF ClearAll
  <2>6. QED
    BY <1>2, <2>1, <2>2, <2>3, <2>4, <2>5, <2>7, <2>8 DEF Reconfigure
<1>3. ASSUME NEW w \in Writer, NEW l \in Loggers, NEW lv \in Level, Check(w, l, lv)
      PROVE  Formatted'
  BY <1>0, <1>3 DEF Check
<1>4. ASSUME NEW t \in Admin, NEW l \in Loggers, NEW a \in Appenders,
             NEW op \in {"add", "del", "clear"}, CallOp(t, op, l, a)
      PROVE  Formatted'
  BY <1>0, <1>4 DEF CallOp
<1>5. CASE UNCHANGED <<m_appenders, m_formatter, ap, pc>>
  BY <1>5
<1>7. ASSUME NEW t \in Admin, NEW o \in Loggers \cup Appenders, NEW f \in Formatter,
             SetFormatter(t, o, f) \/ SetFormatterPtr(t, o, f)
      PROVE  Formatted'
  <2>1. m_formatter' = [m_formatter EXCEPT ![o] = f] /\ UNCHANGED <<m_appenders, ap, pc>>
    BY <1>7 DEF SetFormatter, SetFormatterPtr
  <2>2. \A q \in Loggers \cup Appenders :
          m_formatter[q] # NoFormatter => m_formatter'[q] # NoFormatter
    BY <1>0, <2>1
  <2>3. QED
    BY <1>0, <2>1, <2>2
<1> HIDE DEF Formatted, FormatterSet
<1>6. QED
  BY <1>1, <1>2, <1>3, <1>4, <1>5, <1>7 DEF Next, SetLevel, Spin, Finished

-----------------------------------------------------------------------------
(* The order of the events *)

Inv == TypeOK /\ LoggerHeld /\ AppenderHeld /\ LoopInList

Line == [event : Event, logger : Loggers]

(* The events of a writer are numbered.                                     *)
Numbered ==
  /\ \A w \in Writer : ev[w].from = w /\ ev[w].id <= n[w]
  /\ \A a \in Appenders : \A i \in DOMAIN out[a] :
       out[a][i].event.id <= n[out[a][i].event.from]

(* Nobody has written an event before the loop of Logger::log begins.       *)
Fresh ==
  \A w \in Writer : pc[w] \in {"event", "lock", "test"} =>
    \A a \in Appenders : \A i \in DOMAIN out[a] : out[a][i].event # ev[w]

(* What the loop has written is the last that the logger has written.       *)
Latest ==
  \A w \in Writer : pc[w] \in {"loop", "print", "write"} =>
    \A a \in Appenders : \A i, j \in DOMAIN out[a] :
      /\ i < j /\ out[a][i].event = ev[w]
      /\ out[a][i].logger = lg[w] /\ out[a][j].logger = lg[w]
      => out[a][j].event = ev[w]

InOrder == Numbered /\ Fresh /\ Latest /\ SameOrder

(* What a step does to the place of a writer.                               *)
Moves == {<<"event", "lock">>, <<"lock", "test">>, <<"test", "loop">>, <<"test", "idle">>,
          <<"loop", "loop">>, <<"loop", "print">>, <<"print", "write">>,
          <<"loop", "write">>, <<"write", "loop">>, <<"loop", "idle">>}

LEMMA WriterSteps ==
  ASSUME TypeOK, [Next]_vars, NEW v \in Writer
  PROVE  \/ UNCHANGED <<pc[v], ev[v], lg[v], n[v]>>
         \/ UNCHANGED <<ev[v], lg[v], n[v]>> /\ <<pc[v], pc'[v]>> \in Moves
         \/ \E l \in Loggers, lv \in Level : Check(v, l, lv)
<1> DEFINE Same == UNCHANGED <<pc[v], ev[v], lg[v], n[v]>>
           Move == UNCHANGED <<ev[v], lg[v], n[v]>> /\ <<pc[v], pc'[v]>> \in Moves
<1>0. pc \in [Thread -> WriterLabel \cup AdminLabel] /\ lg \in [Thread -> Loggers]
      /\ n \in [Thread -> Nat] /\ ev \in [Writer -> Event]
  BY DEF TypeOK, ThreadsOK, LinesOK
<1>1. ASSUME NEW w \in Writer, Log(w) PROVE Same \/ Move
  <2>1. UNCHANGED <<ev, lg, n>>
    BY <1>1 DEF Log, MakeEvent, LogLock, LogLoop, LogRefuse, AppenderTest, Reached,
       AppenderLock, AppenderWrite, LogEnd
  <2>2. \E from, to : <<from, to>> \in Moves /\ pc[w] = from /\ pc' = [pc EXCEPT ![w] = to]
    <3> USE DEF Moves
    <3>1. CASE MakeEvent(w) \/ LogLock(w)
      BY <3>1 DEF MakeEvent, LogLock
    <3>2. CASE LogLoop(w) \/ LogRefuse(w)
      BY <3>2 DEF LogLoop, LogRefuse
    <3>3. CASE AppenderLock(w) \/ AppenderWrite(w) \/ LogEnd(w)
      BY <3>3 DEF AppenderTest, Reached, AppenderLock, AppenderWrite, LogEnd
    <3>4. CASE AppenderTest(w)
      BY <3>4 DEF AppenderTest
    <3>5. QED
      BY <1>1, <3>1, <3>2, <3>3, <3>4 DEF Log
  <2>3. CASE w = v
    BY <1>0, <2>1, <2>2, <2>3
  <2>4. CASE w # v
    BY <1>0, <2>1, <2>2, <2>4
  <2>5. QED
    BY <2>3, <2>4
<1>2. ASSUME NEW w \in Writer, w # v, NEW l \in Loggers, NEW lv \in Level, Check(w, l, lv)
      PROVE  Same
  BY <1>0, <1>2 DEF Check, Begin
<1>3. ASSUME NEW t \in Admin, Reconfigure(t) PROVE Same
  <2>1. UNCHANGED <<ev, lg, n>> /\ \E to : pc' = [pc EXCEPT ![t] = to]
    BY <1>3 DEF Reconfigure, AddLock, DelLock, ClearLock, AdminLock, AddHas, AddHasNone, AddGet,
       AddSet, AddPush, DelErase, ClearAll
  <2>2. QED
    BY <1>0, <2>1
<1>4. ASSUME NEW t \in Admin, NEW l \in Loggers, NEW a \in Appenders,
             NEW op \in {"add", "del", "clear"}, CallOp(t, op, l, a)
      PROVE  Same
  BY <1>0, <1>4 DEF CallOp, Begin
<1>5. ASSUME NEW t \in Admin, NEW l \in Loggers, NEW lv \in Level, SetLevel(t, l, lv) PROVE Same
  BY <1>0, <1>5 DEF SetLevel, Begin
<1>6. ASSUME NEW t \in Admin, NEW o \in Loggers \cup Appenders, NEW f \in Formatter,
             SetFormatter(t, o, f) \/ SetFormatterPtr(t, o, f)
      PROVE  Same
  BY <1>0, <1>6 DEF SetFormatter, SetFormatterPtr, Begin
<1>7. ASSUME UNCHANGED vars PROVE Same
  BY <1>7
<1> HIDE DEF Same, Move
<1> DEFINE Goal == Same \/ Move \/ \E l \in Loggers, lv \in Level : Check(v, l, lv)
<1>8. Goal
  <2>1. ASSUME NEW w \in Writer, Log(w) \/ \E l \in Loggers, lv \in Level : Check(w, l, lv)
        PROVE  Goal
    BY <1>1, <1>2, <2>1
  <2>0. Same => Goal
    OBVIOUS
  <2>2. ASSUME NEW t \in Admin,
               \/ Reconfigure(t)
               \/ \E l \in Loggers, lv \in Level : SetLevel(t, l, lv)
               \/ \E o \in Loggers \cup Appenders, f \in Formatter : SetFormatter(t, o, f)
               \/ \E a \in Appenders, f \in Formatter : SetFormatterPtr(t, a, f)
               \/ \E l \in Loggers, a \in Appenders, op \in {"add", "del", "clear"} :
                    CallOp(t, op, l, a)
        PROVE  Same
    BY <1>3, <1>4, <1>5, <1>6, <2>2
  <2>3. ASSUME UNCHANGED vars PROVE Goal
    BY <1>7, <2>0, <2>3
  <2> HIDE DEF Goal
  <2>4. ASSUME Next PROVE Goal
    BY <2>0, <2>1, <2>2, <2>3, <2>4, Zenon DEF Next, Spin, Finished
  <2>5. QED
    BY <2>3, <2>4
<1>9. QED
  BY <1>8 DEF Same, Move

(* Only a writer in the loop writes, one line at the end of one file.       *)
LEMMA OutSteps ==
  ASSUME TypeOK, LoopInList, [Next]_vars
  PROVE  \/ UNCHANGED out
         \/ \E w \in Writer, a \in Appenders :
              /\ pc[w] = "write" /\ pc'[w] = "loop" /\ UNCHANGED <<ev, lg, n>>
              /\ \A v \in Writer : v # w => pc'[v] = pc[v]
              /\ out' = [out EXCEPT ![a] = Append(@, [event |-> ev[w], logger |-> lg[w]])]
<1>1. ASSUME NEW w \in Writer, AppenderWrite(w)
      PROVE  /\ pc[w] = "write" /\ pc'[w] = "loop" /\ UNCHANGED <<ev, lg, n>>
             /\ \A v \in Writer : v # w => pc'[v] = pc[v]
             /\ Current(w) \in Appenders
             /\ out' = [out EXCEPT ![Current(w)] =
                          Append(@, [event |-> ev[w], logger |-> lg[w]])]
  <2>1. Current(w) \in Appenders
    BY <1>1, CurrentListed DEF AppenderWrite, LoopInList
  <2>2. pc \in [Thread -> WriterLabel \cup AdminLabel]
    BY DEF TypeOK, ThreadsOK
  <2>3. QED
    BY <1>1, <2>1, <2>2 DEF AppenderWrite
<1>2. UNCHANGED out \/ \E w \in Writer : AppenderWrite(w)
  BY DEF Next, Log, MakeEvent, LogLock, LogLoop, LogRefuse, AppenderTest, Reached,
     AppenderLock, LogEnd, Check, SetLevel,
     SetFormatter, SetFormatterPtr, CallOp, Reconfigure, AddLock, DelLock, ClearLock,
     AdminLock, AddHas, AddHasNone,
     AddGet, AddSet, AddPush, DelErase, ClearAll, Spin, Finished
<1>3. QED
  BY <1>1, <1>2

(* The number of events of a writer never goes back.                        *)
LEMMA CountGrows ==
  ASSUME TypeOK, [Next]_vars, NEW w \in Writer
  PROVE  n[w] \in Nat /\ n'[w] \in Nat /\ n[w] <= n'[w]
<1>1. n \in [Thread -> Nat]
  BY DEF TypeOK, ThreadsOK
<1>2. ASSUME NEW l \in Loggers, NEW lv \in Level, Check(w, l, lv) PROVE n'[w] = n[w] + 1
  BY <1>1, <1>2 DEF Check, Begin
<1>3. UNCHANGED n[w] \/ \E l \in Loggers, lv \in Level : Check(w, l, lv)
  BY WriterSteps
<1>4. QED
  BY <1>1, <1>2, <1>3

(* A step that writes nothing keeps the order; an event that begins is new. *)
LEMMA QuietOrder ==
  ASSUME Inv, InOrder, [Next]_vars, UNCHANGED out
  PROVE  InOrder'
<1>0. /\ TypeOK /\ pc \in [Thread -> WriterLabel \cup AdminLabel] /\ lg \in [Thread -> Loggers]
      /\ n \in [Thread -> Nat] /\ ev \in [Writer -> Event] /\ out \in [Appenders -> Seq(Line)]
  BY DEF Inv, TypeOK, ThreadsOK, LinesOK, Line
<1>1. ASSUME NEW w \in Writer, NEW l \in Loggers, NEW lv \in Level, Check(w, l, lv)
      PROVE  /\ ev'[w].from = w /\ ev'[w].id = n[w] + 1 /\ n'[w] = n[w] + 1 /\ n[w] \in Nat
             /\ pc'[w] = "event"
  BY <1>0, <1>1 DEF Check, Begin
<1>2. \A a \in Appenders : \A i \in DOMAIN out[a] :
        out[a][i].event.from \in Writer /\ out[a][i].event.id \in Nat
  <2>1. ASSUME NEW a \in Appenders, NEW i \in DOMAIN out[a] PROVE out[a][i] \in Line
    BY <1>0, <2>1
  <2>2. QED
    BY <2>1 DEF Line, Event
<1>3. Numbered'
  <2>1. ASSUME NEW w \in Writer PROVE ev'[w].from = w /\ ev'[w].id <= n'[w]
    <3>1. CASE UNCHANGED <<ev[w], n[w]>>
      BY <3>1 DEF InOrder, Numbered
    <3>2. UNCHANGED <<ev[w], n[w]>> \/ \E l \in Loggers, lv \in Level : Check(w, l, lv)
      BY <1>0, WriterSteps
    <3>3. QED
      BY <1>1, <3>1, <3>2
  <2>2. ASSUME NEW a \in Appenders, NEW i \in DOMAIN out[a]
        PROVE  out[a][i].event.id <= n'[out[a][i].event.from]
    <3> DEFINE w == out[a][i].event.from
    <3>1. w \in Writer /\ out[a][i].event.id \in Nat /\ out[a][i].event.id <= n[w]
      BY <1>2, <2>2 DEF InOrder, Numbered
    <3> HIDE DEF w
    <3>2. n[w] \in Nat /\ n'[w] \in Nat /\ n[w] <= n'[w]
      BY <1>0, <3>1, CountGrows
    <3>3. out[a][i].event.id <= n'[w]
      BY <3>1, <3>2
    <3>4. QED
      BY <3>3 DEF w
  <2>3. QED
    BY <2>1, <2>2 DEF Numbered
<1>4. Fresh'
  <2> SUFFICES ASSUME NEW w \in Writer, pc'[w] \in {"event", "lock", "test"},
                      NEW a \in Appenders, NEW i \in DOMAIN out[a]
               PROVE  out[a][i].event # ev'[w]
    BY DEF Fresh
  <2>1. CASE pc[w] \in {"event", "lock", "test"} /\ UNCHANGED ev[w]
    BY <2>1 DEF InOrder, Fresh
  <2>2. ASSUME NEW l \in Loggers, NEW lv \in Level, Check(w, l, lv)
        PROVE  out[a][i].event # ev'[w]
    <3>1. ev'[w].from = w /\ ev'[w].id = n[w] + 1 /\ n[w] \in Nat
      BY <1>1, <2>2
    <3>2. out[a][i].event.id \in Nat /\ out[a][i].event.id <= n[out[a][i].event.from]
      BY <1>2 DEF InOrder, Numbered
    <3>3. ASSUME out[a][i].event = ev'[w] PROVE FALSE
      <4>1. n[w] + 1 <= n[w]
        BY <3>1, <3>2, <3>3
      <4>2. QED
        BY <3>1, <4>1
    <3>4. QED
      BY <3>3
  <2>3. QED
    BY <1>0, <2>1, <2>2, WriterSteps DEF Moves
<1>5. Latest'
  <2> SUFFICES ASSUME NEW w \in Writer, pc'[w] \in {"loop", "print", "write"},
                      NEW a \in Appenders, NEW i \in DOMAIN out[a], NEW j \in DOMAIN out[a],
                      i < j, out[a][i].event = ev'[w], out[a][i].logger = lg'[w],
                      out[a][j].logger = lg'[w]
               PROVE  out[a][j].event = ev'[w]
    BY DEF Latest
  <2>1. UNCHANGED <<ev[w], lg[w]>> /\ pc[w] \in {"test", "loop", "print", "write"}
    BY <1>0, <1>1, WriterSteps DEF Moves
  <2>2. CASE pc[w] = "test"
    BY <2>1, <2>2 DEF InOrder, Fresh
  <2>3. CASE pc[w] \in {"loop", "print", "write"}
    BY <2>1, <2>3 DEF InOrder, Latest
  <2>4. QED
    BY <2>1, <2>2, <2>3
<1>6. SameOrder'
  BY DEF InOrder, SameOrder
<1>7. QED
  BY <1>3, <1>4, <1>5, <1>6 DEF InOrder

(* A line more: the new line of a is the last of its logger in every file.  *)
LEMMA WriteOrder ==
  ASSUME Inv, InOrder, NEW w \in Writer, NEW a \in Appenders,
         pc[w] = "write", pc'[w] = "loop", UNCHANGED <<ev, lg, n>>,
         \A v \in Writer : v # w => pc'[v] = pc[v],
         out' = [out EXCEPT ![a] = Append(@, [event |-> ev[w], logger |-> lg[w]])]
  PROVE  InOrder'
<1> DEFINE line == [event |-> ev[w], logger |-> lg[w]]
           New(b, i) == b = a /\ i = Len(out[a]) + 1
           Old(b, i) == i \in DOMAIN out[b] /\ out'[b][i] = out[b][i]
<1>0. /\ pc \in [Thread -> WriterLabel \cup AdminLabel] /\ lg \in [Thread -> Loggers]
      /\ n \in [Thread -> Nat] /\ ev \in [Writer -> Event] /\ out \in [Appenders -> Seq(Line)]
  BY DEF Inv, TypeOK, ThreadsOK, LinesOK, Line
<1>1. line \in Line
  BY <1>0 DEF Line
<1>2. /\ Len(out[a]) \in Nat /\ out'[a] \in Seq(Line) /\ Len(out'[a]) = Len(out[a]) + 1
      /\ out'[a][Len(out[a]) + 1] = line
      /\ \A i \in 1..Len(out[a]) : out'[a][i] = out[a][i]
  <2>1. out[a] \in Seq(Line) /\ out'[a] = Append(out[a], line)
    BY <1>0
  <2> HIDE DEF line
  <2>2. QED
    BY <1>1, <2>1, AppendProperties, LenProperties
<1>3. \A b \in Appenders : b # a => out'[b] = out[b]
  BY <1>0
<1>4. ASSUME NEW b \in Appenders, NEW i \in DOMAIN (out'[b])
      PROVE  i \in Nat /\ (Old(b, i) \/ (New(b, i) /\ out'[b][i] = line))
  <2>1. CASE b = a
    <3>1. DOMAIN (out'[a]) = 1..Len(out[a]) + 1 /\ DOMAIN out[a] = 1..Len(out[a])
      BY <1>0, <1>2
    <3>2. i \in 1..Len(out[a]) \/ i = Len(out[a]) + 1
      BY <1>2, <1>4, <2>1, <3>1
    <3>3. QED
      BY <1>2, <1>4, <2>1, <3>1, <3>2
  <2>2. CASE b # a
    BY <1>0, <1>3, <1>4, <2>2
  <2>3. QED
    BY <2>1, <2>2
<1>5. ASSUME NEW b \in Appenders, NEW i \in DOMAIN (out'[b]), NEW j \in DOMAIN (out'[b]),
             i < j, New(b, i)
      PROVE  FALSE
  <2>1. j \in 1..Len(out[a]) + 1 /\ i = Len(out[a]) + 1
    BY <1>2, <1>5
  <2>2. QED
    BY <1>2, <1>5, <2>1
<1>13. line.event = ev[w] /\ line.logger = lg[w]
  OBVIOUS
<1>14. ASSUME NEW b \in Appenders, NEW i \in DOMAIN (out'[b]), Old(b, i)
       PROVE  i \in DOMAIN out[b] /\ out'[b][i] = out[b][i]
  BY <1>14
<1> HIDE DEF Old, New, line
<1>6. Numbered'
  <2>1. ASSUME NEW b \in Appenders, NEW i \in DOMAIN (out'[b])
        PROVE  out'[b][i].event.id <= n'[out'[b][i].event.from]
    <3>1. CASE Old(b, i)
      BY <1>14, <2>1, <3>1 DEF InOrder, Numbered
    <3>2. CASE out'[b][i] = line
      BY <1>13, <3>2 DEF InOrder, Numbered
    <3>3. QED
      BY <1>4, <2>1, <3>1, <3>2
  <2>2. QED
    BY <2>1 DEF InOrder, Numbered
<1>7. Fresh'
  <2> SUFFICES ASSUME NEW v \in Writer, pc'[v] \in {"event", "lock", "test"},
                      NEW b \in Appenders, NEW i \in DOMAIN (out'[b])
               PROVE  out'[b][i].event # ev[v]
    BY DEF Fresh
  <2>1. v # w /\ pc[v] \in {"event", "lock", "test"}
    OBVIOUS
  <2>2. CASE Old(b, i)
    BY <1>14, <2>1, <2>2 DEF InOrder, Fresh
  <2>3. CASE out'[b][i] = line
    <3>1. ev[v].from = v /\ ev[w].from = w
      BY DEF InOrder, Numbered
    <3>2. QED
      BY <1>13, <2>1, <2>3, <3>1
  <2>4. QED
    BY <1>4, <2>2, <2>3
<1>8. \A b \in Appenders : \A i, j \in DOMAIN (out'[b]) :
        /\ i < j /\ out'[b][i].event = ev[w]
        /\ out'[b][i].logger = lg[w] /\ out'[b][j].logger = lg[w]
        => out'[b][j].event = ev[w]
  <2> SUFFICES ASSUME NEW b \in Appenders, NEW i \in DOMAIN (out'[b]), NEW j \in DOMAIN (out'[b]),
                      i < j, out'[b][i].event = ev[w], out'[b][i].logger = lg[w],
                      out'[b][j].logger = lg[w]
               PROVE  out'[b][j].event = ev[w]
    OBVIOUS
  <2>1. Old(b, i)
    BY <1>4, <1>5
  <2>2. CASE out'[b][j] = line
    BY <1>13, <2>2
  <2>3. CASE Old(b, j)
    <3>1. /\ i \in DOMAIN out[b] /\ out'[b][i] = out[b][i]
          /\ j \in DOMAIN out[b] /\ out'[b][j] = out[b][j]
      BY <1>14, <2>1, <2>3
    <3>2. Latest /\ pc[w] = "write" /\ i < j
      BY DEF InOrder
    <3>3. out[b][i].event = ev[w] /\ out[b][i].logger = lg[w] /\ out[b][j].logger = lg[w]
      BY <3>1
    <3>4. out[b][j].event = ev[w]
      BY <3>1, <3>2, <3>3 DEF Latest
    <3>5. QED
      BY <3>1, <3>4
  <2>4. QED
    BY <1>4, <2>2, <2>3
<1>9. Latest'
  <2> SUFFICES ASSUME NEW v \in Writer, pc'[v] \in {"loop", "print", "write"},
                      NEW b \in Appenders, NEW i \in DOMAIN (out'[b]), NEW j \in DOMAIN (out'[b]),
                      i < j, out'[b][i].event = ev'[v], out'[b][i].logger = lg'[v],
                      out'[b][j].logger = lg'[v]
               PROVE  out'[b][j].event = ev'[v]
    BY DEF Latest
  <2>0. /\ out'[b][i].event = ev[v] /\ out'[b][i].logger = lg[v] /\ out'[b][j].logger = lg[v]
        /\ ev'[v] = ev[v]
    OBVIOUS
  <2>1. CASE v = w
    <3>1. out'[b][i].event = ev[w] /\ out'[b][i].logger = lg[w] /\ out'[b][j].logger = lg[w]
      BY <2>0, <2>1
    <3>2. out'[b][j].event = ev[w]
      BY <1>8, <3>1
    <3>3. QED
      BY <2>0, <2>1, <3>2
  <2>2. CASE v # w
    <3>1. pc[v] \in {"loop", "print", "write"}
      BY <2>2
    <3>2. lg[v] # lg[w]
      BY <2>2, <3>1 DEF Inv, LoggerHeld, InLogger
    <3>3. Old(b, i)
      BY <1>4, <1>5
    <3>4. Old(b, j)
      BY <1>4, <1>13, <2>0, <3>2
    <3>5. /\ i \in DOMAIN out[b] /\ out'[b][i] = out[b][i]
          /\ j \in DOMAIN out[b] /\ out'[b][j] = out[b][j]
      BY <1>14, <3>3, <3>4
    <3>6. /\ i < j /\ out[b][i].event = ev[v]
          /\ out[b][i].logger = lg[v] /\ out[b][j].logger = lg[v]
      BY <2>0, <3>5
    <3>7. Latest
      BY DEF InOrder
    <3>8. out[b][j].event = ev[v]
      BY <3>1, <3>5, <3>6, <3>7 DEF Latest
    <3>9. QED
      BY <2>0, <3>5, <3>8
  <2>3. QED
    BY <2>1, <2>2
<1>10. \A b, c \in Appenders : \A i, j \in DOMAIN (out'[b]) :
         i < j /\ out'[b][i].logger = out'[b][j].logger /\ out'[b][i].event # out'[b][j].event =>
           ~ \E p, q \in DOMAIN (out'[c]) :
               /\ p < q
               /\ out'[c][p].logger = out'[b][i].logger /\ out'[c][p].event = out'[b][j].event
               /\ out'[c][q].logger = out'[b][i].logger /\ out'[c][q].event = out'[b][i].event
  <2> TAKE b, c \in Appenders
  <2> TAKE i, j \in DOMAIN (out'[b])
  <2> HAVE i < j /\ out'[b][i].logger = out'[b][j].logger /\ out'[b][i].event # out'[b][j].event
  <2> SUFFICES ASSUME NEW p \in DOMAIN (out'[c]), NEW q \in DOMAIN (out'[c]), p < q,
                      out'[c][p].logger = out'[b][i].logger, out'[c][p].event = out'[b][j].event,
                      out'[c][q].logger = out'[b][i].logger, out'[c][q].event = out'[b][i].event
               PROVE  FALSE
    OBVIOUS
  <2>1. Old(b, i) /\ Old(c, p)
    BY <1>4, <1>5
  <2>2. CASE out'[b][j] = line
    <3>1. out'[c][p].event = ev[w] /\ out'[c][p].logger = lg[w] /\ out'[c][q].logger = lg[w]
      BY <1>13, <2>2
    <3>2. out'[c][q].event = ev[w]
      BY <1>8, <3>1
    <3>3. QED
      BY <3>1, <3>2
  <2>3. CASE out'[c][q] = line
    <3>1. out'[b][i].event = ev[w] /\ out'[b][i].logger = lg[w] /\ out'[b][j].logger = lg[w]
      BY <1>13, <2>3
    <3>2. out'[b][j].event = ev[w]
      BY <1>8, <3>1
    <3>3. QED
      BY <3>1, <3>2
  <2>4. CASE Old(b, j) /\ Old(c, q)
    <3>1. /\ i \in DOMAIN out[b] /\ out'[b][i] = out[b][i]
          /\ j \in DOMAIN out[b] /\ out'[b][j] = out[b][j]
          /\ p \in DOMAIN out[c] /\ out'[c][p] = out[c][p]
          /\ q \in DOMAIN out[c] /\ out'[c][q] = out[c][q]
      BY <1>14, <2>1, <2>4
    <3>5. /\ SameOrder /\ i < j
          /\ out[b][i].logger = out[b][j].logger /\ out[b][i].event # out[b][j].event
      BY <3>1 DEF InOrder
    <3>2. ~ \E x, y \in DOMAIN out[c] :
            /\ x < y
            /\ out[c][x].logger = out[b][i].logger /\ out[c][x].event = out[b][j].event
            /\ out[c][y].logger = out[b][i].logger /\ out[c][y].event = out[b][i].event
      BY <3>1, <3>5 DEF SameOrder
    <3>3. /\ out[c][p].logger = out[b][i].logger /\ out[c][p].event = out[b][j].event
          /\ out[c][q].logger = out[b][i].logger /\ out[c][q].event = out[b][i].event
      BY <3>1
    <3>4. QED
      BY <3>1, <3>2, <3>3
  <2>5. QED
    BY <1>4, <2>2, <2>3, <2>4
<1>11. SameOrder'
  BY <1>10 DEF SameOrder
<1>12. QED
  BY <1>6, <1>7, <1>9, <1>11 DEF InOrder

-----------------------------------------------------------------------------
(* Theorems *)

(* The inductive invariant. *)
THEOREM Invariance == Spec => []Inv
<1>1. Init => Inv
  BY InitType, InitHeld DEF Inv
<1>2. Inv /\ [Next]_vars => Inv'
  BY NextType, NextLoggerHeld, NextWriters DEF Inv
<1>3. QED
  BY <1>1, <1>2, PTL DEF Spec

(* Every variable keeps its type. *)
THEOREM TypeCorrect == Spec => []TypeOK
<1>1. Inv => TypeOK
  BY DEF Inv
<1>2. QED
  BY Invariance, <1>1, PTL

(* The loop of Logger::log never leaves the list of appenders, whatever     *)
(* other threads do to the list.                                            *)
THEOREM LoopStaysInList == Spec => []LoopInList
<1>1. Inv => LoopInList
  BY DEF Inv
<1>2. QED
  BY Invariance, <1>1, PTL

(* A stream has one writer at a time, although the loggers that share it    *)
(* lock different locks.                                                    *)
THEOREM OneWriterPerStream == Spec => []StreamExclusive
<1>1. Inv => StreamExclusive
  BY DEF Inv, AppenderHeld, StreamExclusive
<1>2. QED
  BY Invariance, <1>1, PTL

(* Every appender in a list has a formatter.                                *)
THEOREM FormattersSet == Spec => []FormatterSet
<1>1. Init => Formatted
  BY InitFormatted
<1>2. Inv /\ Formatted /\ [Next]_vars => Formatted'
  BY NextFormatted DEF Inv
<1>3. Formatted => FormatterSet
  BY DEF Formatted
<1>4. QED
  BY Invariance, <1>1, <1>2, <1>3, PTL DEF Spec

(* All appenders of a logger write its events in one order, whatever other *)
(* loggers write to them in between and however the lists change.          *)
THEOREM OneOrder == Spec => []SameOrder
<1>1. Init => InOrder
  <2> SUFFICES ASSUME Init PROVE InOrder
    OBVIOUS
  <2>1. \A a \in Appenders : DOMAIN out[a] = {}
    BY DEF Init
  <2>2. Numbered
    BY <2>1 DEF Init, Numbered, NoEvent
  <2>3. Fresh /\ Latest /\ SameOrder
    BY <2>1 DEF Fresh, Latest, SameOrder
  <2>4. QED
    BY <2>2, <2>3 DEF InOrder
<1>2. Inv /\ InOrder /\ [Next]_vars => InOrder'
  BY QuietOrder, WriteOrder, OutSteps DEF Inv
<1>3. InOrder => SameOrder
  BY DEF InOrder
<1>4. QED
  BY Invariance, <1>1, <1>2, <1>3, PTL DEF Spec
=============================================================================
