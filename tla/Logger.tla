-------------------------------- MODULE Logger -------------------------------
(***************************************************************************)
(* Classes Logger and LogAppender and the logging macros (src/src/log.hpp, *)
(* log.cpp), used by several threads: writers that execute                 *)
(* SYLAR_LOG_LEVEL(logger, level) << ..., and administrators that change   *)
(* the level and the appenders of a logger.                                *)
(*                                                                         *)
(* Both classes lock a SpinLock: Logger::log holds the lock of the logger  *)
(* while it takes the lock of each appender in turn.  The level is read    *)
(* and written without a lock.  A step is one acquisition of a lock, or    *)
(* what a thread does up to the next one.                                  *)
(*                                                                         *)
(* A definition named "...Mutant" is the code with one mistake in it; no   *)
(* specification uses it.                                                  *)
(***************************************************************************)
EXTENDS Naturals, Sequences

CONSTANTS
  Loggers,     \* the Logger objects
  Appenders,   \* the appenders: FileLogAppender objects ...
  Console,     \* ... and, among them, StdoutLogAppender objects
  Attached,    \* the appenders each logger has when the threads start
  Writer,      \* the threads that log
  Admin,       \* the threads that reconfigure the loggers
  Level,       \* the levels in use
  Formatter,   \* the LogFormatter objects, made of patterns that parse ...
  Default,     \* ... among them that of a new logger
  NoFormatter, \* nullptr
  MaxEvents,   \* bound on the events of a writer
  MaxOps,      \* bound on the operations of an administrator
  NoThread     \* the owner of a lock that nobody holds

Thread == Writer \cup Admin

ASSUME ThreadAssumption ==
  NoThread \notin Thread /\ Writer \cap Admin = {}

ASSUME ObjectAssumption ==
  /\ Loggers # {} /\ Appenders # {} /\ Loggers \cap Appenders = {}
  /\ Console \subseteq Appenders

ASSUME BoundAssumption ==
  Level \subseteq 0..6 /\ Level # {} /\ MaxEvents \in Nat /\ MaxOps \in Nat
  /\ Attached \in Seq(Appenders)

ASSUME FormatterAssumption ==
  Default \in Formatter /\ NoFormatter \notin Formatter

VARIABLES
  m_level,      \* of each logger
  m_appenders,  \* of each logger
  m_formatter,  \* of each logger and each appender
  m_mutex,      \* the owner of the lock of each logger and each appender
  pc,           \* where each thread is
  ev,           \* ev[w], the event of writer w
  lg,           \* lg[t], the logger whose method t executes
  ap,           \* ap[t], the appender administrator t adds or deletes
  pos,          \* pos[w], the position of w in the loop over m_appenders
  n,            \* n[t], how many events or operations t has begun
  out           \* history: out[a], what appender a has written

locals == <<ev, lg, ap, pos>>
vars == <<m_level, m_appenders, m_formatter, m_mutex, pc, locals, n, out>>

NoEvent(w) == [from |-> w, id |-> 0, level |-> CHOOSE x \in Level : TRUE]

(* The loggers have been set up with addAppender. *)
Init ==
  /\ m_level = [l \in Loggers |-> 0]
  /\ m_appenders = [l \in Loggers |-> Attached]
  /\ m_formatter = [o \in Loggers \cup Appenders |->
                      IF o \in Loggers \/ \E i \in DOMAIN Attached : Attached[i] = o
                      THEN Default ELSE NoFormatter]
  /\ m_mutex = [o \in Loggers \cup Appenders |-> NoThread]
  /\ pc = [t \in Thread |-> "idle"]
  /\ ev = [w \in Writer |-> NoEvent(w)]
  /\ lg = [t \in Thread |-> CHOOSE l \in Loggers : TRUE]
  /\ ap = [t \in Admin |-> CHOOSE a \in Appenders : TRUE]
  /\ pos = [w \in Writer |-> 1]
  /\ n = [t \in Thread |-> 0]
  /\ out = [a \in Appenders |-> <<>>]

Goto(t, from, to) == pc[t] = from /\ pc' = [pc EXCEPT ![t] = to]

Acquire(t, o) == m_mutex[o] = NoThread /\ m_mutex' = [m_mutex EXCEPT ![o] = t]

Free(o) == m_mutex' = [m_mutex EXCEPT ![o] = NoThread]

Begin(t, bound) == n[t] < bound /\ n' = [n EXCEPT ![t] = @ + 1]

-----------------------------------------------------------------------------
(* SYLAR_LOG_LEVEL(logger, level) *)

(* if (logger->getLevel() <= level) *)
Check(w, l, lv) ==
  /\ Goto(w, "idle", "event")
  /\ Begin(w, MaxEvents)
  /\ m_level[l] <= lv
  /\ ev' = [ev EXCEPT ![w] = [from |-> w, id |-> n[w] + 1, level |-> lv]]
  /\ lg' = [lg EXCEPT ![w] = l]
  /\ UNCHANGED <<m_level, m_appenders, m_formatter, m_mutex, ap, pos, out>>

(* LogEvent::LogEvent sets the level of the logger to that of the event. *)
MakeEvent(w) ==
  /\ Goto(w, "event", "lock")
  /\ m_level' = [m_level EXCEPT ![lg[w]] = ev[w].level]
  /\ UNCHANGED <<m_appenders, m_formatter, m_mutex, locals, n, out>>

-----------------------------------------------------------------------------
(* Logger::log, called by ~LogEventWrap *)

LogLockMutant(w) ==
  /\ Goto(w, "lock", "test")
  /\ UNCHANGED <<m_level, m_appenders, m_formatter, m_mutex, locals, n, out>>

LogLock(w) ==
  /\ Goto(w, "lock", "test")
  /\ Acquire(w, lg[w])
  /\ UNCHANGED <<m_level, m_appenders, m_formatter, locals, n, out>>

Enabled(w) == ev[w].level >= m_level[lg[w]]

LogLoopMutant(w) ==
  /\ Goto(w, "test", "loop")
  /\ Enabled(w)
  /\ pos' = [pos EXCEPT ![w] = 0]
  /\ UNCHANGED <<m_level, m_appenders, m_formatter, m_mutex, ev, lg, ap, n, out>>

LogLoop(w) ==
  /\ Goto(w, "test", "loop")
  /\ Enabled(w)
  /\ pos' = [pos EXCEPT ![w] = 1]
  /\ UNCHANGED <<m_level, m_appenders, m_formatter, m_mutex, ev, lg, ap, n, out>>

LogRefuseMutant(w) ==
  /\ Goto(w, "test", "idle")
  /\ ~ Enabled(w)
  /\ UNCHANGED <<m_level, m_appenders, m_formatter, m_mutex, locals, n, out>>

LogRefuse(w) ==
  /\ Goto(w, "test", "idle")
  /\ ~ Enabled(w)
  /\ Free(lg[w])
  /\ UNCHANGED <<m_level, m_appenders, m_formatter, locals, n, out>>

Current(w) == m_appenders[lg[w]][pos[w]]

(* StdoutLogAppender::log looks at m_formatter before it takes the lock and *)
(* says "No formatter" without one.                                         *)
AppenderTest(w) ==
  LET set == m_formatter[Current(w)] # NoFormatter IN
  /\ pc[w] = "loop" /\ pos[w] <= Len(m_appenders[lg[w]])
  /\ Current(w) \in Console
  /\ pc' = [pc EXCEPT ![w] = IF set THEN "print" ELSE "loop"]
  /\ pos' = [pos EXCEPT ![w] = IF set THEN @ ELSE @ + 1]
  /\ UNCHANGED <<m_level, m_appenders, m_formatter, m_mutex, ev, lg, ap, n, out>>

(* Writer w is before the lock of its current appender. *)
Reached(w) ==
  \/ Goto(w, "print", "write")
  \/ /\ Goto(w, "loop", "write")
     /\ pos[w] <= Len(m_appenders[lg[w]]) /\ Current(w) \notin Console

AppenderLockMutant(w) ==
  /\ Reached(w)
  /\ UNCHANGED <<m_level, m_appenders, m_formatter, m_mutex, locals, n, out>>

(* FileLogAppender::log, and StdoutLogAppender::log after its test *)
AppenderLock(w) ==
  /\ Reached(w)
  /\ Acquire(w, Current(w))
  /\ UNCHANGED <<m_level, m_appenders, m_formatter, locals, n, out>>

(* The second appender keeps its lines back and writes the last one first. *)
AppenderWriteMutant(w) ==
  LET a == Current(w)
      line == [event |-> ev[w], logger |-> lg[w]] IN
  /\ Goto(w, "write", "loop")
  /\ out' = [out EXCEPT ![a] = IF pos[w] = 2 THEN <<line>> \o @ ELSE Append(@, line)]
  /\ Free(a)
  /\ pos' = [pos EXCEPT ![w] = @ + 1]
  /\ UNCHANGED <<m_level, m_appenders, m_formatter, ev, lg, ap, n>>

AppenderWrite(w) ==
  LET a == Current(w) IN
  /\ Goto(w, "write", "loop")
  /\ out' = [out EXCEPT ![a] =
               Append(@, [event |-> ev[w], logger |-> lg[w]])]
  /\ Free(a)
  /\ pos' = [pos EXCEPT ![w] = @ + 1]
  /\ UNCHANGED <<m_level, m_appenders, m_formatter, ev, lg, ap, n>>

(* The loop is over; without appenders it says "Appender empty." instead. *)
LogEnd(w) ==
  /\ Goto(w, "loop", "idle")
  /\ pos[w] > Len(m_appenders[lg[w]])
  /\ Free(lg[w])
  /\ UNCHANGED <<m_level, m_appenders, m_formatter, locals, n, out>>

-----------------------------------------------------------------------------
(* setLevel, addAppender, delAppender, clearAppender *)

SetLevel(t, l, lv) ==
  /\ pc[t] = "idle"
  /\ Begin(t, MaxOps)
  /\ m_level' = [m_level EXCEPT ![l] = lv]
  /\ UNCHANGED <<m_appenders, m_formatter, m_mutex, pc, locals, out>>

CallOp(t, op, l, a) ==
  /\ Goto(t, "idle", op)
  /\ Begin(t, MaxOps)
  /\ lg' = [lg EXCEPT ![t] = l]
  /\ ap' = [ap EXCEPT ![t] = a]
  /\ UNCHANGED <<m_level, m_appenders, m_formatter, m_mutex, ev, pos, out>>

AdminLock(t, from, to) ==
  /\ Goto(t, from, to)
  /\ Acquire(t, lg[t])
  /\ UNCHANGED <<m_level, m_appenders, m_formatter, locals, n, out>>

AddLock(t) == AdminLock(t, "add", "add_get")
DelLock(t) == AdminLock(t, "del", "del_erase")
ClearLock(t) == AdminLock(t, "clear", "clear_all")

(* getFormatter() locks the appender ... *)
AddGet(t, to) ==
  /\ Goto(t, "add_get", to)
  /\ m_mutex[ap[t]] = NoThread
  /\ UNCHANGED <<m_level, m_appenders, m_formatter, m_mutex, locals, n, out>>

AddHasMutant(t) == AddGet(t, "add_push")

AddHas(t) == m_formatter[ap[t]] # NoFormatter /\ AddGet(t, "add_push")

AddHasNone(t) == m_formatter[ap[t]] = NoFormatter /\ AddGet(t, "add_set")

(* ... and when it has returned nullptr, setFormatter(ptr), without the     *)
(* lock, gives the appender the formatter of the logger.                    *)
AddSet(t) ==
  /\ Goto(t, "add_set", "add_push")
  /\ m_formatter' = [m_formatter EXCEPT ![ap[t]] = m_formatter[lg[t]]]
  /\ UNCHANGED <<m_level, m_appenders, m_mutex, locals, n, out>>

AddPush(t) ==
  /\ Goto(t, "add_push", "idle")
  /\ m_appenders' = [m_appenders EXCEPT ![lg[t]] = Append(@, ap[t])]
  /\ Free(lg[t])
  /\ UNCHANGED <<m_level, m_formatter, locals, n, out>>

(* The list without the first occurrence of a. *)
Erased(list, a) ==
  LET i == CHOOSE i \in DOMAIN list : list[i] = a /\ \A j \in 1..(i - 1) : list[j] # a
  IN  IF \E j \in DOMAIN list : list[j] = a
      THEN SubSeq(list, 1, i - 1) \o SubSeq(list, i + 1, Len(list))
      ELSE list

DelErase(t) ==
  /\ Goto(t, "del_erase", "idle")
  /\ m_appenders' = [m_appenders EXCEPT ![lg[t]] = Erased(@, ap[t])]
  /\ Free(lg[t])
  /\ UNCHANGED <<m_level, m_formatter, locals, n, out>>

ClearAll(t) ==
  /\ Goto(t, "clear_all", "idle")
  /\ m_appenders' = [m_appenders EXCEPT ![lg[t]] = <<>>]
  /\ Free(lg[t])
  /\ UNCHANGED <<m_level, m_formatter, locals, n, out>>

(* setFormatter(pattern), of a logger or an appender, and Logger's own      *)
(* setFormatter(ptr), under the lock; when the pattern does not parse       *)
(* nothing changes.                                                         *)
SetFormatter(t, o, f) ==
  /\ pc[t] = "idle"
  /\ Begin(t, MaxOps)
  /\ m_mutex[o] = NoThread
  /\ m_formatter' = [m_formatter EXCEPT ![o] = f]
  /\ UNCHANGED <<m_level, m_appenders, m_mutex, pc, locals, out>>

(* setFormatter(ptr) of both classes of appenders takes no lock; the        *)
(* program calls it with a formatter.                                       *)
SetFormatterPtr(t, a, f) ==
  /\ pc[t] = "idle"
  /\ Begin(t, MaxOps)
  /\ m_formatter' = [m_formatter EXCEPT ![a] = f]
  /\ UNCHANGED <<m_level, m_appenders, m_mutex, pc, locals, out>>

-----------------------------------------------------------------------------
Log(w) ==
  \/ MakeEvent(w) \/ LogLock(w) \/ LogLoop(w) \/ LogRefuse(w)
  \/ AppenderTest(w) \/ AppenderLock(w) \/ AppenderWrite(w) \/ LogEnd(w)

Reconfigure(t) ==
  \/ AddLock(t) \/ AddHas(t) \/ AddHasNone(t) \/ AddSet(t) \/ AddPush(t)
  \/ DelLock(t) \/ DelErase(t) \/ ClearLock(t) \/ ClearAll(t)

(* pthread_spin_lock spins: the thread runs and gets nowhere. *)
Waiting == {"lock", "loop", "print", "add", "add_get", "del", "clear"}
Spin(t) == pc[t] \in Waiting /\ UNCHANGED vars

Finished == (\A t \in Thread : pc[t] = "idle") /\ UNCHANGED vars

Next ==
  \/ \E w \in Writer : Log(w) \/ \E l \in Loggers, lv \in Level : Check(w, l, lv)
  \/ \E t \in Admin : \/ Reconfigure(t)
                      \/ \E l \in Loggers, lv \in Level : SetLevel(t, l, lv)
                      \/ \E o \in Loggers \cup Appenders, f \in Formatter : SetFormatter(t, o, f)
                      \/ \E a \in Appenders, f \in Formatter : SetFormatterPtr(t, a, f)
                      \/ \E l \in Loggers, a \in Appenders, op \in {"add", "del", "clear"} :
                           CallOp(t, op, l, a)
  \/ \E t \in Thread : Spin(t)
  \/ Finished

Spec == Init /\ [][Next]_vars

(* A thread inside a macro or a method is scheduled. *)
FairSpec ==
  /\ Spec
  /\ \A w \in Writer : WF_vars(Log(w))
  /\ \A t \in Admin : WF_vars(Reconfigure(t))
-----------------------------------------------------------------------------
(* Properties *)

WriterLabel == {"idle", "event", "lock", "test", "loop", "print", "write"}
AdminLabel == {"idle", "add", "add_get", "add_set", "add_push", "del", "del_erase",
               "clear", "clear_all"}

Event == [from : Writer, id : Nat, level : Level]

(* Type invariant: of the objects, of the threads and of what is logged.    *)
ObjectsOK ==
  /\ m_level \in [Loggers -> Level \cup {0}]
  /\ m_appenders \in [Loggers -> Seq(Appenders)]
  /\ m_formatter \in [Loggers \cup Appenders -> Formatter \cup {NoFormatter}]
  /\ \A l \in Loggers : m_formatter[l] # NoFormatter
  /\ m_mutex \in [Loggers \cup Appenders -> Thread \cup {NoThread}]

ThreadsOK ==
  /\ pc \in [Thread -> WriterLabel \cup AdminLabel]
  /\ \A w \in Writer : pc[w] \in WriterLabel
  /\ \A t \in Admin : pc[t] \in AdminLabel
  /\ lg \in [Thread -> Loggers]
  /\ ap \in [Admin -> Appenders]
  /\ pos \in [Writer -> Nat \ {0}]
  /\ n \in [Thread -> Nat]

LinesOK ==
  /\ ev \in [Writer -> Event]
  /\ out \in [Appenders -> Seq([event : Event, logger : Loggers])]

TypeOK == ObjectsOK /\ ThreadsOK /\ LinesOK

(* An appender that a logger writes to has a formatter, although it is      *)
(* replaced without the lock, even under a line that is being written:      *)
(* FileLogAppender::log uses m_formatter without looking.  So               *)
(* StdoutLogAppender::log never says "No formatter".                        *)
FormatterSet ==
  \A l \in Loggers : \A i \in DOMAIN m_appenders[l] :
    m_formatter[m_appenders[l][i]] # NoFormatter

(* The loop of Logger::log stays within the list of appenders, whatever     *)
(* addAppender, delAppender and clearAppender do to it.                     *)
LoopInList ==
  \A w \in Writer : pc[w] \in {"print", "write"} => pos[w] \in DOMAIN m_appenders[lg[w]]

(* No two threads write through an appender at the same time, not when they *)
(* log to different loggers either.  (Two StdoutLogAppenders have a lock    *)
(* each and one stream, std::cout: nothing keeps them apart.)               *)
StreamExclusive ==
  \A v, w \in Writer :
    v # w /\ pc[v] = "write" /\ pc[w] = "write" => Current(v) # Current(w)

(* The appenders of a logger write its events in the same order.            *)
SameOrder ==
  \A a, b \in Appenders : \A i, j \in DOMAIN out[a] :
    i < j /\ out[a][i].logger = out[a][j].logger /\ out[a][i].event # out[a][j].event =>
      ~ \E p, q \in DOMAIN out[b] :
          /\ p < q
          /\ out[b][p].logger = out[a][i].logger /\ out[b][p].event = out[a][j].event
          /\ out[b][q].logger = out[a][i].logger /\ out[b][q].event = out[a][i].event

(* Every call of a macro or a method returns. *)
CallsReturn == \A t \in Thread : pc[t] # "idle" ~> pc[t] = "idle"
=============================================================================
