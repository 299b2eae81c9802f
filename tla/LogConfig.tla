------------------------------ MODULE LogConfig ------------------------------
(***************************************************************************)
(* How the variable "logs" configures the loggers: the listener that       *)
(* LogIniter (src/src/log.cpp) adds to g_log_defines, the LoggerManager    *)
(* that owns the loggers, and threads that log meanwhile.                  *)
(*                                                                         *)
(* g_log_defines is a ConfigVar<std::set<LogDefinition>>.  Its setValue    *)
(* runs the listener under its WriteLock and assigns m_val later under a   *)
(* ReadLock (module ConfigVar); here the assignment is one step.  Only     *)
(* log.cpp knows the type, so that its values come from documents, by the  *)
(* conversion of module LogDefinition: functions from names to definitions *)
(* without a pattern, for which the listener keeps the formatter of the    *)
(* logger.  Names are numbers in the order of the set.                     *)
(*                                                                         *)
(* Every operation on a logger takes the logger's lock, or writes one      *)
(* word, and is one step.  A definition named "...Mutant" is the code with *)
(* one mistake in it; no specification uses it.                            *)
(***************************************************************************)
EXTENDS LogDefinition

CONSTANTS
  Name,        \* the names of loggers, in their order
  RootName,    \* the name "root"
  Root,        \* the logger LoggerManager keeps in m_root
  Updater,     \* the threads that call setValue or LoadFromYaml
  Writer,      \* the threads that log
  EventLevel,  \* the levels at which they log
  Document,    \* what the documents given to LoadFromYaml say of "logs"
  File,        \* the files that can be opened ...
  MissingFile, \* ... and those that cannot
  Pattern,     \* the patterns LogFormatter accepts ...
  BadPattern,  \* ... and those it reports an error for
  Default,     \* the pattern of a LogFormatter that was given none
  NoOne        \* no updater

ASSUME NameAssumption ==
  /\ Name \subseteq Nat /\ RootName \in Name /\ Root \notin Name
  /\ NoOne \notin Updater /\ Updater \cap Writer = {}

ASSUME PatternAssumption ==
  /\ EventLevel \subseteq Level
  /\ NoPattern \notin Pattern \cup BadPattern /\ Pattern \cap BadPattern = {}
  /\ Default \notin {NoPattern} \cup BadPattern

VARIABLES
  m_val,        \* the value of g_log_defines
  m_loggers,    \* the names LoggerManager has a logger for
  m_level,      \* of each logger: its level,
  m_appenders,  \* ... its list of appenders
  exited,       \* has the process called exit
  pass,         \* the updater that runs the listener, under the WriteLock
  pc,           \* where each updater and each writer is
  new,          \* new[u], the value updater u sets
  todo,         \* todo[u], the names the loop over new_value has not reached
  gone,         \* gone[u], those the loop over old_value has not reached
  cur,          \* cur[u], the definition u applies or deletes
  app,          \* app[u], the next appender of that definition
  ev,           \* ev[w], the logger and level of the event writer w logs
  applied,      \* history: the definition last applied to each logger, if any
  once,         \* history: the names that m_val has ever defined
  deleted,      \* history: the names deleted by the listener and not defined since
  logged,       \* history: the loggers whose level an event was the last to write
  overlapped    \* history: has one update started while another was going on

loggers == <<m_loggers, m_level, m_appenders>>
frames == <<new, todo, gone, cur, app>>
history == <<applied, once, deleted, logged, overlapped>>
vars == <<m_val, loggers, exited, pass, pc, frames, ev, history>>

Logger == Name \cup {Root}
Thread == Updater \cup Writer

Empty == [n \in {} |-> n]
Values == {ReadLogs(doc) : doc \in {d \in Document : ~ Nameless(d)}}

Definition ==
  [ level : Level,
    appenders : Seq([to : File \cup MissingFile \cup {Stdout},
                     pattern : Pattern \cup BadPattern \cup {NoPattern}]) ]

(* The documents are sequences and speak of these names, files and patterns. *)
ASSUME DocumentAssumption ==
  /\ \A doc \in Document : Len(doc) \in Nat /\ DOMAIN doc = 1..Len(doc)
  /\ \A v \in Values : DOMAIN v \subseteq Name /\ \A n \in DOMAIN v : v[n] \in Definition

Least(S) == CHOOSE n \in S : \A m \in S : n <= m

(* Logger::Logger, and LoggerManager::LoggerManager for Root *)
Init ==
  /\ m_val = Empty
  /\ m_loggers = {}
  /\ m_level = [l \in Logger |-> ALL]
  /\ m_appenders = [l \in Logger |-> IF l = Root THEN <<[to |-> Stdout, formatter |-> Default]>>
                                                 ELSE <<>>]
  /\ exited = FALSE
  /\ pass = NoOne
  /\ pc = [t \in Thread |-> "idle"]
  /\ new = [u \in Updater |-> Empty]
  /\ todo = [u \in Updater |-> {}]
  /\ gone = [u \in Updater |-> {}]
  /\ cur = [u \in Updater |-> RootName]
  /\ app = [u \in Updater |-> 1]
  /\ ev = [w \in Writer |-> [logger |-> Root, level |-> ALL]]
  /\ applied = [n \in Name |-> {}]
  /\ once = {}
  /\ deleted = {}
  /\ logged = {}
  /\ overlapped = FALSE

Goto(t, from, to) == ~ exited /\ pc[t] = from /\ pc' = [pc EXCEPT ![t] = to]

-----------------------------------------------------------------------------
(* setValue *)

(* fromString: a definition without a name ends the process, with status 0. *)
UpdateNameless(u) ==
  /\ ~ exited /\ pc[u] = "idle"
  /\ \E doc \in Document : Nameless(doc)
  /\ exited' = TRUE
  /\ UNCHANGED <<m_val, loggers, pass, pc, frames, ev, history>>

Update(u) ==
  /\ Goto(u, "idle", "lock")
  /\ \E v \in Values : v # m_val /\ new' = [new EXCEPT ![u] = v]
  /\ overlapped' = (overlapped \/ \E v \in Updater \ {u} : pc[v] # "idle")
  /\ UNCHANGED <<m_val, loggers, exited, pass, todo, gone, cur, app, ev, applied,
                 once, deleted, logged>>

(* The level of an event becomes the level of its logger. *)
NewEvent(l, lv) ==
  /\ m_level' = [m_level EXCEPT ![l] = lv]
  /\ logged' = logged \cup {l}

(* The listener logs at INFO to the root logger and starts its loop. *)
StartListener(u) ==
  /\ Goto(u, "lock", "loop")
  /\ pass' = u
  /\ todo' = [todo EXCEPT ![u] = DOMAIN new[u]]
  /\ \/ m_level[Root] <= INFO /\ NewEvent(Root, INFO)
     \/ m_level[Root] > INFO /\ UNCHANGED <<m_level, logged>>
  /\ UNCHANGED <<m_val, m_loggers, m_appenders, exited, new, gone, cur, app, ev,
                 applied, once, deleted, overlapped>>

LockMutant(u) == StartListener(u)

Lock(u) == pass = NoOne /\ StartListener(u)

EndListener(u) ==
  /\ Goto(u, "loop", "assign")
  /\ todo[u] = {}
  /\ pass' = NoOne
  /\ UNCHANGED <<m_val, loggers, exited, frames, ev, history>>

Assign(u) ==
  /\ Goto(u, "assign", "idle")
  /\ pass = NoOne
  /\ m_val' = new[u]
  /\ once' = once \cup DOMAIN new[u]
  /\ UNCHANGED <<loggers, exited, pass, frames, ev, applied, deleted, logged, overlapped>>

-----------------------------------------------------------------------------
(* The listener: the loop over new_value *)

Same(u, n) == n \in DOMAIN m_val /\ m_val[n] = new[u][n]

Skip(u) ==
  LET n == Least(todo[u]) IN
  /\ Goto(u, "loop", "loop")
  /\ todo[u] # {} /\ Same(u, n)
  /\ todo' = [todo EXCEPT ![u] = @ \ {n}]
  /\ UNCHANGED <<m_val, loggers, exited, pass, new, gone, cur, app, ev, history>>

(* SYLAR_LOG_NAME finds the logger or creates it. *)
GetLogger(n) == m_loggers' = m_loggers \cup {n}

(* add or modify *)
Pick(u) ==
  LET n == Least(todo[u]) IN
  /\ Goto(u, "loop", "level")
  /\ todo[u] # {} /\ ~ Same(u, n)
  /\ GetLogger(n)
  /\ cur' = [cur EXCEPT ![u] = n]
  /\ UNCHANGED <<m_val, m_level, m_appenders, exited, pass, new, todo, gone, app,
                 ev, history>>

SetLevelMutant(u) ==
  /\ Goto(u, "level", "clear")
  /\ logged' = logged \ {cur[u]}
  /\ UNCHANGED <<m_val, loggers, exited, pass, frames, ev, applied, once, deleted,
                 overlapped>>

SetLevel(u) ==
  /\ Goto(u, "level", "clear")
  /\ m_level' = [m_level EXCEPT ![cur[u]] = new[u][cur[u]].level]
  /\ logged' = logged \ {cur[u]}
  /\ UNCHANGED <<m_val, m_loggers, m_appenders, exited, pass, frames, ev,
                 applied, once, deleted, overlapped>>

ClearAppendersMutant(u) ==
  /\ Goto(u, "clear", "add")
  /\ app' = [app EXCEPT ![u] = 1]
  /\ applied' = [applied EXCEPT ![cur[u]] = {new[u][cur[u]]}]
  /\ deleted' = deleted \ {cur[u]}
  /\ UNCHANGED <<m_val, loggers, exited, pass, new, todo, gone, cur, ev, once,
                 logged, overlapped>>

ClearAppenders(u) ==
  /\ Goto(u, "clear", "add")
  /\ m_appenders' = [m_appenders EXCEPT ![cur[u]] = <<>>]
  /\ app' = [app EXCEPT ![u] = 1]
  /\ applied' = [applied EXCEPT ![cur[u]] = {new[u][cur[u]]}]
  /\ deleted' = deleted \ {cur[u]}
  /\ UNCHANGED <<m_val, m_loggers, m_level, exited, pass, new, todo, gone, cur, ev,
                 once, logged, overlapped>>

(* The appender a names: with the formatter of its own pattern, or, when    *)
(* setFormatter was not called or refused the pattern, with that of the     *)
(* logger, which addAppender gives it.                                      *)
NewAppenderMutant(a) == [to |-> a.to, formatter |-> a.pattern]

NewAppender(a) ==
  [to |-> a.to, formatter |-> IF a.pattern \in Pattern THEN a.pattern ELSE Default]

Appenders(u) == new[u][cur[u]].appenders

AddAppender(u) ==
  /\ Goto(u, "add", "add")
  /\ app[u] <= Len(Appenders(u))
  /\ Appenders(u)[app[u]].to \notin MissingFile
  /\ m_appenders' = [m_appenders EXCEPT
                       ![cur[u]] = Append(@, NewAppender(Appenders(u)[app[u]]))]
  /\ app' = [app EXCEPT ![u] = @ + 1]
  /\ UNCHANGED <<m_val, m_loggers, m_level, exited, pass, new, todo, gone, cur,
                 ev, history>>

(* FileLogAppender cannot open its file: exit(1). *)
AddMissingFile(u) ==
  /\ Goto(u, "add", "add")
  /\ app[u] <= Len(Appenders(u))
  /\ Appenders(u)[app[u]].to \in MissingFile
  /\ exited' = TRUE
  /\ UNCHANGED <<m_val, loggers, pass, frames, ev, history>>

(* The loop over old_value, inside the loop over new_value: delete the      *)
(* loggers that are not defined any more.                                   *)
StartDelete(u) ==
  /\ Goto(u, "add", "delete")
  /\ app[u] > Len(Appenders(u))
  /\ gone' = [gone EXCEPT ![u] = DOMAIN m_val \ DOMAIN new[u]]
  /\ UNCHANGED <<m_val, loggers, exited, pass, new, todo, cur, app, ev, history>>

DeleteLevelMutant(u) ==
  /\ Goto(u, "delete", "delete_clear")
  /\ gone[u] # {}
  /\ logged' = logged \ {Least(gone[u])}
  /\ UNCHANGED <<m_val, loggers, exited, pass, frames, ev, applied, once, deleted,
                 overlapped>>

DeleteLevel(u) ==
  LET n == Least(gone[u]) IN
  /\ Goto(u, "delete", "delete_clear")
  /\ gone[u] # {}
  /\ GetLogger(n)
  /\ m_level' = [m_level EXCEPT ![n] = OFF]
  /\ logged' = logged \ {n}
  /\ UNCHANGED <<m_val, m_appenders, exited, pass, frames, ev, applied, once,
                 deleted, overlapped>>

DeleteClear(u) ==
  LET n == Least(gone[u]) IN
  /\ Goto(u, "delete_clear", "delete")
  /\ m_appenders' = [m_appenders EXCEPT ![n] = <<>>]
  /\ gone' = [gone EXCEPT ![u] = @ \ {n}]
  /\ applied' = [applied EXCEPT ![n] = {}]
  /\ deleted' = deleted \cup {n}
  /\ UNCHANGED <<m_val, m_loggers, m_level, exited, pass, new, todo, cur, app, ev,
                 once, logged, overlapped>>

(* ++it of the loop over new_value *)
EndDelete(u) ==
  /\ Goto(u, "delete", "loop")
  /\ gone[u] = {}
  /\ todo' = [todo EXCEPT ![u] = @ \ {Least(@)}]
  /\ UNCHANGED <<m_val, loggers, exited, pass, new, gone, cur, app, ev, history>>

-----------------------------------------------------------------------------
(* SYLAR_LOG_LEVEL(logger, level), executed by a writer *)

(* SYLAR_LOG_NAME(n), which may create the logger. *)
UseLogger(w, n) ==
  /\ Goto(w, "idle", "idle")
  /\ GetLogger(n)
  /\ UNCHANGED <<m_val, m_level, m_appenders, exited, pass, frames, ev, history>>

(* logger->getLevel() <= level; when it is not, nothing happens. *)
Check(w, l, lv) ==
  /\ Goto(w, "idle", "event")
  /\ m_level[l] <= lv
  /\ ev' = [ev EXCEPT ![w] = [logger |-> l, level |-> lv]]
  /\ UNCHANGED <<m_val, loggers, exited, pass, frames, history>>

(* LogEvent::LogEvent *)
MakeEvent(w) ==
  /\ Goto(w, "event", "log")
  /\ NewEvent(ev[w].logger, ev[w].level)
  /\ UNCHANGED <<m_val, m_loggers, m_appenders, exited, pass, frames, ev,
                 applied, once, deleted, overlapped>>

(* Logger::log writes to the appenders, which the loggers do not remember. *)
Log(w) ==
  /\ Goto(w, "log", "idle")
  /\ UNCHANGED <<m_val, loggers, exited, pass, frames, ev, history>>

-----------------------------------------------------------------------------
Listen(u) ==
  \/ Skip(u) \/ Pick(u) \/ SetLevel(u) \/ ClearAppenders(u)
  \/ AddAppender(u) \/ AddMissingFile(u)
  \/ StartDelete(u) \/ DeleteLevel(u) \/ DeleteClear(u) \/ EndDelete(u)

Set(u) == Lock(u) \/ Listen(u) \/ EndListener(u) \/ Assign(u)

Write(w) ==
  \/ \E n \in Name : UseLogger(w, n)
  \/ \E l \in m_loggers \cup {Root}, lv \in EventLevel : Check(w, l, lv)
  \/ MakeEvent(w) \/ Log(w)

Exited == exited /\ UNCHANGED vars

Next ==
  \/ \E u \in Updater : UpdateNameless(u) \/ Update(u) \/ Set(u)
  \/ \E w \in Writer : Write(w)
  \/ Exited

Spec == Init /\ [][Next]_vars
-----------------------------------------------------------------------------
(* Properties *)

Listening == {"loop", "level", "clear", "add", "delete", "delete_clear"}
UpdaterLabel == {"idle", "lock", "assign"} \cup Listening
WriterLabel == {"idle", "event", "log"}

Formatter == Pattern \cup {Default}
Appender == [to : File \cup {Stdout}, formatter : Formatter]

(* Type invariant.  Every appender of a logger has a formatter that parsed: *)
(* FileLogAppender::log uses m_formatter without looking.                   *)
TypeOK ==
  /\ m_val \in Values \cup {Empty}
  /\ m_loggers \subseteq Name
  /\ m_level \in [Logger -> Level]
  /\ m_appenders \in [Logger -> Seq(Appender)]
  /\ exited \in BOOLEAN
  /\ pass \in Updater \cup {NoOne}
  /\ \A u \in Updater : pc[u] \in UpdaterLabel
  /\ \A w \in Writer : pc[w] \in WriterLabel
  /\ new \in [Updater -> Values \cup {Empty}]
  /\ todo \in [Updater -> SUBSET Name]
  /\ gone \in [Updater -> SUBSET Name]
  /\ cur \in [Updater -> Name]
  /\ app \in [Updater -> Nat \ {0}]
  /\ ev \in [Writer -> [logger : Logger, level : Level]]
  /\ \A n \in Name : applied[n] = {} \/ \E v \in Values : n \in DOMAIN v /\ applied[n] = {v[n]}
  /\ once \subseteq Name /\ deleted \subseteq Name
  /\ logged \subseteq Logger /\ overlapped \in BOOLEAN

Idle == ~ exited /\ \A u \in Updater : pc[u] = "idle"

(* The appenders of a logger write where its definition says, in order.     *)
Matches(n, d) ==
  /\ Len(m_appenders[n]) = Len(d.appenders)
  /\ \A i \in 1..Len(d.appenders) :
       /\ m_appenders[n][i].to = d.appenders[i].to
       /\ d.appenders[i].pattern \in Pattern =>
            m_appenders[n][i].formatter = d.appenders[i].pattern

(* When an update is over, every logger that the value defines has the      *)
(* appenders of its definition, those of unchanged definitions, which the   *)
(* listener passes over, included; and it has the level of its definition   *)
(* unless an event has written the level since, which LogEvent's            *)
(* constructor does.  Two updates that overlap both compare with the value  *)
(* before them and promise neither.                                         *)
DefinitionsApplied ==
  Idle /\ ~ overlapped => \A n \in DOMAIN m_val :
    /\ n \in m_loggers /\ Matches(n, m_val[n])
    /\ n \notin logged => m_level[n] = m_val[n].level

(* Several threads set the value: when none runs the listener, the          *)
(* appenders of a logger come from one definition, never from two.          *)
NeverMixed ==
  pass = NoOne /\ ~ exited =>
    \A n \in Name : \/ applied[n] = {} /\ m_appenders[n] = <<>>
                    \/ \E d \in applied[n] : Matches(n, d)

(* When an update is over, a logger that the configuration has defined      *)
(* before and defines no more is off and has no appender.                   *)
RemovedIsOff ==
  Idle => \A n \in once \ DOMAIN m_val : m_level[n] = OFF /\ m_appenders[n] = <<>>

(* When no update is going on, a logger that a listener has deleted and     *)
(* that no value has defined since has no appender, however updates and     *)
(* events overlap; and it is off unless an event has written its level      *)
(* since: a thread that found the logger on before it was deleted makes its *)
(* event afterwards, and turns it on again.                                 *)
DeletedIsOff ==
  Idle => \A n \in deleted :
    m_appenders[n] = <<>> /\ (n \notin logged => m_level[n] = OFF)

(* A logger made anew from a definition: its level and its appenders. *)
Remade(d) ==
  [ level |-> d.level,
    appenders |-> [k \in DOMAIN d.appenders |-> NewAppender(d.appenders[k])] ]

(* What LoggerManager::toYamlString writes configures the loggers as they   *)
(* are, whatever updates and events have made of them: read as a document   *)
(* it defines the same loggers, which write to the same places with the     *)
(* same patterns, at the same levels, of which only ERROR becomes OFF.      *)
DumpConfigures ==
  LET read == ReadLogs(ManagerText(m_loggers, m_level, m_appenders)) IN
  /\ DOMAIN read = m_loggers
  /\ \A n \in m_loggers :
       Remade(read[n]) = [ level |-> IF m_level[n] = ERROR THEN OFF ELSE m_level[n],
                           appenders |-> m_appenders[n] ]

(* The text of the variable itself still names the loggers and their        *)
(* levels, although it loses their appenders.                               *)
TextKeepsLevels ==
  LET read == ReadLogs(WriteLogs(m_val)) IN
  /\ DOMAIN read = DOMAIN m_val
  /\ \A n \in DOMAIN m_val : read[n].level = m_val[n].level
=============================================================================
