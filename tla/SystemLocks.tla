----------------------------- MODULE SystemLocks -----------------------------
(***************************************************************************)
(* What the functions of config.hpp, config.cpp and log.cpp do with the    *)
(* locks of the system, as programs for module LockOrder.                  *)
(*                                                                         *)
(* The locks are that of the registry, one of each variable, that of the   *)
(* LoggerManager, one of each logger and one of each appender.  A program  *)
(* is what one call does on one of its paths.                              *)
(*                                                                         *)
(* Functions that take the same locks in the same way are one program: the *)
(* name of one of them stands for all, and a comment says which they are.  *)
(* A path that takes a part of the locks of another one in the same order, *)
(* an event below the level or a loop with fewer rounds, has none.         *)
(* A loop goes round once, that of Visit twice: every round takes and      *)
(* drops the same locks.                                                   *)
(*                                                                         *)
(* Every function is here but LoggerManager::addLogger, which takes the    *)
(* manager's lock twice (log.cpp 551-552).  Its program is defined, and is *)
(* not one of Programs.                                                    *)
(*                                                                         *)
(* A definition named "...Mutant" is the code with one mistake in it; no   *)
(* specification uses it.                                                  *)
(***************************************************************************)
EXTENDS LockOrder

CONSTANTS
  Registry,   \* the lock of Config
  Logs,       \* that of the variable "logs" ...
  Plain,      \* ... and of one with listeners of the user
  Manager,    \* that of LoggerManager
  Root,       \* of its root logger ...
  Named,      \* ... and of a logger that it has under a name
  Out,        \* of the appender of the root logger
  File,       \* of the appender of the other one
  UserListener,   \* what the listeners of Plain do with locks, in one pass
  Callback        \* what the callback of Visit does, for one variable

(* Locks of different kinds are different objects. *)
ASSUME KindsAssumption ==
  /\ Registry \notin {Logs, Plain, Manager, Root, Named, Out, File}
  /\ Manager \notin {Logs, Plain, Root, Named, Out, File}
  /\ {Logs, Plain} \cap {Root, Named, Out, File} = {}
  /\ {Root, Named} \cap {Out, File} = {}

Locks == {Registry, Logs, Plain, Manager, Root, Named, Out, File}

RWLocks == {Registry, Logs, Plain}

(* The order that the functions keep. *)
Order ==
  [l \in Locks |-> CASE l = Registry -> 0
                     [] l \in {Logs, Plain} -> 1
                     [] l = Manager -> 2
                     [] l \in {Root, Named} -> 3
                     [] l \in {Out, File} -> 4]

(* What a user may do: a listener uses neither a variable nor the registry, *)
(* and a callback of Visit does not use the registry.  The code does not    *)
(* ask for it; listeners and callbacks of the library and of its tests keep *)
(* it (log.cpp 694-757, config_test.cpp 208-211, pthread_test.cpp 71-76).   *)
ASSUME UserAssumption ==
  /\ \A heard \in UserListener : From(2, heard)
  /\ \A seen \in Callback : From(1, seen)

(* A guard and its scope. *)
Under(lock, op, body) ==
  <<[op |-> op, lock |-> lock]>> \o body \o <<[op |-> "drop", lock |-> lock]>>

WriteUnder(lock, body) == Under(lock, "write", body)
ReadUnder(lock, body) == Under(lock, "read", body)

Touch(lock) == WriteUnder(lock, <<>>)

-----------------------------------------------------------------------------
(* Logging *)

AppenderOf(logger) == IF logger = Root THEN Out ELSE File

(* The destructor of LogEventWrap calls Logger::log, and that the log of    *)
(* the appenders; the level is read without a lock.                         *)
Log(logger) == WriteUnder(logger, Touch(AppenderOf(logger)))

getLogger == Touch(Manager)

(* SYLAR_LOG_LEVEL(SYLAR_LOG_NAME(name), level) *)
LogByName == getLogger \o Log(Named)

(* getFormatter of the appender, under the lock of the logger; setFormatter *)
(* with a pointer takes none (log.hpp 237, 247).                            *)
addAppender(logger) == WriteUnder(logger, Touch(AppenderOf(logger)))

(* delAppender, getFormatter and setFormatter are as clearAppender is. *)
clearAppender(logger) == Touch(logger)

(* setFormatter with a pattern, getFormatter and toYamlString of appenders  *)
(* are as reopen is.                                                        *)
reopen(appender) == Touch(appender)

(* toYamlString asks for the lock at each level, in this order. *)
LoggerToYaml(logger) == WriteUnder(logger, Touch(AppenderOf(logger)))
ManagerToYaml == WriteUnder(Manager, LoggerToYaml(Named))

(* The guard is alive in the call of getLogger. *)
addLogger == WriteUnder(Manager, getLogger)

OnLogger(logger) ==
  {Log(logger), addAppender(logger), clearAppender(logger), LoggerToYaml(logger)}

Logging ==
  {getLogger, LogByName, ManagerToYaml, reopen(Out), reopen(File)}
    \cup OnLogger(Root) \cup OnLogger(Named)

-----------------------------------------------------------------------------
(* Configuration *)

(* The listener of LogIniter, for a definition that is new or changed, and  *)
(* for one that is gone; the delete loop is in the other loop.              *)
Apply ==
  getLogger
    \o clearAppender(Named)    \* setFormatter of the logger
    \o clearAppender(Named)
    \o reopen(File)            \* setFormatter of the new appender
    \o addAppender(Named)

Delete == getLogger \o clearAppender(Named)

(* The mutant looks a variable up. *)
ListenerMutant == {Log(Root) \o WriteUnder(Registry, Log(Root)) \o Apply \o Delete}

(* After "on logger changed": nothing differs, a definition is applied, and *)
(* one is deleted as well.                                                  *)
Listener == {Log(Root), Log(Root) \o Apply, Log(Root) \o Apply \o Delete}

Listeners(var) == IF var = Logs THEN Listener ELSE UserListener

(* The two scopes of setValue are one. *)
setValueMutant(var) ==
  {WriteUnder(var, heard \o ReadUnder(var, <<>>)) : heard \in Listeners(var)}

setValue(var) == {WriteUnder(var, heard) \o ReadUnder(var, <<>>) : heard \in Listeners(var)}

(* A conversion that throws, or a listener, is logged, after the scopes are *)
(* left.                                                                    *)
fromString(var) ==
  setValue(var) \cup {Log(Root)}
    \cup {WriteUnder(var, heard) \o Log(Root) : heard \in Listeners(var)}

(* getListener is as getValue is. *)
getValue(var) == ReadUnder(var, <<>>)

toString(var) == {getValue(var), getValue(var) \o Log(Root)}

(* delListener and clearListener are as addListener is. *)
addListener(var) == Touch(var)

(* Log at the end, under the lock, unless the variable is made. *)
Lookup == {WriteUnder(Registry, <<>>), WriteUnder(Registry, Log(Root))}

find == {ReadUnder(Registry, <<>>), ReadUnder(Registry, Log(Root))}

LookupBase == ReadUnder(Registry, <<>>)

(* An invalid name is logged before the first key is looked up. *)
LoadFromYaml ==
  {LookupBase \o set : set \in fromString(Logs) \cup fromString(Plain)}
    \cup {Log(Root) \o LookupBase}

(* The callback is called for each variable, under the lock. *)
Visit == {ReadUnder(Registry, one \o other) : one, other \in Callback}

-----------------------------------------------------------------------------
OnVariable(var) == fromString(var) \cup toString(var) \cup {addListener(var)}

Programs ==
  Logging \cup OnVariable(Logs) \cup OnVariable(Plain)
    \cup Lookup \cup find \cup {LookupBase} \cup LoadFromYaml \cup Visit
=============================================================================
