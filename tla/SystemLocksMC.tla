---------------------------- MODULE SystemLocksMC ----------------------------
(* The threads of the system, each in one function after another; the       *)
(* configuration gives the CONSTANTS of LockOrder the locks and programs of *)
(* SystemLocks.                                                             *)
EXTENDS SystemLocks, TLC

(* The threads call the same functions. *)
Symmetry == Permutations(Thread)

LastPlace == 4

(* The listener of config_test.cpp logs. *)
TestListener == {Log(Root)}

(* The callback of pthread_test.cpp writes each variable in an event, which *)
(* is logged when it is written; the second variable does not convert.      *)
TestCallback == {getValue(Logs) \o Log(Root), getValue(Plain) \o Log(Root) \o Log(Root)}

(* LogByName, fromString, toString and LoadFromYaml are other programs in a *)
(* row, with no lock between them, and a thread runs programs in a row: the *)
(* others are enough to meet every lock that is held while one is taken.    *)
OnItsOwn(var) == setValue(var) \cup {getValue(var), addListener(var)}

Parts ==
  (Logging \ {LogByName}) \cup OnItsOwn(Logs) \cup OnItsOwn(Plain)
    \cup Lookup \cup find \cup {LookupBase} \cup Visit

ASSUME PartsAssumption == Parts \subseteq Programs
=============================================================================
