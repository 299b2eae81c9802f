----------------------------- MODULE ThreadLife -----------------------------
(***************************************************************************)
(* What class Thread promises to the program that uses it, without its     *)
(* semaphore, its fields and the pthread under it: the constructor hands   *)
(* out an object whose thread is under way, and join returns when the      *)
(* callback is over.                                                       *)
(***************************************************************************)
CONSTANT Obj   \* the Thread objects

VARIABLES
  life,     \* life[o]: "new", then "running" its callback, then "over"
  handle    \* handle[o]: "none", "held" by the program, "joined", "dropped"

Init ==
  /\ life = [o \in Obj |-> "new"]
  /\ handle = [o \in Obj |-> "none"]

(* The new thread is ready and calls its callback, once. *)
Begin(o) ==
  /\ life[o] = "new" /\ life' = [life EXCEPT ![o] = "running"]
  /\ UNCHANGED handle

End(o) ==
  /\ life[o] = "running" /\ life' = [life EXCEPT ![o] = "over"]
  /\ UNCHANGED handle

(* The constructor returns: the thread has begun. *)
Hand(o) ==
  /\ handle[o] = "none" /\ life[o] # "new"
  /\ handle' = [handle EXCEPT ![o] = "held"]
  /\ UNCHANGED life

(* join returns: the callback is over. *)
Join(o) ==
  /\ handle[o] = "held" /\ life[o] = "over"
  /\ handle' = [handle EXCEPT ![o] = "joined"]
  /\ UNCHANGED life

(* The object is destroyed; the thread, if it still runs, is on its own. *)
Drop(o) ==
  /\ handle[o] \in {"held", "joined"}
  /\ handle' = [handle EXCEPT ![o] = "dropped"]
  /\ UNCHANGED life

Next == \E o \in Obj : Begin(o) \/ End(o) \/ Hand(o) \/ Join(o) \/ Drop(o)

Spec == Init /\ [][Next]_<<life, handle>>
=============================================================================
