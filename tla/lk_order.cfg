\* Threads call the functions that take locks, one after another.
SPECIFICATION Spec
CONSTANTS
  Thread = {t1, t2, t3}
  NoThread = NoThread
  Lock <- Locks
  RW <- RWLocks
  Program <- Parts
  Rank <- Order
  MaxRank <- LastPlace
  Registry = Registry
  Logs = Logs
  Plain = Plain
  Manager = Manager
  Root = Root
  Named = Named
  Out = Out
  File = File
  UserListener <- TestListener
  Callback <- TestCallback
SYMMETRY Symmetry
INVARIANTS NotStuck ScopesHold
