\* Any thread joins and destroys any object; signals interrupt sem_wait.
SPECIFICATION FairSpec
CONSTANTS
  Obj = {o1, o2}
  Main = main
  NoObj = NoObj
  Name = {n1}
  Unknown = UNKNOWN
INVARIANTS HandshakeDone StartsAlive HandleValid NoneLeaked ThisAlive NamesAgree
PROPERTIES ImplementsLife CtorReturns JoinReturns
