\* Two threads log to two loggers while a third one changes their appenders.
SPECIFICATION FairSpec
CONSTANTS
  a1 = a1
  a2 = a2
  Loggers = {l1, l2}
  Appenders = {a1, a2, a3}
  Console = {a2}
  Attached <- Two
  Writer = {w1, w2}
  Admin = {t1}
  Level = {2, 4}
  Formatter = {f1, f2}
  Default = f1
  NoFormatter = NoFormatter
  MaxEvents = 1
  MaxOps = 1
  NoThread = NoThread
INVARIANTS FormatterSet LoopInList StreamExclusive SameOrder
PROPERTY CallsReturn
