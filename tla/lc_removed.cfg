\* A definition is removed and nothing else changes.
SPECIFICATION Spec
CONSTANTS
  Name = {1, 2}
  RootName = 1
  Root = Root
  Updater = {u1}
  Writer = {}
  EventLevel = {2}
  Document <- OneDocument
  f1 = f1
  f2 = f2
  p1 = p1
  bad = bad
  File = {f1}
  MissingFile = {f2}
  Stdout = Stdout
  Pattern = {p1}
  BadPattern = {bad}
  NoPattern = NoPattern
  Default = Default
  NoOne = NoOne
INVARIANT RemovedIsOff
