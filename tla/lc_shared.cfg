\* Two threads update the configuration while a third one logs.
SPECIFICATION Spec
CONSTANTS
  Name = {1, 2}
  RootName = 1
  Root = Root
  Updater = {u1, u2}
  Writer = {w1}
  EventLevel = {4}
  Document <- SomeDocuments
  f1 = f1
  f2 = f2
  p1 = p1
  bad = bad
  File = {f1}
  MissingFile = {f2}
  Stdout = Stdout
  Pattern = {p1}
  BadPattern = {bad}
  NoPattern = NoPattern
  Default = Default
  NoOne = NoOne
SYMMETRY Symmetry
INVARIANTS TypeOK DefinitionsApplied DeletedIsOff TextKeepsLevels NeverMixed DumpConfigures
