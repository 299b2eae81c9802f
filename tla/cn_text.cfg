\* Variables of container types are read, written and read again.
SPECIFICATION Spec
CONSTANTS
  Type <- Types
  Word <- Words
  Number <- Numbers
  Key <- Keys
  Depth = 2
  Document <- Documents
INVARIANT CastReadsBack
PROPERTY LoadedWhole
