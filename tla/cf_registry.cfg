\* Threads look variables up, find, visit and load them.
SPECIFICATION FairSpec
CONSTANTS
  NoThread = NoThread
  num = num
  str = str
  x = x
  y = y
  Thread = {t1, t2}
  Loader = {t1}
  Name = {1, 2, 3, 4}
  Valid = {1, 2, 3}
  Lower <- LowerOf
  Type = {num, str}
  Text = {x, y}
  Refused <- NotNumbers
  Throwing = {num}
  Default = Default
  Document <- Documents
  MaxOps = 2
INVARIANTS HeldIsRegistered VisitsEach LoadApplied
PROPERTY CallsReturn
