\* m_val is assigned under a ReadLock: a reader copies it meanwhile.
SPECIFICATION Spec
CONSTANTS
  NoThread = NoThread
  Thread = {t1, t2}
  Setter = {t1}
  Getter = {t2}
  Registrar = {}
  Var = {v1}
  Val = {0, 1}
  Default = 0
  Callback = {c1}
  Thrower = {}
  MaxOps = 1
INVARIANT ReadsWhole
