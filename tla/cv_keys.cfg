\* Two objects of one type count their listeners with one s_fun_id.
SPECIFICATION Spec
CONSTANTS
  NoThread = NoThread
  Thread = {t1, t2}
  Setter = {}
  Getter = {t2}
  Registrar = {t1, t2}
  Var = {v1, v2}
  Val = {0, 1}
  Default = 0
  Callback = {c1, c2}
  Thrower = {}
  MaxOps = 1
INVARIANT KeyNamesListener
