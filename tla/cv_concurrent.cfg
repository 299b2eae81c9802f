\* Two setters and two registrars of one variable, a listener that may throw.
SPECIFICATION Spec
CONSTANTS
  NoThread = NoThread
  Thread = {t1, t2, t3}
  Setter = {t1, t2}
  Getter = {t3}
  Registrar = {t2, t3}
  Var = {v1}
  Val = {0, 1}
  Default = 0
  Callback = {c1, c2}
  Thrower = {c2}
  MaxOps = 2
INVARIANTS PassIsolated LockReleased IteratorValid PassVisitsEach
PROPERTY OldValueFixed
