SPECIFICATION BackendSpec
CONSTANTS
  u = u
  w = w
  n = n
  a = a
  b = b
  Subs = {u, w, n}
  Accounts = {a, b}
  AccountOf <- AccountOfEach
  Asks <- AskedByEach
  Seeded = {u, w}
  Vins = {v}
  SessionIds = {s}
  Threads = {t1, t2}
  None = None
SYMMETRY Symmetry
PROPERTY SingleHolder
