SPECIFICATION Spec
CONSTANTS
  c1 = c1
  c2 = c2
  c3 = c3
  k1 = k1
  k2 = k2
  r1 = r1
  alice = alice
  bob = bob
  d1 = d1
  d2 = d2
  app1 = app1
  app2 = app2
  pw = pw
  NoName = NoName
  None = None
  AC = AC
  Merging = {}
  Conns = {c1, c2, c3}
  Fds <- MCFds
  UserNames = {alice}
  AppIds = {app1}
  Keys = {k1}
  ReqIDs = {r1}
  DNames = {d1}
  Passwords = {pw}
SYMMETRY Symmetry
INVARIANTS TypeOK TablesAgree  AnswersReachTheirConnection
