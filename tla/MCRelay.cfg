SPECIFICATION Spec
CONSTANTS
  c1 = c1
  c2 = c2
  c3 = c3
  alice = alice
  bob = bob
  pw = pw
  NoName = NoName
  None = None
  Conns = {c1, c2}
  Fds <- MCFds
  UserNames = {alice, bob}
  AppIds = {}
  Keys = {}
  DNames = {}
  Passwords = {pw}
  MaxLinks = 1
  MaxAsked = 1
SYMMETRY Symmetry
INVARIANTS TokensReachTheirUser SoleCarrierIsAnswered
