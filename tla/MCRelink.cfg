SPECIFICATION Spec
CONSTANTS
  c1 = c1
  c2 = c2
  c3 = c3
  alice = alice
  bob = bob
  pw = pw
  NoName = NoName
  None = None
  Conns = {c1}
  Fds <- MCFds
  UserNames = {alice}
  AppIds = {}
  Keys = {}
  DNames = {}
  Passwords = {pw}
  MaxLinks = 3
  MaxAsked = 2
INVARIANTS TypeOK ClientHandlerLives
PROPERTIES AnswersAreRead
