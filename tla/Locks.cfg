SPECIFICATION Spec
CONSTANTS
  Conns = {c1, c2}
  Fds = {4, 5}
  None = None
  MaxUnread = 1
INVARIANTS TypeOK NoCircularWait SentToWhomWasChecked NoBlockingRead SelectGetsOpenSockets
PROPERTIES ConnectionsAreAtomic PeersAreServed ExitEnds
