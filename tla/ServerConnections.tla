-------------------------- MODULE ServerConnections --------------------------
(***************************************************************************)
(* ServerConnectionHandler of src/src/Connection_Layer with the callbacks  *)
(* both servers set: a connection that is accepted gets a Session, one that*)
(* is closed loses it.  All a reply is addressed to is a descriptor.       *)
(***************************************************************************)
EXTENDS SessionManager

VARIABLE
    m_client_sockets   \* [Fds -> Conns \cup {None}]: the open descriptors

Open(fd) == fd \in Fds /\ m_client_sockets[fd] # None

Connected(c) == \E fd \in Fds : m_client_sockets[fd] = c

\* for: the connection the code meant the command for, whoever has fd by now.
\* fcntl tells whether the descriptor is open, not whose it is.
SendCommand(fd, for, cmd) ==
    IF Open(fd)
    THEN {[to |-> m_client_sockets[fd], for |-> for, cmd |-> cmd]}
    ELSE {}

\* m_handleConnection: accept() returns the lowest free descriptor.
HandleConnection(c) ==
    \E fd \in Fds :
        /\ ~Open(fd)
        /\ \A f \in Fds : f < fd => Open(f)
        /\ m_client_sockets' = [m_client_sockets EXCEPT ![fd] = c]
        /\ AddSession(fd, c)

\* m_handleData, when read() returned 0 or less: the peer closed or reset.
HandleClose(fd) ==
    /\ RemoveSession(fd)
    /\ m_client_sockets' = [m_client_sockets EXCEPT ![fd] = None]

-----------------------------------------------------------------------------
\* Properties

\* A live session carries the descriptor of its connection, a dead one none.
CarriesDescriptor(c) ==
    \/ Connected(c) /\ session[c].isValid
         /\ Open(session[c].id) /\ m_client_sockets[session[c].id] = c
    \/ ~Connected(c) /\ ~session[c].isValid /\ session[c].id = -1

\* The handler's list of open descriptors and the session table say the same:
\* a descriptor has a session exactly while its connection is open, no two
\* descriptors share one, and a live session carries its own descriptor
\* (addSession and removeSession run from the callbacks of accept and close;
\* the TOTP thread sends to whatever id it finds in the object).
TablesAgree ==
    /\ m_sessions = m_client_sockets
    /\ \A fd, f \in Fds : Open(fd) /\ m_client_sockets[fd] = m_client_sockets[f]
                            => fd = f
    /\ \A c \in Conns : CarriesDescriptor(c)
=============================================================================
