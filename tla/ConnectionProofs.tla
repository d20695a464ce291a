-------------------------- MODULE ConnectionProofs --------------------------
(***************************************************************************)
(* Lemmas about the connection and session tables that both servers keep.  *)
(***************************************************************************)
EXTENDS ServerConnections, TLAPS

\* The session table is typed: what the lemmas about its operators need.
SessionTypeOK ==
    /\ m_sessions \in [Fds -> Conns \cup {None}]
    /\ session \in [Conns -> Session]

TablesTypeOK ==
    SessionTypeOK /\ m_client_sockets \in [Fds -> Conns \cup {None}]

-----------------------------------------------------------------------------
\* Types

\* The sessions addSession makes and removeSession leaves are sessions.
LEMMA SessionValues ==
    /\ \A fd \in Fds \cup {-1} : NewSession(fd) \in Session
    /\ DeadSession \in Session
    /\ NoSecrets \in SecretMap
<1>1. NoSecrets \in SecretMap
  BY DEF NoSecrets, SecretMap
<1>2. \A fd \in Fds \cup {-1} : NewSession(fd) \in Session
  BY <1>1 DEF NewSession, Session, EntityTypes, Names, Apps
<1>3. DeadSession \in Session
  BY <1>1 DEF DeadSession, NewSession, Session, EntityTypes, Names, Apps
<1> QED BY <1>1, <1>2, <1>3

\* A known descriptor has a session.
LEMMA KnownIsConn ==
  ASSUME SessionTypeOK, NEW fd, Known(fd)
  PROVE  fd \in Fds /\ m_sessions[fd] \in Conns
BY DEF SessionTypeOK, Known

\* The setters of the session table keep sessions sessions (SessionManager.cpp,
\* one find() and one assignment each).
LEMMA SetterTypes ==
  ASSUME SessionTypeOK, NEW s \in [Conns -> Session], NEW fd
  PROVE  /\ \A type \in EntityTypes, app \in Apps :
              HandleHandshake(s, fd, type, app) \in [Conns -> Session]
         /\ Logout(s, fd) \in [Conns -> Session]
         /\ \A b \in BOOLEAN : SetIsLogged(s, fd, b) \in [Conns -> Session]
         /\ \A b \in BOOLEAN : SetIsInCodeState(s, fd, b) \in [Conns -> Session]
         /\ \A n \in Names : SetIdentity(s, fd, n) \in [Conns -> Session]
         /\ \A m \in SecretMap : SetSecretPairings(s, fd, m) \in [Conns -> Session]
<1>1. CASE ~Known(fd)
  BY <1>1 DEF HandleHandshake, Logout, SetIsLogged, SetIsInCodeState, SetIdentity,
              SetSecretPairings
<1>2. CASE Known(fd)
  <2> DEFINE c == m_sessions[fd]
  <2>1. c \in Conns
    BY <1>2, KnownIsConn
  <2>a. \A r \in Session : [s EXCEPT ![c] = r] \in [Conns -> Session]
    BY <2>1
  <2>b. s[c] \in Session
    BY <2>1
  <2>2. ASSUME NEW type \in EntityTypes, NEW app \in Apps
        PROVE  HandleHandshake(s, fd, type, app) \in [Conns -> Session]
    <3> DEFINE r == [s[c] EXCEPT !.type = type,
                        !.identity = IF type = "DUMMY_SERVER" THEN app
                                     ELSE s[c].identity]
    <3>1. r \in Session
      BY <2>b DEF Session, Names
    <3>2. HandleHandshake(s, fd, type, app) \in {s, [s EXCEPT ![c] = r]}
      BY <1>2 DEF HandleHandshake
    <3>3. [s EXCEPT ![c] = r] \in [Conns -> Session]
      BY <2>a, <3>1
    <3> HIDE DEF r
    <3> QED BY <3>2, <3>3
  <2>3. Logout(s, fd) \in [Conns -> Session]
    <3>1. [s[c] EXCEPT !.secret_pairs = NoSecrets, !.built = TRUE,
                       !.isLogged = FALSE] \in Session
      BY <2>b, SessionValues DEF Session
    <3> QED BY <1>2, <2>a, <3>1 DEF Logout
  <2>4. ASSUME NEW b \in BOOLEAN PROVE SetIsLogged(s, fd, b) \in [Conns -> Session]
    <3>1. [s[c] EXCEPT !.isLogged = b] \in Session
      BY <2>b DEF Session
    <3> QED BY <1>2, <2>a, <3>1 DEF SetIsLogged
  <2>5. ASSUME NEW b \in BOOLEAN PROVE SetIsInCodeState(s, fd, b) \in [Conns -> Session]
    <3>1. [s[c] EXCEPT !.isInCodeState = b] \in Session
      BY <2>b DEF Session
    <3> QED BY <1>2, <2>a, <3>1 DEF SetIsInCodeState
  <2>6. ASSUME NEW n \in Names PROVE SetIdentity(s, fd, n) \in [Conns -> Session]
    <3>1. [s[c] EXCEPT !.identity = n] \in Session
      BY <2>b DEF Session
    <3> QED BY <1>2, <2>a, <3>1 DEF SetIdentity
  <2>7. ASSUME NEW m \in SecretMap PROVE SetSecretPairings(s, fd, m) \in [Conns -> Session]
    <3>1. [s[c] EXCEPT !.secret_pairs = m, !.built = TRUE] \in Session
      BY <2>b DEF Session
    <3> QED BY <1>2, <2>a, <3>1 DEF SetSecretPairings
  <2> QED BY <2>2, <2>3, <2>4, <2>5, <2>6, <2>7
<1> QED BY <1>1, <1>2

\* Accepting a connection and closing one keep the tables typed.
LEMMA ConnectionTypes ==
  ASSUME TablesTypeOK, NEW c \in Conns, HandleConnection(c)
  PROVE  TablesTypeOK'
<1>1. PICK fd \in Fds :
        /\ m_client_sockets' = [m_client_sockets EXCEPT ![fd] = c]
        /\ AddSession(fd, c)
  BY DEF HandleConnection
<1>2. NewSession(fd) \in Session
  BY SessionValues
<1> QED BY <1>1, <1>2 DEF AddSession, TablesTypeOK, SessionTypeOK

\* Closing a connection keeps the tables typed.
LEMMA CloseTypes ==
  ASSUME TablesTypeOK, NEW fd \in Fds, HandleClose(fd)
  PROVE  TablesTypeOK'
<1>1. CASE Known(fd)
  <2>1. m_sessions[fd] \in Conns
    BY <1>1, KnownIsConn DEF TablesTypeOK
  <2>2. [session[m_sessions[fd]] EXCEPT !.isValid = FALSE, !.id = -1] \in Session
    <3>1. session[m_sessions[fd]] \in Session
      BY <2>1 DEF TablesTypeOK, SessionTypeOK
    <3> QED BY <3>1 DEF Session
  <2> QED BY <1>1, <2>1, <2>2 DEF HandleClose, RemoveSession, TablesTypeOK, SessionTypeOK
<1>2. CASE ~Known(fd)
  BY <1>2 DEF HandleClose, RemoveSession, TablesTypeOK, SessionTypeOK
<1> QED BY <1>1, <1>2

-----------------------------------------------------------------------------
\* What a setter leaves alone

\* A setter touches one session and keeps its descriptor and validity.
LEMMA SetterFrame ==
  ASSUME SessionTypeOK, NEW s \in [Conns -> Session], NEW fd, Known(fd),
         NEW t,
         \/ \E type \in EntityTypes, app \in Apps : t = HandleHandshake(s, fd, type, app)
         \/ t = Logout(s, fd)
         \/ \E b \in BOOLEAN : t = SetIsLogged(s, fd, b) \/ t = SetIsInCodeState(s, fd, b)
         \/ \E n \in Names : t = SetIdentity(s, fd, n)
         \/ \E m \in SecretMap : t = SetSecretPairings(s, fd, m)
         \/ \E app \in Apps, k \in Keys : t = InsertSecret(s, fd, app, k)
  PROVE  /\ \A x \in Conns : t[x].id = s[x].id /\ t[x].isValid = s[x].isValid
         /\ \A x \in Conns : x # m_sessions[fd] => t[x] = s[x]
<1> DEFINE c == m_sessions[fd]
<1>1. c \in Conns /\ s[c] \in Session
  BY KnownIsConn
<1>2. \A r : /\ [s EXCEPT ![c] = r][c] = r
             /\ \A x \in Conns : x # c => [s EXCEPT ![c] = r][x] = s[x]
  BY <1>1
<1>3. \E r : /\ t = [s EXCEPT ![c] = r] \/ t = s
             /\ r.id = s[c].id /\ r.isValid = s[c].isValid
  <2>1. ASSUME NEW type, NEW app, t = HandleHandshake(s, fd, type, app)
        PROVE  <1>3
    <3> DEFINE r == [s[c] EXCEPT !.type = type,
                        !.identity = IF type = "DUMMY_SERVER" THEN app
                                     ELSE s[c].identity]
    <3>1. t = [s EXCEPT ![c] = r] \/ t = s
      BY <2>1 DEF HandleHandshake
    <3>2. r.id = s[c].id /\ r.isValid = s[c].isValid
      BY <1>1 DEF Session
    <3> QED BY <3>1, <3>2
  <2>2. CASE t = Logout(s, fd)
    <3> DEFINE r == [s[c] EXCEPT !.secret_pairs = NoSecrets, !.built = TRUE,
                                 !.isLogged = FALSE]
    <3>1. t = [s EXCEPT ![c] = r]
      BY <2>2 DEF Logout
    <3>2. r.id = s[c].id /\ r.isValid = s[c].isValid
      BY <1>1 DEF Session
    <3> QED BY <3>1, <3>2
  <2>3. ASSUME NEW b, t = SetIsLogged(s, fd, b)
        PROVE  <1>3
    <3> DEFINE r == [s[c] EXCEPT !.isLogged = b]
    <3>1. t = [s EXCEPT ![c] = r]
      BY <2>3 DEF SetIsLogged
    <3>2. r.id = s[c].id /\ r.isValid = s[c].isValid
      BY <1>1 DEF Session
    <3> QED BY <3>1, <3>2
  <2>4. ASSUME NEW b, t = SetIsInCodeState(s, fd, b)
        PROVE  <1>3
    <3> DEFINE r == [s[c] EXCEPT !.isInCodeState = b]
    <3>1. t = [s EXCEPT ![c] = r]
      BY <2>4 DEF SetIsInCodeState
    <3>2. r.id = s[c].id /\ r.isValid = s[c].isValid
      BY <1>1 DEF Session
    <3> QED BY <3>1, <3>2
  <2>5. ASSUME NEW n, t = SetIdentity(s, fd, n)
        PROVE  <1>3
    <3> DEFINE r == [s[c] EXCEPT !.identity = n]
    <3>1. t = [s EXCEPT ![c] = r]
      BY <2>5 DEF SetIdentity
    <3>2. r.id = s[c].id /\ r.isValid = s[c].isValid
      BY <1>1 DEF Session
    <3> QED BY <3>1, <3>2
  <2>6. ASSUME NEW m, t = SetSecretPairings(s, fd, m)
        PROVE  <1>3
    <3> DEFINE r == [s[c] EXCEPT !.secret_pairs = m, !.built = TRUE]
    <3>1. t = [s EXCEPT ![c] = r]
      BY <2>6 DEF SetSecretPairings
    <3>2. r.id = s[c].id /\ r.isValid = s[c].isValid
      BY <1>1 DEF Session
    <3> QED BY <3>1, <3>2
  <2>7. ASSUME NEW app, NEW k, t = InsertSecret(s, fd, app, k)
        PROVE  <1>3
    <3> DEFINE r == [s[c] EXCEPT !.secret_pairs = [s[c].secret_pairs EXCEPT ![app] = k]]
    <3>1. t = [s EXCEPT ![c] = r]
      BY <2>7 DEF InsertSecret
    <3>2. r.id = s[c].id /\ r.isValid = s[c].isValid
      BY <1>1 DEF Session
    <3> QED BY <3>1, <3>2
  <2> QED BY <2>1, <2>2, <2>3, <2>4, <2>5, <2>6, <2>7
<1> QED BY <1>1, <1>2, <1>3

\* The identity a setter leaves, and whether secret_pairs is built.
LEMMA SetterFields ==
  ASSUME SessionTypeOK, NEW s \in [Conns -> Session], NEW fd, Known(fd)
  PROVE  LET c == m_sessions[fd] IN
         /\ /\ Logout(s, fd)[c].identity = s[c].identity
            /\ Logout(s, fd)[c].built
         /\ \A b \in BOOLEAN :
              /\ SetIsLogged(s, fd, b)[c].identity = s[c].identity
              /\ SetIsLogged(s, fd, b)[c].built = s[c].built
              /\ SetIsInCodeState(s, fd, b)[c].identity = s[c].identity
              /\ SetIsInCodeState(s, fd, b)[c].built = s[c].built
         /\ \A n \in Names : SetIdentity(s, fd, n)[c].identity = n
         /\ \A m \in SecretMap :
              /\ SetSecretPairings(s, fd, m)[c].identity = s[c].identity
              /\ SetSecretPairings(s, fd, m)[c].built
         /\ \A app \in Apps, k \in Keys :
              /\ InsertSecret(s, fd, app, k)[c].identity = s[c].identity
              /\ InsertSecret(s, fd, app, k)[c].built = s[c].built
<1> DEFINE c == m_sessions[fd]
<1>1. c \in Conns /\ s[c] \in Session
  BY KnownIsConn
<1>2. \A r : [s EXCEPT ![c] = r][c] = r
  BY <1>1
<1>3. Logout(s, fd)[c].identity = s[c].identity /\ Logout(s, fd)[c].built
  BY <1>1, <1>2 DEF Logout, Session
<1>4. ASSUME NEW b \in BOOLEAN
      PROVE  /\ SetIsLogged(s, fd, b)[c].identity = s[c].identity
             /\ SetIsLogged(s, fd, b)[c].built = s[c].built
  BY <1>1, <1>2 DEF SetIsLogged, Session
<1>5. ASSUME NEW b \in BOOLEAN
      PROVE  /\ SetIsInCodeState(s, fd, b)[c].identity = s[c].identity
             /\ SetIsInCodeState(s, fd, b)[c].built = s[c].built
  BY <1>1, <1>2 DEF SetIsInCodeState, Session
<1>6. ASSUME NEW n \in Names PROVE SetIdentity(s, fd, n)[c].identity = n
  BY <1>1, <1>2 DEF SetIdentity, Session
<1>7. ASSUME NEW m \in SecretMap
      PROVE  /\ SetSecretPairings(s, fd, m)[c].identity = s[c].identity
             /\ SetSecretPairings(s, fd, m)[c].built
  BY <1>1, <1>2 DEF SetSecretPairings, Session
<1>8. ASSUME NEW app \in Apps, NEW k \in Keys
      PROVE  /\ InsertSecret(s, fd, app, k)[c].identity = s[c].identity
             /\ InsertSecret(s, fd, app, k)[c].built = s[c].built
  BY <1>1, <1>2 DEF InsertSecret, Session
<1> QED BY <1>3, <1>4, <1>5, <1>6, <1>7, <1>8

-----------------------------------------------------------------------------
\* The agreement of the tables

\* A step that leaves both tables and the descriptor and validity of every
\* session keeps their agreement.
LEMMA TablesFrame ==
  ASSUME TablesAgree, UNCHANGED <<m_client_sockets, m_sessions>>,
         \A x \in Conns : session'[x].id = session[x].id
                         /\ session'[x].isValid = session[x].isValid
  PROVE  TablesAgree'
BY DEF TablesAgree, CarriesDescriptor, Connected, Open

\* Nothing connected: a server that starts.
LEMMA EmptyTablesAgree ==
  ASSUME m_client_sockets = [fd \in Fds |-> None],
         m_sessions = [fd \in Fds |-> None],
         session = [c \in Conns |-> DeadSession]
  PROVE  TablesAgree
<1>1. ~DeadSession.isValid /\ DeadSession.id = -1
  BY DEF DeadSession, NewSession
<1>2. \A c \in Conns : ~Connected(c)
  BY SessionAssumption DEF Connected
<1>3. \A fd \in Fds : ~Open(fd)
  BY DEF Open
<1> QED BY <1>1, <1>2, <1>3 DEF TablesAgree, CarriesDescriptor

\* The same of a server that starts again.
LEMMA NewTablesAgree ==
  ASSUME m_client_sockets' = [fd \in Fds |-> None],
         m_sessions' = [fd \in Fds |-> None],
         session' = [c \in Conns |-> DeadSession]
  PROVE  TablesAgree'
<1>1. ~DeadSession.isValid /\ DeadSession.id = -1
  BY DEF DeadSession, NewSession
<1>2. \A c \in Conns : ~Connected(c)'
  BY SessionAssumption DEF Connected
<1>3. \A fd \in Fds : ~Open(fd)'
  BY DEF Open
<1> QED BY <1>1, <1>2, <1>3 DEF TablesAgree, CarriesDescriptor

\* accept() gives a new connection a free descriptor, and addSession a session
\* under that number.
LEMMA ConnectionKeepsTables ==
  ASSUME TablesTypeOK, TablesAgree, NEW c \in Conns,
         \A g \in Fds : m_client_sockets[g] # c,
         HandleConnection(c)
  PROVE  TablesAgree'
<1>0. SessionTypeOK /\ m_client_sockets \in [Fds -> Conns \cup {None}]
  BY DEF TablesTypeOK
<1>1. PICK f \in Fds :
        /\ ~Open(f)
        /\ m_client_sockets' = [m_client_sockets EXCEPT ![f] = c]
        /\ m_sessions' = [m_sessions EXCEPT ![f] = c]
        /\ session' = [session EXCEPT ![c] = NewSession(f)]
  BY DEF HandleConnection, AddSession
<1>2. NewSession(f).id = f /\ NewSession(f).isValid
  BY DEF NewSession
<1>3. m_sessions' = m_client_sockets'
  BY <1>0, <1>1 DEF TablesAgree
<1>4. \A g, h \in Fds : Open(g)' /\ m_client_sockets'[g] = m_client_sockets'[h] => g = h
  BY <1>0, <1>1 DEF TablesAgree, Open
<1>5. ASSUME NEW x \in Conns
      PROVE  CarriesDescriptor(x)'
  <2>1. CASE x = c
    BY <1>0, <1>1, <1>2, <2>1, SessionAssumption
       DEF Connected, Open, SessionTypeOK, CarriesDescriptor
  <2>2. CASE x # c
    <3>1. session'[x] = session[x]
      BY <1>0, <1>1, <2>2 DEF SessionTypeOK
    <3>2. Connected(x)' <=> Connected(x)
      BY <1>0, <1>1, <2>2, SessionAssumption DEF Connected, Open
    <3>3. \A g \in Fds : Open(g) => Open(g)' /\ m_client_sockets'[g] = m_client_sockets[g]
      BY <1>0, <1>1 DEF Open
    <3> QED BY <1>0, <3>1, <3>2, <3>3 DEF TablesAgree, CarriesDescriptor, Open
  <2> QED BY <2>1, <2>2
<1> QED BY <1>3, <1>4, <1>5 DEF TablesAgree

\* A connection that is closed takes its session and its descriptor with it.
LEMMA CloseKeepsTables ==
  ASSUME TablesTypeOK, TablesAgree, NEW fd \in Fds, Open(fd), HandleClose(fd)
  PROVE  TablesAgree'
<1>0. SessionTypeOK /\ m_client_sockets \in [Fds -> Conns \cup {None}]
  BY DEF TablesTypeOK
<1>1. PICK c \in Conns : m_client_sockets[fd] = c /\ Known(fd) /\ m_sessions[fd] = c
  BY <1>0 DEF Open, Known, TablesAgree
<1>2. /\ m_client_sockets' = [m_client_sockets EXCEPT ![fd] = None]
      /\ m_sessions' = [m_sessions EXCEPT ![fd] = None]
      /\ session' = [session EXCEPT ![c] = [@ EXCEPT !.isValid = FALSE, !.id = -1]]
  BY <1>1 DEF HandleClose, RemoveSession
<1>3. ~session'[c].isValid /\ session'[c].id = -1
  <2>1. session[c] \in Session
    BY <1>0, <1>1 DEF SessionTypeOK
  <2> QED BY <1>0, <1>1, <1>2, <2>1 DEF SessionTypeOK, Session
<1>4. m_sessions' = m_client_sockets'
  BY <1>0, <1>2 DEF TablesAgree
<1>5. \A g, h \in Fds : Open(g)' /\ m_client_sockets'[g] = m_client_sockets'[h] => g = h
  BY <1>0, <1>2 DEF TablesAgree, Open
<1>6. ASSUME NEW x \in Conns
      PROVE  CarriesDescriptor(x)'
  <2>1. CASE x = c
    <3>1. ~Connected(c)'
      BY <1>0, <1>1, <1>2, SessionAssumption DEF Connected, TablesAgree, Open
    <3> QED BY <1>3, <2>1, <3>1 DEF CarriesDescriptor
  <2>2. CASE x # c
    <3>1. session'[x] = session[x]
      BY <1>0, <1>1, <1>2, <2>2 DEF SessionTypeOK
    <3>2. Connected(x)' <=> Connected(x)
      BY <1>0, <1>1, <1>2, <2>2, SessionAssumption DEF Connected
    <3>3. \A g \in Fds : Open(g) /\ g # fd =>
            Open(g)' /\ m_client_sockets'[g] = m_client_sockets[g]
      BY <1>0, <1>2 DEF Open
    <3> QED BY <1>0, <1>1, <2>2, <3>1, <3>2, <3>3 DEF TablesAgree, CarriesDescriptor, Open
  <2> QED BY <2>1, <2>2
<1> QED BY <1>4, <1>5, <1>6 DEF TablesAgree
=============================================================================
