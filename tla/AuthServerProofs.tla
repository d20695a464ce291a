-------------------------- MODULE AuthServerProofs --------------------------
(***************************************************************************)
(* Proofs about the Auth Server: type correctness, then the agreement of   *)
(* the connection table, the session table and the session objects.        *)
(***************************************************************************)
EXTENDS AuthServer, ConnectionProofs

-----------------------------------------------------------------------------
\* Types of values

\* The TOTP thread starts typed.
LEMMA IdleType == Idle \in Thread
BY SessionValues DEF Idle, Thread

\* What sendCommand sends is a message: the receiver is a connection because
\* the descriptor is open.
LEMMA SendCommandType ==
  ASSUME m_client_sockets \in [Fds -> Conns \cup {None}],
         NEW fd, NEW for \in Conns, NEW cmd \in Command
  PROVE  SendCommand(fd, for, cmd) \subseteq Message
BY DEF SendCommand, Open, Message
\* What the handlers answer with are commands.
LEMMA CommandTypes ==
    /\ \A code \in {300, 301, 302, 303} : Err(code) \in Command
    /\ \A u \in UserNames : /\ [type |-> "LOGIN_RESP", name |-> u] \in Command
                           /\ [type |-> "REGISTER_RESP", name |-> u] \in Command
    /\ \A t \in Keys \cup {None}, d \in DNames : PairResp(t, d) \in Command
    /\ \A codes \in SecretMap : CodeResp(codes) \in Command
BY DEF Command, Err, PairResp, CodeResp

\* A handler's reply is a message.
LEMMA ReplyType ==
  ASSUME m_client_sockets \in [Fds -> Conns \cup {None}],
         NEW fd, Open(fd), NEW cmd \in Command, Reply(fd, cmd)
  PROVE  out' \subseteq Message
<1>1. m_client_sockets[fd] \in Conns
  BY DEF Open
<1> QED BY <1>1, SendCommandType DEF Reply

\* The TOTP thread's record stays typed when a handler marks a race.
LEMMA WritesPairsType ==
  ASSUME TypeOK, NEW fd, WritesPairs(fd)
  PROVE  totp' \in Thread /\ (totp'.pc \in {"format", "send"} => totp'.cur \in Conns)
BY DEF TypeOK, WritesPairs, Thread

-----------------------------------------------------------------------------
\* Type correctness

\* A server that starts is well typed.
LEMMA InitTypeOK == Init => TypeOK
<1> SUFFICES ASSUME Init PROVE TypeOK
  OBVIOUS
<1>1. DatabaseTypeOK
  BY DEF Init, DatabaseInit, DatabaseTypeOK
<1> QED BY <1>1, SessionValues, IdleType DEF Init, TypeOK, Idle

\* Accept, disconnection and handshake keep the types.
LEMMA ConnectionTypeOK ==
  ASSUME TypeOK, NEW fd \in Fds,
         \/ \E c \in Conns, p \in Peers : Accept(c, p)
         \/ Disconnect(fd) \/ Handshake(fd) \/ LoseHandshake(fd)
  PROVE  TypeOK'
<1>a. SessionTypeOK /\ TablesTypeOK
  BY DEF TypeOK, SessionTypeOK, TablesTypeOK
<1>1. ASSUME NEW c \in Conns, NEW p \in Peers, Accept(c, p)
      PROVE  TypeOK'
  <2>1. PICK f \in Fds : m_client_sockets' = [m_client_sockets EXCEPT ![f] = c]
    BY <1>1 DEF Accept, HandleConnection
  <2>2. TablesTypeOK'
    BY <1>a, <1>1, ConnectionTypes DEF Accept
  <2>4. p # None /\ peer' = [peer EXCEPT ![c] = p]
    BY <1>1, SessionAssumption, AuthServerAssumption DEF Accept, HandleConnection, Peers
  <2>5. \A g \in Fds : m_client_sockets'[g] # None => peer'[m_client_sockets'[g]] # None
    BY <2>1, <2>4 DEF TypeOK
  <2>6. peer' \in [Conns -> Peers \cup {None}]
    BY <2>4 DEF TypeOK
  <2> QED BY <1>1, <2>2, <2>5, <2>6
          DEF TablesTypeOK, SessionTypeOK, Accept, TypeOK, dbVars, authVars, DatabaseTypeOK
<1>2. CASE Disconnect(fd)
  <2>1. TablesTypeOK'
    BY <1>a, <1>2, CloseTypes DEF Disconnect
  <2>2. \A g \in Fds : m_client_sockets'[g] \in {m_client_sockets[g], None}
    BY <1>a, <1>2 DEF Disconnect, HandleClose, TablesTypeOK
  <2> QED BY <1>2, <2>1, <2>2
          DEF TablesTypeOK, SessionTypeOK, Disconnect, TypeOK, dbVars, authVars, DatabaseTypeOK
<1>3. CASE Handshake(fd)
  <2>1. session' \in [Conns -> Session]
    <3> DEFINE p == peer[m_client_sockets[fd]]
    <3>1. p \in Peers
      BY <1>3 DEF Handshake, Open, TypeOK
    <3>2. NoName \in Apps /\ (p # AC => p \in Apps)
      BY <3>1 DEF Peers, Apps
    <3>3. {"AUTH_CLIENT", "DUMMY_SERVER"} \subseteq EntityTypes
      BY DEF EntityTypes
    <3>4. session' = IF p = AC THEN HandleHandshake(session, fd, "AUTH_CLIENT", NoName)
                               ELSE HandleHandshake(session, fd, "DUMMY_SERVER", p)
      BY <1>3 DEF Handshake
    <3>5. session \in [Conns -> Session]
      BY DEF TypeOK
    <3> QED BY <1>a, <3>2, <3>3, <3>4, <3>5, SetterTypes
  <2> QED BY <1>3, <2>1 DEF Handshake, TypeOK, dbVars, authVars, DatabaseTypeOK
<1>4. CASE LoseHandshake(fd)
  <2>1. session' \in [Conns -> Session]
    <3>1. session \in [Conns -> Session] /\ "DUMMY_SERVER" \in EntityTypes /\ AppIds \subseteq Apps
      BY DEF TypeOK, EntityTypes, Apps
    <3>2. session' = session
            \/ \E app \in AppIds : session' = HandleHandshake(session, fd, "DUMMY_SERVER", app)
      BY <1>4 DEF LoseHandshake
    <3> QED BY <1>a, <3>1, <3>2, SetterTypes
  <2> QED BY <1>4, <2>1 DEF LoseHandshake, TypeOK, dbVars, authVars, DatabaseTypeOK
<1> QED BY <1>1, <1>2, <1>3, <1>4

\* Of TypeOK, what a handler of the main thread can disturb; the rest it leaves.
LEMMA HandlerFrame ==
  ASSUME TypeOK, UNCHANGED connVars,
         up' \in {"up", "segv_insert", "segv_race"},
         session' \in [Conns -> Session],
         DatabaseTypeOK',
         m_pending_pairings' \in [Keys -> Pending \cup {None}],
         m_pending_notifications' \in [ReqIDs -> Notification \cup {None}],
         drawn' \subseteq Keys \cup ReqIDs,
         totp' \in Thread,
         totp'.pc \in {"format", "send"} => totp'.cur \in Conns,
         out' \subseteq Message
  PROVE  TypeOK'
BY DEF TypeOK, connVars

\* A descriptor the server reads from is open and belongs to a connection.
LEMMA ReadingFacts ==
  ASSUME TypeOK, NEW fd, Reading(fd)
  PROVE  /\ fd \in Fds /\ Open(fd) /\ m_client_sockets[fd] \in Conns
         /\ SessionTypeOK
BY DEF TypeOK, Reading, Open, SessionTypeOK

\* Login, registration and logout keep the types.
LEMMA CredentialsTypeOK ==
  ASSUME TypeOK, NEW fd \in Fds,
         \/ \E u \in UserNames, p \in Passwords : Login(fd, u, p) \/ Register(fd, u, p)
         \/ LogoutRequest(fd)
  PROVE  TypeOK'
<1>0. Open(fd) /\ SessionTypeOK /\ m_client_sockets \in [Fds -> Conns \cup {None}]
  BY ReadingFacts DEF Login, Register, LogoutRequest, FromAC, TypeOK
<1>a. \A code \in {300, 301, 302, 303} : Reply(fd, Err(code)) => out' \subseteq Message
  BY <1>0, ReplyType, CommandTypes
<1>b. session \in [Conns -> Session] /\ UserNames \subseteq Names
  BY DEF TypeOK, Names
<1>c. /\ totp \in Thread /\ (totp.pc \in {"format", "send"} => totp.cur \in Conns)
      /\ WritesPairs(fd) \/ UNCHANGED totp =>
           totp' \in Thread /\ (totp'.pc \in {"format", "send"} => totp'.cur \in Conns)
  BY WritesPairsType DEF TypeOK
<1>1. ASSUME NEW u \in UserNames, NEW p \in Passwords, Login(fd, u, p)
      PROVE  TypeOK'
  <2>1. out' \subseteq Message
    <3>1. Reply(fd, [type |-> "LOGIN_RESP", name |-> u]) => out' \subseteq Message
      BY <1>0, ReplyType, CommandTypes
    <3> QED BY <1>1, <1>a, <3>1 DEF Login
  <2>2. session' \in [Conns -> Session]
    <3>1. ASSUME NEW m \in SecretPairings(u),
                 session' = SetSecretPairings(
                     SetIdentity(SetIsLogged(session, fd, TRUE), fd, u), fd, m)
          PROVE  session' \in [Conns -> Session]
      <4>1. m \in SecretMap
        BY DEF SecretPairings
      <4>2. SetIsLogged(session, fd, TRUE) \in [Conns -> Session]
        BY <1>0, <1>b, SetterTypes
      <4>3. SetIdentity(SetIsLogged(session, fd, TRUE), fd, u) \in [Conns -> Session]
        BY <1>0, <1>b, <4>2, SetterTypes
      <4> QED BY <1>0, <3>1, <4>1, <4>3, SetterTypes
    <3>2. SetIsLogged(session, fd, FALSE) \in [Conns -> Session]
      BY <1>0, <1>b, SetterTypes
    <3> QED BY <1>1, <1>b, <3>1, <3>2 DEF Login
  <2> QED BY <1>1, <1>c, <2>1, <2>2, HandlerFrame
          DEF Login, TypeOK, dbVars, authVars, DatabaseTypeOK
<1>2. ASSUME NEW u \in UserNames, NEW p \in Passwords, Register(fd, u, p)
      PROVE  TypeOK'
  <2>1. out' \subseteq Message
    <3>1. Reply(fd, [type |-> "REGISTER_RESP", name |-> u]) => out' \subseteq Message
      BY <1>0, ReplyType, CommandTypes
    <3> QED BY <1>2, <1>a, <3>1 DEF Register
  <2>2. DatabaseTypeOK'
    BY <1>2 DEF Register, CreateUser, TypeOK, DatabaseTypeOK, dbVars
  <2> QED BY <1>2, <2>1, <2>2, HandlerFrame DEF Register, TypeOK, authVars
<1>3. CASE LogoutRequest(fd)
  <2>1. out' \subseteq Message
    BY <1>3, <1>a DEF LogoutRequest
  <2>2. session' \in [Conns -> Session]
    BY <1>0, <1>3, <1>b, SetterTypes DEF LogoutRequest
  <2> QED BY <1>3, <1>c, <2>1, <2>2, HandlerFrame
          DEF LogoutRequest, TypeOK, dbVars, authVars, DatabaseTypeOK
<1> QED BY <1>1, <1>2, <1>3

\* Requesting, leaving and checking codes keep the types.
LEMMA CodesTypeOK ==
  ASSUME TypeOK, NEW fd \in Fds,
         \/ RequestCode(fd) \/ ExitSCS(fd)
         \/ \E code \in Keys \cup {None}, d \in DNames \cup {NoName} :
                ValidateCode(fd, code, d)
  PROVE  TypeOK'
<1>0. /\ Open(fd) /\ SessionTypeOK /\ m_client_sockets \in [Fds -> Conns \cup {None}]
      /\ session \in [Conns -> Session]
  BY ReadingFacts DEF RequestCode, ExitSCS, ValidateCode, FromAC, FromDS, Merged, TypeOK
<1>1. CASE RequestCode(fd)
  <2>1. session' \in [Conns -> Session]
    BY <1>0, <1>1, SetterTypes DEF RequestCode
  <2>2. out' \subseteq Message
    <3> DEFINE s == session'[m_sessions[fd]]
    <3>1. CASE ~(Known(fd) /\ CanReceiveCode(s))
      BY <1>1, <3>1 DEF RequestCode
    <3>2. CASE Known(fd) /\ CanReceiveCode(s)
      <4>1. Reply(fd, CodeResp(s.secret_pairs))
        BY <1>1, <3>2 DEF RequestCode
      <4>2. s.secret_pairs \in SecretMap
        <5>1. s \in Session
          BY <1>0, <2>1, <3>2, KnownIsConn
        <5> QED BY <5>1 DEF Session
      <4> QED BY <1>0, <4>1, <4>2, ReplyType, CommandTypes
    <3> QED BY <3>1, <3>2
  <2> QED BY <1>1, <2>1, <2>2, HandlerFrame
          DEF RequestCode, TypeOK, dbVars, authVars, DatabaseTypeOK
<1>2. CASE ExitSCS(fd)
  <2>1. session' \in [Conns -> Session]
    BY <1>0, <1>2, SetterTypes DEF ExitSCS
  <2> QED BY <1>2, <2>1, HandlerFrame
          DEF ExitSCS, TypeOK, dbVars, authVars, DatabaseTypeOK
<1>3. ASSUME NEW code, NEW d \in DNames \cup {NoName}, ValidateCode(fd, code, d)
      PROVE  TypeOK'
  <2>0. PICK app \in AppIds :
          Reply(fd, [type |-> "VALIDATE_RESP_SERVER",
                     resp |-> RowOf(d, app) # None /\ pairs[<<d, app>>].totp_secret = code,
                     d_username |-> d, app_id |-> app])
    BY <1>3 DEF ValidateCode
  <2> DEFINE ok == RowOf(d, app) # None /\ pairs[<<d, app>>].totp_secret = code
  <2>1. app \in Apps
    BY <2>0 DEF Apps
  <2>2. [type |-> "VALIDATE_RESP_SERVER", resp |-> ok,
         d_username |-> d, app_id |-> app] \in Command
    <3>1. ok \in BOOLEAN
      OBVIOUS
    <3> HIDE DEF ok
    <3> QED BY <2>1, <3>1 DEF Command
  <2>3. Reply(fd, [type |-> "VALIDATE_RESP_SERVER", resp |-> ok,
                   d_username |-> d, app_id |-> app])
    BY <2>0
  <2>4. out' \subseteq Message
    <3> HIDE DEF ok
    <3> QED BY <1>0, <2>2, <2>3, ReplyType
  <2> QED BY <1>3, <2>4, HandlerFrame
          DEF ValidateCode, TypeOK, dbVars, authVars, DatabaseTypeOK
<1> QED BY <1>1, <1>2, <1>3

\* A pairing is stored under the identity its handler reads.
LEMMA AppOfSession ==
  ASSUME TypeOK, m_sessions = m_client_sockets, NEW fd, Reading(fd)
  PROVE  GetIdentity(fd) \in Apps
<1>1. m_client_sockets[fd] \in Conns /\ fd \in Fds /\ m_client_sockets[fd] # None
  BY ReadingFacts DEF Open
<1>2. GetIdentity(fd) = session[m_client_sockets[fd]].identity
  BY <1>1 DEF GetIdentity, Known
<1>3. session[m_client_sockets[fd]].identity \in Apps
  BY <1>1 DEF TypeOK, Session, Names, Apps
<1> QED BY <1>2, <1>3

\* Both steps of a pairing keep the types.
LEMMA PairingTypeOK ==
  ASSUME TypeOK, m_sessions = m_client_sockets,
         NEW fd \in Fds,
         \/ \E d \in DNames : PairRequest(fd, d)
         \/ \E t \in Keys : FinishPairing(fd, t)
  PROVE  TypeOK'
<1>0. /\ Open(fd) /\ SessionTypeOK /\ m_client_sockets \in [Fds -> Conns \cup {None}]
      /\ session \in [Conns -> Session]
      /\ m_client_sockets[fd] \in Conns
  BY ReadingFacts DEF PairRequest, FinishPairing, FromAC, FromDS, Merged, TypeOK
<1>1. ASSUME NEW d \in DNames, PairRequest(fd, d)
      PROVE  TypeOK'
  <2> DEFINE app == GetIdentity(fd)
  <2>1. CASE IsPending(d, app) /\ UNCHANGED authVars /\ Reply(fd, PairResp(None, d))
    <3>1. out' \subseteq Message
      BY <1>0, <2>1, ReplyType, CommandTypes
    <3> QED BY <1>1, <2>1, <3>1, HandlerFrame
            DEF PairRequest, TypeOK, dbVars, authVars, DatabaseTypeOK
  <2>2. ASSUME NEW k \in Keys \ drawn,
               m_pending_pairings' = [m_pending_pairings EXCEPT
                   ![k] = [d_username |-> d, app_id |-> app]],
               drawn' = drawn \cup {k},
               Reply(fd, PairResp(k, d)),
               UNCHANGED m_pending_notifications
        PROVE  TypeOK'
    <3>1. out' \subseteq Message
      BY <1>0, <2>2, ReplyType, CommandTypes
    <3>2. [d_username |-> d, app_id |-> app] \in Pending
      BY <1>1, AppOfSession DEF PairRequest, Pending, FromDS, Merged
    <3>3. m_pending_pairings' \in [Keys -> Pending \cup {None}]
      <4> HIDE DEF app
      <4> QED BY <2>2, <3>2 DEF TypeOK
    <3>4. drawn' \subseteq Keys \cup ReqIDs
      BY <2>2 DEF TypeOK
    <3> QED BY <1>1, <2>2, <3>1, <3>3, <3>4, HandlerFrame
            DEF PairRequest, TypeOK, dbVars, DatabaseTypeOK
  <2> QED BY <1>1, <2>1, <2>2 DEF PairRequest
<1>2. ASSUME NEW t \in Keys, FinishPairing(fd, t)
      PROVE  TypeOK'
  <2> DEFINE d0 == m_pending_pairings[t].d_username
             app == m_pending_pairings[t].app_id
             a == GetIdentity(fd)
             c == m_sessions[fd]
  <2>1. d0 \in DNames /\ app \in Apps
    BY <1>2 DEF FinishPairing, TypeOK, Pending
  <2>2. c \in Conns /\ session[c] \in Session /\ m_pending_pairings' \in [Keys -> Pending \cup {None}]
    BY <1>0, <1>2 DEF FinishPairing, ErasePairing, TypeOK
  <2>3. DatabaseTypeOK'
    <3>1. CASE PairUser(a, d0, app, t)
      <4>1. CanPair(a, d0, app) => [a_username |-> a, totp_secret |-> t] \in Pair
        BY DEF CanPair, Registered, Pair
      <4>2. pairs' \in [DNames \X Apps -> Pair \cup {None}]
        <5> HIDE DEF a, d0, app
        <5> QED BY <2>1, <3>1, <4>1 DEF PairUser, TypeOK, DatabaseTypeOK
      <4> QED BY <3>1, <4>2 DEF PairUser, TypeOK, DatabaseTypeOK
    <3>2. CASE UNCHANGED dbVars
      BY <3>2 DEF dbVars, TypeOK, DatabaseTypeOK
    <3> QED BY <1>2, <3>1, <3>2 DEF FinishPairing
  <2>4. session' \in [Conns -> Session]
    <3>1. InsertSecret(session, fd, app, t) \in [Conns -> Session]
      <4>1. [session[c] EXCEPT !.secret_pairs =
                 [session[c].secret_pairs EXCEPT ![app] = t]] \in Session
        <5> HIDE DEF app, c
        <5> QED BY <2>1, <2>2 DEF Session, SecretMap
      <4> QED BY <1>0, <2>2, <4>1 DEF InsertSecret
    <3> QED BY <1>0, <1>2, <3>1 DEF FinishPairing
  <2>5. /\ totp' \in Thread
        /\ totp'.pc \in {"format", "send"} => totp'.cur \in Conns
    <3>1. WritesPairs(fd) \/ UNCHANGED totp
      BY <1>2 DEF FinishPairing
    <3> QED BY <3>1, WritesPairsType DEF TypeOK
  <2>6. up' \in {"up", "segv_insert", "segv_race"}
    BY <1>2 DEF FinishPairing, TypeOK
  <2> QED BY <1>2, <2>2, <2>3, <2>4, <2>5, <2>6, HandlerFrame DEF FinishPairing, TypeOK
<1> QED BY <1>1, <1>2

\* Both steps of a notification keep the types.
LEMMA NotificationsTypeOK ==
  ASSUME TypeOK, NEW fd \in Fds,
         \/ \E d \in DNames : RequestNotification(fd, d)
         \/ \E r \in ReqIDs, b \in BOOLEAN : NotifResponse(fd, r, b)
  PROVE  TypeOK'
<1>0. /\ SessionTypeOK /\ m_client_sockets \in [Fds -> Conns \cup {None}]
      /\ m_client_sockets[fd] \in Conns
  BY ReadingFacts DEF RequestNotification, NotifResponse, FromAC, FromDS, Merged, TypeOK
<1>1. ASSUME NEW d \in DNames, RequestNotification(fd, d)
      PROVE  TypeOK'
  <2>0. PICK app \in Apps, ac_fd \in Fds, q \in ReqIDs \ drawn :
          /\ IsIDFromUsername(ac_fd, pairs[<<d, app>>].a_username)
          /\ m_pending_notifications' = [m_pending_notifications EXCEPT ![q] =
                 [d_username |-> d, app_id |-> app, ds_fd |-> fd,
                  ds_conn |-> m_client_sockets[fd]]]
          /\ drawn' = drawn \cup {q}
          /\ out' = SendCommand(ac_fd, m_sessions[ac_fd],
                        [type |-> "SEND_NOTIF", reqID |-> q, app_id |-> app])
    BY <1>1 DEF RequestNotification
  <2> DEFINE n == [d_username |-> d, app_id |-> app, ds_fd |-> fd,
                   ds_conn |-> m_client_sockets[fd]]
             Cmd == [type |-> "SEND_NOTIF", reqID |-> q, app_id |-> app]
  <2>1. /\ IsIDFromUsername(ac_fd, pairs[<<d, app>>].a_username)
        /\ m_pending_notifications' = [m_pending_notifications EXCEPT ![q] = n]
        /\ drawn' = drawn \cup {q}
        /\ out' = SendCommand(ac_fd, m_sessions[ac_fd], Cmd)
    BY <2>0
  <2>2. app \in Apps
    OBVIOUS
  <2>3. m_sessions[ac_fd] \in Conns
    <3>1. ac_fd # -1
      BY SessionAssumption
    <3>2. Known(ac_fd)
      BY <2>1, <3>1 DEF IsIDFromUsername
    <3> QED BY <1>0, <3>2, KnownIsConn
  <2>4. out' \subseteq Message
    <3>1. Cmd \in Command
      BY <2>2 DEF Command
    <3> HIDE DEF Cmd
    <3> QED BY <1>0, <2>1, <2>3, <3>1, SendCommandType
  <2>5. m_pending_notifications' \in [ReqIDs -> Notification \cup {None}]
    <3>1. n \in Notification
      BY <1>0, <2>2 DEF Notification
    <3> HIDE DEF n
    <3> QED BY <2>1, <3>1 DEF TypeOK
  <2>6. drawn' \subseteq Keys \cup ReqIDs
    BY <2>1 DEF TypeOK
  <2> QED BY <1>1, <2>4, <2>5, <2>6, HandlerFrame
          DEF RequestNotification, TypeOK, dbVars, DatabaseTypeOK
<1>2. ASSUME NEW r \in ReqIDs, NEW b \in BOOLEAN, NotifResponse(fd, r, b)
      PROVE  TypeOK'
  <2> DEFINE n == m_pending_notifications[r]
             cmd == [type |-> "NOTIF_LOGIN_RESP", resp |-> b, reqID |-> r,
                     d_username |-> n.d_username]
  <2>1. n.d_username \in DNames /\ n.ds_conn \in Conns
    BY <1>2 DEF NotifResponse, TypeOK, Notification
  <2>2. out' \subseteq Message
    <3>1. cmd \in Command
      <4> HIDE DEF n
      <4> QED BY <2>1 DEF Command
    <3>2. out' = SendCommand(n.ds_fd, n.ds_conn, cmd)
      BY <1>2 DEF NotifResponse
    <3> HIDE DEF cmd, n
    <3> QED BY <1>0, <2>1, <3>1, <3>2, SendCommandType
  <2>3. m_pending_notifications' \in [ReqIDs -> Notification \cup {None}]
    BY <1>2 DEF NotifResponse, EraseNotification, TypeOK
  <2> QED BY <1>2, <2>2, <2>3, HandlerFrame
          DEF NotifResponse, TypeOK, dbVars, DatabaseTypeOK
<1> QED BY <1>1, <1>2

\* The TOTP thread changes its own record, sends, or dies.
LEMMA ThreadTypeOK ==
  ASSUME TypeOK, TOTPThread
  PROVE  TypeOK'
<1> USE DEF connVars, dbVars, authVars
<1>0. totp \in Thread /\ session \in [Conns -> Session] /\ {} \subseteq Message
  BY DEF TypeOK
<1>1. CASE Wake
  <2>1. GetActiveSessions \subseteq Conns
    BY DEF GetActiveSessions, Known, TypeOK
  <2>2. totp' \in Thread /\ totp'.pc = "check"
    BY <1>0, <1>1, <2>1 DEF Wake, Thread
  <2> QED BY <1>1, <2>2 DEF Wake, TypeOK, DatabaseTypeOK
<1>2. ASSUME NEW c \in Conns, Check(c)
      PROVE  TypeOK'
  <2>1. session[c].secret_pairs \in SecretMap
    BY <1>0 DEF Session
  <2>2. totp' \in Thread /\ (totp'.pc \in {"format", "send"} => totp'.cur \in Conns)
    BY <1>0, <1>2, <2>1 DEF Check, Thread
  <2> QED BY <1>2, <2>2 DEF Check, TypeOK, DatabaseTypeOK
<1>3. CASE Format
  <2>1. totp.cur \in Conns /\ session[totp.cur].id \in Fds \cup {-1}
    BY <1>0, <1>3 DEF Format, TypeOK, Session
  <2>2. totp' \in Thread /\ (totp'.pc \in {"format", "send"} => totp'.cur \in Conns)
    BY <1>0, <1>3, <2>1 DEF Format, Thread
  <2>3. up' \in {"up", "segv_insert", "segv_race"}
    BY <1>3 DEF Format, TypeOK
  <2> QED BY <1>3, <2>2, <2>3 DEF Format, TypeOK, DatabaseTypeOK
<1>4. CASE Send
  <2>1. totp' \in Thread /\ totp'.pc = "check"
    BY <1>0, <1>4, IdleType DEF Send, Thread, Idle
  <2>2. CodeResp(totp.codes) \in Command
    BY <1>0, CommandTypes DEF Thread
  <2>3. totp.cur \in Conns
    BY <1>4 DEF Send, TypeOK
  <2>4. out' \subseteq Message
    BY <1>4, <2>2, <2>3, SendCommandType DEF Send, TypeOK
  <2> QED BY <1>4, <2>1, <2>4 DEF Send, TypeOK, DatabaseTypeOK
<1>5. CASE PassDone
  BY <1>5, IdleType DEF PassDone, Idle, TypeOK, DatabaseTypeOK
<1> QED BY <1>1, <1>2, <1>3, <1>4, <1>5 DEF TOTPThread

\* A restart keeps the types.
LEMMA RestartTypeOK ==
  ASSUME TypeOK, Restart
  PROVE  TypeOK'
BY SessionValues, IdleType DEF Restart, EmptyMemory, TypeOK, Idle, dbVars, DatabaseTypeOK

-----------------------------------------------------------------------------
\* The connection table, the session table and the objects

\* What a command handler does to the sessions: it leaves the tables and every
\* other session alone, keeps its own session's descriptor and validity, and
\* gives it a new identity only together with a built map.
HandlerKeeps(fd) ==
    /\ UNCHANGED connVars
    /\ \A x \in Conns : /\ session'[x].id = session[x].id
                        /\ session'[x].isValid = session[x].isValid
                        /\ x # m_sessions[fd] => session'[x] = session[x]

HandlerNames(fd) ==
    LET old == session[m_sessions[fd]]  new == session'[m_sessions[fd]] IN
    \/ new.identity = old.identity /\ (old.built => new.built)
    \/ new.identity \in UserNames /\ new.built

\* A Dummy Server's message changes no session and no connection.
LEMMA DummyServerFrame ==
  ASSUME NEW fd \in Fds, FromDummyServer(fd)
  PROVE  UNCHANGED <<connVars, session>> /\ Reading(fd)
BY DEF FromDummyServer, PairRequest, RequestNotification, ValidateCode, FromDS, Merged

\* An Auth Client's message changes its own session only, and its name by a
\* login only; the one of them another peer's may run into changes none.
LEMMA AuthClientFrame ==
  ASSUME TypeOK, TablesAgree, NEW fd \in Fds, FromAuthClient(fd)
  PROVE  /\ Reading(fd) /\ HandlerKeeps(fd) /\ HandlerNames(fd)
         /\ FromAC(fd) \/ UNCHANGED session
<1> DEFINE c == m_sessions[fd]
<1>a. Reading(fd) /\ (FromAC(fd) \/ UNCHANGED session)
  BY DEF FromAuthClient, Login, Register, LogoutRequest, RequestCode, ExitSCS,
         FinishPairing, NotifResponse, FromAC, Merged
<1>b. SessionTypeOK /\ Known(fd) /\ c \in Conns /\ session \in [Conns -> Session]
  BY <1>a, ReadingFacts DEF TablesAgree, Known, Open, TypeOK
<1>c. ASSUME UNCHANGED <<connVars, session>>
      PROVE  HandlerKeeps(fd) /\ HandlerNames(fd)
  BY <1>c DEF HandlerKeeps, HandlerNames, connVars
<1>1. ASSUME NEW u \in UserNames, NEW p \in Passwords, Login(fd, u, p)
      PROVE  HandlerKeeps(fd) /\ HandlerNames(fd)
  <2>1. UNCHANGED connVars
    BY <1>1 DEF Login
  <2>2. ASSUME NEW m \in SecretPairings(u),
               session' = SetSecretPairings(
                   SetIdentity(SetIsLogged(session, fd, TRUE), fd, u), fd, m)
        PROVE  HandlerKeeps(fd) /\ HandlerNames(fd)
    <3> DEFINE s1 == SetIsLogged(session, fd, TRUE)
               s2 == SetIdentity(s1, fd, u)
    <3>1. m \in SecretMap /\ u \in Names
      BY DEF SecretPairings, Names
    <3>2. s1 \in [Conns -> Session]
      BY <1>b, SetterTypes
    <3>3. s2 \in [Conns -> Session]
      BY <1>b, <3>1, <3>2, SetterTypes
    <3>4. session' = SetSecretPairings(s2, fd, m)
      BY <2>2
    <3>5. /\ \A x \in Conns : s1[x].id = session[x].id /\ s1[x].isValid = session[x].isValid
          /\ \A x \in Conns : x # c => s1[x] = session[x]
      <4>1. \E b \in BOOLEAN : s1 = SetIsLogged(session, fd, b)
        OBVIOUS
      <4> HIDE DEF s1
      <4> QED BY <1>b, <4>1, SetterFrame
    <3> HIDE DEF s1
    <3>6. /\ \A x \in Conns : s2[x].id = s1[x].id /\ s2[x].isValid = s1[x].isValid
          /\ \A x \in Conns : x # c => s2[x] = s1[x]
      BY <1>b, <3>1, <3>2, SetterFrame
    <3>7. s2[c].identity = u
      BY <1>b, <3>1, <3>2, SetterFields
    <3> HIDE DEF s2
    <3>8. /\ \A x \in Conns : session'[x].id = s2[x].id /\ session'[x].isValid = s2[x].isValid
          /\ \A x \in Conns : x # c => session'[x] = s2[x]
      BY <1>b, <3>1, <3>3, <3>4, SetterFrame
    <3>9. session'[c].identity = u /\ session'[c].built
      BY <1>b, <3>1, <3>3, <3>4, <3>7, SetterFields
    <3>10. HandlerKeeps(fd)
      BY <2>1, <3>5, <3>6, <3>8 DEF HandlerKeeps
    <3> QED BY <3>9, <3>10 DEF HandlerNames
  <2>3. CASE session' = SetIsLogged(session, fd, FALSE)
    <3>1. HandlerKeeps(fd)
      <4>1. \E b \in BOOLEAN : session' = SetIsLogged(session, fd, b)
        BY <2>3
      <4> QED BY <1>b, <2>1, <4>1, SetterFrame DEF HandlerKeeps
    <3>2. HandlerNames(fd)
      BY <1>b, <2>3, SetterFields DEF HandlerNames
    <3> QED BY <3>1, <3>2
  <2> QED BY <1>1, <1>c, <2>1, <2>2, <2>3 DEF Login
<1>2. ASSUME NEW u \in UserNames, NEW p \in Passwords, Register(fd, u, p)
      PROVE  HandlerKeeps(fd) /\ HandlerNames(fd)
  BY <1>2, <1>c DEF Register
<1>3. ASSUME LogoutRequest(fd)
      PROVE  HandlerKeeps(fd) /\ HandlerNames(fd)
  <2>1. CASE session' = Logout(session, fd)
    <3>1. HandlerKeeps(fd)
      BY <1>b, <1>3, <2>1, SetterFrame DEF HandlerKeeps, LogoutRequest
    <3>2. HandlerNames(fd)
      BY <1>b, <2>1, SetterFields DEF HandlerNames
    <3> QED BY <3>1, <3>2
  <2> QED BY <1>3, <1>c, <2>1 DEF LogoutRequest
<1>4. ASSUME NEW b \in BOOLEAN, session' = SetIsInCodeState(session, fd, b), UNCHANGED connVars
      PROVE  HandlerKeeps(fd) /\ HandlerNames(fd)
  <2>1. HandlerKeeps(fd)
    BY <1>b, <1>4, SetterFrame DEF HandlerKeeps
  <2>2. HandlerNames(fd)
    BY <1>b, <1>4, SetterFields DEF HandlerNames
  <2> QED BY <2>1, <2>2
<1>5. ASSUME NEW t \in Keys, FinishPairing(fd, t)
      PROVE  HandlerKeeps(fd) /\ HandlerNames(fd)
  <2> DEFINE app == m_pending_pairings[t].app_id
  <2>1. app \in Apps /\ UNCHANGED connVars
    BY <1>5 DEF FinishPairing, TypeOK, Pending
  <2>2. session' = InsertSecret(session, fd, app, t) \/ session' = session
    BY <1>5 DEF FinishPairing
  <2>3. CASE session' = InsertSecret(session, fd, app, t)
    <3> HIDE DEF app
    <3>1. HandlerKeeps(fd)
      BY <1>b, <2>1, <2>3, SetterFrame DEF HandlerKeeps
    <3>2. HandlerNames(fd)
      BY <1>b, <2>1, <2>3, SetterFields DEF HandlerNames
    <3> QED BY <3>1, <3>2
  <2> QED BY <1>c, <2>1, <2>2, <2>3
<1>6. ASSUME NEW r \in ReqIDs, NEW b \in BOOLEAN, NotifResponse(fd, r, b)
      PROVE  HandlerKeeps(fd) /\ HandlerNames(fd)
  BY <1>6, <1>c DEF NotifResponse
<1>7. RequestCode(fd) \/ ExitSCS(fd) => HandlerKeeps(fd) /\ HandlerNames(fd)
  BY <1>4 DEF RequestCode, ExitSCS
<1> QED BY <1>a, <1>1, <1>2, <1>3, <1>5, <1>6, <1>7 DEF FromAuthClient

-----------------------------------------------------------------------------
\* The inductive invariant.  TypeOK needs TablesAgree (the handler a reply
\* speaks of has a session), and so does SessionsMatchPeers (a session a
\* descriptor leads to is that of the peer behind it).

IInv == TypeOK /\ TablesAgree /\ SessionsMatchPeers

\* The invariant holds of a server that starts.
LEMMA InitIInv == Init => IInv
<1> SUFFICES ASSUME Init PROVE IInv
  OBVIOUS
<1>1. TypeOK
  BY InitTypeOK
<1>2. TablesAgree
  BY EmptyTablesAgree DEF Init
<1>3. SessionsMatchPeers
  <2>1. \A c \in Conns : peer[c] = None
    BY DEF Init
  <2> QED BY <2>1, SessionAssumption, AuthServerAssumption DEF SessionsMatchPeers
<1> QED BY <1>1, <1>2, <1>3 DEF IInv

\* Every step keeps the types.
LEMMA IInvTypeStep == IInv /\ [Next]_vars => TypeOK'
<1> SUFFICES ASSUME IInv, [Next]_vars PROVE TypeOK'
  OBVIOUS
<1>0. TypeOK /\ SessionsMatchPeers /\ m_sessions = m_client_sockets
  BY DEF IInv, TablesAgree
<1>1. ASSUME NEW c \in Conns, NEW p \in Peers, Accept(c, p)
      PROVE  TypeOK'
  <2>1. \E f \in Fds : ~Open(f)
    BY <1>1 DEF Accept, HandleConnection
  <2> QED BY <1>0, <1>1, <2>1, ConnectionTypeOK
<1>2. ASSUME NEW fd \in Fds, Disconnect(fd) \/ Handshake(fd) \/ LoseHandshake(fd)
      PROVE  TypeOK'
  BY <1>0, <1>2, ConnectionTypeOK
<1>3. ASSUME NEW fd \in Fds, FromAuthClient(fd)
      PROVE  TypeOK'
  <2>1. ASSUME NEW u \in UserNames, NEW p \in Passwords, Login(fd, u, p) \/ Register(fd, u, p)
        PROVE  TypeOK'
    BY <1>0, <2>1, CredentialsTypeOK
  <2>2. CASE LogoutRequest(fd)
    BY <1>0, <2>2, CredentialsTypeOK
  <2>3. CASE RequestCode(fd) \/ ExitSCS(fd)
    BY <1>0, <2>3, CodesTypeOK
  <2>4. ASSUME NEW t \in Keys, FinishPairing(fd, t)
        PROVE  TypeOK'
    BY <1>0, <2>4, PairingTypeOK
  <2>5. ASSUME NEW r \in ReqIDs, NEW b \in BOOLEAN, NotifResponse(fd, r, b)
        PROVE  TypeOK'
    BY <1>0, <2>5, NotificationsTypeOK
  <2> QED BY <1>3, <2>1, <2>2, <2>3, <2>4, <2>5 DEF FromAuthClient
<1>4. ASSUME NEW fd \in Fds, FromDummyServer(fd)
      PROVE  TypeOK'
  BY <1>0, <1>4, CodesTypeOK, PairingTypeOK, NotificationsTypeOK DEF FromDummyServer
<1>5. CASE Restart
  BY <1>0, <1>5, RestartTypeOK
<1>6. CASE TOTPThread
  BY <1>0, <1>6, ThreadTypeOK
<1>7. CASE UNCHANGED vars
  BY <1>0, <1>7 DEF vars, connVars, dbVars, authVars, TypeOK, DatabaseTypeOK
<1> QED BY <1>1, <1>2, <1>3, <1>4, <1>5, <1>6, <1>7 DEF Next, MainThread

\* Every step keeps the agreement of the tables.
LEMMA IInvTablesStep == IInv /\ [Next]_vars => TablesAgree'
<1> SUFFICES ASSUME IInv, [Next]_vars PROVE TablesAgree'
  OBVIOUS
<1>0. TypeOK /\ TablesAgree /\ SessionTypeOK /\ TablesTypeOK
  BY DEF IInv, TypeOK, SessionTypeOK, TablesTypeOK
<1>1. ASSUME NEW c \in Conns, NEW p \in Peers, Accept(c, p)
      PROVE  TablesAgree'
  <2>1. \A g \in Fds : m_client_sockets[g] # c
    BY <1>0, <1>1, SessionAssumption DEF Accept, TypeOK
  <2> QED BY <1>0, <1>1, <2>1, ConnectionKeepsTables DEF Accept
<1>2. ASSUME NEW fd \in Fds, Disconnect(fd)
      PROVE  TablesAgree'
  BY <1>0, <1>2, CloseKeepsTables DEF Disconnect
<1>3. ASSUME NEW fd \in Fds, Handshake(fd)
      PROVE  TablesAgree'
  <2>1. Known(fd) /\ session \in [Conns -> Session]
    BY <1>0, <1>3 DEF Handshake, Open, Known, TablesAgree, SessionTypeOK
  <2>2. \E type \in EntityTypes, app \in Apps :
          session' = HandleHandshake(session, fd, type, app)
    <3>1. peer[m_client_sockets[fd]] \in Peers
      BY <1>0, <1>3 DEF Handshake, Open, TypeOK
    <3> QED BY <1>3, <3>1 DEF Handshake, Peers, Apps, EntityTypes
  <2> QED BY <1>0, <1>3, <2>1, <2>2, SetterFrame, TablesFrame DEF Handshake
<1>4. ASSUME NEW fd \in Fds, FromAuthClient(fd)
      PROVE  TablesAgree'
  BY <1>0, <1>4, AuthClientFrame, TablesFrame DEF HandlerKeeps, connVars
<1>5. ASSUME NEW fd \in Fds, LoseHandshake(fd) \/ FromDummyServer(fd)
      PROVE  TablesAgree'
  <2>1. CASE UNCHANGED session
    BY <1>0, <1>5, <2>1, DummyServerFrame, TablesFrame DEF LoseHandshake, connVars
  <2>2. ASSUME NEW app \in AppIds, LoseHandshake(fd),
               session' = HandleHandshake(session, fd, "DUMMY_SERVER", app)
        PROVE  TablesAgree'
    <3>1. Known(fd) /\ session \in [Conns -> Session]
      BY <1>0, <2>2 DEF LoseHandshake, Open, Known, TablesAgree, SessionTypeOK
    <3>2. "DUMMY_SERVER" \in EntityTypes /\ app \in Apps
      BY DEF EntityTypes, Apps
    <3> QED BY <1>0, <2>2, <3>1, <3>2, SetterFrame, TablesFrame DEF LoseHandshake
  <2> QED BY <1>5, <2>1, <2>2, DummyServerFrame DEF LoseHandshake
<1>6. CASE Restart
  BY <1>6, NewTablesAgree DEF Restart, EmptyMemory
<1>7. CASE TOTPThread \/ UNCHANGED vars
  <2>1. UNCHANGED <<m_client_sockets, m_sessions, session>>
    BY <1>7 DEF TOTPThread, Wake, Check, Format, Send, PassDone, vars, connVars
  <2> QED BY <1>0, <2>1, TablesFrame
<1> QED BY <1>1, <1>2, <1>3, <1>4, <1>5, <1>6, <1>7 DEF Next, MainThread

\* Every step keeps sessions fitting their peers.
LEMMA IInvPeersStep == IInv /\ [Next]_vars => SessionsMatchPeers'
<1> SUFFICES ASSUME IInv, [Next]_vars PROVE SessionsMatchPeers'
  OBVIOUS
<1>0. /\ TypeOK /\ TablesAgree /\ SessionsMatchPeers /\ SessionTypeOK
      /\ session \in [Conns -> Session] /\ peer \in [Conns -> Peers \cup {None}]
  BY DEF IInv, TypeOK, SessionTypeOK
<1>1. ASSUME NEW c \in Conns, NEW p \in Peers, Accept(c, p)
      PROVE  SessionsMatchPeers'
  <2>1. PICK fd \in Fds : session' = [session EXCEPT ![c] = NewSession(fd)]
    BY <1>1 DEF Accept, HandleConnection, AddSession
  <2>2. NewSession(fd).identity = NoName
    BY DEF NewSession
  <2>3. peer' = [peer EXCEPT ![c] = p]
    BY <1>1 DEF Accept, HandleConnection
  <2> QED BY <1>0, <2>1, <2>2, <2>3 DEF SessionsMatchPeers, Apps
<1>2. ASSUME NEW fd \in Fds, Disconnect(fd)
      PROVE  SessionsMatchPeers'
  <2>1. peer' = peer
    BY <1>2 DEF Disconnect, HandleClose
  <2>2. \A x \in Conns : /\ session'[x].identity = session[x].identity
                        /\ session'[x].built = session[x].built
    <3>1. CASE Known(fd)
      <4>1. m_sessions[fd] \in Conns /\ session[m_sessions[fd]] \in Session
        BY <1>0, <3>1, KnownIsConn
      <4>2. session' = [session EXCEPT ![m_sessions[fd]] =
                           [@ EXCEPT !.isValid = FALSE, !.id = -1]]
        BY <1>2, <3>1 DEF Disconnect, HandleClose, RemoveSession
      <4> QED BY <1>0, <4>1, <4>2 DEF Session
    <3>2. CASE ~Known(fd)
      BY <1>2, <3>2 DEF Disconnect, HandleClose, RemoveSession
    <3> QED BY <3>1, <3>2
  <2> QED BY <1>0, <2>1, <2>2 DEF SessionsMatchPeers
<1>3. ASSUME NEW fd \in Fds, Handshake(fd) \/ LoseHandshake(fd)
      PROVE  SessionsMatchPeers'
  <2>1. PICK c \in Conns : /\ m_client_sockets[fd] = c /\ m_sessions[fd] = c
                           /\ Known(fd) /\ peer[c] \in Peers
    BY <1>0, <1>3 DEF Handshake, LoseHandshake, Open, Known, TablesAgree, TypeOK
  <2>2. session[c] \in Session
    BY <1>0
  <2>3. peer' = peer
    BY <1>3 DEF Handshake, LoseHandshake
  <2>4. CASE session' = session
    BY <1>0, <2>3, <2>4 DEF SessionsMatchPeers
  <2>5. ASSUME NEW type \in EntityTypes, NEW app \in AppIds \cup {NoName},
               session' = [session EXCEPT ![c] =
                   [@ EXCEPT !.type = type,
                             !.identity = IF type = "DUMMY_SERVER" THEN app
                                          ELSE session[c].identity]],
               type = "DUMMY_SERVER" => peer[c] # AC
        PROVE  SessionsMatchPeers'
    <3>1. /\ \/ session'[c].identity = session[c].identity
             \/ session'[c].identity \in AppIds \cup {NoName} /\ peer[c] # AC
          /\ session'[c].built = session[c].built
      BY <1>0, <2>2, <2>5 DEF Session
    <3>2. \A x \in Conns : x # c => session'[x] = session[x]
      BY <1>0, <2>5
    <3> QED BY <1>0, <2>3, <3>1, <3>2 DEF SessionsMatchPeers
  <2>6. CASE Handshake(fd) /\ peer[c] = AC
    <3>1. session' = HandleHandshake(session, fd, "AUTH_CLIENT", NoName)
      BY <2>1, <2>6 DEF Handshake
    <3> QED BY <2>1, <2>4, <2>5, <3>1 DEF HandleHandshake, EntityTypes
  <2>7. CASE Handshake(fd) /\ peer[c] # AC
    <3>1. session' = HandleHandshake(session, fd, "DUMMY_SERVER", peer[c])
      BY <2>1, <2>7 DEF Handshake
    <3> QED BY <2>1, <2>4, <2>5, <2>7, <3>1 DEF HandleHandshake, EntityTypes, Peers
  <2>8. CASE LoseHandshake(fd)
    <3>1. ASSUME NEW app \in AppIds, peer[c] # AC,
                 session' = HandleHandshake(session, fd, "DUMMY_SERVER", app)
          PROVE  SessionsMatchPeers'
      BY <2>1, <2>4, <2>5, <3>1 DEF HandleHandshake, EntityTypes
    <3> QED BY <2>1, <2>4, <2>8, <3>1 DEF LoseHandshake
  <2> QED BY <1>3, <2>6, <2>7, <2>8
<1>4. ASSUME NEW fd \in Fds, FromAuthClient(fd)
      PROVE  SessionsMatchPeers'
  <2>1. /\ HandlerKeeps(fd) /\ HandlerNames(fd)
        /\ FromAC(fd) \/ UNCHANGED session
    BY <1>0, <1>4, AuthClientFrame
  <2>5. CASE UNCHANGED session
    BY <1>0, <2>1, <2>5 DEF HandlerKeeps, connVars, SessionsMatchPeers
  <2> SUFFICES ASSUME FromAC(fd) PROVE SessionsMatchPeers'
    BY <2>1, <2>5
  <2>2. PICK c \in Conns : m_sessions[fd] = c /\ peer[c] = AC
    BY <1>0, ReadingFacts DEF FromAC, TablesAgree
  <2>3. \/ session'[c].identity = session[c].identity
             /\ (session[c].built => session'[c].built)
        \/ session'[c].identity \in UserNames /\ session'[c].built
    BY <2>1, <2>2 DEF HandlerNames
  <2>4. peer' = peer /\ \A x \in Conns : x # c => session'[x] = session[x]
    BY <2>1, <2>2 DEF HandlerKeeps, connVars
  <2> QED BY <1>0, <2>2, <2>3, <2>4, AuthServerAssumption DEF SessionsMatchPeers
<1>5. ASSUME NEW fd \in Fds, FromDummyServer(fd)
      PROVE  SessionsMatchPeers'
  <2>1. UNCHANGED <<peer, session>>
    BY <1>5, DummyServerFrame DEF connVars
  <2> QED BY <1>0, <2>1 DEF SessionsMatchPeers
<1>6. CASE Restart
  <2>1. DeadSession.identity = NoName
    BY DEF DeadSession, NewSession
  <2> QED BY <1>6, <2>1 DEF Restart, EmptyMemory, SessionsMatchPeers, Apps
<1>7. CASE TOTPThread \/ UNCHANGED vars
  <2>1. UNCHANGED <<peer, session>>
    BY <1>7 DEF TOTPThread, Wake, Check, Format, Send, PassDone, vars, connVars
  <2> QED BY <1>0, <2>1 DEF SessionsMatchPeers
<1> QED BY <1>1, <1>2, <1>3, <1>4, <1>5, <1>6, <1>7 DEF Next, MainThread

-----------------------------------------------------------------------------
\* Theorems

\* The three invariants together are inductive.
THEOREM Inductive == Spec => []IInv
<1>1. IInv /\ [Next]_vars => IInv'
  BY IInvTypeStep, IInvTablesStep, IInvPeersStep DEF IInv
<1> QED BY InitIInv, <1>1, PTL DEF Spec

\* Type correctness: in particular every pending pairing is stored under an
\* identity, and everything sent goes to a connection.
THEOREM TypeCorrect == Spec => []TypeOK
<1>1. IInv => TypeOK
  BY DEF IInv
<1> QED BY Inductive, <1>1, PTL

\* A descriptor has a session exactly while its connection is open, and a
\* session knows its own descriptor exactly while it is alive.
THEOREM TablesAlwaysAgree == Spec => []TablesAgree
<1>1. IInv => TablesAgree
  BY DEF IInv
<1> QED BY Inductive, <1>1, PTL

\* A session carries a name of the kind its peer may have.
THEOREM SessionsAlwaysMatchPeers == Spec => []SessionsMatchPeers
<1>1. IInv => SessionsMatchPeers
  BY DEF IInv
<1> QED BY Inductive, <1>1, PTL

=============================================================================
