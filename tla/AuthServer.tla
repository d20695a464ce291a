----------------------------- MODULE AuthServer -----------------------------
(***************************************************************************)
(* The Auth Server of src/src/My2FA_Server with everything it links: the   *)
(* connection handler, the session table, the AuthManager, the database    *)
(* and the TOTP thread.                                                    *)
(*                                                                         *)
(* Two threads move.  The main thread runs ServerConnectionHandler::update *)
(* for ever: it accepts, or it reads one message from a connection and runs*)
(* that command's execute() to the end.  No other thread touches the main  *)
(* thread's state except through the table mutex and the handler mutex, so *)
(* a whole handler is one action.  The TOTP thread reads Session objects   *)
(* with no lock, so its pass is cut at every point where the main thread   *)
(* can get in between: it takes the list of viewing sessions, tests one,   *)
(* formats its codes and reads its descriptor, and sends.                  *)
(*                                                                         *)
(* The server may be stopped and started again at any time; what it keeps  *)
(* is the database.  Undefined behaviour that ends the process (up) leaves *)
(* only the restart.                                                       *)
(***************************************************************************)
EXTENDS Database, ServerConnections

CONSTANTS
    ReqIDs,     \* ids of notification requests
    AC,         \* the kind of peer that is an Auth Client
    Merging     \* bound: the peers whose messages may be read run together

Pending == [d_username : DNames, app_id : Apps]

\* ds_conn is not in the code: the connection ds_fd stood for at the request.
Notification ==
    [d_username : DNames, app_id : Apps, ds_fd : Fds, ds_conn : Conns]

\* m_generateToken and m_generateReqID draw at random and nothing in the code
\* tests for a repeat; here no value is drawn twice.
ASSUME AuthServerAssumption ==
    /\ AC \notin AppIds /\ AC # None /\ Merging \subseteq {AC} \cup AppIds
    /\ None \notin ReqIDs \cup Pending \cup Notification
    /\ Keys \cap ReqIDs = {}

VARIABLES
    up,                       \* "up", or how the process died
    peer,                     \* [Conns -> the program at the other end, or None]
    fresh,                    \* connections nothing was read from yet
    m_pending_pairings,       \* [Keys -> Pending \cup {None}], by token
    m_pending_notifications,  \* [ReqIDs -> Notification \cup {None}]
    drawn,                    \* tokens and request ids drawn so far
    totp,                     \* the TOTP thread
    out                       \* what the last step sent

connVars == <<m_client_sockets, peer, fresh, m_sessions>>
authVars == <<m_pending_pairings, m_pending_notifications, drawn>>
vars == <<up, connVars, session, dbVars, authVars, totp, out>>

Peers == {AC} \cup AppIds

Command ==
    [type : {"ERR"}, code : {300, 301, 302, 303}]
      \cup [type : {"LOGIN_RESP", "REGISTER_RESP"}, name : UserNames]
      \cup [type : {"PAIR_RESP"}, token : Keys \cup {None}, d_username : DNames]
      \cup [type : {"VALIDATE_RESP_SERVER"}, resp : BOOLEAN,
            d_username : DNames \cup {NoName}, app_id : Apps]
      \cup [type : {"SEND_NOTIF"}, reqID : ReqIDs, app_id : Apps]
      \cup [type : {"NOTIF_LOGIN_RESP"}, resp : BOOLEAN, reqID : ReqIDs,
            d_username : DNames]
      \cup [type : {"CODE_RESP"}, codes : SecretMap]

\* to: the connection that gets it; for: the one the code meant it for.
Message == [to : Conns, for : Conns, cmd : Command]

Idle == [pc |-> "sleep", todo |-> {}, cur |-> None, codes |-> NoSecrets,
         fd |-> -1, raced |-> FALSE]

Thread ==
    [pc : {"sleep", "check", "format", "send"}, todo : SUBSET Conns,
     cur : Conns \cup {None}, codes : SecretMap, fd : Fds \cup {-1},
     raced : BOOLEAN]

TypeOK ==
    /\ up \in {"up", "segv_insert", "segv_race"}
    /\ m_client_sockets \in [Fds -> Conns \cup {None}]
    /\ m_sessions \in [Fds -> Conns \cup {None}]
    /\ session \in [Conns -> Session]
    /\ DatabaseTypeOK
    /\ peer \in [Conns -> Peers \cup {None}]
    /\ \A fd \in Fds : m_client_sockets[fd] # None => peer[m_client_sockets[fd]] # None
    /\ fresh \subseteq Conns
    /\ m_pending_pairings \in [Keys -> Pending \cup {None}]
    /\ m_pending_notifications \in [ReqIDs -> Notification \cup {None}]
    /\ drawn \subseteq Keys \cup ReqIDs
    /\ totp \in Thread
    /\ totp.pc \in {"format", "send"} => totp.cur \in Conns
    /\ out \subseteq Message

\* What a process that just started holds in memory.
EmptyMemory ==
    /\ up' = "up"
    /\ m_client_sockets' = [fd \in Fds |-> None]
    /\ m_sessions' = [fd \in Fds |-> None]
    /\ session' = [c \in Conns |-> DeadSession]
    /\ fresh' = {}
    /\ m_pending_pairings' = [t \in Keys |-> None]
    /\ m_pending_notifications' = [r \in ReqIDs |-> None]
    /\ totp' = Idle
    /\ out' = {}

Init ==
    /\ up = "up"
    /\ m_client_sockets = [fd \in Fds |-> None]
    /\ m_sessions = [fd \in Fds |-> None]
    /\ session = [c \in Conns |-> DeadSession]
    /\ DatabaseInit
    /\ peer = [c \in Conns |-> None]
    /\ fresh = {}
    /\ m_pending_pairings = [t \in Keys |-> None]
    /\ m_pending_notifications = [r \in ReqIDs |-> None]
    /\ drawn = {}
    /\ totp = Idle
    /\ out = {}

-----------------------------------------------------------------------------
\* ServerConnectionHandler::update

Accept(c, p) ==
    /\ up = "up" /\ peer[c] = None
    /\ HandleConnection(c)
    /\ peer' = [peer EXCEPT ![c] = p]
    /\ fresh' = fresh \cup {c}
    /\ out' = {}
    /\ UNCHANGED <<up, dbVars, authVars, totp>>

\* The peer closed, crashed or reset.
Disconnect(fd) ==
    /\ up = "up" /\ Open(fd)
    /\ HandleClose(fd)
    /\ fresh' = fresh \ {m_client_sockets[fd]}
    /\ out' = {}
    /\ UNCHANGED <<up, peer, dbVars, authVars, totp>>

\* The first read of a connection holds the CONN message the peer's handler
\* sends from its constructor, alone ...
Handshake(fd) ==
    /\ up = "up" /\ Open(fd) /\ m_client_sockets[fd] \in fresh
    /\ LET p == peer[m_client_sockets[fd]] IN
       session' = IF p = AC
                  THEN HandleHandshake(session, fd, "AUTH_CLIENT", NoName)
                  ELSE HandleHandshake(session, fd, "DUMMY_SERVER", p)
    /\ fresh' = fresh \ {m_client_sockets[fd]}
    /\ out' = {}
    /\ UNCHANGED <<up, m_client_sockets, peer, m_sessions, dbVars, authVars, totp>>

\* ... or run together with the peer's next messages, since messages carry no
\* length.  What is made of them is never the handshake of an Auth Client
\* (CommandFactory!FirstMessageDecides): both are lost, or the session gets the
\* number of no entity for its type, which nothing tests.  A Dummy Server's are
\* lost too, unless the next one is the pairing of nobody, "5;", whose digit goes
\* to the application id that ends its CONN.
LoseHandshake(fd) ==
    /\ up = "up" /\ Open(fd) /\ m_client_sockets[fd] \in fresh
    /\ \/ UNCHANGED session
       \/ \E app \in AppIds \ {peer[m_client_sockets[fd]]} :
            /\ peer[m_client_sockets[fd]] # AC
            /\ session' = HandleHandshake(session, fd, "DUMMY_SERVER", app)
    /\ fresh' = fresh \ {m_client_sockets[fd]}
    /\ out' = {}
    /\ UNCHANGED <<up, m_client_sockets, peer, m_sessions, dbVars, authVars, totp>>

Reading(fd) ==
    up = "up" /\ Open(fd) /\ m_client_sockets[fd] \notin fresh

FromAC(fd) == Reading(fd) /\ peer[m_client_sockets[fd]] = AC
FromDS(fd) == Reading(fd) /\ peer[m_client_sockets[fd]] \in AppIds

\* Messages that are read together may be a request of another kind of peer:
\* "13", "13" and "33;x" are 131333;x, in a byte PAIR_REQ (FirstMessageDecides
\* and DummyServersMerge of CommandFactory say which).
Merged(fd) == Reading(fd) /\ peer[m_client_sockets[fd]] \in Merging

\* Mutant: broadcastCommand in place of sendCommand.
ReplyToAll(fd, cmd) ==
    out' = {[to |-> m_client_sockets[f], for |-> m_client_sockets[fd], cmd |-> cmd] :
               f \in {x \in Fds : Open(x)}}

Reply(fd, cmd) == out' = SendCommand(fd, m_client_sockets[fd], cmd)

Err(code) == [type |-> "ERR", code |-> code]

\* The handler of fd writes secret_pairs: if the TOTP thread is walking that
\* very map, the two accesses race.
WritesPairs(fd) ==
    totp' = IF totp.pc = "format" /\ totp.cur = m_sessions[fd]
            THEN [totp EXCEPT !.raced = TRUE] ELSE totp

-----------------------------------------------------------------------------
\* CredentialRequestCommand

Login(fd, u, p) ==
    /\ FromAC(fd)
    /\ \/ /\ GetIsLogged(fd)
          /\ Reply(fd, Err(300))
          /\ UNCHANGED <<session, totp>>
       \/ /\ ~GetIsLogged(fd) /\ CredentialsMatch(u, p)
          /\ \E m \in SecretPairings(u) :
               session' = SetSecretPairings(
                            SetIdentity(
                              SetIsLogged(session, fd, TRUE), fd, u), fd, m)
          /\ WritesPairs(fd)
          /\ Reply(fd, [type |-> "LOGIN_RESP", name |-> u])
       \/ /\ ~GetIsLogged(fd) /\ ~CredentialsMatch(u, p)
          /\ session' = SetIsLogged(session, fd, FALSE)
          /\ Reply(fd, Err(301))
          /\ UNCHANGED totp
    /\ UNCHANGED <<up, connVars, dbVars, authVars>>

Register(fd, u, p) ==
    /\ FromAC(fd)
    /\ \/ /\ GetIsLogged(fd)
          /\ Reply(fd, Err(300))
          /\ UNCHANGED dbVars
       \/ /\ ~GetIsLogged(fd)
          /\ CreateUser(u, p)
          /\ Reply(fd, [type |-> "REGISTER_RESP", name |-> u])
       \/ /\ ~GetIsLogged(fd) /\ (~dbUp \/ Registered(u))
          /\ Reply(fd, Err(302))
          /\ UNCHANGED dbVars
    /\ UNCHANGED <<up, connVars, session, authVars, totp>>

\* The identity stays.
LogoutRequest(fd) ==
    /\ FromAC(fd)
    /\ \/ /\ GetIsLogged(fd)
          /\ session' = Logout(session, fd)
          /\ WritesPairs(fd)
          /\ out' = {}
       \/ /\ ~GetIsLogged(fd)
          /\ Reply(fd, Err(303))
          /\ UNCHANGED <<session, totp>>
    /\ UNCHANGED <<up, connVars, dbVars, authVars>>

-----------------------------------------------------------------------------
\* Codes

\* Mutant: the login is not tested.
CanReceiveCodeUnlogged(s) ==
    s.isValid /\ s.isInCodeState /\ s.secret_pairs # NoSecrets

CanReceiveCode(s) ==
    s.isValid /\ s.isLogged /\ s.isInCodeState /\ s.secret_pairs # NoSecrets

CodeResp(codes) == [type |-> "CODE_RESP", codes |-> codes]

RequestCode(fd) ==
    /\ FromAC(fd)
    /\ session' = SetIsInCodeState(session, fd, TRUE)
    /\ LET s == session'[m_sessions[fd]] IN
       IF Known(fd) /\ CanReceiveCode(s)
       THEN Reply(fd, CodeResp(s.secret_pairs)) ELSE out' = {}
    /\ UNCHANGED <<up, connVars, dbVars, authVars, totp>>

ExitSCS(fd) ==
    /\ FromAC(fd)
    /\ session' = SetIsInCodeState(session, fd, FALSE)
    /\ out' = {}
    /\ UNCHANGED <<up, connVars, dbVars, authVars, totp>>

\* The application id a Dummy Server's messages carry is its own, unless another
\* message was read with this one and its digits went to the end of the id.
\* code: the secret whose code of this time step was typed, or None for any
\* other string.  d is empty when nobody is logged in on the Dummy Server.
ValidateCode(fd, code, d) ==
    /\ FromDS(fd) \/ Merged(fd)
    /\ \E app \in AppIds :
         Reply(fd, [type |-> "VALIDATE_RESP_SERVER",
                    resp |-> RowOf(d, app) # None /\ pairs[<<d, app>>].totp_secret = code,
                    d_username |-> d, app_id |-> app])
    /\ UNCHANGED <<up, connVars, session, dbVars, authVars, totp>>

-----------------------------------------------------------------------------
\* Pairing.  A token and its secret are drawn together and share a name.

PairResp(token, d) == [type |-> "PAIR_RESP", token |-> token, d_username |-> d]

\* Mutant: the scan looks at the finished pairings.
IsPendingInDatabase(d, app) == RowOf(d, app) # None

IsPending(d, app) ==
    \E t \in Keys : m_pending_pairings[t] = [d_username |-> d, app_id |-> app]

\* The application is whatever identity the session carries: for an Auth Client
\* the account it logged in to last.
PairRequest(fd, d) ==
    /\ FromDS(fd) \/ Merged(fd)
    /\ LET app == GetIdentity(fd) IN
       \/ /\ IsPending(d, app)
          /\ Reply(fd, PairResp(None, d))
          /\ UNCHANGED authVars
       \/ /\ ~IsPending(d, app)
          /\ \E t \in Keys \ drawn :
               /\ m_pending_pairings' = [m_pending_pairings EXCEPT
                      ![t] = [d_username |-> d, app_id |-> app]]
               /\ drawn' = drawn \cup {t}
               /\ Reply(fd, PairResp(t, d))
          /\ UNCHANGED m_pending_notifications
    /\ UNCHANGED <<up, connVars, session, dbVars, totp>>

\* Mutant: the finished pairing is left in the table.
KeepPairing(t) == UNCHANGED m_pending_pairings

ErasePairing(t) ==
    m_pending_pairings' = [m_pending_pairings EXCEPT ![t] = None]

\* finishPairing and the insertion after it.  Nobody asks whether the session
\* is logged in: the account is the identity it carries.
FinishPairing(fd, t) ==
    /\ FromAC(fd) /\ m_pending_pairings[t] # None
    /\ LET d == m_pending_pairings[t].d_username
           app == m_pending_pairings[t].app_id
           a == GetIdentity(fd)
           c == m_sessions[fd]
       IN \/ /\ PairUserReturns(a, d, app)
             /\ PairUser(a, d, app, t)
             /\ ErasePairing(t)
             /\ \/ /\ session[c].built
                   /\ session' = InsertSecret(session, fd, app, t)
                   /\ WritesPairs(fd)
                   /\ UNCHANGED up
                \/ /\ ~session[c].built
                   /\ up' = "segv_insert"
                   /\ UNCHANGED <<session, totp>>
          \/ /\ ~PairUserReturns(a, d, app)
             /\ UNCHANGED <<up, session, dbVars, m_pending_pairings, totp>>
    /\ out' = {}
    /\ UNCHANGED <<connVars, m_pending_notifications, drawn>>

-----------------------------------------------------------------------------
\* Notifications

\* An Auth Client's merged request names any application, or none.
RequestNotification(fd, d) ==
    /\ FromDS(fd) \/ Merged(fd)
    /\ \E app \in Apps, ac_fd \in Fds, r \in ReqIDs \ drawn :
         /\ FromDS(fd) => app \in AppIds
         /\ RowOf(d, app) # None
         /\ IsIDFromUsername(ac_fd, pairs[<<d, app>>].a_username)
         /\ m_pending_notifications' = [m_pending_notifications EXCEPT ![r] =
                [d_username |-> d, app_id |-> app, ds_fd |-> fd,
                 ds_conn |-> m_client_sockets[fd]]]
         /\ drawn' = drawn \cup {r}
         /\ out' = SendCommand(ac_fd, m_sessions[ac_fd],
                       [type |-> "SEND_NOTIF", reqID |-> r, app_id |-> app])
    /\ UNCHANGED <<up, connVars, session, dbVars, m_pending_pairings, totp>>

\* Mutant: the answered request is left in the table.
KeepNotification(r) == UNCHANGED m_pending_notifications

EraseNotification(r) ==
    m_pending_notifications' = [m_pending_notifications EXCEPT ![r] = None]

\* Any client may hold the id of a request made so far, and may answer again:
\* its list of notifications only grows.
NotifResponse(fd, r, b) ==
    /\ FromAC(fd) \/ Merged(fd)
    /\ r \in drawn
    /\ m_pending_notifications[r] # None
    /\ LET n == m_pending_notifications[r] IN
       out' = SendCommand(n.ds_fd, n.ds_conn,
                  [type |-> "NOTIF_LOGIN_RESP", resp |-> b, reqID |-> r,
                   d_username |-> n.d_username])
    /\ EraseNotification(r)
    /\ UNCHANGED <<up, connVars, session, dbVars, m_pending_pairings, drawn, totp>>

-----------------------------------------------------------------------------
\* TOTPManager::m_run

Wake ==
    /\ up = "up" /\ totp.pc = "sleep"
    /\ totp' = [totp EXCEPT !.pc = "check", !.todo = GetActiveSessions]
    /\ out' = {}
    /\ UNCHANGED <<up, connVars, session, dbVars, authVars>>

\* Mutant: return in place of continue, so a session that fails ends the thread.
CheckOrReturn(c) ==
    /\ up = "up" /\ totp.pc = "check" /\ c \in totp.todo
    /\ totp' = IF CanReceiveCode(session[c])
               THEN [totp EXCEPT !.pc = "format", !.todo = @ \ {c}, !.cur = c,
                                 !.codes = session[c].secret_pairs]
               ELSE [Idle EXCEPT !.pc = "ended"]
    /\ out' = {}
    /\ UNCHANGED <<up, connVars, session, dbVars, authVars>>

\* Both canReceiveCode tests, then the walk over secret_pairs begins.
Check(c) ==
    /\ up = "up" /\ totp.pc = "check" /\ c \in totp.todo
    /\ totp' = IF CanReceiveCode(session[c])
               THEN [totp EXCEPT !.pc = "format", !.todo = @ \ {c}, !.cur = c,
                                 !.codes = session[c].secret_pairs]
               ELSE [totp EXCEPT !.todo = @ \ {c}]
    /\ out' = {}
    /\ UNCHANGED <<up, connVars, session, dbVars, authVars>>

\* The walk ends and session->id is read.  A walk that raced with a write ends
\* the process or finds, for each key, what was there before or after it.
Format ==
    /\ up = "up" /\ totp.pc = "format"
    /\ \/ \E seen \in SecretMap :
            /\ \A a \in Apps :
                 \/ seen[a] = totp.codes[a]
                 \/ totp.raced /\ seen[a] = session[totp.cur].secret_pairs[a]
            /\ totp' = [totp EXCEPT !.pc = "send", !.codes = seen,
                                    !.fd = session[totp.cur].id, !.raced = FALSE]
            /\ UNCHANGED up
       \/ /\ totp.raced
          /\ up' = "segv_race"
          /\ UNCHANGED totp
    /\ out' = {}
    /\ UNCHANGED <<connVars, session, dbVars, authVars>>

Send ==
    /\ up = "up" /\ totp.pc = "send"
    /\ out' = SendCommand(totp.fd, totp.cur, CodeResp(totp.codes))
    /\ totp' = [Idle EXCEPT !.pc = "check", !.todo = totp.todo]
    /\ UNCHANGED <<up, connVars, session, dbVars, authVars>>

PassDone ==
    /\ up = "up" /\ totp.pc = "check" /\ totp.todo = {}
    /\ totp' = Idle
    /\ out' = {}
    /\ UNCHANGED <<up, connVars, session, dbVars, authVars>>

TOTPThread ==
    \/ Wake \/ Format \/ Send \/ PassDone
    \/ \E c \in Conns : Check(c)

-----------------------------------------------------------------------------

\* Stopped from the console, killed or crashed, and started again: the peers
\* are disconnected, memory is lost, the database file stays.
Restart ==
    /\ EmptyMemory
    /\ UNCHANGED <<peer, dbVars, drawn>>

FromAuthClient(fd) ==
    \/ \E u \in UserNames, p \in Passwords : Login(fd, u, p) \/ Register(fd, u, p)
    \/ LogoutRequest(fd) \/ RequestCode(fd) \/ ExitSCS(fd)
    \/ \E t \in Keys : FinishPairing(fd, t)
    \/ \E r \in ReqIDs, b \in BOOLEAN : NotifResponse(fd, r, b)

FromDummyServer(fd) ==
    \/ \E d \in DNames : PairRequest(fd, d) \/ RequestNotification(fd, d)
    \/ \E code \in Keys \cup {None}, d \in DNames \cup {NoName} :
           ValidateCode(fd, code, d)

MainThread ==
    \/ \E c \in Conns, p \in Peers : Accept(c, p)
    \/ \E fd \in Fds : \/ Disconnect(fd) \/ Handshake(fd) \/ LoseHandshake(fd)
                       \/ FromAuthClient(fd) \/ FromDummyServer(fd)

Next == MainThread \/ Restart \/ TOTPThread

\* Nothing makes a peer send, so only the TOTP thread is fair: its sleep ends
\* and the scheduler runs it.
Fairness == WF_vars(TOTPThread)

Spec == Init /\ [][Next]_vars /\ Fairness

\* The server as it would be without its second thread.
MainSpec == Init /\ [][MainThread \/ Restart]_vars
-----------------------------------------------------------------------------
\* Properties

\* The identity of a session fits its peer: a Dummy Server's is an application
\* id or, when the handshake was lost, empty, and an Auth Client's is empty until
\* it has logged in once, which is also when secret_pairs is built.
SessionsMatchPeers ==
    \A c \in Conns :
        /\ peer[c] \in AppIds => session[c].identity \in AppIds \cup {NoName}
        /\ peer[c] = AC =>
             /\ session[c].identity \in UserNames \cup {NoName}
             /\ ~session[c].built => session[c].identity = NoName

\* At most one pairing of an account of an application is pending, however
\* requests, completions and restarts interleave (startPairing's scan).
OnePendingPerAccount ==
    \A t, v \in Keys :
        m_pending_pairings[t] # None /\ m_pending_pairings[t] = m_pending_pairings[v]
            => t = v

\* A secret serves one account only: no two rows hold the same secret, and
\* the secret of a pending pairing is in no row, whatever finishPairing leaves
\* behind when the database refuses, and over restarts.
SecretsUnique ==
    \A k \in DNames \X Apps : pairs[k] # None =>
        /\ \A j \in DNames \X Apps :
             pairs[j] # None /\ pairs[j].totp_secret = pairs[k].totp_secret => j = k
        /\ m_pending_pairings[pairs[k].totp_secret] = None

Owns(u, app, k) ==
    \E d \in DNames : RowOf(d, app) = [a_username |-> u, totp_secret |-> k]

\* The secrets a Session caches are rows of the account whose name it carries,
\* so every code shown is one ValidateCode accepts; and a logged session
\* carries the name of a registered account.  Logout keeps the name, a second
\* login replaces it, and a pairing may end under a name no longer logged in.
SessionsMatchDatabase ==
    \A c \in Conns :
        /\ session[c].isLogged => Registered(session[c].identity)
        /\ \A app \in Apps : session[c].secret_pairs[app] # None =>
               Owns(session[c].identity, app, session[c].secret_pairs[app])

\* The insertion into a session map that was never built is reached only with
\* the empty account name registered or with no database open: otherwise a
\* pairing cannot succeed for a session that never logged in.
NoInsertWithoutLogin ==
    up = "segv_insert" => ~dbUp \/ Registered(NoName)

\* As long as the connection a message was meant for is still open, it is the
\* one that gets it: the descriptor stored with a pending notification, or read
\* by the TOTP thread, may be stale only after a disconnection.
AnswersReachTheirConnection ==
    \A m \in out : Connected(m.for) => m.to = m.for

\* Codes go to a session that is logged in and viewing, and are codes of the
\* account logged in there.
CodesReachTheirOwner ==
    \A m \in out : m.cmd.type = "CODE_RESP" =>
        LET s == session[m.to] IN
        /\ s.isLogged /\ s.isInCodeState
        /\ \A app \in Apps : m.cmd.codes[app] # None =>
               Owns(s.identity, app, m.cmd.codes[app])

PairingStep ==
    /\ \A u \in UserNames : users[u] # None => users'[u] = users[u]
    /\ \A k \in DNames \X Apps : pairs'[k] # pairs[k] =>
         /\ pairs[k] = None
         /\ LET t == pairs'[k].totp_secret IN
            /\ m_pending_pairings[t] = [d_username |-> k[1], app_id |-> k[2]]
            /\ m_pending_pairings'[t] = None
    /\ \A t \in Keys :
         m_pending_pairings[t] # None /\ m_pending_pairings'[t] = None =>
           \/ EmptyMemory
           \/ ~dbUp
           \/ LET k == <<m_pending_pairings[t].d_username,
                         m_pending_pairings[t].app_id>>
              IN pairs[k] = None /\ pairs'[k] # None /\ pairs'[k].totp_secret = t

\* A row of pairs appears exactly when the token it was drawn with leaves the
\* pending pairings, and no row and no user is ever changed or removed; only a
\* restart, or a server without a database, drops a token unpaired.
PairingAtomic == [][PairingStep]_vars

PendingOffers ==
    {[token |-> t, account |-> <<m_pending_pairings[t].d_username,
                                 m_pending_pairings[t].app_id>>] :
        t \in {v \in Keys : m_pending_pairings[v] # None}}

StoredRows ==
    {[token |-> pairs[k].totp_secret, account |-> k, owner |-> pairs[k].a_username] :
        k \in {j \in DNames \X Apps : pairs[j] # None}}

Promise == INSTANCE Pairing WITH
    Tokens <- Keys, Accounts <- DNames \X Apps, Owners <- UserNames,
    writable <- dbUp, drawn <- drawn \cap Keys,
    offers <- PendingOffers, rows <- StoredRows

\* The server keeps what Pairing promises: the pending pairings and the table
\* pairs, written by different calls of one handler and read by others, are
\* the offers and the rows of one atomic step, whatever the database refuses,
\* whichever client answers first, and whenever the server is started again.
KeepsPairingPromise == Promise!Spec

PendingRequests ==
    {[id |-> r, user |-> m_pending_notifications[r].d_username,
      site |-> m_pending_notifications[r].app_id,
      asker |-> m_pending_notifications[r].ds_conn] :
        r \in {x \in ReqIDs : m_pending_notifications[x] # None}}

Verdicts ==
    {[id |-> m.cmd.reqID, user |-> m.cmd.d_username, to |-> m.to] :
        m \in {x \in out : x.cmd.type = "NOTIF_LOGIN_RESP"}}

NotifPromise == INSTANCE Notification WITH
    Requests <- ReqIDs, Users <- DNames, Sites <- Apps, Askers <- Conns,
    present <- {c \in Conns : Connected(c)},
    paired <- {k \in DNames \X Apps : pairs[k] # None},
    used <- drawn \cap ReqIDs,
    asked <- PendingRequests, told <- Verdicts

\* The server keeps what Notification promises: a request is about a stored
\* pairing and is answered at most once, although the client may answer it
\* again and the id outlives restarts; and the answer, sent to a descriptor
\* that was stored with the request, names the account that was asked about and
\* goes to the peer that asked, unless that one has gone.
KeepsNotificationPromise == NotifPromise!Spec

Viewing(c) ==
    up = "up" /\ Connected(c) /\ CanReceiveCode(session[c])

\* A client that stays logged in with the code view open and a pairing cached
\* gets new codes again and again: no pass of the TOTP thread is lost.
CodesKeepComing ==
    \A c \in Conns :
        <>[]Viewing(c)
            => []<>(\E m \in out : m.to = c /\ m.cmd.type = "CODE_RESP")
=============================================================================
