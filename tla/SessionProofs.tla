---------------------------- MODULE SessionProofs ----------------------------
(***************************************************************************)
(* Proofs about the sessions of the Auth Server: the secrets they cache    *)
(* are rows of the account they carry, the codes sent are those of the     *)
(* account logged in at the receiver, and nothing is delivered to another  *)
(* connection than the one it was meant for while that one is open.        *)
(***************************************************************************)
EXTENDS PairingProofs

\* A session that agrees with the database.  The name of a session that caches
\* secrets is an account's, and a server without a database logs nobody in, so
\* that it never builds a map either.
Fits(s) ==
    /\ s.isLogged => Registered(s.identity)
    /\ \A app \in Apps : s.secret_pairs[app] # None =>
           /\ s.identity \in UserNames
           /\ Owns(s.identity, app, s.secret_pairs[app])
    /\ s.isLogged \/ s.built => dbUp

\* A Dummy Server's session holds no secrets: the handshake may rename it.
Plain(s) == ~s.isLogged /\ s.secret_pairs = NoSecrets

SessionInv ==
    \A c \in Conns : Fits(session[c]) /\ (peer[c] # AC => Plain(session[c]))

\* The database never comes up or goes away, and accounts and rows are only added.
LEMMA DatabaseGrows ==
  ASSUME TypeOK, PairingInv, [Next]_vars
  PROVE  /\ dbUp' = dbUp
         /\ \A u \in UserNames : users[u] # None => users'[u] # None
         /\ \A k \in DNames \X Apps : pairs[k] # None => pairs'[k] = pairs[k]
<1>1. PairingStep
  BY PairingStepHolds
<1>2. dbUp' = dbUp
  <2>1. ASSUME NEW fd \in Fds, NEW d \in DNames, PairRequest(fd, d)
        PROVE  dbUp' = dbUp
    BY <2>1 DEF PairRequest, dbVars
  <2>2. ASSUME NEW fd \in Fds, NEW t \in Keys, FinishPairing(fd, t)
        PROVE  dbUp' = dbUp
    BY <2>2 DEF FinishPairing, PairUser, dbVars
  <2> QED BY <2>1, <2>2, OtherSteps DEF PairingFrame, Restart, dbVars
<1> QED BY <1>1, <1>2 DEF PairingStep

\* An account that owns a secret owns it for good.
LEMMA OwnsKept ==
  ASSUME TypeOK, PairingInv, [Next]_vars,
         NEW u \in UserNames, NEW app \in Apps, NEW k \in Keys, Owns(u, app, k)
  PROVE  Owns(u, app, k)'
<1> DEFINE row == [a_username |-> u, totp_secret |-> k]
<1>1. PICK d \in DNames : RowOf(d, app) = row
  BY DEF Owns
<1>2. row # None
  BY DatabaseAssumption DEF Pair
<1> HIDE DEF row
<1>3. dbUp /\ pairs[<<d, app>>] = row
  BY <1>1, <1>2 DEF RowOf
<1>4. dbUp' /\ pairs'[<<d, app>>] = row
  BY <1>2, <1>3, DatabaseGrows
<1>5. RowOf(d, app)' = row
  BY <1>4 DEF RowOf
<1> QED BY <1>5 DEF Owns, row

\* A session that is left alone goes on agreeing with the database.
LEMMA FitsKept ==
  ASSUME TypeOK, PairingInv, [Next]_vars, NEW s \in Session, Fits(s)
  PROVE  Fits(s)'
<1>1. s.isLogged => users'[s.identity] # None /\ s.identity \in UserNames
  BY DatabaseGrows DEF Fits, Registered
<1>2. ASSUME NEW app \in Apps, s.secret_pairs[app] # None
      PROVE  /\ s.identity \in UserNames
             /\ Owns(s.identity, app, s.secret_pairs[app])'
  <2>1. s.secret_pairs[app] \in Keys
    BY <1>2 DEF Session, SecretMap
  <2> QED BY <1>2, <2>1, OwnsKept DEF Fits
<1>3. s.isLogged \/ s.built => dbUp'
  BY DatabaseGrows DEF Fits
<1> QED BY <1>1, <1>2, <1>3 DEF Fits, Registered

-----------------------------------------------------------------------------
\* The steps

\* What a step leaves alone agrees as before.
LEMMA LeftAlone ==
  ASSUME TypeOK, PairingInv, SessionInv, [Next]_vars,
         NEW c \in Conns, session'[c] = session[c]
  PROVE  Fits(session[c])'
<1>1. PICK s \in Session : s = session[c]
  BY DEF TypeOK
<1>2. Fits(s)
  BY <1>1 DEF SessionInv
<1>3. Fits(s)'
  BY <1>2, FitsKept
<1> QED BY <1>1, <1>3 DEF Fits, Owns, RowOf, Registered

\* A step that at most sets one session: that session has to agree again, and
\* the others still do.
LEMMA OneSession ==
  ASSUME TypeOK, PairingInv, SessionInv, [Next]_vars, UNCHANGED peer,
         NEW c \in Conns, \A x \in Conns : x # c => session'[x] = session[x],
         Fits(session[c])', peer[c] # AC => Plain(session[c])'
  PROVE  SessionInv'
<1> SUFFICES ASSUME NEW x \in Conns
             PROVE  (Fits(session[x]) /\ (peer[x] # AC => Plain(session[x])))'
  BY DEF SessionInv
<1>1. CASE x = c
  BY <1>1
<1>2. CASE x # c
  <2>1. session'[x] = session[x] /\ Fits(session[x])'
    BY <1>2, LeftAlone
  <2> QED BY <2>1 DEF SessionInv, Plain
<1> QED BY <1>1, <1>2

\* The same when nothing the agreement reads is set in that session but false
\* flags: the step is about the descriptor, the type or the view.
LEMMA SameContents ==
  ASSUME TypeOK, PairingInv, SessionInv, [Next]_vars, UNCHANGED peer,
         NEW c \in Conns, \A x \in Conns : x # c => session'[x] = session[x],
         session'[c].isLogged \in {session[c].isLogged, FALSE},
         session'[c].identity = session[c].identity \/ Plain(session[c]),
         session'[c].secret_pairs = session[c].secret_pairs,
         session'[c].built = session[c].built
  PROVE  SessionInv'
<1>1. \A s \in Session : Fits(s) => Fits(s)'
  BY FitsKept
<1>2. session[c] \in Session /\ Fits(session[c])
  BY DEF TypeOK, SessionInv
<1>3. Fits(session[c])'
  <2>1. CASE session'[c].identity = session[c].identity
    <3>1. session'[c].isLogged => session[c].isLogged
      OBVIOUS
    <3>2. \A s \in Session : s.isLogged /\ Fits(s) => Registered(s.identity)'
      BY <1>1 DEF Fits
    <3>3. session'[c].isLogged => Registered(session[c].identity)'
      BY <1>2, <2>1, <3>1, <3>2 DEF Registered
    <3> QED BY <1>1, <1>2, <2>1, <3>1, <3>3 DEF Fits, Owns, RowOf, Registered
  <2>2. CASE Plain(session[c])
    BY <1>2, <2>2, DatabaseGrows DEF Plain, NoSecrets, Fits
  <2> QED BY <2>1, <2>2
<1>4. peer[c] # AC => Plain(session[c])'
  BY DEF SessionInv, Plain
<1> QED BY <1>3, <1>4, OneSession

\* A step that sets no session and no peer.
LEMMA NoSession ==
  ASSUME TypeOK, PairingInv, SessionInv, [Next]_vars, UNCHANGED <<session, peer>>
  PROVE  SessionInv'
<1>1. \A x \in Conns : Fits(session[x])'
  BY LeftAlone
<1> QED BY <1>1 DEF SessionInv, Plain

\* The map a login builds holds rows of the account that logs in.
LEMMA SecretPairingsOwned ==
  ASSUME TypeOK, NEW u \in UserNames, NEW m \in SecretPairings(u), NEW app \in Apps,
         m[app] # None
  PROVE  Owns(u, app, m[app])
<1>1. PICK d \in DNames : /\ RowOf(d, app) # None
                          /\ pairs[<<d, app>>].a_username = u
                          /\ pairs[<<d, app>>].totp_secret = m[app]
  BY DEF SecretPairings
<1>2. RowOf(d, app) = pairs[<<d, app>>] /\ pairs[<<d, app>>] \in Pair
  BY <1>1 DEF RowOf, TypeOK, DatabaseTypeOK
<1>3. pairs[<<d, app>>] = [a_username |-> u, totp_secret |-> m[app]]
  BY <1>1, <1>2 DEF Pair
<1> QED BY <1>2, <1>3 DEF Owns

\* A login that is admitted names and fills the session in one step.
LEMMA LoginFits ==
  ASSUME IInv, PairingInv, SessionInv, [Next]_vars,
         NEW fd \in Fds, NEW u \in UserNames, NEW p \in Passwords, Login(fd, u, p)
  PROVE  SessionInv'
<1>a. TypeOK /\ SessionTypeOK /\ session \in [Conns -> Session]
  BY DEF IInv, TypeOK, SessionTypeOK
<1>b. PICK c \in Conns :
      /\ m_sessions[fd] = c /\ Known(fd) /\ session[c] \in Session /\ peer[c] = AC
      /\ UNCHANGED <<peer, dbUp, users, pairs>>
  BY <1>a, ReadingFacts DEF Login, FromAC, IInv, TablesAgree, Known, Open, connVars, dbVars
<1>1. CASE UNCHANGED session
  BY <1>a, <1>b, <1>1, NoSession
<1>2. CASE session' = SetIsLogged(session, fd, FALSE)
  <2>1. session' = [session EXCEPT ![c] = [@ EXCEPT !.isLogged = FALSE]]
    BY <1>b, <1>2 DEF SetIsLogged
  <2>2. /\ \A x \in Conns : x # c => session'[x] = session[x]
        /\ session'[c] = [session[c] EXCEPT !.isLogged = FALSE]
    BY <1>a, <1>b, <2>1
  <2>3. /\ session'[c].isLogged = FALSE
        /\ session'[c].identity = session[c].identity
        /\ session'[c].secret_pairs = session[c].secret_pairs
        /\ session'[c].built = session[c].built
    BY <1>b, <2>2 DEF Session
  <2> QED BY <1>a, <1>b, <2>2, <2>3, SameContents
<1>3. ASSUME CredentialsMatch(u, p), NEW m \in SecretPairings(u),
             session' = SetSecretPairings(
                          SetIdentity(SetIsLogged(session, fd, TRUE), fd, u), fd, m)
      PROVE  SessionInv'
  <2> DEFINE s1 == [session EXCEPT ![c] = [@ EXCEPT !.isLogged = TRUE]]
             s2 == [s1 EXCEPT ![c] = [@ EXCEPT !.identity = u]]
             s3 == [s2 EXCEPT ![c] = [@ EXCEPT !.secret_pairs = m, !.built = TRUE]]
  <2>1. session' = s3
    BY <1>b, <1>3 DEF SetIsLogged, SetIdentity, SetSecretPairings
  <2>2. /\ \A x \in Conns : x # c => session'[x] = session[x]
        /\ session'[c].isLogged /\ session'[c].identity = u
        /\ session'[c].secret_pairs = m /\ session'[c].built
    <3> DEFINE r1 == [session[c] EXCEPT !.isLogged = TRUE]
               r2 == [r1 EXCEPT !.identity = u]
               r3 == [r2 EXCEPT !.secret_pairs = m, !.built = TRUE]
    <3>1. s3[c] = r3 /\ \A x \in Conns : x # c => s3[x] = session[x]
      BY <1>a, <1>b
    <3>2. r3.isLogged /\ r3.identity = u /\ r3.secret_pairs = m /\ r3.built
      BY <1>b DEF Session
    <3> HIDE DEF s3, r3
    <3> QED BY <2>1, <3>1, <3>2
  <2>3. dbUp' /\ Registered(u)'
    BY <1>b, <1>3 DEF CredentialsMatch, Registered
  <2>4. ASSUME NEW app \in Apps, m[app] # None PROVE Owns(u, app, m[app])'
    <3>1. Owns(u, app, m[app])
      BY <1>a, <2>4, SecretPairingsOwned
    <3> QED BY <1>b, <3>1 DEF Owns, RowOf
  <2>5. Fits(session[c])'
    <3>1. ASSUME NEW app \in Apps, session'[c].secret_pairs[app] # None
          PROVE  /\ session'[c].identity \in UserNames
                 /\ Owns(session[c].identity, app, session[c].secret_pairs[app])'
      <4>1. Owns(u, app, m[app])'
        BY <2>2, <2>4, <3>1
      <4> QED BY <2>2, <4>1 DEF Owns
    <3> QED BY <2>2, <2>3, <3>1 DEF Fits, Registered
  <2> QED BY <1>a, <1>b, <2>2, <2>5, OneSession
<1> QED BY <1>1, <1>2, <1>3 DEF Login

\* A logout empties the map that a login built; a session without a login keeps
\* what it has.
LEMMA LogoutFits ==
  ASSUME IInv, PairingInv, SessionInv, [Next]_vars, NEW fd \in Fds, LogoutRequest(fd)
  PROVE  SessionInv'
<1>a. TypeOK /\ SessionTypeOK /\ session \in [Conns -> Session]
  BY DEF IInv, TypeOK, SessionTypeOK
<1>b. PICK c \in Conns :
      /\ m_sessions[fd] = c /\ Known(fd) /\ session[c] \in Session /\ peer[c] = AC
      /\ UNCHANGED <<peer, dbUp>>
  BY <1>a, ReadingFacts
     DEF LogoutRequest, FromAC, IInv, TablesAgree, Known, Open, connVars, dbVars
<1>1. CASE UNCHANGED session
  BY <1>a, <1>b, <1>1, NoSession
<1>2. CASE GetIsLogged(fd) /\ session' = Logout(session, fd)
  <2>1. session' = [session EXCEPT ![c] =
           [@ EXCEPT !.secret_pairs = NoSecrets, !.built = TRUE, !.isLogged = FALSE]]
    BY <1>b, <1>2 DEF Logout
  <2>2. /\ \A x \in Conns : x # c => session'[x] = session[x]
        /\ session'[c] = [session[c] EXCEPT !.secret_pairs = NoSecrets,
                                            !.built = TRUE, !.isLogged = FALSE]
    BY <1>a, <1>b, <2>1
  <2>3. ~session'[c].isLogged /\ session'[c].secret_pairs = NoSecrets
    BY <1>b, <2>2 DEF Session
  <2>4. dbUp
    BY <1>b, <1>2 DEF GetIsLogged, SessionInv, Fits
  <2>5. Fits(session[c])'
    BY <1>b, <2>3, <2>4 DEF Fits, NoSecrets
  <2> QED BY <1>a, <1>b, <2>2, <2>5, OneSession
<1> QED BY <1>1, <1>2 DEF LogoutRequest

\* The secret a pairing inserts is the row it has just stored for the name of
\* the session, logged in or not.
LEMMA FinishPairingFits ==
  ASSUME IInv, PairingInv, SessionInv, [Next]_vars,
         NEW fd \in Fds, NEW t \in Keys, FinishPairing(fd, t)
  PROVE  SessionInv'
<1>a. TypeOK /\ SessionTypeOK /\ session \in [Conns -> Session]
  BY DEF IInv, TypeOK, SessionTypeOK
<1>b. PICK c \in Conns :
      /\ m_sessions[fd] = c /\ Known(fd) /\ session[c] \in Session /\ peer[c] = AC
      /\ UNCHANGED peer
  BY <1>a, ReadingFacts
     DEF FinishPairing, FromAC, IInv, TablesAgree, Known, Open, connVars
<1>1. CASE UNCHANGED session
  BY <1>a, <1>b, <1>1, NoSession
<1>2. CASE ~UNCHANGED session
  <2>1. m_pending_pairings[t] \in Pending
    BY <1>a DEF FinishPairing, TypeOK
  <2>2. PICK d \in DNames, app \in Apps :
          m_pending_pairings[t] = [d_username |-> d, app_id |-> app]
    BY <2>1 DEF Pending
  <2>3. PICK a : /\ a = session[c].identity
                 /\ PairUserReturns(a, d, app) /\ PairUser(a, d, app, t)
                 /\ session[c].built /\ session' = InsertSecret(session, fd, app, t)
    BY <1>b, <1>2, <2>2 DEF FinishPairing, GetIdentity
  <2>4. dbUp
    BY <2>3 DEF SessionInv, Fits
  <2>5. a \in UserNames /\ users[a] # None /\ pairs[<<d, app>>] = None
    BY <2>3, <2>4 DEF PairUserReturns, CanPair, Registered
  <2>6. dbUp' /\ users' = users
    BY <2>3, <2>4 DEF PairUser
  <2>7. Owns(a, app, t)'
    <3> DEFINE row == [a_username |-> a, totp_secret |-> t]
               k == <<d, app>>
    <3>1. pairs' = [pairs EXCEPT ![k] = row]
      BY <2>3, <2>4 DEF PairUser, PairUserReturns
    <3>2. k \in DNames \X Apps
      OBVIOUS
    <3> HIDE DEF row, k
    <3>3. pairs'[k] = row
      BY <1>a, <3>1, <3>2 DEF TypeOK, DatabaseTypeOK
    <3> QED BY <2>6, <3>3 DEF Owns, RowOf, row, k
  <2>8. /\ \A x \in Conns : x # c => session'[x] = session[x]
        /\ session'[c] = [session[c] EXCEPT !.secret_pairs =
                              [session[c].secret_pairs EXCEPT ![app] = t]]
    BY <1>a, <1>b, <2>3 DEF InsertSecret
  <2>9. /\ session'[c].isLogged = session[c].isLogged
        /\ session'[c].identity = a
        /\ session'[c].secret_pairs = [session[c].secret_pairs EXCEPT ![app] = t]
    BY <1>b, <2>3, <2>8 DEF Session
  <2>10. \A y \in Apps : session'[c].secret_pairs[y] =
                            IF y = app THEN t ELSE session[c].secret_pairs[y]
    BY <1>b, <2>9 DEF Session, SecretMap
  <2>11. ASSUME NEW y \in Apps, session'[c].secret_pairs[y] # None
         PROVE  Owns(a, y, session[c].secret_pairs[y])'
    <3>1. CASE y = app
      BY <2>7, <2>10, <3>1 DEF Owns
    <3>2. CASE y # app
      <4>1. PICK k \in Keys : k = session[c].secret_pairs[y]
        BY <1>b, <2>10, <2>11, <3>2 DEF Session, SecretMap
      <4>2. Owns(a, y, k)
        BY <2>3, <2>10, <2>11, <3>2, <4>1 DEF SessionInv, Fits
      <4>3. Owns(a, y, k)'
        BY <1>a, <2>5, <4>2, OwnsKept
      <4> QED BY <2>10, <3>2, <4>1, <4>3 DEF Owns
    <3> QED BY <3>1, <3>2
  <2>12. Fits(session[c])'
    <3>1. session'[c].isLogged => Registered(session[c].identity)'
      BY <2>5, <2>6, <2>9 DEF Registered
    <3>2. ASSUME NEW y \in Apps, session'[c].secret_pairs[y] # None
          PROVE  Owns(session[c].identity, y, session[c].secret_pairs[y])'
      BY <2>9, <2>11, <3>2 DEF Owns
    <3> QED BY <2>5, <2>6, <2>9, <3>1, <3>2 DEF Fits
  <2> QED BY <1>a, <1>b, <2>8, <2>12, OneSession
<1> QED BY <1>1, <1>2

\* Accepting, closing and naming a connection: a new session is empty, and only
\* a session without secrets is renamed.
LEMMA ConnectionFits ==
  ASSUME IInv, PairingInv, SessionInv, [Next]_vars, NEW fd \in Fds,
         \/ \E c \in Conns, p \in Peers : Accept(c, p)
         \/ Disconnect(fd) \/ Handshake(fd) \/ LoseHandshake(fd)
  PROVE  SessionInv'
<1>a. TypeOK /\ SessionTypeOK /\ session \in [Conns -> Session]
  BY DEF IInv, TypeOK, SessionTypeOK
<1>1. ASSUME NEW c \in Conns, NEW p \in Peers, Accept(c, p)
      PROVE  SessionInv'
  <2>1. PICK f \in Fds : session' = [session EXCEPT ![c] = NewSession(f)]
    BY <1>1 DEF Accept, HandleConnection, AddSession
  <2>2. peer' = [peer EXCEPT ![c] = p] /\ peer \in [Conns -> Peers \cup {None}]
    BY <1>1 DEF Accept, HandleConnection, IInv, TypeOK
  <2>3. /\ ~NewSession(f).isLogged /\ ~NewSession(f).built
        /\ NewSession(f).secret_pairs = NoSecrets
    BY DEF NewSession
  <2>4. ASSUME NEW x \in Conns
        PROVE  (Fits(session[x]) /\ (peer[x] # AC => Plain(session[x])))'
    <3>1. CASE x = c
      BY <1>a, <2>1, <2>3, <3>1 DEF Fits, Plain, NoSecrets
    <3>2. CASE x # c
      <4>1. session'[x] = session[x] /\ peer'[x] = peer[x]
        BY <1>a, <2>1, <2>2, <3>2
      <4>2. Fits(session[x])'
        BY <1>a, <4>1, LeftAlone
      <4> QED BY <4>1, <4>2 DEF SessionInv, Plain
    <3> QED BY <3>1, <3>2
  <2> QED BY <2>4 DEF SessionInv
<1>2. CASE Disconnect(fd)
  <2>1. PICK c \in Conns : m_sessions[fd] = c /\ Known(fd) /\ session[c] \in Session
    BY <1>a, <1>2 DEF Disconnect, IInv, TablesAgree, Known, Open, TypeOK
  <2>2. session' = [session EXCEPT ![c] = [@ EXCEPT !.isValid = FALSE, !.id = -1]]
    BY <1>2, <2>1 DEF Disconnect, HandleClose, RemoveSession
  <2>3. peer' = peer
    BY <1>2 DEF Disconnect, HandleClose
  <2>4. /\ \A x \in Conns : x # c => session'[x] = session[x]
        /\ session'[c] = [session[c] EXCEPT !.isValid = FALSE, !.id = -1]
    BY <1>a, <2>2
  <2>5. /\ session'[c].isLogged = session[c].isLogged
        /\ session'[c].identity = session[c].identity
        /\ session'[c].secret_pairs = session[c].secret_pairs
        /\ session'[c].built = session[c].built
    BY <2>1, <2>4 DEF Session
  <2> QED BY <1>a, <2>3, <2>4, <2>5, SameContents
<1>3. CASE Handshake(fd) \/ LoseHandshake(fd)
  <2>1. PICK c \in Conns : /\ m_sessions[fd] = c /\ m_client_sockets[fd] = c
                           /\ Known(fd) /\ session[c] \in Session
    BY <1>a, <1>3 DEF Handshake, LoseHandshake, IInv, TablesAgree, Known, Open, TypeOK
  <2>2. peer' = peer
    BY <1>3 DEF Handshake, LoseHandshake
  <2>3. ASSUME NEW type, NEW app, type = "DUMMY_SERVER" => peer[c] # AC,
               session' = [session EXCEPT ![c] =
                   [@ EXCEPT !.type = type,
                             !.identity = IF type = "DUMMY_SERVER" THEN app
                                          ELSE session[c].identity]]
        PROVE  SessionInv'
    <3>1. /\ \A x \in Conns : x # c => session'[x] = session[x]
          /\ session'[c] = [session[c] EXCEPT !.type = type,
                 !.identity = IF type = "DUMMY_SERVER" THEN app ELSE session[c].identity]
      BY <1>a, <2>3
    <3>2. /\ session'[c].isLogged = session[c].isLogged
          /\ \/ session'[c].identity = session[c].identity
             \/ peer[c] # AC
          /\ session'[c].secret_pairs = session[c].secret_pairs
          /\ session'[c].built = session[c].built
      BY <2>1, <2>3, <3>1 DEF Session
    <3>3. session'[c].identity = session[c].identity \/ Plain(session[c])
      BY <3>2 DEF SessionInv
    <3> QED BY <1>a, <2>2, <3>1, <3>2, <3>3, SameContents
  <2>4. CASE UNCHANGED session
    BY <1>a, <2>2, <2>4, NoSession
  <2>5. CASE \E app : /\ peer[c] # AC
                      /\ session' = HandleHandshake(session, fd, "DUMMY_SERVER", app)
    BY <2>1, <2>3, <2>4, <2>5 DEF HandleHandshake
  <2>6. CASE session' = HandleHandshake(session, fd, "AUTH_CLIENT", NoName)
    BY <2>1, <2>3, <2>4, <2>6 DEF HandleHandshake
  <2> QED BY <1>3, <2>1, <2>4, <2>5, <2>6 DEF Handshake, LoseHandshake
<1> QED BY <1>1, <1>2, <1>3

\* Opening and leaving the view of codes changes the view only.
LEMMA ViewFits ==
  ASSUME IInv, PairingInv, SessionInv, [Next]_vars, NEW fd \in Fds,
         RequestCode(fd) \/ ExitSCS(fd)
  PROVE  SessionInv'
<1>a. TypeOK /\ SessionTypeOK /\ session \in [Conns -> Session]
  BY DEF IInv, TypeOK, SessionTypeOK
<1>b. PICK c \in Conns :
      /\ m_sessions[fd] = c /\ Known(fd) /\ session[c] \in Session /\ UNCHANGED peer
  BY <1>a, ReadingFacts
     DEF RequestCode, ExitSCS, FromAC, IInv, TablesAgree, Known, Open, connVars
<1>1. PICK b \in BOOLEAN : session' = [session EXCEPT ![c] = [@ EXCEPT !.isInCodeState = b]]
  BY <1>b DEF RequestCode, ExitSCS, SetIsInCodeState
<1>2. /\ \A x \in Conns : x # c => session'[x] = session[x]
      /\ session'[c] = [session[c] EXCEPT !.isInCodeState = b]
  BY <1>a, <1>1
<1>3. /\ session'[c].isLogged = session[c].isLogged
      /\ session'[c].identity = session[c].identity
      /\ session'[c].secret_pairs = session[c].secret_pairs
      /\ session'[c].built = session[c].built
  BY <1>b, <1>2 DEF Session
<1> QED BY <1>a, <1>b, <1>2, <1>3, SameContents

\* Every step keeps the sessions in agreement with the database.
LEMMA SessionInvStep == IInv /\ PairingInv /\ SessionInv /\ [Next]_vars => SessionInv'
<1> SUFFICES ASSUME IInv, PairingInv, SessionInv, [Next]_vars PROVE SessionInv'
  OBVIOUS
<1>0. TypeOK
  BY DEF IInv
<1>1. ASSUME NEW c \in Conns, NEW p \in Peers, Accept(c, p)
      PROVE  SessionInv'
  <2>1. \E f \in Fds : ~Open(f)
    BY <1>1 DEF Accept, HandleConnection
  <2> QED BY <1>1, <2>1, ConnectionFits
<1>2. ASSUME NEW fd \in Fds, Disconnect(fd) \/ Handshake(fd) \/ LoseHandshake(fd)
      PROVE  SessionInv'
  BY <1>2, ConnectionFits
<1>3. ASSUME NEW fd \in Fds, FromAuthClient(fd)
      PROVE  SessionInv'
  <2>1. ASSUME NEW u \in UserNames, NEW p \in Passwords, Register(fd, u, p)
        PROVE  SessionInv'
    BY <1>0, <2>1, NoSession DEF Register, connVars
  <2>2. ASSUME NEW r \in ReqIDs, NEW b \in BOOLEAN, NotifResponse(fd, r, b)
        PROVE  SessionInv'
    BY <1>0, <2>2, NoSession DEF NotifResponse, connVars
  <2> QED BY <1>3, <2>1, <2>2, LoginFits, LogoutFits, ViewFits, FinishPairingFits
          DEF FromAuthClient
<1>4. ASSUME NEW fd \in Fds, FromDummyServer(fd)
      PROVE  SessionInv'
  BY <1>0, <1>4, DummyServerFrame, NoSession DEF connVars
<1>5. CASE Restart
  <2>1. /\ ~DeadSession.isLogged /\ ~DeadSession.built
        /\ DeadSession.secret_pairs = NoSecrets
    BY DEF DeadSession, NewSession
  <2>2. \A x \in Conns : session'[x] = DeadSession
    BY <1>5 DEF Restart, EmptyMemory
  <2> QED BY <2>1, <2>2 DEF SessionInv, Fits, Plain, NoSecrets
<1>6. CASE TOTPThread \/ UNCHANGED vars
  <2>1. UNCHANGED <<session, peer>>
    BY <1>6 DEF TOTPThread, Wake, Check, Format, Send, PassDone, vars, connVars
  <2> QED BY <1>0, <2>1, NoSession
<1> QED BY <1>1, <1>2, <1>3, <1>4, <1>5, <1>6 DEF Next, MainThread

\* Nobody is logged in at first.
LEMMA InitSessionInv == Init => SessionInv
<1>1. /\ ~DeadSession.isLogged /\ ~DeadSession.built
      /\ DeadSession.secret_pairs = NoSecrets
  BY DEF DeadSession, NewSession
<1> QED BY <1>1 DEF Init, SessionInv, Fits, Plain, NoSecrets

\* The sessions agree with the database in every reachable state.
LEMMA SessionInductive == Spec => []SessionInv
<1> QED BY Inductive, PairingInductive, InitSessionInv, SessionInvStep, PTL DEF Spec

\* What the agreement says of each session.
LEMMA SessionInvImplies == SessionInv => SessionsMatchDatabase
BY DEF SessionInv, Fits, SessionsMatchDatabase

\* The secrets a session caches are rows of the account it carries, and who is
\* logged in has an account: over second logins, logouts that keep the name,
\* pairings that end under it, and restarts.
THEOREM SessionsAlwaysMatchDatabase == Spec => []SessionsMatchDatabase
<1> QED BY SessionInductive, SessionInvImplies, PTL

-----------------------------------------------------------------------------
\* Delivery

\* Descriptor fd is that of connection c, as long as c is open.
Reached(c, fd) == Connected(c) => fd \in Fds /\ m_client_sockets[fd] = c

\* Every descriptor the server keeps for later, in a pending notification or in
\* the TOTP thread, is that of a connection that was accepted, while it is open.
NotifReaches(n) == peer[n.ds_conn] # None /\ Reached(n.ds_conn, n.ds_fd)

NotifsReach ==
    \A r \in ReqIDs :
        m_pending_notifications[r] # None => NotifReaches(m_pending_notifications[r])

ThreadReaches ==
    /\ totp.pc \in {"format", "send"} => peer[totp.cur] # None
    /\ totp.pc = "send" => Reached(totp.cur, totp.fd)

AnswerInv == NotifsReach /\ ThreadReaches /\ AnswersReachTheirConnection

\* Only accept, close and restart touch the connections.
LEMMA SocketSteps ==
  ASSUME [Next]_vars
  PROVE  \/ UNCHANGED <<m_client_sockets, peer>>
         \/ \E c \in Conns, p \in Peers : Accept(c, p)
         \/ \E fd \in Fds : Disconnect(fd)
         \/ Restart
<1> USE DEF connVars
<1>1. ASSUME NEW fd \in Fds, Handshake(fd) \/ LoseHandshake(fd)
      PROVE  UNCHANGED <<m_client_sockets, peer>>
  BY <1>1 DEF Handshake, LoseHandshake
<1>2. ASSUME NEW fd \in Fds, FromAuthClient(fd)
      PROVE  UNCHANGED <<m_client_sockets, peer>>
  BY <1>2 DEF FromAuthClient, Login, Register, LogoutRequest, RequestCode, ExitSCS,
              FinishPairing, NotifResponse
<1>3. ASSUME NEW fd \in Fds, FromDummyServer(fd)
      PROVE  UNCHANGED <<m_client_sockets, peer>>
  BY <1>3, DummyServerFrame
<1>4. CASE TOTPThread \/ UNCHANGED vars
  BY <1>4 DEF TOTPThread, Wake, Check, Format, Send, PassDone, vars
<1> QED BY <1>1, <1>2, <1>3, <1>4 DEF Next, MainThread

\* A descriptor kept for an accepted connection stays its own: a new connection
\* has another name and a descriptor that is free, a closed one is not waited for.
LEMMA ReachedKept ==
  ASSUME IInv, [Next]_vars, NEW c \in Conns, NEW fd, peer[c] # None, Reached(c, fd)
  PROVE  peer'[c] # None /\ Reached(c, fd)'
<1>0. /\ m_client_sockets \in [Fds -> Conns \cup {None}]
      /\ peer \in [Conns -> Peers \cup {None}] /\ TablesAgree
  BY DEF IInv, TypeOK
<1>1. CASE UNCHANGED <<m_client_sockets, peer>>
  BY <1>1 DEF Reached, Connected
<1>2. ASSUME NEW x \in Conns, NEW p \in Peers, Accept(x, p)
      PROVE  peer'[c] # None /\ Reached(c, fd)'
  <2>1. PICK f \in Fds : ~Open(f) /\ m_client_sockets' = [m_client_sockets EXCEPT ![f] = x]
    BY <1>2 DEF Accept, HandleConnection
  <2>2. peer' = [peer EXCEPT ![x] = p] /\ x # c
    BY <1>2 DEF Accept, HandleConnection
  <2>3. peer'[c] # None
    BY <1>0, <2>2
  <2>4. ASSUME Connected(c)' PROVE fd \in Fds /\ m_client_sockets'[fd] = c
    <3>1. Connected(c)
      BY <1>0, <2>1, <2>2, <2>4 DEF Connected
    <3>2. fd \in Fds /\ m_client_sockets[fd] = c
      BY <3>1 DEF Reached
    <3> QED BY <1>0, <2>1, <3>2, SessionAssumption DEF Open
  <2> QED BY <2>3, <2>4 DEF Reached
<1>3. ASSUME NEW f \in Fds, Disconnect(f)
      PROVE  peer'[c] # None /\ Reached(c, fd)'
  <2>1. m_client_sockets' = [m_client_sockets EXCEPT ![f] = None] /\ peer' = peer
    BY <1>3 DEF Disconnect, HandleClose
  <2>2. ASSUME Connected(c)' PROVE fd \in Fds /\ m_client_sockets'[fd] = c
    <3>1. PICK g \in Fds : m_client_sockets'[g] = c
      BY <2>2 DEF Connected
    <3>2. m_client_sockets[g] = c /\ g # f
      BY <1>0, <2>1, <3>1, SessionAssumption
    <3>3. fd \in Fds /\ m_client_sockets[fd] = c
      BY <3>2 DEF Reached, Connected
    <3>4. fd = g
      BY <1>0, <3>2, <3>3, SessionAssumption DEF TablesAgree, Open
    <3> QED BY <3>1, <3>4
  <2> QED BY <2>1, <2>2 DEF Reached
<1>4. CASE Restart
  <2>1. ~Connected(c)'
    BY <1>4, SessionAssumption DEF Restart, EmptyMemory, Connected
  <2> QED BY <1>4, <2>1 DEF Restart, Reached
<1> QED BY <1>1, <1>2, <1>3, <1>4, SocketSteps

\* A connection that was accepted once is not accepted again.
LEMMA PeersStay ==
  ASSUME IInv, [Next]_vars, NEW c \in Conns, peer[c] # None
  PROVE  peer'[c] # None
<1>1. ASSUME NEW x \in Conns, NEW p \in Peers, Accept(x, p)
      PROVE  peer'[c] # None
  BY <1>1 DEF Accept, HandleConnection, IInv, TypeOK
<1>2. ASSUME NEW f \in Fds, Disconnect(f)
      PROVE  peer' = peer
  BY <1>2 DEF Disconnect
<1> QED BY <1>1, <1>2, SocketSteps DEF Restart

\* A pending notification is kept for an accepted Dummy Server.
LEMMA NotifsReachStep == IInv /\ AnswerInv /\ [Next]_vars => NotifsReach'
<1> SUFFICES ASSUME IInv, AnswerInv, [Next]_vars PROVE NotifsReach'
  OBVIOUS
<1>0. TypeOK
  BY DEF IInv
<1>1. ASSUME NEW r \in ReqIDs, m_pending_notifications[r] # None,
             m_pending_notifications'[r] = m_pending_notifications[r]
      PROVE  NotifReaches(m_pending_notifications[r])'
  <2>1. m_pending_notifications[r] \in Notification
    BY <1>0, <1>1 DEF TypeOK
  <2>2. PICK c \in Conns, fd \in Fds : /\ c = m_pending_notifications[r].ds_conn
                                      /\ fd = m_pending_notifications[r].ds_fd
    BY <2>1 DEF Notification
  <2>3. peer[c] # None /\ Reached(c, fd)
    BY <1>1, <2>2 DEF AnswerInv, NotifsReach, NotifReaches
  <2>4. peer'[c] # None /\ Reached(c, fd)'
    BY <2>3, ReachedKept
  <2> QED BY <1>1, <2>2, <2>4 DEF NotifReaches, Reached, Connected
<1>2. CASE UNCHANGED m_pending_notifications
  BY <1>1, <1>2 DEF NotifsReach
<1>3. CASE Restart
  BY <1>3 DEF Restart, EmptyMemory, NotifsReach
<1>4. ASSUME NEW fd \in Fds, NEW d \in DNames, RequestNotification(fd, d)
      PROVE  NotifsReach'
  <2>1. PICK c \in Conns : c = m_client_sockets[fd] /\ peer[c] # None
    <3>1. Reading(fd)
      BY <1>4 DEF RequestNotification, FromDS, Merged
    <3> QED BY <1>0, <3>1, ReadingFacts, SessionAssumption DEF TypeOK
  <2>2. PICK app \in Apps, q \in ReqIDs :
          m_pending_notifications' = [m_pending_notifications EXCEPT ![q] =
              [d_username |-> d, app_id |-> app, ds_fd |-> fd, ds_conn |-> c]]
    BY <1>4, <2>1 DEF RequestNotification
  <2>3. UNCHANGED <<peer, m_client_sockets>>
    BY <1>4 DEF RequestNotification, connVars
  <2>4. ASSUME NEW r \in ReqIDs, m_pending_notifications'[r] # None
        PROVE  NotifReaches(m_pending_notifications[r])'
    <3>1. CASE r = q
      <4>1. m_pending_notifications'[r] =
              [d_username |-> d, app_id |-> app, ds_fd |-> fd, ds_conn |-> c]
        BY <1>0, <2>2, <3>1 DEF TypeOK
      <4> QED BY <2>1, <2>3, <4>1 DEF NotifReaches, Reached
    <3>2. CASE r # q
      BY <1>0, <1>1, <2>2, <2>4, <3>2 DEF TypeOK
    <3> QED BY <3>1, <3>2
  <2> QED BY <2>4 DEF NotifsReach
<1>5. ASSUME NEW fd \in Fds, NEW q \in ReqIDs, NEW b \in BOOLEAN, NotifResponse(fd, q, b)
      PROVE  NotifsReach'
  <2>1. \A r \in ReqIDs : m_pending_notifications'[r] # None =>
          m_pending_notifications'[r] = m_pending_notifications[r]
    BY <1>0, <1>5 DEF NotifResponse, EraseNotification, TypeOK
  <2> QED BY <1>1, <2>1 DEF NotifsReach
<1> QED BY <1>2, <1>3, <1>4, <1>5, QuietSteps DEF QuietStep, vars, authVars

\* A handler leaves the TOTP thread where it is; only a test, the reading of the
\* descriptor and the end of a walk move it towards a session.
ThreadStays == totp'.pc = totp.pc /\ totp'.cur = totp.cur /\ totp'.fd = totp.fd

LEMMA ThreadSteps ==
  ASSUME TypeOK, [Next]_vars
  PROVE  \/ ThreadStays
         \/ totp'.pc \in {"sleep", "check"}
         \/ \E c \in Conns : Check(c)
         \/ Format
<1> USE DEF ThreadStays
<1>0. totp \in Thread
  BY DEF TypeOK
<1>1. ASSUME NEW c \in Conns, NEW p \in Peers, Accept(c, p)
      PROVE  ThreadStays
  BY <1>1 DEF Accept
<1>2. ASSUME NEW fd \in Fds, Disconnect(fd) \/ Handshake(fd) \/ LoseHandshake(fd)
      PROVE  ThreadStays
  BY <1>2 DEF Disconnect, Handshake, LoseHandshake
<1>3. ASSUME NEW fd, WritesPairs(fd) PROVE ThreadStays
  BY <1>0, <1>3 DEF WritesPairs, Thread
<1>4. ASSUME NEW fd \in Fds, FromAuthClient(fd)
      PROVE  ThreadStays
  BY <1>3, <1>4 DEF FromAuthClient, Login, Register, LogoutRequest, RequestCode, ExitSCS,
                    FinishPairing, NotifResponse
<1>5. ASSUME NEW fd \in Fds, FromDummyServer(fd)
      PROVE  ThreadStays
  BY <1>5 DEF FromDummyServer, PairRequest, RequestNotification, ValidateCode
<1>6. CASE TOTPThread
  <2>1. Wake => totp'.pc = "check"
    BY <1>0 DEF Wake, Thread
  <2>2. Send => totp'.pc = "check"
    BY DEF Send, Idle
  <2>3. PassDone => totp'.pc = "sleep"
    BY DEF PassDone, Idle
  <2> QED BY <1>6, <2>1, <2>2, <2>3 DEF TOTPThread
<1>7. CASE Restart
  BY <1>7 DEF Restart, EmptyMemory, Idle
<1>8. CASE UNCHANGED vars
  BY <1>8 DEF vars
<1> QED BY <1>1, <1>2, <1>4, <1>5, <1>6, <1>7, <1>8 DEF Next, MainThread

\* The TOTP thread reads the descriptor out of the object, which carries its own
\* while it is alive.
LEMMA ThreadReachesStep == IInv /\ AnswerInv /\ [Next]_vars => ThreadReaches'
<1> SUFFICES ASSUME IInv, AnswerInv, [Next]_vars PROVE ThreadReaches'
  OBVIOUS
<1>0. /\ TypeOK /\ TablesAgree /\ totp \in Thread /\ session \in [Conns -> Session]
      /\ totp.pc \in {"format", "send"} => totp.cur \in Conns
  BY DEF IInv, TypeOK
<1>1. CASE ThreadStays
  <2>1. ASSUME totp.pc \in {"format", "send"} PROVE peer'[totp'.cur] # None
    <3>1. PICK c \in Conns : c = totp.cur
      BY <1>0, <2>1
    <3>2. peer[c] # None
      BY <2>1, <3>1 DEF AnswerInv, ThreadReaches
    <3>3. peer'[c] # None
      BY <3>2, PeersStay
    <3> QED BY <1>1, <3>1, <3>3 DEF ThreadStays
  <2>2. ASSUME totp.pc = "send" PROVE Reached(totp.cur, totp.fd)'
    <3>1. PICK c \in Conns, fd \in Fds \cup {-1} : c = totp.cur /\ fd = totp.fd
      BY <1>0, <2>2 DEF Thread
    <3>2. peer[c] # None /\ Reached(c, fd)
      BY <2>2, <3>1 DEF AnswerInv, ThreadReaches
    <3>3. Reached(c, fd)'
      BY <3>2, ReachedKept
    <3> QED BY <1>1, <3>1, <3>3 DEF ThreadStays, Reached, Connected
  <2> QED BY <1>1, <2>1, <2>2 DEF ThreadStays, ThreadReaches
<1>2. CASE totp'.pc \in {"sleep", "check"}
  BY <1>2 DEF ThreadReaches
<1>3. ASSUME NEW c \in Conns, Check(c)
      PROVE  ThreadReaches'
  <2>1. CASE ~CanReceiveCode(session[c])
    <3>1. totp'.pc = "check"
      BY <1>0, <1>3, <2>1 DEF Check, Thread
    <3> QED BY <3>1 DEF ThreadReaches
  <2>2. CASE CanReceiveCode(session[c])
    <3>1. totp'.pc = "format" /\ totp'.cur = c /\ peer' = peer
      BY <1>0, <1>3, <2>2 DEF Check, Thread, connVars
    <3>2. Connected(c)
      BY <1>0, <2>2 DEF CanReceiveCode, TablesAgree, CarriesDescriptor
    <3>3. peer[c] # None
      BY <1>0, <3>2, SessionAssumption DEF Connected, TypeOK
    <3> QED BY <3>1, <3>3 DEF ThreadReaches
  <2> QED BY <2>1, <2>2
<1>4. CASE Format
  <2>1. PICK c \in Conns : c = totp.cur /\ peer[c] # None
    BY <1>0, <1>4 DEF Format, AnswerInv, ThreadReaches
  <2>2. UNCHANGED <<peer, m_client_sockets>> /\ totp.pc = "format"
    BY <1>4 DEF Format, connVars
  <2>3. totp'.cur = c
    BY <1>0, <1>4, <2>1 DEF Format, Thread
  <2>4. totp'.pc = "send" => totp'.fd = session[c].id
    BY <1>0, <1>4, <2>1, <2>2 DEF Format, Thread
  <2>5. Connected(c) => session[c].id \in Fds /\ m_client_sockets[session[c].id] = c
    BY <1>0 DEF TablesAgree, CarriesDescriptor, Open
  <2> QED BY <2>1, <2>2, <2>3, <2>4, <2>5 DEF ThreadReaches, Reached, Connected
<1> QED BY <1>0, <1>1, <1>2, <1>3, <1>4, ThreadSteps

\* What is sent to a descriptor that is its connection's reaches it.
LEMMA SentReaches ==
  ASSUME UNCHANGED m_client_sockets, NEW fd, NEW for, NEW cmd, Reached(for, fd),
         out' = SendCommand(fd, for, cmd)
  PROVE  AnswersReachTheirConnection'
BY DEF Reached, Connected, SendCommand, AnswersReachTheirConnection

\* Every step delivers to the connection meant.
LEMMA AnswersStep == IInv /\ AnswerInv /\ [Next]_vars => AnswersReachTheirConnection'
<1> SUFFICES ASSUME IInv, AnswerInv, [Next]_vars
             PROVE  AnswersReachTheirConnection'
  OBVIOUS
<1> USE DEF connVars
<1>0. TypeOK /\ m_sessions = m_client_sockets
  BY DEF IInv, TablesAgree
<1>a. out' = {} => AnswersReachTheirConnection'
  BY DEF AnswersReachTheirConnection
<1>b. ASSUME NEW fd, NEW cmd, Open(fd), Reply(fd, cmd), UNCHANGED m_client_sockets
      PROVE  AnswersReachTheirConnection'
  BY <1>b, SentReaches DEF Reply, Reached, Open
<1>1. ASSUME NEW c \in Conns, NEW p \in Peers, Accept(c, p)
      PROVE  out' = {}
  BY <1>1 DEF Accept
<1>2. ASSUME NEW fd \in Fds, Disconnect(fd) \/ Handshake(fd) \/ LoseHandshake(fd)
      PROVE  out' = {}
  BY <1>2 DEF Disconnect, Handshake, LoseHandshake
<1>3. ASSUME NEW fd \in Fds, FromAuthClient(fd)
      PROVE  AnswersReachTheirConnection'
  <2>0. UNCHANGED m_client_sockets /\ Open(fd)
    BY <1>3 DEF FromAuthClient, Login, Register, LogoutRequest, RequestCode, ExitSCS,
                FinishPairing, NotifResponse, FromAC, Merged, Reading
  <2>1. ASSUME NEW r \in ReqIDs, NEW b \in BOOLEAN, NotifResponse(fd, r, b)
        PROVE  AnswersReachTheirConnection'
    <3> DEFINE n == m_pending_notifications[r]
    <3>1. Reached(n.ds_conn, n.ds_fd)
      BY <2>1 DEF NotifResponse, AnswerInv, NotifsReach, NotifReaches
    <3>2. \E cmd : out' = SendCommand(n.ds_fd, n.ds_conn, cmd)
      BY <2>1 DEF NotifResponse
    <3> HIDE DEF n
    <3> QED BY <2>0, <3>1, <3>2, SentReaches
  <2>2. ASSUME NEW t \in Keys, FinishPairing(fd, t)
        PROVE  out' = {}
    BY <2>2 DEF FinishPairing
  <2>3. out' = {} \/ (\E cmd : Reply(fd, cmd))
          \/ \E r \in ReqIDs, b \in BOOLEAN : NotifResponse(fd, r, b)
    BY <1>3, <2>2 DEF FromAuthClient, Login, Register, LogoutRequest, RequestCode, ExitSCS
  <2> QED BY <1>a, <1>b, <2>0, <2>1, <2>3
<1>4. ASSUME NEW fd \in Fds, FromDummyServer(fd)
      PROVE  AnswersReachTheirConnection'
  <2>0. UNCHANGED m_client_sockets /\ Open(fd)
    BY <1>4, DummyServerFrame DEF FromDS, Reading
  <2>1. ASSUME NEW d \in DNames, RequestNotification(fd, d)
        PROVE  AnswersReachTheirConnection'
    <3>1. PICK ac_fd \in Fds : \E cmd : out' = SendCommand(ac_fd, m_sessions[ac_fd], cmd)
      BY <2>1 DEF RequestNotification
    <3>2. Reached(m_sessions[ac_fd], ac_fd)
      BY <1>0 DEF Reached
    <3> QED BY <2>0, <3>1, <3>2, SentReaches
  <2>2. (\E cmd : Reply(fd, cmd)) \/ \E d \in DNames : RequestNotification(fd, d)
    BY <1>4 DEF FromDummyServer, PairRequest, ValidateCode
  <2> QED BY <1>b, <2>0, <2>1, <2>2
<1>5. CASE TOTPThread
  <2>1. CASE Send
    BY <2>1, SentReaches DEF Send, AnswerInv, ThreadReaches
  <2>2. CASE ~Send
    BY <1>5, <1>a, <2>2 DEF TOTPThread, Wake, Check, Format, PassDone
  <2> QED BY <2>1, <2>2
<1>6. CASE Restart
  BY <1>6, <1>a DEF Restart, EmptyMemory
<1>7. CASE UNCHANGED vars
  BY <1>7 DEF vars, AnswerInv, AnswersReachTheirConnection, Connected
<1> QED BY <1>1, <1>2, <1>3, <1>4, <1>5, <1>6, <1>7, <1>a DEF Next, MainThread

\* Nothing is kept for later at first.
LEMMA InitAnswerInv == Init => AnswerInv
BY DEF Init, AnswerInv, NotifsReach, ThreadReaches, AnswersReachTheirConnection, Idle

\* Stored descriptors stand for their connections in every reachable state.
LEMMA AnswerInductive == Spec => []AnswerInv
<1>1. IInv /\ AnswerInv /\ [Next]_vars => AnswerInv'
  BY NotifsReachStep, ThreadReachesStep, AnswersStep DEF AnswerInv
<1> QED BY Inductive, InitAnswerInv, <1>1, PTL DEF Spec

\* As long as the connection a message was meant for is open, it is the one that
\* gets it: a descriptor that came back for another connection misleads only
\* what was meant for a closed one.
THEOREM AnswersAlwaysReach == Spec => []AnswersReachTheirConnection
<1>1. AnswerInv => AnswersReachTheirConnection
  BY DEF AnswerInv
<1> QED BY AnswerInductive, <1>1, PTL

-----------------------------------------------------------------------------
\* The refinement of Notification

\* The server starts with nobody connected, nothing stored and nothing asked.
LEMMA NotifPromiseInit == Init => NotifPromise!Init
<1> SUFFICES ASSUME Init PROVE NotifPromise!Init
  OBVIOUS
<1>1. {c \in Conns : Connected(c)} = {}
  BY SessionAssumption DEF Init, Connected
<1>2. {k \in DNames \X Apps : pairs[k] # None} = {}
  BY DEF Init, DatabaseInit
<1>3. drawn \cap ReqIDs = {} /\ PendingRequests = {} /\ Verdicts = {}
  BY DEF Init, PendingRequests, Verdicts
<1> QED BY <1>1, <1>2, <1>3 DEF NotifPromise!Init

\* A step that sends no answer tells nobody a verdict.
LEMMA NoVerdict ==
  ASSUME \A m \in out' : m.cmd.type # "NOTIF_LOGIN_RESP"
  PROVE  Verdicts' = {}
BY DEF Verdicts

\* Only the two kinds of requests draw a value.
LEMMA DrawSteps ==
  ASSUME [Next]_vars
  PROVE  \/ UNCHANGED drawn
         \/ \E fd \in Fds, d \in DNames : PairRequest(fd, d) \/ RequestNotification(fd, d)
<1> USE DEF authVars
<1>1. ASSUME NEW c \in Conns, NEW p \in Peers, Accept(c, p)
      PROVE  UNCHANGED drawn
  BY <1>1 DEF Accept
<1>2. ASSUME NEW fd \in Fds, Disconnect(fd) \/ Handshake(fd) \/ LoseHandshake(fd)
      PROVE  UNCHANGED drawn
  BY <1>2 DEF Disconnect, Handshake, LoseHandshake
<1>3. ASSUME NEW fd \in Fds, FromAuthClient(fd)
      PROVE  UNCHANGED drawn
  BY <1>3 DEF FromAuthClient, Login, Register, LogoutRequest, RequestCode, ExitSCS,
              FinishPairing, NotifResponse
<1>4. ASSUME NEW fd \in Fds, NEW code, NEW d, ValidateCode(fd, code, d)
      PROVE  UNCHANGED drawn
  BY <1>4 DEF ValidateCode
<1>5. CASE TOTPThread \/ Restart \/ UNCHANGED vars
  BY <1>5 DEF TOTPThread, Wake, Check, Format, Send, PassDone, Restart, vars
<1> QED BY <1>1, <1>2, <1>3, <1>4, <1>5 DEF Next, MainThread, FromDummyServer

\* A request under way has an id that was drawn: a new one is none of theirs.
AskedWasDrawn ==
    \A r \in ReqIDs : m_pending_notifications[r] # None => r \in drawn

\* Every step keeps that: no value drawn is ever forgotten.
LEMMA AskedStep == TypeOK /\ AskedWasDrawn /\ [Next]_vars => AskedWasDrawn'
<1> SUFFICES ASSUME TypeOK, AskedWasDrawn, [Next]_vars PROVE AskedWasDrawn'
  OBVIOUS
<1>1. drawn \subseteq drawn'
  <2>1. ASSUME NEW fd \in Fds, NEW d \in DNames, PairRequest(fd, d)
        PROVE  drawn \subseteq drawn'
    BY <2>1 DEF PairRequest, authVars
  <2>2. ASSUME NEW fd \in Fds, NEW d \in DNames, RequestNotification(fd, d)
        PROVE  drawn \subseteq drawn'
    BY <2>2 DEF RequestNotification
  <2> QED BY <2>1, <2>2, DrawSteps
<1>2. m_pending_notifications \in [ReqIDs -> Notification \cup {None}]
  BY DEF TypeOK
<1>3. CASE UNCHANGED m_pending_notifications
  BY <1>1, <1>3 DEF AskedWasDrawn
<1>4. CASE Restart
  BY <1>4 DEF Restart, EmptyMemory, AskedWasDrawn
<1>5. ASSUME NEW fd \in Fds, NEW d \in DNames, RequestNotification(fd, d)
      PROVE  AskedWasDrawn'
  <2>1. PICK r \in ReqIDs : \E n :
          /\ m_pending_notifications' = [m_pending_notifications EXCEPT ![r] = n]
          /\ drawn' = drawn \cup {r}
    BY <1>5 DEF RequestNotification
  <2> QED BY <1>2, <2>1 DEF AskedWasDrawn
<1>6. ASSUME NEW fd \in Fds, NEW r \in ReqIDs, NEW b \in BOOLEAN, NotifResponse(fd, r, b)
      PROVE  AskedWasDrawn'
  BY <1>1, <1>2, <1>6 DEF NotifResponse, EraseNotification, AskedWasDrawn
<1> QED BY <1>3, <1>4, <1>5, <1>6, QuietSteps DEF QuietStep, vars, authVars

\* Every pending request was drawn in every reachable state.
LEMMA AskedInductive == Spec => []AskedWasDrawn
<1>1. Init => AskedWasDrawn
  BY DEF Init, AskedWasDrawn
<1> QED BY TypeCorrect, AskedStep, <1>1, PTL DEF Spec

\* A connection that is accepted comes, one that is closed leaves; its requests
\* stay where they are.
LEMMA ConnectionsComeAndLeave ==
  ASSUME IInv,
         \/ \E c \in Conns, p \in Peers : Accept(c, p)
         \/ \E fd \in Fds : Disconnect(fd)
  PROVE  NotifPromise!Next
<1>0. m_client_sockets \in [Fds -> Conns \cup {None}] /\ TablesAgree
  BY DEF IInv, TypeOK
<1>1. /\ UNCHANGED <<pairs, drawn, m_pending_notifications>>
      /\ out' = {}
  BY DEF Accept, Disconnect, dbVars, authVars
<1>2. Verdicts' = {} /\ PendingRequests' = PendingRequests
  BY <1>1, NoVerdict DEF PendingRequests
<1>3. ASSUME NEW c \in Conns, NEW p \in Peers, Accept(c, p)
      PROVE  NotifPromise!Come(c)
  <2>1. PICK f \in Fds : ~Open(f) /\ m_client_sockets' = [m_client_sockets EXCEPT ![f] = c]
    BY <1>3 DEF Accept, HandleConnection
  <2>2. \A x \in Conns : Connected(x)' <=> Connected(x) \/ x = c
    BY <1>0, <2>1, SessionAssumption DEF Connected, Open
  <2>3. {x \in Conns : Connected(x)}' = {x \in Conns : Connected(x)} \cup {c}
    BY <2>2
  <2> QED BY <1>1, <1>2, <2>3 DEF NotifPromise!Come
<1>4. ASSUME NEW fd \in Fds, Disconnect(fd)
      PROVE  \E c \in Conns : NotifPromise!Leave(c)
  <2>1. PICK c \in Conns : m_client_sockets[fd] = c
    BY <1>0, <1>4 DEF Disconnect, Open
  <2>2. m_client_sockets' = [m_client_sockets EXCEPT ![fd] = None]
    BY <1>4 DEF Disconnect, HandleClose
  <2>3. \A x \in Conns : Connected(x)' <=> Connected(x) /\ x # c
    BY <1>0, <2>1, <2>2, SessionAssumption DEF Connected, TablesAgree, Open
  <2>4. {x \in Conns : Connected(x)}' = {x \in Conns : Connected(x)} \ {c}
    BY <2>3
  <2> QED BY <1>1, <1>2, <2>4 DEF NotifPromise!Leave
<1> QED BY <1>3, <1>4 DEF NotifPromise!Next

\* A pairing that is completed is an account that can be asked about.
LEMMA FinishPairingPairs ==
  ASSUME TypeOK, NEW fd \in Fds, NEW t \in Keys, FinishPairing(fd, t)
  PROVE  NotifPromise!Next
<1>1. /\ UNCHANGED <<m_client_sockets, drawn, m_pending_notifications>>
      /\ out' = {}
  BY DEF FinishPairing, connVars
<1>2. Verdicts' = {} /\ PendingRequests' = PendingRequests
  BY <1>1, NoVerdict DEF PendingRequests
<1>3. {c \in Conns : Connected(c)}' = {c \in Conns : Connected(c)}
  BY <1>1 DEF Connected
<1>4. CASE UNCHANGED pairs
  BY <1>1, <1>2, <1>3, <1>4 DEF NotifPromise!Quiet, NotifPromise!Next
<1>5. CASE ~UNCHANGED pairs
  <2>1. m_pending_pairings[t] \in Pending
    BY DEF FinishPairing, TypeOK
  <2>2. PICK d \in DNames, app \in Apps :
          m_pending_pairings[t] = [d_username |-> d, app_id |-> app]
    BY <2>1 DEF Pending
  <2>3. PICK a : PairUserReturns(a, d, app) /\ PairUser(a, d, app, t)
    BY <1>5, <2>2 DEF FinishPairing, dbVars
  <2> DEFINE k == <<d, app>>
             row == [a_username |-> a, totp_secret |-> t]
  <2>4. a \in UserNames /\ pairs' = [pairs EXCEPT ![k] = row]
    BY <1>5, <2>3 DEF PairUser, PairUserReturns, CanPair, Registered
  <2>5. row # None /\ k \in DNames \X Apps
    BY <2>4, DatabaseAssumption DEF Pair
  <2>6. \A j \in DNames \X Apps : pairs'[j] = IF j = k THEN row ELSE pairs[j]
    BY <2>4 DEF TypeOK, DatabaseTypeOK
  <2>7. {j \in DNames \X Apps : pairs[j] # None}' =
          {j \in DNames \X Apps : pairs[j] # None} \cup {k}
    <3> HIDE DEF k, row
    <3> QED BY <2>5, <2>6
  <2>8. NotifPromise!Pair(d, app)
    BY <1>1, <1>2, <1>3, <2>7 DEF NotifPromise!Pair
  <2> QED BY <2>8 DEF NotifPromise!Next
<1> QED BY <1>4, <1>5

\* A notification request is about a stored pairing and has a new id.
LEMMA NotificationAsks ==
  ASSUME IInv, AskedWasDrawn, NEW fd \in Fds, NEW d \in DNames, RequestNotification(fd, d)
  PROVE  NotifPromise!Next
<1>0. TypeOK /\ m_pending_notifications \in [ReqIDs -> Notification \cup {None}]
  BY DEF IInv, TypeOK
<1>1. PICK c \in Conns : c = m_client_sockets[fd]
  BY <1>0, ReadingFacts DEF RequestNotification, FromDS, Merged
<1>2. PICK app \in Apps, ac_fd \in Fds, r \in ReqIDs \ drawn :
        /\ RowOf(d, app) # None
        /\ m_pending_notifications' = [m_pending_notifications EXCEPT ![r] =
               [d_username |-> d, app_id |-> app, ds_fd |-> fd, ds_conn |-> c]]
        /\ drawn' = drawn \cup {r}
        /\ out' = SendCommand(ac_fd, m_sessions[ac_fd],
                      [type |-> "SEND_NOTIF", reqID |-> r, app_id |-> app])
  BY <1>1 DEF RequestNotification
<1> DEFINE n == [d_username |-> d, app_id |-> app, ds_fd |-> fd, ds_conn |-> c]
           q == [id |-> r, user |-> d, site |-> app, asker |-> c]
<1>3. n # None
  <2>1. n \in Notification
    BY DEF Notification
  <2> QED BY <2>1, AuthServerAssumption
<1>4. PendingRequests' = PendingRequests \cup {q}
  <2>1. \A x \in ReqIDs : m_pending_notifications'[x] =
                            IF x = r THEN n ELSE m_pending_notifications[x]
    BY <1>0, <1>2
  <2>2. m_pending_notifications[r] = None
    BY <1>2 DEF AskedWasDrawn
  <2> QED BY <1>3, <2>1, <2>2 DEF PendingRequests
<1>5. Verdicts' = {}
  BY <1>2, ReplyIsQuiet, NoVerdict
<1>6. UNCHANGED <<pairs, m_client_sockets>>
  BY DEF RequestNotification, dbVars, connVars
<1>7. <<d, app>> \in {k \in DNames \X Apps : pairs[k] # None}
  BY <1>2 DEF RowOf
<1>8. c \in {x \in Conns : Connected(x)}
  BY <1>1 DEF Connected
<1>9. {x \in Conns : Connected(x)}' = {x \in Conns : Connected(x)}
  BY <1>6 DEF Connected
<1>10. NotifPromise!Ask(r, d, app, c)
  BY <1>2, <1>4, <1>5, <1>6, <1>7, <1>8, <1>9 DEF NotifPromise!Ask
<1> QED BY <1>10 DEF NotifPromise!Next

\* The answer takes the request away; the descriptor stored with it still is
\* its asker's, or the asker has left.
LEMMA ResponseAnswers ==
  ASSUME IInv, AnswerInv, NEW fd \in Fds, NEW r \in ReqIDs, NEW b \in BOOLEAN,
         NotifResponse(fd, r, b)
  PROVE  NotifPromise!Next
<1>0. /\ m_pending_notifications \in [ReqIDs -> Notification \cup {None}]
      /\ m_client_sockets \in [Fds -> Conns \cup {None}]
  BY DEF IInv, TypeOK
<1>1. m_pending_notifications[r] \in Notification /\ m_pending_notifications[r] # None
  BY <1>0 DEF NotifResponse
<1>2. PICK d \in DNames, app \in Apps, ds_fd \in Fds, c \in Conns :
        m_pending_notifications[r] =
          [d_username |-> d, app_id |-> app, ds_fd |-> ds_fd, ds_conn |-> c]
  BY <1>1 DEF Notification
<1> DEFINE q == [id |-> r, user |-> d, site |-> app, asker |-> c]
           cmd == [type |-> "NOTIF_LOGIN_RESP", resp |-> b, reqID |-> r, d_username |-> d]
<1>3. q \in PendingRequests /\ PendingRequests' = PendingRequests \ {q}
  <2>1. \A x \in ReqIDs : m_pending_notifications'[x] =
                            IF x = r THEN None ELSE m_pending_notifications[x]
    BY <1>0 DEF NotifResponse, EraseNotification
  <2> QED BY <1>1, <1>2, <2>1 DEF PendingRequests
<1>4. out' = SendCommand(ds_fd, c, cmd)
  BY <1>2 DEF NotifResponse
<1>5. Reached(c, ds_fd)
  BY <1>1, <1>2 DEF AnswerInv, NotifsReach, NotifReaches
<1>6. UNCHANGED <<pairs, m_client_sockets, drawn>>
  BY DEF NotifResponse, dbVars, connVars
<1>7. {x \in Conns : Connected(x)}' = {x \in Conns : Connected(x)}
  BY <1>6 DEF Connected
<1>8. CASE Open(ds_fd)
  <2>1. PICK to \in Conns : to = m_client_sockets[ds_fd] /\ Connected(to)
    BY <1>0, <1>8 DEF Open, Connected
  <2>2. Connected(c) => to = c
    BY <1>5, <2>1 DEF Reached
  <2>3. out' = {[to |-> to, for |-> c, cmd |-> cmd]}
    BY <1>4, <1>8, <2>1 DEF SendCommand
  <2>4. Verdicts' = {[id |-> r, user |-> d, to |-> to]}
    <3> DEFINE m == [to |-> to, for |-> c, cmd |-> cmd]
    <3>1. /\ m.to = to /\ m.cmd.type = "NOTIF_LOGIN_RESP"
          /\ m.cmd.reqID = r /\ m.cmd.d_username = d
      OBVIOUS
    <3> HIDE DEF m, cmd
    <3> QED BY <2>3, <3>1 DEF Verdicts, m
  <2>5. NotifPromise!Tell(q, to)
    BY <2>4 DEF NotifPromise!Tell
  <2>6. NotifPromise!Answer(q)
    BY <1>3, <1>6, <1>7, <2>1, <2>2, <2>5 DEF NotifPromise!Answer
  <2> QED BY <1>3, <2>6 DEF NotifPromise!Next
<1>9. CASE ~Open(ds_fd)
  <2>1. ~Connected(c)
    BY <1>0, <1>5, <1>9, SessionAssumption DEF Reached, Open
  <2>2. Verdicts' = {}
    BY <1>4, <1>9, NoVerdict DEF SendCommand
  <2>3. NotifPromise!Answer(q)
    BY <1>3, <1>6, <1>7, <2>1, <2>2 DEF NotifPromise!Answer
  <2> QED BY <1>3, <2>3 DEF NotifPromise!Next
<1> QED BY <1>8, <1>9

\* Every step of the server is a step of Notification or changes nothing of it.
LEMMA NotifPromiseStep ==
  IInv /\ AnswerInv /\ AskedWasDrawn /\ [Next]_vars
    => [NotifPromise!Next]_(NotifPromise!vars)
<1> SUFFICES ASSUME IInv, AnswerInv, AskedWasDrawn, [Next]_vars
             PROVE  [NotifPromise!Next]_(NotifPromise!vars)
  OBVIOUS
<1>0. TypeOK
  BY DEF IInv
<1>1. CASE UNCHANGED vars
  BY <1>1 DEF vars, dbVars, connVars, authVars, NotifPromise!vars, PendingRequests,
              Verdicts, Connected
<1>2. CASE Restart
  <2>1. \A c \in Conns : ~Connected(c)'
    BY <1>2, SessionAssumption DEF Restart, EmptyMemory, Connected
  <2>2. {c \in Conns : Connected(c)}' = {}
    BY <2>1
  <2>3. PendingRequests' = {} /\ Verdicts' = {}
    BY <1>2 DEF Restart, EmptyMemory, PendingRequests, Verdicts
  <2>4. UNCHANGED <<pairs, drawn>>
    BY <1>2 DEF Restart, dbVars
  <2> QED BY <2>2, <2>3, <2>4 DEF NotifPromise!Forget, NotifPromise!Next
<1>3. ASSUME QuietStep, UNCHANGED <<pairs, m_client_sockets>>,
             drawn' \cap ReqIDs = drawn \cap ReqIDs
      PROVE  NotifPromise!Next
  <2>1. Verdicts' = {} /\ PendingRequests' = PendingRequests
    BY <1>3, NoVerdict DEF QuietStep, PendingRequests
  <2>2. {c \in Conns : Connected(c)}' = {c \in Conns : Connected(c)}
    BY <1>3 DEF Connected
  <2> QED BY <1>3, <2>1, <2>2 DEF NotifPromise!Quiet, NotifPromise!Next
<1>4. ASSUME NEW fd \in Fds, NEW d \in DNames, PairRequest(fd, d)
      PROVE  NotifPromise!Next
  <2>1. UNCHANGED <<pairs, m_client_sockets, m_pending_notifications>>
    BY <1>4 DEF PairRequest, dbVars, connVars, authVars
  <2>2. drawn' \cap ReqIDs = drawn \cap ReqIDs
    BY <1>4, AuthServerAssumption DEF PairRequest, authVars
  <2>3. \A m \in out' : m.cmd.type # "NOTIF_LOGIN_RESP"
    BY <1>4 DEF PairRequest, Reply, SendCommand, PairResp
  <2> QED BY <1>3, <2>1, <2>2, <2>3 DEF QuietStep
<1>5. CASE \E fd \in Fds, t \in Keys : FinishPairing(fd, t)
  BY <1>0, <1>5, FinishPairingPairs
<1>6. CASE \E fd \in Fds, d \in DNames : RequestNotification(fd, d)
  BY <1>6, NotificationAsks
<1>7. CASE \E fd \in Fds, r \in ReqIDs, b \in BOOLEAN : NotifResponse(fd, r, b)
  BY <1>7, ResponseAnswers
<1>8. CASE \/ \E c \in Conns, p \in Peers : Accept(c, p)
           \/ \E fd \in Fds : Disconnect(fd)
  BY <1>8, ConnectionsComeAndLeave
<1>9. CASE QuietStep /\ UNCHANGED <<m_client_sockets, drawn>> /\ PairingFrame
  BY <1>3, <1>9 DEF PairingFrame
<1> QED BY <1>1, <1>2, <1>4, <1>5, <1>6, <1>7, <1>8, <1>9,
           OtherSteps, SocketSteps, QuietSteps, DrawSteps

\* The server implements Notification: its pending requests, found again by id
\* and answered to a stored descriptor, across disconnections and restarts, are
\* asked about stored pairings, answered once, and told to who asked.
THEOREM NotificationRefinement == Spec => KeepsNotificationPromise
<1> QED BY Inductive, AnswerInductive, AskedInductive, NotifPromiseInit, NotifPromiseStep, PTL
        DEF Spec, KeepsNotificationPromise, NotifPromise!Spec

-----------------------------------------------------------------------------
\* Codes.  The TOTP thread may send what it read before a logout, so the claim is
\* about the main thread: MainSpec.

MainNext == MainThread \/ Restart

\* Of the main thread's steps only RequestCode sends codes.
LEMMA OnlyRequestCode ==
  ASSUME MainNext, ~\E fd \in Fds : RequestCode(fd)
  PROVE  \A m \in out' : m.cmd.type # "CODE_RESP"
<1>0. \A fd, for, cmd : out' = SendCommand(fd, for, cmd) /\ cmd.type # "CODE_RESP" =>
        \A m \in out' : m.cmd.type # "CODE_RESP"
  BY DEF SendCommand
<1>a. \A fd, cmd : Reply(fd, cmd) /\ cmd.type # "CODE_RESP" =>
        \A m \in out' : m.cmd.type # "CODE_RESP"
  BY <1>0 DEF Reply
<1>1. ASSUME NEW c \in Conns, NEW p \in Peers, Accept(c, p)
      PROVE  out' = {}
  BY <1>1 DEF Accept
<1>2. ASSUME NEW fd \in Fds, Disconnect(fd) \/ Handshake(fd) \/ LoseHandshake(fd)
      PROVE  out' = {}
  BY <1>2 DEF Disconnect, Handshake, LoseHandshake
<1>3. ASSUME NEW fd \in Fds, FromAuthClient(fd)
      PROVE  \A m \in out' : m.cmd.type # "CODE_RESP"
  <2>1. \A code : Err(code).type = "ERR"
    BY DEF Err
  <2>2. ASSUME NEW u \in UserNames, NEW p \in Passwords, Login(fd, u, p) \/ Register(fd, u, p)
        PROVE  \A m \in out' : m.cmd.type # "CODE_RESP"
    BY <1>a, <2>1, <2>2 DEF Login, Register
  <2>3. LogoutRequest(fd) => \A m \in out' : m.cmd.type # "CODE_RESP"
    BY <1>a, <2>1 DEF LogoutRequest
  <2>4. ASSUME NEW t \in Keys, ExitSCS(fd) \/ FinishPairing(fd, t)
        PROVE  out' = {}
    BY <2>4 DEF ExitSCS, FinishPairing
  <2>5. ASSUME NEW r \in ReqIDs, NEW b \in BOOLEAN, NotifResponse(fd, r, b)
        PROVE  \A m \in out' : m.cmd.type # "CODE_RESP"
    BY <1>0, <2>5 DEF NotifResponse
  <2>6. ExitSCS(fd) => out' = {}
    BY DEF ExitSCS
  <2> QED BY <1>3, <2>2, <2>3, <2>4, <2>5, <2>6 DEF FromAuthClient
<1>4. ASSUME NEW fd \in Fds, FromDummyServer(fd)
      PROVE  \A m \in out' : m.cmd.type # "CODE_RESP"
  <2>1. ASSUME NEW d \in DNames, PairRequest(fd, d)
        PROVE  \A m \in out' : m.cmd.type # "CODE_RESP"
    <3>1. \A t : PairResp(t, d).type = "PAIR_RESP"
      BY DEF PairResp
    <3> QED BY <1>a, <2>1, <3>1 DEF PairRequest
  <2>2. ASSUME NEW d \in DNames, RequestNotification(fd, d)
        PROVE  \A m \in out' : m.cmd.type # "CODE_RESP"
    BY <1>0, <2>2 DEF RequestNotification
  <2>3. ASSUME NEW code, NEW d, ValidateCode(fd, code, d)
        PROVE  \A m \in out' : m.cmd.type # "CODE_RESP"
    BY <1>a, <2>3 DEF ValidateCode
  <2> QED BY <1>4, <2>1, <2>2, <2>3 DEF FromDummyServer
<1>5. Restart => out' = {}
  BY DEF Restart, EmptyMemory
<1> QED BY <1>1, <1>2, <1>3, <1>4, <1>5 DEF MainNext, MainThread

\* A step of the main thread sends codes to their owner only: RequestCode answers
\* from the session it has just looked at, and that session agrees with the
\* database.
LEMMA CodesStep ==
  IInv /\ SessionInv /\ CodesReachTheirOwner /\ [MainNext]_vars => CodesReachTheirOwner'
<1> SUFFICES ASSUME IInv, SessionInv, CodesReachTheirOwner, [MainNext]_vars
             PROVE  CodesReachTheirOwner'
  OBVIOUS
<1>0. TypeOK /\ m_sessions = m_client_sockets /\ session \in [Conns -> Session]
  BY DEF IInv, TablesAgree, TypeOK
<1>1. ASSUME NEW fd \in Fds, RequestCode(fd)
      PROVE  CodesReachTheirOwner'
  <2>1. PICK c \in Conns : /\ m_sessions[fd] = c /\ m_client_sockets[fd] = c
                           /\ Known(fd) /\ session[c] \in Session
    BY <1>0, <1>1, ReadingFacts DEF RequestCode, FromAC, Known, Open
  <2>2. session'[c] = [session[c] EXCEPT !.isInCodeState = TRUE]
    BY <1>0, <1>1, <2>1 DEF RequestCode, SetIsInCodeState
  <2>3. /\ session'[c].isLogged = session[c].isLogged
        /\ session'[c].isInCodeState
        /\ session'[c].identity = session[c].identity
        /\ session'[c].secret_pairs = session[c].secret_pairs
    BY <2>1, <2>2 DEF Session
  <2>4. CASE ~CanReceiveCode(session'[c])
    <3>1. out' = {}
      BY <1>1, <2>1, <2>4 DEF RequestCode
    <3> QED BY <3>1 DEF CodesReachTheirOwner
  <2>5. CASE CanReceiveCode(session'[c])
    <3>1. out' = {[to |-> c, for |-> c, cmd |-> CodeResp(session'[c].secret_pairs)]}
      BY <1>1, <2>1, <2>5, SessionAssumption DEF RequestCode, Reply, SendCommand, Open, Known
    <3>2. session'[c].isLogged
      BY <2>5 DEF CanReceiveCode
    <3>3. UNCHANGED <<dbUp, pairs>>
      BY <1>1 DEF RequestCode, dbVars
    <3>4. ASSUME NEW app \in Apps, session'[c].secret_pairs[app] # None
          PROVE  Owns(session[c].identity, app, session[c].secret_pairs[app])'
      <4>1. Owns(session[c].identity, app, session[c].secret_pairs[app])
        BY <2>3, <3>4 DEF SessionInv, Fits
      <4> QED BY <2>3, <3>3, <4>1 DEF Owns, RowOf
    <3>5. \A m \in out' : m.to = c /\ m.cmd.codes = session'[c].secret_pairs
      BY <3>1 DEF CodeResp
    <3> QED BY <2>3, <3>2, <3>4, <3>5 DEF CodesReachTheirOwner, Owns, RowOf
  <2> QED BY <2>4, <2>5
<1>2. CASE MainNext /\ ~\E fd \in Fds : RequestCode(fd)
  BY <1>2, OnlyRequestCode DEF CodesReachTheirOwner
<1>3. CASE UNCHANGED vars
  BY <1>3 DEF vars, dbVars, CodesReachTheirOwner, Owns, RowOf
<1> QED BY <1>1, <1>2, <1>3

\* Codes go to a session that is logged in and viewing, and are codes of the
\* account logged in there, whatever the main thread does in between.
THEOREM CodesAlwaysReachOwner == MainSpec => []CodesReachTheirOwner
<1>1. [MainNext]_vars => [Next]_vars
  BY DEF MainNext, Next
<1>2. IInv /\ [Next]_vars => IInv'
  BY IInvTypeStep, IInvTablesStep, IInvPeersStep DEF IInv
<1>3. IInv => TypeOK
  BY DEF IInv
<1>4. Init => CodesReachTheirOwner
  BY DEF Init, CodesReachTheirOwner
<1>5. MainSpec => Init /\ [][MainNext]_vars
  BY DEF MainSpec, MainNext
<1> QED BY InitIInv, InitPairingInv, InitSessionInv, <1>1, <1>2, <1>3, <1>4, <1>5,
           PairingInvStep, SessionInvStep, CodesStep, PTL
=============================================================================
