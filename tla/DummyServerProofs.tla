-------------------------- MODULE DummyServerProofs --------------------------
(***************************************************************************)
(* Proofs about the Dummy Server: types, the agreement of its tables, the  *)
(* pointer to its link, and who gets a pairing token.                      *)
(***************************************************************************)
EXTENDS DummyServer, ConnectionProofs, SequenceTheorems

\* What TokensReachTheirUser needs to be inductive.  A session that carries a
\* name proved it, since only a login writes the identity of a client ...
NamesProved ==
    \A c \in Conns : session[c].identity # NoName
                        => session[c].identity \in proved[c]

\* ... and a pairing answer names somebody: the Auth Server makes no message
\* of a pairing request for the empty name.
AnswersNamed ==
    \A i \in DOMAIN fromAS : fromAS[i].type = "PAIR_RESP" => fromAS[i].name # NoName

IInv ==
    /\ TypeOK /\ TablesAgree /\ ClientHandlerLives
    /\ NamesProved /\ AnswersNamed /\ TokensReachTheirUser

-----------------------------------------------------------------------------
\* Initial states

\* A server that starts satisfies the invariant: nobody is connected.
LEMMA InitIInv == Init => IInv
<1> SUFFICES ASSUME Init PROVE IInv
  OBVIOUS
<1>1. TypeOK
  <2>1. DatabaseTypeOK
    BY DEF Init, DatabaseInit, DatabaseTypeOK
  <2>2. LinkTypeOK
    <3>1. 0 \in 0..0 /\ 0 \in 0..MaxLinks
      BY DummyServerAssumption
    <3> QED BY <3>1 DEF Init, LinkTypeOK
  <2>3. WireTypeOK
    BY DEF Init, WireTypeOK
  <2> QED BY <2>1, <2>2, <2>3, SessionValues DEF Init, TypeOK
<1>2. TablesAgree
  BY EmptyTablesAgree DEF Init
<1>3. NamesProved
  BY DEF Init, NamesProved, DeadSession, NewSession
<1> QED BY <1>1, <1>2, <1>3
        DEF Init, IInv, ClientHandlerLives, AnswersNamed, TokensReachTheirUser

-----------------------------------------------------------------------------
\* The link

\* Every action but a client's request and the Auth Server's leaves the wire as
\* it is or renews it, and the pointer moves together with the handler.
LinkInv == LinkTypeOK /\ WireTypeOK /\ ClientHandlerLives /\ AnswersNamed

\* The notification requests of a link that goes away are requests.
LEMMA OrphansType ==
  ASSUME LinkInv
  PROVE  Orphans \subseteq Notification
<1>1. toAS \in Seq(Request) /\ links \in 0..MaxLinks
  BY DEF LinkInv, LinkTypeOK, WireTypeOK
<1>2. ASSUME NEW i \in DOMAIN toAS
      PROVE  [name |-> toAS[i].name, for |-> toAS[i].for, link |-> links] \in Notification
  <2>1. toAS[i] \in Request
    BY <1>1
  <2> QED BY <1>1, <2>1 DEF Request, Notification
<1> QED BY <1>2 DEF Orphans

\* setupASHandler keeps the pointer with the handler, whether it throws or not.
LEMMA SetupKeepsLink ==
  ASSUME LinkInv, setupASHandler
  PROVE  LinkInv'
<1>1. CASE LinkMade
  <2>1. LinkTypeOK'
    <3>1. /\ links' = links + 1 /\ as_handler' = links' /\ client_handler' = links'
          /\ as_connected' = TRUE /\ refused' = FALSE
      BY <1>1 DEF LinkMade, NewLink
    <3>2. links + 1 \in 0..MaxLinks /\ links + 1 \in 0..(links + 1)
      BY <1>1, DummyServerAssumption DEF LinkMade, NewLink, LinkInv, LinkTypeOK
    <3> QED BY <3>1, <3>2 DEF LinkTypeOK
  <2>2. Orphans \subseteq Notification
    BY OrphansType
  <2>3. WireTypeOK'
    BY <1>1, <2>2 DEF LinkMade, NewLink, LinkInv, WireTypeOK
  <2> QED BY <1>1, <2>1, <2>3 DEF LinkMade, NewLink, LinkInv, ClientHandlerLives, AnswersNamed
<1>2. CASE LinkRefused
  BY <1>2 DEF LinkRefused, wireVars, LinkInv, LinkTypeOK, WireTypeOK, ClientHandlerLives,
              AnswersNamed
<1> QED BY <1>1, <1>2 DEF setupASHandler

\* A request of a client is one more request, or nothing.
LEMMA RelayKeepsLink ==
  ASSUME LinkInv, NEW fd \in Fds, Open(fd), m_client_sockets[fd] \in Conns,
         NEW type \in {"PAIR_REQ", "VALIDATE_CODE_SERVER", "REQ_NOTIF"},
         NEW n \in DSNames, Relay(fd, type, n)
  PROVE  LinkInv'
<1>1. LinkTypeOK' /\ ClientHandlerLives' /\ AnswersNamed' /\ UNCHANGED <<fromAS, notifs>>
  BY DEF Relay, linkVars, LinkInv, LinkTypeOK, ClientHandlerLives, AnswersNamed
<1> DEFINE r == [type |-> type, name |-> n, for |-> m_client_sockets[fd]]
<1>2. r \in Request
  BY DEF Request
<1>3. Append(toAS, r) \in Seq(Request)
  <2> HIDE DEF r
  <2> QED BY <1>2 DEF LinkInv, WireTypeOK
<1>4. toAS' \in {toAS, Append(toAS, r)} /\ wire' \in {wire, "fin"}
  BY DEF Relay
<1>5. WireTypeOK'
  <2> HIDE DEF r
  <2> QED BY <1>1, <1>3, <1>4 DEF LinkInv, WireTypeOK
<1> QED BY <1>1, <1>5 DEF LinkInv

\* The Auth Server's steps: a pairing answer it appends has a name.
LEMMA AuthServerKeepsLink ==
  ASSUME LinkInv, AuthServer
  PROVE  LinkInv'
<1>0. UNCHANGED linkVars
  BY DEF AuthServer, ASAnswers, ASMerges, ASStops, ASNotified, asVars
<1>1. LinkTypeOK' /\ ClientHandlerLives'
  BY <1>0 DEF linkVars, LinkInv, LinkTypeOK, ClientHandlerLives
<1>2. ASSUME NEW a \in Answer, a.type = "PAIR_RESP" => a.name # NoName,
             fromAS' = Append(fromAS, a)
      PROVE  fromAS' \in Seq(Answer) /\ AnswersNamed'
  <2>1. fromAS \in Seq(Answer) /\ AnswersNamed
    BY DEF LinkInv, WireTypeOK
  <2>2. /\ fromAS' \in Seq(Answer)
        /\ Len(fromAS') = Len(fromAS) + 1
        /\ \A i \in 1..Len(fromAS) : fromAS'[i] = fromAS[i]
        /\ fromAS'[Len(fromAS) + 1] = a
    BY <1>2, <2>1, AppendProperties
  <2>3. ASSUME NEW i \in DOMAIN fromAS', fromAS'[i].type = "PAIR_RESP"
        PROVE  fromAS'[i].name # NoName
    <3>1. i \in 1..(Len(fromAS) + 1) /\ Len(fromAS) \in Nat
      BY <2>1, <2>2
    <3>2. CASE i \in 1..Len(fromAS)
      BY <2>1, <2>2, <2>3, <3>2 DEF AnswersNamed
    <3>3. CASE i = Len(fromAS) + 1
      BY <1>2, <2>2, <2>3, <3>3
    <3> QED BY <3>1, <3>2, <3>3
  <2> QED BY <2>2, <2>3 DEF AnswersNamed
<1>3. ASSUME NEW r \in Request, ASTakes(r)
      PROVE  fromAS' \in Seq(Answer) /\ AnswersNamed' /\ notifs' \subseteq Notification
  <2>1. fromAS \in Seq(Answer) /\ AnswersNamed /\ notifs \subseteq Notification
    BY DEF LinkInv, WireTypeOK
  <2>2. CASE UNCHANGED <<fromAS, notifs>>
    BY <2>1, <2>2 DEF AnswersNamed
  <2>3. CASE /\ Answerable(r) /\ r.type # "REQ_NOTIF"
             /\ fromAS' = Append(fromAS, AnswerTo(r)) /\ UNCHANGED notifs
    <3>1. AnswerTo(r) \in Answer
      BY <1>3 DEF AnswerTo, Answer, Request
    <3>2. AnswerTo(r).type = "PAIR_RESP" => AnswerTo(r).name # NoName
      BY <2>3 DEF AnswerTo, Answerable
    <3> QED BY <1>2, <2>1, <2>3, <3>1, <3>2
  <2>4. CASE /\ notifs' \in {notifs, notifs \cup {[name |-> r.name, for |-> r.for,
                                                  link |-> links]}}
             /\ UNCHANGED fromAS
    <3>1. [name |-> r.name, for |-> r.for, link |-> links] \in Notification
      BY DEF Request, Notification, LinkInv, LinkTypeOK
    <3> QED BY <2>1, <2>4, <3>1 DEF AnswersNamed
  <2> QED BY <1>3, <2>2, <2>3, <2>4 DEF ASTakes
<1>4. CASE ASAnswers
  <2>1. Head(toAS) \in Request /\ toAS' \in Seq(Request)
    BY <1>4, HeadTailProperties DEF ASAnswers, LinkInv, WireTypeOK
  <2>2. wire' = wire /\ ASTakes(Head(toAS))
    BY <1>4 DEF ASAnswers
  <2> QED BY <1>1, <1>3, <2>1, <2>2 DEF LinkInv, WireTypeOK
<1>5. CASE ASMerges
  <2>1. PICK n \in 2..Len(toAS) :
          /\ toAS' = SubSeq(toAS, n + 1, Len(toAS))
          /\ \/ \E r \in Joined(toAS[1], toAS[2]) : ASTakes(r)
             \/ UNCHANGED <<fromAS, notifs>>
    BY <1>5 DEF ASMerges
  <2>2. toAS \in Seq(Request) /\ Len(toAS) \in Nat
    BY DEF LinkInv, WireTypeOK
  <2>3. toAS' \in Seq(Request)
    <3>1. n + 1 \in 1..(Len(toAS) + 1)
      BY <2>2
    <3> QED BY <2>1, <2>2, <3>1, SubSeqProperties
  <2>4. toAS[1] \in Request
    BY <2>2
  <2>5. Joined(toAS[1], toAS[2]) \subseteq Request
    BY <2>4 DEF Joined, Request
  <2>6. fromAS' \in Seq(Answer) /\ AnswersNamed' /\ notifs' \subseteq Notification
    <3>1. CASE UNCHANGED <<fromAS, notifs>>
      BY <3>1 DEF LinkInv, WireTypeOK, AnswersNamed
    <3> QED BY <1>3, <2>1, <2>5, <3>1
  <2> QED BY <1>1, <1>5, <2>3, <2>6 DEF ASMerges, LinkInv, WireTypeOK
<1>6. ASSUME NEW n \in notifs, ASNotified(n)
      PROVE  LinkInv'
  <2> DEFINE a == [type |-> "NOTIF_LOGIN_RESP", name |-> n.name, for |-> n.for]
  <2>1. a \in Answer /\ a.type # "PAIR_RESP"
    BY DEF LinkInv, WireTypeOK, Notification, Answer
  <2>2. /\ UNCHANGED <<wire, toAS>> /\ notifs' \subseteq notifs
        /\ fromAS' = Append(fromAS, a) \/ fromAS' = fromAS
    BY <1>6 DEF ASNotified
  <2>3. fromAS' \in Seq(Answer) /\ AnswersNamed'
    <3>1. CASE fromAS' = Append(fromAS, a)
      <4> HIDE DEF a
      <4> QED BY <1>2, <2>1, <3>1
    <3>2. CASE fromAS' = fromAS
      BY <3>2 DEF LinkInv, WireTypeOK, AnswersNamed
    <3> QED BY <2>2, <3>1, <3>2
  <2> QED BY <1>1, <2>2, <2>3 DEF LinkInv, WireTypeOK
<1>7. CASE ASStops
  BY <1>1, <1>7 DEF ASStops, LinkInv, WireTypeOK, AnswersNamed
<1> QED BY <1>4, <1>5, <1>6, <1>7 DEF AuthServer

\* A read takes answers from the front; what it took and what is left are
\* answers, and named if they are of pairings.
LEMMA HandleDataKeepsLink ==
  ASSUME LinkInv, HandleData
  PROVE  LinkInv' /\ read' \in Seq(Answer)
<1>1. LinkTypeOK' /\ ClientHandlerLives' /\ UNCHANGED <<toAS, notifs>>
  BY DEF HandleData, linkVars, LinkInv, LinkTypeOK, ClientHandlerLives
<1>2. fromAS \in Seq(Answer) /\ Len(fromAS) \in Nat
  BY DEF LinkInv, WireTypeOK
<1>3. ASSUME NEW n \in 1..Len(fromAS), read' = SubSeq(fromAS, 1, n),
             fromAS' = SubSeq(fromAS, n + 1, Len(fromAS)), wire' = wire
      PROVE  LinkInv' /\ read' \in Seq(Answer)
  <2>1. read' \in Seq(Answer)
    BY <1>2, <1>3, SubSeqProperties
  <2>2. /\ fromAS' \in Seq(Answer)
        /\ Len(fromAS') = Len(fromAS) - n
        /\ \A i \in 1..(Len(fromAS) - n) : fromAS'[i] = fromAS[n + i]
    BY <1>2, <1>3
  <2>3. AnswersNamed'
    <3> SUFFICES ASSUME NEW i \in DOMAIN fromAS', fromAS'[i].type = "PAIR_RESP"
                 PROVE  fromAS'[i].name # NoName
      BY DEF AnswersNamed
    <3>1. i \in 1..(Len(fromAS) - n)
      BY <2>2
    <3>2. n + i \in 1..Len(fromAS) /\ fromAS'[i] = fromAS[n + i]
      <4>1. fromAS'[i] = fromAS[n + i]
        BY <2>2, <3>1
      <4>2. n + i \in 1..Len(fromAS)
        BY <1>2, <1>3, <3>1
      <4> QED BY <4>1, <4>2
    <3> QED BY <1>2, <3>2 DEF LinkInv, AnswersNamed
  <2> QED BY <1>1, <1>3, <2>1, <2>2, <2>3 DEF LinkInv, WireTypeOK
<1>4. CASE /\ fromAS' = fromAS /\ read' = <<>>
           /\ wire' \in {wire, "closed"}
  BY <1>1, <1>4 DEF LinkInv, WireTypeOK, AnswersNamed
<1>5. \/ \E n \in 1..Len(fromAS) :
           /\ read' = SubSeq(fromAS, 1, n)
           /\ fromAS' = SubSeq(fromAS, n + 1, Len(fromAS))
           /\ wire' = wire
      \/ /\ fromAS' = fromAS /\ read' = <<>>
         /\ wire' \in {wire, "closed"}
  BY DEF HandleData
<1> QED BY <1>3, <1>4, <1>5

-----------------------------------------------------------------------------
\* The sessions

SessInv ==
    /\ TablesTypeOK /\ TablesAgree /\ NamesProved /\ DatabaseTypeOK
    /\ seen \subseteq Conns
    /\ \A fd \in Fds : m_client_sockets[fd] \in seen \cup {None}
    /\ proved \in [Conns -> SUBSET UserNames]

\* An open descriptor has a connection, and a session under the same number.
LEMMA OpenIsConn ==
  ASSUME TablesTypeOK, TablesAgree, NEW fd, Open(fd)
  PROVE  /\ fd \in Fds /\ Known(fd)
         /\ m_client_sockets[fd] \in Conns /\ m_sessions[fd] = m_client_sockets[fd]
BY DEF TablesTypeOK, TablesAgree, Open, Known

\* A step that leaves the connections and the sessions alone.
LEMMA SessionFrame ==
  ASSUME SessInv, UNCHANGED <<tableVars, session, seen, proved>>, DatabaseTypeOK'
  PROVE  SessInv'
<1>1. TablesAgree'
  BY TablesFrame DEF SessInv, tableVars
<1> QED BY <1>1 DEF SessInv, tableVars, TablesTypeOK, SessionTypeOK, NamesProved

\* A handler that uses the setters of its own session: it has to justify a new
\* name only.
LEMMA HandlerKeepsSessions ==
  ASSUME SessInv, NEW c \in Conns, UNCHANGED <<tableVars, seen>>, DatabaseTypeOK',
         session' \in [Conns -> Session],
         \A x \in Conns : session'[x].id = session[x].id
                            /\ session'[x].isValid = session[x].isValid,
         \A x \in Conns : x # c => session'[x] = session[x],
         proved' \in [Conns -> SUBSET UserNames],
         \A x \in Conns : proved[x] \subseteq proved'[x],
         session'[c].identity = session[c].identity \/ session'[c].identity \in proved'[c]
  PROVE  SessInv'
<1>1. TablesAgree'
  BY TablesFrame DEF SessInv, tableVars
<1>2. NamesProved'
  <2>1. ASSUME NEW x \in Conns, session'[x].identity # NoName
        PROVE  session'[x].identity \in proved'[x]
    <3>1. CASE session'[x].identity = session[x].identity
      BY <2>1, <3>1 DEF SessInv, NamesProved
    <3>2. CASE session'[x].identity # session[x].identity
      BY <3>2
    <3> QED BY <3>1, <3>2
  <2> QED BY <2>1 DEF NamesProved
<1> QED BY <1>1, <1>2 DEF SessInv, tableVars, TablesTypeOK, SessionTypeOK

\* A connection that is accepted starts without a name, one that is closed
\* keeps the name its login proved.
LEMMA ConnectionsKeepSessions ==
  ASSUME SessInv,
         \/ \E c \in Conns : Accept(c)
         \/ \E fd \in Fds : Disconnect(fd)
  PROVE  SessInv'
<1>0. TablesTypeOK /\ TablesAgree /\ NamesProved
  BY DEF SessInv
<1>1. ASSUME NEW c \in Conns, Accept(c)
      PROVE  SessInv'
  <2>1. \A g \in Fds : m_client_sockets[g] # c
    BY <1>1, SessionAssumption DEF SessInv, Accept
  <2>2. HandleConnection(c) /\ UNCHANGED <<dbVars, proved>> /\ seen' = seen \cup {c}
    BY <1>1 DEF Accept
  <2>3. TablesTypeOK' /\ TablesAgree'
    BY <1>0, <2>1, <2>2, ConnectionTypes, ConnectionKeepsTables
  <2>4. PICK fd \in Fds : /\ m_client_sockets' = [m_client_sockets EXCEPT ![fd] = c]
                          /\ session' = [session EXCEPT ![c] = NewSession(fd)]
    BY <2>2 DEF HandleConnection, AddSession
  <2>5. NewSession(fd).identity = NoName
    BY DEF NewSession
  <2>6. NamesProved'
    BY <1>0, <2>2, <2>4, <2>5 DEF NamesProved, TablesTypeOK, SessionTypeOK
  <2>7. \A f \in Fds : m_client_sockets'[f] \in seen' \cup {None}
    BY <2>2, <2>4 DEF SessInv, TablesTypeOK
  <2> QED BY <2>2, <2>3, <2>6, <2>7 DEF SessInv, dbVars, DatabaseTypeOK
<1>2. ASSUME NEW fd \in Fds, Disconnect(fd)
      PROVE  SessInv'
  <2>1. Open(fd) /\ HandleClose(fd) /\ UNCHANGED <<dbVars, seen, proved>>
    BY <1>2 DEF Disconnect
  <2>2. TablesTypeOK' /\ TablesAgree'
    BY <1>0, <2>1, CloseTypes, CloseKeepsTables
  <2>3. PICK c \in Conns :
          session' = [session EXCEPT ![c] = [@ EXCEPT !.isValid = FALSE, !.id = -1]]
    BY <1>0, <2>1, OpenIsConn DEF HandleClose, RemoveSession
  <2>4. session[c] \in Session
    BY <1>0 DEF TablesTypeOK, SessionTypeOK
  <2>5. \A x \in Conns : session'[x].identity = session[x].identity
    BY <1>0, <2>3, <2>4 DEF TablesTypeOK, SessionTypeOK, Session
  <2>6. NamesProved'
    BY <1>0, <2>1, <2>5 DEF NamesProved
  <2>7. \A f \in Fds : m_client_sockets'[f] \in seen' \cup {None}
    BY <2>1 DEF HandleClose, SessInv, TablesTypeOK
  <2> QED BY <2>1, <2>2, <2>6, <2>7 DEF SessInv, dbVars, DatabaseTypeOK
<1> QED BY <1>1, <1>2

\* The messages of a client.  Only a login that matched writes a name, and it
\* notes the password it was sent.
LEMMA ClientsKeepSessions ==
  ASSUME SessInv, NEW fd \in Fds, FromClient(fd)
  PROVE  SessInv'
<1> DEFINE c == m_client_sockets[fd]
<1>0. TablesTypeOK /\ SessionTypeOK /\ TablesAgree /\ DatabaseTypeOK
        /\ proved \in [Conns -> SUBSET UserNames]
  BY DEF SessInv, TablesTypeOK
<1>1. Open(fd) /\ UNCHANGED <<tableVars, seen>>
  BY DEF FromClient, Handling, Handshake, Login, Register, LogoutRequest, Relay,
         PairRequest, ValidateCode, RequestNotification
<1>2. Known(fd) /\ c \in Conns /\ m_sessions[fd] = c
  BY <1>0, <1>1, OpenIsConn
<1>3. session \in [Conns -> Session] /\ session[c] \in Session
  BY <1>0, <1>2 DEF SessionTypeOK
<1> HIDE DEF c
<1>4. CASE Handshake(fd)
  <2>1. session' = HandleHandshake(session, fd, "DUMMY_CLIENT", NoName)
    BY <1>4 DEF Handshake
  <2>2. "DUMMY_CLIENT" \in EntityTypes /\ NoName \in Apps
    BY DEF EntityTypes, Apps
  <2>3. session' \in [Conns -> Session]
    BY <1>0, <1>3, <2>1, <2>2, SetterTypes
  <2>4. /\ \A x \in Conns : session'[x].id = session[x].id
                              /\ session'[x].isValid = session[x].isValid
        /\ \A x \in Conns : x # c => session'[x] = session[x]
    BY <1>0, <1>2, <1>3, <2>1, <2>2, SetterFrame
  <2>5. session'[c].identity = session[c].identity
    BY <1>2, <1>3, <2>1 DEF HandleHandshake, Session
  <2>6. DatabaseTypeOK' /\ proved' = proved
    BY <1>0, <1>4 DEF Handshake, dbVars, DatabaseTypeOK
  <2> QED BY <1>0, <1>1, <1>2, <2>3, <2>4, <2>5, <2>6, HandlerKeepsSessions
<1>5. CASE LogoutRequest(fd)
  <2>1. DatabaseTypeOK' /\ proved' = proved
    BY <1>0, <1>5 DEF LogoutRequest, dbVars, DatabaseTypeOK
  <2>2. CASE session' = Logout(session, fd)
    <3>1. session' \in [Conns -> Session]
      BY <1>0, <1>3, <2>2, SetterTypes
    <3>2. /\ \A x \in Conns : session'[x].id = session[x].id
                                /\ session'[x].isValid = session[x].isValid
          /\ \A x \in Conns : x # c => session'[x] = session[x]
      BY <1>0, <1>2, <1>3, <2>2, SetterFrame
    <3>3. session'[c].identity = session[c].identity
      BY <1>0, <1>2, <1>3, <2>2, SetterFields
    <3> QED BY <1>0, <1>1, <1>2, <2>1, <3>1, <3>2, <3>3, HandlerKeepsSessions
  <2>3. CASE UNCHANGED session
    BY <1>1, <2>1, <2>3, SessionFrame
  <2> QED BY <1>5, <2>2, <2>3 DEF LogoutRequest
<1>6. ASSUME NEW u \in UserNames, NEW p \in Passwords, Register(fd, u, p)
      PROVE  SessInv'
  <2>1. UNCHANGED <<session, proved>>
    BY <1>6 DEF Register
  <2>2. DatabaseTypeOK'
    BY <1>0, <1>6 DEF Register, CreateUser, DatabaseTypeOK, dbVars
  <2> QED BY <1>1, <2>1, <2>2, SessionFrame
<1>7. ASSUME NEW u \in UserNames, NEW p \in Passwords, Login(fd, u, p)
      PROVE  SessInv'
  <2>1. DatabaseTypeOK'
    BY <1>0, <1>7 DEF Login, dbVars, DatabaseTypeOK
  <2>2. CASE UNCHANGED <<session, proved>>
    BY <1>1, <2>1, <2>2, SessionFrame
  <2>3. CASE /\ session' = SetIdentity(SetIsLogged(session, fd, TRUE), fd, u)
             /\ proved' = [proved EXCEPT ![m_client_sockets[fd]] = @ \cup {u}]
    <3> DEFINE s == SetIsLogged(session, fd, TRUE)
    <3>1. s \in [Conns -> Session] /\ u \in Names
      BY <1>0, <1>3, SetterTypes DEF Names
    <3>2. /\ \A x \in Conns : s[x].id = session[x].id /\ s[x].isValid = session[x].isValid
          /\ \A x \in Conns : x # c => s[x] = session[x]
      <4>1. \E b \in BOOLEAN : s = SetIsLogged(session, fd, b)
        OBVIOUS
      <4> HIDE DEF s
      <4> QED BY <1>0, <1>2, <1>3, <4>1, SetterFrame
    <3>3. session' = SetIdentity(s, fd, u)
      BY <2>3
    <3> HIDE DEF s
    <3>4. session' \in [Conns -> Session]
      BY <1>0, <3>1, <3>3, SetterTypes
    <3>5. /\ \A x \in Conns : session'[x].id = s[x].id /\ session'[x].isValid = s[x].isValid
          /\ \A x \in Conns : x # c => session'[x] = s[x]
      BY <1>0, <1>2, <3>1, <3>3, SetterFrame
    <3>6. session'[c].identity = u
      BY <1>0, <1>2, <3>1, <3>3, SetterFields
    <3>7. proved' = [proved EXCEPT ![c] = proved[c] \cup {u}]
      BY <2>3 DEF c
    <3>8. /\ proved' \in [Conns -> SUBSET UserNames]
          /\ \A x \in Conns : proved[x] \subseteq proved'[x]
          /\ u \in proved'[c]
      BY <1>0, <1>2, <3>7
    <3> QED BY <1>0, <1>1, <1>2, <2>1, <3>2, <3>4, <3>5, <3>6, <3>8, HandlerKeepsSessions
  <2>4. CASE session' = SetIsLogged(session, fd, FALSE) /\ UNCHANGED proved
    <3>1. session' \in [Conns -> Session]
      BY <1>0, <1>3, <2>4, SetterTypes
    <3>2. /\ \A x \in Conns : session'[x].id = session[x].id
                                /\ session'[x].isValid = session[x].isValid
          /\ \A x \in Conns : x # c => session'[x] = session[x]
      <4>1. \E b \in BOOLEAN : session' = SetIsLogged(session, fd, b)
        BY <2>4
      <4> QED BY <1>0, <1>2, <1>3, <4>1, SetterFrame
    <3>3. session'[c].identity = session[c].identity
      BY <1>0, <1>2, <1>3, <2>4, SetterFields
    <3> QED BY <1>0, <1>1, <1>2, <2>1, <2>4, <3>1, <3>2, <3>3, HandlerKeepsSessions
  <2> QED BY <1>7, <2>2, <2>3, <2>4 DEF Login
<1>8. ASSUME NEW type, NEW n, Relay(fd, type, n)
      PROVE  SessInv'
  <2>1. UNCHANGED <<session, proved>> /\ DatabaseTypeOK'
    BY <1>0, <1>8 DEF Relay, dbVars, DatabaseTypeOK
  <2> QED BY <1>1, <2>1, SessionFrame
<1> QED BY <1>4, <1>5, <1>6, <1>7, <1>8
        DEF FromClient, PairRequest, ValidateCode, RequestNotification

-----------------------------------------------------------------------------
\* The invariant

\* A step that leaves the link alone, but for main() noticing its loss.
LEMMA LinkFrame ==
  ASSUME LinkInv, UNCHANGED <<as_handler, client_handler, links, refused, wireVars>>,
         as_connected' = as_connected \/ as_connected' = FALSE
  PROVE  LinkInv'
<1>1. as_connected' \in BOOLEAN
  BY DEF LinkInv, LinkTypeOK
<1>2. LinkTypeOK'
  BY <1>1 DEF LinkInv, LinkTypeOK
<1>3. WireTypeOK' /\ ClientHandlerLives' /\ AnswersNamed'
  BY DEF wireVars, LinkInv, WireTypeOK, ClientHandlerLives, AnswersNamed
<1> QED BY <1>2, <1>3 DEF LinkInv

\* Every step keeps the link.
LEMMA LinkStep ==
  ASSUME IInv, [Next]_vars
  PROVE  LinkInv' /\ read' \in Seq(Answer)
<1>0. LinkInv /\ read \in Seq(Answer)
  BY DEF IInv, TypeOK, LinkInv
<1>1. CASE Start \/ Reconnect
  <2>1. setupASHandler /\ read' = <<>>
    BY <1>1 DEF Start, Reconnect
  <2> QED BY <1>0, <2>1, SetupKeepsLink
<1>2. CASE Restart
  <2>1. Orphans \subseteq Notification
    BY <1>0, OrphansType
  <2>2. LinkTypeOK' /\ ClientHandlerLives'
    <3>1. /\ links' = links /\ as_handler' = 0 /\ client_handler' = 0
          /\ as_connected' = FALSE /\ refused' = FALSE
      BY <1>2 DEF Restart
    <3>2. links \in 0..MaxLinks /\ 0 \in 0..links
      BY <1>0, DummyServerAssumption DEF LinkInv, LinkTypeOK
    <3> QED BY <3>1, <3>2 DEF LinkTypeOK, ClientHandlerLives
  <2>3. WireTypeOK' /\ AnswersNamed' /\ read' = <<>>
    BY <1>0, <1>2, <2>1 DEF Restart, LinkInv, WireTypeOK, AnswersNamed
  <2> QED BY <2>2, <2>3 DEF LinkInv
<1>3. CASE NoticeLoss
  <2>1. /\ as_connected' = FALSE /\ read' = <<>>
        /\ UNCHANGED <<as_handler, client_handler, links, refused, wireVars>>
    BY <1>3 DEF NoticeLoss
  <2>2. LinkInv'
    BY <1>0, <2>1, LinkFrame
  <2>3. read' \in Seq(Answer)
    BY <2>1
  <2> QED BY <2>2, <2>3
<1>4. CASE HandleData
  BY <1>0, <1>4, HandleDataKeepsLink
<1>5. CASE AuthServer
  <2>1. read' = <<>>
    BY <1>5 DEF AuthServer, ASAnswers, ASMerges, ASNotified, ASStops
  <2> QED BY <1>0, <1>5, <2>1, AuthServerKeepsLink
<1>6. CASE UNCHANGED <<linkVars, wireVars>> /\ (read' = <<>> \/ read' = read)
  <2>1. LinkInv'
    BY <1>0, <1>6, LinkFrame DEF linkVars
  <2>2. read' \in Seq(Answer)
    <3>1. read' = <<>> \/ read' = read
      BY <1>6
    <3>2. <<>> \in Seq(Answer)
      OBVIOUS
    <3> QED BY <1>0, <3>1, <3>2
  <2> QED BY <2>1, <2>2
<1>7. ASSUME NEW fd \in Fds, FromClient(fd)
      PROVE  LinkInv' /\ read' \in Seq(Answer)
  <2>1. ASSUME NEW type \in {"PAIR_REQ", "VALIDATE_CODE_SERVER", "REQ_NOTIF"},
               NEW n \in DSNames, Relay(fd, type, n)
        PROVE  LinkInv' /\ read' \in Seq(Answer)
    <3>1. Open(fd) /\ read' = <<>>
      BY <2>1 DEF Relay, Handling
    <3>2. m_client_sockets[fd] \in Conns
      BY <3>1 DEF IInv, TypeOK, Open
    <3> QED BY <1>0, <2>1, <3>1, <3>2, RelayKeepsLink
  <2>2. CASE PairRequest(fd) \/ ValidateCode(fd)
    <3>1. \A x \in Conns : session[x].identity \in DSNames
      BY DEF IInv, NamesProved, TypeOK, DSNames
    <3>2. Known(fd) => m_sessions[fd] \in Conns
      BY DEF IInv, TypeOK, Known
    <3>3. GetIdentity(fd) \in DSNames
      BY <3>1, <3>2 DEF GetIdentity, DSNames
    <3> QED BY <2>1, <2>2, <3>3 DEF PairRequest, ValidateCode
  <2>3. ASSUME NEW n \in DSNames, RequestNotification(fd, n)
        PROVE  LinkInv' /\ read' \in Seq(Answer)
    BY <2>1, <2>3 DEF RequestNotification
  <2>4. CASE Handshake(fd) \/ LogoutRequest(fd)
    BY <1>6, <2>4 DEF Handshake, LogoutRequest, Handling
  <2>5. ASSUME NEW u, NEW p, Login(fd, u, p) \/ Register(fd, u, p)
        PROVE  LinkInv' /\ read' \in Seq(Answer)
    BY <1>6, <2>5 DEF Login, Register, Handling
  <2> QED BY <1>7, <2>2, <2>3, <2>4, <2>5 DEF FromClient
<1>8. ASSUME \/ \E c \in Conns : Accept(c)
             \/ \E fd \in Fds : Disconnect(fd)
             \/ UNCHANGED vars
      PROVE  LinkInv' /\ read' \in Seq(Answer)
  BY <1>6, <1>8 DEF Accept, Disconnect, vars
<1> QED BY <1>1, <1>2, <1>3, <1>4, <1>5, <1>7, <1>8 DEF Next, Loop

\* Every step keeps the sessions.
LEMMA SessionStep ==
  ASSUME IInv, [Next]_vars
  PROVE  SessInv'
<1>0. SessInv
  BY DEF IInv, TypeOK, SessInv, TablesTypeOK, SessionTypeOK
<1>1. CASE UNCHANGED <<tableVars, session, dbVars, seen, proved>>
  <2>1. DatabaseTypeOK'
    BY <1>0, <1>1 DEF SessInv, dbVars, DatabaseTypeOK
  <2> QED BY <1>0, <1>1, <2>1, SessionFrame
<1>2. CASE Start \/ Reconnect \/ Loop \/ AuthServer \/ UNCHANGED vars
  BY <1>1, <1>2 DEF Start, Reconnect, Loop, HandleData, NoticeLoss, AuthServer, ASAnswers,
                    ASMerges, ASNotified, ASStops, asVars, vars
<1>3. CASE Restart
  <2>1. TablesTypeOK' /\ TablesAgree'
    BY <1>3, SessionValues, NewTablesAgree DEF Restart, TablesTypeOK, SessionTypeOK
  <2>2. NamesProved'
    BY <1>3 DEF Restart, NamesProved, DeadSession, NewSession
  <2>3. DatabaseTypeOK' /\ UNCHANGED <<seen, proved>>
    BY <1>0, <1>3 DEF Restart, SessInv, dbVars, DatabaseTypeOK
  <2>4. \A fd \in Fds : m_client_sockets'[fd] \in seen' \cup {None}
    BY <1>3 DEF Restart
  <2> QED BY <1>0, <2>1, <2>2, <2>3, <2>4 DEF SessInv
<1>4. CASE \/ \E c \in Conns : Accept(c)
           \/ \E fd \in Fds : Disconnect(fd)
  BY <1>0, <1>4, ConnectionsKeepSessions
<1>5. ASSUME NEW fd \in Fds, FromClient(fd)
      PROVE  SessInv'
  BY <1>0, <1>5, ClientsKeepSessions
<1> QED BY <1>2, <1>3, <1>4, <1>5 DEF Next

\* A reply goes to the connection of the descriptor, if there is one.
LEMMA SendTypes ==
  ASSUME TablesTypeOK, NEW fd, NEW for \in Conns, NEW cmd \in Command
  PROVE  /\ SendCommand(fd, for, cmd) \subseteq Message
         /\ \A m \in SendCommand(fd, for, cmd) :
              m.cmd = cmd /\ Open(fd) /\ m.to = m_client_sockets[fd]
<1>1. Open(fd) => m_client_sockets[fd] \in Conns
  BY DEF TablesTypeOK, Open
<1> QED BY <1>1 DEF SendCommand, Message

\* What a login, a registration and a logout answer is no pairing answer.
LEMMA RepliesAreCommands ==
  /\ \A code \in {300, 301, 302, 303} : Err(code) \in Command /\ Err(code).type # "PAIR_RESP"
  /\ \A type \in {"LOGIN_RESP", "REGISTER_RESP"}, n \in DSNames :
       Named(type, n) \in Command /\ Named(type, n).type # "PAIR_RESP"
BY DEF Err, Named, Command

OutOK ==
    up \in {"starting", "up", "segv_null", "length_error"}
      /\ out \subseteq Message /\ TokensReachTheirUser

\* An answer read from the Auth Server goes to a session that carries its name;
\* a pairing answer has a name, and who carries a name has proved it.
LEMMA AnswersKeepOut ==
  ASSUME IInv, HandleData
  PROVE  OutOK'
<1>0. TablesTypeOK /\ TablesAgree /\ NamesProved /\ AnswersNamed /\ fromAS \in Seq(Answer)
  BY DEF IInv, TypeOK, TablesTypeOK, SessionTypeOK, WireTypeOK
<1>1. proved' = proved /\ up' \in {up, "length_error"}
  BY DEF HandleData
<1>2. CASE out' = {}
  BY <1>1, <1>2 DEF IInv, TypeOK, OutOK, TokensReachTheirUser
<1>3. CASE Len(fromAS) >= 1 /\ Execute(Head(fromAS))
  <2> DEFINE r == Head(fromAS)
  <2>1. r \in Answer /\ (r.type = "PAIR_RESP" => r.name # NoName)
    <3>1. 1 \in DOMAIN fromAS /\ r = fromAS[1]
      BY <1>0, <1>3
    <3> QED BY <1>0, <3>1 DEF AnswersNamed
  <2> HIDE DEF r
  <2>2. PICK fd \in Fds \cup {-1} :
          /\ IsIDFromUsername(fd, r.name)
          /\ out' = SendCommand(fd, r.for, Named(CommandFor(r.type), r.name))
    BY <1>3 DEF Execute, r
  <2> DEFINE cmd == Named(CommandFor(r.type), r.name)
  <2>3. cmd \in Command /\ r.for \in Conns /\ cmd.name = r.name
          /\ (cmd.type = "PAIR_RESP" => r.type = "PAIR_RESP")
    BY <2>1 DEF Named, CommandFor, Answer, Command
  <2>4. out' = SendCommand(fd, r.for, cmd)
    BY <2>2
  <2> HIDE DEF cmd
  <2>5. /\ SendCommand(fd, r.for, cmd) \subseteq Message
        /\ \A m \in SendCommand(fd, r.for, cmd) :
             m.cmd = cmd /\ Open(fd) /\ m.to = m_client_sockets[fd]
    BY <1>0, <2>3, SendTypes
  <2>6. out' \subseteq Message
    BY <2>4, <2>5
  <2>7. ASSUME NEW m \in out', m.cmd.type = "PAIR_RESP"
        PROVE  m.cmd.name \in proved[m.to]
    <3>1. m.cmd = cmd /\ Open(fd) /\ m.to = m_client_sockets[fd]
      BY <2>7, <2>4, <2>5
    <3>2. fd \in Fds /\ m.to \in Conns /\ m_sessions[fd] = m.to
      BY <1>0, <3>1, OpenIsConn
    <3>3. fd # -1
      BY <3>2, SessionAssumption
    <3>4. session[m.to].identity = r.name
      BY <2>2, <3>2, <3>3 DEF IsIDFromUsername
    <3>5. r.name # NoName
      BY <2>1, <2>3, <2>7, <3>1
    <3> QED BY <1>0, <2>3, <3>1, <3>2, <3>4, <3>5 DEF NamesProved
  <2> QED BY <1>1, <2>6, <2>7 DEF IInv, TypeOK, OutOK, TokensReachTheirUser
<1> QED BY <1>2, <1>3, <1>0 DEF HandleData

\* Every step sends messages, and tokens to who has proved the name.
LEMMA OutStep ==
  ASSUME IInv, [Next]_vars
  PROVE  OutOK'
<1>0. TablesTypeOK /\ TablesAgree
  BY DEF IInv, TypeOK, TablesTypeOK, SessionTypeOK
<1>1. CASE out' = {} /\ up' \in {up, "starting", "up", "segv_null"}
  BY <1>1 DEF IInv, TypeOK, OutOK, TokensReachTheirUser
<1>2. CASE UNCHANGED vars
  BY <1>2 DEF vars, IInv, TypeOK, OutOK, TokensReachTheirUser
<1>3. CASE Start \/ Reconnect \/ NoticeLoss \/ AuthServer \/ Restart
  BY <1>1, <1>3 DEF Start, Reconnect, NoticeLoss, AuthServer, ASAnswers, ASMerges,
                    ASNotified, ASStops, asVars, Restart
<1>4. CASE \/ \E c \in Conns : Accept(c)
           \/ \E fd \in Fds : Disconnect(fd)
  BY <1>1, <1>4 DEF Accept, Disconnect
<1>5. CASE HandleData
  BY <1>5, AnswersKeepOut
<1>6. ASSUME NEW fd \in Fds, FromClient(fd)
      PROVE  OutOK'
  <2>1. ASSUME NEW cmd \in Command, cmd.type # "PAIR_RESP", Reply(fd, cmd),
               Handling(fd), up' = up
        PROVE  OutOK'
    <3>1. m_client_sockets[fd] \in Conns
      BY <1>0, <2>1, OpenIsConn DEF Handling
    <3>2. out' = SendCommand(fd, m_client_sockets[fd], cmd)
      BY <2>1 DEF Reply
    <3>3. /\ SendCommand(fd, m_client_sockets[fd], cmd) \subseteq Message
          /\ \A m \in SendCommand(fd, m_client_sockets[fd], cmd) :
               m.cmd = cmd /\ Open(fd) /\ m.to = m_client_sockets[fd]
      BY <1>0, <2>1, <3>1, SendTypes
    <3>4. out' \subseteq Message /\ \A m \in out' : m.cmd.type # "PAIR_RESP"
      BY <2>1, <3>2, <3>3
    <3> QED BY <2>1, <3>4 DEF IInv, TypeOK, OutOK, TokensReachTheirUser
  <2>2. ASSUME NEW type, NEW n, Relay(fd, type, n)
        PROVE  OutOK'
    BY <1>1, <2>2 DEF Relay
  <2>3. ASSUME NEW u \in UserNames, NEW p \in Passwords, Login(fd, u, p) \/ Register(fd, u, p)
        PROVE  OutOK'
    <3>1. Handling(fd) /\ up' = up /\ u \in DSNames
      BY <2>3 DEF Login, Register, DSNames
    <3>2. \/ \E code \in {300, 301, 302, 303} : Reply(fd, Err(code))
          \/ \E type \in {"LOGIN_RESP", "REGISTER_RESP"} : Reply(fd, Named(type, u))
      BY <2>3 DEF Login, Register
    <3> QED BY <2>1, <3>1, <3>2, RepliesAreCommands
  <2>4. CASE LogoutRequest(fd)
    <3>1. Handling(fd) /\ up' = up /\ (out' = {} \/ Reply(fd, Err(303)))
      BY <2>4 DEF LogoutRequest
    <3> QED BY <1>1, <2>1, <3>1, RepliesAreCommands
  <2>5. CASE Handshake(fd)
    BY <1>1, <2>5 DEF Handshake
  <2> QED BY <1>6, <2>2, <2>3, <2>4, <2>5
          DEF FromClient, PairRequest, ValidateCode, RequestNotification
<1> QED BY <1>2, <1>3, <1>4, <1>5, <1>6 DEF Next, Loop

\* A sequence of one element.
LEMMA OneElement ==
  ASSUME NEW S, NEW s \in Seq(S), Len(s) = 1
  PROVE  s # <<>> /\ s[1] \in S
<1>1. 1 \in 1..Len(s)
  OBVIOUS
<1>2. s[1] \in S
  BY <1>1
<1>3. Len(<<>>) = 0
  OBVIOUS
<1>4. s # <<>>
  <2>1. SUFFICES ASSUME s = <<>> PROVE FALSE
    OBVIOUS
  <2>2. Len(s) = 0
    BY <1>3, <2>1, Zenon
  <2> QED BY <2>2
<1> QED BY <1>2, <1>4

\* An answer that is read by itself reaches the one session that carries its name:
\* IsIDFromUsername finds a session that carries it, and there is no other.
LEMMA AnswerFindsCarrier ==
  ASSUME IInv, HandleData, Len(read') = 1,
         NEW c \in Conns, NEW n, n = read'[1].name, SoleCarrier(c, n)'
  PROVE  \E m \in out' : m.to = c
<1>0. /\ TablesTypeOK /\ TablesAgree /\ fromAS \in Seq(Answer)
      /\ UNCHANGED <<session, m_client_sockets>>
  BY DEF IInv, TypeOK, TablesTypeOK, SessionTypeOK, WireTypeOK, HandleData, tableVars
<1>a. read' # <<>>
  BY LinkStep, OneElement DEF Next, Loop
<1>1. PICK k \in 1..Len(fromAS) :
        /\ read' = SubSeq(fromAS, 1, k)
        /\ IF k = 1 THEN Execute(Head(fromAS)) ELSE out' = {}
  BY <1>a DEF HandleData
<1>2. k = 1
  <2>1. Len(SubSeq(fromAS, 1, k)) = k
    BY <1>0, <1>1
  <2> QED BY <1>1, <2>1
<1> DEFINE r == Head(fromAS)
<1>3. n = r.name
  <2>1. SubSeq(fromAS, 1, 1)[1] = fromAS[1] /\ Head(fromAS) = fromAS[1]
    BY <1>0, <1>1, <1>2
  <2> QED BY <1>1, <1>2, <2>1
<1>4. PICK fd \in Fds \cup {-1} :
        /\ IsIDFromUsername(fd, r.name)
        /\ out' = SendCommand(fd, r.for, Named(CommandFor(r.type), r.name))
  BY <1>1, <1>2 DEF Execute
<1> HIDE DEF r
<1>5. /\ Connected(c) /\ session[c].identity = n
      /\ \A d \in Conns \ {c} : Connected(d) => session[d].identity # n
  BY <1>0 DEF SoleCarrier, Connected
<1>6. PICK f \in Fds : m_client_sockets[f] = c
  BY <1>5 DEF Connected
<1>7. Known(f) /\ session[m_sessions[f]].identity = n
  BY <1>0, <1>5, <1>6, SessionAssumption DEF Known, TablesAgree
<1>8. fd \in Fds /\ Known(fd) /\ session[m_sessions[fd]].identity = n
  BY <1>3, <1>4, <1>7, SessionAssumption DEF IsIDFromUsername
<1>9. m_sessions[fd] \in Conns /\ Connected(m_sessions[fd]) /\ Open(fd)
  BY <1>0, <1>8, KnownIsConn DEF Connected, TablesAgree, TablesTypeOK, Known, Open
<1>10. m_client_sockets[fd] = c
  BY <1>0, <1>5, <1>8, <1>9 DEF TablesAgree
<1> QED BY <1>4, <1>9, <1>10 DEF SendCommand

\* Every step answers the sole carrier of a name it reads an answer for.
LEMMA SoleCarrierStep ==
  ASSUME IInv, SoleCarrierIsAnswered, [Next]_vars
  PROVE  SoleCarrierIsAnswered'
<1>1. CASE read' = <<>>
  BY <1>1 DEF SoleCarrierIsAnswered
<1>2. CASE UNCHANGED vars
  BY <1>2 DEF vars, tableVars, SoleCarrierIsAnswered, SoleCarrier, Connected
<1>3. CASE HandleData
  <2> SUFFICES ASSUME Len(read') = 1, SoleCarrier(read[1].for, read[1].name)'
               PROVE  \E m \in out' : m.to = read'[1].for
    BY DEF SoleCarrierIsAnswered
  <2>1. read' \in Seq(Answer)
    BY LinkStep
  <2>2. read'[1] \in Answer
    BY <2>1, OneElement
  <2>3. PICK c, n : c \in Conns /\ c = read'[1].for /\ n = read'[1].name
    BY <2>2 DEF Answer
  <2>4. SoleCarrier(c, n)'
    BY <2>3 DEF SoleCarrier, Connected
  <2> QED BY <1>3, <2>3, <2>4, AnswerFindsCarrier
<1>4. CASE Start \/ Reconnect \/ NoticeLoss \/ AuthServer \/ Restart
  BY <1>1, <1>4 DEF Start, Reconnect, NoticeLoss, AuthServer, ASAnswers, ASMerges,
                    ASNotified, ASStops, Restart
<1>5. CASE \E c \in Conns : Accept(c)
  BY <1>1, <1>5 DEF Accept
<1>6. CASE \E fd \in Fds : Disconnect(fd)
  BY <1>1, <1>6 DEF Disconnect
<1>7. CASE \E fd \in Fds : FromClient(fd)
  <2>1. PICK fd \in Fds : FromClient(fd)
    BY <1>7
  <2>2. CASE Handshake(fd) \/ LogoutRequest(fd)
    BY <1>1, <2>2 DEF Handshake, LogoutRequest, Handling
  <2>3. CASE ~(Handshake(fd) \/ LogoutRequest(fd))
    BY <1>1, <2>1, <2>3 DEF FromClient, PairRequest, ValidateCode, RequestNotification,
                            Login, Register, Relay, Handling
  <2> QED BY <2>2, <2>3
<1> QED BY <1>2, <1>3, <1>4, <1>5, <1>6, <1>7 DEF Next, Loop

-----------------------------------------------------------------------------
\* Theorems

\* The invariant is inductive.
THEOREM RelayInductive == Spec => []IInv
<1>1. ASSUME IInv, [Next]_vars
      PROVE  IInv'
  <2>1. LinkInv' /\ read' \in Seq(Answer)
    BY <1>1, LinkStep
  <2>2. SessInv'
    BY <1>1, SessionStep
  <2>3. OutOK'
    BY <1>1, OutStep
  <2>4. TypeOK'
    BY <2>1, <2>2, <2>3 DEF LinkInv, SessInv, OutOK, TypeOK, TablesTypeOK, SessionTypeOK
  <2> QED BY <2>1, <2>2, <2>3, <2>4 DEF IInv, LinkInv, SessInv, OutOK
<1> QED BY InitIInv, <1>1, PTL DEF Spec

\* Type correctness of the Dummy Server: in particular everything that crosses
\* the link names an account or nobody.
THEOREM RelayTypeCorrect == Spec => []TypeOK
<1>1. IInv => TypeOK
  BY DEF IInv
<1> QED BY RelayInductive, <1>1, PTL

\* A descriptor of the Dummy Server has a session exactly while its connection
\* is open, and a session knows its own descriptor exactly while it is alive.
THEOREM RelayTablesAgree == Spec => []TablesAgree
<1>1. IInv => TablesAgree
  BY DEF IInv
<1> QED BY RelayInductive, <1>1, PTL

\* However many links are made, lost and refused, the pointer the commands use
\* is the handler main() owns.
THEOREM HandlerAlwaysLives == Spec => []ClientHandlerLives
<1>1. IInv => ClientHandlerLives
  BY DEF IInv
<1> QED BY RelayInductive, <1>1, PTL

\* A pairing token only reaches a connection that has sent the password of the
\* account the token is for.
THEOREM TokensAlwaysReachTheirUser == Spec => []TokensReachTheirUser
<1>1. IInv => TokensReachTheirUser
  BY DEF IInv
<1> QED BY RelayInductive, <1>1, PTL

\* An answer read by itself reaches the client that asked, if its session is the
\* only one to carry the name, logged out in between or not.
THEOREM SoleCarrierAlwaysAnswered == Spec => []SoleCarrierIsAnswered
<1>1. Init => SoleCarrierIsAnswered
  BY DEF Init, SoleCarrierIsAnswered
<1> QED BY RelayInductive, SoleCarrierStep, <1>1, PTL DEF Spec
=============================================================================
