----------------------------- MODULE DummyServer -----------------------------
(***************************************************************************)
(* The Dummy Server of src/src/Dummy_Server: an application with its own   *)
(* accounts that relays its clients' requests to the Auth Server and the   *)
(* answers back.  One thread: the loop of main() runs the handlers of the  *)
(* clients' messages, then reads one message from the Auth Server, then    *)
(* looks at the console.  A request names the account the client's session *)
(* carries, an answer names the account, and the answer goes to the session*)
(* that carries the name.                                                  *)
(*                                                                         *)
(* UserNames are the accounts of this application; its database has no     *)
(* table pairs, which stays as it is.                                      *)
(*                                                                         *)
(* The Auth Server is the environment: it answers the requests of a link   *)
(* in order, a notification later or never, and it may stop.  What is in   *)
(* an answer besides its kind and its name makes no difference here.       *)
(***************************************************************************)
EXTENDS Database, ServerConnections, Sequences, FiniteSets

CONSTANTS
    MaxLinks,   \* bound: connections made to the Auth Server
    MaxAsked    \* bound: requests and answers on their way

ASSUME DummyServerAssumption == MaxLinks \in Nat /\ MaxAsked \in Nat

VARIABLES
    up,             \* "starting", "up", or how the process died
    as_handler,     \* the ClientConnectionHandler main() owns, by the number
                    \* of its link, or 0: null
    client_handler, \* ctx.client_handler, the pointer the commands use
    as_connected,
    links,          \* links made so far
    wire,           \* "closed": m_socket is -1.  Otherwise "ok", or what the
                    \* Auth Server's kernel sent when it stopped
    toAS, fromAS,   \* the two directions of the link
    notifs,         \* notification requests the Auth Server still holds
    refused,        \* the last setupASHandler() failed
    seen,           \* the connections accepted so far
    proved,         \* [Conns -> the accounts whose password it has sent]
    read,           \* the messages the last step read from the Auth Server
    out             \* what the last step sent to clients

linkVars == <<as_handler, client_handler, as_connected, links, refused>>
wireVars == <<wire, toAS, fromAS, notifs>>
tableVars == <<m_client_sockets, m_sessions>>
vars == <<up, tableVars, session, dbVars, linkVars, wireVars, seen, proved, read, out>>

DSNames == UserNames \cup {NoName}

\* for: the connection whose request it is; the program does not carry it.
Request ==
    [type : {"PAIR_REQ", "VALIDATE_CODE_SERVER", "REQ_NOTIF"},
     name : DSNames, for : Conns]
Answer ==
    [type : {"PAIR_RESP", "VALIDATE_RESP_SERVER", "NOTIF_LOGIN_RESP"},
     name : DSNames, for : Conns]
Notification == [name : DSNames, for : Conns, link : 0..MaxLinks]

Command ==
    [type : {"ERR"}, code : {300, 301, 302, 303}]
      \cup [type : {"LOGIN_RESP", "REGISTER_RESP", "PAIR_RESP", "CODE_CHK_RESP",
                    "NOTIF_LOGIN_RESP"}, name : DSNames]
Message == [to : Conns, for : Conns, cmd : Command]

LinkTypeOK ==
    /\ links \in 0..MaxLinks
    /\ as_handler \in 0..links /\ client_handler \in 0..links
    /\ as_connected \in BOOLEAN /\ refused \in BOOLEAN

WireTypeOK ==
    /\ wire \in {"closed", "ok", "fin", "reset"}
    /\ toAS \in Seq(Request) /\ fromAS \in Seq(Answer)
    /\ notifs \subseteq Notification

TypeOK ==
    /\ up \in {"starting", "up", "segv_null", "length_error"}
    /\ m_client_sockets \in [Fds -> Conns \cup {None}]
    /\ m_sessions \in [Fds -> Conns \cup {None}]
    /\ session \in [Conns -> Session]
    /\ DatabaseTypeOK
    /\ LinkTypeOK /\ WireTypeOK
    /\ seen \subseteq Conns
    /\ \A fd \in Fds : m_client_sockets[fd] \in seen \cup {None}
    /\ proved \in [Conns -> SUBSET UserNames]
    /\ read \in Seq(Answer)
    /\ out \subseteq Message

Init ==
    /\ up = "starting"
    /\ m_client_sockets = [fd \in Fds |-> None]
    /\ m_sessions = [fd \in Fds |-> None]
    /\ session = [c \in Conns |-> DeadSession]
    /\ DatabaseInit
    /\ as_handler = 0 /\ client_handler = 0 /\ links = 0
    /\ as_connected = FALSE /\ refused = FALSE
    /\ wire = "closed" /\ toAS = <<>> /\ fromAS = <<>> /\ notifs = {}
    /\ seen = {}
    /\ proved = [c \in Conns |-> {}]
    /\ read = <<>> /\ out = {}

-----------------------------------------------------------------------------
\* The link

\* What the Auth Server does with the requests of a link that goes away is
\* seen here through notifications only.
Orphans ==
    {[name |-> toAS[i].name, for |-> toAS[i].for, link |-> links] :
        i \in {j \in DOMAIN toAS : toAS[j].type = "REQ_NOTIF"}}

\* make_unique<ClientConnectionHandler>.  The old handler is destroyed after
\* the new one is made, which closes its socket.
NewLink ==
    /\ links < MaxLinks
    /\ links' = links + 1
    /\ as_handler' = links' /\ refused' = FALSE
    /\ wire' = "ok" /\ toAS' = <<>> /\ fromAS' = <<>>
    /\ \E S \in SUBSET Orphans : notifs' = notifs \cup S

LinkMade == NewLink /\ client_handler' = links' /\ as_connected' = TRUE

\* It throws: the old handler stays, open or not.
LinkRefused ==
    /\ as_connected' = FALSE /\ refused' = TRUE
    /\ UNCHANGED <<as_handler, client_handler, links, wireVars>>

\* Mutant: as_connected is set for the first link only.
SetupConnectsOnce ==
    \/ NewLink /\ client_handler' = links' /\ as_connected' = (links = 0 \/ as_connected)
    \/ LinkRefused

\* Mutant: the pointer in the context is set for the first link only.
SetupKeepsPointer ==
    \/ /\ NewLink /\ as_connected' = TRUE
       /\ client_handler' = IF links = 0 THEN links' ELSE client_handler
    \/ LinkRefused

setupASHandler == LinkMade \/ LinkRefused

Start ==
    /\ up = "starting"
    /\ up' = "up"
    /\ setupASHandler
    /\ read' = <<>> /\ out' = {}
    /\ UNCHANGED <<tableVars, session, dbVars, seen, proved>>

\* The console command, whatever the state of the link.
Reconnect ==
    /\ up = "up"
    /\ setupASHandler
    /\ read' = <<>> /\ out' = {}
    /\ UNCHANGED <<up, tableVars, session, dbVars, seen, proved>>

\* main() sees that the handler has closed its socket.
NoticeLoss ==
    /\ up = "up" /\ as_connected /\ as_handler # 0 /\ wire = "closed"
    /\ as_connected' = FALSE
    /\ read' = <<>> /\ out' = {}
    /\ UNCHANGED <<up, tableVars, session, dbVars, as_handler, client_handler,
                   links, refused, wireVars, seen, proved>>

\* Exit, or the end of a process that died, and a new start: sockets and
\* memory are gone, the database file stays.
Restart ==
    /\ up # "starting" /\ up' = "starting"
    /\ m_client_sockets' = [fd \in Fds |-> None]
    /\ m_sessions' = [fd \in Fds |-> None]
    /\ session' = [c \in Conns |-> DeadSession]
    /\ as_handler' = 0 /\ client_handler' = 0
    /\ as_connected' = FALSE /\ refused' = FALSE
    /\ wire' = "closed" /\ toAS' = <<>> /\ fromAS' = <<>>
    /\ \E S \in SUBSET Orphans : notifs' = notifs \cup S
    /\ read' = <<>> /\ out' = {}
    /\ UNCHANGED <<dbVars, links, seen, proved>>

-----------------------------------------------------------------------------
\* The clients

Accept(c) ==
    /\ up = "up" /\ c \notin seen
    /\ HandleConnection(c)
    /\ seen' = seen \cup {c}
    /\ read' = <<>> /\ out' = {}
    /\ UNCHANGED <<up, dbVars, linkVars, wireVars, proved>>

Disconnect(fd) ==
    /\ up = "up" /\ Open(fd)
    /\ HandleClose(fd)
    /\ read' = <<>> /\ out' = {}
    /\ UNCHANGED <<up, dbVars, linkVars, wireVars, seen, proved>>

\* A message of a client: the first is its handshake, unless that was lost
\* with the message after it, and its console may send more of them.
Handling(fd) ==
    /\ up = "up" /\ Open(fd)
    /\ read' = <<>>
    /\ UNCHANGED tableVars

Handshake(fd) ==
    /\ Handling(fd)
    /\ session' = HandleHandshake(session, fd, "DUMMY_CLIENT", NoName)
    /\ out' = {}
    /\ UNCHANGED <<up, dbVars, linkVars, wireVars, seen, proved>>

Reply(fd, cmd) == out' = SendCommand(fd, m_client_sockets[fd], cmd)

Err(code) == [type |-> "ERR", code |-> code]

Named(type, n) == [type |-> type, name |-> n]

\* Mutant: the identity is set before the password is looked at.
LoginNamesFirst(fd, u, p) ==
    /\ Handling(fd) /\ ~GetIsLogged(fd)
    /\ \/ /\ CredentialsMatch(u, p)
          /\ session' = SetIdentity(SetIsLogged(session, fd, TRUE), fd, u)
          /\ proved' = [proved EXCEPT ![m_client_sockets[fd]] = @ \cup {u}]
          /\ Reply(fd, Named("LOGIN_RESP", u))
       \/ /\ ~CredentialsMatch(u, p)
          /\ session' = SetIdentity(SetIsLogged(session, fd, FALSE), fd, u)
          /\ Reply(fd, Err(301))
          /\ UNCHANGED proved
    /\ UNCHANGED <<up, dbVars, linkVars, wireVars, seen>>

Login(fd, u, p) ==
    /\ Handling(fd)
    /\ \/ /\ GetIsLogged(fd)
          /\ Reply(fd, Err(300))
          /\ UNCHANGED <<session, proved>>
       \/ /\ ~GetIsLogged(fd) /\ CredentialsMatch(u, p)
          /\ session' = SetIdentity(SetIsLogged(session, fd, TRUE), fd, u)
          /\ proved' = [proved EXCEPT ![m_client_sockets[fd]] = @ \cup {u}]
          /\ Reply(fd, Named("LOGIN_RESP", u))
       \/ /\ ~GetIsLogged(fd) /\ ~CredentialsMatch(u, p)
          /\ session' = SetIsLogged(session, fd, FALSE)
          /\ Reply(fd, Err(301))
          /\ UNCHANGED proved
    /\ UNCHANGED <<up, dbVars, linkVars, wireVars, seen>>

Register(fd, u, p) ==
    /\ Handling(fd)
    /\ \/ /\ GetIsLogged(fd)
          /\ Reply(fd, Err(300))
          /\ UNCHANGED dbVars
       \/ /\ ~GetIsLogged(fd)
          /\ CreateUser(u, p)
          /\ Reply(fd, Named("REGISTER_RESP", u))
       \/ /\ ~GetIsLogged(fd) /\ (~dbUp \/ Registered(u))
          /\ Reply(fd, Err(302))
          /\ UNCHANGED dbVars
    /\ UNCHANGED <<up, session, linkVars, wireVars, seen, proved>>

LogoutRequest(fd) ==
    /\ Handling(fd)
    /\ \/ /\ GetIsLogged(fd)
          /\ session' = Logout(session, fd)
          /\ out' = {}
       \/ /\ ~GetIsLogged(fd)
          /\ Reply(fd, Err(303))
          /\ UNCHANGED session
    /\ UNCHANGED <<up, dbVars, linkVars, wireVars, seen, proved>>

\* ctx.client_handler->sendCommand(): a null dereference before the first link.
\* After the Auth Server has stopped the send fails unnoticed, and the one that
\* meets a reset takes the error with it: a read then finds the end only.
Relay(fd, type, n) ==
    /\ Handling(fd)
    /\ \/ /\ client_handler = 0
          /\ up' = "segv_null"
          /\ UNCHANGED <<wire, toAS>>
       \/ /\ client_handler # 0
          /\ toAS' = IF wire = "ok"
                     THEN Append(toAS, [type |-> type, name |-> n,
                                        for |-> m_client_sockets[fd]])
                     ELSE toAS
          /\ wire' = IF wire = "reset" THEN "fin" ELSE wire
          /\ UNCHANGED up
    /\ Len(toAS) + Len(fromAS) + Cardinality(notifs) < MaxAsked
    /\ out' = {}
    /\ UNCHANGED <<session, dbVars, linkVars, fromAS, notifs, seen, proved>>

PairRequest(fd) == Relay(fd, "PAIR_REQ", GetIdentity(fd))
ValidateCode(fd) == Relay(fd, "VALIDATE_CODE_SERVER", GetIdentity(fd))

\* The name is what the client typed.
RequestNotification(fd, n) == Relay(fd, "REQ_NOTIF", n)

-----------------------------------------------------------------------------
\* The Auth Server's answers

CommandFor(type) ==
    IF type = "VALIDATE_RESP_SERVER" THEN "CODE_CHK_RESP" ELSE type

\* execute() of an answer: to the first session that carries the name.
Execute(r) ==
    \E fd \in Fds \cup {-1} :
        /\ IsIDFromUsername(fd, r.name)
        /\ out' = SendCommand(fd, r.for, Named(CommandFor(r.type), r.name))

\* ClientConnectionHandler::m_handleData.  One read takes what has come; more
\* than one message is not a message, and CommandFactory makes nothing of it.
\* At the end of the stream the socket is closed.  After a reset read() returns
\* -1, and the length of the string made of it throws out of main().
HandleData ==
    /\ up = "up" /\ as_connected /\ as_handler # 0 /\ wire # "closed"
    /\ \/ \E n \in 1..Len(fromAS) :
            /\ read' = SubSeq(fromAS, 1, n)
            /\ fromAS' = SubSeq(fromAS, n + 1, Len(fromAS))
            /\ IF n = 1 THEN Execute(Head(fromAS)) ELSE out' = {}
            /\ UNCHANGED <<up, wire>>
       \/ /\ fromAS = <<>> /\ wire = "fin"
          /\ wire' = "closed"
          /\ read' = <<>> /\ out' = {}
          /\ UNCHANGED <<up, fromAS>>
       \/ /\ fromAS = <<>> /\ wire = "reset"
          /\ up' = "length_error"
          /\ read' = <<>> /\ out' = {}
          /\ UNCHANGED <<wire, fromAS>>
    /\ UNCHANGED <<tableVars, session, dbVars, linkVars, toAS, notifs, seen, proved>>

asVars == <<up, tableVars, session, dbVars, linkVars, seen, proved>>

\* A pairing of the empty name is "5;", which is no message; a notification
\* of it has no row.
Answerable(r) == r.name # NoName \/ r.type = "VALIDATE_CODE_SERVER"

AnswerTo(r) ==
    [type |-> IF r.type = "PAIR_REQ" THEN "PAIR_RESP" ELSE "VALIDATE_RESP_SERVER",
     name |-> r.name, for |-> r.for]

\* A request by itself: a notification has no answer until one is given.
ASTakes(r) ==
    \/ /\ ~Answerable(r)
       /\ UNCHANGED <<fromAS, notifs>>
    \/ /\ Answerable(r) /\ r.type # "REQ_NOTIF"
       /\ fromAS' = Append(fromAS, AnswerTo(r))
       /\ UNCHANGED notifs
    \/ /\ Answerable(r) /\ r.type = "REQ_NOTIF"
       /\ notifs' \in {notifs, notifs \cup {[name |-> r.name, for |-> r.for,
                                             link |-> links]}}
       /\ UNCHANGED fromAS

ASAnswers ==
    /\ wire = "ok" /\ toAS # <<>>
    /\ toAS' = Tail(toAS)
    /\ ASTakes(Head(toAS))
    /\ read' = <<>> /\ out' = {}
    /\ UNCHANGED <<asVars, wire>>

\* What two requests make that arrive together: nothing, unless the second is
\* the pairing of nobody, "5;", whose digit goes to the last field of the first:
\* the application of a code or a notification, or the account of a pairing, by
\* then another one.
Joined(r, s) ==
    {[r EXCEPT !.name = u] :
        u \in {v \in DSNames :
                /\ s.type = "PAIR_REQ" /\ s.name = NoName
                /\ IF r.type = "PAIR_REQ" THEN v \notin {r.name, NoName}
                   ELSE v = r.name}}

\* Of three or more nothing is left.  Codes are answered whatever is in them;
\* a changed account or application may be unknown.  Two or more may also fall
\* through to the answer to a notification (CommandFactory!DummyServersMerge):
\* for this server they are lost, and one of its notifications is answered, as
\* ASNotified has it at any time.
ASMerges ==
    /\ wire = "ok"
    /\ \E n \in 2..Len(toAS) :
         /\ toAS' = SubSeq(toAS, n + 1, Len(toAS))
         /\ \/ \E r \in Joined(toAS[1], toAS[2]) : n = 2 /\ ASTakes(r)
            \/ /\ n = 2 => toAS[1].type # "VALIDATE_CODE_SERVER"
                              \/ Joined(toAS[1], toAS[2]) = {}
               /\ UNCHANGED <<fromAS, notifs>>
    /\ read' = <<>> /\ out' = {}
    /\ UNCHANGED <<asVars, wire>>

\* The answer goes to the descriptor the Auth Server kept: the link it was
\* asked over, or one that got the same number, or nobody here.
ASNotified(n) ==
    /\ n \in notifs
    /\ notifs' = notifs \ {n}
    /\ \/ /\ wire = "ok"
          /\ fromAS' = Append(fromAS, [type |-> "NOTIF_LOGIN_RESP",
                                       name |-> n.name, for |-> n.for])
       \/ /\ wire # "ok" \/ n.link # links
          /\ UNCHANGED fromAS
    /\ read' = <<>> /\ out' = {}
    /\ UNCHANGED <<asVars, wire, toAS>>

\* Its kernel closes the link, with a reset if requests were left unread.
ASStops ==
    /\ wire = "ok"
    /\ wire' = IF toAS = <<>> THEN "fin" ELSE "reset"
    /\ toAS' = <<>> /\ notifs' = {}
    /\ read' = <<>> /\ out' = {}
    /\ UNCHANGED <<asVars, fromAS>>

-----------------------------------------------------------------------------

FromClient(fd) ==
    \/ Handshake(fd) \/ LogoutRequest(fd) \/ PairRequest(fd) \/ ValidateCode(fd)
    \/ \E u \in UserNames, p \in Passwords : Login(fd, u, p) \/ Register(fd, u, p)
    \/ \E n \in DSNames : RequestNotification(fd, n)

AuthServer ==
    \/ ASAnswers \/ ASMerges \/ ASStops
    \/ \E n \in notifs : ASNotified(n)

Loop == HandleData \/ NoticeLoss

Next ==
    \/ Start \/ Restart \/ Reconnect \/ Loop \/ AuthServer
    \/ \E c \in Conns : Accept(c)
    \/ \E fd \in Fds : Disconnect(fd) \/ FromClient(fd)

\* Every round of the loop looks at the link: its select() returns after 5 ms.
\* Nothing makes a client, the console or the Auth Server act.
Spec == Init /\ [][Next]_vars /\ WF_vars(Loop)

-----------------------------------------------------------------------------
\* Properties

\* The pointer the commands use is the handler main() owns, after any number of
\* reconnections, refused or not: a command never reaches a destroyed handler
\* (ctx.client_handler is a raw pointer into a unique_ptr).
ClientHandlerLives == client_handler = as_handler

\* A pairing token goes to a connection that has sent the password of the
\* account it is for, whoever logs in, out and in again while the request is
\* under way and whoever gets the descriptor: sessions are found by a name that
\* outlives the login, but that nothing but a login writes.
TokensReachTheirUser ==
    \A m \in out : m.cmd.type = "PAIR_RESP" => m.cmd.name \in proved[m.to]

SoleCarrier(c, n) ==
    /\ Connected(c) /\ session[c].identity = n
    /\ \A d \in Conns \ {c} : Connected(d) => session[d].identity # n

\* When routing by name is right: an answer read by itself reaches the client
\* that asked, if its session still carries the name and is the only one to.
\* A logout in between does not lose it.
SoleCarrierIsAnswered ==
    Len(read) = 1 /\ SoleCarrier(read[1].for, read[1].name)
        => \E m \in out : m.to = read[1].for

\* The answers of the Auth Server are read, unless the last reconnection failed
\* (a handler that is still open is then no longer read from) or the process
\* died: no order of losses and reconnections leaves the loop deaf to a link it
\* made.
AnswersAreRead ==
    []<>(fromAS = <<>> \/ read # <<>> \/ refused \/ up # "up")

\* The server does not crash when it interacts with a dead socket.
SurvivesDeadSocket == up # "length_error"
=============================================================================
