------------------------------- MODULE Client -------------------------------
(***************************************************************************)
(* The Auth Client of src/src/My2FA_Client and the Dummy Client of         *)
(* src/src/Dummy_Client, which run the same loop: read from the server,    *)
(* then look at the console.  The Auth Client has a second loop inside the *)
(* first, the code view, which looks at the console before it reads.       *)
(* Neither ignores SIGPIPE.                                                *)
(*                                                                         *)
(* The server is the environment: what it keeps of the client's session,   *)
(* and the thread that pushes codes.  It may stop.  A login that the server*)
(* refuses carries no name here, and commands whose answers change nothing *)
(* in the client are one command, "OTHER".                                 *)
(***************************************************************************)
EXTENDS Integers, Sequences

CONSTANTS
    UserNames,
    Paired,      \* the accounts that have a secret
    NoName,
    MaxNotifs,   \* bound: notifications a process gets
    MaxOnWay     \* bound: messages on their way, in both directions together

ASSUME ClientAssumption ==
    /\ Paired \subseteq UserNames /\ NoName \notin UserNames
    /\ MaxNotifs \in Nat /\ MaxOnWay \in Nat

VARIABLES
    program,      \* "A_CLIENT" or "D_CLIENT"
    up,           \* "up", or how the process ended
    pc,           \* where it is in its loops
    isConnected,
    login,        \* ctx.isLogged and ctx.username, or NoName: they change together
    codeState,
    codes,        \* the account the codes in ctx.codes are of, or NoName
    pending,      \* the size of ctx.pendingNotifications
    wire,         \* the handler's socket: "closed" is -1 or no handler,
                  \* "broken": the peer is gone and every error was reported
    toS, fromS,   \* the two directions of the link
    srv,          \* the server's session of this client
    disturbed     \* on this link messages were read together, or the thread
                  \* that pushes codes was overtaken by another login

ctxVars == <<login, codeState, codes, pending>>
linkVars == <<isConnected, wire, toS, fromS>>
srvVars == <<srv, disturbed>>
vars == <<program, up, pc, ctxVars, linkVars, srvVars>>

Names == UserNames \cup {NoName}
Request ==
    [type : {"CONN", "LOGIN", "LOGOUT", "REQ_CODE", "EXIT_SCS", "OTHER"}, name : Names]
Answer == [type : {"LOGIN_RESP", "CODE_RESP", "SEND_NOTIF", "OTHER"}, name : Names]

NewServerSession ==
    [logged |-> NoName, identity |-> NoName, view |-> FALSE, pass |-> NoName]

TypeOK ==
    /\ program \in {"A_CLIENT", "D_CLIENT"}
    /\ up \in {"up", "exit", "out_of_range", "length_error", "sigpipe"}
    /\ pc \in {"start", "update", "console", "view", "view_update"}
    /\ isConnected \in BOOLEAN /\ codeState \in BOOLEAN
    /\ login \in Names /\ codes \in Names
    /\ pending \in 0..MaxNotifs
    /\ wire \in {"closed", "ok", "fin", "reset", "broken"}
    /\ toS \in Seq(Request) /\ fromS \in Seq(Answer)
    /\ srv \in [logged : Names, identity : Names, view : BOOLEAN, pass : Names]
    /\ disturbed \in BOOLEAN
    /\ program = "D_CLIENT" => pc \notin {"view", "view_update"} /\ ~codeState

Init ==
    /\ program \in {"A_CLIENT", "D_CLIENT"}
    /\ up = "up" /\ pc = "start"
    /\ isConnected = FALSE /\ login = NoName /\ codeState = FALSE
    /\ codes = NoName /\ pending = 0
    /\ wire = "closed" /\ toS = <<>> /\ fromS = <<>>
    /\ srv = NewServerSession /\ disturbed = FALSE

\* A process that ended is started again.
Restart ==
    /\ up # "up" /\ up' = "up" /\ pc' = "start"
    /\ isConnected' = FALSE /\ login' = NoName /\ codeState' = FALSE
    /\ codes' = NoName /\ pending' = 0
    /\ wire' = "closed" /\ toS' = <<>> /\ fromS' = <<>>
    /\ srv' = NewServerSession /\ disturbed' = FALSE
    /\ UNCHANGED program

-----------------------------------------------------------------------------
\* ClientConnectionHandler

\* setupHandler(): the constructor connects and sends CONN; a handler there was
\* is destroyed after that.  If it throws, the old handler stays, open or not.
SetupHandler ==
    \/ /\ isConnected' = TRUE
       /\ wire' = "ok" /\ fromS' = <<>>
       /\ toS' = <<[type |-> "CONN", name |-> NoName]>>
       /\ srv' = NewServerSession /\ disturbed' = FALSE
    \/ /\ isConnected' = FALSE
       /\ UNCHANGED <<wire, toS, fromS, srvVars>>

Room == Len(toS) + Len(fromS) < MaxOnWay

\* sendCommand(): after the peer's FIN the first send is answered with a reset,
\* after a reset it is told of the error; the next one ends the process.
SendCommand(type, n) ==
    /\ wire = "ok" => Room
    /\ toS' = IF wire = "ok" THEN Append(toS, [type |-> type, name |-> n]) ELSE toS
    /\ \/ wire \in {"closed", "ok", "fin"} /\ UNCHANGED <<up, wire>>
       \/ wire \in {"fin", "reset"} /\ wire' = "broken" /\ UNCHANGED up
       \/ wire = "broken" /\ up' = "sigpipe" /\ UNCHANGED wire
    /\ UNCHANGED <<isConnected, fromS, srvVars>>

LoginResponse(a) ==
    login' = IF a.type = "LOGIN_RESP" THEN a.name ELSE login

\* Mutant: codes are added to the map, which keeps what it holds.
CodeResponseInserts(a) ==
    codes' = IF a.type = "CODE_RESP" /\ codes = NoName THEN a.name ELSE codes

CodeResponse(a) ==
    codes' = IF a.type = "CODE_RESP" THEN a.name ELSE codes

\* Mutant: the test for a duplicate comes after the notification was added.
SendNotificationTwice(a) ==
    pending' = IF a.type = "SEND_NOTIF" THEN pending + 2 ELSE pending

\* Request ids do not repeat, so every notification is a new one.
SendNotification(a) ==
    pending' = IF a.type = "SEND_NOTIF" THEN pending + 1 ELSE pending

\* execute() of what the server sends.
Execute(a) ==
    LoginResponse(a) /\ CodeResponse(a) /\ SendNotification(a) /\ UNCHANGED codeState

\* Mutant: the end of the stream is taken for an empty message.
HandleDataGoesOn ==
    \/ \E n \in 1..Len(fromS) :
         /\ fromS' = SubSeq(fromS, n + 1, Len(fromS))
         /\ disturbed' = (disturbed \/ n > 1)
         /\ IF n = 1 THEN Execute(Head(fromS)) ELSE UNCHANGED ctxVars
         /\ UNCHANGED wire
    \/ /\ fromS = <<>> /\ wire \in {"fin", "broken", "ok"}
       /\ UNCHANGED <<fromS, disturbed, wire, ctxVars>>

\* m_handleData(): what has come is read at once, and several messages are
\* none (CommandFactory!AnswersNeverMerge).  read() returns 0 after a FIN.
HandleData ==
    \/ \E n \in 1..Len(fromS) :
         /\ fromS' = SubSeq(fromS, n + 1, Len(fromS))
         /\ disturbed' = (disturbed \/ n > 1)
         /\ IF n = 1 THEN Execute(Head(fromS)) ELSE UNCHANGED ctxVars
         /\ UNCHANGED wire
    \/ /\ fromS = <<>> /\ wire \in {"fin", "broken"}
       /\ wire' = "closed"
       /\ UNCHANGED <<fromS, disturbed, ctxVars>>
    \/ /\ fromS = <<>> /\ wire = "ok"
       /\ UNCHANGED <<fromS, disturbed, wire, ctxVars>>

\* read() returned -1, and a string of that length throws length_error.
ReadFails ==
    /\ fromS = <<>> /\ wire = "reset"
    /\ wire' = "broken"
    /\ UNCHANGED <<fromS, disturbed, ctxVars>>

-----------------------------------------------------------------------------
\* The loop of main()

Start ==
    /\ up = "up" /\ pc = "start" /\ pc' = "update"
    /\ SetupHandler
    /\ UNCHANGED <<program, up, ctxVars>>

Update ==
    /\ up = "up" /\ pc = "update" /\ pc' = "console"
    /\ \/ /\ ~isConnected
          /\ UNCHANGED <<up, ctxVars, linkVars, srvVars>>
       \/ /\ isConnected /\ wire = "closed"
          /\ isConnected' = FALSE
          /\ UNCHANGED <<up, ctxVars, wire, toS, fromS, srvVars>>
       \/ /\ isConnected /\ wire # "closed"
          /\ \/ HandleData /\ UNCHANGED up
             \/ ReadFails /\ up' = "length_error"
          /\ UNCHANGED <<isConnected, toS, srv>>
    /\ UNCHANGED program

Console == up = "up" /\ pc = "console" /\ UNCHANGED program

\* No line was typed, or one that makes no command.
NoCommand ==
    /\ Console /\ pc' = "update"
    /\ UNCHANGED <<up, ctxVars, linkVars, srvVars>>

Exit ==
    /\ Console /\ up' = "exit"
    /\ UNCHANGED <<pc, ctxVars, linkVars, srvVars>>

Reconnect ==
    /\ Console /\ pc' = "update"
    /\ SetupHandler
    /\ UNCHANGED <<up, ctxVars>>

\* register, pair, conn, notif, and the Dummy Client's code.
OtherCommand ==
    /\ Console /\ pc' = "update"
    /\ SendCommand("OTHER", NoName)
    /\ UNCHANGED ctxVars

Login(n) ==
    /\ Console /\ pc' = "update"
    /\ SendCommand("LOGIN", n)
    /\ UNCHANGED ctxVars

\* Mutant: the login is tested, after it was cleared.
LogoutTestsLogin ==
    /\ Console /\ pc' = "update"
    /\ login' = NoName
    /\ UNCHANGED <<up, codeState, codes, pending, linkVars, srvVars>>

\* The context is cleared before the server knows, or with no server.
Logout ==
    /\ Console /\ pc' = "update"
    /\ login' = NoName
    /\ SendCommand("LOGOUT", NoName)
    /\ UNCHANGED <<codeState, codes, pending>>

\* accept and refuse: the index is used outside of any try block.
AnswerNotification ==
    /\ Console /\ program = "A_CLIENT" /\ pc' = "update"
    /\ \/ pending > 0 /\ SendCommand("OTHER", NoName)
       \/ up' = "out_of_range" /\ UNCHANGED <<linkVars, srvVars>>
    /\ UNCHANGED ctxVars

\* The code command of the Auth Client opens the view, on an open link.
Code ==
    /\ Console /\ program = "A_CLIENT" /\ wire # "closed"
    /\ SendCommand("REQ_CODE", NoName)
    /\ pc' = "view" /\ codeState' = TRUE
    /\ UNCHANGED <<login, codes, pending>>

-----------------------------------------------------------------------------
\* runCodeState(), inside the try block of the code command

InView == up = "up" /\ pc = "view" /\ UNCHANGED program

\* The link is closed: EXIT_SCS goes nowhere, codeState stays.
ViewEnds ==
    /\ InView /\ wire = "closed" /\ pc' = "update"
    /\ UNCHANGED <<up, ctxVars, linkVars, srvVars>>

\* Mutant: returns without telling the server.
ViewLeftSilently ==
    /\ InView /\ wire # "closed" /\ pc' = "update"
    /\ codeState' = FALSE
    /\ UNCHANGED <<up, login, codes, pending, linkVars, srvVars>>

\* Mutant: the flag is left set.
ViewLeftFlagged ==
    /\ InView /\ wire # "closed" /\ pc' = "update"
    /\ SendCommand("EXIT_SCS", NoName)
    /\ UNCHANGED ctxVars

ViewLeft ==
    /\ InView /\ wire # "closed" /\ pc' = "update"
    /\ codeState' = FALSE
    /\ SendCommand("EXIT_SCS", NoName)
    /\ UNCHANGED <<login, codes, pending>>

ViewGoesOn ==
    /\ InView /\ wire # "closed" /\ pc' = "view_update"
    /\ UNCHANGED <<up, ctxVars, linkVars, srvVars>>

\* The view's own update, whatever isConnected says.  An exception ends the
\* view, as the code command catches it.
ViewUpdate ==
    /\ up = "up" /\ pc = "view_update"
    /\ \/ HandleData /\ pc' = "view"
       \/ ReadFails /\ pc' = "update"
    /\ UNCHANGED <<program, up, isConnected, toS, srv>>

-----------------------------------------------------------------------------
\* The server

CanReceiveCode(s) == s.view /\ s.logged \in Paired

\* The server admits a login if the session has none yet.
LogsIn(r) == r.type = "LOGIN" /\ srv.logged = NoName /\ r.name # NoName

\* One request: what becomes of the session, and the answer, if there is one.
Handled(r) ==
    CASE LogsIn(r) ->
           [srv EXCEPT !.logged = r.name, !.identity = r.name]
      [] r.type = "LOGOUT" -> [srv EXCEPT !.logged = NoName]
      [] r.type = "REQ_CODE" -> [srv EXCEPT !.view = TRUE]
      [] r.type = "EXIT_SCS" -> [srv EXCEPT !.view = FALSE]
      [] OTHER -> srv

Answered(r) ==
    CASE LogsIn(r) ->
           <<[type |-> "LOGIN_RESP", name |-> r.name]>>
      [] r.type = "REQ_CODE" /\ CanReceiveCode(Handled(r)) ->
           <<[type |-> "CODE_RESP", name |-> srv.logged]>>
      [] \/ r.type = "LOGIN" /\ ~LogsIn(r)
         \/ r.type = "LOGOUT" /\ srv.logged = NoName ->
           <<[type |-> "OTHER", name |-> NoName]>>
      [] OTHER -> <<>>

ServerStep == up = "up" /\ wire = "ok" /\ UNCHANGED <<program, up, pc, ctxVars, isConnected>>

Takes(r) ==
    /\ srv' = Handled(r)
    /\ \/ fromS' = fromS \o Answered(r)
       \/ r.type = "OTHER" /\ fromS' = Append(fromS, r)

ServerTakes ==
    /\ ServerStep /\ toS # <<>>
    /\ toS' = Tail(toS)
    /\ Takes(Head(toS))
    /\ UNCHANGED <<wire, disturbed>>

\* Requests that are read together are nothing, or one of the requests here, or
\* one of a kind this client never sends (CommandFactory!FirstMessageDecides):
\* that is "OTHER" here, answered or not, and leaves the session as it is.
ServerMerges ==
    /\ ServerStep
    /\ \E n \in 2..Len(toS) : toS' = SubSeq(toS, n + 1, Len(toS))
    /\ \/ \E r \in Request :
            /\ r.type \in {"REQ_CODE", "EXIT_SCS"} => program = "A_CLIENT"
            /\ Takes(r)
       \/ UNCHANGED <<fromS, srv>>
    /\ disturbed' = TRUE
    /\ UNCHANGED wire

\* The thread that pushes codes takes those of a session that is viewing ...
ServerFormats ==
    /\ ServerStep /\ program = "A_CLIENT"
    /\ srv.pass = NoName /\ CanReceiveCode(srv)
    /\ srv' = [srv EXCEPT !.pass = srv.logged]
    /\ UNCHANGED <<wire, toS, fromS, disturbed>>

\* ... and sends them, whoever is logged in there by then.
ServerPushes ==
    /\ ServerStep /\ srv.pass # NoName
    /\ Room
    /\ fromS' = Append(fromS, [type |-> "CODE_RESP", name |-> srv.pass])
    /\ srv' = [srv EXCEPT !.pass = NoName]
    /\ disturbed' = (disturbed \/ srv.pass # srv.logged)
    /\ UNCHANGED <<wire, toS>>

OnWay(type) == {i \in DOMAIN fromS : fromS[i].type = type}

\* A notification, or the answer to one: to the session that carries the name,
\* logged in or not.
ServerNotifies ==
    /\ ServerStep /\ srv.identity # NoName
    /\ Room
    /\ \/ /\ program = "A_CLIENT"
          /\ \A i \in OnWay("SEND_NOTIF") : FALSE
          /\ pending < MaxNotifs
          /\ fromS' = Append(fromS, [type |-> "SEND_NOTIF", name |-> NoName])
       \/ /\ program = "D_CLIENT"
          /\ fromS' = Append(fromS, [type |-> "OTHER", name |-> NoName])
    /\ UNCHANGED <<wire, toS, srvVars>>

\* Its kernel closes the link, with a reset if requests were left unread.
ServerStops ==
    /\ ServerStep
    /\ wire' = IF toS = <<>> THEN "fin" ELSE "reset"
    /\ toS' = <<>> /\ srv' = NewServerSession
    /\ UNCHANGED <<fromS, disturbed>>

-----------------------------------------------------------------------------

Run == Start \/ Update \/ NoCommand \/ ViewEnds \/ ViewGoesOn \/ ViewUpdate

User ==
    \/ Exit \/ Reconnect \/ OtherCommand \/ Logout \/ AnswerNotification \/ Code \/ ViewLeft
    \/ \E n \in Names : Login(n)

Server ==
    \/ ServerTakes \/ ServerMerges \/ ServerFormats \/ ServerPushes \/ ServerNotifies
    \/ ServerStops

Next == Run \/ User \/ Restart \/ Server

\* The loops go round whether or not anything is typed or received.
Spec == Init /\ [][Next]_vars /\ WF_vars(Run)

-----------------------------------------------------------------------------
\* Properties

\* Nothing is on its way and nothing was lost on a link that is up.
Quiet == wire = "ok" /\ toS = <<>> /\ fromS = <<>> /\ ~disturbed

\* Logged out here is logged out there: once all is read, a session that the
\* server holds logged in is one the client shows, under the same name, however
\* logins and logouts were typed ahead (the client clears its login before the
\* server has seen the logout, and an answer that is late sets it again).
LogoutHolds == Quiet /\ srv.logged # NoName => login = srv.logged

\* The server pushes codes exactly while the view is open, once all is read:
\* each way out of the view tells it, and a reconnection starts without one.
ViewKnown ==
    up = "up" /\ Quiet => (srv.view <=> pc \in {"view", "view_update"})

\* The codes in an open view are those of the account logged in, once all is
\* read and if it has any: the codes of a login before, which no logout
\* clears, are replaced by the answer to the request that opened the view.
OwnCodesShown ==
    up = "up" /\ Quiet /\ codeState /\ CanReceiveCode(srv) => codes = srv.logged

\* The view ends with codeState cleared, and with it the notifications of the
\* loop printed again, unless the link was lost under it.
ViewEndsClean ==
    [][(pc \in {"view", "view_update"} /\ pc' = "update")
           => (~codeState' \/ wire \in {"closed", "reset"})]_vars

\* A server that has gone is noticed, in the loop or in the view, whatever is
\* typed meanwhile: the client is not left with a link that only looks open.
LossIsNoticed ==
    wire # "ok" ~> ~isConnected \/ wire = "ok" \/ up # "up"
=============================================================================
