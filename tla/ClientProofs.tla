---------------------------- MODULE ClientProofs ----------------------------
(***************************************************************************)
(* Proofs about the clients: what one of them shows agrees with what the   *)
(* server holds of it, once everything on the link has been read.  Until   *)
(* then the agreement is owed by the messages on their way, and by the     *)
(* last of each kind alone: the invariants say so.                         *)
(***************************************************************************)
EXTENDS Client, SequenceTheorems, TLAPS

\* The last message of a sequence that has one of some types, and none of them.
IsLast(s, types, i) ==
    /\ i \in DOMAIN s /\ s[i].type \in types
    /\ \A j \in DOMAIN s : j > i => s[j].type \notin types
NoneOf(s, types) == \A j \in DOMAIN s : s[j].type \notin types

\* Nothing is lost, read together or overtaken on this link.
InStep == wire = "ok" /\ ~disturbed

\* A login that the server holds is shown, or its answer is on its way after
\* every other, or a logout is on its way to the server.
LoginKnown ==
    InStep /\ srv.logged # NoName =>
        \/ \E i \in DOMAIN toS : toS[i].type = "LOGOUT"
        \/ \E i \in DOMAIN fromS :
               IsLast(fromS, {"LOGIN_RESP"}, i) /\ fromS[i].name = srv.logged
        \/ NoneOf(fromS, {"LOGIN_RESP"}) /\ login = srv.logged

\* The last request about the view that is on its way tells whether it is open,
\* and the session does when there is none.
Viewing == pc \in {"view", "view_update"}
ViewTypes == {"REQ_CODE", "EXIT_SCS"}
ViewOwed ==
    up = "up" /\ InStep =>
        /\ \A i \in DOMAIN toS :
               IsLast(toS, ViewTypes, i) => (toS[i].type = "REQ_CODE" <=> Viewing)
        /\ NoneOf(toS, ViewTypes) => (srv.view <=> Viewing)

\* In an open view the request for it is the last on its way.  When it has been
\* answered the last codes on their way, or else the codes shown, are those of
\* the account that is logged in, if it has any.
CodesOwed ==
    up = "up" /\ InStep /\ Viewing =>
        \/ toS # <<>> /\ toS[Len(toS)].type = "REQ_CODE"
        \/ /\ toS = <<>>
           /\ CanReceiveCode(srv) =>
                \/ \E i \in DOMAIN fromS :
                       IsLast(fromS, {"CODE_RESP"}, i) /\ fromS[i].name = srv.logged
                \/ NoneOf(fromS, {"CODE_RESP"}) /\ codes = srv.logged

\* At most one notification is on its way, and there is room for it.
NotifsOwed ==
    /\ \A i, j \in OnWay("SEND_NOTIF") : i = j
    /\ OnWay("SEND_NOTIF") # {} => pending < MaxNotifs

IInv == TypeOK /\ NotifsOwed /\ LoginKnown /\ ViewOwed /\ CodesOwed

-----------------------------------------------------------------------------
\* Sequences of messages

\* A message is added.
LEMMA Appended ==
  ASSUME NEW S, NEW s \in Seq(S), NEW e \in S, NEW types
  PROVE  /\ e.type \in types =>
              /\ IsLast(Append(s, e), types, Len(s) + 1)
              /\ Append(s, e)[Len(s) + 1] = e
              /\ \A i : IsLast(Append(s, e), types, i) => i = Len(s) + 1
              /\ ~NoneOf(Append(s, e), types)
         /\ e.type \notin types =>
              /\ \A i : IsLast(Append(s, e), types, i) <=> IsLast(s, types, i)
              /\ NoneOf(Append(s, e), types) <=> NoneOf(s, types)
         /\ \A i \in DOMAIN s : i \in DOMAIN Append(s, e) /\ Append(s, e)[i] = s[i]
<1> DEFINE t == Append(s, e)
<1>1. /\ DOMAIN s = 1..Len(s) /\ DOMAIN t = 1..(Len(s) + 1) /\ Len(s) \in Nat
      /\ \A i \in 1..Len(s) : t[i] = s[i]
      /\ t[Len(s) + 1] = e
  BY AppendProperties, LenProperties
<1> HIDE DEF t
<1>2. ASSUME e.type \in types
      PROVE  /\ IsLast(t, types, Len(s) + 1) /\ t[Len(s) + 1] = e
             /\ \A i : IsLast(t, types, i) => i = Len(s) + 1
             /\ ~NoneOf(t, types)
  BY <1>1, <1>2 DEF IsLast, NoneOf
<1>3. ASSUME e.type \notin types
      PROVE  /\ \A i : IsLast(t, types, i) <=> IsLast(s, types, i)
             /\ NoneOf(t, types) <=> NoneOf(s, types)
  <2>1. ASSUME NEW i PROVE IsLast(t, types, i) <=> IsLast(s, types, i)
    BY <1>1, <1>3 DEF IsLast
  <2>2. NoneOf(t, types) <=> NoneOf(s, types)
    BY <1>1, <1>3 DEF NoneOf
  <2> QED BY <2>1, <2>2
<1> QED BY <1>1, <1>2, <1>3 DEF t

\* The first message is taken.
LEMMA Taken ==
  ASSUME NEW S, NEW s \in Seq(S), s # <<>>, NEW types
  PROVE  /\ Head(s) = s[1] /\ Head(s) \in S /\ Tail(s) \in Seq(S)
         /\ DOMAIN Tail(s) = 1..(Len(s) - 1) /\ DOMAIN s = 1..Len(s) /\ Len(s) \in Nat \ {0}
         /\ \A i \in DOMAIN Tail(s) : Tail(s)[i] = s[i + 1]
         /\ \A i : IsLast(Tail(s), types, i) => IsLast(s, types, i + 1)
         /\ \A i : IsLast(s, types, i) /\ i # 1 => IsLast(Tail(s), types, i - 1)
         /\ Head(s).type \notin types => (NoneOf(Tail(s), types) <=> NoneOf(s, types))
         /\ Head(s).type \in types /\ NoneOf(Tail(s), types) => IsLast(s, types, 1)
         /\ NoneOf(s, types) => Head(s).type \notin types
<1> DEFINE t == Tail(s)
<1>1. /\ DOMAIN s = 1..Len(s) /\ Len(s) \in Nat \ {0}
      /\ t \in Seq(S) /\ Len(t) = Len(s) - 1 /\ DOMAIN t = 1..(Len(s) - 1)
      /\ \A i \in DOMAIN t : t[i] = s[i + 1]
  BY HeadTailProperties, LenProperties, EmptySeq
<1>2. Head(s) = s[1] /\ Head(s) \in S
  BY HeadTailProperties
<1> HIDE DEF t
<1>3. ASSUME NEW i PROVE IsLast(t, types, i) => IsLast(s, types, i + 1)
  <2>1. ASSUME IsLast(t, types, i), NEW j \in DOMAIN s, j > i + 1
        PROVE  s[j].type \notin types
    <3>1. j - 1 \in DOMAIN t /\ j - 1 > i /\ t[j - 1] = s[j]
      BY <1>1, <2>1 DEF IsLast
    <3> QED BY <2>1, <3>1 DEF IsLast
  <2> QED BY <1>1, <2>1 DEF IsLast
<1>4. ASSUME NEW i, i # 1 PROVE IsLast(s, types, i) => IsLast(t, types, i - 1)
  <2>1. ASSUME IsLast(s, types, i), NEW j \in DOMAIN t, j > i - 1
        PROVE  t[j].type \notin types
    <3>1. j + 1 \in DOMAIN s /\ j + 1 > i /\ t[j] = s[j + 1]
      BY <1>1, <2>1 DEF IsLast
    <3> QED BY <2>1, <3>1 DEF IsLast
  <2>2. IsLast(s, types, i) => i - 1 \in DOMAIN t /\ t[i - 1].type \in types
    BY <1>1, <1>4 DEF IsLast
  <2> QED BY <2>1, <2>2 DEF IsLast
<1>5. ASSUME NoneOf(t, types), NEW j \in DOMAIN s, j # 1 PROVE s[j].type \notin types
  <2>1. j - 1 \in DOMAIN t /\ t[j - 1] = s[j]
    BY <1>1, <1>5
  <2> QED BY <1>5, <2>1 DEF NoneOf
<1>6. NoneOf(s, types) => NoneOf(t, types) /\ s[1].type \notin types
  BY <1>1 DEF NoneOf
<1>7. /\ Head(s).type \notin types => (NoneOf(t, types) <=> NoneOf(s, types))
      /\ Head(s).type \in types /\ NoneOf(t, types) => IsLast(s, types, 1)
  BY <1>1, <1>2, <1>5, <1>6 DEF NoneOf, IsLast
<1> QED BY <1>1, <1>2, <1>3, <1>4, <1>6, <1>7 DEF t

-----------------------------------------------------------------------------
\* Types

ServerSession == [logged : Names, identity : Names, view : BOOLEAN, pass : Names]

\* A session that the server starts is one.
LEMMA NewSessionType == NewServerSession \in ServerSession
BY DEF NewServerSession, ServerSession, Names

\* What the handler sends is a request, whatever becomes of the link.
LEMMA SendTypes ==
  ASSUME TypeOK, NEW type \in {"LOGIN", "LOGOUT", "REQ_CODE", "EXIT_SCS", "OTHER"},
         NEW n \in Names, SendCommand(type, n)
  PROVE  /\ toS' \in Seq(Request) /\ fromS' \in Seq(Answer)
         /\ up' \in {up, "sigpipe"}
         /\ wire' \in {"closed", "ok", "fin", "reset", "broken"}
         /\ UNCHANGED <<isConnected, srv, disturbed>>
<1> DEFINE r == [type |-> type, name |-> n]
<1>1. r \in Request
  BY DEF Request
<1> HIDE DEF r
<1>2. Append(toS, r) \in Seq(Request)
  BY <1>1, AppendProperties DEF TypeOK
<1>3. toS' \in {toS, Append(toS, r)}
  BY DEF SendCommand, r
<1> QED BY <1>2, <1>3 DEF SendCommand, TypeOK, srvVars

\* What is left of the answers is answers.
LEMMA RestTypes ==
  ASSUME TypeOK, NEW n \in 1..Len(fromS)
  PROVE  /\ SubSeq(fromS, n + 1, Len(fromS)) \in Seq(Answer)
         /\ Len(SubSeq(fromS, n + 1, Len(fromS))) = Len(fromS) - n
         /\ \A i \in 1..(Len(fromS) - n) :
                SubSeq(fromS, n + 1, Len(fromS))[i] = fromS[n + i]
<1>1. fromS \in Seq(Answer) /\ Len(fromS) \in Nat
  BY DEF TypeOK
<1>2. \A i \in (n + 1)..Len(fromS) : fromS[i] \in Answer
  BY <1>1, ElementOfSeq
<1> QED BY <1>1, <1>2, SubSeqProperties

\* Reading and executing an answer: the notifications it adds were counted.
LEMMA HandleDataTypes ==
  ASSUME TypeOK, NotifsOwed, HandleData
  PROVE  /\ fromS' \in Seq(Answer) /\ disturbed' \in BOOLEAN
         /\ wire' \in {"closed", "ok", "fin", "reset", "broken"}
         /\ login' \in Names /\ codes' \in Names /\ pending' \in 0..MaxNotifs
         /\ codeState' = codeState
         /\ NotifsOwed'
<1>1. CASE fromS = <<>> /\ UNCHANGED <<fromS, disturbed, ctxVars>> /\ wire' \in {wire, "closed"}
  BY <1>1 DEF TypeOK, ctxVars, NotifsOwed, OnWay
<1>2. ASSUME NEW n \in 1..Len(fromS), fromS' = SubSeq(fromS, n + 1, Len(fromS)),
             disturbed' = (disturbed \/ n > 1), UNCHANGED wire,
             IF n = 1 THEN Execute(Head(fromS)) ELSE UNCHANGED ctxVars
      PROVE  /\ fromS' \in Seq(Answer) /\ disturbed' \in BOOLEAN
             /\ wire' \in {"closed", "ok", "fin", "reset", "broken"}
             /\ login' \in Names /\ codes' \in Names /\ pending' \in 0..MaxNotifs
             /\ codeState' = codeState
             /\ NotifsOwed'
  <2>1. /\ fromS' \in Seq(Answer) /\ DOMAIN fromS' = 1..(Len(fromS) - n)
        /\ DOMAIN fromS = 1..Len(fromS) /\ Len(fromS) \in Nat
        /\ \A i \in 1..(Len(fromS) - n) : fromS'[i] = fromS[n + i]
    BY <1>2, RestTypes, LenProperties DEF TypeOK
  <2>2. \A i \in OnWay("SEND_NOTIF")' : n + i \in OnWay("SEND_NOTIF")
    BY <2>1 DEF OnWay
  <2>3. Head(fromS) = fromS[1] /\ fromS[1] \in Answer /\ 1 \in DOMAIN fromS
    BY <2>1 DEF TypeOK
  <2>4. /\ login' \in Names /\ codes' \in Names /\ codeState' = codeState
        /\ pending' = IF n = 1 /\ fromS[1].type = "SEND_NOTIF" THEN pending + 1 ELSE pending
    BY <1>2, <2>3 DEF TypeOK, Execute, LoginResponse, CodeResponse, SendNotification, ctxVars,
                      Answer
  <2>5. CASE n = 1 /\ fromS[1].type = "SEND_NOTIF"
    <3>1. 1 \in OnWay("SEND_NOTIF")
      BY <2>3, <2>5 DEF OnWay
    <3>2. pending < MaxNotifs /\ OnWay("SEND_NOTIF")' = {}
      <4>1. \A i \in OnWay("SEND_NOTIF")' : i \in Nat \ {0} /\ n + i = 1
        BY <2>1, <2>2, <3>1 DEF NotifsOwed, OnWay
      <4> QED BY <2>5, <3>1, <4>1 DEF NotifsOwed
    <3>3. pending' \in 0..MaxNotifs
      BY <2>4, <2>5, <3>2, ClientAssumption DEF TypeOK, ClientAssumption
    <3> QED BY <1>2, <2>1, <2>4, <3>2, <3>3 DEF TypeOK, NotifsOwed
  <2>6. CASE ~(n = 1 /\ fromS[1].type = "SEND_NOTIF")
    <3>1. pending' = pending
      BY <2>4, <2>6
    <3>2. NotifsOwed'
      <4>1. \A i \in OnWay("SEND_NOTIF")' : i \in Nat
        BY <2>1 DEF OnWay
      <4> QED BY <2>2, <3>1, <4>1 DEF NotifsOwed
    <3> QED BY <1>2, <2>1, <2>4, <3>1, <3>2 DEF TypeOK
  <2> QED BY <2>5, <2>6
<1> QED BY <1>1, <1>2 DEF HandleData

\* One request at the server: the session and its answer are of their types,
\* and a login or codes that are answered are those of the session.
LEMMA TakesEffect ==
  ASSUME TypeOK, NEW r \in Request, Takes(r)
  PROVE  /\ srv' \in ServerSession
         /\ \/ fromS' = fromS
            \/ \E a \in Answer : /\ fromS' = Append(fromS, a)
                                 /\ a.type # "SEND_NOTIF"
                                 /\ a.type \in {"LOGIN_RESP", "CODE_RESP"} => a.name = srv'.logged
                                 /\ a.type = "LOGIN_RESP" => r.type = "LOGIN"
         /\ srv'.logged \notin {NoName, srv.logged} =>
                fromS' = Append(fromS, [type |-> "LOGIN_RESP", name |-> srv'.logged])
         /\ r.type = "REQ_CODE" /\ CanReceiveCode(srv') =>
                fromS' = Append(fromS, [type |-> "CODE_RESP", name |-> srv'.logged])
         /\ r.type = "LOGOUT" => srv'.logged = NoName
         /\ srv'.view = IF r.type \in ViewTypes THEN r.type = "REQ_CODE" ELSE srv.view
<1> USE DEF ViewTypes
<1>1. srv \in ServerSession /\ r.name \in Names /\ fromS \in Seq(Answer)
  BY DEF TypeOK, ServerSession, Request
<1>2. ASSUME NEW a \in Answer PROVE fromS \o <<a>> = Append(fromS, a)
  BY <1>1, <1>2, AppendIsConcat
<1>3. fromS \o <<>> = fromS
  BY <1>1, ConcatEmptySeq
<1>4. /\ [type |-> "LOGIN_RESP", name |-> r.name] \in Answer
      /\ [type |-> "CODE_RESP", name |-> srv.logged] \in Answer
      /\ [type |-> "OTHER", name |-> NoName] \in Answer
      /\ r.type = "OTHER" => r \in Answer
  BY <1>1 DEF Answer, Names, ServerSession, Request
<1>5. srv' = Handled(r)
  BY DEF Takes
<1>6. CASE r.type = "OTHER"
  <2>1. srv' = srv /\ Answered(r) = <<>>
    BY <1>5, <1>6 DEF Handled, Answered, LogsIn
  <2> QED BY <1>1, <1>3, <1>4, <1>6, <2>1 DEF Takes
<1>7. CASE r.type = "CONN"
  <2>1. srv' = srv /\ Answered(r) = <<>>
    BY <1>5, <1>7 DEF Handled, Answered, LogsIn
  <2> QED BY <1>1, <1>3, <1>7, <2>1 DEF Takes
<1>8. CASE r.type = "EXIT_SCS"
  <2>1. srv' = [srv EXCEPT !.view = FALSE] /\ Answered(r) = <<>>
    BY <1>5, <1>8 DEF Handled, Answered, LogsIn
  <2> QED BY <1>1, <1>3, <1>8, <2>1 DEF Takes, ServerSession
<1>9. CASE r.type = "LOGOUT"
  <2>1. /\ srv' = [srv EXCEPT !.logged = NoName]
        /\ Answered(r) = IF srv.logged = NoName
                         THEN <<[type |-> "OTHER", name |-> NoName]>> ELSE <<>>
    BY <1>5, <1>9 DEF Handled, Answered, LogsIn
  <2>2. fromS' \in {fromS, Append(fromS, [type |-> "OTHER", name |-> NoName])}
    BY <1>2, <1>3, <1>4, <1>9, <2>1 DEF Takes
  <2> QED BY <1>1, <1>4, <1>9, <2>1, <2>2 DEF ServerSession, Names
<1>10. CASE r.type = "REQ_CODE"
  <2>1. /\ srv' = [srv EXCEPT !.view = TRUE]
        /\ Answered(r) = IF CanReceiveCode(srv')
                         THEN <<[type |-> "CODE_RESP", name |-> srv.logged]>> ELSE <<>>
    BY <1>5, <1>10 DEF Handled, Answered, LogsIn
  <2>2. /\ CanReceiveCode(srv') =>
               fromS' = Append(fromS, [type |-> "CODE_RESP", name |-> srv.logged])
        /\ ~CanReceiveCode(srv') => fromS' = fromS
    BY <1>2, <1>3, <1>4, <1>10, <2>1 DEF Takes
  <2>3. srv' \in ServerSession /\ srv'.logged = srv.logged /\ srv'.view = TRUE
    BY <1>1, <2>1 DEF ServerSession
  <2> QED BY <1>4, <1>10, <2>2, <2>3
<1>11. CASE r.type = "LOGIN" /\ srv.logged = NoName /\ r.name # NoName
  <2>1. srv' = [srv EXCEPT !.logged = r.name, !.identity = r.name]
    BY <1>5, <1>11 DEF Handled, LogsIn
  <2>2. Answered(r) = <<[type |-> "LOGIN_RESP", name |-> r.name]>>
    BY <1>11 DEF Answered, LogsIn
  <2>3. fromS' = Append(fromS, [type |-> "LOGIN_RESP", name |-> r.name])
    BY <1>2, <1>4, <1>11, <2>2 DEF Takes
  <2> QED BY <1>1, <1>4, <1>11, <2>1, <2>3 DEF ServerSession
<1>12. CASE r.type = "LOGIN" /\ ~(srv.logged = NoName /\ r.name # NoName)
  <2>1. srv' = srv /\ Answered(r) = <<[type |-> "OTHER", name |-> NoName]>>
    BY <1>5, <1>12 DEF Handled, Answered, LogsIn
  <2>2. fromS' = Append(fromS, [type |-> "OTHER", name |-> NoName])
    BY <1>2, <1>4, <1>12, <2>1 DEF Takes
  <2> QED BY <1>1, <1>4, <1>12, <2>1, <2>2
<1> QED BY <1>6, <1>7, <1>8, <1>9, <1>10, <1>11, <1>12 DEF Request

-----------------------------------------------------------------------------
\* What a step does to a link on which nothing was lost

\* A new link: the server starts a session, and the loop is not in the view.
Links ==
    /\ fromS' = <<>> /\ toS' = <<[type |-> "CONN", name |-> NoName]>>
    /\ srv' = NewServerSession /\ ~Viewing'

\* Nothing on the link, and the session's codes may be taken by the thread.
Idles ==
    /\ UNCHANGED <<toS, fromS, login, codes>>
    /\ srv'.logged = srv.logged /\ srv'.view = srv.view
    /\ up' = "up" => up = "up" /\ (Viewing' <=> Viewing)

\* The client sends: from the console, or EXIT_SCS from the view.
Sends ==
    /\ up = "up" /\ UNCHANGED <<fromS, codes, srv>>
    /\ \E r \in Request :
         /\ toS' = Append(toS, r)
         /\ login' = IF r.type = "LOGOUT" THEN NoName ELSE login
         /\ Viewing' <=> r.type = "REQ_CODE"
         /\ Viewing => r.type = "EXIT_SCS"

\* The client reads one answer.
Receives ==
    /\ fromS # <<>> /\ fromS' = Tail(fromS)
    /\ Execute(Head(fromS))
    /\ UNCHANGED <<toS, srv, up>> /\ (Viewing' <=> Viewing)

\* The server takes one request.
Serves ==
    /\ toS # <<>> /\ toS' = Tail(toS)
    /\ Takes(Head(toS))
    /\ UNCHANGED <<login, codes, up>> /\ (Viewing' <=> Viewing)

\* The server sends what nobody asked for: codes of the login it holds, or
\* something about notifications.
Pushes ==
    /\ \E a \in Answer : /\ fromS' = Append(fromS, a)
                         /\ a.type \in {"CODE_RESP", "SEND_NOTIF", "OTHER"}
                         /\ a.type = "CODE_RESP" => a.name = srv.logged
    /\ srv'.logged = srv.logged /\ srv'.view = srv.view
    /\ UNCHANGED <<toS, login, codes, up>> /\ (Viewing' <=> Viewing)

InStepStep == InStep /\ (Idles \/ Sends \/ Receives \/ Serves \/ Pushes)

\* A command on a link in step.
LEMMA SendsOnce ==
  ASSUME TypeOK, NEW type \in {"LOGIN", "LOGOUT", "REQ_CODE", "EXIT_SCS", "OTHER"},
         NEW n \in Names, SendCommand(type, n), InStep',
         up = "up", UNCHANGED codes,
         login' = IF type = "LOGOUT" THEN NoName ELSE login,
         Viewing' <=> type = "REQ_CODE", Viewing => type = "EXIT_SCS"
  PROVE  InStep /\ Sends
<1> DEFINE r == [type |-> type, name |-> n]
<1>1. InStep /\ UNCHANGED <<fromS, srv>>
  BY DEF SendCommand, InStep, srvVars
<1>2. r \in Request /\ r.type = type
  BY DEF Request
<1>3. toS' = Append(toS, r)
  BY <1>1 DEF SendCommand, InStep
<1> HIDE DEF r
<1> QED BY <1>1, <1>2, <1>3 DEF Sends

\* What is read at once on a link that stays in step is one answer, or nothing.
LEMMA ReceivesOnce ==
  ASSUME TypeOK, HandleData, InStep', UNCHANGED <<toS, srv, up>>, Viewing' <=> Viewing
  PROVE  InStep /\ (Receives \/ Idles)
<1>1. CASE fromS = <<>> /\ UNCHANGED <<fromS, disturbed, wire, ctxVars>>
  BY <1>1 DEF InStep, Idles, ctxVars
<1>2. ASSUME NEW n \in 1..Len(fromS), fromS' = SubSeq(fromS, n + 1, Len(fromS)),
             disturbed' = (disturbed \/ n > 1), UNCHANGED wire,
             IF n = 1 THEN Execute(Head(fromS)) ELSE UNCHANGED ctxVars
      PROVE  InStep /\ Receives
  <2>1. ~(n > 1) /\ ~disturbed /\ wire = "ok"
    BY <1>2, Zenon DEF InStep
  <2>2. n = 1
    BY <2>1 DEF TypeOK
  <2>3. fromS \in Seq(Answer) /\ fromS # <<>>
    BY <1>2 DEF TypeOK
  <2>4. fromS' = Tail(fromS)
    BY <1>2, <2>2, <2>3, TailIsSubSeq
  <2> QED BY <1>2, <2>1, <2>2, <2>3, <2>4 DEF Receives, InStep
<1>3. CASE wire' = "closed"
  BY <1>3 DEF InStep
<1> QED BY <1>1, <1>2, <1>3 DEF HandleData

\* Every step that leaves a link in step is of one of these kinds.
LEMMA Kinds ==
  ASSUME TypeOK, [Next]_vars, InStep'
  PROVE  Links \/ InStepStep
<1> USE DEF Viewing
<1> DEFINE Still == UNCHANGED <<toS, fromS, login, codes, srv, wire, disturbed>>
<1>0. ASSUME Still, up' = "up" => up = "up" /\ (Viewing' <=> Viewing)
      PROVE  InStepStep
  BY <1>0 DEF Still, InStepStep, Idles, InStep
<1>1. CASE Start \/ Reconnect
  <2>1. ~Viewing /\ ~Viewing' /\ up = "up" /\ UNCHANGED <<login, codes>>
    BY <1>1 DEF Start, Reconnect, Console, ctxVars
  <2>2. CASE UNCHANGED <<wire, toS, fromS, srvVars>>
    BY <1>0, <2>1, <2>2 DEF Still, srvVars
  <2>3. CASE ~UNCHANGED <<wire, toS, fromS, srvVars>>
    BY <1>1, <2>1, <2>3 DEF Start, Reconnect, SetupHandler, Links
  <2> QED BY <2>2, <2>3
<1>2. CASE Update
  <2>1. ~Viewing /\ ~Viewing'
    BY <1>2 DEF Update
  <2>2. CASE HandleData /\ UNCHANGED <<toS, srv, up>>
    BY <2>1, <2>2, ReceivesOnce DEF InStepStep
  <2>3. CASE ReadFails
    BY <2>3 DEF ReadFails, InStep
  <2>4. CASE Still /\ UNCHANGED up
    BY <1>0, <2>1, <2>4
  <2> QED BY <1>2, <2>2, <2>3, <2>4 DEF Update, ctxVars, linkVars, srvVars
<1>3. CASE NoCommand \/ Exit \/ ViewEnds \/ ViewGoesOn
  BY <1>0, <1>3 DEF NoCommand, Exit, ViewEnds, ViewGoesOn, Console, InView, InStep, ctxVars,
                    linkVars, srvVars
<1>4. NoName \in Names
  BY DEF Names
<1>5. CASE OtherCommand
  BY <1>4, <1>5, SendsOnce DEF OtherCommand, Console, ctxVars, InStepStep
<1>6. ASSUME NEW n \in Names, Login(n) PROVE InStepStep
  BY <1>6, SendsOnce DEF Login, Console, ctxVars, InStepStep
<1>7. CASE Logout
  BY <1>4, <1>7, SendsOnce DEF Logout, Console, InStepStep
<1>8. CASE AnswerNotification
  <2>1. ~Viewing /\ ~Viewing' /\ up = "up" /\ UNCHANGED <<login, codes>>
    BY <1>8 DEF AnswerNotification, Console, ctxVars
  <2>2. CASE UNCHANGED <<linkVars, srvVars>>
    BY <1>0, <2>1, <2>2 DEF Still, linkVars, srvVars
  <2>3. CASE SendCommand("OTHER", NoName)
    BY <1>4, <2>1, <2>3, SendsOnce DEF InStepStep
  <2> QED BY <1>8, <2>2, <2>3 DEF AnswerNotification
<1>9. CASE Code
  BY <1>4, <1>9, SendsOnce DEF Code, Console, InStepStep
<1>10. CASE ViewLeft
  BY <1>4, <1>10, SendsOnce DEF ViewLeft, InView, InStepStep
<1>11. CASE ViewUpdate
  <2>1. CASE HandleData /\ pc' = "view"
    BY <1>11, <2>1, ReceivesOnce DEF ViewUpdate, InStepStep
  <2>2. CASE ReadFails
    BY <2>2 DEF ReadFails, InStep
  <2> QED BY <1>11, <2>1, <2>2 DEF ViewUpdate
<1>12. CASE Restart
  BY <1>12 DEF Restart, InStep
<1>13. CASE ServerTakes
  BY <1>13 DEF ServerTakes, ServerStep, InStep, InStepStep, Serves, ctxVars
<1>14. CASE ServerMerges \/ ServerStops
  BY <1>14 DEF ServerMerges, ServerStops, InStep
<1>15. CASE ServerFormats
  <2>1. srv'.logged = srv.logged /\ srv'.view = srv.view
    BY <1>15 DEF ServerFormats, TypeOK
  <2> QED BY <1>15, <2>1 DEF ServerFormats, ServerStep, InStep, InStepStep, Idles, ctxVars
<1>16. CASE ServerPushes
  <2> DEFINE a == [type |-> "CODE_RESP", name |-> srv.pass]
  <2>1. srv'.logged = srv.logged /\ srv'.view = srv.view
    BY <1>16 DEF ServerPushes, TypeOK
  <2>2. srv.pass = srv.logged
    BY <1>16 DEF ServerPushes, InStep
  <2>3. a \in Answer /\ a.type = "CODE_RESP" /\ a.name = srv.logged
    BY <2>2 DEF TypeOK, Answer
  <2>4. fromS' = Append(fromS, a)
    BY <1>16 DEF ServerPushes
  <2> HIDE DEF a
  <2>5. Pushes
    BY <1>16, <2>1, <2>3, <2>4 DEF ServerPushes, ServerStep, Pushes, ctxVars
  <2> QED BY <1>16, <2>5 DEF ServerPushes, ServerStep, InStep, InStepStep
<1>17. CASE ServerNotifies
  <2>1. PICK t \in {"SEND_NOTIF", "OTHER"} : fromS' = Append(fromS, [type |-> t, name |-> NoName])
    BY <1>17 DEF ServerNotifies
  <2> DEFINE a == [type |-> t, name |-> NoName]
  <2>2. a \in Answer /\ a.type = t
    BY <1>4 DEF Answer
  <2>3. fromS' = Append(fromS, a)
    BY <2>1
  <2> HIDE DEF a
  <2>4. Pushes
    BY <1>17, <2>2, <2>3 DEF ServerNotifies, ServerStep, Pushes, ctxVars, srvVars
  <2> QED BY <1>17, <2>4 DEF ServerNotifies, ServerStep, InStep, InStepStep, srvVars
<1>18. CASE UNCHANGED vars
  BY <1>0, <1>18 DEF vars, Still, ctxVars, linkVars, srvVars
<1> QED BY <1>1, <1>2, <1>3, <1>5, <1>6, <1>7, <1>8, <1>9, <1>10, <1>11, <1>12, <1>13, <1>14,
           <1>15, <1>16, <1>17, <1>18 DEF Next, Run, User, Server

-----------------------------------------------------------------------------
\* What is owed

\* A login is answered before it can be logged out of, and a logout that the
\* client sent is still to come or the server is logged out.
LEMMA LoginStep ==
  ASSUME IInv, [Next]_vars
  PROVE  LoginKnown'
<1> SUFFICES ASSUME InStep', srv'.logged # NoName
             PROVE  \/ \E i \in DOMAIN toS' : toS'[i].type = "LOGOUT"
                    \/ \E i \in DOMAIN fromS' :
                           IsLast(fromS', {"LOGIN_RESP"}, i) /\ fromS'[i].name = srv'.logged
                    \/ NoneOf(fromS', {"LOGIN_RESP"}) /\ login' = srv'.logged
  BY DEF LoginKnown, IsLast, NoneOf
<1>1. TypeOK /\ LoginKnown /\ toS \in Seq(Request) /\ fromS \in Seq(Answer)
  BY DEF IInv, TypeOK
<1>2. CASE Links
  BY <1>2 DEF Links, NewServerSession
<1>3. CASE InStep /\ Idles
  BY <1>1, <1>3 DEF Idles, LoginKnown, InStep
<1>4. CASE InStep /\ Sends
  <2>1. PICK r \in Request : /\ toS' = Append(toS, r)
                             /\ login' = IF r.type = "LOGOUT" THEN NoName ELSE login
    BY <1>4 DEF Sends
  <2>2. CASE r.type = "LOGOUT"
    BY <1>1, <2>1, <2>2, AppendProperties, LenProperties
  <2>3. CASE r.type # "LOGOUT"
    <3>1. \A i \in DOMAIN toS : i \in DOMAIN toS' /\ toS'[i] = toS[i]
      BY <1>1, <2>1, AppendProperties, LenProperties
    <3> QED BY <1>1, <1>4, <2>1, <2>3, <3>1 DEF Sends, LoginKnown
  <2> QED BY <2>2, <2>3
<1>5. CASE InStep /\ Receives
  <2>1. fromS # <<>> /\ fromS' = Tail(fromS) /\ Execute(Head(fromS)) /\ UNCHANGED <<toS, srv>>
    BY <1>5 DEF Receives
  <2>2. login' = IF Head(fromS).type = "LOGIN_RESP" THEN Head(fromS).name ELSE login
    BY <2>1 DEF Execute, LoginResponse
  <2> DEFINE K == {"LOGIN_RESP"}
  <2>3. /\ Head(fromS) = fromS[1]
        /\ \A i \in DOMAIN fromS' : fromS'[i] = fromS[i + 1]
        /\ DOMAIN fromS' = 1..(Len(fromS) - 1) /\ DOMAIN fromS = 1..Len(fromS)
        /\ \A i : IsLast(fromS, K, i) /\ i # 1 => IsLast(fromS', K, i - 1)
        /\ Head(fromS).type \notin K => (NoneOf(fromS', K) <=> NoneOf(fromS, K))
        /\ NoneOf(fromS, K) => Head(fromS).type \notin K
    BY <1>1, <2>1, Taken
  <2>4. ASSUME NEW i \in DOMAIN fromS, IsLast(fromS, K, i), fromS[i].name = srv.logged
        PROVE  \/ \E j \in DOMAIN fromS' :
                      IsLast(fromS', K, j) /\ fromS'[j].name = srv'.logged
               \/ NoneOf(fromS', K) /\ login' = srv'.logged
    <3>1. CASE i = 1
      <4>1. NoneOf(fromS', K)
        <5>1. ASSUME NEW j \in DOMAIN fromS' PROVE fromS'[j].type \notin K
          <6>1. j + 1 \in DOMAIN fromS /\ j + 1 > i /\ fromS'[j] = fromS[j + 1]
            BY <2>3, <3>1
          <6> QED BY <2>4, <6>1 DEF IsLast
        <5> QED BY <5>1 DEF NoneOf
      <4> QED BY <2>1, <2>2, <2>3, <2>4, <3>1, <4>1 DEF IsLast
    <3>2. CASE i # 1
      <4>1. IsLast(fromS', K, i - 1) /\ i - 1 \in DOMAIN fromS'
        BY <2>3, <2>4, <3>2 DEF IsLast
      <4>2. fromS'[i - 1] = fromS[i]
        BY <2>3, <4>1
      <4> QED BY <2>1, <2>4, <4>1, <4>2
    <3> QED BY <3>1, <3>2
  <2>5. CASE NoneOf(fromS, K) /\ login = srv.logged
    BY <2>1, <2>2, <2>3, <2>5
  <2>6. CASE \E i \in DOMAIN toS : toS[i].type = "LOGOUT"
    BY <2>1, <2>6
  <2> QED BY <1>1, <1>5, <2>1, <2>4, <2>5, <2>6 DEF LoginKnown
<1>6. CASE InStep /\ Serves
  <2> DEFINE K == {"LOGIN_RESP"}
             r == Head(toS)
  <2>1. toS # <<>> /\ toS' = Tail(toS) /\ Takes(r) /\ UNCHANGED login
    BY <1>6 DEF Serves
  <2>2. /\ r = toS[1] /\ r \in Request
        /\ DOMAIN toS' = 1..(Len(toS) - 1) /\ DOMAIN toS = 1..Len(toS)
        /\ \A i \in DOMAIN toS' : toS'[i] = toS[i + 1]
    BY <1>1, <2>1, Taken
  <2>3. /\ \/ fromS' = fromS
           \/ \E a \in Answer : /\ fromS' = Append(fromS, a)
                                /\ a.type = "LOGIN_RESP" => a.name = srv'.logged
        /\ srv'.logged # srv.logged =>
               fromS' = Append(fromS, [type |-> "LOGIN_RESP", name |-> srv'.logged])
        /\ r.type # "LOGOUT"
    <3> HIDE DEF r
    <3> QED BY <1>1, <2>1, <2>2, TakesEffect
  <2>4. CASE \E a \in Answer : fromS' = Append(fromS, a) /\ a.type \in K /\ a.name = srv'.logged
    <3>1. PICK a \in Answer : fromS' = Append(fromS, a) /\ a.type \in K /\ a.name = srv'.logged
      BY <2>4
    <3>2. IsLast(fromS', K, Len(fromS) + 1) /\ fromS'[Len(fromS) + 1] = a
      BY <1>1, <3>1, Appended
    <3> QED BY <3>1, <3>2 DEF IsLast
  <2>5. CASE srv'.logged = srv.logged /\ \/ fromS' = fromS
                                         \/ \E a \in Answer : fromS' = Append(fromS, a) /\ a.type \notin K
    <3> DEFINE Same == /\ \A i : IsLast(fromS', K, i) <=> IsLast(fromS, K, i)
                       /\ NoneOf(fromS', K) <=> NoneOf(fromS, K)
                       /\ \A i \in DOMAIN fromS : i \in DOMAIN fromS' /\ fromS'[i] = fromS[i]
    <3>1. Same
      <4>1. CASE fromS' = fromS
        BY <4>1
      <4>2. ASSUME NEW a \in Answer, fromS' = Append(fromS, a), a.type \notin K
            PROVE  Same
        BY <1>1, <4>2, Appended
      <4> QED BY <2>5, <4>1, <4>2
    <3>2. ASSUME NEW i \in DOMAIN toS, toS[i].type = "LOGOUT"
          PROVE  \E j \in DOMAIN toS' : toS'[j].type = "LOGOUT"
      <4>1. i # 1
        BY <2>2, <2>3, <3>2
      <4>2. i - 1 \in DOMAIN toS' /\ toS'[i - 1] = toS[i]
        BY <2>2, <4>1
      <4> QED BY <3>2, <4>2
    <3> QED BY <1>1, <1>6, <2>1, <2>5, <3>1, <3>2 DEF LoginKnown
  <2>6. CASE srv'.logged # srv.logged
    <3>1. [type |-> "LOGIN_RESP", name |-> srv'.logged] \in Answer
      <4>1. srv' \in ServerSession
        <5> HIDE DEF r
        <5> QED BY <1>1, <2>1, <2>2, TakesEffect
      <4> QED BY <4>1 DEF Answer, ServerSession
    <3> QED BY <2>3, <2>4, <2>6, <3>1
  <2> QED BY <2>3, <2>4, <2>5, <2>6
<1>7. CASE InStep /\ Pushes
  <2> DEFINE K == {"LOGIN_RESP"}
  <2>1. PICK a \in Answer : fromS' = Append(fromS, a) /\ a.type \notin K
    BY <1>7 DEF Pushes
  <2>2. /\ \A i : IsLast(fromS', K, i) <=> IsLast(fromS, K, i)
        /\ NoneOf(fromS', K) <=> NoneOf(fromS, K)
        /\ \A i \in DOMAIN fromS : i \in DOMAIN fromS' /\ fromS'[i] = fromS[i]
    BY <1>1, <2>1, Appended
  <2> QED BY <1>1, <1>7, <2>2 DEF Pushes, LoginKnown
<1> QED BY <1>1, <1>2, <1>3, <1>4, <1>5, <1>6, <1>7, Kinds DEF InStepStep

\* The way into the view and the way out of it each tell the server, in order.
LEMMA ViewStep ==
  ASSUME IInv, [Next]_vars
  PROVE  ViewOwed'
<1> DEFINE K == ViewTypes
<1> SUFFICES ASSUME InStep', up' = "up"
             PROVE  /\ \A i \in DOMAIN toS' :
                           IsLast(toS', K, i) => (toS'[i].type = "REQ_CODE" <=> Viewing')
                    /\ NoneOf(toS', K) => (srv'.view <=> Viewing')
  BY DEF ViewOwed, IsLast, NoneOf, ViewTypes
<1> HIDE DEF K
<1>1. TypeOK /\ toS \in Seq(Request) /\ Len(toS) \in Nat
  BY DEF IInv, TypeOK
<1>2. up = "up" /\ InStep =>
        /\ \A i \in DOMAIN toS : IsLast(toS, K, i) => (toS[i].type = "REQ_CODE" <=> Viewing)
        /\ NoneOf(toS, K) => (srv.view <=> Viewing)
  BY DEF IInv, ViewOwed, K
<1>3. CASE Links
  <2>1. ~Viewing' /\ ~srv'.view
    BY <1>3 DEF Links, NewServerSession
  <2>2. \A i \in DOMAIN toS' : toS'[i].type = "CONN"
    BY <1>3 DEF Links
  <2> QED BY <2>1, <2>2
<1>4. CASE InStep /\ (Idles \/ Receives \/ Pushes)
  <2>1. UNCHANGED toS /\ up = "up" /\ (Viewing' <=> Viewing) /\ srv'.view = srv.view
    BY <1>4 DEF Idles, Receives, Pushes
  <2> QED BY <1>2, <1>4, <2>1
<1>5. CASE InStep /\ Sends
  <2>1. PICK r \in Request : /\ toS' = Append(toS, r)
                             /\ Viewing' <=> r.type = "REQ_CODE"
                             /\ Viewing => r.type = "EXIT_SCS"
    BY <1>5 DEF Sends
  <2>2. up = "up" /\ UNCHANGED srv
    BY <1>5 DEF Sends
  <2>3. CASE r.type \in K
    <3>1. /\ \A i : IsLast(toS', K, i) => i = Len(toS) + 1
          /\ toS'[Len(toS) + 1] = r /\ ~NoneOf(toS', K)
      BY <1>1, <2>1, <2>3, Appended
    <3> QED BY <2>1, <3>1
  <2>4. CASE r.type \notin K
    <3>1. /\ \A i : IsLast(toS', K, i) <=> IsLast(toS, K, i)
          /\ NoneOf(toS', K) <=> NoneOf(toS, K)
          /\ \A i \in DOMAIN toS : toS'[i] = toS[i]
      BY <1>1, <2>1, <2>4, Appended
    <3>2. ~Viewing /\ ~Viewing'
      BY <2>1, <2>4 DEF K, ViewTypes
    <3> QED BY <1>2, <1>5, <2>2, <3>1, <3>2 DEF IsLast
  <2> QED BY <2>3, <2>4
<1>6. CASE InStep /\ Serves
  <2> DEFINE r == Head(toS)
  <2>1. toS # <<>> /\ toS' = Tail(toS) /\ Takes(r) /\ up = "up" /\ (Viewing' <=> Viewing)
    BY <1>6 DEF Serves
  <2>2. /\ r = toS[1] /\ r \in Request /\ 1 \in DOMAIN toS
        /\ DOMAIN toS' = 1..(Len(toS) - 1) /\ DOMAIN toS = 1..Len(toS)
        /\ \A i \in DOMAIN toS' : toS'[i] = toS[i + 1]
        /\ \A i : IsLast(toS', K, i) => IsLast(toS, K, i + 1)
        /\ r.type \notin K => (NoneOf(toS', K) <=> NoneOf(toS, K))
        /\ r.type \in K /\ NoneOf(toS', K) => IsLast(toS, K, 1)
    BY <1>1, <2>1, Taken
  <2> HIDE DEF r
  <2>3. srv'.view = IF r.type \in K THEN r.type = "REQ_CODE" ELSE srv.view
    BY <1>1, <2>1, <2>2, TakesEffect DEF K
  <2>4. ASSUME NEW i \in DOMAIN toS', IsLast(toS', K, i)
        PROVE  toS'[i].type = "REQ_CODE" <=> Viewing'
    <3>1. i + 1 \in DOMAIN toS /\ IsLast(toS, K, i + 1) /\ toS'[i] = toS[i + 1]
      BY <2>2, <2>4 DEF IsLast
    <3> QED BY <1>2, <1>6, <2>1, <3>1
  <2>5. ASSUME NoneOf(toS', K) PROVE srv'.view <=> Viewing'
    <3>1. CASE r.type \in K
      BY <1>2, <1>6, <2>1, <2>2, <2>3, <2>5, <3>1
    <3>2. CASE r.type \notin K
      BY <1>2, <1>6, <2>1, <2>2, <2>3, <2>5, <3>2
    <3> QED BY <3>1, <3>2
  <2> QED BY <2>4, <2>5
<1> QED BY <1>1, <1>3, <1>4, <1>5, <1>6, Kinds DEF InStepStep

\* The server answers the request for the view with the codes of its login, and
\* what it pushes to an open view are those too.
LEMMA CodesStep ==
  ASSUME IInv, [Next]_vars
  PROVE  CodesOwed'
<1> DEFINE K == {"CODE_RESP"}
           Shown == \/ \E i \in DOMAIN fromS : IsLast(fromS, K, i) /\ fromS[i].name = srv.logged
                    \/ NoneOf(fromS, K) /\ codes = srv.logged
           Asked == toS # <<>> /\ toS[Len(toS)].type = "REQ_CODE"
<1> SUFFICES ASSUME InStep', up' = "up", Viewing'
             PROVE  \/ Asked'
                    \/ toS' = <<>> /\ (CanReceiveCode(srv)' => Shown')
  BY DEF CodesOwed, IsLast, NoneOf
<1>1. TypeOK /\ toS \in Seq(Request) /\ fromS \in Seq(Answer) /\ Len(toS) \in Nat
  BY DEF IInv, TypeOK
<1>2. up = "up" /\ InStep /\ Viewing =>
        \/ Asked
        \/ toS = <<>> /\ (CanReceiveCode(srv) => Shown)
  BY DEF IInv, CodesOwed
<1> HIDE DEF Asked, Shown, K
<1>3. ~Links
  BY DEF Links
<1>4. CASE InStep /\ Idles
  <2>1. UNCHANGED <<toS, fromS, codes>> /\ up = "up" /\ Viewing
        /\ srv'.logged = srv.logged /\ srv'.view = srv.view
    BY <1>4 DEF Idles
  <2>2. (CanReceiveCode(srv)' <=> CanReceiveCode(srv)) /\ (Shown' <=> Shown) /\ (Asked' <=> Asked)
    BY <2>1 DEF CanReceiveCode, Asked, Shown, IsLast, NoneOf
  <2> QED BY <1>2, <1>4, <2>1, <2>2
<1>5. CASE InStep /\ Sends
  <2>1. PICK r \in Request : toS' = Append(toS, r) /\ r.type = "REQ_CODE"
    BY <1>5 DEF Sends
  <2>2. toS' # <<>> /\ Len(toS') = Len(toS) + 1 /\ toS'[Len(toS) + 1] = r
    BY <1>1, <2>1, AppendProperties
  <2> QED BY <2>1, <2>2 DEF Asked
<1>6. CASE InStep /\ Receives
  <2>1. /\ fromS # <<>> /\ fromS' = Tail(fromS) /\ Execute(Head(fromS))
        /\ UNCHANGED <<toS, srv>> /\ up = "up" /\ Viewing
    BY <1>6 DEF Receives
  <2>2. codes' = IF Head(fromS).type \in K THEN Head(fromS).name ELSE codes
    BY <2>1 DEF Execute, CodeResponse, K
  <2>3. /\ Head(fromS) = fromS[1]
        /\ \A i \in DOMAIN fromS' : fromS'[i] = fromS[i + 1]
        /\ DOMAIN fromS' = 1..(Len(fromS) - 1) /\ DOMAIN fromS = 1..Len(fromS)
        /\ \A i : IsLast(fromS, K, i) /\ i # 1 => IsLast(fromS', K, i - 1)
        /\ Head(fromS).type \notin K => (NoneOf(fromS', K) <=> NoneOf(fromS, K))
        /\ NoneOf(fromS, K) => Head(fromS).type \notin K
    BY <1>1, <2>1, Taken
  <2>4. ASSUME NEW i \in DOMAIN fromS, IsLast(fromS, K, i), fromS[i].name = srv.logged
        PROVE  Shown'
    <3>1. CASE i = 1
      <4>1. NoneOf(fromS', K)
        <5>1. ASSUME NEW j \in DOMAIN fromS' PROVE fromS'[j].type \notin K
          <6>1. j + 1 \in DOMAIN fromS /\ j + 1 > i /\ fromS'[j] = fromS[j + 1]
            BY <2>3, <3>1
          <6> QED BY <2>4, <6>1 DEF IsLast
        <5> QED BY <5>1 DEF NoneOf
      <4> QED BY <2>1, <2>2, <2>3, <2>4, <3>1, <4>1 DEF IsLast, NoneOf, Shown
    <3>2. CASE i # 1
      <4>1. IsLast(fromS', K, i - 1) /\ i - 1 \in DOMAIN fromS'
        BY <2>3, <2>4, <3>2 DEF IsLast
      <4>2. fromS'[i - 1] = fromS[i]
        BY <2>3, <4>1
      <4> QED BY <2>1, <2>4, <4>1, <4>2 DEF IsLast, NoneOf, Shown
    <3> QED BY <3>1, <3>2
  <2>5. ASSUME NoneOf(fromS, K), codes = srv.logged
        PROVE  Shown'
    <3>1. NoneOf(fromS', K) /\ codes' = srv'.logged
      BY <2>1, <2>2, <2>3, <2>5
    <3> QED BY <3>1 DEF Shown, NoneOf
  <2>6. (Asked' <=> Asked) /\ (CanReceiveCode(srv)' <=> CanReceiveCode(srv))
    BY <2>1 DEF Asked, CanReceiveCode
  <2>7. Shown => Shown'
    BY <2>4, <2>5 DEF Shown
  <2> QED BY <1>2, <1>6, <2>1, <2>6, <2>7
<1>7. CASE InStep /\ Serves
  <2> DEFINE r == Head(toS)
  <2>1. toS # <<>> /\ toS' = Tail(toS) /\ Takes(r) /\ up = "up" /\ Viewing
    BY <1>7 DEF Serves
  <2>2. Asked
    BY <1>2, <1>7, <2>1
  <2>3. /\ r = toS[1] /\ r \in Request
        /\ Len(toS') = Len(toS) - 1 /\ Len(toS) \in Nat \ {0}
        /\ \A i \in 1..(Len(toS) - 1) : toS'[i] = toS[i + 1]
        /\ Len(toS') = 0 => toS' = <<>>
        /\ Len(toS') # 0 => toS' # <<>>
    <3>1. Head(toS) = toS[1] /\ Len(toS) \in Nat \ {0}
      BY <1>1, <2>1, EmptySeq
    <3>2. /\ r \in Request /\ toS' \in Seq(Request) /\ Len(toS') = Len(toS) - 1
          /\ \A i \in 1..Len(toS') : toS'[i] = toS[i + 1]
      BY <1>1, <2>1, HeadTailProperties
    <3> QED BY <3>1, <3>2, EmptySeq
  <2>4. CASE Len(toS) > 1
    BY <2>2, <2>3, <2>4 DEF Asked
  <2>5. CASE Len(toS) = 1
    <3>1. toS' = <<>> /\ r.type = "REQ_CODE"
      BY <2>2, <2>3, <2>5 DEF Asked
    <3> DEFINE a == [type |-> "CODE_RESP", name |-> srv'.logged]
    <3>2. srv' \in ServerSession /\ (CanReceiveCode(srv') => fromS' = Append(fromS, a))
      <4> HIDE DEF r
      <4> QED BY <1>1, <2>1, <2>3, <3>1, TakesEffect
    <3>3. a \in Answer /\ a.type \in K /\ a.name = srv'.logged
      BY <3>2 DEF Answer, ServerSession, K
    <3> HIDE DEF a
    <3>4. ASSUME CanReceiveCode(srv')
          PROVE  IsLast(fromS', K, Len(fromS) + 1) /\ fromS'[Len(fromS) + 1] = a
      <4>1. fromS' = Append(fromS, a)
        BY <3>2, <3>4
      <4> QED BY <1>1, <3>3, <4>1, Appended
    <3> QED BY <3>1, <3>3, <3>4 DEF IsLast, NoneOf, CanReceiveCode, Shown
  <2> QED BY <2>3, <2>4, <2>5
<1>8. CASE InStep /\ Pushes
  <2>1. PICK a \in Answer : /\ fromS' = Append(fromS, a)
                            /\ a.type = "CODE_RESP" => a.name = srv.logged
    BY <1>8 DEF Pushes
  <2>2. UNCHANGED <<toS, codes>> /\ up = "up" /\ Viewing
        /\ srv'.logged = srv.logged /\ srv'.view = srv.view
    BY <1>8 DEF Pushes
  <2>3. (Asked' <=> Asked) /\ (CanReceiveCode(srv)' <=> CanReceiveCode(srv))
    BY <2>2 DEF Asked, CanReceiveCode
  <2>4. CASE a.type \in K
    <3>1. IsLast(fromS', K, Len(fromS) + 1) /\ fromS'[Len(fromS) + 1] = a
      BY <1>1, <2>1, <2>4, Appended
    <3>2. Shown'
      BY <2>1, <2>2, <2>4, <3>1 DEF IsLast, NoneOf, Shown, K
    <3> QED BY <1>2, <1>8, <2>2, <2>3, <3>2
  <2>5. CASE a.type \notin K
    <3>1. /\ \A i : IsLast(fromS', K, i) <=> IsLast(fromS, K, i)
          /\ NoneOf(fromS', K) <=> NoneOf(fromS, K)
          /\ \A i \in DOMAIN fromS : i \in DOMAIN fromS' /\ fromS'[i] = fromS[i]
      BY <1>1, <2>1, <2>5, Appended
    <3>2. Shown => Shown'
      BY <2>2, <3>1 DEF IsLast, NoneOf, Shown
    <3> QED BY <1>2, <1>8, <2>2, <2>3, <3>2
  <2> QED BY <2>4, <2>5
<1> QED BY <1>1, <1>3, <1>4, <1>5, <1>6, <1>7, <1>8, Kinds DEF InStepStep

-----------------------------------------------------------------------------
\* Types, and the room for notifications

\* An answer that is no notification is added.
LEMMA NoNotification ==
  ASSUME TypeOK, NotifsOwed, UNCHANGED pending,
         \/ UNCHANGED fromS
         \/ \E a \in Answer : fromS' = Append(fromS, a) /\ a.type # "SEND_NOTIF"
  PROVE  fromS' \in Seq(Answer) /\ NotifsOwed'
<1>1. fromS \in Seq(Answer)
  BY DEF TypeOK
<1>2. CASE UNCHANGED fromS
  BY <1>1, <1>2 DEF NotifsOwed, OnWay
<1>3. ASSUME NEW a \in Answer, fromS' = Append(fromS, a), a.type # "SEND_NOTIF"
      PROVE  fromS' \in Seq(Answer) /\ NotifsOwed'
  <2>1. /\ fromS' \in Seq(Answer) /\ Len(fromS) \in Nat
        /\ DOMAIN fromS = 1..Len(fromS) /\ DOMAIN fromS' = 1..(Len(fromS) + 1)
        /\ \A i \in 1..Len(fromS) : fromS'[i] = fromS[i]
        /\ fromS'[Len(fromS) + 1] = a
    BY <1>1, <1>3, AppendProperties, LenProperties
  <2>2. OnWay("SEND_NOTIF")' = OnWay("SEND_NOTIF")
    <3>1. ASSUME NEW i \in DOMAIN fromS', fromS'[i].type = "SEND_NOTIF" PROVE i \in DOMAIN fromS
      <4>1. i # Len(fromS) + 1
        BY <1>3, <2>1, <3>1
      <4> QED BY <2>1, <4>1
    <3>2. \A i \in DOMAIN fromS : i \in DOMAIN fromS' /\ fromS'[i] = fromS[i]
      BY <2>1
    <3> QED BY <3>1, <3>2 DEF OnWay
  <2> QED BY <1>1, <2>1, <2>2 DEF NotifsOwed
<1> QED BY <1>2, <1>3

\* On a new link no notification is on its way.
LEMMA NoneOnNewLink ==
  ASSUME fromS' = <<>> PROVE NotifsOwed' /\ fromS' \in Seq(Answer)
BY DEF NotifsOwed, OnWay

\* What a step leaves of the types of the variables but the program's own.
LinkTypes ==
    /\ isConnected \in BOOLEAN
    /\ wire \in {"closed", "ok", "fin", "reset", "broken"}
    /\ toS \in Seq(Request) /\ fromS \in Seq(Answer)
    /\ srv \in ServerSession /\ disturbed \in BOOLEAN

\* setupHandler() leaves a new link or the old one.
LEMMA SetupTypes ==
  ASSUME TypeOK, NotifsOwed, SetupHandler, UNCHANGED pending
  PROVE  LinkTypes' /\ NotifsOwed'
<1>1. CASE isConnected' = FALSE /\ UNCHANGED <<wire, toS, fromS, srvVars>>
  <2>1. fromS' \in Seq(Answer) /\ NotifsOwed'
    BY <1>1, NoNotification
  <2>2. isConnected' \in BOOLEAN
    BY <1>1
  <2> QED BY <1>1, <2>1, <2>2 DEF TypeOK, LinkTypes, ServerSession, srvVars
<1>2. CASE /\ isConnected' = TRUE /\ wire' = "ok" /\ fromS' = <<>>
           /\ toS' = <<[type |-> "CONN", name |-> NoName]>>
           /\ srv' = NewServerSession /\ disturbed' = FALSE
  <2>1. [type |-> "CONN", name |-> NoName] \in Request
    BY DEF Request, Names
  <2>2. toS' \in Seq(Request)
    BY <1>2, <2>1
  <2> QED BY <1>2, <2>2, NoneOnNewLink, NewSessionType DEF LinkTypes
<1> QED BY <1>1, <1>2 DEF SetupHandler

\* A command is sent, or not.
LEMMA CommandTypes ==
  ASSUME TypeOK, NotifsOwed, UNCHANGED pending,
         NEW type \in {"LOGIN", "LOGOUT", "REQ_CODE", "EXIT_SCS", "OTHER"},
         NEW n \in Names, SendCommand(type, n)
  PROVE  LinkTypes' /\ NotifsOwed' /\ up' \in {up, "sigpipe"}
<1>1. UNCHANGED fromS
  BY DEF SendCommand
<1>2. UNCHANGED isConnected
  BY DEF SendCommand
<1> QED BY <1>1, <1>2, SendTypes DEF TypeOK, LinkTypes, ServerSession, NotifsOwed, OnWay

\* The program's own variables.
OwnTypes ==
    /\ program \in {"A_CLIENT", "D_CLIENT"}
    /\ up \in {"up", "exit", "out_of_range", "length_error", "sigpipe"}
    /\ pc \in {"start", "update", "console", "view", "view_update"}
    /\ codeState \in BOOLEAN /\ login \in Names /\ codes \in Names
    /\ pending \in 0..MaxNotifs
    /\ program = "D_CLIENT" => pc \notin {"view", "view_update"} /\ ~codeState

\* The two parts of the types are all of them.
LEMMA TypeParts == TypeOK <=> LinkTypes /\ OwnTypes
BY DEF TypeOK, LinkTypes, OwnTypes, ServerSession

\* The client's steps keep the types.
LEMMA ClientTypes ==
  ASSUME IInv, Run \/ User \/ Restart
  PROVE  TypeOK' /\ NotifsOwed'
<1>1. TypeOK /\ NotifsOwed /\ LinkTypes /\ OwnTypes /\ NoName \in Names
  BY TypeParts DEF IInv, Names
<1> SUFFICES LinkTypes' /\ OwnTypes' /\ NotifsOwed'
  BY TypeParts DEF TypeOK, LinkTypes, OwnTypes, ServerSession
<1>2. CASE Start \/ Reconnect
  <2>1. SetupHandler /\ pc' = "update" /\ UNCHANGED <<program, up, login, codeState, codes, pending>>
    BY <1>2 DEF Start, Reconnect, Console, ctxVars
  <2> QED BY <1>1, <2>1, SetupTypes DEF OwnTypes
<1>3. ASSUME UNCHANGED <<linkVars, srvVars, pending>>
      PROVE  LinkTypes' /\ NotifsOwed'
  BY <1>1, <1>3 DEF LinkTypes, NotifsOwed, OnWay, linkVars, srvVars
<1>4. ASSUME HandleData, UNCHANGED <<toS, srv>>, isConnected' \in BOOLEAN, UNCHANGED <<program, up>>,
             pc' \in {"console", "view"}, pc' = "view" => pc = "view_update"
      PROVE  LinkTypes' /\ OwnTypes' /\ NotifsOwed'
  BY <1>1, <1>4, HandleDataTypes DEF LinkTypes, OwnTypes
<1>5. ASSUME ReadFails PROVE /\ UNCHANGED <<fromS, disturbed, login, codeState, codes, pending>>
                             /\ wire' = "broken" /\ NotifsOwed'
  BY <1>1, <1>5 DEF ReadFails, ctxVars, NotifsOwed, OnWay
<1>6. CASE Update
  <2>1. pc' = "console" /\ UNCHANGED program
    BY <1>6 DEF Update
  <2>2. CASE ~isConnected /\ UNCHANGED <<up, ctxVars, linkVars, srvVars>>
    BY <1>1, <1>3, <2>1, <2>2 DEF ctxVars, OwnTypes
  <2>3. CASE isConnected' = FALSE /\ UNCHANGED <<up, ctxVars, wire, toS, fromS, srvVars>>
    <3>1. fromS' \in Seq(Answer) /\ NotifsOwed'
      BY <1>1, <2>3, NoNotification DEF ctxVars
    <3>2. isConnected' \in BOOLEAN
      BY <2>3
    <3> QED BY <1>1, <2>1, <2>3, <3>1, <3>2 DEF ctxVars, srvVars, OwnTypes, LinkTypes
  <2>4. CASE HandleData /\ UNCHANGED up /\ UNCHANGED <<isConnected, toS, srv>>
    BY <1>1, <1>4, <2>1, <2>4 DEF LinkTypes
  <2>5. CASE ReadFails /\ up' = "length_error" /\ UNCHANGED <<isConnected, toS, srv>>
    BY <1>1, <1>5, <2>1, <2>5 DEF LinkTypes, OwnTypes
  <2> QED BY <1>6, <2>2, <2>3, <2>4, <2>5 DEF Update
<1>7. CASE NoCommand \/ ViewEnds \/ ViewGoesOn \/ Exit
  BY <1>1, <1>3, <1>7 DEF NoCommand, ViewEnds, ViewGoesOn, Exit, Console, InView, ctxVars,
                          OwnTypes
<1>8. CASE ViewUpdate
  <2>1. CASE HandleData /\ pc' = "view"
    BY <1>1, <1>4, <1>8, <2>1 DEF ViewUpdate, LinkTypes
  <2>2. CASE ReadFails /\ pc' = "update"
    BY <1>1, <1>5, <1>8, <2>2 DEF ViewUpdate, LinkTypes, OwnTypes
  <2> QED BY <1>8, <2>1, <2>2 DEF ViewUpdate
<1>9. CASE OtherCommand
  BY <1>1, <1>9, CommandTypes DEF OtherCommand, Console, ctxVars, OwnTypes
<1>10. ASSUME NEW n \in Names, Login(n) PROVE LinkTypes' /\ OwnTypes' /\ NotifsOwed'
  BY <1>1, <1>10, CommandTypes DEF Login, Console, ctxVars, OwnTypes
<1>11. CASE Logout
  BY <1>1, <1>11, CommandTypes DEF Logout, Console, OwnTypes
<1>12. CASE AnswerNotification
  <2>1. pc' = "update" /\ UNCHANGED <<program, login, codeState, codes, pending>>
    BY <1>12 DEF AnswerNotification, Console, ctxVars
  <2>2. CASE SendCommand("OTHER", NoName)
    BY <1>1, <2>1, <2>2, CommandTypes DEF OwnTypes
  <2>3. CASE up' = "out_of_range" /\ UNCHANGED <<linkVars, srvVars>>
    BY <1>1, <1>3, <2>1, <2>3 DEF OwnTypes
  <2> QED BY <1>12, <2>2, <2>3 DEF AnswerNotification
<1>13. CASE Code
  BY <1>1, <1>13, CommandTypes DEF Code, Console, OwnTypes
<1>14. CASE ViewLeft
  BY <1>1, <1>14, CommandTypes DEF ViewLeft, InView, OwnTypes
<1>15. CASE Restart
  <2>1. LinkTypes'
    <3>1. toS' \in Seq(Request)
      BY <1>15, EmptySeq DEF Restart
    <3>2. isConnected' \in BOOLEAN /\ disturbed' \in BOOLEAN
      BY <1>15 DEF Restart
    <3> QED BY <1>15, <3>1, <3>2, NewSessionType, NoneOnNewLink DEF Restart, LinkTypes
  <2>2. OwnTypes' /\ NotifsOwed'
    <3>1. codeState' \in BOOLEAN
      BY <1>15 DEF Restart
    <3>2. pending' \in 0..MaxNotifs
      BY <1>15, ClientAssumption DEF Restart, ClientAssumption
    <3> QED BY <1>1, <1>15, <3>1, <3>2, NoneOnNewLink DEF Restart, OwnTypes
  <2> QED BY <2>1, <2>2
<1> QED BY <1>2, <1>6, <1>7, <1>8, <1>9, <1>10, <1>11, <1>12, <1>13, <1>14, <1>15 DEF Run, User

\* The server's steps keep the types.
LEMMA ServerTypes ==
  ASSUME IInv, Server
  PROVE  TypeOK' /\ NotifsOwed'
<1>1. TypeOK /\ NotifsOwed /\ LinkTypes /\ OwnTypes /\ NoName \in Names
  BY TypeParts DEF IInv, Names
<1>2. OwnTypes' /\ UNCHANGED <<isConnected, pending>>
  BY <1>1 DEF Server, ServerTakes, ServerMerges, ServerFormats, ServerPushes, ServerNotifies,
              ServerStops, ServerStep, OwnTypes, ctxVars
<1> SUFFICES LinkTypes' /\ NotifsOwed'
  BY <1>2, TypeParts DEF TypeOK, LinkTypes, OwnTypes, ServerSession
<1>3. ASSUME NEW r \in Request, Takes(r)
      PROVE  srv' \in ServerSession /\ fromS' \in Seq(Answer) /\ NotifsOwed'
  <2>1. /\ srv' \in ServerSession
        /\ \/ fromS' = fromS
           \/ \E a \in Answer : fromS' = Append(fromS, a) /\ a.type # "SEND_NOTIF"
    BY <1>1, <1>3, TakesEffect
  <2> QED BY <1>1, <1>2, <2>1, NoNotification
<1>4. CASE ServerTakes
  <2>1. Head(toS) \in Request /\ Tail(toS) \in Seq(Request)
    BY <1>4, HeadTailProperties DEF ServerTakes, IInv, TypeOK
  <2> QED BY <1>1, <1>2, <1>3, <1>4, <2>1 DEF ServerTakes, LinkTypes
<1>5. CASE ServerMerges
  <2>1. toS' \in Seq(Request)
    <3>1. PICK n \in 2..Len(toS) : toS' = SubSeq(toS, n + 1, Len(toS))
      BY <1>5 DEF ServerMerges
    <3>2. \A i \in (n + 1)..Len(toS) : toS[i] \in Request
      BY <1>1, <3>1, ElementOfSeq DEF TypeOK
    <3> QED BY <1>1, <3>1, <3>2, SubSeqProperties DEF TypeOK
  <2>2. srv' \in ServerSession /\ fromS' \in Seq(Answer) /\ NotifsOwed'
    <3>1. CASE UNCHANGED <<fromS, srv>>
      BY <1>1, <1>2, <3>1, NoNotification DEF LinkTypes
    <3> QED BY <1>3, <1>5, <3>1 DEF ServerMerges
  <2> QED BY <1>1, <1>2, <1>5, <2>1, <2>2 DEF ServerMerges, LinkTypes
<1>6. CASE ServerFormats
  <2>1. srv' \in ServerSession
    BY <1>1, <1>6 DEF ServerFormats, LinkTypes, ServerSession
  <2> QED BY <1>1, <1>2, <1>6, <2>1, NoNotification DEF ServerFormats, LinkTypes
<1>7. CASE ServerPushes
  <2>1. srv' \in ServerSession
    BY <1>1, <1>7 DEF ServerPushes, LinkTypes, ServerSession
  <2>2. [type |-> "CODE_RESP", name |-> srv.pass] \in Answer
    BY <1>1 DEF LinkTypes, ServerSession, Answer
  <2>3. fromS' \in Seq(Answer) /\ NotifsOwed'
    BY <1>1, <1>2, <1>7, <2>2, NoNotification DEF ServerPushes
  <2>4. disturbed' \in BOOLEAN
    BY <1>7 DEF ServerPushes
  <2> QED BY <1>1, <1>2, <1>7, <2>1, <2>3, <2>4 DEF ServerPushes, LinkTypes
<1>8. CASE ServerNotifies
  <2>1. CASE fromS' = Append(fromS, [type |-> "OTHER", name |-> NoName])
    <3>1. [type |-> "OTHER", name |-> NoName] \in Answer
      BY <1>1 DEF Answer
    <3> QED BY <1>1, <1>2, <1>8, <2>1, <3>1, NoNotification DEF ServerNotifies, LinkTypes, srvVars
  <2>2. CASE /\ \A i \in OnWay("SEND_NOTIF") : FALSE
             /\ pending < MaxNotifs
             /\ fromS' = Append(fromS, [type |-> "SEND_NOTIF", name |-> NoName])
    <3> DEFINE a == [type |-> "SEND_NOTIF", name |-> NoName]
    <3>1. a \in Answer
      BY <1>1 DEF Answer
    <3> HIDE DEF a
    <3>2. /\ fromS' \in Seq(Answer) /\ Len(fromS) \in Nat
          /\ DOMAIN fromS = 1..Len(fromS) /\ DOMAIN fromS' = 1..(Len(fromS) + 1)
          /\ \A i \in 1..Len(fromS) : fromS'[i] = fromS[i]
      BY <1>1, <2>2, <3>1, AppendProperties, LenProperties DEF a, LinkTypes
    <3>3. OnWay("SEND_NOTIF")' \subseteq {Len(fromS) + 1}
      BY <2>2, <3>2 DEF OnWay
    <3>4. NotifsOwed'
      BY <1>2, <2>2, <3>3 DEF NotifsOwed
    <3> QED BY <1>1, <1>2, <1>8, <3>2, <3>4 DEF ServerNotifies, LinkTypes, srvVars
  <2> QED BY <1>8, <2>1, <2>2 DEF ServerNotifies
<1>9. CASE ServerStops
  <2>1. UNCHANGED fromS /\ toS' = <<>> /\ srv' = NewServerSession
    BY <1>9 DEF ServerStops
  <2>2. wire' \in {"fin", "reset"} /\ UNCHANGED disturbed
    BY <1>9 DEF ServerStops
  <2> QED BY <1>1, <1>2, <2>1, <2>2, NewSessionType, NoNotification DEF LinkTypes
<1> QED BY <1>4, <1>5, <1>6, <1>7, <1>8, <1>9 DEF Server

-----------------------------------------------------------------------------
\* The results

\* A client that starts has no link.
LEMMA InitIInv == Init => IInv
<1> SUFFICES ASSUME Init PROVE IInv
  OBVIOUS
<1>1. TypeOK
  <2>1. NoName \in Names /\ 0 \in 0..MaxNotifs
    BY ClientAssumption DEF Names, ClientAssumption
  <2>2. LinkTypes
    <3>1. toS \in Seq(Request) /\ fromS \in Seq(Answer)
      BY DEF Init
    <3>2. isConnected \in BOOLEAN /\ disturbed \in BOOLEAN
      BY DEF Init
    <3> QED BY <3>1, <3>2, NewSessionType DEF Init, LinkTypes
  <2> QED BY <2>1, <2>2, TypeParts DEF Init, OwnTypes
<1> QED BY <1>1 DEF Init, IInv, NotifsOwed, OnWay, LoginKnown, ViewOwed, CodesOwed, InStep

\* Every step keeps the invariant.
LEMMA StepIInv == IInv /\ [Next]_vars => IInv'
<1> SUFFICES ASSUME IInv, [Next]_vars PROVE IInv'
  OBVIOUS
<1>1. TypeOK' /\ NotifsOwed'
  <2>1. CASE UNCHANGED vars
    BY <2>1 DEF IInv, TypeOK, NotifsOwed, OnWay, vars, ctxVars, linkVars, srvVars
  <2> QED BY <2>1, ClientTypes, ServerTypes DEF Next
<1> QED BY <1>1, LoginStep, ViewStep, CodesStep DEF IInv

\* The invariant holds in every reachable state, for any accounts, any number
\* of messages on their way and any number of notifications.
THEOREM ClientInvariance == Spec => []IInv
BY InitIInv, StepIInv, PTL DEF Spec

\* Every variable has its type in every reachable state.
THEOREM ClientTypeCorrect == Spec => []TypeOK
<1>1. IInv => TypeOK
  BY DEF IInv
<1> QED BY <1>1, ClientInvariance, PTL

\* Once all is read a login that the server holds is the one the client shows:
\* the logout command clears the login before the server knows of it.
THEOREM LogoutsHold == Spec => []LogoutHolds
<1>1. IInv => LogoutHolds
  BY DEF IInv, LogoutHolds, Quiet, LoginKnown, InStep
<1> QED BY <1>1, ClientInvariance, PTL

\* Once all is read the server pushes codes exactly to an open view.
THEOREM ViewsAreKnown == Spec => []ViewKnown
<1>1. IInv => ViewKnown
  BY DEF IInv, ViewKnown, Quiet, ViewOwed, InStep, NoneOf, Viewing
<1> QED BY <1>1, ClientInvariance, PTL

\* Once all is read the codes in an open view are those of the account that is
\* logged in.
THEOREM CodesAreOwn == Spec => []OwnCodesShown
<1>1. IInv => OwnCodesShown
  <2> SUFFICES ASSUME IInv, up = "up", Quiet, CanReceiveCode(srv)
               PROVE  codes = srv.logged
    BY DEF OwnCodesShown
  <2>1. InStep /\ NoneOf(toS, ViewTypes)
    BY DEF Quiet, InStep, NoneOf
  <2>2. Viewing
    BY <2>1 DEF IInv, ViewOwed, CanReceiveCode
  <2> QED BY <2>1, <2>2 DEF IInv, CodesOwed, Quiet
<1> QED BY <1>1, ClientInvariance, PTL

\* Each way out of the view clears codeState, unless the link was lost.
THEOREM ViewsEndClean == Spec => ViewEndsClean
<1>1. [Next]_vars => [(pc \in {"view", "view_update"} /\ pc' = "update")
                          => (~codeState' \/ wire \in {"closed", "reset"})]_vars
  <2> SUFFICES ASSUME Next, pc \in {"view", "view_update"}, pc' = "update"
               PROVE  ~codeState' \/ wire \in {"closed", "reset"}
    OBVIOUS
  <2>1. CASE Run
    BY <2>1 DEF Run, Start, Update, NoCommand, Console, ViewEnds, InView, ViewGoesOn, ViewUpdate,
                ReadFails
  <2>2. CASE User
    BY <2>2 DEF User, Exit, Reconnect, OtherCommand, Logout, AnswerNotification, Code, Login,
                Console, ViewLeft, InView
  <2>3. CASE Restart \/ Server
    BY <2>3 DEF Restart, Server, ServerTakes, ServerMerges, ServerFormats, ServerPushes,
                ServerNotifies, ServerStops, ServerStep
  <2> QED BY <2>1, <2>2, <2>3 DEF Next
<1> QED BY <1>1, PTL DEF Spec, ViewEndsClean

=============================================================================
