----------------------------- MODULE ServerLocks -----------------------------
(***************************************************************************)
(* The locks of the Auth Server: ServerConnectionHandler::update() in the  *)
(* main thread and TOTPManager::m_run in its thread, cut at every point    *)
(* where one can get in between the other's steps.  AuthServer takes a     *)
(* whole handler for one action; here is what makes that right.            *)
(*                                                                         *)
(* Two mutexes: the handler's, held over accept() and over send(), which   *)
(* blocks while the peer does not read, and the session table's, which the *)
(* connect callback takes inside the first.  close() takes none.           *)
(*                                                                         *)
(* Commands are what a handler does with the locks: some calls of the      *)
(* session table, then a reply, or none, to some descriptor.  The peers are*)
(* the environment; the process may exit.                                  *)
(***************************************************************************)
EXTENDS Integers, FiniteSets

CONSTANTS
    Conns,     \* connections, each used once
    Fds,       \* descriptors: accept() returns the lowest that is free
    None,
    MaxUnread  \* messages a peer's socket buffers hold

ASSUME LocksAssumption ==
    /\ Fds \subseteq Nat \ {0}
    /\ None \notin Conns
    /\ MaxUnread \in Nat \ {0}

VARIABLES
    handler_mutex, table_mutex,  \* the thread that holds it, or "nobody"
    pc,                \* [Threads -> where it is]
    fd,                \* [Threads -> the descriptor it works on, or -1]
    checked,           \* [Threads -> the connection fcntl() saw there]
    kernel,            \* [Fds -> the connection that is open there, or None]
    m_client_sockets,  \* the handler's list
    m_sessions,        \* [Fds -> the connection whose session is there, or None]
    id,                \* [Conns -> its Session's id]
    read_set,          \* update()'s fd_set, without the listening socket
    todo,              \* what is left of update()'s snapshot
    sessions,          \* what is left of the TOTP thread's list
    inbox,             \* [Conns -> what can be read]
    unread,            \* [Conns -> messages sent that the peer has not read]
    stop_requested

Threads == {"main", "totp"}
lockVars == <<handler_mutex, table_mutex>>
tableVars == <<m_client_sockets, m_sessions, id>>
mainVars == <<read_set, todo>>
peerVars == <<inbox, unread>>
vars == <<lockVars, pc, fd, checked, kernel, tableVars, mainVars, sessions,
          peerVars, stop_requested>>

MainPC ==
    {"collect", "select", "accept", "add", "adding", "snapshot", "handle", "blocked",
     "command", "commanding", "remove", "removing", "close", "erase",
     "send", "sending", "console", "join", "ended"}
TotpPC == {"sleep", "list", "listing", "pick", "send", "sending", "ended"}

TypeOK ==
    /\ handler_mutex \in Threads \cup {"nobody"}
    /\ table_mutex \in Threads \cup {"nobody"}
    /\ pc \in [Threads -> MainPC \cup TotpPC]
    /\ pc.main \in MainPC /\ pc.totp \in TotpPC
    /\ fd \in [Threads -> Fds \cup {-1}]
    /\ checked \in [Threads -> Conns \cup {None}]
    /\ kernel \in [Fds -> Conns \cup {None}]
    /\ m_client_sockets \subseteq Fds
    /\ m_sessions \in [Fds -> Conns \cup {None}]
    /\ id \in [Conns -> Fds \cup {-1}]
    /\ read_set \subseteq Fds /\ todo \subseteq Fds
    /\ sessions \subseteq Conns
    /\ inbox \in [Conns -> {"new", "waiting", "none", "data", "end", "gone"}]
    /\ unread \in [Conns -> 0..MaxUnread]
    /\ stop_requested \in BOOLEAN

Init ==
    /\ handler_mutex = "nobody" /\ table_mutex = "nobody"
    /\ pc = [main |-> "collect", totp |-> "sleep"]
    /\ fd = [t \in Threads |-> -1]
    /\ checked = [t \in Threads |-> None]
    /\ kernel = [f \in Fds |-> None]
    /\ m_client_sockets = {}
    /\ m_sessions = [f \in Fds |-> None]
    /\ id = [c \in Conns |-> -1]
    /\ read_set = {} /\ todo = {} /\ sessions = {}
    /\ inbox = [c \in Conns |-> "new"]
    /\ unread = [c \in Conns |-> 0]
    /\ stop_requested = FALSE

\* From one place of a thread to the next.
Goes(t, from, to) == pc[t] = from /\ pc' = [pc EXCEPT ![t] = to]

\* A mutex is taken when it is free, or waited for.
Takes(t, mutex) == mutex = "nobody" /\ mutex' = t
Frees(mutex) == mutex' = "nobody"

\* The variable goes out of scope.
Leaves(t) == fd' = [fd EXCEPT ![t] = -1]

-----------------------------------------------------------------------------
\* sendCommand(), of either thread

IsOpen(f) == f \in Fds /\ kernel[f] # None

Back(t) == IF t = "main" THEN "handle" ELSE "pick"

\* Mutant: returns without freeing the mutex.
SendCommandForgets(t) ==
    /\ pc[t] = "send" /\ Takes(t, handler_mutex)
    /\ \/ /\ IsOpen(fd[t])
          /\ Goes(t, "send", "sending")
          /\ checked' = [checked EXCEPT ![t] = kernel[fd[t]]]
          /\ UNCHANGED fd
       \/ /\ ~IsOpen(fd[t])
          /\ Goes(t, "send", Back(t))
          /\ Leaves(t) /\ UNCHANGED checked
    /\ UNCHANGED <<table_mutex, kernel, tableVars, mainVars, sessions, peerVars,
                   stop_requested>>

\* Mutant: the mutex is taken after fcntl(), for as long as send() is called.
SendCommandUnlocked(t) ==
    /\ pc[t] = "send"
    /\ \/ /\ IsOpen(fd[t])
          /\ Goes(t, "send", "sending")
          /\ checked' = [checked EXCEPT ![t] = kernel[fd[t]]]
          /\ UNCHANGED fd
       \/ /\ ~IsOpen(fd[t])
          /\ Goes(t, "send", Back(t))
          /\ Leaves(t) /\ UNCHANGED checked
    /\ UNCHANGED <<lockVars, kernel, tableVars, mainVars, sessions, peerVars,
                   stop_requested>>

\* The lock and fcntl(): a descriptor that is closed ends it.
SendCommand(t) ==
    /\ pc[t] = "send"
    /\ \/ /\ IsOpen(fd[t])
          /\ Goes(t, "send", "sending")
          /\ Takes(t, handler_mutex)
          /\ checked' = [checked EXCEPT ![t] = kernel[fd[t]]]
          /\ UNCHANGED fd
       \/ /\ ~IsOpen(fd[t])
          /\ Goes(t, "send", Back(t))
          /\ handler_mutex = "nobody"
          /\ Leaves(t) /\ UNCHANGED <<handler_mutex, checked>>
    /\ UNCHANGED <<table_mutex, kernel, tableVars, mainVars, sessions, peerVars,
                   stop_requested>>

\* send() blocks while the buffers are full.  It fails at once when the peer
\* has closed, or when the main thread closed the descriptor after fcntl().
Send(t) ==
    /\ Goes(t, "sending", Back(t))
    /\ Frees(handler_mutex)
    /\ LET c == kernel[fd[t]] IN
       \/ /\ c = None \/ (c # None /\ inbox[c] = "end")
          /\ UNCHANGED unread
       \/ /\ c # None /\ inbox[c] # "end" /\ unread[c] < MaxUnread
          /\ unread' = [unread EXCEPT ![c] = @ + 1]
    /\ checked' = [checked EXCEPT ![t] = None]
    /\ Leaves(t)
    /\ UNCHANGED <<table_mutex, kernel, tableVars, mainVars, sessions, inbox,
                   stop_requested>>

-----------------------------------------------------------------------------
\* update(), in the main thread

Collect ==
    /\ Goes("main", "collect", "select")
    /\ handler_mutex = "nobody"
    /\ read_set' = m_client_sockets
    /\ UNCHANGED <<lockVars, fd, checked, kernel, tableVars, todo, sessions, peerVars,
                   stop_requested>>

Readable(f) == kernel[f] # None /\ inbox[kernel[f]] \in {"data", "end"}
Waiting == {c \in Conns : inbox[c] = "waiting"}

\* It leaves in the set what can be read; nothing is closed while it waits.
Select ==
    /\ Goes("main", "select", IF Waiting # {} THEN "accept" ELSE "snapshot")
    /\ read_set' = {f \in read_set : Readable(f)}
    /\ UNCHANGED <<lockVars, fd, checked, kernel, tableVars, todo, sessions, peerVars,
                   stop_requested>>

Accepts ==
    \E c \in Waiting, f \in Fds :
        /\ kernel[f] = None
        /\ \A g \in Fds : g < f => kernel[g] # None
        /\ kernel' = [kernel EXCEPT ![f] = c]
        /\ m_client_sockets' = m_client_sockets \cup {f}
        /\ inbox' = [inbox EXCEPT ![c] = "none"]
        /\ fd' = [fd EXCEPT !.main = f]

\* m_handleConnection() under the handler's mutex ...
Accept ==
    /\ Goes("main", "accept", "add")
    /\ Takes("main", handler_mutex)
    /\ Accepts
    /\ UNCHANGED <<table_mutex, checked, m_sessions, id, mainVars, sessions, unread,
                   stop_requested>>

\* The process may be out of descriptors: the connection goes on waiting.
AcceptFails ==
    /\ Goes("main", "accept", "snapshot")
    /\ handler_mutex = "nobody"
    /\ UNCHANGED <<lockVars, fd, checked, kernel, tableVars, mainVars, sessions,
                   peerVars, stop_requested>>

\* ... and in it addSession(), under the table's.
AddSessionLocks ==
    /\ Goes("main", "add", "adding")
    /\ Takes("main", table_mutex)
    /\ UNCHANGED <<handler_mutex, fd, checked, kernel, tableVars, mainVars, sessions,
                   peerVars, stop_requested>>

AddSession ==
    /\ Goes("main", "adding", "snapshot")
    /\ m_sessions' = [m_sessions EXCEPT ![fd.main] = kernel[fd.main]]
    /\ id' = [id EXCEPT ![kernel[fd.main]] = fd.main]
    /\ Frees(table_mutex) /\ Frees(handler_mutex)
    /\ Leaves("main")
    /\ UNCHANGED <<checked, kernel, m_client_sockets, mainVars, sessions, peerVars,
                   stop_requested>>

Snapshot ==
    /\ Goes("main", "snapshot", "handle")
    /\ handler_mutex = "nobody"
    /\ todo' = m_client_sockets
    /\ UNCHANGED <<lockVars, fd, checked, kernel, tableVars, read_set, sessions,
                   peerVars, stop_requested>>

\* read(): data, the end of the stream, or nothing yet, which blocks.
Read(f) ==
    LET c == kernel[f] IN
    /\ fd' = [fd EXCEPT !.main = f]
    /\ \/ /\ c # None /\ inbox[c] = "data"
          /\ inbox' = [inbox EXCEPT ![c] = "none"]
          /\ Goes("main", "handle", "command")
       \/ /\ c # None /\ inbox[c] = "end"
          /\ Goes("main", "handle", "remove")
          /\ UNCHANGED inbox
       \/ /\ c # None /\ inbox[c] = "none"
          /\ Goes("main", "handle", "blocked")
          /\ UNCHANGED inbox

\* Mutant: every socket of the snapshot is read.
HandleUnready(f) ==
    /\ f \in todo /\ todo' = todo \ {f}
    /\ Read(f)
    /\ UNCHANGED <<lockVars, checked, kernel, tableVars, read_set, sessions, unread,
                   stop_requested>>

Handle(f) ==
    /\ f \in todo /\ todo' = todo \ {f}
    /\ \/ f \in read_set /\ Read(f)
       \/ f \notin read_set /\ Goes("main", "handle", "handle") /\ UNCHANGED <<fd, inbox>>
    /\ UNCHANGED <<lockVars, checked, kernel, tableVars, read_set, sessions, unread,
                   stop_requested>>

UpdateDone ==
    /\ todo = {} /\ Goes("main", "handle", "console")
    /\ read_set' = {}
    /\ UNCHANGED <<lockVars, fd, checked, kernel, tableVars, todo, sessions,
                   peerVars, stop_requested>>

\* execute(): it uses the session table, then it replies or not.
CommandLocks ==
    /\ Goes("main", "command", "commanding")
    /\ Takes("main", table_mutex)
    /\ UNCHANGED <<handler_mutex, fd, checked, kernel, tableVars, mainVars, sessions,
                   peerVars, stop_requested>>

Command ==
    /\ Frees(table_mutex)
    /\ \/ Goes("main", "commanding", "handle") /\ Leaves("main")
       \/ Goes("main", "commanding", "send") /\ \E f \in Fds : fd' = [fd EXCEPT !.main = f]
    /\ UNCHANGED <<handler_mutex, checked, kernel, tableVars, mainVars, sessions,
                   peerVars, stop_requested>>

\* The disconnect callback, close() under no lock, and the erasure.
RemoveSessionLocks ==
    /\ Goes("main", "remove", "removing")
    /\ Takes("main", table_mutex)
    /\ UNCHANGED <<handler_mutex, fd, checked, kernel, tableVars, mainVars, sessions,
                   peerVars, stop_requested>>

\* Mutant: the object's id becomes 0, which is a descriptor of the process itself.
RemoveSessionIdZero ==
    /\ Goes("main", "removing", "close")
    /\ id' = [id EXCEPT ![m_sessions[fd.main]] = 0]
    /\ m_sessions' = [m_sessions EXCEPT ![fd.main] = None]
    /\ Frees(table_mutex)
    /\ UNCHANGED <<handler_mutex, fd, checked, kernel, m_client_sockets, mainVars,
                   sessions, peerVars, stop_requested>>

RemoveSession ==
    /\ Goes("main", "removing", "close")
    /\ id' = [id EXCEPT ![m_sessions[fd.main]] = -1]
    /\ m_sessions' = [m_sessions EXCEPT ![fd.main] = None]
    /\ Frees(table_mutex)
    /\ UNCHANGED <<handler_mutex, fd, checked, kernel, m_client_sockets, mainVars,
                   sessions, peerVars, stop_requested>>

Close ==
    /\ Goes("main", "close", "erase")
    /\ inbox' = [inbox EXCEPT ![kernel[fd.main]] = "gone"]
    /\ unread' = [unread EXCEPT ![kernel[fd.main]] = 0]
    /\ kernel' = [kernel EXCEPT ![fd.main] = None]
    /\ UNCHANGED <<lockVars, fd, checked, tableVars, mainVars, sessions, stop_requested>>

\* Mutant: the descriptor stays in the list.
EraseNothing ==
    /\ Goes("main", "erase", "handle")
    /\ handler_mutex = "nobody"
    /\ Leaves("main")
    /\ UNCHANGED <<lockVars, checked, kernel, tableVars, mainVars, sessions,
                   peerVars, stop_requested>>

Erase ==
    /\ Goes("main", "erase", "handle")
    /\ handler_mutex = "nobody"
    /\ m_client_sockets' = m_client_sockets \ {fd.main}
    /\ Leaves("main")
    /\ UNCHANGED <<lockVars, checked, kernel, m_sessions, id, mainVars, sessions,
                   peerVars, stop_requested>>

\* The console: nothing, or exit, whose destructor of the thread waits for it.
Console ==
    /\ \/ Goes("main", "console", "collect") /\ UNCHANGED stop_requested
       \/ Goes("main", "console", "join") /\ stop_requested' = TRUE
    /\ UNCHANGED <<lockVars, fd, checked, kernel, tableVars, mainVars, sessions, peerVars>>

Join ==
    /\ pc.totp = "ended" /\ Goes("main", "join", "ended")
    /\ UNCHANGED <<lockVars, fd, checked, kernel, tableVars, mainVars, sessions,
                   peerVars, stop_requested>>

-----------------------------------------------------------------------------
\* m_run(), in the TOTP thread

\* Mutant: the request to stop is not looked at.
WakeAlways ==
    /\ Goes("totp", "sleep", "list")
    /\ UNCHANGED <<lockVars, fd, checked, kernel, tableVars, mainVars, sessions,
                   peerVars, stop_requested>>

\* The sleep is over, or it was cut short.
Wake ==
    /\ Goes("totp", "sleep", IF stop_requested THEN "ended" ELSE "list")
    /\ UNCHANGED <<lockVars, fd, checked, kernel, tableVars, mainVars, sessions,
                   peerVars, stop_requested>>

GetActiveSessionsLocks ==
    /\ Goes("totp", "list", "listing")
    /\ Takes("totp", table_mutex)
    /\ UNCHANGED <<handler_mutex, fd, checked, kernel, tableVars, mainVars, sessions,
                   peerVars, stop_requested>>

ActiveSessions == {m_sessions[f] : f \in Fds} \ {None}

\* Mutant: the sessions are walked under the table's mutex.
GetActiveSessionsKeeps ==
    /\ Goes("totp", "listing", "pick")
    /\ \E S \in SUBSET ActiveSessions : sessions' = S
    /\ UNCHANGED <<lockVars, fd, checked, kernel, tableVars, mainVars, peerVars,
                   stop_requested>>

\* The list, less the sessions that fail canReceiveCode(), is a copy.
GetActiveSessions ==
    /\ Goes("totp", "listing", "pick")
    /\ \E S \in SUBSET ActiveSessions : sessions' = S
    /\ Frees(table_mutex)
    /\ UNCHANGED <<handler_mutex, fd, checked, kernel, tableVars, mainVars, peerVars,
                   stop_requested>>

\* sendCodesToClient() reads the descriptor from the object, under no lock.
SendCodesToClient(c) ==
    /\ c \in sessions /\ sessions' = sessions \ {c}
    /\ Goes("totp", "pick", "send")
    /\ fd' = [fd EXCEPT !.totp = id[c]]
    /\ UNCHANGED <<lockVars, checked, kernel, tableVars, mainVars, peerVars,
                   stop_requested>>

PassDone ==
    /\ sessions = {} /\ Goes("totp", "pick", "sleep")
    /\ UNCHANGED <<lockVars, fd, checked, kernel, tableVars, mainVars, sessions,
                   peerVars, stop_requested>>

-----------------------------------------------------------------------------
\* The peers

Peer(c, from, to) ==
    /\ inbox[c] = from /\ inbox' = [inbox EXCEPT ![c] = to]
    /\ UNCHANGED <<lockVars, pc, fd, checked, kernel, tableVars, mainVars, sessions,
                   unread, stop_requested>>

PeerConnects(c) == Peer(c, "new", "waiting")
PeerSends(c) == Peer(c, "none", "data")
PeerCloses(c) == Peer(c, "none", "end")

PeerReads(c) ==
    /\ unread[c] > 0 /\ unread' = [unread EXCEPT ![c] = @ - 1]
    /\ UNCHANGED <<lockVars, pc, fd, checked, kernel, tableVars, mainVars, sessions,
                   inbox, stop_requested>>

\* The process has ended.
Ended == pc.main = "ended" /\ UNCHANGED vars

-----------------------------------------------------------------------------

MainThread ==
    \/ Collect \/ Select \/ Accept \/ AcceptFails \/ AddSessionLocks \/ AddSession
    \/ Snapshot \/ UpdateDone \/ CommandLocks \/ Command \/ RemoveSessionLocks
    \/ RemoveSession \/ Close \/ Erase \/ Console \/ Join
    \/ SendCommand("main") \/ Send("main")
    \/ \E f \in Fds : Handle(f)

TOTPThread ==
    \/ Wake \/ GetActiveSessionsLocks \/ GetActiveSessions \/ PassDone
    \/ SendCommand("totp") \/ Send("totp")
    \/ \E c \in Conns : SendCodesToClient(c)

Peers ==
    \E c \in Conns : PeerConnects(c) \/ PeerSends(c) \/ PeerCloses(c) \/ PeerReads(c)

Next == MainThread \/ TOTPThread \/ Peers \/ Ended

\* Either thread waits at times with no lock, the one in select() and the other
\* in its sleep, for much longer than the other needs to take a mutex that it
\* waits for: hence SF.  Peers read what they are sent.
Fairness ==
    /\ SF_vars(MainThread) /\ SF_vars(TOTPThread)
    /\ \A c \in Conns : WF_vars(PeerReads(c))

Spec == Init /\ [][Next]_vars /\ Fairness

-----------------------------------------------------------------------------
\* Properties

\* The holder of the mutex that a thread has to take next, or "nobody".
WaitsFor(t) ==
    IF pc[t] \in {"send", "collect", "accept", "snapshot", "erase"} THEN handler_mutex
    ELSE IF pc[t] \in {"add", "command", "remove", "list"} THEN table_mutex
    ELSE "nobody"

\* No thread waits for itself and no two for each other, although the connect
\* callback takes one mutex inside the other.
NoCircularWait ==
    \A t \in Threads :
        /\ WaitsFor(t) # t
        /\ WaitsFor(t) \in Threads => WaitsFor(WaitsFor(t)) # t

\* What is sent goes to the connection fcntl() saw, or to none: close() is not
\* under the mutex, but the descriptor cannot be given away before accept() is.
SentToWhomWasChecked ==
    \A t \in Threads : pc[t] = "sending" => kernel[fd[t]] \in {checked[t], None}

\* The main thread never waits in read(), although descriptors are closed and
\* accepted between select() and the reads, and tested by number.
NoBlockingRead == pc.main # "blocked"

\* select() is never given a closed descriptor, so its repair of the list,
\* which takes no lock, never runs.
SelectGetsOpenSockets ==
    pc.main = "select" => \A f \in read_set : kernel[f] # None

HasSession(c) == \E f \in Fds : m_sessions[f] = c

UnreadOfSessions == [c \in Conns |-> IF HasSession(c) THEN unread[c] ELSE 0]

Atomic == INSTANCE AtomicConnections WITH
    sessions <- m_sessions, unread <- UnreadOfSessions

\* The pieces of accept, close and send, in two threads, make up whole ones, as
\* AuthServer has them: a connection begins and ends with its session, and a
\* send reaches the session that is at its descriptor.  Nothing can be sent
\* before the session is there, and what is sent after it is gone, to a socket
\* that is still open, nobody reads.
ConnectionsAreAtomic == Atomic!Spec

\* If the peers read what they are sent, a connection that was accepted is read
\* when it writes and let go when it closes, however the two threads contend and
\* whoever else writes or waits, or else the process is ended.  A connection that
\* waits may be refused for ever (AcceptFails): nothing is said of it.
PeersAreServed ==
    \A c \in Conns :
        inbox[c] \in {"data", "end"} ~> inbox[c] \in {"none", "gone"} \/ stop_requested

\* The exit command ends the process: the thread it waits for comes to its end.
ExitEnds == pc.main = "join" ~> pc.main = "ended"
=============================================================================
