----------------------------- MODULE LocksProofs -----------------------------
(***************************************************************************)
(* Proofs about the locks of the Auth Server: nobody waits in a circle,    *)
(* what is sent goes where it was meant to, and the main thread does not   *)
(* wait in read().                                                         *)
(***************************************************************************)
EXTENDS ServerLocks, TLAPS

\* Each thread is at one of its places.
PcOK ==
    /\ pc \in [Threads -> MainPC \cup TotpPC]
    /\ pc.main \in MainPC /\ pc.totp \in TotpPC

\* Who holds a mutex is told by where the threads are.
LocksHeld ==
    /\ handler_mutex = "main" <=> pc.main \in {"add", "adding", "sending"}
    /\ handler_mutex = "totp" <=> pc.totp = "sending"
    /\ table_mutex = "main" <=> pc.main \in {"adding", "commanding", "removing"}
    /\ table_mutex = "totp" <=> pc.totp = "listing"

\* send() is under way on a descriptor that was open when it was tested.
SendsKnow ==
    \A t \in Threads :
        pc[t] = "sending" => fd[t] \in Fds /\ kernel[fd[t]] \in {checked[t], None}

\* A connection is open at one descriptor, and is one that was accepted.
Sockets ==
    /\ \A f, g \in Fds : kernel[f] = kernel[g] /\ kernel[f] # None => f = g
    /\ \A f \in Fds : kernel[f] # None => inbox[kernel[f]] \in {"none", "data", "end"}

\* The list is what is open, but for the descriptor being closed.
ListIsOpen ==
    \A f \in Fds :
        pc.main # "erase" \/ f # fd.main =>
            (kernel[f] # None <=> f \in m_client_sockets)

\* The main thread's descriptor, where it uses one.
Removing == {"remove", "removing", "close", "erase"}
MainsSocket ==
    /\ pc.main \in {"add", "adding"} \cup Removing => fd.main \in Fds
    /\ pc.main \in {"add", "adding"} \cup (Removing \ {"erase"}) =>
           kernel[fd.main] # None
    /\ pc.main = "erase" => kernel[fd.main] = None
    /\ pc.main \in Removing => fd.main \notin todo

\* What select() left in the set stays readable until update() comes to it.
Walk == {"handle", "blocked", "command", "commanding", "send", "sending"} \cup Removing
ReadyToRead ==
    /\ pc.main \in {"accept", "add", "adding", "snapshot"} =>
           \A f \in read_set : Readable(f)
    /\ pc.main \in Walk => \A f \in read_set \cap todo : Readable(f)

Reads == ReadyToRead /\ NoBlockingRead /\ SelectGetsOpenSockets

IInv ==
    /\ TypeOK /\ LocksHeld /\ SendsKnow /\ Sockets /\ ListIsOpen /\ MainsSocket
    /\ Reads

-----------------------------------------------------------------------------
\* Initial states

\* Nothing is open, no mutex is held, and both threads are at their first step.
LEMMA InitIInv == ASSUME Init PROVE IInv
<1>1. TypeOK
  <2>1. 0 \in 0..MaxUnread
    BY LocksAssumption DEF LocksAssumption
  <2>2. PcOK
    BY DEF Init, PcOK, Threads, MainPC, TotpPC
  <2> QED BY <2>1, <2>2 DEF Init, TypeOK, PcOK
<1>2. LocksHeld /\ SendsKnow /\ Reads
  BY DEF Init, LocksHeld, SendsKnow, Threads, Removing, Walk, Reads, ReadyToRead,
         NoBlockingRead, SelectGetsOpenSockets
<1>3. Sockets /\ ListIsOpen /\ MainsSocket
  BY DEF Init, Sockets, ListIsOpen, MainsSocket, Removing
<1> QED BY <1>1, <1>2, <1>3 DEF IInv

-----------------------------------------------------------------------------
\* Types

\* A thread goes from one of its places to another.
LEMMA GoesTypes ==
  ASSUME TypeOK, NEW t \in Threads, NEW from, NEW to,
         to \in IF t = "main" THEN MainPC ELSE TotpPC,
         Goes(t, from, to)
  PROVE  PcOK'
BY DEF Goes, TypeOK, PcOK, Threads

\* sendCommand() keeps the types, whichever thread calls it.
LEMMA SendTypes ==
  ASSUME IInv, NEW t \in Threads, SendCommand(t) \/ Send(t)
  PROVE  TypeOK'
<1> USE LocksAssumption
    DEF LocksAssumption, Threads, lockVars, tableVars, mainVars, peerVars
<1>1. TypeOK /\ Back(t) \in IF t = "main" THEN MainPC ELSE TotpPC
  BY DEF IInv, Back, MainPC, TotpPC
<1>2. "sending" \in IF t = "main" THEN MainPC ELSE TotpPC
  BY DEF MainPC, TotpPC
<1>3. PcOK'
  <2>1. \/ Goes(t, "send", "sending") \/ Goes(t, "send", Back(t))
        \/ Goes(t, "sending", Back(t))
    BY DEF SendCommand, Send
  <2> QED BY <1>1, <1>2, <2>1, GoesTypes
<1>4. fd' \in [Threads -> Fds \cup {-1}] /\ checked' \in [Threads -> Conns \cup {None}]
  BY <1>1 DEF TypeOK, SendCommand, Send, IsOpen, Leaves
<1>5. handler_mutex' \in Threads \cup {"nobody"}
  BY <1>1 DEF TypeOK, SendCommand, Send, Takes, Frees
<1>6. unread' \in [Conns -> 0..MaxUnread]
  BY <1>1 DEF TypeOK, SendCommand, Send
<1>7. UNCHANGED <<table_mutex, kernel, tableVars, mainVars, sessions, inbox,
                stop_requested>>
  BY DEF SendCommand, Send
<1> QED BY <1>1, <1>3, <1>4, <1>5, <1>6, <1>7 DEF TypeOK, PcOK

\* Every step of the main thread keeps the types.
LEMMA MainTypes ==
  ASSUME IInv, MainThread
  PROVE  TypeOK'
<1> USE LocksAssumption
    DEF LocksAssumption, IInv, TypeOK, PcOK, MainPC, TotpPC, Goes, Takes, Frees, Leaves,
        Threads, lockVars, tableVars, mainVars, peerVars
<1>1. CASE Collect
  BY <1>1 DEF Collect
<1>2. CASE Accept
  BY <1>2 DEF Accept, Accepts, Waiting
<1>3. CASE AcceptFails
  BY <1>3 DEF AcceptFails
<1>4. CASE AddSessionLocks
  BY <1>4 DEF AddSessionLocks
<1>5. CASE AddSession
  BY <1>5 DEF AddSession, MainsSocket
<1>6. CASE Snapshot
  BY <1>6 DEF Snapshot
<1>7. CASE UpdateDone
  BY <1>7 DEF UpdateDone
<1>8. CASE CommandLocks
  BY <1>8 DEF CommandLocks
<1>9. CASE Command
  BY <1>9 DEF Command
<1>10. CASE RemoveSessionLocks
  BY <1>10 DEF RemoveSessionLocks
<1>11. CASE Erase
  BY <1>11 DEF Erase
<1>12. CASE Console
  BY <1>12 DEF Console
<1>13. CASE Join
  BY <1>13 DEF Join
<1>14. CASE Select
  <2>1. PcOK'
    BY <1>14 DEF Select
  <2>2. read_set' \subseteq Fds
    BY <1>14 DEF Select
  <2> QED BY <1>14, <2>1, <2>2 DEF Select
<1>15. CASE RemoveSession
  <2>1. id' \in [Conns -> Fds \cup {-1}]
    BY <1>15 DEF RemoveSession
  <2>2. m_sessions' \in [Fds -> Conns \cup {None}]
    BY <1>15 DEF RemoveSession
  <2>3. PcOK'
    BY <1>15 DEF RemoveSession
  <2>4. table_mutex' = "nobody"
    BY <1>15 DEF RemoveSession
  <2>5. UNCHANGED <<handler_mutex, fd, checked, kernel, m_client_sockets, mainVars,
                    sessions, peerVars, stop_requested>>
    BY <1>15 DEF RemoveSession
  <2> QED BY <2>1, <2>2, <2>3, <2>4, <2>5
<1>16. CASE Close
  <2>1. kernel[fd.main] \in Conns /\ fd.main \in Fds /\ 0 \in 0..MaxUnread
    <3>1. pc.main = "close"
      BY <1>16 DEF Close
    <3>2. fd.main \in Fds /\ kernel[fd.main] # None
      BY <3>1 DEF MainsSocket, Removing
    <3>3. 0 \in 0..MaxUnread
      OBVIOUS
    <3> QED BY <3>2, <3>3
  <2>2. inbox' \in [Conns -> {"new", "waiting", "none", "data", "end", "gone"}]
    BY <1>16, <2>1 DEF Close
  <2>3. unread' \in [Conns -> 0..MaxUnread] /\ kernel' \in [Fds -> Conns \cup {None}]
    BY <1>16, <2>1 DEF Close
  <2>4. PcOK'
    BY <1>16 DEF Close
  <2> QED BY <1>16, <2>2, <2>3, <2>4 DEF Close
<1>17. CASE SendCommand("main") \/ Send("main")
  BY <1>17, SendTypes DEF Threads
<1>18. ASSUME NEW f \in Fds, Handle(f) PROVE TypeOK'
  BY <1>18 DEF Handle, Read
<1> HIDE DEF IInv, TypeOK, MainPC, TotpPC, Goes, Takes, Frees, Leaves, Threads,
             lockVars, tableVars, mainVars, peerVars
<1> QED BY <1>1, <1>2, <1>3, <1>4, <1>5, <1>6, <1>7, <1>8, <1>9, <1>10, <1>11, <1>12,
           <1>13, <1>14, <1>15, <1>16, <1>17, <1>18 DEF MainThread

\* Every step of the TOTP thread keeps the types ...
LEMMA TotpTypes ==
  ASSUME IInv, TOTPThread
  PROVE  TypeOK'
<1> USE DEF IInv, TypeOK, MainPC, TotpPC, Goes, Takes, Frees, Leaves, Threads, lockVars,
            tableVars, mainVars, peerVars
<1>1. CASE Wake \/ GetActiveSessionsLocks \/ PassDone
  BY <1>1 DEF Wake, GetActiveSessionsLocks, PassDone
<1>2. CASE GetActiveSessions
  BY <1>2 DEF GetActiveSessions, ActiveSessions
<1>3. ASSUME NEW c \in Conns, SendCodesToClient(c) PROVE TypeOK'
  BY <1>3 DEF SendCodesToClient
<1>4. CASE SendCommand("totp") \/ Send("totp")
  BY <1>4, SendTypes
<1> HIDE DEF IInv, TypeOK, MainPC, TotpPC, Goes, Takes, Frees, Leaves, Threads,
             lockVars, tableVars, mainVars, peerVars
<1> QED BY <1>1, <1>2, <1>3, <1>4 DEF TOTPThread

\* ... and so does every step of a peer.
LEMMA PeerTypes ==
  ASSUME IInv, Peers
  PROVE  TypeOK'
<1> USE LocksAssumption
    DEF LocksAssumption, IInv, TypeOK, lockVars, tableVars, mainVars, peerVars
<1>1. ASSUME NEW c \in Conns, PeerConnects(c) \/ PeerSends(c) \/ PeerCloses(c)
      PROVE  TypeOK'
  BY <1>1 DEF PeerConnects, PeerSends, PeerCloses, Peer
<1>2. ASSUME NEW c \in Conns, PeerReads(c) PROVE TypeOK'
  <2>1. unread' \in [Conns -> 0..MaxUnread]
    BY <1>2 DEF PeerReads
  <2> QED BY <1>2, <2>1 DEF PeerReads
<1> HIDE DEF IInv, TypeOK
<1> QED BY <1>1, <1>2 DEF Peers

-----------------------------------------------------------------------------
\* The main thread

\* What the main thread takes it frees again: the mutexes tell where it is, and
\* nothing is accepted while either thread is in send().
LEMMA MainLocks ==
  ASSUME IInv, MainThread
  PROVE  LocksHeld' /\ SendsKnow'
<1> USE DEF Goes, Takes, Frees, Leaves, Threads, lockVars, tableVars,
        mainVars, peerVars
<1> USE DEF IInv, TypeOK, LocksHeld, SendsKnow, MainsSocket, Removing
<1>1. CASE Collect
  BY <1>1 DEF Collect
<1>2. CASE Select
  BY <1>2 DEF Select
<1>3. CASE Accept \/ AcceptFails
  BY <1>3 DEF Accept, Accepts, Waiting, AcceptFails
<1>4. CASE AddSessionLocks \/ AddSession
  BY <1>4 DEF AddSessionLocks, AddSession
<1>5. CASE Snapshot \/ UpdateDone
  BY <1>5 DEF Snapshot, UpdateDone
<1>6. CASE CommandLocks \/ Command
  BY <1>6 DEF CommandLocks, Command
<1>7. CASE RemoveSessionLocks \/ RemoveSession
  BY <1>7 DEF RemoveSessionLocks, RemoveSession
<1>8. CASE Close
  BY <1>8 DEF Close
<1>9. CASE Erase
  BY <1>9 DEF Erase
<1>10. CASE Console \/ Join
  BY <1>10 DEF Console, Join
<1>11. CASE SendCommand("main")
  BY <1>11 DEF SendCommand, IsOpen, Back
<1>12. CASE Send("main")
  BY <1>12 DEF Send, Back
<1>13. ASSUME NEW f \in Fds, Handle(f)
       PROVE  LocksHeld' /\ SendsKnow'
  BY <1>13 DEF Handle, Read
<1> HIDE DEF Goes, Takes, Frees, Leaves, Threads, lockVars, tableVars,
        mainVars, peerVars
<1> HIDE DEF IInv, TypeOK, LocksHeld, SendsKnow, MainsSocket, Removing
<1> QED BY <1>1, <1>2, <1>3, <1>4, <1>5, <1>6, <1>7, <1>8, <1>9, <1>10, <1>11, <1>12,
           <1>13 DEF MainThread

\* accept() opens what was closed, for a connection that was nowhere; close()
\* and the erasure take the same descriptor away.
LEMMA MainSockets ==
  ASSUME IInv, MainThread
  PROVE  Sockets' /\ ListIsOpen' /\ MainsSocket'
<1> USE DEF Goes, Takes, Frees, Leaves, Threads, lockVars, tableVars,
        mainVars, peerVars
<1> USE LocksAssumption
    DEF LocksAssumption, IInv, TypeOK, Sockets, ListIsOpen, MainsSocket, ReadyToRead,
        Readable, Removing
<1>1. CASE Collect
  BY <1>1 DEF Collect
<1>2. CASE Select
  BY <1>2 DEF Select
<1>3. CASE Accept \/ AcceptFails
  BY <1>3 DEF Accept, Accepts, Waiting, AcceptFails
<1>4. CASE AddSessionLocks \/ AddSession
  BY <1>4 DEF AddSessionLocks, AddSession
<1>5. CASE Snapshot \/ UpdateDone
  BY <1>5 DEF Snapshot, UpdateDone
<1>6. CASE CommandLocks \/ Command
  BY <1>6 DEF CommandLocks, Command
<1>7. CASE RemoveSessionLocks \/ RemoveSession
  BY <1>7 DEF RemoveSessionLocks, RemoveSession
<1>8. CASE Close
  BY <1>8 DEF Close
<1>9. CASE Erase
  BY <1>9 DEF Erase
<1>10. CASE Console \/ Join
  BY <1>10 DEF Console, Join
<1>11. CASE SendCommand("main")
  BY <1>11 DEF SendCommand, IsOpen, Back
<1>12. CASE Send("main")
  BY <1>12 DEF Send, Back
<1>13. ASSUME NEW f \in Fds, Handle(f)
       PROVE  Sockets' /\ ListIsOpen' /\ MainsSocket'
  BY <1>13 DEF Handle, Read
<1> HIDE DEF Goes, Takes, Frees, Leaves, Threads, lockVars, tableVars,
        mainVars, peerVars
<1> HIDE DEF LocksAssumption, IInv, TypeOK, Sockets, ListIsOpen, MainsSocket,
        ReadyToRead, Readable, Removing
<1> QED BY <1>1, <1>2, <1>3, <1>4, <1>5, <1>6, <1>7, <1>8, <1>9, <1>10, <1>11, <1>12,
           <1>13 DEF MainThread

\* What select() found readable is still when the walk comes to it: reading or
\* closing one descriptor does nothing to the connection of another.
LEMMA MainReads ==
  ASSUME IInv, MainThread
  PROVE  Reads'
<1> USE DEF Goes, Takes, Frees, Leaves, Threads, lockVars, tableVars,
        mainVars, peerVars
<1> USE DEF IInv, TypeOK, Sockets, ListIsOpen, MainsSocket, Reads, ReadyToRead,
        NoBlockingRead, SelectGetsOpenSockets, Readable, Removing, Walk
<1>1. CASE Collect
  BY <1>1 DEF Collect
<1>2. CASE Select
  BY <1>2 DEF Select
<1>3. CASE Accept \/ AcceptFails
  BY <1>3 DEF Accept, Accepts, Waiting, AcceptFails
<1>4. CASE AddSessionLocks \/ AddSession
  BY <1>4 DEF AddSessionLocks, AddSession
<1>5. CASE Snapshot \/ UpdateDone
  BY <1>5 DEF Snapshot, UpdateDone
<1>6. CASE CommandLocks \/ Command
  BY <1>6 DEF CommandLocks, Command
<1>7. CASE RemoveSessionLocks \/ RemoveSession
  BY <1>7 DEF RemoveSessionLocks, RemoveSession
<1>8. CASE Close
  BY <1>8 DEF Close
<1>9. CASE Erase
  BY <1>9 DEF Erase
<1>10. CASE Console \/ Join
  BY <1>10 DEF Console, Join
<1>11. CASE SendCommand("main")
  BY <1>11 DEF SendCommand, IsOpen, Back
<1>12. CASE Send("main")
  BY <1>12 DEF Send, Back
<1>13. ASSUME NEW f \in Fds, Handle(f)
       PROVE  Reads'
  BY <1>13 DEF Handle, Read
<1> HIDE DEF Goes, Takes, Frees, Leaves, Threads, lockVars, tableVars,
        mainVars, peerVars
<1> HIDE DEF IInv, TypeOK, Sockets, ListIsOpen, MainsSocket, Reads, ReadyToRead,
        NoBlockingRead, SelectGetsOpenSockets, Readable, Removing, Walk
<1> QED BY <1>1, <1>2, <1>3, <1>4, <1>5, <1>6, <1>7, <1>8, <1>9, <1>10, <1>11, <1>12,
           <1>13 DEF MainThread

-----------------------------------------------------------------------------
\* The other processes

\* The TOTP thread touches none of the main thread's variables and no socket.
LEMMA TotpKeeps ==
  ASSUME IInv, TOTPThread
  PROVE  LocksHeld' /\ SendsKnow' /\ Sockets' /\ ListIsOpen' /\ MainsSocket' /\ Reads'
<1> USE DEF IInv, TypeOK, Goes, Takes, Frees, Leaves, Threads, lockVars, tableVars,
            mainVars, peerVars, LocksHeld, SendsKnow, Sockets, ListIsOpen, MainsSocket,
            Reads, ReadyToRead, NoBlockingRead, SelectGetsOpenSockets, Readable,
            Removing, Walk
<1>1. LocksHeld' /\ SendsKnow'
  <2>1. CASE Wake \/ GetActiveSessionsLocks \/ GetActiveSessions \/ PassDone
    BY <2>1 DEF Wake, GetActiveSessionsLocks, GetActiveSessions, PassDone
  <2>2. ASSUME NEW c \in Conns, SendCodesToClient(c) PROVE LocksHeld' /\ SendsKnow'
    BY <2>2 DEF SendCodesToClient
  <2>3. CASE SendCommand("totp")
    BY <2>3 DEF SendCommand, IsOpen, Back
  <2>4. CASE Send("totp")
    BY <2>4 DEF Send, Back
  <2> QED BY <2>1, <2>2, <2>3, <2>4 DEF TOTPThread
<1>2. /\ pc'.main = pc.main /\ fd'.main = fd.main
      /\ UNCHANGED <<kernel, m_client_sockets, mainVars, inbox>>
  <2>1. CASE Wake \/ GetActiveSessionsLocks \/ GetActiveSessions \/ PassDone
    BY <2>1 DEF Wake, GetActiveSessionsLocks, GetActiveSessions, PassDone
  <2>2. ASSUME NEW c \in Conns, SendCodesToClient(c)
        PROVE  /\ pc'.main = pc.main /\ fd'.main = fd.main
               /\ UNCHANGED <<kernel, m_client_sockets, mainVars, inbox>>
    BY <2>2 DEF SendCodesToClient
  <2>3. CASE SendCommand("totp")
    BY <2>3 DEF SendCommand
  <2>4. CASE Send("totp")
    BY <2>4 DEF Send
  <2> QED BY <2>1, <2>2, <2>3, <2>4 DEF TOTPThread
<1>3. Sockets' /\ ListIsOpen' /\ MainsSocket' /\ Reads'
  BY <1>2
<1> QED BY <1>1, <1>3

\* A peer writes to a connection or closes its end: what could be read of it
\* still can.
LEMMA PeersKeep ==
  ASSUME IInv, Peers
  PROVE  LocksHeld' /\ SendsKnow' /\ Sockets' /\ ListIsOpen' /\ MainsSocket' /\ Reads'
<1> USE DEF IInv, TypeOK, Goes, Takes, Frees, Leaves, Threads, lockVars, tableVars,
            mainVars, peerVars, LocksHeld, SendsKnow, Sockets, ListIsOpen, MainsSocket,
            Reads, ReadyToRead, NoBlockingRead, SelectGetsOpenSockets, Readable,
            Removing, Walk
<1> DEFINE GoesOn(c) == \/ inbox'[c] = inbox[c]
                        \/ inbox[c] = "none" /\ inbox'[c] \in {"data", "end"}
                        \/ inbox[c] = "new" /\ inbox'[c] = "waiting"
<1>1. /\ UNCHANGED <<lockVars, pc, fd, checked, kernel, m_client_sockets, mainVars>>
      /\ \A c \in Conns : GoesOn(c)
  <2>1. PICK p \in Conns : PeerConnects(p) \/ PeerSends(p) \/ PeerCloses(p)
                      \/ PeerReads(p)
    BY DEF Peers
  <2>2. CASE PeerConnects(p)
    BY <2>2 DEF PeerConnects, Peer
  <2>3. CASE PeerSends(p)
    BY <2>3 DEF PeerSends, Peer
  <2>4. CASE PeerCloses(p)
    BY <2>4 DEF PeerCloses, Peer
  <2>5. CASE PeerReads(p)
    BY <2>5 DEF PeerReads
  <2> QED BY <2>1, <2>2, <2>3, <2>4, <2>5
<1>2. LocksHeld' /\ SendsKnow' /\ ListIsOpen' /\ MainsSocket'
  BY <1>1
<1>3. Sockets'
  BY <1>1
<1>4. Reads'
  BY <1>1
<1> QED BY <1>2, <1>3, <1>4

-----------------------------------------------------------------------------
\* The results

\* Every step keeps the invariant.
LEMMA StepIInv == ASSUME IInv, [Next]_vars PROVE IInv'
<1>1. CASE MainThread
  BY <1>1, MainTypes, MainLocks, MainSockets, MainReads DEF IInv
<1>2. CASE TOTPThread
  BY <1>2, TotpTypes, TotpKeeps DEF IInv
<1>3. CASE Peers
  BY <1>3, PeerTypes, PeersKeep DEF IInv
<1>4. CASE UNCHANGED vars
  BY <1>4 DEF vars, LocksHeld, SendsKnow, Sockets, ListIsOpen, MainsSocket, Reads,
              ReadyToRead, NoBlockingRead, SelectGetsOpenSockets, Readable, Removing,
              Walk, IInv, TypeOK, LocksHeld, lockVars, tableVars, mainVars, peerVars
<1> QED BY <1>1, <1>2, <1>3, <1>4 DEF Next, Ended

\* The invariant holds in every reachable state, for any number of connections
\* and descriptors and any size of the peers' buffers.
THEOREM Invariance == Spec => []IInv
<1>1. Init => IInv
  BY InitIInv
<1>2. IInv /\ [Next]_vars => IInv'
  BY StepIInv
<1> QED BY <1>1, <1>2, PTL DEF Spec

\* Every variable has its type in every reachable state.
THEOREM TypeCorrect == Spec => []TypeOK
<1>1. IInv => TypeOK
  BY DEF IInv
<1> QED BY <1>1, Invariance, PTL

\* The thread that waits for the table's mutex inside the handler's, in the
\* connect callback, waits for one that holds no other: the list is copied.
LEMMA NoCircle == ASSUME IInv PROVE NoCircularWait
BY DEF IInv, TypeOK, LocksHeld, NoCircularWait, WaitsFor, Threads, MainPC, TotpPC

\* No thread ever waits for itself or for one that waits for it, although the
\* connect callback of update() takes one mutex inside the other.
THEOREM NobodyWaitsInACircle == Spec => []NoCircularWait
<1>1. IInv => NoCircularWait
  BY NoCircle
<1> QED BY <1>1, Invariance, PTL

\* What sendCommand() sends reaches the connection its fcntl() saw, or nobody,
\* although update() closes descriptors under no lock.
THEOREM SentToThatConnection == Spec => []SentToWhomWasChecked
<1>1. IInv => SentToWhomWasChecked
  BY DEF IInv, SendsKnow, SentToWhomWasChecked
<1> QED BY <1>1, Invariance, PTL

\* update() reads no descriptor that has nothing to read: the main thread does
\* not wait in read().
THEOREM ReadNeverBlocks == Spec => []NoBlockingRead
<1>1. IInv => NoBlockingRead
  BY DEF IInv, Reads
<1> QED BY <1>1, Invariance, PTL

\* update() never hands select() a closed descriptor.
THEOREM SelectNeverFails == Spec => []SelectGetsOpenSockets
<1>1. IInv => SelectGetsOpenSockets
  BY DEF IInv, Reads
<1> QED BY <1>1, Invariance, PTL

-----------------------------------------------------------------------------
\* The refinement of AtomicConnections

\* The session table follows what is open: it lags from accept() to its callback,
\* and is ahead from the other callback to close().
SessionsFollow ==
    \A f \in Fds :
        m_sessions[f] = IF pc.main \in {"add", "adding", "close"} /\ f = fd.main
                        THEN None ELSE kernel[f]

\* The connection being closed is one whose peer has closed.
PeerGone ==
    pc.main \in {"remove", "removing", "close"} => inbox[kernel[fd.main]] = "end"

\* A connection that has no session yet was sent nothing.
NothingSentYet ==
    /\ \A c \in Conns : inbox[c] \in {"new", "waiting"} => unread[c] = 0
    /\ pc.main \in {"add", "adding"} => unread[kernel[fd.main]] = 0

\* accept() returned the lowest free descriptor.
LowestTaken ==
    pc.main \in {"add", "adding"} => \A g \in Fds : g < fd.main => kernel[g] # None

TableInv == SessionsFollow /\ PeerGone /\ NothingSentYet /\ LowestTaken

\* There is no session at first, and no connection.
LEMMA InitTableInv == ASSUME Init PROVE TableInv
BY DEF Init, TableInv, SessionsFollow, PeerGone, NothingSentYet, LowestTaken

\* A send goes to a connection that was accepted, and none is under way, in
\* either thread, while accept() has the mutex.
LEMMA SendTable ==
  ASSUME IInv, TableInv, NEW t \in Threads, SendCommand(t) \/ Send(t)
  PROVE  TableInv'
<1> USE DEF Goes, Leaves, Back, Threads, tableVars, mainVars, peerVars,
            IInv, TypeOK, LocksHeld, MainsSocket, Sockets, SendsKnow, Removing,
            TableInv, SessionsFollow, PeerGone, NothingSentYet, LowestTaken
<1>1. CASE SendCommand(t)
  BY <1>1 DEF SendCommand, Takes, IsOpen
<1>2. CASE Send(t)
  <2>1. /\ UNCHANGED <<kernel, m_sessions, inbox>>
        /\ pc' = [pc EXCEPT ![t] = Back(t)] /\ fd' = [fd EXCEPT ![t] = -1]
        /\ pc[t] = "sending"
    BY <1>2 DEF Send
  <2>2. SessionsFollow' /\ PeerGone' /\ LowestTaken'
    BY <2>1
  <2>3. PICK f \in Fds : f = fd[t]
    BY <2>1
  <2>4. \/ unread' = unread
        \/ /\ kernel[f] # None
           /\ unread' = [unread EXCEPT ![kernel[f]] = @ + 1]
    BY <1>2, <2>3 DEF Send
  <2>5. pc.main \notin {"add", "adding"}
    BY <2>1
  <2>6. NothingSentYet'
    BY <2>1, <2>4, <2>5
  <2> QED BY <2>2, <2>6
<1> QED BY <1>1, <1>2

\* Every step of the main thread keeps the table in step.
LEMMA MainTable ==
  ASSUME IInv, TableInv, MainThread
  PROVE  TableInv'
<1> USE DEF Goes, Takes, Frees, Leaves, Threads, lockVars, tableVars,
        mainVars, peerVars
<1> USE LocksAssumption
    DEF LocksAssumption, IInv, TypeOK, Sockets, MainsSocket, Removing,
        TableInv, SessionsFollow, PeerGone, NothingSentYet, LowestTaken
<1>1. CASE Collect
  BY <1>1 DEF Collect
<1>2. CASE Select
  BY <1>2 DEF Select
<1>3. CASE Accept \/ AcceptFails
  BY <1>3 DEF Accept, Accepts, Waiting, AcceptFails
<1>4. CASE AddSessionLocks \/ AddSession
  BY <1>4 DEF AddSessionLocks, AddSession
<1>5. CASE Snapshot \/ UpdateDone
  BY <1>5 DEF Snapshot, UpdateDone
<1>6. CASE CommandLocks \/ Command
  BY <1>6 DEF CommandLocks, Command
<1>7. CASE RemoveSessionLocks \/ RemoveSession
  BY <1>7 DEF RemoveSessionLocks, RemoveSession
<1>8. CASE Close
  BY <1>8 DEF Close
<1>9. CASE Erase
  BY <1>9 DEF Erase
<1>10. CASE Console \/ Join
  BY <1>10 DEF Console, Join
<1>11. CASE SendCommand("main") \/ Send("main")
  BY <1>11, SendTable
<1>12. ASSUME NEW f \in Fds, Handle(f)
       PROVE  TableInv'
  BY <1>12 DEF Handle, Read
<1> HIDE DEF Goes, Takes, Frees, Leaves, Threads, lockVars, tableVars,
        mainVars, peerVars
<1> HIDE DEF LocksAssumption, IInv, TypeOK, Sockets, MainsSocket, Removing,
        TableInv, SessionsFollow, PeerGone, NothingSentYet, LowestTaken
<1> QED BY <1>1, <1>2, <1>3, <1>4, <1>5, <1>6, <1>7, <1>8, <1>9, <1>10, <1>11, <1>12
        DEF MainThread

\* The TOTP thread and the peers leave the table and the sockets alone.
LEMMA OthersTable ==
  ASSUME IInv, TableInv, TOTPThread \/ Peers
  PROVE  TableInv'
<1> USE DEF TableInv, SessionsFollow, PeerGone, NothingSentYet, LowestTaken,
            lockVars, tableVars, mainVars, peerVars, Threads
<1>1. ASSUME \/ Wake \/ GetActiveSessionsLocks \/ GetActiveSessions \/ PassDone
             \/ \E c \in Conns : SendCodesToClient(c)
      PROVE  TableInv'
  <2>1. /\ pc'.main = pc.main /\ fd'.main = fd.main
        /\ UNCHANGED <<kernel, m_sessions, inbox, unread>>
    BY <1>1 DEF Wake, GetActiveSessionsLocks, GetActiveSessions, PassDone,
                SendCodesToClient, Goes, IInv, TypeOK
  <2> QED BY <2>1
<1>2. ASSUME SendCommand("totp") \/ Send("totp") PROVE TableInv'
  BY <1>2, SendTable
<1>3. ASSUME NEW c \in Conns, PeerConnects(c) \/ PeerSends(c) \/ PeerCloses(c)
      PROVE  TableInv'
  <2>1. UNCHANGED <<pc, fd, kernel, m_sessions, unread>>
    BY <1>3 DEF PeerConnects, PeerSends, PeerCloses, Peer
  <2>2. \A x \in Conns : \/ inbox'[x] = inbox[x]
                         \/ inbox[x] = "new" /\ inbox'[x] = "waiting"
                         \/ inbox[x] = "none" /\ inbox'[x] \in {"data", "end"}
    BY <1>3 DEF PeerConnects, PeerSends, PeerCloses, Peer, IInv, TypeOK
  <2>3. pc.main \in {"remove", "removing", "close"} => kernel[fd.main] \in Conns
    BY DEF IInv, TypeOK, MainsSocket, Removing
  <2> QED BY <2>1, <2>2, <2>3
<1>4. ASSUME NEW c \in Conns, PeerReads(c) PROVE TableInv'
  <2>1. /\ UNCHANGED <<pc, fd, kernel, m_sessions, inbox>>
        /\ unread[c] > 0 /\ unread' = [unread EXCEPT ![c] = @ - 1]
    BY <1>4 DEF PeerReads
  <2>2. \A x \in Conns : unread[x] = 0 => unread'[x] = 0
    BY <2>1 DEF IInv, TypeOK
  <2>3. pc.main \in {"add", "adding"} => kernel[fd.main] \in Conns
    BY DEF IInv, TypeOK, MainsSocket, Removing
  <2> QED BY <2>1, <2>2, <2>3
<1> HIDE DEF TableInv
<1> QED BY <1>1, <1>2, <1>3, <1>4 DEF TOTPThread, Peers

\* The table is in step in every reachable state.
LEMMA TableInductive == Spec => []TableInv
<1>1. Init => TableInv
  BY InitTableInv
<1>2. IInv /\ TableInv /\ [Next]_vars => TableInv'
  <2>1. CASE UNCHANGED vars
    BY <2>1 DEF vars, TableInv, SessionsFollow, PeerGone, NothingSentYet, LowestTaken,
                lockVars, tableVars, mainVars, peerVars
  <2> QED BY <2>1, MainTable, OthersTable DEF Next, Ended
<1> QED BY Invariance, <1>1, <1>2, PTL DEF Spec

\* The server starts without sessions.
LEMMA AtomicInit == Init => Atomic!Init
<1> SUFFICES ASSUME Init PROVE Atomic!Init
  OBVIOUS
<1>1. \A c \in Conns : unread[c] = 0
  BY DEF Init
<1> QED BY <1>1 DEF Init, Atomic!Init, UnreadOfSessions

\* A step that leaves the sessions alone, and what is unread of the connections
\* that have one, is none of AtomicConnections.
LEMMA Unseen ==
  ASSUME UNCHANGED <<m_sessions, id>>,
         \A c \in Conns : HasSession(c) => unread'[c] = unread[c]
  PROVE  UNCHANGED Atomic!vars
<1>1. \A c \in Conns : HasSession(c)' = HasSession(c)
  BY DEF HasSession
<1>2. UnreadOfSessions' = UnreadOfSessions
  BY <1>1 DEF UnreadOfSessions
<1> QED BY <1>2 DEF Atomic!vars

\* The connect callback, in its mutex, is where a connection begins.
LEMMA AddSessionConnects ==
  ASSUME IInv, TableInv, AddSession
  PROVE  Atomic!Next
<1>1. pc.main = "adding"
  BY DEF AddSession, Goes
<1>2. PICK f \in Fds, c \in Conns : fd.main = f /\ kernel[f] = c
  BY <1>1 DEF IInv, TypeOK, MainsSocket
<1>3. /\ m_sessions' = [m_sessions EXCEPT ![f] = c] /\ id' = [id EXCEPT ![c] = f]
      /\ UNCHANGED unread
  BY <1>2 DEF AddSession, peerVars
<1>4. m_sessions[f] = None /\ unread[c] = 0
  BY <1>1, <1>2 DEF TableInv, SessionsFollow, NothingSentYet
<1>5. \A g \in Fds : g < f => m_sessions[g] # None
  <2> SUFFICES ASSUME NEW g \in Fds, g < f PROVE m_sessions[g] # None
    OBVIOUS
  <2>1. g # f
    BY LocksAssumption DEF LocksAssumption
  <2> QED BY <1>1, <1>2, <2>1 DEF TableInv, SessionsFollow, LowestTaken
<1>6. \A g \in Fds : m_sessions[g] # c
  BY <1>1, <1>2, LocksAssumption
     DEF LocksAssumption, TableInv, SessionsFollow, IInv, Sockets
<1>7. \A x \in Conns : HasSession(x)' <=> HasSession(x) \/ x = c
  BY <1>3, <1>4, LocksAssumption DEF LocksAssumption, HasSession, IInv, TypeOK
<1>8. UnreadOfSessions' = UnreadOfSessions
  BY <1>3, <1>4, <1>7 DEF UnreadOfSessions
<1>9. Atomic!Connect(c, f)
  BY <1>3, <1>4, <1>5, <1>6, <1>8 DEF Atomic!Connect
<1> QED BY <1>9 DEF Atomic!Next

\* The disconnect callback is where it ends, before close().
LEMMA RemoveSessionDisconnects ==
  ASSUME IInv, TableInv, RemoveSession
  PROVE  Atomic!Next
<1>1. pc.main = "removing"
  BY DEF RemoveSession, Goes
<1>2. PICK f \in Fds, c \in Conns : fd.main = f /\ kernel[f] = c
  BY <1>1 DEF IInv, TypeOK, MainsSocket, Removing
<1>3. m_sessions[f] = c
  BY <1>1, <1>2 DEF TableInv, SessionsFollow
<1>4. /\ m_sessions' = [m_sessions EXCEPT ![f] = None] /\ id' = [id EXCEPT ![c] = -1]
      /\ UNCHANGED unread
  BY <1>2, <1>3 DEF RemoveSession, peerVars
<1>5. \A g \in Fds : m_sessions[g] = c => g = f
  BY <1>1, <1>2, LocksAssumption
     DEF LocksAssumption, TableInv, SessionsFollow, IInv, Sockets
<1>6. \A x \in Conns : HasSession(x)' <=> HasSession(x) /\ x # c
  BY <1>3, <1>4, <1>5, LocksAssumption DEF LocksAssumption, HasSession, IInv, TypeOK
<1>7. UnreadOfSessions' = [UnreadOfSessions EXCEPT ![c] = 0]
  BY <1>4, <1>6 DEF UnreadOfSessions
<1>8. Atomic!Disconnect(c, f)
  BY <1>3, <1>4, <1>7 DEF Atomic!Disconnect
<1> QED BY <1>8 DEF Atomic!Next

\* close() is of a connection that has no session any more.
LEMMA CloseUnseen ==
  ASSUME IInv, TableInv, Close
  PROVE  UNCHANGED Atomic!vars
<1>1. pc.main = "close"
  BY DEF Close, Goes
<1>2. PICK f \in Fds, c \in Conns : fd.main = f /\ kernel[f] = c
  BY <1>1 DEF IInv, TypeOK, MainsSocket, Removing
<1>3. ~HasSession(c)
  BY <1>1, <1>2, LocksAssumption
     DEF LocksAssumption, HasSession, TableInv, SessionsFollow, IInv, Sockets
<1>4. unread' = [unread EXCEPT ![c] = 0] /\ UNCHANGED <<m_sessions, id>>
  BY <1>2 DEF Close, tableVars
<1>5. \A x \in Conns : HasSession(x) => unread'[x] = unread[x]
  BY <1>3, <1>4 DEF IInv, TypeOK
<1> QED BY <1>4, <1>5, Unseen

\* What send() hands to a peer that has not closed goes to the session that is
\* at the descriptor.
LEMMA SendDelivers ==
  ASSUME IInv, TableInv, NEW t \in Threads, Send(t)
  PROVE  [Atomic!Next]_(Atomic!vars)
<1>1. PICK f \in Fds : f = fd[t]
  BY DEF Send, Goes, IInv, SendsKnow
<1>2. UNCHANGED <<m_sessions, id>>
  BY DEF Send, tableVars
<1>3. CASE UNCHANGED unread
  BY <1>2, <1>3, Unseen
<1>4. CASE ~UNCHANGED unread
  <2>1. PICK c \in Conns :
          /\ kernel[f] = c /\ inbox[c] # "end" /\ unread[c] < MaxUnread
          /\ unread' = [unread EXCEPT ![c] = @ + 1]
    BY <1>1, <1>4 DEF Send, IInv, TypeOK
  <2>2. pc.main \notin {"add", "adding"}
    BY DEF Send, Goes, IInv, LocksHeld, Threads
  <2>3. ~(pc.main = "close" /\ f = fd.main)
    BY <2>1 DEF TableInv, PeerGone
  <2>4. m_sessions[f] = c
    BY <2>1, <2>2, <2>3 DEF TableInv, SessionsFollow
  <2>5. HasSession(c) /\ \A x \in Conns : HasSession(x)' = HasSession(x)
    BY <1>2, <2>4 DEF HasSession
  <2>6. /\ UnreadOfSessions[c] = unread[c]
        /\ UnreadOfSessions' = [UnreadOfSessions EXCEPT ![c] = @ + 1]
    BY <2>1, <2>5 DEF UnreadOfSessions, IInv, TypeOK
  <2>7. Atomic!Deliver(c, f)
    BY <1>2, <2>1, <2>4, <2>6 DEF Atomic!Deliver
  <2> QED BY <2>7 DEF Atomic!Next
<1> QED BY <1>3, <1>4

\* A peer reads what it was sent, or what is left of it after its session.
LEMMA ReadsAreReads ==
  ASSUME IInv, NEW c \in Conns, PeerReads(c)
  PROVE  [Atomic!Next]_(Atomic!vars)
<1>1. /\ unread[c] > 0 /\ unread' = [unread EXCEPT ![c] = @ - 1]
      /\ UNCHANGED <<m_sessions, id>>
  BY DEF PeerReads, tableVars
<1>2. CASE ~HasSession(c)
  <2>1. \A x \in Conns : HasSession(x) => unread'[x] = unread[x]
    BY <1>1, <1>2 DEF IInv, TypeOK
  <2> QED BY <1>1, <2>1, Unseen
<1>3. CASE HasSession(c)
  <2>1. \A x \in Conns : HasSession(x)' = HasSession(x)
    BY <1>1 DEF HasSession
  <2>2. /\ UnreadOfSessions[c] = unread[c]
        /\ UnreadOfSessions' = [UnreadOfSessions EXCEPT ![c] = @ - 1]
    BY <1>1, <1>3, <2>1 DEF UnreadOfSessions, IInv, TypeOK
  <2>3. Atomic!PeerReads(c)
    BY <1>1, <2>2 DEF Atomic!PeerReads
  <2> QED BY <2>3 DEF Atomic!Next
<1> QED BY <1>2, <1>3

\* Every step of the two threads and of the peers is a step of AtomicConnections
\* or changes nothing of it.
LEMMA AtomicStep ==
  ASSUME IInv, TableInv, [Next]_vars
  PROVE  [Atomic!Next]_(Atomic!vars)
<1> DEFINE Same == UNCHANGED <<m_sessions, id, unread>>
<1>1. Same => UNCHANGED Atomic!vars
  BY Unseen
<1> USE DEF tableVars, peerVars
<1>2. CASE MainThread
  <2>1. CASE \/ Collect \/ Select \/ Accept \/ AcceptFails \/ AddSessionLocks
             \/ Snapshot \/ UpdateDone \/ CommandLocks \/ Command
             \/ RemoveSessionLocks \/ Erase \/ Console \/ Join
             \/ SendCommand("main") \/ \E f \in Fds : Handle(f)
    <3>1. Same
      BY <2>1 DEF Collect, Select, Accept, AcceptFails, AddSessionLocks, Snapshot,
                  UpdateDone, CommandLocks, Command, RemoveSessionLocks, Erase,
                  Console, Join, SendCommand, Handle
    <3> QED BY <1>1, <3>1
  <2>2. "main" \in Threads
    BY DEF Threads
  <2> QED BY <1>2, <2>1, <2>2, AddSessionConnects, RemoveSessionDisconnects,
             CloseUnseen, SendDelivers DEF MainThread
<1>3. CASE TOTPThread
  <2>1. CASE \/ Wake \/ GetActiveSessionsLocks \/ GetActiveSessions \/ PassDone
             \/ SendCommand("totp") \/ \E c \in Conns : SendCodesToClient(c)
    <3>1. Same
      BY <2>1 DEF Wake, GetActiveSessionsLocks, GetActiveSessions, PassDone,
                  SendCommand, SendCodesToClient
    <3> QED BY <1>1, <3>1
  <2>2. "totp" \in Threads
    BY DEF Threads
  <2> QED BY <1>3, <2>1, <2>2, SendDelivers DEF TOTPThread
<1>4. CASE Peers
  <2>1. ASSUME NEW c \in Conns, PeerConnects(c) \/ PeerSends(c) \/ PeerCloses(c)
        PROVE  Same
    BY <2>1 DEF PeerConnects, PeerSends, PeerCloses, Peer
  <2> QED BY <1>1, <1>4, <2>1, ReadsAreReads DEF Peers
<1>5. CASE UNCHANGED vars
  BY <1>1, <1>5 DEF vars
<1> QED BY <1>2, <1>3, <1>4, <1>5 DEF Next, Ended

\* The pieces of accept, close and send, in two threads that take the mutexes as
\* the code does, implement AtomicConnections: this is what lets AuthServer take
\* each of them for one step.
THEOREM ConnectionsRefinement == Spec => ConnectionsAreAtomic
<1>1. IInv /\ TableInv /\ [Next]_vars => [Atomic!Next]_(Atomic!vars)
  BY AtomicStep
<1> QED BY Invariance, TableInductive, AtomicInit, <1>1, PTL
        DEF Spec, ConnectionsAreAtomic, Atomic!Spec
==============================================================================
