-------------------------- MODULE AtomicConnections --------------------------
(***************************************************************************)
(* What AuthServer takes for granted of the connection handler: accept()   *)
(* with its callback, close() with its callback and a send are one step    *)
(* each, whichever thread sends, and a send goes to the connection that    *)
(* has its session at that descriptor.  ServerLocks, which cuts all three  *)
(* into pieces, is shown to implement this.                                *)
(***************************************************************************)
EXTENDS Integers

CONSTANTS Conns, Fds, None, MaxUnread

VARIABLES
    sessions,   \* [Fds -> the connection whose session is there, or None]
    id,         \* [Conns -> its descriptor, or -1]
    unread      \* [Conns -> messages sent that the peer has not read]

vars == <<sessions, id, unread>>

Init ==
    /\ sessions = [fd \in Fds |-> None]
    /\ id = [c \in Conns |-> -1]
    /\ unread = [c \in Conns |-> 0]

\* The lowest free descriptor and the new session go together.
Connect(c, fd) ==
    /\ sessions[fd] = None /\ \A f \in Fds : f < fd => sessions[f] # None
    /\ \A f \in Fds : sessions[f] # c
    /\ sessions' = [sessions EXCEPT ![fd] = c]
    /\ id' = [id EXCEPT ![c] = fd]
    /\ UNCHANGED unread

\* What the peer has not read is lost with the connection.
Disconnect(c, fd) ==
    /\ sessions[fd] = c
    /\ sessions' = [sessions EXCEPT ![fd] = None]
    /\ id' = [id EXCEPT ![c] = -1]
    /\ unread' = [unread EXCEPT ![c] = 0]

\* A send waits for room; one to a descriptor without a session goes nowhere.
Deliver(c, fd) ==
    /\ sessions[fd] = c /\ unread[c] < MaxUnread
    /\ unread' = [unread EXCEPT ![c] = @ + 1]
    /\ UNCHANGED <<sessions, id>>

PeerReads(c) ==
    /\ unread[c] > 0
    /\ unread' = [unread EXCEPT ![c] = @ - 1]
    /\ UNCHANGED <<sessions, id>>

Next ==
    \E c \in Conns :
        \/ PeerReads(c)
        \/ \E fd \in Fds : Connect(c, fd) \/ Disconnect(c, fd) \/ Deliver(c, fd)

Spec == Init /\ [][Next]_vars
=============================================================================
