--------------------------- MODULE SessionManager ---------------------------
(***************************************************************************)
(* The session table of src/src/Session_Manager.  Both servers own one: it *)
(* maps the descriptor of an accepted connection to a shared Session       *)
(* object.  A Session outlives its table entry while the TOTP thread still *)
(* holds a shared_ptr to it, so objects are named by the connection c that *)
(* created them (m_sessions[fd] = c, session[c] = the object), and a       *)
(* descriptor number may come back for a later connection.                 *)
(*                                                                         *)
(* Every operation takes the table mutex for its whole body, so each is one*)
(* operator; the setters map the objects s to the objects after the call,  *)
(* which lets a command handler chain several of them.                     *)
(***************************************************************************)
EXTENDS Integers

CONSTANTS
    Conns,      \* the connections a run accepts; each one makes one Session
    Fds,        \* the descriptor numbers accept() can return
    UserNames,  \* account names of the Auth Server
    AppIds,     \* application ids of the Dummy Servers
    Keys,       \* TOTP secrets (and the pairing tokens drawn with them)
    NoName,     \* the empty string
    None        \* no entry

ASSUME SessionAssumption ==
    /\ Fds \subseteq Nat \ {0}
    /\ None \notin Conns /\ None \notin Keys /\ None \notin AppIds
    /\ None \notin UserNames /\ None # NoName

VARIABLES
    m_sessions, \* [Fds -> Conns \cup {None}]: the table
    session     \* [Conns -> Session]: the objects, also the removed ones

\* What a pairing is stored under is the identity of the session that asked for
\* it: an application id, or nothing, or an account if an Auth Client asked.
Apps == AppIds \cup UserNames \cup {NoName}
Names == UserNames \cup Apps
EntityTypes == {"NOT_ASSIGNED", "AUTH_CLIENT", "DUMMY_SERVER", "DUMMY_CLIENT"}
SecretMap == [Apps -> Keys \cup {None}]
NoSecrets == [a \in Apps |-> None]

\* built: secret_pairs has been assigned or cleared since the object was made.
\* The object is created without its AC_Data, so until then the map is the
\* zeroed storage of an empty optional: it reads as empty, but an insertion
\* into it is a null dereference.
Session ==
    [id : Fds \cup {-1}, type : EntityTypes, identity : Names,
     isValid : BOOLEAN, isLogged : BOOLEAN, isInCodeState : BOOLEAN,
     secret_pairs : SecretMap, built : BOOLEAN]

NewSession(fd) ==
    [id |-> fd, type |-> "NOT_ASSIGNED", identity |-> NoName,
     isValid |-> TRUE, isLogged |-> FALSE, isInCodeState |-> FALSE,
     secret_pairs |-> NoSecrets, built |-> FALSE]

DeadSession == [NewSession(-1) EXCEPT !.isValid = FALSE]

Known(fd) == fd \in Fds /\ m_sessions[fd] # None

-----------------------------------------------------------------------------

AddSession(fd, c) ==
    /\ m_sessions' = [m_sessions EXCEPT ![fd] = c]
    /\ session' = [session EXCEPT ![c] = NewSession(fd)]

\* Mutant: the object keeps its descriptor.
RemoveSessionKeepId(fd) ==
    IF Known(fd)
    THEN /\ m_sessions' = [m_sessions EXCEPT ![fd] = None]
         /\ session' = [session EXCEPT ![m_sessions[fd]] = [@ EXCEPT !.isValid = FALSE]]
    ELSE UNCHANGED <<m_sessions, session>>

\* Mutant: 0 stands for no descriptor.
RemoveSessionIdZero(fd) ==
    IF Known(fd)
    THEN /\ m_sessions' = [m_sessions EXCEPT ![fd] = None]
         /\ session' = [session EXCEPT ![m_sessions[fd]] =
                            [@ EXCEPT !.isValid = FALSE, !.id = 0]]
    ELSE UNCHANGED <<m_sessions, session>>

RemoveSession(fd) ==
    IF Known(fd)
    THEN /\ m_sessions' = [m_sessions EXCEPT ![fd] = None]
         /\ session' = [session EXCEPT ![m_sessions[fd]] =
                            [@ EXCEPT !.isValid = FALSE, !.id = -1]]
    ELSE UNCHANGED <<m_sessions, session>>

HandleHandshake(s, fd, type, app) ==
    IF Known(fd) /\ s[m_sessions[fd]].type = "NOT_ASSIGNED"
    THEN [s EXCEPT ![m_sessions[fd]] =
             [@ EXCEPT !.type = type,
                       !.identity = IF type = "DUMMY_SERVER" THEN app
                                    ELSE s[m_sessions[fd]].identity]]
    ELSE s

\* Mutant: the whole AC_Data is dropped.
LogoutDropsData(s, fd) ==
    IF Known(fd)
    THEN [s EXCEPT ![m_sessions[fd]] =
             [@ EXCEPT !.secret_pairs = NoSecrets, !.built = FALSE, !.isLogged = FALSE]]
    ELSE s

Logout(s, fd) ==
    IF Known(fd)
    THEN [s EXCEPT ![m_sessions[fd]] =
             [@ EXCEPT !.secret_pairs = NoSecrets, !.built = TRUE, !.isLogged = FALSE]]
    ELSE s

SetIsLogged(s, fd, b) ==
    IF Known(fd) THEN [s EXCEPT ![m_sessions[fd]] = [@ EXCEPT !.isLogged = b]] ELSE s

SetIsInCodeState(s, fd, b) ==
    IF Known(fd) THEN [s EXCEPT ![m_sessions[fd]] = [@ EXCEPT !.isInCodeState = b]] ELSE s

SetIdentity(s, fd, n) ==
    IF Known(fd) THEN [s EXCEPT ![m_sessions[fd]] = [@ EXCEPT !.identity = n]] ELSE s

\* Mutant: the map of an earlier login is kept.
SetSecretPairingsOnce(s, fd, m) ==
    IF Known(fd) /\ ~s[m_sessions[fd]].built
    THEN [s EXCEPT ![m_sessions[fd]] = [@ EXCEPT !.secret_pairs = m, !.built = TRUE]]
    ELSE s

SetSecretPairings(s, fd, m) ==
    IF Known(fd)
    THEN [s EXCEPT ![m_sessions[fd]] = [@ EXCEPT !.secret_pairs = m, !.built = TRUE]]
    ELSE s

\* secret_pairs[app] = k
InsertSecret(s, fd, app, k) ==
    [s EXCEPT ![m_sessions[fd]] =
        [@ EXCEPT !.secret_pairs = [s[m_sessions[fd]].secret_pairs EXCEPT ![app] = k]]]

\* Mutant: sessions that logged out are skipped.
IsIDFromUsernameLogged(r, n) ==
    LET hits == {fd \in Fds : /\ Known(fd) /\ session[m_sessions[fd]].identity = n
                              /\ session[m_sessions[fd]].isLogged}
    IN \/ r \in hits /\ \A fd \in hits : r <= fd
       \/ r = -1 /\ hits = {}

\* The map is walked in descriptor order and the first match wins: r is the
\* lowest descriptor whose session carries the name, or -1.
IsIDFromUsername(r, n) ==
    LET hits == {fd \in Fds : Known(fd) /\ session[m_sessions[fd]].identity = n}
    IN \/ r \in hits /\ \A fd \in hits : r <= fd
       \/ r = -1 /\ hits = {}

GetIsLogged(fd) == Known(fd) /\ session[m_sessions[fd]].isLogged

GetIdentity(fd) == IF Known(fd) THEN session[m_sessions[fd]].identity ELSE NoName

GetActiveSessions ==
    {m_sessions[fd] : fd \in {f \in Fds : Known(f)
                                  /\ session[m_sessions[f]].isInCodeState}}
=============================================================================
