------------------------------ MODULE Database ------------------------------
(***************************************************************************)
(* The tables of src/src/Database_Layer as the Auth Server uses them.  A   *)
(* row is a value or None.  SQLite itself is external: what is modelled is *)
(* the constraints the CREATE TABLE statements declare (the primary keys   *)
(* and the foreign key of pairs) and what each function returns.  The rows *)
(* live in a file, so they survive a restart of the server.                *)
(*                                                                         *)
(* db stays null when init() throws, as it does when the directory dbs/ is *)
(* missing; every function then returns at once.                           *)
(***************************************************************************)
EXTENDS SessionManager

CONSTANTS
    DNames,     \* account names of the Dummy Servers
    Passwords

Pair == [a_username : UserNames, totp_secret : Keys]

ASSUME DatabaseAssumption ==
    /\ None \notin Passwords /\ None \notin DNames /\ NoName \notin DNames
    /\ None \notin Pair

VARIABLES
    dbUp,       \* db is not null
    users,      \* [UserNames -> Passwords \cup {None}]
    pairs       \* [DNames \X Apps -> Pair \cup {None}]

dbVars == <<dbUp, users, pairs>>

DatabaseTypeOK ==
    /\ dbUp \in BOOLEAN
    /\ users \in [UserNames -> Passwords \cup {None}]
    /\ pairs \in [DNames \X Apps -> Pair \cup {None}]

DatabaseInit ==
    /\ dbUp \in BOOLEAN
    /\ users = [u \in UserNames |-> None]
    /\ pairs = [k \in DNames \X Apps |-> None]

-----------------------------------------------------------------------------

Registered(u) == u \in UserNames /\ users[u] # None

\* INSERT INTO users: refused when the primary key exists.
CreateUser(u, p) ==
    /\ dbUp /\ ~Registered(u)
    /\ users' = [users EXCEPT ![u] = p]
    /\ UNCHANGED <<dbUp, pairs>>

CredentialsMatch(u, p) == dbUp /\ Registered(u) /\ users[u] = p

\* Mutant: no primary key on pairs.
CanPairAgain(a, d, app) == Registered(a)

\* Mutant: foreign keys left off, SQLite's default.
CanPairUnknown(a, d, app) == pairs[<<d, app>>] = None

\* INSERT INTO pairs: refused when (d, app) is taken or a_username is unknown.
CanPair(a, d, app) == Registered(a) /\ pairs[<<d, app>>] = None

\* Mutant: a refused INSERT is reported as success.
PairUserReturnsTrue(a, d, app) == TRUE

\* pairUser: what the call returns, and what it stores.  Without a database it
\* returns true and stores nothing.
PairUserReturns(a, d, app) == ~dbUp \/ CanPair(a, d, app)

PairUser(a, d, app, secret) ==
    /\ pairs' = IF dbUp /\ CanPair(a, d, app)
                THEN [pairs EXCEPT ![<<d, app>>] =
                         [a_username |-> a, totp_secret |-> secret]]
                ELSE pairs
    /\ UNCHANGED <<dbUp, users>>

RowOf(d, app) ==
    IF dbUp /\ d \in DNames THEN pairs[<<d, app>>] ELSE None

\* app_id -> secret over the rows of u.  Two accounts of u in one application
\* share a key of the map: the row the SELECT yields last stays, and SQL leaves
\* the order of the rows open.
SecretPairings(u) ==
    LET secrets(app) ==
            {pairs[<<d, app>>].totp_secret : d \in
                {x \in DNames : /\ RowOf(x, app) # None
                                /\ pairs[<<x, app>>].a_username = u}}
    IN {m \in SecretMap : \A app \in Apps :
            IF secrets(app) = {} THEN m[app] = None ELSE m[app] \in secrets(app)}
=============================================================================
