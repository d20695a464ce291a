---------------------------- MODULE PairingProofs ----------------------------
(***************************************************************************)
(* Proofs about what the Auth Server remembers: pairings and their rows,   *)
(* notification requests, and the crash of an insertion into an unbuilt    *)
(* map.  They rest on the invariant of AuthServerProofs.                   *)
(***************************************************************************)
EXTENDS AuthServerProofs

\* The secrets that are in use were drawn: a new one differs from all of them.
InUseWasDrawn ==
    /\ \A t \in Keys : m_pending_pairings[t] # None => t \in drawn
    /\ \A k \in DNames \X Apps : pairs[k] # None => pairs[k].totp_secret \in drawn

PairingInv == InUseWasDrawn /\ OnePendingPerAccount /\ SecretsUnique

\* Every step but a pairing request, its completion and a restart leaves the
\* pairings alone, draws no token, and never forgets a value drawn.
PairingFrame ==
    /\ UNCHANGED <<m_pending_pairings, pairs, dbUp>>
    /\ drawn \subseteq drawn'
    /\ drawn' \cap Keys = drawn \cap Keys

\* Only these three kinds of steps touch the pairings.
LEMMA OtherSteps ==
  ASSUME [Next]_vars
  PROVE  \/ PairingFrame
         \/ \E fd \in Fds, d \in DNames : PairRequest(fd, d)
         \/ \E fd \in Fds, t \in Keys : FinishPairing(fd, t)
         \/ Restart
<1> USE DEF PairingFrame, authVars, dbVars, connVars
<1>1. ASSUME NEW c \in Conns, NEW p \in Peers, Accept(c, p)
      PROVE  PairingFrame
  BY <1>1 DEF Accept
<1>2. ASSUME NEW fd \in Fds, Disconnect(fd) \/ Handshake(fd) \/ LoseHandshake(fd)
      PROVE  PairingFrame
  BY <1>2 DEF Disconnect, Handshake, LoseHandshake
<1>3. ASSUME NEW fd \in Fds, FromAuthClient(fd), ~\E t \in Keys : FinishPairing(fd, t)
      PROVE  PairingFrame
  BY <1>3 DEF FromAuthClient, Login, Register, CreateUser, LogoutRequest, RequestCode,
              ExitSCS, NotifResponse
<1>4. ASSUME NEW fd \in Fds, FromDummyServer(fd), ~\E d \in DNames : PairRequest(fd, d)
      PROVE  PairingFrame
  BY <1>4, AuthServerAssumption DEF FromDummyServer, RequestNotification, ValidateCode
<1>5. CASE TOTPThread
  BY <1>5 DEF TOTPThread, Wake, Check, Format, Send, PassDone
<1>6. CASE UNCHANGED vars
  BY <1>6 DEF vars
<1> QED BY <1>1, <1>2, <1>3, <1>4, <1>5, <1>6 DEF Next, MainThread

\* Nothing is pending or stored at first.
LEMMA InitPairingInv == Init => PairingInv
BY DEF Init, DatabaseInit, PairingInv, InUseWasDrawn, OnePendingPerAccount, SecretsUnique

\* A new token is in no use, and startPairing's scan found no other token for
\* the account.
LEMMA PairRequestKeeps ==
  ASSUME TypeOK, PairingInv, NEW fd \in Fds, NEW d \in DNames, PairRequest(fd, d)
  PROVE  PairingInv'
<1> DEFINE app == GetIdentity(fd)
           p == [d_username |-> d, app_id |-> app]
<1>1. pairs' = pairs
  BY DEF PairRequest, dbVars
<1>2. CASE UNCHANGED authVars
  BY <1>1, <1>2 DEF authVars, PairingInv, InUseWasDrawn, OnePendingPerAccount, SecretsUnique
<1>3. CASE ~UNCHANGED authVars
  <2>1. PICK t \in Keys \ drawn :
          /\ ~IsPending(d, app)
          /\ m_pending_pairings' = [m_pending_pairings EXCEPT ![t] = p]
          /\ drawn' = drawn \cup {t}
    BY <1>3 DEF PairRequest
  <2>2. m_pending_pairings[t] = None /\ \A v \in Keys : m_pending_pairings[v] # p
    BY <2>1 DEF PairingInv, InUseWasDrawn, IsPending
  <2> HIDE DEF p
  <2>3. m_pending_pairings \in [Keys -> Pending \cup {None}]
    BY DEF TypeOK
  <2>4. InUseWasDrawn'
    BY <1>1, <2>1, <2>3 DEF PairingInv, InUseWasDrawn
  <2>5. OnePendingPerAccount'
    BY <2>1, <2>2, <2>3 DEF PairingInv, OnePendingPerAccount
  <2>6. SecretsUnique'
    <3>1. \A k \in DNames \X Apps : pairs[k] # None =>
             pairs[k].totp_secret \in Keys /\ pairs[k].totp_secret # t
      BY <2>1 DEF PairingInv, InUseWasDrawn, TypeOK, DatabaseTypeOK, Pair
    <3> QED BY <1>1, <2>1, <2>3, <3>1 DEF PairingInv, SecretsUnique
  <2> QED BY <2>4, <2>5, <2>6 DEF PairingInv
<1> QED BY <1>2, <1>3

\* A row takes the secret of a token that leaves the pending pairings in the
\* same step, whether or not the insertion after it survives.
LEMMA FinishPairingKeeps ==
  ASSUME TypeOK, PairingInv, NEW fd \in Fds, NEW t \in Keys, FinishPairing(fd, t)
  PROVE  PairingInv'
<1>1. drawn' = drawn /\ m_pending_pairings[t] # None
  BY DEF FinishPairing
<1>2. CASE UNCHANGED <<pairs, m_pending_pairings>>
  BY <1>1, <1>2 DEF PairingInv, InUseWasDrawn, OnePendingPerAccount, SecretsUnique
<1>3. CASE ~UNCHANGED <<pairs, m_pending_pairings>>
  <2>1. m_pending_pairings' = [m_pending_pairings EXCEPT ![t] = None]
    BY <1>3 DEF FinishPairing, ErasePairing, dbVars
  <2>2. \/ pairs' = pairs
        \/ \E k \in DNames \X Apps : \E a :
             pairs' = [pairs EXCEPT ![k] = [a_username |-> a, totp_secret |-> t]]
    <3>1. m_pending_pairings[t].d_username \in DNames /\ m_pending_pairings[t].app_id \in Apps
      BY <1>1 DEF TypeOK, Pending
    <3> QED BY <3>1 DEF FinishPairing, PairUser, dbVars
  <2>3. /\ m_pending_pairings \in [Keys -> Pending \cup {None}]
        /\ pairs \in [DNames \X Apps -> Pair \cup {None}]
    BY DEF TypeOK, DatabaseTypeOK
  <2>4. \A k \in DNames \X Apps : pairs[k] # None =>
          pairs[k].totp_secret \in Keys /\ pairs[k].totp_secret # t
    BY <1>1, <2>3 DEF PairingInv, SecretsUnique, Pair
  <2>5. InUseWasDrawn'
    BY <1>1, <2>1, <2>2, <2>3 DEF PairingInv, InUseWasDrawn
  <2>6. OnePendingPerAccount'
    BY <2>1, <2>3 DEF PairingInv, OnePendingPerAccount
  <2>7. SecretsUnique'
    <3>1. CASE pairs' = pairs
      BY <2>1, <2>3, <2>4, <3>1 DEF PairingInv, SecretsUnique
    <3>2. ASSUME NEW k \in DNames \X Apps, NEW a,
                 pairs' = [pairs EXCEPT ![k] = [a_username |-> a, totp_secret |-> t]]
          PROVE  SecretsUnique'
      <4>1. pairs'[k].totp_secret = t /\ \A j \in DNames \X Apps : j # k => pairs'[j] = pairs[j]
        BY <2>3, <3>2
      <4>2. \A v \in Keys : m_pending_pairings'[v] = IF v = t THEN None ELSE m_pending_pairings[v]
        BY <2>1, <2>3
      <4> QED BY <2>4, <4>1, <4>2 DEF PairingInv, SecretsUnique
    <3> QED BY <2>2, <3>1, <3>2
  <2> QED BY <2>5, <2>6, <2>7 DEF PairingInv
<1> QED BY <1>2, <1>3

\* Every step keeps the pairing invariant.
LEMMA PairingInvStep == TypeOK /\ PairingInv /\ [Next]_vars => PairingInv'
<1> SUFFICES ASSUME TypeOK, PairingInv, [Next]_vars PROVE PairingInv'
  OBVIOUS
<1>1. CASE PairingFrame
  BY <1>1 DEF PairingFrame, PairingInv, InUseWasDrawn, OnePendingPerAccount, SecretsUnique
<1>2. CASE Restart
  <2>1. \A t \in Keys : m_pending_pairings'[t] = None
    BY <1>2 DEF Restart, EmptyMemory
  <2>2. UNCHANGED <<pairs, drawn>>
    BY <1>2 DEF Restart, dbVars
  <2>3. \A k \in DNames \X Apps : pairs[k] # None => pairs[k].totp_secret \in Keys
    BY DEF TypeOK, DatabaseTypeOK, Pair
  <2> QED BY <2>1, <2>2, <2>3
          DEF PairingInv, InUseWasDrawn, OnePendingPerAccount, SecretsUnique
<1> QED BY <1>1, <1>2, OtherSteps, PairRequestKeeps, FinishPairingKeeps

\* The pairing invariant holds in every reachable state.
LEMMA PairingInductive == Spec => []PairingInv
<1>1. IInv => TypeOK
  BY DEF IInv
<1> QED BY Inductive, InitPairingInv, PairingInvStep, <1>1, PTL DEF Spec

\* At most one pairing of an account of an application is pending.
THEOREM AlwaysOnePending == Spec => []OnePendingPerAccount
<1>1. PairingInv => OnePendingPerAccount
  BY DEF PairingInv
<1> QED BY PairingInductive, <1>1, PTL

\* No two rows share a secret, and no pending token is the secret of a row.
THEOREM SecretsAlwaysUnique == Spec => []SecretsUnique
<1>1. PairingInv => SecretsUnique
  BY DEF PairingInv
<1> QED BY PairingInductive, <1>1, PTL

-----------------------------------------------------------------------------

\* Accounts are only added.
LEMMA UsersOnlyGrow ==
  ASSUME TypeOK, [Next]_vars
  PROVE  \A u \in UserNames : users[u] # None => users'[u] = users[u]
<1> USE DEF dbVars
<1>1. ASSUME NEW fd \in Fds, NEW u \in UserNames, NEW p \in Passwords, Register(fd, u, p)
      PROVE  \A v \in UserNames : users[v] # None => users'[v] = users[v]
  BY <1>1 DEF Register, CreateUser, Registered, TypeOK, DatabaseTypeOK
<1>2. \/ UNCHANGED users
      \/ \E fd \in Fds, u \in UserNames, p \in Passwords : Register(fd, u, p)
  <2>1. ASSUME NEW c \in Conns, NEW p \in Peers, Accept(c, p)
        PROVE  UNCHANGED users
    BY <2>1 DEF Accept
  <2>2. ASSUME NEW fd \in Fds, Disconnect(fd) \/ Handshake(fd) \/ LoseHandshake(fd)
        PROVE  UNCHANGED users
    BY <2>2 DEF Disconnect, Handshake, LoseHandshake
  <2>3. ASSUME NEW fd \in Fds, FromAuthClient(fd),
               ~\E u \in UserNames, p \in Passwords : Register(fd, u, p)
        PROVE  UNCHANGED users
    BY <2>3 DEF FromAuthClient, Login, LogoutRequest, RequestCode, ExitSCS,
                FinishPairing, PairUser, NotifResponse
  <2>4. ASSUME NEW fd \in Fds, FromDummyServer(fd)
        PROVE  UNCHANGED users
    BY <2>4 DEF FromDummyServer, PairRequest, RequestNotification, ValidateCode
  <2>5. CASE TOTPThread
    BY <2>5 DEF TOTPThread, Wake, Check, Format, Send, PassDone
  <2>6. CASE Restart \/ UNCHANGED vars
    BY <2>6 DEF Restart, vars
  <2> QED BY <2>1, <2>2, <2>3, <2>4, <2>5, <2>6 DEF Next, MainThread
<1> QED BY <1>1, <1>2

\* Every step stores a row exactly when it spends its token.
LEMMA PairingStepHolds ==
  ASSUME TypeOK, PairingInv, [Next]_vars
  PROVE  PairingStep
<1>1. \A u \in UserNames : users[u] # None => users'[u] = users[u]
  BY UsersOnlyGrow
<1>2. CASE PairingFrame
  BY <1>1, <1>2 DEF PairingFrame, PairingStep
<1>3. CASE Restart
  BY <1>1, <1>3 DEF Restart, dbVars, PairingStep
<1>4. ASSUME NEW fd \in Fds, NEW d \in DNames, PairRequest(fd, d)
      PROVE  PairingStep
  <2>1. pairs' = pairs
    BY <1>4 DEF PairRequest, dbVars
  <2>2. \A t \in Keys : m_pending_pairings[t] # None => m_pending_pairings'[t] # None
    <3>1. CASE UNCHANGED authVars
      BY <3>1 DEF authVars
    <3>2. CASE ~UNCHANGED authVars
      <4>1. PICK t \in Keys \ drawn : \E p :
              m_pending_pairings' = [m_pending_pairings EXCEPT ![t] = p]
        BY <1>4, <3>2 DEF PairRequest
      <4> QED BY <4>1 DEF TypeOK, PairingInv, InUseWasDrawn
    <3> QED BY <3>1, <3>2
  <2> QED BY <1>1, <2>1, <2>2 DEF PairingStep
<1>5. ASSUME NEW fd \in Fds, NEW t \in Keys, FinishPairing(fd, t)
      PROVE  PairingStep
  <2>1. CASE UNCHANGED <<pairs, m_pending_pairings>>
    BY <1>1, <2>1 DEF PairingStep
  <2>2. CASE ~UNCHANGED <<pairs, m_pending_pairings>>
    <3>0. m_pending_pairings[t] \in Pending
      BY <1>5 DEF FinishPairing, TypeOK
    <3>1. PICK d \in DNames, app \in Apps :
            m_pending_pairings[t] = [d_username |-> d, app_id |-> app]
      BY <3>0 DEF Pending
    <3>2. PICK a : /\ PairUserReturns(a, d, app)
                   /\ PairUser(a, d, app, t)
                   /\ ErasePairing(t)
      BY <1>5, <2>2, <3>1 DEF FinishPairing, dbVars
    <3> DEFINE k == <<d, app>>
               row == [a_username |-> a, totp_secret |-> t]
    <3>3. k \in DNames \X Apps /\ k[1] = d /\ k[2] = app
      OBVIOUS
    <3>4. \/ dbUp /\ pairs[k] = None /\ pairs' = [pairs EXCEPT ![k] = row]
               /\ a \in UserNames
          \/ ~dbUp /\ pairs' = pairs
      BY <3>2 DEF PairUser, PairUserReturns, CanPair, Registered
    <3>5. row.totp_secret = t /\ (a \in UserNames => row # None)
      BY DatabaseAssumption DEF Pair
    <3>6. \A v \in Keys : m_pending_pairings'[v] =
                            IF v = t THEN None ELSE m_pending_pairings[v]
      BY <3>2 DEF ErasePairing, TypeOK
    <3>7. CASE ~dbUp /\ pairs' = pairs
      BY <1>1, <3>7 DEF PairingStep
    <3>8. CASE /\ dbUp /\ pairs[k] = None /\ pairs' = [pairs EXCEPT ![k] = row]
               /\ a \in UserNames
      <4> HIDE DEF row, k
      <4>1. pairs'[k] = row /\ \A j \in DNames \X Apps : j # k => pairs'[j] = pairs[j]
        BY <3>3, <3>8 DEF TypeOK, DatabaseTypeOK
      <4>2. /\ m_pending_pairings[t] = [d_username |-> k[1], app_id |-> k[2]]
            /\ m_pending_pairings'[t] = None
        BY <3>1, <3>3, <3>6
      <4>3. k = <<m_pending_pairings[t].d_username, m_pending_pairings[t].app_id>>
        BY <3>1 DEF k
      <4> QED BY <1>1, <3>3, <3>5, <3>6, <3>8, <4>1, <4>2, <4>3 DEF PairingStep
    <3> QED BY <3>4, <3>7, <3>8
  <2> QED BY <2>1, <2>2
<1> QED BY <1>2, <1>3, <1>4, <1>5, OtherSteps

\* A row appears exactly when its token leaves the pending pairings, and rows
\* and accounts are only ever added.
THEOREM PairingIsAtomic == Spec => PairingAtomic
<1>1. TypeOK /\ PairingInv /\ [Next]_vars => [PairingStep]_vars
  BY PairingStepHolds
<1>2. IInv => TypeOK
  BY DEF IInv
<1> QED BY Inductive, PairingInductive, <1>1, <1>2, PTL DEF Spec, PairingAtomic

-----------------------------------------------------------------------------
\* The refinement of Pairing

\* The server starts with no offers, no rows and no tokens drawn.
LEMMA PromiseInit == Init => Promise!Init
<1> SUFFICES ASSUME Init PROVE Promise!Init
  OBVIOUS
<1>1. PendingOffers = {}
  BY DEF Init, PendingOffers
<1>2. StoredRows = {}
  BY DEF Init, DatabaseInit, StoredRows
<1>3. dbUp \in BOOLEAN /\ drawn \cap Keys = {}
  BY DEF Init, DatabaseInit
<1> QED BY <1>1, <1>2, <1>3 DEF Promise!Init

\* A pairing request makes an offer, or finds the one there is.
LEMMA PairRequestOffers ==
  ASSUME IInv, PairingInv, NEW fd \in Fds, NEW d \in DNames, PairRequest(fd, d)
  PROVE  [Promise!Next]_(Promise!vars)
<1> DEFINE app == GetIdentity(fd)
           p == [d_username |-> d, app_id |-> app]
<1>1. UNCHANGED <<pairs, dbUp, StoredRows>>
  BY DEF PairRequest, dbVars, StoredRows
<1>2. CASE UNCHANGED authVars
  BY <1>1, <1>2 DEF authVars, PendingOffers, Promise!vars
<1>3. CASE ~UNCHANGED authVars
  <2>1. PICK t \in Keys \ drawn :
          /\ ~IsPending(d, app)
          /\ m_pending_pairings' = [m_pending_pairings EXCEPT ![t] = p]
          /\ drawn' = drawn \cup {t}
    BY <1>3 DEF PairRequest
  <2>2. m_pending_pairings \in [Keys -> Pending \cup {None}]
    BY DEF IInv, TypeOK
  <2>3. app \in Apps /\ p \in Pending
    BY AppOfSession DEF IInv, TablesAgree, PairRequest, Pending, FromDS, Merged
  <2>4. p # None
    BY <2>3, AuthServerAssumption
  <2>5. \A v \in Keys : m_pending_pairings'[v] = IF v = t THEN p ELSE m_pending_pairings[v]
    BY <2>1, <2>2
  <2>6. m_pending_pairings[t] = None
    BY <2>1 DEF PairingInv, InUseWasDrawn
  <2>7. PendingOffers' = PendingOffers \cup {[token |-> t, account |-> <<d, app>>]}
    BY <2>4, <2>5, <2>6 DEF PendingOffers
  <2>8. \A o \in PendingOffers : o.account # <<d, app>>
    <3>1. SUFFICES ASSUME NEW v \in Keys, m_pending_pairings[v] # None,
                          m_pending_pairings[v].d_username = d,
                          m_pending_pairings[v].app_id = app
                   PROVE  FALSE
      BY DEF PendingOffers
    <3>2. m_pending_pairings[v] \in Pending
      BY <2>2, <3>1
    <3>3. m_pending_pairings[v] = p
      BY <3>1, <3>2 DEF Pending
    <3> QED BY <2>1, <3>3 DEF IsPending
  <2>9. Promise!Offer(t, <<d, app>>)
    BY <1>1, <2>1, <2>7, <2>8 DEF Promise!Offer
  <2> QED BY <2>3, <2>9 DEF Promise!Next
<1> QED BY <1>2, <1>3

\* The row and the erasure, however far apart in the code, bind one offer;
\* without a database it is wasted.
LEMMA FinishPairingBinds ==
  ASSUME TypeOK, PairingInv, NEW fd \in Fds, NEW t \in Keys, FinishPairing(fd, t)
  PROVE  [Promise!Next]_(Promise!vars)
<1>1. UNCHANGED <<drawn, dbUp>>
  BY DEF FinishPairing, PairUser, dbVars
<1>2. CASE UNCHANGED <<pairs, m_pending_pairings>>
  BY <1>1, <1>2 DEF PendingOffers, StoredRows, Promise!vars
<1>3. CASE ~UNCHANGED <<pairs, m_pending_pairings>>
  <2>1. m_pending_pairings[t] \in Pending
    BY DEF FinishPairing, TypeOK
  <2>2. PICK d \in DNames, app \in Apps :
          m_pending_pairings[t] = [d_username |-> d, app_id |-> app]
    BY <2>1 DEF Pending
  <2>3. PICK a : /\ PairUserReturns(a, d, app)
                 /\ PairUser(a, d, app, t)
                 /\ ErasePairing(t)
    BY <1>3, <2>2 DEF FinishPairing, dbVars
  <2> DEFINE k == <<d, app>>
             o == [token |-> t, account |-> k]
             row == [a_username |-> a, totp_secret |-> t]
  <2>4. \A v \in Keys : m_pending_pairings'[v] =
                          IF v = t THEN None ELSE m_pending_pairings[v]
    BY <2>3 DEF ErasePairing, TypeOK
  <2>5. o \in PendingOffers /\ PendingOffers' = PendingOffers \ {o}
    <3>1. m_pending_pairings[t] # None
      BY DEF FinishPairing
    <3> QED BY <2>2, <2>4, <3>1 DEF PendingOffers
  <2>6. CASE ~dbUp
    <3>1. pairs' = pairs
      BY <2>3, <2>6 DEF PairUser, PairUserReturns, CanPair
    <3>2. Promise!Waste(o)
      BY <1>1, <2>5, <2>6, <3>1 DEF Promise!Waste, StoredRows
    <3> QED BY <2>5, <3>2 DEF Promise!Next
  <2>7. CASE dbUp
    <3>1. /\ pairs[k] = None /\ pairs' = [pairs EXCEPT ![k] = row]
          /\ a \in UserNames
      BY <2>3, <2>7 DEF PairUser, PairUserReturns, CanPair, Registered
    <3>2. k \in DNames \X Apps
      OBVIOUS
    <3>3. row # None
      BY <3>1, DatabaseAssumption DEF Pair
    <3>4. \A j \in DNames \X Apps : pairs'[j] = IF j = k THEN row ELSE pairs[j]
      BY <3>1 DEF TypeOK, DatabaseTypeOK
    <3>5. StoredRows' = StoredRows \cup
                          {[token |-> t, account |-> k, owner |-> a]}
      <4>1. row.totp_secret = t /\ row.a_username = a
        OBVIOUS
      <4> HIDE DEF k, row
      <4> QED BY <3>1, <3>2, <3>3, <3>4, <4>1 DEF StoredRows
    <3>6. \A r \in StoredRows : r.account # k
      BY <3>1 DEF StoredRows
    <3>7. o.token = t /\ o.account = k
      OBVIOUS
    <3>8. Promise!Bind(o, a)
      BY <1>1, <2>5, <2>7, <3>5, <3>6, <3>7 DEF Promise!Bind
    <3> QED BY <2>5, <3>1, <3>8 DEF Promise!Next
  <2> QED BY <2>6, <2>7
<1> QED BY <1>2, <1>3

\* Every step of the server is a step of Pairing or changes nothing of it.
LEMMA PromiseStep ==
  IInv /\ PairingInv /\ [Next]_vars => [Promise!Next]_(Promise!vars)
<1> SUFFICES ASSUME IInv, PairingInv, [Next]_vars
             PROVE  [Promise!Next]_(Promise!vars)
  OBVIOUS
<1>0. TypeOK
  BY DEF IInv
<1>1. CASE PairingFrame
  BY <1>1 DEF PairingFrame, PendingOffers, StoredRows, Promise!vars
<1>2. CASE Restart
  <2>1. PendingOffers' = {}
    BY <1>2 DEF Restart, EmptyMemory, PendingOffers
  <2>2. UNCHANGED <<dbUp, drawn, StoredRows>>
    BY <1>2 DEF Restart, dbVars, StoredRows
  <2> QED BY <2>1, <2>2 DEF Promise!Forget, Promise!Next
<1> QED BY <1>0, <1>1, <1>2, OtherSteps, PairRequestOffers, FinishPairingBinds

\* The server implements Pairing: its pending pairings and the rows of its
\* database, across refusals, crashes and restarts, are offers that are bound
\* once or forgotten.
THEOREM PairingRefinement == Spec => KeepsPairingPromise
<1> QED BY Inductive, PairingInductive, PromiseInit, PromiseStep, PTL
        DEF Spec, KeepsPairingPromise, Promise!Spec

-----------------------------------------------------------------------------
\* Notifications: the steps that have to do with them

\* A step that leaves the pending notifications alone and sends no answer.
QuietStep ==
    /\ UNCHANGED m_pending_notifications
    /\ \A m \in out' : m.cmd.type # "NOTIF_LOGIN_RESP"

\* A reply that is not the answer of a notification answers none.
LEMMA ReplyIsQuiet ==
  ASSUME NEW fd, NEW for, NEW cmd, cmd.type # "NOTIF_LOGIN_RESP",
         out' = SendCommand(fd, for, cmd)
  PROVE  \A m \in out' : m.cmd.type # "NOTIF_LOGIN_RESP"
BY DEF SendCommand

\* Every step but a notification request, its answer and a restart answers none
\* and forgets none.
LEMMA QuietSteps ==
  ASSUME [Next]_vars
  PROVE  \/ QuietStep \/ Restart \/ UNCHANGED vars
         \/ \E fd \in Fds, d \in DNames : RequestNotification(fd, d)
         \/ \E fd \in Fds, r \in ReqIDs, b \in BOOLEAN : NotifResponse(fd, r, b)
<1> USE DEF QuietStep, authVars
<1>0. \A fd, cmd : Reply(fd, cmd) /\ cmd.type # "NOTIF_LOGIN_RESP" =>
        \A m \in out' : m.cmd.type # "NOTIF_LOGIN_RESP"
  BY ReplyIsQuiet DEF Reply
<1>1. ASSUME NEW c \in Conns, NEW p \in Peers, Accept(c, p)
      PROVE  QuietStep
  BY <1>1 DEF Accept
<1>2. ASSUME NEW fd \in Fds, Disconnect(fd) \/ Handshake(fd) \/ LoseHandshake(fd)
      PROVE  QuietStep
  BY <1>2 DEF Disconnect, Handshake, LoseHandshake
<1>3. ASSUME NEW fd \in Fds, FromAuthClient(fd),
             ~\E r \in ReqIDs, b \in BOOLEAN : NotifResponse(fd, r, b)
      PROVE  QuietStep
  <2>1. \A code : Err(code).type = "ERR"
    BY DEF Err
  <2>2. \A codes : CodeResp(codes).type = "CODE_RESP"
    BY DEF CodeResp
  <2>3. ASSUME NEW u \in UserNames, NEW p \in Passwords, Login(fd, u, p)
        PROVE  QuietStep
    BY <1>0, <2>1, <2>3 DEF Login
  <2>4. ASSUME NEW u \in UserNames, NEW p \in Passwords, Register(fd, u, p)
        PROVE  QuietStep
    BY <1>0, <2>1, <2>4 DEF Register
  <2>5. CASE LogoutRequest(fd)
    BY <1>0, <2>1, <2>5 DEF LogoutRequest
  <2>6. CASE RequestCode(fd) \/ ExitSCS(fd)
    BY <1>0, <2>2, <2>6 DEF RequestCode, ExitSCS
  <2>7. ASSUME NEW t \in Keys, FinishPairing(fd, t)
        PROVE  QuietStep
    BY <2>7 DEF FinishPairing
  <2> QED BY <1>3, <2>3, <2>4, <2>5, <2>6, <2>7 DEF FromAuthClient
<1>4. ASSUME NEW fd \in Fds, FromDummyServer(fd),
             ~\E d \in DNames : RequestNotification(fd, d)
      PROVE  QuietStep
  <2>1. ASSUME NEW d \in DNames, PairRequest(fd, d)
        PROVE  QuietStep
    <3>1. \A t : PairResp(t, d).type = "PAIR_RESP"
      BY DEF PairResp
    <3> QED BY <1>0, <2>1, <3>1 DEF PairRequest
  <2>2. ASSUME NEW code, NEW d, ValidateCode(fd, code, d)
        PROVE  QuietStep
    BY <1>0, <2>2 DEF ValidateCode
  <2> QED BY <1>4, <2>1, <2>2 DEF FromDummyServer
<1>5. CASE TOTPThread
  <2>1. CASE Send
    <3>1. CodeResp(totp.codes).type = "CODE_RESP"
      BY DEF CodeResp
    <3> QED BY <2>1, <3>1, ReplyIsQuiet DEF Send
  <2>2. CASE ~Send
    BY <1>5, <2>2 DEF TOTPThread, Wake, Check, Format, PassDone
  <2> QED BY <2>1, <2>2
<1> QED BY <1>1, <1>2, <1>3, <1>4, <1>5 DEF Next, MainThread

-----------------------------------------------------------------------------
\* The crash of an insertion

\* Every step keeps the condition on the insertion.
LEMMA InsertStep == IInv /\ NoInsertWithoutLogin /\ [Next]_vars => NoInsertWithoutLogin'
<1> SUFFICES ASSUME IInv, NoInsertWithoutLogin, [Next]_vars
             PROVE  NoInsertWithoutLogin'
  OBVIOUS
<1> USE DEF dbVars, connVars
<1>1. ASSUME NEW c \in Conns, NEW p \in Peers, Accept(c, p)
      PROVE  up' # "segv_insert"
  BY <1>1 DEF Accept
<1>2. ASSUME NEW fd \in Fds, Disconnect(fd) \/ Handshake(fd) \/ LoseHandshake(fd)
      PROVE  up' # "segv_insert"
  BY <1>2 DEF Disconnect, Handshake, LoseHandshake
<1>3. ASSUME NEW fd \in Fds, NEW t \in Keys, FinishPairing(fd, t)
      PROVE  NoInsertWithoutLogin'
  <2>1. PICK c \in Conns : m_sessions[fd] = c /\ Known(fd) /\ peer[c] = AC
    BY <1>3, ReadingFacts, SessionAssumption
       DEF FinishPairing, FromAC, IInv, TablesAgree, Known, Open
  <2>2. CASE session[c].built
    BY <1>3, <2>1, <2>2 DEF FinishPairing, FromAC, Reading, NoInsertWithoutLogin
  <2>3. CASE ~session[c].built
    <3>1. GetIdentity(fd) = NoName
      BY <2>1, <2>3 DEF IInv, SessionsMatchPeers, GetIdentity
    <3>2. CASE up' = "segv_insert"
      <4>1. PICK d, app : PairUserReturns(NoName, d, app) /\ PairUser(NoName, d, app, t)
        BY <1>3, <3>1, <3>2 DEF FinishPairing, FromAC, Reading
      <4>2. ~dbUp \/ Registered(NoName)
        BY <4>1 DEF PairUserReturns, CanPair
      <4> QED BY <4>1, <4>2 DEF PairUser, Registered, NoInsertWithoutLogin
    <3> QED BY <3>2 DEF NoInsertWithoutLogin
  <2> QED BY <2>2, <2>3
<1>4. ASSUME NEW fd \in Fds, FromAuthClient(fd), ~\E t \in Keys : FinishPairing(fd, t)
      PROVE  up' # "segv_insert"
  BY <1>4 DEF FromAuthClient, Login, Register, LogoutRequest, RequestCode, ExitSCS,
              NotifResponse, FromAC, Merged, Reading
<1>5. ASSUME NEW fd \in Fds, FromDummyServer(fd)
      PROVE  up' # "segv_insert"
  BY <1>5 DEF FromDummyServer, PairRequest, RequestNotification, ValidateCode, FromDS, Merged,
              Reading
<1>6. CASE TOTPThread
  BY <1>6 DEF TOTPThread, Wake, Check, Format, Send, PassDone, NoInsertWithoutLogin
<1>7. CASE Restart
  BY <1>7 DEF Restart, EmptyMemory, NoInsertWithoutLogin
<1>8. CASE UNCHANGED vars
  BY <1>8 DEF vars, NoInsertWithoutLogin, Registered
<1> QED BY <1>1, <1>2, <1>3, <1>4, <1>5, <1>6, <1>7, <1>8
        DEF Next, MainThread, NoInsertWithoutLogin

\* The process dies of the insertion into an unbuilt map only where the empty
\* name is an account or no database is open.
THEOREM InsertionNeedsLogin == Spec => []NoInsertWithoutLogin
<1>1. Init => NoInsertWithoutLogin
  BY DEF Init, NoInsertWithoutLogin
<1> QED BY Inductive, InsertStep, <1>1, PTL DEF Spec
=============================================================================
