------------------------------- MODULE Pairing -------------------------------
(***************************************************************************)
(* What pairing promises, with no clients, descriptors, sessions or threads*)
(* in it.  A token is offered for an account of an application, at most    *)
(* one at a time; it is bound to an owner once, and the row that remembers *)
(* it stays.  AuthServer is shown to implement this.                       *)
(***************************************************************************)
CONSTANTS Tokens, Accounts, Owners

VARIABLES
    writable,   \* rows can be stored
    drawn,      \* the tokens used so far
    offers,     \* [token, account]: the pairings under way
    rows        \* [token, account, owner]: the pairings made

vars == <<writable, drawn, offers, rows>>

Init ==
    /\ writable \in BOOLEAN
    /\ drawn = {} /\ offers = {} /\ rows = {}

\* A new token, for an account that has no offer.
Offer(t, k) ==
    /\ t \notin drawn
    /\ \A o \in offers : o.account # k
    /\ offers' = offers \cup {[token |-> t, account |-> k]}
    /\ drawn' = drawn \cup {t}
    /\ UNCHANGED <<writable, rows>>

\* The offer becomes a row, if the account has none.
Bind(o, u) ==
    /\ writable
    /\ \A r \in rows : r.account # o.account
    /\ offers' = offers \ {o}
    /\ rows' = rows \cup {[token |-> o.token, account |-> o.account, owner |-> u]}
    /\ UNCHANGED <<writable, drawn>>

\* An offer is taken up where nothing can be stored.
Waste(o) ==
    /\ ~writable
    /\ offers' = offers \ {o}
    /\ UNCHANGED <<writable, drawn, rows>>

\* The server starts again: what was under way is lost, all of it.
Forget ==
    /\ offers' = {}
    /\ UNCHANGED <<writable, drawn, rows>>

Next ==
    \/ \E t \in Tokens, k \in Accounts : Offer(t, k)
    \/ \E o \in offers : Waste(o) \/ \E u \in Owners : Bind(o, u)
    \/ Forget

Spec == Init /\ [][Next]_vars
=============================================================================
