---------------------------- MODULE Notification ----------------------------
(***************************************************************************)
(* What a login notification promises, with no descriptors, sessions or    *)
(* clients in it.  A Dummy Server that is present asks about an account    *)
(* that is paired; the request is answered once or forgotten, and the      *)
(* verdict goes to the one that asked for as long as it is present.        *)
(* AuthServer is shown to implement this.                                  *)
(***************************************************************************)
CONSTANTS Requests, Users, Sites, Askers

VARIABLES
    present,    \* the askers there are
    paired,     \* the accounts <<user, site>> that can be asked about
    used,       \* the request ids used so far
    asked,      \* [id, user, site, asker]: the requests under way
    told        \* [id, user, to]: what the last step answered

vars == <<present, paired, used, asked, told>>

Init == present = {} /\ paired = {} /\ used = {} /\ asked = {} /\ told = {}

Come(a) ==
    /\ present' = present \cup {a} /\ told' = {}
    /\ UNCHANGED <<paired, used, asked>>

\* What it asked for stays.
Leave(a) ==
    /\ present' = present \ {a} /\ told' = {}
    /\ UNCHANGED <<paired, used, asked>>

Pair(u, s) ==
    /\ paired' = paired \cup {<<u, s>>} /\ told' = {}
    /\ UNCHANGED <<present, used, asked>>

\* A new request, about an account that is paired.
Ask(r, u, s, a) ==
    /\ r \notin used /\ <<u, s>> \in paired /\ a \in present
    /\ asked' = asked \cup {[id |-> r, user |-> u, site |-> s, asker |-> a]}
    /\ used' = used \cup {r}
    /\ told' = {}
    /\ UNCHANGED <<present, paired>>

Tell(q, a) == told' = {[id |-> q.id, user |-> q.user, to |-> a]}

\* The verdict of a request whose asker has left reaches nobody, or whoever
\* has taken its place.
Answer(q) ==
    /\ \/ q.asker \in present /\ Tell(q, q.asker)
       \/ /\ q.asker \notin present
          /\ told' = {} \/ \E a \in present : Tell(q, a)
    /\ asked' = asked \ {q}
    /\ UNCHANGED <<present, paired, used>>

\* The server starts again: everybody is disconnected, every request is lost.
Forget ==
    /\ present' = {} /\ asked' = {} /\ told' = {}
    /\ UNCHANGED <<paired, used>>

Quiet == told' = {} /\ UNCHANGED <<present, paired, used, asked>>

Next ==
    \/ Quiet
    \/ \E a \in Askers : Come(a) \/ Leave(a)
    \/ \E u \in Users, s \in Sites : Pair(u, s)
    \/ \E r \in Requests, u \in Users, s \in Sites, a \in Askers : Ask(r, u, s, a)
    \/ \E q \in asked : Answer(q)
    \/ Forget

Spec == Init /\ [][Next]_vars
=============================================================================
