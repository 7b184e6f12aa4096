------------------------------- MODULE Calls -------------------------------
(***************************************************************************)
(* What the gateway promises about calls, in terms of people, without the  *)
(* sockets, maps and handshakes it keeps it with:                          *)
(*   - people enter one at a time, by invitation, once each, while there   *)
(*     is room;                                                            *)
(*   - a step takes at most one person out of a call;                      *)
(*   - a call ends with its last member and is never taken up again.       *)
(***************************************************************************)
EXTENDS Naturals, FiniteSets

CONSTANTS Users, Rooms, PairLimit, GroupLimit

VARIABLES
    phase,      \* phase[R]: has the call R begun, has it ended
    terms,      \* terms[R]: on which terms it began
    members     \* members[R]: who is in it

vars == <<phase, terms, members>>

Terms == [host : Users, guests : SUBSET Users, isGroup : BOOLEAN]

Invited(R) == terms[R].guests \union {terms[R].host}

Limit(R) == IF terms[R].isGroup THEN GroupLimit ELSE PairLimit

Init == \A R \in Rooms : phase[R] = "unused" /\ members[R] = {}

Open(R) ==
    /\ phase[R] = "unused"
    /\ phase' = [phase EXCEPT ![R] = "open"]
    /\ \E t \in Terms : terms' = [terms EXCEPT ![R] = t]
    /\ UNCHANGED members

Enter(R, u) ==
    /\ phase[R] = "open"
    /\ u \in Invited(R) \ members[R]
    /\ Cardinality(members[R]) < Limit(R)
    /\ members' = [members EXCEPT ![R] = @ \union {u}]
    /\ UNCHANGED <<phase, terms>>

Leave(R, u) ==
    /\ u \in members[R]
    /\ members[R] # {u}
    /\ members' = [members EXCEPT ![R] = @ \ {u}]
    /\ UNCHANGED <<phase, terms>>

(* The last member leaves, or a call nobody has entered is given up.       *)
End(R) ==
    /\ phase[R] = "open"
    /\ \E u \in Users : members[R] \subseteq {u}
    /\ phase' = [phase EXCEPT ![R] = "deleted"]
    /\ members' = [members EXCEPT ![R] = {}]
    /\ UNCHANGED terms

Next ==
    \E R \in Rooms :
        \/ Open(R)
        \/ \E u \in Users : Enter(R, u) \/ Leave(R, u)
        \/ End(R)

Spec == Init /\ [][Next]_vars
=============================================================================
