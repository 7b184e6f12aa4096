-------------------------- MODULE SessionLifecycle --------------------------
(***************************************************************************)
(* What the session store promises, independently of how the handlers of   *)
(* the authentication service are cut into database round trips:           *)
(*   - a session id is used once;                                          *)
(*   - a session that has been retired never comes back;                   *)
(*   - a session opened by rotating another one appears only after the     *)
(*     other one has been retired, so the two are never usable together.   *)
(***************************************************************************)
CONSTANTS
    Sids,       \* session ids
    NoSid       \* "no predecessor", not one of Sids

VARIABLES
    phase,      \* phase[s]: has s been opened, has it been retired
    parent      \* parent[s]: the session s was rotated from, or NoSid

vars == <<phase, parent>>

Init ==
    /\ phase = [s \in Sids |-> "unused"]
    /\ parent = [s \in Sids |-> NoSid]

(* A password sign-in opens a session that has no predecessor. *)
Open(s) ==
    /\ phase[s] = "unused"
    /\ phase' = [phase EXCEPT ![s] = "live"]
    /\ UNCHANGED parent

(* Rotation opens a session that takes the place of a retired one. *)
Succeed(s, p) ==
    /\ phase[s] = "unused"
    /\ phase[p] = "spent"
    /\ phase' = [phase EXCEPT ![s] = "live"]
    /\ parent' = [parent EXCEPT ![s] = p]

(* Sign-out, rotation, a password change or an administrator retires       *)
(* sessions, several of them in one statement.                             *)
Retire(S) ==
    /\ \A s \in S : phase[s] = "live"
    /\ phase' = [s \in Sids |-> IF s \in S THEN "spent" ELSE phase[s]]
    /\ UNCHANGED parent

Next ==
    \/ \E S \in SUBSET Sids : Retire(S)
    \/ \E s \in Sids : Open(s)
    \/ \E s, p \in Sids : Succeed(s, p)

Spec == Init /\ [][Next]_vars
=============================================================================
