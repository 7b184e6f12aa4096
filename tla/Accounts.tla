------------------------------ MODULE Accounts ------------------------------
(***************************************************************************)
(* Accounts: registration under an e-mail address, the tokens that verify  *)
(* an address or reset a password, and the administrator's switches.       *)
(*                                                                         *)
(* A token is read, its effect written and the token marked used in three  *)
(* statements; an address is looked up and then inserted.  Requests run in *)
(* slots, cut at those statements.  What a reset does to the sessions of   *)
(* the account, and the events handlers log, are in AuthSessions.          *)
(***************************************************************************)
EXTENDS Naturals

CONSTANTS
    Users,          \* ids a run may use: rows are never created twice
    Seeded,         \* the administrators that exist from the start
    Emails,
    Tokens,
    Requests,       \* request slots (bound on concurrent requests)
    None

ASSUME AccountsAssumption ==
    /\ Seeded \subseteq Users
    /\ None \notin Users \union Emails \union Tokens

VARIABLES
    account,    \* table users
    token,      \* tables email_verification_tokens and password_reset_tokens
    req,        \* the request slots
    \* History variables: no action reads them in a guard.
    applied,    \* tokens whose effect has been written
    marked,     \* marked[t]: the slots that have marked t used
    everOther   \* accounts that have had another role than ADMIN, or are gone

vars == <<account, token, req, applied, marked, everOther>>

-----------------------------------------------------------------------------
Statuses == {"unused", "present", "gone"}
\* Nothing here tells TEACHER from STUDENT.
Roles == {"STUDENT", "ADMIN"}
Purposes == {"verify", "reset"}

\* password: the reset token it was last set through, if any.
AccountRow == [status : Statuses, email : Emails \union {None},
               password : Tokens \union {None}, emailVerified : BOOLEAN,
               role : Roles, isBlocked : BOOLEAN]

TokenRow == [status : Statuses, purpose : Purposes, user : Users \union {None},
             used : BOOLEAN, expired : BOOLEAN]

NoAccount(status) ==
    [status |-> status, email |-> None, password |-> None,
     emailVerified |-> FALSE, role |-> "STUDENT", isBlocked |-> FALSE]

NoToken(status) == [status |-> status, purpose |-> "verify", user |-> None,
                    used |-> FALSE, expired |-> FALSE]

PCs == {"idle", "create", "issue", "apply", "mark", "block"}

RequestType ==
    [pc : PCs, email : Emails \union {None}, user : Users \union {None},
     token : Tokens \union {None}, purpose : Purposes]

Idle == [pc |-> "idle", email |-> None, user |-> None, token |-> None,
         purpose |-> "verify"]

Present(row) == row.status = "present"

SeedRow(e) == [NoAccount("present") EXCEPT !.email = e, !.role = "ADMIN"]

Init ==
    /\ \E mail \in [Seeded -> Emails] :
         /\ \A u, v \in Seeded : mail[u] = mail[v] => u = v
         /\ account = [u \in Users |-> IF u \in Seeded THEN SeedRow(mail[u])
                                       ELSE NoAccount("unused")]
    /\ token = [t \in Tokens |-> NoToken("unused")]
    /\ req = [r \in Requests |-> Idle]
    /\ applied = {}
    /\ marked = [t \in Tokens |-> {}]
    /\ everOther = Users \ Seeded

Go(r, slot) == req' = [req EXCEPT ![r] = slot]

Holders(e) == {u \in Users : Present(account[u]) /\ account[u].email = e}

-----------------------------------------------------------------------------
(* Registration, and requests for a reset. *)

\* register: the address is looked up.
LookupNew(r, e) ==
    /\ req[r].pc = "idle"
    /\ Holders(e) = {}
    /\ Go(r, [Idle EXCEPT !.pc = "create", !.email = e])
    /\ UNCHANGED <<account, token, applied, marked, everOther>>

\* Definitions named M_ are faults the runs are shown to notice: what the
\* definition after them would be if the code had that bug.

\* Without the unique index.
M_EmailUnindexed(e) == e \in Emails

\* What the schema asks of a new address.
EmailFree(e) == Holders(e) = {}

\* user.create: the row, or an error if the address has been taken meanwhile.
\* (Bound: a request waits, or fails, when the ids have been used.)
CreateAccount(r) ==
    LET e == req[r].email
    IN  /\ req[r].pc = "create"
        /\ \/ /\ EmailFree(e)
              /\ \E u \in Users :
                   /\ account[u].status = "unused"
                   /\ account' = [account EXCEPT ![u] =
                                    [NoAccount("present") EXCEPT !.email = e]]
                   /\ Go(r, [Idle EXCEPT !.pc = "issue", !.user = u])
           \/ ~EmailFree(e) /\ Go(r, Idle) /\ UNCHANGED account
        /\ UNCHANGED <<token, applied, marked, everOther>>

\* requestPasswordReset: the account is looked up.
LookupForReset(r, u) ==
    /\ req[r].pc = "idle"
    /\ Present(account[u])
    /\ Go(r, [Idle EXCEPT !.pc = "issue", !.user = u, !.purpose = "reset"])
    /\ UNCHANGED <<account, token, applied, marked, everOther>>

\* Issued under the address instead of the id.
M_Issued(r) == [NoToken("present") EXCEPT !.purpose = req[r].purpose,
                                          !.user = account[req[r].user].email]

Issued(r) == [NoToken("present") EXCEPT !.purpose = req[r].purpose,
                                        !.user = req[r].user]

\* The token of either handler: fails on its foreign key when the account is
\* gone.
IssueToken(r) ==
    /\ req[r].pc = "issue"
    /\ \/ /\ Present(account[req[r].user])
          /\ \E t \in Tokens : /\ token[t].status = "unused"
                               /\ token' = [token EXCEPT ![t] = Issued(r)]
       \/ ~Present(account[req[r].user]) /\ UNCHANGED token
    /\ Go(r, Idle)
    /\ UNCHANGED <<account, applied, marked, everOther>>

-----------------------------------------------------------------------------
(* Using a token: resetPassword and verifyEmail. *)

\* Whether it was used is not tested.
M_Unexpired(t) == Present(token[t]) /\ ~token[t].expired

Valid(t) == Present(token[t]) /\ ~token[t].used /\ ~token[t].expired

ReadToken(r, t) ==
    /\ req[r].pc = "idle"
    /\ Valid(t)
    /\ Go(r, [Idle EXCEPT !.pc = "apply", !.user = token[t].user, !.token = t,
                          !.purpose = token[t].purpose])
    /\ UNCHANGED <<account, token, applied, marked, everOther>>

\* A reset verifies the address as well.
M_ResetVerifies(r) ==
    LET u == req[r].user
    IN  /\ req[r].pc = "apply"
        /\ Present(account[u])
        /\ account' = [account EXCEPT
                          ![u].password = IF req[r].purpose = "reset"
                                          THEN req[r].token ELSE @,
                          ![u].emailVerified = TRUE]
        /\ applied' = applied \union {req[r].token}
        /\ Go(r, [req[r] EXCEPT !.pc = "mark"])
        /\ UNCHANGED <<token, marked, everOther>>

\* user.update; fails when the account is gone.
ApplyToken(r) ==
    LET t == req[r].token
        u == req[r].user
    IN  /\ req[r].pc = "apply"
        /\ \/ /\ Present(account[u])
              /\ account' = IF req[r].purpose = "reset"
                            THEN [account EXCEPT ![u].password = t]
                            ELSE [account EXCEPT ![u].emailVerified = TRUE]
              /\ applied' = applied \union {t}
              /\ Go(r, [req[r] EXCEPT !.pc = "mark"])
           \/ /\ ~Present(account[u])
              /\ Go(r, Idle)
              /\ UNCHANGED <<account, applied>>
        /\ UNCHANGED <<token, marked, everOther>>

\* The update of the token, by its id; fails when the row is gone.
MarkToken(r) ==
    LET t == req[r].token
    IN  /\ req[r].pc = "mark"
        /\ IF Present(token[t])
           THEN /\ token' = [token EXCEPT ![t].used = TRUE]
                /\ marked' = [marked EXCEPT ![t] = @ \union {r}]
           ELSE UNCHANGED <<token, marked>>
        /\ Go(r, Idle)
        /\ UNCHANGED <<account, applied, everOther>>

\* Time passes (the expiry of a used token makes no difference).
Expire(t) ==
    /\ Valid(t)
    /\ token' = [token EXCEPT ![t].expired = TRUE]
    /\ UNCHANGED <<account, req, applied, marked, everOther>>

-----------------------------------------------------------------------------
(* The administrator. *)

\* Anyone may be blocked.
M_Anyone(u) == Present(account[u])

MayBlock(u) == Present(account[u]) /\ account[u].role # "ADMIN"

\* blockUser: the row is read and its role tested.
ReadToBlock(r, u) ==
    /\ req[r].pc = "idle"
    /\ MayBlock(u)
    /\ Go(r, [Idle EXCEPT !.pc = "block", !.user = u])
    /\ UNCHANGED <<account, token, applied, marked, everOther>>

Block(r) ==
    LET u == req[r].user
    IN  /\ req[r].pc = "block"
        /\ account' = IF Present(account[u])
                      THEN [account EXCEPT ![u].isBlocked = TRUE] ELSE account
        /\ Go(r, Idle)
        /\ UNCHANGED <<token, applied, marked, everOther>>

Unblock(u) ==
    /\ Present(account[u]) /\ account[u].isBlocked
    /\ account' = [account EXCEPT ![u].isBlocked = FALSE]
    /\ UNCHANGED <<token, req, applied, marked, everOther>>

ChangeRole(u, role) ==
    /\ Present(account[u])
    /\ account' = [account EXCEPT ![u].role = role]
    /\ everOther' = IF role = "ADMIN" THEN everOther ELSE everOther \union {u}
    /\ UNCHANGED <<token, req, applied, marked>>

\* Tokens without onDelete: Cascade.
M_TokensStay(u) == UNCHANGED token

TokensCascade(u) ==
    token' = [t \in Tokens |-> IF token[t].user = u THEN NoToken("gone") ELSE token[t]]

DeleteUser(u) ==
    /\ Present(account[u])
    /\ account' = [account EXCEPT ![u] = NoAccount("gone")]
    /\ TokensCascade(u)
    /\ everOther' = everOther \union {u}
    /\ UNCHANGED <<req, applied, marked>>

\* A statement fails or the process stops: what is written stays.
Abort(r) ==
    /\ req[r].pc # "idle"
    /\ Go(r, Idle)
    /\ UNCHANGED <<account, token, applied, marked, everOther>>

-----------------------------------------------------------------------------
Register(r) == (\E e \in Emails : LookupNew(r, e)) \/ CreateAccount(r)

AuthController(r) ==
    \/ Register(r)
    \/ \E u \in Users : LookupForReset(r, u)
    \/ IssueToken(r)
    \/ \E t \in Tokens : ReadToken(r, t)
    \/ ApplyToken(r)
    \/ MarkToken(r)

UsersController(r) == (\E u \in Users : ReadToBlock(r, u)) \/ Block(r)

Next ==
    \/ \E r \in Requests : AuthController(r) \/ UsersController(r) \/ Abort(r)
    \/ \E t \in Tokens : Expire(t)
    \/ \E u \in Users :
         \/ Unblock(u)
         \/ \E role \in Roles : ChangeRole(u, role)
         \/ DeleteUser(u)

Spec == Init /\ [][Next]_vars

-----------------------------------------------------------------------------
TypeOK ==
    /\ account \in [Users -> AccountRow]
    /\ token \in [Tokens -> TokenRow]
    /\ req \in [Requests -> RequestType]
    /\ applied \subseteq Tokens
    /\ marked \in [Tokens -> SUBSET Requests]
    /\ everOther \subseteq Users

\* However many requests register an address at once, one account holds it:
\* the lookup cannot see to it, the unique index does.
OneAccountPerEmail ==
    \A u, v \in Users :
        /\ Present(account[u]) /\ Present(account[v])
        /\ account[u].email = account[v].email
        => u = v

\* A used token has done its work, wherever a handler stopped and whatever ran
\* beside it: the account a spent verification token belongs to exists and is
\* verified, and a spent reset token has set a password.  A request that stops
\* halfway leaves a token its owner can use again.
UsedTookEffect ==
    \A t \in Tokens :
        Present(token[t]) /\ token[t].used =>
          /\ t \in applied
          /\ token[t].user \in Users
          /\ Present(account[token[t].user])
          /\ token[t].purpose = "verify" => account[token[t].user].emailVerified

\* The password of an account was last set through a token issued to that
\* account, and its address verified through one.
OwnTokensOnly ==
    \A u \in Users : Present(account[u]) =>
        /\ LET t == account[u].password
           IN  t # None => /\ Present(token[t]) /\ token[t].purpose = "reset"
                           /\ token[t].user = u
        /\ account[u].emailVerified =>
             \E t \in applied : /\ Present(token[t]) /\ token[t].purpose = "verify"
                                /\ token[t].user = u

\* A request that has used a token up cannot come by it again.  So a token
\* nothing fails with is used once, and once more for each request that had read
\* it by then: two resets with one token may both succeed, a third sent after
\* either of them may not.
OneUsePerSlot ==
    \A r \in Requests, t \in Tokens :
        r \in marked[t] => ~(req[r].pc \in {"apply", "mark"} /\ req[r].token = t)

\* An account that has been an administrator all along is never blocked, even
\* if the block was read and written around changes of its role.  (One that is
\* promoted between the two statements is.)
LastingAdminUnblocked ==
    \A u \in Users \ everOther : Present(account[u]) => ~account[u].isBlocked
=============================================================================
