--------------------------- MODULE Accounts_proofs ---------------------------
(* Proofs about Accounts, for every value of its constants. *)
EXTENDS Accounts, TLAPS

-----------------------------------------------------------------------------
(* Types, with what a slot carries at each of its statements.              *)

SlotOK(q) ==
    /\ q.pc = "create" => q.email \in Emails
    /\ q.pc \in {"issue", "apply", "mark", "block"} => q.user \in Users
    /\ q.pc \in {"apply", "mark"} => q.token \in Tokens

Typed ==
    /\ TypeOK
    /\ \A r \in Requests : SlotOK(req[r])
    /\ \A t \in Tokens : Present(token[t]) => token[t].user \in Users

(* What ties a token to its account, and a request to the token it read:   *)
(* the token cannot go while the account it was read for is there.         *)

TokenFacts(t) ==
    /\ token[t].status = "unused" => t \notin applied /\ marked[t] = {}
    /\ Present(token[t]) =>
         /\ Present(account[token[t].user])
         /\ token[t].used => t \in applied
         /\ marked[t] # {} => token[t].used
         /\ t \in applied /\ token[t].purpose = "verify" =>
              account[token[t].user].emailVerified

ReaderFacts(r) ==
    LET t == req[r].token
        u == req[r].user
    IN  req[r].pc \in {"apply", "mark"} =>
          /\ account[u].status # "unused"
          /\ Present(account[u]) => Present(token[t])
          /\ Present(token[t]) => token[t].user = u /\ token[t].purpose = req[r].purpose
          /\ token[t].status # "unused"
          /\ req[r].pc = "mark" => t \in applied
          /\ r \notin marked[t]

\* One account's part of OwnTokensOnly.
OwnTokens(u) ==
    Present(account[u]) =>
      /\ LET t == account[u].password
         IN  t # None => /\ Present(token[t]) /\ token[t].purpose = "reset"
                         /\ token[t].user = u
      /\ account[u].emailVerified =>
           \E t \in applied : /\ Present(token[t]) /\ token[t].purpose = "verify"
                              /\ token[t].user = u

TokensInv ==
    /\ \A t \in Tokens : TokenFacts(t)
    /\ \A r \in Requests : ReaderFacts(r)
    /\ \A u \in Users : OwnTokens(u)

(* Who has been an administrator all along still is one, so that no slot   *)
(* is on the way to blocking that account.                                 *)

AdminInv ==
    /\ \A u \in Users \ everOther :
         /\ account[u].status # "unused"
         /\ Present(account[u]) => account[u].role = "ADMIN" /\ ~account[u].isBlocked
    /\ \A r \in Requests : req[r].pc = "block" => req[r].user \in everOther

-----------------------------------------------------------------------------
LEMMA IdleSlot == Idle \in RequestType /\ SlotOK(Idle) /\ Idle.pc = "idle"
  BY DEF Idle, RequestType, PCs, SlotOK, Purposes

LEMMA EmptyRows ==
  ASSUME NEW status \in Statuses
  PROVE  /\ NoAccount(status) \in AccountRow /\ NoAccount(status).status = status
         /\ NoToken(status) \in TokenRow /\ NoToken(status).status = status
  BY DEF NoAccount, NoToken, AccountRow, TokenRow, Roles, Purposes

\* A step that puts a well-formed record into one slot.
LEMMA SlotStep ==
  ASSUME req \in [Requests -> RequestType], \A s \in Requests : SlotOK(req[s]),
         NEW r \in Requests, NEW q \in RequestType, SlotOK(q), Go(r, q)
  PROVE  /\ req' \in [Requests -> RequestType]
         /\ \A s \in Requests : SlotOK(req[s])'
         /\ req'[r] = q
         /\ \A s \in Requests : s # r => req'[s] = req[s]
  BY DEF Go, SlotOK

LEMMA CreateSlot ==
  ASSUME NEW r \in Requests, CreateAccount(r)
  PROVE  \E q : Go(r, q) /\ q.pc \in {"idle", "issue"}
<1>1. Idle.pc = "idle"
  BY DEF Idle
<1>2. \A u : [Idle EXCEPT !.pc = "issue", !.user = u].pc = "issue"
  BY DEF Idle
<1>3. CASE Go(r, Idle)
  BY <1>1, <1>3
<1>4. CASE \E u \in Users : Go(r, [Idle EXCEPT !.pc = "issue", !.user = u])
  BY <1>2, <1>4
<1> QED BY <1>3, <1>4 DEF CreateAccount

-----------------------------------------------------------------------------
LEMMA InitTyped == Init => Typed
<1> SUFFICES ASSUME Init PROVE Typed
  OBVIOUS
<1>0. "unused" \in Statuses /\ "unused" # "present"
  BY DEF Statuses
<1>1. \A e \in Emails : SeedRow(e) \in AccountRow
  BY EmptyRows DEF SeedRow, NoAccount, AccountRow, Statuses, Roles
<1>2. account \in [Users -> AccountRow] /\ token \in [Tokens -> TokenRow]
  BY <1>0, <1>1, EmptyRows, AccountsAssumption DEF Init
<1>3. \A t \in Tokens : ~Present(token[t])
  BY <1>0, EmptyRows DEF Init, Present
<1> QED BY <1>2, <1>3, IdleSlot, AccountsAssumption DEF Init, Typed, TypeOK

LEMMA NextTyped == Typed /\ [Next]_vars => Typed'
<1> SUFFICES ASSUME Typed, [Next]_vars PROVE Typed'
  OBVIOUS
<1> USE DEF Typed, TypeOK
<1> USE DEF Present
<1>0. /\ "present" \in Statuses /\ "gone" \in Statuses /\ "gone" # "present"
      /\ \A t \in Tokens : token[t] \in TokenRow
      /\ \A u \in Users : account[u] \in AccountRow
  BY DEF Statuses
<1>1. ASSUME NEW r \in Requests, NEW e \in Emails, LookupNew(r, e) PROVE Typed'
  <2> DEFINE q == [Idle EXCEPT !.pc = "create", !.email = e]
  <2>1. q \in RequestType /\ SlotOK(q)
    BY DEF Idle, RequestType, PCs, SlotOK, Purposes
  <2> QED BY <1>1, <2>1, SlotStep DEF LookupNew
<1>2. ASSUME NEW r \in Requests, CreateAccount(r) PROVE Typed'
  <2>1. req[r].email \in Emails
    BY <1>2 DEF CreateAccount, SlotOK
  <2>2. [NoAccount("present") EXCEPT !.email = req[r].email] \in AccountRow
    BY <2>1, <1>0, EmptyRows DEF NoAccount, AccountRow
  <2>3. ASSUME NEW u \in Users
        PROVE  LET q == [Idle EXCEPT !.pc = "issue", !.user = u]
               IN  q \in RequestType /\ SlotOK(q)
    BY DEF Idle, RequestType, PCs, SlotOK, Purposes
  <2> QED BY <1>2, <2>2, <2>3, IdleSlot, SlotStep DEF CreateAccount
<1>3. ASSUME NEW r \in Requests, NEW u \in Users, LookupForReset(r, u) PROVE Typed'
  <2> DEFINE q == [Idle EXCEPT !.pc = "issue", !.user = u, !.purpose = "reset"]
  <2>1. q \in RequestType /\ SlotOK(q)
    BY DEF Idle, RequestType, PCs, SlotOK, Purposes
  <2> QED BY <1>3, <2>1, SlotStep DEF LookupForReset
<1>4. ASSUME NEW r \in Requests, IssueToken(r) PROVE Typed'
  <2>1. Issued(r) \in TokenRow
    BY <1>4, <1>0 DEF IssueToken, Issued, NoToken, TokenRow, SlotOK, RequestType
  <2>2. /\ token' \in [Tokens -> TokenRow]
        /\ \A t \in Tokens : Present(token[t])' => token'[t].user \in Users
    BY <1>4, <2>1 DEF IssueToken, Issued, NoToken, SlotOK
  <2> QED BY <1>4, <2>2, IdleSlot, SlotStep DEF IssueToken
<1>5. ASSUME NEW r \in Requests, NEW t \in Tokens, ReadToken(r, t) PROVE Typed'
  <2> DEFINE q == [Idle EXCEPT !.pc = "apply", !.user = token[t].user, !.token = t,
                               !.purpose = token[t].purpose]
  <2>1. q \in RequestType /\ SlotOK(q)
    BY <1>0, <1>5 DEF ReadToken, Valid, Idle, RequestType, PCs, SlotOK, Purposes, TokenRow
  <2> QED BY <1>5, <2>1, SlotStep DEF ReadToken
<1>6. ASSUME NEW r \in Requests, ApplyToken(r) PROVE Typed'
  <2> DEFINE t == req[r].token
             u == req[r].user
             q == [req[r] EXCEPT !.pc = "mark"]
  <2>1. u \in Users /\ t \in Tokens
    BY <1>6 DEF ApplyToken, SlotOK
  <2>2. q \in RequestType /\ SlotOK(q)
    BY <1>6, <2>1 DEF RequestType, PCs, SlotOK
  <2>3. /\ [account[u] EXCEPT !.password = t] \in AccountRow
        /\ [account[u] EXCEPT !.emailVerified = TRUE] \in AccountRow
    BY <1>0, <2>1 DEF AccountRow
  <2>4. account' \in [Users -> AccountRow] /\ applied' \subseteq Tokens
    BY <1>6, <2>1, <2>3 DEF ApplyToken
  <2> QED BY <1>6, <2>2, <2>4, IdleSlot, SlotStep DEF ApplyToken
<1>7. ASSUME NEW r \in Requests, MarkToken(r) PROVE Typed'
  <2> DEFINE t == req[r].token
  <2>1. t \in Tokens
    BY <1>7 DEF MarkToken, SlotOK
  <2>2. [token[t] EXCEPT !.used = TRUE] \in TokenRow
    BY <1>0, <2>1 DEF TokenRow
  <2>3. /\ token' \in [Tokens -> TokenRow]
        /\ marked' \in [Tokens -> SUBSET Requests]
        /\ \A k \in Tokens : Present(token[k])' => token'[k].user \in Users
    BY <1>0, <1>7, <2>1, <2>2 DEF MarkToken, TokenRow
  <2> QED BY <1>7, <2>3, IdleSlot, SlotStep DEF MarkToken
<1>8. ASSUME NEW r \in Requests, NEW u \in Users, ReadToBlock(r, u) PROVE Typed'
  <2> DEFINE q == [Idle EXCEPT !.pc = "block", !.user = u]
  <2>1. q \in RequestType /\ SlotOK(q)
    BY DEF Idle, RequestType, PCs, SlotOK, Purposes
  <2> QED BY <1>8, <2>1, SlotStep DEF ReadToBlock
<1>9. ASSUME NEW r \in Requests, Block(r) PROVE Typed'
  <2> DEFINE u == req[r].user
  <2>1. u \in Users
    BY <1>9 DEF Block, SlotOK
  <2>2. [account[u] EXCEPT !.isBlocked = TRUE] \in AccountRow
    BY <1>0, <2>1 DEF AccountRow
  <2>3. account' \in [Users -> AccountRow]
    BY <1>9, <2>1, <2>2 DEF Block
  <2> QED BY <1>9, <2>3, IdleSlot, SlotStep DEF Block
<1>10. ASSUME NEW r \in Requests, Abort(r) PROVE Typed'
  BY <1>10, IdleSlot, SlotStep DEF Abort
<1>11. ASSUME NEW t \in Tokens, Expire(t) PROVE Typed'
  <2>1. [token[t] EXCEPT !.expired = TRUE] \in TokenRow
    BY <1>0 DEF TokenRow
  <2>2. /\ token' \in [Tokens -> TokenRow]
        /\ \A k \in Tokens : Present(token[k])' => token'[k].user \in Users
    BY <1>0, <1>11, <2>1 DEF Expire, TokenRow
  <2> QED BY <1>11, <2>2 DEF Expire
<1>12. ASSUME NEW u \in Users, Unblock(u) PROVE Typed'
  <2>1. [account[u] EXCEPT !.isBlocked = FALSE] \in AccountRow
    BY <1>0 DEF AccountRow
  <2> QED BY <1>12, <2>1 DEF Unblock
<1>13. ASSUME NEW u \in Users, NEW role \in Roles, ChangeRole(u, role) PROVE Typed'
  <2>1. [account[u] EXCEPT !.role = role] \in AccountRow
    BY <1>0 DEF AccountRow
  <2> QED BY <1>13, <2>1 DEF ChangeRole
<1>14. ASSUME NEW u \in Users, DeleteUser(u) PROVE Typed'
  <2>1. account' \in [Users -> AccountRow]
    BY <1>0, <1>14, EmptyRows DEF DeleteUser
  <2>2. /\ token' \in [Tokens -> TokenRow]
        /\ \A t \in Tokens : Present(token[t])' => token'[t].user \in Users
    BY <1>0, <1>14, EmptyRows DEF DeleteUser, TokensCascade
  <2> QED BY <1>14, <2>1, <2>2 DEF DeleteUser
<1>15. CASE UNCHANGED vars
  BY <1>15 DEF vars
<1> QED BY <1>1, <1>2, <1>3, <1>4, <1>5, <1>6, <1>7, <1>8, <1>9, <1>10, <1>11,
           <1>12, <1>13, <1>14, <1>15 DEF Next, AuthController, Register, UsersController

-----------------------------------------------------------------------------
LEMMA InitTokens == Init => TokensInv
<1> SUFFICES ASSUME Init PROVE TokensInv
  OBVIOUS
<1>1. \A t \in Tokens : token[t].status = "unused" /\ t \notin applied /\ marked[t] = {}
  BY DEF Init, NoToken
<1>2. \A u \in Users : Present(account[u]) =>
        account[u].password = None /\ ~account[u].emailVerified
  <2>1. PICK mail \in [Seeded -> Emails] :
          account = [u \in Users |-> IF u \in Seeded THEN SeedRow(mail[u])
                                     ELSE NoAccount("unused")]
    BY DEF Init
  <2>2. ASSUME NEW u \in Seeded
        PROVE  SeedRow(mail[u]).password = None /\ ~SeedRow(mail[u]).emailVerified
    BY DEF SeedRow, NoAccount
  <2>3. NoAccount("unused").status # "present"
    BY DEF NoAccount
  <2> QED BY <2>1, <2>2, <2>3 DEF Present
<1>3. \A r \in Requests : req[r].pc = "idle"
  BY DEF Init, Idle
<1> QED BY <1>1, <1>2, <1>3 DEF TokensInv, TokenFacts, ReaderFacts, OwnTokens, Present

\* A step that leaves alone the tokens, and of the accounts what tokens write,
\* and starts no reader of a token.
LEMMA TokensFrame ==
  ASSUME TokensInv, UNCHANGED <<token, applied, marked>>,
         \A u \in Users : /\ account'[u].status = account[u].status
                          /\ account'[u].password = account[u].password
                          /\ account'[u].emailVerified = account[u].emailVerified,
         \A t \in Tokens : Present(token[t]) => token[t].user \in Users,
         \A r \in Requests : SlotOK(req[r]),
         \A r \in Requests : req'[r] = req[r] \/ req'[r].pc \notin {"apply", "mark"}
  PROVE  TokensInv'
<1>1. \A t \in Tokens : TokenFacts(t)'
  BY DEF TokensInv, TokenFacts, Present
<1>2. ASSUME NEW r \in Requests, req'[r].pc \in {"apply", "mark"} PROVE ReaderFacts(r)'
  <2>1. req'[r] = req[r] /\ req[r].user \in Users
    BY <1>2 DEF SlotOK
  <2> QED BY <1>2, <2>1 DEF TokensInv, ReaderFacts, Present
<1>3. \A u \in Users : OwnTokens(u)'
  BY DEF TokensInv, OwnTokens, Present
<1> QED BY <1>1, <1>2, <1>3 DEF TokensInv, ReaderFacts

LEMMA NextTokens == Typed /\ TokensInv /\ [Next]_vars => TokensInv'
<1> SUFFICES ASSUME Typed, TokensInv, [Next]_vars PROVE TokensInv'
  OBVIOUS
<1> USE DEF Typed, TypeOK, Present
<1>0. /\ \A t \in Tokens : token[t] \in TokenRow
      /\ \A u \in Users : account[u] \in AccountRow
  OBVIOUS
<1>1. ASSUME NEW r \in Requests, NEW e \in Emails, LookupNew(r, e) PROVE TokensInv'
  BY <1>1, TokensFrame DEF LookupNew, Go, Idle
<1>2. ASSUME NEW r \in Requests, CreateAccount(r) PROVE TokensInv'
  <2>0. \A s \in Requests : req'[s] = req[s] \/ req'[s].pc \notin {"apply", "mark"}
    <3>1. PICK q : Go(r, q) /\ q.pc \in {"idle", "issue"}
      BY <1>2, CreateSlot
    <3> QED BY <3>1 DEF Go
  <2>1. CASE UNCHANGED account
    BY <1>2, <2>0, <2>1, TokensFrame DEF CreateAccount
  <2>2. ASSUME NEW v \in Users, account[v].status = "unused",
               account' = [account EXCEPT ![v] =
                             [NoAccount("present") EXCEPT !.email = req[r].email]],
               Go(r, [Idle EXCEPT !.pc = "issue", !.user = v])
        PROVE  TokensInv'
    <3>1. /\ account'[v].status = "present" /\ account'[v].password = None
          /\ ~account'[v].emailVerified
          /\ \A u \in Users : u # v => account'[u] = account[u]
      BY <2>2 DEF NoAccount
    <3>2. UNCHANGED <<token, applied, marked>>
      BY <1>2 DEF CreateAccount
    <3>3. \A t \in Tokens : TokenFacts(t)'
      BY <2>2, <3>1, <3>2 DEF TokensInv, TokenFacts
    <3>4. ASSUME NEW s \in Requests, req'[s].pc \in {"apply", "mark"}
          PROVE  ReaderFacts(s)'
      <4>1. req'[s] = req[s] /\ req[s].user \in Users
        BY <2>0, <3>4 DEF SlotOK
      <4>2. account[req[s].user].status # "unused"
        BY <3>4, <4>1 DEF TokensInv, ReaderFacts
      <4>3. account'[req[s].user] = account[req[s].user]
        BY <2>2, <3>1, <4>1, <4>2
      <4> QED BY <3>2, <3>4, <4>1, <4>3 DEF TokensInv, ReaderFacts
    <3>5. \A u \in Users : OwnTokens(u)'
      BY <3>1, <3>2 DEF TokensInv, OwnTokens
    <3> QED BY <3>3, <3>4, <3>5 DEF TokensInv, ReaderFacts
  <2> QED BY <1>2, <2>1, <2>2 DEF CreateAccount
<1>3. ASSUME NEW r \in Requests, NEW u \in Users, LookupForReset(r, u) PROVE TokensInv'
  <2>1. \A s \in Requests : req'[s] = req[s] \/ req'[s].pc \notin {"apply", "mark"}
    BY <1>3 DEF LookupForReset, Go, Idle
  <2> QED BY <1>3, <2>1, TokensFrame DEF LookupForReset
<1>4. ASSUME NEW r \in Requests, IssueToken(r) PROVE TokensInv'
  <2>0. \A s \in Requests : req'[s] = req[s] \/ req'[s].pc \notin {"apply", "mark"}
    BY <1>4 DEF IssueToken, Go, Idle
  <2>1. CASE UNCHANGED token
    BY <1>4, <2>0, <2>1, TokensFrame DEF IssueToken
  <2>2. ASSUME NEW t \in Tokens, token[t].status = "unused",
               Present(account[req[r].user]),
               token' = [token EXCEPT ![t] = Issued(r)]
        PROVE  TokensInv'
    <3>1. /\ token'[t].status = "present" /\ token'[t].user = req[r].user
          /\ ~token'[t].used
          /\ \A k \in Tokens : k # t => token'[k] = token[k]
      BY <2>2 DEF Issued, NoToken
    <3>2. UNCHANGED <<account, applied, marked>>
      BY <1>4 DEF IssueToken
    <3>3. t \notin applied /\ marked[t] = {}
      BY <2>2 DEF TokensInv, TokenFacts
    <3>4. \A k \in Tokens : TokenFacts(k)'
      BY <2>2, <3>1, <3>2, <3>3 DEF TokensInv, TokenFacts
    <3>5. ASSUME NEW s \in Requests, req'[s].pc \in {"apply", "mark"}
          PROVE  ReaderFacts(s)'
      <4>1. req'[s] = req[s] /\ req[s].token \in Tokens
        BY <2>0, <3>5 DEF SlotOK
      <4>2. req[s].token # t
        BY <2>2, <3>5, <4>1 DEF TokensInv, ReaderFacts
      <4> QED BY <3>1, <3>2, <3>5, <4>1, <4>2 DEF TokensInv, ReaderFacts
    <3>6. ASSUME NEW v \in Users PROVE OwnTokens(v)'
      BY <2>2, <3>1, <3>2, <3>3 DEF TokensInv, OwnTokens, AccountRow
    <3> QED BY <3>4, <3>5, <3>6 DEF TokensInv, ReaderFacts
  <2> QED BY <1>4, <2>1, <2>2 DEF IssueToken
<1>5. ASSUME NEW r \in Requests, NEW t \in Tokens, ReadToken(r, t) PROVE TokensInv'
  <2>1. UNCHANGED <<account, token, applied, marked>>
    BY <1>5 DEF ReadToken
  <2>2. /\ req'[r].pc = "apply" /\ req'[r].token = t
        /\ req'[r].user = token[t].user /\ req'[r].purpose = token[t].purpose
        /\ \A s \in Requests : s # r => req'[s] = req[s]
    BY <1>5 DEF ReadToken, Go, Idle
  <2>3. Present(token[t]) /\ marked[t] = {} /\ Present(account[token[t].user])
    BY <1>5 DEF ReadToken, Valid, TokensInv, TokenFacts
  <2>4. ReaderFacts(r)'
    BY <2>1, <2>2, <2>3 DEF ReaderFacts
  <2>5. ASSUME NEW s \in Requests, s # r PROVE ReaderFacts(s)'
    BY <2>1, <2>2, <2>5 DEF TokensInv, ReaderFacts
  <2>6. \A k \in Tokens : TokenFacts(k)'
    BY <2>1 DEF TokensInv, TokenFacts
  <2>7. \A u \in Users : OwnTokens(u)'
    BY <2>1 DEF TokensInv, OwnTokens
  <2> QED BY <2>4, <2>5, <2>6, <2>7 DEF TokensInv
<1>6. ASSUME NEW r \in Requests, ApplyToken(r) PROVE TokensInv'
  <2> DEFINE t == req[r].token
             u == req[r].user
  <2>0. u \in Users /\ t \in Tokens
    BY <1>6 DEF ApplyToken, SlotOK
  <2>1. CASE ~Present(account[u])
    <3>1. \A s \in Requests : req'[s] = req[s] \/ req'[s].pc \notin {"apply", "mark"}
      BY <1>6, <2>1 DEF ApplyToken, Go, Idle
    <3>2. UNCHANGED <<account, token, applied, marked>>
      BY <1>6, <2>1 DEF ApplyToken
    <3> QED BY <3>1, <3>2, TokensFrame
  <2>2. CASE Present(account[u])
    <3>1. /\ UNCHANGED <<token, marked>>
          /\ applied' = applied \union {t}
          /\ Go(r, [req[r] EXCEPT !.pc = "mark"])
          /\ \A v \in Users : v # u => account'[v] = account[v]
          /\ account'[u] = IF req[r].purpose = "reset"
                           THEN [account[u] EXCEPT !.password = t]
                           ELSE [account[u] EXCEPT !.emailVerified = TRUE]
      BY <1>6, <2>0, <2>2 DEF ApplyToken
    <3>2. /\ Present(token[t]) /\ token[t].user = u
          /\ token[t].purpose = req[r].purpose /\ r \notin marked[t]
      BY <1>6, <2>2 DEF ApplyToken, TokensInv, ReaderFacts
    <3>3. /\ account'[u].status = account[u].status
          /\ account'[u].password = IF req[r].purpose = "reset" THEN t
                                    ELSE account[u].password
          /\ account'[u].emailVerified = (req[r].purpose # "reset"
                                            \/ account[u].emailVerified)
      BY <1>0, <2>0, <3>1 DEF AccountRow
    <3>4. \A v \in Users : account'[v].status = account[v].status
      BY <3>1, <3>3
    <3>5. ASSUME NEW k \in Tokens PROVE TokenFacts(k)'
      <4>1. Present(token[k]) => token[k].user \in Users
        OBVIOUS
      <4>2. CASE k # t
        BY <3>1, <3>3, <3>4, <4>1, <4>2 DEF TokensInv, TokenFacts
      <4>3. CASE k = t
        BY <2>2, <3>1, <3>2, <3>3, <3>4, <4>3 DEF TokensInv, TokenFacts
      <4> QED BY <4>2, <4>3
    <3>6. /\ req'[r] = [req[r] EXCEPT !.pc = "mark"]
          /\ req'[r].pc = "mark" /\ req'[r].token = t /\ req'[r].user = u
          /\ req'[r].purpose = req[r].purpose
          /\ \A s \in Requests : s # r => req'[s] = req[s]
      BY <3>1 DEF Go, RequestType
    <3>7. ReaderFacts(r)'
      BY <2>0, <2>2, <3>1, <3>2, <3>4, <3>6 DEF ReaderFacts
    <3>8. ASSUME NEW s \in Requests, s # r PROVE ReaderFacts(s)'
      <4>1. req'[s] = req[s] /\ (req[s].pc \in {"apply", "mark"} => req[s].user \in Users)
        BY <3>6, <3>8 DEF SlotOK
      <4> QED BY <3>1, <3>4, <4>1 DEF TokensInv, ReaderFacts
    <3>9. ASSUME NEW v \in Users PROVE OwnTokens(v)'
      <4>1. CASE v # u
        BY <3>1, <4>1 DEF TokensInv, OwnTokens
      <4>2. CASE v = u
        <5>1. OwnTokens(u) /\ t \in applied' /\ applied \subseteq applied'
          BY <2>0, <3>1 DEF TokensInv
        <5>2. CASE req[r].purpose = "reset"
          BY <2>2, <3>1, <3>2, <3>3, <4>2, <5>1, <5>2 DEF OwnTokens
        <5>3. CASE req[r].purpose # "reset"
          <6>1. token[t].purpose = "verify"
            BY <2>0, <3>2, <5>3, <1>0 DEF TokenRow, Purposes
          <6> QED BY <2>2, <3>1, <3>2, <3>3, <4>2, <5>1, <5>3, <6>1 DEF OwnTokens
        <5> QED BY <5>2, <5>3
      <4> QED BY <4>1, <4>2
    <3> QED BY <3>5, <3>7, <3>8, <3>9 DEF TokensInv
  <2> QED BY <2>1, <2>2
<1>7. ASSUME NEW r \in Requests, MarkToken(r) PROVE TokensInv'
  <2> DEFINE t == req[r].token
  <2>0. t \in Tokens /\ UNCHANGED <<account, applied>>
    BY <1>7 DEF MarkToken, SlotOK
  <2>1. /\ req'[r].pc = "idle"
        /\ \A s \in Requests : s # r => req'[s] = req[s]
    BY <1>7 DEF MarkToken, Go, Idle
  <2>2. CASE ~Present(token[t])
    BY <1>7, <2>0, <2>1, <2>2, TokensFrame DEF MarkToken
  <2>3. CASE Present(token[t])
    <3>1. /\ token' = [token EXCEPT ![t].used = TRUE]
          /\ marked' = [marked EXCEPT ![t] = @ \union {r}]
          /\ t \in applied
      BY <1>7, <2>3 DEF MarkToken, TokensInv, ReaderFacts
    <3>2. \A k \in Tokens : /\ token'[k].status = token[k].status
                             /\ token'[k].user = token[k].user
                             /\ token'[k].purpose = token[k].purpose
                             /\ token'[k].used = (k = t \/ token[k].used)
      BY <1>0, <2>0, <3>1 DEF TokenRow
    <3>3. \A k \in Tokens : k # t => marked'[k] = marked[k]
      BY <2>0, <3>1
    <3>4. \A k \in Tokens : TokenFacts(k)'
      BY <2>0, <2>3, <3>1, <3>2, <3>3 DEF TokensInv, TokenFacts
    <3>5. ASSUME NEW s \in Requests PROVE ReaderFacts(s)'
      <4>1. CASE s = r
        BY <2>1, <4>1 DEF ReaderFacts
      <4>2. CASE s # r
        <5>1. /\ req'[s] = req[s]
              /\ req[s].pc \in {"apply", "mark"} => req[s].token \in Tokens
          BY <2>1, <4>2 DEF SlotOK
        <5>2. req[s].pc \in {"apply", "mark"} =>
                (s \in marked'[req[s].token] <=> s \in marked[req[s].token])
          BY <3>1, <4>2, <5>1
        <5> QED BY <2>0, <3>2, <5>1, <5>2 DEF TokensInv, ReaderFacts
      <4> QED BY <4>1, <4>2
    <3>6. ASSUME NEW u \in Users PROVE OwnTokens(u)'
      BY <1>0, <2>0, <3>2 DEF TokensInv, OwnTokens, AccountRow
    <3> QED BY <3>4, <3>5, <3>6 DEF TokensInv
  <2> QED BY <2>2, <2>3
<1>8. ASSUME NEW r \in Requests, NEW u \in Users, ReadToBlock(r, u) PROVE TokensInv'
  <2>1. \A s \in Requests : req'[s] = req[s] \/ req'[s].pc \notin {"apply", "mark"}
    BY <1>8 DEF ReadToBlock, Go, Idle
  <2> QED BY <1>8, <2>1, TokensFrame DEF ReadToBlock
<1>9. ASSUME NEW r \in Requests, Block(r) PROVE TokensInv'
  <2>1. \A s \in Requests : req'[s] = req[s] \/ req'[s].pc \notin {"apply", "mark"}
    BY <1>9 DEF Block, Go, Idle
  <2>2. \A v \in Users : /\ account'[v].status = account[v].status
                          /\ account'[v].password = account[v].password
                          /\ account'[v].emailVerified = account[v].emailVerified
    BY <1>0, <1>9 DEF Block, AccountRow
  <2> QED BY <1>9, <2>1, <2>2, TokensFrame DEF Block
<1>10. ASSUME NEW r \in Requests, Abort(r) PROVE TokensInv'
  <2>1. \A s \in Requests : req'[s] = req[s] \/ req'[s].pc \notin {"apply", "mark"}
    BY <1>10 DEF Abort, Go, Idle
  <2> QED BY <1>10, <2>1, TokensFrame DEF Abort
<1>11. ASSUME NEW t \in Tokens, Expire(t) PROVE TokensInv'
  <2>1. UNCHANGED <<account, req, applied, marked>>
    BY <1>11 DEF Expire
  <2>2. \A k \in Tokens : /\ token'[k].status = token[k].status
                           /\ token'[k].user = token[k].user
                           /\ token'[k].purpose = token[k].purpose
                           /\ token'[k].used = token[k].used
    BY <1>0, <1>11 DEF Expire, TokenRow
  <2>3. \A k \in Tokens : TokenFacts(k)'
    BY <2>1, <2>2 DEF TokensInv, TokenFacts
  <2>4. \A r \in Requests : ReaderFacts(r)'
    BY <2>1, <2>2 DEF TokensInv, ReaderFacts, SlotOK
  <2>5. \A u \in Users : OwnTokens(u)'
    BY <1>0, <2>1, <2>2 DEF TokensInv, OwnTokens, AccountRow
  <2> QED BY <2>3, <2>4, <2>5 DEF TokensInv
<1>12. ASSUME NEW u \in Users, Unblock(u) PROVE TokensInv'
  <2>1. \A v \in Users : /\ account'[v].status = account[v].status
                          /\ account'[v].password = account[v].password
                          /\ account'[v].emailVerified = account[v].emailVerified
    BY <1>0, <1>12 DEF Unblock, AccountRow
  <2> QED BY <1>12, <2>1, TokensFrame DEF Unblock
<1>13. ASSUME NEW u \in Users, NEW role \in Roles, ChangeRole(u, role) PROVE TokensInv'
  <2>1. \A v \in Users : /\ account'[v].status = account[v].status
                          /\ account'[v].password = account[v].password
                          /\ account'[v].emailVerified = account[v].emailVerified
    BY <1>0, <1>13 DEF ChangeRole, AccountRow
  <2> QED BY <1>13, <2>1, TokensFrame DEF ChangeRole
<1>14. ASSUME NEW u \in Users, DeleteUser(u) PROVE TokensInv'
  <2>1. UNCHANGED <<req, applied, marked>>
    BY <1>14 DEF DeleteUser
  <2>2. /\ account'[u].status = "gone"
        /\ \A v \in Users : v # u => account'[v] = account[v]
    BY <1>14 DEF DeleteUser, NoAccount
  <2>3. \A k \in Tokens : IF token[k].user = u THEN token'[k].status = "gone"
                           ELSE token'[k] = token[k]
    BY <1>14 DEF DeleteUser, TokensCascade, NoToken
  <2>4. \A k \in Tokens : TokenFacts(k)'
    BY <2>1, <2>2, <2>3 DEF TokensInv, TokenFacts
  <2>5. ASSUME NEW r \in Requests, req[r].pc \in {"apply", "mark"} PROVE ReaderFacts(r)'
    <3>1. req[r].token \in Tokens /\ req[r].user \in Users
      BY <2>5 DEF SlotOK
    <3>2. ReaderFacts(r)
      BY DEF TokensInv
    <3> QED BY <2>1, <2>2, <2>3, <2>5, <3>1, <3>2 DEF ReaderFacts
  <2>6. ASSUME NEW v \in Users PROVE OwnTokens(v)'
    BY <1>0, <2>1, <2>2, <2>3 DEF TokensInv, OwnTokens, AccountRow
  <2> QED BY <2>1, <2>4, <2>5, <2>6 DEF TokensInv, ReaderFacts
<1>15. CASE UNCHANGED vars
  BY <1>15, TokensFrame DEF vars
<1> QED BY <1>1, <1>2, <1>3, <1>4, <1>5, <1>6, <1>7, <1>8, <1>9, <1>10, <1>11,
           <1>12, <1>13, <1>14, <1>15 DEF Next, AuthController, Register, UsersController

-----------------------------------------------------------------------------
LEMMA InitAdmin == Init => AdminInv
<1> SUFFICES ASSUME Init PROVE AdminInv
  OBVIOUS
<1>1. PICK mail \in [Seeded -> Emails] :
        account = [u \in Users |-> IF u \in Seeded THEN SeedRow(mail[u])
                                   ELSE NoAccount("unused")]
  BY DEF Init
<1>2. ASSUME NEW u \in Users \ everOther
      PROVE  /\ account[u].status # "unused"
             /\ account[u].role = "ADMIN" /\ ~account[u].isBlocked
  <2>1. account[u] = SeedRow(mail[u])
    BY <1>1, <1>2 DEF Init
  <2> QED BY <2>1 DEF SeedRow, NoAccount
<1>3. \A r \in Requests : req[r].pc # "block"
  BY DEF Init, Idle
<1> QED BY <1>2, <1>3 DEF AdminInv

\* A step that leaves alone the roles, the blocks and who is present, and sends
\* no request to block an administrator.
LEMMA AdminFrame ==
  ASSUME AdminInv, UNCHANGED everOther,
         \A u \in Users : /\ account'[u].status = account[u].status
                          /\ account'[u].role = account[u].role
                          /\ account'[u].isBlocked => account[u].isBlocked,
         \A r \in Requests : req'[r] = req[r] \/ req'[r].pc # "block"
  PROVE  AdminInv'
  BY DEF AdminInv, Present

LEMMA NextAdmin == Typed /\ AdminInv /\ [Next]_vars => AdminInv'
<1> SUFFICES ASSUME Typed, AdminInv, [Next]_vars PROVE AdminInv'
  OBVIOUS
<1> USE DEF Typed, TypeOK, Present
<1>0. \A u \in Users : account[u] \in AccountRow
  OBVIOUS
<1>1. ASSUME NEW r \in Requests, UNCHANGED <<account, everOther>>,
             NEW q, Go(r, q), q.pc # "block"
      PROVE  AdminInv'
  BY <1>1, AdminFrame DEF Go
<1>2. ASSUME NEW r \in Requests, CreateAccount(r) PROVE AdminInv'
  <2>1. PICK q : Go(r, q) /\ q.pc # "block"
    BY <1>2, CreateSlot
  <2>2. CASE UNCHANGED account
    BY <1>1, <1>2, <2>1, <2>2 DEF CreateAccount
  <2>3. ASSUME NEW v \in Users, account[v].status = "unused",
               account' = [account EXCEPT ![v] =
                             [NoAccount("present") EXCEPT !.email = req[r].email]]
        PROVE  AdminInv'
    <3>1. v \in everOther /\ UNCHANGED everOther
      BY <1>2, <2>3 DEF AdminInv, CreateAccount
    <3>2. \A u \in Users \ everOther : account'[u] = account[u]
      BY <2>3, <3>1
    <3> QED BY <2>1, <3>1, <3>2 DEF AdminInv, Go
  <2> QED BY <1>2, <2>2, <2>3 DEF CreateAccount
<1>3. ASSUME NEW r \in Requests, ApplyToken(r) PROVE AdminInv'
  <2>1. PICK q : Go(r, q) /\ q.pc # "block"
    BY <1>3 DEF ApplyToken, Idle, RequestType
  <2>2. \A u \in Users : /\ account'[u].status = account[u].status
                          /\ account'[u].role = account[u].role
                          /\ account'[u].isBlocked = account[u].isBlocked
    BY <1>0, <1>3 DEF ApplyToken, AccountRow
  <2> QED BY <1>3, <2>1, <2>2, AdminFrame DEF ApplyToken, Go
<1>4. ASSUME NEW r \in Requests, NEW u \in Users, ReadToBlock(r, u) PROVE AdminInv'
  <2>1. u \in everOther
    BY <1>4 DEF ReadToBlock, MayBlock, AdminInv
  <2>2. /\ req'[r].user = u
        /\ \A s \in Requests : s # r => req'[s] = req[s]
    BY <1>4 DEF ReadToBlock, Go, Idle
  <2> QED BY <1>4, <2>1, <2>2 DEF ReadToBlock, AdminInv
<1>5. ASSUME NEW r \in Requests, Block(r) PROVE AdminInv'
  <2>1. req[r].user \in everOther /\ UNCHANGED everOther
    BY <1>5 DEF Block, AdminInv
  <2>2. \A u \in Users \ everOther : account'[u] = account[u]
    BY <1>5, <2>1 DEF Block
  <2>3. \A s \in Requests : req'[s] = req[s] \/ req'[s].pc # "block"
    BY <1>5 DEF Block, Go, Idle
  <2> QED BY <2>1, <2>2, <2>3 DEF AdminInv
<1>6. ASSUME NEW u \in Users, Unblock(u) PROVE AdminInv'
  BY <1>0, <1>6, AdminFrame DEF Unblock, AccountRow
<1>7. ASSUME NEW u \in Users, NEW role \in Roles, ChangeRole(u, role) PROVE AdminInv'
  <2>1. /\ \A v \in Users : /\ account'[v].status = account[v].status
                             /\ account'[v].isBlocked = account[v].isBlocked
                             /\ v # u => account'[v].role = account[v].role
        /\ account'[u].role = role
    BY <1>0, <1>7 DEF ChangeRole, AccountRow
  <2>2. everOther \subseteq everOther' /\ (u \notin everOther' => role = "ADMIN")
    BY <1>7 DEF ChangeRole
  <2> QED BY <1>7, <2>1, <2>2 DEF ChangeRole, AdminInv
<1>8. ASSUME NEW u \in Users, DeleteUser(u) PROVE AdminInv'
  <2>1. u \in everOther' /\ everOther \subseteq everOther' /\ UNCHANGED req
    BY <1>8 DEF DeleteUser
  <2>2. \A v \in Users : v # u => account'[v] = account[v]
    BY <1>8 DEF DeleteUser
  <2> QED BY <2>1, <2>2 DEF AdminInv
<1>9. ASSUME NEW t \in Tokens, Expire(t) PROVE AdminInv'
  BY <1>9, AdminFrame DEF Expire
<1>10. CASE UNCHANGED vars
  BY <1>10, AdminFrame DEF vars
<1>11. ASSUME NEW r \in Requests, \/ \E e \in Emails : LookupNew(r, e)
                                  \/ \E u \in Users : LookupForReset(r, u)
                                  \/ IssueToken(r)
                                  \/ \E t \in Tokens : ReadToken(r, t)
                                  \/ MarkToken(r)
                                  \/ Abort(r)
       PROVE AdminInv'
  <2>1. UNCHANGED <<account, everOther>>
    BY <1>11 DEF LookupNew, LookupForReset, IssueToken, ReadToken, MarkToken, Abort
  <2>2. CASE \E e \in Emails : LookupNew(r, e)
    BY <1>1, <2>1, <2>2 DEF LookupNew, Idle
  <2>3. CASE \E u \in Users : LookupForReset(r, u)
    BY <1>1, <2>1, <2>3 DEF LookupForReset, Idle
  <2>4. CASE \E t \in Tokens : ReadToken(r, t)
    BY <1>1, <2>1, <2>4 DEF ReadToken, Idle
  <2>5. CASE IssueToken(r) \/ MarkToken(r) \/ Abort(r)
    <3>1. Go(r, Idle) /\ Idle.pc # "block"
      BY <2>5 DEF IssueToken, MarkToken, Abort, Idle
    <3> QED BY <1>1, <2>1, <3>1
  <2> QED BY <1>11, <2>2, <2>3, <2>4, <2>5
<1> QED BY <1>2, <1>3, <1>4, <1>5, <1>6, <1>7, <1>8, <1>9, <1>10, <1>11
        DEF Next, AuthController, Register, UsersController

-----------------------------------------------------------------------------
LEMMA InitEmails == Init => OneAccountPerEmail
<1> SUFFICES ASSUME Init PROVE OneAccountPerEmail
  OBVIOUS
<1>1. PICK mail \in [Seeded -> Emails] :
        /\ \A u, v \in Seeded : mail[u] = mail[v] => u = v
        /\ account = [u \in Users |-> IF u \in Seeded THEN SeedRow(mail[u])
                                      ELSE NoAccount("unused")]
  BY DEF Init
<1>2. ASSUME NEW u \in Users, Present(account[u])
      PROVE  u \in Seeded /\ account[u].email = mail[u]
  BY <1>1, <1>2 DEF SeedRow, NoAccount, Present
<1> QED BY <1>1, <1>2 DEF OneAccountPerEmail

LEMMA NextEmails == Typed /\ OneAccountPerEmail /\ [Next]_vars => OneAccountPerEmail'
<1> SUFFICES ASSUME Typed, OneAccountPerEmail, [Next]_vars PROVE OneAccountPerEmail'
  OBVIOUS
<1> USE DEF Typed, TypeOK, Present
<1>0. \A u \in Users : account[u] \in AccountRow
  OBVIOUS
<1>1. ASSUME \A u \in Users : Present(account'[u]) =>
               Present(account[u]) /\ account'[u].email = account[u].email
      PROVE  OneAccountPerEmail'
  BY <1>1 DEF OneAccountPerEmail
<1>2. ASSUME NEW r \in Requests, CreateAccount(r) PROVE OneAccountPerEmail'
  <2>1. CASE UNCHANGED account
    BY <1>1, <2>1
  <2>2. ASSUME NEW v \in Users, EmailFree(req[r].email),
               account' = [account EXCEPT ![v] =
                             [NoAccount("present") EXCEPT !.email = req[r].email]]
        PROVE  OneAccountPerEmail'
    <3>1. /\ account'[v].email = req[r].email
          /\ \A u \in Users : u # v => account'[u] = account[u]
      BY <2>2 DEF NoAccount
    <3>2. \A u \in Users : ~(Present(account[u]) /\ account[u].email = req[r].email)
      BY <2>2 DEF EmailFree, Holders
    <3> QED BY <3>1, <3>2 DEF OneAccountPerEmail
  <2> QED BY <1>2, <2>1, <2>2 DEF CreateAccount
<1>3. ASSUME NEW u \in Users, NEW row,
             row.status = account[u].status, row.email = account[u].email,
             account' = [account EXCEPT ![u] = row]
      PROVE  OneAccountPerEmail'
  BY <1>1, <1>3
<1>4. ASSUME NEW u \in Users, DeleteUser(u) PROVE OneAccountPerEmail'
  <2>1. \A v \in Users : Present(account'[v]) => account'[v] = account[v]
    BY <1>4 DEF DeleteUser, NoAccount
  <2> QED BY <1>1, <2>1
<1>5. CASE UNCHANGED account
  BY <1>1, <1>5
<1>6. ASSUME NEW r \in Requests, ApplyToken(r) PROVE OneAccountPerEmail'
  <2> DEFINE u == req[r].user
  <2>1. u \in Users
    BY <1>6 DEF ApplyToken, SlotOK
  <2>2. CASE account' = [account EXCEPT ![u] =
                           [account[u] EXCEPT !.password = req[r].token]]
    BY <1>0, <1>3, <2>1, <2>2 DEF AccountRow
  <2>3. CASE account' = [account EXCEPT ![u] =
                           [account[u] EXCEPT !.emailVerified = TRUE]]
    BY <1>0, <1>3, <2>1, <2>3 DEF AccountRow
  <2> QED BY <1>5, <1>6, <2>2, <2>3 DEF ApplyToken
<1>7. ASSUME NEW r \in Requests, Block(r) PROVE OneAccountPerEmail'
  <2> DEFINE u == req[r].user
  <2>1. u \in Users
    BY <1>7 DEF Block, SlotOK
  <2>2. CASE account' = [account EXCEPT ![u] = [account[u] EXCEPT !.isBlocked = TRUE]]
    BY <1>0, <1>3, <2>1, <2>2 DEF AccountRow
  <2> QED BY <1>5, <1>7, <2>2 DEF Block
<1>8. ASSUME NEW u \in Users, Unblock(u) PROVE OneAccountPerEmail'
  <2>1. account' = [account EXCEPT ![u] = [account[u] EXCEPT !.isBlocked = FALSE]]
    BY <1>8 DEF Unblock
  <2> QED BY <1>0, <1>3, <2>1 DEF AccountRow
<1>9. ASSUME NEW u \in Users, NEW role \in Roles, ChangeRole(u, role)
      PROVE  OneAccountPerEmail'
  <2>1. account' = [account EXCEPT ![u] = [account[u] EXCEPT !.role = role]]
    BY <1>9 DEF ChangeRole
  <2> QED BY <1>0, <1>3, <2>1 DEF AccountRow
<1>10. ASSUME NEW r \in Requests, \/ \E e \in Emails : LookupNew(r, e)
                                  \/ \E u \in Users : LookupForReset(r, u)
                                  \/ IssueToken(r)
                                  \/ \E t \in Tokens : ReadToken(r, t)
                                  \/ MarkToken(r)
                                  \/ \E u \in Users : ReadToBlock(r, u)
                                  \/ Abort(r)
       PROVE  UNCHANGED account
  BY <1>10 DEF LookupNew, LookupForReset, IssueToken, ReadToken, MarkToken,
               ReadToBlock, Abort
<1>11. ASSUME (\E t \in Tokens : Expire(t)) \/ UNCHANGED vars PROVE UNCHANGED account
  BY <1>11 DEF Expire, vars
<1> QED BY <1>2, <1>4, <1>5, <1>6, <1>7, <1>8, <1>9, <1>10, <1>11
        DEF Next, AuthController, Register, UsersController

-----------------------------------------------------------------------------
IInv == Typed /\ TokensInv /\ AdminInv /\ OneAccountPerEmail

\* The invariant the theorems rest on.
LEMMA Inductive == Spec => []IInv
<1>1. Init => IInv
  BY InitTyped, InitTokens, InitAdmin, InitEmails DEF IInv
<1>2. IInv /\ [Next]_vars => IInv'
  BY NextTyped, NextTokens, NextAdmin, NextEmails DEF IInv
<1> QED BY <1>1, <1>2, PTL DEF Spec

\* Every variable keeps its type: in particular each slot, whatever its request
\* found gone, holds what its next statement needs.
THEOREM TypeCorrect == Spec => []TypeOK
<1>1. IInv => TypeOK
  BY DEF IInv, Typed
<1> QED BY <1>1, Inductive, PTL

\* No two accounts hold one address, whatever registrations run at once.
THEOREM EmailsUnique == Spec => []OneAccountPerEmail
<1>1. IInv => OneAccountPerEmail
  BY DEF IInv
<1> QED BY <1>1, Inductive, PTL

\* A token marked used has had its effect.
THEOREM UsedTokensTookEffect == Spec => []UsedTookEffect
<1>1. IInv => UsedTookEffect
  BY DEF IInv, Typed, TokensInv, TokenFacts, UsedTookEffect
<1> QED BY <1>1, Inductive, PTL

\* Passwords and verifications come from the account's own tokens.
THEOREM TokensStayWithOwner == Spec => []OwnTokensOnly
<1>1. IInv => OwnTokensOnly
  BY DEF IInv, TokensInv, OwnTokens, OwnTokensOnly
<1> QED BY <1>1, Inductive, PTL

\* A request that has used a token up is not using it again.
THEOREM NoSecondUse == Spec => []OneUsePerSlot
<1>1. IInv => OneUsePerSlot
  BY DEF IInv, TokensInv, ReaderFacts, OneUsePerSlot
<1> QED BY <1>1, Inductive, PTL

\* An administrator is not blocked by a request that raced a change of role,
\* unless that change made the administrator.
THEOREM AdminsStayUnblocked == Spec => []LastingAdminUnblocked
<1>1. IInv => LastingAdminUnblocked
  BY DEF IInv, AdminInv, LastingAdminUnblocked
<1> QED BY <1>1, Inductive, PTL
=============================================================================
