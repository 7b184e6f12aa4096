------------------------ MODULE LoginThrottle_proofs ------------------------
(***************************************************************************)
(* Theorems about LoginThrottle, for any addresses, names, accounts,       *)
(* concurrent attempts, limits and window.                                 *)
(***************************************************************************)
EXTENDS LoginThrottle, FiniteSetTheorems, TLAPS

LEMMA MaxFailuresNat == MaxFailures \in Nat /\ Cardinality(Requests) \in Nat
BY FS_CardinalityType, ThrottleAssumption DEF MaxFailures

-----------------------------------------------------------------------------
\* An attempt under way knows where it comes from and the name it tries.
SlotWellFormed(q) ==
    q.pc # "idle" => q.ip \in Origins /\ q.name \in Names

Consistent == TypeOK /\ \A r \in Requests : SlotWellFormed(req[r])

LEMMA InitConsistent == Init => Consistent
BY MaxFailuresNat DEF Init, Consistent, TypeOK, SlotWellFormed, RequestType, Idle,
                     Origins

\* Each step of an attempt writes a well-formed slot.
LEMMA AttemptConsistent ==
  ASSUME Consistent, NEW r \in Requests, Attempt(r)
  PROVE  Consistent'
<1> DEFINE Fits(q) == q \in RequestType /\ SlotWellFormed(q)
<1>0. /\ TypeOK
      /\ \A x \in Requests : SlotWellFormed(req[x])
      /\ Fits(req[r])
  BY DEF Consistent, TypeOK
<1>1. ASSUME NEW q, Fits(q), Go(r, q), UNCHANGED <<failures, standing>>
      PROVE  Consistent'
  BY <1>0, <1>1 DEF Go, Consistent, TypeOK
<1>2. Fits(Idle)
  BY DEF Idle, RequestType, SlotWellFormed, Origins
<1>3. ASSUME NEW e \in Outcomes, Fits([req[r] EXCEPT !.pc = "log", !.event = e]),
             Refuse(r, e), UNCHANGED <<failures, standing>>
      PROVE  Consistent'
  BY <1>1, <1>3 DEF Refuse
<1>4. ASSUME NEW e \in Outcomes, req[r].pc \in {"lookup", "count"}
      PROVE  Fits([req[r] EXCEPT !.pc = "log", !.event = e])
  BY <1>0, <1>4 DEF RequestType, SlotWellFormed, Outcomes
<1>5. ASSUME NEW i \in Origins, NEW n \in Names, CheckAddress(r, i, n)
      PROVE  Consistent'
  <2>1. Fits([Idle EXCEPT !.pc = "log", !.ip = i, !.name = n,
                          !.event = "BRUTE_FORCE_DETECTED"])
    BY DEF Idle, RequestType, SlotWellFormed, Outcomes
  <2>2. Fits([Idle EXCEPT !.pc = "lookup", !.ip = i, !.name = n])
    BY DEF Idle, RequestType, SlotWellFormed
  <2> QED BY <1>1, <1>5, <2>1, <2>2 DEF CheckAddress
<1>6. CASE FindUser(r)
  <2>1. CASE req[r].name \notin Registered
    BY <1>3, <1>4, <1>6, <2>1 DEF FindUser, Outcomes
  <2>2. CASE req[r].name \in Registered
    <3>1. Fits([req[r] EXCEPT !.pc = "count", !.standing = standing[req[r].name]])
      BY <1>0, <1>6, <2>2 DEF FindUser, TypeOK, RequestType, SlotWellFormed
    <3> QED BY <1>1, <1>6, <2>2, <3>1 DEF FindUser
  <2> QED BY <2>1, <2>2
<1>7. CASE CountAndVerify(r)
  BY <1>1, <1>2, <1>3, <1>4, <1>7 DEF CountAndVerify, Outcomes
<1>8. CASE Log(r)
  <2>1. failures' \in [Origins -> [Names -> [Ages -> 0..MaxFailures]]]
    <3>1. CASE UNCHANGED failures
      BY <1>0, <3>1 DEF TypeOK
    <3>2. CASE /\ failures[req[r].ip][req[r].name][0] < MaxFailures
               /\ failures' = [failures EXCEPT ![req[r].ip][req[r].name][0] = @ + 1]
      <4>1. req[r].ip \in Origins /\ req[r].name \in Names /\ 0 \in Ages
        BY <1>0, <1>8, ThrottleAssumption DEF Log, SlotWellFormed, Ages
      <4>2. failures[req[r].ip][req[r].name][0] \in 0..MaxFailures
        BY <1>0, <4>1 DEF TypeOK
      <4>3. failures[req[r].ip][req[r].name][0] + 1 \in 0..MaxFailures
        BY <3>2, <4>2, MaxFailuresNat
      <4> QED BY <1>0, <3>2, <4>1, <4>3 DEF TypeOK
    <3> QED BY <1>8, <3>1, <3>2 DEF Log
  <2> QED BY <1>0, <1>2, <1>8, <2>1 DEF Log, Go, Consistent, TypeOK
<1> QED BY <1>5, <1>6, <1>7, <1>8 DEF Attempt

LEMMA ConsistentStep == Consistent /\ [Next]_vars => Consistent'
<1> SUFFICES ASSUME Consistent, [Next]_vars PROVE Consistent'
  OBVIOUS
<1>1. ASSUME NEW r \in Requests, Attempt(r) PROVE Consistent'
  BY <1>1, AttemptConsistent
<1>2. CASE Tick
  <2>1. \A a \in Ages : a # 0 => a - 1 \in Ages
    BY ThrottleAssumption DEF Ages
  <2>2. failures' \in [Origins -> [Names -> [Ages -> 0..MaxFailures]]]
    BY <1>2, <2>1, MaxFailuresNat DEF Tick, Consistent, TypeOK
  <2> QED BY <1>2, <2>2 DEF Tick, Consistent, TypeOK
<1>3. ASSUME NEW n \in Registered, NEW st \in {"active", "inactive", "blocked"},
             SetStanding(n, st)
      PROVE  Consistent'
  BY <1>3 DEF SetStanding, Consistent, TypeOK
<1>4. CASE UNCHANGED vars
  BY <1>4 DEF vars, Consistent, TypeOK
<1> QED BY <1>1, <1>2, <1>3, <1>4 DEF Next

\* Counts of failures, accounts and request slots keep their types: no counter
\* reaches a value the tables could not hold.
THEOREM TypeCorrect == Spec => []TypeOK
<1>1. Consistent => TypeOK
  BY DEF Consistent
<1> QED BY <1>1, InitConsistent, ConsistentStep, PTL DEF Spec
-----------------------------------------------------------------------------
(* The rows of the window, and what a step does to them. *)

RowType == [ip : Origins, name : Names, age : Ages, nth : Nat \ {0}]

Counters == [Origins -> [Names -> [Ages -> 0..MaxFailures]]]

\* The rows f counts: RowsOf(I, N) now, or after a step.
RowsIn(f, I, N) ==
    UNION {{[ip |-> i, name |-> n, age |-> a, nth |-> k] :
               k \in 1..f[i][n][a]} : i \in I, n \in N, a \in Ages}

LEMMA RowsAreIn ==
  ASSUME NEW f \in Counters,
         NEW I \in SUBSET Origins, NEW N \in SUBSET Names, NEW row
  PROVE  row \in RowsIn(f, I, N) <=>
           /\ row \in RowType /\ row.ip \in I /\ row.name \in N
           /\ row.nth <= f[row.ip][row.name][row.age]
<1>1. \A i \in I, n \in N, a \in Ages : f[i][n][a] \in Nat
  BY MaxFailuresNat DEF Counters
<1>2. ASSUME row \in RowsIn(f, I, N)
      PROVE  /\ row \in RowType /\ row.ip \in I /\ row.name \in N
             /\ row.nth <= f[row.ip][row.name][row.age]
  <2>1. PICK i \in I, n \in N, a \in Ages : \E k \in 1..f[i][n][a] :
               row = [ip |-> i, name |-> n, age |-> a, nth |-> k]
    BY <1>2 DEF RowsIn
  <2> QED BY <1>1, <2>1 DEF RowType
<1>3. ASSUME row \in RowType, row.ip \in I, row.name \in N,
             row.nth <= f[row.ip][row.name][row.age]
      PROVE  row \in RowsIn(f, I, N)
  <2>1. row.age \in Ages /\ row.nth \in 1..f[row.ip][row.name][row.age]
    BY <1>1, <1>3 DEF RowType
  <2>2. row = [ip |-> row.ip, name |-> row.name, age |-> row.age, nth |-> row.nth]
    BY <1>3 DEF RowType
  <2> DEFINE cell(i, n, a) == {[ip |-> i, name |-> n, age |-> a, nth |-> k] :
                                  k \in 1..f[i][n][a]}
  <2>3. row \in cell(row.ip, row.name, row.age)
    BY <2>1, <2>2
  <2>4. cell(row.ip, row.name, row.age) \in
          {cell(i, n, a) : i \in I, n \in N, a \in Ages}
    <3> HIDE DEF cell
    <3> QED BY <1>3, <2>1
  <2>5. RowsIn(f, I, N) = UNION {cell(i, n, a) : i \in I, n \in N, a \in Ages}
    BY DEF RowsIn
  <2> HIDE DEF cell
  <2> QED BY <2>3, <2>4, <2>5
<1> QED BY <1>2, <1>3

\* What RowsOf holds, before and after a step.
LEMMA RowsAre ==
  ASSUME Consistent, Consistent',
         NEW I \in SUBSET Origins, NEW N \in SUBSET Names, NEW row
  PROVE  /\ row \in RowsOf(I, N) <=>
              /\ row \in RowType /\ row.ip \in I /\ row.name \in N
              /\ row.nth <= failures[row.ip][row.name][row.age]
         /\ row \in RowsOf(I, N)' <=>
              /\ row \in RowType /\ row.ip \in I /\ row.name \in N
              /\ row.nth <= failures'[row.ip][row.name][row.age]
<1>1. failures \in Counters /\ failures' \in Counters
  BY DEF Consistent, TypeOK, Counters
<1>2. RowsOf(I, N) = RowsIn(failures, I, N) /\ RowsOf(I, N)' = RowsIn(failures', I, N)
  BY DEF RowsOf, RowsIn
<1> QED BY <1>1, <1>2, RowsAreIn

\* A row a tick older was there before, a tick younger.
LEMMA TickForgets ==
  ASSUME Consistent, Consistent', Tick,
         NEW I \in SUBSET Origins, NEW N \in SUBSET Names,
         IsFiniteSet(RowsOf(I, N))
  PROVE  /\ IsFiniteSet(RowsOf(I, N)')
         /\ Cardinality(RowsOf(I, N)') <= Cardinality(RowsOf(I, N))
<1> DEFINE S == RowsOf(I, N)'
           T == RowsOf(I, N)
           f == [row \in S |-> [row EXCEPT !.age = row.age - 1]]
<1>1. ASSUME NEW row \in S
      PROVE  /\ row \in RowType /\ row.ip \in I /\ row.name \in N /\ row.age # 0
             /\ row.nth <= failures[row.ip][row.name][row.age - 1]
  <2>1. /\ row \in RowType /\ row.ip \in I /\ row.name \in N
        /\ row.nth <= failures'[row.ip][row.name][row.age]
    BY RowsAre
  <2>2. row.age \in Ages /\ row.nth \in Nat \ {0}
    BY <2>1 DEF RowType
  <2>3. failures'[row.ip][row.name][row.age] =
          IF row.age = 0 THEN 0 ELSE failures[row.ip][row.name][row.age - 1]
    BY <2>1, <2>2 DEF Tick
  <2> QED BY <2>1, <2>2, <2>3
<1>2. ASSUME NEW row \in S PROVE f[row] \in T
  <2>1. row.age - 1 \in Ages
    BY <1>1, ThrottleAssumption DEF RowType, Ages
  <2>2. f[row] \in RowType /\ f[row].name = row.name /\ f[row].ip = row.ip
        /\ f[row].age = row.age - 1 /\ f[row].nth = row.nth
    BY <1>1, <2>1 DEF RowType
  <2> QED BY <1>1, <2>2, RowsAre
<1>3. ASSUME NEW x \in S, NEW y \in S, f[x] = f[y] PROVE x = y
  <2>1. /\ x \in RowType /\ y \in RowType
        /\ f[x].ip = x.ip /\ f[x].name = x.name /\ f[x].nth = x.nth
        /\ f[y].ip = y.ip /\ f[y].name = y.name /\ f[y].nth = y.nth
        /\ f[x].age = x.age - 1 /\ f[y].age = y.age - 1
    BY <1>1 DEF RowType
  <2>2. x.age = y.age
    BY <1>3, <2>1, ThrottleAssumption DEF RowType, Ages
  <2> QED BY <1>3, <2>1, <2>2 DEF RowType
<1>4. f \in Injection(S, T)
  BY <1>2, <1>3 DEF Injection, IsInjective
<1> QED BY <1>4, FS_Injection

\* The event of a failed attempt is one row more, where it belongs.
LEMMA LogAddsOne ==
  ASSUME Consistent, Consistent', NEW r \in Requests, Log(r), ~UNCHANGED failures,
         NEW I \in SUBSET Origins, NEW N \in SUBSET Names
  PROVE  IF req[r].ip \in I /\ req[r].name \in N
         THEN \E new : RowsOf(I, N)' = RowsOf(I, N) \union {new}
         ELSE RowsOf(I, N)' = RowsOf(I, N)
<1> DEFINE i == req[r].ip
           m == req[r].name
           k == failures[i][m][0] + 1
           new == [ip |-> i, name |-> m, age |-> 0, nth |-> k]
<1>1. i \in Origins /\ m \in Names /\ 0 \in Ages
  BY ThrottleAssumption DEF Log, Consistent, SlotWellFormed, Ages
<1>2. failures[i][m][0] \in Nat /\ failures' = [failures EXCEPT ![i][m][0] = k]
  BY <1>1, MaxFailuresNat DEF Log, Consistent, TypeOK
<1>3. \A j \in Origins, l \in Names, a \in Ages :
        /\ failures[j][l][a] \in Nat
        /\ failures'[j][l][a] = IF j = i /\ l = m /\ a = 0 THEN k
                                ELSE failures[j][l][a]
  BY <1>1, <1>2, MaxFailuresNat DEF Consistent, TypeOK
<1>4. new \in RowType
  BY <1>1, <1>2 DEF RowType
<1>5. ASSUME NEW row \in RowType
      PROVE  row.nth <= failures'[row.ip][row.name][row.age] <=>
               row.nth <= failures[row.ip][row.name][row.age] \/ row = new
  <2>1. row.ip \in Origins /\ row.name \in Names /\ row.age \in Ages /\ row.nth \in Nat
    BY DEF RowType
  <2>2. CASE row.ip = i /\ row.name = m /\ row.age = 0
    <3>1. row.nth <= k <=> row.nth <= k - 1 \/ row.nth = k
      BY <1>2, <2>1
    <3>2. row.nth = k <=> row = new
      BY <2>2 DEF RowType
    <3>3. /\ failures[row.ip][row.name][row.age] = k - 1
          /\ failures'[row.ip][row.name][row.age] = k
      <4>1. failures[i][m][0] = k - 1
        BY <1>2
      <4>2. failures'[i][m][0] = k
        BY <1>1, <1>3
      <4> QED BY <2>2, <4>1, <4>2
    <3> HIDE DEF k, new
    <3> QED BY <3>1, <3>2, <3>3
  <2>3. CASE ~(row.ip = i /\ row.name = m /\ row.age = 0)
    BY <1>3, <2>1, <2>3
  <2> QED BY <2>2, <2>3
<1>6. \A row : row \in RowsOf(I, N)' <=>
                 /\ row \in RowType /\ row.ip \in I /\ row.name \in N
                 /\ row.nth <= failures'[row.ip][row.name][row.age]
  BY RowsAre
<1>7. \A row : row \in RowsOf(I, N)' <=>
                 \/ row \in RowsOf(I, N)
                 \/ row = new /\ i \in I /\ m \in N
  <2> SUFFICES ASSUME NEW row
               PROVE  row \in RowsOf(I, N)' <=>
                        \/ row \in RowsOf(I, N)
                        \/ row = new /\ i \in I /\ m \in N
    OBVIOUS
  <2>1. row \in RowsOf(I, N) <=>
          /\ row \in RowType /\ row.ip \in I /\ row.name \in N
          /\ row.nth <= failures[row.ip][row.name][row.age]
    BY RowsAre
  <2>2. new.ip = i /\ new.name = m
    OBVIOUS
  <2>3. row \in RowsOf(I, N)' <=>
          /\ row \in RowType /\ row.ip \in I /\ row.name \in N
          /\ row.nth <= failures'[row.ip][row.name][row.age]
    BY <1>6
  <2>4. row \in RowType =>
          (row.nth <= failures'[row.ip][row.name][row.age] <=>
             row.nth <= failures[row.ip][row.name][row.age] \/ row = new)
    BY <1>5
  <2> HIDE DEF new
  <2> QED BY <1>4, <2>1, <2>2, <2>3, <2>4
<1>8. CASE i \in I /\ m \in N
  <2> HIDE DEF new
  <2>1. RowsOf(I, N)' = RowsOf(I, N) \union {new}
    BY <1>7, <1>8
  <2> QED BY <1>8, <2>1
<1>9. CASE ~(i \in I /\ m \in N)
  <2>1. RowsOf(I, N)' = RowsOf(I, N)
    BY <1>7, <1>9
  <2> QED BY <1>9, <2>1
<1> QED BY <1>8, <1>9

RowsFinite == IsFiniteSet(RowsOf(Origins, Names))

LEMMA RowsKept ==
  ASSUME NEW I, NEW N, UNCHANGED failures
  PROVE  RowsOf(I, N)' = RowsOf(I, N)
BY DEF RowsOf

LEMMA RowsFiniteStep ==
  ASSUME Consistent, Consistent', RowsFinite, [Next]_vars
  PROVE  RowsFinite'
<1>1. CASE UNCHANGED failures
  BY <1>1, RowsKept DEF RowsFinite
<1>2. CASE Tick
  BY <1>2, TickForgets DEF RowsFinite
<1>3. ASSUME NEW r \in Requests, Log(r), ~UNCHANGED failures
      PROVE  RowsFinite'
  <2>1. \/ RowsOf(Origins, Names)' = RowsOf(Origins, Names)
        \/ \E new : RowsOf(Origins, Names)' = RowsOf(Origins, Names) \union {new}
    BY <1>3, LogAddsOne
  <2> QED BY <2>1, FS_AddElement DEF RowsFinite
<1> QED BY <1>1, <1>2, <1>3
        DEF Next, vars, Attempt, CheckAddress, FindUser, CountAndVerify, SetStanding

Inv == Consistent /\ RowsFinite

LEMMA InitInv == Init => Inv
<1>1. ASSUME Init PROVE RowsOf(Origins, Names) = {}
  BY <1>1 DEF Init, RowsOf
<1> QED BY <1>1, InitConsistent, FS_EmptySet DEF Inv, RowsFinite

LEMMA InvStep == Inv /\ [Next]_vars => Inv'
BY ConsistentStep, RowsFiniteStep DEF Inv

\* The rows counted are finitely many, of whatever origins and names.
LEMMA RowsOfFinite ==
  ASSUME Inv, NEW I \in SUBSET Origins, NEW N \in SUBSET Names
  PROVE  /\ IsFiniteSet(RowsOf(I, N))
         /\ Cardinality(RowsOf(I, N)) \in Nat
<1>1. RowsOf(I, N) \in SUBSET RowsOf(Origins, Names)
  BY DEF RowsOf
<1> QED BY <1>1, FS_Subset, FS_CardinalityType DEF Inv, RowsFinite

LEMMA RowsOfFiniteNext ==
  ASSUME Inv', NEW I \in SUBSET Origins, NEW N \in SUBSET Names
  PROVE  /\ IsFiniteSet(RowsOf(I, N)')
         /\ Cardinality(RowsOf(I, N)') \in Nat
<1>1. RowsOf(I, N)' \in SUBSET RowsOf(Origins, Names)'
  BY DEF RowsOf
<1> QED BY <1>1, FS_Subset, FS_CardinalityType DEF Inv, RowsFinite

LEMMA CountTicks ==
  ASSUME Inv, Inv', Tick, NEW I \in SUBSET Origins, NEW N \in SUBSET Names
  PROVE  Cardinality(RowsOf(I, N)') <= Cardinality(RowsOf(I, N))
BY RowsOfFinite, TickForgets DEF Inv

LEMMA CountLogs ==
  ASSUME Inv, Inv', NEW r \in Requests, Log(r), ~UNCHANGED failures,
         NEW I \in SUBSET Origins, NEW N \in SUBSET Names
  PROVE  IF req[r].ip \in I /\ req[r].name \in N
         THEN Cardinality(RowsOf(I, N)') <= Cardinality(RowsOf(I, N)) + 1
         ELSE Cardinality(RowsOf(I, N)') = Cardinality(RowsOf(I, N))
<1>1. IsFiniteSet(RowsOf(I, N)) /\ Cardinality(RowsOf(I, N)) \in Nat
  BY RowsOfFinite
<1>2. CASE req[r].ip \in I /\ req[r].name \in N
  <2>1. PICK new : RowsOf(I, N)' = RowsOf(I, N) \union {new}
    BY <1>2, LogAddsOne DEF Inv
  <2>2. Cardinality(RowsOf(I, N) \union {new}) =
          IF new \in RowsOf(I, N) THEN Cardinality(RowsOf(I, N))
          ELSE Cardinality(RowsOf(I, N)) + 1
    BY <1>1, FS_AddElement
  <2>3. Cardinality(RowsOf(I, N)') <= Cardinality(RowsOf(I, N)) + 1
    BY <1>1, <2>1, <2>2
  <2> QED BY <1>2, <2>3
<1>3. CASE ~(req[r].ip \in I /\ req[r].name \in N)
  BY <1>3, LogAddsOne DEF Inv
<1> QED BY <1>2, <1>3

\* Sets of slots are finite, and one without r is one smaller.
LEMMA SlotSets ==
  ASSUME NEW S \in SUBSET Requests
  PROVE  /\ IsFiniteSet(S) /\ Cardinality(S) \in Nat
         /\ Cardinality(S) <= Cardinality(Requests)
         /\ \A T \in SUBSET S : Cardinality(T) \in Nat /\ Cardinality(T) <= Cardinality(S)
         /\ \A r \in S : Cardinality(S \ {r}) = Cardinality(S) - 1
<1>1. IsFiniteSet(S) /\ Cardinality(S) <= Cardinality(Requests)
  BY FS_Subset, ThrottleAssumption
<1> QED BY <1>1, FS_Subset, FS_CardinalityType, FS_RemoveElement

-----------------------------------------------------------------------------
(* The limit of an account. *)

\* The attempts Uncounted counts.
Uncountable(n) == {r \in Requests : req[r].name = n /\ req[r].event = "LOGIN_FAILURE"}

LEMMA AccountCounts ==
  ASSUME Inv, Inv', NEW n \in Names
  PROVE  /\ UserFailures(n) \in Nat /\ UserFailures(n)' \in Nat
         /\ Uncounted(n) \in Nat /\ Uncounted(n)' \in Nat
         /\ Uncounted(n)' <= Cardinality(Requests)
         /\ Uncountable(n)' \subseteq Uncountable(n) => Uncounted(n)' <= Uncounted(n)
         /\ UNCHANGED failures => UserFailures(n)' = UserFailures(n)
<1>1. UserFailures(n) \in Nat /\ UserFailures(n)' \in Nat
  BY RowsOfFinite, RowsOfFiniteNext DEF UserFailures
<1>2. Uncountable(n) \in SUBSET Requests /\ Uncountable(n)' \in SUBSET Requests
  BY DEF Uncountable
<1>3. /\ Uncounted(n) = Cardinality(Uncountable(n))
      /\ Uncounted(n)' = Cardinality(Uncountable(n)')
  BY DEF Uncounted, Uncountable
<1>4. UNCHANGED failures => UserFailures(n)' = UserFailures(n)
  BY DEF UserFailures, RowsOf
<1> QED BY <1>1, <1>2, <1>3, <1>4, SlotSets

\* What a step does to the failures of an account, counted or not: it adds to
\* them only if it counted them first and found the account unlocked.
LEMMA FailuresGrowUnlocked ==
  ASSUME Inv, Inv', [Next]_vars, NEW n \in Registered
  PROVE  \/ UserFailures(n)' + Uncounted(n)' <= UserFailures(n) + Uncounted(n)
         \/ ~UserLocked(n) /\ UserFailures(n)' = UserFailures(n)
<1>0. n \in Names /\ Consistent /\ TypeOK
  BY ThrottleAssumption DEF Inv, Consistent
<1>1. ASSUME UNCHANGED failures, Uncountable(n)' \subseteq Uncountable(n)
      PROVE  UserFailures(n)' + Uncounted(n)' <= UserFailures(n) + Uncounted(n)
  BY <1>0, <1>1, AccountCounts
<1>2. ASSUME NEW r \in Requests, NEW q, Go(r, q),
             ~(q.name = n /\ q.event = "LOGIN_FAILURE")
      PROVE  Uncountable(n)' \subseteq Uncountable(n)
  BY <1>0, <1>2 DEF Go, Uncountable, TypeOK
<1>3. Idle.event # "LOGIN_FAILURE"
  BY DEF Idle
<1>4. ASSUME NEW r \in Requests, NEW i \in Origins, NEW m \in Names,
             CheckAddress(r, i, m)
      PROVE  UserFailures(n)' + Uncounted(n)' <= UserFailures(n) + Uncounted(n)
  BY <1>1, <1>2, <1>4 DEF CheckAddress, Idle
<1>5. ASSUME NEW r \in Requests, FindUser(r)
      PROVE  UserFailures(n)' + Uncounted(n)' <= UserFailures(n) + Uncounted(n)
  <2>1. CASE req[r].name \notin Registered
    <3>1. [req[r] EXCEPT !.pc = "log", !.event = "LOGIN_FAILURE"].name # n
      BY <1>0, <2>1 DEF TypeOK, RequestType
    <3> QED BY <1>1, <1>2, <1>5, <2>1, <3>1 DEF FindUser, Refuse
  <2>2. CASE req[r].name \in Registered
    <3> DEFINE q == [req[r] EXCEPT !.pc = "count", !.standing = standing[req[r].name]]
    <3>1. q.name = req[r].name /\ q.event = req[r].event
      BY <1>0 DEF TypeOK, RequestType
    <3>2. req' = [req EXCEPT ![r] = q]
      BY <1>5, <2>2 DEF FindUser, Go
    <3> HIDE DEF q
    <3>3. Uncountable(n)' \subseteq Uncountable(n)
      BY <1>0, <3>1, <3>2 DEF Uncountable, TypeOK
    <3> QED BY <1>1, <1>5, <3>3 DEF FindUser
  <2> QED BY <2>1, <2>2
<1>6. ASSUME NEW r \in Requests, CountAndVerify(r)
      PROVE  \/ UserFailures(n)' + Uncounted(n)' <= UserFailures(n) + Uncounted(n)
             \/ ~UserLocked(n) /\ UserFailures(n)' = UserFailures(n)
  <2>1. CASE ~UserLocked(n)
    BY <1>0, <1>6, <2>1, AccountCounts DEF CountAndVerify
  <2>2. CASE UserLocked(n)
    <3>1. \A e : LET q == [req[r] EXCEPT !.pc = "log", !.event = e]
                 IN  q.name = req[r].name /\ q.event = e
      BY <1>0 DEF TypeOK, RequestType
    <3>2. CASE req[r].name = n
      BY <1>1, <1>2, <1>6, <2>2, <3>1, <3>2 DEF CountAndVerify, Refuse
    <3>3. CASE req[r].name # n
      BY <1>1, <1>2, <1>3, <1>6, <3>1, <3>3 DEF CountAndVerify, Refuse
    <3> QED BY <3>2, <3>3
  <2> QED BY <2>1, <2>2
<1>7. ASSUME NEW r \in Requests, Log(r)
      PROVE  UserFailures(n)' + Uncounted(n)' <= UserFailures(n) + Uncounted(n)
  <2>1. Uncountable(n)' \subseteq Uncountable(n)
    BY <1>2, <1>3, <1>7 DEF Log
  <2>2. CASE UNCHANGED failures
    BY <1>1, <2>1, <2>2
  <2>3. CASE ~UNCHANGED failures
    <3>1. req[r].event = "LOGIN_FAILURE" /\ req[r].ip \in Origins
      BY <1>0, <1>7, <2>3 DEF Log, Counted, Consistent, SlotWellFormed
    <3>2. CASE req[r].name = n
      <4>1. r \in Uncountable(n) /\ Uncountable(n)' = Uncountable(n) \ {r}
        BY <1>0, <1>3, <1>7, <3>1, <3>2 DEF Log, Go, Uncountable, TypeOK
      <4>2. Uncounted(n)' = Uncounted(n) - 1
        <5>1. Uncountable(n) \in SUBSET Requests
          BY DEF Uncountable
        <5>2. Cardinality(Uncountable(n) \ {r}) = Cardinality(Uncountable(n)) - 1
          BY <4>1, <5>1, SlotSets
        <5> QED BY <4>1, <5>2 DEF Uncounted, Uncountable
      <4>3. UserFailures(n)' <= UserFailures(n) + 1
        BY <1>0, <1>7, <2>3, <3>1, <3>2, CountLogs DEF UserFailures
      <4> QED BY <1>0, <4>2, <4>3, AccountCounts
    <3>3. CASE req[r].name # n
      <4>1. UserFailures(n)' = UserFailures(n)
        BY <1>0, <1>7, <2>3, <3>3, CountLogs DEF UserFailures
      <4> QED BY <1>0, <2>1, <4>1, AccountCounts
    <3> QED BY <3>2, <3>3
  <2> QED BY <2>2, <2>3
<1>8. CASE Tick
  <2>1. Uncountable(n)' = Uncountable(n)
    BY <1>8 DEF Tick, Uncountable
  <2>2. UserFailures(n)' <= UserFailures(n)
    BY <1>0, <1>8, CountTicks DEF UserFailures
  <2> QED BY <1>0, <2>1, <2>2, AccountCounts
<1>9. ASSUME UNCHANGED <<failures, req>>
      PROVE  UserFailures(n)' + Uncounted(n)' <= UserFailures(n) + Uncounted(n)
  BY <1>1, <1>9 DEF Uncountable
<1> QED BY <1>4, <1>5, <1>6, <1>7, <1>8, <1>9 DEF Next, vars, Attempt, SetStanding

\* Within a window an account has at most UserLimit - 1 failures on record, and
\* one more per attempt that was under way when it locked: the counts and the
\* events they are of are separate statements, so attempts pass the limit
\* together.
THEOREM BurstBounded == Spec => []BurstBound
<1>1. Init => BurstBound
  <2> SUFFICES ASSUME Init, NEW n \in Registered
               PROVE  UserFailures(n) + Uncounted(n)
                        <= UserLimit - 1 + Cardinality(Requests)
    BY DEF BurstBound
  <2>1. RowsOf(Origins, {n}) = {}
    BY ThrottleAssumption DEF Init, RowsOf
  <2>2. {r \in Requests : req[r].name = n /\ req[r].event = "LOGIN_FAILURE"} = {}
    BY DEF Init, Idle
  <2>3. UserFailures(n) = 0 /\ Uncounted(n) = 0
    BY <2>1, <2>2, FS_EmptySet DEF UserFailures, Uncounted
  <2> QED BY <2>3, ThrottleAssumption, MaxFailuresNat
<1>2. Inv /\ BurstBound /\ [Next]_vars => BurstBound'
  <2> SUFFICES ASSUME Inv, Inv', BurstBound, [Next]_vars, NEW n \in Registered
               PROVE  UserFailures(n)' + Uncounted(n)'
                        <= UserLimit - 1 + Cardinality(Requests)
    BY InvStep DEF BurstBound
  <2>1. /\ UserFailures(n) \in Nat /\ UserFailures(n)' \in Nat
        /\ Uncounted(n) \in Nat /\ Uncounted(n)' \in Nat
        /\ Uncounted(n)' <= Cardinality(Requests)
    BY AccountCounts, ThrottleAssumption
  <2>2. CASE UserFailures(n)' + Uncounted(n)' <= UserFailures(n) + Uncounted(n)
    BY <2>1, <2>2, ThrottleAssumption, MaxFailuresNat DEF BurstBound
  <2>3. CASE ~UserLocked(n) /\ UserFailures(n)' = UserFailures(n)
    BY <2>1, <2>3, ThrottleAssumption, MaxFailuresNat DEF UserLocked
  <2> QED BY <2>2, <2>3, FailuresGrowUnlocked
<1> QED BY <1>1, <1>2, InitInv, InvStep, PTL DEF Spec

-----------------------------------------------------------------------------
(* The limit of an address. *)

\* The attempts UncountedFrom counts.
UncountableFrom(i) ==
    {r \in Requests : /\ req[r].ip = i
                      /\ req[r].pc # "log" \/ req[r].event = "LOGIN_FAILURE"}

LEMMA AddressCounts ==
  ASSUME Inv, Inv', NEW i \in Addresses
  PROVE  /\ IpFailures(i) \in Nat /\ IpFailures(i)' \in Nat
         /\ UncountedFrom(i) \in Nat /\ UncountedFrom(i)' \in Nat
         /\ UncountedFrom(i)' <= Cardinality(Requests)
         /\ UncountableFrom(i)' \subseteq UncountableFrom(i)
              => UncountedFrom(i)' <= UncountedFrom(i)
         /\ UNCHANGED failures => IpFailures(i)' = IpFailures(i)
<1>1. IpFailures(i) \in Nat /\ IpFailures(i)' \in Nat
  BY RowsOfFinite, RowsOfFiniteNext DEF IpFailures, Origins
<1>2. UncountableFrom(i) \in SUBSET Requests /\ UncountableFrom(i)' \in SUBSET Requests
  BY DEF UncountableFrom
<1>3. /\ UncountedFrom(i) = Cardinality(UncountableFrom(i))
      /\ UncountedFrom(i)' = Cardinality(UncountableFrom(i)')
  BY DEF UncountedFrom, UncountableFrom
<1>4. UNCHANGED failures => IpFailures(i)' = IpFailures(i)
  BY DEF IpFailures, RowsOf
<1> QED BY <1>1, <1>2, <1>3, <1>4, SlotSets

\* An attempt gets past the limit of an address only at the step that finds it
\* unlocked; after that it is in the sum until it is counted or over.
LEMMA AddressGrowsUnlocked ==
  ASSUME Inv, Inv', [Next]_vars, NEW i \in Addresses
  PROVE  \/ IpFailures(i)' + UncountedFrom(i)' <= IpFailures(i) + UncountedFrom(i)
         \/ ~IpLocked(i) /\ IpFailures(i)' = IpFailures(i)
<1>0. Consistent /\ TypeOK
  BY DEF Inv, Consistent
<1>1. ASSUME UNCHANGED failures, UncountableFrom(i)' \subseteq UncountableFrom(i)
      PROVE  IpFailures(i)' + UncountedFrom(i)' <= IpFailures(i) + UncountedFrom(i)
  BY <1>1, AddressCounts
<1>2. ASSUME NEW r \in Requests, NEW q, Go(r, q),
             q.ip = i => r \in UncountableFrom(i) \/ (q.pc = "log" /\ q.event # "LOGIN_FAILURE")
      PROVE  UncountableFrom(i)' \subseteq UncountableFrom(i)
  BY <1>0, <1>2 DEF Go, UncountableFrom, TypeOK
<1>3. Idle.ip # i
  BY ThrottleAssumption DEF Idle
<1>4. ASSUME NEW r \in Requests, NEW j \in Origins, NEW n \in Names,
             CheckAddress(r, j, n)
      PROVE  \/ IpFailures(i)' + UncountedFrom(i)' <= IpFailures(i) + UncountedFrom(i)
             \/ ~IpLocked(i) /\ IpFailures(i)' = IpFailures(i)
  <2>1. CASE i = j /\ ~IpLocked(i)
    BY <1>4, <2>1, AddressCounts DEF CheckAddress
  <2>2. CASE i # j \/ IpLocked(i)
    BY <1>1, <1>2, <1>4, <2>2, ThrottleAssumption DEF CheckAddress, Idle
  <2> QED BY <2>1, <2>2
<1>5. ASSUME NEW r \in Requests, FindUser(r) \/ CountAndVerify(r)
      PROVE  IpFailures(i)' + UncountedFrom(i)' <= IpFailures(i) + UncountedFrom(i)
  <2>1. PICK q : Go(r, q) /\ (q = Idle \/ q.ip = req[r].ip)
    <3>1. /\ \A e : [req[r] EXCEPT !.pc = "log", !.event = e].ip = req[r].ip
          /\ [req[r] EXCEPT !.pc = "count", !.standing = standing[req[r].name]].ip
               = req[r].ip
      BY <1>0 DEF TypeOK, RequestType
    <3> QED BY <1>5, <3>1 DEF FindUser, CountAndVerify, Refuse
  <2>2. req[r].pc \in {"lookup", "count"} /\ UNCHANGED failures
    BY <1>5 DEF FindUser, CountAndVerify
  <2>3. q.ip = i => r \in UncountableFrom(i)
    BY <1>3, <2>1, <2>2 DEF UncountableFrom
  <2> QED BY <1>1, <1>2, <2>1, <2>2, <2>3
<1>6. ASSUME NEW r \in Requests, Log(r)
      PROVE  IpFailures(i)' + UncountedFrom(i)' <= IpFailures(i) + UncountedFrom(i)
  <2>1. UncountableFrom(i)' \subseteq UncountableFrom(i)
    BY <1>2, <1>3, <1>6 DEF Log
  <2>2. CASE UNCHANGED failures
    BY <1>1, <2>1, <2>2
  <2>3. CASE ~UNCHANGED failures
    <3>1. req[r].event = "LOGIN_FAILURE" /\ req[r].name \in Names
      BY <1>0, <1>6, <2>3 DEF Log, Counted, Consistent, SlotWellFormed
    <3>2. CASE req[r].ip = i
      <4>1. r \in UncountableFrom(i) /\ UncountableFrom(i)' = UncountableFrom(i) \ {r}
        BY <1>0, <1>3, <1>6, <3>1, <3>2 DEF Log, Go, UncountableFrom, TypeOK
      <4>2. UncountedFrom(i)' = UncountedFrom(i) - 1
        <5>1. UncountableFrom(i) \in SUBSET Requests
          BY DEF UncountableFrom
        <5>2. Cardinality(UncountableFrom(i) \ {r}) = Cardinality(UncountableFrom(i)) - 1
          BY <4>1, <5>1, SlotSets
        <5> QED BY <4>1, <5>2 DEF UncountedFrom, UncountableFrom
      <4>3. IpFailures(i)' <= IpFailures(i) + 1
        BY <1>6, <2>3, <3>1, <3>2, CountLogs DEF IpFailures, Origins
      <4> QED BY <4>2, <4>3, AddressCounts
    <3>3. CASE req[r].ip # i
      <4>1. IpFailures(i)' = IpFailures(i)
        BY <1>6, <2>3, <3>3, CountLogs DEF IpFailures, Origins
      <4> QED BY <2>1, <4>1, AddressCounts
    <3> QED BY <3>2, <3>3
  <2> QED BY <2>2, <2>3
<1>7. CASE Tick
  <2>1. UncountableFrom(i)' = UncountableFrom(i)
    BY <1>7 DEF Tick, UncountableFrom
  <2>2. IpFailures(i)' <= IpFailures(i)
    BY <1>7, CountTicks DEF IpFailures, Origins
  <2> QED BY <2>1, <2>2, AddressCounts
<1>8. ASSUME UNCHANGED <<failures, req>>
      PROVE  IpFailures(i)' + UncountedFrom(i)' <= IpFailures(i) + UncountedFrom(i)
  BY <1>1, <1>8 DEF UncountableFrom
<1> QED BY <1>4, <1>5, <1>6, <1>7, <1>8 DEF Next, vars, Attempt, SetStanding

\* Whatever names are tried from an address, it leaves at most IpLimit - 1
\* failures on record in a window, and one more per attempt that was under way when it
\* locked.
THEOREM AddressBounded == Spec => []AddressBound
<1>1. Init => AddressBound
  <2> SUFFICES ASSUME Init, NEW i \in Addresses
               PROVE  IpFailures(i) + UncountedFrom(i)
                        <= IpLimit - 1 + Cardinality(Requests)
    BY DEF AddressBound
  <2>1. RowsOf({i}, Names) = {}
    BY DEF Init, RowsOf, Origins
  <2>2. {r \in Requests : /\ req[r].ip = i
                          /\ req[r].pc # "log" \/ req[r].event = "LOGIN_FAILURE"} = {}
    BY ThrottleAssumption DEF Init, Idle
  <2>3. IpFailures(i) = 0 /\ UncountedFrom(i) = 0
    BY <2>1, <2>2, FS_EmptySet DEF IpFailures, UncountedFrom
  <2> QED BY <2>3, ThrottleAssumption, MaxFailuresNat
<1>2. Inv /\ AddressBound /\ [Next]_vars => AddressBound'
  <2> SUFFICES ASSUME Inv, Inv', AddressBound, [Next]_vars, NEW i \in Addresses
               PROVE  IpFailures(i)' + UncountedFrom(i)'
                        <= IpLimit - 1 + Cardinality(Requests)
    BY InvStep DEF AddressBound
  <2>1. /\ IpFailures(i) \in Nat /\ IpFailures(i)' \in Nat
        /\ UncountedFrom(i) \in Nat /\ UncountedFrom(i)' \in Nat
        /\ UncountedFrom(i)' <= Cardinality(Requests)
    BY AddressCounts
  <2>2. CASE IpFailures(i)' + UncountedFrom(i)' <= IpFailures(i) + UncountedFrom(i)
    BY <2>1, <2>2, ThrottleAssumption, MaxFailuresNat DEF AddressBound
  <2>3. CASE ~IpLocked(i) /\ IpFailures(i)' = IpFailures(i)
    BY <2>1, <2>3, ThrottleAssumption, MaxFailuresNat DEF IpLocked
  <2> QED BY <2>2, <2>3, AddressGrowsUnlocked
<1> QED BY <1>1, <1>2, InitInv, InvStep, PTL DEF Spec

\* The rows of one cell are among the rows any count that covers it sees.
LEMMA CellCounted ==
  ASSUME Inv, NEW I \in SUBSET Origins, NEW N \in SUBSET Names,
         NEW i \in I, NEW n \in N, NEW a \in Ages
  PROVE  /\ failures[i][n][a] \in Nat
         /\ failures[i][n][a] <= Cardinality(RowsOf(I, N))
<1> DEFINE c == failures[i][n][a]
           f == [k \in 1..c |-> [ip |-> i, name |-> n, age |-> a, nth |-> k]]
<1>1. c \in Nat
  BY MaxFailuresNat DEF Inv, Consistent, TypeOK
<1>2. ASSUME NEW k \in 1..c PROVE f[k] \in RowsOf(I, N)
  <2>1. failures \in Counters /\ RowsOf(I, N) = RowsIn(failures, I, N)
    BY DEF Inv, Consistent, TypeOK, Counters, RowsOf, RowsIn
  <2>2. f[k] = [ip |-> i, name |-> n, age |-> a, nth |-> k] /\ f[k] \in RowType
    BY <1>1 DEF RowType
  <2> QED BY <2>1, <2>2, RowsAreIn
<1>3. f \in Injection(1..c, RowsOf(I, N))
  BY <1>2 DEF Injection, IsInjective
<1>4. Cardinality(1..c) <= Cardinality(RowsOf(I, N))
  BY <1>3, RowsOfFinite, FS_Injection
<1>5. Cardinality(1..c) = c
  BY <1>1, FS_Interval
<1> QED BY <1>1, <1>4, <1>5

\* A row in no count is not kept.
Countless ==
    \A i \in Origins, n \in Names, a \in Ages :
        ~InSomeCount(i, n) => failures[i][n][a] = 0

LEMMA CountlessStep == Inv /\ Countless /\ [Next]_vars => Countless'
<1> SUFFICES ASSUME Inv, Countless, [Next]_vars,
                    NEW i \in Origins, NEW n \in Names, NEW a \in Ages,
                    ~InSomeCount(i, n)
             PROVE  failures'[i][n][a] = 0
  BY DEF Countless, InSomeCount
<1>1. failures[i][n][a] = 0
  BY DEF Countless
<1>2. CASE UNCHANGED failures
  BY <1>1, <1>2
<1>3. CASE Tick
  <2>1. a # 0 => a - 1 \in Ages
    BY ThrottleAssumption DEF Ages
  <2> QED BY <1>3, <2>1 DEF Tick, Countless
<1>4. ASSUME NEW r \in Requests, Log(r), ~UNCHANGED failures
      PROVE  failures'[i][n][a] = 0
  <2>1. /\ InSomeCount(req[r].ip, req[r].name)
        /\ failures' = [failures EXCEPT ![req[r].ip][req[r].name][0] = @ + 1]
    BY <1>4 DEF Log
  <2>2. ~(i = req[r].ip /\ n = req[r].name)
    BY <2>1
  <2>3. failures \in [Origins -> [Names -> [Ages -> 0..MaxFailures]]]
    BY DEF Inv, Consistent, TypeOK
  <2> QED BY <1>1, <2>1, <2>2, <2>3
<1> QED BY <1>2, <1>3, <1>4
        DEF Next, vars, Attempt, CheckAddress, FindUser, CountAndVerify, SetStanding

\* The bound on the model's counters, which the code has not, never binds: each
\* counter is in the count of an address or of an account, and their limits
\* keep it below.
THEOREM CounterBoundNeverMet ==
  Spec => [](\A i \in Origins, n \in Names, a \in Ages :
               failures[i][n][a] < MaxFailures)
<1> DEFINE Below == \A i \in Origins, n \in Names, a \in Ages :
                      failures[i][n][a] < MaxFailures
<1>1. ASSUME Inv, AddressBound, BurstBound, Countless,
             NEW i \in Origins, NEW n \in Names, NEW a \in Ages
      PROVE  failures[i][n][a] < MaxFailures
  <2>1. CASE i \in Addresses
    <3>1. /\ failures[i][n][a] \in Nat /\ failures[i][n][a] <= IpFailures(i)
          /\ IpFailures(i) \in Nat /\ UncountedFrom(i) \in Nat
      BY <1>1, <2>1, CellCounted, RowsOfFinite, SlotSets
         DEF IpFailures, UncountedFrom, Origins
    <3> QED BY <1>1, <2>1, <3>1, ThrottleAssumption, MaxFailuresNat
            DEF AddressBound, MaxFailures
  <2>2. CASE n \in Registered
    <3>1. /\ failures[i][n][a] \in Nat /\ failures[i][n][a] <= UserFailures(n)
          /\ UserFailures(n) \in Nat /\ Uncounted(n) \in Nat
      BY <1>1, <2>2, CellCounted, RowsOfFinite, SlotSets DEF UserFailures, Uncounted
    <3> QED BY <1>1, <2>2, <3>1, ThrottleAssumption, MaxFailuresNat
            DEF BurstBound, MaxFailures
  <2>3. CASE ~InSomeCount(i, n)
    BY <1>1, <2>3, ThrottleAssumption, MaxFailuresNat DEF Countless, MaxFailures
  <2> QED BY <2>1, <2>2, <2>3 DEF InSomeCount, Origins
<1>2. Inv /\ AddressBound /\ BurstBound /\ Countless => Below
  BY <1>1
<1>3. Init => Countless
  BY DEF Init, Countless
<1> QED BY <1>2, <1>3, AddressBounded, BurstBounded, InitInv, InvStep, CountlessStep, PTL
        DEF Spec

-----------------------------------------------------------------------------
\* No attempt prolongs a lock, of an account or of an address, unless it was
\* past the limit before the lock: being refused because of it is no failure.
THEOREM LocksNotProlonged == Spec => LockNotProlonged
<1>1. ASSUME Inv, [Next]_vars
      PROVE  /\ \A n \in Registered : UserLocked(n)
                  => UserFailures(n)' + Uncounted(n)' <= UserFailures(n) + Uncounted(n)
             /\ \A i \in Addresses : IpLocked(i)
                  => IpFailures(i)' + UncountedFrom(i)' <= IpFailures(i) + UncountedFrom(i)
  BY <1>1, InvStep, FailuresGrowUnlocked, AddressGrowsUnlocked
<1> QED BY <1>1, InitInv, InvStep, PTL DEF Spec, LockNotProlonged
=============================================================================
