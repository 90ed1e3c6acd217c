-------------------------- MODULE BudgetLedgerProofs --------------------------
(***************************************************************************)
(* Theorems about BudgetLedger, for every set of holds, bound, number of   *)
(* days and set of settings.                                               *)
(***************************************************************************)
EXTENDS BudgetLedger, FiniteSetTheorems, TLAPS

-----------------------------------------------------------------------------
(* Sums.  f and g are columns of amounts.                                   *)

\* A sum over some of the holds is a natural number.
LEMMA TotalType ==
  ASSUME NEW S \in SUBSET Holds, NEW f
  PROVE  IsFiniteSet(Units(S, f)) /\ Total(S, f) \in Nat
<1>1. IsFiniteSet(S)
  BY FS_Subset, LedgerAssumption
<1>2. IsFiniteSet(1 .. MaxBound)
  BY FS_Interval, LedgerAssumption
<1>3. IsFiniteSet(S \X (1 .. MaxBound))
  BY <1>1, <1>2, FS_Product
<1>4. IsFiniteSet(Units(S, f))
  BY <1>3, FS_Subset DEF Units
<1> QED
  BY <1>4, FS_CardinalityType DEF Total

\* The sum over one hold is its amount.
LEMMA TotalOfOne ==
  ASSUME NEW h \in Holds, NEW f, f[h] \in Amounts
  PROVE  Total({h}, f) = f[h]
<1>1. Units({h}, f) = {h} \X (1 .. f[h])
  BY LedgerAssumption DEF Units, Amounts
<1>2. IsFiniteSet({h}) /\ Cardinality({h}) = 1
  BY FS_Singleton
<1>3. IsFiniteSet(1 .. f[h]) /\ Cardinality(1 .. f[h]) = f[h]
  BY FS_Interval DEF Amounts
<1>4. Cardinality({h} \X (1 .. f[h])) = Cardinality({h}) * Cardinality(1 .. f[h])
  BY <1>2, <1>3, FS_Product, Zenon
<1>5. Cardinality(Units({h}, f)) = 1 * f[h]
  BY <1>1, <1>2, <1>3, <1>4, Zenon
<1>6. f[h] \in Int
  BY LedgerAssumption DEF Amounts
<1> QED
  BY <1>5, <1>6 DEF Total

\* Columns that agree on S have the same sum over S.
LEMMA TotalAgree ==
  ASSUME NEW S, NEW f, NEW g, \A h \in S : f[h] = g[h]
  PROVE  Total(S, f) = Total(S, g)
<1>1. Units(S, f) = Units(S, g)
  BY DEF Units
<1> QED
  BY <1>1 DEF Total

\* One more hold adds its amount.
LEMMA TotalAdd ==
  ASSUME NEW S \in SUBSET Holds, NEW h \in Holds \ S, NEW f, f[h] \in Amounts
  PROVE  Total(S \cup {h}, f) = Total(S, f) + f[h]
<1>1. Units(S \cup {h}, f) = Units(S, f) \cup Units({h}, f)
  BY DEF Units
<1>2. Units(S, f) \cap Units({h}, f) = {}
  BY DEF Units
<1>3. IsFiniteSet(Units(S, f)) /\ IsFiniteSet(Units({h}, f))
  BY TotalType
<1>4. Cardinality(Units(S, f) \cap Units({h}, f)) = 0
  BY <1>2, FS_EmptySet
<1>5. Cardinality(Units(S \cup {h}, f))
        = Cardinality(Units(S, f)) + Cardinality(Units({h}, f)) - 0
  BY <1>1, <1>3, <1>4, FS_Union
<1>6. Total(S, f) \in Nat /\ Total({h}, f) = f[h]
  BY TotalType, TotalOfOne
<1> QED
  BY <1>5, <1>6, LedgerAssumption DEF Total, Amounts

\* Adding a hold to S, or taking it out, with the column unchanged elsewhere.
LEMMA TotalInsert ==
  ASSUME NEW S \in SUBSET Holds, NEW h \in Holds \ S, NEW f, NEW g,
         g[h] \in Amounts, \A k \in S : g[k] = f[k]
  PROVE  Total(S \cup {h}, g) = Total(S, f) + g[h]
BY TotalAdd, TotalAgree

\* A hold that is taken out takes its amount out.
LEMMA TotalRemove ==
  ASSUME NEW S \in SUBSET Holds, NEW h \in S, NEW f, NEW g,
         f[h] \in Amounts, \A k \in S \ {h} : g[k] = f[k]
  PROVE  Total(S, f) = Total(S \ {h}, g) + f[h]
<1>1. S = (S \ {h}) \cup {h}
  OBVIOUS
<1>2. Total((S \ {h}) \cup {h}, f) = Total(S \ {h}, f) + f[h]
  BY TotalAdd
<1>3. Total(S \ {h}, f) = Total(S \ {h}, g)
  BY TotalAgree
<1> QED
  BY <1>1, <1>2, <1>3

\* An empty set sums to nothing.
LEMMA TotalEmpty ==
  ASSUME NEW f
  PROVE  Total({}, f) = 0
<1>1. Units({}, f) = {}
  BY DEF Units
<1> QED
  BY <1>1, FS_EmptySet DEF Total

\* A sum over fewer holds is no larger.
LEMMA TotalSubset ==
  ASSUME NEW T \in SUBSET Holds, NEW S \in SUBSET T, NEW f
  PROVE  Total(S, f) <= Total(T, f)
<1>1. Units(S, f) \in SUBSET Units(T, f)
  BY DEF Units
<1>2. IsFiniteSet(Units(T, f))
  BY TotalType
<1> QED
  BY <1>1, <1>2, FS_Subset DEF Total

-----------------------------------------------------------------------------
(* The inductive invariant.                                                 *)

\* An empty ledger keeps the invariant.
LEMMA InitIInv == Init => IInv
<1> SUFFICES ASSUME Init PROVE IInv
  OBVIOUS
<1> USE LedgerAssumption
<1>1. TypeOK
  BY DEF Init, TypeOK, Days, Scopes, Amounts, NoDay
<1>2. HoldsConsistent /\ FutureUnspent
  BY DEF Init, HoldsConsistent, FutureUnspent, Days, Scopes
<1>3. Open = {} /\ OpenOf("background") = {}
  BY DEF Init, Open, OpenOf
<1>4. Held = 0 /\ HeldBy("background") = 0
  BY <1>3, TotalEmpty DEF Held, HeldBy
<1>5. spent[today]["background"] = 0 /\ spent[today]["compare"] = 0
  BY DEF Init, Days, Scopes
<1>6. CeilingHolds /\ CompareShareProtected
  <2>1. PICK p \in Settings : TRUE
    OBVIOUS
  <2>2. p.limit \in Nat /\ p.background \in Nat
    BY DEF SettingsRow
  <2> QED
    BY <1>4, <1>5, <2>2 DEF CeilingHolds, CompareShareProtected, Settled
<1>7. LedgerIsExact
  <2> SUFFICES ASSUME NEW d \in Days, NEW s \in Scopes
               PROVE  spent[d][s] = Total(SettledOf(d, s), bill)
    BY DEF LedgerIsExact
  <2>1. SettledOf(d, s) = {}
    BY DEF Init, SettledOf, NoDay, Days
  <2> QED
    BY <2>1, TotalEmpty DEF Init
<1> QED
  BY <1>1, <1>2, <1>6, <1>7 DEF IInv

\* What the sums of a state are.
LEMMA SumsType ==
  ASSUME TypeOK
  PROVE  /\ Held \in Nat /\ HeldBy("background") \in Nat
         /\ HeldBy("background") <= Held
         /\ spent[today]["background"] \in Nat /\ spent[today]["compare"] \in Nat
         /\ unreserved[today] \in Nat /\ Settled(today) \in Nat
<1>1. Open \in SUBSET Holds /\ OpenOf("background") \in SUBSET Open
  BY DEF Open, OpenOf
<1>2. Held \in Nat /\ HeldBy("background") \in Nat
  BY <1>1, TotalType DEF Held, HeldBy
<1>3. HeldBy("background") <= Held
  BY <1>1, TotalSubset DEF Held, HeldBy
<1>4. /\ spent[today]["background"] \in Nat /\ spent[today]["compare"] \in Nat
      /\ unreserved[today] \in Nat
  BY DEF TypeOK, Scopes
<1> QED
  BY <1>2, <1>3, <1>4 DEF Settled

\* An inserted hold that fits a ceiling some setting grants its scope.
LEMMA InsertKeepsIInv ==
  ASSUME IInv, NEW h \in Holds, NEW s \in Scopes, NEW a \in Amounts, InsertHold(h, s, a),
         GuardAlwaysOn =>
            \E p \in Settings :
               Settled(today) + Held + a <= IF s = "background" THEN p.background ELSE p.limit
  PROVE  IInv'
<1> USE LedgerAssumption
<1>0. TypeOK /\ HoldsConsistent
  BY DEF IInv
<1>a. /\ status[h] = "absent"
      /\ status' = [status EXCEPT ![h] = "open"]
      /\ scope' = [scope EXCEPT ![h] = s]
      /\ remaining' = [remaining EXCEPT ![h] = a]
      /\ today' = today /\ policy' = policy /\ spent' = spent
      /\ unreserved' = unreserved /\ settledOn' = settledOn
      /\ verdict' = verdict /\ bill' = bill
  BY DEF InsertHold, usageVars, worldVars
<1>1. TypeOK'
  BY <1>0, <1>a DEF TypeOK, Days, Scopes, Amounts
<1>2. HoldsConsistent' /\ FutureUnspent'
  <2>1. bill[h] = 0 /\ settledOn[h] = NoDay
    BY <1>0, <1>a DEF HoldsConsistent
  <2>2. HoldsConsistent'
    BY <1>0, <1>a, <2>1 DEF TypeOK, HoldsConsistent, Amounts
  <2>3. FutureUnspent'
    BY <1>a DEF IInv, FutureUnspent
  <2> QED
    BY <2>2, <2>3
<1>3. Held' = Held + a
  <2>0. Open' = Open \cup {h}
    BY <1>0, <1>a DEF TypeOK, Open
  <2>1. Open \in SUBSET Holds /\ h \in Holds \ Open
    BY <1>a DEF Open
  <2>2. remaining'[h] = a /\ \A k \in Open : remaining'[k] = remaining[k]
    BY <1>0, <1>a, <2>1 DEF TypeOK
  <2>a. remaining'[h] \in Amounts
    BY <2>2
  <2>3. Total(Open \cup {h}, remaining') = Total(Open, remaining) + remaining'[h]
    BY ONLY <2>1, <2>2, <2>a, TotalInsert
  <2> QED
    BY <2>0, <2>2, <2>3 DEF Held
<1>4. HeldBy("background")' =
        IF s = "background" THEN HeldBy("background") + a ELSE HeldBy("background")
  <2>1. OpenOf("background") \in SUBSET Holds /\ h \in Holds \ OpenOf("background")
    BY <1>a DEF Open, OpenOf
  <2>2. remaining'[h] = a
        /\ \A k \in OpenOf("background") : remaining'[k] = remaining[k]
    BY <1>0, <1>a, <2>1 DEF TypeOK, Open, OpenOf
  <2>a. remaining'[h] \in Amounts
    BY <2>2
  <2>3. CASE s = "background"
    <3>1. OpenOf("background")' = OpenOf("background") \cup {h}
      BY <1>0, <1>a, <2>3 DEF TypeOK, Open, OpenOf
    <3>2. Total(OpenOf("background") \cup {h}, remaining')
            = Total(OpenOf("background"), remaining) + remaining'[h]
      BY ONLY <2>1, <2>2, <2>a, TotalInsert
    <3> QED
      BY <2>2, <2>3, <3>1, <3>2 DEF HeldBy
  <2>4. CASE s # "background"
    <3>1. OpenOf("background")' = OpenOf("background")
      BY <1>0, <1>a, <2>4 DEF TypeOK, Open, OpenOf
    <3> QED
      BY <2>2, <2>4, <3>1, TotalAgree DEF HeldBy
  <2> QED
    BY <2>3, <2>4
<1>5. CeilingHolds' /\ CompareShareProtected'
  <2> SUFFICES ASSUME GuardAlwaysOn
               PROVE  /\ \E p \in Settings : (Settled(today) + Held)' <= p.limit
                      /\ \E p \in Settings :
                            (spent[today]["background"] + HeldBy("background"))'
                                <= p.background
    BY DEF CeilingHolds, CompareShareProtected, GuardAlwaysOn
  <2>1. PICK p \in Settings :
           Settled(today) + Held + a <= IF s = "background" THEN p.background ELSE p.limit
    OBVIOUS
  <2>2. p.limit \in Nat /\ p.background \in Nat /\ p.background <= p.limit /\ a \in Nat
    BY DEF SettingsRow, Amounts
  <2>3. Settled(today)' = Settled(today)
        /\ spent'[today']["background"] = spent[today]["background"]
    BY <1>a DEF Settled
  <2>4. Settled(today) + Held + a <= p.limit
    BY <1>0, <2>1, <2>2, SumsType
  <2>5. (Settled(today) + Held)' <= p.limit
    BY <1>0, <1>3, <2>2, <2>3, <2>4, SumsType
  <2>6. \E q \in Settings :
           (spent[today]["background"] + HeldBy("background"))' <= q.background
    <3>1. CASE s = "background"
      <4>1. spent[today]["background"] + HeldBy("background") + a <= p.background
        BY <1>0, <2>1, <2>2, <3>1, SumsType DEF Settled
      <4> QED
        BY <1>0, <1>4, <2>2, <2>3, <3>1, <4>1, SumsType
    <3>2. CASE s # "background"
      BY <1>4, <2>3, <3>2 DEF IInv, CompareShareProtected
    <3> QED
      BY <3>1, <3>2
  <2> QED
    BY <2>5, <2>6
<1>6. LedgerIsExact'
  <2> SUFFICES ASSUME NEW d \in Days, NEW r \in Scopes
               PROVE  spent'[d][r] = Total(SettledOf(d, r)', bill')
    BY DEF LedgerIsExact
  <2>1. SettledOf(d, r)' = SettledOf(d, r)
    BY <1>0, <1>a DEF TypeOK, HoldsConsistent, SettledOf, NoDay, Days
  <2> QED
    BY <1>a, <2>1 DEF IInv, LedgerIsExact
<1> QED
  BY <1>1, <1>2, <1>5, <1>6 DEF IInv

\* A reservation is admitted only if it fits.
LEMMA ReserveKeepsIInv ==
  ASSUME IInv, NEW h \in Holds, NEW s \in Scopes, NEW a \in Amounts, Reserve(h, s, a)
  PROVE  IInv'
<1>1. TypeOK /\ InsertHold(h, s, a) /\ Admissible(s, a)
  BY DEF IInv, Reserve
<1>2. ASSUME GuardAlwaysOn
      PROVE  Settled(today) + Held + a <= IF s = "background" THEN policy.background ELSE policy.limit
  <2>1. policy \in Settings /\ policy.limit \in Nat /\ policy.background \in Nat /\ a \in Nat
    BY <1>1, LedgerAssumption DEF TypeOK, SettingsRow, Amounts
  <2>2. Committed + a <= Ceiling(s)
    BY <1>1, <1>2, <2>1 DEF Admissible, GuardAlwaysOn
  <2> QED
    BY <1>1, <2>1, <2>2, SumsType DEF Committed, SpentOn, Ceiling
<1> QED
  BY <1>1, <1>2, InsertKeepsIInv DEF TypeOK

\* Closing a hold takes what it held out of the sums.
LEMMA CloseSums ==
  ASSUME TypeOK, NEW h \in Holds, status[h] = "open",
         status' = [status EXCEPT ![h] = "settled"],
         remaining' = [remaining EXCEPT ![h] = 0], scope' = scope
  PROVE  /\ Held = Held' + remaining[h]
         /\ HeldBy("background") =
              HeldBy("background")' + IF scope[h] = "background" THEN remaining[h] ELSE 0
         /\ Held' \in Nat /\ HeldBy("background")' \in Nat
<1>1. Open' = Open \ {h} /\ OpenOf("background")' = OpenOf("background") \ {h}
  BY DEF TypeOK, Open, OpenOf
<1>2. Open \in SUBSET Holds /\ h \in Open /\ OpenOf("background") \in SUBSET Holds
  BY DEF Open, OpenOf
<1>3. remaining[h] \in Amounts /\ \A k \in Holds \ {h} : remaining'[k] = remaining[k]
  BY DEF TypeOK
<1>4. Held = Held' + remaining[h]
  <2>1. Open \in SUBSET Holds /\ h \in Open
    BY <1>2
  <2>2. remaining[h] \in Amounts /\ \A k \in Open \ {h} : remaining'[k] = remaining[k]
    BY <1>2, <1>3
  <2>3. Total(Open, remaining) = Total(Open \ {h}, remaining') + remaining[h]
    BY ONLY <2>1, <2>2, TotalRemove
  <2> QED
    BY <1>1, <2>3 DEF Held
<1>5. Held' \in Nat /\ HeldBy("background")' \in Nat
  BY <1>1, <1>2, TotalType DEF Held, HeldBy
<1>6. CASE scope[h] = "background"
  <2>1. h \in OpenOf("background")
    BY <1>2, <1>6 DEF OpenOf
  <2>2. remaining[h] \in Amounts
        /\ \A k \in OpenOf("background") \ {h} : remaining'[k] = remaining[k]
    BY <1>2, <1>3
  <2>3. OpenOf("background") \in SUBSET Holds
    BY <1>2
  <2>4. Total(OpenOf("background"), remaining)
          = Total(OpenOf("background") \ {h}, remaining') + remaining[h]
    BY ONLY <2>1, <2>2, <2>3, TotalRemove
  <2> QED
    BY <1>1, <1>4, <1>5, <1>6, <2>4 DEF HeldBy
<1>7. CASE scope[h] # "background"
  <2>1. OpenOf("background")' = OpenOf("background")
    BY <1>1, <1>7 DEF OpenOf
  <2>2. Total(OpenOf("background"), remaining) = Total(OpenOf("background"), remaining')
    BY <1>2, <1>3, <1>7, TotalAgree DEF OpenOf
  <2> QED
    BY <1>4, <1>5, <1>7, <2>1, <2>2 DEF HeldBy
<1> QED
  BY <1>6, <1>7

\* A settlement replaces what a hold keeps by a bill that is no larger.
LEMMA SettleKeepsIInv ==
  ASSUME IInv, NEW h \in Holds, verdict[h] = "billed", Settle(h, bill[h])
  PROVE  IInv'
<1> USE LedgerAssumption
<1>0. TypeOK /\ HoldsConsistent
  BY DEF IInv
<1>a. /\ status[h] = "open"
      /\ status' = [status EXCEPT ![h] = "settled"]
      /\ spent' = [spent EXCEPT ![today][scope[h]] = @ + bill[h]]
      /\ remaining' = [remaining EXCEPT ![h] = 0]
      /\ settledOn' = [settledOn EXCEPT ![h] = today]
      /\ today' = today /\ policy' = policy /\ scope' = scope
      /\ unreserved' = unreserved /\ verdict' = verdict /\ bill' = bill
  BY DEF Settle, Book, worldVars
<1>b. /\ today \in Days /\ scope[h] \in Scopes
      /\ bill[h] \in Nat /\ remaining[h] \in Nat /\ bill[h] <= remaining[h]
      /\ settledOn[h] = NoDay
  BY <1>0, <1>a DEF TypeOK, HoldsConsistent, Amounts
<1>1. TypeOK'
  BY <1>0, <1>a, <1>b DEF TypeOK, Amounts
<1>2. HoldsConsistent'
  BY <1>0, <1>a, <1>b DEF TypeOK, HoldsConsistent, Days
<1>3. FutureUnspent'
  BY <1>0, <1>a, <1>b DEF IInv, TypeOK, FutureUnspent, Days
<1>4. /\ Held = Held' + remaining[h]
      /\ HeldBy("background") =
           HeldBy("background")' + IF scope[h] = "background" THEN remaining[h] ELSE 0
      /\ Held' \in Nat /\ HeldBy("background")' \in Nat
  BY <1>0, <1>a, CloseSums
<1>5. /\ spent'[today']["background"] = spent[today]["background"]
              + IF scope[h] = "background" THEN bill[h] ELSE 0
      /\ spent'[today']["compare"] = spent[today]["compare"]
              + IF scope[h] = "compare" THEN bill[h] ELSE 0
  BY <1>0, <1>a, <1>b DEF TypeOK, Scopes
<1>6. Settled(today)' = Settled(today) + bill[h]
  BY <1>0, <1>b, <1>5, SumsType DEF Settled, Scopes
<1>7. CeilingHolds' /\ CompareShareProtected'
  <2> SUFFICES ASSUME GuardAlwaysOn
               PROVE  /\ \E p \in Settings : (Settled(today) + Held)' <= p.limit
                      /\ \E p \in Settings :
                            (spent[today]["background"] + HeldBy("background"))'
                                <= p.background
    BY DEF CeilingHolds, CompareShareProtected, GuardAlwaysOn
  <2>1. PICK p \in Settings : Settled(today) + Held <= p.limit
    BY DEF IInv, CeilingHolds
  <2>2. PICK q \in Settings :
          spent[today]["background"] + HeldBy("background") <= q.background
    BY DEF IInv, CompareShareProtected
  <2>3. p.limit \in Nat /\ q.background \in Nat
    BY DEF SettingsRow
  <2>4. (Settled(today) + Held)' <= p.limit
    BY <1>0, <1>b, <1>4, <1>6, <2>1, <2>3, SumsType
  <2>5. (spent[today]["background"] + HeldBy("background"))' <= q.background
    BY <1>0, <1>b, <1>4, <1>5, <2>2, <2>3, SumsType
  <2> QED
    BY <2>4, <2>5
<1>8. LedgerIsExact'
  <2> SUFFICES ASSUME NEW d \in Days, NEW r \in Scopes
               PROVE  spent'[d][r] = Total(SettledOf(d, r)', bill')
    BY DEF LedgerIsExact
  <2>0. spent[d][r] = Total(SettledOf(d, r), bill)
    BY DEF IInv, LedgerIsExact
  <2>1. CASE d = today /\ r = scope[h]
    <3>1. SettledOf(d, r)' = SettledOf(d, r) \cup {h}
      BY <1>0, <1>a, <2>1 DEF TypeOK, SettledOf
    <3>2. SettledOf(d, r) \in SUBSET Holds /\ h \in Holds \ SettledOf(d, r)
      BY <1>b DEF SettledOf, NoDay, Days
    <3>3. Total(SettledOf(d, r) \cup {h}, bill) = Total(SettledOf(d, r), bill) + bill[h]
      BY <1>0, <3>2, TotalAdd DEF TypeOK
    <3>4. spent'[d][r] = spent[d][r] + bill[h]
      BY <1>0, <1>a, <1>b, <2>1 DEF TypeOK
    <3> QED
      BY <1>a, <2>0, <3>1, <3>3, <3>4
  <2>2. CASE ~(d = today /\ r = scope[h])
    <3>1. SettledOf(d, r)' = SettledOf(d, r)
      BY <1>0, <1>a, <1>b, <2>2 DEF TypeOK, SettledOf, NoDay, Days
    <3>2. spent'[d][r] = spent[d][r]
      BY <1>0, <1>a, <1>b, <2>2 DEF TypeOK
    <3> QED
      BY <1>a, <2>0, <3>1, <3>2
  <2> QED
    BY <2>1, <2>2
<1> QED
  BY <1>1, <1>2, <1>3, <1>7, <1>8 DEF IInv

\* A release frees what no provider will bill.
LEMMA ReleaseKeepsIInv ==
  ASSUME IInv, NEW h \in Holds, verdict[h] = "refused", status[h] = "open", Release(h)
  PROVE  IInv'
<1> USE LedgerAssumption
<1>0. TypeOK /\ HoldsConsistent
  BY DEF IInv
<1>a. /\ status' = [status EXCEPT ![h] = "settled"]
      /\ remaining' = [remaining EXCEPT ![h] = 0]
      /\ settledOn' = [settledOn EXCEPT ![h] = today]
      /\ today' = today /\ policy' = policy /\ scope' = scope /\ spent' = spent
      /\ unreserved' = unreserved /\ verdict' = verdict /\ bill' = bill
  BY DEF Release, worldVars, usageVars
<1>b. /\ today \in Days /\ remaining[h] \in Nat
      /\ bill[h] = 0 /\ settledOn[h] = NoDay
  BY <1>0 DEF TypeOK, HoldsConsistent, Amounts
<1>1. TypeOK'
  BY <1>0, <1>a, <1>b DEF TypeOK, Amounts
<1>2. HoldsConsistent'
  BY <1>0, <1>a, <1>b DEF TypeOK, HoldsConsistent, Days
<1>3. FutureUnspent'
  BY <1>a DEF IInv, FutureUnspent
<1>4. /\ Held = Held' + remaining[h]
      /\ HeldBy("background") =
           HeldBy("background")' + IF scope[h] = "background" THEN remaining[h] ELSE 0
      /\ Held' \in Nat /\ HeldBy("background")' \in Nat
  BY <1>0, <1>a, CloseSums
<1>5. /\ spent'[today']["background"] = spent[today]["background"]
      /\ Settled(today)' = Settled(today)
  BY <1>a DEF Settled
<1>6. CeilingHolds' /\ CompareShareProtected'
  <2> SUFFICES ASSUME GuardAlwaysOn
               PROVE  /\ \E p \in Settings : (Settled(today) + Held)' <= p.limit
                      /\ \E p \in Settings :
                            (spent[today]["background"] + HeldBy("background"))'
                                <= p.background
    BY DEF CeilingHolds, CompareShareProtected, GuardAlwaysOn
  <2>1. PICK p \in Settings : Settled(today) + Held <= p.limit
    BY DEF IInv, CeilingHolds
  <2>2. PICK q \in Settings :
          spent[today]["background"] + HeldBy("background") <= q.background
    BY DEF IInv, CompareShareProtected
  <2>3. p.limit \in Nat /\ q.background \in Nat
    BY DEF SettingsRow
  <2>4. (Settled(today) + Held)' <= p.limit
    BY <1>0, <1>b, <1>4, <1>5, <2>1, <2>3, SumsType
  <2>5. (spent[today]["background"] + HeldBy("background"))' <= q.background
    BY <1>0, <1>b, <1>4, <1>5, <2>2, <2>3, SumsType
  <2> QED
    BY <2>4, <2>5
<1>7. LedgerIsExact'
  <2> SUFFICES ASSUME NEW d \in Days, NEW r \in Scopes
               PROVE  spent[d][r] = Total(SettledOf(d, r)', bill)
    BY <1>a DEF LedgerIsExact
  <2>0. spent[d][r] = Total(SettledOf(d, r), bill) /\ spent[d][r] \in Nat
    BY <1>0 DEF IInv, LedgerIsExact, TypeOK
  <2>1. CASE d = today /\ r = scope[h]
    <3>1. SettledOf(d, r)' = SettledOf(d, r) \cup {h}
      BY <1>0, <1>a, <2>1 DEF TypeOK, SettledOf
    <3>2. SettledOf(d, r) \in SUBSET Holds /\ h \in Holds \ SettledOf(d, r)
      BY <1>b DEF SettledOf, NoDay, Days
    <3>3. Total(SettledOf(d, r) \cup {h}, bill) = Total(SettledOf(d, r), bill) + bill[h]
      BY <1>0, <3>2, TotalAdd DEF TypeOK
    <3> QED
      BY <1>b, <2>0, <3>1, <3>3
  <2>2. CASE ~(d = today /\ r = scope[h])
    <3>1. SettledOf(d, r)' = SettledOf(d, r)
      BY <1>0, <1>a, <1>b, <2>2 DEF TypeOK, SettledOf, NoDay, Days
    <3> QED
      BY <2>0, <3>1
  <2> QED
    BY <2>1, <2>2
<1> QED
  BY <1>1, <1>2, <1>3, <1>6, <1>7 DEF IInv

\* The two ceilings say nothing of the policy row, of usage recorded without a
\* hold, or of the provider.
LEMMA CeilingsFrame ==
  ASSUME CeilingHolds, CompareShareProtected, UNCHANGED <<today, spent, holdVars>>
  PROVE  CeilingHolds' /\ CompareShareProtected'
<1>1. Open' = Open /\ OpenOf("background")' = OpenOf("background")
  BY DEF holdVars, Open, OpenOf
<1>2. Held' = Held /\ HeldBy("background")' = HeldBy("background")
  BY <1>1 DEF holdVars, Held, HeldBy
<1> QED
  BY <1>2 DEF CeilingHolds, CompareShareProtected, GuardAlwaysOn, Settled

\* The provider's decision moves no money.
LEMMA ProviderKeepsIInv ==
  ASSUME IInv, NEW h \in Holds,
         Refuse(h) \/ \E c \in Amounts : Bill(h, c)
  PROVE  IInv'
<1> USE LedgerAssumption
<1>0. TypeOK /\ HoldsConsistent
  BY DEF IInv
<1>a. /\ status[h] = "open" /\ verdict[h] = "none"
      /\ UNCHANGED <<today, policy, usageVars, holdVars>>
  BY DEF Bill, Refuse
<1>b. \/ /\ verdict' = [verdict EXCEPT ![h] = "refused"] /\ bill' = bill
      \/ /\ verdict' = [verdict EXCEPT ![h] = "billed"]
         /\ \E c \in Amounts : c <= remaining[h] /\ bill' = [bill EXCEPT ![h] = c]
  BY DEF Bill, Refuse
<1>1. TypeOK'
  BY <1>0, <1>a, <1>b DEF TypeOK, usageVars, holdVars
<1>2. HoldsConsistent'
  BY <1>0, <1>a, <1>b DEF TypeOK, HoldsConsistent, holdVars
<1>3. FutureUnspent'
  BY <1>a DEF IInv, FutureUnspent, usageVars
<1>4. CeilingHolds' /\ CompareShareProtected'
  BY <1>a, CeilingsFrame DEF IInv, usageVars
<1>5. LedgerIsExact'
  <2> SUFFICES ASSUME NEW d \in Days, NEW s \in Scopes
               PROVE  spent[d][s] = Total(SettledOf(d, s)', bill')
    BY <1>a DEF LedgerIsExact, usageVars
  <2>1. SettledOf(d, s)' = SettledOf(d, s)
    BY <1>a DEF SettledOf, holdVars
  <2>2. h \notin SettledOf(d, s)
    BY <1>0, <1>a DEF HoldsConsistent, SettledOf, NoDay, Days
  <2>3. \A k \in SettledOf(d, s) : bill'[k] = bill[k]
    BY <1>0, <1>b, <2>2 DEF TypeOK, SettledOf
  <2>4. Total(SettledOf(d, s), bill') = Total(SettledOf(d, s), bill)
    BY <2>3, TotalAgree
  <2> QED
    BY <2>1, <2>4 DEF IInv, LedgerIsExact
<1> QED
  BY <1>1, <1>2, <1>3, <1>4, <1>5 DEF IInv

\* Steps that touch neither a hold nor the settled part of a day's row.
LEMMA OtherKeepsIInv ==
  ASSUME IInv,
         \/ \E c \in Amounts : RecordUnreserved(c)
         \/ \E p \in Settings : Deploy(p)
         \/ UNCHANGED ledgerVars
  PROVE  IInv'
<1> USE LedgerAssumption
<1>a. UNCHANGED <<today, spent, holdVars, worldVars>>
  BY DEF RecordUnreserved, Deploy, ledgerVars, usageVars
<1>b. policy' \in Settings /\ unreserved' \in [Days -> Nat]
  BY DEF IInv, TypeOK, RecordUnreserved, Deploy, ledgerVars, usageVars, Amounts
<1>1. TypeOK'
  BY <1>a, <1>b DEF IInv, TypeOK, holdVars, worldVars
<1>2. HoldsConsistent' /\ FutureUnspent'
  BY <1>a DEF IInv, HoldsConsistent, FutureUnspent, holdVars, worldVars
<1>3. CeilingHolds' /\ CompareShareProtected'
  BY <1>a, CeilingsFrame DEF IInv
<1>4. LedgerIsExact'
  BY <1>a DEF IInv, LedgerIsExact, SettledOf, holdVars, worldVars
<1> QED
  BY <1>1, <1>2, <1>3, <1>4 DEF IInv

\* At midnight the day's usage starts from nothing.
LEMMA NextDayKeepsIInv ==
  ASSUME IInv, NextDay
  PROVE  IInv'
<1> USE LedgerAssumption
<1>0. TypeOK /\ HoldsConsistent
  BY DEF IInv
<1>a. /\ today < LastDay /\ today' = today + 1
      /\ UNCHANGED <<policy, usageVars, holdVars, worldVars>>
  BY DEF NextDay
<1>b. today \in Nat /\ today' \in Days
  BY <1>0, <1>a DEF TypeOK, Days
<1>1. TypeOK'
  BY <1>0, <1>a, <1>b DEF TypeOK, usageVars, holdVars, worldVars
<1>2. HoldsConsistent'
  BY <1>0, <1>a, <1>b DEF TypeOK, HoldsConsistent, holdVars, worldVars
<1>3. FutureUnspent'
  BY <1>a, <1>b DEF IInv, FutureUnspent, Days, usageVars
<1>4. CeilingHolds' /\ CompareShareProtected'
  <2> SUFFICES ASSUME GuardAlwaysOn
               PROVE  /\ \E p \in Settings : (Settled(today) + Held)' <= p.limit
                      /\ \E p \in Settings :
                            (spent[today]["background"] + HeldBy("background"))'
                                <= p.background
    BY DEF CeilingHolds, CompareShareProtected, GuardAlwaysOn
  <2>1. PICK p \in Settings : Settled(today) + Held <= p.limit
    BY DEF IInv, CeilingHolds
  <2>2. PICK q \in Settings :
          spent[today]["background"] + HeldBy("background") <= q.background
    BY DEF IInv, CompareShareProtected
  <2>3. p.limit \in Nat /\ q.background \in Nat
    BY DEF SettingsRow
  <2>4. Open' = Open /\ OpenOf("background")' = OpenOf("background")
    BY <1>a DEF holdVars, Open, OpenOf
  <2>5. Held' = Held /\ HeldBy("background")' = HeldBy("background")
    BY <1>a, <2>4 DEF holdVars, Held, HeldBy
  <2>6. spent'[today']["background"] = 0 /\ spent'[today']["compare"] = 0
    BY <1>a, <1>b DEF IInv, FutureUnspent, Days, Scopes, usageVars
  <2>7. Settled(today)' = 0
    BY <2>6 DEF Settled
  <2> QED
    BY <1>0, <2>1, <2>2, <2>3, <2>5, <2>6, <2>7, SumsType
<1>5. LedgerIsExact'
  BY <1>a DEF IInv, LedgerIsExact, SettledOf, usageVars, holdVars, worldVars
<1> QED
  BY <1>1, <1>2, <1>3, <1>4, <1>5 DEF IInv

\* Every step of the ledger keeps the invariant; modules whose steps are steps of
\* the ledger cite this.
LEMMA LedgerStepKeepsIInv ==
  ASSUME IInv, [LedgerNext]_ledgerVars
  PROVE  IInv'
<1>1. CASE \E h \in Holds, s \in Scopes, a \in Amounts : Reserve(h, s, a)
  BY <1>1, ReserveKeepsIInv
<1>2. CASE \E h \in Holds : verdict[h] = "billed" /\ Settle(h, bill[h])
  BY <1>2, SettleKeepsIInv
<1>3. CASE \E h \in Holds : /\ verdict[h] = "refused" /\ status[h] = "open"
                            /\ Release(h)
  BY <1>3, ReleaseKeepsIInv
<1>4. CASE \E h \in Holds : Refuse(h) \/ \E c \in Amounts : Bill(h, c)
  BY <1>4, ProviderKeepsIInv
<1>5. CASE \/ \E c \in Amounts : RecordUnreserved(c)
           \/ \E p \in Settings : Deploy(p)
           \/ UNCHANGED ledgerVars
  BY <1>5, OtherKeepsIInv
<1>6. CASE NextDay
  BY <1>6, NextDayKeepsIInv
<1> QED
  BY <1>1, <1>2, <1>3, <1>4, <1>5, <1>6 DEF LedgerNext

\* The ledger's inductive invariant holds in every reachable state, whatever
\* the callers, the provider, the deployments and the calendar do.
THEOREM LedgerSafe == LedgerSpec => []IInv
BY InitIInv, LedgerStepKeepsIInv, PTL DEF LedgerSpec

-----------------------------------------------------------------------------
(* What the invariant says of each property.                                *)

\* Every column keeps its type: no sum of the ledger goes negative and a hold's
\* remainder stays within what one request may reserve.
THEOREM LedgerTypes == LedgerSpec => []TypeOK
<1>1. IInv => TypeOK
  BY DEF IInv
<1> QED
  BY <1>1, LedgerSafe, PTL

\* What is settled today and still held never exceeds a configured daily limit,
\* through settlements, releases, midnights and policy changes.
THEOREM BudgetIsEnforced == LedgerSpec => []CeilingHolds
<1>1. IInv => CeilingHolds
  BY DEF IInv
<1> QED
  BY <1>1, LedgerSafe, PTL

\* Background work stays below its own ceiling, so that the share of Compare is
\* there when a reader asks for one.
THEOREM CompareHasItsShare == LedgerSpec => []CompareShareProtected
<1>1. IInv => CompareShareProtected
  BY DEF IInv
<1> QED
  BY <1>1, LedgerSafe, PTL

\* A day's row is exactly what the provider billed for the holds settled that day.
THEOREM LedgerHasEveryCost == LedgerSpec => []LedgerIsExact
<1>1. IInv => LedgerIsExact
  BY DEF IInv
<1> QED
  BY <1>1, LedgerSafe, PTL

\* A request that may be billed keeps a hold that can pay for it.
THEOREM NoCostEscapes == LedgerSpec => []NothingUnaccounted
<1>1. IInv => NothingUnaccounted
  BY DEF IInv, HoldsConsistent, NothingUnaccounted
<1> QED
  BY <1>1, LedgerSafe, PTL

\* No step of the ledger touches a settled hold.
LEMMA StepKeepsSettled ==
  ASSUME TypeOK, [LedgerNext]_ledgerVars \/ \E h \in Holds : \E s, a : InsertHold(h, s, a),
         NEW k \in Holds, status[k] = "settled"
  PROVE  status'[k] = "settled" /\ settledOn'[k] = settledOn[k] /\ bill'[k] = bill[k]
<1>1. CASE \E h \in Holds : \E s, a : InsertHold(h, s, a)
  BY <1>1 DEF InsertHold, TypeOK, worldVars
<1>2. CASE \E h \in Holds, s \in Scopes, a \in Amounts : Reserve(h, s, a)
  BY <1>1, <1>2 DEF Reserve
<1>3. CASE \E h \in Holds : Settle(h, bill[h])
  BY <1>3 DEF Settle, Book, TypeOK, worldVars
<1>4. CASE \E h \in Holds : status[h] = "open" /\ Release(h)
  BY <1>4 DEF Release, TypeOK, worldVars
<1>5. CASE \E h \in Holds : Refuse(h) \/ \E c \in Amounts : Bill(h, c)
  BY <1>5 DEF Refuse, Bill, TypeOK, holdVars
<1>6. CASE \/ \E c \in Amounts : RecordUnreserved(c)
           \/ \E p \in Settings : Deploy(p)
           \/ NextDay
           \/ UNCHANGED ledgerVars
  BY <1>6 DEF RecordUnreserved, Deploy, NextDay, ledgerVars, holdVars, worldVars
<1> QED
  BY <1>1, <1>2, <1>3, <1>4, <1>5, <1>6 DEF LedgerNext

\* Once settled, a hold and the cost charged for it never change.
THEOREM SettlementIsFinal == LedgerSpec => SettledIsFinal
<1>1. TypeOK /\ [LedgerNext]_ledgerVars =>
        \A h \in Holds : status[h] = "settled" =>
          /\ status'[h] = "settled" /\ settledOn'[h] = settledOn[h]
          /\ bill'[h] = bill[h]
  BY StepKeepsSettled
<1> QED
  BY <1>1, LedgerTypes, PTL DEF LedgerSpec, SettledIsFinal
=============================================================================
