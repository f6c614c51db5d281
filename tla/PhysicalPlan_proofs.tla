------------------------- MODULE PhysicalPlan_proofs -------------------------
(***************************************************************************)
(* The reserve a plan may spend is what its append-only ledger says, for   *)
(* any set of keys and amounts and any sequence of replayed events; and a  *)
(* plan loses no money and is done when carried out, for any names,        *)
(* positions, weights and amounts.                                         *)
(***************************************************************************)
EXTENDS PhysicalPlan, FiniteSums

Balance(i) == IF i = 1 THEN 0 ELSE rows[i - 1].after

\* ReserveIsLedger with the types that its arithmetic needs.
LedgerType ==
  /\ reserve \in Nat
  /\ rows \in Seq([key: Key, amount: Int, before: Int, after: Int])
LedgerInv == LedgerType /\ ReserveIsLedger

LEMMA EventKeepsLedger ==
  ASSUME LedgerInv, NEW k \in Key, NEW a \in Amount, ReserveEvent(k, a)
  PROVE  LedgerInv'
<1> DEFINE row == [key |-> k, amount |-> a, before |-> reserve, after |-> reserve + a]
<1>0. a \in Int  BY ConstantsAssumption
<1>1. /\ reserve \in Nat /\ reserve' = reserve + a /\ reserve + a >= 0
      /\ rows' = Append(rows, row)
      /\ \A i \in DOMAIN rows : rows[i].key # k
  BY DEF ReserveEvent, LedgerInv, LedgerType, Booked
<1>2. row \in [key: Key, amount: Int, before: Int, after: Int]  BY <1>0, <1>1
<1>3. rows \in Seq([key: Key, amount: Int, before: Int, after: Int])
  BY DEF LedgerInv, LedgerType
<1>n. PICK n \in Nat : n = Len(rows)  BY <1>3
<1>4. LedgerType'  BY <1>0, <1>1, <1>2, <1>3, <1>n DEF LedgerType
<1>5. /\ Len(rows') = n + 1 /\ DOMAIN rows' = 1..(n + 1) /\ DOMAIN rows = 1..n
      /\ rows'[n + 1] = row /\ \A i \in 1..n : rows'[i] = rows[i]
  BY <1>1, <1>2, <1>3, <1>n
<1>6. \A i \in 1..(n + 1) : Balance(i)' = Balance(i)
  BY <1>n, <1>5 DEF Balance
<1>7. Balance(n + 1) = reserve
  BY <1>n DEF LedgerInv, ReserveIsLedger, Balance
<1>8. Balance(n + 2)' = reserve'
  <2>1. n + 2 # 1 /\ (n + 2) - 1 = n + 1  BY <1>n
  <2>2. Balance(n + 2)' = rows'[n + 1].after  BY <2>1 DEF Balance
  <2>3. QED  BY <1>1, <1>5, <2>2
<1>9. \A i \in DOMAIN rows' : /\ rows'[i].before = Balance(i)'
                              /\ rows'[i].after = Balance(i)' + rows'[i].amount
  <2>1. \A i \in 1..n : /\ rows[i].before = Balance(i)
                        /\ rows[i].after = Balance(i) + rows[i].amount
    BY <1>5 DEF LedgerInv, ReserveIsLedger, Balance
  <2>2. row.before = reserve /\ row.after = reserve + row.amount  OBVIOUS
  <2>3. \A i \in 1..(n + 1) : i \in 1..n \/ i = n + 1  BY <1>n
  <2>4. QED  BY <1>n, <1>5, <1>6, <1>7, <2>1, <2>2, <2>3
<1>10. \A i, j \in DOMAIN rows' : rows'[i].key = rows'[j].key => i = j
  <2>1. \A i, j \in 1..n : rows[i].key = rows[j].key => i = j
    BY <1>5 DEF LedgerInv, ReserveIsLedger
  <2>2. \A i \in 1..(n + 1) : i \in 1..n \/ i = n + 1  BY <1>n
  <2>3. QED  BY <1>1, <1>5, <2>1, <2>2
<1>11. ReserveIsLedger'
  <2>1. reserve' >= 0  BY <1>1
  <2>2. Len(rows') + 1 = n + 2  BY <1>n, <1>5
  <2>3. reserve' = Balance(Len(rows) + 1)'  BY <1>8, <2>2 DEF Balance
  <2>4. QED  BY <1>9, <1>10, <2>1, <2>3 DEF ReserveIsLedger, Balance
<1>12. QED  BY <1>4, <1>11 DEF LedgerInv

LEMMA LedgerInvariant == Spec => []LedgerInv
<1>1. Init => LedgerInv
  BY DEF Init, LedgerInv, LedgerType, ReserveIsLedger
<1>2. LedgerInv /\ [Next]_vars => LedgerInv'
  <2> SUFFICES ASSUME LedgerInv, [Next]_vars PROVE LedgerInv'
    OBVIOUS
  <2>1. CASE \E k \in Key, a \in Amount : ReserveEvent(k, a)
    BY <2>1, EventKeepsLedger
  <2>2. CASE UNCHANGED <<reserve, rows>>
    BY <2>2 DEF LedgerInv, LedgerType, ReserveIsLedger
  <2>3. QED  BY <2>1, <2>2 DEF Next, Account, vars
<1>3. QED  BY <1>1, <1>2, PTL DEF Spec

\* The reserve is the balance of its ledger: each key booked once, every row
\* with the balances around it, never overdrawn, whatever is replayed.
THEOREM ReserveIsItsLedger == Spec => []ReserveIsLedger
<1>1. LedgerInv => ReserveIsLedger  BY DEF LedgerInv
<1>2. QED  BY <1>1, LedgerInvariant, PTL

-----------------------------------------------------------------------------
(* Sums and shares *)

LEMMA TotalIsSum ==
  ASSUME NEW f
  PROVE  Total(f) = SumOf(f, DOMAIN f)
BY DEF Total, SumOf

LEMMA Quotient ==
  ASSUME NEW a \in Nat, NEW d \in Nat \ {0}
  PROVE  a \div d \in Nat /\ d * (a \div d) <= a /\ a < d * (a \div d) + d
OBVIOUS

ShareOf(amount, w) == [s \in DOMAIN w |-> (amount * w[s]) \div Total(w)]
SharesOver(amount, w, S, g) ==
  g = [s \in SUBSET S |-> IF s = {} THEN 0
                          ELSE (amount * w[Member(s)]) \div Total(w) + g[s \ {Member(s)}]]

LEMMA SharesAreSums ==
  ASSUME NEW amount, NEW w, NEW S \in SUBSET DOMAIN w, IsFiniteSet(S)
  PROVE  (CHOOSE g : SharesOver(amount, w, S, g))[S] = SumOf(ShareOf(amount, w), S)
<1> DEFINE f == ShareOf(amount, w)
<1>1. \A s \in SUBSET S : s # {} => f[Member(s)] = (amount * w[Member(s)]) \div Total(w)
  BY MemberIsOne DEF ShareOf
<1> HIDE DEF f
<1>2. \A g : SharesOver(amount, w, S, g) <=> SumsOver(f, S, g)
  BY <1>1 DEF SharesOver, SumsOver
<1>3. PICK g : SumsOver(f, S, g) /\ g[S] = SumOf(f, S)  BY SumsExist
<1>4. SumsOver(f, S, CHOOSE h : SharesOver(amount, w, S, h))  BY <1>2, <1>3
<1>5. (CHOOSE h : SharesOver(amount, w, S, h))[S] = SumOf(f, S)  BY <1>3, <1>4, SumsAgree
<1>6. QED  BY <1>5 DEF f

LEMMA AllocateIs ==
  ASSUME NEW amount \in Nat \ {0}, NEW w, IsFiniteSet(DOMAIN w),
         NEW last, last = Max(DOMAIN w)
  PROVE  /\ DOMAIN Allocate(amount, w) = DOMAIN w
         /\ \A s \in DOMAIN w \ {last} : Allocate(amount, w)[s] = ShareOf(amount, w)[s]
         /\ last \in DOMAIN w =>
              Allocate(amount, w)[last] =
                amount - SumOf(ShareOf(amount, w), DOMAIN w \ {last})
<1>2. PICK S : S = DOMAIN w \ {last}  OBVIOUS
<1>3. (CHOOSE g : SharesOver(amount, w, S, g))[S] = SumOf(ShareOf(amount, w), S)
  <2>1. IsFiniteSet(S) /\ S \in SUBSET DOMAIN w  BY <1>2, FS_Subset
  <2>2. QED  BY <2>1, SharesAreSums
<1>4. Allocate(amount, w) =
        [s \in DOMAIN w |->
           IF s = last THEN amount - (CHOOSE g : SharesOver(amount, w, S, g))[S]
             ELSE (amount * w[s]) \div Total(w)]
  BY <1>2 DEF Allocate, MapThenSumSet, MapThenFoldSet, SharesOver, Member
<1>5. QED  BY <1>2, <1>3, <1>4 DEF ShareOf

\* An allocation divides exactly what it is given.
LEMMA AllocateIsExact ==
  ASSUME NEW amount \in Nat \ {0}, NEW w, IsFiniteSet(DOMAIN w), DOMAIN w # {},
         \A s \in DOMAIN w : s \in Nat /\ w[s] \in Nat, Total(w) # 0
  PROVE  /\ DOMAIN Allocate(amount, w) = DOMAIN w
         /\ \A s \in DOMAIN w : Allocate(amount, w)[s] \in Int
         /\ SumOf(Allocate(amount, w), DOMAIN w) = amount
         /\ \E last \in DOMAIN w : \A s \in DOMAIN w \ {last} :
              Allocate(amount, w)[s] = (amount * w[s]) \div Total(w)
<1> DEFINE a == Allocate(amount, w)
           f == ShareOf(amount, w)
<1>1. PICK last \in DOMAIN w : last = Max(DOMAIN w)  BY MaxIsMember
<1>2. /\ DOMAIN a = DOMAIN w /\ \A s \in DOMAIN w \ {last} : a[s] = f[s]
      /\ a[last] = amount - SumOf(f, DOMAIN w \ {last})
  BY <1>1, AllocateIs
<1>3. Total(w) \in Nat \ {0}  BY TotalIsSum, SumIsNat
<1>4. \A s \in DOMAIN w : f[s] = (amount * w[s]) \div Total(w) /\ f[s] \in Int
  <2> SUFFICES ASSUME NEW s \in DOMAIN w
               PROVE  f[s] = (amount * w[s]) \div Total(w) /\ f[s] \in Int
    OBVIOUS
  <2>1. f[s] = (amount * w[s]) \div Total(w)  BY DEF ShareOf
  <2>2. PICK n \in Nat : n = amount * w[s]  OBVIOUS
  <2>3. n \div Total(w) \in Nat  BY <1>3, Quotient
  <2>4. QED  BY <2>1, <2>2, <2>3
<1> HIDE DEF a, f
<1>5. IsFiniteSet(DOMAIN w \ {last})  BY FS_Subset
<1>6. SumOf(f, DOMAIN w \ {last}) \in Int  BY <1>4, <1>5, SumTakes
<1>7. DOMAIN a = DOMAIN w /\ \A s \in DOMAIN w : a[s] \in Int  BY <1>2, <1>4, <1>6
<1>8. \A s \in DOMAIN w \ {last} : a[s] = f[s]  BY <1>2, <1>4
<1>9. SumOf(a, DOMAIN w \ {last}) = SumOf(f, DOMAIN w \ {last})  BY <1>5, <1>8, SumAgrees
<1>10. SumOf(a, DOMAIN w) = a[last] + SumOf(a, DOMAIN w \ {last})  BY <1>7, SumTakes
<1>11. a[last] = amount - SumOf(f, DOMAIN w \ {last})  BY <1>2
<1>12. SumOf(a, DOMAIN w) = amount  BY <1>6, <1>9, <1>10, <1>11
<1>13. \E x \in DOMAIN w : \A s \in DOMAIN w \ {x} : a[s] = (amount * w[s]) \div Total(w)
  BY <1>2, <1>4
<1>14. QED  BY <1>7, <1>12, <1>13 DEF a

\* g is what sales and purchases make of the holdings h.
Trades(h, sales, buys, g) ==
  /\ IsFiniteSet(DOMAIN h) /\ \A s \in DOMAIN h : h[s] \in Int
  /\ DOMAIN sales \in SUBSET DOMAIN h /\ \A s \in DOMAIN sales : sales[s] \in Int
  /\ IsFiniteSet(DOMAIN buys) /\ \A s \in DOMAIN buys : buys[s] \in Int
  /\ DOMAIN g = DOMAIN h \cup DOMAIN buys
  /\ \A s \in DOMAIN g : g[s] = (IF s \in DOMAIN h THEN h[s] ELSE 0)
                                - Delta(sales, s) + Delta(buys, s)

LEMMA AfterTotal ==
  ASSUME NEW h, NEW sales, NEW buys, NEW g, Trades(h, sales, buys, g)
  PROVE  /\ Total(g) \in Int
         /\ Total(g) = Total(h) - SumOf(sales, DOMAIN sales) + SumOf(buys, DOMAIN buys)
<1> DEFINE expected == DOMAIN h
           T == expected \cup DOMAIN buys
           H == [s \in T |-> IF s \in expected THEN h[s] ELSE 0]
           S == [s \in T |-> Delta(sales, s)]
           B == [s \in T |-> Delta(buys, s)]
           K == [s \in T |-> H[s] + B[s]]
<1>0. /\ IsFiniteSet(expected) /\ \A s \in expected : h[s] \in Int
      /\ DOMAIN sales \in SUBSET expected /\ \A s \in DOMAIN sales : sales[s] \in Int
      /\ IsFiniteSet(DOMAIN buys) /\ \A s \in DOMAIN buys : buys[s] \in Int
      /\ DOMAIN g = T
      /\ \A s \in DOMAIN g : g[s] = (IF s \in expected THEN h[s] ELSE 0)
                                    - Delta(sales, s) + Delta(buys, s)
  BY DEF Trades
<1> HIDE DEF expected
<1>1. IsFiniteSet(T) /\ expected \in SUBSET T /\ DOMAIN sales \in SUBSET T
      /\ DOMAIN buys \in SUBSET T
  BY <1>0, FS_Union
<1>2. \A s \in T : H[s] \in Int /\ S[s] \in Int /\ B[s] \in Int  BY <1>0 DEF Delta
<1>3. DOMAIN g = T /\ \A s \in T : g[s] = H[s] - S[s] + B[s]
  BY <1>0
<1>4. \A s \in T : g[s] \in Int /\ K[s] \in Int /\ K[s] = H[s] + B[s] /\ K[s] = g[s] + S[s]
  <2>1. \A s \in T : K[s] = H[s] + B[s]  OBVIOUS
  <2> HIDE DEF T, H, S, B, K
  <2>2. QED  BY <1>2, <1>3, <2>1
<1>5. \A s \in expected : H[s] = h[s]  OBVIOUS
<1>6. \A s \in T \ expected : H[s] = 0  OBVIOUS
<1>7. \A s \in DOMAIN sales : S[s] = sales[s]  BY <1>1 DEF Delta
<1>8. \A s \in T \ DOMAIN sales : S[s] = 0  BY DEF Delta
<1>9. \A s \in DOMAIN buys : B[s] = buys[s]  BY <1>1 DEF Delta
<1>10. \A s \in T \ DOMAIN buys : B[s] = 0  BY DEF Delta
<1>11. IsFiniteSet(DOMAIN sales)  BY <1>0, FS_Subset
<1> HIDE DEF T, H, S, B, K
<1>12. SumOf(H, T) = SumOf(h, expected)
  <2>1. SumOf(H, T) = SumOf(H, expected)  BY <1>1, <1>2, <1>6, SumOverMore
  <2>2. SumOf(H, expected) = SumOf(h, expected)  BY <1>0, <1>5, SumAgrees
  <2>3. QED  BY <2>1, <2>2
<1>13. SumOf(S, T) = SumOf(sales, DOMAIN sales)
  <2>1. SumOf(S, T) = SumOf(S, DOMAIN sales)  BY <1>1, <1>2, <1>8, SumOverMore
  <2>2. SumOf(S, DOMAIN sales) = SumOf(sales, DOMAIN sales)  BY <1>7, <1>11, SumAgrees
  <2>3. QED  BY <2>1, <2>2
<1>14. SumOf(B, T) = SumOf(buys, DOMAIN buys)
  <2>1. SumOf(B, T) = SumOf(B, DOMAIN buys)  BY <1>1, <1>2, <1>10, SumOverMore
  <2>2. SumOf(B, DOMAIN buys) = SumOf(buys, DOMAIN buys)  BY <1>0, <1>9, SumAgrees
  <2>3. QED  BY <2>1, <2>2
<1>15. SumOf(K, T) = SumOf(H, T) + SumOf(B, T)
  <2>1. \A s \in T : H[s] \in Int /\ B[s] \in Int /\ K[s] = H[s] + B[s]  BY <1>2, <1>4
  <2>2. QED  BY <1>1, <2>1, SumOfBoth
<1>16. SumOf(K, T) = SumOf(g, T) + SumOf(S, T)
  <2>1. \A s \in T : g[s] \in Int /\ S[s] \in Int /\ K[s] = g[s] + S[s]  BY <1>2, <1>4
  <2>2. QED  BY <1>1, <2>1, SumOfBoth
<1>17. SumOf(g, T) \in Int /\ SumOf(H, T) \in Int /\ SumOf(S, T) \in Int /\ SumOf(B, T) \in Int
  BY <1>1, <1>2, <1>4, SumTakes
<1>18. Total(g) = SumOf(g, T) /\ Total(h) = SumOf(h, expected)
  BY <1>0, TotalIsSum DEF expected
<1>19. QED  BY <1>12, <1>13, <1>14, <1>15, <1>16, <1>17, <1>18

-----------------------------------------------------------------------------
(* construct_physical_target *)

LEMMA PairHasTwo ==
  ASSUME NEW S, IsFiniteSet(S), Cardinality(S) = 2
  PROVE  \E a, b \in S : a # b /\ S = {a, b}
<1>1. PICK a \in S : TRUE  BY FS_EmptySet
<1>2. IsFiniteSet(S \ {a}) /\ Cardinality(S \ {a}) = 1  BY FS_RemoveElement
<1>3. PICK b \in S \ {a} : TRUE  BY <1>2, FS_EmptySet
<1>4. IsFiniteSet((S \ {a}) \ {b}) /\ Cardinality((S \ {a}) \ {b}) = 0
  BY <1>2, <1>3, FS_RemoveElement
<1>5. (S \ {a}) \ {b} = {}  BY <1>4, FS_EmptySet
<1>6. QED  BY <1>3, <1>5

\* A strategy that is worth the same and has its recovery sleeve has no plan.
LEMMA NothingLeft ==
  ASSUME NEW weight, NEW g, NEW recovery, NEW bucket, NEW returns,
         NEW nav, nav # 0, Total(g) + recovery + bucket = nav,
         (nav * weight) \div One - recovery = 0
  PROVE  Construct(weight, g, recovery, bucket, returns) = Plan(0, <<>>, 0, 0, <<>>)
BY DEF Construct

\* Of two names, neither sells more than it has.
LEMMA NoOversale ==
  ASSUME NEW sale \in Nat \ {0}, NEW w, IsFiniteSet(DOMAIN w), DOMAIN w # {},
         \A s \in DOMAIN w : s \in Nat /\ w[s] \in Nat,
         NEW E, \E a, b \in E : a # b /\ E = {a, b}, DOMAIN w \in SUBSET E,
         sale <= Total(w)
  PROVE  \A s \in DOMAIN w : Allocate(sale, w)[s] <= w[s]
<1> DEFINE alloc == Allocate(sale, w)
<1>1. PICK t \in Nat \ {0} : t = Total(w)  BY TotalIsSum, SumIsNat
<1>2. /\ \A s \in DOMAIN w : alloc[s] \in Int
      /\ SumOf(alloc, DOMAIN w) = sale
      /\ \E last \in DOMAIN w : \A s \in DOMAIN w \ {last} : alloc[s] = (sale * w[s]) \div t
  BY <1>1, AllocateIsExact
<1> HIDE DEF alloc
<1>3. PICK last \in DOMAIN w : \A s \in DOMAIN w \ {last} : alloc[s] = (sale * w[s]) \div t
  BY <1>2
<1>4. ASSUME NEW s \in DOMAIN w \ {last} PROVE alloc[s] <= w[s]
  <2>1. PICK n \in Nat : n = w[s]  OBVIOUS
  <2>2. PICK x \in Nat : x = sale * n  OBVIOUS
  <2>3. x <= t * n  BY <1>1, <2>2
  <2>4. x \div t \in Nat /\ t * (x \div t) <= x  BY Quotient
  <2>5. x \div t <= n
    <3> SUFFICES ASSUME x \div t >= n + 1 PROVE FALSE
      BY <2>4
    <3>1. PICK q \in Nat : q = x \div t  BY <2>4
    <3>2. t * q >= t * (n + 1)  BY <3>1
    <3>3. t * (n + 1) = t * n + t  OBVIOUS
    <3>4. QED  BY <2>3, <2>4, <3>1, <3>2, <3>3
  <2>6. QED  BY <1>3, <2>1, <2>2, <2>5
<1>5. alloc[last] <= w[last]
  <2>1. SumOf(alloc, DOMAIN w) = alloc[last] + SumOf(alloc, DOMAIN w \ {last})
    BY <1>2, SumTakes
  <2>2. SumOf(w, DOMAIN w) = w[last] + SumOf(w, DOMAIN w \ {last}) /\ t = SumOf(w, DOMAIN w)
    BY <1>1, TotalIsSum, SumTakes
  <2>3. CASE DOMAIN w \ {last} = {}
    <3>1. SumOf(alloc, {}) = 0  BY <1>2, SumTakes
    <3>2. SumOf(w, {}) = 0
      <4>1. \A x \in DOMAIN w : w[x] \in Int  OBVIOUS
      <4>2. QED  BY <4>1, SumTakes
    <3>3. PICK m \in Nat, y \in Int : m = w[last] /\ y = alloc[last]  BY <1>2
    <3>4. y = sale /\ t = m
      <4>1. SumOf(alloc, DOMAIN w \ {last}) = 0  BY <2>3, <3>1
      <4>2. SumOf(w, DOMAIN w \ {last}) = 0  BY <2>3, <3>2
      <4>3. sale = y + 0 /\ t = m + 0  BY <1>2, <2>1, <2>2, <3>3, <4>1, <4>2
      <4>4. QED  BY <4>3
    <3>5. QED  BY <1>1, <3>3, <3>4
  <2>4. CASE DOMAIN w \ {last} # {}
    <3>1. PICK s \in DOMAIN w : s # last /\ DOMAIN w \ {last} = {s}  BY <2>4
    <3>2. IsFiniteSet({s}) /\ {s} \ {s} = {}  BY FS_Singleton
    <3>3. \A x \in {s} : alloc[x] \in Int /\ w[x] \in Int  BY <1>2
    <3>4. SumOf(alloc, {s}) = alloc[s] + SumOf(alloc, {}) /\ SumOf(alloc, {}) = 0
      BY <3>2, <3>3, SumTakes
    <3>5. SumOf(w, {s}) = w[s] + SumOf(w, {}) /\ SumOf(w, {}) = 0
      BY <3>2, <3>3, SumTakes
    <3>6. PICK m \in Nat, n \in Nat : m = w[last] /\ n = w[s]  BY <3>1
    <3>7. t = m + n
      <4>1. SumOf(w, DOMAIN w \ {last}) = n  BY <3>1, <3>5, <3>6
      <4>2. QED  BY <2>2, <3>6, <4>1
    <3>p. PICK x \in Nat : x = sale * n  OBVIOUS
    <3>q. x \div t \in Nat /\ x < t * (x \div t) + t  BY Quotient
    <3>8. PICK q \in Nat : q = x \div t  BY <3>q
    <3>9. q \in Nat /\ x < t * q + t  BY <3>q, <3>8
    <3>10. alloc[s] = q  BY <1>3, <3>1, <3>6, <3>p, <3>8
    <3>11. alloc[last] = sale - q
      <4>1. SumOf(alloc, DOMAIN w \ {last}) = alloc[s] + 0  BY <3>1, <3>4
      <4>2. SumOf(alloc, DOMAIN w \ {last}) = q  BY <3>9, <3>10, <4>1
      <4>3. PICK y \in Int : y = alloc[last]  BY <1>2
      <4>4. sale = y + q  BY <1>2, <2>1, <4>2, <4>3
      <4>5. QED  BY <4>3, <4>4
    <3>12. sale - q <= m
      <4> SUFFICES ASSUME sale >= m + q + 1 PROVE FALSE
        BY <3>9
      <4>1. sale <= m + n  BY <1>1, <3>7
      <4>2. PICK d \in Nat : n = q + d + 1  BY <4>1, <3>9
      <4>3. t = m + q + d + 1  BY <3>7, <4>2
      <4>4. PICK e \in Nat : sale = m + q + 1 + e  BY <3>9
      <4>5. x = (m + q + 1 + e) * (q + d + 1)  BY <3>p, <4>2, <4>4
      <4>6. t * q + t = (m + q + d + 1) * (q + 1)  BY <4>3, <3>9
      <4>7. (m + q + 1 + e) * (q + d + 1) =
              (m + q + d + 1) * (q + 1) + m * d + e * (q + d + 1)
        BY <3>9
      <4>8. m * d \in Nat /\ e * (q + d + 1) \in Nat  BY <3>9
      <4>9. x >= t * q + t  BY <4>5, <4>6, <4>7, <4>8, <3>9
      <4>10. QED  BY <3>9, <4>9
    <3>13. QED  BY <3>6, <3>11, <3>12
  <2>5. QED  BY <2>3, <2>4
<1>6. QED  BY <1>4, <1>5 DEF alloc

-----------------------------------------------------------------------------
(* build_demo_physical_plan *)

PositionType ==
  /\ DOMAIN position \subseteq Name \cup {Recovery}
  /\ \A t \in DOMAIN position : position[t] \in Holding

\* What PlanIsSound asks of one plan.
SoundFor(weight, expected, returns) ==
  LET plan == Build(weight, expected, returns)
      after == After(plan, expected)
  IN plan # Refused =>
       /\ after.reserve >= 0 /\ after.recovery >= 0
       /\ DOMAIN plan.sp2_sales # {} => after.reserve = 0
       /\ \A s \in DOMAIN plan.sp2_sales : after.sp2[s] >= -1
       /\ Construct(weight, after.sp2, after.recovery, after.reserve, returns)
            = Plan(0, <<>>, 0, 0, <<>>)

\* A plan that moves what its steps pay, from what there is.
Funded(weight, expected, returns, used, sales, buy, sell, buys) ==
  LET h == [t \in expected |-> position[t].value]
      recovery == IF Recovery \in DOMAIN position THEN position[Recovery].value ELSE 0
      nav == Total(h) + recovery + reserve
      goal == (nav * weight) \div One
  IN /\ nav # 0 /\ recovery \in Int /\ Total(h) \in Int /\ goal \in Nat
     /\ used \in Int /\ used <= reserve
     /\ DOMAIN sales \in SUBSET expected
     /\ \A s \in DOMAIN sales : sales[s] \in Int /\ sales[s] <= h[s]
     /\ DOMAIN sales # {} => used = reserve /\ DOMAIN buys = {}
     /\ IsFiniteSet(DOMAIN buys) /\ \A s \in DOMAIN buys : buys[s] \in Int
     /\ buy \in Int /\ sell \in Int /\ recovery + buy - sell = goal
     /\ buy - sell = used + SumOf(sales, DOMAIN sales) - SumOf(buys, DOMAIN buys)
     /\ Build(weight, expected, returns) = Plan(used, sales, buy, sell, buys)

LEMMA FundedIsSound ==
  ASSUME reserve \in Nat, NEW expected, IsFiniteSet(expected),
         \A t \in expected : position[t].value \in Nat,
         NEW weight, NEW returns, NEW used, NEW sales, NEW buy, NEW sell, NEW buys,
         Funded(weight, expected, returns, used, sales, buy, sell, buys)
  PROVE  SoundFor(weight, expected, returns)
<1> DEFINE h == [t \in expected |-> position[t].value]
           recovery == IF Recovery \in DOMAIN position THEN position[Recovery].value ELSE 0
           nav == Total(h) + recovery + reserve
           goal == (nav * weight) \div One
           plan == Plan(used, sales, buy, sell, buys)
           after == After(plan, expected)
<1>f. /\ nav # 0 /\ recovery \in Int /\ Total(h) \in Int /\ goal \in Nat
      /\ used \in Int /\ used <= reserve
      /\ DOMAIN sales \in SUBSET expected
      /\ \A s \in DOMAIN sales : sales[s] \in Int /\ sales[s] <= h[s]
      /\ DOMAIN sales # {} => used = reserve /\ DOMAIN buys = {}
      /\ IsFiniteSet(DOMAIN buys) /\ \A s \in DOMAIN buys : buys[s] \in Int
      /\ buy \in Int /\ sell \in Int /\ recovery + buy - sell = goal
      /\ buy - sell = used + SumOf(sales, DOMAIN sales) - SumOf(buys, DOMAIN buys)
      /\ Build(weight, expected, returns) = plan
  BY DEF Funded
<1>h. DOMAIN h = expected /\ \A t \in expected : h[t] = position[t].value /\ h[t] \in Nat
  OBVIOUS
<1>1. /\ plan.reserve_used = used /\ plan.sp2_sales = sales /\ plan.recovery_buy = buy
      /\ plan.recovery_sell = sell /\ plan.sp2_buys = buys
  BY DEF Plan
<1>3. /\ after.recovery = recovery + buy - sell /\ after.reserve = reserve - used
      /\ after.sp2 = [s \in expected \cup DOMAIN buys |->
                        (IF s \in expected THEN position[s].value ELSE 0)
                          - Delta(sales, s) + Delta(buys, s)]
  BY <1>1 DEF After
<1> HIDE DEF after, plan, h, recovery
<1>4. PICK g : g = after.sp2  OBVIOUS
<1>5. /\ DOMAIN g = expected \cup DOMAIN buys
      /\ \A s \in DOMAIN g :
           g[s] = (IF s \in expected THEN h[s] ELSE 0) - Delta(sales, s) + Delta(buys, s)
  BY <1>3, <1>4, <1>h
<1>6. /\ Total(g) \in Int
      /\ Total(g) = Total(h) - SumOf(sales, DOMAIN sales) + SumOf(buys, DOMAIN buys)
  <2>1. Trades(h, sales, buys, g)  BY <1>f, <1>h, <1>5 DEF Trades
  <2>2. QED  BY <2>1, AfterTotal
<1>7. Total(g) + after.recovery + after.reserve = nav
  <2>1. IsFiniteSet(DOMAIN sales)  BY <1>f, FS_Subset
  <2>2. SumOf(sales, DOMAIN sales) \in Int /\ SumOf(buys, DOMAIN buys) \in Int
    BY <1>f, <2>1, SumTakes
  <2>3. PICK x \in Int, y \in Int, z \in Int :
          x = Total(h) /\ y = SumOf(sales, DOMAIN sales) /\ z = SumOf(buys, DOMAIN buys)
    BY <1>f, <2>2
  <2>4. /\ Total(g) = x - y + z /\ buy - sell = used + y - z
        /\ nav = x + recovery + reserve
    BY <1>f, <1>6, <2>3
  <2> HIDE DEF nav
  <2>5. x - y + z + (recovery + buy - sell) + (reserve - used) = x + recovery + reserve
    BY <1>f, <2>4
  <2>6. QED  BY <1>3, <2>4, <2>5
<1>8. (nav * weight) \div One - after.recovery = 0  BY <1>f, <1>3
<1> HIDE DEF nav
<1>9. Construct(weight, g, after.recovery, after.reserve, returns)
        = Plan(0, <<>>, 0, 0, <<>>)
  BY <1>f, <1>7, <1>8, NothingLeft
<1>10. \A s \in DOMAIN sales : g[s] >= -1
  <2> SUFFICES ASSUME NEW s \in DOMAIN sales PROVE g[s] >= -1
    OBVIOUS
  <2>1. s \in expected /\ s \notin DOMAIN buys  BY <1>f
  <2>2. Delta(sales, s) = sales[s] /\ Delta(buys, s) = 0  BY <2>1 DEF Delta
  <2>3. g[s] = h[s] - sales[s] + 0  BY <1>5, <2>1, <2>2
  <2>4. h[s] \in Nat /\ sales[s] \in Int /\ sales[s] <= h[s]  BY <1>f, <1>h, <2>1
  <2>5. QED  BY <2>3, <2>4
<1>11. /\ after.reserve >= 0 /\ after.recovery >= 0
       /\ DOMAIN sales # {} => after.reserve = 0
  BY <1>f, <1>3
<1>12. QED  BY <1>f, <1>1, <1>4, <1>9, <1>10, <1>11 DEF SoundFor, after

LEMMA NoneIsNothing ==
  /\ DOMAIN <<>> = {} /\ IsFiniteSet({})
  /\ SumOf(<<>>, {}) = 0
<1>1. DOMAIN <<>> = {} /\ IsFiniteSet({})  BY FS_EmptySet
<1>2. \A x \in {} : <<>>[x] \in Int  OBVIOUS
<1>3. SumOf(<<>>, {}) = 0  BY <1>1, <1>2, SumTakes
<1>4. QED  BY <1>1, <1>3

LEMMA PlansAreSound ==
  ASSUME PositionType, reserve \in Nat, NEW weight \in 0..One,
         NEW expected \in kSubset(2, Name), NEW returns \in Weights
  PROVE  SoundFor(weight, expected, returns)
<1>0. SUFFICES ASSUME Build(weight, expected, returns) # Refused
               PROVE  SoundFor(weight, expected, returns)
  BY DEF SoundFor
<1> DEFINE h == [t \in expected |-> position[t].value]
<1>1. PICK R : R = IF Recovery \in DOMAIN position THEN position[Recovery].value ELSE 0
  OBVIOUS
<1>2. /\ Build(weight, expected, returns) = Construct(weight, h, R, reserve, returns)
      /\ expected \subseteq DOMAIN position
  BY <1>0, <1>1 DEF Build, InScope
<1>3. /\ expected \in SUBSET Name /\ IsFiniteSet(expected) /\ Cardinality(expected) = 2
      /\ One \in Nat \ {0} /\ \A s \in Name : s \in Nat
  BY ConstantsAssumption, FS_Subset DEF kSubset
<1>4. R \in Nat /\ \A t \in expected : h[t] \in Nat
  <2>1. \A t \in DOMAIN position : position[t].value \in Nat
    BY ConstantsAssumption DEF PositionType, Holding
  <2>2. QED  BY <1>1, <1>2, <2>1
<1>5. DOMAIN h = expected  OBVIOUS
<1>6. \A t \in expected : h[t] = position[t].value  OBVIOUS
<1> HIDE DEF h
<1>7. PICK sp2 \in Nat : sp2 = Total(h) /\ sp2 = SumOf(h, expected)
  BY <1>3, <1>4, <1>5, TotalIsSum, SumIsNat
<1>8. PICK nav \in Nat : nav = sp2 + R + reserve  BY <1>4
<1>9. PICK goal \in Nat : goal = (nav * weight) \div One
  <2>1. PICK x \in Nat : x = nav * weight  BY <1>3
  <2>2. x \div One \in Nat  BY <1>3, Quotient
  <2>3. QED  BY <2>1, <2>2
<1>10. PICK delta \in Int : delta = goal - R  BY <1>4
<1>11. nav # 0  BY <1>0, <1>2, <1>7, <1>8 DEF Construct
<1>12. CASE delta = 0
  <2>1. Build(weight, expected, returns) = Plan(0, <<>>, 0, 0, <<>>)
    BY <1>2, <1>7, <1>8, <1>9, <1>10, <1>11, <1>12 DEF Construct
  <2>2. R + 0 - 0 = goal  BY <1>4, <1>10, <1>12
  <2>3. 0 - 0 = 0 + SumOf(<<>>, DOMAIN <<>>) - SumOf(<<>>, DOMAIN <<>>)
    BY NoneIsNothing
  <2>4. Funded(weight, expected, returns, 0, <<>>, 0, 0, <<>>)
    BY <1>1, <1>3, <1>4, <1>5, <1>6, <1>7, <1>8, <1>9, <1>10, <1>11, <2>1, <2>2, <2>3, NoneIsNothing
    DEF Funded, h
  <2>5. QED  BY <1>3, <1>4, <1>6, <2>4, FundedIsSound
<1>13. CASE delta > 0
  <2>1. PICK used : used = Fund(delta, reserve, sp2)  OBVIOUS
  <2>2. /\ used \in Nat /\ used <= reserve /\ used <= delta
        /\ used = reserve \/ used = delta
    <3>1. \E x \in {reserve, delta} : \A y \in {reserve, delta} : x <= y
      BY <1>13
    <3>2. used \in {reserve, delta} /\ used <= reserve /\ used <= delta
      BY <2>1, <3>1 DEF Fund, Min
    <3>3. QED  BY <1>13, <3>2
  <2>3. PICK sale \in Nat : sale = delta - used  BY <2>2
  <2>4. sale <= sp2
    BY <1>0, <1>2, <1>7, <1>8, <1>9, <1>10, <1>11, <1>13, <2>1, <2>3 DEF Construct
  <2>5. PICK sales : sales = IF sale = 0 THEN <<>> ELSE Allocate(sale, Positive(h))  OBVIOUS
  <2>6. Build(weight, expected, returns) = Plan(used, sales, delta, 0, <<>>)
    BY <1>2, <1>7, <1>8, <1>9, <1>10, <1>11, <1>13, <2>1, <2>3, <2>4, <2>5 DEF Construct
  <2>7. /\ DOMAIN sales \in SUBSET expected /\ \A s \in DOMAIN sales : sales[s] \in Int
        /\ \A s \in DOMAIN sales : sales[s] <= h[s]
        /\ DOMAIN sales # {} => used = reserve
        /\ SumOf(sales, DOMAIN sales) = sale
    <3>1. CASE sale = 0  BY <2>5, <3>1, NoneIsNothing
    <3>2. CASE sale # 0
      <4>1. used = reserve  BY <2>2, <2>3, <3>2
      <4>2. PICK w : w = Positive(h)  OBVIOUS
      <4>3. /\ DOMAIN w = {t \in expected : h[t] > 0} /\ \A t \in DOMAIN w : w[t] = h[t]
        BY <1>5, <4>2 DEF Positive
      <4>4. IsFiniteSet(DOMAIN w) /\ \A s \in DOMAIN w : s \in Nat /\ w[s] \in Nat
        BY <1>3, <1>4, <4>3, FS_Subset
      <4>5. Total(w) = sp2
        <5>1. SumOf(w, DOMAIN w) = SumOf(h, DOMAIN w)  BY <4>3, <4>4, SumAgrees
        <5>2. \A x \in expected : h[x] \in Int  BY <1>4
        <5>3. \A x \in expected \ DOMAIN w : h[x] = 0  BY <1>4, <4>3
        <5>4. SumOf(h, expected) = SumOf(h, DOMAIN w)
          BY <1>3, <4>3, <5>2, <5>3, SumOverMore
        <5>5. QED  BY <1>7, <5>1, <5>4, TotalIsSum
      <4>6. sale \in Nat \ {0} /\ Total(w) # 0 /\ sale <= Total(w)
        BY <2>3, <2>4, <3>2, <4>5
      <4>7. DOMAIN w # {}
        <5>1. ASSUME DOMAIN w = {} PROVE FALSE
          <6>1. SumOf(w, {}) = 0  BY <4>4, SumIsNat, SumTakes
          <6>2. QED  BY <4>6, <5>1, <6>1, TotalIsSum
        <5>2. QED  BY <5>1
      <4>8. /\ DOMAIN sales = DOMAIN w /\ \A s \in DOMAIN w : sales[s] \in Int
            /\ SumOf(sales, DOMAIN w) = sale
        BY <2>5, <3>2, <4>2, <4>4, <4>6, <4>7, AllocateIsExact
      <4>9. \A s \in DOMAIN w : sales[s] <= w[s]
        <5>1. \E a, b \in expected : a # b /\ expected = {a, b}  BY <1>3, PairHasTwo
        <5>2. DOMAIN w \in SUBSET expected  BY <4>3
        <5>3. \A s \in DOMAIN w : Allocate(sale, w)[s] <= w[s]
          BY <4>4, <4>6, <4>7, <5>1, <5>2, NoOversale
        <5>4. QED  BY <2>5, <3>2, <4>2, <5>3
      <4>10. QED  BY <4>1, <4>3, <4>8, <4>9
    <3>3. QED  BY <3>1, <3>2
  <2>8. R + delta - 0 = goal  BY <1>4, <1>10
  <2>9. delta - 0 = used + SumOf(sales, DOMAIN sales) - SumOf(<<>>, DOMAIN <<>>)
    BY <2>2, <2>3, <2>7, NoneIsNothing
  <2>10. Funded(weight, expected, returns, used, sales, delta, 0, <<>>)
    <3>1. nav = Total(h) + R + reserve /\ goal = (nav * weight) \div One  BY <1>7, <1>8, <1>9
    <3>2. R \in Int /\ Total(h) \in Int /\ used \in Int /\ delta \in Int /\ 0 \in Int
      BY <1>4, <1>7, <2>2
    <3>3. IsFiniteSet(DOMAIN <<>>) /\ \A s \in DOMAIN <<>> : <<>>[s] \in Int  BY NoneIsNothing
    <3>4. \A s \in DOMAIN sales : sales[s] \in Int /\ sales[s] <= h[s]  BY <2>7
    <3>5. DOMAIN sales # {} => used = reserve /\ DOMAIN <<>> = {}  BY <2>7, NoneIsNothing
    <3>6. DOMAIN sales \in SUBSET expected  BY <2>7
    <3>7. QED
      BY <1>1, <1>11, <2>2, <2>6, <2>8, <2>9, <3>1, <3>2, <3>3, <3>4, <3>5, <3>6
      DEF Funded, h
  <2>11. QED  BY <1>3, <1>4, <1>6, <2>10, FundedIsSound
<1>14. CASE delta < 0
  <2>1. PICK amount \in Nat \ {0} : amount = -delta  BY <1>14
  <2>2. DOMAIN returns # {} /\ Total(returns) = One
    <3> SUFFICES ASSUME DOMAIN returns = {} \/ Total(returns) # One PROVE FALSE
      OBVIOUS
    <3>1. Construct(weight, h, R, reserve, returns) = Refused
      BY <1>7, <1>8, <1>9, <1>10, <1>11, <1>14 DEF Construct
    <3>2. QED  BY <1>0, <1>2, <3>1
  <2>3. PICK buys : buys = Allocate(amount, returns)  OBVIOUS
  <2>4. Build(weight, expected, returns) = Plan(0, <<>>, 0, amount, buys)
    BY <1>2, <1>7, <1>8, <1>9, <1>10, <1>11, <1>14, <2>1, <2>2, <2>3 DEF Construct
  <2>5. IsFiniteSet(DOMAIN returns) /\ \A s \in DOMAIN returns : s \in Nat /\ returns[s] \in Nat
    <3>1. PICK names \in SUBSET Name : returns \in [names -> 0..One]  BY DEF Weights
    <3>2. IsFiniteSet(names)  BY ConstantsAssumption, FS_Subset
    <3>3. QED  BY <1>3, <3>1, <3>2
  <2>6. /\ DOMAIN buys = DOMAIN returns /\ \A s \in DOMAIN returns : buys[s] \in Int
        /\ SumOf(buys, DOMAIN returns) = amount
    <3>1. Total(returns) # 0  BY <1>3, <2>2
    <3>2. QED  BY <2>2, <2>3, <2>5, <3>1, AllocateIsExact
  <2>7. R + 0 - amount = goal  BY <1>4, <1>10, <2>1
  <2>8. 0 - amount = 0 + SumOf(<<>>, DOMAIN <<>>) - SumOf(buys, DOMAIN buys)
    BY <2>6, NoneIsNothing
  <2>9. IsFiniteSet(DOMAIN buys) /\ \A s \in DOMAIN buys : buys[s] \in Int  BY <2>5, <2>6
  <2>10. Funded(weight, expected, returns, 0, <<>>, 0, amount, buys)
    BY <1>1, <1>3, <1>4, <1>5, <1>6, <1>7, <1>8, <1>9, <1>10, <1>11, <2>1, <2>4, <2>7, <2>8, <2>9, NoneIsNothing
    DEF Funded, h
  <2>11. QED  BY <1>3, <1>4, <1>6, <2>10, FundedIsSound
<1>15. QED  BY <1>12, <1>13, <1>14

LEMMA PositionInvariant == Spec => []PositionType
<1>1. Init => PositionType
  BY DEF Init, PositionType
<1>2. PositionType /\ [Next]_vars => PositionType'
  <2> SUFFICES ASSUME PositionType, [Next]_vars PROVE PositionType'
    OBVIOUS
  <2>1. CASE UNCHANGED position  BY <2>1 DEF PositionType
  <2>2. ASSUME NEW t \in Name \cup {Recovery}, NEW x \in Holding,
               position' = [u \in DOMAIN position \cup {t} |->
                              IF u = t THEN x ELSE position[u]]
        PROVE  PositionType'
    BY <2>2 DEF PositionType
  <2>3. ASSUME NEW t \in Name \cup {Recovery},
               position' = [u \in DOMAIN position \ {t} |-> position[u]]
        PROVE  PositionType'
    BY <2>3 DEF PositionType
  <2>4. QED  BY <2>1, <2>2, <2>3 DEF Next, ReserveEvent, Account, vars
<1>3. QED  BY <1>1, <1>2, PTL DEF Spec

\* For any positions, cash, weights and ledger, a plan uses the reserve before
\* it sells, never more than the reserve or a name is worth, divides exactly
\* what it moves, and is the last one: after it there is nothing to do.
THEOREM PlansHold == Spec => []PlanIsSound
<1>1. LedgerInv /\ PositionType => PlanIsSound
  <2> SUFFICES ASSUME LedgerInv, PositionType PROVE PlanIsSound
    OBVIOUS
  <2>1. reserve \in Nat  BY DEF LedgerInv, LedgerType
  <2>2. \A weight \in 0..One, expected \in kSubset(2, Name), returns \in Weights :
          SoundFor(weight, expected, returns)
    BY <2>1, PlansAreSound
  <2>3. QED  BY <2>2 DEF PlanIsSound, SoundFor
<1>2. QED  BY <1>1, LedgerInvariant, PositionInvariant, PTL
=============================================================================
