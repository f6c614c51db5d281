------------------------------ MODULE FiniteSums ------------------------------
(***************************************************************************)
(* What MapThenSumSet returns: the sum of a function over a finite set, in *)
(* whatever order the members are chosen.                                  *)
(***************************************************************************)
EXTENDS Integers, FiniteSets, FiniteSetsExt, FiniteSetTheorems, WellFoundedInduction, TLAPS

-----------------------------------------------------------------------------
(* Numbers *)

\* Every non-empty set of naturals has a smallest member.
LEMMA SmallestNumber ==
  ASSUME NEW T \in SUBSET Nat, T # {}
  PROVE  \E x \in T : \A y \in T : x <= y
<1> DEFINE R == OpToRel(<, Nat)
<1>1. \E x \in T : \A y \in T : <<y, x>> \notin R
  <2>1. IsWellFoundedOn(R, Nat)  BY NatLessThanWellFounded
  <2>2. T \subseteq Nat /\ T # {}  OBVIOUS
  <2> HIDE DEF R
  <2>3. QED  BY <2>1, <2>2, WFMin
<1>2. \A x, y \in Nat : y < x => <<y, x>> \in R  BY DEF OpToRel
<1> HIDE DEF R
<1>3. QED
  <2>1. PICK x \in T : \A y \in T : <<y, x>> \notin R  BY <1>1
  <2>2. \A y \in T : y \in Nat /\ x \in Nat /\ ~(y < x)  BY <1>2, <2>1
  <2>3. QED  BY <2>2

-----------------------------------------------------------------------------
(* The recursion *)

Member(s) == CHOOSE x \in s : TRUE

\* The sums of f over the subsets of S.
SumsOver(f, S, g) ==
  g = [s \in SUBSET S |-> IF s = {} THEN 0 ELSE f[Member(s)] + g[s \ {Member(s)}]]

SumOf(f, S) == MapThenSumSet(LAMBDA x : f[x], S)

LEMMA SumOfIsRecursion ==
  ASSUME NEW f, NEW S
  PROVE  SumOf(f, S) = (CHOOSE g : SumsOver(f, S, g))[S]
BY DEF SumOf, MapThenSumSet, MapThenFoldSet, SumsOver, Member

\* Of the subsets of a finite set that have a property, one contains no other.
LEMMA SmallestSet ==
  ASSUME NEW S, IsFiniteSet(S), NEW C \in SUBSET SUBSET S, C # {}
  PROVE  \E s \in C : \A t \in C : t \subseteq s => t = s
<1> DEFINE N == {Cardinality(s) : s \in C}
<1>1. \A s \in C : IsFiniteSet(s) /\ Cardinality(s) \in Nat
  BY FS_Subset, FS_CardinalityType
<1>2. N \in SUBSET Nat /\ N # {}
  <2>1. PICK s \in C : TRUE  OBVIOUS
  <2>2. QED  BY <1>1, <2>1
<1>3. PICK n \in N : \A m \in N : n <= m  BY <1>2, SmallestNumber
<1>4. PICK s \in C : n = Cardinality(s)  BY <1>3
<1>5. ASSUME NEW t \in C, t \subseteq s PROVE t = s
  <2>1. Cardinality(s) <= Cardinality(t)  BY <1>3, <1>4
  <2>2. t \in SUBSET s  BY <1>5
  <2>3. Cardinality(t) <= Cardinality(s) /\ (Cardinality(s) = Cardinality(t) => s = t)
    BY <1>1, <2>2, FS_Subset
  <2> HIDE DEF N
  <2>4. QED  BY <1>1, <2>1, <2>3
<1>6. QED  BY <1>5

LEMMA MemberIsOne ==
  ASSUME NEW s, s # {}
  PROVE  Member(s) \in s
BY DEF Member

\* The recursion on the subsets of up to n members.
Upto(S, n) == {s \in SUBSET S : Cardinality(s) <= n}
SumsUpto(f, S, n, g) ==
  g = [s \in Upto(S, n) |-> IF s = {} THEN 0 ELSE f[Member(s)] + g[s \ {Member(s)}]]

LEMMA SmallerSet ==
  ASSUME NEW S, IsFiniteSet(S), NEW n \in Nat, NEW s \in Upto(S, n), s # {}
  PROVE  n > 0 /\ s \ {Member(s)} \in Upto(S, n - 1)
<1>1. s \in SUBSET S /\ IsFiniteSet(s) /\ Cardinality(s) <= n /\ Cardinality(s) \in Nat
  BY FS_Subset, FS_CardinalityType DEF Upto
<1>2. Member(s) \in s  BY MemberIsOne
<1>3. Cardinality(s \ {Member(s)}) = Cardinality(s) - 1  BY <1>1, <1>2, FS_RemoveElement
<1>4. Cardinality(s) # 0  BY <1>1, FS_EmptySet
<1>5. QED  BY <1>1, <1>3, <1>4 DEF Upto

LEMMA SumsUptoExist ==
  ASSUME NEW f, NEW S, IsFiniteSet(S), NEW n \in Nat
  PROVE  \E g : SumsUpto(f, S, n, g)
<1> DEFINE Bad == {m \in Nat : ~\E g : SumsUpto(f, S, m, g)}
<1>1. SUFFICES ASSUME Bad # {} PROVE FALSE  OBVIOUS
<1>2. PICK m \in Bad : \A k \in Bad : m <= k
  <2>1. Bad \in SUBSET Nat  OBVIOUS
  <2> HIDE DEF Bad
  <2>2. QED  BY <1>1, <2>1, SmallestNumber
<1>3. CASE m = 0
  <2> DEFINE g == [s \in Upto(S, 0) |-> 0]
  <2>1. ASSUME NEW s \in Upto(S, 0), s # {} PROVE FALSE
    <3>1. 0 > 0  BY <2>1, SmallerSet
    <3>2. QED  BY <3>1
  <2>2. g = [s \in Upto(S, 0) |-> IF s = {} THEN 0 ELSE f[Member(s)] + g[s \ {Member(s)}]]
    BY <2>1
  <2>3. SumsUpto(f, S, 0, g)  BY <2>2 DEF SumsUpto
  <2>4. QED  BY <1>3, <2>3
<1>4. CASE m # 0
  <2>1. m - 1 \in Nat /\ m - 1 \notin Bad  BY <1>2, <1>4
  <2>2. PICK h : SumsUpto(f, S, m - 1, h)  BY <2>1
  <2> DEFINE g == [s \in Upto(S, m) |->
                     IF s = {} THEN 0 ELSE f[Member(s)] + h[s \ {Member(s)}]]
  <2>3. ASSUME NEW t \in Upto(S, m - 1) PROVE g[t] = h[t]
    <3>1. t \in Upto(S, m)
      <4>1. t \in SUBSET S /\ Cardinality(t) <= m - 1 /\ IsFiniteSet(t)  BY FS_Subset DEF Upto
      <4>2. Cardinality(t) \in Nat  BY <4>1, FS_CardinalityType
      <4>3. QED  BY <4>1, <4>2 DEF Upto
    <3>2. h[t] = IF t = {} THEN 0 ELSE f[Member(t)] + h[t \ {Member(t)}]
      BY <2>2 DEF SumsUpto
    <3>3. QED  BY <3>1, <3>2
  <2>4. \A s \in Upto(S, m) : s # {} => g[s \ {Member(s)}] = h[s \ {Member(s)}]
    <3> HIDE DEF g
    <3>1. QED  BY <2>3, SmallerSet
  <2>5. \A s \in Upto(S, m) :
          g[s] = IF s = {} THEN 0 ELSE f[Member(s)] + g[s \ {Member(s)}]
    BY <2>4
  <2>6. g = [s \in Upto(S, m) |-> g[s]]  OBVIOUS
  <2> HIDE DEF g
  <2>7. SumsUpto(f, S, m, g)  BY <2>5, <2>6 DEF SumsUpto
  <2>8. QED  BY <1>2, <2>7
<1>5. QED  BY <1>3, <1>4

LEMMA SumsExist ==
  ASSUME NEW f, NEW S, IsFiniteSet(S)
  PROVE  \E g : SumsOver(f, S, g) /\ g[S] = SumOf(f, S)
<1>1. PICK n \in Nat : n = Cardinality(S)  BY FS_CardinalityType
<1>2. Upto(S, n) = SUBSET S  BY <1>1, FS_Subset DEF Upto
<1>3. PICK g : SumsUpto(f, S, n, g)  BY SumsUptoExist
<1>4. SumsOver(f, S, g)  BY <1>2, <1>3 DEF SumsUpto, SumsOver
<1>5. QED  BY <1>4, SumOfIsRecursion

\* What a recursion gives for the empty set, and for the others.
LEMMA SumsAtNone ==
  ASSUME NEW f, NEW S, NEW g, SumsOver(f, S, g)
  PROVE  g[{}] = 0
BY DEF SumsOver

LEMMA SumsAt ==
  ASSUME NEW f, NEW S, NEW g, SumsOver(f, S, g), NEW s \in SUBSET S, s # {}
  PROVE  /\ Member(s) \in s /\ s \ {Member(s)} \in SUBSET S
         /\ g[s] = f[Member(s)] + g[s \ {Member(s)}]
<1>1. g[s] = IF s = {} THEN 0 ELSE f[Member(s)] + g[s \ {Member(s)}]
  BY DEF SumsOver
<1>2. QED  BY <1>1, MemberIsOne

LEMMA SumsAreNumbers ==
  ASSUME NEW f, NEW S, IsFiniteSet(S), \A x \in S : f[x] \in Int,
         NEW g, SumsOver(f, S, g), NEW s \in SUBSET S
  PROVE  g[s] \in Int
<1> DEFINE C == {t \in SUBSET S : g[t] \notin Int}
<1>1. SUFFICES ASSUME C # {} PROVE FALSE  OBVIOUS
<1>2. PICK t \in C : \A u \in C : u \subseteq t => u = t
  <2>1. C \in SUBSET SUBSET S  OBVIOUS
  <2> HIDE DEF C
  <2>2. QED  BY <1>1, <2>1, SmallestSet
<1>3. t # {} /\ t \in SUBSET S
  <2>1. t \in SUBSET S /\ g[t] \notin Int  BY <1>2
  <2>2. g[{}] = 0  BY SumsAtNone
  <2>3. QED  BY <2>1, <2>2
<1>4. /\ Member(t) \in t /\ t \ {Member(t)} \in SUBSET S
      /\ g[t] = f[Member(t)] + g[t \ {Member(t)}]
  BY <1>3, SumsAt
<1>5. g[t \ {Member(t)}] \in Int  BY <1>2, <1>4
<1>6. f[Member(t)] \in Int  BY <1>3, <1>4
<1>7. g[t] \in Int  BY <1>4, <1>5, <1>6
<1>8. QED  BY <1>2, <1>7

\* Any member may be taken first.
LEMMA SumsTakeAny ==
  ASSUME NEW f, NEW S, IsFiniteSet(S), \A x \in S : f[x] \in Int,
         NEW g, SumsOver(f, S, g), NEW s \in SUBSET S, NEW r \in s
  PROVE  g[s] = f[r] + g[s \ {r}]
<1> DEFINE C == {t \in SUBSET S : \E q \in t : g[t] # f[q] + g[t \ {q}]}
<1>1. SUFFICES ASSUME C # {} PROVE FALSE  OBVIOUS
<1>2. PICK t \in C : \A u \in C : u \subseteq t => u = t
  <2>1. C \in SUBSET SUBSET S  OBVIOUS
  <2> HIDE DEF C
  <2>2. QED  BY <1>1, <2>1, SmallestSet
<1>3. PICK q \in t : g[t] # f[q] + g[t \ {q}]  BY <1>2
<1> DEFINE m == Member(t)
           rest == t \ {m}
           both == t \ {m, q}
<1>4. t \in SUBSET S /\ t # {}  BY <1>2, <1>3
<1>5. m \in t /\ rest \in SUBSET S /\ g[t] = f[m] + g[rest]  BY <1>4, SumsAt
<1>6. m # q  BY <1>3, <1>5
<1>7. q \in rest /\ rest \subseteq t /\ rest # t /\ rest \ {q} = both  BY <1>5, <1>6
<1>8. g[rest] = f[q] + g[both]  BY <1>2, <1>5, <1>7
<1>9. /\ m \in t \ {q} /\ t \ {q} \subseteq t /\ t \ {q} # t /\ (t \ {q}) \ {m} = both
      /\ t \ {q} \in SUBSET S
  BY <1>4, <1>5, <1>6
<1>10. g[t \ {q}] = f[m] + g[both]  BY <1>2, <1>9
<1>11. both \in SUBSET S /\ f[m] \in Int /\ f[q] \in Int  BY <1>4, <1>5
<1>12. g[both] \in Int  BY <1>11, SumsAreNumbers
<1> HIDE DEF C, m, rest, both
<1>13. QED  BY <1>3, <1>5, <1>8, <1>10, <1>11, <1>12

LEMMA SumsAgree ==
  ASSUME NEW S, IsFiniteSet(S), NEW T, S \subseteq T, NEW f, NEW k, \A x \in S : f[x] = k[x],
         NEW g, SumsOver(f, S, g), NEW h, SumsOver(k, T, h), NEW s \in SUBSET S
  PROVE  g[s] = h[s]
<1> DEFINE C == {t \in SUBSET S : g[t] # h[t]}
<1>1. SUFFICES ASSUME C # {} PROVE FALSE  OBVIOUS
<1>2. PICK t \in C : \A u \in C : u \subseteq t => u = t
  <2>1. C \in SUBSET SUBSET S  OBVIOUS
  <2> HIDE DEF C
  <2>2. QED  BY <1>1, <2>1, SmallestSet
<1>3. t \in SUBSET S /\ t \in SUBSET T  OBVIOUS
<1>4. t # {}
  <2>3. g[t] # h[t]  BY <1>2
  <2>1. g[{}] = 0  BY SumsAtNone
  <2>2. h[{}] = 0  BY SumsAtNone
  <2>4. QED  BY <2>1, <2>2, <2>3
<1>5. /\ Member(t) \in t /\ t \ {Member(t)} \in SUBSET S
      /\ g[t] = f[Member(t)] + g[t \ {Member(t)}]
  BY <1>3, <1>4, SumsAt
<1>6. h[t] = k[Member(t)] + h[t \ {Member(t)}]
  <2> HIDE DEF C
  <2>1. QED  BY <1>3, <1>4, SumsAt
<1>7. g[t \ {Member(t)}] = h[t \ {Member(t)}]  BY <1>2, <1>5
<1>8. f[Member(t)] = k[Member(t)]  BY <1>3, <1>5
<1>9. QED  BY <1>2, <1>5, <1>6, <1>7, <1>8

-----------------------------------------------------------------------------
(* Sums *)

\* A sum is a number, and any member may be taken out of it.
LEMMA SumTakes ==
  ASSUME NEW f, NEW S, IsFiniteSet(S), \A x \in S : f[x] \in Int
  PROVE  /\ SumOf(f, {}) = 0 /\ SumOf(f, S) \in Int
         /\ \A r \in S : SumOf(f, S) = f[r] + SumOf(f, S \ {r})
<1>1. PICK g : SumsOver(f, S, g) /\ g[S] = SumOf(f, S)  BY SumsExist
<1>2. SumOf(f, {}) = 0
  <2>1. PICK h : SumsOver(f, {}, h) /\ h[{}] = SumOf(f, {})  BY SumsExist, FS_EmptySet
  <2>2. QED  BY <2>1, SumsAtNone
<1>3. SumOf(f, S) \in Int  BY <1>1, SumsAreNumbers
<1>4. ASSUME NEW r \in S PROVE SumOf(f, S) = f[r] + SumOf(f, S \ {r})
  <2>1. IsFiniteSet(S \ {r})  BY FS_RemoveElement
  <2>2. PICK h : SumsOver(f, S \ {r}, h) /\ h[S \ {r}] = SumOf(f, S \ {r})  BY <2>1, SumsExist
  <2>3. h[S \ {r}] = g[S \ {r}]
    <3>1. S \ {r} \subseteq S /\ \A x \in S \ {r} : f[x] = f[x]  OBVIOUS
    <3>2. S \ {r} \in SUBSET (S \ {r})  OBVIOUS
    <3>3. SumsOver(f, S, g) /\ SumsOver(f, S \ {r}, h)  BY <1>1, <2>2
    <3>4. QED  BY <2>1, <3>1, <3>2, <3>3, SumsAgree
  <2>4. g[S] = f[r] + g[S \ {r}]  BY <1>1, SumsTakeAny
  <2>5. QED  BY <1>1, <2>2, <2>3, <2>4
<1>5. QED  BY <1>2, <1>3, <1>4

\* A sum depends on what is summed only.
LEMMA SumAgrees ==
  ASSUME NEW S, IsFiniteSet(S), NEW f, NEW k, \A x \in S : f[x] = k[x]
  PROVE  SumOf(f, S) = SumOf(k, S)
<1>1. PICK g : SumsOver(f, S, g) /\ g[S] = SumOf(f, S)  BY SumsExist
<1>2. PICK h : SumsOver(k, S, h) /\ h[S] = SumOf(k, S)  BY SumsExist
<1>3. g[S] = h[S]  BY <1>1, <1>2, SumsAgree
<1>4. QED  BY <1>1, <1>2, <1>3

\* One more member, one more summand.
LEMMA SumAdds ==
  ASSUME NEW f, NEW S, IsFiniteSet(S), NEW r, r \notin S, \A x \in S \cup {r} : f[x] \in Int
  PROVE  SumOf(f, S \cup {r}) = SumOf(f, S) + f[r]
<1>1. IsFiniteSet(S \cup {r})  BY FS_AddElement
<1>2. (S \cup {r}) \ {r} = S  OBVIOUS
<1>3. SumOf(f, S \cup {r}) = f[r] + SumOf(f, S)
  BY <1>1, <1>2, SumTakes
<1>4. SumOf(f, S) \in Int /\ f[r] \in Int  BY SumTakes
<1>5. QED  BY <1>3, <1>4

\* What is 0 outside S sums to what it sums to on S.
LEMMA SumOverMore ==
  ASSUME NEW T, IsFiniteSet(T), NEW S \in SUBSET T, NEW f, \A x \in T : f[x] \in Int,
         \A x \in T \ S : f[x] = 0
  PROVE  SumOf(f, T) = SumOf(f, S)
<1> DEFINE C == {t \in SUBSET T : S \subseteq t /\ SumOf(f, t) # SumOf(f, S)}
<1>1. SUFFICES ASSUME C # {} PROVE FALSE  OBVIOUS
<1>2. PICK t \in C : \A u \in C : u \subseteq t => u = t
  <2>1. C \in SUBSET SUBSET T  OBVIOUS
  <2> HIDE DEF C
  <2>2. QED  BY <1>1, <2>1, SmallestSet
<1>3. t # S /\ S \subseteq t /\ t \in SUBSET T  BY <1>2
<1>4. PICK r \in t : r \notin S  BY <1>3
<1>5. IsFiniteSet(t) /\ \A x \in t : f[x] \in Int  BY <1>3, FS_Subset
<1>6. SumOf(f, t) = f[r] + SumOf(f, t \ {r})  BY <1>5, SumTakes
<1>7. SumOf(f, t \ {r}) \in Int
  <2>1. IsFiniteSet(t \ {r}) /\ \A x \in t \ {r} : f[x] \in Int  BY <1>5, FS_RemoveElement
  <2>2. QED  BY <2>1, SumTakes
<1>8. SumOf(f, t \ {r}) = SumOf(f, S)
  <2>1. S \subseteq t \ {r} /\ t \ {r} \in SUBSET T /\ t \ {r} # t /\ t \ {r} \subseteq t
    BY <1>3, <1>4
  <2>2. QED  BY <1>2, <2>1
<1>9. f[r] = 0  BY <1>3, <1>4
<1>10. SumOf(f, t) = SumOf(f, S)  BY <1>6, <1>7, <1>8, <1>9
<1>11. QED  BY <1>2, <1>10

\* The sum of two functions.
LEMMA SumOfBoth ==
  ASSUME NEW T, IsFiniteSet(T), NEW f, NEW k, NEW h,
         \A x \in T : f[x] \in Int /\ k[x] \in Int /\ h[x] = f[x] + k[x]
  PROVE  SumOf(h, T) = SumOf(f, T) + SumOf(k, T)
<1> DEFINE C == {t \in SUBSET T : SumOf(h, t) # SumOf(f, t) + SumOf(k, t)}
<1>1. SUFFICES ASSUME C # {} PROVE FALSE  OBVIOUS
<1>2. PICK t \in C : \A u \in C : u \subseteq t => u = t
  <2>1. C \in SUBSET SUBSET T  OBVIOUS
  <2> HIDE DEF C
  <2>2. QED  BY <1>1, <2>1, SmallestSet
<1>3. t \in SUBSET T /\ SumOf(h, t) # SumOf(f, t) + SumOf(k, t)  BY <1>2
<1>4. /\ IsFiniteSet(t)
      /\ \A x \in t : f[x] \in Int /\ k[x] \in Int /\ h[x] = f[x] + k[x] /\ h[x] \in Int
  BY <1>3, FS_Subset
<1>5. t # {}
  <2>1. SumOf(h, {}) = 0  BY <1>4, SumTakes
  <2>2. SumOf(f, {}) = 0  BY <1>4, SumTakes
  <2>3. SumOf(k, {}) = 0  BY <1>4, SumTakes
  <2>4. ASSUME t = {} PROVE FALSE
    <3>1. SumOf(h, {}) # SumOf(f, {}) + SumOf(k, {})  BY <1>3, <2>4
    <3>2. QED  BY <2>1, <2>2, <2>3, <3>1
  <2>5. QED  BY <2>4
<1>6. PICK r \in t : TRUE  BY <1>5
<1> DEFINE u == t \ {r}
<1>7. /\ IsFiniteSet(u) /\ u \in SUBSET T /\ u \subseteq t /\ u # t
      /\ \A x \in u : f[x] \in Int /\ k[x] \in Int /\ h[x] \in Int
  BY <1>3, <1>4, FS_RemoveElement
<1>8. SumOf(h, u) = SumOf(f, u) + SumOf(k, u)  BY <1>2, <1>7
<1>9. /\ SumOf(h, t) = h[r] + SumOf(h, u) /\ SumOf(f, t) = f[r] + SumOf(f, u)
      /\ SumOf(k, t) = k[r] + SumOf(k, u)
  BY <1>4, SumTakes
<1> HIDE DEF C, u
<1>10. /\ SumOf(f, u) \in Int /\ SumOf(k, u) \in Int /\ f[r] \in Int /\ k[r] \in Int
       /\ h[r] = f[r] + k[r]
  BY <1>4, <1>7, SumTakes
<1>11. QED  BY <1>3, <1>8, <1>9, <1>10

\* No summand is below zero: neither is the sum, nor is it below a summand.
LEMMA SumIsNat ==
  ASSUME NEW T, IsFiniteSet(T), NEW f, \A x \in T : f[x] \in Nat
  PROVE  SumOf(f, T) \in Nat /\ \A r \in T : f[r] <= SumOf(f, T)
<1> DEFINE C == {t \in SUBSET T : SumOf(f, t) \notin Nat}
<1>0. \A t \in SUBSET T : IsFiniteSet(t) /\ \A x \in t : f[x] \in Int /\ f[x] \in Nat
  BY FS_Subset
<1>1. C = {}
  <2> SUFFICES ASSUME C # {} PROVE FALSE  OBVIOUS
  <2>1. PICK t \in C : \A u \in C : u \subseteq t => u = t
    <3>1. C \in SUBSET SUBSET T  OBVIOUS
    <3> HIDE DEF C
    <3>2. QED  BY <3>1, SmallestSet
  <2>2. t \in SUBSET T /\ SumOf(f, t) \notin Nat  BY <2>1
  <2>3. t # {}  BY <1>0, <2>2, SumTakes
  <2>4. PICK r \in t : TRUE  BY <2>3
  <2>5. t \ {r} \in SUBSET T /\ t \ {r} \subseteq t /\ t \ {r} # t  BY <2>2, <2>4
  <2>6. SumOf(f, t \ {r}) \in Nat  BY <2>1, <2>5
  <2>7. SumOf(f, t) = f[r] + SumOf(f, t \ {r}) /\ f[r] \in Nat
    BY <1>0, <2>2, <2>4, SumTakes
  <2>8. QED  BY <2>2, <2>6, <2>7
<1>2. ASSUME NEW r \in T PROVE f[r] <= SumOf(f, T)
  <2>1. SumOf(f, T \ {r}) \in Nat  BY <1>1
  <2>2. SumOf(f, T) = f[r] + SumOf(f, T \ {r})
    <3>1. \A x \in T : f[x] \in Int  OBVIOUS
    <3>2. QED  BY <1>2, <3>1, SumTakes
  <2>3. f[r] \in Nat  BY <1>2
  <2>4. QED  BY <2>1, <2>2, <2>3
<1>3. QED  BY <1>1, <1>2

\* A finite set of numbers has a largest member, which Max returns.
LEMMA MaxIsMember ==
  ASSUME NEW S, IsFiniteSet(S), S # {}, \A x \in S : x \in Nat
  PROVE  Max(S) \in S /\ \A y \in S : Max(S) >= y
<1> DEFINE C == {t \in SUBSET S : t # {} /\ ~\E x \in t : \A y \in t : x >= y}
<1>1. C = {}
  <2>0. SUFFICES ASSUME C # {} PROVE FALSE  OBVIOUS
  <2>1. PICK t \in C : \A u \in C : u \subseteq t => u = t
    <3>1. C \in SUBSET SUBSET S  OBVIOUS
    <3> HIDE DEF C
    <3>2. QED  BY <2>0, <3>1, SmallestSet
  <2>2. t \in SUBSET S /\ t # {} /\ ~\E x \in t : \A y \in t : x >= y  BY <2>1
  <2>3. PICK r \in t : TRUE  BY <2>2
  <2>4. t \ {r} \in SUBSET S /\ t \ {r} \subseteq t /\ t \ {r} # t  BY <2>2, <2>3
  <2>5. r \in Nat /\ \A y \in t : y \in Nat  BY <2>2, <2>3
  <2>6. CASE t \ {r} = {}
    <3>1. \A y \in t : y = r  BY <2>6
    <3>2. QED  BY <2>2, <2>5, <3>1
  <2>7. CASE t \ {r} # {}
    <3>1. PICK m \in t \ {r} : \A y \in t \ {r} : m >= y  BY <2>1, <2>4, <2>7
    <3>2. \A y \in t : y = r \/ m >= y  BY <3>1
    <3>3. CASE m >= r  BY <2>2, <3>1, <3>2, <3>3
    <3>4. CASE ~(m >= r)
      <4>1. m \in Nat  BY <2>5, <3>1
      <4>2. \A y \in t : r >= y
        <5> HIDE DEF C
        <5>1. QED  BY <2>5, <3>2, <3>4, <4>1
      <4>3. QED  BY <2>2, <2>3, <4>2
    <3>5. QED  BY <3>3, <3>4
  <2>8. QED  BY <2>6, <2>7
<1>2. \E x \in S : \A y \in S : x >= y  BY <1>1
<1>3. QED  BY <1>2 DEF Max
=============================================================================
