-------------------------- MODULE FillBooking_proofs --------------------------
(***************************************************************************)
(* The booking of fills for any number of processes, orders, fills and     *)
(* history items, any page size and any wallet impacts.                    *)
(***************************************************************************)
EXTENDS FillBooking, FiniteSums

-----------------------------------------------------------------------------
(* The operators *)

LEMMA MaxOfTwo ==
  ASSUME NEW a \in Int, NEW b \in Int
  PROVE  /\ Max({a, b}) \in {a, b} /\ Max({a, b}) >= a /\ Max({a, b}) >= b
<1>1. \E x \in {a, b} : \A y \in {a, b} : x >= y
  <2>1. CASE a >= b  BY <2>1
  <2>2. CASE ~(a >= b)  BY <2>2
  <2>3. QED  BY <2>1, <2>2
<1>2. QED  BY <1>1 DEF Max

\* A snapshot that merge_records keeps is one of those it has seen.
LEMMA WinnerIsSeen ==
  ASSUME NEW snaps \in SUBSET Snapshot, snaps # {}
  PROVE  \E s \in snaps : \A t \in snaps :
           s.n > t.n \/ (s.n = t.n /\ (t.st = "OPEN" \/ s.st # "OPEN"))
<1>0. Qty \in Nat /\ \A s \in snaps : s.n \in 0..Qty
  BY ConstantsAssumption DEF Snapshot
<1> DEFINE T == {Qty - s.n : s \in snaps}
<1>1. T \in SUBSET Nat /\ T # {}  BY <1>0
<1>2. PICK x \in T : \A y \in T : x <= y  BY <1>1, SmallestNumber
<1>3. PICK m \in snaps : x = Qty - m.n  BY <1>2
<1>4. \A t \in snaps : m.n >= t.n
  <2> SUFFICES ASSUME NEW t \in snaps PROVE m.n >= t.n
    OBVIOUS
  <2>1. x <= Qty - t.n  BY <1>2
  <2>2. QED  BY <1>0, <1>3, <2>1
<1>5. CASE \E s \in snaps : s.n = m.n /\ s.st # "OPEN"
  <2>1. PICK s \in snaps : s.n = m.n /\ s.st # "OPEN"  BY <1>5
  <2>2. \A t \in snaps : s.n > t.n \/ s.n = t.n  BY <1>0, <1>4, <2>1
  <2>3. QED  BY <2>1, <2>2
<1>6. CASE \A s \in snaps : s.n = m.n => s.st = "OPEN"
  <2>1. \A t \in snaps : m.n > t.n \/ (m.n = t.n /\ t.st = "OPEN")  BY <1>0, <1>4, <1>6
  <2>2. QED  BY <2>1
<1>7. QED  BY <1>5, <1>6

-----------------------------------------------------------------------------
(* The broker *)

BrokerType ==
  /\ order \in [Order -> Snapshot]
  /\ log \in Seq([o: Order \cup {Other}, k: 0..Qty, at: Snapshot])
  /\ DOMAIN impact \subseteq Fill /\ \A f \in DOMAIN impact : impact[f] \in Impact[f[2]]
  /\ api \in [snapshot: {"fill", "request"}, paging: {"cursor", "offset"}]

\* An order is filled when all its fills are executed.
FilledIsWhole == \A o \in Order : order[o].st = "FILLED" <=> order[o].n = Qty

\* The fills of an order are in the history, each once and in their order; its
\* last one is the one whose snapshot is filled.
IsFill(j, o, k) == log[j].o = o /\ log[j].k = k
LogIsTrue ==
  /\ \A j \in DOMAIN log :
       log[j].k > 0 => log[j].o \in Order /\ log[j].k <= order[log[j].o].n
  /\ \A j \in DOMAIN log : log[j].o \in Order /\ log[j].at.st = "FILLED" => log[j].k = Qty
  /\ \A i, j \in DOMAIN log :
       log[i].k > 0 /\ log[i].k = log[j].k /\ log[i].o = log[j].o => i = j
  /\ \A o \in Order, k \in 1..Qty : k <= order[o].n => \E j \in DOMAIN log : IsFill(j, o, k)
  /\ \A j \in DOMAIN log, m \in 1..Qty :
       m < log[j].k => \E i \in DOMAIN log : i < j /\ IsFill(i, log[j].o, m)
ImpactsExist == \A o \in Order, k \in 1..Qty : k <= order[o].n => <<o, k>> \in DOMAIN impact

BrokerInv == BrokerType /\ FilledIsWhole /\ LogIsTrue /\ ImpactsExist

\* The broker takes nothing back.
BrokerGrows ==
  /\ \A j \in DOMAIN log : j \in DOMAIN log' /\ log'[j] = log[j]
  /\ \A j \in DOMAIN log' \ DOMAIN log :
       /\ j = Len(log) + 1
       /\ log'[j].k > 0 => log'[j].k > order[log'[j].o].n
  /\ Len(log) <= Len(log')
  /\ \A o \in Order : /\ order[o].n <= order'[o].n
                      /\ order[o].st = "FILLED" => order'[o].st = "FILLED"
  /\ DOMAIN impact \subseteq DOMAIN impact' /\ api' = api

LEMMA SeqItems ==
  ASSUME NEW S, NEW s \in Seq(S)
  PROVE  \A j \in DOMAIN s : s[j] \in S
OBVIOUS

LEMMA BrokerNumbers ==
  ASSUME BrokerType
  PROVE  /\ Qty \in Nat /\ Qty > 0 /\ Len(log) \in Nat /\ DOMAIN log = 1..Len(log)
         /\ \A o \in Order : order[o] \in Snapshot /\ order[o].n \in 0..Qty
         /\ \A j \in DOMAIN log : log[j].k \in 0..Qty /\ log[j].at \in Snapshot
                                  /\ log[j].o \in Order \cup {Other}
<1>1. Qty \in Nat /\ Qty > 0  BY ConstantsAssumption
<1>2. Len(log) \in Nat /\ DOMAIN log = 1..Len(log)  BY DEF BrokerType
<1>3. \A o \in Order : order[o] \in Snapshot /\ order[o].n \in 0..Qty
  BY DEF BrokerType, Snapshot
<1>4. \A j \in DOMAIN log : log[j] \in [o: Order \cup {Other}, k: 0..Qty, at: Snapshot]
  <2>1. log \in Seq([o: Order \cup {Other}, k: 0..Qty, at: Snapshot])  BY DEF BrokerType
  <2>2. QED  BY <2>1, SeqItems
<1>5. QED  BY <1>1, <1>2, <1>3, <1>4

LEMMA ExecuteKeepsBroker ==
  ASSUME BrokerInv, NEW o \in Order, Execute(o)
  PROVE  BrokerInv' /\ BrokerGrows
<1> DEFINE Item == [o: Order \cup {Other}, k: 0..Qty, at: Snapshot]
<1>0. BrokerType /\ FilledIsWhole /\ LogIsTrue /\ ImpactsExist  BY DEF BrokerInv
<1>1. PICK n \in Nat : n = order[o].n + 1
  BY <1>0, BrokerNumbers
<1>2. order[o].st = "OPEN" /\ n \in 1..Qty
  BY <1>0, <1>1, BrokerNumbers DEF Execute, FilledIsWhole
<1>3. PICK now \in Snapshot : now = [st |-> IF n = Qty THEN "FILLED" ELSE "OPEN", n |-> n]
  <2>1. n \in 0..Qty  BY <1>0, <1>2, BrokerNumbers
  <2>2. [st |-> IF n = Qty THEN "FILLED" ELSE "OPEN", n |-> n] \in Snapshot
    BY <2>1 DEF Snapshot
  <2>3. QED  BY <2>2
<1>4. PICK L \in Nat : L = Len(log)  BY <1>0, BrokerNumbers
<1>5. PICK item \in Item : item = [o |-> o, k |-> n, at |-> now]
  <2>1. n \in 0..Qty  BY <1>0, <1>2, BrokerNumbers
  <2>2. [o |-> o, k |-> n, at |-> now] \in Item  BY <2>1
  <2>3. QED  BY <2>2
<1>6. /\ order' = [order EXCEPT ![o] = now] /\ log' = Append(log, item)
      /\ api' = api
      /\ \E i \in Impact[n] : impact' = [f \in DOMAIN impact \cup {<<o, n>>} |->
                                           IF f = <<o, n>> THEN i ELSE impact[f]]
  BY <1>1, <1>3, <1>5 DEF Execute
<1>7. /\ DOMAIN log = 1..L /\ Len(log') = L + 1 /\ DOMAIN log' = 1..(L + 1)
      /\ log'[L + 1] = item /\ \A j \in 1..L : log'[j] = log[j]
      /\ log' \in Seq(Item)
  BY <1>0, <1>4, <1>6 DEF BrokerType
<1>8. \A x \in Order : order'[x] = IF x = o THEN now ELSE order[x]
  BY <1>0, <1>6 DEF BrokerType
<1>n. now.n = n /\ now.st = (IF n = Qty THEN "FILLED" ELSE "OPEN")
      /\ item.o = o /\ item.k = n /\ item.at = now
  BY <1>3, <1>5
<1>9. /\ DOMAIN impact' = DOMAIN impact \cup {<<o, n>>}
      /\ \A f \in DOMAIN impact' : impact'[f] \in Impact[f[2]]
  BY <1>0, <1>6 DEF BrokerType
<1>10. BrokerType'
  <2>1. order' \in [Order -> Snapshot]  BY <1>0, <1>6 DEF BrokerType
  <2>2. DOMAIN impact' \subseteq Fill  BY <1>0, <1>2, <1>9 DEF BrokerType, Fill
  <2>3. QED  BY <1>0, <1>6, <1>7, <1>9, <2>1, <2>2 DEF BrokerType
<1>11. FilledIsWhole'
  BY <1>0, <1>8, <1>n, BrokerNumbers DEF FilledIsWhole
<1>12. ImpactsExist'
  BY <1>0, <1>1, <1>8, <1>9, <1>n, BrokerNumbers DEF ImpactsExist
<1>13. LogIsTrue'
  <2>0. \A j \in DOMAIN log' : j \in 1..L \/ j = L + 1  BY <1>7
  <2>n. /\ \A x \in Order : order[x].n \in Nat /\ order[x].n <= order'[x].n
        /\ \A j \in 1..L : log[j].k \in Nat
    <3>1. \A x \in Order : order[x].n \in Nat  BY <1>0, BrokerNumbers
    <3>2. \A j \in 1..L : log[j].k \in Nat  BY <1>0, <1>7, BrokerNumbers
    <3>3. \A x \in Order : order[x].n <= order'[x].n  BY <1>1, <1>8, <1>n, <3>1
    <3>4. QED  BY <3>1, <3>2, <3>3
  <2>1. \A j \in DOMAIN log' :
          log'[j].k > 0 => log'[j].o \in Order /\ log'[j].k <= order'[log'[j].o].n
    <3>1. \A j \in 1..L : log[j].k > 0 => log[j].o \in Order /\ log[j].k <= order[log[j].o].n
      BY <1>0, <1>7 DEF LogIsTrue
    <3>2. order'[o].n = n  BY <1>8, <1>n
    <3>3. \A j \in 1..L :
            log[j].k > 0 => log[j].o \in Order /\ log[j].k <= order'[log[j].o].n
      <4> SUFFICES ASSUME NEW j \in 1..L, log[j].k > 0
                   PROVE  log[j].o \in Order /\ log[j].k <= order'[log[j].o].n
        OBVIOUS
      <4>1. /\ log[j].o \in Order /\ log[j].k <= order[log[j].o].n
            /\ order[log[j].o].n \in Nat /\ order[log[j].o].n <= order'[log[j].o].n
        BY <2>n, <3>1
      <4>2. order'[log[j].o].n \in Nat  BY <1>8, <1>n, <2>n, <4>1
      <4>3. QED  BY <2>n, <4>1, <4>2
    <3>4. n <= order'[o].n  BY <3>2
    <3>5. \A j \in 1..L : log'[j] = log[j]  BY <1>7
    <3>6. QED  BY <1>7, <1>n, <2>0, <3>3, <3>4, <3>5
  <2>2. \A j \in DOMAIN log' :
          log'[j].o \in Order /\ log'[j].at.st = "FILLED" => log'[j].k = Qty
    BY <1>0, <1>7, <1>n, <2>0 DEF LogIsTrue
  <2>3. \A j \in 1..L : log[j].o = o => log[j].k < n
    <3> SUFFICES ASSUME NEW j \in 1..L, log[j].o = o PROVE log[j].k < n
      OBVIOUS
    <3>1. log[j].k > 0 => log[j].k <= order[o].n  BY <1>0, <1>7 DEF LogIsTrue
    <3>2. log[j].k \in Nat /\ order[o].n \in Nat  BY <2>n
    <3>3. QED  BY <1>1, <3>1, <3>2
  <2>4. \A i, j \in DOMAIN log' :
          log'[i].k > 0 /\ log'[i].k = log'[j].k /\ log'[i].o = log'[j].o => i = j
    <3>1. \A i, j \in 1..L :
            log[i].k > 0 /\ log[i].k = log[j].k /\ log[i].o = log[j].o => i = j
      BY <1>0, <1>7 DEF LogIsTrue
    <3>2. QED  BY <1>7, <1>n, <2>0, <2>n, <2>3, <3>1
  <2>5. \A x \in Order, k \in 1..Qty :
          k <= order'[x].n => \E j \in DOMAIN log' : IsFill(j, x, k)'
    <3> SUFFICES ASSUME NEW x \in Order, NEW k \in 1..Qty, k <= order'[x].n
                 PROVE  \E j \in DOMAIN log' : log'[j].o = x /\ log'[j].k = k
      BY DEF IsFill
    <3>1. CASE k <= order[x].n
      <4>1. PICK j \in DOMAIN log : log[j].o = x /\ log[j].k = k
        BY <1>0, <3>1 DEF LogIsTrue, IsFill
      <4>2. QED  BY <1>7, <4>1
    <3>2. CASE ~(k <= order[x].n)
      <4>1. x = o /\ k = n  BY <1>1, <1>8, <1>n, <2>n, <3>2
      <4>2. L + 1 \in DOMAIN log'  BY <1>7
      <4>3. QED  BY <1>7, <1>n, <4>1, <4>2
    <3>3. QED  BY <3>1, <3>2
  <2>6. \A j \in DOMAIN log', m \in 1..Qty :
          m < log'[j].k => \E i \in DOMAIN log' : i < j /\ IsFill(i, log[j].o, m)'
    <3> SUFFICES ASSUME NEW j \in DOMAIN log', NEW m \in 1..Qty, m < log'[j].k
                 PROVE  \E i \in DOMAIN log' : i < j /\ log'[i].o = log'[j].o /\ log'[i].k = m
      BY DEF IsFill
    <3>1. CASE j \in 1..L
      <4>1. PICK i \in DOMAIN log : i < j /\ log[i].o = log[j].o /\ log[i].k = m
        BY <1>0, <1>7, <3>1 DEF LogIsTrue, IsFill
      <4>2. QED  BY <1>7, <3>1, <4>1
    <3>2. CASE j = L + 1
      <4>1. m <= order[o].n  BY <1>1, <1>7, <1>n, <2>n, <3>2
      <4>2. PICK i \in DOMAIN log : log[i].o = o /\ log[i].k = m
        BY <1>0, <4>1 DEF LogIsTrue, IsFill
      <4>3. QED  BY <1>7, <1>n, <3>2, <4>2
    <3>3. QED  BY <2>0, <3>1, <3>2
  <2>7. QED  BY <2>1, <2>2, <2>4, <2>5, <2>6 DEF LogIsTrue
<1>14. BrokerGrows
  <2>1. \A j \in DOMAIN log' \ DOMAIN log :
          j = L + 1 /\ (log'[j].k > 0 => log'[j].k > order[log'[j].o].n)
    BY <1>0, <1>1, <1>7, <1>n, BrokerNumbers
  <2>2. \A x \in Order : /\ order[x].n <= order'[x].n
                         /\ order[x].st = "FILLED" => order'[x].st = "FILLED"
    BY <1>0, <1>1, <1>2, <1>8, <1>n, BrokerNumbers
  <2>3. QED  BY <1>4, <1>6, <1>7, <1>9, <2>1, <2>2 DEF BrokerGrows
<1>15. QED  BY <1>10, <1>11, <1>12, <1>13, <1>14 DEF BrokerInv

\* An item without a fill says nothing new.
LEMMA QuietItem ==
  ASSUME BrokerInv,
         NEW item \in [o: Order \cup {Other}, k: 0..Qty, at: Snapshot], item.k = 0,
         item.o \in Order => item.at.st # "FILLED", log' = Append(log, item),
         \A x \in Order : order'[x].n = order[x].n
  PROVE  /\ LogIsTrue' /\ log' \in Seq([o: Order \cup {Other}, k: 0..Qty, at: Snapshot])
         /\ \A j \in DOMAIN log : j \in DOMAIN log' /\ log'[j] = log[j]
         /\ \A j \in DOMAIN log' \ DOMAIN log : j = Len(log) + 1 /\ log'[j].k = 0
         /\ Len(log) <= Len(log')
<1> DEFINE Item == [o: Order \cup {Other}, k: 0..Qty, at: Snapshot]
<1>0. BrokerType /\ LogIsTrue  BY DEF BrokerInv
<1>1. PICK L \in Nat : L = Len(log)  BY <1>0, BrokerNumbers
<1>2. log \in Seq(Item) /\ item \in Item  BY <1>0 DEF BrokerType
<1> HIDE DEF Item
<1>3. /\ DOMAIN log = 1..L /\ Len(log') = L + 1 /\ DOMAIN log' = 1..(L + 1)
      /\ log'[L + 1] = item /\ \A j \in 1..L : log'[j] = log[j]
      /\ log' \in Seq(Item)
  BY <1>1, <1>2
<1>4. \A j \in DOMAIN log' : j \in 1..L \/ j = L + 1  BY <1>3
<1>5. \A j \in 1..L : log[j].k \in Nat  BY <1>0, <1>3, BrokerNumbers
<1>6. LogIsTrue'
  <2>1. \A j \in DOMAIN log' :
          log'[j].k > 0 => log'[j].o \in Order /\ log'[j].k <= order'[log'[j].o].n
    BY <1>0, <1>3, <1>4 DEF LogIsTrue
  <2>2. \A j \in DOMAIN log' :
          log'[j].o \in Order /\ log'[j].at.st = "FILLED" => log'[j].k = Qty
    BY <1>0, <1>3, <1>4 DEF LogIsTrue
  <2>3. \A i, j \in DOMAIN log' :
          log'[i].k > 0 /\ log'[i].k = log'[j].k /\ log'[i].o = log'[j].o => i = j
    <3>1. \A i, j \in 1..L :
            log[i].k > 0 /\ log[i].k = log[j].k /\ log[i].o = log[j].o => i = j
      BY <1>0, <1>3 DEF LogIsTrue
    <3>2. QED  BY <1>3, <1>4, <1>5, <3>1
  <2>4. \A x \in Order, k \in 1..Qty :
          k <= order'[x].n => \E j \in DOMAIN log' : IsFill(j, x, k)'
    <3> SUFFICES ASSUME NEW x \in Order, NEW k \in 1..Qty, k <= order'[x].n
                 PROVE  \E j \in DOMAIN log' : log'[j].o = x /\ log'[j].k = k
      BY DEF IsFill
    <3>1. PICK j \in DOMAIN log : log[j].o = x /\ log[j].k = k
      BY <1>0 DEF LogIsTrue, IsFill
    <3>2. QED  BY <1>3, <3>1
  <2>5. \A j \in DOMAIN log', m \in 1..Qty :
          m < log'[j].k => \E i \in DOMAIN log' : i < j /\ IsFill(i, log[j].o, m)'
    <3> SUFFICES ASSUME NEW j \in DOMAIN log', NEW m \in 1..Qty, m < log'[j].k
                 PROVE  \E i \in DOMAIN log' : i < j /\ log'[i].o = log'[j].o /\ log'[i].k = m
      BY DEF IsFill
    <3>1. j \in 1..L  BY <1>3, <1>4
    <3>2. PICK i \in DOMAIN log : i < j /\ log[i].o = log[j].o /\ log[i].k = m
      BY <1>0, <1>3, <3>1 DEF LogIsTrue, IsFill
    <3>3. QED  BY <1>3, <3>1, <3>2
  <2>6. QED  BY <2>1, <2>2, <2>3, <2>4, <2>5 DEF LogIsTrue
<1>7. \A j \in DOMAIN log' \ DOMAIN log : j = Len(log) + 1 /\ log'[j].k = 0
  BY <1>1, <1>3
<1>8. QED  BY <1>1, <1>3, <1>6, <1>7 DEF Item

LEMMA KillKeepsBroker ==
  ASSUME BrokerInv, NEW o \in Order, Kill(o)
  PROVE  BrokerInv' /\ BrokerGrows
<1>0. BrokerType /\ FilledIsWhole /\ LogIsTrue /\ ImpactsExist  BY DEF BrokerInv
<1>1. /\ order[o].st = "OPEN" /\ order[o].n \in 0..Qty /\ order[o].n # Qty
      /\ order[o] \in Snapshot
  BY <1>0, BrokerNumbers DEF Kill, FilledIsWhole
<1>2. PICK now \in Snapshot : now = [order[o] EXCEPT !.st = "DEAD"]  BY <1>1 DEF Snapshot
<1>3. now.n = order[o].n /\ now.st = "DEAD"  BY <1>1, <1>2 DEF Snapshot
<1>4. /\ order' = [order EXCEPT ![o] = now] /\ impact' = impact /\ api' = api
      /\ log' = IF now.n > 0 THEN log ELSE Append(log, [o |-> o, k |-> 0, at |-> now])
  BY <1>2 DEF Kill
<1>5. /\ order' \in [Order -> Snapshot]
      /\ \A x \in Order : order'[x] = IF x = o THEN now ELSE order[x]
  BY <1>0, <1>4 DEF BrokerType
<1>6. \A x \in Order : order'[x].n = order[x].n  BY <1>3, <1>5
<1>7. /\ LogIsTrue' /\ log' \in Seq([o: Order \cup {Other}, k: 0..Qty, at: Snapshot])
      /\ \A j \in DOMAIN log : j \in DOMAIN log' /\ log'[j] = log[j]
      /\ \A j \in DOMAIN log' \ DOMAIN log : j = Len(log) + 1 /\ log'[j].k = 0
      /\ Len(log) <= Len(log')
  <2>1. CASE now.n > 0
    <3>1. log' = log  BY <1>4, <2>1
    <3>2. LogIsTrue'
      <4>1. \A j \in DOMAIN log' :
              log'[j].k > 0 => log'[j].o \in Order /\ log'[j].k <= order'[log'[j].o].n
        BY <1>0, <1>6, <3>1 DEF LogIsTrue
      <4>2. \A x \in Order, k \in 1..Qty :
              k <= order'[x].n => \E j \in DOMAIN log' : IsFill(j, x, k)'
        BY <1>0, <1>6, <3>1 DEF LogIsTrue, IsFill
      <4>3. QED  BY <1>0, <3>1, <4>1, <4>2 DEF LogIsTrue, IsFill
    <3>3. QED  BY <1>0, <3>1, <3>2, BrokerNumbers DEF BrokerType
  <2>2. CASE ~(now.n > 0)
    <3>0. 0 \in 0..Qty  BY ConstantsAssumption
    <3>1. PICK item \in [o: Order \cup {Other}, k: 0..Qty, at: Snapshot] :
            item = [o |-> o, k |-> 0, at |-> now]
      <4>1. [o |-> o, k |-> 0, at |-> now] \in [o: Order \cup {Other}, k: 0..Qty, at: Snapshot]
        BY <1>2, <3>0
      <4>2. QED  BY <4>1
    <3>2. item.k = 0 /\ item.o = o /\ item.at = now  BY <3>1
    <3>3. log' = Append(log, item) /\ item.at.st # "FILLED"  BY <1>3, <1>4, <2>2, <3>1, <3>2
    <3>4. QED  BY <1>6, <3>2, <3>3, QuietItem
  <2>3. QED  BY <2>1, <2>2
<1>8. BrokerType'  BY <1>0, <1>4, <1>5, <1>7 DEF BrokerType
<1>9. FilledIsWhole'  BY <1>0, <1>1, <1>3, <1>5 DEF FilledIsWhole
<1>10. ImpactsExist'  BY <1>0, <1>4, <1>6 DEF ImpactsExist
<1>11. BrokerGrows
  <2>1. \A x \in Order : /\ order[x].n <= order'[x].n
                         /\ order[x].st = "FILLED" => order'[x].st = "FILLED"
    BY <1>0, <1>1, <1>5, <1>6, BrokerNumbers
  <2>2. QED  BY <1>4, <1>7, <2>1 DEF BrokerGrows
<1>12. QED  BY <1>7, <1>8, <1>9, <1>10, <1>11 DEF BrokerInv

LEMMA OtherKeepsBroker ==
  ASSUME BrokerInv, OtherExecutes
  PROVE  BrokerInv' /\ BrokerGrows
<1>0. BrokerType /\ FilledIsWhole /\ LogIsTrue /\ ImpactsExist  BY DEF BrokerInv
<1>q. 0 \in 0..Qty  BY ConstantsAssumption
<1>1. PICK at \in Snapshot : at = [st |-> "FILLED", n |-> 0]
  <2>1. [st |-> "FILLED", n |-> 0] \in Snapshot  BY <1>q DEF Snapshot
  <2>2. QED  BY <2>1
<1>2. PICK item \in [o: Order \cup {Other}, k: 0..Qty, at: Snapshot] :
        item = [o |-> Other, k |-> 0, at |-> at]
  <2>1. [o |-> Other, k |-> 0, at |-> at] \in [o: Order \cup {Other}, k: 0..Qty, at: Snapshot]
    BY <1>q, <1>1
  <2>2. QED  BY <2>1
<1>3. /\ order' = order /\ impact' = impact /\ api' = api /\ log' = Append(log, item)
      /\ item.o = Other /\ item.k = 0
  BY <1>1, <1>2 DEF OtherExecutes
<1>4. /\ LogIsTrue' /\ log' \in Seq([o: Order \cup {Other}, k: 0..Qty, at: Snapshot])
      /\ \A j \in DOMAIN log : j \in DOMAIN log' /\ log'[j] = log[j]
      /\ \A j \in DOMAIN log' \ DOMAIN log : j = Len(log) + 1 /\ log'[j].k = 0
      /\ Len(log) <= Len(log')
  BY <1>3, ConstantsAssumption, QuietItem
<1>5. BrokerInv'
  BY <1>0, <1>3, <1>4 DEF BrokerInv, BrokerType, FilledIsWhole, ImpactsExist
<1>6. \A x \in Order : order[x].n <= order'[x].n  BY <1>0, <1>3, BrokerNumbers
<1>7. QED  BY <1>3, <1>4, <1>5, <1>6 DEF BrokerGrows

LEMMA SameBrokerKeepsBroker ==
  ASSUME BrokerInv, UNCHANGED <<order, log, api>>, DOMAIN impact' = DOMAIN impact,
         \A f \in DOMAIN impact : impact'[f] \in Impact[f[2]]
  PROVE  BrokerInv' /\ BrokerGrows
<1>0. BrokerType /\ FilledIsWhole /\ LogIsTrue /\ ImpactsExist  BY DEF BrokerInv
<1>1. BrokerType'  BY <1>0 DEF BrokerType
<1>2. FilledIsWhole' /\ ImpactsExist'  BY <1>0 DEF FilledIsWhole, ImpactsExist
<1>3. LogIsTrue'  BY <1>0 DEF LogIsTrue, IsFill
<1>4. BrokerGrows  BY <1>0, BrokerNumbers DEF BrokerGrows
<1>5. QED  BY <1>1, <1>2, <1>3, <1>4 DEF BrokerInv

LEMMA AmendKeepsBroker ==
  ASSUME BrokerInv, NEW f \in Fill, Amend(f)
  PROVE  BrokerInv' /\ BrokerGrows
<1>1. PICK i \in Impact[f[2]] : impact' = [impact EXCEPT ![f] = i]  BY DEF Amend
<1>2. UNCHANGED <<order, log, api>> /\ DOMAIN impact' = DOMAIN impact  BY <1>1 DEF Amend
<1>3. \A x \in DOMAIN impact : impact'[x] \in Impact[x[2]]
  BY <1>1 DEF BrokerInv, BrokerType
<1>4. QED  BY <1>2, <1>3, SameBrokerKeepsBroker

-----------------------------------------------------------------------------
(* The reads *)

ProcsType ==
  /\ pc \in [Proc -> {"idle", "page", "apply"}] /\ pend \in [Proc -> SUBSET Order]
  /\ top \in [Proc -> Nat] /\ pages \in [Proc -> Nat] /\ got \in [Proc -> SUBSET ItemType]

\* What is fetched is true of the order it is about.
ItemsAreTrue(p) ==
  \A g \in got[p] :
    /\ g.k <= order[g.o].n
    /\ g.k > 0 => \E x \in AnyImpact : g.impact = {x}
    /\ g.at.st = "FILLED" =>
         order[g.o].st = "FILLED" /\ (api.snapshot = "fill" => g.k = Qty)

\* Down to the next page's newest item, a read has every fill older than its
\* beginning, or than a fill it has.
Low(p) == IF pc[p] = "apply" THEN 0 ELSE Newest(p)
Seen(p, i) == \E g \in got[p] : g.o = log[i].o /\ g.k = log[i].k
NoGap(p) ==
  /\ \A i \in DOMAIN log : log[i].k > 0 /\ i <= top[p] /\ i > Low(p) => Seen(p, i)
  /\ \A g \in got[p], i, j \in DOMAIN log :
       g.k > 0 /\ IsFill(j, g.o, g.k) /\ i < j /\ i > Low(p) /\ log[i].k > 0 => Seen(p, i)

ReadInv(p) ==
  /\ pc[p] = "idle" => pages[p] = 0
  /\ pages[p] = 0 => got[p] = {} /\ top[p] = 0
  /\ top[p] <= Len(log)
  /\ ItemsAreTrue(p) /\ NoGap(p)

LEMMA NextPageIsLower == ASSUME NEW a \in Int, NEW b \in Int PROVE (a + 1) * b = a * b + b
BY SMT

LEMMA Regroup ==
  ASSUME NEW a \in Int, NEW b \in Int, NEW c \in Int PROVE a - (b + c) = (a - b) - c
BY SMT

LEMMA Multiply == ASSUME NEW a \in Int, NEW b \in Int PROVE a * b \in Int
BY SMT

LEMMA NewestIsNumber ==
  ASSUME BrokerType, ProcsType, NEW p \in Proc
  PROVE  /\ Newest(p) \in Int /\ pages[p] * PageSize \in Int /\ PageSize \in Int
         /\ pages[p] \in Nat /\ top[p] \in Nat /\ Len(log) \in Nat
<1>1. pages[p] \in Nat /\ top[p] \in Nat  BY DEF ProcsType
<1>2. PageSize \in Int  BY ConstantsAssumption
<1>3. pages[p] * PageSize \in Int  BY <1>1, <1>2, Multiply
<1>4. Len(log) \in Nat  BY BrokerNumbers
<1>5. PICK T \in Nat :
        T = IF pages[p] = 0 \/ api.paging = "offset" THEN Len(log) ELSE top[p]
  BY <1>1, <1>4
<1>6. PICK M \in Int : M = pages[p] * PageSize  BY <1>3
<1>7. Newest(p) = T - M  BY <1>5, <1>6 DEF Newest
<1>8. QED  BY <1>1, <1>2, <1>3, <1>4, <1>7

LEMMA GotItems ==
  ASSUME BrokerType, ProcsType, NEW p \in Proc, NEW g \in got[p]
  PROVE  g.o \in Order /\ g.k \in 0..Qty /\ g.at \in Snapshot /\ g \in ItemType
BY DEF ProcsType, ItemType

LEMMA ReadKept ==
  ASSUME BrokerInv, BrokerInv', BrokerGrows, ProcsType, ProcsType', NEW p \in Proc, ReadInv(p),
         pc'[p] = pc[p], top'[p] = top[p], pages'[p] = pages[p], got'[p] = got[p]
  PROVE  ReadInv(p)'
<1>0. BrokerType /\ BrokerType' /\ LogIsTrue  BY DEF BrokerInv
<1>1. /\ \A j \in DOMAIN log : j \in DOMAIN log' /\ log'[j] = log[j]
      /\ \A j \in DOMAIN log' \ DOMAIN log :
           /\ j = Len(log) + 1
           /\ log'[j].k > 0 => log'[j].k > order[log'[j].o].n
      /\ Len(log) <= Len(log') /\ api' = api
  BY DEF BrokerGrows
<1>2. /\ Len(log) \in Nat /\ DOMAIN log = 1..Len(log)
      /\ Len(log') \in Nat /\ DOMAIN log' = 1..Len(log')
  BY <1>0 DEF BrokerType
<1>3. \A g \in got[p] :
        g.o \in Order /\ g.k \in 0..Qty /\ order[g.o].n \in Nat /\ order'[g.o].n \in Nat
        /\ order[g.o].n <= order'[g.o].n
        /\ (order[g.o].st = "FILLED" => order'[g.o].st = "FILLED")
  <2> SUFFICES ASSUME NEW g \in got[p]
               PROVE  g.o \in Order /\ g.k \in 0..Qty /\ order[g.o].n \in Nat
                      /\ order'[g.o].n \in Nat /\ order[g.o].n <= order'[g.o].n
                      /\ (order[g.o].st = "FILLED" => order'[g.o].st = "FILLED")
    OBVIOUS
  <2>1. g.o \in Order /\ g.k \in 0..Qty  BY <1>0, GotItems
  <2>2. order[g.o].n \in Nat  BY <1>0, <2>1, BrokerNumbers
  <2>3. order'[g.o].n \in Nat
    <3>1. order'[g.o] \in Snapshot  BY <1>0, <2>1 DEF BrokerType
    <3>2. QED  BY <3>1, ConstantsAssumption DEF Snapshot
  <2>4. QED  BY <2>1, <2>2, <2>3 DEF BrokerGrows
<1>4. ItemsAreTrue(p)'
  <2>1. \A g \in got[p] : g.k <= order'[g.o].n
    BY <1>3, ConstantsAssumption DEF ReadInv, ItemsAreTrue
  <2>2. QED  BY <1>1, <1>3, <2>1 DEF ReadInv, ItemsAreTrue
<1>5. pages[p] = 0 \/ (Low(p) \in Int /\ Low(p)' \in Int /\ Low(p) <= Low(p)')
  <2>1. CASE pc[p] = "apply"  BY <2>1 DEF Low
  <2>2. CASE pc[p] # "apply"
    <3>1. Low(p) = Newest(p) /\ Low(p)' = Newest(p)'  BY <2>2 DEF Low
    <3>2. pages[p] * PageSize \in Int /\ top[p] \in Nat  BY <1>0, NewestIsNumber
    <3>3. QED  BY <1>1, <1>2, <3>1, <3>2 DEF Newest
  <2>3. QED  BY <2>1, <2>2
<1>6. NoGap(p)'
  <2>1. CASE pages[p] = 0
    <3>1. got'[p] = {} /\ top'[p] = 0  BY <2>1 DEF ReadInv
    <3>2. \A i \in DOMAIN log' : ~(i <= 0)  BY <1>2
    <3>3. QED  BY <3>1, <3>2 DEF NoGap
  <2>2. CASE pages[p] # 0
    <3>0. /\ Low(p) \in Int /\ Low(p)' \in Int /\ Low(p) <= Low(p)'  BY <1>5, <2>2
    <3>1. ASSUME NEW i \in DOMAIN log', log'[i].k > 0, i <= top[p], i > Low(p)'
          PROVE  \E g \in got[p] : g.o = log'[i].o /\ g.k = log'[i].k
      <4>1. top[p] <= Len(log) /\ top[p] \in Nat  BY <1>0, NewestIsNumber DEF ReadInv
      <4>2. i \in DOMAIN log /\ log'[i] = log[i] /\ i \in Nat
        BY <1>1, <1>2, <3>1, <4>1
      <4>3. i > Low(p)  BY <3>0, <3>1, <4>2
      <4>4. QED  BY <3>1, <4>2, <4>3 DEF ReadInv, NoGap, Seen
    <3>2. ASSUME NEW g \in got[p], NEW i \in DOMAIN log', NEW j \in DOMAIN log', g.k > 0,
                 log'[j].o = g.o, log'[j].k = g.k, i < j, i > Low(p)', log'[i].k > 0
          PROVE  \E h \in got[p] : h.o = log'[i].o /\ h.k = log'[i].k
      <4>1. g.k <= order[g.o].n  BY DEF ReadInv, ItemsAreTrue
      <4>2. j \in DOMAIN log
        <5> SUFFICES ASSUME j \notin DOMAIN log PROVE FALSE
          OBVIOUS
        <5>1. g.k > order[g.o].n  BY <1>1, <3>2
        <5>2. QED  BY <1>3, <4>1, <5>1, ConstantsAssumption
      <4>3. i \in DOMAIN log
        <5>1. j <= Len(log)  BY <1>2, <4>2
        <5>2. i # Len(log) + 1  BY <1>2, <3>2, <4>2, <5>1
        <5>3. QED  BY <1>1, <5>2
      <4>4. log'[i] = log[i] /\ log'[j] = log[j] /\ i \in Int  BY <1>1, <1>2, <4>2, <4>3
      <4>5. i > Low(p)  BY <3>0, <3>2, <4>4
      <4>6. IsFill(j, g.o, g.k)  BY <3>2, <4>4 DEF IsFill
      <4>7. Seen(p, i)  BY <3>2, <4>2, <4>3, <4>4, <4>5, <4>6 DEF ReadInv, NoGap
      <4>8. QED  BY <4>4, <4>7 DEF Seen
    <3>3. QED  BY <3>1, <3>2 DEF NoGap, Seen, IsFill
  <2>3. QED  BY <2>1, <2>2
<1>7. top'[p] <= Len(log')
  <2>1. top[p] <= Len(log) /\ top[p] \in Nat  BY <1>0, NewestIsNumber DEF ReadInv
  <2>2. QED  BY <1>1, <1>2, <2>1
<1>8. QED  BY <1>4, <1>6, <1>7 DEF ReadInv

LEMMA ReadOver ==
  ASSUME NEW p \in Proc, ProcsType, BrokerType', Exit(p)
  PROVE  ReadInv(p)'
<1>1. pc'[p] = "idle" /\ pages'[p] = 0 /\ top'[p] = 0 /\ got'[p] = {}
  BY DEF Exit, ProcsType
<1>2. Len(log') \in Nat /\ \A i \in DOMAIN log' : ~(i <= 0)  BY DEF BrokerType
<1>3. QED  BY <1>1, <1>2 DEF ReadInv, ItemsAreTrue, NoGap

LEMMA ExitType ==
  ASSUME ProcsType, NEW p \in Proc, Exit(p)
  PROVE  /\ ProcsType'
         /\ \A q \in Proc \ {p} : /\ pc'[q] = pc[q] /\ top'[q] = top[q]
                                  /\ pages'[q] = pages[q] /\ got'[q] = got[q]
BY DEF ProcsType, Exit

\* What a page serves: every fill on it, typed and true.
LEMMA ServedItems ==
  ASSUME BrokerInv, ProcsType, NEW p \in Proc
  PROVE  /\ \A g \in Page(p) :
              /\ g \in ItemType /\ g.k <= order[g.o].n
              /\ g.k > 0 => \E x \in AnyImpact : g.impact = {x}
              /\ g.at.st = "FILLED" =>
                   order[g.o].st = "FILLED" /\ (api.snapshot = "fill" => g.k = Qty)
              /\ \E m \in DOMAIN log : log[m].o = g.o /\ log[m].k = g.k /\ m <= Newest(p)
         /\ \A i \in DOMAIN log :
              log[i].k > 0 /\ i <= Newest(p) /\ Newest(p) - PageSize < i =>
                \E g \in Page(p) : g.o = log[i].o /\ g.k = log[i].k
<1>0. BrokerType /\ FilledIsWhole /\ LogIsTrue /\ ImpactsExist  BY DEF BrokerInv
<1>1. ASSUME NEW m \in DOMAIN log, log[m].o # Other, m <= Newest(p)
      PROVE  /\ Served(m) \in ItemType /\ Served(m).k <= order[Served(m).o].n
             /\ Served(m).o = log[m].o /\ Served(m).k = log[m].k
             /\ Served(m).k > 0 => \E x \in AnyImpact : Served(m).impact = {x}
             /\ Served(m).at.st = "FILLED" =>
                  /\ order[Served(m).o].st = "FILLED"
                  /\ api.snapshot = "fill" => Served(m).k = Qty
  <2>1. PICK o \in Order, k \in 0..Qty, at \in Snapshot :
          log[m].o = o /\ log[m].k = k /\ log[m].at = at
    BY <1>0, <1>1, BrokerNumbers
  <2>2. PICK x : x = IF k > 0 THEN {impact[<<o, k>>]} ELSE {}
    OBVIOUS
  <2>3. /\ x \in SUBSET AnyImpact
        /\ k > 0 => \E y \in AnyImpact : x = {y}
    <3>1. CASE k > 0
      <4>1. k \in 1..Qty /\ k <= order[o].n  BY <1>0, <2>1, <3>1 DEF LogIsTrue
      <4>2. <<o, k>> \in DOMAIN impact  BY <1>0, <4>1 DEF ImpactsExist
      <4>3. impact[<<o, k>>] \in Impact[k]  BY <1>0, <4>2 DEF BrokerType
      <4>4. impact[<<o, k>>] \in AnyImpact  BY <4>1, <4>3 DEF AnyImpact
      <4>5. QED  BY <2>2, <3>1, <4>4
    <3>2. CASE ~(k > 0)  BY <2>2, <3>2
    <3>3. QED  BY <3>1, <3>2
  <2>4. PICK a \in Snapshot : a = IF api.snapshot = "fill" THEN at ELSE order[o]
    BY <1>0, <2>1, BrokerNumbers
  <2>5. Served(m) = [o |-> o, k |-> k, impact |-> x, at |-> a]
    BY <2>1, <2>2, <2>4 DEF Served
  <2>6. k <= order[o].n
    BY <1>0, <2>1, BrokerNumbers DEF LogIsTrue
  <2>7. a.st = "FILLED" => order[o].st = "FILLED" /\ (api.snapshot = "fill" => k = Qty)
    <3>1. CASE api.snapshot = "fill"
      <4>1. a.st = "FILLED" => k = Qty  BY <1>0, <2>1, <2>4, <3>1 DEF LogIsTrue
      <4>2. k = Qty => order[o].n = Qty  BY <1>0, <2>1, <2>6, BrokerNumbers
      <4>3. QED  BY <1>0, <4>1, <4>2 DEF FilledIsWhole
    <3>2. CASE api.snapshot # "fill"  BY <2>4, <3>2
    <3>3. QED  BY <3>1, <3>2
  <2>8. Served(m) \in ItemType  BY <2>3, <2>5 DEF ItemType
  <2>9. QED  BY <2>1, <2>3, <2>5, <2>6, <2>7, <2>8
<1>2. ASSUME NEW g \in Page(p)
      PROVE  \E m \in DOMAIN log : g = Served(m) /\ log[m].o # Other /\ m <= Newest(p)
  BY <1>2 DEF Page
<1>3. \A i \in DOMAIN log :
        log[i].k > 0 /\ i <= Newest(p) /\ Newest(p) - PageSize < i =>
          \E g \in Page(p) : g.o = log[i].o /\ g.k = log[i].k
  <2> SUFFICES ASSUME NEW i \in DOMAIN log, log[i].k > 0, i <= Newest(p),
                      Newest(p) - PageSize < i
               PROVE  \E g \in Page(p) : g.o = log[i].o /\ g.k = log[i].k
    OBVIOUS
  <2>1. log[i].o # Other  BY <1>0, ConstantsAssumption DEF LogIsTrue
  <2>2. Served(i) \in Page(p)  BY <2>1 DEF Page
  <2>3. QED  BY <1>1, <2>1, <2>2
<1>4. ASSUME NEW g \in Page(p)
      PROVE  /\ g \in ItemType /\ g.k <= order[g.o].n
             /\ g.k > 0 => \E x \in AnyImpact : g.impact = {x}
             /\ g.at.st = "FILLED" =>
                  order[g.o].st = "FILLED" /\ (api.snapshot = "fill" => g.k = Qty)
             /\ \E m \in DOMAIN log : log[m].o = g.o /\ log[m].k = g.k /\ m <= Newest(p)
  <2>1. PICK m \in DOMAIN log : g = Served(m) /\ log[m].o # Other /\ m <= Newest(p)
    BY <1>2, <1>4
  <2>2. QED  BY <1>1, <2>1
<1>5. QED  BY <1>3, <1>4

LEMMA PageIsRead ==
  ASSUME BrokerInv, ProcsType, NEW p \in Proc, ReadInv(p), FetchPage(p)
  PROVE  ProcsType' /\ ReadInv(p)'
<1>0. BrokerType /\ LogIsTrue /\ pc[p] = "page"  BY DEF BrokerInv, FetchPage
<1>b. UNCHANGED broker  BY DEF FetchPage
<1>1. CASE Exit(p)
  <2>1. BrokerType'  BY <1>0, <1>b DEF BrokerType, broker
  <2>2. QED  BY <1>1, <2>1, ReadOver, ExitType
<1>2. CASE ~Exit(p)
  <2>1. /\ got' = [got EXCEPT ![p] = got[p] \cup Page(p)]
        /\ top' = [top EXCEPT ![p] = IF pages[p] = 0 THEN Len(log) ELSE top[p]]
        /\ pages' = [pages EXCEPT ![p] = pages[p] + 1]
        /\ pc' = [pc EXCEPT ![p] = IF Newest(p) > PageSize THEN "page" ELSE "apply"]
        /\ pend' = pend
    BY <1>2 DEF FetchPage
  <2>2. /\ Newest(p) \in Int /\ pages[p] * PageSize \in Int /\ PageSize \in Int
        /\ pages[p] \in Nat /\ top[p] \in Nat /\ Len(log) \in Nat
    BY <1>0, NewestIsNumber
  <2>3. got[p] \subseteq ItemType /\ Page(p) \subseteq ItemType
    BY ServedItems DEF ProcsType
  <2>4. ProcsType'
    <3>1. got' \in [Proc -> SUBSET ItemType]  BY <2>1, <2>3 DEF ProcsType
    <3>2. top' \in [Proc -> Nat] /\ pages' \in [Proc -> Nat]
      <4>1. (IF pages[p] = 0 THEN Len(log) ELSE top[p]) \in Nat /\ pages[p] + 1 \in Nat
        BY <2>2
      <4>2. top' \in [Proc -> Nat]  BY <2>1, <4>1 DEF ProcsType
      <4>3. pages' \in [Proc -> Nat]  BY <2>1, <4>1 DEF ProcsType
      <4>4. QED  BY <4>2, <4>3
    <3>3. pc' \in [Proc -> {"idle", "page", "apply"}]  BY <2>1 DEF ProcsType
    <3>4. pend' \in [Proc -> SUBSET Order]  BY <2>1 DEF ProcsType
    <3>5. QED  BY <3>1, <3>2, <3>3, <3>4 DEF ProcsType
  <2>5. /\ got'[p] = got[p] \cup Page(p) /\ pages'[p] = pages[p] + 1
        /\ top'[p] = (IF pages[p] = 0 THEN Len(log) ELSE top[p])
        /\ pc'[p] = (IF Newest(p) > PageSize THEN "page" ELSE "apply")
    BY <2>1 DEF ProcsType
  <2>6. order' = order /\ log' = log /\ impact' = impact /\ api' = api
    BY <1>b DEF broker
  <2>7. pc'[p] # "idle" /\ pages'[p] # 0 /\ top'[p] <= Len(log')
    BY <2>2, <2>5, <2>6 DEF ReadInv
  <2>8. ItemsAreTrue(p)'
    <3>1. \A g \in got[p] \cup Page(p) :
            /\ g.k <= order[g.o].n
            /\ g.k > 0 => \E x \in AnyImpact : g.impact = {x}
            /\ g.at.st = "FILLED" =>
                 order[g.o].st = "FILLED" /\ (api.snapshot = "fill" => g.k = Qty)
      BY ServedItems DEF ReadInv, ItemsAreTrue
    <3>2. QED  BY <2>5, <2>6, <3>1 DEF ItemsAreTrue
  <2>9. PICK N \in Int : N = Newest(p)  BY <2>2
  <2>10. Low(p) = N  BY <1>0, <2>9 DEF Low
  <2>11. \A i \in DOMAIN log : i > Low(p)' => i > N - PageSize
    <3>1. DOMAIN log \subseteq Nat \ {0}  BY <1>0, BrokerNumbers
    <3>2. CASE N > PageSize
      <4>1. Low(p)' = Newest(p)'  BY <2>5, <2>9, <3>2 DEF Low
      <4>2. pages'[p] * PageSize = pages[p] * PageSize + PageSize
        BY <2>2, <2>5, NextPageIsLower
      <4>3. Newest(p)' = N - PageSize
        <5>1. Newest(p)' = (IF api.paging = "offset" THEN Len(log) ELSE top'[p])
                           - (pages[p] * PageSize + PageSize)
          BY <2>6, <2>7, <4>2 DEF Newest
        <5> PICK M \in Int : M = pages[p] * PageSize  BY <2>2
        <5> PICK T \in Nat : T = IF api.paging = "offset" THEN Len(log) ELSE top'[p]
          BY <2>2, <2>5
        <5>2. Newest(p)' = T - (M + PageSize)  BY <5>1
        <5>3. N = T - M  BY <2>5, <2>9 DEF Newest
        <5>4. T - (M + PageSize) = (T - M) - PageSize  BY <2>2, Regroup
        <5>5. QED  BY <5>2, <5>3, <5>4
      <4>4. QED  BY <4>1, <4>3
    <3>3. CASE ~(N > PageSize)
      <4>1. \A i \in DOMAIN log : i \in Int /\ i > 0  BY <3>1
      <4>2. N - PageSize <= 0 /\ N - PageSize \in Int  BY <2>2, <3>3
      <4>3. QED  BY <4>1, <4>2
    <3>4. QED  BY <3>2, <3>3
  <2>12. \A i \in DOMAIN log :
           log[i].k > 0 /\ i <= N /\ i > Low(p)' =>
             \E g \in got'[p] : g.o = log[i].o /\ g.k = log[i].k
    <3> SUFFICES ASSUME NEW i \in DOMAIN log, log[i].k > 0, i <= N, i > Low(p)'
                 PROVE  \E g \in got'[p] : g.o = log[i].o /\ g.k = log[i].k
      OBVIOUS
    <3>1. i \in Int /\ i > N - PageSize  BY <1>0, <2>11, BrokerNumbers
    <3>2. Newest(p) - PageSize < i /\ i <= Newest(p)  BY <2>2, <2>9, <3>1
    <3>3. PICK g \in Page(p) : g.o = log[i].o /\ g.k = log[i].k  BY <3>2, ServedItems
    <3>4. QED  BY <2>5, <3>3
  <2>13. ASSUME NEW i \in DOMAIN log, log[i].k > 0, i <= top'[p], i > Low(p)'
         PROVE  \E g \in got'[p] : g.o = log[i].o /\ g.k = log[i].k
    <3>1. CASE i <= N  BY <2>12, <2>13, <3>1
    <3>2. CASE ~(i <= N)
      <4>1. pages[p] # 0
        <5> SUFFICES ASSUME pages[p] = 0 PROVE FALSE
          OBVIOUS
        <5>1. N = Len(log) - 0 * PageSize  BY <2>9 DEF Newest
        <5>2. i <= Len(log) /\ i \in Int  BY <1>0, BrokerNumbers
        <5>3. 0 * PageSize = 0  BY <2>2
        <5>4. QED  BY <2>2, <3>2, <5>1, <5>2, <5>3
      <4>2. i <= top[p] /\ i > Low(p)
        <5>1. i \in Int  BY <1>0, BrokerNumbers
        <5>2. QED  BY <2>5, <2>10, <2>13, <3>2, <4>1, <5>1
      <4>3. Seen(p, i)  BY <2>13, <4>2 DEF ReadInv, NoGap
      <4>4. QED  BY <2>5, <4>3 DEF Seen
    <3>3. QED  BY <3>1, <3>2
  <2>14. ASSUME NEW g \in got'[p], NEW i \in DOMAIN log, NEW j \in DOMAIN log, g.k > 0,
                IsFill(j, g.o, g.k), i < j, i > Low(p)', log[i].k > 0
         PROVE  \E h \in got'[p] : h.o = log[i].o /\ h.k = log[i].k
    <3>1. CASE i <= N  BY <2>12, <2>14, <3>1
    <3>2. CASE ~(i <= N)
      <4>0. i \in Int /\ j \in Int  BY <1>0, BrokerNumbers
      <4>1. g \in got[p]
        <5> SUFFICES ASSUME g \in Page(p) PROVE FALSE
          BY <2>5, <2>14
        <5>1. PICK m \in DOMAIN log : log[m].o = g.o /\ log[m].k = g.k /\ m <= N
          BY <2>9, ServedItems
        <5>2. m = j  BY <1>0, <2>14, <5>1 DEF LogIsTrue, IsFill
        <5>3. QED  BY <2>14, <3>2, <4>0, <5>1, <5>2
      <4>2. i > Low(p)  BY <2>10, <3>2, <4>0
      <4>3. Seen(p, i)  BY <2>14, <4>1, <4>2 DEF ReadInv, NoGap
      <4>4. QED  BY <2>5, <4>3 DEF Seen
    <3>3. QED  BY <3>1, <3>2
  <2>15. NoGap(p)'  BY <2>6, <2>13, <2>14 DEF NoGap, Seen, IsFill
  <2>16. QED  BY <2>4, <2>7, <2>8, <2>15 DEF ReadInv
<1>3. QED  BY <1>1, <1>2

AllReads == ProcsType /\ \A p \in Proc : ReadInv(p)

LEMMA SameBroker ==
  ASSUME BrokerInv, UNCHANGED broker
  PROVE  BrokerInv' /\ BrokerGrows
<1>1. UNCHANGED <<order, log, api>> /\ impact' = impact  BY DEF broker
<1>2. \A f \in DOMAIN impact : impact'[f] \in Impact[f[2]]
  BY <1>1 DEF BrokerInv, BrokerType
<1>3. QED  BY <1>1, <1>2, SameBrokerKeepsBroker

LEMMA ReadsOfOthers ==
  ASSUME BrokerInv, BrokerInv', BrokerGrows, AllReads, ProcsType', NEW p \in Proc, ReadInv(p)',
         \A q \in Proc \ {p} : /\ pc'[q] = pc[q] /\ top'[q] = top[q]
                               /\ pages'[q] = pages[q] /\ got'[q] = got[q]
  PROVE  AllReads'
<1>1. ASSUME NEW q \in Proc \ {p} PROVE ReadInv(q)'
  BY <1>1, ReadKept DEF AllReads
<1>2. QED  BY <1>1 DEF AllReads

LEMMA ReadsKept ==
  ASSUME BrokerInv, BrokerInv', BrokerGrows, AllReads, UNCHANGED procs
  PROVE  AllReads'
<1>1. ProcsType'  BY DEF AllReads, ProcsType, procs
<1>2. ASSUME NEW q \in Proc PROVE ReadInv(q)'
  <2>1. pc' = pc /\ top' = top /\ pages' = pages /\ got' = got  BY DEF procs
  <2>2. QED  BY <1>1, <2>1, ReadKept DEF AllReads
<1>3. QED  BY <1>1, <1>2 DEF AllReads

LEMMA ExitReads ==
  ASSUME BrokerInv, UNCHANGED broker, AllReads, NEW p \in Proc, Exit(p)
  PROVE  AllReads'
<1>1. BrokerInv' /\ BrokerGrows  BY SameBroker
<1>2. /\ ProcsType'
      /\ \A q \in Proc \ {p} : /\ pc'[q] = pc[q] /\ top'[q] = top[q]
                               /\ pages'[q] = pages[q] /\ got'[q] = got[q]
  BY ExitType DEF AllReads
<1>3. ReadInv(p)'  BY <1>1, ReadOver DEF AllReads, BrokerInv
<1>4. QED  BY <1>1, <1>2, <1>3, ReadsOfOthers

LEMMA BeginReads ==
  ASSUME BrokerInv, AllReads, NEW p \in Proc, Begin(p)
  PROVE  AllReads'
<1>0. ProcsType /\ pc[p] = "idle" /\ ReadInv(p)  BY DEF AllReads, Begin
<1>1. UNCHANGED broker /\ BrokerInv' /\ BrokerGrows
  <2>1. UNCHANGED broker  BY DEF Begin
  <2>2. QED  BY <2>1, SameBroker
<1>2. /\ pc' = [pc EXCEPT ![p] = "page"] /\ top' = top /\ pages' = pages /\ got' = got
      /\ pend' = [pend EXCEPT ![p] = {o \in Order : order[o].st = "OPEN"}]
  BY DEF Begin
<1>3. ProcsType'  BY <1>0, <1>2 DEF ProcsType
<1>4. \A q \in Proc \ {p} : /\ pc'[q] = pc[q] /\ top'[q] = top[q]
                            /\ pages'[q] = pages[q] /\ got'[q] = got[q]
  BY <1>0, <1>2 DEF ProcsType
<1>5. ReadInv(p)'
  <2>1. /\ pages'[p] = 0 /\ got'[p] = {} /\ top'[p] = 0 /\ pc'[p] = "page"
    BY <1>0, <1>2 DEF ProcsType, ReadInv
  <2>2. Len(log') \in Nat /\ \A i \in DOMAIN log' : ~(i <= 0)
    BY <1>1 DEF BrokerInv, BrokerType
  <2>3. QED  BY <2>1, <2>2 DEF ReadInv, ItemsAreTrue, NoGap
<1>6. QED  BY <1>1, <1>3, <1>4, <1>5, ReadsOfOthers

LEMMA FetchReads ==
  ASSUME BrokerInv, AllReads, NEW p \in Proc, FetchPage(p)
  PROVE  AllReads'
<1>0. ProcsType /\ ReadInv(p)  BY DEF AllReads
<1>1. BrokerInv' /\ BrokerGrows
  <2>1. UNCHANGED broker  BY DEF FetchPage
  <2>2. QED  BY <2>1, SameBroker
<1>2. ProcsType' /\ ReadInv(p)'  BY <1>0, PageIsRead
<1>3. \A q \in Proc \ {p} : /\ pc'[q] = pc[q] /\ top'[q] = top[q]
                            /\ pages'[q] = pages[q] /\ got'[q] = got[q]
  BY <1>0 DEF FetchPage, Exit, ProcsType
<1>4. QED  BY <1>1, <1>2, <1>3, ReadsOfOthers

-----------------------------------------------------------------------------
(* The books *)

BooksType ==
  /\ status \in {"ACTIVE", "DONE", "FAILED", "RECONCILIATION_REQUIRED"}
  /\ leg \in [Order -> LegStatus] /\ ledger \subseteq [fill: Fill, impact: AnyImpact]
  /\ cash \in Int /\ debt \in Nat /\ fees \in Nat /\ asof \in Nat

BooksInv == BooksType /\ asof <= Len(log) /\ BookedOnce /\ FilledIsBooked

LEMMA OlderFillsStay ==
  ASSUME BrokerInv, BrokerInv', BrokerGrows, NEW n \in Nat, n <= Len(log)
  PROVE  n <= Len(log') /\ OlderFills(n)' = OlderFills(n)
<1>1. /\ \A j \in DOMAIN log : j \in DOMAIN log' /\ log'[j] = log[j]
      /\ Len(log) <= Len(log')
  BY DEF BrokerGrows
<1>2. Len(log) \in Nat /\ DOMAIN log = 1..Len(log) /\ Len(log') \in Nat
  BY DEF BrokerInv, BrokerType
<1>3. n <= Len(log') /\ \A j \in 1..n : log'[j] = log[j]  BY <1>1, <1>2
<1>4. QED  BY <1>3 DEF OlderFills

LEMMA BooksKept ==
  ASSUME BrokerInv, BrokerInv', BrokerGrows, BooksInv, UNCHANGED books
  PROVE  BooksInv'
<1>1. /\ status' = status /\ leg' = leg /\ ledger' = ledger /\ cash' = cash /\ debt' = debt
      /\ fees' = fees /\ asof' = asof
  BY DEF books
<1>2. BooksType'  BY <1>1 DEF BooksInv, BooksType
<1>3. asof' <= Len(log') /\ OlderFills(asof)' = OlderFills(asof)
  <2>1. PICK n \in Nat : n = asof /\ n = asof'  BY <1>1 DEF BooksInv, BooksType
  <2>2. n <= Len(log)  BY <2>1 DEF BooksInv
  <2>3. n <= Len(log') /\ OlderFills(n)' = OlderFills(n)  BY <2>2, OlderFillsStay
  <2>4. QED  BY <2>1, <2>3 DEF OlderFills
<1>4. \A o \in Order : /\ order[o].n \in Nat /\ order'[o].n \in Nat /\ order[o].n <= order'[o].n
                       /\ order[o].st = "FILLED" => order'[o].st = "FILLED"
  <2>1. Qty \in Nat  BY ConstantsAssumption
  <2>2. \A o \in Order : order[o] \in Snapshot /\ order'[o] \in Snapshot
    BY DEF BrokerInv, BrokerType
  <2>3. QED  BY <2>1, <2>2 DEF Snapshot, BrokerGrows
<1>5. BookedOnce'
  <2>1. \A r \in ledger : r.fill[1] \in Order /\ r.fill[2] \in Nat
    BY DEF BooksInv, BooksType, Fill
  <2>2. QED  BY <1>1, <1>4, <2>1 DEF BooksInv, BookedOnce
<1>6. FilledIsBooked'
  <2>1. api' = api  BY DEF BrokerGrows
  <2>2. QED  BY <1>1, <1>3, <1>4, <2>1 DEF BooksInv, FilledIsBooked
<1>7. QED  BY <1>2, <1>3, <1>5, <1>6 DEF BooksInv

LEMMA EventsAreTrue ==
  ASSUME BrokerInv, AllReads, NEW p \in Proc
  PROVE  /\ \A r \in Events(p) : /\ r \in [fill: Fill, impact: AnyImpact]
                                 /\ r.fill[2] <= order[r.fill[1]].n
         /\ \A g \in got[p] : g.k > 0 => \E r \in Events(p) : r.fill = <<g.o, g.k>>
<1>0. ProcsType /\ BrokerType /\ ReadInv(p)  BY DEF AllReads, BrokerInv
<1>1. \A g \in got[p] : g.k > 0 => <<g.o, g.k>> \in Fill
  BY <1>0, GotItems, ConstantsAssumption DEF Fill
<1>2. \A g \in got[p] : g.k <= order[g.o].n  BY <1>0 DEF ReadInv, ItemsAreTrue
<1>3. ASSUME NEW r \in Events(p)
      PROVE  r \in [fill: Fill, impact: AnyImpact] /\ r.fill[2] <= order[r.fill[1]].n
  <2>1. PICK g \in got[p], x \in AnyImpact :
          g.k > 0 /\ r = [fill |-> <<g.o, g.k>>, impact |-> x]
    BY DEF Events, Fetched, Row
  <2>2. QED  BY <1>1, <1>2, <2>1
<1>4. ASSUME NEW g \in got[p], g.k > 0
      PROVE  \E r \in Events(p) : r.fill = <<g.o, g.k>>
  <2>1. PICK x \in AnyImpact : g.impact = {x}  BY <1>0, <1>4 DEF ReadInv, ItemsAreTrue
  <2>2. PICK r : r = [fill |-> <<g.o, g.k>>, impact |-> x]  OBVIOUS
  <2>3. r \in Fetched(p)  BY <1>4, <2>2 DEF Fetched, Row
  <2>4. r \in Events(p)  BY <2>1, <2>2, <2>3 DEF Events
  <2>5. QED  BY <2>2, <2>4
<1>5. QED  BY <1>3, <1>4

\* When a read is over it is complete.
LEMMA ReadIsWhole ==
  ASSUME BrokerInv, AllReads, NEW p \in Proc, pc[p] = "apply"
  PROVE  \A f \in OlderFills(top[p]) : \E g \in got[p] : <<g.o, g.k>> = f
<1> SUFFICES ASSUME NEW f \in OlderFills(top[p])
             PROVE  \E g \in got[p] : <<g.o, g.k>> = f
  OBVIOUS
<1>1. BrokerType /\ ProcsType /\ ReadInv(p)  BY DEF BrokerInv, AllReads
<1>2. top[p] \in Nat /\ top[p] <= Len(log) /\ Len(log) \in Nat /\ DOMAIN log = 1..Len(log)
  BY <1>1, NewestIsNumber, BrokerNumbers DEF ReadInv
<1>3. PICK i \in 1..top[p] : log[i].k > 0 /\ f = <<log[i].o, log[i].k>>  BY DEF OlderFills
<1>4. i \in DOMAIN log /\ i <= top[p] /\ i > 0  BY <1>2
<1>5. Seen(p, i)  BY <1>1, <1>3, <1>4 DEF ReadInv, NoGap, Low
<1>6. QED  BY <1>3, <1>5 DEF Seen

LEMMA DebtIsNat == ASSUME NEW c \in Int PROVE Debt(c) \in Nat
<1>1. -c \in Int  OBVIOUS
<1>2. Max({0, -c}) \in {0, -c} /\ Max({0, -c}) >= 0  BY <1>1, MaxOfTwo
<1>3. QED  BY <1>1, <1>2 DEF Debt

LEMMA FeeIsNat == ASSUME NEW i, i.fee \in Int PROVE FeeCost(i) \in Nat
<1>1. -i.fee \in Int  OBVIOUS
<1>2. Max({0, -i.fee}) \in {0, -i.fee} /\ Max({0, -i.fee}) >= 0  BY <1>1, MaxOfTwo
<1>3. PICK m \in Nat : m = Max({0, -i.fee})  BY <1>1, <1>2
<1>4. (m + 5) \div 10 \in Nat  BY <1>3
<1>5. QED  BY <1>3, <1>4 DEF FeeCost, Money

LEMMA ApplyBooks ==
  ASSUME BrokerInv, AllReads, BooksInv, NEW p \in Proc, ApplyFill(p)
  PROVE  BooksInv'
<1>0. BooksType /\ BookedOnce /\ FilledIsBooked /\ asof <= Len(log)  BY DEF BooksInv
<1>1. PICK r \in Next1(p) :
        /\ ~Booked(r) /\ ledger' = ledger \cup {r}
        /\ cash' = cash + Money(r.impact.net) /\ debt' = Debt(cash + Money(r.impact.net))
        /\ fees' = fees + FeeCost(r.impact)
  BY DEF ApplyFill
<1>2. status' = status /\ leg' = leg /\ asof' = asof /\ UNCHANGED broker
  BY DEF ApplyFill
<1>3. r \in [fill: Fill, impact: AnyImpact] /\ r.fill[2] <= order[r.fill[1]].n
  <2>1. r \in Events(p)  BY <1>1 DEF Next1, Unapplied
  <2>2. QED  BY <2>1, EventsAreTrue
<1>4. r.impact.net \in Nat /\ r.impact.fee \in Int
  <2>1. r.impact \in AnyImpact  BY <1>3
  <2>2. \A k \in 1..Qty : Impact[k] \subseteq [net: Nat, fee: Int]  BY ConstantsAssumption
  <2>3. QED  BY <2>1, <2>2 DEF AnyImpact
<1>5. Money(r.impact.net) \in Int
  <2>1. PICK n \in Nat : n = r.impact.net  BY <1>4
  <2>2. (n + 5) \div 10 \in Int  BY <2>1
  <2>3. QED  BY <2>1, <2>2 DEF Money
<1>6. cash' \in Int  BY <1>0, <1>1, <1>5 DEF BooksType
<1>7. debt' \in Nat
  <2>1. cash + Money(r.impact.net) \in Int  BY <1>1, <1>6
  <2>2. Debt(cash + Money(r.impact.net)) \in Nat  BY <2>1, DebtIsNat
  <2>3. QED  BY <1>1, <2>2
<1>8. fees' \in Nat  BY <1>0, <1>1, <1>4, FeeIsNat DEF BooksType
<1>9. BooksType'  BY <1>0, <1>1, <1>2, <1>3, <1>6, <1>7, <1>8 DEF BooksType
<1>10. BookedOnce'
  <2>1. order' = order  BY <1>2 DEF broker
  <2>2. \A a, b \in ledger \cup {r} : a.fill = b.fill => a = b
    <3>1. \A a, b \in ledger : a.fill = b.fill => a = b  BY <1>0 DEF BookedOnce
    <3>2. \A b \in ledger : b.fill # r.fill  BY <1>1 DEF Booked
    <3>3. QED  BY <3>1, <3>2
  <2>3. \A b \in ledger' : b.fill[2] <= order'[b.fill[1]].n
    BY <1>0, <1>1, <1>3, <2>1 DEF BookedOnce
  <2>4. QED  BY <1>1, <2>2, <2>3 DEF BookedOnce
<1>11. FilledIsBooked'
  <2>1. order' = order /\ api' = api /\ OlderFills(asof)' = OlderFills(asof)
    BY <1>2 DEF broker, OlderFills
  <2>2. leg' = leg /\ asof' = asof /\ ledger \subseteq ledger'  BY <1>1, <1>2
  <2>3. ASSUME NEW o \in Order, leg'[o] = "FILLED"
        PROVE  /\ order'[o].st = "FILLED"
               /\ \A k \in 1..Qty :
                    \/ \E b \in ledger' : b.fill = <<o, k>>
                    \/ api'.snapshot = "request" /\ <<o, k>> \notin OlderFills(asof)'
    <3>1. /\ order[o].st = "FILLED"
          /\ \A k \in 1..Qty :
               \/ \E b \in ledger : b.fill = <<o, k>>
               \/ api.snapshot = "request" /\ <<o, k>> \notin OlderFills(asof)
      BY <1>0, <2>2, <2>3 DEF FilledIsBooked
    <3>2. QED  BY <2>1, <2>2, <3>1
  <2>4. QED  BY <2>3 DEF FilledIsBooked
<1>12. QED  BY <1>0, <1>2, <1>9, <1>10, <1>11 DEF BooksInv, broker

LEMMA StateIsRead ==
  ASSUME BrokerInv, AllReads, NEW p \in Proc, NEW o \in Order
  PROVE  /\ State(p, o) \in LegStatus
         /\ State(p, o) = "FILLED" => \E g \in got[p] : g.o = o /\ g.at.st = "FILLED"
<1>1. State(p, o) \in LegStatus  BY DEF State, LegStatus
<1>2. ASSUME State(p, o) = "FILLED"
      PROVE  \E g \in got[p] : g.o = o /\ g.at.st = "FILLED"
  <2>1. \E g \in got[p] : g.o = o  BY <1>2 DEF State
  <2>2. Winner(p, o).st = "FILLED"  BY <1>2, <2>1 DEF State
  <2>3. PICK snaps : snaps = {g.at : g \in {h \in got[p] : h.o = o}}  OBVIOUS
  <2>4. snaps \in SUBSET Snapshot /\ snaps # {}
    BY <2>1, <2>3, GotItems DEF AllReads, BrokerInv
  <2>5. Winner(p, o) = CHOOSE s \in snaps : \A t \in snaps :
          s.n > t.n \/ (s.n = t.n /\ (t.st = "OPEN" \/ s.st # "OPEN"))
    BY <2>3 DEF Winner
  <2>6. Winner(p, o) \in snaps  BY <2>4, <2>5, WinnerIsSeen
  <2>7. QED  BY <2>2, <2>3, <2>6
<1>3. QED  BY <1>1, <1>2

LEMMA MarkBooks ==
  ASSUME BrokerInv, AllReads, BooksInv, NEW p \in Proc, Mark(p)
  PROVE  BooksInv'
<1>0. BooksType /\ BookedOnce /\ FilledIsBooked /\ asof <= Len(log) /\ BrokerType
      /\ LogIsTrue /\ ProcsType /\ ReadInv(p) /\ FilledIsWhole
  BY DEF BooksInv, BrokerInv, AllReads
<1>1. /\ pc[p] = "apply" /\ Unapplied(p) = {} /\ UNCHANGED broker
      /\ ledger' = ledger /\ cash' = cash /\ debt' = debt /\ fees' = fees
  BY DEF Mark
<1>2. order' = order /\ log' = log /\ api' = api  BY <1>1 DEF broker
<1>3. BookedOnce'  BY <1>0, <1>1, <1>2 DEF BookedOnce
<1>4. CASE UNCHANGED <<status, leg, asof>>
  <2>1. OlderFills(asof)' = OlderFills(asof)  BY <1>2, <1>4 DEF OlderFills
  <2>2. BooksType'  BY <1>0, <1>1, <1>4 DEF BooksType
  <2>3. FilledIsBooked'  BY <1>0, <1>1, <1>2, <1>4, <2>1 DEF FilledIsBooked
  <2>4. QED  BY <1>0, <1>2, <1>3, <1>4, <2>2, <2>3 DEF BooksInv
<1>5. CASE ~UNCHANGED <<status, leg, asof>>
  <2>1. /\ leg' = [o \in Order |-> State(p, o)] /\ asof' = top[p]
        /\ status' \in {"RECONCILIATION_REQUIRED", "FAILED", "DONE", "ACTIVE"}
    BY <1>5 DEF Mark
  <2>2. top[p] \in Nat /\ top[p] <= Len(log)  BY <1>0, NewestIsNumber DEF ReadInv
  <2>3. BooksType'
    <3>1. leg' \in [Order -> LegStatus]  BY <2>1, StateIsRead
    <3>2. QED  BY <1>0, <1>1, <2>1, <2>2, <3>1 DEF BooksType
  <2>4. OlderFills(asof)' = OlderFills(top[p])  BY <1>2, <2>1 DEF OlderFills
  <2>5. \A g \in got[p] : g.k > 0 => \E r \in ledger : r.fill = <<g.o, g.k>>
    BY <1>1, EventsAreTrue DEF Unapplied
  <2>6. ASSUME NEW o \in Order, State(p, o) = "FILLED"
        PROVE  /\ order[o].st = "FILLED"
               /\ \A k \in 1..Qty :
                    \/ \E r \in ledger : r.fill = <<o, k>>
                    \/ api.snapshot = "request" /\ <<o, k>> \notin OlderFills(top[p])
    <3>1. PICK g \in got[p] : g.o = o /\ g.at.st = "FILLED"  BY <2>6, StateIsRead
    <3>2. order[o].st = "FILLED" /\ (api.snapshot = "fill" => g.k = Qty)
      BY <1>0, <3>1 DEF ReadInv, ItemsAreTrue
    <3>3. ASSUME NEW k \in 1..Qty, \A r \in ledger : r.fill # <<o, k>>
          PROVE  api.snapshot = "request" /\ <<o, k>> \notin OlderFills(top[p])
      <4>0. Qty \in Nat /\ k \in Nat /\ k > 0  BY ConstantsAssumption
      <4>1. \A h \in got[p] : ~(h.o = o /\ h.k = k)  BY <2>5, <3>3, <4>0
      <4>2. <<o, k>> \notin OlderFills(top[p])  BY <1>1, <4>1, ReadIsWhole
      <4>3. api.snapshot # "fill"
        <5> SUFFICES ASSUME api.snapshot = "fill" PROVE FALSE
          OBVIOUS
        <5>1. g.k = Qty /\ order[o].n = Qty  BY <1>0, <3>2 DEF FilledIsWhole
        <5>2. k < Qty /\ Qty \in 1..Qty  BY <3>1, <4>0, <4>1, <5>1
        <5>3. PICK j \in DOMAIN log : log[j].o = o /\ log[j].k = Qty
          BY <1>0, <4>0, <5>1, <5>2 DEF LogIsTrue, IsFill
        <5>4. PICK i \in DOMAIN log : i < j /\ log[i].o = o /\ log[i].k = k
          BY <1>0, <5>2, <5>3 DEF LogIsTrue, IsFill
        <5>5. i > 0 /\ IsFill(j, g.o, g.k)
          BY <1>0, <3>1, <5>1, <5>3, BrokerNumbers DEF IsFill
        <5>6. Seen(p, i)
          <6>1. Low(p) = 0 /\ g.k > 0 /\ log[i].k > 0  BY <1>1, <4>0, <5>1, <5>2, <5>4 DEF Low
          <6>2. QED  BY <1>0, <5>4, <5>5, <6>1 DEF ReadInv, NoGap
        <5>7. QED  BY <4>1, <5>4, <5>6 DEF Seen
      <4>4. api.snapshot = "request"  BY <1>0, <4>3 DEF BrokerType
      <4>5. QED  BY <4>2, <4>4
    <3>4. QED  BY <3>2, <3>3
  <2>7. FilledIsBooked'
    BY <1>1, <1>2, <2>1, <2>4, <2>6 DEF FilledIsBooked
  <2>8. QED  BY <1>2, <1>3, <2>1, <2>2, <2>3, <2>7 DEF BooksInv
<1>6. QED  BY <1>4, <1>5

-----------------------------------------------------------------------------
(* The inductive invariant *)

Inv == BrokerInv /\ AllReads /\ BooksInv /\ faults \in 0..FaultBudget

LEMMA InitInv == Init => Inv
<1> SUFFICES ASSUME Init PROVE Inv
  OBVIOUS
<1>0. Qty \in Nat /\ Qty > 0  BY ConstantsAssumption
<1>1. BrokerInv
  <2>1. [st |-> "OPEN", n |-> 0] \in Snapshot  BY <1>0 DEF Snapshot
  <2>2. order \in [Order -> Snapshot] /\ \A o \in Order : order[o].n = 0 /\ order[o].st = "OPEN"
    BY <2>1 DEF Init
  <2>3. log = <<>> /\ impact = <<>> /\ DOMAIN log = {} /\ DOMAIN impact = {}  BY DEF Init
  <2>4. BrokerType
    <3>1. log \in Seq([o: Order \cup {Other}, k: 0..Qty, at: Snapshot])  BY <2>3
    <3>2. api \in [snapshot: {"fill", "request"}, paging: {"cursor", "offset"}]  BY DEF Init
    <3>3. QED  BY <2>2, <2>3, <3>1, <3>2 DEF BrokerType
  <2>5. FilledIsWhole  BY <1>0, <2>2 DEF FilledIsWhole
  <2>6. LogIsTrue /\ ImpactsExist  BY <1>0, <2>2, <2>3 DEF LogIsTrue, ImpactsExist
  <2>7. QED  BY <2>4, <2>5, <2>6 DEF BrokerInv
<1>2. AllReads
  <2>1. ProcsType  BY DEF Init, ProcsType
  <2>2. Len(log) = 0 /\ DOMAIN log = {}  BY DEF Init
  <2>3. QED  BY <2>1, <2>2 DEF Init, AllReads, ReadInv, ItemsAreTrue, NoGap
<1>3. BooksInv
  <2>1. OpeningCash \in Int  BY ConstantsAssumption
  <2>2. debt \in Nat
    <3>1. PICK c \in Int : c = -OpeningCash  BY <2>1
    <3>2. Max({0, c}) \in {0, c} /\ Max({0, c}) >= 0  BY <3>1, MaxOfTwo
    <3>3. debt = Max({0, c})  BY <3>1 DEF Init
    <3>4. QED  BY <3>1, <3>2, <3>3
  <2>3. BooksType  BY <2>1, <2>2 DEF Init, BooksType, LegStatus
  <2>4. \A o \in Order : leg[o] # "FILLED"  BY DEF Init
  <2>5. asof <= Len(log)  BY DEF Init
  <2>6. QED  BY <2>3, <2>4, <2>5 DEF Init, BooksInv, BookedOnce, FilledIsBooked
<1>4. faults \in 0..FaultBudget  BY ConstantsAssumption DEF Init
<1>5. QED  BY <1>1, <1>2, <1>3, <1>4 DEF Inv

LEMMA NextInv == Inv /\ [Next]_vars => Inv'
<1> SUFFICES ASSUME Inv, [Next]_vars PROVE Inv'
  OBVIOUS
<1>0. BrokerInv /\ AllReads /\ BooksInv /\ faults \in 0..FaultBudget  BY DEF Inv
<1>f. FaultBudget \in Nat  BY ConstantsAssumption
<1>1. CASE UNCHANGED <<books, procs, faults>> /\ BrokerInv' /\ BrokerGrows
  <2>1. AllReads'  BY <1>0, <1>1, ReadsKept
  <2>2. BooksInv'  BY <1>0, <1>1, BooksKept
  <2>3. QED  BY <1>0, <1>1, <2>1, <2>2 DEF Inv
<1>2. CASE UNCHANGED <<books, broker>> /\ AllReads' /\ faults' \in 0..FaultBudget
  <2>1. BrokerInv' /\ BrokerGrows  BY <1>0, <1>2, SameBroker
  <2>2. BooksInv'  BY <1>0, <1>2, <2>1, BooksKept
  <2>3. QED  BY <1>2, <2>1, <2>2 DEF Inv
<1>3. ASSUME NEW p \in Proc, Begin(p) PROVE Inv'
  <2>1. UNCHANGED <<books, broker, faults>>  BY <1>3 DEF Begin
  <2>2. AllReads'  BY <1>0, <1>3, BeginReads
  <2>3. QED  BY <1>0, <1>2, <2>1, <2>2
<1>4. ASSUME NEW p \in Proc, FetchPage(p) PROVE Inv'
  <2>1. UNCHANGED <<books, broker, faults>>  BY <1>4 DEF FetchPage
  <2>2. AllReads'  BY <1>0, <1>4, FetchReads
  <2>3. QED  BY <1>0, <1>2, <2>1, <2>2
<1>5. ASSUME NEW p \in Proc, ApplyFill(p) PROVE Inv'
  <2>1. UNCHANGED <<broker, procs, faults>>  BY <1>5 DEF ApplyFill
  <2>2. BrokerInv' /\ BrokerGrows  BY <1>0, <2>1, SameBroker
  <2>3. AllReads'  BY <1>0, <2>1, <2>2, ReadsKept
  <2>4. BooksInv'  BY <1>0, <1>5, ApplyBooks
  <2>5. QED  BY <1>0, <2>1, <2>2, <2>3, <2>4 DEF Inv
<1>6. ASSUME NEW p \in Proc, ConflictingReplay(p) PROVE Inv'
  <2>1. UNCHANGED <<books, broker, faults>> /\ Exit(p)  BY <1>6 DEF ConflictingReplay
  <2>2. AllReads'  BY <1>0, <2>1, ExitReads
  <2>3. QED  BY <1>0, <1>2, <2>1, <2>2
<1>7. ASSUME NEW p \in Proc, Mark(p) PROVE Inv'
  <2>1. UNCHANGED <<broker, faults>> /\ Exit(p)  BY <1>7 DEF Mark
  <2>2. BrokerInv'  BY <1>0, <2>1, SameBroker
  <2>3. AllReads'  BY <1>0, <2>1, ExitReads
  <2>4. BooksInv'  BY <1>0, <1>7, MarkBooks
  <2>5. QED  BY <1>0, <2>1, <2>2, <2>3, <2>4 DEF Inv
<1>8. ASSUME NEW p \in Proc, Crash(p) PROVE Inv'
  <2>1. UNCHANGED <<books, broker>> /\ Exit(p) /\ faults < FaultBudget /\ faults' = faults + 1
    BY <1>8 DEF Crash
  <2>2. AllReads'  BY <1>0, <2>1, ExitReads
  <2>3. faults' \in 0..FaultBudget  BY <1>0, <1>f, <2>1
  <2>4. QED  BY <1>2, <2>1, <2>2, <2>3
<1>9. ASSUME NEW o \in Order, Trade(o) PROVE Inv'
  <2>1. CASE Execute(o)
    <3>1. UNCHANGED <<books, procs, faults>>  BY <2>1 DEF Execute
    <3>2. QED  BY <1>0, <1>1, <2>1, <3>1, ExecuteKeepsBroker
  <2>2. CASE Kill(o)
    <3>1. UNCHANGED <<books, procs, faults>>  BY <2>2 DEF Kill
    <3>2. QED  BY <1>0, <1>1, <2>2, <3>1, KillKeepsBroker
  <2>3. QED  BY <1>9, <2>1, <2>2 DEF Trade
<1>10. CASE OtherExecutes
  <2>1. UNCHANGED <<books, procs, faults>>  BY <1>10 DEF OtherExecutes
  <2>2. QED  BY <1>0, <1>1, <1>10, <2>1, OtherKeepsBroker
<1>11. ASSUME NEW f \in Fill, Amend(f) PROVE Inv'
  <2>1. UNCHANGED <<books, procs>> /\ faults < FaultBudget /\ faults' = faults + 1
    BY <1>11 DEF Amend
  <2>2. BrokerInv' /\ BrokerGrows  BY <1>0, <1>11, AmendKeepsBroker
  <2>3. AllReads'  BY <1>0, <2>1, <2>2, ReadsKept
  <2>4. BooksInv'  BY <1>0, <2>1, <2>2, BooksKept
  <2>5. faults' \in 0..FaultBudget  BY <1>0, <1>f, <2>1
  <2>6. QED  BY <2>2, <2>3, <2>4, <2>5 DEF Inv
<1>12. CASE UNCHANGED vars
  <2>1. UNCHANGED <<books, broker, procs, faults>>  BY <1>12 DEF vars
  <2>2. BrokerInv' /\ BrokerGrows  BY <1>0, <2>1, SameBroker
  <2>3. QED  BY <1>1, <2>1, <2>2
<1>13. QED
  BY <1>3, <1>4, <1>5, <1>6, <1>7, <1>8, <1>9, <1>10, <1>11, <1>12 DEF Next, Reconcile

LEMMA Invariant == Spec => []Inv
<1>1. QED  BY InitInv, NextInv, PTL DEF Spec

-----------------------------------------------------------------------------
(* The balance *)

LedgerRow == [fill: Fill, impact: AnyImpact]
Nets == [r \in LedgerRow |-> r.impact.net]
Costs == [r \in LedgerRow |-> Max({0, -r.impact.fee})]

\* BooksBalance, with the sums of these two functions.
Balance ==
  /\ IsFiniteSet(ledger)
  /\ 10 * (cash - OpeningCash) - SumOf(Nets, ledger)
       \in -(5 * Cardinality(ledger))..(5 * Cardinality(ledger))
  /\ 10 * fees - SumOf(Costs, ledger)
       \in -(5 * Cardinality(ledger))..(5 * Cardinality(ledger))
  /\ debt = Max({0, -cash})

NetsOver(S, g) ==
  g = [s \in SUBSET S |-> IF s = {} THEN 0
                          ELSE Member(s).impact.net + g[s \ {Member(s)}]]
CostsOver(S, g) ==
  g = [s \in SUBSET S |-> IF s = {} THEN 0
                          ELSE Max({0, -Member(s).impact.fee}) + g[s \ {Member(s)}]]

LEMMA NetsAreSums ==
  ASSUME NEW S \in SUBSET LedgerRow, IsFiniteSet(S)
  PROVE  (CHOOSE g : NetsOver(S, g))[S] = SumOf(Nets, S)
<1>1. \A s \in SUBSET S : s # {} => Nets[Member(s)] = Member(s).impact.net
  BY MemberIsOne DEF Nets
<1>2. \A g : NetsOver(S, g) <=> SumsOver(Nets, S, g)  BY <1>1 DEF NetsOver, SumsOver
<1>3. PICK g : SumsOver(Nets, S, g) /\ g[S] = SumOf(Nets, S)  BY SumsExist
<1>4. SumsOver(Nets, S, CHOOSE h : NetsOver(S, h))  BY <1>2, <1>3
<1>5. QED  BY <1>3, <1>4, SumsAgree

LEMMA CostsAreSums ==
  ASSUME NEW S \in SUBSET LedgerRow, IsFiniteSet(S)
  PROVE  (CHOOSE g : CostsOver(S, g))[S] = SumOf(Costs, S)
<1>1. \A s \in SUBSET S : s # {} => Costs[Member(s)] = Max({0, -Member(s).impact.fee})
  BY MemberIsOne DEF Costs
<1>2. \A g : CostsOver(S, g) <=> SumsOver(Costs, S, g)  BY <1>1 DEF CostsOver, SumsOver
<1>3. PICK g : SumsOver(Costs, S, g) /\ g[S] = SumOf(Costs, S)  BY SumsExist
<1>4. SumsOver(Costs, S, CHOOSE h : CostsOver(S, h))  BY <1>2, <1>3
<1>5. QED  BY <1>3, <1>4, SumsAgree

LEMMA BalanceIsBooksBalance ==
  ASSUME ledger \in SUBSET LedgerRow, Balance
  PROVE  BooksBalance
<1>1. (CHOOSE g : NetsOver(ledger, g))[ledger] = SumOf(Nets, ledger)
  BY NetsAreSums DEF Balance
<1>2. (CHOOSE g : CostsOver(ledger, g))[ledger] = SumOf(Costs, ledger)
  BY CostsAreSums DEF Balance
<1>3. PICK slack : slack = 5 * Cardinality(ledger)  OBVIOUS
<1>4. /\ 10 * (cash - OpeningCash) - (CHOOSE g : NetsOver(ledger, g))[ledger] \in -slack..slack
      /\ 10 * fees - (CHOOSE g : CostsOver(ledger, g))[ledger] \in -slack..slack
      /\ debt = Max({0, -cash})
  BY <1>1, <1>2, <1>3 DEF Balance
<1>5. QED
  BY <1>3, <1>4
  DEF BooksBalance, MapThenSumSet, MapThenFoldSet, NetsOver, CostsOver, Member

\* A rounded amount is within half a cent of the amount.
LEMMA MoneyIsNear ==
  ASSUME NEW n \in Nat
  PROVE  Money(n) \in Int /\ 10 * Money(n) - n \in -5..5
BY DEF Money

LEMMA ApplyBalance ==
  ASSUME BooksType, Balance, BrokerInv, AllReads, NEW p \in Proc, ApplyFill(p)
  PROVE  Balance'
<1>1. PICK r \in Next1(p) :
        /\ ~Booked(r) /\ ledger' = ledger \cup {r}
        /\ cash' = cash + Money(r.impact.net) /\ debt' = Debt(cash + Money(r.impact.net))
        /\ fees' = fees + FeeCost(r.impact)
  BY DEF ApplyFill
<1>2. r \in LedgerRow
  <2>1. r \in Events(p)  BY <1>1 DEF Next1, Unapplied
  <2>2. QED  BY <2>1, EventsAreTrue DEF LedgerRow
<1>3. r.impact.net \in Nat /\ r.impact.fee \in Int
  <2>1. r.impact \in AnyImpact  BY <1>2 DEF LedgerRow
  <2>2. \A k \in 1..Qty : Impact[k] \subseteq [net: Nat, fee: Int]  BY ConstantsAssumption
  <2>3. QED  BY <2>1, <2>2 DEF AnyImpact
<1>4. r \notin ledger  BY <1>1 DEF Booked
<1>5. ledger \in SUBSET LedgerRow /\ cash \in Int /\ fees \in Int /\ OpeningCash \in Int
  BY ConstantsAssumption DEF BooksType, LedgerRow
<1>6. IsFiniteSet(ledger) /\ IsFiniteSet(ledger')
  BY <1>1, FS_AddElement DEF Balance
<1>7. PICK c \in Nat : c = Cardinality(ledger)  BY <1>6, FS_CardinalityType
<1>8. Cardinality(ledger') = c + 1  BY <1>1, <1>4, <1>6, <1>7, FS_AddElement
<1>9. \A x \in LedgerRow : x.impact.net \in Nat /\ x.impact.fee \in Int
  <2>1. \A k \in 1..Qty : Impact[k] \subseteq [net: Nat, fee: Int]  BY ConstantsAssumption
  <2>2. QED  BY <2>1 DEF AnyImpact, LedgerRow
<1>10. \A x \in LedgerRow : Nets[x] \in Int  BY <1>9 DEF Nets
<1>11. \A x \in LedgerRow : Costs[x] \in Int
  <2> SUFFICES ASSUME NEW x \in LedgerRow PROVE Costs[x] \in Int
    OBVIOUS
  <2>1. PICK d \in Int : d = -x.impact.fee  BY <1>9
  <2>2. Max({0, d}) \in {0, d}  BY MaxOfTwo
  <2>3. Costs[x] = Max({0, d})  BY <2>1 DEF Costs
  <2>4. QED  BY <2>2, <2>3
<1>12. SumOf(Nets, ledger') = SumOf(Nets, ledger) + Nets[r] /\ SumOf(Nets, ledger) \in Int
  BY <1>1, <1>2, <1>4, <1>5, <1>6, <1>10, SumAdds, SumTakes
<1>13. SumOf(Costs, ledger') = SumOf(Costs, ledger) + Costs[r] /\ SumOf(Costs, ledger) \in Int
  BY <1>1, <1>2, <1>4, <1>5, <1>6, <1>11, SumAdds, SumTakes
<1>14. 10 * (cash' - OpeningCash) - SumOf(Nets, ledger') \in -(5 * (c + 1))..(5 * (c + 1))
  <2>1. Nets[r] = r.impact.net  BY <1>2 DEF Nets
  <2>2. PICK n \in Nat : n = r.impact.net  BY <1>3
  <2>3. Money(n) \in Int /\ 10 * Money(n) - n \in -5..5  BY MoneyIsNear
  <2>4. 10 * (cash - OpeningCash) - SumOf(Nets, ledger) \in -(5 * c)..(5 * c)
    BY <1>7 DEF Balance
  <2>5. cash' = cash + Money(n) /\ SumOf(Nets, ledger') = SumOf(Nets, ledger) + n
    BY <1>1, <1>12, <2>1, <2>2
  <2>6. QED  BY <1>5, <1>12, <2>3, <2>4, <2>5
<1>15. 10 * fees' - SumOf(Costs, ledger') \in -(5 * (c + 1))..(5 * (c + 1))
  <2>1. Costs[r] = Max({0, -r.impact.fee})  BY <1>2 DEF Costs
  <2>2. PICK n \in Nat : n = Max({0, -r.impact.fee})
    <3>1. PICK d \in Int : d = -r.impact.fee  BY <1>3
    <3>2. Max({0, d}) \in {0, d} /\ Max({0, d}) >= 0  BY <3>1, MaxOfTwo
    <3>3. PICK m \in Nat : m = Max({0, d})  BY <3>2
    <3>4. QED  BY <3>1, <3>3
  <2>3. Money(n) \in Int /\ 10 * Money(n) - n \in -5..5  BY MoneyIsNear
  <2>4. 10 * fees - SumOf(Costs, ledger) \in -(5 * c)..(5 * c)
    BY <1>7 DEF Balance
  <2>5. fees' = fees + Money(n) /\ SumOf(Costs, ledger') = SumOf(Costs, ledger) + n
    BY <1>1, <1>13, <2>1, <2>2 DEF FeeCost
  <2>6. QED  BY <1>5, <1>13, <2>3, <2>4, <2>5
<1>16. debt' = Max({0, -cash'})  BY <1>1 DEF Debt
<1>17. QED  BY <1>6, <1>8, <1>14, <1>15, <1>16 DEF Balance

LEMMA InitBalance == Init => Balance
<1> SUFFICES ASSUME Init PROVE Balance
  OBVIOUS
<1>1. ledger = {} /\ cash = OpeningCash /\ fees = 0 /\ debt = Max({0, -cash})  BY DEF Init
<1>2. IsFiniteSet(ledger) /\ Cardinality(ledger) = 0  BY <1>1, FS_EmptySet
<1>3. SumOf(Nets, ledger) = 0 /\ SumOf(Costs, ledger) = 0  BY <1>1, <1>2, SumTakes
<1>4. OpeningCash \in Int  BY ConstantsAssumption
<1>5. QED  BY <1>1, <1>2, <1>3, <1>4 DEF Balance

LEMMA NextBalance == Inv /\ Balance /\ [Next]_vars => Balance'
<1> SUFFICES ASSUME Inv, Balance, [Next]_vars PROVE Balance'
  OBVIOUS
<1>1. ASSUME NEW p \in Proc, ApplyFill(p) PROVE Balance'
  BY <1>1, ApplyBalance DEF Inv, BooksInv
<1>2. CASE UNCHANGED <<ledger, cash, debt, fees>>
  BY <1>2 DEF Balance
<1>3. CASE UNCHANGED books  BY <1>2, <1>3 DEF books
<1>4. ASSUME NEW p \in Proc, Reconcile(p) \/ Crash(p) PROVE Balance'
  BY <1>1, <1>2, <1>3, <1>4
  DEF Reconcile, Begin, FetchPage, ConflictingReplay, Mark, Crash
<1>5. ASSUME NEW o \in Order, Trade(o) PROVE Balance'
  BY <1>3, <1>5 DEF Trade, Execute, Kill
<1>6. CASE OtherExecutes  BY <1>3, <1>6 DEF OtherExecutes
<1>7. ASSUME NEW f \in Fill, Amend(f) PROVE Balance'  BY <1>3, <1>7 DEF Amend
<1>8. CASE UNCHANGED vars  BY <1>3, <1>8 DEF vars
<1>9. QED  BY <1>4, <1>5, <1>6, <1>7, <1>8 DEF Next

-----------------------------------------------------------------------------
(* What holds *)

\* The variables keep their types, whatever the rounding does to the amounts.
THEOREM TypeCorrect == Spec => []TypeOK
<1>1. Inv => TypeOK
  BY DEF Inv, BrokerInv, BrokerType, AllReads, ProcsType, BooksInv, BooksType, TypeOK
<1>2. QED  BY Invariant, <1>1, PTL

\* A fill is booked at most once, and only one that the broker has executed,
\* for any number of reconcilers, crashes and restatements.
THEOREM NoFillTwice == Spec => []BookedOnce
<1>1. Inv => BookedOnce  BY DEF Inv, BooksInv
<1>2. QED  BY Invariant, <1>1, PTL

\* A finished read has every fill that was in the history when it began, for
\* both ways of paging, any page size and any trading between the pages.
THEOREM CompleteReads == Spec => []ReadIsComplete
<1>1. Inv => ReadIsComplete  BY ReadIsWhole DEF Inv, ReadIsComplete
<1>2. QED  BY Invariant, <1>1, PTL

\* A leg is FILLED when its order is, and the ledger has each of its fills but
\* those that were executed during the read that marked it.
THEOREM FilledLegs == Spec => []FilledIsBooked
<1>1. Inv => FilledIsBooked  BY DEF Inv, BooksInv
<1>2. QED  BY Invariant, <1>1, PTL

\* The cash, the debt and the fees are those of the booked fills, each rounded
\* once: the error grows by half a cent a fill at most, for any number of fills
\* of any impact, replayed by any number of processes.
THEOREM BooksAreBalanced == Spec => []BooksBalance
<1>1. Spec => [](Inv /\ Balance)
  BY InitInv, NextInv, InitBalance, NextBalance, PTL DEF Spec
<1>2. Inv /\ Balance => BooksBalance
  BY BalanceIsBooksBalance DEF Inv, BooksInv, BooksType, LedgerRow
<1>3. QED  BY <1>1, <1>2, PTL
=============================================================================
