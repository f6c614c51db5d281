------------------------- MODULE LegacyJournal_proofs -------------------------
(***************************************************************************)
(* The legacy journal for any number of decisions, orders and deaths.      *)
(* Nothing is sent twice, and what is active was bought, as long as one    *)
(* execute-demo runs at a time; an activation is whole as long as one      *)
(* reconcile does.                                                         *)
(***************************************************************************)
EXTENDS LegacyJournal, TLAPS

Sending == {"intent", "post", "answered", "no_id", "raised"}
Activating == {"membership", "overlay", "mix", "status"}

\* A process works on a planned decision, and sends within its plan.
WorksOnPlanned ==
  \A p \in Proc : pc[p] # "idle" => on[p] \in Decision /\ decision[on[p]] # None
SendsItsPlan ==
  \A p \in Proc : pc[p] \in Sending =>
    /\ plan[p] # None
    /\ pc[p] # "intent" => plan[p].next <= plan[p].n
RowsAreAccepted == rows \in [Proc -> SUBSET accepted]
TypeInv == TypeOK /\ WorksOnPlanned /\ SendsItsPlan /\ RowsAreAccepted

ExecutorStep(p) == Submit(p) \/ Crash(p)
ReconcilerStep(p) == Reconcile(p) \/ Crash(p)

LEMMA NextCases ==
  Next => \/ \E p \in Executor : ExecutorStep(p)
          \/ \E p \in Reconciler : ReconcilerStep(p)
          \/ \E o \in Order : Trade(o)
          \/ Close
BY DEF Next, ExecutorStep, ReconcilerStep, Proc

-----------------------------------------------------------------------------
(* Types *)

LEMMA ExitKeepsTypes ==
  ASSUME TypeInv, NEW p \in Proc, Exit(p)
  PROVE  /\ pc' \in [Proc -> Label]
         /\ on' \in [Proc -> Decision \cup {None}]
         /\ plan' \in [Proc -> {None} \cup Batch]
         /\ pend' \in [Proc -> SUBSET Order]
         /\ pc'[p] = "idle"
         /\ \A q \in Proc : q # p => /\ pc'[q] = pc[q] /\ on'[q] = on[q]
                                     /\ plan'[q] = plan[q] /\ rows'[q] = rows[q]
         /\ \A q \in Proc : rows'[q] \subseteq rows[q]
         /\ accepted' = accepted => RowsAreAccepted'
<1>1. /\ rows \in [Proc -> SUBSET accepted]
      /\ rows' = [rows EXCEPT ![p] = {}]
  BY DEF TypeInv, RowsAreAccepted, Exit
<1>2. accepted' = accepted => RowsAreAccepted'
  BY <1>1 DEF RowsAreAccepted
<1>3. QED  BY <1>1, <1>2 DEF Label, TypeInv, TypeOK, Exit

LEMMA StatusKeepsTypes ==
  ASSUME decision \in [Decision -> {None} \cup DecisionRow],
         NEW d \in Decision, decision[d] # None, NEW s \in Status, SetStatus(d, s)
  PROVE  /\ decision' \in [Decision -> {None} \cup DecisionRow]
         /\ \A c \in Decision : c # d => decision'[c] = decision[c]
         /\ \A c \in Decision : /\ decision'[c] # None <=> decision[c] # None
                                /\ decision[c] # None =>
                                     decision'[c].bootstrap = decision[c].bootstrap
         /\ decision'[d].status = s
<1>1. decision[d] \in DecisionRow  OBVIOUS
<1>2. decision' = [decision EXCEPT ![d] = [decision[d] EXCEPT !.status = s]]
  BY DEF SetStatus
<1>3. /\ [decision[d] EXCEPT !.status = s] \in DecisionRow
      /\ [decision[d] EXCEPT !.status = s].status = s
      /\ [decision[d] EXCEPT !.status = s].bootstrap = decision[d].bootstrap
  BY <1>1 DEF DecisionRow
<1>4. QED  BY <1>1, <1>2, <1>3, ConstantsAssumption

LEMMA BatchFields ==
  ASSUME TypeInv, NEW p \in Proc, plan[p] # None
  PROVE  /\ plan[p] \in Batch
         /\ plan[p].next \in 1..(Orders + 1) /\ plan[p].n \in 1..Orders
<1>1. plan[p] \in Batch  BY DEF TypeInv, TypeOK
<1>2. QED  BY <1>1 DEF Batch

LEMMA ThisIsOrder ==
  ASSUME TypeInv, NEW p \in Proc, pc[p] \in Sending, pc[p] = "intent" => ~Finished(p)
  PROVE  This(p) \in Order
<1>0. Orders \in Nat  BY ConstantsAssumption
<1>1. plan[p] # None /\ plan[p].next <= plan[p].n
  BY <1>0, BatchFields DEF TypeInv, SendsItsPlan, Finished
<1>2. plan[p].next \in 1..Orders  BY <1>0, <1>1, BatchFields
<1>3. on[p] \in Decision  BY DEF TypeInv, WorksOnPlanned, Sending
<1>4. QED  BY <1>2, <1>3 DEF This, Order

\* A step that ends process p and perhaps writes the status of its decision.
LEMMA ExitStep ==
  ASSUME TypeInv, NEW p \in Proc, Exit(p), UNCHANGED <<kv, outside>>,
         \/ UNCHANGED decision
         \/ \E s \in Status : pc[p] # "idle" /\ SetStatus(on[p], s),
         intents' = intents, accepted' = accepted, crashes' \in 0..CrashBudget
  PROVE  TypeInv'
<1>1. CASE UNCHANGED decision
  BY <1>1, ExitKeepsTypes
     DEF TypeInv, TypeOK, WorksOnPlanned, SendsItsPlan, RowsAreAccepted, outside, Sending
<1>2. ASSUME NEW s \in Status, pc[p] # "idle", SetStatus(on[p], s) PROVE TypeInv'
  <2>0. decision \in [Decision -> {None} \cup DecisionRow]  BY DEF TypeInv, TypeOK
  <2>1. on[p] \in Decision /\ decision[on[p]] # None
    BY <1>2 DEF TypeInv, WorksOnPlanned
  <2>2. /\ decision' \in [Decision -> {None} \cup DecisionRow]
        /\ \A c \in Decision : decision'[c] # None <=> decision[c] # None
    BY <1>2, <2>0, <2>1, StatusKeepsTypes
  <2>3. TypeOK'  BY <2>2, ExitKeepsTypes DEF TypeInv, TypeOK, outside
  <2>4. WorksOnPlanned' /\ SendsItsPlan' /\ RowsAreAccepted'
    BY <2>2, ExitKeepsTypes
       DEF TypeInv, WorksOnPlanned, SendsItsPlan, RowsAreAccepted, Sending
  <2>5. QED  BY <2>3, <2>4 DEF TypeInv
<1>3. QED  BY <1>1, <1>2

LEMMA TypeStep ==
  ASSUME TypeInv, [Next]_vars
  PROVE  TypeInv'
<1>0. CrashBudget \in Nat /\ Decisions \in Nat /\ Orders \in Nat
  BY ConstantsAssumption
<1>1. ASSUME NEW p \in Proc, Plan(p) PROVE TypeInv'
  <2>1. [status |-> "PLANNED", bootstrap |-> kv["active_membership"] = None] \in DecisionRow
    BY DEF DecisionRow, Status
  <2>2. QED
    BY <1>1, <2>1, ConstantsAssumption
       DEF Plan, TypeInv, TypeOK, WorksOnPlanned, SendsItsPlan, RowsAreAccepted, outside, procs
<1>2. ASSUME NEW p \in Proc, NEW d \in Decision, Execute(p, d) PROVE TypeInv'
  BY <1>2 DEF Label, Execute, Executable, Goto, TypeInv, TypeOK, WorksOnPlanned, SendsItsPlan,
         RowsAreAccepted, journal, outside, Sending
<1>3. ASSUME NEW p \in Proc, Check(p) PROVE TypeInv'
  <2>0. crashes' \in 0..CrashBudget /\ pc[p] = "check"
    BY <1>3 DEF Check, TypeInv, TypeOK
  <2>1. CASE Exit(p)
    BY <1>3, <2>0, <2>1, ExitStep DEF Check, Status
  <2>2. ASSUME NEW n \in 1..Orders, SetStatus(on[p], "SUBMITTING"), Goto(p, "intent"),
               plan' = [plan EXCEPT ![p] = [next |-> 1, n |-> n]],
               UNCHANGED <<on, rows, pend>>
        PROVE  TypeInv'
    <3>0. /\ decision \in [Decision -> {None} \cup DecisionRow]
          /\ on[p] \in Decision /\ decision[on[p]] # None
      BY <2>0 DEF TypeInv, TypeOK, WorksOnPlanned
    <3>1. /\ decision' \in [Decision -> {None} \cup DecisionRow]
          /\ \A c \in Decision : decision'[c] # None <=> decision[c] # None
      BY <2>2, <3>0, StatusKeepsTypes DEF Status
    <3>2. [next |-> 1, n |-> n] \in Batch  BY <1>0 DEF Batch
    <3>3. TypeOK'
      BY <1>3, <2>2, <3>1, <3>2 DEF Label, Check, Goto, TypeInv, TypeOK, outside
    <3>4. WorksOnPlanned' /\ RowsAreAccepted'
      BY <1>3, <2>0, <2>2, <3>1
         DEF Check, Goto, TypeInv, TypeOK, WorksOnPlanned, RowsAreAccepted
    <3>5. SendsItsPlan'
      BY <2>2, <3>2, ConstantsAssumption DEF Goto, TypeInv, TypeOK, SendsItsPlan
    <3>6. QED  BY <3>3, <3>4, <3>5 DEF TypeInv
  <2>3. QED  BY <1>3, <2>1, <2>2 DEF Check
<1>4. ASSUME NEW p \in Proc, Intent(p) PROVE TypeInv'
  <2>0. crashes' \in 0..CrashBudget /\ pc[p] = "intent"
    BY <1>4 DEF Intent, TypeInv, TypeOK
  <2>1. CASE Finished(p)
    BY <1>4, <2>0, <2>1, ExitStep DEF Intent, Status
  <2>2. CASE ~Finished(p)
    <3>1. This(p) \in Order  BY <2>0, <2>2, ThisIsOrder DEF Sending
    <3>2. plan[p].next <= plan[p].n
      <4>1. plan[p] # None  BY <2>0 DEF TypeInv, SendsItsPlan, Sending
      <4>2. QED  BY <1>0, <2>2, <4>1, BatchFields DEF Finished
    <3>3. /\ intents' = intents \cup {This(p)} /\ pc' = [pc EXCEPT ![p] = "post"]
          /\ UNCHANGED <<decision, accepted, kv, outside, on, plan, rows, pend, crashes>>
      BY <1>4, <2>2 DEF Intent, Goto
    <3>4. TypeOK'  BY <3>1, <3>3 DEF Label, TypeInv, TypeOK, outside
    <3>5. WorksOnPlanned' /\ SendsItsPlan' /\ RowsAreAccepted'
      BY <2>0, <3>2, <3>3
         DEF TypeInv, TypeOK, WorksOnPlanned, SendsItsPlan, RowsAreAccepted, Sending
    <3>6. QED  BY <3>4, <3>5 DEF TypeInv
  <2>3. QED  BY <2>1, <2>2
<1>5. ASSUME NEW p \in Proc, Post(p) PROVE TypeInv'
  <2>1. This(p) \in Order  BY <1>5, ThisIsOrder DEF Post, Sending
  <2>2. PICK l \in {"answered", "no_id", "raised"} : pc' = [pc EXCEPT ![p] = l]
    BY <1>5 DEF Post, Goto
  <2>3. order' \in [Order -> {None} \cup OrderStatus]
    <3>1. order' = order \/ order' = [order EXCEPT ![This(p)] = "OPEN"]
      BY <1>5 DEF Post
    <3>2. QED  BY <2>1, <3>1 DEF TypeInv, TypeOK, OrderStatus
  <2>4. posts' \in [Order -> Nat]
    BY <1>5, <2>1 DEF Post, TypeInv, TypeOK
  <2>5. pc[p] = "post" /\ UNCHANGED <<on, plan, rows, pend, journal, signal, crashes>>
    BY <1>5 DEF Post
  <2>6. TypeOK'  BY <2>2, <2>3, <2>4, <2>5 DEF Label, TypeInv, TypeOK, journal
  <2>7. WorksOnPlanned' /\ SendsItsPlan' /\ RowsAreAccepted'
    BY <2>2, <2>5 DEF TypeInv, TypeOK, WorksOnPlanned, SendsItsPlan, RowsAreAccepted,
                      Sending, journal
  <2>8. QED  BY <2>6, <2>7 DEF TypeInv
<1>6. ASSUME NEW p \in Proc, RecordAccepted(p) PROVE TypeInv'
  <2>0. pc[p] \in {"answered", "no_id"}  BY <1>6 DEF RecordAccepted
  <2>1. This(p) \in Order  BY <2>0, ThisIsOrder DEF Sending
  <2>2. plan[p] # None /\ plan[p].next <= plan[p].n
    BY <2>0 DEF TypeInv, SendsItsPlan, Sending
  <2>3. [plan[p] EXCEPT !.next = plan[p].next + 1] \in Batch
    BY <1>0, <2>2, BatchFields DEF Batch
  <2>4. /\ plan' = [plan EXCEPT ![p] = [plan[p] EXCEPT !.next = plan[p].next + 1]]
        /\ pc' = [pc EXCEPT ![p] = "intent"]
        /\ UNCHANGED <<decision, intents, kv, outside, on, rows, pend, crashes>>
    BY <1>6 DEF RecordAccepted, Goto
  <2>5. /\ accepted \subseteq accepted'
        /\ accepted' \subseteq [o: Order, id: Order \cup {None}]
    BY <1>6, <2>1 DEF RecordAccepted, TypeInv, TypeOK
  <2>6. TypeOK'  BY <2>3, <2>4, <2>5 DEF Label, TypeInv, TypeOK, outside
  <2>7. WorksOnPlanned' /\ RowsAreAccepted'
    BY <2>0, <2>4, <2>5 DEF TypeInv, TypeOK, WorksOnPlanned, RowsAreAccepted
  <2>8. SendsItsPlan'
    BY <2>3, <2>4, ConstantsAssumption DEF TypeInv, TypeOK, SendsItsPlan
  <2>9. QED  BY <2>6, <2>7, <2>8 DEF TypeInv
<1>7. ASSUME NEW p \in Proc, Raised(p) PROVE TypeInv'
  <2>1. crashes' \in 0..CrashBudget /\ pc[p] = "raised"
    BY <1>7 DEF Raised, TypeInv, TypeOK
  <2>2. QED  BY <1>7, <2>1, ExitStep DEF Raised, Status
<1>8. ASSUME NEW p \in Proc, NEW d \in Decision, ReadAttempts(p, d) PROVE TypeInv'
  BY <1>8 DEF Label, ReadAttempts, AcceptedOf, Goto, TypeInv, TypeOK, WorksOnPlanned, SendsItsPlan,
         RowsAreAccepted, journal, outside, Sending
<1>9. ASSUME NEW p \in Proc, ReadPending(p) PROVE TypeInv'
  BY <1>9 DEF Label, ReadPending, Live, Goto, TypeInv, TypeOK, WorksOnPlanned, SendsItsPlan,
         RowsAreAccepted, journal, outside, Sending
<1>10. ASSUME NEW p \in Proc, ReadHistory(p) PROVE TypeInv'
  <2>0. crashes' \in 0..CrashBudget /\ pc[p] = "history"
    BY <1>10 DEF ReadHistory, TypeInv, TypeOK
  <2>1. CASE Exit(p) /\ \E s \in Status : SetStatus(on[p], s)
    BY <1>10, <2>0, <2>1, ExitStep DEF ReadHistory
  <2>2. CASE Goto(p, "membership") /\ UNCHANGED <<decision, on, plan, rows, pend>>
    <3>1. UNCHANGED <<accepted, intents, kv, outside, crashes>>
      BY <1>10 DEF ReadHistory
    <3>2. QED
      BY <2>0, <2>2, <3>1 DEF Label, Goto, TypeInv, TypeOK, WorksOnPlanned, SendsItsPlan,
                              RowsAreAccepted, outside, Sending
  <2>3. QED  BY <1>10, <2>1, <2>2 DEF ReadHistory, Status
<1>11. ASSUME NEW p \in Proc, Activate(p) PROVE TypeInv'
  <2>0. crashes' \in 0..CrashBudget
    BY <1>11 DEF Activate, SetKey, TypeInv, TypeOK
  <2>1. CASE \E key \in Key, l \in Activating : SetKey(p, key, l) /\ pc[p] # "idle"
    <3>1. on[p] \in Decision  BY <2>1 DEF TypeInv, WorksOnPlanned
    <3>2. PICK key \in Key, l \in Activating : SetKey(p, key, l) /\ pc[p] # "idle"
      BY <2>1
    <3>3. /\ kv' = [kv EXCEPT ![key] = on[p]] /\ pc' = [pc EXCEPT ![p] = l]
          /\ UNCHANGED <<decision, accepted, intents, outside, on, plan, rows, pend,
                         crashes>>
      BY <3>2 DEF SetKey, Goto
    <3>4. TypeOK'  BY <3>1, <3>3 DEF Label, TypeInv, TypeOK, outside, Activating
    <3>5. WorksOnPlanned' /\ SendsItsPlan' /\ RowsAreAccepted'
      BY <3>2, <3>3 DEF TypeInv, TypeOK, WorksOnPlanned, SendsItsPlan,
                        RowsAreAccepted, Sending, Activating
    <3>6. QED  BY <3>4, <3>5 DEF TypeInv
  <2>2. CASE /\ pc[p] = "status" /\ SetStatus(on[p], "RECONCILED_FILLED") /\ Exit(p)
             /\ UNCHANGED <<accepted, intents, kv, outside, crashes>>
    BY <2>0, <2>2, ExitStep DEF Status
  <2>3. QED  BY <1>11, <2>1, <2>2 DEF Activate, Key, Activating
<1>12. ASSUME NEW p \in Proc, Crash(p) PROVE TypeInv'
  <2>1. crashes' \in 0..CrashBudget
    BY <1>0, <1>12 DEF Crash, TypeInv, TypeOK
  <2>2. QED  BY <1>12, <2>1, ExitStep DEF Crash, journal
<1>13. ASSUME NEW o \in Order, Trade(o) PROVE TypeInv'
  BY <1>13 DEF Trade, TypeInv, TypeOK, WorksOnPlanned, SendsItsPlan,
         RowsAreAccepted, journal, procs, OrderStatus
<1>14. ASSUME Close PROVE TypeInv'
  BY <1>0, <1>14 DEF Close, TypeInv, TypeOK, WorksOnPlanned, SendsItsPlan,
         RowsAreAccepted, journal, procs, Decision
<1>15. CASE UNCHANGED vars
  BY <1>15 DEF vars, TypeInv, TypeOK, WorksOnPlanned, SendsItsPlan,
         RowsAreAccepted, journal, outside, procs
<1>16. QED
  BY <1>1, <1>2, <1>3, <1>4, <1>5, <1>6, <1>7, <1>8, <1>9, <1>10, <1>11, <1>12, <1>13,
     <1>14, <1>15 DEF Next, Submit, Reconcile, Proc

LEMMA TypeInitially == Init => TypeInv
<1>1. 1 \in Decision  BY ConstantsAssumption DEF Decision
<1>2. 0 \in 0..CrashBudget  BY ConstantsAssumption
<1>3. QED
  BY <1>1, <1>2 DEF Label, Init, TypeInv, TypeOK, WorksOnPlanned, SendsItsPlan, RowsAreAccepted,
                    Sending

LEMMA AlwaysTyped == Spec => []TypeInv
BY TypeInitially, TypeStep, PTL DEF Spec

\* The journal and every process's locals keep their types, with any number of
\* submitters, reconcilers and deaths.
THEOREM TypeCorrect == Spec => []TypeOK
<1>1. TypeInv => TypeOK  BY DEF TypeInv
<1>2. QED  BY <1>1, AlwaysTyped, PTL

-----------------------------------------------------------------------------
(* Who writes what *)

\* A decision, once planned, stays planned and what it is.
DecisionsStay ==
  \A d \in Decision : decision[d] # None =>
    decision'[d] # None /\ decision'[d].bootstrap = decision[d].bootstrap

LEMMA DecisionWrites ==
  ASSUME NEW p \in Proc, Submit(p) \/ Reconcile(p) \/ Crash(p)
  PROVE  \/ UNCHANGED decision
         \/ Plan(p)
         \/ pc[p] # "idle" /\ \E s \in Status : SetStatus(on[p], s)
<1>1. CASE \/ \E d \in Decision : Execute(p, d) \/ ReadAttempts(p, d)
           \/ Post(p) \/ RecordAccepted(p) \/ ReadPending(p) \/ Crash(p)
  BY <1>1 DEF Execute, ReadAttempts, Post, RecordAccepted, ReadPending, Crash, journal
<1>2. CASE Check(p) \/ Intent(p) \/ Raised(p)
  BY <1>2 DEF Check, Intent, Raised, Status
<1>3. CASE ReadHistory(p)  BY <1>3 DEF ReadHistory, Status
<1>4. CASE Activate(p)  BY <1>4 DEF Activate, SetKey, Status
<1>5. QED  BY <1>1, <1>2, <1>3, <1>4 DEF Submit, Reconcile

LEMMA DecisionStep ==
  ASSUME TypeInv, Next
  PROVE  DecisionsStay
<1>1. ASSUME NEW p \in Proc, Submit(p) \/ Reconcile(p) \/ Crash(p) PROVE DecisionsStay
  <2>1. CASE UNCHANGED decision  BY <2>1 DEF DecisionsStay
  <2>2. CASE Plan(p)
    BY <2>2 DEF Plan, DecisionsStay, TypeInv, TypeOK
  <2>3. CASE pc[p] # "idle" /\ \E s \in Status : SetStatus(on[p], s)
    <3>1. /\ decision \in [Decision -> {None} \cup DecisionRow]
          /\ on[p] \in Decision /\ decision[on[p]] # None
      BY <2>3 DEF TypeInv, TypeOK, WorksOnPlanned
    <3>2. QED  BY <2>3, <3>1, StatusKeepsTypes DEF DecisionsStay
  <2>4. QED  BY <1>1, <2>1, <2>2, <2>3, DecisionWrites
<1>2. CASE (\E o \in Order : Trade(o)) \/ Close
  BY <1>2 DEF Trade, Close, journal, DecisionsStay
<1>3. QED  BY <1>1, <1>2 DEF Next, Proc

LEMMA ReconcilerWrites ==
  ASSUME TypeInv, NEW p \in Reconciler, ReconcilerStep(p)
  PROVE  /\ UNCHANGED <<intents, accepted, outside>>
         /\ \A q \in Proc : q # p => /\ pc'[q] = pc[q] /\ on'[q] = on[q]
                                     /\ plan'[q] = plan[q] /\ rows'[q] = rows[q]
<1>0. p \in Proc  BY DEF Proc
<1>1. CASE \E d \in Decision : ReadAttempts(p, d)
  BY <1>1 DEF ReadAttempts, Goto, journal, outside, TypeInv, TypeOK
<1>2. CASE ReadPending(p)
  BY <1>2 DEF ReadPending, Goto, journal, outside, TypeInv, TypeOK
<1>3. CASE ReadHistory(p)
  <2>1. CASE Exit(p)  BY <1>0, <1>3, <2>1, ExitKeepsTypes DEF ReadHistory
  <2>2. CASE Goto(p, "membership") /\ UNCHANGED <<on, plan, rows>>
    BY <1>3, <2>2 DEF ReadHistory, Goto, TypeInv, TypeOK
  <2>3. QED  BY <1>3, <2>1, <2>2 DEF ReadHistory
<1>4. CASE Activate(p)
  <2>1. CASE Exit(p) /\ UNCHANGED <<intents, accepted, outside>>
    BY <1>0, <2>1, ExitKeepsTypes
  <2>2. CASE \E key \in Key, l \in Activating : SetKey(p, key, l)
    BY <2>2 DEF SetKey, Goto, TypeInv, TypeOK
  <2>3. QED  BY <1>4, <2>1, <2>2 DEF Activate, Key, Activating
<1>5. CASE Crash(p)
  BY <1>0, <1>5, ExitKeepsTypes DEF Crash, journal
<1>6. QED  BY <1>1, <1>2, <1>3, <1>4, <1>5 DEF ReconcilerStep, Reconcile

LEMMA SubmitterWrites ==
  ASSUME TypeInv, NEW p \in Executor, ExecutorStep(p)
  PROVE  /\ UNCHANGED <<kv, signal>> /\ accepted \subseteq accepted'
         /\ \A q \in Proc : q # p => /\ pc'[q] = pc[q] /\ on'[q] = on[q]
                                     /\ plan'[q] = plan[q] /\ rows'[q] = rows[q]
         /\ UNCHANGED <<order, posts>> \/ Post(p)
<1>0. p \in Proc  BY DEF Proc
<1>1. CASE Plan(p)  BY <1>1 DEF Plan, procs, outside
<1>2. CASE \E d \in Decision : Execute(p, d)
  BY <1>2 DEF Execute, Goto, journal, outside, TypeInv, TypeOK
<1>3. CASE Check(p)
  <2>1. CASE Exit(p)  BY <1>0, <1>3, <2>1, ExitKeepsTypes DEF Check, outside
  <2>2. CASE \E n \in 1..Orders : /\ Goto(p, "intent")
                                  /\ plan' = [plan EXCEPT ![p] = [next |-> 1, n |-> n]]
                                  /\ UNCHANGED <<on, rows, pend>>
    BY <1>0, <1>3, <2>2 DEF Check, Goto, outside, TypeInv, TypeOK
  <2>3. \A n \in 0..Orders : n # 0 => n \in 1..Orders  BY ConstantsAssumption
  <2>4. QED  BY <1>3, <2>1, <2>2, <2>3 DEF Check
<1>4. CASE Intent(p)
  <2>1. CASE Exit(p)  BY <1>0, <1>4, <2>1, ExitKeepsTypes DEF Intent, outside
  <2>2. CASE Goto(p, "post") /\ UNCHANGED <<on, plan, rows>>
    BY <1>0, <1>4, <2>2 DEF Intent, Goto, outside, TypeInv, TypeOK
  <2>3. QED  BY <1>4, <2>1, <2>2 DEF Intent
<1>5. CASE Post(p)
  BY <1>0, <1>5 DEF Post, Goto, journal, TypeInv, TypeOK
<1>6. CASE RecordAccepted(p)
  BY <1>0, <1>6 DEF RecordAccepted, Goto, outside, TypeInv, TypeOK
<1>7. CASE Raised(p)
  BY <1>0, <1>7, ExitKeepsTypes DEF Raised, outside
<1>8. CASE Crash(p)
  BY <1>0, <1>8, ExitKeepsTypes DEF Crash, journal, outside
<1>9. QED
  BY <1>1, <1>2, <1>3, <1>4, <1>5, <1>6, <1>7, <1>8 DEF ExecutorStep, Submit

-----------------------------------------------------------------------------
(* One execute-demo at a time: no order is sent twice *)

OneExecutor == \A p, q \in Executor : p = q

\* An order is sent after its intent, at most once, and what is about to be
\* sent has not been.
OrdersHaveIntents ==
  /\ \A o \in Order : /\ posts[o] > 0 => posts[o] = 1 /\ o \in intents
                      /\ order[o] # None => posts[o] > 0
  /\ \A o \in intents : decision[o[1]] # None
Unsent(p) ==
  \A o \in intents : o[1] = on[p] =>
    /\ pc[p] # "check"
    /\ pc[p] = "intent" => o[2] < plan[p].next
    /\ pc[p] \in Sending => o[2] <= plan[p].next
AboutToSend(p) ==
  pc[p] = "post" => This(p) \in intents /\ posts[This(p)] = 0
PostInv == OrdersHaveIntents /\ \A p \in Executor : Unsent(p) /\ AboutToSend(p)

\* Whatever the executor does not do leaves its part of PostInv alone.
LEMMA PostFrame ==
  ASSUME TypeInv, PostInv, DecisionsStay, UNCHANGED <<intents, posts>>,
         \A o \in Order : order'[o] # None => order[o] # None,
         \A q \in Executor : pc'[q] = pc[q] /\ on'[q] = on[q] /\ plan'[q] = plan[q]
  PROVE  PostInv'
<1>1. intents \subseteq Order  BY DEF TypeInv, TypeOK
<1>2. \A o \in intents : o[1] \in Decision  BY <1>1 DEF Order
<1>3. OrdersHaveIntents'  BY <1>2 DEF PostInv, OrdersHaveIntents, DecisionsStay
<1>4. ASSUME NEW q \in Executor PROVE Unsent(q)' /\ AboutToSend(q)'
  <2>1. Unsent(q)'  BY <1>4 DEF PostInv, Unsent
  <2>2. AboutToSend(q)'  BY <1>4 DEF PostInv, AboutToSend, This
  <2>3. QED  BY <2>1, <2>2
<1>5. QED  BY <1>3, <1>4 DEF PostInv

LEMMA SubmitterKeepsPosts ==
  ASSUME OneExecutor, TypeInv, PostInv, DecisionsStay, NEW p \in Executor, ExecutorStep(p)
  PROVE  PostInv'
<1>0. /\ p \in Proc /\ \A q \in Executor : q = p
      /\ OrdersHaveIntents /\ Unsent(p) /\ AboutToSend(p)
  BY DEF Proc, OneExecutor, PostInv
<1>i. /\ intents \subseteq Order /\ \A o \in intents : o[1] \in Decision /\ o[2] \in Nat
      /\ posts \in [Order -> Nat] /\ pc \in [Proc -> Label] /\ on \in [Proc -> Decision \cup {None}]
  <2>1. intents \subseteq Order /\ posts \in [Order -> Nat]  BY DEF TypeInv, TypeOK
  <2>2. on \in [Proc -> Decision \cup {None}]  BY DEF TypeInv, TypeOK
  <2>3. pc \in [Proc -> Label]  BY DEF TypeInv, TypeOK
  <2>4. QED  BY <2>1, <2>2, <2>3, ConstantsAssumption DEF Order
<1> SUFFICES OrdersHaveIntents' /\ Unsent(p)' /\ AboutToSend(p)'
  BY <1>0 DEF PostInv
\* The process is idle after it: nothing is about to be sent.
<1>1. ASSUME Exit(p), UNCHANGED <<intents, posts, order>>
      PROVE  OrdersHaveIntents' /\ Unsent(p)' /\ AboutToSend(p)'
  <2>1. pc'[p] = "idle"  BY <1>0, <1>1, ExitKeepsTypes
  <2>2. OrdersHaveIntents'
    BY <1>0, <1>1, <1>i DEF OrdersHaveIntents, DecisionsStay
  <2>3. QED  BY <2>1, <2>2 DEF Unsent, AboutToSend, Sending
<1>2. CASE Plan(p)
  BY <1>0, <1>2, PostFrame DEF Plan, outside, procs, PostInv
<1>3. CASE \E d \in Decision : Execute(p, d)
  <2>1. PICK d \in Decision : Execute(p, d)  BY <1>3
  <2>2. /\ pc'[p] = "check" /\ on'[p] = d /\ UNCHANGED <<intents, posts, order, decision>>
        /\ \A o \in intents : o[1] # d
    BY <1>0, <1>i, <2>1 DEF Execute, Executable, Goto, journal, outside
  <2>3. OrdersHaveIntents'  BY <1>0, <2>2 DEF OrdersHaveIntents
  <2>4. QED  BY <2>2, <2>3 DEF Unsent, AboutToSend, Sending
<1>4. CASE Check(p)
  <2>1. CASE Exit(p)  BY <1>1, <1>4, <2>1 DEF Check, outside
  <2>2. ASSUME ~Exit(p)
        PROVE  OrdersHaveIntents' /\ Unsent(p)' /\ AboutToSend(p)'
    <3>1. /\ pc[p] = "check" /\ pc'[p] = "intent" /\ on' = on
          /\ UNCHANGED <<intents, posts, order>>
      <4>1. Goto(p, "intent") /\ UNCHANGED <<on, rows, pend>>
        <5>1. BrokerIsClear(on[p])  BY <1>4, <2>2 DEF Check
        <5>2. PICK n \in 0..Orders :
                IF n = 0 THEN SetStatus(on[p], "NO_ORDERS") /\ Exit(p)
                  ELSE Goto(p, "intent") /\ UNCHANGED <<on, rows, pend>>
          BY <1>4, <5>1 DEF Check
        <5>3. QED  BY <2>2, <5>2
      <4>2. pc[p] = "check" /\ UNCHANGED <<intents, outside>>  BY <1>4 DEF Check
      <4>3. QED  BY <1>0, <1>i, <4>1, <4>2 DEF Goto, outside
    <3>2. \A o \in intents : o[1] # on[p]  BY <1>0, <3>1 DEF Unsent
    <3>3. OrdersHaveIntents'  BY <1>0, <1>i, <3>1 DEF OrdersHaveIntents, DecisionsStay
    <3>4. Unsent(p)' /\ AboutToSend(p)'
      BY <3>1, <3>2 DEF Unsent, AboutToSend
    <3>5. QED  BY <3>3, <3>4
  <2>3. QED  BY <2>1, <2>2
<1>5. CASE Intent(p)
  <2>1. CASE Finished(p)  BY <1>1, <1>5, <2>1 DEF Intent, outside
  <2>2. CASE ~Finished(p)
    <3>1. /\ pc[p] = "intent" /\ intents' = intents \cup {This(p)}
          /\ pc' = [pc EXCEPT ![p] = "post"]
          /\ UNCHANGED <<decision, on, plan, posts, order>>
      BY <1>5, <2>2 DEF Intent, Goto, outside
    <3>2. /\ This(p) \in Order /\ This(p)[1] = on[p] /\ This(p)[2] = plan[p].next
          /\ decision[on[p]] # None /\ plan[p].next \in Nat
      <4>1. plan[p] # None  BY <1>0, <3>1 DEF TypeInv, SendsItsPlan, Sending
      <4>2. plan[p].next \in Nat  BY <1>0, <4>1, BatchFields, ConstantsAssumption
      <4>3. This(p) \in Order  BY <1>0, <2>2, <3>1, ThisIsOrder DEF Sending
      <4>4. decision[on[p]] # None  BY <1>0, <3>1 DEF TypeInv, WorksOnPlanned
      <4>5. This(p)[1] = on[p] /\ This(p)[2] = plan[p].next  BY DEF This
      <4>6. QED  BY <4>2, <4>3, <4>4, <4>5
    <3>3. \A o \in intents : o[1] = on[p] => o[2] < plan[p].next
      BY <1>0, <3>1 DEF Unsent
    <3>4. This(p) \notin intents  BY <1>i, <3>2, <3>3
    <3>5. posts[This(p)] = 0
      BY <1>0, <1>i, <3>2, <3>4 DEF OrdersHaveIntents
    <3>6. pc'[p] = "post" /\ This(p)' = This(p)  BY <1>0, <1>i, <3>1 DEF This
    <3>7. OrdersHaveIntents'  BY <1>0, <3>1, <3>2 DEF OrdersHaveIntents
    <3>8. AboutToSend(p)'  BY <3>1, <3>5, <3>6 DEF AboutToSend
    <3>9. \A o \in intents' : o[1] = on[p] => o[2] <= plan[p].next
      BY <1>i, <3>1, <3>2, <3>3
    <3>10. Unsent(p)'  BY <3>1, <3>6, <3>9 DEF Unsent, Sending
    <3>11. QED  BY <3>7, <3>8, <3>10
  <2>3. QED  BY <2>1, <2>2
<1>6. CASE Post(p)
  <2>1. /\ pc[p] = "post" /\ posts' = [posts EXCEPT ![This(p)] = posts[This(p)] + 1]
        /\ \A o \in Order : o # This(p) => order'[o] = order[o]
        /\ pc'[p] \in {"answered", "no_id", "raised"}
        /\ UNCHANGED <<on, plan, intents, decision>>
    <3>1. order \in [Order -> {None} \cup OrderStatus]  BY DEF TypeInv, TypeOK
    <3>2. QED  BY <1>0, <1>i, <1>6, <3>1 DEF Post, Goto, journal
  <2>2. This(p) \in Order /\ This(p) \in intents /\ posts[This(p)] = 0
    <3>1. This(p) \in Order  BY <1>0, <2>1, ThisIsOrder DEF Sending
    <3>2. QED  BY <1>0, <2>1, <3>1 DEF AboutToSend
  <2>3. posts'[This(p)] = 1 /\ \A o \in Order : o # This(p) => posts'[o] = posts[o]
    BY <1>i, <2>1, <2>2
  <2>4. OrdersHaveIntents'
    BY <1>0, <2>1, <2>2, <2>3 DEF OrdersHaveIntents
  <2>5. \A o \in intents : o[1] = on[p] => o[2] <= plan[p].next
    BY <1>0, <2>1 DEF Unsent, Sending
  <2>6. Unsent(p)' /\ AboutToSend(p)'
    BY <2>1, <2>5 DEF Unsent, AboutToSend, Sending
  <2>7. QED  BY <2>4, <2>6
<1>7. CASE RecordAccepted(p)
  <2>1. /\ pc[p] \in {"answered", "no_id"} /\ pc'[p] = "intent"
        /\ plan' = [plan EXCEPT ![p] = [plan[p] EXCEPT !.next = plan[p].next + 1]]
        /\ UNCHANGED <<on, intents, decision, posts, order>>
    BY <1>0, <1>i, <1>7 DEF RecordAccepted, Goto, outside
  <2>2. plan[p] # None  BY <1>0, <2>1 DEF TypeInv, SendsItsPlan, Sending
  <2>3. plan[p].next \in Nat /\ plan'[p].next = plan[p].next + 1
    BY <1>0, <2>1, <2>2, BatchFields, ConstantsAssumption DEF TypeInv, TypeOK, Batch
  <2>4. \A o \in intents : o[1] = on[p] => o[2] <= plan[p].next
    BY <1>0, <2>1 DEF Unsent, Sending
  <2>5. \A o \in intents : o[1] = on[p] => o[2] < plan'[p].next /\ o[2] <= plan'[p].next
    BY <1>i, <2>3, <2>4
  <2>6. Unsent(p)' /\ AboutToSend(p)'
    BY <2>1, <2>5 DEF Unsent, AboutToSend
  <2>7. OrdersHaveIntents'  BY <1>0, <2>1 DEF OrdersHaveIntents
  <2>8. QED  BY <2>6, <2>7
<1>8. CASE Raised(p)  BY <1>1, <1>8 DEF Raised, outside
<1>9. CASE Crash(p)  BY <1>1, <1>9 DEF Crash, journal, outside
<1>10. QED
  BY <1>2, <1>3, <1>4, <1>5, <1>6, <1>7, <1>8, <1>9 DEF ExecutorStep, Submit

LEMMA PostStep ==
  ASSUME OneExecutor, TypeInv, PostInv, [Next]_vars
  PROVE  PostInv'
<1>1. CASE UNCHANGED vars
  BY <1>1, PostFrame DEF vars, journal, outside, procs, DecisionsStay
<1>2. ASSUME NEW p \in Executor, ExecutorStep(p), Next PROVE PostInv'
  BY <1>2, SubmitterKeepsPosts, DecisionStep
<1>3. ASSUME NEW p \in Reconciler, ReconcilerStep(p), Next PROVE PostInv'
  <2>1. \A q \in Executor : q \in Proc /\ q # p
    BY ConstantsAssumption DEF Proc
  <2>2. UNCHANGED <<intents, outside>>  BY <1>3, ReconcilerWrites
  <2>3. \A q \in Executor : pc'[q] = pc[q] /\ on'[q] = on[q] /\ plan'[q] = plan[q]
    BY <1>3, <2>1, ReconcilerWrites
  <2>4. QED  BY <1>3, <2>2, <2>3, PostFrame, DecisionStep DEF outside
<1>4. CASE Next /\ \E o \in Order : Trade(o)
  <2>1. PICK o \in Order : Trade(o)  BY <1>4
  <2>2. order \in [Order -> {None} \cup OrderStatus]  BY DEF TypeInv, TypeOK
  <2>3. order[o] # None /\ \A x \in Order : x # o => order'[x] = order[x]
    BY <2>1, <2>2, ConstantsAssumption DEF Trade, OrderStatus
  <2>4. UNCHANGED <<posts, journal, procs>>  BY <2>1 DEF Trade
  <2>5. DecisionsStay  BY <1>4, DecisionStep
  <2>6. QED  BY <2>3, <2>4, <2>5, PostFrame DEF journal, procs
<1>5. CASE Next /\ Close
  BY <1>5, PostFrame, DecisionStep DEF Close, journal, procs
<1>6. QED  BY <1>1, <1>2, <1>3, <1>4, <1>5, NextCases

LEMMA PostInvariant == OneExecutor => (Spec => []PostInv)
<1> SUFFICES ASSUME OneExecutor PROVE Spec => []PostInv
  OBVIOUS
<1>1. Init => PostInv
  BY DEF Init, PostInv, OrdersHaveIntents, Unsent, AboutToSend, Proc
<1>2. TypeInv /\ PostInv /\ [Next]_vars => PostInv'
  BY PostStep
<1>3. QED  BY <1>1, <1>2, AlwaysTyped, PTL DEF Spec

\* No order of a decision is ever sent twice, with one execute-demo at a time and
\* any number of reconcile beside it, wherever they die.
THEOREM NoOrderTwice == OneExecutor => (Spec => []PostedOnce)
<1> SUFFICES ASSUME OneExecutor PROVE Spec => []PostedOnce
  OBVIOUS
<1>1. TypeInv /\ PostInv => PostedOnce
  BY DEF TypeInv, TypeOK, PostInv, OrdersHaveIntents, PostedOnce
<1>2. QED  BY <1>1, AlwaysTyped, PostInvariant, PTL

-----------------------------------------------------------------------------
(* One execute-demo at a time: the initial capital is spent once *)

Placed == Live \cup Held

\* While a bootstrap is being sent, all orders are its own.
OwnOrders ==
  \A p \in Executor : pc[p] \in Sending /\ decision[on[p]].bootstrap =>
    \A o \in Placed : o[1] = on[p]
BootInv == BootstrapOnce /\ OwnOrders

LEMMA PlacedOrders ==
  ASSUME TypeInv, PostInv, NEW o \in Placed
  PROVE  o \in Order /\ o[1] \in Decision /\ decision[o[1]] # None
<1>1. o \in Order /\ order[o] \in OrderStatus  BY DEF Placed, Live, Held, OrderStatus
<1>2. order[o] # None  BY <1>1, ConstantsAssumption
<1>3. o \in intents
  <2>1. posts[o] \in Nat  BY <1>1 DEF TypeInv, TypeOK
  <2>2. QED  BY <1>1, <1>2, <2>1 DEF PostInv, OrdersHaveIntents
<1>4. QED  BY <1>1, <1>3 DEF PostInv, OrdersHaveIntents, Order

LEMMA BootFrame ==
  ASSUME TypeInv, PostInv, BootInv, DecisionsStay, Placed' \subseteq Placed,
         \A q \in Executor : pc'[q] \in Sending =>
           /\ on'[q] \in Decision /\ decision[on'[q]] # None
           /\ \/ pc[q] \in Sending /\ on'[q] = on[q]
              \/ decision[on'[q]].bootstrap => Placed = {}
  PROVE  BootInv'
<1>1. \A o \in Placed' : o \in Placed /\ decision'[o[1]].bootstrap = decision[o[1]].bootstrap
  BY PlacedOrders DEF DecisionsStay
<1>2. BootstrapOnce'  BY <1>1 DEF BootInv, BootstrapOnce, Placed
<1>3. OwnOrders'  BY <1>1 DEF BootInv, OwnOrders, DecisionsStay
<1>4. QED  BY <1>2, <1>3 DEF BootInv

LEMMA BootStep ==
  ASSUME OneExecutor, TypeInv, TypeInv', PostInv, BootInv, Next
  PROVE  BootInv'
<1>0. DecisionsStay  BY DecisionStep
<1>a. pc \in [Proc -> Label] /\ on \in [Proc -> Decision \cup {None}]
  BY DEF TypeInv, TypeOK
<1>w. \A q \in Proc : pc[q] \in Sending => on[q] \in Decision /\ decision[on[q]] # None
  BY DEF TypeInv, WorksOnPlanned, Sending
<1>e. \A q \in Executor : q \in Proc  BY DEF Proc
\* Steps that place no order and start no submission.
<1>1. ASSUME Placed' \subseteq Placed,
             \A q \in Executor : pc'[q] \in Sending => pc[q] \in Sending /\ on'[q] = on[q]
      PROVE  BootInv'
  BY <1>0, <1>1, <1>w, <1>e, BootFrame
<1>2. ASSUME order' = order PROVE Placed' = Placed
  BY <1>2 DEF Placed, Live, Held
<1>3. ASSUME NEW p \in Reconciler, ReconcilerStep(p) PROVE BootInv'
  <2>1. \A q \in Executor : q \in Proc /\ q # p  BY ConstantsAssumption DEF Proc
  <2>2. order' = order /\ \A q \in Executor : pc'[q] = pc[q] /\ on'[q] = on[q]
    BY <1>3, <2>1, ReconcilerWrites DEF outside
  <2>3. QED  BY <1>1, <1>2, <2>2
<1>4. ASSUME NEW o \in Order, Trade(o) PROVE BootInv'
  <2>1. /\ order[o] \in {"OPEN", "WORKING"} /\ UNCHANGED procs
        /\ \A x \in Order : x # o => order'[x] = order[x]
    BY <1>4 DEF Trade, TypeInv, TypeOK
  <2>2. Placed' \subseteq Placed  BY <2>1 DEF Placed, Live, Held
  <2>3. QED  BY <1>1, <2>1, <2>2 DEF procs
<1>5. CASE Close
  BY <1>1, <1>2, <1>5 DEF Close, procs
<1>6. ASSUME NEW p \in Executor, ExecutorStep(p) PROVE BootInv'
  <2>0. p \in Proc /\ \A q \in Executor : q = p  BY <1>e DEF OneExecutor
  <2>1. CASE Plan(p)  BY <1>1, <1>2, <2>1 DEF Plan, outside, procs
  <2>2. CASE \E d \in Decision : Execute(p, d)
    <3>1. order' = order /\ pc'[p] = "check"
      BY <1>a, <2>0, <2>2 DEF Execute, Goto, outside
    <3>2. QED  BY <1>1, <1>2, <2>0, <3>1 DEF Sending
  <2>3. ASSUME Exit(p), order' = order PROVE BootInv'
    <3>1. pc'[p] = "idle"  BY <2>0, <2>3, ExitKeepsTypes
    <3>2. QED  BY <1>1, <1>2, <2>0, <2>3, <3>1 DEF Sending
  <2>4. CASE Check(p)
    <3>1. order' = order /\ pc[p] = "check"  BY <2>4 DEF Check, outside
    <3>2. CASE Exit(p)  BY <2>3, <3>1, <3>2
    <3>3. CASE ~Exit(p)
      <4>1. BrokerIsClear(on[p])  BY <2>4, <3>3 DEF Check
      <4>2. PICK n \in 0..Orders :
              IF n = 0 THEN SetStatus(on[p], "NO_ORDERS") /\ Exit(p)
                ELSE Goto(p, "intent") /\ UNCHANGED <<on, rows, pend>>
        BY <2>4, <4>1 DEF Check
      <4>3. pc'[p] = "intent" /\ on' = on  BY <1>a, <2>0, <3>3, <4>2 DEF Goto
      <4>4. on[p] \in Decision /\ decision[on[p]] # None
        BY <2>0, <3>1 DEF TypeInv, WorksOnPlanned
      <4>5. decision[on[p]].bootstrap => Placed = {}
        BY <4>1 DEF BrokerIsClear, Placed
      <4>6. QED  BY <1>0, <1>2, <2>0, <3>1, <4>3, <4>4, <4>5, BootFrame
    <3>4. QED  BY <3>2, <3>3
  <2>5. CASE Intent(p)
    <3>1. order' = order /\ pc[p] = "intent"  BY <2>5 DEF Intent, outside
    <3>2. CASE Exit(p)  BY <2>3, <3>1, <3>2
    <3>3. CASE ~Exit(p)
      <4>1. on' = on  BY <2>5, <3>3 DEF Intent
      <4>2. QED  BY <1>1, <1>2, <2>0, <3>1, <4>1 DEF Sending
    <3>4. QED  BY <3>2, <3>3
  <2>6. CASE Post(p)
    <3>1. /\ pc[p] = "post" /\ UNCHANGED <<on, decision>>
          /\ order' = order \/ order' = [order EXCEPT ![This(p)] = "OPEN"]
      BY <2>6 DEF Post, journal
    <3>2. This(p) \in Order /\ This(p)[1] = on[p]
      BY <2>0, <3>1, ThisIsOrder DEF This, Sending
    <3>3. \A o \in Placed' : o \in Placed \/ o[1] = on[p]
      BY <3>1, <3>2 DEF Placed, Live, Held, TypeInv, TypeOK
    <3>4. decision[on[p]].bootstrap => \A o \in Placed : o[1] = on[p]
      BY <3>1 DEF BootInv, OwnOrders, Sending
    <3>5. BootstrapOnce'
      BY <3>1, <3>3, <3>4 DEF BootInv, BootstrapOnce, Placed
    <3>6. OwnOrders'
      BY <2>0, <3>1, <3>3, <3>4 DEF OwnOrders
    <3>7. QED  BY <3>5, <3>6 DEF BootInv
  <2>7. CASE RecordAccepted(p)
    <3>1. order' = order /\ on' = on /\ pc[p] \in {"answered", "no_id"}
      BY <2>7 DEF RecordAccepted, outside
    <3>2. QED  BY <1>1, <1>2, <2>0, <3>1 DEF Sending
  <2>8. CASE Raised(p)  BY <2>3, <2>8 DEF Raised, outside
  <2>9. CASE Crash(p)  BY <2>3, <2>9 DEF Crash, outside
  <2>10. QED
    BY <1>6, <2>1, <2>2, <2>4, <2>5, <2>6, <2>7, <2>8, <2>9 DEF ExecutorStep, Submit
<1>7. QED  BY <1>3, <1>4, <1>5, <1>6, NextCases

\* The initial capital is spent once: never are orders of two bootstraps working
\* or filled, with one execute-demo at a time.
THEOREM OneBootstrap == OneExecutor => (Spec => []BootstrapOnce)
<1> SUFFICES ASSUME OneExecutor PROVE Spec => []BootstrapOnce
  OBVIOUS
<1>1. Init => BootInv
  <2>1. Init => Placed = {}
    BY ConstantsAssumption DEF Init, Placed, Live, Held, OrderStatus
  <2>2. Placed = {} => BootInv  BY DEF BootInv, BootstrapOnce, OwnOrders, Placed
  <2>3. QED  BY <2>1, <2>2
<1>2. TypeInv /\ TypeInv' /\ PostInv /\ BootInv /\ [Next]_vars => BootInv'
  <2>1. CASE Next  BY <2>1, BootStep
  <2>2. CASE UNCHANGED vars
    BY <2>2 DEF vars, journal, outside, procs, BootInv, BootstrapOnce, OwnOrders,
                Placed, Live, Held
  <2>3. QED  BY <2>1, <2>2
<1>3. BootInv => BootstrapOnce  BY DEF BootInv
<1>4. QED  BY <1>1, <1>2, <1>3, AlwaysTyped, PostInvariant, PTL DEF Spec

-----------------------------------------------------------------------------
(* One execute-demo at a time: what is active was bought *)

\* The attempts a reconciliation has read are accepted ones of its decision, and
\* there are some; once it activates they are filled.
Reading == {"pending", "history"} \cup Activating
RowsAreOfDecision ==
  \A p \in Proc : pc[p] \in Reading => rows[p] # {} /\ rows[p] \subseteq AcceptedOf(on[p])
ActiveInv == ActiveIsFilled /\ RowsAreOfDecision

LEMMA FilledStays ==
  ASSUME OneExecutor, TypeInv, PostInv, Next, NEW o \in Order, order[o] = "FILLED"
  PROVE  order'[o] = "FILLED"
<1>0. order \in [Order -> {None} \cup OrderStatus]  BY DEF TypeInv, TypeOK
<1>1. posts[o] > 0
  <2>1. order[o] # None  BY ConstantsAssumption DEF OrderStatus
  <2>2. QED  BY <2>1 DEF PostInv, OrdersHaveIntents
<1>2. ASSUME NEW p \in Executor, Post(p) PROVE order'[o] = "FILLED"
  <2>1. posts[This(p)] = 0  BY <1>2 DEF Post, PostInv, AboutToSend
  <2>2. QED  BY <1>0, <1>1, <1>2, <2>1 DEF Post
<1>3. ASSUME NEW x \in Order, Trade(x) PROVE order'[o] = "FILLED"
  BY <1>0, <1>3 DEF Trade
<1>4. CASE Close  BY <1>4 DEF Close
<1>5. ASSUME NEW p \in Executor, ExecutorStep(p) PROVE order'[o] = "FILLED"
  BY <1>2, <1>5, SubmitterWrites
<1>6. ASSUME NEW p \in Reconciler, ReconcilerStep(p) PROVE order'[o] = "FILLED"
  BY <1>6, ReconcilerWrites DEF outside
<1>7. QED  BY <1>3, <1>4, <1>5, <1>6, NextCases

LEMMA AcceptedStays ==
  ASSUME TypeInv, Next
  PROVE  accepted \subseteq accepted'
<1>1. ASSUME NEW p \in Executor, ExecutorStep(p) PROVE accepted \subseteq accepted'
  BY <1>1, SubmitterWrites
<1>2. ASSUME NEW p \in Reconciler, ReconcilerStep(p) PROVE accepted \subseteq accepted'
  BY <1>2, ReconcilerWrites
<1>3. CASE (\E o \in Order : Trade(o)) \/ Close
  BY <1>3 DEF Trade, Close, journal
<1>4. QED  BY <1>1, <1>2, <1>3, NextCases

\* A process that is reading or activating is part of ActiveInv.
ActiveOf(p) ==
  /\ pc[p] \in Reading => rows[p] # {} /\ rows[p] \subseteq AcceptedOf(on[p])
  /\ pc[p] \in Activating => \A a \in rows[p] : a.id # None /\ order[a.o] = "FILLED"
KeysFilled ==
  \A k \in Key : kv[k] # None => \E a \in AcceptedOf(kv[k]) : order[a.o] = "FILLED"

LEMMA ActiveOfEach == ActiveInv <=> KeysFilled /\ \A p \in Proc : ActiveOf(p)
BY DEF ActiveInv, ActiveIsFilled, RowsAreOfDecision, KeysFilled, ActiveOf, Activating

LEMMA KeysKept ==
  ASSUME OneExecutor, TypeInv, PostInv, Next, KeysFilled, NEW k \in Key, kv'[k] = kv[k],
         kv'[k] # None
  PROVE  \E a \in AcceptedOf(kv[k])' : order'[a.o] = "FILLED"
<1>1. PICK a \in AcceptedOf(kv[k]) : order[a.o] = "FILLED"  BY DEF KeysFilled
<1>2. a.o \in Order  BY DEF AcceptedOf, TypeInv, TypeOK
<1>3. order'[a.o] = "FILLED"  BY <1>1, <1>2, FilledStays
<1>4. a \in AcceptedOf(kv[k])'  BY AcceptedStays DEF AcceptedOf
<1>5. QED  BY <1>3, <1>4

LEMMA ActiveKept ==
  ASSUME OneExecutor, TypeInv, PostInv, Next, NEW p \in Proc, ActiveOf(p),
         pc'[p] \in Reading => /\ pc[p] \in Reading /\ on'[p] = on[p]
                               /\ rows'[p] = rows[p],
         pc'[p] \in Activating => pc[p] \in Activating
  PROVE  ActiveOf(p)'
<1>1. \A a \in accepted : a.o \in Order  BY DEF TypeInv, TypeOK
<1>2. \A a \in rows[p] : a.o \in Order  BY <1>1 DEF TypeInv, RowsAreAccepted
<1>3. Activating \subseteq Reading  BY DEF Reading
<1>4. pc'[p] \in Reading => rows'[p] # {} /\ rows'[p] \subseteq AcceptedOf(on[p])'
  BY <1>3, AcceptedStays DEF ActiveOf, AcceptedOf
<1>5. pc'[p] \in Activating => \A a \in rows'[p] : a.id # None /\ order'[a.o] = "FILLED"
  BY <1>2, <1>3, FilledStays DEF ActiveOf
<1>6. QED  BY <1>4, <1>5 DEF ActiveOf, AcceptedOf

LEMMA ActiveStep ==
  ASSUME OneExecutor, TypeInv, PostInv, KeysFilled, \A p \in Proc : ActiveOf(p), Next
  PROVE  KeysFilled' /\ \A p \in Proc : ActiveOf(p)'
<1>a. /\ pc \in [Proc -> Label] /\ kv \in [Key -> Decision \cup {None}]
  BY DEF TypeInv, TypeOK
<1>k. ASSUME kv' = kv PROVE KeysFilled'
  BY <1>k, KeysKept DEF KeysFilled
\* A process that ends, or does something else than reconciling.
<1>s. ASSUME NEW p \in Proc, pc'[p] \notin Reading PROVE ActiveOf(p)'
  BY <1>s DEF ActiveOf, Reading
<1>1. ASSUME NEW p \in Executor, ExecutorStep(p)
      PROVE  KeysFilled' /\ \A q \in Proc : ActiveOf(q)'
  <2>1. kv' = kv  BY <1>1, SubmitterWrites
  <2>2. ASSUME NEW q \in Proc, q # p PROVE ActiveOf(q)'
    BY <1>1, <2>2, SubmitterWrites, ActiveKept
  <2>3. p \in Proc  BY DEF Proc
  <2>4. ActiveOf(p)'
    <3>1. CASE Plan(p)  BY <2>3, <3>1, ActiveKept DEF Plan, procs
    <3>2. CASE ~Plan(p)
      <4>1. CASE Exit(p)
        <5>1. pc'[p] = "idle"  BY <2>3, <4>1, ExitKeepsTypes
        <5>2. QED  BY <1>s, <2>3, <5>1 DEF Reading, Activating
      <4>2. CASE ~Exit(p)
        <5>1. \E l \in {"check", "intent", "post", "answered", "no_id", "raised"} : Goto(p, l)
          BY <1>1, <3>2, <4>2
             DEF ExecutorStep, Submit, Execute, Check, Intent, Post, RecordAccepted, Raised, Crash
        <5>2. pc'[p] \notin Reading
          BY <1>a, <2>3, <5>1 DEF Goto, Reading, Activating
        <5>3. QED  BY <1>s, <2>3, <5>2
      <4>3. QED  BY <4>1, <4>2
    <3>3. QED  BY <3>1, <3>2
  <2>5. QED  BY <1>k, <2>1, <2>2, <2>4
<1>2. ASSUME NEW p \in Reconciler, ReconcilerStep(p)
      PROVE  KeysFilled' /\ \A q \in Proc : ActiveOf(q)'
  <2>0. p \in Proc  BY DEF Proc
  <2>1. ASSUME NEW q \in Proc, q # p PROVE ActiveOf(q)'
    BY <1>2, <2>1, ReconcilerWrites, ActiveKept
  <2>2. ASSUME Exit(p) PROVE ActiveOf(p)'
    <3>1. pc'[p] = "idle"  BY <2>0, <2>2, ExitKeepsTypes
    <3>2. QED  BY <1>s, <2>0, <3>1 DEF Reading, Activating
  <2>3. CASE \E d \in Decision : ReadAttempts(p, d)
    <3>1. PICK d \in Decision : ReadAttempts(p, d)  BY <2>3
    <3>2. /\ pc'[p] = "pending" /\ on'[p] = d /\ rows'[p] = AcceptedOf(d)
          /\ AcceptedOf(d) # {} /\ accepted' = accepted /\ kv' = kv
      <4>1. on \in [Proc -> Decision \cup {None}] /\ rows \in [Proc -> SUBSET accepted]
        BY DEF TypeInv, TypeOK, RowsAreAccepted
      <4>2. QED  BY <1>a, <2>0, <3>1, <4>1 DEF ReadAttempts, Goto, journal
    <3>3. ActiveOf(p)'
      BY <3>2 DEF ActiveOf, AcceptedOf, Activating
    <3>4. QED  BY <1>k, <2>1, <3>2, <3>3
  <2>4. CASE ReadPending(p)
    <3>1. /\ pc[p] = "pending" /\ pc'[p] = "history" /\ on' = on /\ rows' = rows /\ kv' = kv
      BY <1>a, <2>0, <2>4 DEF ReadPending, Goto, journal
    <3>2. ActiveOf(p)'
      BY <2>0, <3>1, ActiveKept DEF Reading, Activating
    <3>3. QED  BY <1>k, <2>1, <3>1, <3>2
  <2>5. CASE ReadHistory(p)
    <3>1. kv' = kv /\ pc[p] = "history" /\ accepted' = accepted /\ order' = order
      BY <2>5 DEF ReadHistory, outside
    <3>2. CASE Exit(p)  BY <1>k, <2>1, <2>2, <3>1, <3>2
    <3>3. CASE ~Exit(p)
      <4>1. PICK shown \in SUBSET {a.o : a \in rows[p]} :
              /\ {State(a, pend[p], shown) : a \in rows[p]} = {"FILLED"}
              /\ Goto(p, "membership") /\ UNCHANGED <<on, rows>>
        BY <2>5, <3>3 DEF ReadHistory
      <4>2. \A a \in rows[p] : State(a, pend[p], shown) = "FILLED"  BY <4>1
      <4>3. \A a \in rows[p] : a.id # None /\ order[a.o] = "FILLED"
        BY <4>2 DEF State
      <4>4. rows[p] # {} /\ rows[p] \subseteq AcceptedOf(on[p])
        BY <2>0, <3>1 DEF ActiveOf, Reading
      <4>5. ActiveOf(p)'
        BY <3>1, <4>1, <4>3, <4>4 DEF ActiveOf, AcceptedOf
      <4>6. QED  BY <1>k, <2>1, <3>1, <4>5
    <3>4. QED  BY <3>2, <3>3
  <2>6. CASE Activate(p)
    <3>1. CASE Exit(p) /\ kv' = kv  BY <1>k, <2>1, <2>2, <3>1
    <3>2. ASSUME NEW key \in Key, NEW l \in Activating, SetKey(p, key, l), pc[p] \in Activating
          PROVE  KeysFilled' /\ \A q \in Proc : ActiveOf(q)'
      <4>1. /\ kv' = [kv EXCEPT ![key] = on[p]] /\ pc'[p] = l
            /\ UNCHANGED <<on, rows, accepted, order>>
        BY <1>a, <2>0, <3>2 DEF SetKey, Goto, outside
      <4>2. ActiveOf(p)'
        BY <2>0, <3>2, <4>1, ActiveKept DEF Reading
      <4>3. rows[p] # {} /\ rows[p] \subseteq AcceptedOf(on[p])
            /\ \A a \in rows[p] : order[a.o] = "FILLED"
        BY <2>0, <3>2 DEF ActiveOf, Reading
      <4>4. KeysFilled'
        <5>1. \E a \in AcceptedOf(on[p]) : order[a.o] = "FILLED"  BY <4>3
        <5>2. \A k \in Key : kv'[k] = kv[k] \/ kv'[k] = on[p]  BY <1>a, <4>1
        <5>3. ASSUME NEW k \in Key, kv'[k] # None
              PROVE  \E a \in AcceptedOf(kv[k])' : order'[a.o] = "FILLED"
          <6>1. AcceptedOf(kv[k])' = AcceptedOf(kv'[k])  BY <4>1 DEF AcceptedOf
          <6>2. CASE kv'[k] = kv[k]  BY <4>1, <5>3, <6>1, <6>2 DEF KeysFilled
          <6>3. CASE kv'[k] = on[p]  BY <4>1, <5>1, <6>1, <6>3
          <6>4. QED  BY <5>2, <6>2, <6>3
        <5>4. QED  BY <5>3 DEF KeysFilled
      <4>5. QED  BY <2>1, <4>2, <4>4
    <3>3. QED
      BY <2>6, <3>1, <3>2 DEF Activate, Key, Activating
  <2>7. CASE Crash(p)  BY <1>k, <2>1, <2>2, <2>7 DEF Crash, journal
  <2>8. QED
    BY <1>2, <2>3, <2>4, <2>5, <2>6, <2>7 DEF ReconcilerStep, Reconcile
<1>3. CASE (\E o \in Order : Trade(o)) \/ Close
  <2>1. UNCHANGED <<kv, pc, on, rows>>  BY <1>3 DEF Trade, Close, journal, procs
  <2>2. QED  BY <1>k, <2>1, ActiveKept
<1>4. QED  BY <1>1, <1>2, <1>3, NextCases

\* What is active was bought, as far as the reconciliation had read it, and its
\* orders stay filled, with one execute-demo at a time and any number of
\* reconcile beside it.
THEOREM WhatIsActiveWasBought == OneExecutor => (Spec => []ActiveIsFilled)
<1> SUFFICES ASSUME OneExecutor PROVE Spec => []ActiveIsFilled
  OBVIOUS
<1>1. Init => ActiveInv
  BY DEF Init, ActiveInv, ActiveIsFilled, RowsAreOfDecision, Reading, Activating, Key
<1>2. TypeInv /\ PostInv /\ ActiveInv /\ [Next]_vars => ActiveInv'
  <2> SUFFICES ASSUME TypeInv, PostInv, ActiveInv, [Next]_vars PROVE ActiveInv'
    OBVIOUS
  <2>1. CASE Next
    <3>1. KeysFilled' /\ \A p \in Proc : ActiveOf(p)'
      BY <2>1, ActiveOfEach, ActiveStep
    <3>2. QED
      BY <3>1 DEF ActiveInv, ActiveIsFilled, RowsAreOfDecision, KeysFilled, ActiveOf, Activating
  <2>2. CASE UNCHANGED vars
    BY <2>2 DEF vars, journal, outside, procs, ActiveInv, ActiveIsFilled,
                RowsAreOfDecision, AcceptedOf
  <2>3. QED  BY <2>1, <2>2
<1>3. ActiveInv => ActiveIsFilled  BY DEF ActiveInv
<1>4. QED  BY <1>1, <1>2, <1>3, AlwaysTyped, PostInvariant, PTL DEF Spec

-----------------------------------------------------------------------------
(* One reconcile at a time: an activation is whole *)

OneReconciler == \A p, q \in Reconciler : p = q

WholeSoFar ==
  \A p \in Reconciler :
    /\ pc[p] \in {"overlay", "mix", "status"} => kv["active_membership"] = on[p]
    /\ pc[p] \in {"mix", "status"} => kv["active_overlay"] = on[p]
    /\ pc[p] = "status" => kv["sp2_mix"] = on[p] \/ on[p] \in AllVuaa

LEMMA WholeStep ==
  ASSUME OneReconciler, TypeInv, WholeSoFar, Next
  PROVE  WholeSoFar'
<1>a. pc \in [Proc -> Label] /\ kv \in [Key -> Decision \cup {None}]
  BY DEF TypeInv, TypeOK
<1>1. ASSUME NEW p \in Executor, ExecutorStep(p) PROVE WholeSoFar'
  <2>1. \A q \in Reconciler : q \in Proc /\ q # p  BY ConstantsAssumption DEF Proc
  <2>2. QED  BY <1>1, <2>1, SubmitterWrites DEF WholeSoFar
<1>2. ASSUME NEW p \in Reconciler, ReconcilerStep(p) PROVE WholeSoFar'
  <2>0. p \in Proc /\ \A q \in Reconciler : q = p  BY DEF Proc, OneReconciler
  <2>1. ASSUME Exit(p) PROVE WholeSoFar'
    <3>1. pc'[p] = "idle"  BY <2>0, <2>1, ExitKeepsTypes
    <3>2. QED  BY <2>0, <3>1 DEF WholeSoFar
  <2>2. ASSUME NEW l \in {"pending", "history", "membership"}, Goto(p, l) PROVE WholeSoFar'
    <3>1. pc'[p] = l  BY <1>a, <2>0, <2>2 DEF Goto
    <3>2. QED  BY <2>0, <3>1 DEF WholeSoFar
  <2>3. CASE (\E d \in Decision : ReadAttempts(p, d)) \/ ReadPending(p)
    BY <2>2, <2>3 DEF ReadAttempts, ReadPending
  <2>4. CASE ReadHistory(p)  BY <2>1, <2>2, <2>4 DEF ReadHistory
  <2>5. CASE Activate(p)
    <3>1. CASE Exit(p)  BY <2>1, <3>1
    <3>2. ASSUME NEW key \in Key, NEW l \in Activating, SetKey(p, key, l)
          PROVE  /\ kv' = [kv EXCEPT ![key] = on[p]] /\ pc'[p] = l /\ on' = on
                 /\ \A k \in Key : k # key => kv'[k] = kv[k]
                 /\ kv'[key] = on[p]
      BY <1>a, <2>0, <3>2 DEF SetKey, Goto
    <3>3. CASE pc[p] = "membership" /\ SetKey(p, "active_membership", "overlay")
      <4>1. kv'["active_membership"] = on[p] /\ pc'[p] = "overlay" /\ on' = on
        BY <3>2, <3>3 DEF Key, Activating
      <4>2. QED  BY <2>0, <4>1 DEF WholeSoFar
    <3>4. CASE /\ pc[p] = "overlay"
               /\ SetKey(p, "active_overlay", IF on[p] \in AllVuaa THEN "status" ELSE "mix")
      <4>1. /\ kv'["active_overlay"] = on[p] /\ on' = on
            /\ kv'["active_membership"] = kv["active_membership"]
            /\ pc'[p] = IF on[p] \in AllVuaa THEN "status" ELSE "mix"
        BY <3>2, <3>4 DEF Key, Activating
      <4>2. QED  BY <2>0, <3>4, <4>1 DEF WholeSoFar
    <3>5. CASE pc[p] = "mix" /\ SetKey(p, "sp2_mix", "status")
      <4>1. /\ kv'["sp2_mix"] = on[p] /\ on' = on /\ pc'[p] = "status"
            /\ kv'["active_membership"] = kv["active_membership"]
            /\ kv'["active_overlay"] = kv["active_overlay"]
        BY <3>2, <3>5 DEF Key, Activating
      <4>2. QED  BY <2>0, <3>5, <4>1 DEF WholeSoFar
    <3>6. QED  BY <2>5, <3>1, <3>3, <3>4, <3>5 DEF Activate
  <2>6. CASE Crash(p)  BY <2>1, <2>6 DEF Crash
  <2>7. QED
    BY <1>2, <2>3, <2>4, <2>5, <2>6 DEF ReconcilerStep, Reconcile
<1>3. CASE (\E o \in Order : Trade(o)) \/ Close
  <2>1. UNCHANGED <<kv, pc, on>>  BY <1>3 DEF Trade, Close, journal, procs
  <2>2. QED  BY <2>1 DEF WholeSoFar
<1>4. QED  BY <1>1, <1>2, <1>3, NextCases

LEMMA WholeInvariant == OneReconciler => (Spec => []WholeSoFar)
<1> SUFFICES ASSUME OneReconciler PROVE Spec => []WholeSoFar
  OBVIOUS
<1>1. Init => WholeSoFar  BY DEF Init, WholeSoFar, Proc
<1>2. TypeInv /\ WholeSoFar /\ [Next]_vars => WholeSoFar'
  <2>1. CASE UNCHANGED vars
    BY <2>1 DEF vars, journal, procs, WholeSoFar
  <2>2. QED  BY <2>1, WholeStep
<1>3. QED  BY <1>1, <1>2, AlwaysTyped, PTL DEF Spec

\* A decision becomes RECONCILED_FILLED only once all its keys are the active
\* ones, wherever a process dies, with one reconcile at a time.
THEOREM ActivationIsWhole == OneReconciler => (Spec => ReconciledIsActive)
<1> SUFFICES ASSUME OneReconciler PROVE Spec => ReconciledIsActive
  OBVIOUS
<1>1. ASSUME TypeInv, WholeSoFar, Next, NEW d \in Decision, decision'[d] # None,
             decision'[d].status = "RECONCILED_FILLED",
             decision[d].status # "RECONCILED_FILLED"
      PROVE  \A k \in Key : kv'[k] = d \/ (k = "sp2_mix" /\ d \in AllVuaa)
  <2>0. decision \in [Decision -> {None} \cup DecisionRow]  BY <1>1 DEF TypeInv, TypeOK
  <2>1. ASSUME NEW p \in Proc, pc[p] # "idle", NEW s \in Status, SetStatus(on[p], s)
        PROVE  on[p] = d /\ s = "RECONCILED_FILLED"
    <3>1. on[p] \in Decision /\ decision[on[p]] # None
      BY <1>1, <2>1 DEF TypeInv, WorksOnPlanned
    <3>2. QED  BY <1>1, <2>0, <2>1, <3>1, StatusKeepsTypes
  <2>2. decision' # decision  BY <1>1
  <2>3. PICK p \in Proc : Submit(p) \/ (p \in Reconciler /\ Reconcile(p))
    BY <1>1, <2>2 DEF Next, Trade, Close, Crash, journal, Proc
  <2>4. CASE Plan(p)
    BY <1>1, <2>0, <2>4 DEF Plan
  <2>5. CASE pc[p] = "status" /\ p \in Reconciler
             /\ SetStatus(on[p], "RECONCILED_FILLED") /\ kv' = kv
    <3>1. on[p] = d  BY <2>1, <2>5 DEF Status
    <3>2. QED  BY <1>1, <2>5, <3>1 DEF WholeSoFar, Key
  <2>6. CASE /\ pc[p] # "idle"
             /\ \E s \in Status \ {"RECONCILED_FILLED"} : SetStatus(on[p], s)
    BY <2>1, <2>6
  <2>7. CASE Check(p) \/ Intent(p) \/ Raised(p)
    BY <2>2, <2>6, <2>7 DEF Check, Intent, Raised, Status
  <2>8. CASE ReadHistory(p)
    BY <2>2, <2>6, <2>8 DEF ReadHistory, Status
  <2>9. CASE Activate(p) /\ p \in Reconciler
    BY <2>2, <2>5, <2>9 DEF Activate, SetKey
  <2>10. QED
    BY <2>2, <2>3, <2>4, <2>7, <2>8, <2>9
       DEF Submit, Reconcile, Execute, Post, RecordAccepted, ReadAttempts, ReadPending, journal
<1>2. TypeInv /\ WholeSoFar /\ [Next]_vars =>
        [\A d \in Decision :
           /\ decision'[d] # None /\ decision'[d].status = "RECONCILED_FILLED"
           /\ decision[d].status # "RECONCILED_FILLED"
           => \A k \in Key : kv'[k] = d \/ (k = "sp2_mix" /\ d \in AllVuaa)]_vars
  BY <1>1
<1>3. QED  BY <1>2, AlwaysTyped, WholeInvariant, PTL DEF Spec, ReconciledIsActive
=============================================================================
