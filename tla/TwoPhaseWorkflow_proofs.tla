----------------------- MODULE TwoPhaseWorkflow_proofs -----------------------
(***************************************************************************)
(* Theorems about TwoPhaseWorkflow, for every set of processes and legs,   *)
(* every order size, price range, opening cash and number of crashes.      *)
(*                                                                         *)
(* The second part shows that it implements RebalanceContract: the books   *)
(* of the broker, of the readers and of the ledger agree (ContractInv),    *)
(* and with them every step is a step of the contract or leaves it alone.  *)
(* The third is about one process at a time (SerialInv): what recovery     *)
(* finds, what a completed workflow leaves, and that nothing follows it.   *)
(***************************************************************************)
EXTENDS TwoPhaseWorkflow, FiniteSums, TLAPS

-----------------------------------------------------------------------------
(* What the helpers of the handlers preserve *)

\* A blank reading has the type of a reading.
LEMMA BlankType == Blank \in SeenType
<1>1. Qty \in Nat /\ 0 \in 0..Qty  BY ConstantsAssumption
<1>2. QED  BY <1>1 DEF Blank, SeenType, SeenState, SeenVerdict

\* Ending an invocation, or moving its control point, keeps the locals typed.
LEMMA ExitType ==
  ASSUME ProcsType, NEW p \in Proc, Exit(p)
  PROVE  ProcsType'
<1>1. pc' \in [Proc -> Label] /\ cand' \in [Proc -> SUBSET Leg]
  BY DEF ProcsType, Exit, Label
<1>2. cur' \in [Proc -> Leg \cup {NoLeg}] /\ seen' \in [Proc -> SeenType]
  BY BlankType DEF ProcsType, Exit
<1>3. lock' \in Proc \cup {NoProc} /\ crashes' \in 0..CrashBudget
  BY DEF ProcsType, Exit
<1>4. QED  BY <1>1, <1>2, <1>3 DEF ProcsType

LEMMA GotoType ==
  ASSUME ProcsType, NEW p \in Proc, NEW label \in Label, Goto(p, label)
  PROVE  ProcsType'
BY DEF ProcsType, Goto

\* An execution-state write keeps the execution state and the keys typed.
LEMMA SetExecType ==
  ASSUME WorkflowType, NEW key \in EventKey, NEW to \in ExecutionState,
         SetExec(key, to)
  PROVE  exec' \in ExecutionState /\ keys' \subseteq EventKey
BY DEF WorkflowType, SetExec

LEMMA RequireReconciliationType ==
  ASSUME WorkflowType, CapitalType, BrokerType, RequireReconciliation
  PROVE  WorkflowType' /\ CapitalType' /\ BrokerType'
<1>1. CASE status = "ACTIVE" /\ Ambiguous(Leg)
  <2>1. exec' \in ExecutionState /\ keys' \subseteq EventKey
    BY <1>1 DEF RequireReconciliation, WorkflowType, SetExec,
       ExecutionState, EventKey
  <2>2. QED
    BY <1>1, <2>1 DEF RequireReconciliation, WorkflowType, CapitalType,
       BrokerType, capital, broker, WorkflowStatus
<1>2. CASE ~(status = "ACTIVE" /\ Ambiguous(Leg))
  BY <1>2 DEF RequireReconciliation, WorkflowType, CapitalType, BrokerType,
     workflow, capital, broker
<1>3. QED  BY <1>1, <1>2

\* What one invocation has read and what it writes back keep their types.
LEMMA CanonicalType ==
  ASSUME NEW h, NEW b PROVE Canonical(h, b) \in SeenState \ {"NONE"}
BY DEF Canonical, SeenState

LEMMA VerdictType == ASSUME NEW p PROVE Verdict(p) \in SeenVerdict
BY DEF Verdict, SeenVerdict

LEMMA SeenStatusesType ==
  ASSUME TypeOK, ReadBeforeJudged, NEW p \in Proc, pc[p] = "mark"
  PROVE  SeenStatuses(p) \in [Leg -> LegStatus]
<1>1. seen[p] \in SeenType /\ leg \in [Leg -> LegStatus]
  BY DEF TypeOK, ProcsType, WorkflowType
<1>2. ASSUME NEW l \in Leg
      PROVE  (IF l \in seen[p].sub THEN seen[p].state[l] ELSE leg[l]) \in LegStatus
  <2>1. seen[p].state[l] \in SeenState  BY <1>1 DEF SeenType
  <2>2. l \in seen[p].sub => seen[p].state[l] # "NONE"  BY DEF ReadBeforeJudged
  <2>3. QED  BY <1>1, <2>1, <2>2 DEF SeenState, LegStatus
<1>3. QED  BY <1>2 DEF SeenStatuses

LEMMA CashDeltaType ==
  ASSUME BrokerType, NEW l \in Leg PROVE CashDelta(l) \in Int
BY DEF BrokerType, CashDelta

-----------------------------------------------------------------------------
(* Type correctness, one lemma per group of actions *)

TypeInv == TypeOK /\ OpenIsUnfinished /\ ReadBeforeJudged

\* Planning, recovery and refusal.
LEMMA PlanningType ==
  ASSUME TypeInv, NEW p \in Proc,
         \/ Classify(p) \/ PersistAmbiguous(p) \/ Refuse(p)
         \/ CreateWorkflow(p) \/ StartWorkflow(p) \/ InstallBuys(p)
  PROVE  TypeOK'
<1>0. WorkflowType /\ CapitalType /\ BrokerType /\ ProcsType  BY DEF TypeInv, TypeOK
<1>u. /\ UNCHANGED workflow => WorkflowType'
      /\ UNCHANGED capital => CapitalType'
      /\ UNCHANGED broker => BrokerType'
  BY <1>0 DEF workflow, capital, broker, WorkflowType, CapitalType, BrokerType
<1>1. CASE Classify(p)
  <2>1. RecoveryAction \in Label  BY DEF RecoveryAction, Label
  <2>2. ProcsType'
    BY <1>0, <1>1, <2>1, GotoType DEF Classify, Label
  <2>3. QED  BY <1>u, <1>1, <2>2 DEF Classify, TypeOK
<1>2. CASE PersistAmbiguous(p)
  BY <1>0, <1>2, ExitType, RequireReconciliationType DEF PersistAmbiguous, TypeOK
<1>3. CASE Refuse(p)
  BY <1>0, <1>u, <1>3, ExitType DEF Refuse, ExitWithoutEffect, TypeOK
<1>4. CASE CreateWorkflow(p)
  <2>1. CASE ExitWithoutEffect(p)
    BY <1>0, <1>u, <2>1, ExitType DEF ExitWithoutEffect, TypeOK
  <2>2. CASE Goto(p, "start") /\ UNCHANGED <<workflow, capital, broker>>
    BY <1>0, <1>u, <2>2, GotoType DEF Label, TypeOK
  <2>3. CASE status = "ABSENT" /\ exec = "IDLE"
    <3>1. ProcsType'
      BY <1>0, <1>4, <2>3, GotoType DEF CreateWorkflow, Label
    <3>2. leg' \in [Leg -> LegStatus]
      BY <1>0, <1>4, <2>3 DEF CreateWorkflow, WorkflowType, LegStatus
    <3>3. SetExec("created", "PLAN_CREATED") /\ status' = "ACTIVE" /\ phase' = "NONE"
      BY <1>4, <2>3 DEF CreateWorkflow
    <3>4. WorkflowType'
      BY <1>0, <3>2, <3>3 DEF SetExec, WorkflowType, WorkflowStatus,
         ExecutionState, EventKey
    <3>5. QED  BY <1>4, <1>u, <2>3, <3>1, <3>4 DEF CreateWorkflow, TypeOK
  <2>4. QED  BY <1>4, <2>1, <2>2, <2>3 DEF CreateWorkflow
<1>5. CASE StartWorkflow(p)
  <2>1. ProcsType'  BY <1>0, <1>5, ExitType DEF StartWorkflow
  <2>2. WorkflowType'
    BY <1>0, <1>5 DEF StartWorkflow, SetExec, WorkflowType, ExecutionState, EventKey
  <2>3. QED  BY <1>5, <1>u, <2>1, <2>2 DEF StartWorkflow, TypeOK
<1>6. CASE InstallBuys(p)
  <2>1. ProcsType'  BY <1>0, <1>6, ExitType DEF InstallBuys
  <2>2. CASE UNCHANGED workflow
    BY <1>6, <1>u, <2>1, <2>2 DEF InstallBuys, TypeOK
  <2>3. CASE /\ status' = "COMPLETE" /\ UNCHANGED <<phase, leg>>
             /\ SetExec("no-buy-complete", "IDLE")
    <3>1. WorkflowType'
      BY <1>0, <2>3 DEF SetExec, WorkflowType, WorkflowStatus, ExecutionState, EventKey
    <3>2. QED  BY <1>6, <1>u, <2>1, <3>1 DEF InstallBuys, TypeOK
  <2>4. CASE /\ \E B \in SUBSET BuyLeg :
                  leg' = [l \in Leg |-> IF l \in B THEN "PLANNED" ELSE leg[l]]
             /\ phase' = "BUY" /\ UNCHANGED status
             /\ SetExec("buy-installed", "BUY_PENDING")
    <3>1. leg' \in [Leg -> LegStatus]  BY <1>0, <2>4 DEF WorkflowType, LegStatus
    <3>2. WorkflowType'
      BY <1>0, <2>4, <3>1 DEF SetExec, WorkflowType, ExecutionState, EventKey
    <3>3. QED  BY <1>6, <1>u, <2>1, <3>2 DEF InstallBuys, TypeOK
  <2>5. QED  BY <1>6, <2>2, <2>3, <2>4 DEF InstallBuys
<1>7. QED  BY <1>1, <1>2, <1>3, <1>4, <1>5, <1>6

\* Submission.
LEMMA SubmitType == ASSUME TypeInv, NEW p \in Proc, Submit(p) PROVE TypeOK'
<1>0. WorkflowType /\ CapitalType /\ BrokerType /\ ProcsType  BY DEF TypeInv, TypeOK
<1>u. /\ UNCHANGED workflow => WorkflowType'
      /\ UNCHANGED capital => CapitalType'
      /\ UNCHANGED broker => BrokerType'
  BY <1>0 DEF workflow, capital, broker, WorkflowType, CapitalType, BrokerType
<1>x. ExitWithoutEffect(p) => TypeOK'
  BY <1>0, <1>u, ExitType DEF ExitWithoutEffect, TypeOK
<1>1. CASE AcquireLock(p)
  <2>1. CASE ~stale /\ lock = NoProc
    <3>1. ProcsType'  BY <1>0, <1>1, <2>1 DEF AcquireLock, ProcsType, Label
    <3>2. QED  BY <1>1, <1>u, <2>1, <3>1 DEF AcquireLock, TypeOK
  <2>2. QED  BY <1>1, <1>x, <2>1 DEF AcquireLock
<1>2. CASE ReadSubmission(p)
  <2>1. CASE Goto(p, "unsure") /\ UNCHANGED <<workflow, capital, broker>>
    BY <1>0, <1>u, <2>1, GotoType DEF Label, TypeOK
  <2>2. CASE /\ pc' = [pc EXCEPT ![p] = "intent"]
             /\ cand' = [cand EXCEPT ![p] = Candidates]
             /\ UNCHANGED <<cur, seen, lock, crashes, workflow, capital, broker>>
    <3>1. Candidates \subseteq Leg
      BY DEF Candidates, InStatus, Rows, PhaseSide, First, Leg
    <3>2. ProcsType'  BY <1>0, <2>2, <3>1 DEF ProcsType, Label
    <3>3. QED  BY <1>u, <2>2, <3>2 DEF TypeOK
  <2>3. QED  BY <1>2, <1>x, <2>1, <2>2 DEF ReadSubmission
<1>3. CASE RecordIntent(p)
  <2>1. PICK l \in First(cand[p]) :
          IF /\ leg[l] \in {"PLANNED", "INTENT_RECORDED"}
             /\ phase = (IF l \in SellLeg THEN "SELL" ELSE "BUY")
            THEN /\ leg' = [leg EXCEPT ![l] = "INTENT_RECORDED"]
                 /\ cur' = [cur EXCEPT ![p] = l]
                 /\ pc' = [pc EXCEPT ![p] = "post"]
                 /\ UNCHANGED <<status, phase, exec, keys, cand, seen, lock, crashes>>
            ELSE UNCHANGED workflow /\ Exit(p)
    BY <1>3 DEF RecordIntent
  <2>2. l \in Leg  BY <1>0, <2>1 DEF First, ProcsType
  <2>3. CASE /\ leg[l] \in {"PLANNED", "INTENT_RECORDED"}
             /\ phase = (IF l \in SellLeg THEN "SELL" ELSE "BUY")
    <3>1. WorkflowType'  BY <1>0, <2>1, <2>3 DEF WorkflowType, LegStatus
    <3>2. ProcsType'  BY <1>0, <2>1, <2>2, <2>3 DEF ProcsType, Label
    <3>3. QED  BY <1>3, <1>u, <3>1, <3>2 DEF RecordIntent, TypeOK
  <2>4. CASE UNCHANGED workflow /\ Exit(p)
    BY <1>0, <1>3, <1>u, <2>4, ExitType DEF RecordIntent, TypeOK
  <2>5. QED  BY <2>1, <2>3, <2>4
<1>4. ASSUME NewOrder(cur[p]) PROVE BrokerType'
  <2>1. PICK x \in Price : price' = [price EXCEPT ![cur[p]] = x]
    BY <1>4 DEF NewOrder
  <2>2. x \in Nat /\ 0 \in 0..Qty  BY ConstantsAssumption
  <2>3. posts' \in [Leg -> Nat] /\ price' \in [Leg -> Nat]
    <3>1. price' \in [Leg -> Nat]  BY <1>0, <2>1, <2>2 DEF BrokerType
    <3>2. posts \in [Leg -> Nat]  BY <1>0 DEF BrokerType
    <3>3. posts' = [posts EXCEPT ![cur[p]] = posts[cur[p]] + 1]
      BY <1>4 DEF NewOrder
    <3> DEFINE c == cur[p]  n == posts[c] + 1
    <3>4. c \in Leg => n \in Nat  BY <3>2
    <3>5. posts' = [posts EXCEPT ![c] = n]  BY <3>3
    <3> HIDE DEF c, n
    <3>6. posts' \in [Leg -> Nat]  BY <3>2, <3>4, <3>5
    <3>7. QED  BY <3>1, <3>6
  <2>4. /\ order' \in [Leg -> OrderStatus] /\ filled' \in [Leg -> 0..Qty]
        /\ stale' \in BOOLEAN
    BY <1>0, <1>4, <2>2 DEF NewOrder, BrokerType, OrderStatus
  <2>5. hist' \in [Leg -> [st: OrderStatus, n: 0..Qty]]
    BY <1>0, <1>4, <2>2 DEF NewOrder, BrokerType, OrderStatus
  <2>6. QED  BY <2>3, <2>4, <2>5 DEF BrokerType
<1>5. CASE PostAccepted(p) \/ PostReplyLost(p)
  <2>1. BrokerType'  BY <1>4, <1>5 DEF PostAccepted, PostReplyLost
  <2>2. ProcsType'
    BY <1>0, <1>5, GotoType DEF PostAccepted, PostReplyLost, Label
  <2>3. QED  BY <1>5, <1>u, <2>1, <2>2 DEF PostAccepted, PostReplyLost, TypeOK
<1>6. CASE PostRefused(p)
  BY <1>0, <1>6, <1>u, GotoType DEF PostRefused, Label, TypeOK
<1>7. CASE PostFailed(p)
  BY <1>0, <1>7, ExitType, RequireReconciliationType DEF PostFailed, TypeOK
<1>8. CASE RecordAcceptance(p)
  <2>1. WorkflowType'
    BY <1>0, <1>8 DEF RecordAcceptance, WorkflowType, LegStatus
  <2>2. ProcsType'
    <3>1. CASE Exit(p)  BY <1>0, <3>1, ExitType
    <3>2. CASE /\ cand' = [cand EXCEPT ![p] = @ \ {cur[p]}]
               /\ cur' = [cur EXCEPT ![p] = NoLeg]
               /\ pc' = [pc EXCEPT ![p] = "intent"]
               /\ UNCHANGED <<seen, lock, crashes>>
      BY <1>0, <3>2 DEF ProcsType, Label
    <3>3. QED  BY <1>8, <3>1, <3>2 DEF RecordAcceptance
  <2>3. QED  BY <1>8, <1>u, <2>1, <2>2 DEF RecordAcceptance, TypeOK
<1>9. QED  BY <1>1, <1>2, <1>3, <1>5, <1>6, <1>7, <1>8 DEF Submit

\* Reconciliation.
LEMMA ReconcileType == ASSUME TypeInv, NEW p \in Proc, Reconcile(p) PROVE TypeOK'
<1>0. WorkflowType /\ CapitalType /\ BrokerType /\ ProcsType  BY DEF TypeInv, TypeOK
<1>s. seen[p] \in SeenType  BY <1>0 DEF ProcsType
<1>u. /\ UNCHANGED workflow => WorkflowType'
      /\ UNCHANGED capital => CapitalType'
      /\ UNCHANGED broker => BrokerType'
  BY <1>0 DEF workflow, capital, broker, WorkflowType, CapitalType, BrokerType
<1>1. CASE BeginReconcile(p)
  <2> DEFINE sub == Rows(PhaseSide) \ InStatus(PhaseSide, {"PLANNED"})
             reading == [Blank EXCEPT !.phase = phase, !.sub = sub,
                                      !.pending = {l \in sub : order[l] = "OPEN"}]
  <2>1. CASE Exit(p)
    BY <1>0, <1>1, <1>u, <2>1, ExitType DEF BeginReconcile, TypeOK
  <2>2. CASE /\ phase \in {"SELL", "BUY"}
             /\ seen' = [seen EXCEPT ![p] = reading]
             /\ pc' = [pc EXCEPT ![p] = "history"]
             /\ UNCHANGED <<cand, cur, lock, crashes>>
    <3>1. sub \subseteq Leg  BY DEF Rows, PhaseSide, Leg
    <3>2. {l \in sub : order[l] = "OPEN"} \subseteq Leg  BY <3>1
    <3> HIDE DEF sub
    <3>3. reading \in SeenType  BY <2>2, <3>1, <3>2, BlankType DEF SeenType
    <3> HIDE DEF reading
    <3>4. ProcsType'  BY <1>0, <2>2, <3>3 DEF ProcsType, Label
    <3>5. QED  BY <1>1, <1>u, <3>4 DEF BeginReconcile, TypeOK
  <2>3. QED  BY <1>1, <2>1, <2>2 DEF BeginReconcile
<1>2. CASE ReadHistory(p)
  <2> DEFINE state == [l \in Leg |-> IF l \in seen[p].sub
                         THEN Canonical(hist[l], l \in seen[p].pending)
                         ELSE "NONE"]
             fills == [l \in Leg |-> IF l \in seen[p].sub THEN hist[l].n ELSE 0]
  <2>1. state \in [Leg -> SeenState]  BY CanonicalType DEF SeenState
  <2>2. fills \in [Leg -> 0..Qty]
    BY <1>0, ConstantsAssumption DEF BrokerType
  <2>3. seen' = [seen EXCEPT ![p] = [seen[p] EXCEPT !.state = state, !.fills = fills]]
    BY <1>0, <1>2 DEF ReadHistory, ProcsType
  <2> HIDE DEF state, fills
  <2>4. [seen[p] EXCEPT !.state = state, !.fills = fills] \in SeenType
    BY <1>s, <2>1, <2>2 DEF SeenType
  <2>5. ProcsType'
    BY <1>0, <1>2, <2>3, <2>4 DEF ReadHistory, ProcsType, Label
  <2>6. QED  BY <1>2, <1>u, <2>5 DEF ReadHistory, TypeOK
<1>3. CASE ApplyFill(p)
  <2>1. PICK f \in Unapplied(p) : /\ ledger' = ledger \cup {f}
                                  /\ cash' = cash + CashDelta(f[1])
    BY <1>3 DEF ApplyFill
  <2>2. f \in Leg \X (1..Qty) /\ f[1] \in Leg  BY <2>1 DEF Unapplied
  <2>3. CapitalType'
    BY <1>0, <2>1, <2>2, CashDeltaType DEF CapitalType
  <2>4. ProcsType'
    BY <1>0, <1>3 DEF ApplyFill, procs, ProcsType
  <2>5. QED  BY <1>3, <1>u, <2>3, <2>4 DEF ApplyFill, TypeOK
<1>4. CASE Judge(p)
  <2>1. CASE Exit(p)
    BY <1>0, <1>4, <1>u, <2>1, ExitType DEF Judge, TypeOK
  <2>2. CASE /\ seen' = [seen EXCEPT ![p].verdict = Verdict(p)]
             /\ pc' = [pc EXCEPT ![p] = "mark"]
             /\ UNCHANGED <<cand, cur, lock, crashes>>
    <3>1. [seen[p] EXCEPT !.verdict = Verdict(p)] \in SeenType
      BY <1>s, VerdictType DEF SeenType
    <3>2. ProcsType'
      BY <1>0, <2>2, <3>1 DEF ProcsType, Label
    <3>3. QED  BY <1>4, <1>u, <3>2 DEF Judge, TypeOK
  <2>3. QED  BY <1>4, <2>1, <2>2 DEF Judge
<1>5. ASSUME pc[p] = "mark" PROVE SeenStatuses(p) \in [Leg -> LegStatus]
  BY <1>5, SeenStatusesType DEF TypeInv
<1>6. CASE MarkSell(p)
  <2>1. ProcsType'  BY <1>0, <1>6, ExitType DEF MarkSell
  <2>2. CASE UNCHANGED workflow
    BY <1>6, <1>u, <2>1, <2>2 DEF MarkSell, TypeOK
  <2>3. CASE leg' = SeenStatuses(p) /\ ~UNCHANGED workflow
    <3>1. WorkflowType'
      BY <1>0, <1>5, <1>6, <2>3 DEF MarkSell, Stop, Stay, SetExec, WorkflowType,
         WorkflowStatus, ExecutionState, EventKey
    <3>2. QED  BY <1>6, <1>u, <2>1, <3>1 DEF MarkSell, TypeOK
  <2>4. QED  BY <1>6, <2>2, <2>3 DEF MarkSell
<1>7. CASE PersistBuyProgress(p)
  <2>1. ProcsType'  BY <1>0, <1>7, ExitType DEF PersistBuyProgress
  <2>2. CASE UNCHANGED workflow
    BY <1>7, <1>u, <2>1, <2>2 DEF PersistBuyProgress, TypeOK
  <2>3. CASE leg' = SeenStatuses(p) /\ ~UNCHANGED workflow
    <3>1. WorkflowType'
      BY <1>0, <1>5, <1>7, <2>3 DEF PersistBuyProgress, Stop, Stay, SetExec,
         WorkflowType, WorkflowStatus, ExecutionState, EventKey
    <3>2. QED  BY <1>7, <1>u, <2>1, <3>1 DEF PersistBuyProgress, TypeOK
  <2>4. QED  BY <1>7, <2>2, <2>3 DEF PersistBuyProgress
<1>8. CASE MarkBuyComplete(p)
  <2>1. ProcsType'  BY <1>0, <1>8, ExitType DEF MarkBuyComplete
  <2>2. WorkflowType'
    BY <1>0, <1>u, <1>8 DEF MarkBuyComplete, SetExec, WorkflowType, LegStatus,
       WorkflowStatus, ExecutionState, EventKey
  <2>3. QED  BY <1>8, <1>u, <2>1, <2>2 DEF MarkBuyComplete, TypeOK
<1>9. QED  BY <1>1, <1>2, <1>3, <1>4, <1>6, <1>7, <1>8 DEF Reconcile

\* The broker's own steps and the death of a process.
LEMMA EnvironmentType ==
  ASSUME TypeInv,
         \/ \E p \in Proc : Crash(p)
         \/ \E l \in Leg : Trade(l) \/ ShowHistory(l)
         \/ NewClose
  PROVE  TypeOK'
<1>0. WorkflowType /\ CapitalType /\ BrokerType /\ ProcsType  BY DEF TypeInv, TypeOK
<1>u. /\ UNCHANGED workflow => WorkflowType'
      /\ UNCHANGED capital => CapitalType'
      /\ UNCHANGED broker => BrokerType'
      /\ UNCHANGED procs => ProcsType'
  BY <1>0 DEF workflow, capital, broker, procs, WorkflowType, CapitalType,
     BrokerType, ProcsType
<1>1. ASSUME NEW p \in Proc, Crash(p) PROVE TypeOK'
  <2>1. pc' \in [Proc -> Label] /\ cand' \in [Proc -> SUBSET Leg]
    BY <1>0, <1>1 DEF Crash, ProcsType, Label
  <2>2. cur' \in [Proc -> Leg \cup {NoLeg}] /\ seen' \in [Proc -> SeenType]
    BY <1>0, <1>1, BlankType DEF Crash, ProcsType
  <2>3. lock' \in Proc \cup {NoProc} /\ crashes' \in 0..CrashBudget
    BY <1>0, <1>1, ConstantsAssumption DEF Crash, ProcsType
  <2>4. QED  BY <1>1, <1>u, <2>1, <2>2, <2>3 DEF Crash, ProcsType, TypeOK
<1>2. ASSUME NEW l \in Leg, NEW st \in OrderStatus, NEW n \in 0..Qty, Publish(l, st, n)
      PROVE  hist' \in [Leg -> [st: OrderStatus, n: 0..Qty]]
  BY <1>0, <1>2 DEF Publish, BrokerType
<1>3. ASSUME NEW l \in Leg, FillUnit(l) PROVE TypeOK'
  <2> DEFINE st == IF filled[l] + 1 = Qty THEN "FILLED" ELSE "OPEN"
  <2>1. filled[l] + 1 \in 0..Qty
    BY <1>0, <1>3, ConstantsAssumption
    DEF FillUnit, TypeInv, OpenIsUnfinished, BrokerType
  <2>2. st \in OrderStatus  BY DEF OrderStatus
  <2>3. filled' \in [Leg -> 0..Qty]  BY <1>0, <1>3, <2>1 DEF FillUnit, BrokerType
  <2>4. order' \in [Leg -> OrderStatus]
    BY <1>0, <1>3, <2>2 DEF FillUnit, BrokerType
  <2>5. hist' \in [Leg -> [st: OrderStatus, n: 0..Qty]]
    BY <1>0, <1>2, <1>3, <2>1, <2>2 DEF FillUnit, BrokerType
  <2>6. BrokerType'  BY <1>0, <1>3, <2>3, <2>4, <2>5 DEF FillUnit, BrokerType
  <2>7. QED  BY <1>3, <1>u, <2>6 DEF FillUnit, TypeOK
<1>4. ASSUME NEW l \in Leg, Kill(l) PROVE TypeOK'
  <2>1. "DEAD" \in OrderStatus /\ filled[l] \in 0..Qty
    BY <1>0 DEF OrderStatus, BrokerType
  <2>2. order' \in [Leg -> OrderStatus]
    BY <1>0, <1>4, <2>1 DEF Kill, BrokerType
  <2>3. hist' \in [Leg -> [st: OrderStatus, n: 0..Qty]]
    BY <1>0, <1>2, <1>4, <2>1 DEF Kill, BrokerType
  <2>4. BrokerType'  BY <1>0, <1>4, <2>2, <2>3 DEF Kill, BrokerType
  <2>5. QED  BY <1>4, <1>u, <2>4 DEF Kill, TypeOK
<1>5. ASSUME NEW l \in Leg, ShowHistory(l) PROVE TypeOK'
  <2>1. order[l] \in OrderStatus /\ filled[l] \in 0..Qty  BY <1>0 DEF BrokerType
  <2>2. hist' \in [Leg -> [st: OrderStatus, n: 0..Qty]]
    BY <1>2, <1>5, <2>1 DEF ShowHistory
  <2>3. BrokerType'  BY <1>0, <1>5, <2>2 DEF ShowHistory, BrokerType
  <2>4. QED  BY <1>5, <1>u, <2>3 DEF ShowHistory, TypeOK
<1>6. ASSUME NewClose PROVE TypeOK'
  <2>1. BrokerType'  BY <1>0, <1>6 DEF NewClose, BrokerType
  <2>2. QED  BY <1>6, <1>u, <2>1 DEF NewClose, TypeOK
<1>7. QED  BY <1>1, <1>3, <1>4, <1>5, <1>6 DEF Trade

\* An order that still works has units left to execute.
LEMMA UnfinishedStep ==
  ASSUME TypeInv, Next PROVE OpenIsUnfinished'
<1>0. BrokerType /\ OpenIsUnfinished  BY DEF TypeInv, TypeOK
<1>1. CASE UNCHANGED broker
  BY <1>0, <1>1 DEF broker, OpenIsUnfinished
<1>2. ASSUME NEW p \in Proc, NewOrder(cur[p]) PROVE OpenIsUnfinished'
  <2>1. Qty \in Nat /\ 0 < Qty  BY ConstantsAssumption
  <2>2. QED  BY <1>0, <1>2, <2>1 DEF NewOrder, OpenIsUnfinished, BrokerType
<1>3. ASSUME NEW l \in Leg, FillUnit(l) PROVE OpenIsUnfinished'
  <2>1. /\ filled' = [filled EXCEPT ![l] = filled[l] + 1]
        /\ order' = [order EXCEPT ![l] =
                       IF filled[l] + 1 = Qty THEN "FILLED" ELSE "OPEN"]
        /\ filled[l] < Qty
    BY <1>0, <1>3 DEF FillUnit, OpenIsUnfinished
  <2>2. filled[l] \in 0..Qty /\ Qty \in Nat  BY <1>0, ConstantsAssumption DEF BrokerType
  <2>3. filled[l] + 1 # Qty => filled[l] + 1 < Qty  BY <2>1, <2>2
  <2>4. ASSUME NEW m \in Leg, order'[m] = "OPEN" PROVE filled'[m] < Qty
    BY <1>0, <2>1, <2>3, <2>4 DEF OpenIsUnfinished, BrokerType
  <2>5. QED  BY <2>4 DEF OpenIsUnfinished
<1>4. ASSUME NEW l \in Leg, Kill(l) PROVE OpenIsUnfinished'
  BY <1>0, <1>4 DEF Kill, OpenIsUnfinished, BrokerType
<1>5. ASSUME NEW l \in Leg, ShowHistory(l) PROVE OpenIsUnfinished'
  BY <1>0, <1>5 DEF ShowHistory, OpenIsUnfinished
<1>6. ASSUME NEW p \in Proc, Cycle(p) \/ Refuse(p) \/ Crash(p),
             ~(PostAccepted(p) \/ PostReplyLost(p))
      PROVE  UNCHANGED broker
  <2>1. ExitWithoutEffect(p) => UNCHANGED broker  BY DEF ExitWithoutEffect
  <2>2. RequireReconciliation => UNCHANGED broker  BY DEF RequireReconciliation
  <2>3. Submit(p) => UNCHANGED broker
    BY <1>6, <2>1, <2>2 DEF Submit, AcquireLock, ReadSubmission, RecordIntent,
       PostRefused, PostFailed, RecordAcceptance
  <2>4. Reconcile(p) => UNCHANGED broker
    BY DEF Reconcile, BeginReconcile, ReadHistory, ApplyFill, Judge, MarkSell,
       PersistBuyProgress, MarkBuyComplete
  <2>5. QED
    BY <1>6, <2>1, <2>2, <2>3, <2>4 DEF Cycle, Classify, PersistAmbiguous,
       CreateWorkflow, StartWorkflow, InstallBuys, Refuse, Crash
<1>7. QED
  BY <1>0, <1>1, <1>2, <1>3, <1>4, <1>5, <1>6
  DEF Next, Trade, PostAccepted, PostReplyLost, NewClose, OpenIsUnfinished

-----------------------------------------------------------------------------
(* The frame of a step: what it leaves alone in the other processes *)

OthersKeep(p) ==
  \A q \in Proc \ {p} :
    /\ pc'[q] = pc[q] /\ cand'[q] = cand[q] /\ cur'[q] = cur[q]
    /\ seen'[q] = seen[q] /\ (lock = q => lock' = q)
Released(p) ==
  pc'[p] = "idle" /\ cand'[p] = {} /\ cur'[p] = NoLeg /\ seen'[p] = Blank
Moved(p, label) ==
  /\ pc'[p] = label /\ cand'[p] = cand[p] /\ cur'[p] = cur[p]
  /\ seen'[p] = seen[p] /\ lock' = lock

LEMMA ExitFrame ==
  ASSUME ProcsType, NEW p \in Proc, Exit(p) \/ Crash(p)
  PROVE  OthersKeep(p) /\ Released(p)
BY DEF ProcsType, Exit, Crash, OthersKeep, Released

LEMMA GotoFrame ==
  ASSUME ProcsType, NEW p \in Proc, NEW label, Goto(p, label)
  PROVE  OthersKeep(p) /\ Moved(p, label)
BY DEF ProcsType, Goto, OthersKeep, Moved

\* No step of one process touches the locals of another or takes its lock.
LEMMA StepFrame ==
  ASSUME ProcsType, NEW p \in Proc, Cycle(p) \/ Refuse(p) \/ Crash(p)
  PROVE  OthersKeep(p)
<1>e. Exit(p) \/ ExitWithoutEffect(p) \/ Crash(p) => OthersKeep(p)
  BY ExitFrame DEF ExitWithoutEffect
<1>g. ASSUME NEW label, Goto(p, label) PROVE OthersKeep(p)
  BY <1>g, GotoFrame
<1>n. NoProc \notin Proc  BY ConstantsAssumption
<1>1. CASE Submit(p)
  <2>1. CASE AcquireLock(p)
    BY <1>e, <1>n, <2>1 DEF AcquireLock, OthersKeep, ProcsType
  <2>2. CASE ReadSubmission(p)
    BY <1>e, <1>g, <2>2 DEF ReadSubmission, OthersKeep, ProcsType
  <2>3. CASE RecordIntent(p)
    BY <1>e, <2>3 DEF RecordIntent, OthersKeep, ProcsType
  <2>4. CASE PostAccepted(p) \/ PostReplyLost(p) \/ PostRefused(p)
    BY <1>g, <2>4 DEF PostAccepted, PostReplyLost, PostRefused
  <2>5. CASE PostFailed(p)  BY <1>e, <2>5 DEF PostFailed
  <2>6. CASE RecordAcceptance(p)
    BY <1>e, <2>6 DEF RecordAcceptance, OthersKeep, ProcsType
  <2>7. QED  BY <1>1, <2>1, <2>2, <2>3, <2>4, <2>5, <2>6 DEF Submit
<1>2. CASE Reconcile(p)
  <2>1. CASE BeginReconcile(p)
    BY <1>e, <2>1 DEF BeginReconcile, OthersKeep, ProcsType
  <2>2. CASE ReadHistory(p)  BY <2>2 DEF ReadHistory, OthersKeep, ProcsType
  <2>3. CASE ApplyFill(p)  BY <2>3 DEF ApplyFill, OthersKeep, procs
  <2>4. CASE Judge(p)  BY <1>e, <2>4 DEF Judge, OthersKeep, ProcsType
  <2>5. CASE MarkSell(p) \/ PersistBuyProgress(p) \/ MarkBuyComplete(p)
    BY <1>e, <2>5 DEF MarkSell, PersistBuyProgress, MarkBuyComplete
  <2>6. QED  BY <1>2, <2>1, <2>2, <2>3, <2>4, <2>5 DEF Reconcile
<1>3. CASE Classify(p)  BY <1>g, <1>3 DEF Classify
<1>4. CASE CreateWorkflow(p)  BY <1>e, <1>g, <1>4 DEF CreateWorkflow
<1>5. CASE PersistAmbiguous(p) \/ StartWorkflow(p) \/ InstallBuys(p) \/ Refuse(p)
  BY <1>e, <1>5 DEF PersistAmbiguous, StartWorkflow, InstallBuys, Refuse
<1>6. QED  BY <1>1, <1>2, <1>3, <1>4, <1>5, <1>e DEF Cycle

\* Nothing is judged that has not been read from the pending list and history.
LEMMA ReadBeforeJudgedStep == ASSUME TypeInv, Next PROVE ReadBeforeJudged'
<1>0. ProcsType /\ ReadBeforeJudged  BY DEF TypeInv, TypeOK
<1>1. ASSUME NEW p \in Proc, Cycle(p) \/ Refuse(p) \/ Crash(p)
      PROVE  ReadBeforeJudged'
  <2>1. OthersKeep(p)  BY <1>0, <1>1, StepFrame
  <2>2. SUFFICES pc'[p] \in {"apply", "mark"} =>
                   \A l \in seen'[p].sub : seen'[p].state[l] # "NONE"
    BY <1>0, <2>1 DEF ReadBeforeJudged, OthersKeep
  <2>e. Exit(p) \/ ExitWithoutEffect(p) \/ Crash(p) => pc'[p] = "idle"
    BY <1>0, ExitFrame DEF ExitWithoutEffect, Released
  <2>g. ASSUME NEW label, label \notin {"apply", "mark"}, Goto(p, label)
        PROVE  pc'[p] \notin {"apply", "mark"}
    BY <1>0, <2>g, GotoFrame DEF Moved
  <2>3. CASE Submit(p)
    BY <1>0, <2>3, <2>e, <2>g DEF Submit, AcquireLock, ReadSubmission, RecordIntent,
       PostAccepted, PostReplyLost, PostRefused, PostFailed, RecordAcceptance, ProcsType
  <2>4. CASE BeginReconcile(p)
    BY <1>0, <2>4, <2>e DEF BeginReconcile, ProcsType
  <2>5. CASE ReadHistory(p)
    <3> DEFINE state == [l \in Leg |-> IF l \in seen[p].sub
                           THEN Canonical(hist[l], l \in seen[p].pending)
                           ELSE "NONE"]
    <3>1. seen[p].sub \subseteq Leg /\ seen[p] \in SeenType
      BY <1>0 DEF ProcsType, SeenType
    <3>2. seen'[p].state = state /\ seen'[p].sub = seen[p].sub
      BY <1>0, <2>5, <3>1 DEF ReadHistory, ProcsType, SeenType
    <3>3. ASSUME NEW l \in seen[p].sub PROVE state[l] # "NONE"
      BY <3>1, CanonicalType
    <3>4. QED  BY <3>2, <3>3
  <2>6. CASE ApplyFill(p)
    BY <1>0, <2>6 DEF ApplyFill, procs, ReadBeforeJudged
  <2>7. CASE Judge(p)
    BY <1>0, <2>7, <2>e DEF Judge, ReadBeforeJudged, ProcsType, SeenType
  <2>8. CASE MarkSell(p) \/ PersistBuyProgress(p) \/ MarkBuyComplete(p)
    BY <2>8, <2>e DEF MarkSell, PersistBuyProgress, MarkBuyComplete
  <2>9. CASE Classify(p) \/ CreateWorkflow(p)
    <3>1. RecoveryAction \notin {"apply", "mark"}  BY DEF RecoveryAction
    <3>2. QED  BY <2>9, <2>e, <2>g, <3>1 DEF Classify, CreateWorkflow
  <2>10. CASE PersistAmbiguous(p) \/ StartWorkflow(p) \/ InstallBuys(p) \/ Refuse(p)
    BY <2>10, <2>e DEF PersistAmbiguous, StartWorkflow, InstallBuys, Refuse
  <2>11. QED
    BY <1>1, <2>3, <2>4, <2>5, <2>6, <2>7, <2>8, <2>9, <2>10, <2>e DEF Cycle, Reconcile
<1>2. CASE (\E l \in Leg : Trade(l) \/ ShowHistory(l)) \/ NewClose
  BY <1>0, <1>2 DEF Trade, FillUnit, Kill, ShowHistory, NewClose, procs,
     ReadBeforeJudged
<1>3. QED  BY <1>1, <1>2 DEF Next

LEMMA InitType == Init => TypeInv
<1> SUFFICES ASSUME Init PROVE TypeInv  OBVIOUS
<1>0. Qty \in Nat /\ 0 < Qty /\ OpeningCash \in Int /\ CrashBudget \in Nat
  BY ConstantsAssumption
<1>1. WorkflowType
  BY DEF Init, WorkflowType, WorkflowStatus, LegStatus, ExecutionState
<1>2. CapitalType  BY <1>0 DEF Init, CapitalType
<1>3. BrokerType
  <2>1. /\ posts \in [Leg -> Nat] /\ order \in [Leg -> OrderStatus]
        /\ filled \in [Leg -> 0..Qty] /\ price \in [Leg -> Nat]
        /\ hist \in [Leg -> [st: OrderStatus, n: 0..Qty]]
    BY <1>0 DEF Init, OrderStatus
  <2>2. stale \in BOOLEAN  BY Zenon DEF Init
  <2>3. QED  BY <2>1, <2>2 DEF BrokerType
<1>4. ProcsType  BY <1>0, BlankType DEF Init, ProcsType, Label
<1>5. OpenIsUnfinished /\ ReadBeforeJudged
  BY DEF Init, OpenIsUnfinished, ReadBeforeJudged
<1>6. QED  BY <1>1, <1>2, <1>3, <1>4, <1>5 DEF TypeInv, TypeOK

LEMMA TypeStep == TypeInv /\ [Next]_vars => TypeInv'
<1> SUFFICES ASSUME TypeInv, [Next]_vars PROVE TypeInv'  OBVIOUS
<1>1. CASE Next
  <2>1. ASSUME NEW p \in Proc, Cycle(p) \/ Refuse(p) PROVE TypeOK'
    BY <2>1, PlanningType, SubmitType, ReconcileType DEF Cycle
  <2>2. TypeOK'  BY <1>1, <2>1, EnvironmentType DEF Next
  <2>3. QED  BY <1>1, <2>2, UnfinishedStep, ReadBeforeJudgedStep DEF TypeInv
<1>2. CASE UNCHANGED vars
  BY <1>2 DEF vars, workflow, capital, broker, procs, TypeInv, TypeOK, WorkflowType,
     CapitalType, BrokerType, ProcsType, OpenIsUnfinished, ReadBeforeJudged
<1>3. QED  BY <1>1, <1>2

\* Every reachable state is typed: no handler, race or crash writes a status, an
\* execution state or a reading that the others do not know.
THEOREM TypeCorrect == Spec => []TypeOK
<1>1. TypeInv => TypeOK  BY DEF TypeInv
<1>2. QED  BY <1>1, InitType, TypeStep, PTL DEF Spec

-----------------------------------------------------------------------------
(* At most one order per leg *)

\* What the leg statuses of a step may not undo: a planned leg and an intent
\* stay as they are, and nothing sent or accepted becomes unsent again.
LegsAdvance ==
  /\ \A l \in Leg : leg[l] \in {"PLANNED", "INTENT_RECORDED"} => leg'[l] = leg[l]
  /\ \A l \in Leg : leg'[l] \in Unsent => leg[l] \in Unsent
  /\ \A l \in Leg : leg[l] \notin Unsent \cup {"INTENT_RECORDED"} =>
                      leg'[l] \notin Unsent \cup {"INTENT_RECORDED"}
  /\ status' = "ABSENT" => status = "ABSENT" /\ leg' = leg

\* Steps outside the flock: no order is sent, the process ends up outside, and
\* what it has read are accepted legs.
LEMMA OutsideTheLock ==
  ASSUME ProcsType, SubmissionInv, LegsAdvance, posts' = posts,
         NEW p \in Proc, OthersKeep(p),
         pc'[p] \notin Submitting, cur'[p] = NoLeg,
         seen'[p].sub \subseteq Leg,
         \A l \in seen'[p].sub : leg[l] \notin Unsent \cup {"INTENT_RECORDED"}
  PROVE  SubmissionInv'
<1> USE DEF SubmissionInv
<1>s. \A q \in Proc : seen[q].sub \subseteq Leg  BY DEF ProcsType, SeenType
<1>c. \A q \in Proc : cand[q] \subseteq Leg  BY DEF ProcsType
<1>1. AtMostOneOrderPerLeg'  BY DEF AtMostOneOrderPerLeg
<1>2. LockExcludes'  BY DEF LockExcludes, OthersKeep
<1>3. BatchIsPlanned'
  BY <1>c DEF BatchIsPlanned, OthersKeep, LegsAdvance, Submitting
<1>4. IntentPrecedesPost'
  BY DEF IntentPrecedesPost, OthersKeep, LegsAdvance, Submitting
<1>5. UnsentHasNoOrder'  BY DEF UnsentHasNoOrder, LegsAdvance
<1>6. SeenWasAccepted'
  BY <1>s DEF SeenWasAccepted, OthersKeep, LegsAdvance
<1>7. AbsentIsEmpty'  BY DEF AbsentIsEmpty, LegsAdvance
<1>8. QED  BY <1>1, <1>2, <1>3, <1>4, <1>5, <1>6, <1>7

LEMMA ReleaseIsSafe ==
  ASSUME ProcsType, SubmissionInv, LegsAdvance, posts' = posts,
         NEW p \in Proc, Exit(p) \/ Crash(p)
  PROVE  SubmissionInv'
<1>1. OthersKeep(p) /\ Released(p)  BY ExitFrame
<1>2. seen'[p].sub = {}  BY <1>1 DEF Released, Blank
<1>3. QED  BY <1>1, <1>2, OutsideTheLock DEF Released, Submitting

LEMMA UnchangedAdvance ==
  ASSUME UNCHANGED workflow PROVE LegsAdvance
BY DEF workflow, LegsAdvance

\* Recovery, planning and refusal.
LEMMA PlanningIsSafe ==
  ASSUME TypeInv, SubmissionInv, NEW p \in Proc,
         \/ Classify(p) \/ PersistAmbiguous(p) \/ Refuse(p) \/ Crash(p)
         \/ CreateWorkflow(p) \/ StartWorkflow(p) \/ InstallBuys(p)
  PROVE  SubmissionInv'
<1>0. ProcsType /\ WorkflowType  BY DEF TypeInv, TypeOK
<1>x. ExitWithoutEffect(p) => SubmissionInv'
  BY <1>0, ReleaseIsSafe, UnchangedAdvance DEF ExitWithoutEffect, broker
<1>g. ASSUME NEW label, label \notin Submitting, pc[p] \notin Submitting,
             Goto(p, label), LegsAdvance, UNCHANGED broker
      PROVE  SubmissionInv'
  <2>1. OthersKeep(p) /\ Moved(p, label)  BY <1>0, <1>g, GotoFrame
  <2>2. cur'[p] = NoLeg
    BY <1>g, <2>1 DEF Moved, SubmissionInv, IntentPrecedesPost, Submitting
  <2>3. seen'[p].sub \subseteq Leg  BY <1>0, <2>1 DEF Moved, ProcsType, SeenType
  <2>4. \A l \in seen'[p].sub : leg[l] \notin Unsent \cup {"INTENT_RECORDED"}
    BY <2>1 DEF Moved, SubmissionInv, SeenWasAccepted
  <2>5. posts' = posts /\ pc'[p] \notin Submitting  BY <1>g, <2>1 DEF broker, Moved
  <2>6. QED  BY <1>0, <1>g, <2>1, <2>2, <2>3, <2>4, <2>5, OutsideTheLock
<1>1. CASE Classify(p)
  <2>1. RecoveryAction \notin Submitting  BY DEF RecoveryAction, Submitting
  <2>2. QED  BY <1>1, <1>g, <2>1, UnchangedAdvance DEF Classify, Submitting
<1>2. CASE PersistAmbiguous(p)
  <2>1. LegsAdvance /\ posts' = posts
    BY <1>2 DEF PersistAmbiguous, RequireReconciliation, LegsAdvance, workflow, broker
  <2>2. QED  BY <1>0, <1>2, <2>1, ReleaseIsSafe DEF PersistAmbiguous
<1>3. CASE Refuse(p)  BY <1>3, <1>x DEF Refuse
<1>4. CASE Crash(p)
  BY <1>0, <1>4, ReleaseIsSafe, UnchangedAdvance DEF Crash, broker
<1>5. CASE CreateWorkflow(p)
  <2>1. CASE status = "ABSENT" /\ exec = "IDLE"
    <3>1. Goto(p, "start") /\ UNCHANGED broker /\ pc[p] \notin Submitting
      BY <1>5, <2>1 DEF CreateWorkflow, Submitting
    <3>2. \A l \in Leg : leg[l] = "ABSENT"
      BY <2>1 DEF SubmissionInv, AbsentIsEmpty
    <3>3. status' = "ACTIVE" /\ \A l \in Leg : leg'[l] \in Unsent
      BY <1>5, <2>1, <3>2 DEF CreateWorkflow, Unsent
    <3>4. LegsAdvance  BY <3>2, <3>3 DEF LegsAdvance, Unsent
    <3>5. QED  BY <1>g, <3>1, <3>4 DEF Submitting
  <2>2. CASE ~(status = "ABSENT" /\ exec = "IDLE")
    <3>1. CASE Goto(p, "start") /\ UNCHANGED <<workflow, capital, broker>>
      BY <1>5, <1>g, <3>1, UnchangedAdvance DEF CreateWorkflow, Submitting
    <3>2. QED  BY <1>5, <1>x, <2>2, <3>1 DEF CreateWorkflow
  <2>3. QED  BY <2>1, <2>2
<1>6. CASE StartWorkflow(p)
  <2>1. LegsAdvance  BY <1>6 DEF StartWorkflow, LegsAdvance
  <2>2. QED  BY <1>0, <1>6, <2>1, ReleaseIsSafe DEF StartWorkflow, broker
<1>7. CASE InstallBuys(p)
  <2>1. LegsAdvance
    <3>1. CASE UNCHANGED workflow  BY <3>1, UnchangedAdvance
    <3>2. CASE UNCHANGED leg /\ status' = "COMPLETE"
      BY <3>2 DEF LegsAdvance
    <3>3. CASE /\ Rows(BuyLeg) = {} /\ status = "ACTIVE" /\ UNCHANGED status
               /\ \E B \in SUBSET BuyLeg :
                    leg' = [l \in Leg |-> IF l \in B THEN "PLANNED" ELSE leg[l]]
      <4>1. \A l \in BuyLeg : leg[l] = "ABSENT"  BY <3>3 DEF Rows
      <4>2. QED  BY <1>0, <3>3, <4>1 DEF LegsAdvance, Unsent
    <3>4. QED  BY <1>7, <3>1, <3>2, <3>3 DEF InstallBuys
  <2>2. QED  BY <1>0, <1>7, <2>1, ReleaseIsSafe DEF InstallBuys, broker
<1>8. QED  BY <1>1, <1>2, <1>3, <1>4, <1>5, <1>6, <1>7

\* Reconciliation, which any number of processes may run at once.
LEMMA ReconcileIsSafe ==
  ASSUME TypeInv, SubmissionInv, NEW p \in Proc, Reconcile(p)
  PROVE  SubmissionInv'
<1>0. ProcsType /\ WorkflowType  BY DEF TypeInv, TypeOK
<1>s. seen[p] \in SeenType /\ seen[p].sub \subseteq Leg  BY <1>0 DEF ProcsType, SeenType
<1>f. OthersKeep(p)  BY <1>0, StepFrame DEF Cycle
<1>a. \A l \in seen[p].sub : leg[l] \notin Unsent \cup {"INTENT_RECORDED"}
  BY DEF SubmissionInv, SeenWasAccepted
<1>k. ASSUME UNCHANGED workflow, UNCHANGED broker,
             pc'[p] \notin Submitting, cur'[p] = cur[p], pc[p] \notin Submitting,
             seen'[p].sub = seen[p].sub
      PROVE  SubmissionInv'
  <2>1. cur'[p] = NoLeg  BY <1>k DEF SubmissionInv, IntentPrecedesPost, Submitting
  <2>2. LegsAdvance /\ posts' = posts  BY <1>k, UnchangedAdvance DEF broker
  <2>3. QED  BY <1>0, <1>a, <1>f, <1>k, <1>s, <2>1, <2>2, OutsideTheLock
<1>1. CASE BeginReconcile(p)
  <2>0. UNCHANGED workflow /\ posts' = posts  BY <1>1 DEF BeginReconcile, broker
  <2> DEFINE sub == Rows(PhaseSide) \ InStatus(PhaseSide, {"PLANNED"})
  <2>1. CASE Exit(p)
    BY <1>0, <2>0, <2>1, ReleaseIsSafe, UnchangedAdvance
  <2>2. CASE /\ ~Ambiguous(PhaseSide)
             /\ seen' = [seen EXCEPT ![p] =
                   [Blank EXCEPT !.phase = phase, !.sub = sub,
                                 !.pending = {l \in sub : order[l] = "OPEN"}]]
             /\ pc' = [pc EXCEPT ![p] = "history"]
             /\ UNCHANGED <<cand, cur, lock, crashes>>
    <3>1. seen'[p].sub = sub  BY <1>0, <2>2 DEF ProcsType, Blank
    <3>2. sub \subseteq Leg  BY DEF Rows, PhaseSide, Leg
    <3>3. \A l \in sub : leg[l] \notin Unsent \cup {"INTENT_RECORDED"}
      BY <2>2 DEF Ambiguous, InStatus, Rows, Unsent
    <3>4. pc'[p] \notin Submitting /\ cur'[p] = NoLeg
      BY <1>0, <1>1, <2>2
      DEF BeginReconcile, ProcsType, SubmissionInv, IntentPrecedesPost, Submitting
    <3> HIDE DEF sub
    <3>5. QED
      BY <1>0, <1>f, <2>0, <3>1, <3>2, <3>3, <3>4, OutsideTheLock, UnchangedAdvance
  <2>3. QED  BY <1>1, <2>1, <2>2 DEF BeginReconcile
<1>2. CASE ReadHistory(p)
  BY <1>0, <1>2, <1>k, <1>s DEF ReadHistory, ProcsType, SeenType, Submitting
<1>3. CASE ApplyFill(p)
  BY <1>3, <1>k DEF ApplyFill, procs, Submitting
<1>4. CASE Judge(p)
  <2>1. CASE Exit(p)
    BY <1>0, <1>4, <2>1, ReleaseIsSafe, UnchangedAdvance DEF Judge, broker
  <2>2. CASE /\ seen' = [seen EXCEPT ![p].verdict = Verdict(p)]
             /\ pc' = [pc EXCEPT ![p] = "mark"]
             /\ UNCHANGED <<cand, cur, lock, crashes>>
    BY <1>0, <1>4, <1>k, <1>s, <2>2 DEF Judge, ProcsType, SeenType, Submitting
  <2>3. QED  BY <1>4, <2>1, <2>2 DEF Judge
<1>5. CASE MarkSell(p) \/ PersistBuyProgress(p)
  <2>1. Exit(p) /\ posts' = posts /\ pc[p] = "mark"
    BY <1>5 DEF MarkSell, PersistBuyProgress, broker
  <2>2. CASE UNCHANGED workflow
    BY <1>0, <2>1, <2>2, ReleaseIsSafe, UnchangedAdvance
  <2>3. CASE leg' = SeenStatuses(p) /\ (status' = status \/ status' # "ABSENT")
                                    /\ ~UNCHANGED workflow
    <3>1. ASSUME NEW l \in Leg
          PROVE  /\ l \in seen[p].sub =>
                      leg'[l] \notin Unsent \cup {"INTENT_RECORDED"}
                 /\ l \notin seen[p].sub => leg'[l] = leg[l]
      <4>1. leg'[l] = IF l \in seen[p].sub THEN seen[p].state[l] ELSE leg[l]
        BY <2>3 DEF SeenStatuses
      <4>2. seen[p].state[l] \in SeenState  BY <1>s DEF SeenType
      <4>3. l \in seen[p].sub => seen[p].state[l] # "NONE"
        BY <2>1 DEF TypeInv, ReadBeforeJudged
      <4>4. QED  BY <4>1, <4>2, <4>3 DEF SeenState, Unsent
    <3>2. status' # "ABSENT" \/ leg' = leg
      <4>1. CASE status = "ABSENT"
        <5>1. seen[p].sub = {}
          BY <1>a, <1>s, <4>1 DEF SubmissionInv, AbsentIsEmpty, Unsent
        <5>2. leg' \in [Leg -> LegStatus] /\ leg \in [Leg -> LegStatus]
          BY <1>0, <2>1, <2>3, SeenStatusesType DEF TypeInv, WorkflowType
        <5>3. QED  BY <3>1, <5>1, <5>2
      <4>2. QED  BY <2>3, <4>1
    <3>3. LegsAdvance  BY <1>a, <2>3, <3>1, <3>2 DEF LegsAdvance, Unsent
    <3>4. QED  BY <1>0, <2>1, <3>3, ReleaseIsSafe
  <2>4. leg' = SeenStatuses(p) \/ UNCHANGED workflow
    BY <1>5 DEF MarkSell, PersistBuyProgress
  <2>5. status' = status \/ status' # "ABSENT" \/ UNCHANGED workflow
    BY <1>5 DEF MarkSell, PersistBuyProgress, Stop, Stay
  <2>6. QED  BY <2>2, <2>3, <2>4, <2>5
<1>6. CASE MarkBuyComplete(p)
  <2>1. Exit(p) /\ posts' = posts  BY <1>6 DEF MarkBuyComplete, broker
  <2>2. CASE UNCHANGED workflow
    BY <1>0, <2>1, <2>2, ReleaseIsSafe, UnchangedAdvance
  <2>3. CASE /\ Rows(BuyLeg) = InStatus(BuyLeg, Reconcilable)
             /\ leg' = [l \in Leg |-> IF l \in Rows(BuyLeg) THEN "FILLED" ELSE leg[l]]
             /\ status' = "COMPLETE"
    <3>1. \A l \in Rows(BuyLeg) : leg[l] \in Reconcilable
      BY <2>3 DEF InStatus
    <3>2. LegsAdvance  BY <2>3, <3>1 DEF LegsAdvance, Reconcilable, Unsent
    <3>3. QED  BY <1>0, <2>1, <3>2, ReleaseIsSafe
  <2>4. QED  BY <1>6, <2>2, <2>3 DEF MarkBuyComplete
<1>7. QED  BY <1>1, <1>2, <1>3, <1>4, <1>5, <1>6 DEF Reconcile

\* The submitter alone is between the flock and the broker, so the leg whose
\* intent it wrote is the leg it posts, and no other process moves that leg.
LEMMA SubmitIsSafe ==
  ASSUME TypeInv, SubmissionInv, NEW p \in Proc, Submit(p)
  PROVE  SubmissionInv'
<1>0. ProcsType /\ WorkflowType /\ BrokerType  BY DEF TypeInv, TypeOK
<1>f. OthersKeep(p)  BY <1>0, StepFrame DEF Cycle
<1>n. NoProc \notin Proc /\ NoLeg \notin Leg  BY ConstantsAssumption
<1>i. /\ AtMostOneOrderPerLeg /\ LockExcludes /\ BatchIsPlanned /\ IntentPrecedesPost
      /\ UnsentHasNoOrder /\ SeenWasAccepted /\ AbsentIsEmpty
  BY DEF SubmissionInv
<1>c. cand[p] \subseteq Leg /\ \A q \in Proc : seen[q].sub \subseteq Leg
  BY <1>0 DEF ProcsType, SeenType
<1>x. ExitWithoutEffect(p) => SubmissionInv'
  BY <1>0, ReleaseIsSafe, UnchangedAdvance DEF ExitWithoutEffect, broker
<1>l. ASSUME pc[p] \in Submitting
      PROVE  \A q \in Proc \ {p} : pc[q] \notin Submitting
  BY <1>i, <1>l DEF LockExcludes
<1>1. CASE AcquireLock(p)
  <2>1. CASE /\ lock = NoProc /\ lock' = p /\ pc' = [pc EXCEPT ![p] = "locked"]
             /\ UNCHANGED <<cand, cur, seen, crashes, workflow, capital, broker>>
    <3>1. pc'[p] = "locked" /\ pc[p] = "submit" /\ \A q \in Proc \ {p} : pc'[q] = pc[q]
      BY <1>0, <1>1, <2>1 DEF AcquireLock, ProcsType
    <3>2. LockExcludes'
      BY <1>i, <1>n, <2>1, <3>1 DEF LockExcludes
    <3>3. BatchIsPlanned' /\ IntentPrecedesPost'
      BY <1>i, <2>1, <3>1 DEF BatchIsPlanned, IntentPrecedesPost, workflow, broker
    <3>4. QED
      BY <1>i, <2>1, <3>2, <3>3 DEF SubmissionInv, AtMostOneOrderPerLeg,
         UnsentHasNoOrder, SeenWasAccepted, AbsentIsEmpty, workflow, broker
  <2>2. QED  BY <1>1, <1>x, <2>1 DEF AcquireLock
<1>2. CASE ReadSubmission(p)
  <2>1. CASE Goto(p, "unsure") /\ UNCHANGED <<workflow, capital, broker>>
    <3>1. Moved(p, "unsure") /\ pc[p] = "locked"
      BY <1>0, <1>2, <2>1, GotoFrame DEF ReadSubmission
    <3>2. LockExcludes'
      BY <1>f, <1>i, <3>1 DEF LockExcludes, OthersKeep, Moved, Submitting
    <3>3. BatchIsPlanned' /\ IntentPrecedesPost'
      BY <1>f, <1>i, <2>1, <3>1 DEF BatchIsPlanned, IntentPrecedesPost, OthersKeep,
         Moved, workflow, broker
    <3>4. SeenWasAccepted'
      BY <1>f, <1>i, <2>1, <3>1 DEF SeenWasAccepted, OthersKeep, Moved, workflow
    <3>5. QED
      BY <1>i, <2>1, <3>2, <3>3, <3>4 DEF SubmissionInv, AtMostOneOrderPerLeg,
         UnsentHasNoOrder, AbsentIsEmpty, workflow, broker
  <2>2. CASE /\ pc' = [pc EXCEPT ![p] = "intent"]
             /\ cand' = [cand EXCEPT ![p] = Candidates]
             /\ UNCHANGED <<cur, seen, lock, crashes, workflow, capital, broker>>
    <3>1. pc'[p] = "intent" /\ pc[p] = "locked" /\ cand'[p] = Candidates
      BY <1>0, <1>2, <2>2 DEF ReadSubmission, ProcsType
    <3>2. \A l \in Candidates : leg[l] = "PLANNED"
      BY DEF Candidates, InStatus, Rows, First
    <3>3. LockExcludes'
      BY <1>f, <1>i, <2>2, <3>1 DEF LockExcludes, OthersKeep, Submitting
    <3>4. BatchIsPlanned'
      BY <1>f, <1>i, <2>2, <3>1, <3>2 DEF BatchIsPlanned, OthersKeep, workflow
    <3>5. IntentPrecedesPost'
      BY <1>f, <1>i, <2>2, <3>1 DEF IntentPrecedesPost, OthersKeep, workflow, broker
    <3>6. QED
      BY <1>i, <2>2, <3>3, <3>4, <3>5 DEF SubmissionInv, AtMostOneOrderPerLeg,
         UnsentHasNoOrder, SeenWasAccepted, AbsentIsEmpty, workflow, broker
  <2>3. QED  BY <1>2, <1>x, <2>1, <2>2 DEF ReadSubmission
<1>3. CASE RecordIntent(p)
  <2>0. pc[p] = "intent" /\ UNCHANGED <<capital, broker>>  BY <1>3 DEF RecordIntent
  <2>1. PICK l \in First(cand[p]) :
          IF /\ leg[l] \in {"PLANNED", "INTENT_RECORDED"}
             /\ phase = (IF l \in SellLeg THEN "SELL" ELSE "BUY")
            THEN /\ leg' = [leg EXCEPT ![l] = "INTENT_RECORDED"]
                 /\ cur' = [cur EXCEPT ![p] = l]
                 /\ pc' = [pc EXCEPT ![p] = "post"]
                 /\ UNCHANGED <<status, phase, exec, keys, cand, seen, lock, crashes>>
            ELSE UNCHANGED workflow /\ Exit(p)
    BY <1>3 DEF RecordIntent
  <2>2. CASE UNCHANGED workflow /\ Exit(p)
    BY <1>0, <2>0, <2>2, ReleaseIsSafe, UnchangedAdvance DEF broker
  <2>3. CASE /\ leg' = [leg EXCEPT ![l] = "INTENT_RECORDED"]
             /\ cur' = [cur EXCEPT ![p] = l]
             /\ pc' = [pc EXCEPT ![p] = "post"]
             /\ UNCHANGED <<status, phase, exec, keys, cand, seen, lock, crashes>>
    <3>1. l \in cand[p] /\ l \in Leg /\ cur[p] = NoLeg
      BY <1>c, <1>i, <2>0, <2>1 DEF First, IntentPrecedesPost
    <3>2. \A k \in cand[p] : leg[k] = "PLANNED"
      BY <1>c, <1>i, <1>n, <2>0, <3>1 DEF BatchIsPlanned
    <3>3. /\ leg'[l] = "INTENT_RECORDED" /\ cur'[p] = l /\ pc'[p] = "post"
          /\ \A k \in Leg \ {l} : leg'[k] = leg[k]
          /\ posts[l] = 0 /\ posts' = posts
      BY <1>0, <1>i, <2>0, <2>3, <3>1, <3>2
      DEF WorkflowType, ProcsType, UnsentHasNoOrder, Unsent, broker
    <3>4. \A q \in Proc \ {p} : pc[q] \notin Submitting
      BY <1>l, <2>0 DEF Submitting
    <3>5. LockExcludes'
      BY <1>f, <1>i, <2>0, <2>3, <3>3 DEF LockExcludes, OthersKeep, Submitting
    <3>6. BatchIsPlanned'
      BY <1>c, <1>f, <2>3, <3>2, <3>3, <3>4 DEF BatchIsPlanned, OthersKeep, Submitting
    <3>7. IntentPrecedesPost'
      BY <1>f, <1>i, <3>1, <3>3, <3>4 DEF IntentPrecedesPost, OthersKeep, Submitting
    <3>8. UnsentHasNoOrder'
      BY <1>i, <3>3 DEF UnsentHasNoOrder, Unsent
    <3>9. SeenWasAccepted'
      BY <1>c, <1>i, <2>3, <3>1, <3>2, <3>3 DEF SeenWasAccepted, Unsent
    <3>10. AbsentIsEmpty'
      BY <1>i, <2>3, <3>1, <3>2 DEF AbsentIsEmpty
    <3>11. QED
      BY <1>i, <3>3, <3>5, <3>6, <3>7, <3>8, <3>9, <3>10
      DEF SubmissionInv, AtMostOneOrderPerLeg
  <2>4. QED  BY <2>1, <2>2, <2>3
<1>4. ASSUME pc[p] = "post", NEW label \in {"accept", "unsure"}, Goto(p, label),
             NewOrder(cur[p]) \/ UNCHANGED broker, UNCHANGED workflow
      PROVE  SubmissionInv'
  <2>1. Moved(p, label)  BY <1>0, <1>4, GotoFrame
  <2>2. cur[p] \in Leg /\ leg[cur[p]] = "INTENT_RECORDED" /\ posts[cur[p]] = 0
    BY <1>4, <1>i DEF IntentPrecedesPost
  <2>3. \A q \in Proc \ {p} : pc[q] \notin Submitting
    BY <1>4, <1>l DEF Submitting
  <2>4. leg' = leg /\ status' = status  BY <1>4 DEF workflow
  <2>5. ASSUME NEW k \in Leg PROVE posts'[k] = posts[k] \/ (k = cur[p] /\ posts'[k] = 1)
    <3>1. CASE NewOrder(cur[p])
      BY <1>0, <2>2, <3>1 DEF NewOrder, BrokerType
    <3>2. QED  BY <1>4, <3>1 DEF broker
  <2>6. AtMostOneOrderPerLeg'
    BY <1>0, <1>i, <2>5 DEF AtMostOneOrderPerLeg, BrokerType
  <2>7. LockExcludes'
    BY <1>4, <1>f, <1>i, <2>1 DEF LockExcludes, OthersKeep, Moved, Submitting
  <2>8. BatchIsPlanned'
    BY <1>4, <1>f, <1>i, <2>1, <2>3, <2>4
    DEF BatchIsPlanned, OthersKeep, Moved, Submitting
  <2>9. IntentPrecedesPost'
    BY <1>4, <1>f, <1>i, <2>1, <2>3 DEF IntentPrecedesPost, OthersKeep, Moved, Submitting
  <2>10. UnsentHasNoOrder'
    BY <1>i, <2>2, <2>4, <2>5 DEF UnsentHasNoOrder, Unsent
  <2>11. SeenWasAccepted'
    BY <1>f, <1>i, <2>1, <2>4 DEF SeenWasAccepted, OthersKeep, Moved
  <2>12. AbsentIsEmpty'  BY <1>i, <2>4 DEF AbsentIsEmpty
  <2>13. QED
    BY <2>6, <2>7, <2>8, <2>9, <2>10, <2>11, <2>12 DEF SubmissionInv
<1>5. CASE PostAccepted(p) \/ PostReplyLost(p) \/ PostRefused(p)
  BY <1>4, <1>5 DEF PostAccepted, PostReplyLost, PostRefused
<1>6. CASE PostFailed(p)
  <2>1. LegsAdvance /\ posts' = posts
    BY <1>6 DEF PostFailed, RequireReconciliation, LegsAdvance, workflow, broker
  <2>2. QED  BY <1>0, <1>6, <2>1, ReleaseIsSafe DEF PostFailed
<1>7. CASE RecordAcceptance(p)
  <2> DEFINE c == cur[p]
  <2>0. pc[p] = "accept" /\ posts' = posts /\ status' = status
    BY <1>7 DEF RecordAcceptance, broker
  <2>1. leg' = [leg EXCEPT ![c] = IF leg[c] = "INTENT_RECORDED"
                                    THEN "BROKER_ACCEPTED" ELSE leg[c]]
    BY <1>7 DEF RecordAcceptance
  <2>2. /\ \A k \in Leg \ {c} : leg'[k] = leg[k]
        /\ c \in Leg => leg'[c] = IF leg[c] = "INTENT_RECORDED"
                                    THEN "BROKER_ACCEPTED" ELSE leg[c]
    BY <1>0, <2>1 DEF WorkflowType
  <2> HIDE DEF c
  <2>3. \A q \in Proc \ {p} : pc[q] \notin Submitting
    BY <1>l, <2>0 DEF Submitting
  <2>4. /\ pc'[p] \in {"idle", "intent"} /\ cur'[p] = NoLeg
        /\ cand'[p] \subseteq cand[p] \ {c} /\ seen'[p].sub \subseteq seen[p].sub
        /\ pc'[p] = "intent" => lock' = lock
    <3>1. CASE Exit(p)
      BY <1>0, <3>1, ExitFrame DEF Released, Blank
    <3>2. CASE /\ cand' = [cand EXCEPT ![p] = @ \ {cur[p]}]
               /\ cur' = [cur EXCEPT ![p] = NoLeg]
               /\ pc' = [pc EXCEPT ![p] = "intent"]
               /\ UNCHANGED <<seen, lock, crashes>>
      BY <1>0, <3>2 DEF ProcsType, c
    <3>3. QED  BY <1>7, <3>1, <3>2 DEF RecordAcceptance
  <2>5. LockExcludes'
    BY <1>f, <1>i, <2>0, <2>4 DEF LockExcludes, OthersKeep, Submitting
  <2>6. BatchIsPlanned'
    BY <1>c, <1>f, <1>i, <2>0, <2>2, <2>3, <2>4
    DEF BatchIsPlanned, OthersKeep, Submitting, c
  <2>7. IntentPrecedesPost'
    BY <1>f, <1>i, <2>3, <2>4 DEF IntentPrecedesPost, OthersKeep, Submitting
  <2>8. UnsentHasNoOrder'
    BY <1>i, <2>0, <2>2 DEF UnsentHasNoOrder, Unsent
  <2>9. SeenWasAccepted'
    BY <1>c, <1>f, <1>i, <2>2, <2>4 DEF SeenWasAccepted, OthersKeep, Unsent
  <2>10. AbsentIsEmpty'
    BY <1>i, <2>0, <2>2 DEF AbsentIsEmpty
  <2>11. QED
    BY <1>i, <2>0, <2>5, <2>6, <2>7, <2>8, <2>9, <2>10
    DEF SubmissionInv, AtMostOneOrderPerLeg
<1>8. QED  BY <1>1, <1>2, <1>3, <1>5, <1>6, <1>7 DEF Submit

LEMMA SubmissionStep ==
  TypeInv /\ SubmissionInv /\ [Next]_vars => SubmissionInv'
<1> SUFFICES ASSUME TypeInv, SubmissionInv, [Next]_vars PROVE SubmissionInv'
  OBVIOUS
<1>1. ASSUME UNCHANGED <<workflow, posts, procs>> PROVE SubmissionInv'
  BY <1>1 DEF SubmissionInv, AtMostOneOrderPerLeg, LockExcludes, BatchIsPlanned,
     IntentPrecedesPost, UnsentHasNoOrder, SeenWasAccepted, AbsentIsEmpty,
     workflow, procs
<1>2. ASSUME NEW p \in Proc, Cycle(p) \/ Refuse(p) \/ Crash(p) PROVE SubmissionInv'
  BY <1>2, PlanningIsSafe, SubmitIsSafe, ReconcileIsSafe DEF Cycle
<1>3. CASE (\E l \in Leg : Trade(l) \/ ShowHistory(l)) \/ NewClose
  BY <1>1, <1>3 DEF Trade, FillUnit, Kill, ShowHistory, NewClose
<1>4. CASE UNCHANGED vars  BY <1>1, <1>4 DEF vars, broker
<1>5. QED  BY <1>2, <1>3, <1>4 DEF Next

\* No leg is ever sent to the broker twice: for any number of concurrent cycles,
\* crashes at any point, lost replies and stale reconcilers.
THEOREM NoDuplicateSubmission == Spec => []AtMostOneOrderPerLeg
<1>1. Init => SubmissionInv
  BY DEF Init, SubmissionInv, AtMostOneOrderPerLeg, LockExcludes, BatchIsPlanned,
     IntentPrecedesPost, UnsentHasNoOrder, SeenWasAccepted, AbsentIsEmpty, Blank,
     Submitting
<1>2. SubmissionInv => AtMostOneOrderPerLeg  BY DEF SubmissionInv
<1>3. QED  BY <1>1, <1>2, InitType, TypeStep, SubmissionStep, PTL DEF Spec

-----------------------------------------------------------------------------
(* SELL orders fill before BUY orders exist *)

\* A leg becomes FILLED only from a reading that says so, a reading says so only
\* if the history does, and no row appears.
FilledFromEvidence(p) ==
  /\ \A s \in SellLeg : leg'[s] = "FILLED" =>
                          leg[s] = "FILLED" \/ seen[p].state[s] = "FILLED"
  /\ \A l \in Leg : seen'[p].state[l] = "FILLED" =>
                      seen[p].state[l] = "FILLED" \/ hist[l].st = "FILLED"
RowsStay == \A l \in Leg : leg[l] = "ABSENT" => leg'[l] = "ABSENT"

LEMMA BlankReading == \A l \in Leg : Blank.state[l] = "NONE"
BY DEF Blank

\* Exits and moves that write no leg.
LEMMA QuietEvidence ==
  ASSUME TypeOK, NEW p \in Proc, UNCHANGED leg,
         \/ Exit(p) \/ Crash(p) \/ seen'[p].state = seen[p].state
  PROVE  FilledFromEvidence(p) /\ RowsStay
<1>0. ProcsType  BY DEF TypeOK
<1>1. \A l \in Leg : seen'[p].state[l] = "FILLED" => seen[p].state[l] = "FILLED"
  BY <1>0, BlankReading, ExitFrame DEF Released
<1>2. QED  BY <1>1 DEF FilledFromEvidence, RowsStay

\* Every step of a process but the two that insert legs.
LEMMA EvidenceStep ==
  ASSUME TypeInv, SubmissionInv, NEW p \in Proc, Cycle(p) \/ Refuse(p) \/ Crash(p)
  PROVE  \/ FilledFromEvidence(p) /\ RowsStay
         \/ CreateWorkflow(p) /\ status = "ABSENT"
         \/ InstallBuys(p) /\ Rows(SellLeg) = InStatus(SellLeg, {"FILLED"})
<1> DEFINE Goal == \/ FilledFromEvidence(p) /\ RowsStay
                   \/ CreateWorkflow(p) /\ status = "ABSENT"
                   \/ InstallBuys(p) /\ Rows(SellLeg) = InStatus(SellLeg, {"FILLED"})
<1>0. TypeOK /\ ProcsType /\ WorkflowType  BY DEF TypeInv, TypeOK
<1>s. seen[p] \in SeenType  BY <1>0 DEF ProcsType
<1>d. \A s \in SellLeg : s \notin BuyLeg  BY ConstantsAssumption
<1>e. ASSUME Exit(p) \/ Crash(p) \/ ExitWithoutEffect(p), UNCHANGED leg PROVE Goal
  BY <1>0, <1>e, QuietEvidence DEF ExitWithoutEffect
<1>g. ASSUME NEW label, Goto(p, label), UNCHANGED leg PROVE Goal
  BY <1>0, <1>g, GotoFrame, QuietEvidence DEF Moved
<1>u. UNCHANGED workflow => UNCHANGED leg  BY DEF workflow
<1>k. ASSUME UNCHANGED seen, UNCHANGED leg PROVE Goal
  BY <1>0, <1>k, QuietEvidence
<1>r. RequireReconciliation => UNCHANGED leg  BY DEF RequireReconciliation, workflow
<1>1. CASE Submit(p)
  <2>1. CASE AcquireLock(p)
    BY <1>e, <1>k, <1>u, <2>1 DEF AcquireLock, ExitWithoutEffect
  <2>2. CASE ReadSubmission(p)
    BY <1>e, <1>g, <1>k, <1>u, <2>2 DEF ReadSubmission, ExitWithoutEffect
  <2>3. CASE RecordIntent(p)
    <3>1. CASE UNCHANGED workflow /\ Exit(p)  BY <1>e, <1>u, <3>1
    <3>2. CASE \E l : /\ leg' = [leg EXCEPT ![l] = "INTENT_RECORDED"]
                      /\ leg[l] \in {"PLANNED", "INTENT_RECORDED"}
                      /\ UNCHANGED seen
      BY <1>0, <3>2 DEF FilledFromEvidence, RowsStay, WorkflowType, Leg
    <3>3. QED  BY <2>3, <3>1, <3>2 DEF RecordIntent
  <2>4. CASE PostAccepted(p) \/ PostReplyLost(p) \/ PostRefused(p)
    BY <1>g, <1>u, <2>4 DEF PostAccepted, PostReplyLost, PostRefused
  <2>5. CASE PostFailed(p)  BY <1>e, <1>r, <2>5 DEF PostFailed
  <2>6. CASE RecordAcceptance(p)
    <3>1. \A l \in Leg : leg'[l] = leg[l] \/ (leg[l] # "ABSENT" /\ leg'[l] # "FILLED")
      BY <1>0, <2>6 DEF RecordAcceptance, WorkflowType
    <3>2. \A l \in Leg : seen'[p].state[l] = "FILLED" => seen[p].state[l] = "FILLED"
      BY <1>0, <2>6, BlankReading, ExitFrame DEF RecordAcceptance, Released
    <3>3. QED  BY <3>1, <3>2 DEF FilledFromEvidence, RowsStay, Leg
  <2>7. QED  BY <1>1, <2>1, <2>2, <2>3, <2>4, <2>5, <2>6 DEF Submit
<1>2. CASE BeginReconcile(p)
  <2>1. UNCHANGED leg  BY <1>2, <1>u DEF BeginReconcile
  <2>2. CASE Exit(p)  BY <1>e, <2>1, <2>2
  <2>3. CASE ~Exit(p)
    <3>1. seen'[p].state = Blank.state
      BY <1>0, <1>2, <2>3 DEF BeginReconcile, ProcsType, Blank
    <3>2. QED  BY <2>1, <3>1, BlankReading DEF FilledFromEvidence, RowsStay
  <2>4. QED  BY <2>2, <2>3
<1>3. CASE ReadHistory(p)
  <2>1. UNCHANGED leg  BY <1>3, <1>u DEF ReadHistory
  <2>2. seen'[p].state = [l \in Leg |-> IF l \in seen[p].sub
                            THEN Canonical(hist[l], l \in seen[p].pending)
                            ELSE "NONE"]
    BY <1>0, <1>3, <1>s DEF ReadHistory, ProcsType, SeenType
  <2>3. ASSUME NEW h, NEW b, Canonical(h, b) = "FILLED" PROVE h.st = "FILLED"
    BY <2>3 DEF Canonical
  <2>4. ASSUME NEW l \in Leg, seen'[p].state[l] = "FILLED" PROVE hist[l].st = "FILLED"
    BY <2>2, <2>3, <2>4
  <2>5. QED  BY <2>1, <2>4 DEF FilledFromEvidence, RowsStay
<1>4. CASE ApplyFill(p)
  BY <1>4, <1>k, <1>u DEF ApplyFill, procs
<1>5. CASE Judge(p)
  <2>1. UNCHANGED leg  BY <1>5, <1>u DEF Judge
  <2>2. Exit(p) \/ seen'[p].state = seen[p].state
    BY <1>0, <1>5, <1>s DEF Judge, ProcsType, SeenType
  <2>3. QED  BY <1>0, <2>1, <2>2, QuietEvidence
<1>6. CASE MarkSell(p) \/ PersistBuyProgress(p)
  <2>1. Exit(p) /\ pc[p] = "mark"  BY <1>6 DEF MarkSell, PersistBuyProgress
  <2>2. CASE UNCHANGED workflow  BY <1>e, <1>u, <2>1, <2>2
  <2>3. CASE leg' = SeenStatuses(p)
    <3>1. \A l \in Leg : leg'[l] = IF l \in seen[p].sub THEN seen[p].state[l] ELSE leg[l]
      BY <2>3 DEF SeenStatuses
    <3>2. \A l \in Leg : seen'[p].state[l] # "FILLED"
      BY <1>0, <2>1, BlankReading, ExitFrame DEF Released
    <3>3. \A l \in seen[p].sub : leg[l] # "ABSENT"
      BY DEF SubmissionInv, SeenWasAccepted, Unsent
    <3>4. QED  BY <3>1, <3>2, <3>3 DEF FilledFromEvidence, RowsStay, Leg
  <2>4. QED  BY <1>6, <2>2, <2>3 DEF MarkSell, PersistBuyProgress
<1>7. CASE MarkBuyComplete(p)
  <2>1. Exit(p)  BY <1>7 DEF MarkBuyComplete
  <2>2. CASE UNCHANGED workflow  BY <1>e, <1>u, <2>1, <2>2
  <2>3. CASE leg' = [l \in Leg |-> IF l \in Rows(BuyLeg) THEN "FILLED" ELSE leg[l]]
    <3>1. \A l \in Leg : seen'[p].state[l] # "FILLED"
      BY <1>0, <2>1, BlankReading, ExitFrame DEF Released
    <3>2. \A s \in SellLeg : leg'[s] = leg[s]  BY <1>d, <2>3 DEF Rows, Leg
    <3>3. RowsStay  BY <2>3 DEF Rows, RowsStay
    <3>4. QED  BY <3>1, <3>2, <3>3 DEF FilledFromEvidence
  <2>4. QED  BY <1>7, <2>2, <2>3 DEF MarkBuyComplete
<1>8. CASE Classify(p) \/ PersistAmbiguous(p) \/ Refuse(p) \/ StartWorkflow(p) \/ Crash(p)
  BY <1>8, <1>e, <1>g, <1>r, <1>u
  DEF Classify, PersistAmbiguous, Refuse, StartWorkflow, Crash, ExitWithoutEffect
<1>9. CASE CreateWorkflow(p)
  <2>1. status = "ABSENT" \/ UNCHANGED workflow
    BY <1>9 DEF CreateWorkflow, ExitWithoutEffect
  <2>2. Exit(p) \/ Goto(p, "start")
    BY <1>9 DEF CreateWorkflow, ExitWithoutEffect
  <2>3. QED  BY <1>9, <1>e, <1>g, <1>u, <2>1, <2>2
<1>10. CASE InstallBuys(p)
  BY <1>10, <1>e, <1>u DEF InstallBuys
<1>11. QED
  BY <1>1, <1>2, <1>3, <1>4, <1>5, <1>6, <1>7, <1>8, <1>9, <1>10 DEF Cycle, Reconcile

\* What a step may do to the broker's books: an order that has filled stays
\* filled, one that was never sent does not exist, and the history repeats only
\* what is so.
OrdersAdvance ==
  /\ \A l \in Leg : order[l] = "FILLED" => order'[l] = "FILLED"
  /\ \A l \in Leg : posts'[l] = 0 => order'[l] = "NONE"
  /\ \A l \in Leg : hist'[l].st = "FILLED" => order'[l] = "FILLED"

LEMMA OrdersStep ==
  ASSUME TypeInv, SubmissionInv, FillInv, Next
  PROVE  OrdersAdvance
<1>0. BrokerType  BY DEF TypeInv, TypeOK
<1>i. /\ \A l \in Leg : posts[l] = 0 => order[l] = "NONE"
      /\ \A l \in Leg : hist[l].st = "FILLED" => order[l] = "FILLED"
  BY DEF FillInv, FilledIsStable, FilledIsTrue
<1>1. CASE UNCHANGED broker  BY <1>1, <1>i DEF broker, OrdersAdvance
<1>2. ASSUME NEW p \in Proc, pc[p] = "post", NewOrder(cur[p]) PROVE OrdersAdvance
  <2>1. cur[p] \in Leg /\ posts[cur[p]] = 0
    BY <1>2 DEF SubmissionInv, IntentPrecedesPost
  <2>2. order[cur[p]] = "NONE"  BY <1>i, <2>1
  <2>3. /\ posts' = [posts EXCEPT ![cur[p]] = @ + 1]
        /\ order' = [order EXCEPT ![cur[p]] = "OPEN"]
        /\ hist' = [hist EXCEPT ![cur[p]] = [st |-> "NONE", n |-> 0]]
    BY <1>2 DEF NewOrder
  <2>4. \A l \in Leg : order[l] = "FILLED" => l # cur[p]  BY <2>2
  <2>5. \A l \in Leg : order[l] = "FILLED" => order'[l] = "FILLED"
    BY <1>0, <2>3, <2>4 DEF BrokerType
  <2>6. posts'[cur[p]] = 1  BY <1>0, <2>1, <2>3 DEF BrokerType
  <2>7. \A l \in Leg : posts'[l] = 0 => order'[l] = "NONE"
    BY <1>0, <1>i, <2>1, <2>3, <2>6 DEF BrokerType
  <2>8. \A l \in Leg : hist'[l].st = "FILLED" => hist[l].st = "FILLED"
    BY <1>0, <2>1, <2>3 DEF BrokerType
  <2>9. QED  BY <1>i, <2>5, <2>7, <2>8 DEF OrdersAdvance
<1>3. ASSUME NEW l \in Leg, FillUnit(l) \/ Kill(l) PROVE OrdersAdvance
  <2>1. order[l] = "OPEN" /\ posts' = posts  BY <1>3 DEF FillUnit, Kill
  <2>2. \A m \in Leg \ {l} : order'[m] = order[m]
    BY <1>0, <1>3 DEF FillUnit, Kill, BrokerType
  <2>3. hist' = hist \/ \E n : hist' = [hist EXCEPT ![l] = [st |-> order'[l], n |-> n]]
    BY <1>0, <1>3 DEF FillUnit, Kill, Publish, BrokerType
  <2>4. \A m \in Leg : hist'[m].st = "FILLED" => order'[m] = "FILLED"
    BY <1>0, <1>i, <2>1, <2>2, <2>3 DEF BrokerType
  <2>5. QED  BY <1>i, <2>1, <2>2, <2>4 DEF OrdersAdvance
<1>4. ASSUME NEW l \in Leg, ShowHistory(l) PROVE OrdersAdvance
  BY <1>0, <1>4, <1>i DEF ShowHistory, Publish, OrdersAdvance, BrokerType
<1>5. ASSUME NEW p \in Proc, Cycle(p) \/ Refuse(p) \/ Crash(p)
      PROVE  UNCHANGED broker \/ (pc[p] = "post" /\ NewOrder(cur[p]))
  <2>1. ExitWithoutEffect(p) => UNCHANGED broker  BY DEF ExitWithoutEffect
  <2>2. RequireReconciliation => UNCHANGED broker  BY DEF RequireReconciliation
  <2>3. Submit(p) => UNCHANGED broker \/ (pc[p] = "post" /\ NewOrder(cur[p]))
    BY <2>1, <2>2 DEF Submit, AcquireLock, ReadSubmission, RecordIntent,
       PostAccepted, PostReplyLost, PostRefused, PostFailed, RecordAcceptance
  <2>4. Reconcile(p) => UNCHANGED broker
    BY DEF Reconcile, BeginReconcile, ReadHistory, ApplyFill, Judge, MarkSell,
       PersistBuyProgress, MarkBuyComplete
  <2>5. QED
    BY <1>5, <2>1, <2>2, <2>3, <2>4 DEF Cycle, Classify, PersistAmbiguous,
       CreateWorkflow, StartWorkflow, InstallBuys, Refuse, Crash
<1>6. CASE NewClose  BY <1>6, <1>i DEF NewClose, OrdersAdvance
<1>7. QED  BY <1>1, <1>2, <1>3, <1>4, <1>5, <1>6 DEF Next, Trade

\* A step of the broker changes no row and no reading.
LEMMA BrokerFill ==
  ASSUME FillInv, OrdersAdvance, UNCHANGED <<workflow, procs>>
  PROVE  FillInv'
BY DEF FillInv, FilledIsStable, FilledIsTrue, BuysFollowSells, OrdersAdvance, Rows,
   Leg, workflow, procs

\* A step of a process that inserts no leg.
LEMMA EvidenceFill ==
  ASSUME TypeInv, FillInv, OrdersAdvance, NEW p \in Proc, OthersKeep(p),
         FilledFromEvidence(p), RowsStay
  PROVE  FillInv'
<1>i. /\ \A s \in SellLeg : leg[s] = "FILLED" => order[s] = "FILLED"
      /\ \A l \in Leg : hist[l].st = "FILLED" => order[l] = "FILLED"
      /\ \A q \in Proc : \A l \in Leg :
           seen[q].state[l] = "FILLED" => order[l] = "FILLED"
  BY DEF FillInv, FilledIsTrue
<1>1. FilledIsStable'  BY DEF FilledIsStable, OrdersAdvance
<1>2. \A s \in SellLeg : leg'[s] = "FILLED" => order'[s] = "FILLED"
  BY <1>i DEF FilledFromEvidence, OrdersAdvance, Leg
<1>3. ASSUME NEW q \in Proc, NEW l \in Leg, seen'[q].state[l] = "FILLED"
      PROVE  order'[l] = "FILLED"
  <2>1. CASE q = p  BY <1>3, <1>i, <2>1 DEF FilledFromEvidence, OrdersAdvance
  <2>2. CASE q # p  BY <1>3, <1>i, <2>2 DEF OthersKeep, OrdersAdvance
  <2>3. QED  BY <2>1, <2>2
<1>4. FilledIsTrue'  BY <1>2, <1>3 DEF FilledIsTrue, OrdersAdvance
<1>5. BuysFollowSells'
  BY DEF FillInv, BuysFollowSells, RowsStay, Rows, OrdersAdvance, Leg
<1>6. QED  BY <1>1, <1>4, <1>5 DEF FillInv

\* BUY rows are installed when every SELL row is FILLED, and SELL rows when
\* there is no row at all.
LEMMA InsertFill ==
  ASSUME TypeInv, SubmissionInv, FillInv, OrdersAdvance, NEW p \in Proc,
         \/ CreateWorkflow(p) /\ status = "ABSENT"
         \/ InstallBuys(p) /\ Rows(SellLeg) = InStatus(SellLeg, {"FILLED"})
  PROVE  FillInv'
<1>0. TypeOK /\ ProcsType /\ WorkflowType  BY DEF TypeInv, TypeOK
<1>d. \A s \in SellLeg : s \notin BuyLeg  BY ConstantsAssumption
<1>f. OthersKeep(p)  BY <1>0, StepFrame DEF Cycle
<1>s. \A l \in Leg : seen'[p].state[l] = "FILLED" => seen[p].state[l] = "FILLED"
  <2>1. Exit(p) \/ \E label : Goto(p, label)
    BY DEF CreateWorkflow, InstallBuys, ExitWithoutEffect
  <2>2. QED  BY <1>0, <2>1, BlankReading, ExitFrame, GotoFrame DEF Released, Moved
<1>1. CASE UNCHANGED leg
  BY <1>1, <1>f, <1>s, EvidenceFill DEF FilledFromEvidence, RowsStay
<1>2. CASE CreateWorkflow(p) /\ status = "ABSENT" /\ ~UNCHANGED leg
  <2>1. PICK S \in SUBSET SellLeg :
          leg' = [l \in Leg |-> IF l \in S THEN "PLANNED" ELSE leg[l]]
    BY <1>2 DEF CreateWorkflow, ExitWithoutEffect, workflow
  <2>2. \A l \in Leg : leg[l] = "ABSENT"
    BY <1>2 DEF SubmissionInv, AbsentIsEmpty
  <2>3. \A b \in BuyLeg : leg'[b] = "ABSENT"  BY <1>d, <2>1, <2>2 DEF Leg
  <2>4. BuysFollowSells'  BY <2>3 DEF BuysFollowSells
  <2>5. \A s \in SellLeg : leg'[s] # "FILLED"  BY <2>1, <2>2 DEF Leg
  <2>6. QED
    BY <1>f, <1>s, <2>4, <2>5
    DEF FillInv, FilledIsStable, FilledIsTrue, OrdersAdvance, OthersKeep
<1>3. CASE /\ InstallBuys(p) /\ Rows(SellLeg) = InStatus(SellLeg, {"FILLED"})
           /\ ~UNCHANGED leg
  <2>1. PICK B \in SUBSET BuyLeg :
          leg' = [l \in Leg |-> IF l \in B THEN "PLANNED" ELSE leg[l]]
    BY <1>3 DEF InstallBuys, workflow
  <2>2. \A s \in SellLeg : leg'[s] = leg[s]  BY <1>d, <2>1 DEF Leg
  <2>3. \A s \in SellLeg : leg[s] # "ABSENT" => order'[s] = "FILLED"
    BY <1>3 DEF Rows, InStatus, FillInv, FilledIsTrue, OrdersAdvance, Leg
  <2>4. BuysFollowSells'  BY <2>2, <2>3 DEF BuysFollowSells, Rows
  <2>5. \A s \in SellLeg : leg'[s] = "FILLED" => order'[s] = "FILLED"
    BY <2>2, <2>3
  <2>6. QED
    BY <1>f, <1>s, <2>4, <2>5
    DEF FillInv, FilledIsStable, FilledIsTrue, OrdersAdvance, OthersKeep
<1>4. QED  BY <1>1, <1>2, <1>3

LEMMA FillStep ==
  TypeInv /\ SubmissionInv /\ FillInv /\ [Next]_vars => FillInv'
<1> SUFFICES ASSUME TypeInv, SubmissionInv, FillInv, [Next]_vars PROVE FillInv'
  OBVIOUS
<1>0. ProcsType  BY DEF TypeInv, TypeOK
<1>1. ASSUME NEW p \in Proc, Cycle(p) \/ Refuse(p) \/ Crash(p) PROVE FillInv'
  <2>1. OrdersAdvance  BY <1>1, OrdersStep DEF Next
  <2>2. OthersKeep(p)  BY <1>0, <1>1, StepFrame
  <2>3. QED  BY <1>1, <2>1, <2>2, EvidenceStep, EvidenceFill, InsertFill
<1>2. CASE (\E l \in Leg : Trade(l) \/ ShowHistory(l)) \/ NewClose
  <2>1. OrdersAdvance  BY <1>2, OrdersStep DEF Next
  <2>2. UNCHANGED <<workflow, procs>>
    BY <1>2 DEF Trade, FillUnit, Kill, ShowHistory, NewClose
  <2>3. QED  BY <2>1, <2>2, BrokerFill
<1>3. CASE UNCHANGED vars
  BY <1>3 DEF vars, workflow, broker, procs, FillInv, FilledIsStable, FilledIsTrue,
     BuysFollowSells, Rows
<1>4. QED  BY <1>1, <1>2, <1>3 DEF Next

\* A BUY order exists only once every SELL of the plan has filled, for any number
\* of legs and of concurrent cycles, whatever the history lags and whoever dies.
THEOREM SellsBeforeBuys == Spec => []SellsFillBeforeBuys
<1>1. Init => SubmissionInv /\ FillInv
  BY DEF Init, SubmissionInv, AtMostOneOrderPerLeg, LockExcludes, BatchIsPlanned,
     IntentPrecedesPost, UnsentHasNoOrder, SeenWasAccepted, AbsentIsEmpty, Blank,
     Submitting, FillInv, FilledIsStable, FilledIsTrue, BuysFollowSells, Leg
<1>2. TypeInv /\ SubmissionInv /\ FillInv => SellsFillBeforeBuys
  BY DEF TypeInv, TypeOK, BrokerType, SubmissionInv, UnsentHasNoOrder, Unsent,
     FillInv, BuysFollowSells, SellsFillBeforeBuys, Leg
<1>3. QED
  BY <1>1, <1>2, InitType, TypeStep, SubmissionStep, FillStep, PTL DEF Spec

-----------------------------------------------------------------------------
(* Who writes what *)

ProcessStep(p) == Cycle(p) \/ Refuse(p) \/ Crash(p)
BrokerMoves ==
  (\E l \in Leg : Trade(l) \/ ShowHistory(l)) \/ NewClose

LEMMA NextCases ==
  Next => (\E p \in Proc : ProcessStep(p)) \/ BrokerMoves
BY DEF Next, ProcessStep, BrokerMoves

\* The broker's books change by a POST or by themselves, the ledger by a fill.
LEMMA ProcessWrites ==
  ASSUME NEW p \in Proc, ProcessStep(p)
  PROVE  /\ UNCHANGED broker \/ PostAccepted(p) \/ PostReplyLost(p)
         /\ UNCHANGED capital \/ ApplyFill(p)
<1>e. ExitWithoutEffect(p) => UNCHANGED <<broker, capital>>  BY DEF ExitWithoutEffect
<1>r. RequireReconciliation => UNCHANGED <<broker, capital>>
  BY DEF RequireReconciliation
<1>1. Submit(p) => /\ UNCHANGED broker \/ PostAccepted(p) \/ PostReplyLost(p)
                   /\ UNCHANGED capital
  BY <1>e, <1>r DEF Submit, AcquireLock, ReadSubmission, RecordIntent, PostAccepted,
     PostReplyLost, PostRefused, PostFailed, RecordAcceptance
<1>2. Reconcile(p) => UNCHANGED broker /\ (UNCHANGED capital \/ ApplyFill(p))
  BY DEF Reconcile, BeginReconcile, ReadHistory, Judge, MarkSell, ApplyFill,
     PersistBuyProgress, MarkBuyComplete
<1>3. QED
  BY <1>e, <1>r, <1>1, <1>2 DEF ProcessStep, Cycle, Classify, PersistAmbiguous,
     CreateWorkflow, StartWorkflow, InstallBuys, Refuse, Crash

\* A step of the broker or the market touches neither rows nor processes.
LEMMA BrokerFrame ==
  BrokerMoves => UNCHANGED <<workflow, capital, procs>> /\ posts' = posts
BY DEF BrokerMoves, Trade, FillUnit, Kill, ShowHistory, NewClose

-----------------------------------------------------------------------------
(* The books of the broker and of the ledger *)

\* What any step may do to them: they only grow, and an order is open that was
\* open before or that its submitter has just posted.
BooksGrow ==
  /\ \A l \in Leg : filled'[l] \in Nat /\ filled[l] <= filled'[l]
  /\ \A l \in Leg : posts[l] <= posts'[l]
  /\ \A l \in Leg : order'[l] = "OPEN" =>
       order[l] = "OPEN" \/ \E p \in Proc : pc[p] = "post" /\ cur[p] = l
  /\ ledger \subseteq ledger'

\* A new order starts with empty books.
LEMMA NewOrderBooks ==
  ASSUME TypeInv, FilledIsStable, BrokerBooks, NEW c \in Leg, posts[c] = 0,
         NewOrder(c)
  PROVE  /\ posts' = [posts EXCEPT ![c] = 1] /\ filled' = filled
         /\ order[c] = "NONE" /\ order' = [order EXCEPT ![c] = "OPEN"]
         /\ BrokerBooks'
<1>0. BrokerType  BY DEF TypeInv, TypeOK
<1>1. posts' = [posts EXCEPT ![c] = 1]  BY DEF NewOrder
<1>2. filled[c] = 0 /\ order[c] = "NONE"  BY DEF BrokerBooks, FilledIsStable
<1>3. filled' = filled  BY <1>0, <1>2 DEF NewOrder, BrokerType
<1>4. order' = [order EXCEPT ![c] = "OPEN"]  BY DEF NewOrder
<1>5. PICK x \in Price : price' = [price EXCEPT ![c] = x]  BY DEF NewOrder
<1>6. hist' = [hist EXCEPT ![c] = [st |-> "NONE", n |-> 0]]  BY DEF NewOrder
<1>7. ASSUME NEW l \in Leg
      PROVE /\ posts'[l] = 0 => filled'[l] = 0 /\ hist'[l].n = 0
            /\ posts'[l] > 0 => order'[l] # "NONE" /\ price'[l] \in Price
            /\ order'[l] = "FILLED" => filled'[l] = Qty
            /\ hist'[l].n <= filled'[l] /\ (hist'[l].st = "FILLED" => hist'[l].n = Qty)
  <2>1. CASE l = c
    BY <1>0, <1>1, <1>2, <1>3, <1>4, <1>5, <1>6, <2>1 DEF BrokerType
  <2>2. CASE l # c
    BY <1>0, <1>1, <1>3, <1>4, <1>5, <1>6, <2>2 DEF BrokerType, BrokerBooks
  <2>3. QED  BY <2>1, <2>2
<1>8. BrokerBooks'  BY <1>7 DEF BrokerBooks
<1>9. QED  BY <1>1, <1>2, <1>3, <1>4, <1>8

\* What the broker does on its own.
LEMMA BrokerMovesBooks ==
  ASSUME TypeInv, FillInv, BrokerBooks, BrokerMoves
  PROVE  BrokerBooks' /\ BooksGrow
<1>0. BrokerType /\ OpenIsUnfinished  BY DEF TypeInv, TypeOK
<1>q. Qty \in Nat /\ 0 < Qty  BY ConstantsAssumption
<1>o. \A l \in Leg : posts[l] \in Nat /\ (order[l] # "NONE" => posts[l] > 0)
  BY <1>0 DEF BrokerType, FillInv, FilledIsStable
<1>k. ledger' = ledger /\ posts' = posts  BY BrokerFrame DEF capital
<1>1. ASSUME NEW l \in Leg, FillUnit(l) PROVE BrokerBooks' /\ BooksGrow
  <2>1. /\ filled' = [filled EXCEPT ![l] = filled[l] + 1]
        /\ order' = [order EXCEPT ![l] = IF filled[l] + 1 = Qty THEN "FILLED" ELSE "OPEN"]
        /\ order[l] = "OPEN" /\ price' = price
        /\ hist' = hist \/ hist' = [hist EXCEPT ![l] =
             [st |-> IF filled[l] + 1 = Qty THEN "FILLED" ELSE "OPEN", n |-> filled[l] + 1]]
    BY <1>1 DEF FillUnit, Publish
  <2>2. \A m \in Leg : filled[m] \in Nat /\ hist[m].n \in Nat  BY <1>0, <1>q DEF BrokerType
  <2>3. BooksGrow
    BY <1>0, <1>k, <1>o, <2>1, <2>2 DEF BooksGrow, BrokerType
  <2>h. hist[l].st # "FILLED"  BY <2>1 DEF FillInv, FilledIsTrue
  <2>4. ASSUME NEW m \in Leg, m # l
        PROVE filled'[m] = filled[m] /\ order'[m] = order[m] /\ hist'[m] = hist[m]
    BY <1>0, <2>1, <2>4 DEF BrokerType
  <2>5. /\ filled'[l] = filled[l] + 1
        /\ order'[l] = IF filled[l] + 1 = Qty THEN "FILLED" ELSE "OPEN"
        /\ \/ hist'[l] = hist[l]
           \/ hist'[l] = [st |-> order'[l], n |-> filled'[l]]
    BY <1>0, <2>1 DEF BrokerType
  <2>6. ASSUME NEW m \in Leg
        PROVE /\ posts'[m] = 0 => filled'[m] = 0 /\ hist'[m].n = 0
              /\ posts'[m] > 0 => order'[m] # "NONE" /\ price'[m] \in Price
              /\ order'[m] = "FILLED" => filled'[m] = Qty
              /\ hist'[m].n <= filled'[m]
              /\ hist'[m].st = "FILLED" => hist'[m].n = Qty
    <3>1. CASE m = l
      <4>1. posts[l] > 0 /\ price[l] \in Price /\ hist[l].n <= filled[l]
        BY <1>o, <2>1 DEF BrokerBooks
      <4>2. CASE hist'[l] = hist[l]
        BY <1>k, <2>1, <2>2, <2>5, <2>h, <3>1, <4>1, <4>2
      <4>3. CASE hist'[l] = [st |-> order'[l], n |-> filled'[l]]
        <5>1. hist'[l].n = filled'[l] /\ hist'[l].st = order'[l]  BY <4>3
        <5>2. QED  BY <1>k, <2>1, <2>2, <2>5, <3>1, <4>1, <5>1
      <4>4. QED  BY <2>5, <4>2, <4>3
    <3>2. CASE m # l  BY <1>k, <2>1, <2>4, <3>2 DEF BrokerBooks
    <3>3. QED  BY <3>1, <3>2
  <2>7. BrokerBooks'  BY <2>6 DEF BrokerBooks
  <2>8. QED  BY <2>3, <2>7
<1>2. ASSUME NEW l \in Leg, Kill(l) \/ ShowHistory(l) PROVE BrokerBooks' /\ BooksGrow
  <2>1. /\ filled' = filled /\ price' = price
        /\ order' = order \/ order' = [order EXCEPT ![l] = "DEAD"]
        /\ order[l] # "NONE"
        /\ \/ hist' = hist
           \/ hist' = [hist EXCEPT ![l] = [st |-> order'[l], n |-> filled[l]]]
    BY <1>0, <1>2 DEF Kill, ShowHistory, Publish, BrokerType
  <2>2. \A m \in Leg : filled[m] \in Nat  BY <1>0, <1>q DEF BrokerType
  <2>3. BooksGrow
    BY <1>0, <1>k, <1>o, <2>1, <2>2 DEF BooksGrow, BrokerType
  <2>4. ASSUME NEW m \in Leg
        PROVE /\ posts'[m] = 0 => filled'[m] = 0 /\ hist'[m].n = 0
              /\ posts'[m] > 0 => order'[m] # "NONE" /\ price'[m] \in Price
              /\ order'[m] = "FILLED" => filled'[m] = Qty
              /\ hist'[m].n <= filled'[m]
              /\ hist'[m].st = "FILLED" => hist'[m].n = Qty
    <3>1. order'[m] = order[m] \/ order'[m] = "DEAD"
      BY <1>0, <2>1 DEF BrokerType
    <3>2. CASE hist'[m] = hist[m]
      BY <1>k, <1>o, <2>1, <2>2, <3>1, <3>2 DEF BrokerBooks
    <3>3. CASE m = l /\ hist'[m] = [st |-> order'[l], n |-> filled[l]]
      <4>1. hist'[m].n = filled[m] /\ hist'[m].st = order'[m]  BY <3>3
      <4>2. posts[m] > 0  BY <1>o, <2>1, <3>3
      <4>3. QED  BY <1>k, <2>1, <2>2, <3>1, <4>1, <4>2 DEF BrokerBooks
    <3>4. QED  BY <1>0, <2>1, <3>2, <3>3 DEF BrokerType
  <2>5. BrokerBooks'  BY <2>4 DEF BrokerBooks
  <2>6. QED  BY <2>3, <2>5
<1>3. CASE NewClose
  <2>1. UNCHANGED <<order, filled, price, hist>>  BY <1>3 DEF NewClose
  <2>2. \A m \in Leg : filled[m] \in Nat  BY <1>0, <1>q DEF BrokerType
  <2>3. QED  BY <1>k, <1>o, <2>1, <2>2 DEF BrokerBooks, BooksGrow
<1>4. QED  BY <1>1, <1>2, <1>3 DEF BrokerMoves, Trade

LEMMA BooksStep ==
  ASSUME TypeInv, SubmissionInv, FillInv, BrokerBooks, Next
  PROVE  BrokerBooks' /\ BooksGrow
<1>0. BrokerType  BY DEF TypeInv, TypeOK
<1>q. Qty \in Nat  BY ConstantsAssumption
<1>n. \A m \in Leg : filled[m] \in Nat /\ posts[m] \in Nat  BY <1>0, <1>q DEF BrokerType
<1>1. ASSUME NEW p \in Proc, ProcessStep(p) PROVE BrokerBooks' /\ BooksGrow
  <2>1. ledger \subseteq ledger'
    BY <1>1, ProcessWrites DEF ApplyFill, capital
  <2>2. CASE UNCHANGED broker
    BY <1>n, <2>1, <2>2 DEF broker, BrokerBooks, BooksGrow
  <2>3. CASE PostAccepted(p) \/ PostReplyLost(p)
    <3>1. pc[p] = "post" /\ NewOrder(cur[p])
      BY <2>3 DEF PostAccepted, PostReplyLost
    <3>2. cur[p] \in Leg /\ posts[cur[p]] = 0
      BY <3>1 DEF SubmissionInv, IntentPrecedesPost
    <3> DEFINE c == cur[p]
    <3>3. /\ posts' = [posts EXCEPT ![c] = 1] /\ filled' = filled
          /\ order' = [order EXCEPT ![c] = "OPEN"] /\ BrokerBooks'
      BY <3>1, <3>2, NewOrderBooks DEF FillInv
    <3>4. BooksGrow
      BY <1>0, <1>n, <2>1, <3>1, <3>2, <3>3 DEF BooksGrow, BrokerType
    <3>5. QED  BY <3>3, <3>4
  <2>4. QED  BY <1>1, <2>2, <2>3, ProcessWrites
<1>2. QED  BY <1>1, NextCases, BrokerMovesBooks

-----------------------------------------------------------------------------
(* The readings: what a process has seen of the broker *)

\* A step other than these four leaves the reading as it is or drops it.
LEMMA ReadingStep ==
  ASSUME ProcsType, NEW p \in Proc, ProcessStep(p)
  PROVE  \/ seen'[p] = Blank /\ pc'[p] = "idle"
         \/ seen'[p] = seen[p] /\ pc'[p] # "mark" /\ pc'[p] # "history"
         \/ BeginReconcile(p) \/ ReadHistory(p) \/ ApplyFill(p) \/ Judge(p)
<1> DEFINE Goal == \/ seen'[p] = Blank /\ pc'[p] = "idle"
                   \/ seen'[p] = seen[p] /\ pc'[p] # "mark" /\ pc'[p] # "history"
<1>e. Exit(p) \/ ExitWithoutEffect(p) \/ Crash(p) => Goal
  BY ExitFrame DEF ExitWithoutEffect, Released
<1>g. ASSUME NEW label, label \notin {"mark", "history"}, Goto(p, label) PROVE Goal
  BY <1>g, GotoFrame DEF Moved
<1> HIDE DEF Goal
<1>1. Submit(p) => Goal
  <2>1. CASE \/ AcquireLock(p) \/ ReadSubmission(p) \/ RecordIntent(p)
             \/ RecordAcceptance(p)
    <3>1. \/ ExitWithoutEffect(p) \/ Exit(p) \/ Goto(p, "unsure")
          \/ seen' = seen /\ \E label : /\ label \notin {"mark", "history"}
                                        /\ pc' = [pc EXCEPT ![p] = label]
      BY <2>1 DEF AcquireLock, ReadSubmission, RecordIntent, RecordAcceptance
    <3>2. QED  BY <1>e, <1>g, <3>1 DEF Goal, ProcsType
  <2>2. CASE PostAccepted(p) \/ PostReplyLost(p) \/ PostRefused(p)
    BY <1>g, <2>2 DEF PostAccepted, PostReplyLost, PostRefused
  <2>3. CASE PostFailed(p)  BY <1>e, <2>3 DEF PostFailed
  <2>4. QED  BY <2>1, <2>2, <2>3 DEF Submit
<1>2. MarkSell(p) \/ PersistBuyProgress(p) \/ MarkBuyComplete(p) => Goal
  BY <1>e DEF MarkSell, PersistBuyProgress, MarkBuyComplete
<1>3. Classify(p) \/ CreateWorkflow(p) => Goal
  <2>1. RecoveryAction \notin {"mark", "history"}  BY DEF RecoveryAction
  <2>2. QED  BY <1>e, <1>g, <2>1 DEF Classify, CreateWorkflow
<1>4. PersistAmbiguous(p) \/ StartWorkflow(p) \/ InstallBuys(p) \/ Refuse(p) => Goal
  BY <1>e DEF PersistAmbiguous, StartWorkflow, InstallBuys, Refuse
<1>5. QED  BY <1>1, <1>2, <1>3, <1>4, <1>e DEF ProcessStep, Cycle, Reconcile, Goal

\* One process's reading is true.
ReadingOf(p) ==
  /\ pc[p] = "mark" => Unapplied(p) = {}
  /\ \A l \in Leg :
       /\ seen[p].fills[l] <= filled[l]
       /\ seen[p].state[l] = "FILLED" => seen[p].fills[l] = Qty
  /\ pc[p] = "mark" /\ seen[p].verdict = "filled" =>
       \A l \in seen[p].sub : seen[p].state[l] = "FILLED"
  /\ pc[p] = "history" =>
       \A l \in seen[p].sub \ seen[p].pending : order[l] # "OPEN"

LEMMA ReadingOfEach == ReadingIsTrue <=> \A p \in Proc : ReadingOf(p)
BY DEF ReadingIsTrue, ReadingOf

\* A reading stays true while its process does not act.
LEMMA ReadingKept ==
  ASSUME TypeInv, SubmissionInv, BooksGrow, NEW p \in Proc, ReadingOf(p),
         pc'[p] = pc[p], seen'[p] = seen[p]
  PROVE  ReadingOf(p)'
<1>0. BrokerType /\ ProcsType  BY DEF TypeInv, TypeOK
<1>t. Qty \in Nat  BY ConstantsAssumption
<1>s. seen[p] \in SeenType  BY <1>0 DEF ProcsType
<1>1. \A l \in Leg : seen[p].fills[l] \in Nat /\ filled[l] \in Nat
  BY <1>0, <1>s, <1>t DEF SeenType, BrokerType
<1>2. \A l \in Leg : filled'[l] \in Nat /\ filled[l] <= filled'[l]  BY DEF BooksGrow
<1>2a. ASSUME NEW l \in Leg PROVE seen[p].fills[l] <= filled'[l]
  <2>1. seen[p].fills[l] <= filled[l]  BY DEF ReadingOf
  <2> QED  BY <1>1, <1>2, <2>1
<1>3. Unapplied(p)' \subseteq Unapplied(p)  BY DEF Unapplied, BooksGrow
<1>4. ASSUME NEW l \in seen[p].sub, pc[p] = "history", l \notin seen[p].pending
      PROVE  order'[l] # "OPEN"
  <2>1. l \in Leg /\ leg[l] # "INTENT_RECORDED" /\ order[l] # "OPEN"
    BY <1>s, <1>4 DEF SeenType, SubmissionInv, SeenWasAccepted, ReadingOf
  <2>2. \A q \in Proc : pc[q] = "post" => cur[q] # l
    BY <2>1 DEF SubmissionInv, IntentPrecedesPost
  <2>3. QED  BY <2>1, <2>2 DEF BooksGrow
<1>5. QED  BY <1>2a, <1>3, <1>4 DEF ReadingOf

LEMMA CanonicalFilled ==
  ASSUME NEW h, NEW b, Canonical(h, b) = "FILLED" PROVE h.st = "FILLED"
BY DEF Canonical

LEMMA VerdictFilled ==
  ASSUME NEW p \in Proc, Verdict(p) = "filled"
  PROVE  \A l \in seen[p].sub : seen[p].state[l] = "FILLED"
<1> DEFINE states == {seen[p].state[l] : l \in seen[p].sub}
<1>1. states = {"FILLED"}
  <2>1. Verdict(p) =
      CASE "UNKNOWN" \in states -> "unknown"
       [] "UNKNOWN" \notin states /\ "FAILED" \in states -> "failed"
       [] states \cap {"UNKNOWN", "FAILED"} = {} /\ "PARTIAL" \in states -> "partial"
       [] states = {"FILLED"} ->
            IF seen[p].phase = "SELL" THEN "filled"
            ELSE IF InDebt THEN "breach"
            ELSE IF InStatus(BuyLeg, {"PLANNED"}) \ seen[p].sub # {} THEN "next"
            ELSE "done"
       [] OTHER -> "pending"
    BY DEF Verdict
  <2> HIDE DEF states
  <2>2. QED  BY <2>1
<1>2. QED  BY <1>1

\* The process that acts reads what is so.
LEMMA ReadingMade ==
  ASSUME TypeInv, SubmissionInv, BrokerBooks, BooksGrow, NEW p \in Proc, ReadingOf(p),
         ProcessStep(p)
  PROVE  ReadingOf(p)'
<1>0. BrokerType /\ ProcsType  BY DEF TypeInv, TypeOK
<1>t. Qty \in Nat /\ 0 < Qty  BY ConstantsAssumption
<1>s. seen[p] \in SeenType  BY <1>0 DEF ProcsType
<1>f. \A l \in Leg : seen[p].fills[l] \in Nat /\ filled[l] \in Nat /\ filled'[l] \in Nat
  BY <1>0, <1>s, <1>t DEF SeenType, BrokerType, BooksGrow
<1>b. ASSUME seen'[p].fills = Blank.fills, seen'[p].state = Blank.state,
             pc'[p] # "mark", pc'[p] # "history" \/
               \A l \in seen'[p].sub \ seen'[p].pending : order'[l] # "OPEN"
      PROVE  ReadingOf(p)'
  <2>1. \A l \in Leg : seen'[p].fills[l] = 0 /\ seen'[p].state[l] = "NONE"
    BY <1>b DEF Blank
  <2>2. \A l \in Leg : 0 <= filled'[l]  BY <1>f
  <2>3. QED  BY <1>b, <2>1, <2>2 DEF ReadingOf
<1>1. CASE seen'[p] = Blank /\ pc'[p] = "idle"  BY <1>1, <1>b
<1>2. CASE seen'[p] = seen[p] /\ pc'[p] # "mark" /\ pc'[p] # "history"
  <2>1. ASSUME NEW l \in Leg PROVE seen[p].fills[l] <= filled'[l]
    <3>1. seen[p].fills[l] <= filled[l] /\ filled[l] <= filled'[l]
      BY DEF ReadingOf, BooksGrow
    <3>2. QED  BY <1>f, <3>1
  <2>2. QED  BY <1>2, <2>1 DEF ReadingOf
<1>3. CASE BeginReconcile(p)
  <2>1. CASE Exit(p)  BY <1>0, <1>b, <2>1, ExitFrame DEF Released
  <2>2. CASE ~Exit(p)
    <3> DEFINE sub == Rows(PhaseSide) \ InStatus(PhaseSide, {"PLANNED"})
    <3>1. /\ seen' = [seen EXCEPT ![p] =
                        [Blank EXCEPT !.phase = phase, !.sub = sub,
                                      !.pending = {l \in sub : order[l] = "OPEN"}]]
          /\ pc' = [pc EXCEPT ![p] = "history"] /\ order' = order
      BY <1>3, <2>2 DEF BeginReconcile, broker
    <3> HIDE DEF sub
    <3>2. /\ seen'[p].fills = Blank.fills /\ seen'[p].state = Blank.state
          /\ seen'[p].sub = sub /\ seen'[p].pending = {l \in sub : order[l] = "OPEN"}
          /\ pc'[p] = "history"
      BY <1>0, <3>1 DEF ProcsType, Blank
    <3>3. QED  BY <1>b, <3>1, <3>2
  <2>3. QED  BY <2>1, <2>2
<1>4. CASE ReadHistory(p)
  <2>1. /\ seen'[p].state = [l \in Leg |-> IF l \in seen[p].sub
                              THEN Canonical(hist[l], l \in seen[p].pending)
                              ELSE "NONE"]
        /\ seen'[p].fills = [l \in Leg |-> IF l \in seen[p].sub THEN hist[l].n ELSE 0]
        /\ pc'[p] = "apply" /\ filled' = filled
    BY <1>0, <1>4, <1>s DEF ReadHistory, ProcsType, SeenType, broker
  <2>2. \A l \in Leg : hist[l].n <= filled[l] /\ (hist[l].st = "FILLED" => hist[l].n = Qty)
    BY DEF BrokerBooks
  <2>3. \A l \in Leg : seen'[p].fills[l] <= filled'[l]  BY <1>f, <2>1, <2>2
  <2>4. ASSUME NEW l \in Leg, seen'[p].state[l] = "FILLED"
        PROVE  seen'[p].fills[l] = Qty
    <3>1. l \in seen[p].sub /\ Canonical(hist[l], l \in seen[p].pending) = "FILLED"
      BY <2>1, <2>4
    <3>2. hist[l].st = "FILLED"  BY <3>1, CanonicalFilled
    <3>3. QED  BY <2>1, <2>2, <3>1, <3>2
  <2>5. QED  BY <2>1, <2>3, <2>4 DEF ReadingOf
<1>5. CASE ApplyFill(p)
  <2>1. seen'[p] = seen[p] /\ pc'[p] = pc[p]  BY <1>5 DEF ApplyFill, procs
  <2>2. QED  BY <2>1, ReadingKept
<1>6. CASE Judge(p)
  <2>1. CASE Exit(p)  BY <1>0, <1>b, <2>1, ExitFrame DEF Released
  <2>2. CASE ~Exit(p)
    <3>1. /\ seen'[p].state = seen[p].state /\ seen'[p].fills = seen[p].fills
          /\ seen'[p].sub = seen[p].sub /\ seen'[p].verdict = Verdict(p)
          /\ pc'[p] = "mark" /\ filled' = filled /\ ledger' = ledger
          /\ Unapplied(p) = {}
      BY <1>0, <1>6, <1>s, <2>2 DEF Judge, ProcsType, SeenType, broker, capital
    <3>2. Unapplied(p)' = {}  BY <3>1 DEF Unapplied
    <3>3. seen'[p].verdict = "filled" =>
            \A l \in seen'[p].sub : seen'[p].state[l] = "FILLED"
      BY <3>1, VerdictFilled
    <3>4. QED  BY <3>1, <3>2, <3>3 DEF ReadingOf
  <2>3. QED  BY <2>1, <2>2
<1>7. QED  BY <1>0, <1>1, <1>2, <1>3, <1>4, <1>5, <1>6, ReadingStep

LEMMA ReadingsStep ==
  ASSUME TypeInv, SubmissionInv, BrokerBooks, BooksGrow, ReadingIsTrue, Next
  PROVE  ReadingIsTrue'
<1>0. ProcsType  BY DEF TypeInv, TypeOK
<1>r. \A q \in Proc : ReadingOf(q)  BY ReadingOfEach
<1>1. ASSUME NEW p \in Proc, ProcessStep(p), NEW q \in Proc PROVE ReadingOf(q)'
  <2>1. CASE q = p  BY <1>1, <1>r, <2>1, ReadingMade
  <2>2. CASE q # p
    <3>1. pc'[q] = pc[q] /\ seen'[q] = seen[q]
      BY <1>0, <1>1, <2>2, StepFrame DEF ProcessStep, OthersKeep
    <3>2. QED  BY <1>r, <3>1, ReadingKept
  <2>3. QED  BY <2>1, <2>2
<1>2. ASSUME BrokerMoves, NEW q \in Proc PROVE ReadingOf(q)'
  <2>1. pc'[q] = pc[q] /\ seen'[q] = seen[q]  BY <1>2, BrokerFrame DEF procs
  <2>2. QED  BY <1>r, <2>1, ReadingKept
<1>3. \A q \in Proc : ReadingOf(q)'  BY <1>1, <1>2, NextCases
<1>4. QED  BY <1>3 DEF ReadingIsTrue, ReadingOf

\* Only what the broker has executed is in the ledger.
LEMMA LedgerStep ==
  ASSUME TypeInv, BooksGrow, ReadingIsTrue, LedgerIsTrue, Next
  PROVE  LedgerIsTrue'
<1>0. CapitalType /\ BrokerType  BY DEF TypeInv, TypeOK
<1>t. Qty \in Nat  BY ConstantsAssumption
<1>1. ASSUME NEW f \in ledger PROVE f[2] <= filled'[f[1]]
  <2>1. f[1] \in Leg /\ f[2] \in Nat  BY <1>0, <1>t DEF CapitalType
  <2>2. f[2] <= filled[f[1]] /\ filled[f[1]] <= filled'[f[1]]
       /\ filled'[f[1]] \in Nat
    BY <2>1 DEF LedgerIsTrue, BooksGrow
  <2>3. filled[f[1]] \in Nat  BY <1>0, <1>t, <2>1 DEF BrokerType
  <2>4. QED  BY <2>1, <2>2, <2>3
<1>2. CASE ledger' = ledger  BY <1>1, <1>2 DEF LedgerIsTrue
<1>3. ASSUME NEW p \in Proc, ApplyFill(p) PROVE LedgerIsTrue'
  <2>1. PICK f \in Unapplied(p) : ledger' = ledger \cup {f}  BY <1>3 DEF ApplyFill
  <2>2. f[1] \in Leg /\ f[2] \in 1..Qty /\ f[2] <= seen[p].fills[f[1]]
    BY <2>1 DEF Unapplied
  <2>3. seen[p].fills[f[1]] <= filled[f[1]]  BY <2>2 DEF ReadingIsTrue
  <2>4. seen[p].fills[f[1]] \in 0..Qty /\ filled[f[1]] \in 0..Qty /\ filled' = filled
    BY <1>0, <1>3, <2>2 DEF TypeInv, TypeOK, ProcsType, SeenType, BrokerType, ApplyFill,
       broker
  <2>5. f[2] <= filled'[f[1]]  BY <1>t, <2>2, <2>3, <2>4
  <2>6. QED  BY <1>1, <2>1, <2>5 DEF LedgerIsTrue
<1>4. QED  BY <1>2, <1>3, NextCases, ProcessWrites, BrokerFrame DEF capital

-----------------------------------------------------------------------------
(* The rows: which step writes the workflow and its legs *)

LEMMA WorkflowWrites ==
  ASSUME NEW p \in Proc, ProcessStep(p)
  PROVE  \/ UNCHANGED workflow
         \/ /\ UNCHANGED <<phase, leg>> /\ status = "ACTIVE"
            /\ status' = "RECONCILIATION_REQUIRED"
         \/ CreateWorkflow(p) /\ status = "ABSENT"
         \/ StartWorkflow(p) \/ InstallBuys(p) \/ RecordIntent(p)
         \/ RecordAcceptance(p)
         \/ MarkSell(p) \/ PersistBuyProgress(p) \/ MarkBuyComplete(p)
<1>e. ExitWithoutEffect(p) => UNCHANGED workflow  BY DEF ExitWithoutEffect
<1>r. RequireReconciliation =>
        \/ UNCHANGED workflow
        \/ /\ UNCHANGED <<phase, leg>> /\ status = "ACTIVE"
           /\ status' = "RECONCILIATION_REQUIRED"
  BY DEF RequireReconciliation
<1>1. CreateWorkflow(p) => UNCHANGED workflow \/ status = "ABSENT"
  BY <1>e DEF CreateWorkflow
<1>2. Submit(p) => \/ UNCHANGED workflow
                   \/ /\ UNCHANGED <<phase, leg>> /\ status = "ACTIVE"
                      /\ status' = "RECONCILIATION_REQUIRED"
                   \/ RecordIntent(p) \/ RecordAcceptance(p)
  BY <1>e, <1>r DEF Submit, AcquireLock, ReadSubmission, PostAccepted, PostReplyLost,
     PostRefused, PostFailed
<1>3. Reconcile(p) => \/ UNCHANGED workflow
                      \/ MarkSell(p) \/ PersistBuyProgress(p) \/ MarkBuyComplete(p)
  BY DEF Reconcile, BeginReconcile, ReadHistory, ApplyFill, Judge
<1>4. QED
  BY <1>e, <1>r, <1>1, <1>2, <1>3 DEF ProcessStep, Cycle, Classify, PersistAmbiguous,
     Refuse, Crash

LEMMA IntentWrites ==
  ASSUME WorkflowType, ProcsType, NEW p \in Proc, RecordIntent(p),
         ~(UNCHANGED workflow /\ Exit(p))
  PROVE  \E l \in Leg : /\ l \in cand[p] /\ leg[l] \in {"PLANNED", "INTENT_RECORDED"}
                        /\ phase = (IF l \in SellLeg THEN "SELL" ELSE "BUY")
                        /\ leg' = [leg EXCEPT ![l] = "INTENT_RECORDED"]
                        /\ UNCHANGED <<status, phase, cand, seen, lock>>
                        /\ cur' = [cur EXCEPT ![p] = l]
                        /\ pc' = [pc EXCEPT ![p] = "post"] /\ pc[p] = "intent"
<1>1. PICK l \in First(cand[p]) :
        /\ leg[l] \in {"PLANNED", "INTENT_RECORDED"}
        /\ phase = (IF l \in SellLeg THEN "SELL" ELSE "BUY")
        /\ leg' = [leg EXCEPT ![l] = "INTENT_RECORDED"]
        /\ cur' = [cur EXCEPT ![p] = l]
        /\ pc' = [pc EXCEPT ![p] = "post"]
        /\ UNCHANGED <<status, phase, exec, keys, cand, seen, lock, crashes>>
  BY DEF RecordIntent
<1>2. l \in Leg /\ l \in cand[p]  BY <1>1 DEF First, ProcsType
<1>3. QED  BY <1>1, <1>2 DEF RecordIntent

LEMMA SellWrites ==
  ASSUME NEW p \in Proc, MarkSell(p), ~UNCHANGED workflow
  PROVE  /\ pc[p] = "mark" /\ seen[p].phase = "SELL" /\ seen[p].sub = Rows(SellLeg)
         /\ status = "ACTIVE" /\ phase = "SELL" /\ leg' = SeenStatuses(p)
         /\ \/ phase' = "SELL" /\ status' \in WorkflowStatus \ {"COMPLETE", "ABSENT"}
            \/ seen[p].verdict = "filled" /\ phase' = "RECONCILE" /\ status' = "ACTIVE"
BY DEF MarkSell, Stop, Stay, WorkflowStatus

LEMMA BuyWrites ==
  ASSUME NEW p \in Proc, PersistBuyProgress(p), ~UNCHANGED workflow
  PROVE  /\ pc[p] = "mark" /\ seen[p].phase = "BUY" /\ phase = "BUY"
         /\ leg' = SeenStatuses(p) /\ phase' = "BUY"
         /\ status' \in WorkflowStatus \ {"COMPLETE", "ABSENT"}
BY DEF PersistBuyProgress, Stop, Stay, WorkflowStatus

LEMMA CompleteWrites ==
  ASSUME NEW p \in Proc, MarkBuyComplete(p), ~UNCHANGED workflow
  PROVE  /\ status = "ACTIVE" /\ phase = "BUY"
         /\ Rows(BuyLeg) = InStatus(BuyLeg, Reconcilable)
         /\ leg' = [l \in Leg |-> IF l \in Rows(BuyLeg) THEN "FILLED" ELSE leg[l]]
         /\ status' = "COMPLETE" /\ phase' = "RECONCILE"
BY DEF MarkBuyComplete

LEMMA InstallWrites ==
  ASSUME NEW p \in Proc, InstallBuys(p), ~UNCHANGED workflow
  PROVE  /\ status = "ACTIVE" /\ phase = "RECONCILE"
         /\ Rows(SellLeg) = InStatus(SellLeg, {"FILLED"})
         /\ \/ status' = "COMPLETE" /\ phase' = "RECONCILE" /\ leg' = leg
            \/ /\ status' = "ACTIVE" /\ phase' = "BUY" /\ ~InDebt
               /\ \E B \in SUBSET BuyLeg :
                    leg' = [l \in Leg |-> IF l \in B THEN "PLANNED" ELSE leg[l]]
BY DEF InstallBuys

\* SELL and BUY legs are different legs.
LEMMA SidesDiffer == \A s \in SellLeg : s \notin BuyLeg
BY ConstantsAssumption

LEMMA PhaseStep ==
  ASSUME TypeInv, SubmissionInv, FillInv, ReadingIsTrue, PhaseMatchesRows, Next
  PROVE  PhaseMatchesRows'
<1>0. WorkflowType /\ ProcsType  BY DEF TypeInv, TypeOK
<1> DEFINE RowsMatch == /\ phase \in {"NONE", "SELL"} => \A b \in BuyLeg : leg[b] = "ABSENT"
                        /\ phase \in {"RECONCILE", "BUY"} =>
                             \A s \in SellLeg : leg[s] # "ABSENT" => leg[s] = "FILLED"
                        /\ status = "COMPLETE" => phase = "RECONCILE"
                        /\ status = "ABSENT" => phase = "NONE"
           SeenMatch == \A q \in Proc :
                          /\ seen[q].phase = "SELL" => seen[q].sub \subseteq SellLeg
                          /\ seen[q].phase = "BUY" => seen[q].sub \subseteq BuyLeg
<1>d. PhaseMatchesRows <=> RowsMatch /\ SeenMatch  BY DEF PhaseMatchesRows, Rows
<1>d2. PhaseMatchesRows' <=> RowsMatch' /\ SeenMatch'  BY DEF PhaseMatchesRows, Rows
<1>r. RowsMatch  BY <1>d
<1>1. CASE BrokerMoves
  <2>1. UNCHANGED <<status, phase, leg, seen>>  BY <1>1, BrokerFrame DEF workflow, procs
  <2>2. QED  BY <2>1 DEF PhaseMatchesRows, Rows
<1>2. ASSUME NEW p \in Proc, ProcessStep(p) PROVE PhaseMatchesRows'
  <2>1. SeenMatch'
    <3>1. ASSUME NEW q \in Proc, q # p PROVE seen'[q] = seen[q]
      BY <1>0, <1>2, <3>1, StepFrame DEF ProcessStep, OthersKeep
    <3>2. \/ seen'[p].phase = "NONE"
          \/ seen'[p].phase = seen[p].phase /\ seen'[p].sub = seen[p].sub
          \/ seen'[p].phase = phase /\ phase \in {"SELL", "BUY"}
             /\ seen'[p].sub \subseteq PhaseSide
      <4>1. seen[p] \in SeenType  BY <1>0 DEF ProcsType
      <4>2. Blank.phase = "NONE"  BY DEF Blank
      <4>3. CASE BeginReconcile(p)
        <5>1. CASE Exit(p)  BY <1>0, <4>2, <5>1, ExitFrame DEF Released
        <5>2. CASE ~Exit(p)
          <6> DEFINE sub == Rows(PhaseSide) \ InStatus(PhaseSide, {"PLANNED"})
          <6>1. /\ seen' = [seen EXCEPT ![p] =
                              [Blank EXCEPT !.phase = phase, !.sub = sub,
                                            !.pending = {l \in sub : order[l] = "OPEN"}]]
                /\ phase \in {"SELL", "BUY"}
            BY <4>3, <5>2 DEF BeginReconcile
          <6>2. sub \subseteq PhaseSide  BY DEF Rows
          <6> HIDE DEF sub
          <6>3. seen'[p].phase = phase /\ seen'[p].sub = sub
            BY <1>0, <6>1 DEF ProcsType, Blank
          <6>4. QED  BY <6>1, <6>2, <6>3
        <5>3. QED  BY <5>1, <5>2
      <4>4. CASE ReadHistory(p)
        BY <1>0, <4>1, <4>4 DEF ReadHistory, ProcsType, SeenType
      <4>5. CASE ApplyFill(p)  BY <4>5 DEF ApplyFill, procs
      <4>6. CASE Judge(p)
        <5>1. CASE Exit(p)  BY <1>0, <4>2, <5>1, ExitFrame DEF Released
        <5>2. CASE ~Exit(p)
          BY <1>0, <4>1, <4>6, <5>2 DEF Judge, ProcsType, SeenType
        <5>3. QED  BY <5>1, <5>2
      <4>7. QED  BY <1>0, <1>2, <4>2, <4>3, <4>4, <4>5, <4>6, ReadingStep
    <3>3. QED  BY <1>d, <3>1, <3>2 DEF PhaseSide
  <2>2. RowsMatch'
    <3>1. CASE UNCHANGED workflow  BY <1>r, <3>1 DEF workflow
    <3>2. CASE /\ UNCHANGED <<phase, leg>> /\ status = "ACTIVE"
               /\ status' = "RECONCILIATION_REQUIRED"
      BY <1>r, <3>2
    <3>3. CASE CreateWorkflow(p) /\ status = "ABSENT" /\ ~UNCHANGED workflow
      <4>1. PICK S \in SUBSET SellLeg :
              /\ leg' = [l \in Leg |-> IF l \in S THEN "PLANNED" ELSE leg[l]]
              /\ status' = "ACTIVE" /\ phase' = "NONE"
        BY <3>3 DEF CreateWorkflow, ExitWithoutEffect
      <4>2. \A b \in BuyLeg : leg'[b] = leg[b]  BY <4>1, SidesDiffer DEF Leg
      <4>3. \A b \in BuyLeg : leg[b] = "ABSENT"  BY <1>r, <3>3
      <4>4. QED  BY <4>1, <4>2, <4>3
    <3>4. CASE StartWorkflow(p) /\ ~UNCHANGED workflow
      <4>1. /\ status = "ACTIVE" /\ phase = "NONE" /\ UNCHANGED <<status, leg>>
            /\ phase' = "SELL" \/ (phase' = "RECONCILE" /\ Rows(SellLeg) = {})
        BY <3>4 DEF StartWorkflow, workflow
      <4>2. QED  BY <1>r, <4>1 DEF Rows
    <3>5. CASE InstallBuys(p) /\ ~UNCHANGED workflow
      <4>1. /\ status' \in {"ACTIVE", "COMPLETE"} /\ phase' \in {"RECONCILE", "BUY"}
            /\ status' = "COMPLETE" => phase' = "RECONCILE"
            /\ \A s \in SellLeg : leg'[s] = leg[s]
            /\ phase = "RECONCILE"
        BY <3>5, InstallWrites, SidesDiffer DEF Leg
      <4>2. QED  BY <1>r, <4>1
    <3>6. CASE RecordIntent(p) /\ ~UNCHANGED workflow
      <4>1. PICK l \in Leg : /\ leg[l] \in {"PLANNED", "INTENT_RECORDED"}
                             /\ leg' = [leg EXCEPT ![l] = "INTENT_RECORDED"]
                             /\ UNCHANGED <<status, phase>>
                             /\ phase = (IF l \in SellLeg THEN "SELL" ELSE "BUY")
        BY <1>0, <3>6, IntentWrites
      <4>2. \A m \in Leg : leg'[m] = leg[m] \/ m = l  BY <1>0, <4>1 DEF WorkflowType
      <4>3. phase \in {"NONE", "SELL"} => l \notin BuyLeg
        BY <1>r, <4>1
      <4>4. phase \in {"RECONCILE", "BUY"} => l \notin SellLeg  BY <4>1
      <4>5. QED  BY <1>r, <4>1, <4>2, <4>3, <4>4 DEF Leg
    <3>7. CASE RecordAcceptance(p)
      <4>1. UNCHANGED <<status, phase>>  BY <3>7 DEF RecordAcceptance
      <4>2. \A m \in Leg : leg'[m] = leg[m] \/ leg[m] = "INTENT_RECORDED"
        BY <1>0, <3>7 DEF RecordAcceptance, WorkflowType
      <4>3. QED  BY <1>r, <4>1, <4>2 DEF Leg
    <3>8. CASE MarkSell(p) /\ ~UNCHANGED workflow
      <4>1. /\ pc[p] = "mark" /\ seen[p].sub = Rows(SellLeg)
            /\ status = "ACTIVE" /\ phase = "SELL"
            /\ leg' = [l \in Leg |-> IF l \in seen[p].sub THEN seen[p].state[l] ELSE leg[l]]
            /\ \/ phase' = "SELL" /\ status' \notin {"COMPLETE", "ABSENT"}
               \/ seen[p].verdict = "filled" /\ phase' = "RECONCILE" /\ status' = "ACTIVE"
        BY <3>8, SellWrites DEF SeenStatuses
      <4>2. \A b \in BuyLeg : leg'[b] = "ABSENT"
        BY <1>r, <4>1, SidesDiffer DEF Rows, Leg
      <4>3. phase' = "RECONCILE" =>
              \A s \in SellLeg : leg'[s] # "ABSENT" => leg'[s] = "FILLED"
        <5>1. phase' = "RECONCILE" => \A s \in Rows(SellLeg) : seen[p].state[s] = "FILLED"
          BY <4>1 DEF ReadingIsTrue
        <5>2. QED  BY <4>1, <5>1 DEF Rows, Leg
      <4>4. QED  BY <4>1, <4>2, <4>3
    <3>9. CASE PersistBuyProgress(p) /\ ~UNCHANGED workflow
      <4>1. /\ seen[p].phase = "BUY" /\ phase = "BUY" /\ phase' = "BUY"
            /\ leg' = [l \in Leg |-> IF l \in seen[p].sub THEN seen[p].state[l] ELSE leg[l]]
            /\ status' \notin {"COMPLETE", "ABSENT"}
        BY <3>9, BuyWrites DEF SeenStatuses
      <4>2. \A s \in SellLeg : leg'[s] = leg[s]
        BY <1>d, <4>1, SidesDiffer DEF Leg
      <4>3. QED  BY <1>r, <4>1, <4>2
    <3>10. CASE MarkBuyComplete(p) /\ ~UNCHANGED workflow
      <4>1. /\ phase = "BUY" /\ status' = "COMPLETE" /\ phase' = "RECONCILE"
            /\ \A s \in SellLeg : leg'[s] = leg[s]
        BY <3>10, CompleteWrites, SidesDiffer DEF Rows, Leg
      <4>2. QED  BY <1>r, <4>1
    <3>11. QED
      BY <1>2, <3>1, <3>2, <3>3, <3>4, <3>5, <3>6, <3>7, <3>8, <3>9, <3>10,
         WorkflowWrites
  <2>3. QED  BY <1>d2, <2>1, <2>2
<1>3. QED  BY <1>1, <1>2, NextCases

-----------------------------------------------------------------------------
(* Accepted legs have an order, and filled ones are booked *)

NotAccepted == {"ABSENT", "PLANNED", "INTENT_RECORDED"}

\* What one step may do to the legs: a leg counts as accepted that was, or whose
\* order was just posted; and as FILLED only what a process has read and booked,
\* unless the workflow completes.
LEMMA LegsAccepted ==
  ASSUME TypeInv, SubmissionInv, NEW p \in Proc, ProcessStep(p),
         NEW l \in Leg, leg'[l] \notin NotAccepted, leg[l] \in NotAccepted
  PROVE  RecordAcceptance(p) /\ l = cur[p]
<1>0. WorkflowType /\ ProcsType  BY DEF TypeInv, TypeOK
<1>a. \A m \in seen[p].sub : leg[m] \notin NotAccepted
  BY DEF SubmissionInv, SeenWasAccepted, Unsent, NotAccepted
<1>1. ~UNCHANGED leg  OBVIOUS
<1>2. CASE CreateWorkflow(p)
  <2>1. \E S : leg' = [m \in Leg |-> IF m \in S THEN "PLANNED" ELSE leg[m]]
    BY <1>1, <1>2 DEF CreateWorkflow, ExitWithoutEffect, workflow
  <2>2. QED  BY <2>1 DEF NotAccepted
<1>3. CASE InstallBuys(p)
  <2>1. \E S : leg' = [m \in Leg |-> IF m \in S THEN "PLANNED" ELSE leg[m]]
    BY <1>1, <1>3 DEF InstallBuys, workflow
  <2>2. QED  BY <2>1 DEF NotAccepted
<1>4. CASE RecordIntent(p)
  <2>1. \E m \in Leg : leg' = [leg EXCEPT ![m] = "INTENT_RECORDED"]
    BY <1>0, <1>1, <1>4, IntentWrites DEF workflow
  <2>2. QED  BY <1>0, <2>1 DEF NotAccepted, WorkflowType
<1>5. CASE MarkSell(p) \/ PersistBuyProgress(p)
  <2>1. leg' = [m \in Leg |-> IF m \in seen[p].sub THEN seen[p].state[m] ELSE leg[m]]
    BY <1>1, <1>5, SellWrites, BuyWrites DEF workflow, SeenStatuses
  <2>2. QED  BY <1>a, <2>1
<1>6. CASE MarkBuyComplete(p)
  <2>1. /\ leg' = [m \in Leg |-> IF m \in Rows(BuyLeg) THEN "FILLED" ELSE leg[m]]
        /\ Rows(BuyLeg) = InStatus(BuyLeg, Reconcilable)
    BY <1>1, <1>6, CompleteWrites DEF workflow
  <2>2. l \in Rows(BuyLeg)  BY <2>1
  <2>3. leg[l] \in Reconcilable  BY <2>1, <2>2 DEF InStatus
  <2>4. QED  BY <2>3 DEF Reconcilable, NotAccepted
<1>7. CASE RecordAcceptance(p)
  BY <1>0, <1>7 DEF RecordAcceptance, WorkflowType
<1>8. ~StartWorkflow(p)  BY <1>1 DEF StartWorkflow
<1>9. QED
  BY <1>1, <1>2, <1>3, <1>4, <1>5, <1>6, <1>7, <1>8, WorkflowWrites DEF workflow

\* How a process comes to stand between its reads and its acceptance write.
LEMMA SubmitterMoves ==
  ASSUME ProcsType, NEW p \in Proc, ProcessStep(p),
         pc'[p] \in {"intent", "post", "accept"}
  PROVE  \/ /\ ReadSubmission(p) /\ pc'[p] = "intent" /\ pc[p] = "locked"
            /\ status = "ACTIVE" /\ phase \in {"SELL", "BUY"} /\ ~Ambiguous(PhaseSide)
            /\ Candidates # {} /\ cand'[p] = Candidates /\ cur'[p] = cur[p]
            /\ UNCHANGED <<workflow, capital, broker>>
         \/ RecordIntent(p) /\ ~Exit(p)
         \/ /\ PostAccepted(p) /\ pc'[p] = "accept"
            /\ cur'[p] = cur[p] /\ cand'[p] = cand[p]
         \/ /\ RecordAcceptance(p) /\ cand[p] # {cur[p]} /\ pc'[p] = "intent"
            /\ cand'[p] = cand[p] \ {cur[p]} /\ cur'[p] = NoLeg
<1> DEFINE Here == {"intent", "post", "accept"}
<1>e. ~(Exit(p) \/ ExitWithoutEffect(p) \/ Crash(p))
  BY ExitFrame DEF ExitWithoutEffect, Released
<1>g. ASSUME NEW label, label \notin Here PROVE ~Goto(p, label)
  BY <1>g, GotoFrame DEF Moved
<1>1. CASE Submit(p)
  <2>1. ~AcquireLock(p)  BY <1>e DEF AcquireLock, ProcsType
  <2>2. ~PostReplyLost(p) /\ ~PostRefused(p) /\ ~PostFailed(p)
    BY <1>e, <1>g DEF PostReplyLost, PostRefused, PostFailed
  <2>3. CASE ReadSubmission(p)
    <3>1. /\ pc[p] = "locked" /\ status = "ACTIVE" /\ phase \in {"SELL", "BUY"}
          /\ ~Ambiguous(PhaseSide) /\ Candidates # {}
          /\ pc' = [pc EXCEPT ![p] = "intent"]
          /\ cand' = [cand EXCEPT ![p] = Candidates]
          /\ UNCHANGED <<cur, workflow, capital, broker>>
      BY <1>e, <1>g, <2>3 DEF ReadSubmission
    <3>2. QED  BY <2>3, <3>1 DEF ProcsType
  <2>4. CASE RecordIntent(p)  BY <1>e, <2>4
  <2>5. CASE PostAccepted(p)
    <3>1. Goto(p, "accept")  BY <2>5 DEF PostAccepted
    <3>2. QED  BY <2>5, <3>1, GotoFrame DEF Moved
  <2>6. CASE RecordAcceptance(p)
    <3>1. /\ cand[p] # {cur[p]} /\ cand' = [cand EXCEPT ![p] = @ \ {cur[p]}]
          /\ cur' = [cur EXCEPT ![p] = NoLeg] /\ pc' = [pc EXCEPT ![p] = "intent"]
      BY <1>e, <2>6 DEF RecordAcceptance
    <3>2. QED  BY <2>6, <3>1 DEF ProcsType
  <2>7. QED  BY <1>1, <2>1, <2>2, <2>3, <2>4, <2>5, <2>6 DEF Submit
<1>2. ~Reconcile(p)
  <2>1. ~BeginReconcile(p) /\ ~ReadHistory(p) /\ ~ApplyFill(p) /\ ~Judge(p)
    BY <1>e DEF BeginReconcile, ReadHistory, ApplyFill, Judge, ProcsType, procs
  <2>2. ~MarkSell(p) /\ ~PersistBuyProgress(p) /\ ~MarkBuyComplete(p)
    BY <1>e DEF MarkSell, PersistBuyProgress, MarkBuyComplete
  <2>3. QED  BY <2>1, <2>2 DEF Reconcile
<1>3. ~Classify(p) /\ ~CreateWorkflow(p)
  <2>1. RecoveryAction \notin Here  BY DEF RecoveryAction
  <2>2. QED  BY <1>e, <1>g, <2>1 DEF Classify, CreateWorkflow
<1>4. ~PersistAmbiguous(p) /\ ~StartWorkflow(p) /\ ~InstallBuys(p) /\ ~Refuse(p)
  BY <1>e DEF PersistAmbiguous, StartWorkflow, InstallBuys, Refuse
<1>5. QED  BY <1>1, <1>2, <1>3, <1>4, <1>e DEF ProcessStep, Cycle

LEMMA AcceptedStep ==
  ASSUME TypeInv, SubmissionInv, BooksGrow, AcceptedIsPosted, Next
  PROVE  AcceptedIsPosted'
<1>0. WorkflowType /\ ProcsType /\ BrokerType  BY DEF TypeInv, TypeOK
<1>n. \A l \in Leg : posts[l] \in Nat  BY <1>0 DEF BrokerType
<1>g. \A l \in Leg : posts[l] <= posts'[l]  BY DEF BooksGrow
<1>i. /\ \A l \in Leg : leg[l] \notin NotAccepted => posts[l] > 0
      /\ \A p \in Proc : pc[p] = "accept" => cur[p] \in Leg /\ posts[cur[p]] > 0
  BY DEF AcceptedIsPosted, Unsent, NotAccepted
<1>t. \A l \in Leg : posts'[l] \in Nat
  <2>1. TypeInv'  BY TypeStep
  <2>2. QED  BY <2>1 DEF TypeInv, TypeOK, BrokerType
<1>1. CASE BrokerMoves
  <2>1. UNCHANGED <<leg, pc, cur, posts>>  BY <1>1, BrokerFrame DEF workflow, procs
  <2>2. QED  BY <2>1 DEF AcceptedIsPosted
<1>2. ASSUME NEW p \in Proc, ProcessStep(p) PROVE AcceptedIsPosted'
  <2>1. ASSUME NEW l \in Leg, leg'[l] \notin NotAccepted PROVE posts'[l] > 0
    <3>1. CASE leg[l] \in NotAccepted
      <4>1. RecordAcceptance(p) /\ l = cur[p]  BY <1>2, <2>1, <3>1, LegsAccepted
      <4>2. posts[l] > 0  BY <1>i, <4>1 DEF RecordAcceptance
      <4>3. QED  BY <1>g, <1>n, <1>t, <4>2
    <3>2. CASE leg[l] \notin NotAccepted  BY <1>g, <1>i, <1>n, <1>t, <3>2
    <3>3. QED  BY <3>1, <3>2
  <2>2. ASSUME NEW q \in Proc, pc'[q] = "accept"
        PROVE  cur'[q] \in Leg /\ posts'[cur'[q]] > 0
    <3>1. CASE q # p
      <4>1. pc'[q] = pc[q] /\ cur'[q] = cur[q]
        BY <1>0, <1>2, <3>1, StepFrame DEF ProcessStep, OthersKeep
      <4>2. QED  BY <1>g, <1>i, <1>n, <1>t, <2>2, <4>1
    <3>2. CASE q = p /\ PostAccepted(p) /\ cur'[p] = cur[p]
      <4>1. cur[p] \in Leg /\ posts' = [posts EXCEPT ![cur[p]] = @ + 1]
        BY <3>2 DEF PostAccepted, NewOrder, SubmissionInv, IntentPrecedesPost
      <4>2. posts'[cur[p]] = posts[cur[p]] + 1  BY <1>0, <4>1 DEF BrokerType
      <4>3. QED  BY <1>n, <3>2, <4>1, <4>2
    <3>3. q = p => PostAccepted(p) /\ cur'[p] = cur[p]
      <4>1. ASSUME q = p, RecordIntent(p), ~Exit(p) PROVE FALSE
        BY <1>0, <2>2, <4>1, IntentWrites DEF ProcsType
      <4>2. QED  BY <1>0, <1>2, <2>2, <4>1, SubmitterMoves
    <3>4. QED  BY <3>1, <3>2, <3>3
  <2>3. QED  BY <2>1, <2>2 DEF AcceptedIsPosted, NotAccepted, Unsent
<1>3. QED  BY <1>1, <1>2, NextCases

\* A settled leg stays settled.
LEMMA SettledStays ==
  ASSUME OrdersAdvance, BooksGrow, NEW l \in Leg, Settled(l) PROVE Settled(l)'
BY DEF Settled, OrdersAdvance, BooksGrow

\* A leg read FILLED and booked is settled.
LEMMA ReadAndBooked ==
  ASSUME TypeInv, FillInv, ReadingIsTrue, NEW p \in Proc, pc[p] = "mark",
         NEW l \in Leg, seen[p].state[l] = "FILLED"
  PROVE  Settled(l)
<1>1. order[l] = "FILLED"  BY DEF FillInv, FilledIsTrue
<1>2. seen[p].fills[l] = Qty /\ Unapplied(p) = {}  BY DEF ReadingIsTrue
<1>3. Qty \in Nat  BY ConstantsAssumption
<1>4. ASSUME NEW n \in 1..Qty PROVE <<l, n>> \in ledger
  <2>1. n <= Qty  BY <1>3
  <2>2. <<l, n>> \in Leg \X (1..Qty)  OBVIOUS
  <2>3. <<l, n>>[1] = l /\ <<l, n>>[2] = n  OBVIOUS
  <2>4. <<l, n>> \notin ledger => <<l, n>> \in Unapplied(p)
    BY <1>2, <2>1, <2>2, <2>3 DEF Unapplied
  <2>5. QED  BY <1>2, <2>4
<1>5. QED  BY <1>1, <1>4 DEF Settled

LEMMA LegsFilled ==
  ASSUME TypeInv, NEW p \in Proc, ProcessStep(p),
         NEW l \in Leg, leg'[l] = "FILLED", leg[l] # "FILLED"
  PROVE  \/ pc[p] = "mark" /\ seen[p].state[l] = "FILLED"
         \/ status' = "COMPLETE" /\ l \in BuyLeg
<1>0. WorkflowType /\ ProcsType  BY DEF TypeInv, TypeOK
<1>1. ~UNCHANGED leg  OBVIOUS
<1>2. ~CreateWorkflow(p) /\ ~InstallBuys(p)
  <2>1. CreateWorkflow(p) \/ InstallBuys(p) =>
          \E S : leg' = [m \in Leg |-> IF m \in S THEN "PLANNED" ELSE leg[m]]
    BY <1>1 DEF CreateWorkflow, InstallBuys, ExitWithoutEffect, workflow
  <2>2. QED  BY <2>1
<1>3. ~RecordIntent(p)
  <2>1. RecordIntent(p) => \E m \in Leg : leg' = [leg EXCEPT ![m] = "INTENT_RECORDED"]
    BY <1>0, <1>1, IntentWrites DEF workflow
  <2>2. QED  BY <1>0, <2>1 DEF WorkflowType
<1>4. ~RecordAcceptance(p)  BY <1>0 DEF RecordAcceptance, WorkflowType
<1>5. CASE MarkSell(p) \/ PersistBuyProgress(p)
  <2>1. /\ leg' = [m \in Leg |-> IF m \in seen[p].sub THEN seen[p].state[m] ELSE leg[m]]
        /\ pc[p] = "mark"
    BY <1>1, <1>5, SellWrites, BuyWrites DEF workflow, SeenStatuses
  <2>2. QED  BY <2>1
<1>6. CASE MarkBuyComplete(p)
  <2>1. /\ leg' = [m \in Leg |-> IF m \in Rows(BuyLeg) THEN "FILLED" ELSE leg[m]]
        /\ status' = "COMPLETE"
    BY <1>1, <1>6, CompleteWrites DEF workflow
  <2>2. QED  BY <2>1 DEF Rows
<1>7. ~StartWorkflow(p)  BY <1>1 DEF StartWorkflow
<1>8. QED
  BY <1>1, <1>2, <1>3, <1>4, <1>5, <1>6, <1>7, WorkflowWrites DEF workflow

\* A completed workflow stays completed.
LEMMA CompleteStays ==
  ASSUME PhaseMatchesRows, Next, status = "COMPLETE" PROVE status' = "COMPLETE"
<1>p. phase = "RECONCILE"  BY DEF PhaseMatchesRows
<1>1. ASSUME NEW p \in Proc, ProcessStep(p) PROVE status' = "COMPLETE"
  <2>1. MarkSell(p) => UNCHANGED workflow  BY SellWrites
  <2>2. PersistBuyProgress(p) => UNCHANGED workflow  BY <1>p, BuyWrites
  <2>3. MarkBuyComplete(p) => UNCHANGED workflow  BY CompleteWrites
  <2>4. InstallBuys(p) => UNCHANGED workflow  BY InstallWrites
  <2>5. StartWorkflow(p) \/ RecordIntent(p) \/ RecordAcceptance(p) => status' = status
    BY DEF StartWorkflow, RecordIntent, RecordAcceptance, workflow
  <2>6. QED
    BY <1>1, <2>1, <2>2, <2>3, <2>4, <2>5, WorkflowWrites DEF workflow
<1>2. QED  BY <1>1, NextCases, BrokerFrame DEF workflow

LEMMA BookedStep ==
  ASSUME TypeInv, SubmissionInv, FillInv, ReadingIsTrue, BooksGrow, PhaseMatchesRows,
         FilledIsBooked, Next
  PROVE  FilledIsBooked'
<1>o. OrdersAdvance  BY OrdersStep
<1>1. ASSUME NEW l \in Leg, leg'[l] = "FILLED", l \in SellLeg \/ status' # "COMPLETE"
      PROVE  Settled(l)'
  <2>1. CASE leg[l] = "FILLED"
    <3>1. status' # "COMPLETE" => status # "COMPLETE"  BY CompleteStays
    <3>2. Settled(l)  BY <1>1, <2>1, <3>1 DEF FilledIsBooked, Leg
    <3>3. QED  BY <1>o, <3>2, SettledStays
  <2>2. CASE leg[l] # "FILLED"
    <3>1. PICK p \in Proc : ProcessStep(p)
      BY <1>1, <2>2, NextCases, BrokerFrame DEF workflow
    <3>2. pc[p] = "mark" /\ seen[p].state[l] = "FILLED"
      BY <1>1, <2>2, <3>1, LegsFilled, SidesDiffer
    <3>3. Settled(l)  BY <3>2, ReadAndBooked
    <3>4. QED  BY <1>o, <3>3, SettledStays
  <2>3. QED  BY <2>1, <2>2
<1>2. QED  BY <1>1 DEF FilledIsBooked, Leg

-----------------------------------------------------------------------------
(* The submitter: what it decided on is still true when it posts *)

\* While nobody posts, a BUY that is ready stays ready: no order is open and no
\* fill is left to book.
LEMMA ReadyStays ==
  ASSUME TypeInv, SubmissionInv, FillInv, BrokerBooks, ReadingIsTrue, BuyIsReady,
         Next, status # "ABSENT", \A p \in Proc : ~PostAccepted(p) /\ ~PostReplyLost(p)
  PROVE  BuyIsReady'
<1>0. BrokerType /\ WorkflowType /\ ProcsType  BY DEF TypeInv, TypeOK
<1>q. Qty \in Nat  BY ConstantsAssumption
<1>1. \A l \in Leg : order[l] # "OPEN"
  <2>1. ASSUME NEW b \in BuyLeg PROVE order[b] # "OPEN"
    BY <1>0 DEF BuyIsReady, FillInv, FilledIsStable, BrokerType, Leg
  <2>2. ASSUME NEW s \in SellLeg PROVE order[s] # "OPEN"
    <3>1. CASE leg[s] = "ABSENT"
      BY <3>1 DEF SubmissionInv, UnsentHasNoOrder, Unsent, FillInv, FilledIsStable, Leg
    <3>2. CASE leg[s] # "ABSENT"  BY <3>2 DEF BuyIsReady, Rows
    <3>3. QED  BY <3>1, <3>2
  <2>3. QED  BY <2>1, <2>2 DEF Leg
<1>2. \A p \in Proc : ~ApplyFill(p)
  <2>1. ASSUME NEW p \in Proc, NEW f \in Unapplied(p) PROVE FALSE
    <3>1. f \in Leg \X (1..Qty) /\ f[2] <= seen[p].fills[f[1]] /\ f \notin ledger
      BY <2>1 DEF Unapplied
    <3>2. f[1] \in Leg /\ f[2] \in 1..Qty /\ f = <<f[1], f[2]>>  BY <3>1
    <3>3. seen[p].fills[f[1]] <= filled[f[1]]  BY <3>2 DEF ReadingIsTrue
    <3>4. seen[p].fills[f[1]] \in 0..Qty /\ filled[f[1]] \in 0..Qty
      BY <1>0, <3>2 DEF ProcsType, SeenType, BrokerType
    <3>5. f[2] <= filled[f[1]]  BY <1>q, <3>1, <3>2, <3>3, <3>4
    <3>6. QED  BY <3>1, <3>2, <3>5 DEF BuyIsReady
  <2>2. QED  BY <2>1 DEF ApplyFill
<1>3. UNCHANGED <<posts, order, filled, ledger, cash>>
  <2>1. ASSUME NEW p \in Proc, ProcessStep(p) PROVE UNCHANGED <<broker, capital>>
    BY <1>2, <2>1, ProcessWrites
  <2>2. ASSUME BrokerMoves PROVE UNCHANGED <<posts, order, filled, capital>>
    BY <1>1, <2>2, BrokerFrame DEF BrokerMoves, Trade, FillUnit, Kill, ShowHistory,
       NewClose
  <2>3. QED  BY <2>1, <2>2, NextCases DEF broker, capital
<1>4. \A s \in SellLeg : leg[s] = "ABSENT" => leg'[s] = "ABSENT"
  <2>1. ASSUME NEW p \in Proc, ProcessStep(p), NEW s \in SellLeg, leg[s] = "ABSENT"
        PROVE  leg'[s] = "ABSENT"
    <3>1. CASE RowsStay  BY <2>1, <3>1 DEF RowsStay, Leg
    <3>2. CASE InstallBuys(p)
      BY <2>1, <3>2, InstallWrites, SidesDiffer DEF workflow, Leg
    <3>3. QED  BY <2>1, <3>1, <3>2, EvidenceStep DEF ProcessStep
  <2>2. QED  BY <2>1, NextCases, BrokerFrame DEF workflow
<1>5. QED  BY <1>3, <1>4 DEF BuyIsReady, Rows

\* The claims of SubmitterIsRight about one process.
SubmitterOf(p) ==
  /\ pc[p] \in {"post", "accept"} => cur[p] \in cand[p]
  /\ pc[p] \in {"intent", "post", "accept"} =>
       /\ \A l \in Leg : leg[l] = "INTENT_RECORDED" => cur[p] = l
       /\ \A b \in cand[p] \cap BuyLeg : cand[p] = {b}
  /\ pc[p] \in {"intent", "post"} /\ cand[p] \cap BuyLeg # {} => BuyIsReady

LEMMA SubmitterOfEach == SubmitterIsRight <=> \A p \in Proc : SubmitterOf(p)
BY DEF SubmitterIsRight, SubmitterOf

\* A submitter with a BUY has a row for it, so the workflow exists.
LEMMA SubmitterHasRow ==
  ASSUME ProcsType, SubmissionInv, NEW p \in Proc, SubmitterOf(p),
         pc[p] \in {"intent", "post"}, cand[p] \cap BuyLeg # {}
  PROVE  status # "ABSENT"
<1>1. PICK b \in BuyLeg : b \in cand[p] /\ cand[p] = {b}  BY DEF SubmitterOf
<1>2. b \in Leg  BY DEF Leg
<1>3. leg[b] # "ABSENT"
  <2>1. CASE pc[p] = "intent"
    <3>1. cur[p] = NoLeg  BY <2>1 DEF SubmissionInv, IntentPrecedesPost
    <3>2. b # NoLeg  BY <1>2, ConstantsAssumption
    <3>3. leg[b] = "PLANNED"  BY <1>1, <2>1, <3>1, <3>2 DEF SubmissionInv, BatchIsPlanned
    <3>4. QED  BY <3>3
  <2>2. CASE pc[p] = "post"
    <3>1. cur[p] = b  BY <1>1, <2>2 DEF SubmitterOf
    <3>2. leg[b] = "INTENT_RECORDED"
      BY <2>2, <3>1 DEF SubmissionInv, IntentPrecedesPost
    <3>3. QED  BY <3>2
  <2>3. QED  BY <2>1, <2>2
<1>4. QED  BY <1>2, <1>3 DEF SubmissionInv, AbsentIsEmpty

\* Only the submitter records an intent.
LEMMA IntentsRecorded ==
  ASSUME TypeInv, NEW p \in Proc, ProcessStep(p), NEW l \in Leg,
         leg'[l] = "INTENT_RECORDED", leg[l] # "INTENT_RECORDED"
  PROVE  pc[p] = "intent"
<1>0. WorkflowType /\ ProcsType  BY DEF TypeInv, TypeOK
<1>1. ~UNCHANGED leg  OBVIOUS
<1>2. ~CreateWorkflow(p) /\ ~InstallBuys(p)
  <2>1. CreateWorkflow(p) \/ InstallBuys(p) =>
          \E S : leg' = [m \in Leg |-> IF m \in S THEN "PLANNED" ELSE leg[m]]
    BY <1>1 DEF CreateWorkflow, InstallBuys, ExitWithoutEffect, workflow
  <2>2. QED  BY <2>1
<1>3. ~MarkSell(p) /\ ~PersistBuyProgress(p)
  <2>1. MarkSell(p) \/ PersistBuyProgress(p) =>
          leg' = [m \in Leg |-> IF m \in seen[p].sub THEN seen[p].state[m] ELSE leg[m]]
    BY <1>1, SellWrites, BuyWrites DEF workflow, SeenStatuses
  <2>2. seen[p].state[l] # "INTENT_RECORDED"
    BY <1>0 DEF ProcsType, SeenType, SeenState
  <2>3. QED  BY <2>1, <2>2
<1>4. ~MarkBuyComplete(p)
  <2>1. MarkBuyComplete(p) =>
          leg' = [m \in Leg |-> IF m \in Rows(BuyLeg) THEN "FILLED" ELSE leg[m]]
    BY <1>1, CompleteWrites DEF workflow
  <2>2. QED  BY <2>1
<1>5. ~RecordAcceptance(p)  BY <1>0 DEF RecordAcceptance, WorkflowType
<1>6. ~StartWorkflow(p)  BY <1>1 DEF StartWorkflow
<1>7. QED
  BY <1>1, <1>2, <1>3, <1>4, <1>5, <1>6, WorkflowWrites DEF workflow, RecordIntent

\* The flock: while a process submits, the steps of the others leave it right.
LEMMA SubmitterKept ==
  ASSUME TypeInv, SubmissionInv, FillInv, BrokerBooks, ReadingIsTrue, Next,
         NEW q \in Proc, SubmitterOf(q), pc[q] \in Submitting,
         pc'[q] = pc[q], cand'[q] = cand[q], cur'[q] = cur[q],
         BrokerMoves \/ \E p \in Proc \ {q} : ProcessStep(p)
  PROVE  SubmitterOf(q)'
<1>0. WorkflowType /\ ProcsType  BY DEF TypeInv, TypeOK
<1>1. \A p \in Proc \ {q} : pc[p] \notin Submitting
  BY DEF SubmissionInv, LockExcludes
<1>2. ASSUME NEW l \in Leg, leg'[l] = "INTENT_RECORDED" PROVE leg[l] = "INTENT_RECORDED"
  BY <1>1, <1>2, BrokerFrame, IntentsRecorded DEF workflow, Submitting
<1>3. ASSUME pc[q] \in {"intent", "post"}, cand[q] \cap BuyLeg # {} PROVE BuyIsReady'
  <2>1. status # "ABSENT"  BY <1>0, <1>3, SubmitterHasRow
  <2>2. BuyIsReady  BY <1>3 DEF SubmitterOf
  <2>3. CASE BrokerMoves
    <3>1. UNCHANGED <<workflow, procs>>  BY <2>3, BrokerFrame
    <3>2. CASE \A p \in Proc : ~PostAccepted(p) /\ ~PostReplyLost(p)
      BY <2>1, <2>2, <3>2, ReadyStays
    <3>3. CASE \E p \in Proc : PostAccepted(p) \/ PostReplyLost(p)
      <4>1. PICK p \in Proc : pc[p] = "post" /\ \E label : label # "post" /\ Goto(p, label)
        BY <3>3 DEF PostAccepted, PostReplyLost
      <4>2. pc'[p] # "post"  BY <1>0, <4>1, GotoFrame DEF Moved
      <4>3. QED  BY <3>1, <4>1, <4>2 DEF procs
    <3>4. QED  BY <3>2, <3>3
  <2>4. ASSUME NEW p \in Proc \ {q}, ProcessStep(p) PROVE BuyIsReady'
    <3>1. ASSUME NEW r \in Proc, PostAccepted(r) \/ PostReplyLost(r) PROVE FALSE
      <4>1. pc[r] = "post"  BY <3>1 DEF PostAccepted, PostReplyLost
      <4>2. r = q  BY <1>1, <4>1 DEF Submitting
      <4>3. \E label : label # "post" /\ Goto(r, label)
        BY <3>1 DEF PostAccepted, PostReplyLost
      <4>4. pc'[r] # "post"  BY <1>0, <4>3, GotoFrame DEF Moved
      <4>5. QED  BY <4>1, <4>2, <4>4
    <3>2. QED  BY <2>1, <2>2, <3>1, ReadyStays
  <2>5. QED  BY <2>3, <2>4
<1>4. QED  BY <1>2, <1>3 DEF SubmitterOf

\* A FILLED leg of a workflow that has not completed has all its units booked.
LEMMA BookedInFull ==
  ASSUME TypeInv, BrokerBooks, NEW l \in Leg, Settled(l), NEW n \in 1..Qty
  PROVE  <<l, n>> \in ledger
BY DEF Settled

\* A BUY is chosen only when nothing else is left to fill or to book.
LEMMA ReadyWhenChosen ==
  ASSUME TypeInv, SubmissionInv, FillInv, BrokerBooks, PhaseMatchesRows,
         FilledIsBooked, status = "ACTIVE", phase = "BUY", ~Ambiguous(PhaseSide),
         Candidates # {}
  PROVE  BuyIsReady
<1>0. BrokerType /\ WorkflowType  BY DEF TypeInv, TypeOK
<1>q. Qty \in Nat  BY ConstantsAssumption
<1>1. /\ InStatus(BuyLeg, InFlight \cup {"UNKNOWN", "FAILED"}) = {}
      /\ Qty * Estimate <= cash
  <2>1. /\ InStatus(BuyLeg, InFlight \cup {"UNKNOWN", "FAILED"}) = {}
        /\ ~(Qty * Estimate > cash)
    BY DEF Candidates
  <2>2. Qty * Estimate \in Int /\ cash \in Int
    BY ConstantsAssumption DEF TypeInv, TypeOK, CapitalType
  <2>3. QED  BY <2>1, <2>2
<1>2. \A b \in BuyLeg : leg[b] \in {"ABSENT", "PLANNED", "FILLED"}
  <2>1. InStatus(BuyLeg, {"INTENT_RECORDED"}) = {}  BY DEF Ambiguous, PhaseSide
  <2>2. ASSUME NEW b \in BuyLeg PROVE leg[b] \in {"ABSENT", "PLANNED", "FILLED"}
    <3>1. leg[b] \in LegStatus  BY <1>0 DEF WorkflowType, Leg
    <3>2. leg[b] # "ABSENT" =>
            leg[b] \notin {"INTENT_RECORDED", "UNKNOWN", "FAILED"} \cup InFlight
      BY <1>1, <2>1 DEF InStatus, Rows
    <3>3. QED  BY <3>1, <3>2 DEF LegStatus, InFlight
  <2>3. QED  BY <2>2
<1>3. \A s \in SellLeg : leg[s] \in {"ABSENT", "FILLED"}
  BY DEF PhaseMatchesRows, Rows
<1>4. \A l \in Leg : leg[l] = "FILLED" => Settled(l)
  BY DEF FilledIsBooked, Leg
<1>5. \A l \in Leg : leg[l] \in {"ABSENT", "PLANNED"} => posts[l] = 0 /\ filled[l] = 0
  BY DEF SubmissionInv, UnsentHasNoOrder, Unsent, BrokerBooks
<1>6. \A s \in Rows(SellLeg) : order[s] = "FILLED"
  BY <1>3, <1>4 DEF Rows, Settled, Leg
<1>7. \A b \in BuyLeg : posts[b] > 0 => order[b] = "FILLED"
  BY <1>2, <1>4, <1>5 DEF Settled, Leg
<1>8. ASSUME NEW l \in Leg, NEW n \in 1..Qty, n <= filled[l] PROVE <<l, n>> \in ledger
  <2>1. filled[l] # 0  BY <1>q, <1>8
  <2>2. leg[l] = "FILLED"  BY <1>2, <1>3, <1>5, <2>1 DEF Leg
  <2>3. QED  BY <1>4, <1>8, <2>2, BookedInFull
<1>9. QED  BY <1>1, <1>6, <1>7, <1>8 DEF BuyIsReady

\* The first of a set of indexes is one index.
LEMMA FirstIsOne ==
  ASSUME NEW S \in SUBSET BuyLeg, NEW b \in First(S) PROVE First(S) = {b}
<1>1. ASSUME NEW c \in First(S) PROVE c = b
  <2>1. c <= b /\ b <= c  BY <1>1 DEF First
  <2>2. c \in Nat /\ b \in Nat  BY <1>1, ConstantsAssumption DEF First
  <2>3. QED  BY <2>1, <2>2
<1>2. QED  BY <1>1

LEMMA SubmitterMade ==
  ASSUME TypeInv, SubmissionInv, FillInv, BrokerBooks, PhaseMatchesRows,
         FilledIsBooked, NEW p \in Proc, SubmitterOf(p), ProcessStep(p)
  PROVE  SubmitterOf(p)'
<1>0. BrokerType /\ WorkflowType /\ ProcsType  BY DEF TypeInv, TypeOK
<1> DEFINE Here == {"intent", "post", "accept"}
<1>1. CASE pc'[p] \notin Here  BY <1>1 DEF SubmitterOf
<1>2. CASE /\ pc'[p] = "intent" /\ pc[p] = "locked"
           /\ status = "ACTIVE" /\ phase \in {"SELL", "BUY"} /\ ~Ambiguous(PhaseSide)
           /\ Candidates # {} /\ cand'[p] = Candidates /\ cur'[p] = cur[p]
           /\ UNCHANGED <<workflow, capital, broker>>
  <2>1. \A l \in Leg : leg[l] # "INTENT_RECORDED"
    <3>1. \A l \in PhaseSide : leg[l] # "INTENT_RECORDED"
      BY <1>2 DEF Ambiguous, InStatus, Rows
    <3>2. phase = "SELL" => \A b \in BuyLeg : leg[b] = "ABSENT"
      BY DEF PhaseMatchesRows
    <3>3. phase = "BUY" => \A s \in SellLeg : leg[s] \in {"ABSENT", "FILLED"}
      BY DEF PhaseMatchesRows, Rows
    <3>4. QED  BY <1>2, <3>1, <3>2, <3>3 DEF PhaseSide, Leg
  <2>2. \A b \in Candidates \cap BuyLeg : Candidates = {b} /\ phase = "BUY"
    <3>1. CASE phase = "SELL"
      <4>1. Candidates \subseteq SellLeg
        BY <3>1 DEF Candidates, InStatus, Rows, PhaseSide
      <4>2. QED  BY <4>1, SidesDiffer
    <3>2. CASE phase = "BUY"
      <4>1. Candidates = First(InStatus(BuyLeg, {"PLANNED"}))
        BY <1>2, <3>2 DEF Candidates, PhaseSide
      <4>2. InStatus(BuyLeg, {"PLANNED"}) \subseteq BuyLeg  BY DEF InStatus, Rows
      <4>3. QED  BY <3>2, <4>1, <4>2, FirstIsOne
    <3>3. QED  BY <1>2, <3>1, <3>2
  <2>3. Candidates \cap BuyLeg # {} => BuyIsReady
    BY <1>2, <2>2, ReadyWhenChosen
  <2>4. leg' = leg /\ (BuyIsReady => BuyIsReady')
    BY <1>2 DEF workflow, capital, broker, BuyIsReady, Rows
  <2>5. QED  BY <1>2, <2>1, <2>2, <2>3, <2>4 DEF SubmitterOf
<1>3. CASE RecordIntent(p) /\ ~Exit(p)
  <2>1. PICK l \in Leg : /\ l \in cand[p] /\ leg[l] \in {"PLANNED", "INTENT_RECORDED"}
                         /\ leg' = [leg EXCEPT ![l] = "INTENT_RECORDED"]
                         /\ UNCHANGED cand
                         /\ cur' = [cur EXCEPT ![p] = l]
                         /\ pc' = [pc EXCEPT ![p] = "post"] /\ pc[p] = "intent"
    BY <1>0, <1>3, IntentWrites
  <2>2. cur'[p] = l /\ pc'[p] = "post" /\ cand'[p] = cand[p]
    BY <1>0, <2>1 DEF ProcsType
  <2>3. \A m \in Leg : leg[m] # "INTENT_RECORDED"
    <3>1. cur[p] = NoLeg  BY <2>1 DEF SubmissionInv, IntentPrecedesPost
    <3>2. NoLeg \notin Leg  BY ConstantsAssumption
    <3>3. QED  BY <2>1, <3>1, <3>2 DEF SubmitterOf
  <2>4. \A m \in Leg : m # l => leg'[m] = leg[m]  BY <1>0, <2>1 DEF WorkflowType
  <2>5. leg'[l] = "INTENT_RECORDED"  BY <1>0, <2>1 DEF WorkflowType
  <2>6. BuyIsReady => BuyIsReady'
    <3>1. UNCHANGED <<capital, broker>>  BY <1>3 DEF RecordIntent
    <3>2. Rows(SellLeg)' = Rows(SellLeg)  BY <2>1, <2>4, <2>5 DEF Rows, Leg
    <3>3. QED  BY <3>1, <3>2 DEF BuyIsReady, capital, broker
  <2>7. QED  BY <2>1, <2>2, <2>3, <2>4, <2>6 DEF SubmitterOf
<1>4. CASE /\ PostAccepted(p) /\ pc'[p] = "accept"
           /\ cur'[p] = cur[p] /\ cand'[p] = cand[p]
  <2>1. leg' = leg /\ pc[p] = "post"  BY <1>4 DEF PostAccepted, workflow
  <2>2. QED  BY <1>4, <2>1 DEF SubmitterOf
<1>5. CASE /\ RecordAcceptance(p) /\ pc'[p] = "intent"
           /\ cand'[p] = cand[p] \ {cur[p]} /\ cur'[p] = NoLeg
  <2>1. cur[p] \in cand[p] /\ pc[p] = "accept" /\ cur[p] \in Leg
    BY <1>0, <1>5 DEF RecordAcceptance, SubmitterOf, ProcsType
  <2>2. leg' = [leg EXCEPT ![cur[p]] = IF leg[cur[p]] = "INTENT_RECORDED"
                                         THEN "BROKER_ACCEPTED" ELSE leg[cur[p]]]
    BY <1>5 DEF RecordAcceptance
  <2>3. \A l \in Leg : leg'[l] # "INTENT_RECORDED"
    BY <1>0, <2>1, <2>2 DEF SubmitterOf, WorkflowType
  <2>4. cand'[p] \cap BuyLeg = {}
    BY <1>5, <2>1 DEF SubmitterOf
  <2>5. QED  BY <1>5, <2>3, <2>4 DEF SubmitterOf
<1>6. QED  BY <1>0, <1>1, <1>2, <1>3, <1>4, <1>5, SubmitterMoves

LEMMA SubmitterStep ==
  ASSUME TypeInv, SubmissionInv, FillInv, BrokerBooks, ReadingIsTrue,
         PhaseMatchesRows, FilledIsBooked, SubmitterIsRight, Next
  PROVE  SubmitterIsRight'
<1>0. ProcsType  BY DEF TypeInv, TypeOK
<1>r. \A q \in Proc : SubmitterOf(q)  BY SubmitterOfEach
<1>k. ASSUME NEW q \in Proc, pc'[q] = pc[q], cand'[q] = cand[q], cur'[q] = cur[q],
             BrokerMoves \/ \E p \in Proc \ {q} : ProcessStep(p)
      PROVE  SubmitterOf(q)'
  <2>1. CASE pc[q] \in Submitting  BY <1>k, <1>r, <2>1, SubmitterKept
  <2>2. CASE pc[q] \notin Submitting  BY <1>k, <2>2 DEF SubmitterOf, Submitting
  <2>3. QED  BY <2>1, <2>2
<1>1. ASSUME NEW p \in Proc, ProcessStep(p), NEW q \in Proc PROVE SubmitterOf(q)'
  <2>1. CASE q = p  BY <1>1, <1>r, <2>1, SubmitterMade
  <2>2. CASE q # p
    <3>1. pc'[q] = pc[q] /\ cand'[q] = cand[q] /\ cur'[q] = cur[q]
      BY <1>0, <1>1, <2>2, StepFrame DEF ProcessStep, OthersKeep
    <3>2. QED  BY <1>1, <1>k, <2>2, <3>1
  <2>3. QED  BY <2>1, <2>2
<1>2. ASSUME BrokerMoves, NEW q \in Proc PROVE SubmitterOf(q)'
  BY <1>2, <1>k, BrokerFrame DEF procs
<1>3. \A q \in Proc : SubmitterOf(q)'  BY <1>1, <1>2, NextCases
<1>4. QED  BY <1>3 DEF SubmitterIsRight, SubmitterOf

-----------------------------------------------------------------------------
(* The inductive invariant *)

Inductive == TypeInv /\ SubmissionInv /\ ContractInv

LEMMA InductiveInit == Init => Inductive
<1> SUFFICES ASSUME Init PROVE Inductive  OBVIOUS
<1>1. TypeInv  BY InitType
<1>2. SubmissionInv /\ FillInv
  BY DEF Init, SubmissionInv, AtMostOneOrderPerLeg, LockExcludes, BatchIsPlanned,
     IntentPrecedesPost, UnsentHasNoOrder, SeenWasAccepted, AbsentIsEmpty, Blank,
     Submitting, FillInv, FilledIsStable, FilledIsTrue, BuysFollowSells, Leg
<1>q. Qty \in Nat /\ 0 < Qty  BY ConstantsAssumption
<1>3. BrokerBooks /\ LedgerIsTrue /\ FilledIsBooked /\ AcceptedIsPosted
  BY <1>q DEF Init, BrokerBooks, LedgerIsTrue, FilledIsBooked, AcceptedIsPosted,
     Unsent, Leg
<1>4. ReadingIsTrue /\ PhaseMatchesRows /\ SubmitterIsRight
  BY DEF Init, Blank, ReadingIsTrue, PhaseMatchesRows, SubmitterIsRight, Rows, Leg
<1>5. QED  BY <1>1, <1>2, <1>3, <1>4 DEF Inductive, ContractInv

LEMMA ContractInvStep ==
  ASSUME Inductive, Next PROVE ContractInv'
<1>0. /\ TypeInv /\ SubmissionInv /\ FillInv
      /\ BrokerBooks /\ ReadingIsTrue /\ LedgerIsTrue /\ FilledIsBooked
      /\ PhaseMatchesRows /\ AcceptedIsPosted /\ SubmitterIsRight
  BY DEF Inductive, ContractInv
<1>1. BrokerBooks' /\ BooksGrow  BY <1>0, BooksStep
<1>2. ReadingIsTrue' /\ LedgerIsTrue'  BY <1>0, <1>1, ReadingsStep, LedgerStep
<1>3. PhaseMatchesRows'  BY <1>0, PhaseStep
<1>4. AcceptedIsPosted' /\ FilledIsBooked'  BY <1>0, <1>1, AcceptedStep, BookedStep
<1>5. SubmitterIsRight'  BY <1>0, SubmitterStep
<1>6. FillInv'  BY <1>0, FillStep
<1>7. QED  BY <1>1, <1>2, <1>3, <1>4, <1>5, <1>6 DEF ContractInv

LEMMA InductiveStep == Inductive /\ [Next]_vars => Inductive'
<1> SUFFICES ASSUME Inductive, [Next]_vars PROVE Inductive'  OBVIOUS
<1>0. TypeInv /\ SubmissionInv /\ FillInv  BY DEF Inductive, ContractInv
<1>1. TypeInv' /\ SubmissionInv' /\ FillInv'
  BY <1>0, TypeStep, SubmissionStep, FillStep
<1>2. CASE Next  BY <1>1, <1>2, ContractInvStep DEF Inductive
<1>3. CASE UNCHANGED vars
  <2>1. ContractInv /\ FillInv'  BY <1>1 DEF Inductive
  <2>2. ContractInv'
    BY <1>3, <2>1 DEF vars, workflow, capital, broker, procs, ContractInv, BrokerBooks,
       ReadingIsTrue, LedgerIsTrue, FilledIsBooked, Settled, PhaseMatchesRows, Rows,
       AcceptedIsPosted, SubmitterIsRight, BuyIsReady, Unapplied
  <2>3. QED  BY <1>1, <2>2 DEF Inductive
<1>4. QED  BY <1>2, <1>3

LEMMA AlwaysInductive == Spec => []Inductive
BY InductiveInit, InductiveStep, PTL DEF Spec

\* Broker, readers and ledger agree, and a submitter acts on what is still true,
\* in every state that any number of concurrent cycles and deaths can reach.
THEOREM BooksAgree == Spec => []ContractInv
<1>1. Inductive => ContractInv  BY DEF Inductive
<1>2. QED  BY <1>1, AlwaysInductive, PTL

\* The submission protocol, in every such state.
THEOREM SubmissionProtocol == Spec => []SubmissionInv
<1>1. Inductive => SubmissionInv  BY DEF Inductive
<1>2. QED  BY <1>1, AlwaysInductive, PTL

-----------------------------------------------------------------------------
(* Steps that no interleaving can produce *)

\* An order goes out only when no earlier POST of unknown outcome is on record:
\* a submitter that posts holds the flock, and it read no intent but its own.
THEOREM NeverPastAnOrphan == Spec => NoPostPastAnOrphan
<1>1. ASSUME Inductive, [Next]_vars, posts' # posts
      PROVE  \A l \in Leg : ~Orphaned(l)
  <2>1. PICK p \in Proc : ProcessStep(p) /\ (PostAccepted(p) \/ PostReplyLost(p))
    <3>1. Next  BY <1>1 DEF vars, broker
    <3>2. ~BrokerMoves  BY <1>1, BrokerFrame
    <3>3. PICK p \in Proc : ProcessStep(p)  BY <3>1, <3>2, NextCases
    <3>4. QED  BY <1>1, <3>3, ProcessWrites DEF broker
  <2>2. pc[p] = "post"  BY <2>1 DEF PostAccepted, PostReplyLost
  <2>3. \A l \in Leg : leg[l] = "INTENT_RECORDED" => cur[p] = l
    BY <1>1, <2>2 DEF Inductive, ContractInv, SubmitterIsRight
  <2>4. QED  BY <2>3 DEF Orphaned
<1>2. Inductive /\ [Next]_vars =>
        [posts' # posts => \A l \in Leg : ~Orphaned(l)]_vars
  BY <1>1
<1>3. QED  BY <1>2, AlwaysInductive, PTL DEF Spec, NoPostPastAnOrphan

\* An accepted order is read as UNKNOWN only when it is over and the history
\* lags: if it is still open, the pending list read before the history has it.
THEOREM KnownOrdersAreRead == Spec => KnownOrdersStayKnown
<1>1. ASSUME Inductive, Next, NEW p \in Proc, NEW l \in Leg,
             seen[p].state[l] # "UNKNOWN", seen'[p].state[l] = "UNKNOWN"
      PROVE  order[l] # "OPEN" /\ hist[l].st # order[l]
  <2>0. ProcsType /\ BrokerType  BY <1>1 DEF Inductive, TypeInv, TypeOK
  <2>s. seen[p] \in SeenType  BY <2>0 DEF ProcsType
  <2>1. PICK q \in Proc : ProcessStep(q)  BY <1>1, NextCases, BrokerFrame DEF procs
  <2>2. q = p  BY <1>1, <2>0, <2>1, StepFrame DEF ProcessStep, OthersKeep
  <2>3. ReadHistory(p)
    <3>1. CASE seen'[p] = Blank  BY <1>1, <3>1, BlankReading
    <3>2. CASE BeginReconcile(p)
      <4>1. CASE Exit(p)  BY <1>1, <2>0, <4>1, BlankReading, ExitFrame DEF Released
      <4>2. CASE ~Exit(p)
        <5>1. seen'[p].state = Blank.state
          BY <2>0, <3>2, <4>2 DEF BeginReconcile, ProcsType, Blank
        <5>2. QED  BY <1>1, <5>1, BlankReading
      <4>3. QED  BY <4>1, <4>2
    <3>3. CASE Judge(p)
      <4>1. CASE Exit(p)  BY <1>1, <2>0, <4>1, BlankReading, ExitFrame DEF Released
      <4>2. CASE ~Exit(p)
        <5>1. seen'[p].state = seen[p].state
          BY <2>0, <2>s, <3>3, <4>2 DEF Judge, ProcsType, SeenType
        <5>2. QED  BY <1>1, <5>1
      <4>3. QED  BY <4>1, <4>2
    <3>4. ~ApplyFill(p) /\ seen'[p] # seen[p]  BY <1>1 DEF ApplyFill, procs
    <3>5. QED  BY <2>0, <2>1, <2>2, <3>1, <3>2, <3>3, <3>4, ReadingStep
  <2>4. /\ seen'[p].state = [m \in Leg |-> IF m \in seen[p].sub
                              THEN Canonical(hist[m], m \in seen[p].pending)
                              ELSE "NONE"]
        /\ pc[p] = "history"
    BY <2>0, <2>3, <2>s DEF ReadHistory, ProcsType, SeenType
  <2>5. l \in seen[p].sub /\ Canonical(hist[l], l \in seen[p].pending) = "UNKNOWN"
    BY <1>1, <2>4
  <2>6. hist[l] \in [st: OrderStatus, n: 0..Qty]  BY <2>0 DEF BrokerType
  <2>7. l \notin seen[p].pending /\ hist[l].st = "NONE"
    BY <2>5, <2>6, ConstantsAssumption DEF Canonical, OrderStatus
  <2>8. order[l] # "OPEN"
    BY <1>1, <2>4, <2>5, <2>7 DEF Inductive, ContractInv, ReadingIsTrue
  <2>9. order[l] # "NONE"
    <3>1. leg[l] \notin Unsent \cup {"INTENT_RECORDED"}
      BY <1>1, <2>5 DEF Inductive, SubmissionInv, SeenWasAccepted
    <3>2. posts[l] > 0  BY <1>1, <3>1 DEF Inductive, ContractInv, AcceptedIsPosted
    <3>3. QED  BY <1>1, <3>2 DEF Inductive, ContractInv, BrokerBooks
  <2>10. QED  BY <2>7, <2>8, <2>9
<1>2. Inductive /\ [Next]_vars =>
        [\A p \in Proc, l \in Leg :
           seen[p].state[l] # "UNKNOWN" /\ seen'[p].state[l] = "UNKNOWN" =>
             order[l] # "OPEN" /\ hist[l].st # order[l]]_vars
  BY <1>1
<1>3. QED  BY <1>2, AlwaysInductive, PTL DEF Spec, KnownOrdersStayKnown

-----------------------------------------------------------------------------
(* The refinement *)

Over == {l \in Leg : order[l] \in {"FILLED", "DEAD"}}

\* Rows are inserted once, and none is ever deleted.
LEMMA PlanStep ==
  ASSUME Inductive, NEW p \in Proc, ProcessStep(p)
  PROVE  \/ Rows(SellLeg)' = Rows(SellLeg)
         \/ CreateWorkflow(p) /\ status = "ABSENT"
<1>0. TypeInv /\ SubmissionInv /\ WorkflowType /\ ProcsType
  BY DEF Inductive, TypeInv, TypeOK
<1>1. ASSUME NEW l \in Leg, leg'[l] = "ABSENT" PROVE leg[l] = "ABSENT"
  <2>1. CASE UNCHANGED leg  BY <1>1, <2>1
  <2>2. CASE (CreateWorkflow(p) \/ InstallBuys(p)) /\ ~UNCHANGED leg
    <3>1. \E S : leg' = [m \in Leg |-> IF m \in S THEN "PLANNED" ELSE leg[m]]
      BY <2>2 DEF CreateWorkflow, InstallBuys, ExitWithoutEffect, workflow
    <3>2. QED  BY <1>1, <3>1
  <2>3. CASE RecordIntent(p) /\ ~UNCHANGED leg
    <3>1. \E m \in Leg : leg' = [leg EXCEPT ![m] = "INTENT_RECORDED"]
      BY <1>0, <2>3, IntentWrites DEF workflow
    <3>2. QED  BY <1>0, <1>1, <3>1 DEF WorkflowType
  <2>4. CASE RecordAcceptance(p)
    BY <1>0, <1>1, <2>4 DEF RecordAcceptance, WorkflowType
  <2>5. CASE (MarkSell(p) \/ PersistBuyProgress(p)) /\ ~UNCHANGED leg
    <3>1. leg' = [m \in Leg |-> IF m \in seen[p].sub THEN seen[p].state[m] ELSE leg[m]]
      BY <2>5, SellWrites, BuyWrites DEF workflow, SeenStatuses
    <3>2. seen[p].state[l] # "ABSENT"  BY <1>0 DEF ProcsType, SeenType, SeenState
    <3>3. QED  BY <1>1, <3>1, <3>2
  <2>6. CASE MarkBuyComplete(p) /\ ~UNCHANGED leg
    <3>1. leg' = [m \in Leg |-> IF m \in Rows(BuyLeg) THEN "FILLED" ELSE leg[m]]
      BY <2>6, CompleteWrites DEF workflow
    <3>2. QED  BY <1>1, <3>1
  <2>7. StartWorkflow(p) => UNCHANGED leg  BY DEF StartWorkflow
  <2>8. QED
    BY <2>1, <2>2, <2>3, <2>4, <2>5, <2>6, <2>7, WorkflowWrites DEF workflow
<1>2. CASE RowsStay  BY <1>1, <1>2 DEF RowsStay, Rows, Leg
<1>3. CASE InstallBuys(p)
  <2>1. \A s \in SellLeg : leg'[s] = leg[s]
    BY <1>3, InstallWrites, SidesDiffer DEF workflow, Leg
  <2>2. QED  BY <2>1 DEF Rows
<1>4. QED  BY <1>0, <1>2, <1>3, EvidenceStep DEF ProcessStep

\* A POST is a Sell or a Buy of the contract.
LEMMA PostRefines ==
  ASSUME Inductive, NEW p \in Proc, ProcessStep(p),
         PostAccepted(p) \/ PostReplyLost(p)
  PROVE  Contract!Next
<1>0. /\ TypeInv /\ SubmissionInv /\ FillInv /\ BrokerBooks /\ SubmitterIsRight
      /\ BrokerType /\ WorkflowType /\ ProcsType
  BY DEF Inductive, ContractInv, TypeInv, TypeOK
<1> DEFINE c == cur[p]
<1>1. /\ pc[p] = "post" /\ NewOrder(c) /\ UNCHANGED <<workflow, capital>>
  BY DEF PostAccepted, PostReplyLost
<1>2. c \in Leg /\ posts[c] = 0 /\ leg[c] = "INTENT_RECORDED"
  BY <1>0, <1>1 DEF SubmissionInv, IntentPrecedesPost
<1>3. c \in cand[p]  BY <1>0, <1>1 DEF SubmitterIsRight
<1> HIDE DEF c
<1>4. /\ posts' = [posts EXCEPT ![c] = 1] /\ filled' = filled
      /\ order[c] = "NONE" /\ order' = [order EXCEPT ![c] = "OPEN"]
  BY <1>0, <1>1, <1>2, NewOrderBooks DEF FillInv
<1>5. Over' = Over  BY <1>0, <1>2, <1>4 DEF Over, BrokerType
<1>6. Rows(SellLeg)' = Rows(SellLeg) /\ ledger' = ledger /\ cash' = cash
  BY <1>1 DEF workflow, capital, Rows
<1>7. Contract!Send(c)
  BY <1>2, <1>4, <1>5, <1>6 DEF Contract!Send, Over
<1>8. CASE c \in SellLeg
  <2>1. c \in Rows(SellLeg)  BY <1>2, <1>8 DEF Rows
  <2>2. Contract!Sell(c)  BY <1>7, <2>1 DEF Contract!Sell
  <2>3. QED  BY <1>8, <2>2 DEF Contract!Next
<1>9. CASE c \in BuyLeg
  <2>1. BuyIsReady  BY <1>0, <1>1, <1>3, <1>9 DEF SubmitterIsRight
  <2>2. \A s \in Rows(SellLeg) : filled[s] = Qty
    BY <1>0, <2>1 DEF BuyIsReady, BrokerBooks, Rows, Leg
  <2>3. \A b \in BuyLeg : ~Contract!Working(b)
    BY <2>1 DEF BuyIsReady, Contract!Working, Leg
  <2>4. Contract!Executed \subseteq ledger
    <3>1. ASSUME NEW f \in Contract!Executed PROVE f \in ledger
      <4>1. f \in Leg \X (1..Qty) /\ f[2] <= filled[f[1]]
        BY <3>1 DEF Contract!Executed, Contract!Leg, Leg
      <4>2. f = <<f[1], f[2]>> /\ f[1] \in Leg /\ f[2] \in 1..Qty  BY <4>1
      <4>3. QED  BY <2>1, <4>1, <4>2 DEF BuyIsReady
    <3>2. QED  BY <3>1
  <2>5. Qty * Estimate <= cash  BY <2>1 DEF BuyIsReady
  <2>6. Contract!Buy(c)  BY <1>7, <2>2, <2>3, <2>4, <2>5 DEF Contract!Buy
  <2>7. QED  BY <1>9, <2>6 DEF Contract!Next
<1>10. QED  BY <1>2, <1>8, <1>9 DEF Leg

\* Applying a fill is a Book of the contract.
LEMMA FillRefines ==
  ASSUME Inductive, NEW p \in Proc, ApplyFill(p)
  PROVE  Contract!Next
<1>0. /\ BrokerBooks /\ ReadingIsTrue /\ BrokerType /\ ProcsType /\ CapitalType
  BY DEF Inductive, ContractInv, TypeInv, TypeOK
<1>q. Qty \in Nat  BY ConstantsAssumption
<1>1. PICK f \in Unapplied(p) : /\ ledger' = ledger \cup {f}
                                /\ cash' = cash + CashDelta(f[1])
  BY DEF ApplyFill
<1>2. f \in Leg \X (1..Qty) /\ f[2] <= seen[p].fills[f[1]] /\ f \notin ledger
  BY <1>1 DEF Unapplied
<1>3. f[1] \in Leg /\ f[2] \in 1..Qty  BY <1>2
<1>4. seen[p].fills[f[1]] <= filled[f[1]]  BY <1>0, <1>3 DEF ReadingIsTrue
<1>5. /\ seen[p].fills[f[1]] \in 0..Qty /\ filled[f[1]] \in 0..Qty
      /\ posts[f[1]] \in Nat
  BY <1>0, <1>3 DEF ProcsType, SeenType, BrokerType
<1>6. f[2] <= filled[f[1]] /\ filled[f[1]] # 0  BY <1>q, <1>2, <1>3, <1>4, <1>5
<1>7. price[f[1]] \in Price
  BY <1>0, <1>3, <1>5, <1>6 DEF BrokerBooks
<1>8. f \in Contract!Executed \ ledger
  BY <1>2, <1>6 DEF Contract!Executed, Contract!Leg, Leg
<1>9. UNCHANGED <<workflow, broker>>  BY DEF ApplyFill
<1>10. Rows(SellLeg)' = Rows(SellLeg) /\ posts' = posts /\ filled' = filled /\ Over' = Over
  BY <1>9 DEF workflow, broker, Rows, Over
<1>11. \E x \in Price : cash' = IF f[1] \in SellLeg THEN cash + x ELSE cash - x
  <2>1. price[f[1]] \in Nat /\ cash \in Int
    BY <1>0, <1>3 DEF BrokerType, CapitalType
  <2>2. cash' = IF f[1] \in SellLeg THEN cash + price[f[1]] ELSE cash - price[f[1]]
    BY <1>1, <2>1 DEF CashDelta
  <2>3. QED  BY <1>7, <2>2
<1>12. Contract!Book(f)
  BY <1>1, <1>8, <1>10, <1>11 DEF Contract!Book, Over
<1>13. f \in Contract!Leg \X (1..Qty)  BY <1>2 DEF Contract!Leg, Leg
<1>14. QED  BY <1>12, <1>13 DEF Contract!Next

\* The broker's own moves are Execute and Cancel of the contract.
LEMMA TradeRefines ==
  ASSUME Inductive, BrokerMoves
  PROVE  [Contract!Next]_Contract!cvars
<1>0. TypeInv /\ FillInv /\ BrokerType /\ OpenIsUnfinished
  BY DEF Inductive, ContractInv, TypeInv, TypeOK
<1>q. Qty \in Nat  BY ConstantsAssumption
<1>u. /\ Rows(SellLeg)' = Rows(SellLeg) /\ posts' = posts
      /\ ledger' = ledger /\ cash' = cash
  BY BrokerFrame DEF workflow, capital, Rows
<1>1. ASSUME NEW l \in Leg, FillUnit(l) PROVE Contract!Next
  <2>1. /\ order[l] = "OPEN" /\ filled' = [filled EXCEPT ![l] = filled[l] + 1]
        /\ order' = [order EXCEPT ![l] = IF filled[l] + 1 = Qty THEN "FILLED" ELSE "OPEN"]
    BY <1>1 DEF FillUnit
  <2>2. posts[l] > 0 /\ l \notin Over /\ filled[l] < Qty
    BY <1>0, <2>1 DEF FillInv, FilledIsStable, OpenIsUnfinished, Over, BrokerType
  <2>3. filled'[l] = filled[l] + 1  BY <1>0, <2>1 DEF BrokerType
  <2>4. Over' = IF filled'[l] = Qty THEN Over \cup {l} ELSE Over
    <3>1. \A m \in Leg : m # l => order'[m] = order[m]  BY <1>0, <2>1 DEF BrokerType
    <3>2. order'[l] = IF filled'[l] = Qty THEN "FILLED" ELSE "OPEN"
      BY <1>0, <2>1, <2>3 DEF BrokerType
    <3>3. QED  BY <2>2, <3>1, <3>2 DEF Over
  <2>5. Contract!Execute(l)
    BY <1>u, <2>1, <2>2, <2>4 DEF Contract!Execute, Contract!Working, Over
  <2>6. QED  BY <2>5 DEF Contract!Next, Contract!Leg, Leg
<1>2. ASSUME NEW l \in Leg, Kill(l) PROVE Contract!Next
  <2>1. order[l] = "OPEN" /\ order' = [order EXCEPT ![l] = "DEAD"] /\ filled' = filled
    BY <1>2 DEF Kill
  <2>2. posts[l] > 0 /\ l \notin Over
    BY <1>0, <2>1 DEF FillInv, FilledIsStable, Over, BrokerType
  <2>3. Over' = Over \cup {l}  BY <1>0, <2>1 DEF Over, BrokerType
  <2>4. Contract!Cancel(l)
    BY <1>u, <2>1, <2>2, <2>3 DEF Contract!Cancel, Contract!Working, Over
  <2>5. QED  BY <2>4 DEF Contract!Next, Contract!Leg, Leg
<1>3. ASSUME (\E l \in Leg : ShowHistory(l)) \/ NewClose PROVE UNCHANGED Contract!cvars
  <2>1. UNCHANGED <<order, filled>>  BY <1>3 DEF ShowHistory, NewClose
  <2>2. QED  BY <1>u, <2>1 DEF Contract!cvars
<1>4. QED  BY <1>1, <1>2, <1>3 DEF BrokerMoves, Trade

LEMMA StepRefines ==
  Inductive /\ [Next]_vars => [Contract!Next]_Contract!cvars
<1> SUFFICES ASSUME Inductive, [Next]_vars PROVE [Contract!Next]_Contract!cvars
  OBVIOUS
<1>1. ASSUME NEW p \in Proc, ProcessStep(p) PROVE [Contract!Next]_Contract!cvars
  <2>1. CASE PostAccepted(p) \/ PostReplyLost(p)  BY <1>1, <2>1, PostRefines
  <2>2. CASE ApplyFill(p)  BY <2>2, FillRefines
  <2>3. CASE UNCHANGED <<broker, capital>>
    <3>1. UNCHANGED <<posts, order, filled, ledger, cash>>  BY <2>3 DEF broker, capital
    <3>2. CASE Rows(SellLeg)' = Rows(SellLeg)  BY <3>1, <3>2 DEF Contract!cvars
    <3>3. CASE status = "ABSENT"
      <4>1. \A l \in Leg : leg[l] = "ABSENT"
        BY <3>3 DEF Inductive, SubmissionInv, AbsentIsEmpty
      <4>2. Rows(SellLeg) = {} /\ \A l \in Leg : posts[l] = 0
        BY <4>1 DEF Rows, Leg, Inductive, SubmissionInv, UnsentHasNoOrder, Unsent
      <4>3. Rows(SellLeg)' \in SUBSET SellLeg  BY DEF Rows
      <4>4. Contract!Decide
        BY <3>1, <4>2, <4>3 DEF Contract!Decide, Contract!Leg, Leg
      <4>5. QED  BY <4>4 DEF Contract!Next
    <3>4. QED  BY <1>1, <3>2, <3>3, PlanStep
  <2>4. QED  BY <1>1, <2>1, <2>2, <2>3, ProcessWrites
<1>2. CASE BrokerMoves  BY <1>2, TradeRefines
<1>3. CASE UNCHANGED vars
  BY <1>3 DEF vars, workflow, capital, broker, Rows, Contract!cvars
<1>4. QED  BY <1>1, <1>2, <1>3, NextCases

LEMMA InitRefines == Init => Contract!Init
BY DEF Init, Contract!Init, Contract!Leg, Rows, Leg

\* The execution layer keeps its promise to the account, whatever the number of
\* processes and legs, the order sizes, the prices and the deaths: each order at
\* most once, SELLs before BUYs, one BUY at a time and out of booked cash.
THEOREM Implementation == Spec => ImplementsContract
BY InitRefines, StepRefines, AlwaysInductive, PTL
   DEF Spec, ImplementsContract, Contract!Spec

-----------------------------------------------------------------------------
(* One process at a time: what recovery finds, and how a workflow ends *)

OneProcess == \A p, q \in Proc : p = q

\* The event keys an ACTIVE workflow may have used in a phase, and the execution
\* states it may be in.
SellKeys == {"created", "start", "sell-partial_fill", "sell-sell_pending"}
BuyKeys ==
  SellKeys \cup {"sell-reconciling", "buy-installed", "m5b:buy-partial",
                 "m5b:buy-leg-first-filled", "m5b:buy-pending"}
KeysOf(ph) ==
  CASE ph = "NONE" -> {"created"}
    [] ph = "SELL" -> SellKeys
    [] ph = "RECONCILE" -> SellKeys \cup {"sell-reconciling"}
    [] OTHER -> BuyKeys
ExecsOf(ph) ==
  CASE ph = "NONE" -> {"PLAN_CREATED"}
    [] ph = "SELL" -> {"SELL_PENDING", "PARTIAL_FILL"}
    [] ph = "RECONCILE" -> {"RECONCILING"}
    [] OTHER -> {"BUY_PENDING", "PARTIAL_FILL"}

\* The execution state goes with the workflow row: the write that opens a phase
\* or ends the workflow is never dropped for a key that an earlier one had used.
ExecInv ==
  /\ status \in {"ABSENT", "COMPLETE"} => exec = "IDLE"
  /\ status \in {"RECONCILIATION_REQUIRED", "FAILED"} => exec = status
  /\ status = "ACTIVE" => exec \in ExecsOf(phase) /\ keys \subseteq KeysOf(phase)
  /\ status = "ABSENT" => keys = {}

\* So do the leg rows: an ACTIVE phase has a leg to work on, cash falls below
\* zero only with a BUY in flight, and a COMPLETE workflow is settled.
LegsInv ==
  /\ status = "ACTIVE" =>
       /\ \A l \in Leg : leg[l] \notin {"UNKNOWN", "FAILED"}
       /\ phase = "NONE" => \A s \in Rows(SellLeg) : leg[s] = "PLANNED"
       /\ phase = "RECONCILE" => Rows(BuyLeg) = {}
       /\ phase \in {"SELL", "BUY"} => \E l \in Rows(PhaseSide) : leg[l] # "FILLED"
       /\ phase = "BUY" /\ InDebt =>
            \E b \in BuyLeg : leg[b] \in InFlight \cup {"INTENT_RECORDED"}
  /\ status = "COMPLETE" => \A l \in Rows(Leg) : Settled(l)

\* What a handler has read is what it still finds when it writes.
SubmitterWorks == {"intent", "post", "accept", "unsure"}
ReaderWorks == {"history", "apply", "mark"}
HandlerOf(p) ==
  /\ pc[p] \in SubmitterWorks => status = "ACTIVE"
  /\ pc[p] \in ReaderWorks =>
       /\ status = "ACTIVE" /\ phase \in {"SELL", "BUY"} /\ seen[p].phase = phase
       /\ ~Ambiguous(PhaseSide) /\ seen[p].sub # {}
       /\ seen[p].sub = {l \in Rows(PhaseSide) : leg[l] # "PLANNED"}
       /\ phase = "SELL" => seen[p].sub = Rows(SellLeg)
  /\ pc[p] = "apply" => \A l \in Leg \ seen[p].sub : seen[p].fills[l] = 0
  /\ pc[p] = "mark" => seen[p].verdict = Verdict(p)

SerialInv == ExecInv /\ LegsInv /\ \A p \in Proc : HandlerOf(p)

\* A process that does not work on what it read has nothing to be wrong about.
LEMMA HandlerRests ==
  ASSUME NEW p, pc'[p] \notin SubmitterWorks \cup ReaderWorks
  PROVE  HandlerOf(p)'
BY DEF HandlerOf, SubmitterWorks, ReaderWorks

LEMMA HandlerKept ==
  ASSUME NEW p, HandlerOf(p), UNCHANGED <<status, phase, leg, cash, pc, seen>>
  PROVE  HandlerOf(p)'
<1>1. /\ Verdict(p)' = Verdict(p) /\ Rows(PhaseSide)' = Rows(PhaseSide)
      /\ Rows(SellLeg)' = Rows(SellLeg) /\ Ambiguous(PhaseSide)' = Ambiguous(PhaseSide)
  BY DEF Verdict, InDebt, InStatus, Rows, PhaseSide, Ambiguous
<1>2. QED  BY <1>1 DEF HandlerOf

\* What is settled stays settled.
SettledKept == \A l \in Leg : Settled(l) => Settled(l)'

LEMMA SettledIsKept ==
  ASSUME Inductive, Next PROVE SettledKept
<1>1. OrdersAdvance /\ BooksGrow
  BY OrdersStep, BooksStep DEF Inductive, ContractInv
<1>2. QED  BY <1>1, SettledStays DEF SettledKept

LEMMA RecordsKept ==
  ASSUME ExecInv, LegsInv, SettledKept, UNCHANGED <<workflow, cash>>
  PROVE  ExecInv' /\ LegsInv'
<1>1. UNCHANGED <<status, phase, leg, exec, keys, cash>>  BY DEF workflow
<1>2. ExecInv'  BY <1>1 DEF ExecInv
<1>3. LegsInv'  BY <1>1 DEF LegsInv, SettledKept, Rows, PhaseSide, InDebt, Leg
<1>4. QED  BY <1>2, <1>3

\* A key of a step that is not undone is new when it is written.
LEMMA KeysAreEarlier ==
  ASSUME TypeInv, ExecInv, status = "ACTIVE"
  PROVE  keys \subseteq BuyKeys /\ (phase # "BUY" => keys \subseteq SellKeys \cup {"sell-reconciling"})
BY DEF TypeInv, TypeOK, WorkflowType, ExecInv, KeysOf, BuyKeys, SellKeys

LEMMA NewKey ==
  ASSUME NEW key, NEW to, SetExec(key, to), key \notin keys PROVE exec' = to
BY DEF SetExec

LEMMA AnyKey ==
  ASSUME NEW key, NEW to, SetExec(key, to)
  PROVE  exec' \in {exec, to} /\ keys' \subseteq keys \cup {key}
BY DEF SetExec

\* A workflow that stops fail-closed says so in both places.
LEMMA StopRecords ==
  ASSUME TypeInv, ExecInv, status = "ACTIVE", NEW key, key \notin BuyKeys,
         NEW to \in {"RECONCILIATION_REQUIRED", "FAILED"},
         status' = to, SetExec(key, to)
  PROVE  ExecInv' /\ LegsInv'
<1>1. key \notin keys  BY KeysAreEarlier
<1>2. exec' = to  BY <1>1, NewKey
<1>3. QED  BY <1>2 DEF ExecInv, LegsInv

LEMMA RequiredRecords ==
  ASSUME TypeInv, ExecInv, LegsInv, SettledKept, RequireReconciliation
  PROVE  ExecInv' /\ LegsInv'
<1>1. CASE status = "ACTIVE" /\ Ambiguous(Leg)
  <2>1. /\ status' = "RECONCILIATION_REQUIRED"
        /\ SetExec("ambiguous-intent", "RECONCILIATION_REQUIRED")
    BY <1>1 DEF RequireReconciliation
  <2>2. "ambiguous-intent" \notin BuyKeys  BY DEF BuyKeys, SellKeys
  <2>3. QED  BY <1>1, <2>1, <2>2, StopRecords
<1>2. CASE ~(status = "ACTIVE" /\ Ambiguous(Leg))
  BY <1>2, RecordsKept DEF RequireReconciliation, capital
<1>3. QED  BY <1>1, <1>2

-----------------------------------------------------------------------------
(* Planning *)

LEMMA CreateRecords ==
  ASSUME Inductive, ExecInv, LegsInv, SettledKept, NEW p \in Proc, CreateWorkflow(p)
  PROVE  ExecInv' /\ LegsInv'
<1>0. leg \in [Leg -> LegStatus]  BY DEF Inductive, TypeInv, TypeOK, WorkflowType
<1>1. CASE UNCHANGED <<workflow, capital>>  BY <1>1, RecordsKept DEF capital
<1>2. CASE /\ status = "ABSENT" /\ status' = "ACTIVE" /\ phase' = "NONE"
           /\ SetExec("created", "PLAN_CREATED")
           /\ \E S \in SUBSET SellLeg :
                leg' = [l \in Leg |-> IF l \in S THEN "PLANNED" ELSE leg[l]]
  <2>1. \A l \in Leg : leg[l] = "ABSENT"
    BY <1>2 DEF Inductive, SubmissionInv, AbsentIsEmpty
  <2>2. keys = {}  BY <1>2 DEF ExecInv
  <2>3. exec' = "PLAN_CREATED" /\ keys' \subseteq {"created"}
    BY <1>2, <2>2, NewKey, AnyKey
  <2>4. \A l \in Leg : leg'[l] \in {"ABSENT", "PLANNED"}  BY <1>2, <2>1
  <2>5. ExecInv'  BY <1>2, <2>3 DEF ExecInv, ExecsOf, KeysOf
  <2>6. LegsInv'  BY <1>2, <2>4 DEF LegsInv, Rows, Leg
  <2>7. QED  BY <2>5, <2>6
<1>3. QED  BY <1>1, <1>2 DEF CreateWorkflow, ExitWithoutEffect

LEMMA StartRecords ==
  ASSUME Inductive, ExecInv, LegsInv, SettledKept, NEW p \in Proc, StartWorkflow(p)
  PROVE  ExecInv' /\ LegsInv'
<1>1. UNCHANGED <<status, leg, capital>>  BY DEF StartWorkflow
<1>2. CASE UNCHANGED <<phase, exec, keys>>
  BY <1>1, <1>2, RecordsKept DEF capital, workflow
<1>3. CASE status = "ACTIVE" /\ phase = "NONE" /\ ~UNCHANGED <<phase, exec, keys>>
  <2>1. keys \subseteq {"created"}  BY <1>3 DEF ExecInv, KeysOf
  <2>2. /\ \A b \in BuyLeg : leg[b] = "ABSENT"
        /\ \A s \in Rows(SellLeg) : leg[s] = "PLANNED"
        /\ \A l \in Leg : leg[l] \notin {"UNKNOWN", "FAILED"}
    BY <1>3 DEF Inductive, ContractInv, PhaseMatchesRows, LegsInv
  <2>3. CASE /\ Rows(SellLeg) # {} /\ phase' = "SELL" /\ SetExec("start", "SELL_PENDING")
    <3>1. exec' = "SELL_PENDING" /\ keys' \subseteq SellKeys
      BY <2>1, <2>3 DEF SetExec, SellKeys
    <3>2. ExecInv'  BY <1>1, <1>3, <2>3, <3>1 DEF ExecInv, ExecsOf, KeysOf
    <3>3. LegsInv'  BY <1>1, <1>3, <2>2, <2>3 DEF LegsInv, Rows, PhaseSide
    <3>4. QED  BY <3>2, <3>3
  <2>4. CASE phase' = "RECONCILE" /\ SetExec("start", "RECONCILING")
    <3>1. exec' = "RECONCILING" /\ keys' \subseteq SellKeys
      BY <2>1, <2>4 DEF SetExec, SellKeys
    <3>2. ExecInv'  BY <1>1, <1>3, <2>4, <3>1 DEF ExecInv, ExecsOf, KeysOf
    <3>3. LegsInv'  BY <1>1, <1>3, <2>2, <2>4 DEF LegsInv, Rows
    <3>4. QED  BY <3>2, <3>3
  <2>5. QED  BY <1>3, <2>3, <2>4 DEF StartWorkflow
<1>4. QED  BY <1>2, <1>3 DEF StartWorkflow

LEMMA InstallRecords ==
  ASSUME Inductive, ExecInv, LegsInv, SettledKept, NEW p \in Proc, InstallBuys(p)
  PROVE  ExecInv' /\ LegsInv'
<1>0. leg \in [Leg -> LegStatus]  BY DEF Inductive, TypeInv, TypeOK, WorkflowType
<1>1. UNCHANGED capital  BY DEF InstallBuys
<1>2. CASE UNCHANGED workflow  BY <1>1, <1>2, RecordsKept DEF capital
<1>3. CASE ~UNCHANGED workflow
  <2>1. /\ status = "ACTIVE" /\ phase = "RECONCILE" /\ Rows(BuyLeg) = {}
        /\ Rows(SellLeg) = InStatus(SellLeg, {"FILLED"})
    BY <1>3 DEF InstallBuys
  <2>2. keys \subseteq SellKeys \cup {"sell-reconciling"}  BY <2>1 DEF ExecInv, KeysOf
  <2>3. \A l \in Leg : leg[l] \notin {"UNKNOWN", "FAILED"}  BY <2>1 DEF LegsInv
  <2>4. CASE status' = "COMPLETE" /\ UNCHANGED <<phase, leg>>
             /\ SetExec("no-buy-complete", "IDLE")
    <3>1. exec' = "IDLE"  BY <2>2, <2>4, NewKey DEF SellKeys
    <3>2. \A l \in Rows(Leg) : Settled(l)
      BY <2>1 DEF Rows, InStatus, Leg, Inductive, ContractInv, FilledIsBooked
    <3>3. \A l \in Rows(Leg)' : Settled(l)'
      BY <2>4, <3>2 DEF SettledKept, Rows
    <3>4. QED  BY <2>4, <3>1, <3>3 DEF ExecInv, LegsInv
  <2>5. CASE /\ ~InDebt
             /\ \E B \in (SUBSET BuyLeg) \ {{}} :
                  leg' = [l \in Leg |-> IF l \in B THEN "PLANNED" ELSE leg[l]]
             /\ phase' = "BUY" /\ UNCHANGED status
             /\ SetExec("buy-installed", "BUY_PENDING")
    <3>1. exec' = "BUY_PENDING" /\ keys' \subseteq BuyKeys
      BY <2>2, <2>5 DEF SetExec, SellKeys, BuyKeys
    <3>2. ExecInv'  BY <2>1, <2>5, <3>1 DEF ExecInv, ExecsOf, KeysOf
    <3>3. ~InDebt'  BY <1>1, <2>5 DEF InDebt, capital
    <3>4. PICK b \in BuyLeg : leg'[b] = "PLANNED"
      <4>1. PICK B \in (SUBSET BuyLeg) \ {{}} :
              leg' = [l \in Leg |-> IF l \in B THEN "PLANNED" ELSE leg[l]]
        BY <2>5
      <4>2. B \subseteq BuyLeg /\ B \subseteq Leg /\ \E b \in B : TRUE  BY <4>1 DEF Leg
      <4>3. QED  BY <4>1, <4>2
    <3>5. \A l \in Leg : leg'[l] \notin {"UNKNOWN", "FAILED"}  BY <2>3, <2>5
    <3>6. LegsInv'
      BY <2>1, <2>5, <3>3, <3>4, <3>5 DEF LegsInv, Rows, PhaseSide
    <3>7. QED  BY <3>2, <3>6
  <2>6. QED  BY <1>3, <2>4, <2>5 DEF InstallBuys
<1>4. QED  BY <1>2, <1>3

-----------------------------------------------------------------------------
(* Submission *)

LEMMA IntentRecords ==
  ASSUME Inductive, ExecInv, LegsInv, SettledKept, NEW p \in Proc, HandlerOf(p),
         RecordIntent(p)
  PROVE  ExecInv' /\ LegsInv'
<1>0. WorkflowType /\ ProcsType  BY DEF Inductive, TypeInv, TypeOK
<1>1. UNCHANGED <<status, phase, exec, keys, capital>> /\ pc[p] = "intent"
  BY DEF RecordIntent, workflow
<1>2. CASE UNCHANGED workflow  BY <1>1, <1>2, RecordsKept DEF capital
<1>3. CASE ~UNCHANGED workflow
  <2>1. PICK l \in Leg : /\ leg[l] \in {"PLANNED", "INTENT_RECORDED"}
                         /\ phase = (IF l \in SellLeg THEN "SELL" ELSE "BUY")
                         /\ leg' = [leg EXCEPT ![l] = "INTENT_RECORDED"]
    BY <1>0, <1>3, IntentWrites
  <2>2. status = "ACTIVE" /\ phase \in {"SELL", "BUY"}
    BY <1>1, <2>1 DEF HandlerOf, SubmitterWorks
  <2>3. \A m \in Leg : leg'[m] = IF m = l THEN "INTENT_RECORDED" ELSE leg[m]
    BY <1>0, <2>1 DEF WorkflowType
  <2>4. ExecInv'  BY <1>1 DEF ExecInv
  <2>5. LegsInv'
    BY <1>1, <2>1, <2>2, <2>3 DEF LegsInv, Rows, PhaseSide, InDebt, capital, Leg
  <2>6. QED  BY <2>4, <2>5
<1>4. QED  BY <1>2, <1>3

LEMMA AcceptRecords ==
  ASSUME Inductive, ExecInv, LegsInv, SettledKept, NEW p \in Proc, HandlerOf(p),
         RecordAcceptance(p)
  PROVE  ExecInv' /\ LegsInv'
<1>0. leg \in [Leg -> LegStatus]  BY DEF Inductive, TypeInv, TypeOK, WorkflowType
<1>1. UNCHANGED <<status, phase, exec, keys, capital>> /\ pc[p] = "accept"
  BY DEF RecordAcceptance
<1> DEFINE c == cur[p]
<1>2. c \in Leg  BY <1>1 DEF Inductive, ContractInv, AcceptedIsPosted
<1>3. leg' = [leg EXCEPT ![c] = IF leg[c] = "INTENT_RECORDED"
                                  THEN "BROKER_ACCEPTED" ELSE leg[c]]
  BY <1>0, <1>2 DEF RecordAcceptance
<1> HIDE DEF c
<1>4. CASE leg[c] # "INTENT_RECORDED"
  <2>1. leg' = leg  BY <1>0, <1>2, <1>3, <1>4
  <2>2. QED  BY <1>1, <2>1, RecordsKept DEF capital, workflow
<1>5. CASE leg[c] = "INTENT_RECORDED"
  <2>1. \A m \in Leg : leg'[m] = IF m = c THEN "BROKER_ACCEPTED" ELSE leg[m]
    BY <1>0, <1>3, <1>5
  <2>2. status = "ACTIVE"  BY <1>1 DEF HandlerOf, SubmitterWorks
  <2>3. phase # "NONE"
    BY <1>2, <1>5, <2>2 DEF LegsInv, Rows, Leg, Inductive, ContractInv, PhaseMatchesRows
  <2>4. phase = "RECONCILE" => c \notin BuyLeg
    BY <1>5, <2>2 DEF LegsInv, Rows
  <2>5. ExecInv'  BY <1>1 DEF ExecInv
  <2>6. LegsInv'
    BY <1>1, <1>2, <1>5, <2>1, <2>2, <2>3, <2>4
    DEF LegsInv, Rows, PhaseSide, InDebt, capital, Leg, InFlight
  <2>7. QED  BY <2>5, <2>6
<1>6. QED  BY <1>4, <1>5

-----------------------------------------------------------------------------
(* Reconciliation *)

\* Booking a fill may bring the cash below zero, with the leg still in flight.
LEMMA FillRecords ==
  ASSUME Inductive, ExecInv, LegsInv, SettledKept, NEW p \in Proc, HandlerOf(p),
         ApplyFill(p)
  PROVE  ExecInv' /\ LegsInv'
<1>0. leg \in [Leg -> LegStatus]  BY DEF Inductive, TypeInv, TypeOK, WorkflowType
<1>1. /\ UNCHANGED <<status, phase, leg, exec, keys>> /\ pc[p] = "apply"
  BY DEF ApplyFill, workflow
<1>2. PICK f \in Unapplied(p) : TRUE  BY DEF ApplyFill
<1>3. /\ status = "ACTIVE" /\ ~Ambiguous(PhaseSide)
      /\ seen[p].sub = {l \in Rows(PhaseSide) : leg[l] # "PLANNED"}
      /\ \A l \in Leg \ seen[p].sub : seen[p].fills[l] = 0
  BY <1>1 DEF HandlerOf, ReaderWorks
<1> DEFINE b == f[1]  n == f[2]
<1>4. b \in Leg /\ n \in 1..Qty /\ f = <<b, n>> /\ n <= seen[p].fills[b] /\ f \notin ledger
  BY <1>2 DEF Unapplied
<1> HIDE DEF b, n
<1>5. b \in seen[p].sub
  <2>1. Qty \in Nat  BY ConstantsAssumption
  <2>2. seen[p].fills[b] # 0  BY <1>4, <2>1
  <2>3. QED  BY <1>3, <1>4, <2>2
<1>6. phase = "BUY" => b \in BuyLeg /\ leg[b] \in InFlight
  <2> SUFFICES ASSUME phase = "BUY" PROVE b \in BuyLeg /\ leg[b] \in InFlight
    OBVIOUS
  <2>1. b \in BuyLeg /\ leg[b] \notin {"ABSENT", "PLANNED", "INTENT_RECORDED"}
    BY <1>3, <1>5 DEF Rows, PhaseSide, Ambiguous, InStatus
  <2>2. leg[b] \notin {"UNKNOWN", "FAILED"}  BY <1>3, <1>4 DEF LegsInv
  <2>3. leg[b] # "FILLED"
    BY <1>3, <1>4, <2>1 DEF Inductive, ContractInv, FilledIsBooked, Settled
  <2>4. QED  BY <1>0, <1>4, <2>1, <2>2, <2>3 DEF LegStatus, InFlight
<1>7. ExecInv'  BY <1>1 DEF ExecInv
<1>8. LegsInv'  BY <1>1, <1>3, <1>6 DEF LegsInv, Rows, PhaseSide
<1>9. QED  BY <1>7, <1>8

\* What the verdict of a reading says of the legs it has read.
LEMMA VerdictMeans ==
  ASSUME TypeInv, NEW p \in Proc, pc[p] = "mark", HandlerOf(p)
  PROVE  LET v == seen[p].verdict
             sub == seen[p].sub
             state == seen[p].state
         IN /\ v \in SeenVerdict \ {"none"}
            /\ v \notin {"unknown", "failed"} =>
                 \A l \in sub : state[l] \in {"PENDING", "PARTIAL", "FILLED"}
            /\ v \in {"partial", "pending"} =>
                 \E l \in sub : state[l] \in {"PENDING", "PARTIAL"}
            /\ v \in {"filled", "breach", "next", "done"} =>
                 \A l \in sub : state[l] = "FILLED"
            /\ v = "filled" => phase = "SELL"
            /\ v \in {"breach", "next", "done"} => phase = "BUY"
            /\ v \in {"next", "done"} => ~InDebt
            /\ v = "next" => InStatus(BuyLeg, {"PLANNED"}) \ sub # {}
            /\ v = "done" => InStatus(BuyLeg, {"PLANNED"}) \ sub = {}
<1> DEFINE states == {seen[p].state[l] : l \in seen[p].sub}
<1>1. /\ seen[p].verdict = Verdict(p) /\ seen[p].phase = phase
      /\ phase \in {"SELL", "BUY"} /\ seen[p].sub # {}
  BY DEF HandlerOf, ReaderWorks
<1>2. \A l \in seen[p].sub : seen[p].state[l] \in SeenState \ {"NONE"}
  BY DEF TypeInv, TypeOK, ProcsType, SeenType, ReadBeforeJudged
<1>3. states \subseteq {"PENDING", "PARTIAL", "FILLED", "FAILED", "UNKNOWN"} /\ states # {}
  BY <1>1, <1>2 DEF SeenState
<1>4. Verdict(p) =
        CASE "UNKNOWN" \in states -> "unknown"
          [] "UNKNOWN" \notin states /\ "FAILED" \in states -> "failed"
          [] states \cap {"UNKNOWN", "FAILED"} = {} /\ "PARTIAL" \in states -> "partial"
          [] states = {"FILLED"} ->
               IF seen[p].phase = "SELL" THEN "filled"
               ELSE IF InDebt THEN "breach"
               ELSE IF InStatus(BuyLeg, {"PLANNED"}) \ seen[p].sub # {} THEN "next"
               ELSE "done"
          [] OTHER -> "pending"
  BY DEF Verdict
<1>5. \A x : x \in states <=> \E l \in seen[p].sub : x = seen[p].state[l]  OBVIOUS
<1> HIDE DEF states
<1>6. CASE "UNKNOWN" \in states  BY <1>1, <1>4, <1>6 DEF SeenVerdict
<1>7. CASE "UNKNOWN" \notin states /\ "FAILED" \in states
  BY <1>1, <1>4, <1>7 DEF SeenVerdict
<1>8. CASE /\ "UNKNOWN" \notin states /\ "FAILED" \notin states /\ "PARTIAL" \in states
  <2>1. Verdict(p) = "partial"  BY <1>4, <1>8
  <2>2. \A l \in seen[p].sub : seen[p].state[l] \in {"PENDING", "PARTIAL", "FILLED"}
    BY <1>3, <1>5, <1>8
  <2>3. QED  BY <1>1, <1>5, <1>8, <2>1, <2>2 DEF SeenVerdict
<1>9. CASE states = {"FILLED"}
  <2>1. \A l \in seen[p].sub : seen[p].state[l] = "FILLED"  BY <1>5, <1>9
  <2>2. Verdict(p) = IF seen[p].phase = "SELL" THEN "filled"
               ELSE IF InDebt THEN "breach"
               ELSE IF InStatus(BuyLeg, {"PLANNED"}) \ seen[p].sub # {} THEN "next"
               ELSE "done"
    BY <1>4, <1>9
  <2>3. QED  BY <1>1, <2>1, <2>2 DEF SeenVerdict
<1>10. CASE /\ "UNKNOWN" \notin states /\ "FAILED" \notin states /\ "PARTIAL" \notin states
            /\ states # {"FILLED"}
  <2>1. Verdict(p) = "pending"  BY <1>4, <1>10
  <2>2. \A l \in seen[p].sub : seen[p].state[l] \in {"PENDING", "FILLED"}
    BY <1>3, <1>5, <1>10
  <2>3. "PENDING" \in states  BY <1>3, <1>10
  <2>4. QED  BY <1>1, <1>5, <2>1, <2>2, <2>3 DEF SeenVerdict
<1>11. QED  BY <1>6, <1>7, <1>8, <1>9, <1>10

\* Writing back what was read: a leg that was read takes the status read.
LEMMA Written ==
  ASSUME NEW p \in Proc, leg' = SeenStatuses(p)
  PROVE  \A l \in Leg : leg'[l] = IF l \in seen[p].sub THEN seen[p].state[l] ELSE leg[l]
BY DEF SeenStatuses

LEMMA SellRecords ==
  ASSUME Inductive, ExecInv, LegsInv, SettledKept, NEW p \in Proc, HandlerOf(p),
         MarkSell(p)
  PROVE  ExecInv' /\ LegsInv'
<1>1. UNCHANGED capital /\ pc[p] = "mark"  BY DEF MarkSell
<1>2. CASE UNCHANGED workflow  BY <1>1, <1>2, RecordsKept DEF capital
<1>3. CASE ~UNCHANGED workflow
  <2> DEFINE v == seen[p].verdict
             sub == seen[p].sub
             state == seen[p].state
  <2>1. /\ status = "ACTIVE" /\ phase = "SELL" /\ sub = Rows(SellLeg)
        /\ leg' = SeenStatuses(p)
    BY <1>3, SellWrites
  <2>2. \A l \in Leg : leg'[l] = IF l \in sub THEN state[l] ELSE leg[l]
    BY <2>1, Written
  <2>3. /\ v \in {"unknown", "failed", "partial", "filled", "pending"}
        /\ v \notin {"unknown", "failed"} =>
             \A l \in sub : state[l] \in {"PENDING", "PARTIAL", "FILLED"}
        /\ v \in {"partial", "pending"} =>
             \E l \in sub : state[l] \in {"PENDING", "PARTIAL"}
    <3>1. TypeInv  BY DEF Inductive
    <3>2. QED  BY <1>1, <2>1, <3>1, VerdictMeans DEF SeenVerdict
  <2>4. CASE \/ v = "unknown" /\ Stop("sell-unknown", "RECONCILIATION_REQUIRED")
             \/ v = "failed" /\ Stop("sell-failed", "FAILED")
    <3>1. "sell-unknown" \notin BuyKeys /\ "sell-failed" \notin BuyKeys
      BY DEF BuyKeys, SellKeys
    <3>2. TypeInv  BY DEF Inductive
    <3>3. QED  BY <2>1, <2>4, <3>1, <3>2, StopRecords DEF Stop
  <2>5. CASE /\ v \in {"partial", "pending"}
             /\ \/ Stay("sell-partial_fill", "PARTIAL_FILL")
                \/ Stay("sell-sell_pending", "SELL_PENDING")
    <3>1. status' = "ACTIVE" /\ phase' = "SELL"  BY <2>1, <2>5 DEF Stay
    <3>2. exec \in ExecsOf("SELL") /\ keys \subseteq SellKeys
      BY <2>1 DEF ExecInv, KeysOf
    <3>3. exec' \in ExecsOf("SELL") /\ keys' \subseteq SellKeys
      BY <2>5, <3>2 DEF Stay, SetExec, ExecsOf, SellKeys
    <3>4. ExecInv'  BY <3>1, <3>3 DEF ExecInv, KeysOf
    <3>5. PICK m \in sub : state[m] \in {"PENDING", "PARTIAL"}  BY <2>3, <2>5
    <3>6. m \in SellLeg /\ m \in Leg  BY <2>1, <3>5 DEF Rows, Leg
    <3>7. leg'[m] \in {"PENDING", "PARTIAL"}  BY <2>2, <3>5, <3>6
    <3>8. \A l \in Leg : leg'[l] \notin {"UNKNOWN", "FAILED"}
      BY <2>1, <2>2, <2>3, <2>5 DEF LegsInv
    <3>9. LegsInv'  BY <3>1, <3>6, <3>7, <3>8 DEF LegsInv, Rows, PhaseSide
    <3>10. QED  BY <3>4, <3>9
  <2>6. CASE /\ v = "filled" /\ phase' = "RECONCILE" /\ UNCHANGED status
             /\ SetExec("sell-reconciling", "RECONCILING")
    <3>1. keys \subseteq SellKeys  BY <2>1 DEF ExecInv, KeysOf
    <3>2. exec' = "RECONCILING" /\ keys' \subseteq SellKeys \cup {"sell-reconciling"}
      BY <2>6, <3>1 DEF SetExec, SellKeys
    <3>3. ExecInv'  BY <2>1, <2>6, <3>2 DEF ExecInv, ExecsOf, KeysOf
    <3>4. \A b \in BuyLeg : leg[b] = "ABSENT" /\ b \notin sub
      BY <2>1, SidesDiffer DEF Inductive, ContractInv, PhaseMatchesRows, Rows
    <3>5. \A b \in BuyLeg : leg'[b] = "ABSENT"  BY <2>2, <3>4 DEF Leg
    <3>6. \A l \in Leg : leg'[l] \notin {"UNKNOWN", "FAILED"}
      BY <2>1, <2>2, <2>3, <2>6 DEF LegsInv
    <3>7. LegsInv'  BY <2>1, <2>6, <3>5, <3>6 DEF LegsInv, Rows
    <3>8. QED  BY <3>3, <3>7
  <2>7. CASE \/ v = "unknown" \/ v = "failed" \/ v = "partial" \/ v = "filled"
             \/ v = "pending"
    <3>1. CASE seen[p].verdict = "unknown"  BY <1>3, <2>4, <3>1 DEF MarkSell
    <3>2. CASE seen[p].verdict = "failed"  BY <1>3, <2>4, <3>2 DEF MarkSell
    <3>3. CASE seen[p].verdict = "partial"  BY <1>3, <2>5, <3>3 DEF MarkSell
    <3>4. CASE seen[p].verdict = "filled"  BY <1>3, <2>6, <3>4 DEF MarkSell
    <3>5. CASE seen[p].verdict = "pending"  BY <1>3, <2>5, <3>5 DEF MarkSell
    <3>6. QED  BY <2>7, <3>1, <3>2, <3>3, <3>4, <3>5
  <2>8. QED  BY <2>3, <2>7
<1>4. QED  BY <1>2, <1>3

LEMMA BuyRecords ==
  ASSUME Inductive, ExecInv, LegsInv, SettledKept, NEW p \in Proc, HandlerOf(p),
         PersistBuyProgress(p)
  PROVE  ExecInv' /\ LegsInv'
<1>1. UNCHANGED capital /\ pc[p] = "mark" /\ seen[p].verdict # "done"
  BY DEF PersistBuyProgress
<1>2. CASE UNCHANGED workflow  BY <1>1, <1>2, RecordsKept DEF capital
<1>3. CASE ~UNCHANGED workflow
  <2> DEFINE v == seen[p].verdict
             sub == seen[p].sub
             state == seen[p].state
  <2>1. /\ status = "ACTIVE" /\ phase = "BUY" /\ leg' = SeenStatuses(p)
        /\ sub \subseteq Rows(BuyLeg)
    BY <1>1, <1>3, BuyWrites DEF HandlerOf, ReaderWorks, PhaseSide
  <2>2. \A l \in Leg : leg'[l] = IF l \in sub THEN state[l] ELSE leg[l]
    BY <2>1, Written
  <2>3. /\ v \in {"unknown", "failed", "breach", "partial", "next", "pending"}
        /\ v \notin {"unknown", "failed"} =>
             \A l \in sub : state[l] \in {"PENDING", "PARTIAL", "FILLED"}
        /\ v \in {"partial", "pending"} =>
             \E l \in sub : state[l] \in {"PENDING", "PARTIAL"}
        /\ v = "next" => ~InDebt /\ InStatus(BuyLeg, {"PLANNED"}) \ sub # {}
    <3>1. TypeInv  BY DEF Inductive
    <3>2. QED  BY <1>1, <2>1, <3>1, VerdictMeans DEF SeenVerdict
  <2>4. CASE \/ Stop("m5b:buy-unknown", "RECONCILIATION_REQUIRED")
             \/ Stop("m5b:buy-failed", "FAILED")
             \/ Stop("m5b:buy-cash-boundary-breach", "RECONCILIATION_REQUIRED")
    <3>1. /\ "m5b:buy-unknown" \notin BuyKeys /\ "m5b:buy-failed" \notin BuyKeys
          /\ "m5b:buy-cash-boundary-breach" \notin BuyKeys
      BY DEF BuyKeys, SellKeys
    <3>2. TypeInv  BY DEF Inductive
    <3>3. QED  BY <2>1, <2>4, <3>1, <3>2, StopRecords DEF Stop
  <2>5. CASE /\ v \in {"partial", "next", "pending"}
             /\ \/ Stay("m5b:buy-partial", "PARTIAL_FILL")
                \/ Stay("m5b:buy-leg-first-filled", "BUY_PENDING")
                \/ Stay("m5b:buy-pending", "BUY_PENDING")
    <3>1. status' = "ACTIVE" /\ phase' = "BUY"  BY <2>1, <2>5 DEF Stay
    <3>2. exec \in ExecsOf("BUY") /\ keys \subseteq BuyKeys
      BY <2>1 DEF ExecInv, KeysOf
    <3>3. exec' \in ExecsOf("BUY") /\ keys' \subseteq BuyKeys
      BY <2>5, <3>2 DEF Stay, SetExec, ExecsOf, BuyKeys
    <3>4. ExecInv'  BY <3>1, <3>3 DEF ExecInv, KeysOf
    <3>5. \A l \in Leg : leg'[l] \notin {"UNKNOWN", "FAILED"}
      BY <2>1, <2>2, <2>3, <2>5 DEF LegsInv
    <3>6. CASE v \in {"partial", "pending"}
      <4>1. PICK m \in sub : state[m] \in {"PENDING", "PARTIAL"}  BY <2>3, <3>6
      <4>2. m \in BuyLeg /\ m \in Leg  BY <2>1, <4>1 DEF Rows, Leg
      <4>3. leg'[m] \in {"PENDING", "PARTIAL"}  BY <2>2, <4>1, <4>2
      <4>4. LegsInv'
        BY <3>1, <3>5, <4>2, <4>3 DEF LegsInv, Rows, PhaseSide, InFlight
      <4>5. QED  BY <3>4, <4>4
    <3>7. CASE v = "next"
      <4>1. PICK m \in BuyLeg : leg[m] = "PLANNED" /\ m \notin sub
        BY <2>3, <3>7 DEF InStatus, Rows
      <4>2. leg'[m] = "PLANNED"  BY <2>2, <4>1 DEF Leg
      <4>3. ~InDebt'  BY <1>1, <2>3, <3>7 DEF InDebt, capital
      <4>4. LegsInv'  BY <3>1, <3>5, <4>1, <4>2, <4>3 DEF LegsInv, Rows, PhaseSide
      <4>5. QED  BY <3>4, <4>4
    <3>8. QED  BY <2>5, <3>6, <3>7
  <2>6. CASE \/ v = "unknown" \/ v = "failed" \/ v = "breach" \/ v = "partial"
             \/ v = "next" \/ v = "pending"
    <3>1. CASE seen[p].verdict = "unknown"  BY <1>3, <2>4, <3>1 DEF PersistBuyProgress
    <3>2. CASE seen[p].verdict = "failed"  BY <1>3, <2>4, <3>2 DEF PersistBuyProgress
    <3>3. CASE seen[p].verdict = "breach"  BY <1>3, <2>4, <3>3 DEF PersistBuyProgress
    <3>4. CASE seen[p].verdict = "partial"  BY <1>3, <2>5, <3>4 DEF PersistBuyProgress
    <3>5. CASE seen[p].verdict = "next"  BY <1>3, <2>5, <3>5 DEF PersistBuyProgress
    <3>6. CASE seen[p].verdict = "pending"  BY <1>3, <2>5, <3>6 DEF PersistBuyProgress
    <3>7. QED  BY <2>6, <3>1, <3>2, <3>3, <3>4, <3>5, <3>6
  <2>7. QED  BY <2>3, <2>6
<1>4. QED  BY <1>2, <1>3

\* The last BUY leg was read FILLED, and with it every other.
LEMMA CompleteRecords ==
  ASSUME Inductive, ExecInv, LegsInv, SettledKept, NEW p \in Proc, HandlerOf(p),
         MarkBuyComplete(p)
  PROVE  ExecInv' /\ LegsInv'
<1>t. TypeInv /\ FillInv /\ ReadingIsTrue  BY DEF Inductive, ContractInv
<1>1. UNCHANGED capital /\ pc[p] = "mark" /\ seen[p].verdict = "done"
  BY DEF MarkBuyComplete
<1>2. CASE UNCHANGED workflow  BY <1>1, <1>2, RecordsKept DEF capital
<1>3. CASE ~UNCHANGED workflow
  <2>1. /\ status = "ACTIVE" /\ phase = "BUY" /\ status' = "COMPLETE"
        /\ leg' = [l \in Leg |-> IF l \in Rows(BuyLeg) THEN "FILLED" ELSE leg[l]]
        /\ SetExec("buy-reconcile-idle", "IDLE")
    BY <1>3 DEF MarkBuyComplete
  <2>2. /\ seen[p].sub = {l \in Rows(BuyLeg) : leg[l] # "PLANNED"}
        /\ InStatus(BuyLeg, {"PLANNED"}) \ seen[p].sub = {}
        /\ \A l \in seen[p].sub : seen[p].state[l] = "FILLED"
    BY <1>t, <1>1, <2>1, VerdictMeans DEF HandlerOf, ReaderWorks, PhaseSide
  <2>3. \A b \in Rows(BuyLeg) : seen[p].state[b] = "FILLED"
    BY <2>2 DEF InStatus
  <2>4. \A b \in Rows(BuyLeg) : Settled(b)
    BY <1>t, <1>1, <2>3, ReadAndBooked DEF Rows, Leg
  <2>5. \A s \in Rows(SellLeg) : Settled(s)
    BY <2>1 DEF Inductive, ContractInv, PhaseMatchesRows, FilledIsBooked, Rows
  <2>6. \A l \in Leg : leg'[l] # "ABSENT" => leg[l] # "ABSENT"
    BY <2>1 DEF Rows
  <2>7. \A l \in Rows(Leg)' : Settled(l)'
    BY <2>4, <2>5, <2>6 DEF SettledKept, Rows, Leg
  <2>8. keys \subseteq BuyKeys  BY <2>1 DEF ExecInv, KeysOf
  <2>9. exec' = "IDLE"  BY <2>1, <2>8 DEF SetExec, BuyKeys, SellKeys
  <2>10. QED  BY <2>1, <2>7, <2>9 DEF ExecInv, LegsInv
<1>4. QED  BY <1>2, <1>3

\* Whatever a process does, the rows go on agreeing.
LEMMA RecordsStep ==
  ASSUME Inductive, ExecInv, LegsInv, SettledKept, NEW p \in Proc, HandlerOf(p),
         ProcessStep(p)
  PROVE  ExecInv' /\ LegsInv'
<1>t. TypeInv  BY DEF Inductive
<1>u. UNCHANGED <<workflow, capital>> => ExecInv' /\ LegsInv'
  BY RecordsKept DEF capital
<1>x. ExitWithoutEffect(p) => ExecInv' /\ LegsInv'  BY <1>u DEF ExitWithoutEffect
<1>1. CASE Submit(p)
  <2>1. CASE RecordIntent(p)  BY <2>1, IntentRecords
  <2>2. CASE RecordAcceptance(p)  BY <2>2, AcceptRecords
  <2>3. CASE PostFailed(p)  BY <1>t, <2>3, RequiredRecords DEF PostFailed
  <2>4. CASE AcquireLock(p) \/ ReadSubmission(p) \/ PostAccepted(p)
             \/ PostReplyLost(p) \/ PostRefused(p)
    <3>1. UNCHANGED <<workflow, capital>>
      BY <2>4 DEF AcquireLock, ReadSubmission, PostAccepted, PostReplyLost, PostRefused,
         ExitWithoutEffect
    <3>2. QED  BY <1>u, <3>1
  <2>5. QED  BY <1>1, <2>1, <2>2, <2>3, <2>4 DEF Submit
<1>2. CASE Reconcile(p)
  <2>1. CASE ApplyFill(p)  BY <2>1, FillRecords
  <2>2. CASE MarkSell(p)  BY <2>2, SellRecords
  <2>3. CASE PersistBuyProgress(p)  BY <2>3, BuyRecords
  <2>4. CASE MarkBuyComplete(p)  BY <2>4, CompleteRecords
  <2>5. CASE BeginReconcile(p) \/ ReadHistory(p) \/ Judge(p)
    <3>1. UNCHANGED <<workflow, capital>>
      BY <2>5 DEF BeginReconcile, ReadHistory, Judge
    <3>2. QED  BY <1>u, <3>1
  <2>6. QED  BY <1>2, <2>1, <2>2, <2>3, <2>4, <2>5 DEF Reconcile
<1>3. CASE Classify(p) \/ Refuse(p) \/ Crash(p)
  BY <1>3, <1>u, <1>x DEF Classify, Refuse, Crash
<1>4. CASE PersistAmbiguous(p)  BY <1>t, <1>4, RequiredRecords DEF PersistAmbiguous
<1>5. CASE CreateWorkflow(p)  BY <1>5, CreateRecords
<1>6. CASE StartWorkflow(p)  BY <1>6, StartRecords
<1>7. CASE InstallBuys(p)  BY <1>7, InstallRecords
<1>8. QED
  BY <1>1, <1>2, <1>3, <1>4, <1>5, <1>6, <1>7 DEF ProcessStep, Cycle

-----------------------------------------------------------------------------
(* What the process has read *)

LEMMA HandlerStep ==
  ASSUME Inductive, ExecInv, LegsInv, NEW p \in Proc, HandlerOf(p), ProcessStep(p)
  PROVE  HandlerOf(p)'
<1>0. ProcsType  BY DEF Inductive, TypeInv, TypeOK
<1>s. seen[p] \in SeenType  BY <1>0 DEF ProcsType
<1> DEFINE Rests == SubmitterWorks \cup ReaderWorks
<1>x. Exit(p) \/ ExitWithoutEffect(p) \/ Crash(p) => HandlerOf(p)'
  <2>1. Exit(p) \/ ExitWithoutEffect(p) \/ Crash(p) => pc'[p] = "idle"
    BY <1>0 DEF Exit, ExitWithoutEffect, Crash, ProcsType
  <2>2. QED  BY <2>1, HandlerRests DEF SubmitterWorks, ReaderWorks
<1>g. ASSUME NEW label, Goto(p, label), label \notin Rests PROVE HandlerOf(p)'
  <2>1. pc'[p] = label  BY <1>0, <1>g DEF Goto, ProcsType
  <2>2. QED  BY <1>g, <2>1, HandlerRests
<1>w. ASSUME pc'[p] \in SubmitterWorks, status' = "ACTIVE" PROVE HandlerOf(p)'
  BY <1>w DEF HandlerOf, SubmitterWorks, ReaderWorks
<1>1. CASE Submit(p)
  <2>1. CASE AcquireLock(p)
    <3>1. ExitWithoutEffect(p) \/ pc'[p] = "locked"
      BY <1>0, <2>1 DEF AcquireLock, ProcsType
    <3>2. QED  BY <1>x, <3>1, HandlerRests DEF SubmitterWorks, ReaderWorks
  <2>2. CASE ReadSubmission(p)
    <3>1. \/ ExitWithoutEffect(p)
          \/ status' = "ACTIVE" /\ pc'[p] \in {"unsure", "intent"}
      BY <1>0, <2>2 DEF ReadSubmission, Goto, ProcsType, workflow
    <3>2. QED  BY <1>w, <1>x, <3>1 DEF SubmitterWorks
  <2>3. CASE RecordIntent(p)
    <3>1. \/ Exit(p)
          \/ pc'[p] = "post" /\ status' = status /\ pc[p] = "intent"
      BY <1>0, <2>3 DEF RecordIntent, ProcsType
    <3>2. QED  BY <1>w, <1>x, <3>1 DEF HandlerOf, SubmitterWorks
  <2>4. CASE PostAccepted(p) \/ PostReplyLost(p) \/ PostRefused(p)
    <3>1. pc[p] = "post" /\ pc'[p] \in {"accept", "unsure"} /\ status' = status
      BY <1>0, <2>4
      DEF PostAccepted, PostReplyLost, PostRefused, Goto, ProcsType, workflow
    <3>2. QED  BY <1>w, <3>1 DEF HandlerOf, SubmitterWorks
  <2>5. CASE PostFailed(p)  BY <1>x, <2>5 DEF PostFailed
  <2>6. CASE RecordAcceptance(p)
    <3>1. \/ Exit(p)
          \/ pc'[p] = "intent" /\ status' = status /\ pc[p] = "accept"
      BY <1>0, <2>6 DEF RecordAcceptance, ProcsType
    <3>2. QED  BY <1>w, <1>x, <3>1 DEF HandlerOf, SubmitterWorks
  <2>7. QED  BY <1>1, <2>1, <2>2, <2>3, <2>4, <2>5, <2>6 DEF Submit
<1>2. CASE BeginReconcile(p)
  <2> DEFINE sub == Rows(PhaseSide) \ InStatus(PhaseSide, {"PLANNED"})
  <2>1. CASE Exit(p)  BY <1>x, <2>1
  <2>2. CASE ~Exit(p)
    <3>1. /\ status = "ACTIVE" /\ phase \in {"SELL", "BUY"} /\ ~Ambiguous(PhaseSide)
          /\ sub # {} /\ (phase = "SELL" => sub = Rows(SellLeg))
          /\ UNCHANGED <<status, phase, leg, cash>> /\ pc'[p] = "history"
      BY <1>0, <1>2, <2>2 DEF BeginReconcile, ProcsType, workflow, capital
    <3>2. seen'[p].phase = phase /\ seen'[p].sub = sub
      BY <1>0, <1>2, <2>2 DEF BeginReconcile, ProcsType, Blank
    <3>3. sub = {l \in Rows(PhaseSide) : leg[l] # "PLANNED"}  BY DEF InStatus
    <3> HIDE DEF sub
    <3>4. QED
      BY <3>1, <3>2, <3>3
      DEF HandlerOf, SubmitterWorks, ReaderWorks, Rows, PhaseSide, Ambiguous, InStatus
  <2>3. QED  BY <2>1, <2>2
<1>3. ASSUME pc[p] \in ReaderWorks, UNCHANGED <<status, phase, leg, cash>>,
             seen'[p].phase = seen[p].phase, seen'[p].sub = seen[p].sub
      PROVE  /\ status' = "ACTIVE" /\ phase' \in {"SELL", "BUY"} /\ seen'[p].phase = phase'
             /\ ~Ambiguous(PhaseSide)' /\ seen'[p].sub # {}
             /\ seen'[p].sub = {l \in Rows(PhaseSide)' : leg'[l] # "PLANNED"}
             /\ phase' = "SELL" => seen'[p].sub = Rows(SellLeg)'
  BY <1>3 DEF HandlerOf, Rows, PhaseSide, Ambiguous, InStatus
<1>4. CASE ReadHistory(p)
  <2>1. /\ pc[p] = "history" /\ pc'[p] = "apply" /\ UNCHANGED <<status, phase, leg, cash>>
    BY <1>0, <1>4 DEF ReadHistory, ProcsType, workflow, capital
  <2>2. /\ seen'[p].phase = seen[p].phase /\ seen'[p].sub = seen[p].sub
        /\ seen'[p].fills = [l \in Leg |-> IF l \in seen[p].sub THEN hist[l].n ELSE 0]
    BY <1>0, <1>s, <1>4 DEF ReadHistory, ProcsType, SeenType
  <2>3. QED  BY <1>3, <2>1, <2>2 DEF HandlerOf, SubmitterWorks, ReaderWorks
<1>5. CASE ApplyFill(p)
  <2>1. /\ pc[p] = "apply" /\ UNCHANGED <<status, phase, leg, pc, seen>>
    BY <1>5 DEF ApplyFill, workflow, procs
  <2>2. QED
    BY <2>1
    DEF HandlerOf, SubmitterWorks, ReaderWorks, Rows, PhaseSide, Ambiguous, InStatus
<1>6. CASE Judge(p)
  <2>1. CASE Exit(p)  BY <1>x, <2>1
  <2>2. CASE ~Exit(p)
    <3>1. /\ pc[p] = "apply" /\ pc'[p] = "mark" /\ UNCHANGED <<status, phase, leg, cash>>
          /\ seen'[p] = [seen[p] EXCEPT !.verdict = Verdict(p)]
      BY <1>0, <1>6, <2>2 DEF Judge, ProcsType, workflow, capital
    <3>2. /\ seen'[p].phase = seen[p].phase /\ seen'[p].sub = seen[p].sub
          /\ seen'[p].state = seen[p].state /\ seen'[p].verdict = Verdict(p)
      BY <1>s, <3>1 DEF SeenType
    <3>3. Verdict(p)' = Verdict(p)
      BY <3>1, <3>2 DEF Verdict, InDebt, InStatus, Rows
    <3>4. QED  BY <1>3, <3>1, <3>2, <3>3 DEF HandlerOf, SubmitterWorks, ReaderWorks
  <2>3. QED  BY <2>1, <2>2
<1>7. CASE MarkSell(p) \/ PersistBuyProgress(p) \/ MarkBuyComplete(p)
  BY <1>7, <1>x DEF MarkSell, PersistBuyProgress, MarkBuyComplete
<1>8. CASE Classify(p)
  <2>1. RecoveryAction \notin Rests
    BY DEF RecoveryAction, SubmitterWorks, ReaderWorks
  <2>2. QED  BY <1>8, <1>g, <2>1 DEF Classify, SubmitterWorks, ReaderWorks
<1>9. CASE PersistAmbiguous(p) \/ StartWorkflow(p) \/ InstallBuys(p) \/ Refuse(p) \/ Crash(p)
  BY <1>9, <1>x DEF PersistAmbiguous, StartWorkflow, InstallBuys, Refuse
<1>10. CASE CreateWorkflow(p)
  BY <1>10, <1>g, <1>x DEF CreateWorkflow, SubmitterWorks, ReaderWorks
<1>11. QED
  BY <1>1, <1>2, <1>4, <1>5, <1>6, <1>7, <1>8, <1>9, <1>10 DEF ProcessStep, Cycle, Reconcile

-----------------------------------------------------------------------------
(* The invariant of one process *)

LEMMA SerialInit == Init => SerialInv
<1> SUFFICES ASSUME Init PROVE SerialInv  OBVIOUS
<1>1. ExecInv /\ LegsInv  BY DEF Init, ExecInv, LegsInv
<1>2. \A p \in Proc : HandlerOf(p)
  BY DEF Init, HandlerOf, SubmitterWorks, ReaderWorks
<1>3. QED  BY <1>1, <1>2 DEF SerialInv

LEMMA SerialStep ==
  ASSUME OneProcess, Inductive, SerialInv, [Next]_vars PROVE SerialInv'
<1>1. CASE Next
  <2>1. SettledKept  BY <1>1, SettledIsKept
  <2>2. ASSUME NEW p \in Proc, ProcessStep(p) PROVE SerialInv'
    <3>1. \A q \in Proc : q = p  BY DEF OneProcess
    <3>2. ExecInv /\ LegsInv /\ HandlerOf(p)  BY DEF SerialInv
    <3>3. ExecInv' /\ LegsInv'  BY <2>1, <2>2, <3>2, RecordsStep
    <3>4. HandlerOf(p)'  BY <2>2, <3>2, HandlerStep
    <3>5. \A q \in Proc : HandlerOf(q)'  BY <3>1, <3>4
    <3>6. QED  BY <3>3, <3>5 DEF SerialInv
  <2>3. CASE BrokerMoves
    <3>1. UNCHANGED <<workflow, capital, procs>>  BY <2>3, BrokerFrame
    <3>2. ExecInv' /\ LegsInv'  BY <2>1, <3>1, RecordsKept DEF SerialInv, capital
    <3>3. \A q \in Proc : HandlerOf(q)'
      BY <3>1, HandlerKept DEF SerialInv, workflow, capital, procs
    <3>4. QED  BY <3>2, <3>3 DEF SerialInv
  <2>4. QED  BY <1>1, <2>2, <2>3, NextCases
<1>2. CASE UNCHANGED vars
  <2>1. UNCHANGED <<workflow, capital, broker, procs>>  BY <1>2 DEF vars
  <2>2. SettledKept  BY <2>1 DEF SettledKept, Settled, capital, broker
  <2>3. ExecInv' /\ LegsInv'  BY <2>1, <2>2, RecordsKept DEF SerialInv, capital
  <2>4. \A q \in Proc : HandlerOf(q)'
    BY <2>1, HandlerKept DEF SerialInv, workflow, capital, procs
  <2>5. QED  BY <2>3, <2>4 DEF SerialInv
<1>3. QED  BY <1>1, <1>2

LEMMA AlwaysSerial ==
  ASSUME OneProcess PROVE Spec => [](Inductive /\ SerialInv)
<1>1. Init => Inductive /\ SerialInv  BY InductiveInit, SerialInit
<1>2. Inductive /\ SerialInv /\ [Next]_vars => Inductive' /\ SerialInv'
  BY InductiveStep, SerialStep
<1>3. QED  BY <1>1, <1>2, PTL DEF Spec

\* Whatever a sequence of cycles and deaths of one process leaves in the
\* database, the next cycle can classify it (recovery_v04.py).
THEOREM RecoveryNeverFails == OneProcess => (Spec => []RecoveryIsDefined)
<1> SUFFICES ASSUME OneProcess PROVE Spec => []RecoveryIsDefined  OBVIOUS
<1>1. ASSUME Inductive, SerialInv PROVE RecoveryIsDefined
  <2>0. status \in WorkflowStatus /\ phase \in {"NONE", "SELL", "RECONCILE", "BUY"}
    BY <1>1 DEF Inductive, TypeInv, TypeOK, WorkflowType
  <2>1. ExecInv /\ LegsInv /\ PhaseMatchesRows
    BY <1>1 DEF SerialInv, Inductive, ContractInv
  <2>2. CASE status # "ACTIVE"
    BY <2>0, <2>1, <2>2 DEF RecoveryIsDefined, RecoveryError, ExecInv, WorkflowStatus
  <2>3. CASE status = "ACTIVE" /\ phase = "NONE"
    BY <2>1, <2>3 DEF RecoveryIsDefined, RecoveryError, ExecInv, ExecsOf,
       PhaseMatchesRows, Rows
  <2>4. CASE status = "ACTIVE" /\ phase = "RECONCILE"
    BY <2>1, <2>4 DEF RecoveryIsDefined, RecoveryError, ExecInv, ExecsOf, LegsInv,
       PhaseMatchesRows, Rows, InStatus
  <2>5. CASE status = "ACTIVE" /\ phase \in {"SELL", "BUY"}
    <3>1. exec \in {PhasePending, "PARTIAL_FILL"} /\ exec # "RECONCILIATION_REQUIRED"
      BY <2>1, <2>5 DEF ExecInv, ExecsOf, PhasePending
    <3>2. PICK l \in Rows(PhaseSide) : leg[l] # "FILLED"  BY <2>1, <2>5 DEF LegsInv
    <3>3. Rows(PhaseSide) # {} /\ Rows(PhaseSide) # InStatus(PhaseSide, {"FILLED"})
      BY <3>2 DEF InStatus
    <3>4. InStatus(PhaseSide, {"UNKNOWN", "FAILED"}) = {}
      BY <2>1, <2>5 DEF LegsInv, InStatus, Rows, PhaseSide, Leg
    <3>5. phase = "BUY" /\ InDebt /\ ~Ambiguous(PhaseSide) => InStatus(BuyLeg, InFlight) # {}
      BY <2>1, <2>5 DEF LegsInv, InStatus, Rows, PhaseSide, Ambiguous, InFlight
    <3>6. QED
      BY <2>5, <3>1, <3>3, <3>4, <3>5 DEF RecoveryIsDefined, RecoveryError
  <2>6. QED  BY <2>0, <2>2, <2>3, <2>4, <2>5
<1>2. QED  BY <1>1, AlwaysSerial, PTL

\* A workflow that has ended stays as it is: the only process there is finds an
\* ACTIVE workflow behind every write it makes.
THEOREM NothingAfterTheEnd == OneProcess => (Spec => StoppedStaysStopped)
<1> SUFFICES ASSUME OneProcess PROVE Spec => StoppedStaysStopped  OBVIOUS
<1>1. ASSUME SerialInv, [Next]_vars, status \in Terminal
      PROVE  UNCHANGED <<status, leg, posts>>
  <2>1. ASSUME NEW p \in Proc, ProcessStep(p) PROVE UNCHANGED <<status, leg, posts>>
    <3>1. HandlerOf(p) /\ status # "ACTIVE" /\ status # "ABSENT"
      BY <1>1 DEF SerialInv, Terminal
    <3>2. pc[p] \notin SubmitterWorks \cup ReaderWorks  BY <3>1 DEF HandlerOf
    <3>3. posts' = posts
      BY <2>1, <3>2, ProcessWrites DEF PostAccepted, PostReplyLost, SubmitterWorks, broker
    <3>4. UNCHANGED workflow \/ StartWorkflow(p) \/ InstallBuys(p)
      BY <2>1, <3>1, <3>2, WorkflowWrites
      DEF RecordIntent, RecordAcceptance, MarkSell, PersistBuyProgress, MarkBuyComplete,
          SubmitterWorks, ReaderWorks
    <3>5. InstallBuys(p) => UNCHANGED workflow  BY <3>1, InstallWrites
    <3>6. UNCHANGED <<status, leg>>  BY <3>4, <3>5 DEF workflow, StartWorkflow
    <3>7. QED  BY <3>3, <3>6
  <2>2. QED  BY <1>1, <2>1, NextCases, BrokerFrame DEF vars, workflow, broker
<1>2. Inductive /\ SerialInv /\ [Next]_vars =>
        [(status \in Terminal) => UNCHANGED <<status, leg, posts>>]_vars
  BY <1>1
<1>3. QED  BY <1>2, AlwaysSerial, PTL DEF Spec, StoppedStaysStopped

-----------------------------------------------------------------------------
(* The cash, for any number of processes *)

Impacts(pr) ==
  [f \in Leg \X (1..Qty) |-> IF f[1] \in SellLeg THEN pr[f[1]] ELSE -pr[f[1]]]

CashIsLedger ==
  IsFiniteSet(ledger) /\ cash = OpeningCash + SumOf(Impacts(price), ledger)

LEMMA ImpactIsCashDelta ==
  ASSUME NEW f \in Leg \X (1..Qty)
  PROVE  Impacts(price)[f] = CashDelta(f[1])
BY DEF Impacts, CashDelta

LEMMA ImpactsAreInts ==
  ASSUME NEW pr \in [Leg -> Nat], NEW f \in Leg \X (1..Qty)
  PROVE  Impacts(pr)[f] \in Int
<1>1. f[1] \in Leg  OBVIOUS
<1>2. PICK x \in Nat : x = pr[f[1]]  BY <1>1
<1>3. x \in Int /\ -x \in Int  OBVIOUS
<1>4. Impacts(pr)[f] = IF f[1] \in SellLeg THEN x ELSE -x  BY <1>2 DEF Impacts
<1>5. QED  BY <1>3, <1>4

\* A new order has no fill in the ledger, so its price changes no booked amount.
LEMMA CashStep ==
  ASSUME Inductive, CashIsLedger, [Next]_vars PROVE CashIsLedger'
<1>0. /\ ledger \subseteq Leg \X (1..Qty) /\ cash \in Int /\ OpeningCash \in Int
      /\ price \in [Leg -> Nat] /\ Qty \in Nat /\ IsFiniteSet(ledger)
  BY ConstantsAssumption
  DEF Inductive, TypeInv, TypeOK, CapitalType, BrokerType, CashIsLedger
<1>i. \A f \in Leg \X (1..Qty) : Impacts(price)[f] \in Int
  BY <1>0, ImpactsAreInts
<1>u. UNCHANGED <<capital, price>> => CashIsLedger'  BY DEF CashIsLedger, capital
<1>1. ASSUME NEW p \in Proc, ProcessStep(p) PROVE CashIsLedger'
  <2>1. CASE UNCHANGED broker /\ UNCHANGED capital
    BY <1>u, <2>1 DEF broker
  <2>2. CASE PostAccepted(p) \/ PostReplyLost(p)
    <3> DEFINE c == cur[p]
    <3>1. c \in Leg /\ posts[c] = 0 /\ UNCHANGED capital
      BY <2>2 DEF PostAccepted, PostReplyLost, Inductive, SubmissionInv, IntentPrecedesPost
    <3>2. PICK x \in Price : price' = [price EXCEPT ![c] = x]
      BY <2>2 DEF PostAccepted, PostReplyLost, NewOrder
    <3>3. filled[c] = 0  BY <3>1 DEF Inductive, ContractInv, BrokerBooks
    <3>4. \A f \in ledger : f[1] # c
      <4>1. SUFFICES ASSUME NEW f \in ledger, f[1] = c PROVE FALSE  OBVIOUS
      <4>2. f[2] <= 0  BY <3>3, <4>1 DEF Inductive, ContractInv, LedgerIsTrue
      <4>3. f[2] \in 1..Qty  BY <1>0, <4>1
      <4>4. QED  BY <1>0, <4>2, <4>3
    <3> HIDE DEF c
    <3>5. \A f \in ledger : Impacts(price')[f] = Impacts(price)[f]
      BY <1>0, <3>2, <3>4 DEF Impacts
    <3>6. SumOf(Impacts(price'), ledger) = SumOf(Impacts(price), ledger)
      BY <1>0, <3>5, SumAgrees
    <3>7. QED  BY <3>1, <3>6 DEF CashIsLedger, capital
  <2>3. CASE ApplyFill(p)
    <3>1. PICK f \in Unapplied(p) : /\ ledger' = ledger \cup {f}
                                   /\ cash' = cash + CashDelta(f[1])
      BY <2>3 DEF ApplyFill
    <3>2. f \in Leg \X (1..Qty) /\ f \notin ledger /\ price' = price
      BY <2>3, <3>1 DEF Unapplied, ApplyFill, broker
    <3>3. \A x \in ledger \cup {f} : Impacts(price)[x] \in Int  BY <1>0, <1>i, <3>2
    <3>4. SumOf(Impacts(price), ledger \cup {f})
            = SumOf(Impacts(price), ledger) + Impacts(price)[f]
      BY <1>0, <3>2, <3>3, SumAdds
    <3>5. SumOf(Impacts(price), ledger) \in Int  BY <1>0, <3>3, SumTakes
    <3>6. Impacts(price)[f] = CashDelta(f[1]) /\ Impacts(price)[f] \in Int
      BY <1>i, <3>2, ImpactIsCashDelta
    <3>7. IsFiniteSet(ledger \cup {f})  BY <1>0, FS_AddElement
    <3>8. cash' = OpeningCash + SumOf(Impacts(price'), ledger')
      BY <1>0, <3>1, <3>2, <3>4, <3>5, <3>6 DEF CashIsLedger
    <3>9. QED  BY <3>1, <3>7, <3>8 DEF CashIsLedger
  <2>4. QED  BY <1>1, <2>1, <2>2, <2>3, ProcessWrites
<1>2. CASE BrokerMoves
  BY <1>2, <1>u DEF BrokerMoves, Trade, FillUnit, Kill, ShowHistory, NewClose
<1>3. CASE UNCHANGED vars  BY <1>3, <1>u DEF vars, broker
<1>4. QED  BY <1>1, <1>2, <1>3, NextCases

LEMMA CashInit == Init => CashIsLedger
<1> SUFFICES ASSUME Init PROVE CashIsLedger  OBVIOUS
<1>1. ledger = {} /\ cash = OpeningCash /\ OpeningCash \in Int
  BY ConstantsAssumption DEF Init
<1>2. IsFiniteSet(ledger)  BY <1>1, FS_EmptySet
<1>3. SumOf(Impacts(price), ledger) = 0  BY <1>1, <1>2, SumTakes
<1>4. QED  BY <1>1, <1>2, <1>3 DEF CashIsLedger

\* The strategy cash is the opening cash and the wallet impact of the fills in
\* the ledger, each counted once, whatever processes run, race and die.
THEOREM CashIsBooked == Spec => []CashIsLedger
<1>1. Inductive /\ CashIsLedger /\ [Next]_vars => CashIsLedger'  BY CashStep
<1>2. QED  BY <1>1, CashInit, AlwaysInductive, PTL DEF Spec

DeltasOver(S, g) ==
  g = [s \in SUBSET S |-> IF s = {} THEN 0
                          ELSE CashDelta(Member(s)[1]) + g[s \ {Member(s)}]]

LEMMA DeltasAreSums ==
  ASSUME NEW S \in SUBSET (Leg \X (1..Qty)), IsFiniteSet(S)
  PROVE  (CHOOSE g : DeltasOver(S, g))[S] = SumOf(Impacts(price), S)
<1>0. PICK f : f = Impacts(price)  OBVIOUS
<1>1. \A s \in SUBSET S : s # {} => f[Member(s)] = CashDelta(Member(s)[1])
  BY <1>0, MemberIsOne, ImpactIsCashDelta
<1>2. \A g : DeltasOver(S, g) <=> SumsOver(f, S, g)  BY <1>1 DEF DeltasOver, SumsOver
<1>3. PICK g : SumsOver(f, S, g) /\ g[S] = SumOf(f, S)  BY SumsExist
<1>4. SumsOver(f, S, CHOOSE h : DeltasOver(S, h))  BY <1>2, <1>3
<1>5. PICK h : h = CHOOSE k : DeltasOver(S, k)  OBVIOUS
<1>6. SumsOver(f, S, g) /\ SumsOver(f, S, h)  BY <1>3, <1>4, <1>5
<1>7. S \in SUBSET S /\ \A x \in S : f[x] = f[x]  OBVIOUS
<1>8. g[S] = h[S]  BY <1>6, <1>7, SumsAgree
<1>9. QED  BY <1>0, <1>3, <1>5, <1>8

\* A completed workflow of one process agrees with the broker and the ledger:
\* every leg has filled in full, every fill is booked, and the cash follows.
THEOREM CompletedAgrees == OneProcess => (Spec => []CompleteIsReconciled)
<1> SUFFICES ASSUME OneProcess PROVE Spec => []CompleteIsReconciled  OBVIOUS
<1>1. ASSUME Inductive, SerialInv, CashIsLedger PROVE CompleteIsReconciled
  <2> SUFFICES ASSUME status = "COMPLETE"
               PROVE  /\ \A l \in Rows(Leg) : order[l] = "FILLED"
                      /\ ledger = Rows(Leg) \X (1..Qty)
                      /\ cash = OpeningCash
                                  + MapThenSumSet(LAMBDA f : CashDelta(f[1]), ledger)
    BY DEF CompleteIsReconciled
  <2>0. /\ ledger \subseteq Leg \X (1..Qty) /\ Qty \in Nat
        /\ \A l \in Leg : filled[l] \in Nat
    BY <1>1, ConstantsAssumption DEF Inductive, TypeInv, TypeOK, CapitalType, BrokerType
  <2>1. \A l \in Rows(Leg) : Settled(l)  BY <1>1 DEF SerialInv, LegsInv
  <2>2. \A f \in ledger : f[1] \in Rows(Leg)
    <3> SUFFICES ASSUME NEW f \in ledger PROVE f[1] \in Rows(Leg)  OBVIOUS
    <3>1. f[1] \in Leg /\ f[2] \in 1..Qty  BY <2>0
    <3>2. f[2] <= filled[f[1]]  BY <1>1 DEF Inductive, ContractInv, LedgerIsTrue
    <3>3. filled[f[1]] # 0  BY <2>0, <3>1, <3>2
    <3>4. posts[f[1]] # 0  BY <1>1, <3>1, <3>3 DEF Inductive, ContractInv, BrokerBooks
    <3>5. leg[f[1]] # "ABSENT"
      BY <1>1, <3>1, <3>4 DEF Inductive, SubmissionInv, UnsentHasNoOrder, Unsent
    <3>6. QED  BY <3>1, <3>5 DEF Rows
  <2>3. ledger = Rows(Leg) \X (1..Qty)
    <3>1. ledger \subseteq Rows(Leg) \X (1..Qty)  BY <2>0, <2>2
    <3>2. Rows(Leg) \X (1..Qty) \subseteq ledger  BY <2>1 DEF Settled
    <3>3. QED  BY <3>1, <3>2
  <2>4. (CHOOSE g : DeltasOver(ledger, g))[ledger] = SumOf(Impacts(price), ledger)
    BY <1>1, <2>0, DeltasAreSums DEF CashIsLedger
  <2>5. cash = OpeningCash + (CHOOSE g : DeltasOver(ledger, g))[ledger]
    BY <1>1, <2>4 DEF CashIsLedger
  <2>6. cash = OpeningCash + MapThenSumSet(LAMBDA f : CashDelta(f[1]), ledger)
    BY <2>5 DEF MapThenSumSet, MapThenFoldSet, DeltasOver, Member
  <2>7. \A l \in Rows(Leg) : order[l] = "FILLED"  BY <2>1 DEF Settled
  <2>8. QED  BY <2>3, <2>6, <2>7
<1>2. QED  BY <1>1, AlwaysSerial, CashIsBooked, PTL
=============================================================================
