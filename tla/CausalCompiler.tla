--------------------------- MODULE CausalCompiler ---------------------------
(***************************************************************************)
(* The pure half of the SP2 recovery engine: the ROBUST overlay that turns *)
(* completed IVV closes into source events (strategy/robust.py) and the    *)
(* compiler that turns the source cycles of a price history into the D40 / *)
(* H378 schedule (recovery/causal_compiler_v01.py, core_return_v01.py).    *)
(*                                                                         *)
(* A session is its position in the canonical calendar, which is taken to  *)
(* reach past every session named here. Prices and targets are integers,   *)
(* the fractions of the code percentages; 0 stands for None.               *)
(***************************************************************************)
EXTENDS Integers, Sequences, FiniteSetsExt

CONSTANTS
  Delay,  \* ENTRY_DELAY_US_TRADING_INTERVALS, 40 in the code
  Hold    \* FIXED_HOLD_US_TRADING_INTERVALS, 378 in the code

ASSUME IntervalsAssumption == Delay \in Nat /\ Hold \in Nat \ {0}

Mode == {"NORMAL", "CRASH", "POST_HANDOFF"}
SourceEvent == {"NO_ACTION", "ROTATE", "HANDOFF", "REARM"}
Target == {0, 10, 30, 60, 100}

\* <<drawdown, S&P 500 target>>
Levels == << <<30, 10>>, <<35, 30>>, <<45, 60>>, <<50, 100>> >>
HandoffRecovery == 55

CrashTargetIsThreshold(price, peak) ==
  LET reached == {i \in 1..Len(Levels) : 100 * (peak - price) >= Levels[i][1] * peak}
  IN  IF reached = {} THEN 0 ELSE Levels[Max(reached)][1]

CrashTarget(price, peak) ==
  LET reached == {i \in 1..Len(Levels) : 100 * (peak - price) >= Levels[i][1] * peak}
  IN  IF reached = {} THEN 0 ELSE Levels[Max(reached)][2]

\* rec >= HANDOFF_RECOVERY, with a recovery of 0 when the trough is the peak.
HandedOff(price, peak, trough) ==
  /\ trough < peak
  /\ 100 * (price - trough) >= HandoffRecovery * (peak - trough)

-----------------------------------------------------------------------------
(* RobustState.observe_close, with the cycle the compiler is building *)

Source == [mode : Mode, peak : Nat, trough : Nat, target : Target,
           cycle : Nat, event : SourceEvent]

NoRows == [mode |-> "NORMAL", peak |-> 0, trough |-> 0, target |-> 0,
           cycle |-> 0, event |-> "NO_ACTION"]

Normal(s, price) ==
  LET peak == IF price > s.peak THEN price ELSE s.peak
      rung == CrashTarget(price, peak)
  IN  IF rung = 0
      THEN [s EXCEPT !.peak = peak, !.event = "NO_ACTION"]
      ELSE [mode |-> "CRASH", peak |-> peak, trough |-> price, target |-> rung,
            cycle |-> s.cycle + 1, event |-> "ROTATE"]

Crash(s, price) ==
  LET trough == IF price < s.trough THEN price ELSE s.trough
      rung == CrashTarget(price, s.peak)
  IN  IF rung > s.target
      THEN [s EXCEPT !.trough = trough, !.target = rung, !.event = "ROTATE"]
      ELSE IF HandedOff(price, s.peak, trough)
      THEN [s EXCEPT !.mode = "POST_HANDOFF", !.trough = trough, !.target = 0,
                     !.event = "HANDOFF"]
      ELSE [s EXCEPT !.trough = trough, !.event = "NO_ACTION"]

PostHandoff(s, price) ==
  IF price >= s.peak
  THEN [s EXCEPT !.mode = "NORMAL", !.peak = price, !.trough = 0, !.target = 0,
                 !.event = "REARM"]
  ELSE [s EXCEPT !.event = "NO_ACTION"]

ObserveClose(s, price) ==
  CASE s.mode = "NORMAL" -> Normal(s, price)
    [] s.mode = "CRASH" -> Crash(s, price)
    [] s.mode = "POST_HANDOFF" -> PostHandoff(s, price)

-----------------------------------------------------------------------------
(* compile_source_cycles and compile_final_schedule *)

\* The source state after every prefix of the closes.
SourceCycles(closes) ==
  LET after[n \in 0..Len(closes)] ==
        IF n = 0 THEN NoRows ELSE ObserveClose(after[n - 1], closes[n])
  IN  after

\* D40: the source execution session T+1 and Delay intervals more.
DelayedEntry(signal) == signal + 1 + Delay
FixedExit(entry) == entry + Hold

Signals(after, c) ==
  {n \in DOMAIN after : after[n].event = "ROTATE" /\ after[n].cycle = c}
Rearms(after, c) ==
  {n \in DOMAIN after : after[n].event = "REARM" /\ after[n].cycle = c}
Cycles(after) == {after[n].cycle : n \in DOMAIN after} \ {0}
FirstEntry(after, c) == DelayedEntry(Min(Signals(after, c)))

\* A cycle rearmed strictly before its first delayed entry is not traded.
Scheduled(after) ==
  {c \in Cycles(after) : \A r \in Rearms(after, c) : r >= FirstEntry(after, c)}

FinalSchedule(closes) ==
  LET after == SourceCycles(closes)
      Exit(c) == FixedExit(FirstEntry(after, c))
      Entries(c) == {n \in Signals(after, c) : DelayedEntry(n) < Exit(c)}
  IN  UNION { {[cycle |-> c, session |-> DelayedEntry(n), target |-> after[n].target] :
                  n \in Entries(c)}
              \cup {[cycle |-> c, session |-> Exit(c), target |-> 0]}
              : c \in Scheduled(after) }

\* compile_guard_audit: the scheduled cycles whose successor is signalled no
\* later than the fixed exit or the old ATH, whichever comes last.
Reentries(closes) ==
  LET after == SourceCycles(closes)
      Release(c) == Max({FixedExit(FirstEntry(after, c))} \cup Rearms(after, c))
      Later(c) == {d \in Scheduled(after) : d > c}
  IN  {c \in Scheduled(after) :
         /\ Later(c) # {}
         /\ Min(Signals(after, Min(Later(c)))) <= Release(c)}
=============================================================================
