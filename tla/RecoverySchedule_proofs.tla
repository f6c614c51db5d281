------------------------ MODULE RecoverySchedule_proofs ------------------------
(***************************************************************************)
(* What the dispatcher trades, session by session and through any number   *)
(* of crashes, is what the compiler schedules for the same closes, for     *)
(* every history of closes without a leap from CRASH to the old ATH.       *)
(*                                                                         *)
(* SourceCycles is a function defined by recursion over the closes. What   *)
(* is known of it is an invariant of the rows: each new row adds one state *)
(* to the history and leaves the earlier ones alone.                       *)
(***************************************************************************)
EXTENDS RecoveryDispatch_proofs, RuntimeTarget, FiniteSums

Past == SourceCycles(closes)

First(h, c) == Min(Signals(h, c))
ExitOf(h, c) == FixedExit(FirstEntry(h, c))
Early(h, c) == \E r \in Rearms(h, c) : r < FirstEntry(h, c)
PeakOf(h, c) == h[First(h, c)].peak

\* The source states h after every prefix of the closes cl, n of them. A cycle
\* has signals, rising, then a rearm unless it is the last one; a close back at
\* its peak is not seen before the rearm.
History(h, cl, n) ==
  /\ h \in [0..n -> Source] /\ h[0] = NoRows
  /\ \A m \in 0..n : /\ h[m].cycle <= h[n].cycle
                     /\ h[m].event # "NO_ACTION" => h[m].cycle > 0
  /\ h[n].mode # "NORMAL" => h[n].cycle > 0 /\ h[n].peak = PeakOf(h, h[n].cycle)
  /\ \A c \in 1..h[n].cycle :
       /\ Signals(h, c) # {}
       /\ Rearms(h, c) # {} <=> c < h[n].cycle \/ h[n].mode = "NORMAL"
       /\ \A r \in Rearms(h, c) : cl[r] >= PeakOf(h, c)
       /\ \A m \in First(h, c)..n : h[m].cycle = c /\ cl[m] >= PeakOf(h, c) => Rearms(h, c) # {}
       /\ \A s, t \in Signals(h, c) : s < t => h[s].target < h[t].target
  /\ h[n].mode = "CRASH" => \A s \in Signals(h, h[n].cycle) : h[s].target <= h[n].target

\* The first signal of a cycle the dispatcher has not come to yet, p being the
\* step it stands at.
Fresh(h, p) ==
  /\ source.event = "ROTATE" /\ Signals(h, source.cycle) = {session}
  /\ rec.phase = "NORMAL" \/ rec.cycle # source.cycle
  /\ p \notin {"close", "done"}

\* The cycle of the database is that of the source, or the one before while the
\* first signal of the new one is fresh.
CycleInv(h, p) ==
  /\ rec.phase # "NORMAL" =>
       /\ rec.cycle \in 1..source.cycle /\ rec.oldAth = PeakOf(h, rec.cycle)
       /\ rec.cycle # source.cycle => rec.cycle = source.cycle - 1 /\ Fresh(h, p)
  /\ rec.phase = "NORMAL" => source.mode = "NORMAL" \/ Fresh(h, p)

\* A cycle that waits has its first entry to come and its first event open,
\* unless it is being cancelled at a rearm of this very session.
WaitInv(h, p) ==
  Waiting =>
    /\ ~rec.recovered
    /\ \A j \in journal : j.key.kind \in {"apply", "cancel-pre-entry"} => j.key.cycle # rec.cycle
    /\ FirstEntry(h, rec.cycle) >= session
    /\ p \in After => FirstEntry(h, rec.cycle) > session
    /\ Rearms(h, rec.cycle) \subseteq {session}
    /\ p = "done" => Rearms(h, rec.cycle) = {}
    /\ IsOpen(First(h, rec.cycle)) \/ (session \in Rearms(h, rec.cycle) /\ FirstEntry(h, rec.cycle) > session)

\* A cycle that was entered is one the compiler schedules, until the exit it
\* schedules.
HeldInv(h, p) ==
  /\ Holding \/ Guarded =>
       /\ FirstEntry(h, rec.cycle) <= session /\ ~Early(h, rec.cycle)
       /\ rec.exit = ExitOf(h, rec.cycle)
       /\ rec.recovered => Rearms(h, rec.cycle) # {}
  /\ Guarded => Recorded(ExitKey)
  /\ p \in {"trim", "applied"} => Holding

\* What is held is the target of the last entry or scale-up of the cycle.
LastInv ==
  Holding =>
    /\ \E s \in Session : /\ Recorded(ApplyKey(s)) /\ events[s].cycle = rec.cycle
                          /\ Level(s) = rec.target
    /\ \A s \in Session : Recorded(ApplyKey(s)) /\ events[s].cycle = rec.cycle =>
         Level(s) <= rec.target

\* What the journal says was traded, the compiler schedules.
RowOf(h, j) ==
  LET c == j.key.cycle IN
  /\ j.key.kind \in {"apply", "fixed-exit"} =>
       c \in 1..source.cycle /\ ~Early(h, c) /\ FirstEntry(h, c) <= session
  /\ j.key.kind = "apply" =>
       /\ j.key.at \in Signals(h, c) /\ j.new.target = h[j.key.at].target
       /\ DelayedEntry(j.key.at) <= session /\ DelayedEntry(j.key.at) < ExitOf(h, c)
  /\ j.key.kind = "fixed-exit" => j.key.at = ExitOf(h, c) /\ ExitOf(h, c) <= session
  /\ j.key.kind = "cancel-pre-entry" => c \in 1..source.cycle /\ Rearms(h, c) # {}
RowInv(h) == \A j \in journal : RowOf(h, j)

\* A cycle that is neither the current one nor fresh was cancelled in time or
\* has taken its exit, and so has every cycle before another.
Over(h, c) == Early(h, c) \/ Recorded(Key(c, "fixed-exit", ExitOf(h, c)))
OverInv(h, p) ==
  /\ \A c \in 1..source.cycle : \/ Over(h, c) \/ (rec.phase # "NORMAL" /\ rec.cycle = c)
                                \/ (c = source.cycle /\ Fresh(h, p))
  /\ \A c, d \in 1..source.cycle :
       c < d /\ ~Early(h, c) => ExitOf(h, c) <= First(h, d) \/ (d = source.cycle /\ Fresh(h, p))

\* The stored events are the signals so far; only an event that comes too late
\* for its hold, or that of a cycle rearmed in time, is cancelled.
SignalInv(h, p) ==
  /\ \A s \in 1..session :
       h[s].event = "ROTATE" /\ (s = session => p \in {"attach", "close", "done"}) => Known(s)
  /\ \A s \in Session : Known(s) =>
       s <= session /\ s \in Signals(h, events[s].cycle) /\ Level(s) = h[s].target
  /\ Known(session) /\ ~IsOpen(session) => Holding /\ rec.cycle = source.cycle
  /\ Known(session) /\ Holding => session < rec.exit
  /\ \A s \in Session : events[s].status = "CANCELLED" =>
       Early(h, events[s].cycle) \/ DelayedEntry(s) >= ExitOf(h, events[s].cycle)

LinkInv(h, p) ==
  /\ CycleInv(h, p) /\ WaitInv(h, p) /\ HeldInv(h, p) /\ LastInv
  /\ RowInv(h) /\ OverInv(h, p) /\ SignalInv(h, p)

-----------------------------------------------------------------------------
(* Numbers *)

LEMMA MinOfNumbers ==
  ASSUME NEW T \in SUBSET Nat, T # {}
  PROVE  Min(T) \in T /\ \A y \in T : Min(T) <= y
<1>1. \E x \in T : \A y \in T : x <= y  BY SmallestNumber
<1>2. QED  BY <1>1 DEF Min

\* A set of numbers up to a bound has a largest one.
LEMMA LargestNumber ==
  ASSUME NEW K \in Nat, NEW T \in SUBSET (0..K), T # {}
  PROVE  \E x \in T : \A y \in T : x >= y
<1> DEFINE R == {K - x : x \in T}
<1>1. R \in SUBSET Nat /\ R # {}
  <2>1. \A x \in T : K - x \in Nat  OBVIOUS
  <2>2. PICK x \in T : TRUE  OBVIOUS
  <2>3. K - x \in R  BY <2>2
  <2>4. QED  BY <2>1, <2>3
<1>2. PICK r \in R : \A y \in R : r <= y  BY <1>1, SmallestNumber
<1>3. PICK x \in T : r = K - x  BY <1>2
<1>4. \A y \in T : K - x <= K - y  BY <1>2, <1>3
<1>5. QED  BY <1>4

LEMMA MaxOfNumbers ==
  ASSUME NEW K \in Nat, NEW T \in SUBSET (0..K), NEW y \in T
  PROVE  Max(T) \in T /\ Max(T) >= y
<1>1. \E x \in T : \A z \in T : x >= z  BY LargestNumber
<1>2. QED  BY <1>1 DEF Max

-----------------------------------------------------------------------------
(* The history *)

\* SourceCycles is the function its recursion describes.
Recursion(cl, f) ==
  f = [n \in 0..Len(cl) |-> IF n = 0 THEN NoRows ELSE ObserveClose(f[n - 1], cl[n])]

LEMMA RecursionAt ==
  ASSUME NEW cl, Len(cl) \in Nat, NEW f, Recursion(cl, f)
  PROVE  /\ f = [n \in 0..Len(cl) |-> f[n]] /\ f[0] = NoRows
         /\ \A n \in 1..Len(cl) : f[n] = ObserveClose(f[n - 1], cl[n])
<1>1. \A n \in 0..Len(cl) : f[n] = IF n = 0 THEN NoRows ELSE ObserveClose(f[n - 1], cl[n])
  BY DEF Recursion
<1>2. f = [n \in 0..Len(cl) |-> IF n = 0 THEN NoRows ELSE ObserveClose(f[n - 1], cl[n])]
  BY DEF Recursion
<1>3. f = [n \in 0..Len(cl) |-> f[n]]  BY <1>2
<1>4. QED  BY <1>1, <1>3

\* Two histories agree as far as their closes do.
LEMMA OneRecursion ==
  ASSUME NEW cl, Len(cl) \in Nat, NEW f, Recursion(cl, f),
         NEW dl, Len(dl) \in Nat, NEW g, Recursion(dl, g),
         Len(cl) <= Len(dl), \A n \in 1..Len(cl) : cl[n] = dl[n]
  PROVE  \A n \in 0..Len(cl) : f[n] = g[n]
<1> DEFINE T == {n \in 0..Len(cl) : f[n] # g[n]}
<1>1. SUFFICES ASSUME T # {} PROVE FALSE
  OBVIOUS
<1>2. T \in SUBSET Nat  OBVIOUS
<1>3. PICK n \in T : \A m \in T : n <= m  BY <1>1, <1>2, SmallestNumber
<1>4. n \in 0..Len(cl) /\ f[n] # g[n]  BY <1>3
<1>5. n # 0  BY <1>4, RecursionAt
<1>6. n \in 1..Len(cl) /\ n - 1 \in 0..Len(cl) /\ n \in 1..Len(dl)  BY <1>4, <1>5
<1>7. f[n - 1] = g[n - 1]
  <2>1. ~(n <= n - 1)  BY <1>6
  <2>2. n - 1 \notin T  BY <1>3, <2>1
  <2>3. QED  BY <1>6, <2>2
<1>8. f[n] = ObserveClose(f[n - 1], cl[n])  BY <1>6, RecursionAt
<1>9. g[n] = ObserveClose(g[n - 1], dl[n])  BY <1>6, RecursionAt
<1>10. QED  BY <1>4, <1>6, <1>7, <1>8, <1>9

LEMMA SourceCyclesRecursion ==
  ASSUME NEW cl, NEW f, Recursion(cl, f)
  PROVE  Recursion(cl, SourceCycles(cl))
<1>1. SourceCycles(cl) = CHOOSE g : Recursion(cl, g)  BY DEF SourceCycles, Recursion
<1>2. QED  BY <1>1

\* One more close, one more state.
LEMMA RecursionAppends ==
  ASSUME NEW cl \in Seq(Nat), NEW price \in Nat, Recursion(cl, SourceCycles(cl))
  PROVE  LET f == SourceCycles(cl)
             g == SourceCycles(Append(cl, price))
         IN  /\ Recursion(Append(cl, price), g)
             /\ \A n \in 0..Len(cl) : g[n] = f[n]
             /\ g[Len(cl) + 1] = ObserveClose(f[Len(cl)], price)
<1> DEFINE f == SourceCycles(cl)
           dl == Append(cl, price)
           k == [n \in 0..Len(dl) |-> IF n <= Len(cl) THEN f[n] ELSE ObserveClose(f[Len(cl)], price)]
<1> HIDE DEF f
<1>1. /\ Len(cl) \in Nat /\ Len(dl) = Len(cl) + 1
      /\ dl[Len(cl) + 1] = price /\ \A n \in 1..Len(cl) : dl[n] = cl[n]
  OBVIOUS
<1> HIDE DEF dl
<1>2. Recursion(cl, f)  BY DEF f
<1>3. Recursion(dl, k)
  <2>1. \A n \in 0..Len(dl) : k[n] = IF n = 0 THEN NoRows ELSE ObserveClose(k[n - 1], dl[n])
    <3> SUFFICES ASSUME NEW n \in 0..Len(dl)
                 PROVE  k[n] = IF n = 0 THEN NoRows ELSE ObserveClose(k[n - 1], dl[n])
      OBVIOUS
    <3>1. CASE n = 0  BY <1>1, <1>2, <3>1, RecursionAt
    <3>2. CASE n \in 1..Len(cl)
      <4>1. f[n] = ObserveClose(f[n - 1], cl[n])  BY <1>1, <1>2, <3>2, RecursionAt
      <4>2. k[n] = f[n] /\ k[n - 1] = f[n - 1]  BY <1>1, <3>2
      <4> HIDE DEF k
      <4>3. QED  BY <1>1, <3>2, <4>1, <4>2
    <3>3. CASE n = Len(cl) + 1
      <4>1. k[n] = ObserveClose(f[Len(cl)], price)  BY <1>1, <3>3
      <4>2. k[n - 1] = f[Len(cl)] /\ n # 0  BY <1>1, <3>3
      <4> HIDE DEF k
      <4>3. QED  BY <1>1, <3>3, <4>1, <4>2
    <3>4. QED  BY <1>1, <3>1, <3>2, <3>3
  <2>2. k = [n \in 0..Len(dl) |-> k[n]]  OBVIOUS
  <2> HIDE DEF k
  <2>3. QED  BY <2>1, <2>2 DEF Recursion
<1>4. k[Len(cl) + 1] = ObserveClose(f[Len(cl)], price) /\ \A n \in 0..Len(cl) : k[n] = f[n]
  BY <1>1
<1> HIDE DEF k
<1>5. Recursion(dl, SourceCycles(dl))  BY <1>3, SourceCyclesRecursion
<1>6. \A n \in 0..Len(dl) : k[n] = SourceCycles(dl)[n]
  BY <1>1, <1>3, <1>5, OneRecursion
<1>7. QED  BY <1>1, <1>4, <1>5, <1>6 DEF f, dl

\* observe_close, by what it does to the cycle that is being built.
Quiet(s, t) ==
  /\ t.event \notin {"ROTATE", "REARM"} /\ t.cycle = s.cycle
  /\ t.mode = "NORMAL" <=> s.mode = "NORMAL"
  /\ t.mode = "CRASH" => s.mode = "CRASH" /\ t.target = s.target
  /\ s.mode # "NORMAL" => t.peak = s.peak
  /\ t.event # "NO_ACTION" => s.mode # "NORMAL"
Starts(s, t) ==
  /\ t.event = "ROTATE" /\ t.cycle = s.cycle + 1
  /\ s.mode = "NORMAL" /\ t.mode = "CRASH"
Deepens(s, t) ==
  /\ t.event = "ROTATE" /\ t.cycle = s.cycle /\ t.peak = s.peak
  /\ s.mode = "CRASH" /\ t.mode = "CRASH" /\ t.target > s.target
Rearmed(s, t) ==
  /\ t.event = "REARM" /\ t.cycle = s.cycle
  /\ s.mode = "POST_HANDOFF" /\ t.mode = "NORMAL"

LEMMA SourceCase ==
  ASSUME NEW s \in Source, NEW price \in Nat \ {0}, NEW t, t = ObserveClose(s, price),
         ~(s.mode = "CRASH" /\ price >= s.peak)
  PROVE  /\ \/ Quiet(s, t) /\ (s.mode # "NORMAL" => price < s.peak)
            \/ Starts(s, t) /\ price < t.peak
            \/ Deepens(s, t) /\ price < t.peak
            \/ Rearmed(s, t) /\ price >= s.peak
<1>s. /\ s.cycle \in Nat /\ s.peak \in Nat /\ s.target \in Nat /\ s.trough \in Nat
      /\ s.mode \in {"NORMAL", "CRASH", "POST_HANDOFF"}
      /\ s = [mode |-> s.mode, peak |-> s.peak, trough |-> s.trough, target |-> s.target,
              cycle |-> s.cycle, event |-> s.event]
  BY DEF Source, Mode, Target
<1>1. CASE s.mode = "NORMAL"
  <2> DEFINE peak == IF price > s.peak THEN price ELSE s.peak
  <2>1. peak \in Nat  BY <1>s
  <2>2. CrashTarget(price, peak) # 0 => price < peak  BY <2>1, RungIsBelowPeak
  <2>3. t = IF CrashTarget(price, peak) = 0
            THEN [s EXCEPT !.peak = peak, !.event = "NO_ACTION"]
            ELSE [mode |-> "CRASH", peak |-> peak, trough |-> price,
                  target |-> CrashTarget(price, peak), cycle |-> s.cycle + 1,
                  event |-> "ROTATE"]
    BY <1>1 DEF ObserveClose, Normal
  <2> HIDE DEF peak
  <2>4. CASE CrashTarget(price, peak) = 0
    <3>1. t.mode = "NORMAL" /\ t.event = "NO_ACTION" /\ t.cycle = s.cycle
      BY <1>1, <1>s, <2>3, <2>4
    <3>2. QED  BY <1>1, <3>1 DEF Quiet
  <2>5. CASE CrashTarget(price, peak) # 0
    <3>1. /\ t.mode = "CRASH" /\ t.event = "ROTATE" /\ t.cycle = s.cycle + 1 /\ t.peak = peak
      BY <2>3, <2>5
    <3>2. QED  BY <1>1, <2>2, <2>5, <3>1 DEF Starts
  <2>6. QED  BY <2>4, <2>5
<1>2. CASE s.mode = "CRASH"
  <2> DEFINE trough == IF price < s.trough THEN price ELSE s.trough
             rung == CrashTarget(price, s.peak)
  <2>1. rung \in Nat  BY <1>s, CrashTargetIsTarget DEF Target
  <2>2. t = IF rung > s.target
            THEN [s EXCEPT !.trough = trough, !.target = rung, !.event = "ROTATE"]
            ELSE IF HandedOff(price, s.peak, trough)
            THEN [s EXCEPT !.mode = "POST_HANDOFF", !.trough = trough, !.target = 0,
                           !.event = "HANDOFF"]
            ELSE [s EXCEPT !.trough = trough, !.event = "NO_ACTION"]
    BY <1>2 DEF ObserveClose, Crash
  <2> HIDE DEF trough, rung
  <2>3. price < s.peak  BY <1>2, <1>s
  <2>4. CASE rung > s.target
    <3>1. /\ t.mode = "CRASH" /\ t.event = "ROTATE" /\ t.cycle = s.cycle /\ t.peak = s.peak
          /\ t.target = rung
      BY <1>2, <1>s, <2>2, <2>4
    <3>2. QED  BY <1>2, <2>3, <2>4, <3>1 DEF Deepens
  <2>5. CASE ~(rung > s.target)
    <3>1. /\ t.cycle = s.cycle /\ t.peak = s.peak
          /\ \/ t.mode = "POST_HANDOFF" /\ t.event = "HANDOFF"
             \/ t.mode = "CRASH" /\ t.event = "NO_ACTION" /\ t.target = s.target
      BY <1>2, <1>s, <2>2, <2>5
    <3>2. QED  BY <1>2, <2>3, <3>1 DEF Quiet
  <2>6. QED  BY <2>4, <2>5
<1>3. CASE s.mode = "POST_HANDOFF"
  <2>1. t = IF price >= s.peak
            THEN [s EXCEPT !.mode = "NORMAL", !.peak = price, !.trough = 0, !.target = 0,
                           !.event = "REARM"]
            ELSE [s EXCEPT !.event = "NO_ACTION"]
    BY <1>3 DEF ObserveClose, PostHandoff
  <2>2. CASE price >= s.peak
    <3>1. t.mode = "NORMAL" /\ t.event = "REARM" /\ t.cycle = s.cycle
      BY <1>3, <1>s, <2>1, <2>2
    <3>2. QED  BY <1>3, <2>2, <3>1 DEF Rearmed
  <2>3. CASE ~(price >= s.peak)
    <3>1. /\ t.mode = "POST_HANDOFF" /\ t.event = "NO_ACTION" /\ t.cycle = s.cycle
          /\ t.peak = s.peak
      BY <1>3, <1>s, <2>1, <2>3
    <3>2. QED  BY <1>3, <1>s, <2>3, <3>1 DEF Quiet
  <2>4. QED  BY <2>2, <2>3
<1>4. QED  BY <1>1, <1>2, <1>3, <1>s

\* g is the history h of n rows and one row more.
Extends(g, h, n) ==
  /\ h \in [0..n -> Source] /\ g \in [0..n + 1 -> Source]
  /\ \A m \in 0..n : g[m] = h[m]

LEMMA GrowSets ==
  ASSUME NEW n \in Nat, NEW h, NEW g, Extends(g, h, n), NEW c
  PROVE  /\ Signals(h, c) \subseteq 0..n /\ Rearms(h, c) \subseteq 0..n
         /\ Signals(g, c) = Signals(h, c) \cup
              {m \in {n + 1} : g[m].event = "ROTATE" /\ g[m].cycle = c}
         /\ Rearms(g, c) = Rearms(h, c) \cup
              {m \in {n + 1} : g[m].event = "REARM" /\ g[m].cycle = c}
<1>1. 0..n + 1 = 0..n \cup {n + 1}  OBVIOUS
<1>2. QED  BY <1>1 DEF Extends, Signals, Rearms

\* A cycle that has signals keeps its first one, and all that follows from it.
LEMMA GrowFirst ==
  ASSUME NEW n \in Nat, NEW h, NEW g, Extends(g, h, n), NEW c, Signals(h, c) # {}
  PROVE  /\ First(h, c) \in Signals(h, c) /\ First(h, c) \in 0..n
         /\ First(g, c) = First(h, c) /\ PeakOf(g, c) = PeakOf(h, c)
         /\ FirstEntry(g, c) = FirstEntry(h, c) /\ ExitOf(g, c) = ExitOf(h, c)
         /\ Early(h, c) => Early(g, c)
         /\ Early(g, c) /\ ~Early(h, c) => n + 1 < FirstEntry(h, c)
<1>1. Signals(h, c) \in SUBSET Nat /\ Signals(h, c) \subseteq 0..n  BY GrowSets
<1>2. Min(Signals(h, c)) \in Signals(h, c) /\ \A y \in Signals(h, c) : Min(Signals(h, c)) <= y
  BY <1>1, MinOfNumbers
<1>3. /\ \A y \in Signals(g, c) : y \in Nat /\ (y \in Signals(h, c) \/ y = n + 1)
      /\ Signals(h, c) \subseteq Signals(g, c)
  BY <1>1, GrowSets
<1>4. \A y \in Signals(g, c) : Min(Signals(h, c)) <= y  BY <1>1, <1>2, <1>3
<1>5. Min(Signals(g, c)) \in Signals(g, c) /\ \A y \in Signals(g, c) : Min(Signals(g, c)) <= y
  BY <1>2, <1>3, MinOfNumbers
<1>6. Min(Signals(g, c)) = Min(Signals(h, c))
  <2>1. Min(Signals(g, c)) <= Min(Signals(h, c)) /\ Min(Signals(h, c)) <= Min(Signals(g, c))
    BY <1>2, <1>3, <1>4, <1>5
  <2>2. QED  BY <1>2, <1>3, <1>5, <2>1
<1>7. FirstEntry(g, c) = FirstEntry(h, c) /\ First(g, c) = First(h, c)
  BY <1>6 DEF FirstEntry, First
<1>8. First(h, c) \in Signals(h, c) /\ First(h, c) \in 0..n  BY <1>1, <1>2 DEF First
<1>9. PeakOf(g, c) = PeakOf(h, c)  BY <1>7, <1>8 DEF PeakOf, Extends
<1>10. \A r \in Rearms(g, c) : r \in Rearms(h, c) \/ r = n + 1  BY GrowSets
<1>11. Rearms(h, c) \subseteq Rearms(g, c)  BY GrowSets
<1>12. Early(h, c) => Early(g, c)  BY <1>7, <1>11 DEF Early
<1>13. Early(g, c) /\ ~Early(h, c) => n + 1 < FirstEntry(h, c)
  BY <1>7, <1>10 DEF Early
<1>14. QED  BY <1>7, <1>8, <1>9, <1>12, <1>13 DEF ExitOf

LEMMA SourceTypes ==
  \A s \in Source : /\ s.cycle \in Nat /\ s.peak \in Nat /\ s.target \in Nat
                   /\ s.mode \in {"NORMAL", "CRASH", "POST_HANDOFF"}
BY DEF Source, Mode, Target

\* One more row makes a history of one more row.
LEMMA HistoryStep ==
  ASSUME NEW n \in Nat, NEW h, NEW g, Extends(g, h, n),
         NEW cl, NEW dl, \A m \in 1..n : dl[m] = cl[m] /\ cl[m] \in Nat,
         History(h, cl, n),
         NEW price \in Nat \ {0}, dl[n + 1] = price,
         g[n + 1] = ObserveClose(h[n], price), ~(h[n].mode = "CRASH" /\ price >= h[n].peak)
  PROVE  History(g, dl, n + 1)
<1> DEFINE s == h[n]
           t == g[n + 1]
           old == 1..h[n].cycle
<1>1. /\ s \in Source /\ t \in Source /\ g[n] = s /\ g[0] = h[0]
      /\ s.cycle \in Nat /\ t.cycle \in Nat /\ s.peak \in Nat /\ t.peak \in Nat
      /\ s.target \in Nat /\ t.target \in Nat
  <2>1. /\ h \in [0..n -> Source] /\ g \in [0..n + 1 -> Source]
        /\ \A m \in 0..n : g[m] = h[m]
    BY DEF Extends
  <2>2. s \in Source /\ t \in Source /\ g[n] = s /\ g[0] = h[0]  BY <2>1
  <2>3. QED  BY <2>2, SourceTypes
<1>2. \A m \in 0..n : /\ h[m].cycle \in Nat /\ h[m].target \in Nat /\ h[m].peak \in Nat
                      /\ h[m].cycle <= s.cycle /\ g[m] = h[m]
                      /\ h[m].event # "NO_ACTION" => h[m].cycle > 0
  <2>1. \A m \in 0..n : h[m] \in Source /\ g[m] = h[m]  BY DEF Extends
  <2>2. QED  BY <2>1, SourceTypes DEF History
<1>3. /\ \/ Quiet(s, t) /\ (s.mode # "NORMAL" => price < s.peak)
         \/ Starts(s, t) /\ price < t.peak
         \/ Deepens(s, t) /\ price < t.peak
         \/ Rearmed(s, t) /\ price >= s.peak
  BY <1>1, SourceCase
<1>4. t.cycle = s.cycle \/ (t.cycle = s.cycle + 1 /\ Starts(s, t))
  BY <1>3 DEF Quiet, Starts, Deepens, Rearmed
<1>5. s.mode # "NORMAL" => s.cycle > 0 /\ s.peak = PeakOf(h, s.cycle)
  BY DEF History
<1>6. \A c \in old :
       /\ Signals(h, c) # {}
       /\ Rearms(h, c) # {} <=> c < s.cycle \/ s.mode = "NORMAL"
       /\ \A r \in Rearms(h, c) : cl[r] >= PeakOf(h, c)
       /\ \A m \in First(h, c)..n : h[m].cycle = c /\ cl[m] >= PeakOf(h, c) => Rearms(h, c) # {}
       /\ \A a, b \in Signals(h, c) : a < b => h[a].target < h[b].target
  BY DEF History
<1>7. s.mode = "CRASH" => \A a \in Signals(h, s.cycle) : h[a].target <= s.target
  BY DEF History
<1> HIDE DEF s, t
<1>8. \A c : /\ Signals(h, c) \subseteq 0..n /\ Rearms(h, c) \subseteq 0..n
             /\ Signals(g, c) = Signals(h, c) \cup
                  {m \in {n + 1} : g[m].event = "ROTATE" /\ g[m].cycle = c}
             /\ Rearms(g, c) = Rearms(h, c) \cup
                  {m \in {n + 1} : g[m].event = "REARM" /\ g[m].cycle = c}
  BY GrowSets
<1>c. \A c : t.event # "REARM" \/ t.cycle # c => Rearms(g, c) = Rearms(h, c)
  <2>1. ASSUME NEW c, t.event # "REARM" \/ t.cycle # c
        PROVE  {m \in {n + 1} : g[m].event = "REARM" /\ g[m].cycle = c} = {}
    BY <2>1 DEF t
  <2>2. QED  BY <1>8, <2>1
<1>9. \A c \in old : /\ First(h, c) \in 0..n
                     /\ First(g, c) = First(h, c) /\ PeakOf(g, c) = PeakOf(h, c)
  BY <1>6, GrowFirst
<1>10. \A c \in Nat : \A m \in Signals(h, c) : m \in 0..n /\ m # 0 /\ h[m].cycle = c /\ h[m].event = "ROTATE"
  BY <1>8 DEF Signals, History, NoRows
<1>11. \A c \in Nat : \A m \in Rearms(h, c) : m \in 1..n /\ h[m].cycle = c
  BY <1>8 DEF Rearms, History, NoRows
<1>12. \A m \in 0..n + 1 : g[m].cycle <= t.cycle /\ (g[m].event # "NO_ACTION" => g[m].cycle > 0)
  <2> SUFFICES ASSUME NEW m \in 0..n + 1
               PROVE  g[m].cycle <= t.cycle /\ (g[m].event # "NO_ACTION" => g[m].cycle > 0)
    OBVIOUS
  <2>1. CASE m \in 0..n  BY <1>1, <1>2, <1>4, <2>1
  <2>2. CASE m = n + 1
    <3>1. t.event # "NO_ACTION" => t.cycle > 0
      BY <1>1, <1>3, <1>5 DEF Quiet, Starts, Deepens, Rearmed
    <3>2. QED  BY <1>1, <2>2, <3>1 DEF t
  <2>3. QED  BY <2>1, <2>2
\* A cycle of the history before.
<1>13. ASSUME NEW c \in old
       PROVE  /\ Signals(g, c) # {}
              /\ Rearms(g, c) # {} <=> c < t.cycle \/ t.mode = "NORMAL"
              /\ \A r \in Rearms(g, c) : dl[r] >= PeakOf(g, c)
              /\ \A m \in First(g, c)..n + 1 :
                   g[m].cycle = c /\ dl[m] >= PeakOf(g, c) => Rearms(g, c) # {}
              /\ \A a, b \in Signals(g, c) : a < b => g[a].target < g[b].target
  <2>0. c \in Nat /\ c <= s.cycle /\ c > 0  BY <1>1, <1>13 DEF s
  <2>1. Signals(g, c) # {}  BY <1>6, <1>8, <1>13
  <2>2. Rearms(g, c) # {} <=> c < t.cycle \/ t.mode = "NORMAL"
    <3>1. CASE Quiet(s, t)
      <4>1. Rearms(g, c) = Rearms(h, c)  BY <1>c, <3>1 DEF Quiet
      <4>2. QED  BY <1>6, <1>13, <3>1, <4>1 DEF Quiet
    <3>2. CASE Starts(s, t)
      <4>1. Rearms(g, c) = Rearms(h, c)  BY <1>c, <3>2 DEF Starts
      <4>2. QED  BY <1>1, <1>6, <1>13, <2>0, <3>2, <4>1 DEF Starts
    <3>3. CASE Deepens(s, t)
      <4>1. Rearms(g, c) = Rearms(h, c)  BY <1>c, <3>3 DEF Deepens
      <4>2. QED  BY <1>6, <1>13, <3>3, <4>1 DEF Deepens
    <3>4. CASE Rearmed(s, t)
      <4>1. CASE c = s.cycle
        <5>1. n + 1 \in Rearms(g, c)  BY <1>8, <3>4, <4>1 DEF Rearmed, t
        <5>2. QED  BY <3>4, <5>1 DEF Rearmed
      <4>2. CASE c < s.cycle
        <5>1. Rearms(h, c) # {}  BY <1>6, <1>13, <4>2
        <5>2. QED  BY <1>8, <3>4, <5>1 DEF Rearmed
      <4>3. QED  BY <1>1, <2>0, <4>1, <4>2
    <3>5. QED  BY <1>3, <3>1, <3>2, <3>3, <3>4
  <2>3. ASSUME NEW r \in Rearms(g, c) PROVE dl[r] >= PeakOf(g, c)
    <3>1. CASE r \in Rearms(h, c)
      <4>1. r \in 1..n  BY <1>11, <2>0, <3>1
      <4>2. QED  BY <1>6, <1>9, <1>13, <3>1, <4>1
    <3>2. CASE r \notin Rearms(h, c)
      <4>1. r = n + 1 /\ t.event = "REARM" /\ t.cycle = c  BY <1>8, <2>3, <3>2 DEF t
      <4>2. Rearmed(s, t) /\ price >= s.peak  BY <1>3, <4>1 DEF Quiet, Starts, Deepens
      <4>3. s.peak = PeakOf(h, c)  BY <1>5, <4>1, <4>2 DEF Rearmed
      <4>4. QED  BY <1>9, <1>13, <4>1, <4>2, <4>3
    <3>3. QED  BY <3>1, <3>2
  <2>4. ASSUME NEW m \in First(g, c)..n + 1, g[m].cycle = c, dl[m] >= PeakOf(g, c)
        PROVE  Rearms(g, c) # {}
    <3>0. First(h, c) \in 0..n /\ First(h, c) # 0
      <4>1. First(h, c) \in Signals(h, c)  BY <1>6, <1>13, GrowFirst
      <4>2. QED  BY <1>9, <1>10, <1>13, <2>0, <4>1
    <3>1. CASE m \in 1..n
      <4>1. m \in First(h, c)..n /\ h[m].cycle = c /\ cl[m] >= PeakOf(h, c)
        BY <1>2, <1>9, <1>13, <2>4, <3>0, <3>1
      <4>2. QED  BY <1>6, <1>8, <1>13, <4>1
    <3>2. CASE m = n + 1
      <4>1. t.cycle = c /\ price >= PeakOf(h, c)  BY <1>9, <1>13, <2>4, <3>2 DEF t
      <4>2. t.cycle = s.cycle  BY <1>1, <1>4, <2>0, <4>1
      <4>3. CASE s.mode = "NORMAL"  BY <1>6, <1>8, <1>13, <4>3
      <4>4. CASE s.mode # "NORMAL"
        <5>1. price >= s.peak  BY <1>5, <4>1, <4>2, <4>4
        <5>2. Rearmed(s, t)
          BY <1>1, <1>3, <4>4, <5>1 DEF Deepens, Starts
        <5>3. n + 1 \in Rearms(g, c)  BY <1>8, <4>1, <5>2 DEF Rearmed, t
        <5>4. QED  BY <5>3
      <4>5. QED  BY <4>3, <4>4
    <3>3. QED  BY <1>9, <1>13, <2>4, <3>0, <3>1, <3>2
  <2>5. ASSUME NEW a \in Signals(g, c), NEW b \in Signals(g, c), a < b
        PROVE  g[a].target < g[b].target
    <3>1. a \in 0..n /\ a \in Signals(h, c)  BY <1>8, <2>5
    <3>2. CASE b \in Signals(h, c)
      <4>1. b \in 0..n  BY <1>8, <3>2
      <4>2. QED  BY <1>2, <1>6, <1>13, <2>5, <3>1, <3>2, <4>1
    <3>3. CASE b \notin Signals(h, c)
      <4>1. b = n + 1 /\ t.event = "ROTATE" /\ t.cycle = c  BY <1>8, <2>5, <3>3 DEF t
      <4>2. Deepens(s, t)
        BY <1>1, <1>3, <2>0, <4>1 DEF Quiet, Starts, Rearmed
      <4>3. h[a].target <= s.target /\ s.target < t.target /\ g[a] = h[a]
        BY <1>1, <1>2, <1>7, <3>1, <4>1, <4>2 DEF Deepens
      <4>4. QED  BY <1>1, <1>2, <3>1, <4>1, <4>3 DEF t
    <3>4. QED  BY <3>2, <3>3
  <2>6. QED  BY <2>1, <2>2, <2>3, <2>4, <2>5
\* A cycle that starts with this row.
<1>14. ASSUME Starts(s, t)
       PROVE  LET c == t.cycle IN
              /\ Signals(g, c) = {n + 1} /\ Rearms(g, c) = {}
              /\ First(g, c) = n + 1 /\ PeakOf(g, c) = t.peak /\ price < t.peak
  <2> DEFINE c == t.cycle
  <2>1. c = s.cycle + 1 /\ t.event = "ROTATE" /\ c \in Nat /\ t.mode = "CRASH"
    BY <1>1, <1>14 DEF Starts
  <2>2. \A m \in 0..n : h[m].cycle # c  BY <1>1, <1>2, <2>1
  <2>3. Signals(h, c) = {} /\ Rearms(h, c) = {}  BY <1>10, <1>11, <2>1, <2>2
  <2>4. Signals(g, c) = {n + 1} /\ Rearms(g, c) = {}  BY <1>8, <2>1, <2>3 DEF t
  <2>5. First(g, c) = n + 1
    <3>1. Min({n + 1}) \in {n + 1}  BY MinOfNumbers
    <3>2. QED  BY <2>4, <3>1 DEF First
  <2>6. PeakOf(g, c) = t.peak  BY <2>5 DEF PeakOf, t
  <2>7. price < t.peak
    BY <1>1, <1>3, <2>1 DEF Quiet, Rearmed
  <2>8. QED  BY <2>4, <2>5, <2>6, <2>7
<1>15. ASSUME NEW c \in 1..t.cycle
       PROVE  /\ Signals(g, c) # {}
              /\ Rearms(g, c) # {} <=> c < t.cycle \/ t.mode = "NORMAL"
              /\ \A r \in Rearms(g, c) : dl[r] >= PeakOf(g, c)
              /\ \A m \in First(g, c)..n + 1 :
                   g[m].cycle = c /\ dl[m] >= PeakOf(g, c) => Rearms(g, c) # {}
              /\ \A a, b \in Signals(g, c) : a < b => g[a].target < g[b].target
  <2>1. CASE c \in old  BY <1>13, <2>1
  <2>2. CASE c \notin old
    <3>1. Starts(s, t) /\ c = t.cycle /\ t.mode = "CRASH"
      BY <1>1, <1>4, <2>2 DEF s, Starts
    <3>2. \A m \in First(g, c)..n + 1 : m = n + 1  BY <1>14, <3>1
    <3>3. t.peak \in Nat /\ price \in Nat  BY <1>1
    <3>4. QED  BY <1>14, <3>1, <3>2, <3>3
  <2>3. QED  BY <2>1, <2>2
<1>16. t.mode # "NORMAL" => t.cycle > 0 /\ t.peak = PeakOf(g, t.cycle)
  <2>1. CASE Starts(s, t)  BY <1>1, <1>14, <2>1 DEF Starts
  <2>2. CASE ~Starts(s, t) /\ t.mode # "NORMAL"
    <3>1. s.mode # "NORMAL" /\ t.cycle = s.cycle /\ t.peak = s.peak
      BY <1>3, <2>2 DEF Quiet, Deepens, Rearmed
    <3>2. s.cycle \in old  BY <1>1, <1>5, <3>1 DEF s
    <3>3. QED  BY <1>5, <1>9, <3>1, <3>2
  <2>3. QED  BY <2>1, <2>2
<1>17. t.mode = "CRASH" => \A a \in Signals(g, t.cycle) : g[a].target <= t.target
  <2> SUFFICES ASSUME t.mode = "CRASH", NEW a \in Signals(g, t.cycle)
               PROVE  g[a].target <= t.target
    OBVIOUS
  <2>1. CASE a = n + 1  BY <1>1, <2>1 DEF t
  <2>2. CASE a # n + 1
    <3>1. a \in Signals(h, t.cycle) /\ a \in 0..n  BY <1>8, <2>2
    <3>2. ~Starts(s, t)  BY <1>14, <2>2
    <3>3. s.mode = "CRASH" /\ t.cycle = s.cycle /\ s.target <= t.target
      BY <1>1, <1>3, <3>2 DEF Quiet, Deepens, Rearmed
    <3>4. QED  BY <1>1, <1>2, <1>7, <3>1, <3>3
  <2>3. QED  BY <2>1, <2>2
<1>18. g \in [0..n + 1 -> Source] /\ g[0] = NoRows  BY <1>1 DEF Extends, History
<1>19. QED  BY <1>12, <1>15, <1>16, <1>17, <1>18 DEF History, t

-----------------------------------------------------------------------------
(* The rows *)

RowsInv ==
  /\ Recursion(closes, Past)
  /\ History(Past, closes, session) /\ Past[session] = source

\* The history of the closes and one more.
LEMMA HistoryAppends ==
  ASSUME NEW cl \in Seq(Price), NEW price \in Price,
         LET f == SourceCycles(cl) IN
           /\ Recursion(cl, f) /\ History(f, cl, Len(cl))
           /\ ~(f[Len(cl)].mode = "CRASH" /\ price >= f[Len(cl)].peak)
  PROVE  LET f == SourceCycles(cl)
             dl == Append(cl, price)
             g == SourceCycles(dl)
         IN  /\ Recursion(dl, g) /\ Extends(g, f, Len(cl)) /\ History(g, dl, Len(cl) + 1)
             /\ g[Len(cl) + 1] = ObserveClose(f[Len(cl)], price)
<1> DEFINE f == SourceCycles(cl)
           dl == Append(cl, price)
           g == SourceCycles(dl)
           n == Len(cl)
<1>1. /\ n \in Nat /\ Len(dl) = n + 1 /\ dl[n + 1] = price
      /\ \A m \in 1..n : dl[m] = cl[m] /\ cl[m] \in Nat
      /\ price \in Nat \ {0} /\ cl \in Seq(Nat)
  <2>1. Price \subseteq Nat \ {0}  BY DispatchAssumption
  <2>2. n \in Nat /\ \A m \in 1..n : cl[m] \in Price  OBVIOUS
  <2>3. Len(dl) = n + 1 /\ dl[n + 1] = price /\ \A m \in 1..n : dl[m] = cl[m]  OBVIOUS
  <2>4. cl \in Seq(Nat)
    <3>1. cl = [m \in 1..n |-> cl[m]] /\ \A m \in 1..n : cl[m] \in Nat  BY <2>1, <2>2
    <3>2. QED  BY <2>1, <2>2, <3>1
  <2>5. price \in Nat \ {0} /\ \A m \in 1..n : cl[m] \in Nat  BY <2>1, <2>2
  <2>6. QED  BY <2>2, <2>3, <2>4, <2>5
<1>2. Recursion(cl, f) /\ History(f, cl, n)
  OBVIOUS
<1>3. Recursion(dl, g) /\ (\A m \in 0..n : g[m] = f[m]) /\ g[n + 1] = ObserveClose(f[n], price)
  BY <1>1, <1>2, RecursionAppends
<1>4. ~(f[n].mode = "CRASH" /\ price >= f[n].peak)
  OBVIOUS
<1> HIDE DEF f, dl, g, n
<1>5. f \in [0..n -> Source]  BY <1>2 DEF History
<1>6. g \in [0..n + 1 -> Source]
  <2>1. g = [m \in 0..n + 1 |-> g[m]]  BY <1>1, <1>3, RecursionAt
  <2>2. g[n + 1] \in Source
    <3>1. f[n] \in Source  BY <1>1, <1>5
    <3>2. QED  BY <1>1, <1>3, <3>1, ObserveCloseType
  <2>3. \A m \in 0..n : g[m] \in Source  BY <1>3, <1>5
  <2>4. \A m \in 0..n + 1 : m \in 0..n \/ m = n + 1  BY <1>1
  <2>5. \A m \in 0..n + 1 : g[m] \in Source  BY <2>2, <2>3, <2>4
  <2>6. QED  BY <2>1, <2>5
<1>7. Extends(g, f, n)  BY <1>3, <1>5, <1>6 DEF Extends
<1>8. History(g, dl, n + 1)  BY <1>1, <1>2, <1>3, <1>4, <1>7, HistoryStep
<1>9. QED  BY <1>3, <1>7, <1>8 DEF f, dl, g, n

LEMMA RowsInit == Init => RowsInv
<1> SUFFICES ASSUME Init PROVE RowsInv
  OBVIOUS
<1>1. PICK price \in Price : closes = <<price>> /\ source = ObserveClose(NoRows, price)
  BY DEF Init
<1> DEFINE f == [n \in 0..0 |-> NoRows]
<1>2. Recursion(<<>>, f)
  <2>1. f = [n \in 0..Len(<<>>) |-> IF n = 0 THEN NoRows ELSE ObserveClose(f[n - 1], <<>>[n])]
    OBVIOUS
  <2> HIDE DEF f
  <2>2. QED  BY <2>1 DEF Recursion
<1> DEFINE h == SourceCycles(<<>>)
<1>3. Recursion(<<>>, h)  BY <1>2, SourceCyclesRecursion
<1> HIDE DEF f, h
<1>4. Len(<<>>) = 0 /\ <<>> \in Seq(Price) /\ Append(<<>>, price) = <<price>>
  OBVIOUS
<1>5. h[0] = NoRows /\ h = [n \in 0..0 |-> h[n]]
  BY <1>3, <1>4, RecursionAt
<1>6. h \in [0..0 -> Source]
  <2>1. \A n \in 0..0 : h[n] = NoRows  BY <1>5
  <2>2. \A n \in 0..0 : h[n] \in Source  BY <2>1, NoRowsType
  <2>3. QED  BY <1>5, <2>2
<1>7. NoRows.cycle = 0 /\ NoRows.mode = "NORMAL" /\ NoRows.event = "NO_ACTION"
  BY DEF NoRows
<1>8. History(h, <<>>, 0)
  <2>1. 0..0 = {0} /\ 1..0 = {}  OBVIOUS
  <2>2. h[0].cycle = 0 /\ h[0].mode = "NORMAL" /\ h[0].event = "NO_ACTION"  BY <1>5, <1>7
  <2>3. QED  BY <1>5, <1>6, <2>1, <2>2 DEF History
<1>9. ~(h[0].mode = "CRASH" /\ price >= h[0].peak)  BY <1>5, <1>7
<1>10. /\ Recursion(<<price>>, SourceCycles(<<price>>))
       /\ History(SourceCycles(<<price>>), <<price>>, 1)
       /\ SourceCycles(<<price>>)[1] = ObserveClose(h[0], price)
  <2> DEFINE cl == <<>>
  <2>1. cl \in Seq(Price) /\ Len(cl) = 0 /\ Append(cl, price) = <<price>> /\ Len(cl) + 1 = 1
    BY <1>4
  <2>2. Recursion(cl, SourceCycles(cl)) /\ History(SourceCycles(cl), cl, Len(cl))
    BY <1>3, <1>8, <2>1 DEF h
  <2>3. ~(SourceCycles(cl)[Len(cl)].mode = "CRASH" /\ price >= SourceCycles(cl)[Len(cl)].peak)
    BY <1>9, <2>1 DEF h
  <2>4. SourceCycles(cl)[Len(cl)] = h[0]  BY <2>1 DEF h
  <2> HIDE DEF cl
  <2>5. /\ Recursion(Append(cl, price), SourceCycles(Append(cl, price)))
        /\ History(SourceCycles(Append(cl, price)), Append(cl, price), Len(cl) + 1)
        /\ SourceCycles(Append(cl, price))[Len(cl) + 1] = ObserveClose(SourceCycles(cl)[Len(cl)], price)
    BY <2>1, <2>2, <2>3, HistoryAppends
  <2>6. QED  BY <2>1, <2>4, <2>5
<1>11. session = 1  BY DEF Init
<1>12. QED  BY <1>1, <1>5, <1>10, <1>11 DEF RowsInv, Past

\* What a new row does to the history, the closes making no leap.
LEMMA RowsGrow ==
  ASSUME TypeOK, RowsInv, Leaps = FALSE, NextRow
  PROVE  /\ RowsInv' /\ Extends(Past', Past, session)
         /\ \/ Quiet(source, source') \/ Starts(source, source')
            \/ Deepens(source, source') \/ Rearmed(source, source')
<1>1. PICK price \in Price :
        /\ ~(source.mode = "CRASH" /\ price >= source.peak)
        /\ closes' = Append(closes, price) /\ source' = ObserveClose(source, price)
  BY DEF NextRow
<1>2. closes \in Seq(Price) /\ Len(closes) = session /\ session' = session + 1
      /\ source \in Source /\ price \in Nat \ {0}
  BY DispatchAssumption DEF TypeOK, NextRow
<1>3. /\ Recursion(closes, SourceCycles(closes)) /\ SourceCycles(closes)[session] = source
      /\ History(SourceCycles(closes), closes, Len(closes))
  BY <1>2 DEF RowsInv, Past
<1>4. /\ Recursion(closes', SourceCycles(closes'))
      /\ Extends(SourceCycles(closes'), SourceCycles(closes), session)
      /\ History(SourceCycles(closes'), closes', session')
      /\ SourceCycles(closes')[session'] = source'
  BY <1>1, <1>2, <1>3, HistoryAppends
<1>5. \/ Quiet(source, source') \/ Starts(source, source')
      \/ Deepens(source, source') \/ Rearmed(source, source')
  BY <1>1, <1>2, SourceCase
<1>6. QED  BY <1>4, <1>5 DEF RowsInv, Past

-----------------------------------------------------------------------------
(* The effects of a step on the links *)

Ready(h) ==
  /\ TypeOK /\ BookInv /\ MoveInv /\ HoldInv
  /\ History(h, closes, session) /\ h[session] = source

LEMMA ReadyTypes ==
  ASSUME TypeOK
  PROVE  /\ session \in Nat /\ session > 0 /\ session \in Session /\ Session \subseteq Nat \ {0}
         /\ rec.cycle \in Nat /\ rec.exit \in Nat /\ rec.target \in Nat /\ rec.oldAth \in Nat
         /\ rec.recovered \in BOOLEAN
         /\ rec.phase \in {"NORMAL", "WAIT_D40", "RECOVERY_ACTIVE", "OLD_ATH_GUARD"}
         /\ source.cycle \in Nat /\ source.peak \in Nat /\ source.target \in Nat
         /\ closes[session] \in Nat
         /\ \A s \in Session : events[s].cycle \in Nat /\ Level(s) \in Nat
         /\ \A j \in journal : j.key.cycle \in Nat /\ j.key.at \in Nat
<1>1. /\ session \in Nat /\ session > 0 /\ session \in Session /\ Session \subseteq Nat \ {0}
  BY DispatchAssumption DEF TypeOK, Session
<1>2. /\ rec.cycle \in Nat /\ rec.exit \in Nat /\ rec.target \in Nat /\ rec.oldAth \in Nat
      /\ rec.recovered \in BOOLEAN
      /\ rec.phase \in {"NORMAL", "WAIT_D40", "RECOVERY_ACTIVE", "OLD_ATH_GUARD"}
  BY DEF TypeOK, RecoveryState, Target, Phase
<1>3. source.cycle \in Nat /\ source.peak \in Nat /\ source.target \in Nat
  BY SourceTypes DEF TypeOK
<1>4. closes[session] \in Nat
  <2>1. closes[session] \in Price  BY <1>1 DEF TypeOK
  <2>2. QED  BY <2>1, DispatchAssumption
<1>5. \A s \in Session : events[s].cycle \in Nat /\ Level(s) \in Nat
  BY DEF TypeOK, EventRow, Target, Level
<1>6. \A j \in journal : j.key.cycle \in Nat /\ j.key.at \in Nat
  BY DEF TypeOK, JournalRow
<1>7. QED  BY <1>1, <1>2, <1>3, <1>4, <1>5, <1>6

\* A cycle of the source has a first signal, and its entry and exit follow.
LEMMA SignalFacts ==
  ASSUME NEW h, Ready(h), NEW c \in 1..source.cycle
  PROVE  /\ First(h, c) \in Signals(h, c) /\ First(h, c) \in Session /\ First(h, c) <= session
         /\ \A s \in Signals(h, c) : First(h, c) <= s /\ s \in 1..session /\ s \in Session
         /\ FirstEntry(h, c) = First(h, c) + 1 + Delay /\ FirstEntry(h, c) \in Nat
         /\ ExitOf(h, c) = FirstEntry(h, c) + Hold /\ ExitOf(h, c) \in Nat
         /\ ExitOf(h, c) > FirstEntry(h, c)
         /\ FirstEntry(h, c) = DelayedEntry(First(h, c))
         /\ Rearms(h, c) \subseteq 1..session
<1> USE IntervalsAssumption
<1>1. /\ h \in [0..session -> Source] /\ h[0] = NoRows /\ Signals(h, c) # {}
      /\ session \in Session
  BY ReadyTypes DEF Ready, History
<1>2. NoRows.event = "NO_ACTION"  BY DEF NoRows
<1>3. \A s \in 0..session : s = 0 \/ s \in 1..session
  BY ReadyTypes DEF Ready
<1>4. Signals(h, c) \subseteq 1..session /\ Rearms(h, c) \subseteq 1..session
  BY <1>1, <1>2, <1>3 DEF Signals, Rearms
<1>5. 1..session \subseteq Session
  BY <1>1, DispatchAssumption DEF Session
<1>6. 1..session \subseteq Nat  BY <1>1, ReadyTypes DEF Ready
<1>7. Min(Signals(h, c)) \in Signals(h, c) /\ \A s \in Signals(h, c) : Min(Signals(h, c)) <= s
  BY <1>1, <1>4, <1>6, MinOfNumbers
<1>8. First(h, c) \in Signals(h, c) /\ First(h, c) \in 1..session
  BY <1>4, <1>7 DEF First
<1>9. FirstEntry(h, c) = DelayedEntry(First(h, c))  BY DEF FirstEntry, First
<1>10. FirstEntry(h, c) = First(h, c) + 1 + Delay /\ FirstEntry(h, c) \in Nat
  BY <1>6, <1>8, <1>9 DEF DelayedEntry
<1>11. ExitOf(h, c) = FirstEntry(h, c) + Hold /\ ExitOf(h, c) \in Nat /\ ExitOf(h, c) > FirstEntry(h, c)
  BY <1>10 DEF ExitOf, FixedExit
<1>12. \A s \in Signals(h, c) : First(h, c) <= s /\ s \in 1..session /\ s \in Session
  BY <1>4, <1>5, <1>7 DEF First
<1>13. QED  BY <1>4, <1>8, <1>9, <1>10, <1>11, <1>12

\* The process goes to the step q, of what it may find there.
LEMMA PcLink ==
  ASSUME NEW h, NEW p, LinkInv(h, p), NEW q,
         q \in {"close", "done"} => ~Fresh(h, p),
         Waiting /\ q \in After => FirstEntry(h, rec.cycle) > session,
         Waiting /\ q = "done" => Rearms(h, rec.cycle) = {},
         q \in {"attach", "close", "done"} /\ h[session].event = "ROTATE" => Known(session),
         q \in {"trim", "applied"} => Holding
  PROVE  LinkInv(h, q)
<1>1. Fresh(h, p) => Fresh(h, q)  BY DEF Fresh
<1>2. CycleInv(h, q)  BY <1>1 DEF LinkInv, CycleInv
<1>3. WaitInv(h, q)  BY DEF LinkInv, WaitInv
<1>4. HeldInv(h, q)  BY DEF LinkInv, HeldInv
<1>5. OverInv(h, q)  BY <1>1 DEF LinkInv, OverInv
<1>6. SignalInv(h, q)  BY DEF LinkInv, SignalInv
<1>7. QED  BY <1>2, <1>3, <1>4, <1>5, <1>6 DEF LinkInv

\* Nothing but the process moves.
LEMMA StayLink ==
  ASSUME NEW h, LinkInv(h, pc'), UNCHANGED <<rec, events, journal, source, session>>
  PROVE  LinkInv(h, pc)'
<1>1. Fresh(h, pc)' = Fresh(h, pc')  BY DEF Fresh
<1>2. CycleInv(h, pc)'  BY <1>1 DEF LinkInv, CycleInv
<1>3. WaitInv(h, pc)'  BY DEF LinkInv, WaitInv, Waiting, IsOpen
<1>4. HeldInv(h, pc)'  BY DEF LinkInv, HeldInv, Holding, Guarded, Recorded, ExitKey, Key
<1>5. LastInv'  BY DEF LinkInv, LastInv, Holding, Recorded, ApplyKey, Key, Level
<1>6. RowInv(h)'  BY DEF LinkInv, RowInv, RowOf
<1>7. OverInv(h, pc)'  BY <1>1 DEF LinkInv, OverInv, Over, Recorded
<1>8. SignalInv(h, pc)'  BY DEF LinkInv, SignalInv, Known, IsOpen, Level, Holding
<1>9. QED  BY <1>2, <1>3, <1>4, <1>5, <1>6, <1>7, <1>8 DEF LinkInv

\* An event gets another status.
LEMMA StatusLink ==
  ASSUME NEW h, Ready(h), LinkInv(h, pc'), UNCHANGED <<rec, journal, source, session>>,
         NEW s \in Session, Known(s), NEW st \in EventStatus \ {"NONE"},
         events' = [events EXCEPT ![s].status = st],
         st \in {"PENDING", "MATURED"} => IsOpen(s),
         st \notin {"PENDING", "MATURED"} =>
           /\ Waiting /\ s = First(h, rec.cycle) =>
                session \in Rearms(h, rec.cycle) /\ FirstEntry(h, rec.cycle) > session
           /\ s = session => Holding /\ rec.cycle = source.cycle,
         st = "CANCELLED" =>
           Early(h, events[s].cycle) \/ DelayedEntry(s) >= ExitOf(h, events[s].cycle)
  PROVE  LinkInv(h, pc)'
<1>1. \A t \in Session : /\ Known(t)' <=> Known(t)
                         /\ Level(t)' = Level(t) /\ events'[t].cycle = events[t].cycle
                         /\ t # s => events'[t] = events[t]
                         /\ t = s => events'[t].status = st
  BY DEF Ready, TypeOK, Known, Level, EventRow
<1>2. Fresh(h, pc)' = Fresh(h, pc')  BY DEF Fresh
<1>3. CycleInv(h, pc)'  BY <1>2 DEF LinkInv, CycleInv
<1>4. HeldInv(h, pc)'  BY DEF LinkInv, HeldInv, Holding, Guarded, Recorded, ExitKey, Key
<1>5. LastInv'  BY <1>1 DEF LinkInv, LastInv, Holding, Recorded, ApplyKey, Key
<1>6. RowInv(h)'  BY DEF LinkInv, RowInv, RowOf
<1>7. OverInv(h, pc)'  BY <1>2 DEF LinkInv, OverInv, Over, Recorded
<1>8. WaitInv(h, pc)'
  <2>1. ASSUME Waiting, IsOpen(First(h, rec.cycle))
        PROVE  \/ IsOpen(First(h, rec.cycle))'
               \/ session \in Rearms(h, rec.cycle) /\ FirstEntry(h, rec.cycle) > session
    <3>1. First(h, rec.cycle) \in Session
      <4>1. rec.cycle \in 1..source.cycle  BY <2>1 DEF LinkInv, CycleInv, Waiting
      <4>2. QED  BY <4>1, SignalFacts
    <3>2. CASE First(h, rec.cycle) = s /\ st \in {"PENDING", "MATURED"}
      BY <1>1, <3>2 DEF IsOpen
    <3>3. CASE First(h, rec.cycle) = s /\ st \notin {"PENDING", "MATURED"}
      BY <2>1, <3>3
    <3>4. CASE First(h, rec.cycle) # s
      BY <1>1, <2>1, <3>1, <3>4 DEF IsOpen
    <3>5. QED  BY <3>2, <3>3, <3>4
  <2>2. QED  BY <2>1 DEF LinkInv, WaitInv, Waiting
<1>9. SignalInv(h, pc)'
  <2>1. SignalInv(h, pc')  BY DEF LinkInv
  <2>2. \A t \in 1..session : t \in Session
    BY ReadyTypes, DispatchAssumption DEF Ready, Session
  <2>3. session \in Session  BY ReadyTypes DEF Ready
  <2>4. \A t \in 1..session :
          h[t].event = "ROTATE" /\ (t = session => pc' \in {"attach", "close", "done"}) => Known(t)'
    BY <1>1, <2>1, <2>2 DEF SignalInv
  <2>5. \A t \in Session : Known(t)' =>
          t <= session /\ t \in Signals(h, events'[t].cycle) /\ Level(t)' = h[t].target
    BY <1>1, <2>1 DEF SignalInv
  <2>6. Known(session)' /\ ~IsOpen(session)' => Holding /\ rec.cycle = source.cycle
    BY <1>1, <2>1, <2>3 DEF SignalInv, IsOpen
  <2>7. Known(session)' /\ Holding => session < rec.exit
    BY <1>1, <2>1, <2>3 DEF SignalInv
  <2>8. \A t \in Session : events'[t].status = "CANCELLED" =>
          Early(h, events'[t].cycle) \/ DelayedEntry(t) >= ExitOf(h, events'[t].cycle)
    BY <1>1, <2>1 DEF SignalInv
  <2>9. QED  BY <2>4, <2>5, <2>6, <2>7, <2>8 DEF SignalInv, Holding, Known, IsOpen
<1>10. QED  BY <1>3, <1>4, <1>5, <1>6, <1>7, <1>8, <1>9 DEF LinkInv

-----------------------------------------------------------------------------
(* The transitions *)

LEMMA Applies ==
  ASSUME NEW key, NEW new, NEW step, Transition(key, new, step)
  PROVE  \/ UNCHANGED <<rec, events, journal>> /\ pc' = step /\ Recorded(key)
         \/ UNCHANGED <<rec, events, journal>> /\ pc' = "raised"
         \/ /\ ~Recorded(key)
            /\ rec' = new /\ journal' = journal \cup {[key |-> key, new |-> new]}
            /\ events' = events /\ pc' = step
BY DEF Transition, Raise, Goto, database

\* A step of the process alone.
LEMMA MoveLink ==
  ASSUME NEW h, LinkInv(h, pc), UNCHANGED <<rec, events, journal, source, session>>,
         pc' \in {"close", "done"} => ~Fresh(h, pc),
         Waiting /\ pc' \in After => FirstEntry(h, rec.cycle) > session,
         Waiting /\ pc' = "done" => Rearms(h, rec.cycle) = {},
         pc' \in {"attach", "close", "done"} /\ h[session].event = "ROTATE" => Known(session),
         pc' \in {"trim", "applied"} => Holding
  PROVE  LinkInv(h, pc)'
BY PcLink, StayLink

LEMMA RaiseLink ==
  ASSUME NEW h, LinkInv(h, pc), UNCHANGED <<rec, events, journal, source, session>>,
         pc' \in {"raised", "process", "apply"}
  PROVE  LinkInv(h, pc)'
BY MoveLink DEF After

\* What is left to show of a transition that was applied.
LEMMA RowAdds ==
  ASSUME NEW h, LinkInv(h, pc), UNCHANGED <<source, session>>,
         NEW key, NEW new, journal' = journal \cup {[key |-> key, new |-> new]},
         RowOf(h, [key |-> key, new |-> new])
  PROVE  RowInv(h)'
BY DEF LinkInv, RowInv, RowOf

LEMMA SignalKeeps ==
  ASSUME NEW h, LinkInv(h, pc), UNCHANGED <<events, source, session>>,
         pc' \in {"attach", "close", "done"} /\ h[session].event = "ROTATE" => Known(session),
         Known(session) /\ ~IsOpen(session) => Holding' /\ rec'.cycle = source.cycle,
         Known(session) /\ Holding' => session < rec'.exit
  PROVE  SignalInv(h, pc)'
<1>1. \A s : (Known(s)' <=> Known(s)) /\ (IsOpen(s)' <=> IsOpen(s)) /\ Level(s)' = Level(s)
  BY DEF Known, IsOpen, Level
<1>2. SignalInv(h, pc)  BY DEF LinkInv
<1>3. \A t \in 1..session :
        h[t].event = "ROTATE" /\ (t = session => pc' \in {"attach", "close", "done"}) => Known(t)'
  BY <1>1, <1>2 DEF SignalInv
<1>4. QED  BY <1>1, <1>2, <1>3 DEF SignalInv

\* The cycle goes on.
LEMMA OverKeeps ==
  ASSUME NEW h, LinkInv(h, pc), UNCHANGED <<source, session>>, journal \subseteq journal',
         rec.phase # "NORMAL", rec'.phase # "NORMAL", rec'.cycle = rec.cycle,
         pc' \in {"close", "done"} => ~Fresh(h, pc)
  PROVE  OverInv(h, pc)' /\ (Fresh(h, pc) => Fresh(h, pc)')
<1>1. Fresh(h, pc) => Fresh(h, pc)'  BY DEF Fresh
<1>2. \A c : Over(h, c) => Over(h, c)'  BY DEF Over, Recorded
<1>3. QED  BY <1>1, <1>2 DEF LinkInv, OverInv

\* The cycle is over, and the source is not in another one the dispatcher has
\* already come to.
LEMMA LeaveLink ==
  ASSUME NEW h, LinkInv(h, pc), UNCHANGED <<events, source, session>>,
         NEW key, NEW new, journal' = journal \cup {[key |-> key, new |-> new]},
         RowOf(h, [key |-> key, new |-> new]),
         rec' = NormalState, rec.phase # "NORMAL", ~Holding, Over(h, rec.cycle),
         pc' \in {"close", "done"} => ~Fresh(h, pc),
         source.mode = "NORMAL" \/ Fresh(h, pc),
         pc' \in {"attach", "close", "done"} /\ h[session].event = "ROTATE" => Known(session),
         pc' \notin {"trim", "applied"}
  PROVE  LinkInv(h, pc)'
<1>1. Fresh(h, pc) => Fresh(h, pc)'  BY DEF Fresh, NormalState
<1>2. \A c : Over(h, c) => Over(h, c)'  BY DEF Over, Recorded
<1>3. /\ rec'.phase = "NORMAL" /\ ~Waiting' /\ ~Holding' /\ ~Guarded'
  BY DEF NormalState, Waiting, Holding, Guarded
<1>4. CycleInv(h, pc)'  BY <1>1, <1>3 DEF CycleInv
<1>5. WaitInv(h, pc)' /\ HeldInv(h, pc)' /\ LastInv'
  BY <1>3 DEF WaitInv, HeldInv, LastInv
<1>6. RowInv(h)'  BY RowAdds
<1>7. OverInv(h, pc)'  BY <1>1, <1>2 DEF LinkInv, OverInv
<1>8. SignalInv(h, pc)'
  <2>1. ~(Known(session) /\ ~IsOpen(session))  BY DEF LinkInv, SignalInv
  <2>2. QED  BY <1>3, <2>1, SignalKeeps
<1>9. QED  BY <1>4, <1>5, <1>6, <1>7, <1>8 DEF LinkInv

\* A close back at the old ATH ends a cycle that the source has rearmed.
LEMMA AtOldAthRearmed ==
  ASSUME NEW h, Ready(h), LinkInv(h, pc), At("close"), rec.phase # "NORMAL"
  PROVE  /\ rec.cycle = source.cycle /\ ~Fresh(h, pc)
         /\ AtOldAth => Rearms(h, rec.cycle) # {} /\ source.mode = "NORMAL"
<1>1. ~Fresh(h, pc)  BY DEF Fresh, At
<1>2. /\ rec.cycle \in 1..source.cycle /\ rec.oldAth = PeakOf(h, rec.cycle)
      /\ rec.cycle = source.cycle
  BY <1>1 DEF LinkInv, CycleInv
<1>3. ASSUME AtOldAth PROVE Rearms(h, rec.cycle) # {}
  <2>1. closes[session] >= PeakOf(h, rec.cycle)  BY <1>2, <1>3 DEF AtOldAth
  <2>2. session \in First(h, rec.cycle)..session
    <3>1. First(h, rec.cycle) \in Session /\ First(h, rec.cycle) <= session
      BY <1>2, SignalFacts
    <3>2. QED  BY <3>1, ReadyTypes DEF Ready
  <2>3. h[session].cycle = rec.cycle  BY <1>2 DEF Ready
  <2>4. QED  BY <1>2, <2>1, <2>2, <2>3 DEF Ready, History
<1>4. Rearms(h, rec.cycle) # {} => source.mode = "NORMAL"
  <2>1. ~(rec.cycle < source.cycle)  BY <1>2, ReadyTypes DEF Ready
  <2>2. QED  BY <1>2, <2>1 DEF Ready, History
<1>5. QED  BY <1>1, <1>2, <1>3, <1>4

\* A step that has passed the ingestion has the event of the session stored.
LEMMA StoredToday ==
  ASSUME NEW h, Ready(h), LinkInv(h, pc), pc \in {"attach", "close", "done"},
         h[session].event = "ROTATE"
  PROVE  Known(session)
<1>1. session \in 1..session  BY ReadyTypes DEF Ready
<1>2. QED  BY <1>1 DEF LinkInv, SignalInv

LEMMA LinkRearmAtExit ==
  ASSUME NEW h, Ready(h), LinkInv(h, pc), RearmAtExit
  PROVE  LinkInv(h, pc)'
<1> DEFINE key == Key(rec.cycle, "rearm-after-fixed-exit", rec.exit)
<1>1. /\ Transition(key, NormalState, "ingest") /\ Guarded /\ rec.recovered
      /\ UNCHANGED <<source, session>>
  BY DEF RearmAtExit, Same, rows
<1>2. CASE UNCHANGED <<rec, events, journal>> /\ pc' \in {"ingest", "raised"}
  BY <1>1, <1>2, MoveLink DEF Guarded, Waiting
<1>3. CASE /\ rec' = NormalState /\ journal' = journal \cup {[key |-> key, new |-> NormalState]}
           /\ events' = events /\ pc' = "ingest"
  <2>1. /\ rec.phase # "NORMAL" /\ ~Holding /\ rec.cycle \in 1..source.cycle
        /\ Rearms(h, rec.cycle) # {} /\ Over(h, rec.cycle)
        /\ rec.cycle # source.cycle => Fresh(h, pc)
    BY <1>1 DEF Guarded, Holding, LinkInv, CycleInv, HeldInv, Over, ExitKey
  <2>2. source.mode = "NORMAL" \/ Fresh(h, pc)
    <3>1. ~(source.cycle < source.cycle)  BY ReadyTypes DEF Ready
    <3>2. QED  BY <2>1, <3>1 DEF Ready, History
  <2>3. RowOf(h, [key |-> key, new |-> NormalState])  BY DEF RowOf, Key
  <2> HIDE DEF key
  <2>4. QED  BY <1>1, <1>3, <2>1, <2>2, <2>3, LeaveLink
<1>4. QED  BY <1>1, <1>2, <1>3, Applies

LEMMA LinkCancelCycle ==
  ASSUME NEW h, Ready(h), LinkInv(h, pc), CancelCycle
  PROVE  LinkInv(h, pc)'
<1> DEFINE key == Key(rec.cycle, "cancel-pre-entry", session)
<1>1. /\ Transition(key, NormalState, "done") /\ Waiting /\ AtOldAth /\ At("close")
      /\ UNCHANGED <<source, session>>
  BY DEF CancelCycle, Same, rows
<1>2. /\ rec.phase # "NORMAL" /\ ~Holding /\ ~Fresh(h, pc) /\ Rearms(h, rec.cycle) # {}
      /\ source.mode = "NORMAL" /\ rec.cycle \in 1..source.cycle
  BY <1>1, AtOldAthRearmed DEF Waiting, Holding, LinkInv, CycleInv
<1>3. Over(h, rec.cycle)
  <2>1. Rearms(h, rec.cycle) \subseteq {session} /\ FirstEntry(h, rec.cycle) > session
    BY <1>1 DEF LinkInv, WaitInv, At, After
  <2>2. FirstEntry(h, rec.cycle) \in Nat /\ session \in Nat
    BY <1>2, SignalFacts, ReadyTypes DEF Ready
  <2>3. QED  BY <1>2, <2>1, <2>2 DEF Over, Early
<1>4. h[session].event = "ROTATE" => Known(session)  BY <1>1, StoredToday DEF At
<1>5. ~Recorded(key)
  BY <1>1 DEF LinkInv, WaitInv, Recorded, Key
<1>6. RowOf(h, [key |-> key, new |-> NormalState])  BY <1>2 DEF RowOf, Key
<1> HIDE DEF key
<1>7. CASE UNCHANGED <<rec, events, journal>> /\ pc' = "raised"
  BY <1>1, <1>7, RaiseLink
<1>8. CASE /\ rec' = NormalState /\ journal' = journal \cup {[key |-> key, new |-> NormalState]}
           /\ events' = events /\ pc' = "done"
  BY <1>1, <1>2, <1>3, <1>4, <1>6, <1>8, LeaveLink
<1>9. QED  BY <1>1, <1>5, <1>7, <1>8, Applies

LEMMA LinkRearmAtOldAth ==
  ASSUME NEW h, Ready(h), LinkInv(h, pc), RearmAtOldAth
  PROVE  LinkInv(h, pc)'
<1> DEFINE key == Key(rec.cycle, "rearm-old-ath", session)
<1>1. /\ Transition(key, NormalState, "done") /\ Guarded /\ AtOldAth /\ At("close")
      /\ UNCHANGED <<source, session>>
  BY DEF RearmAtOldAth, Same, rows
<1>2. /\ rec.phase # "NORMAL" /\ ~Holding /\ ~Waiting /\ ~Fresh(h, pc)
      /\ source.mode = "NORMAL"
  BY <1>1, AtOldAthRearmed DEF Guarded, Holding, Waiting
<1>3. Over(h, rec.cycle)  BY <1>1 DEF LinkInv, HeldInv, Over, ExitKey
<1>4. h[session].event = "ROTATE" => Known(session)  BY <1>1, StoredToday DEF At
<1>5. RowOf(h, [key |-> key, new |-> NormalState])  BY DEF RowOf, Key
<1> HIDE DEF key
<1>6. CASE UNCHANGED <<rec, events, journal>> /\ pc' \in {"done", "raised"}
  BY <1>1, <1>2, <1>4, <1>6, MoveLink
<1>7. CASE /\ rec' = NormalState /\ journal' = journal \cup {[key |-> key, new |-> NormalState]}
           /\ events' = events /\ pc' = "done"
  BY <1>1, <1>2, <1>3, <1>4, <1>5, <1>7, LeaveLink
<1>8. QED  BY <1>1, <1>6, <1>7, Applies

LEMMA LinkStartCycle ==
  ASSUME NEW h, Ready(h), LinkInv(h, pc), StartCycle
  PROVE  LinkInv(h, pc)'
<1> DEFINE c == source.cycle
           key == Key(c, "start", session)
           new == [NormalState EXCEPT !.phase = "WAIT_D40", !.cycle = c, !.oldAth = source.peak]
<1>1. /\ Transition(key, new, "close") /\ rec.phase = "NORMAL" /\ At("attach")
      /\ UNCHANGED <<source, session>>
  BY DEF StartCycle, Same, rows
<1>2. /\ session \in Nat /\ session \in Session /\ c \in Nat /\ rec.phase = "NORMAL"
      /\ \A s \in Session : s \in Nat
  BY <1>1, ReadyTypes DEF Ready
<1>3. IsOpen(session) /\ Known(session)
  BY <1>1, OpenIsKnown DEF Ready, MoveInv, OpenInv
<1>4. source.event = "ROTATE" /\ source.mode = "CRASH" /\ source.cycle > 0
  BY <1>3 DEF Ready, MoveInv, RecordInv, EventsAreSignals, SourceInv
<1>5. c \in 1..c /\ Signals(h, c) = {session}
  BY <1>1, <1>2, <1>4 DEF LinkInv, CycleInv, Fresh
<1>6. Rearms(h, c) = {} /\ source.peak = PeakOf(h, c)
  <2>1. ~(c < c) /\ h[session].mode # "NORMAL"  BY <1>2, <1>4 DEF Ready
  <2>2. QED  BY <1>5, <2>1 DEF Ready, History
<1>7. First(h, c) = session /\ FirstEntry(h, c) > session
  <2>1. First(h, c) = session  BY <1>5, SignalFacts
  <2>2. QED  BY <1>2, <1>5, <2>1, SignalFacts, IntervalsAssumption
<1>8. CASE UNCHANGED <<rec, events, journal>> /\ pc' = "raised"
  BY <1>1, <1>8, RaiseLink
<1>9. ~Recorded(key)
  BY <1>1 DEF Recorded, Key, Ready, MoveInv, RecordInv, StartInv, Waiting
<1>10. ASSUME rec' = new, journal' = journal \cup {[key |-> key, new |-> new]},
              events' = events, pc' = "close"
       PROVE  LinkInv(h, pc)'
  <2>1. /\ rec'.phase = "WAIT_D40" /\ rec'.cycle = c /\ rec'.oldAth = source.peak
        /\ ~rec'.recovered
    BY <1>10 DEF NormalState
  <2>2. Waiting' /\ ~Holding' /\ ~Guarded'  BY <2>1 DEF Waiting, Holding, Guarded
  <2>3. CycleInv(h, pc)'  BY <1>1, <1>5, <1>6, <2>1 DEF CycleInv
  <2>4. \A j \in journal' : j.key.kind \in {"apply", "cancel-pre-entry"} => j.key.cycle # c
    <3> SUFFICES ASSUME NEW j \in journal, j.key.kind \in {"apply", "cancel-pre-entry"},
                        j.key.cycle = c
                 PROVE  FALSE
      BY <1>10 DEF Key
    <3>1. RowOf(h, j)  BY DEF LinkInv, RowInv
    <3>2. CASE j.key.kind = "apply"
      <4>1. j.key.at = session /\ DelayedEntry(j.key.at) <= session
        BY <1>5, <3>1, <3>2 DEF RowOf
      <4>2. QED  BY <1>2, <4>1, IntervalsAssumption DEF DelayedEntry
    <3>3. CASE j.key.kind = "cancel-pre-entry"  BY <1>6, <3>1, <3>3 DEF RowOf
    <3>4. QED  BY <3>2, <3>3
  <2>5. WaitInv(h, pc)'
    <3>1. IsOpen(First(h, c))'  BY <1>1, <1>3, <1>7, <1>10 DEF IsOpen
    <3>2. FirstEntry(h, c) \in Nat  BY <1>5, SignalFacts
    <3>3. FirstEntry(h, c) >= session  BY <1>2, <1>7, <3>2
    <3>4. QED  BY <1>1, <1>6, <1>7, <2>1, <2>4, <3>1, <3>3 DEF WaitInv
  <2>6. HeldInv(h, pc)' /\ LastInv'  BY <1>10, <2>2 DEF HeldInv, LastInv
  <2>7. RowInv(h)'
    <3>1. RowOf(h, [key |-> key, new |-> new])  BY DEF RowOf, Key
    <3> HIDE DEF key, new
    <3>2. QED  BY <1>1, <1>10, <3>1, RowAdds
  <2>8. OverInv(h, pc)'
    <3>1. \A d : Over(h, d) => Over(h, d)'  BY <1>10 DEF Over, Recorded
    <3>2. \A d \in 1..c : d = c \/ Over(h, d)  BY <1>1 DEF LinkInv, OverInv
    <3>3. ASSUME NEW b \in 1..c, NEW d \in 1..c, b < d, ~Early(h, b)
          PROVE  ExitOf(h, b) <= First(h, d)
      <4>1. CASE d = c
        <5>1. Over(h, b)  BY <1>2, <3>2, <3>3, <4>1
        <5>2. Recorded(Key(b, "fixed-exit", ExitOf(h, b)))  BY <3>3, <5>1 DEF Over
        <5>3. ExitOf(h, b) <= session
          BY <5>2 DEF Recorded, Key, Ready, MoveInv, RecordInv, ExitInv
        <5>4. QED  BY <1>7, <4>1, <5>3
      <4>2. CASE d # c  BY <3>3, <4>2 DEF LinkInv, OverInv
      <4>3. QED  BY <4>1, <4>2
    <3>4. QED  BY <1>1, <2>1, <3>1, <3>2, <3>3 DEF OverInv
  <2>9. SignalInv(h, pc)'  BY <1>1, <1>3, <1>10, <2>2, SignalKeeps
  <2>10. QED  BY <2>3, <2>5, <2>6, <2>7, <2>8, <2>9 DEF LinkInv
<1> HIDE DEF key, new
<1>11. QED  BY <1>1, <1>8, <1>9, <1>10, Applies

\* The event that is due is a signal of the running cycle.
LEMMA DueSignal ==
  ASSUME NEW h, Ready(h), LinkInv(h, pc), At("apply")
  PROVE  /\ Due \in Session /\ Due \in Nat /\ events[Due].cycle = rec.cycle
         /\ rec.cycle \in 1..source.cycle /\ Dispatching
         /\ Due \in Signals(h, rec.cycle) /\ Level(Due) = h[Due].target
         /\ session = DelayedEntry(Due) /\ ApplyKey(Due) = Key(rec.cycle, "apply", Due)
<1>1. /\ Due \in Session /\ events[Due].status = "MATURED" /\ events[Due].cycle = rec.cycle
      /\ Dispatching
  BY DEF Ready, BookInv, DueInv
<1>2. rec.cycle \in 1..source.cycle
  BY <1>1 DEF Dispatching, Waiting, Holding, LinkInv, CycleInv
<1>3. Due \in Signals(h, rec.cycle) /\ Level(Due) = h[Due].target
  BY <1>1 DEF Known, LinkInv, SignalInv
<1>4. Due \in Nat /\ session = DelayedEntry(Due)
  <2>1. session \in Nat /\ Session \subseteq Nat  BY ReadyTypes DEF Ready
  <2>2. QED  BY <1>1, <2>1, IntervalsAssumption DEF Due, DelayedEntry
<1>5. QED  BY <1>1, <1>2, <1>3, <1>4 DEF ApplyKey

LEMMA ApplyRow ==
  ASSUME NEW h, NEW c \in 1..source.cycle, NEW at \in Signals(h, c), NEW new,
         ~Early(h, c), FirstEntry(h, c) <= session, new.target = h[at].target,
         DelayedEntry(at) <= session, DelayedEntry(at) < ExitOf(h, c)
  PROVE  RowOf(h, [key |-> Key(c, "apply", at), new |-> new])
BY DEF RowOf, Key

LEMMA LinkEnterFirst ==
  ASSUME NEW h, Ready(h), LinkInv(h, pc), EnterFirst
  PROVE  LinkInv(h, pc)'
<1> DEFINE c == rec.cycle
           key == ApplyKey(Due)
           new == [rec EXCEPT !.phase = "RECOVERY_ACTIVE", !.target = events[Due].target,
                              !.entry = session, !.exit = FixedExit(session)]
<1>1. /\ Transition(key, new, "trim") /\ ~Recorded(key) /\ Waiting /\ At("apply")
      /\ UNCHANGED <<source, session>>
  BY DEF EnterFirst, Same, rows
<1>2. CASE UNCHANGED <<rec, events, journal>> /\ pc' = "raised"
  BY <1>1, <1>2, RaiseLink
<1>3. /\ Due \in Session /\ Due \in Nat /\ events[Due].cycle = c /\ c \in 1..source.cycle
      /\ Due \in Signals(h, c) /\ Level(Due) = h[Due].target /\ session = DelayedEntry(Due)
      /\ key = Key(c, "apply", Due)
  BY <1>1, DueSignal
<1>4. session \in Nat /\ FixedExit(session) = session + Hold /\ session + Hold > session
      /\ session + Hold \in Nat
  BY ReadyTypes, IntervalsAssumption DEF Ready, FixedExit
<1>5. FirstEntry(h, c) = session
  <2>1. FirstEntry(h, c) >= session  BY <1>1 DEF LinkInv, WaitInv
  <2>2. First(h, c) <= Due /\ First(h, c) \in Nat
    BY <1>3, SignalFacts, ReadyTypes DEF Ready
  <2>3. FirstEntry(h, c) <= session
    BY <1>3, <2>2, SignalFacts, IntervalsAssumption DEF DelayedEntry
  <2>4. QED  BY <1>3, <1>4, <2>1, <2>3, SignalFacts
<1>6. ExitOf(h, c) = session + Hold  BY <1>3, <1>5, SignalFacts
<1>7. ~Early(h, c)
  <2>1. Rearms(h, c) \subseteq {session}  BY <1>1 DEF LinkInv, WaitInv
  <2>2. QED  BY <1>4, <1>5, <2>1 DEF Early
<1>8. ASSUME rec' = new, journal' = journal \cup {[key |-> key, new |-> new]},
             events' = events, pc' = "trim"
      PROVE  LinkInv(h, pc)'
  <2>1. /\ rec'.phase = "RECOVERY_ACTIVE" /\ rec'.cycle = c /\ rec'.oldAth = rec.oldAth
        /\ rec'.exit = session + Hold /\ rec'.target = Level(Due)
        /\ rec'.recovered = rec.recovered
    BY <1>4, <1>8 DEF Ready, TypeOK, RecoveryState, Level
  <2>2. Holding' /\ ~Waiting' /\ ~Guarded'  BY <2>1 DEF Holding, Waiting, Guarded
  <2>3. ~rec.recovered /\ rec.phase # "NORMAL"  BY <1>1 DEF LinkInv, WaitInv, Waiting
  <2>4. OverInv(h, pc)' /\ (Fresh(h, pc) => Fresh(h, pc)')
    BY <1>1, <1>8, <2>1, <2>3, OverKeeps
  <2>5. CycleInv(h, pc)'
    BY <1>1, <2>1, <2>3, <2>4 DEF LinkInv, CycleInv
  <2>6. WaitInv(h, pc)'  BY <2>2 DEF WaitInv
  <2>7. HeldInv(h, pc)'
    BY <1>1, <1>4, <1>5, <1>6, <1>7, <2>1, <2>2, <2>3 DEF HeldInv
  <2>8. LastInv'
    <3>1. \A s \in Session : Recorded(ApplyKey(s))' /\ events[s].cycle = c => s = Due
      <4> SUFFICES ASSUME NEW s \in Session, events[s].cycle = c, NEW j \in journal',
                          j.key = ApplyKey(s)'
                   PROVE  s = Due
        BY DEF Recorded
      <4>1. j.key = Key(c, "apply", s)  BY <1>8 DEF ApplyKey
      <4>2. j \notin journal  BY <1>1, <4>1 DEF LinkInv, WaitInv, Key
      <4>3. j.key = Key(c, "apply", Due)  BY <1>3, <1>8, <4>2
      <4>4. QED  BY <4>1, <4>3 DEF Key
    <3>2. Recorded(ApplyKey(Due))'
      <4>1. Due' = Due /\ ApplyKey(Due)' = key  BY <1>1, <1>8 DEF Due, ApplyKey
      <4>2. \E j \in journal' : j.key = key
        <5> HIDE DEF key, new
        <5>1. [key |-> key, new |-> new] \in journal'  BY <1>8
        <5>2. QED  BY <5>1
      <4>3. QED  BY <4>1, <4>2 DEF Recorded, ApplyKey, Due
    <3>3. \A s \in Session : Level(s)' = Level(s)  BY <1>8 DEF Level
    <3>4. Level(Due) \in Nat  BY <1>3, ReadyTypes DEF Ready
    <3>5. \E s \in Session : Recorded(ApplyKey(s))' /\ events'[s].cycle = c /\ Level(s)' = Level(Due)
      <4>1. Due' = Due  BY <1>1 DEF Due
      <4>2. PICK s \in Session : s = Due  BY <1>3
      <4>3. Recorded(ApplyKey(s))'  BY <3>2, <4>1, <4>2 DEF Recorded, ApplyKey
      <4>4. QED  BY <1>3, <1>8, <3>3, <4>2, <4>3
    <3>6. QED  BY <1>8, <2>1, <3>1, <3>3, <3>4, <3>5 DEF LastInv
  <2>9. RowInv(h)'
    <3>1. RowOf(h, [key |-> key, new |-> new])
      <4>1. new.target = h[Due].target  BY <1>3, <1>8, <2>1
      <4>2. /\ FirstEntry(h, c) <= session /\ DelayedEntry(Due) <= session
            /\ DelayedEntry(Due) < ExitOf(h, c)
        BY <1>3, <1>4, <1>5, <1>6
      <4> HIDE DEF key, new
      <4>3. QED  BY <1>3, <1>7, <4>1, <4>2, ApplyRow
    <3> HIDE DEF key, new
    <3>2. QED  BY <1>1, <1>8, <3>1, RowAdds
  <2>10. SignalInv(h, pc)'
    <3>1. ~Holding  BY <1>1 DEF Waiting, Holding
    <3>2. ~(Known(session) /\ ~IsOpen(session))  BY <3>1 DEF LinkInv, SignalInv
    <3>3. session < rec'.exit  BY <1>4, <2>1
    <3>4. QED  BY <1>1, <1>8, <3>2, <3>3, SignalKeeps
  <2>11. QED  BY <2>4, <2>5, <2>6, <2>7, <2>8, <2>9, <2>10 DEF LinkInv
<1> HIDE DEF key, new
<1>9. QED  BY <1>1, <1>2, <1>8, Applies

LEMMA LinkScaleUp ==
  ASSUME NEW h, Ready(h), LinkInv(h, pc), ScaleUp
  PROVE  LinkInv(h, pc)'
<1> DEFINE c == rec.cycle
           key == ApplyKey(Due)
           new == [rec EXCEPT !.target = events[Due].target]
<1>1. /\ ~Recorded(key) /\ Holding /\ At("apply") /\ UNCHANGED <<source, session>>
      /\ \/ Transition(key, new, "applied") /\ events[Due].target > rec.target
         \/ Raise("scale")
  BY DEF ScaleUp, Same, rows
<1>2. CASE UNCHANGED <<rec, events, journal>> /\ pc' = "raised"
  BY <1>1, <1>2, RaiseLink
<1>3. /\ Due \in Session /\ Due \in Nat /\ events[Due].cycle = c /\ c \in 1..source.cycle
      /\ Due \in Signals(h, c) /\ Level(Due) = h[Due].target /\ session = DelayedEntry(Due)
      /\ key = Key(c, "apply", Due)
  BY <1>1, DueSignal
<1>4. /\ FirstEntry(h, c) <= session /\ ~Early(h, c) /\ rec.exit = ExitOf(h, c)
      /\ rec.recovered => Rearms(h, c) # {}
  BY <1>1 DEF LinkInv, HeldInv
<1>5. session < ExitOf(h, c) /\ session \in Nat
  BY <1>1, <1>4, ReadyTypes DEF Ready, HoldInv, At
<1>6. ASSUME rec' = new, journal' = journal \cup {[key |-> key, new |-> new]},
             events' = events, pc' = "applied", events[Due].target > rec.target
      PROVE  LinkInv(h, pc)'
  <2>1. /\ rec'.phase = rec.phase /\ rec'.cycle = c /\ rec'.oldAth = rec.oldAth
        /\ rec'.exit = rec.exit /\ rec'.target = Level(Due) /\ rec'.recovered = rec.recovered
    BY <1>6 DEF Ready, TypeOK, RecoveryState, Level
  <2>2. /\ Holding' /\ ~Waiting' /\ ~Guarded' /\ rec.phase # "NORMAL"
    BY <1>1, <2>1 DEF Holding, Waiting, Guarded
  <2>3. OverInv(h, pc)' /\ (Fresh(h, pc) => Fresh(h, pc)')
    BY <1>1, <1>6, <2>1, <2>2, OverKeeps
  <2>4. CycleInv(h, pc)'
    BY <1>1, <2>1, <2>2, <2>3 DEF LinkInv, CycleInv
  <2>5. WaitInv(h, pc)'  BY <2>2 DEF WaitInv
  <2>6. HeldInv(h, pc)'  BY <1>1, <1>4, <2>1, <2>2 DEF HeldInv
  <2>7. LastInv'
    <3>1. \A s \in Session : Recorded(ApplyKey(s))' /\ events[s].cycle = c =>
            s = Due \/ Recorded(ApplyKey(s))
      <4> SUFFICES ASSUME NEW s \in Session, events[s].cycle = c, NEW j \in journal',
                          j.key = ApplyKey(s)', j \notin journal
                   PROVE  s = Due
        BY <1>6 DEF Recorded, ApplyKey
      <4>1. j.key = Key(c, "apply", s)  BY <1>6 DEF ApplyKey
      <4>2. j.key = Key(c, "apply", Due)  BY <1>3, <1>6
      <4>3. QED  BY <4>1, <4>2 DEF Key
    <3>2. \A s \in Session : Level(s)' = Level(s) /\ Level(s) \in Nat
      BY <1>6, ReadyTypes DEF Level, Ready
    <3>3. \E s \in Session : Recorded(ApplyKey(s))' /\ events'[s].cycle = c /\ Level(s)' = Level(Due)
      <4>1. PICK s \in Session : s = Due  BY <1>3
      <4>2. Recorded(ApplyKey(s))'
        <5>1. ApplyKey(s)' = key  BY <1>6, <4>1 DEF ApplyKey
        <5>2. \E j \in journal' : j.key = key
          <6> HIDE DEF key, new
          <6>1. [key |-> key, new |-> new] \in journal'  BY <1>6
          <6>2. QED  BY <6>1
        <5>3. QED  BY <5>1, <5>2 DEF Recorded, ApplyKey
      <4>3. QED  BY <1>3, <1>6, <3>2, <4>1, <4>2
    <3>4. \A s \in Session : Recorded(ApplyKey(s)) /\ events[s].cycle = c => Level(s) <= rec.target
      BY <1>1 DEF LinkInv, LastInv
    <3>5. Level(Due) > rec.target /\ rec.target \in Nat /\ Level(Due) \in Nat
      BY <1>3, <1>6, ReadyTypes DEF Level, Ready
    <3>6. \A s \in Session : Recorded(ApplyKey(s))' /\ events[s].cycle = c => Level(s) <= Level(Due)
      BY <3>1, <3>2, <3>4, <3>5
    <3>7. QED  BY <1>6, <2>1, <3>2, <3>3, <3>6 DEF LastInv
  <2>8. RowInv(h)'
    <3>1. RowOf(h, [key |-> key, new |-> new])
      <4>1. new.target = h[Due].target  BY <1>3, <1>6, <2>1
      <4>2. DelayedEntry(Due) <= session /\ DelayedEntry(Due) < ExitOf(h, c)
        BY <1>3, <1>5
      <4> HIDE DEF key, new
      <4>3. QED  BY <1>3, <1>4, <4>1, <4>2, ApplyRow
    <3> HIDE DEF key, new
    <3>2. QED  BY <1>1, <1>6, <3>1, RowAdds
  <2>9. SignalInv(h, pc)'
    <3>1. Known(session) /\ ~IsOpen(session) => rec'.cycle = source.cycle
      BY <2>1 DEF LinkInv, SignalInv
    <3>2. session < rec'.exit  BY <1>4, <1>5, <2>1
    <3>3. QED  BY <1>1, <1>6, <2>2, <3>1, <3>2, SignalKeeps
  <2>10. QED  BY <2>3, <2>4, <2>5, <2>6, <2>7, <2>8, <2>9 DEF LinkInv
<1>7. \/ UNCHANGED <<rec, events, journal>> /\ pc' = "raised"
      \/ /\ rec' = new /\ journal' = journal \cup {[key |-> key, new |-> new]}
         /\ events' = events /\ pc' = "applied" /\ events[Due].target > rec.target
  <2>1. CASE Raise("scale")  BY <2>1 DEF Raise, database
  <2>2. CASE Transition(key, new, "applied") /\ events[Due].target > rec.target
    <3> HIDE DEF key, new
    <3>1. QED  BY <1>1, <2>2, Applies
  <2>3. QED  BY <1>1, <2>1, <2>2
<1>8. QED  BY <1>2, <1>6, <1>7

LEMMA LinkTakeFixedExit ==
  ASSUME NEW h, Ready(h), LinkInv(h, pc), TakeFixedExit
  PROVE  LinkInv(h, pc)'
<1> DEFINE c == rec.cycle
           key == ExitKey
           new == [rec EXCEPT !.phase = "OLD_ATH_GUARD", !.target = 0]
<1>1. /\ Transition(key, new, "process") /\ Holding /\ session = rec.exit
      /\ UNCHANGED <<source, session>>
  BY DEF TakeFixedExit, Same, rows
<1>2. CASE UNCHANGED <<rec, events, journal>> /\ pc' \in {"process", "raised"}
  BY <1>1, <1>2, RaiseLink
<1>3. /\ c \in 1..source.cycle /\ FirstEntry(h, c) <= session /\ ~Early(h, c)
      /\ rec.exit = ExitOf(h, c) /\ (rec.recovered => Rearms(h, c) # {})
  BY <1>1 DEF LinkInv, HeldInv, CycleInv, Holding
<1>4. ~Known(session)
  <2>1. ~(session < rec.exit)  BY <1>1, ReadyTypes DEF Ready
  <2>2. QED  BY <1>1, <2>1 DEF LinkInv, SignalInv
<1>5. ASSUME rec' = new, journal' = journal \cup {[key |-> key, new |-> new]},
             events' = events, pc' = "process"
      PROVE  LinkInv(h, pc)'
  <2>1. /\ rec'.phase = "OLD_ATH_GUARD" /\ rec'.cycle = c /\ rec'.oldAth = rec.oldAth
        /\ rec'.exit = rec.exit /\ rec'.recovered = rec.recovered
    BY <1>5 DEF Ready, TypeOK, RecoveryState
  <2>2. /\ ~Holding' /\ ~Waiting' /\ Guarded' /\ rec.phase # "NORMAL"
    BY <1>1, <2>1 DEF Holding, Waiting, Guarded
  <2>3. OverInv(h, pc)' /\ (Fresh(h, pc) => Fresh(h, pc)')
    BY <1>1, <1>5, <2>1, <2>2, OverKeeps
  <2>4. CycleInv(h, pc)'
    BY <1>1, <2>1, <2>2, <2>3 DEF LinkInv, CycleInv
  <2>5. WaitInv(h, pc)' /\ LastInv'  BY <2>2 DEF WaitInv, LastInv
  <2>6. Recorded(ExitKey)'
    <3>1. ExitKey' = key  BY <2>1 DEF ExitKey
    <3>2. \E j \in journal' : j.key = key
      <4> HIDE DEF key, new
      <4>1. [key |-> key, new |-> new] \in journal'  BY <1>5
      <4>2. QED  BY <4>1
    <3>3. QED  BY <3>1, <3>2 DEF Recorded
  <2>7. HeldInv(h, pc)'
    <3> HIDE DEF key, new
    <3>1. pc' = "process" /\ session' = session  BY <1>1, <1>5
    <3>2. rec'.exit = ExitOf(h, rec'.cycle) /\ ~Early(h, rec'.cycle)
          /\ FirstEntry(h, rec'.cycle) <= session /\ (rec'.recovered => Rearms(h, rec'.cycle) # {})
      BY <1>3, <2>1
    <3>3. QED  BY <2>2, <2>6, <3>1, <3>2 DEF HeldInv
  <2>8. RowInv(h)'
    <3>1. RowOf(h, [key |-> key, new |-> new])
      <4>0. session \in Nat  BY ReadyTypes DEF Ready
      <4>1. ExitOf(h, c) <= session  BY <1>1, <1>3, <4>0
      <4>2. key = Key(c, "fixed-exit", ExitOf(h, c))  BY <1>3 DEF ExitKey
      <4> HIDE DEF key, new, c
      <4>3. key.cycle = c /\ key.kind = "fixed-exit" /\ key.at = ExitOf(h, c)  BY <4>2 DEF Key
      <4>4. QED  BY <1>3, <4>1, <4>3 DEF RowOf
    <3> HIDE DEF key, new
    <3>2. QED  BY <1>1, <1>5, <3>1, RowAdds
  <2>9. SignalInv(h, pc)'  BY <1>1, <1>4, <1>5, SignalKeeps
  <2>10. QED  BY <2>3, <2>4, <2>5, <2>7, <2>8, <2>9 DEF LinkInv
<1> HIDE DEF key, new
<1>6. QED  BY <1>1, <1>2, <1>5, Applies

LEMMA LinkRecordRecovered ==
  ASSUME NEW h, Ready(h), LinkInv(h, pc), RecordRecovered
  PROVE  LinkInv(h, pc)'
<1> DEFINE c == rec.cycle
           key == Key(c, "old-ath-recovered", session)
           new == [rec EXCEPT !.recovered = TRUE]
<1>1. /\ Transition(key, new, "done") /\ Holding /\ AtOldAth /\ At("close")
      /\ UNCHANGED <<source, session>>
  BY DEF RecordRecovered, Same, rows
<1>2. ~Fresh(h, pc) /\ Rearms(h, c) # {} /\ rec.phase # "NORMAL" /\ ~Waiting
  BY <1>1, AtOldAthRearmed DEF Holding, Waiting
<1>3. h[session].event = "ROTATE" => Known(session)  BY <1>1, StoredToday DEF At
<1>4. CASE UNCHANGED <<rec, events, journal>> /\ pc' \in {"done", "raised"}
  BY <1>1, <1>2, <1>3, <1>4, MoveLink
<1>5. ASSUME rec' = new, journal' = journal \cup {[key |-> key, new |-> new]},
             events' = events, pc' = "done"
      PROVE  LinkInv(h, pc)'
  <2>1. /\ rec'.phase = rec.phase /\ rec'.cycle = c /\ rec'.oldAth = rec.oldAth
        /\ rec'.exit = rec.exit /\ rec'.target = rec.target
    BY <1>5 DEF Ready, TypeOK, RecoveryState
  <2>2. Holding' /\ ~Waiting' /\ ~Guarded'  BY <1>1, <2>1 DEF Holding, Waiting, Guarded
  <2>3. OverInv(h, pc)' /\ (Fresh(h, pc) => Fresh(h, pc)')
    BY <1>1, <1>2, <1>5, <2>1, OverKeeps
  <2>4. CycleInv(h, pc)'
    BY <1>1, <1>2, <2>1, <2>3 DEF LinkInv, CycleInv
  <2>5. WaitInv(h, pc)'  BY <2>2 DEF WaitInv
  <2>6. HeldInv(h, pc)'
    BY <1>1, <1>2, <1>5, <2>1, <2>2 DEF LinkInv, HeldInv
  <2>7. LastInv'
    <3>1. \A s : Recorded(ApplyKey(s))' <=> Recorded(ApplyKey(s))
      BY <1>5 DEF Recorded, ApplyKey, Key
    <3>2. QED  BY <1>1, <1>5, <2>1, <3>1 DEF LinkInv, LastInv, Level
  <2>8. RowInv(h)'
    <3>1. RowOf(h, [key |-> key, new |-> new])  BY DEF RowOf, Key
    <3> HIDE DEF key, new
    <3>2. QED  BY <1>1, <1>5, <3>1, RowAdds
  <2>9. SignalInv(h, pc)'
    BY <1>1, <1>3, <1>5, <2>1, <2>2, SignalKeeps DEF LinkInv, SignalInv
  <2>10. QED  BY <2>3, <2>4, <2>5, <2>6, <2>7, <2>8, <2>9 DEF LinkInv
<1> HIDE DEF key, new
<1>6. QED  BY <1>1, <1>4, <1>5, Applies

-----------------------------------------------------------------------------
(* The steps *)

\* A status change, made or refused.
LEMMA LinkStatus ==
  ASSUME NEW h, Ready(h), LinkInv(h, pc), Same,
         NEW s \in Session, Known(s), NEW st \in {"MATURED", "APPLIED", "CANCELLED"}, NEW step,
         SetStatus(s, st, step),
         st = "MATURED" => IsOpen(s),
         st # "MATURED" =>
           /\ Waiting /\ s = First(h, rec.cycle) =>
                session \in Rearms(h, rec.cycle) /\ FirstEntry(h, rec.cycle) > session
           /\ s = session => Holding /\ rec.cycle = source.cycle,
         st = "CANCELLED" =>
           Early(h, events[s].cycle) \/ DelayedEntry(s) >= ExitOf(h, events[s].cycle),
         step \in {"close", "done"} => ~Fresh(h, pc),
         step # "done", Waiting /\ step \in After => FirstEntry(h, rec.cycle) > session,
         step \in {"attach", "close"} /\ h[session].event = "ROTATE" => Known(session),
         step \in {"trim", "applied"} => Holding
  PROVE  LinkInv(h, pc)'
<1>1. UNCHANGED <<source, session>>  BY DEF Same, rows
<1>2. CASE UNCHANGED <<rec, events, journal>> /\ pc' = "raised"
  BY <1>1, <1>2, RaiseLink
<1>3. CASE events' = [events EXCEPT ![s].status = st] /\ pc' = step /\ UNCHANGED <<rec, journal>>
  <2>1. LinkInv(h, pc')  BY <1>3, PcLink
  <2>2. st \in EventStatus \ {"NONE"} /\ st # "PENDING"  BY DEF EventStatus
  <2>3. QED  BY <1>1, <1>3, <2>1, <2>2, StatusLink
<1>4. QED  BY <1>2, <1>3 DEF SetStatus, Goto, Raise, database

\* The first open event, or the first of those outside the hold.
LEMMA OpenMember ==
  ASSUME NEW S, S \subseteq OpenOf(rec.cycle), NEW s \in FirstOf(S)
  PROVE  s \in S /\ s \in Session /\ IsOpen(s) /\ Known(s) /\ events[s].cycle = rec.cycle
BY OpenIsKnown DEF OpenOf, FirstOf

\* An event stored at this session is a signal of the source's cycle.
LEMMA KnownToday ==
  ASSUME NEW h, Ready(h), Known(session)
  PROVE  /\ source.event = "ROTATE" /\ source.mode = "CRASH"
         /\ events[session].cycle = source.cycle
BY DEF Ready, MoveInv, RecordInv, EventsAreSignals, SourceInv

LEMMA LinkExecute ==
  ASSUME NEW h, Ready(h), LinkInv(h, pc), Execute
  PROVE  LinkInv(h, pc)'
<1> USE DEF At
<1>0. /\ session \in Nat /\ session \in Session /\ Session \subseteq Nat
      /\ rec.exit \in Nat /\ rec.cycle \in Nat
  BY ReadyTypes DEF Ready
<1>1. CASE RearmAtExit  BY <1>1, LinkRearmAtExit
<1>2. CASE MissedExit \/ Orphan \/ MissedEntry
  BY <1>2, RaiseLink DEF MissedExit, Orphan, MissedEntry, Raise, Same, database, rows
<1>3. CASE CancelAtExit
  <2>1. PICK s \in FirstOf(OpenOf(rec.cycle)) : SetStatus(s, "CANCELLED", "process")
    BY <1>3 DEF CancelAtExit
  <2>2. /\ Same /\ Holding /\ session = rec.exit /\ pc = "process"
    BY <1>3 DEF CancelAtExit
  <2>3. s \in Session /\ IsOpen(s) /\ Known(s) /\ events[s].cycle = rec.cycle
    BY <2>1, OpenMember
  <2>4. ~Known(session)  BY <1>0, <2>2 DEF LinkInv, SignalInv
  <2>5. DelayedEntry(s) >= session  BY <2>3, <2>4 DEF Ready, MoveInv, OpenInv, Current
  <2>6. rec.exit = ExitOf(h, rec.cycle) /\ ~Waiting
    BY <2>2 DEF LinkInv, HeldInv, Holding, Waiting
  <2>7. DelayedEntry(s) >= ExitOf(h, events[s].cycle)  BY <2>2, <2>3, <2>5, <2>6
  <2>8. QED  BY <2>1, <2>2, <2>3, <2>4, <2>6, <2>7, LinkStatus DEF After
<1>4. CASE TakeFixedExit  BY <1>4, LinkTakeFixedExit
<1>5. CASE Mature
  <2>1. SetStatus(Due, "MATURED", "apply") /\ Same /\ Due \in OpenOf(rec.cycle)
    BY <1>5 DEF Mature
  <2>2. Due \in Session /\ IsOpen(Due) /\ Known(Due)  BY <2>1, OpenIsKnown DEF OpenOf
  <2>3. QED  BY <2>1, <2>2, LinkStatus DEF After
<1>6. CASE NothingToExecute
  <2>1. /\ UNCHANGED <<rec, events, journal, source, session>> /\ pc' = "ingest"
    BY <1>6 DEF NothingToExecute, Goto, Same, database, rows
  <2>2. ASSUME Waiting PROVE FirstEntry(h, rec.cycle) > session
    <3> DEFINE s == First(h, rec.cycle)
    <3>1. rec.cycle \in 1..source.cycle  BY <2>2 DEF Waiting, LinkInv, CycleInv
    <3>2. FirstEntry(h, rec.cycle) \in Nat /\ FirstEntry(h, rec.cycle) >= session
      BY <2>2, <3>1, SignalFacts DEF LinkInv, WaitInv
    <3>3. ASSUME FirstEntry(h, rec.cycle) = session PROVE FALSE
      <4>1. IsOpen(s)  BY <1>0, <2>2, <3>3 DEF LinkInv, WaitInv
      <4>2. s \in Session /\ s \in Signals(h, rec.cycle) /\ session = DelayedEntry(s)
        BY <3>1, <3>3, SignalFacts
      <4>3. Due = s  BY <4>2, DueAtItsSession DEF Ready
      <4>4. events[s].cycle = rec.cycle
        <5>1. s \in Signals(h, events[s].cycle)
          BY <4>1, <4>2, OpenIsKnown DEF LinkInv, SignalInv
        <5>2. QED  BY <4>2, <5>1 DEF Signals
      <4>5. Due \in OpenOf(rec.cycle)  BY <4>1, <4>2, <4>3, <4>4 DEF OpenOf
      <4>6. QED  BY <1>6, <2>2, <4>5 DEF NothingToExecute, Waiting, Guarded, Dispatching
    <3>4. QED  BY <1>0, <3>2, <3>3
  <2>3. QED  BY <2>1, <2>2, MoveLink
<1>7. CASE ResumeApplied
  <2>1. /\ UNCHANGED <<rec, events, journal, source, session>> /\ pc' = "applied"
        /\ pc = "apply" /\ Recorded(ApplyKey(Due))
    BY <1>7 DEF ResumeApplied, Goto, Same, database, rows
  <2>2. ApplyKey(Due) = Key(rec.cycle, "apply", Due) /\ Dispatching
    BY <2>1, DueSignal
  <2>3. ~Waiting  BY <2>1, <2>2 DEF LinkInv, WaitInv, Recorded, Key
  <2>4. Holding  BY <2>2, <2>3 DEF Dispatching
  <2>5. QED  BY <2>1, <2>3, <2>4, MoveLink
<1>8. CASE EnterFirst  BY <1>8, LinkEnterFirst
<1>9. CASE ScaleUp  BY <1>9, LinkScaleUp
<1>10. CASE TrimAfterEntry
  <2>1. Same /\ pc = "trim" /\ Holding /\ ~Waiting /\ rec.exit = ExitOf(h, rec.cycle)
    BY <1>10 DEF TrimAfterEntry, LinkInv, HeldInv, Holding, Waiting
  <2>2. CASE Outside = {}
    <3>1. UNCHANGED <<rec, events, journal, source, session>> /\ pc' = "applied"
      BY <1>10, <2>2 DEF TrimAfterEntry, Goto, Same, database, rows
    <3>2. QED  BY <2>1, <3>1, MoveLink
  <2>3. CASE Outside # {}
    <3>1. PICK s \in FirstOf(Outside) : SetStatus(s, "CANCELLED", "trim")
      BY <1>10, <2>3 DEF TrimAfterEntry
    <3>2. s \in Outside /\ s \in Session /\ Known(s) /\ events[s].cycle = rec.cycle
      BY <3>1, OpenMember DEF Outside
    <3>3. DelayedEntry(s) >= ExitOf(h, events[s].cycle)  BY <2>1, <3>2 DEF Outside
    <3>4. s = session => rec.cycle = source.cycle  BY <3>2, KnownToday
    <3>5. QED  BY <2>1, <3>1, <3>2, <3>3, <3>4, LinkStatus
  <2>4. QED  BY <2>2, <2>3
<1>11. CASE MarkApplied
  <2>1. Same /\ SetStatus(Due, "APPLIED", "ingest") /\ pc = "applied"
    BY <1>11 DEF MarkApplied
  <2>2. Holding /\ ~Waiting  BY <2>1 DEF LinkInv, HeldInv, Holding, Waiting
  <2>3. Due \in Session /\ Known(Due)  BY <2>1 DEF Ready, BookInv, DueInv, Known
  <2>4. Due # session  BY <1>0, IntervalsAssumption DEF Due
  <2>5. QED  BY <2>1, <2>2, <2>3, <2>4, LinkStatus
<1>12. QED
  BY <1>1, <1>2, <1>3, <1>4, <1>5, <1>6, <1>7, <1>8, <1>9, <1>10, <1>11 DEF Execute

LEMMA LinkEnqueue ==
  ASSUME NEW h, Ready(h), LinkInv(h, pc), Enqueue
  PROVE  LinkInv(h, pc)'
<1> DEFINE row == [status |-> "PENDING", cycle |-> source.cycle, target |-> source.target]
<1>1. /\ pc = "ingest" /\ pc' = "attach" /\ source.event = "ROTATE"
      /\ ~Known(session) /\ events' = [events EXCEPT ![session] = row]
      /\ UNCHANGED <<rec, journal, source, session>>
  BY DEF Enqueue, Goto, Same, rows, At, Known
<1>2. /\ session \in Session /\ session \in Nat /\ events \in [Session -> EventRow]
  BY ReadyTypes DEF Ready, TypeOK
<1>3. \A s \in Session : s # session => events'[s] = events[s]
  BY <1>1, <1>2
<1>4. /\ events'[session].status = "PENDING" /\ events'[session].cycle = source.cycle
      /\ events'[session].target = source.target
  BY <1>1, <1>2
<1> HIDE DEF row
<1>5. Fresh(h, pc) => Fresh(h, pc)'  BY <1>1 DEF Fresh
<1>6. CycleInv(h, pc)'  BY <1>1, <1>5 DEF LinkInv, CycleInv
<1>7. WaitInv(h, pc)'
  <2>1. ASSUME Waiting, IsOpen(First(h, rec.cycle)) PROVE IsOpen(First(h, rec.cycle))'
    <3>1. First(h, rec.cycle) \in Session
      BY <2>1, SignalFacts DEF LinkInv, CycleInv, Waiting
    <3>2. First(h, rec.cycle)' = First(h, rec.cycle)  BY <1>1
    <3>3. QED  BY <1>3, <1>4, <2>1, <3>1, <3>2 DEF IsOpen
  <2>2. QED  BY <1>1, <2>1 DEF LinkInv, WaitInv, Waiting, After
<1>8. HeldInv(h, pc)'
  BY <1>1 DEF LinkInv, HeldInv, Holding, Guarded, Recorded, ExitKey, Key
\* Nothing of this session was applied.
<1>9. \A j \in journal : j.key.kind = "apply" => j.key.at # session
  <2> SUFFICES ASSUME NEW j \in journal, j.key.kind = "apply", j.key.at = session PROVE FALSE
    OBVIOUS
  <2>1. DelayedEntry(session) <= session  BY DEF LinkInv, RowInv, RowOf
  <2>2. QED  BY <1>2, <2>1, IntervalsAssumption DEF DelayedEntry
<1>10. LastInv'
  <2>1. ~Recorded(ApplyKey(session)) /\ ~Recorded(ApplyKey(session))'
    BY <1>1, <1>9 DEF Recorded, ApplyKey, Key
  <2>2. \A s \in Session : s # session =>
          /\ Recorded(ApplyKey(s))' <=> Recorded(ApplyKey(s))
          /\ Level(s)' = Level(s) /\ events'[s].cycle = events[s].cycle
    BY <1>1, <1>3 DEF Recorded, ApplyKey, Level
  <2>3. \A s \in Session : Recorded(ApplyKey(s))' => s # session
    <3>1. ApplyKey(session)' = Key(events'[session].cycle, "apply", session)
      BY <1>1 DEF ApplyKey
    <3>2. ~\E j \in journal' : j.key = Key(events'[session].cycle, "apply", session)
      BY <1>1, <1>9 DEF Key
    <3>3. QED  BY <1>1, <3>2 DEF Recorded, ApplyKey
  <2>4. \A s \in Session : Recorded(ApplyKey(s)) => s # session
    BY <1>9 DEF Recorded, ApplyKey, Key
  <2>5. QED  BY <1>1, <2>2, <2>3, <2>4 DEF LinkInv, LastInv, Holding
<1>11. RowInv(h)'  BY <1>1 DEF LinkInv, RowInv, RowOf
<1>12. OverInv(h, pc)'  BY <1>1, <1>5 DEF LinkInv, OverInv, Over, Recorded
<1>13. SignalInv(h, pc)'
  <2>1. SignalInv(h, pc)  BY DEF LinkInv
  <2>2. Known(session)' /\ IsOpen(session)' /\ Level(session)' = source.target
    BY <1>1, <1>4 DEF Known, IsOpen, Level
  <2>3. session \in Signals(h, source.cycle) /\ h[session] = source
    <3>1. h \in [0..session -> Source] /\ session \in 0..session /\ h[session] = source
      BY <1>2 DEF Ready, History
    <3>2. QED  BY <1>1, <3>1 DEF Signals
  <2>4. \A s \in Session : s # session =>
          (Known(s)' <=> Known(s)) /\ Level(s)' = Level(s) /\ events'[s] = events[s]
    BY <1>3 DEF Known, Level
  <2>5. \A t \in 1..session : t \in Session
    BY <1>2, DispatchAssumption DEF Session
  <2>6. \A t \in 1..session : h[t].event = "ROTATE" => Known(t)'
    BY <1>1, <1>4, <2>1, <2>4, <2>5 DEF SignalInv, Known
  <2>7. \A t \in Session : Known(t)' =>
          t <= session /\ t \in Signals(h, events'[t].cycle) /\ Level(t)' = h[t].target
    <3> SUFFICES ASSUME NEW t \in Session, Known(t)'
                 PROVE  t <= session /\ t \in Signals(h, events'[t].cycle) /\ Level(t)' = h[t].target
      OBVIOUS
    <3>1. CASE t = session
      <4>1. Level(t)' = source.target  BY <1>1, <1>4, <3>1 DEF Level
      <4>2. QED  BY <1>2, <1>4, <2>3, <3>1, <4>1
    <3>2. CASE t # session  BY <2>1, <2>4, <3>2 DEF SignalInv
    <3>3. QED  BY <3>1, <3>2
  <2>8. Holding => session < rec.exit  BY <1>1 DEF Ready, HoldInv, After
  <2>9. \A s \in Session : events'[s].status = "CANCELLED" =>
          Early(h, events'[s].cycle) \/ DelayedEntry(s) >= ExitOf(h, events'[s].cycle)
    BY <1>3, <1>4, <2>1 DEF SignalInv
  <2>10. Known(session)' /\ Holding' => session' < rec'.exit
    BY <1>1, <2>8 DEF Holding
  <2>11. ~(Known(session)' /\ ~IsOpen(session)')  BY <2>2
  <2>12. QED  BY <1>1, <2>6, <2>7, <2>9, <2>10, <2>11 DEF SignalInv
<1>14. QED  BY <1>6, <1>7, <1>8, <1>10, <1>11, <1>12, <1>13 DEF LinkInv

LEMMA LinkIngest ==
  ASSUME NEW h, Ready(h), LinkInv(h, pc), Ingest
  PROVE  LinkInv(h, pc)'
<1> USE DEF At
<1>0. /\ session \in Nat /\ session \in Session /\ h[session] = source
      /\ pc \in After => (Waiting => FirstEntry(h, rec.cycle) > session)
  BY ReadyTypes DEF Ready, LinkInv, WaitInv
<1>1. CASE NoLadderEvent
  <2>1. /\ UNCHANGED <<rec, events, journal, source, session>>
        /\ pc = "ingest" /\ pc' = "close" /\ source.event # "ROTATE"
    BY <1>1 DEF NoLadderEvent, Goto, Same, database, rows
  <2>2. QED  BY <1>0, <2>1, MoveLink DEF Fresh, After
<1>2. CASE Enqueue  BY <1>2, LinkEnqueue
<1>3. CASE AlreadyEnqueued
  <2>1. /\ UNCHANGED <<rec, events, journal, source, session>> /\ pc = "ingest" /\ Known(session)
        /\ \/ pc' = "raised"
           \/ pc' = "attach" /\ IsOpen(session)
           \/ pc' = "close" /\ ~IsOpen(session)
    BY <1>3 DEF AlreadyEnqueued, Goto, Raise, Same, database, rows, Known
  <2>2. CASE pc' = "raised"  BY <2>1, <2>2, RaiseLink
  <2>3. CASE pc' = "attach"  BY <1>0, <2>1, <2>3, MoveLink DEF After
  <2>4. CASE pc' = "close" /\ ~IsOpen(session)
    <3>1. Holding /\ rec.cycle = source.cycle  BY <2>1, <2>4 DEF LinkInv, SignalInv
    <3>2. ~Fresh(h, pc)  BY <3>1 DEF Fresh, Holding
    <3>3. QED  BY <1>0, <2>1, <2>4, <3>2, MoveLink DEF After
  <2>5. QED  BY <2>1, <2>2, <2>3, <2>4
<1>4. CASE StartCycle  BY <1>4, LinkStartCycle
<1>5. CASE JoinCycle
  <2>1. /\ UNCHANGED <<rec, events, journal, source, session>>
        /\ pc = "attach" /\ pc' = "close" /\ rec.cycle = source.cycle /\ rec.phase # "NORMAL"
    BY <1>5 DEF JoinCycle, SameCycle, Waiting, Holding, Goto, Same, database, rows
  <2>2. ~Fresh(h, pc)  BY <2>1 DEF Fresh
  <2>3. h[session].event = "ROTATE" => Known(session)  BY <2>1, StoredToday
  <2>4. QED  BY <1>0, <2>1, <2>2, <2>3, MoveLink DEF After
<1>6. CASE CancelOutside
  <2>1. /\ Same /\ pc = "attach" /\ Holding /\ rec.cycle = source.cycle
        /\ DelayedEntry(session) >= rec.exit /\ SetStatus(session, "CANCELLED", "close")
    BY <1>6 DEF CancelOutside, SameCycle
  <2>2. ~Fresh(h, pc) /\ ~Waiting  BY <2>1 DEF Fresh, Holding, Waiting
  <2>3. Known(session)
    BY <2>1, OpenIsKnown DEF Ready, MoveInv, OpenInv
  <2>4. events[session].cycle = rec.cycle  BY <2>1, <2>3, KnownToday
  <2>5. rec.exit = ExitOf(h, rec.cycle)  BY <2>1 DEF LinkInv, HeldInv
  <2>6. DelayedEntry(session) >= ExitOf(h, events[session].cycle)  BY <2>1, <2>4, <2>5
  <2>7. QED  BY <1>0, <2>1, <2>2, <2>3, <2>6, LinkStatus
<1>7. CASE RefuseOverlap \/ RefuseGuarded
  BY <1>7, RaiseLink DEF RefuseOverlap, RefuseGuarded, Raise, Same, database, rows
<1>8. QED  BY <1>1, <1>2, <1>3, <1>4, <1>5, <1>6, <1>7 DEF Ingest

LEMMA LinkObserve ==
  ASSUME NEW h, Ready(h), LinkInv(h, pc), Observe
  PROVE  LinkInv(h, pc)'
<1> USE DEF At
<1>0. /\ pc = "close" /\ ~Fresh(h, pc)
      /\ session \in Nat /\ session \in Session /\ h[session] = source
      /\ Waiting => FirstEntry(h, rec.cycle) > session /\ Rearms(h, rec.cycle) \subseteq {session}
      /\ h[session].event = "ROTATE" => Known(session)
  <2>1. pc = "close"
    BY DEF Observe, NothingObserved, CancelAtOldAth, CancelCycle, RecordRecovered, RearmAtOldAth
  <2>2. Waiting => FirstEntry(h, rec.cycle) > session /\ Rearms(h, rec.cycle) \subseteq {session}
    BY <2>1 DEF LinkInv, WaitInv, After
  <2>3. QED  BY <2>1, <2>2, StoredToday, ReadyTypes DEF Fresh, Ready
<1>1. CASE NothingObserved
  <2>1. /\ UNCHANGED <<rec, events, journal, source, session>> /\ pc' = "done"
        /\ ~AtOldAth \/ Holding
    BY <1>1 DEF NothingObserved, Goto, Same, database, rows
  <2>2. ASSUME Waiting PROVE Rearms(h, rec.cycle) = {}
    <3>1. /\ rec.cycle \in 1..source.cycle /\ rec.oldAth = PeakOf(h, rec.cycle)
          /\ rec.phase # "NORMAL" /\ ~Holding
      BY <2>2 DEF Waiting, Holding, LinkInv, CycleInv
    <3>2. session \in Rearms(h, rec.cycle) => closes[session] >= rec.oldAth
      BY <1>0, <3>1 DEF Ready, History
    <3>3. session \notin Rearms(h, rec.cycle)  BY <2>1, <3>1, <3>2 DEF AtOldAth
    <3>4. QED  BY <1>0, <2>2, <3>3
  <2>3. QED  BY <1>0, <2>1, <2>2, MoveLink
<1>2. CASE CancelAtOldAth
  <2>1. PICK s \in FirstOf(OpenOf(rec.cycle)) : SetStatus(s, "CANCELLED", "close")
    BY <1>2 DEF CancelAtOldAth
  <2>2. Same /\ AtOldAth /\ Waiting /\ rec.phase # "NORMAL"  BY <1>2 DEF CancelAtOldAth, Waiting
  <2>3. s \in Session /\ IsOpen(s) /\ Known(s) /\ events[s].cycle = rec.cycle
    BY <2>1, OpenMember
  <2>4. Rearms(h, rec.cycle) # {} /\ source.mode = "NORMAL"
    BY <1>0, <2>2, AtOldAthRearmed
  <2>5. session \in Rearms(h, rec.cycle) /\ FirstEntry(h, rec.cycle) > session
    BY <1>0, <2>2, <2>4
  <2>6. Early(h, events[s].cycle)
    <3>1. FirstEntry(h, rec.cycle) \in Nat
      BY <2>2, SignalFacts DEF LinkInv, CycleInv
    <3>2. QED  BY <1>0, <2>3, <2>5, <3>1 DEF Early
  <2>7. s # session
    <3>1. ~Known(session)  BY <2>4, KnownToday
    <3>2. QED  BY <2>3, <3>1
  <2>8. QED  BY <1>0, <2>1, <2>2, <2>3, <2>5, <2>6, <2>7, LinkStatus
<1>3. CASE CancelCycle  BY <1>3, LinkCancelCycle
<1>4. CASE RecordRecovered  BY <1>4, LinkRecordRecovered
<1>5. CASE RearmAtOldAth  BY <1>5, LinkRearmAtOldAth
<1>6. QED  BY <1>1, <1>2, <1>3, <1>4, <1>5 DEF Observe

\* A new session: its row makes a signal or a rearm of its own, and whatever was
\* said of the cycles so far stays.
LEMMA LinkNextSession ==
  ASSUME NEW h, Ready(h), LinkInv(h, pc), NEW g, Extends(g, h, session),
         g[session + 1] = source',
         \/ Quiet(source, source') \/ Starts(source, source')
         \/ Deepens(source, source') \/ Rearmed(source, source'),
         NextSession
  PROVE  LinkInv(g, pc)'
<1> DEFINE C == source.cycle
           n == session
<1>1. /\ UNCHANGED <<rec, events, journal>> /\ pc = "done" /\ pc' = "process"
      /\ session' = n + 1 /\ n \in Nat /\ C \in Nat /\ n \in Session /\ Session \subseteq Nat
      /\ rec.cycle \in Nat
  BY ReadyTypes DEF NextSession, NextRow, Goto, database, At, Ready
<1>2. ~Fresh(h, pc)  BY <1>1 DEF Fresh
<1>3. \A c \in 1..C : Signals(h, c) # {}  BY DEF Ready, History
<1>4. \A c : /\ Signals(h, c) \subseteq Signals(g, c) /\ Rearms(h, c) \subseteq Rearms(g, c)
             /\ Rearms(g, c) \subseteq Rearms(h, c) \cup {n + 1}
  BY <1>1, GrowSets
<1>5. \A c : Signals(h, c) # {} =>
        /\ First(g, c) = First(h, c) /\ PeakOf(g, c) = PeakOf(h, c)
        /\ FirstEntry(g, c) = FirstEntry(h, c) /\ ExitOf(g, c) = ExitOf(h, c)
        /\ Early(h, c) => Early(g, c)
        /\ Early(g, c) /\ ~Early(h, c) => n + 1 < FirstEntry(h, c)
  BY <1>1, GrowFirst
<1>6. /\ source'.cycle = C \/ (source'.cycle = C + 1 /\ Starts(source, source'))
      /\ Starts(source, source') => source'.cycle = C + 1 /\ source.mode = "NORMAL"
  BY DEF Quiet, Starts, Deepens, Rearmed
\* The cycle that starts with the row.
<1>7. ASSUME Starts(source, source')
      PROVE  Signals(g, source'.cycle) = {n + 1} /\ source'.event = "ROTATE"
  <2>1. /\ source'.cycle = C + 1 /\ source'.event = "ROTATE"  BY <1>7 DEF Starts
  <2>2. \A m \in 0..n : h[m].cycle <= C /\ h[m].cycle \in Nat
    <3>1. h \in [0..n -> Source] /\ h[n] = source /\ \A m \in 0..n : h[m].cycle <= h[n].cycle
      BY DEF Ready, History
    <3>2. QED  BY <3>1, SourceTypes
  <2>3. Signals(h, C + 1) = {}
    <3>1. \A m \in 0..n : h[m].cycle # C + 1  BY <1>1, <2>2
    <3>2. DOMAIN h = 0..n  BY DEF Ready, History
    <3>3. QED  BY <3>1, <3>2 DEF Signals
  <2>4. n + 1 \in {m \in {n + 1} : g[m].event = "ROTATE" /\ g[m].cycle = C + 1}
    BY <2>1
  <2>5. Signals(g, C + 1) = {n + 1}
    BY <1>1, <2>3, <2>4, GrowSets
  <2>6. QED  BY <2>1, <2>5
<1>8. ASSUME Starts(source, source'), rec.phase = "NORMAL" \/ rec.cycle # source'.cycle
      PROVE  Fresh(g, pc)'
  BY <1>1, <1>7, <1>8 DEF Fresh
<1>9. rec.phase # "NORMAL" =>
        rec.cycle = C /\ rec.cycle \in 1..C /\ rec.oldAth = PeakOf(h, rec.cycle)
  BY <1>2 DEF LinkInv, CycleInv
<1>10. rec.phase = "NORMAL" => source.mode = "NORMAL"  BY <1>2 DEF LinkInv, CycleInv
<1> HIDE DEF C, n
<1>11. CycleInv(g, pc)'
  <2>1. ASSUME rec.phase # "NORMAL"
        PROVE  /\ rec.cycle \in 1..source'.cycle /\ rec.oldAth = PeakOf(g, rec.cycle)
               /\ rec.cycle # source'.cycle => rec.cycle = source'.cycle - 1 /\ Fresh(g, pc)'
    <3>1. rec.oldAth = PeakOf(g, rec.cycle)  BY <1>3, <1>5, <1>9, <2>1
    <3>2. rec.cycle \in 1..source'.cycle  BY <1>1, <1>6, <1>9, <2>1
    <3>3. rec.cycle # source'.cycle => rec.cycle = source'.cycle - 1 /\ Starts(source, source')
      BY <1>1, <1>6, <1>9, <2>1
    <3>4. QED  BY <1>8, <3>1, <3>2, <3>3
  <2>2. ASSUME rec.phase = "NORMAL" PROVE source'.mode = "NORMAL" \/ Fresh(g, pc)'
    <3>1. source'.mode = "NORMAL" \/ Starts(source, source')
      BY <1>10, <2>2 DEF Quiet, Deepens, Rearmed
    <3>2. QED  BY <1>8, <2>2, <3>1
  <2>3. QED  BY <1>1, <2>1, <2>2 DEF CycleInv
<1>12. WaitInv(g, pc)'
  <2> SUFFICES ASSUME Waiting
               PROVE  /\ ~rec.recovered
                      /\ \A j \in journal : j.key.kind \in {"apply", "cancel-pre-entry"} =>
                           j.key.cycle # rec.cycle
                      /\ FirstEntry(g, rec.cycle) >= n + 1
                      /\ Rearms(g, rec.cycle) \subseteq {n + 1}
                      /\ IsOpen(First(g, rec.cycle))
    BY <1>1 DEF WaitInv, Waiting, IsOpen, After, n
  <2>1. /\ Rearms(h, rec.cycle) = {} /\ FirstEntry(h, rec.cycle) > n
        /\ IsOpen(First(h, rec.cycle)) /\ ~rec.recovered
        /\ \A j \in journal : j.key.kind \in {"apply", "cancel-pre-entry"} =>
             j.key.cycle # rec.cycle
    BY <1>1 DEF LinkInv, WaitInv, After, n
  <2>2. Signals(h, rec.cycle) # {} /\ FirstEntry(h, rec.cycle) \in Nat
    BY <1>3, <1>9, SignalFacts DEF Waiting, C
  <2>3. FirstEntry(g, rec.cycle) >= n + 1  BY <1>1, <1>5, <2>1, <2>2
  <2>4. QED  BY <1>4, <1>5, <2>1, <2>2, <2>3
<1>13. HeldInv(g, pc)'
  <2>1. ASSUME Holding \/ Guarded
        PROVE  /\ FirstEntry(g, rec.cycle) <= n + 1 /\ ~Early(g, rec.cycle)
               /\ rec.exit = ExitOf(g, rec.cycle)
               /\ rec.recovered => Rearms(g, rec.cycle) # {}
    <3>1. Signals(h, rec.cycle) # {} /\ FirstEntry(h, rec.cycle) \in Nat
      BY <1>3, <1>9, <2>1, SignalFacts DEF Holding, Guarded, C
    <3>2. /\ FirstEntry(h, rec.cycle) <= n /\ ~Early(h, rec.cycle)
          /\ rec.exit = ExitOf(h, rec.cycle)
          /\ rec.recovered => Rearms(h, rec.cycle) # {}
      BY <2>1 DEF LinkInv, HeldInv, n
    <3>3. FirstEntry(h, rec.cycle) <= n + 1 /\ ~(n + 1 < FirstEntry(h, rec.cycle))
      BY <1>1, <3>1, <3>2
    <3>4. rec.recovered => Rearms(g, rec.cycle) # {}  BY <1>4, <3>2
    <3>5. QED  BY <1>5, <3>1, <3>2, <3>3, <3>4
  <2>2. Guarded => Recorded(ExitKey)  BY DEF LinkInv, HeldInv
  <2>3. QED
    BY <1>1, <2>1, <2>2 DEF HeldInv, Holding, Guarded, Recorded, ExitKey, n
<1>14. LastInv'
  BY <1>1 DEF LinkInv, LastInv, Holding, Recorded, ApplyKey, Level
<1>15. RowInv(g)'
  <2> SUFFICES ASSUME NEW j \in journal PROVE RowOf(g, j)'
    BY <1>1 DEF RowInv
  <2> DEFINE c == j.key.cycle
  <2>1. RowOf(h, j)  BY DEF LinkInv, RowInv
  <2>2. j.key.kind \in {"apply", "fixed-exit", "cancel-pre-entry"} => c \in 1..C
    BY <2>1 DEF RowOf, C
  <2>3. ASSUME c \in 1..C
        PROVE  /\ c \in 1..source'.cycle /\ Signals(h, c) # {}
               /\ FirstEntry(h, c) \in Nat /\ ExitOf(h, c) \in Nat
    BY <1>1, <1>3, <1>6, <2>3, SignalFacts DEF C
  <2>4. ASSUME j.key.kind \in {"apply", "fixed-exit"}
        PROVE  ~Early(g, c) /\ FirstEntry(g, c) <= n + 1
    <3>1. ~Early(h, c) /\ FirstEntry(h, c) <= n  BY <2>1, <2>4 DEF RowOf, n
    <3>2. Signals(h, c) # {} /\ FirstEntry(h, c) \in Nat  BY <2>2, <2>3, <2>4
    <3>3. FirstEntry(h, c) <= n + 1 /\ ~(n + 1 < FirstEntry(h, c))  BY <1>1, <3>1, <3>2
    <3>4. QED  BY <1>5, <3>1, <3>2, <3>3
  <2>5. ASSUME j.key.kind = "apply"
        PROVE  /\ j.key.at \in Signals(g, c) /\ j.new.target = g[j.key.at].target
               /\ DelayedEntry(j.key.at) <= n + 1 /\ DelayedEntry(j.key.at) < ExitOf(g, c)
    <3>1. /\ j.key.at \in Signals(h, c) /\ j.new.target = h[j.key.at].target
          /\ DelayedEntry(j.key.at) <= n /\ DelayedEntry(j.key.at) < ExitOf(h, c)
      BY <2>1, <2>5 DEF RowOf, n
    <3>2. j.key.at \in 1..n /\ j.key.at \in 0..n
      BY <1>1, <2>2, <2>5, <3>1, SignalFacts DEF n, C
    <3>3. g[j.key.at] = h[j.key.at]  BY <3>2 DEF Extends, n
    <3>4. DelayedEntry(j.key.at) <= n + 1
      BY <1>1, <3>1, <3>2, IntervalsAssumption DEF DelayedEntry
    <3>5. QED  BY <1>4, <1>5, <2>2, <2>3, <2>5, <3>1, <3>3, <3>4
  <2>6. ASSUME j.key.kind = "fixed-exit"
        PROVE  j.key.at = ExitOf(g, c) /\ ExitOf(g, c) <= n + 1
    <3>1. j.key.at = ExitOf(h, c) /\ ExitOf(h, c) <= n  BY <2>1, <2>6 DEF RowOf, n
    <3>2. QED  BY <1>1, <1>5, <2>2, <2>3, <2>6, <3>1
  <2>7. j.key.kind = "cancel-pre-entry" => Rearms(g, c) # {}
    BY <1>4, <2>1 DEF RowOf
  <2>8. session' = n + 1  BY <1>1
  <2> HIDE DEF c
  <2>9. c = j.key.cycle  BY DEF c
  <2>10. QED  BY <2>2, <2>3, <2>4, <2>5, <2>6, <2>7, <2>8, <2>9 DEF RowOf
<1>16. OverInv(g, pc)'
  <2>1. \A c \in 1..source'.cycle : c \in 1..C \/ (c = source'.cycle /\ Starts(source, source') /\ c \notin 1..C)
    BY <1>1, <1>6
  <2>2. ASSUME NEW c \in 1..C, Over(h, c) PROVE Over(g, c)'
    BY <1>1, <1>3, <1>5, <2>2 DEF Over, Recorded
  <2>3. \A c \in 1..C : Over(h, c) \/ (rec.phase # "NORMAL" /\ rec.cycle = c)
    BY <1>2 DEF LinkInv, OverInv, C
  <2>4. \A c, d \in 1..C : c < d /\ ~Early(h, c) => ExitOf(h, c) <= First(h, d)
    BY <1>2 DEF LinkInv, OverInv, C
  <2>5. ASSUME Starts(source, source') PROVE Fresh(g, pc)'
    <3>1. rec.phase = "NORMAL" \/ rec.cycle # source'.cycle  BY <1>1, <1>6, <1>9, <2>5
    <3>2. QED  BY <1>8, <2>5, <3>1
  <2>6. ASSUME NEW c \in 1..source'.cycle
        PROVE  \/ Over(g, c)' \/ (rec.phase # "NORMAL" /\ rec.cycle = c)
               \/ (c = source'.cycle /\ Fresh(g, pc)')
    BY <2>1, <2>2, <2>3, <2>5
  <2>7. ASSUME NEW c \in 1..source'.cycle, NEW d \in 1..source'.cycle, c < d, ~Early(g, c)
        PROVE  ExitOf(g, c) <= First(g, d) \/ (d = source'.cycle /\ Fresh(g, pc)')
    <3>1. CASE d \in 1..C
      <4>1. c \in 1..C  BY <1>1, <2>7, <3>1
      <4>2. Signals(h, c) # {} /\ Signals(h, d) # {}  BY <1>3, <3>1, <4>1
      <4>3. QED  BY <1>5, <2>4, <2>7, <3>1, <4>1, <4>2
    <3>2. CASE d \notin 1..C  BY <2>1, <2>5, <3>2
    <3>3. QED  BY <3>1, <3>2
  <2>8. QED  BY <1>1, <2>6, <2>7 DEF OverInv
<1>17. SignalInv(g, pc)'
  <2>1. SignalInv(h, pc)  BY DEF LinkInv
  <2>2. \A s : (Known(s)' <=> Known(s)) /\ Level(s)' = Level(s) /\ (IsOpen(s)' <=> IsOpen(s))
    BY <1>1 DEF Known, Level, IsOpen
  <2>3. ASSUME NEW t \in 1..n + 1, g[t].event = "ROTATE", t # n + 1 PROVE Known(t)
    <3>1. t \in 1..n /\ t \in 0..n  BY <1>1, <2>3
    <3>2. h[t].event = "ROTATE"  BY <2>3, <3>1 DEF Extends, n
    <3>3. QED  BY <1>1, <2>1, <3>1, <3>2 DEF SignalInv, n
  <2>4. ASSUME NEW s \in Session, Known(s)
        PROVE  s <= n + 1 /\ s # n + 1 /\ s \in Signals(g, events[s].cycle) /\ Level(s) = g[s].target
    <3>1. s <= n /\ s \in Signals(h, events[s].cycle) /\ Level(s) = h[s].target
      BY <2>1, <2>4 DEF SignalInv, n
    <3>2. s \in 0..n  BY <1>1, <3>1
    <3>3. QED  BY <1>1, <1>4, <3>1, <3>2 DEF Extends, n
  <2>5. ~Known(session')
    <3>1. session' \in Session
      BY <1>1, DispatchAssumption DEF NextSession, NextRow, Session, n
    <3>2. QED  BY <1>1, <2>4, <3>1
  <2>6. ASSUME NEW s \in Session, events[s].status = "CANCELLED"
        PROVE  Early(g, events[s].cycle) \/ DelayedEntry(s) >= ExitOf(g, events[s].cycle)
    <3>1. Known(s)  BY <2>6 DEF Known
    <3>2. Signals(h, events[s].cycle) # {}  BY <2>1, <3>1 DEF SignalInv
    <3>3. Early(h, events[s].cycle) \/ DelayedEntry(s) >= ExitOf(h, events[s].cycle)
      BY <2>1, <2>6 DEF SignalInv
    <3>4. QED  BY <1>5, <3>2, <3>3
  <2>7. ~Known(session)'  BY <1>1, <2>5 DEF Known
  <2>8. QED  BY <1>1, <2>2, <2>3, <2>4, <2>6, <2>7 DEF SignalInv
<1>18. QED  BY <1>11, <1>12, <1>13, <1>14, <1>15, <1>16, <1>17 DEF LinkInv

-----------------------------------------------------------------------------
(* The links hold *)

LEMMA LinkInit ==
  ASSUME Init, RowsInv, NEW h, h = Past
  PROVE  LinkInv(h, pc)
<1>1. PICK price \in Price : source = ObserveClose(NoRows, price)
  BY DEF Init
<1>2. /\ rec = NormalState /\ journal = {} /\ session = 1 /\ pc = "process"
      /\ \A s \in Session : events[s] = NoEvent
  BY DEF Init
<1>3. /\ NoRows.mode = "NORMAL" /\ NoRows.cycle = 0 /\ NoRows.event = "NO_ACTION"
      /\ NoRows \in Source /\ price \in Nat \ {0}
  BY DispatchAssumption, NoRowsType DEF NoRows
<1>4. \/ source.cycle = 0 /\ source.mode = "NORMAL" /\ source.event # "ROTATE"
      \/ source.cycle = 1 /\ source.event = "ROTATE"
  <2>1. Quiet(NoRows, source) \/ Starts(NoRows, source)
    <3>1. \/ Quiet(NoRows, source) \/ Starts(NoRows, source)
          \/ Deepens(NoRows, source) \/ Rearmed(NoRows, source)
      BY <1>1, <1>3, SourceCase
    <3>2. QED  BY <1>3, <3>1 DEF Deepens, Rearmed
  <2>2. QED  BY <1>3, <2>1 DEF Quiet, Starts
<1>5. /\ h \in [0..1 -> Source] /\ h[0] = NoRows /\ h[1] = source
  BY <1>2 DEF RowsInv, History
<1>6. 0..1 = {0, 1} /\ 1..1 = {1} /\ 1..0 = {}  OBVIOUS
<1>7. source.cycle = 1 => Fresh(h, pc)
  <2>1. ASSUME source.cycle = 1 PROVE Signals(h, 1) = {1}
    BY <1>3, <1>4, <1>5, <1>6, <2>1 DEF Signals
  <2>2. QED  BY <1>2, <1>4, <2>1 DEF Fresh, NormalState
<1>8. /\ rec.phase = "NORMAL" /\ ~Waiting /\ ~Holding /\ ~Guarded
      /\ \A s \in Session : ~Known(s) /\ ~IsOpen(s) /\ events[s].status # "CANCELLED"
  BY <1>2 DEF NormalState, NoEvent, Waiting, Holding, Guarded, Known, IsOpen
<1>9. CycleInv(h, pc)  BY <1>4, <1>7, <1>8 DEF CycleInv
<1>10. WaitInv(h, pc) /\ HeldInv(h, pc) /\ LastInv /\ RowInv(h)
  BY <1>2, <1>8 DEF WaitInv, HeldInv, LastInv, RowInv
<1>11. OverInv(h, pc)
  <2>1. source.cycle = 0 \/ source.cycle = 1  BY <1>4
  <2>2. \A c, d \in 1..source.cycle : ~(c < d)  BY <1>6, <2>1
  <2>3. \A c \in 1..source.cycle : c = source.cycle /\ source.cycle = 1  BY <1>6, <2>1
  <2>4. QED  BY <1>7, <2>2, <2>3 DEF OverInv
<1>12. SignalInv(h, pc)
  <2>1. session \in Session  BY <1>2, DispatchAssumption DEF Session
  <2>2. \A s \in 1..session : s = session  BY <1>2, <1>6
  <2>3. QED  BY <1>2, <1>8, <2>1, <2>2 DEF SignalInv
<1>13. QED  BY <1>9, <1>10, <1>11, <1>12 DEF LinkInv

\* A step that comes to no new session.
LEMMA LinkStays ==
  ASSUME NEW h, Ready(h), LinkInv(h, pc),
         Execute \/ Ingest \/ Observe \/ Restart \/ UNCHANGED vars
  PROVE  LinkInv(h, pc)' /\ UNCHANGED <<closes, source, session>>
<1>1. CASE Execute \/ Ingest \/ Observe
  <2>1. UNCHANGED rows /\ session' = session
    <3>1. CASE Execute
      BY <3>1 DEF Execute, RearmAtExit, MissedExit, CancelAtExit, TakeFixedExit, Orphan,
         MissedEntry, Mature, NothingToExecute, ResumeApplied, EnterFirst, ScaleUp,
         TrimAfterEntry, MarkApplied, Same
    <3>2. CASE Ingest
      BY <3>2 DEF Ingest, NoLadderEvent, Enqueue, AlreadyEnqueued, StartCycle, JoinCycle,
         CancelOutside, RefuseOverlap, RefuseGuarded, Same
    <3>3. CASE Observe
      BY <3>3 DEF Observe, NothingObserved, CancelAtOldAth, CancelCycle, RecordRecovered,
         RearmAtOldAth, Same
    <3>4. QED  BY <1>1, <3>1, <3>2, <3>3
  <2>2. LinkInv(h, pc)'  BY <1>1, LinkExecute, LinkIngest, LinkObserve
  <2>3. QED  BY <2>1, <2>2 DEF rows
<1>2. CASE Restart
  <2>1. UNCHANGED <<rec, events, journal, closes, source, session>> /\ pc' = "process"
    BY <1>2 DEF Restart, Goto, database, rows
  <2>2. QED  BY <2>1, RaiseLink
<1>3. CASE UNCHANGED vars
  <2>1. UNCHANGED <<rec, events, journal, closes, source, session, pc>>
    BY <1>3 DEF vars, database, rows
  <2>2. LinkInv(h, pc')  BY <2>1
  <2>3. QED  BY <2>1, <2>2, StayLink
<1>4. QED  BY <1>1, <1>2, <1>3

\* The dispatcher and the history it was given agree, until a session is missed.
Linked == \E h : h = Past /\ LinkInv(h, pc)

LEMMA RowsStay ==
  ASSUME RowsInv, UNCHANGED <<closes, source, session>>
  PROVE  RowsInv' /\ Past' = Past
BY DEF RowsInv, Past

LEMMA LinkStep ==
  ASSUME Leaps = FALSE, TypeOK, BookInv, MoveInv, HoldInv, RowsInv, Linked, [Next]_vars,
         missed' = 0
  PROVE  Linked'
<1>1. PICK h : h = Past /\ LinkInv(h, pc)  BY DEF Linked
<1>2. Ready(h)  BY <1>1 DEF Ready, RowsInv
<1>3. CASE Execute \/ Ingest \/ Observe \/ Restart \/ UNCHANGED vars
  <2>1. LinkInv(h, pc)' /\ UNCHANGED <<closes, source, session>>
    BY <1>1, <1>2, <1>3, LinkStays
  <2>2. Past' = Past  BY <2>1, RowsStay
  <2>3. QED  BY <1>1, <2>1, <2>2 DEF Linked
<1>4. CASE NextSession
  <2>1. NextRow  BY <1>4 DEF NextSession
  <2>2. /\ RowsInv' /\ Extends(Past', Past, session)
        /\ \/ Quiet(source, source') \/ Starts(source, source')
           \/ Deepens(source, source') \/ Rearmed(source, source')
    BY <2>1, RowsGrow
  <2>3. PICK g : g = Past'  OBVIOUS
  <2>4. Extends(g, h, session)  BY <1>1, <2>2, <2>3
  <2>5. g[session + 1] = source'
    <3>1. (Past[session] = source)'  BY <2>2 DEF RowsInv
    <3>2. session' = session + 1  BY <2>1 DEF NextRow
    <3>3. QED  BY <2>3, <3>1, <3>2
  <2>6. LinkInv(g, pc)'
    BY <1>1, <1>2, <1>4, <2>2, <2>4, <2>5, LinkNextSession
  <2>7. QED  BY <2>3, <2>6 DEF Linked
<1>5. CASE Miss  BY <1>5 DEF Miss, TypeOK
<1>6. QED  BY <1>3, <1>4, <1>5 DEF Next

\* The rows of the closes do not depend on what the dispatcher does.
LEMMA RowsAlways ==
  ASSUME Leaps = FALSE, TypeOK, RowsInv, [Next]_vars
  PROVE  RowsInv'
<1>1. CASE NextSession \/ Miss  BY <1>1, RowsGrow DEF NextSession, Miss
<1>2. CASE Execute \/ Ingest \/ Observe \/ Restart \/ UNCHANGED vars
  <2>1. UNCHANGED rows /\ session' = session
    <3>1. CASE Execute
      BY <3>1 DEF Execute, RearmAtExit, MissedExit, CancelAtExit, TakeFixedExit, Orphan,
         MissedEntry, Mature, NothingToExecute, ResumeApplied, EnterFirst, ScaleUp,
         TrimAfterEntry, MarkApplied, Same
    <3>2. CASE Ingest
      BY <3>2 DEF Ingest, NoLadderEvent, Enqueue, AlreadyEnqueued, StartCycle, JoinCycle,
         CancelOutside, RefuseOverlap, RefuseGuarded, Same
    <3>3. CASE Observe
      BY <3>3 DEF Observe, NothingObserved, CancelAtOldAth, CancelCycle, RecordRecovered,
         RearmAtOldAth, Same
    <3>4. CASE Restart \/ UNCHANGED vars  BY <3>4 DEF Restart, vars
    <3>5. QED  BY <1>2, <3>1, <3>2, <3>3, <3>4
  <2>2. QED  BY <2>1, RowsStay DEF rows
<1>3. QED  BY <1>1, <1>2 DEF Next

\* The inductive invariant.
ScheduleInv ==
  /\ TypeOK /\ HoldInv /\ RowsInv
  /\ missed = 0 => BookInv /\ MoveInv /\ Linked

LEMMA AlwaysLinked == Leaps = FALSE => (Spec => []ScheduleInv)
<1> SUFFICES ASSUME Leaps = FALSE PROVE Spec => []ScheduleInv
  OBVIOUS
<1> DEFINE Inv == RowsInv /\ (missed = 0 => Linked)
           Base == TypeInv /\ HoldInv /\ Unmissed
<1>1. Init => Inv  BY RowsInit, LinkInit DEF Linked
<1>2. Inv /\ Base /\ [Next]_vars => Inv'
  <2> SUFFICES ASSUME Inv, Base, [Next]_vars PROVE Inv'
    OBVIOUS
  <2>1. TypeOK  BY DEF TypeInv
  <2>2. RowsInv'  BY <2>1, RowsAlways
  <2>3. ASSUME missed' = 0 PROVE Linked'
    <3>1. missed = 0  BY <2>1, <2>3, MissedStays
    <3>2. BookInv /\ MoveInv /\ Linked  BY <3>1 DEF Unmissed
    <3>3. QED  BY <2>1, <2>3, <3>2, LinkStep
  <2>4. QED  BY <2>2, <2>3
<1>3. Base /\ Inv => ScheduleInv  BY DEF TypeInv, Unmissed, ScheduleInv
<1>4. Spec => []Base  BY AlwaysMoves
<1> HIDE DEF Inv, Base
<1>5. QED  BY <1>1, <1>2, <1>3, <1>4, PTL DEF Spec

-----------------------------------------------------------------------------
(* The schedule *)

\* A scheduled trade: an entry or a scale-up inside its hold, or a fixed exit.
EntryOf(h, c, n) == [cycle |-> c, session |-> DelayedEntry(n), target |-> h[n].target]
EndOf(h, c) == [cycle |-> c, session |-> ExitOf(h, c), target |-> 0]
Enters(h, c, n) == n \in Signals(h, c) /\ DelayedEntry(n) < ExitOf(h, c)

LEMMA UnmissedLink ==
  ASSUME ScheduleInv, missed = 0
  PROVE  \E h : h = Past /\ LinkInv(h, pc) /\ Ready(h)
<1>1. PICK h : h = Past /\ LinkInv(h, pc)  BY DEF ScheduleInv, Linked
<1>2. Ready(h)  BY <1>1 DEF ScheduleInv, Ready, RowsInv
<1>3. QED  BY <1>1, <1>2

LEMMA ScheduledCycles ==
  ASSUME NEW h, Ready(h)
  PROVE  \A c : c \in Scheduled(h) <=> c \in 1..source.cycle /\ ~Early(h, c)
<1>1. h \in [0..session -> Source] /\ h[session] = source
      /\ \A n \in 0..session : h[n].cycle <= source.cycle
  BY DEF Ready, History
<1>2. \A n \in 0..session : h[n].cycle \in Nat  BY <1>1, SourceTypes
<1>3. source.cycle \in Nat  BY ReadyTypes DEF Ready
<1>4. \A c : c \in Cycles(h) => c \in 1..source.cycle
  BY <1>1, <1>2, <1>3 DEF Cycles
<1>5. ASSUME NEW c \in 1..source.cycle PROVE c \in Cycles(h)
  <2>1. First(h, c) \in DOMAIN h /\ h[First(h, c)].cycle = c
    BY <1>5, SignalFacts DEF Signals
  <2>2. c # 0  BY <1>3
  <2>3. QED  BY <2>1, <2>2 DEF Cycles
<1>6. ASSUME NEW c \in 1..source.cycle
      PROVE  (\A r \in Rearms(h, c) : r >= FirstEntry(h, c)) <=> ~Early(h, c)
  <2>1. FirstEntry(h, c) \in Nat /\ Rearms(h, c) \subseteq 1..session /\ session \in Nat
    BY <1>6, SignalFacts, ReadyTypes DEF Ready
  <2>2. \A r \in Rearms(h, c) : r >= FirstEntry(h, c) <=> ~(r < FirstEntry(h, c))
    BY <2>1
  <2>3. QED  BY <2>2 DEF Early
<1>7. QED  BY <1>4, <1>5, <1>6 DEF Scheduled

LEMMA ScheduleMembers ==
  ASSUME NEW h, h = Past, NEW e
  PROVE  e \in FinalSchedule(closes) <=>
           \E c \in Scheduled(h) :
             (\E n \in Signals(h, c) : Enters(h, c, n) /\ e = EntryOf(h, c, n)) \/ e = EndOf(h, c)
BY DEF FinalSchedule, Past, ExitOf, Enters, EntryOf, EndOf

\* A signal that matures inside its hold has been applied by the end of the
\* session at which it does, if its cycle is scheduled.
LEMMA EntryIsRecorded ==
  ASSUME NEW h, Ready(h), LinkInv(h, pc), At("done"), NEW c \in 1..source.cycle, ~Early(h, c),
         NEW n, Enters(h, c, n), DelayedEntry(n) <= session
  PROVE  /\ Recorded(ApplyKey(n)) /\ ApplyKey(n) = Key(c, "apply", n)
         /\ events[n].cycle = c /\ n \in Session /\ Level(n) = h[n].target
<1>1. n \in 1..session /\ n \in Session /\ n \in Signals(h, c)
  BY SignalFacts DEF Enters
<1>2. Known(n)  BY <1>1 DEF LinkInv, SignalInv, Signals, At
<1>3. n \in Signals(h, events[n].cycle) /\ Level(n) = h[n].target
  BY <1>1, <1>2 DEF LinkInv, SignalInv
<1>4. events[n].cycle = c  BY <1>1, <1>3 DEF Signals
<1>5. ~IsOpen(n)
  <2>1. DelayedEntry(n) \in Nat /\ session \in Nat
    BY <1>1, ReadyTypes, IntervalsAssumption DEF DelayedEntry, Ready
  <2>2. IsOpen(n) => DelayedEntry(n) > session
    BY <1>1 DEF Ready, MoveInv, OpenInv, Current, At, After
  <2>3. QED  BY <2>1, <2>2
<1>6. events[n].status # "CANCELLED"
  <2>1. DelayedEntry(n) \in Nat /\ ExitOf(h, c) \in Nat
    BY <1>1, SignalFacts, ReadyTypes, IntervalsAssumption DEF DelayedEntry, Ready
  <2>2. QED  BY <1>1, <1>4, <2>1 DEF LinkInv, SignalInv, Enters
<1>7. events[n].status \in EventStatus  BY <1>1 DEF Ready, TypeOK, EventRow
<1>8. Applied(n)  BY <1>2, <1>5, <1>6, <1>7 DEF Known, IsOpen, EventStatus, Applied
<1>9. Recorded(ApplyKey(n))  BY <1>1, <1>8 DEF Ready, BookInv
<1>10. QED  BY <1>1, <1>3, <1>4, <1>9 DEF ApplyKey

\* A hold that has been entered and is not running has taken its exit.
LEMMA ExitIsRecorded ==
  ASSUME NEW h, Ready(h), LinkInv(h, pc), At("done"), NEW c \in 1..source.cycle, ~Early(h, c),
         FirstEntry(h, c) <= session, ~(Holding /\ rec.cycle = c)
  PROVE  Recorded(Key(c, "fixed-exit", ExitOf(h, c)))
<1>1. ~Fresh(h, pc)  BY DEF Fresh, At
<1>2. CASE Over(h, c)  BY <1>2 DEF Over
<1>3. CASE rec.phase # "NORMAL" /\ rec.cycle = c
  <2>1. FirstEntry(h, c) \in Nat /\ session \in Nat  BY SignalFacts, ReadyTypes DEF Ready
  <2>2. ~Waiting  BY <1>3, <2>1 DEF LinkInv, WaitInv, At, After
  <2>3. Guarded
    BY <1>3, <2>2, ReadyTypes DEF Ready, Waiting, Holding, Guarded
  <2>4. QED  BY <1>3, <2>3 DEF LinkInv, HeldInv, ExitKey
<1>4. QED  BY <1>1, <1>2, <1>3 DEF LinkInv, OverInv

LEMMA TradesAreScheduled ==
  ASSUME NEW h, h = Past, Ready(h), LinkInv(h, pc), At("done")
  PROVE  Trades = {e \in FinalSchedule(closes) : e.session <= session}
<1>1. ASSUME NEW e \in Trades PROVE e \in FinalSchedule(closes) /\ e.session <= session
  <2>1. CASE \E j \in journal : /\ j.key.kind = "apply"
                                /\ e = [cycle |-> j.key.cycle, session |-> DelayedEntry(j.key.at),
                                        target |-> j.new.target]
    <3>1. PICK j \in journal :
            /\ j.key.kind = "apply"
            /\ e = [cycle |-> j.key.cycle, session |-> DelayedEntry(j.key.at),
                    target |-> j.new.target]
      BY <2>1
    <3>2. RowOf(h, j)  BY DEF LinkInv, RowInv
    <3>3. /\ j.key.cycle \in Scheduled(h) /\ Enters(h, j.key.cycle, j.key.at)
          /\ j.new.target = h[j.key.at].target /\ DelayedEntry(j.key.at) <= session
      BY <3>1, <3>2, ScheduledCycles DEF RowOf, Enters
    <3>4. e = EntryOf(h, j.key.cycle, j.key.at)  BY <3>1, <3>3 DEF EntryOf
    <3>5. QED  BY <3>1, <3>3, <3>4, ScheduleMembers DEF Enters
  <2>2. CASE \E j \in journal : /\ j.key.kind = "fixed-exit"
                                /\ e = [cycle |-> j.key.cycle, session |-> j.key.at, target |-> 0]
    <3>1. PICK j \in journal : /\ j.key.kind = "fixed-exit"
                               /\ e = [cycle |-> j.key.cycle, session |-> j.key.at, target |-> 0]
      BY <2>2
    <3>2. RowOf(h, j)  BY DEF LinkInv, RowInv
    <3>3. /\ j.key.cycle \in Scheduled(h) /\ j.key.at = ExitOf(h, j.key.cycle)
          /\ j.key.at <= session
      BY <3>1, <3>2, ScheduledCycles DEF RowOf
    <3>4. e = EndOf(h, j.key.cycle)  BY <3>1, <3>3 DEF EndOf
    <3>5. QED  BY <3>1, <3>3, <3>4, ScheduleMembers
  <2>3. QED  BY <2>1, <2>2 DEF Trades
<1>2. ASSUME NEW e \in FinalSchedule(closes), e.session <= session PROVE e \in Trades
  <2>1. PICK c \in Scheduled(h) :
          (\E n \in Signals(h, c) : Enters(h, c, n) /\ e = EntryOf(h, c, n)) \/ e = EndOf(h, c)
    BY ScheduleMembers
  <2>2. c \in 1..source.cycle /\ ~Early(h, c)  BY <2>1, ScheduledCycles
  <2>3. CASE \E n \in Signals(h, c) : Enters(h, c, n) /\ e = EntryOf(h, c, n)
    <3>1. PICK n \in Signals(h, c) : Enters(h, c, n) /\ e = EntryOf(h, c, n)  BY <2>3
    <3>2. DelayedEntry(n) <= session  BY <1>2, <3>1 DEF EntryOf
    <3>3. Recorded(Key(c, "apply", n))  BY <2>2, <3>1, <3>2, EntryIsRecorded
    <3>4. PICK j \in journal : j.key = Key(c, "apply", n)  BY <3>3 DEF Recorded
    <3>5. j.key.cycle = c /\ j.key.kind = "apply" /\ j.key.at = n  BY <3>4 DEF Key
    <3>6. j.new.target = h[n].target  BY <3>5 DEF LinkInv, RowInv, RowOf
    <3>7. e = [cycle |-> j.key.cycle, session |-> DelayedEntry(j.key.at),
               target |-> j.new.target]
      BY <3>1, <3>5, <3>6 DEF EntryOf
    <3>8. QED  BY <3>5, <3>7 DEF Trades
  <2>4. CASE e = EndOf(h, c)
    <3>1. ExitOf(h, c) <= session  BY <1>2, <2>4 DEF EndOf
    <3>2. /\ FirstEntry(h, c) \in Nat /\ ExitOf(h, c) \in Nat /\ session \in Nat
          /\ ExitOf(h, c) > FirstEntry(h, c) /\ rec.exit \in Nat
      BY <2>2, SignalFacts, ReadyTypes DEF Ready
    <3>3. ~(Holding /\ rec.cycle = c)
      <4>1. Holding => session < rec.exit  BY DEF Ready, HoldInv, At, After
      <4>2. Holding /\ rec.cycle = c => rec.exit = ExitOf(h, c)  BY DEF LinkInv, HeldInv
      <4>3. QED  BY <3>1, <3>2, <4>1, <4>2
    <3>4. FirstEntry(h, c) <= session  BY <3>1, <3>2
    <3>5. Recorded(Key(c, "fixed-exit", ExitOf(h, c)))  BY <2>2, <3>3, <3>4, ExitIsRecorded
    <3>6. PICK j \in journal : j.key = Key(c, "fixed-exit", ExitOf(h, c))
      BY <3>5 DEF Recorded
    <3>7. j.key.cycle = c /\ j.key.kind = "fixed-exit" /\ j.key.at = ExitOf(h, c)
      BY <3>6 DEF Key
    <3>8. e = [cycle |-> j.key.cycle, session |-> j.key.at, target |-> 0]
      BY <2>4, <3>7 DEF EndOf
    <3>9. QED  BY <3>7, <3>8 DEF Trades
  <2>5. QED  BY <2>1, <2>3, <2>4
<1>3. QED  BY <1>1, <1>2

\* What the dispatcher has traded when it has finished a session, whatever
\* crashes and replays came in between, is what compile_final_schedule has for
\* the same closes up to that session: every entry and scale-up inside its hold,
\* every fixed exit, and nothing else. No session is missed, and no close goes
\* from CRASH to the old ATH at once.
THEOREM TradesFollowSchedule == Leaps = FALSE => (Spec => []FollowsSchedule)
<1> SUFFICES ASSUME Leaps = FALSE PROVE Spec => []FollowsSchedule
  OBVIOUS
<1>1. ScheduleInv => FollowsSchedule
  <2> SUFFICES ASSUME ScheduleInv, At("done"), missed = 0
               PROVE  Trades = {e \in FinalSchedule(closes) : e.session <= session}
    BY DEF FollowsSchedule
  <2>1. PICK h : h = Past /\ LinkInv(h, pc) /\ Ready(h)  BY UnmissedLink
  <2>2. QED  BY <2>1, TradesAreScheduled
<1>2. Spec => []ScheduleInv  BY AlwaysLinked
<1>3. QED  BY <1>1, <1>2, PTL

-----------------------------------------------------------------------------
(* The refusal of a source event *)

\* RefuseOverlap: the cycle that is held is the one before that of the event,
\* which is its first.
LEMMA RefusedOverlap ==
  ASSUME NEW h, Ready(h), LinkInv(h, pc), RefuseOverlap
  PROVE  /\ Holding /\ rec.cycle = source.cycle - 1 /\ source.event = "ROTATE"
         /\ Signals(h, source.cycle) = {session}
<1>1. pc = "attach" /\ (Waiting \/ Holding) /\ ~SameCycle /\ rec.phase # "NORMAL"
  BY DEF RefuseOverlap, At, Waiting, Holding
<1>2. /\ rec.cycle \in 1..source.cycle /\ rec.oldAth = PeakOf(h, rec.cycle)
      /\ rec.cycle # source.cycle => rec.cycle = source.cycle - 1 /\ Fresh(h, pc)
  BY <1>1 DEF LinkInv, CycleInv
<1>3. /\ IsOpen(session) /\ source.event = "ROTATE" /\ source.mode = "CRASH"
  <2>1. IsOpen(session)  BY <1>1 DEF Ready, MoveInv, OpenInv, At
  <2>2. QED  BY <2>1, OpenIsKnown, KnownToday
<1>4. rec.cycle # source.cycle
  <2>1. rec.cycle = source.cycle => source.peak = PeakOf(h, rec.cycle)
    BY <1>3 DEF Ready, History
  <2>2. QED  BY <1>1, <1>2, <2>1 DEF SameCycle
<1>5. rec.cycle = source.cycle - 1 /\ Signals(h, source.cycle) = {session}
  BY <1>2, <1>4 DEF Fresh
<1>6. ~Waiting
  <2>1. rec.cycle < source.cycle /\ source.cycle \in Nat  BY <1>2, <1>4, ReadyTypes DEF Ready
  <2>2. Rearms(h, rec.cycle) # {}  BY <1>2, <2>1 DEF Ready, History
  <2>3. session \notin Rearms(h, rec.cycle)  BY <1>3 DEF Rearms, Ready
  <2>4. QED  BY <2>2, <2>3 DEF LinkInv, WaitInv
<1>7. QED  BY <1>1, <1>3, <1>5, <1>6

\* While the refusal stands, nothing it was made of changes.
OverlapInv ==
  error = "overlap" =>
    /\ Holding /\ rec.cycle = source.cycle - 1 /\ source.event = "ROTATE"
    /\ \E h : h = Past /\ Signals(h, source.cycle) = {session}

LEMMA OnlyRefuseOverlap ==
  ASSUME [Next]_vars, ~Miss, error' = "overlap"
  PROVE  RefuseOverlap \/ UNCHANGED vars
<1> USE DEF Transition, SetStatus, Goto, Raise
<1>1. ~Execute
  BY DEF Execute, RearmAtExit, MissedExit, CancelAtExit, TakeFixedExit, Orphan, MissedEntry,
     Mature, NothingToExecute, ResumeApplied, EnterFirst, ScaleUp, TrimAfterEntry, MarkApplied
<1>2. Ingest => RefuseOverlap
  BY DEF Ingest, NoLadderEvent, Enqueue, AlreadyEnqueued, StartCycle, JoinCycle,
     CancelOutside, RefuseOverlap, RefuseGuarded
<1>3. ~Observe
  BY DEF Observe, NothingObserved, CancelAtOldAth, CancelCycle, RecordRecovered, RearmAtOldAth
<1>4. ~NextSession /\ ~Restart  BY DEF NextSession, Restart
<1>5. QED  BY <1>1, <1>2, <1>3, <1>4 DEF Next

LEMMA OverlapStep ==
  ASSUME TypeOK, BookInv, MoveInv, HoldInv, RowsInv, Linked, OverlapInv, [Next]_vars, ~Miss
  PROVE  OverlapInv'
<1> SUFFICES ASSUME error' = "overlap"
             PROVE  /\ Holding' /\ rec'.cycle = source'.cycle - 1 /\ source'.event = "ROTATE"
                    /\ \E h : h = Past' /\ Signals(h, source'.cycle) = {session'}
  BY DEF OverlapInv
<1>1. CASE RefuseOverlap
  <2>1. PICK h : h = Past /\ LinkInv(h, pc)  BY DEF Linked
  <2>2. Ready(h)  BY <2>1 DEF Ready, RowsInv
  <2>3. UNCHANGED <<rec, closes, source, session>>
    BY <1>1 DEF RefuseOverlap, Raise, Same, database, rows
  <2>4. Past' = Past /\ (Holding' <=> Holding)  BY <2>3, RowsStay DEF Holding
  <2>5. QED  BY <1>1, <2>1, <2>2, <2>3, <2>4, RefusedOverlap
<1>2. CASE UNCHANGED vars
  <2>1. UNCHANGED <<rec, closes, source, session, error>>  BY <1>2 DEF vars, database, rows
  <2>2. Past' = Past /\ (Holding' <=> Holding)  BY <2>1, RowsStay DEF Holding
  <2>3. QED  BY <2>1, <2>2 DEF OverlapInv
<1>3. QED  BY <1>1, <1>2, OnlyRefuseOverlap

\* The held cycle is scheduled, and so is the one that asks for its place, no
\* later than its exit.
LEMMA OverlapIsReentry ==
  ASSUME NEW h, h = Past, Ready(h), LinkInv(h, pc), Holding, rec.cycle = source.cycle - 1,
         source.event = "ROTATE", Signals(h, source.cycle) = {session}
  PROVE  rec.cycle \in Reentries(closes)
<1> DEFINE c == rec.cycle
           d == source.cycle
           T == {ExitOf(h, c)} \cup Rearms(h, c)
<1>1. /\ c \in Nat /\ d \in Nat /\ session \in Nat /\ rec.exit \in Nat
      /\ c \in 1..d /\ d \in 1..d /\ d = c + 1
  BY ReadyTypes DEF Ready, LinkInv, CycleInv, Holding
<1>2. ~Early(h, c) /\ rec.exit = ExitOf(h, c)  BY DEF LinkInv, HeldInv
<1>3. ~Early(h, d)
  <2>1. source.mode # "NORMAL"  BY DEF Ready, MoveInv, RecordInv, SourceInv
  <2>2. Rearms(h, d) = {}  BY <1>1, <2>1 DEF Ready, History
  <2>3. QED  BY <2>2 DEF Early
<1>4. c \in Scheduled(h) /\ d \in Scheduled(h)  BY <1>1, <1>2, <1>3, ScheduledCycles
<1>5. {b \in Scheduled(h) : b > c} = {d}
  <2>1. \A b \in Scheduled(h) : b \in 1..d  BY ScheduledCycles
  <2>2. QED  BY <1>1, <1>4, <2>1
<1>6. Min({d}) = d /\ Min({session}) = session
  BY <1>1, MinOfNumbers
<1>7. session <= Max(T)
  <2>1. session <= ExitOf(h, c)
    BY <1>2 DEF Ready, MoveInv, RecordInv, ExitInv
  <2>2. ExitOf(h, c) \in Nat /\ Rearms(h, c) \subseteq 1..session  BY <1>1, SignalFacts
  <2>3. T \in SUBSET (0..ExitOf(h, c))  BY <1>1, <2>1, <2>2
  <2>4. Max(T) \in T /\ Max(T) >= ExitOf(h, c)  BY <2>2, <2>3, MaxOfNumbers
  <2>5. Max(T) \in Nat  BY <2>2, <2>3, <2>4
  <2> HIDE DEF T
  <2>6. QED  BY <1>1, <2>1, <2>2, <2>4, <2>5
<1>8. T = {FixedExit(FirstEntry(h, c))} \cup Rearms(h, c)  BY DEF ExitOf
<1> HIDE DEF c, d, T
<1>9. Min(Signals(h, d)) <= Max(T)  BY <1>6, <1>7 DEF d
<1>10. c \in Reentries(closes)
  BY <1>4, <1>5, <1>6, <1>8, <1>9 DEF Reentries, Past
<1>11. QED  BY <1>10 DEF c

\* A source event is refused as overlapping only where compile_guard_audit
\* reports a reentry: the cycle that holds is scheduled, and the next scheduled
\* one is signalled no later than its release.
THEOREM RefusalIsReentry ==
  MissBudget = 0 /\ Leaps = FALSE => (Spec => []RefusesOnlyReentry)
<1> SUFFICES ASSUME MissBudget = 0, Leaps = FALSE PROVE Spec => []RefusesOnlyReentry
  OBVIOUS
<1>1. Init => OverlapInv  BY DEF Init, OverlapInv
<1>2. ScheduleInv => missed = 0  BY DEF ScheduleInv, TypeOK
<1>3. OverlapInv /\ ScheduleInv /\ [Next]_vars => OverlapInv'
  <2> SUFFICES ASSUME OverlapInv, ScheduleInv, [Next]_vars PROVE OverlapInv'
    OBVIOUS
  <2>1. ~Miss  BY DEF Miss, ScheduleInv, TypeOK
  <2>2. QED  BY <1>2, <2>1, OverlapStep DEF ScheduleInv
<1>4. ScheduleInv /\ OverlapInv => RefusesOnlyReentry
  <2> SUFFICES ASSUME ScheduleInv, OverlapInv, error = "overlap" PROVE Reentries(closes) # {}
    BY DEF RefusesOnlyReentry
  <2>1. PICK h : h = Past /\ LinkInv(h, pc) /\ Ready(h)  BY <1>2, UnmissedLink
  <2>2. /\ Holding /\ rec.cycle = source.cycle - 1 /\ source.event = "ROTATE"
        /\ Signals(h, source.cycle) = {session}
    BY <2>1 DEF OverlapInv
  <2>3. rec.cycle \in Reentries(closes)  BY <2>1, <2>2, OverlapIsReentry
  <2>4. QED  BY <2>3
<1>5. Spec => []ScheduleInv  BY AlwaysLinked
<1>6. QED  BY <1>1, <1>3, <1>4, <1>5, PTL DEF Spec

-----------------------------------------------------------------------------
(* The target that is handed on *)

\* A finished session has events to come only while a cycle waits or holds.
LEMMA OpenWhileRunning ==
  ASSUME NEW h, Ready(h), At("done"), ~Waiting, ~Holding
  PROVE  {s \in Session : IsOpen(s)} = {}
BY DEF Ready, MoveInv, OpenInv, Current, At, After

LEMMA EvidenceIsAccepted ==
  ASSUME NEW h, h = Past, Ready(h), LinkInv(h, pc), At("done")
  PROVE  RuntimeTargets(Evidence) = {rec.target}
<1> DEFINE open == {s \in Session : IsOpen(s)}
           e == Evidence
<1>1. Valid(rec) /\ rec.target \in Target /\ rec.target \in Nat
      /\ rec.phase \in {"NORMAL", "WAIT_D40", "RECOVERY_ACTIVE", "OLD_ATH_GUARD"}
      /\ rec.oldAth \in Nat
  BY ReadyTypes DEF Ready, TypeOK, RecoveryState
<1>2. /\ e.phase = rec.phase /\ e.target = rec.target /\ e.cycle = rec.cycle
      /\ e.entry = rec.entry /\ e.exit = rec.exit /\ e.oldAth = rec.oldAth
      /\ e.recovered = rec.recovered /\ e.open = Cardinality(open)
  BY DEF Evidence
<1>3. ASSUME ~Waiting, ~Holding PROVE e.open = 0
  <2>1. open = {}  BY <1>3, OpenWhileRunning
  <2>2. QED  BY <1>2, <2>1, FS_EmptySet
<1>4. ASSUME Waiting PROVE e.open >= 1
  <2>1. First(h, rec.cycle) \in open
    <3>1. rec.cycle \in 1..source.cycle  BY <1>4 DEF Waiting, LinkInv, CycleInv
    <3>2. First(h, rec.cycle) \in Session  BY <3>1, SignalFacts
    <3>3. IsOpen(First(h, rec.cycle))  BY <1>4 DEF LinkInv, WaitInv, At
    <3>4. QED  BY <3>2, <3>3
  <2>2. IsFiniteSet(Session)
    <3>1. 1 \in Int /\ LastSession \in Int  BY DispatchAssumption
    <3>2. QED  BY <3>1, FS_Interval DEF Session
  <2>3. IsFiniteSet(open) /\ open # {}  BY <2>1, <2>2, FS_Subset
  <2>4. Cardinality(open) \in Nat /\ Cardinality(open) # 0
    BY <2>3, FS_CardinalityType, FS_EmptySet
  <2>5. QED  BY <1>2, <2>4
<1> HIDE DEF e, open
<1>5. Consistent(e)
  <2>1. e.target \in Target  BY <1>1, <1>2
  <2>2. CASE rec.phase = "NORMAL"
    <3>1. rec = NormalState /\ e.open = 0
      BY <1>1, <1>3, <2>2 DEF Valid, Waiting, Holding
    <3>2. QED  BY <1>2, <2>1, <2>2, <3>1 DEF Consistent, NormalState
  <2>3. CASE rec.phase = "WAIT_D40"
    <3>1. e.open >= 1  BY <1>4, <2>3 DEF Waiting
    <3>2. /\ rec.target = 0 /\ rec.cycle # 0 /\ rec.oldAth # 0 /\ rec.entry = 0 /\ rec.exit = 0
      BY <1>1, <2>3 DEF Valid
    <3>3. QED  BY <1>2, <2>1, <2>3, <3>1, <3>2 DEF Consistent
  <2>4. CASE rec.phase = "RECOVERY_ACTIVE"
    <3>1. /\ rec.target # 0 /\ rec.cycle # 0 /\ rec.oldAth # 0 /\ rec.entry # 0 /\ rec.exit # 0
      BY <1>1, <2>4 DEF Valid
    <3>2. QED  BY <1>2, <2>1, <2>4, <3>1 DEF Consistent
  <2>5. CASE rec.phase = "OLD_ATH_GUARD"
    <3>1. e.open = 0  BY <1>3, <2>5 DEF Waiting, Holding
    <3>2. rec.target = 0 /\ rec.cycle # 0 /\ rec.oldAth # 0
      BY <1>1, <2>5 DEF Valid
    <3>3. QED  BY <1>2, <2>1, <2>5, <3>1, <3>2 DEF Consistent
  <2>6. QED  BY <1>1, <2>2, <2>3, <2>4, <2>5
<1>6. Coherent(Directive(e), e.target)
  <2>1. rec.target # 0 <=> rec.phase = "RECOVERY_ACTIVE"  BY <1>1 DEF Valid
  <2>2. QED  BY <1>1, <1>2, <2>1 DEF Coherent, Directive
<1>7. RuntimeTargets(e) = {rec.target}  BY <1>2, <1>5, <1>6 DEF RuntimeTargets
<1>8. QED  BY <1>7 DEF e

\* What is scheduled at a session of the history.
LEMMA ScheduledSession ==
  ASSUME NEW h, h = Past, Ready(h), NEW e \in FinalSchedule(closes)
  PROVE  e.session \in Nat
<1>1. PICK c \in Scheduled(h) :
        (\E n \in Signals(h, c) : Enters(h, c, n) /\ e = EntryOf(h, c, n)) \/ e = EndOf(h, c)
  BY ScheduleMembers
<1>2. c \in 1..source.cycle  BY ScheduledCycles
<1>3. \A n \in Signals(h, c) : DelayedEntry(n) \in Nat
  BY <1>2, SignalFacts, ReadyTypes, IntervalsAssumption DEF DelayedEntry, Ready
<1>4. ExitOf(h, c) \in Nat  BY <1>2, SignalFacts
<1>5. QED  BY <1>1, <1>3, <1>4 DEF EntryOf, EndOf

\* While a target is held, the last scheduled trade is the one that set it.
LEMMA LastOfHold ==
  ASSUME NEW h, h = Past, Ready(h), LinkInv(h, pc), At("done"), Holding
  PROVE  \E e \in FinalSchedule(closes) :
           /\ e.session <= session /\ e.target = rec.target
           /\ \A f \in FinalSchedule(closes) :
                f.session <= session => f = e \/ f.session < e.session
<1> DEFINE b == rec.cycle
<1>1. /\ session \in Nat /\ b \in 1..source.cycle /\ b = source.cycle /\ ~Fresh(h, pc)
      /\ ~Early(h, b) /\ rec.exit = ExitOf(h, b) /\ session < ExitOf(h, b)
  BY ReadyTypes DEF LinkInv, CycleInv, HeldInv, Fresh, Holding, Ready, HoldInv, At, After
<1>2. PICK s \in Session : /\ Recorded(ApplyKey(s)) /\ events[s].cycle = b
                           /\ Level(s) = rec.target
  BY DEF LinkInv, LastInv
<1>3. \A t \in Session : Recorded(ApplyKey(t)) /\ events[t].cycle = b => Level(t) <= Level(s)
  BY <1>2 DEF LinkInv, LastInv
<1> HIDE DEF b
<1>4. /\ s \in Signals(h, b) /\ Enters(h, b, s) /\ DelayedEntry(s) <= session
      /\ h[s].target = rec.target
  <2>1. PICK j \in journal : j.key = Key(b, "apply", s)
    BY <1>2 DEF Recorded, ApplyKey
  <2>2. j.key.cycle = b /\ j.key.kind = "apply" /\ j.key.at = s  BY <2>1 DEF Key
  <2>3. RowOf(h, j)  BY DEF LinkInv, RowInv
  <2>4. s \in Signals(h, b) /\ Enters(h, b, s) /\ DelayedEntry(s) <= session
    BY <2>2, <2>3 DEF RowOf, Enters
  <2>5. Level(s) = h[s].target
    BY <1>1, <2>4, EntryIsRecorded
  <2>6. QED  BY <1>2, <2>4, <2>5
<1> DEFINE e == EntryOf(h, b, s)
<1>5. b \in Scheduled(h)  BY <1>1, ScheduledCycles
<1>6. e \in FinalSchedule(closes) /\ e.session = DelayedEntry(s) /\ e.target = rec.target
  BY <1>4, <1>5, ScheduleMembers DEF EntryOf
<1>7. First(h, b) \in Nat /\ First(h, b) <= s /\ s \in Nat /\ DelayedEntry(s) \in Nat
      /\ First(h, b) < DelayedEntry(s)
  BY <1>1, <1>4, SignalFacts, ReadyTypes, IntervalsAssumption DEF DelayedEntry, Ready
<1>8. ASSUME NEW f \in FinalSchedule(closes), f.session <= session
      PROVE  f = e \/ f.session < e.session
  <2>1. PICK c \in Scheduled(h) :
          (\E n \in Signals(h, c) : Enters(h, c, n) /\ f = EntryOf(h, c, n)) \/ f = EndOf(h, c)
    BY ScheduleMembers
  <2>2. /\ c \in 1..source.cycle /\ ~Early(h, c) /\ ExitOf(h, c) \in Nat /\ c \in Nat /\ b \in Nat
        /\ f.session \in Nat
    BY <1>1, <2>1, ScheduledCycles, ScheduledSession, SignalFacts
  <2>3. CASE c = b
    <3>1. f # EndOf(h, b)  BY <1>1, <1>8, <2>2, <2>3 DEF EndOf
    <3>2. PICK n \in Signals(h, b) : Enters(h, b, n) /\ f = EntryOf(h, b, n)
      BY <2>1, <2>3, <3>1
    <3>3. DelayedEntry(n) <= session /\ f.session = DelayedEntry(n)
      BY <1>8, <3>2 DEF EntryOf
    <3>4. /\ Recorded(ApplyKey(n)) /\ events[n].cycle = b /\ n \in Session
          /\ Level(n) = h[n].target
      BY <1>1, <3>2, <3>3, EntryIsRecorded
    <3>5. n \in Nat /\ Level(n) <= h[s].target /\ Level(n) \in Nat /\ h[s].target \in Nat
      BY <1>2, <1>3, <1>4, <3>4, ReadyTypes DEF Ready
    <3>6. ~(s < n)
      <4>1. s < n => h[s].target < h[n].target
        BY <1>1, <1>4, <3>2 DEF Ready, History
      <4>2. QED  BY <3>4, <3>5, <4>1
    <3>7. n = s \/ DelayedEntry(n) < DelayedEntry(s)
      BY <1>7, <3>5, <3>6, IntervalsAssumption DEF DelayedEntry
    <3>8. QED  BY <1>6, <3>2, <3>3, <3>7
  <2>4. CASE c # b
    <3>1. c < b  BY <1>1, <2>2, <2>4
    <3>2. ExitOf(h, c) <= First(h, b)
      BY <1>1, <2>2, <3>1 DEF LinkInv, OverInv
    <3>3. f.session <= ExitOf(h, c)
      <4>1. CASE f = EndOf(h, c)  BY <2>2, <4>1 DEF EndOf
      <4>2. CASE \E n \in Signals(h, c) : Enters(h, c, n) /\ f = EntryOf(h, c, n)
        <5>1. f.session < ExitOf(h, c)  BY <4>2 DEF EntryOf, Enters
        <5>2. QED  BY <2>2, <5>1
      <4>3. QED  BY <2>1, <4>1, <4>2
    <3>4. QED  BY <1>6, <1>7, <2>2, <3>2, <3>3
  <2>5. QED  BY <2>3, <2>4
<1>9. e.session <= session  BY <1>4, <1>6
<1> HIDE DEF e
<1>10. QED  BY <1>6, <1>8, <1>9

\* When nothing is held, the last scheduled trade is an exit.
LEMMA LastIsExit ==
  ASSUME NEW h, h = Past, Ready(h), LinkInv(h, pc), At("done"), ~Holding,
         NEW e \in FinalSchedule(closes), e.session <= session,
         \A f \in FinalSchedule(closes) : f.session <= session => f.session <= e.session
  PROVE  e.target = 0
<1>1. PICK c \in Scheduled(h) :
        (\E n \in Signals(h, c) : Enters(h, c, n) /\ e = EntryOf(h, c, n)) \/ e = EndOf(h, c)
  BY ScheduleMembers
<1>2. c \in 1..source.cycle /\ ~Early(h, c)  BY ScheduledCycles
<1>3. ASSUME NEW n \in Signals(h, c), Enters(h, c, n), e = EntryOf(h, c, n) PROVE FALSE
  <2>1. /\ First(h, c) <= n /\ n \in Nat /\ First(h, c) \in Nat /\ DelayedEntry(n) \in Nat
        /\ FirstEntry(h, c) = DelayedEntry(First(h, c)) /\ ExitOf(h, c) \in Nat
        /\ session \in Nat /\ FirstEntry(h, c) <= DelayedEntry(n)
    BY <1>2, <1>3, SignalFacts, ReadyTypes, IntervalsAssumption DEF DelayedEntry, Ready
  <2>2. DelayedEntry(n) <= session /\ DelayedEntry(n) < ExitOf(h, c) /\ e.session = DelayedEntry(n)
    BY <1>3 DEF EntryOf, Enters
  <2>3. FirstEntry(h, c) <= session  BY <1>2, <2>1, <2>2, SignalFacts
  <2>4. Recorded(Key(c, "fixed-exit", ExitOf(h, c)))  BY <1>2, <2>3, ExitIsRecorded
  <2>5. PICK j \in journal : j.key = Key(c, "fixed-exit", ExitOf(h, c))
    BY <2>4 DEF Recorded
  <2>6. j.key.cycle = c /\ j.key.kind = "fixed-exit"  BY <2>5 DEF Key
  <2>7. ExitOf(h, c) <= session  BY <2>6 DEF LinkInv, RowInv, RowOf
  <2>8. EndOf(h, c) \in FinalSchedule(closes) /\ EndOf(h, c).session = ExitOf(h, c)
    BY <1>1, ScheduleMembers DEF EndOf
  <2>9. ExitOf(h, c) <= DelayedEntry(n)  BY <2>2, <2>7, <2>8
  <2>10. QED  BY <2>1, <2>2, <2>9
<1>4. e = EndOf(h, c)  BY <1>1, <1>3
<1>5. QED  BY <1>4 DEF EndOf

\* From price history to the weight the physical plan is made for: the state of
\* a finished session is one that the replay evidence and the runtime target
\* accept, and its weight is the one the compiler's schedule has reached. No
\* session is missed, and no close goes from CRASH to the old ATH at once.
THEOREM TargetFollowsSchedule == Leaps = FALSE => (Spec => []TargetIsScheduled)
<1> SUFFICES ASSUME Leaps = FALSE PROVE Spec => []TargetIsScheduled
  OBVIOUS
<1>1. ScheduleInv => TargetIsScheduled
  <2> SUFFICES ASSUME ScheduleInv, At("done"), missed = 0
               PROVE  RuntimeTargets(Evidence) = LastScheduled
    BY DEF TargetIsScheduled
  <2>1. PICK h : h = Past /\ LinkInv(h, pc) /\ Ready(h)  BY UnmissedLink
  <2>2. RuntimeTargets(Evidence) = {rec.target}  BY <2>1, EvidenceIsAccepted
  <2> DEFINE past == {e \in FinalSchedule(closes) : e.session <= session}
             last == {e \in past : \A f \in past : f.session <= e.session}
  <2>3. LastScheduled = IF past = {} THEN {0} ELSE {e.target : e \in last}
    BY DEF LastScheduled
  <2>4. \A e \in past : e.session \in Nat  BY <2>1, ScheduledSession
  <2>5. CASE Holding
    <3>1. PICK e \in FinalSchedule(closes) :
            /\ e.session <= session /\ e.target = rec.target
            /\ \A f \in FinalSchedule(closes) :
                 f.session <= session => f = e \/ f.session < e.session
      BY <2>1, <2>5, LastOfHold
    <3>2. e \in past /\ \A f \in past : f = e \/ f.session < e.session  BY <3>1
    <3> HIDE DEF past
    <3>3. e \in last  BY <2>4, <3>2
    <3>4. \A f \in last : f = e  BY <2>4, <3>2
    <3>5. last = {e} /\ past # {}  BY <3>2, <3>3, <3>4
    <3> HIDE DEF last
    <3>6. QED  BY <2>2, <2>3, <3>1, <3>5
  <2>6. CASE ~Holding
    <3>1. rec.target = 0
      <4>1. Valid(rec) /\ rec.target \in Nat  BY <2>1, ReadyTypes DEF Ready, TypeOK
      <4>2. QED  BY <2>6, <4>1 DEF Valid, Holding
    <3>2. \A e \in last : e.target = 0  BY <2>1, <2>6, LastIsExit
    <3>3. ASSUME past # {} PROVE last # {}
      <4> DEFINE T == {e.session : e \in past}
      <4>1. T \in SUBSET (0..session) /\ session \in Nat
        <5>1. session \in Nat  BY <2>1, ReadyTypes DEF Ready
        <5>2. \A e \in past : e.session \in 0..session  BY <2>4, <5>1
        <5>3. QED  BY <5>1, <5>2
      <4>2. T # {}  BY <3>3
      <4>3. PICK x \in T : \A y \in T : x >= y  BY <4>1, <4>2, LargestNumber
      <4>4. PICK e \in past : e.session = x  BY <4>3
      <4> HIDE DEF past
      <4>5. \A f \in past : f.session <= e.session  BY <2>4, <4>3, <4>4
      <4>6. QED  BY <4>5
    <3> HIDE DEF last, past
    <3>4. past # {} => {e.target : e \in last} = {0}  BY <3>2, <3>3
    <3>5. QED  BY <2>2, <2>3, <3>1, <3>4
  <2>7. QED  BY <2>5, <2>6
<1>2. Spec => []ScheduleInv  BY AlwaysLinked
<1>3. QED  BY <1>1, <1>2, PTL
=============================================================================
