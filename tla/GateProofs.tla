----------------------------- MODULE GateProofs -----------------------------
(***************************************************************************)
(* Theorems about the clock gate, for every hold, wake latency and width   *)
(* of its thresholds.  Two promises do not depend on why the gate closed:  *)
(* they follow from what the wake flop and the hold counter remember, so   *)
(* GateIInv speaks of these alone and of neither counter of the            *)
(* hysteresis.  When the gate closes is another matter, and EpisodeIInv,   *)
(* further down, ties the counters to the history they should reflect.     *)
(***************************************************************************)
EXTENDS WakeContract, TLAPS

\* What is left of the last wake's hold, and that a gated cycle leaves a
\* debt that only a wake still in its flop has begun to answer.
HoldLeft ==
    /\ hold_q \in Nat
    /\ sinceWake \in 1..(WakeHold + 2)
    /\ sinceWake = 1 => wake_q
    /\ sinceWake \in 2..(WakeHold + 1) =>
         wake_q \/ hold_q >= WakeHold + 2 - sinceWake
Debt == gated_q => owed_q /\ run_q = 0 /\ (woken_q => wake_q)

GateIInv == HoldLeft /\ Debt

LEMMA GateInitIInv == ContractInit => GateIInv
<1> SUFFICES ASSUME ContractInit PROVE GateIInv
  OBVIOUS
<1>1. HoldLeft
  BY WakeAssumption DEF ContractInit, EpisodeInit, GateInit, HoldLeft
<1>2. Debt
  BY DEF ContractInit, Debt
<1> QED BY <1>1, <1>2 DEF GateIInv

\* A gated cycle is one no wake is being answered in: OwedNow follows from
\* the debt alone.
LEMMA GatedOwes == Debt /\ Gated => OwedNow /\ (gated_q => ~woken_q)
  BY LatAssumption DEF Debt, Gated, OwedNow, SleepStart, Answered

LEMMA StepHold ==
  ASSUME HoldLeft,
         NEW rst_n, NEW quiesced, NEW stalled, NEW override, NEW hq, NEW hs,
         NEW wake \in BOOLEAN,
         EpisodeStep(rst_n, quiesced, stalled, override, hq, hs, wake)
  PROVE  HoldLeft'
<1>1. CASE ~rst_n_q
  BY <1>1, WakeAssumption DEF HoldLeft, EpisodeStep, GateEdge, InReset
<1>2. CASE rst_n_q /\ wake
  <2>1. sinceWake' = 1 /\ wake_q' /\ hold_q' \in Nat
    BY <1>2, WakeAssumption DEF HoldLeft, EpisodeStep, GateEdge, Wake
  <2> QED BY <2>1, WakeAssumption DEF HoldLeft
<1>3. CASE rst_n_q /\ ~wake
  <2>1. sinceWake' = Upto(sinceWake, WakeHold + 2)
    BY <1>3 DEF EpisodeStep
  <2>2. hold_q' = IF wake_q THEN WakeHold
                  ELSE IF hold_q # 0 THEN hold_q - 1 ELSE 0
    BY <1>3 DEF EpisodeStep, GateEdge, Wake
  <2>3. CASE sinceWake = 1
    BY <2>1, <2>2, <2>3, WakeAssumption DEF HoldLeft, Upto
  <2>4. CASE sinceWake \in 2..(WakeHold + 1)
    BY <2>1, <2>2, <2>4, WakeAssumption DEF HoldLeft, Upto
  <2>5. CASE sinceWake = WakeHold + 2
    BY <2>1, <2>2, <2>5, WakeAssumption DEF HoldLeft, Upto
  <2> QED BY <2>3, <2>4, <2>5, WakeAssumption DEF HoldLeft
<1> QED BY <1>1, <1>2, <1>3

LEMMA StepDebt ==
  ASSUME Debt,
         NEW rst_n, NEW quiesced, NEW stalled, NEW override, NEW hq, NEW hs,
         NEW wake \in BOOLEAN,
         GateEdge(rst_n, quiesced, stalled, override, hq, hs, wake),
         Track(wake)
  PROVE  Debt'
<1>1. CASE ~rst_n_q
  BY <1>1 DEF Track, Debt
<1>2. CASE rst_n_q /\ ~Gated
  BY <1>2 DEF Track, Debt
<1>3. CASE rst_n_q /\ Gated
  <2>1. owed_q' = OwedNow /\ run_q' = 0 /\ woken_q' = WokenNext(wake)
    BY <1>3 DEF Track
  <2>2. wake_q' = wake
    BY <1>3 DEF GateEdge, Wake
  <2>3. WokenNext(wake) => wake
    BY <1>3, GatedOwes DEF WokenNext, SleepStart
  <2> QED BY <2>1, <2>2, <2>3, <1>3, GatedOwes DEF Debt
<1> QED BY <1>1, <1>2, <1>3

LEMMA GateNextIInv == GateIInv /\ [ContractNext]_vars => GateIInv'
<1> SUFFICES ASSUME GateIInv, [ContractNext]_vars PROVE GateIInv'
  OBVIOUS
<1>1. CASE ContractNext
  <2> PICK rst_n \in BOOLEAN, quiesced \in BOOLEAN, stalled \in BOOLEAN,
           override \in BOOLEAN, wake \in BOOLEAN, hq \in Quiesce, hs \in Stall :
        /\ EpisodeStep(rst_n, quiesced, stalled, override, hq, hs, wake)
        /\ Track(wake)
    BY <1>1 DEF ContractNext
  <2>1. HoldLeft'
    BY StepHold DEF GateIInv
  <2>2. GateEdge(rst_n, quiesced, stalled, override, hq, hs, wake)
    BY DEF EpisodeStep
  <2>3. Debt'
    BY <2>2, StepDebt DEF GateIInv
  <2> QED BY <2>1, <2>3 DEF GateIInv
<1>2. CASE UNCHANGED vars
  BY <1>2 DEF vars, episodeVars, gateVars, inputVars, hystVars, historyVars,
     contractVars, GateIInv, HoldLeft, Debt
<1> QED BY <1>1, <1>2

LEMMA GateSpecIInv == ContractSpec => []GateIInv
  BY GateInitIInv, GateNextIInv, PTL DEF ContractSpec

(***************************************************************************)
(* Woken, the gate stays open for WakeHold + 1 edges, whatever the block   *)
(* reports, the CSRs hold and the overrides do, for every WakeHold.        *)
(***************************************************************************)
THEOREM HeldOpenAfterWake == ContractSpec => []WakeHeldOpen
<1>1. GateIInv => WakeHeldOpen
  BY WakeAssumption DEF GateIInv, HoldLeft, WakeHeldOpen, Awake, Gated, Sleep
<1> QED BY <1>1, GateSpecIInv, PTL

(***************************************************************************)
(* A sender that sends only when no sleep is unanswered never lands on a   *)
(* withheld edge, for every wake latency, hold and threshold: the contract *)
(* of both ends needs no number beyond the sender's own count.             *)
(***************************************************************************)
THEOREM ContractKept == ContractSpec => []ValidMeetsClock
<1>1. GateIInv => ValidMeetsClock
  BY GatedOwes DEF GateIInv, ValidMeetsClock
<1> QED BY <1>1, GateSpecIInv, PTL

LEMMA ModBelow ==
  ASSUME NEW k \in Nat, NEW x \in Nat PROVE x % (k + 1) \in 0..k
OBVIOUS

LEMMA CountInRange ==
  \A report, full \in BOOLEAN, run \in 0..HystMax :
    CountNext(report, run, full) \in 0..HystMax
<1> SUFFICES ASSUME NEW report \in BOOLEAN, NEW full \in BOOLEAN,
                    NEW run \in 0..HystMax
             PROVE  CountNext(report, run, full) \in 0..HystMax
  OBVIOUS
<1> DEFINE x == run + IF full THEN 0 ELSE 1
<1>1. x \in Nat /\ HystMax \in Nat
  BY HystAssumption
<1>2. x % (HystMax + 1) \in 0..HystMax
  <2> HIDE DEF x
  <2> QED BY <1>1, ModBelow
<1>3. 0 \in 0..HystMax
  BY HystAssumption
<1> QED BY <1>2, <1>3 DEF CountNext

(***************************************************************************)
(* Every flop of the gate keeps its width, whatever values the CSRs take   *)
(* and at whatever time they change.                                       *)
(***************************************************************************)
THEOREM GateTypeCorrect == ContractSpec => []GateType
<1>1. ContractInit => GateType
  <2>1. 0 \in 0..HystMax /\ 0 \in 0..WakeHold
    BY HystAssumption, WakeAssumption
  <2>2. ContractInit => GateInit
    BY DEF ContractInit, EpisodeInit
  <2>3. GateInit => GateType
    BY Zenon, <2>1 DEF GateInit, GateType
  <2> QED BY <2>2, <2>3
<1>2. GateType /\ [ContractNext]_vars => GateType'
  <2> SUFFICES ASSUME GateType, [ContractNext]_vars PROVE GateType'
    OBVIOUS
  <2>1. CASE ContractNext
    <3> PICK rst_n \in BOOLEAN, quiesced \in BOOLEAN, stalled \in BOOLEAN,
             override \in BOOLEAN, wake \in BOOLEAN,
             hq \in Quiesce, hs \in Stall :
          EpisodeStep(rst_n, quiesced, stalled, override, hq, hs, wake)
      BY <2>1 DEF ContractNext
    <3>1. GateEdge(rst_n, quiesced, stalled, override, hq, hs, wake)
      BY DEF EpisodeStep
    <3>2. \A report, full \in BOOLEAN, run \in 0..HystMax :
            CountNext(report, run, full) \in 0..HystMax
      BY CountInRange
    <3>0. /\ rst_n_q' \in BOOLEAN /\ quiesced_q' \in BOOLEAN
          /\ stalled_q' \in BOOLEAN /\ override_q' \in BOOLEAN
      BY <3>1 DEF GateEdge
    <3>3. CASE ~rst_n_q
      <4>1. /\ q_run_q' = 0 /\ s_run_q' = 0
            /\ q_full_q' = FALSE /\ s_full_q' = FALSE
            /\ wake_q' = FALSE /\ hold_q' = 0
        BY <3>1, <3>3 DEF GateEdge, InReset
      <4>2. 0 \in 0..HystMax /\ 0 \in 0..WakeHold
        BY HystAssumption, WakeAssumption
      <4> QED BY <3>0, <4>1, <4>2 DEF GateType
    <3>4. CASE rst_n_q
      <4>1. Hysteresis(hq, hs) /\ Wake(wake)
        BY <3>1, <3>4 DEF GateEdge
      <4>2. q_run_q' \in 0..HystMax /\ s_run_q' \in 0..HystMax
        BY <4>1, <3>2 DEF Hysteresis, hystVars, GateType
      <4>3. q_full_q' \in BOOLEAN /\ s_full_q' \in BOOLEAN
        BY <4>1 DEF Hysteresis, hystVars, FullNext, GateType
      <4>4. wake_q' \in BOOLEAN /\ hold_q' \in 0..WakeHold
        BY <4>1, WakeAssumption DEF Wake, GateType
      <4> QED BY <3>0, <4>2, <4>3, <4>4 DEF GateType
    <3> QED BY <3>3, <3>4 DEF GateType
  <2>2. CASE UNCHANGED vars
    BY <2>2 DEF vars, episodeVars, gateVars, inputVars, hystVars, GateType
  <2> QED BY <2>1, <2>2
<1> QED BY <1>1, <1>2, PTL DEF ContractSpec

-----------------------------------------------------------------------------

\* A counter of the hysteresis against the run it is of: they are zero
\* together; at its largest it is full, so it never wraps; and where the
\* threshold has been steady it is the run's length until the run is done.
Counted(run, full, len, thr, ok) ==
  /\ len \in 0..RunMax
  /\ len = 0 <=> run = 0
  /\ len = 0 => ~full
  /\ run = HystMax => full
  /\ ok /\ len # 0 => /\ full <=> len >= thr
                      /\ IF full THEN run >= thr ELSE run = len

LEMMA ModSmall ==
  ASSUME NEW k \in Nat, NEW x \in 0..k PROVE x % (k + 1) = x
OBVIOUS

\* The count moves without wrapping.
LEMMA CountMoves ==
  \A report, full : \A run \in 0..HystMax :
    (run = HystMax => full) =>
      CountNext(report, run, full) =
        IF ~report THEN 0 ELSE IF full THEN run ELSE run + 1
<1> SUFFICES ASSUME NEW report, NEW full,
                    NEW run \in 0..HystMax, run = HystMax => full
             PROVE  CountNext(report, run, full) =
                      IF ~report THEN 0 ELSE IF full THEN run ELSE run + 1
  OBVIOUS
<1> DEFINE x == run + IF full THEN 0 ELSE 1
<1>1. x \in 0..HystMax /\ HystMax \in Nat
  BY HystAssumption
<1>2. x % (HystMax + 1) = x
  <2> HIDE DEF x
  <2> QED BY <1>1, ModSmall
<1>3. CountNext(report, run, full) = IF report THEN x % (HystMax + 1) ELSE 0
  BY DEF CountNext
<1>4. x = IF full THEN run ELSE run + 1
  <2> QED BY HystAssumption
<1> HIDE DEF x
<1> QED BY <1>2, <1>3, <1>4

\* An edge out of reset, whether or not the other counter clocks this one.
CountsOn(report, full, ok, clocked, run, thr, threshold, len) ==
    /\ Counted(run, full, len, thr, ok)
    /\ Moves(report, run, full) => clocked
    => Counted(IF clocked THEN CountNext(report, run, full) ELSE run,
               IF clocked THEN FullNext(report, run, threshold) ELSE full,
               IF report THEN Upto(len, RunMax) ELSE 0,
               threshold,
               ~report \/ len = 0 \/ (ok /\ threshold = thr))

LEMMA CountedStep ==
  \A report, full, ok, clocked : \A run, thr, threshold \in 0..HystMax,
     len \in 0..RunMax :
    CountsOn(report, full, ok, clocked, run, thr, threshold, len)
<1> SUFFICES ASSUME NEW report, NEW full, NEW ok, NEW clocked,
                    NEW run \in 0..HystMax, NEW thr \in 0..HystMax,
                    NEW threshold \in 0..HystMax, NEW len \in 0..RunMax
             PROVE  CountsOn(report, full, ok, clocked, run, thr, threshold, len)
  OBVIOUS
<1> SUFFICES ASSUME Counted(run, full, len, thr, ok),
                    Moves(report, run, full) => clocked
             PROVE  Counted(IF clocked THEN CountNext(report, run, full) ELSE run,
                            IF clocked THEN FullNext(report, run, threshold) ELSE full,
                            IF report THEN Upto(len, RunMax) ELSE 0,
                            threshold,
                            ~report \/ len = 0 \/ (ok /\ threshold = thr))
  BY DEF CountsOn
<1>1. HystMax \in Nat /\ HystMax >= 1
  BY HystAssumption
<1>2. CountNext(report, run, full) =
        IF ~report THEN 0 ELSE IF full THEN run ELSE run + 1
  BY CountMoves DEF Counted
<1>3. CASE ~report
  <2>1. clocked \/ (run = 0 /\ ~full)
    BY <1>3 DEF Moves, Counted
  <2>2. CASE clocked
    BY <1>1, <1>2, <1>3, <2>2 DEF FullNext, Counted, RunMax
  <2>3. CASE run = 0 /\ ~full /\ ~clocked
    BY <1>1, <1>3, <2>3 DEF Counted, RunMax
  <2> QED BY <2>1, <2>2, <2>3
<1>4. CASE report /\ ~full
  <2>1. clocked
    BY <1>4 DEF Moves
  <2>2. run < HystMax
    BY <1>1, <1>4 DEF Counted
  <2>3. CASE len = 0
    <3>1. run = 0 /\ Upto(len, RunMax) = 1
      BY <1>1, <2>3 DEF Counted, Upto, RunMax
    <3> QED BY <1>1, <1>2, <1>4, <2>1, <2>2, <3>1 DEF FullNext, Counted, RunMax
  <2>4. CASE len # 0 /\ ok /\ threshold = thr
    <3>1. run = len
      BY <1>4, <2>4 DEF Counted
    <3>2. Upto(len, RunMax) = len + 1
      BY <1>1, <2>2, <3>1 DEF Upto, RunMax
    <3> QED BY <1>1, <1>2, <1>4, <2>1, <2>2, <2>4, <3>1, <3>2
            DEF FullNext, Counted, RunMax
  <2>5. CASE len # 0 /\ ~(ok /\ threshold = thr)
    <3>1. Upto(len, RunMax) \in 1..RunMax
      BY <1>1, <2>5 DEF Upto, RunMax
    <3> QED BY <1>1, <1>2, <1>4, <2>1, <2>2, <2>5, <3>1
            DEF FullNext, Counted, RunMax
  <2> QED BY <2>3, <2>4, <2>5
<1>5. CASE report /\ full
  <2>1. len # 0 /\ run # 0
    BY <1>5 DEF Counted
  <2>2. Upto(len, RunMax) \in 1..RunMax /\ Upto(len, RunMax) >= len
    BY <1>1, <2>1 DEF Upto, RunMax
  <2>3. CASE ok /\ threshold = thr
    <3>1. run >= thr /\ len >= thr
      BY <1>5, <2>1, <2>3 DEF Counted
    <3>2. Upto(len, RunMax) >= thr
      BY <1>1, <2>2, <3>1 DEF RunMax
    <3> QED BY <1>1, <1>2, <1>5, <2>1, <2>2, <2>3, <3>1, <3>2
            DEF FullNext, Counted, RunMax
  <2>4. CASE ~(ok /\ threshold = thr)
    BY <1>1, <1>2, <1>5, <2>1, <2>2, <2>4 DEF FullNext, Counted, RunMax
  <2> QED BY <2>3, <2>4
<1> QED BY <1>3, <1>4, <1>5

-----------------------------------------------------------------------------

HistoryType ==
  /\ qrun \in 0..RunMax /\ srun \in 0..RunMax
  /\ qthr \in 0..HystMax /\ sthr \in 0..HystMax
  /\ qok \in BOOLEAN /\ sok \in BOOLEAN

\* The hold is what is left of the last wake's, to the edge.
HoldExact ==
  /\ sinceWake \in 1..(WakeHold + 2)
  /\ wake_q <=> sinceWake = 1
  /\ sinceWake # 1 => hold_q = WakeHold + 2 - sinceWake

\* The cycles a block left alone may yet be awake: those of the hold and
\* those of the count to the largest threshold, of which one is spent on
\* both where both go on.
AwakeYet(hold, run, full) ==
  hold + (HystMax - run) - IF ~full /\ hold # 0 THEN 1 ELSE 0

Budgeted == /\ awake \in Nat
            /\ awake + AwakeYet(hold_q, q_run_q, q_full_q) <= SleepLatency

Runs == /\ Counted(q_run_q, q_full_q, qrun, qthr, qok)
        /\ Counted(s_run_q, s_full_q, srun, sthr, sok)

EpisodeIInv == GateType /\ HistoryType /\ Runs /\ HoldExact /\ Budgeted

LEMMA EpisodeShown == EpisodeIInv => GateOnTime
<1> SUFFICES ASSUME EpisodeIInv PROVE GateOnTime
  OBVIOUS
<1> USE DEF EpisodeIInv
<1>1. Awake <=> wake_q \/ hold_q # 0
  BY WakeAssumption DEF HoldExact, GateType, Awake
<1>2. qok => (q_full_q <=> RunDone(qrun, qthr))
  BY HystAssumption DEF Runs, Counted, RunDone, HistoryType, GateType, RunMax
<1>3. sok => (s_full_q <=> RunDone(srun, sthr))
  BY HystAssumption DEF Runs, Counted, RunDone, HistoryType, GateType, RunMax
<1>4. Episode
  BY <1>1, <1>2, <1>3 DEF Episode, Gated, Sleep
<1>5. AwakeYet(hold_q, q_run_q, q_full_q) >= 0
  BY HystAssumption, WakeAssumption DEF AwakeYet, GateType
<1>6. AwakeYet(hold_q, q_run_q, q_full_q) \in Int
  BY HystAssumption, WakeAssumption DEF AwakeYet, GateType
<1>7. SleepLatency \in Int
  BY HystAssumption, WakeAssumption DEF SleepLatency
<1>8. SleepsInTime
  BY <1>5, <1>6, <1>7 DEF SleepsInTime, Budgeted
<1> QED BY <1>4, <1>8 DEF GateOnTime

\* From rest the budget is never more than the latency.
LEMMA BudgetEnough ==
  \A hold \in 0..WakeHold, run \in 0..HystMax, full \in BOOLEAN :
    (full => run # 0) => AwakeYet(hold, run, full) <= SleepLatency
BY HystAssumption, WakeAssumption DEF AwakeYet, SleepLatency

\* A cycle awake is one of the budget's; a cycle asleep costs nothing.
LEMMA BudgetSpent ==
  \A hold \in 0..WakeHold, run \in 0..HystMax, full, full2 \in BOOLEAN :
    (run = HystMax => full) =>
    LET hold2 == IF hold # 0 THEN hold - 1 ELSE 0
        run2  == IF full THEN run ELSE run + 1
    IN  AwakeYet(hold2, run2, full2) + (IF full /\ hold = 0 THEN 0 ELSE 1)
          <= AwakeYet(hold, run, full)
BY HystAssumption, WakeAssumption DEF AwakeYet

LEMMA EpisodeInitIInv == ContractInit => EpisodeIInv
<1> SUFFICES ASSUME ContractInit PROVE EpisodeIInv
  OBVIOUS
<1>1. EpisodeInit /\ GateInit
  BY DEF ContractInit, EpisodeInit
<1>2. /\ q_run_q = 0 /\ s_run_q = 0 /\ qrun = 0 /\ srun = 0
      /\ q_full_q = FALSE /\ s_full_q = FALSE /\ wake_q = FALSE /\ hold_q = 0
      /\ qok = TRUE /\ sok = TRUE /\ sinceWake = WakeHold + 2 /\ awake = 0
      /\ qthr \in Quiesce /\ sthr \in Stall
  BY <1>1 DEF EpisodeInit, GateInit
<1>3. GateType
  <2>1. 0 \in 0..HystMax /\ 0 \in 0..WakeHold
    BY HystAssumption, WakeAssumption
  <2> QED BY Zenon, <1>1, <2>1 DEF GateInit, GateType
<1>4. HistoryType
  <2>1. 0 \in 0..RunMax
    BY HystAssumption DEF RunMax
  <2>2. qthr \in 0..HystMax /\ sthr \in 0..HystMax
    BY <1>2, HystAssumption
  <2> QED BY Zenon, <1>2, <2>1, <2>2 DEF HistoryType
<1>5. Runs
  BY <1>2, HystAssumption DEF Runs, Counted, RunMax
<1>6. HoldExact
  BY <1>2, WakeAssumption DEF HoldExact
<1>7. Budgeted
  BY <1>2, HystAssumption, WakeAssumption DEF Budgeted, AwakeYet, SleepLatency
<1> QED BY <1>3, <1>4, <1>5, <1>6, <1>7 DEF EpisodeIInv

\* The two counters at an edge.
LEMMA StepRuns ==
  ASSUME GateType, HistoryType, Runs,
         NEW rst_n \in BOOLEAN, NEW quiesced \in BOOLEAN,
         NEW stalled \in BOOLEAN, NEW override \in BOOLEAN,
         NEW hq \in Quiesce, NEW hs \in Stall, NEW wake \in BOOLEAN,
         EpisodeStep(rst_n, quiesced, stalled, override, hq, hs, wake)
  PROVE  HistoryType' /\ Runs'
<1>0. /\ qrun' = RunNext(quiesced_q, qrun) /\ srun' = RunNext(stalled_q, srun)
      /\ qok' = SteadyNext(quiesced_q, qrun, qok, qthr, hq)
      /\ sok' = SteadyNext(stalled_q, srun, sok, sthr, hs)
      /\ qthr' = hq /\ sthr' = hs
  BY DEF EpisodeStep
<1>1. hq \in 0..HystMax /\ hs \in 0..HystMax /\ HystMax \in Nat
  BY HystAssumption
<1>2. GateEdge(rst_n, quiesced, stalled, override, hq, hs, wake)
  BY DEF EpisodeStep
<1>3. /\ quiesced_q \in BOOLEAN /\ stalled_q \in BOOLEAN /\ rst_n_q \in BOOLEAN
      /\ q_run_q \in 0..HystMax /\ s_run_q \in 0..HystMax
      /\ q_full_q \in BOOLEAN /\ s_full_q \in BOOLEAN
  BY DEF GateType
<1>4. /\ qrun \in 0..RunMax /\ srun \in 0..RunMax
      /\ qthr \in 0..HystMax /\ sthr \in 0..HystMax
      /\ qok \in BOOLEAN /\ sok \in BOOLEAN
  BY DEF HistoryType
<1>5. \A n \in 0..RunMax : Upto(n, RunMax) \in 0..RunMax
  BY <1>1 DEF Upto, RunMax
<1>6. HistoryType'
  <2>1. 0 \in 0..RunMax
    BY <1>1 DEF RunMax
  <2>2. qrun' \in 0..RunMax /\ srun' \in 0..RunMax
    BY <1>0, <1>4, <1>5, <2>1 DEF RunNext
  <2>3. qok' \in BOOLEAN /\ sok' \in BOOLEAN
    BY <1>0 DEF SteadyNext
  <2> QED BY <1>0, <1>1, <2>2, <2>3 DEF HistoryType
<1>7. CASE ~rst_n_q
  <2>1. /\ q_run_q' = 0 /\ s_run_q' = 0 /\ q_full_q' = FALSE /\ s_full_q' = FALSE
        /\ qrun' = 0 /\ srun' = 0
    BY <1>0, <1>2, <1>7 DEF GateEdge, InReset, RunNext
  <2>2. Runs'
    BY <2>1, HystAssumption DEF Runs, Counted, RunMax
  <2> QED BY <1>6, <2>2
<1>8. CASE rst_n_q
  <2> DEFINE clocked == \/ Moves(quiesced_q, q_run_q, q_full_q)
                        \/ Moves(stalled_q, s_run_q, s_full_q)
  <2>1. clocked \in BOOLEAN
    OBVIOUS
  <2>2. Hysteresis(hq, hs)
    BY <1>2, <1>8 DEF GateEdge
  <2>3. /\ q_run_q' = IF clocked THEN CountNext(quiesced_q, q_run_q, q_full_q)
                                 ELSE q_run_q
        /\ s_run_q' = IF clocked THEN CountNext(stalled_q, s_run_q, s_full_q)
                                 ELSE s_run_q
        /\ q_full_q' = IF clocked THEN FullNext(quiesced_q, q_run_q, hq) ELSE q_full_q
        /\ s_full_q' = IF clocked THEN FullNext(stalled_q, s_run_q, hs) ELSE s_full_q
    BY <2>2 DEF Hysteresis, hystVars
  <2>4. /\ Moves(quiesced_q, q_run_q, q_full_q) => clocked
        /\ Moves(stalled_q, s_run_q, s_full_q) => clocked
    OBVIOUS
  <2> HIDE DEF clocked
  <2>5. /\ qrun' = IF quiesced_q THEN Upto(qrun, RunMax) ELSE 0
        /\ srun' = IF stalled_q THEN Upto(srun, RunMax) ELSE 0
        /\ qthr' = hq /\ sthr' = hs
        /\ qok' = (~quiesced_q \/ qrun = 0 \/ (qok /\ hq = qthr))
        /\ sok' = (~stalled_q \/ srun = 0 \/ (sok /\ hs = sthr))
    BY <1>0, <1>8, Zenon DEF RunNext, SteadyNext
  <2>6. Counted(q_run_q, q_full_q, qrun, qthr, qok)'
    <3>1. Counted(IF clocked THEN CountNext(quiesced_q, q_run_q, q_full_q) ELSE q_run_q,
                  IF clocked THEN FullNext(quiesced_q, q_run_q, hq) ELSE q_full_q,
                  IF quiesced_q THEN Upto(qrun, RunMax) ELSE 0,
                  hq,
                  ~quiesced_q \/ qrun = 0 \/ (qok /\ hq = qthr))
      <4>1. Counted(q_run_q, q_full_q, qrun, qthr, qok)
        BY DEF Runs
      <4>2. CountsOn(quiesced_q, q_full_q, qok, clocked, q_run_q, qthr, hq, qrun)
        BY <1>1, <1>3, <1>4, <2>1, CountedStep
      <4> QED BY <2>4, <4>1, <4>2 DEF CountsOn
    <3> QED BY <2>3, <2>5, <3>1, Zenon
  <2>7. Counted(s_run_q, s_full_q, srun, sthr, sok)'
    <3>1. Counted(IF clocked THEN CountNext(stalled_q, s_run_q, s_full_q) ELSE s_run_q,
                  IF clocked THEN FullNext(stalled_q, s_run_q, hs) ELSE s_full_q,
                  IF stalled_q THEN Upto(srun, RunMax) ELSE 0,
                  hs,
                  ~stalled_q \/ srun = 0 \/ (sok /\ hs = sthr))
      <4>1. Counted(s_run_q, s_full_q, srun, sthr, sok)
        BY DEF Runs
      <4>2. CountsOn(stalled_q, s_full_q, sok, clocked, s_run_q, sthr, hs, srun)
        BY <1>1, <1>3, <1>4, <2>1, CountedStep
      <4> QED BY <2>4, <4>1, <4>2 DEF CountsOn
    <3> QED BY <2>3, <2>5, <3>1, Zenon
  <2> QED BY <1>6, <2>6, <2>7 DEF Runs
<1> QED BY <1>3, <1>7, <1>8

\* The hold at an edge.
LEMMA StepExact ==
  ASSUME HoldExact, hold_q \in 0..WakeHold, wake_q \in BOOLEAN,
         NEW rst_n, NEW quiesced, NEW stalled, NEW override, NEW hq, NEW hs,
         NEW wake \in BOOLEAN,
         EpisodeStep(rst_n, quiesced, stalled, override, hq, hs, wake)
  PROVE  HoldExact'
<1>1. /\ GateEdge(rst_n, quiesced, stalled, override, hq, hs, wake)
      /\ sinceWake' = IF rst_n_q /\ wake THEN 1
                      ELSE IF rst_n_q THEN Upto(sinceWake, WakeHold + 2)
                      ELSE WakeHold + 2
  BY DEF EpisodeStep
<1>2. CASE ~rst_n_q
  <2>1. sinceWake' = WakeHold + 2 /\ wake_q' = FALSE /\ hold_q' = 0
    BY <1>1, <1>2 DEF GateEdge, InReset
  <2> QED BY <2>1, WakeAssumption DEF HoldExact
<1>3. CASE rst_n_q
  <2>1. wake_q' = wake /\ hold_q' = IF wake_q THEN WakeHold
                                    ELSE IF hold_q # 0 THEN hold_q - 1 ELSE 0
    BY <1>1, <1>3 DEF GateEdge, Wake
  <2>2. CASE wake
    BY <1>1, <1>3, <2>1, <2>2, WakeAssumption DEF HoldExact
  <2>3. CASE ~wake
    <3>1. sinceWake' = Upto(sinceWake, WakeHold + 2)
      BY <1>1, <1>3, <2>3
    <3>2. CASE sinceWake = 1
      BY <2>1, <2>3, <3>1, <3>2, WakeAssumption DEF HoldExact, Upto
    <3>3. CASE sinceWake # 1
      BY <2>1, <2>3, <3>1, <3>3, WakeAssumption DEF HoldExact, Upto
    <3> QED BY <3>2, <3>3
  <2> QED BY <2>2, <2>3
<1> QED BY <1>2, <1>3

\* The budget at an edge.
LEMMA StepBudget ==
  ASSUME EpisodeIInv, GateType', Runs',
         NEW rst_n \in BOOLEAN, NEW quiesced \in BOOLEAN,
         NEW stalled \in BOOLEAN, NEW override \in BOOLEAN,
         NEW hq \in Quiesce, NEW hs \in Stall, NEW wake \in BOOLEAN,
         EpisodeStep(rst_n, quiesced, stalled, override, hq, hs, wake)
  PROVE  Budgeted'
<1> DEFINE hold2 == hold_q'
           run2  == q_run_q'
           full2 == q_full_q'
           awake2 == awake'
           yet  == AwakeYet(hold_q, q_run_q, q_full_q)
           yet2 == AwakeYet(hold2, run2, full2)
<1>1. /\ hold_q \in 0..WakeHold /\ q_run_q \in 0..HystMax /\ q_full_q \in BOOLEAN
      /\ awake \in Nat /\ awake + yet <= SleepLatency
  BY DEF EpisodeIInv, GateType, Budgeted
<1>2. /\ hold2 \in 0..WakeHold /\ run2 \in 0..HystMax /\ full2 \in BOOLEAN
      /\ full2 => run2 # 0
  <2>1. hold2 \in 0..WakeHold /\ run2 \in 0..HystMax /\ full2 \in BOOLEAN
    BY DEF GateType
  <2>2. Counted(run2, full2, qrun', qthr', qok')
    BY DEF Runs
  <2> HIDE DEF hold2, run2, full2
  <2>3. full2 => run2 # 0
    BY <2>2 DEF Counted
  <2> QED BY <2>1, <2>3
<1>3. awake2 = CASE ~LeftAlone -> 0
                 [] LeftAlone /\ Gated -> awake
                 [] OTHER -> Upto(awake, SleepLatency + 1)
  BY DEF EpisodeStep
<1>4. SleepLatency \in Nat /\ yet \in Nat /\ yet2 \in Int
  BY <1>1, <1>2, HystAssumption, WakeAssumption DEF AwakeYet, SleepLatency
<1> HIDE DEF hold2, run2, full2, awake2, yet, yet2
<1>5. yet2 <= SleepLatency
  <2>1. AwakeYet(hold2, run2, full2) <= SleepLatency
    BY <1>2, BudgetEnough
  <2> QED BY <2>1 DEF yet2
<1>6. awake2 \in Nat /\ awake2 + yet2 <= SleepLatency
  <2>1. CASE ~LeftAlone
    <3>1. awake2 = 0
      BY <1>3, <2>1, Zenon
    <3> QED BY <1>4, <1>5, <3>1
  <2>2. CASE LeftAlone
    <3>1. rst_n_q /\ quiesced_q /\ ~wake_q /\ ~override_q
      BY <2>2 DEF LeftAlone
    <3>2. Hysteresis(hq, hs) /\ Wake(wake)
      BY <3>1 DEF EpisodeStep, GateEdge
    <3>3. q_run_q = HystMax => q_full_q
      BY DEF EpisodeIInv, Runs, Counted
    <3>4. run2 = IF q_full_q THEN q_run_q ELSE q_run_q + 1
      <4>1. CountNext(quiesced_q, q_run_q, q_full_q) =
              IF q_full_q THEN q_run_q ELSE q_run_q + 1
        BY <1>1, <3>1, <3>3, CountMoves
      <4>2. ~q_full_q => Moves(quiesced_q, q_run_q, q_full_q)
        BY <3>1 DEF Moves
      <4>3. \/ run2 = CountNext(quiesced_q, q_run_q, q_full_q)
            \/ run2 = q_run_q /\ ~Moves(quiesced_q, q_run_q, q_full_q)
        BY <3>2 DEF Hysteresis, hystVars, run2
      <4> QED BY <4>1, <4>2, <4>3
    <3>5. hold2 = IF hold_q # 0 THEN hold_q - 1 ELSE 0
      BY <3>1, <3>2 DEF Wake, hold2
    <3>6. yet2 + (IF q_full_q /\ hold_q = 0 THEN 0 ELSE 1) <= yet
      <4>1. AwakeYet(IF hold_q # 0 THEN hold_q - 1 ELSE 0,
                     IF q_full_q THEN q_run_q ELSE q_run_q + 1, full2)
              + (IF q_full_q /\ hold_q = 0 THEN 0 ELSE 1)
            <= AwakeYet(hold_q, q_run_q, q_full_q)
        BY <1>1, <1>2, <3>3, BudgetSpent
      <4> QED BY <3>4, <3>5, <4>1 DEF yet, yet2
    <3>7. CASE Gated
      <4>1. awake2 = awake
        BY <1>3, <2>2, <3>7, Zenon
      <4>2. yet2 <= yet
        BY <1>4, <3>6
      <4> QED BY <1>1, <1>4, <4>1, <4>2
    <3>8. CASE ~Gated
      <4>1. awake2 = Upto(awake, SleepLatency + 1)
        BY <1>3, <2>2, <3>8, Zenon
      <4>2. ~(q_full_q /\ hold_q = 0)
        BY <3>1, <3>8 DEF Gated, Sleep
      <4>3. yet2 + 1 <= yet
        BY <1>4, <3>6, <4>2
      <4>4. awake2 = awake + 1
        BY <1>1, <1>4, <4>1 DEF Upto
      <4> QED BY <1>1, <1>4, <4>3, <4>4
    <3> QED BY <3>7, <3>8
  <2> QED BY <2>1, <2>2
<1> QED BY <1>6 DEF Budgeted, awake2, yet2, hold2, run2, full2

LEMMA EpisodeNextIInv ==
  EpisodeIInv /\ GateType' /\ [ContractNext]_vars => EpisodeIInv'
<1> SUFFICES ASSUME EpisodeIInv, GateType', [ContractNext]_vars
             PROVE  EpisodeIInv'
  OBVIOUS
<1>1. CASE ContractNext
  <2> PICK rst_n \in BOOLEAN, quiesced \in BOOLEAN, stalled \in BOOLEAN,
           override \in BOOLEAN, wake \in BOOLEAN, hq \in Quiesce, hs \in Stall :
        EpisodeStep(rst_n, quiesced, stalled, override, hq, hs, wake)
    BY <1>1 DEF ContractNext
  <2>1. HistoryType' /\ Runs'
    BY StepRuns DEF EpisodeIInv
  <2>2. hold_q \in 0..WakeHold /\ wake_q \in BOOLEAN
    BY DEF EpisodeIInv, GateType
  <2>3. HoldExact'
    BY <2>2, StepExact DEF EpisodeIInv
  <2>4. Budgeted'
    BY <2>1, StepBudget
  <2> QED BY <2>1, <2>3, <2>4 DEF EpisodeIInv
<1>2. CASE UNCHANGED vars
  BY <1>2 DEF vars, episodeVars, gateVars, inputVars, hystVars, historyVars,
     contractVars, EpisodeIInv, GateType, HistoryType, Runs, HoldExact, Budgeted
<1> QED BY <1>1, <1>2

(***************************************************************************)
(* The gate closes when its promise says and at no other time, and a block *)
(* left alone is asleep within the latency: for every width of the         *)
(* thresholds, every hold, and however the CSRs are rewritten.             *)
(***************************************************************************)
THEOREM ClosesOnTime == ContractSpec => []GateOnTime
BY GateTypeCorrect, EpisodeInitIInv, EpisodeNextIInv, EpisodeShown, PTL
   DEF ContractSpec
=============================================================================
