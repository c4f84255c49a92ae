---------------------------- MODULE GateEpisodes ----------------------------
(***************************************************************************)
(* The clock gate against what docs/clock-gate.md promises of it, told     *)
(* from the history of its inputs alone (fv_clk_gate.sv, FV_EPISODE): how  *)
(* long the block has reported quiesced or stalled, whether the CSR held   *)
(* one threshold through that run, and when it was last woken.             *)
(***************************************************************************)
EXTENDS ClockGate

VARIABLES
    qrun, srun,   \* lengths of the current runs, counted past any threshold
    qthr, sthr,   \* the thresholds in the run's last cycle
    qok, sok,     \* the threshold held one value through the run
    sinceWake,    \* cycles since the last wake, counted past the hold
    awake         \* cycles awake since the block was last left alone

historyVars == <<qrun, srun, qthr, sthr, qok, sok, sinceWake, awake>>
episodeVars == <<gateVars, historyVars>>

RunMax == HystMax + 1
Upto(x, max) == IF x < max THEN x + 1 ELSE max

EpisodeInit ==
    /\ GateInit
    /\ qrun = 0 /\ srun = 0
    /\ qthr \in Quiesce /\ sthr \in Stall
    /\ qok = TRUE /\ sok = TRUE
    /\ sinceWake = WakeHold + 2
    /\ awake = 0

LeftAlone == rst_n_q /\ quiesced_q /\ ~wake_q /\ ~override_q

\* A whole hold, in which the count may stand still, and a whole count.
SleepLatency == HystMax + WakeHold - 1

\* The length of a run and whether its threshold has been steady.
RunNext(report, run) == IF rst_n_q /\ report THEN Upto(run, RunMax) ELSE 0
SteadyNext(report, run, ok, thr, threshold) ==
    ~rst_n_q \/ ~report \/ run = 0 \/ (ok /\ threshold = thr)

EpisodeStep(rst_n, quiesced, stalled, override, hq, hs, wake) ==
    /\ GateEdge(rst_n, quiesced, stalled, override, hq, hs, wake)
    /\ qrun' = RunNext(quiesced_q, qrun)
    /\ srun' = RunNext(stalled_q, srun)
    /\ qok' = SteadyNext(quiesced_q, qrun, qok, qthr, hq)
    /\ sok' = SteadyNext(stalled_q, srun, sok, sthr, hs)
    /\ qthr' = hq
    /\ sthr' = hs
    /\ sinceWake' = IF rst_n_q /\ wake THEN 1
                    ELSE IF rst_n_q THEN Upto(sinceWake, WakeHold + 2)
                    ELSE WakeHold + 2
    /\ awake' = CASE ~LeftAlone -> 0
                  [] LeftAlone /\ Gated -> awake
                  [] OTHER -> Upto(awake, SleepLatency + 1)

-----------------------------------------------------------------------------

Awake == sinceWake <= WakeHold + 1
RunDone(run, thr) == run # 0 /\ run >= thr

(***************************************************************************)
(* The gate is closed exactly when a run has lasted its threshold, nothing *)
(* woke the block in the last WakeHold + 1 cycles, and neither reset nor   *)
(* override holds it open: wherever each CSR has been steady through its   *)
(* run.  The two counters share a clock enable, count to their thresholds  *)
(* only, and compute their flags a cycle ahead.                            *)
(***************************************************************************)
Episode ==
    qok /\ sok =>
      (Gated <=> /\ rst_n_q /\ ~override_q /\ ~Awake
                 /\ RunDone(qrun, qthr) \/ RunDone(srun, sthr))

(***************************************************************************)
(* wake_second_edge and wake_hold: whatever the block reports and the CSRs *)
(* hold, the edge after next and the WakeHold behind it reach it, the     *)
(* last of them WakeHold + 1 = CCV_WAKE_LAT cycles on (wake_keeps_rx).     *)
(***************************************************************************)
WakeHeldOpen == Awake /\ rst_n_q => ~Gated

(***************************************************************************)
(* A block that stays quiesced and is left alone spends no more cycles     *)
(* awake than the hold of its last wake and a count to the largest         *)
(* threshold take: however the thresholds are rewritten meanwhile, and     *)
(* whatever `stalled` does to the clock enable the two counters share.     *)
(***************************************************************************)
SleepsInTime == awake <= SleepLatency

(***************************************************************************)
(* The gate closes when it should and no earlier, and a block left alone   *)
(* does sleep.                                                             *)
(***************************************************************************)
GateOnTime == Episode /\ SleepsInTime
=============================================================================
