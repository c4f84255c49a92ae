----------------------------- MODULE ClockGate -----------------------------
(***************************************************************************)
(* A block's clock gate (rtl/clk/ccv_common_clk.sv): when a block sleeps,  *)
(* and what opens its clock again.  One step is one edge of the ungated    *)
(* clock; the gate's inputs are chosen freely in every cycle, the reset    *)
(* and the CSR thresholds included.  The test enable is off.               *)
(***************************************************************************)
EXTENDS Integers

CONSTANTS
    HystMax,     \* largest threshold, 2^HYST_W - 1, of a CSR a bit wide or more
    WakeHold,    \* edges held open after the one a wake opens
    Quiesce,     \* values the CSR hyst_quiesce may hold
    Stall        \* values the CSR hyst_stall may hold

ASSUME HystAssumption ==
    /\ HystMax \in Nat \ {0}
    /\ Quiesce \subseteq 0..HystMax
    /\ Stall \subseteq 0..HystMax
ASSUME WakeAssumption == WakeHold \in Nat \ {0}

VARIABLES
    rst_n_q, quiesced_q, stalled_q, override_q,  \* the inputs, flopped
    q_run_q, s_run_q,      \* consecutive quiesced / stalled cycles
    q_full_q, s_full_q,    \* whether each has reached its threshold
    wake_q, hold_q         \* the registered wake; edges still owed to it

inputVars == <<rst_n_q, quiesced_q, stalled_q, override_q>>
hystVars  == <<q_run_q, s_run_q, q_full_q, s_full_q>>
gateVars  == <<inputVars, hystVars, wake_q, hold_q>>

GateType ==
    /\ rst_n_q \in BOOLEAN /\ quiesced_q \in BOOLEAN
    /\ stalled_q \in BOOLEAN /\ override_q \in BOOLEAN
    /\ q_run_q \in 0..HystMax /\ s_run_q \in 0..HystMax
    /\ q_full_q \in BOOLEAN /\ s_full_q \in BOOLEAN
    /\ wake_q \in BOOLEAN
    /\ hold_q \in 0..WakeHold

-----------------------------------------------------------------------------

Sleep == (q_full_q \/ s_full_q) /\ hold_q = 0

\* The coming edge will not reach the block.
Gated == Sleep /\ ~wake_q /\ ~override_q /\ rst_n_q

\* In reset; the flopped reports are whatever they were.
GateInit ==
    /\ rst_n_q = FALSE
    /\ quiesced_q \in BOOLEAN /\ stalled_q \in BOOLEAN
    /\ override_q \in BOOLEAN
    /\ q_run_q = 0 /\ s_run_q = 0
    /\ q_full_q = FALSE /\ s_full_q = FALSE
    /\ wake_q = FALSE /\ hold_q = 0

\* A counter moves when it counts up to its threshold or clears.
Moves(report, run, full) == IF report THEN ~full ELSE run # 0

\* The counters and their flags share one clock enable: one of them moving
\* clocks both.  A flag is computed a cycle ahead, from the count it is
\* loaded beside.  Counters are HYST_W bits wide, the compare one more.
CountNext(report, run, full) ==
    IF report THEN (run + IF full THEN 0 ELSE 1) % (HystMax + 1) ELSE 0

\* Mutant of FullNext: the compare is as wide as the counter, so a count at
\* the largest threshold wraps.
FullNextWraps(report, run, threshold) ==
    report /\ (run + 1) % (HystMax + 1) >= threshold

FullNext(report, run, threshold) == report /\ run + 1 >= threshold

Hysteresis(hyst_quiesce, hyst_stall) ==
    IF \/ Moves(quiesced_q, q_run_q, q_full_q)
       \/ Moves(stalled_q, s_run_q, s_full_q)
    THEN /\ q_run_q' = CountNext(quiesced_q, q_run_q, q_full_q)
         /\ s_run_q' = CountNext(stalled_q, s_run_q, s_full_q)
         /\ q_full_q' = FullNext(quiesced_q, q_run_q, hyst_quiesce)
         /\ s_full_q' = FullNext(stalled_q, s_run_q, hyst_stall)
    ELSE UNCHANGED hystVars

\* Mutant of Wake: the hold is one edge short.
WakeShort(wake) ==
    /\ wake_q' = wake
    /\ hold_q' = IF wake_q THEN WakeHold - 1
                 ELSE IF hold_q # 0 THEN hold_q - 1 ELSE 0

\* Mutant of Wake: the wake flop is on the gated clock.
WakeAsleep(wake) ==
    /\ wake_q' = IF Gated THEN wake_q ELSE wake
    /\ hold_q' = IF wake_q THEN WakeHold
                 ELSE IF hold_q # 0 THEN hold_q - 1 ELSE 0

\* A registered wake opens the clock and is owed WakeHold edges more.
Wake(wake) ==
    /\ wake_q' = wake
    /\ hold_q' = IF wake_q THEN WakeHold
                 ELSE IF hold_q # 0 THEN hold_q - 1 ELSE 0

InReset ==
    /\ q_run_q' = 0 /\ s_run_q' = 0
    /\ q_full_q' = FALSE /\ s_full_q' = FALSE
    /\ wake_q' = FALSE /\ hold_q' = 0

\* One edge of the ungated clock.
GateEdge(rst_n, quiesced, stalled, override, hyst_quiesce, hyst_stall, wake) ==
    /\ rst_n_q' = rst_n
    /\ quiesced_q' = quiesced
    /\ stalled_q' = stalled
    /\ override_q' = override
    /\ IF rst_n_q THEN Hysteresis(hyst_quiesce, hyst_stall) /\ Wake(wake)
                  ELSE InReset
=============================================================================
