----------------------------- MODULE LinkTiming -----------------------------
(***************************************************************************)
(* CreditLink with the history that its timing contracts speak of: for how *)
(* long the receiver has drained without stalling, for how long its stall  *)
(* has been up, and what landed meanwhile.  The contracts are the numbers  *)
(* of params/ccv_params.json that every block is built against: the credit *)
(* depth (the credit loop), the rescue depth and the drain wait.           *)
(***************************************************************************)
EXTENDS CreditLink

VARIABLES
    greedy,    \* cycles in a row the receiver drained and did not stall
    stalled,   \* cycles in a row its stall has been on the wire
    rescued    \* messages landed in those cycles

timingVars == <<greedy, stalled, rescued>>

\* CCV_RT_ABUT and CCV_CREDIT_TURNAROUND, grown by the stages of the link.
RoundTrip  == 2 + 2*N
CreditLoop == RoundTrip + 2

\* CCV_RESCUE_DEPTH and CCV_DRAIN_WAIT: the round trip, and the cycle a stall
\* spends in the sender's interface flop where there is one.
RescueDepth == RoundTrip + Bit(Built)
DrainWait   == RoundTrip + Bit(Built)

\* The counters stop where no property tells larger values apart.
Saturate(x, max) == IF x < max THEN x + 1 ELSE max

TimingInit == greedy = 0 /\ stalled = 0 /\ rescued = 0

Timed(pop_en, stall_in) ==
    /\ greedy' = IF pop_en /\ ~stall_in THEN Saturate(greedy, CreditLoop) ELSE 0
    /\ stalled' = IF st'[N] THEN Saturate(stalled, DrainWait + 1) ELSE 0
    /\ rescued' = IF st'[N] THEN rescued + Bit(landing') ELSE 0

-----------------------------------------------------------------------------

(***************************************************************************)
(* Full bandwidth (Q-43, fv_link.sv `full_bandwidth`), from any past and   *)
(* not only out of reset: once the receiver has drained for a credit loop, *)
(* the sender may launch in every cycle, whatever backlog and stalls came  *)
(* before.                                                                 *)
(***************************************************************************)
FullBandwidth == greedy >= CreditLoop => CanGo

(***************************************************************************)
(* A stalling receiver that has CCV_RESCUE_DEPTH places left catches all   *)
(* that was in flight: no more than that lands after its stall goes up.    *)
(* And CCV_DRAIN_WAIT cycles after the stall went up nothing is in flight, *)
(* so the receiver may sleep, change its width or be demoted.              *)
(***************************************************************************)
StallTakesHold == /\ rescued <= RescueDepth
                  /\ stalled > DrainWait => OnWire = 0
=============================================================================
