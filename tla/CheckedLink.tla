---------------------------- MODULE CheckedLink ----------------------------
(***************************************************************************)
(* A credited link with the interface checker at both of its ends, as      *)
(* fv_link.sv and the generated top instantiate it: one at the sender's    *)
(* port, one behind the N repeater stages.  The checkers only observe.     *)
(***************************************************************************)
EXTENDS LinkTiming

CONSTANTS
    OutMax, AgeMax,   \* the checkers' (CreditChecker)
    Drains            \* the receivers there are: one drains "freely", or
                      \* "always" and never stalls (FIXED_LAT)

\* The widths CW and TW: the outstanding counter holds at least one more than
\* the credits there are, an age at least one.
ASSUME OutMaxAssumption == OutMax \in Nat /\ OutMax > Depth
ASSUME AgeMaxAssumption == AgeMax \in Nat \ {0}
ASSUME DrainsAssumption == Drains \subseteq {"freely", "always"}

VARIABLES
    srcOut, srcAge, srcStall,    \* the checker at the sender's port
    dstOut, dstAge, dstStall,    \* the checker at the receiver's port
    drains                       \* the receiver this link has

Src == INSTANCE CreditChecker WITH
         DEPTH <- Depth, StallLag <- 1 + Bit(Built),
         outstanding <- srcOut, age_q <- srcAge, stall_h <- srcStall

Dst == INSTANCE CreditChecker WITH
         DEPTH <- Depth, StallLag <- 1 + Bit(Built) + 2*N,
         outstanding <- dstOut, age_q <- dstAge, stall_h <- dstStall

checkerVars == <<srcOut, srcAge, srcStall, dstOut, dstAge, dstStall>>

CheckedInit == /\ Init /\ TimingInit /\ Src!CheckerInit /\ Dst!CheckerInit
               /\ drains \in Drains

CheckedNext ==
    \E want, pop_en, stall_in \in BOOLEAN :
        /\ drains = "always" => pop_en /\ ~stall_in
        /\ Cycle(want, pop_en, stall_in)
        /\ Timed(pop_en, stall_in)
        /\ Src!Watch(v[0], cr[0], st[0])
        /\ Dst!Watch(v[N], cr[N], st[N])
        /\ UNCHANGED drains

CheckedSpec ==
    CheckedInit /\ [][CheckedNext]_<<vars, timingVars, checkerVars, drains>>

-----------------------------------------------------------------------------

(***************************************************************************)
(* Neither checker ever reports the sender or the receiver of a correct    *)
(* link: no overrun, no credit for nothing (not even in the cycle of a     *)
(* send), and no valid the stall seen StallLag cycles ago should have      *)
(* stopped, at either end of the repeaters.  On a channel whose receiver   *)
(* takes every message as it lands (A-47), each credit is back within the  *)
(* round trip, less the stages between the checker and the sender, whether *)
(* or not the boundary flops are the wrapper's (fixed_latency_prompt).     *)
(***************************************************************************)
NoFalseReport ==
    /\ Src!no_overrun /\ Dst!no_overrun
    /\ Src!no_phantom_credit(cr[0]) /\ Dst!no_phantom_credit(cr[N])
    /\ Src!stall_honoured(v[0]) /\ Dst!stall_honoured(v[N])
    /\ drains = "always" => /\ Src!fixed_latency_prompt(2 + 2*N)
                            /\ Dst!fixed_latency_prompt(2)
=============================================================================
