--------------------------- MODULE CreditChecker ---------------------------
(***************************************************************************)
(* The interface checker ccv_common_chk_credit: one per end of every       *)
(* channel slot, watching valid, credit and stall go by and keeping its    *)
(* own account of what is outstanding and for how long.  Each property is  *)
(* judged on the wires of the current cycle and on the account up to the   *)
(* cycle before; Watch is the clock edge.                                  *)
(***************************************************************************)
EXTENDS Integers

CONSTANTS
    DEPTH,         \* credits of the slot
    OutMax,        \* largest value of the outstanding counter, all ones
    AgeMax,        \* largest value of an age, all ones
    StallLag       \* SL: 1 + SRC_BOUNDARY + 2 * SRC_STAGES

VARIABLES outstanding, age_q, stall_h

Slots == 0..DEPTH     \* QD = DEPTH + 1 ages: one past the limit

CheckerInit ==
    /\ outstanding = 0
    /\ age_q = [g \in Slots |-> 0]
    /\ stall_h = [i \in 1..StallLag |-> FALSE]

\* Every outstanding message is one edge older, saturating.
Aged(g) == IF g < outstanding /\ age_q[g] # AgeMax THEN age_q[g] + 1
                                                  ELSE age_q[g]

\* A credit retires the oldest message; the others move up.
Shifted(pop, g) == IF ~pop THEN Aged(g)
                   ELSE IF g = DEPTH THEN 0 ELSE Aged(g + 1)

\* Mutant of Watch: a credit in the cycle of a send is not counted.
WatchMissesPair(valid, credit, stall) ==
    LET pop == credit /\ ~valid /\ outstanding # 0
    IN  /\ age_q' = [g \in Slots |-> IF valid /\ g = outstanding THEN 1
                                                         ELSE Shifted(pop, g)]
        /\ outstanding' = CASE valid /\ outstanding # OutMax -> outstanding + 1
                             [] pop -> outstanding - 1
                             [] OTHER -> outstanding
        /\ stall_h' = [i \in 1..StallLag |-> IF i = 1 THEN stall
                                                      ELSE stall_h[i-1]]

\* A credit for nothing is reported and moves no count.
Watch(valid, credit, stall) ==
    LET pop  == credit /\ outstanding # 0
        tail == IF pop THEN outstanding - 1 ELSE outstanding
    IN  /\ age_q' = [g \in Slots |-> IF valid /\ g = tail THEN 1
                                                         ELSE Shifted(pop, g)]
        /\ outstanding' = IF valid /\ ~pop /\ outstanding # OutMax
                            THEN outstanding + 1
                          ELSE IF ~valid /\ pop THEN outstanding - 1
                          ELSE outstanding
        /\ stall_h' = [i \in 1..StallLag |-> IF i = 1 THEN stall
                                                      ELSE stall_h[i-1]]

no_overrun == outstanding <= DEPTH
no_phantom_credit(credit) == ~(credit /\ outstanding = 0)
stall_honoured(valid) == ~(stall_h[StallLag] /\ valid)
fixed_latency_prompt(prompt) == age_q[0] <= prompt
=============================================================================
