------------------------------ MODULE NgdCheck ------------------------------
(***************************************************************************)
(* check-ngd end to end on one block: a leaf module's netlist as ABC maps  *)
(* it, twice (NgdTiming), the depths kept of the two, and the block built  *)
(* of that leaf's instances and the levels around them (NgdBlock).         *)
(***************************************************************************)
EXTENDS NgdBlock

CONSTANTS
    Mapped,    \* the netlists ABC may make of the leaf: a set per function
    Shapes,    \* the levels there may be: their wires and their flops' paths
    InBudgets, OutBudgets  \* the entries the budget files may have

ASSUME MappedAssumption == \A f \in Mapped : \A n \in f : Netlist(n)

VARIABLES
    net        \* the netlist timed, or NoNet once the block is put together

vars == <<net, blockVars>>

\* The unit of the leaf: its one input "i", its one output "o", and the
\* registers behind that.
Measured(t) ==
    /\ rr' = [x \in {"leaf"} |-> t.rr]
    /\ ro' = [o \in {"o"} |-> t.ro["o"]]
    /\ p_ro' = [o \in {"o"} |-> t.p_ro["o"]]
    /\ ir' = [i \in {"i"} |-> t.ir["i"]]
    /\ thru' = [e \in {<<"i", "o">>} |-> t.io[e]]
    /\ reg' = [q \in DOMAIN t.q_out |-> [flop |-> t.q_flop[q], out |-> t.q_out[q]]]

NoNet == [ins |-> {}, outs |-> {}, latches |-> {}, gate |-> <<>>]
None == [x \in {} |-> NEG]

Init ==
    /\ net \in UNION Mapped
    /\ rr = None /\ ro = None /\ p_ro = None /\ ir = None /\ thru = None
    /\ reg = None /\ io = None /\ p_io = None /\ lvl_ir = None
    /\ lvl_ro = None /\ budgets = None /\ unitAt = TRUE
    /\ passed = "timing" /\ at = "unlaunched" /\ elapsed = 0 /\ logic = 0
    /\ fromPort = FALSE /\ slack = 0

\* Unit.measure: the netlist mapped both ways, net by map.
Measure ==
    /\ passed = "timing" /\ passed' = "measured"
    /\ \E function \in Mapped : net \in function /\ \E map_r \in function :
         Measured(map_and_time(Timing(net), Timing(map_r)))
    /\ net' = NoNet
    /\ UNCHANGED <<budgets, io, p_io, lvl_ir, lvl_ro, unitAt, signal>>

\* The leaf's budget file.
BudgetLeaf ==
    /\ passed = "measured" /\ passed' = "budgeted"
    /\ \E bi \in InBudgets, bo \in OutBudgets :
         budgets' = [p \in {"i", "o"} |-> IF p = "i" THEN bi ELSE bo]
    /\ UNCHANGED <<net, rr, ro, p_ro, ir, thru, reg, io, p_io, lvl_ir, lvl_ro,
                   unitAt, signal>>

\* policy, of the leaf's unit: with a finding, the block is refused whatever
\* it is built of.
RefuseUnit ==
    /\ passed = "budgeted" /\ findings # {} /\ passed' = "refused"
    /\ UNCHANGED <<net, budgets, ro, ir, p_ro, thru, reg, rr, io, p_io, lvl_ir,
                   lvl_ro, unitAt, signal>>

\* The block the leaf is put in, and its levels' budget files.  A path of a
\* level is a wire, a wire with the loads of a buffer tree, or logic.
Assemble ==
    /\ passed = "budgeted" /\ findings = {} /\ passed' = "checking"
    /\ \E s \in Shapes :
         /\ \E d, l \in [s.wires -> 0..1] :
              /\ \A e \in s.wires : l[e] <= d[e]
              /\ io' = [e \in Pin \X Pin |-> IF e \in s.wires THEN d[e] ELSE NEG]
              /\ p_io' = [e \in Pin \X Pin |-> IF e \in s.wires THEN l[e] ELSE NEG]
         /\ \E d \in 0..(IF s.launches \union s.captures = {} THEN 0 ELSE STAGE) :
              /\ lvl_ir' = [p \in Pin |-> IF p \in s.captures THEN d ELSE NEG]
              /\ lvl_ro' = [p \in Pin |-> IF p \in s.launches THEN d ELSE NEG]
         /\ \E b \in (IF s.input THEN InBudgets ELSE OutBudgets) :
              budgets' = [p \in {PortOf[x] : x \in Pin} |->
                            IF p \in DOMAIN budgets THEN budgets[p]
                            ELSE IF p = (IF s.input THEN "m.i" ELSE "m.o") THEN b
                            ELSE [kind |-> "none", v |-> 0]]
    /\ unitAt' \in BOOLEAN
    /\ UNCHANGED <<net, rr, ro, p_ro, ir, thru, reg, signal>>

Next == Measure \/ BudgetLeaf \/ RefuseUnit \/ Assemble \/ (BlockNext /\ UNCHANGED net)

Spec == Init /\ [][Next]_vars

-----------------------------------------------------------------------------

(***************************************************************************)
(* Timing's forward and backward passes (every depth rule from the first,  *)
(* NGD-7 from the second) measure one thing, each pin of each gate at its  *)
(* own delay: each depth is the longest of the ways through the gates,     *)
(* with the fanout term where the rule counts it, and a flop's reach seen  *)
(* from the flop is that seen from where it ends.                          *)
(***************************************************************************)
PassesAgree ==
    passed = "timing" =>
      LET t == Timing(net)
          Q == Q_nets(net)
          D == D_nets(net)
          longest(from, x, fan) == MaxOf(Ways(net, from, fan)[x])
      IN  /\ t.p_rr = MaxOf({t.q_flop[q] : q \in Q})
          /\ \A o \in net.outs : t.p_ro[o] = MaxOf({t.q_out[q][o] : q \in Q})
          /\ \A q \in Q : t.q_flop[q] = MaxOf({longest(q, d, FALSE) : d \in D})
          /\ t.rr = MaxOf({longest(e[1], e[2], TRUE) : e \in Q \X D})
          /\ \A o \in net.outs : t.ro[o] = MaxOf({longest(q, o, TRUE) : q \in Q})
          /\ \A i \in net.ins :
               /\ t.ir[i] = MaxOf({longest(i, d, TRUE) : d \in D})
               /\ \A o \in net.outs : /\ t.io[<<i, o>>] = longest(i, o, TRUE)
                                      /\ t.p_io[<<i, o>>] = longest(i, o, FALSE)

=============================================================================
