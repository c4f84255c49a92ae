------------------------------- MODULE CgUnit -------------------------------
(***************************************************************************)
(* One unit of tools/check-cg.py: a module's netlist and its clock gates   *)
(* (Netlist, Group), the bench's scenarios replayed on it cycle by cycle   *)
(* (read_vcd, Unit.replay, Unit.stats), and the findings read off both.    *)
(*                                                                         *)
(* A netlist is a record: flop, a function from each flop to its cell      *)
(*   [type, e, epol, r, rpol, d, reg]: the Yosys cell, its enable and      *)
(*   reset nets and their polarities, its D net, its register's name;      *)
(* logic, a function from a net to the nets it is the AND of; inputs, outs *)
(* (ports; an output is a flop or an input); icgs, enable nets of explicit *)
(* clock gates; reset, the reset port and rhigh, its polarity; text, the   *)
(* statement of each always_ff of the source.                              *)
(***************************************************************************)
EXTENDS CgForm

CONSTANTS
    Bodies,              \* statements of an always_ff the form check is given
    Unit,                \* the netlists there may be
    Scenarios,           \* the number of scenarios, least active first
    Cycles,              \* the cycles the bench runs a scenario for
    MIN_FLOPS, NGD_MAX, DCGE_MIN, MIN_CYCLES  \* CCV_CG_MIN_FLOPS, ...

VARIABLES
    body,     \* the always_ff the form check reads, before the units
    u,        \* the unit
    group,    \* each flop's group, and how many stages capture the reset
    stages,
    sc,       \* the scenario being replayed; 0 before any, Scenarios + 1 when
              \* measured
    bench,    \* the bench's flops
    obs,      \* the replay's flops, before this cycle's edge
    snaps,    \* the last snapshots, as far back as stats looks
    seen,     \* a reset has been on
    t,        \* cycles replayed
    tally,    \* what stats counts
    data,     \* scenario -> its tally, once replayed
    errors    \* a replay's outputs differed from the bench's

vars == <<body, u, group, stages, sc, bench, obs, snaps, seen, t, tally, data, errors>>

Flop == DOMAIN u.flop
Regs == {u.flop[f].reg : f \in Flop}

\* A net's value: an input's from the snapshot, a flop's, or its logic's.
Val(ins, q) ==
    LET v[n \in u.inputs \union Flop \union DOMAIN u.logic] ==
          IF n \in u.inputs THEN ins[n]
          ELSE IF n \in Flop THEN q[n]
          ELSE \A m \in u.logic[n] : v[m]
    IN  v

\* The cells (external: Yosys's simulation library).
Clocked(ins, q) ==
    LET v == Val(ins, q) IN
    [f \in Flop |->
       LET c     == u.flop[f]
           on    == c.type \notin {"DFF", "SDFF"} => v[c.e] = c.epol
           reset == c.type \in {"SDFF", "SDFFE", "SDFFCE"} /\ v[c.r] = c.rpol
       IN  CASE reset /\ c.type # "SDFFCE" -> FALSE
             [] reset /\ on               -> FALSE
             [] on                        -> v[c.d]
             [] OTHER                     -> q[f]]

-----------------------------------------------------------------------------
\* Netlist.

\* The flops that capture the reset straight, in a chain, with their stages.
ResetNets ==
    LET stage[k \in 0..Cardinality(Flop)] ==
          IF k = 0 THEN {u.reset}
          ELSE {f \in Flop : /\ u.flop[f].type = "DFF" /\ u.flop[f].d \in stage[k - 1]
                             /\ \A j \in 0..k - 1 : f \notin stage[j]}
    IN  stage
reset_nets == UNION {ResetNets[k] : k \in DOMAIN ResetNets}
ResetDepth == CHOOSE k \in DOMAIN ResetNets :
                /\ ResetNets[k] # {} /\ \A j \in DOMAIN ResetNets : ResetNets[j] # {} => j <= k

\* Mutant of Key: a reset of either polarity is taken for the unit's.
Key_any_polarity(f) ==
    LET c == u.flop[f] IN
    CASE c.type \in {"DFF", "SDFF"} -> <<"ungated", c.reg>>
      [] c.type = "SDFFE" /\ c.r \notin reset_nets -> <<"ER", c.e, c.epol, c.r, c.rpol>>
      [] OTHER -> <<"E", c.e, c.epol>>

\* The group a flop is clocked with: its enable, and its reset where that is
\* one of its own, not the unit's.
Key(f) ==
    LET c == u.flop[f] IN
    CASE c.type \in {"DFF", "SDFF"} -> <<"ungated", c.reg>>
      [] c.type = "SDFFE" /\ ~(c.r \in reset_nets /\ c.rpol = u.rhigh) ->
           <<"ER", c.e, c.epol, c.r, c.rpol>>
      [] OTHER -> <<"E", c.e, c.epol>>
Groups == {group[f] : f \in Flop}
In(g) == {f \in Flop : group[f] = g}

\* Group.gated: below MIN_FLOPS no clock gate is built.
gated(g) == g[1] # "ungated" /\ Cardinality(In(g)) >= MIN_FLOPS
Enabled(g, v) == \/ g[1] = "ungated"
                 \/ v[g[2]] = g[3]
                 \/ g[1] = "ER" /\ v[g[4]] = g[5]

\* cone_inputs, and cone_blif and depths: a flop, an input: depth 0 (the
\* cone's depth is external: ABC).
Cone(n) == LET c[m \in u.inputs \union Flop \union DOMAIN u.logic] ==
                 {m} \union (IF m \in DOMAIN u.logic THEN UNION {c[x] : x \in u.logic[m]}
                             ELSE {})
           IN  c[n]
cone_inputs(n) == Cone(n) \cap u.inputs
depth(n) == Cardinality(Cone(n) \cap DOMAIN u.logic)
EnableNets(g) == IF g[1] = "ER" THEN {g[2], g[4]} ELSE {g[2]}

\* Where the reset port is used other than on a capturing flop's D pin.
reset_loads ==
    {x \in Flop : u.reset \in {u.flop[x].e, u.flop[x].r}
                  \/ (u.flop[x].d = u.reset /\ u.flop[x].type # "DFF")}
    \union {n \in DOMAIN u.logic : u.reset \in u.logic[n]}
    \union (u.outs \cap {u.reset})

-----------------------------------------------------------------------------
\* The replay.

NoTally == [counted |-> 0, toggles |-> 0, en |-> [g \in Groups |-> 0],
            use |-> [g \in Groups |-> 0], changes |-> [f \in Regs |-> 0],
            loose |-> [r \in Regs |-> 0]]

Init ==
    /\ body \in Bodies
    /\ u = <<>> /\ group = <<>> /\ stages = 0 /\ sc = 0 /\ t = 0 /\ snaps = <<>> /\ seen = FALSE
    /\ bench = <<>> /\ obs = <<>> /\ tally = <<>> /\ data = <<>> /\ errors = FALSE

\* Unit.synth, and the first scenario's bench: its flops start as anything,
\* the harness's as 0.
Synth ==
    /\ sc = 0
    /\ u' \in Unit /\ sc' = 1
    /\ group' = [f \in DOMAIN u'.flop |-> Key(f)'] /\ stages' = ResetDepth'
    /\ bench' \in [DOMAIN u'.flop -> BOOLEAN]
    /\ obs' = [f \in DOMAIN u'.flop |-> FALSE]
    /\ tally' = NoTally' /\ body' = <<"empty">>
    /\ UNCHANGED <<snaps, seen, t, data, errors>>

\* read_vcd: a rising edge's snapshot is of the values before its time step,
\* of which the lines before the clock's may already have changed any.
Snapshot(start, cur) == start

Resetting(snap) == snap[u.reset] = u.rhigh

\* stats: a reset was seen, and no reset since as many cycles as the flops
\* that capture it have stages.
Live(ss, s) ==
    s /\ \A k \in 0..stages : Len(ss) - k >= 1 => ~Resetting(ss[Len(ss) - k])

\* The registers whose flops in F differ between two cycles.
Changed(F, a, b) == {u.flop[f].reg : f \in {x \in F : a[x] # b[x]}}
Loose == {f \in Flop : ~gated(group[f])}

\* stats, of cycle a once the next cycle's flops are known.
Counted(v, a, b) ==
    [tally EXCEPT
       !.counted = @ + 1,
       !.en  = [g \in Groups |-> @[g] + (IF Enabled(g, v) THEN 1 ELSE 0)],
       !.use = [g \in Groups |-> @[g] + (IF Enabled(g, v) /\ \E f \in In(g) : a[f] # b[f]
                                         THEN 1 ELSE 0)],
       !.changes = [r \in Regs |-> @[r] + (IF r \in Changed(Flop, a, b) THEN 1 ELSE 0)],
       !.loose = [r \in Regs |-> @[r] + (IF r \in Changed(Loose, a, b) THEN 1 ELSE 0)]]

\* One cycle: the bench's flops and the replay's take the same edge, the
\* replay from the snapshot.  The last cycle has no next to compare with.
Cycle ==
    /\ sc \in 1..Scenarios /\ t < Cycles /\ ~errors
    /\ \E start \in [u.inputs -> BOOLEAN] :
         LET cur  == [p \in u.inputs |-> ~start[p]]
             snap == Snapshot(start, cur)
             ss   == Append(snaps, snap)
             s    == seen \/ Resetting(snap)
             next == Clocked(snap, obs)
             outs(v, q) == [o \in u.outs |-> Val(v, q)[o]]
         IN  /\ bench' = Clocked(start, bench)
             /\ errors' = (outs(snap, obs) # outs(start, bench))
             /\ obs' = next
             /\ snaps' = SubSeq(ss, IF Len(ss) > stages THEN Len(ss) - stages ELSE 1,
                                Len(ss))
             /\ seen' = s
             /\ LET c == IF Live(ss, s) /\ t < Cycles - 1
                         THEN Counted(Val(snap, obs), obs, next) ELSE tally
                    last == snaps[Len(snaps)]
                IN  tally' = IF snaps # <<>> /\ Live(ss, s) /\ Live(snaps, seen)
                             THEN [c EXCEPT !.toggles =
                                     @ + Cardinality({p \in u.inputs : snap[p] # last[p]})]
                             ELSE c
    /\ t' = t + 1
    /\ UNCHANGED <<body, u, group, stages, sc, data>>

\* The next scenario's VCD and its own run of the harness.
NextScenario ==
    /\ sc \in 1..Scenarios /\ t = Cycles /\ ~errors
    /\ data' = Append(data, tally)
    /\ sc' = sc + 1 /\ t' = 0 /\ snaps' = <<>> /\ seen' = FALSE
    /\ tally' = NoTally
    /\ bench' \in (IF sc = Scenarios THEN {[f \in Flop |-> FALSE]} ELSE [Flop -> BOOLEAN])
    /\ obs' = [f \in Flop |-> FALSE]
    /\ UNCHANGED <<body, u, group, stages, errors>>

Next == Synth \/ Cycle \/ NextScenario
Spec == Init /\ [][Next]_vars

-----------------------------------------------------------------------------
\* The findings, as <<rule, registers>>, of a measured unit.

Measured == sc > Scenarios
Under(n, of) == 100 * n < DCGE_MIN * (IF of = 0 THEN 1 ELSE of)

\* dcge is None of a gate never enabled.
unit_findings ==
    {<<"CG-2", {u.flop[f].reg : f \in In(g)}>> :
       g \in {x \in Groups : gated(x) /\ \E n \in EnableNets(x) : depth(n) > NGD_MAX}}
    \union {<<"CG-3", {u.flop[f].reg : f \in In(g)}>> :
       g \in {x \in Groups : gated(x) /\ \E s \in 1..Scenarios :
                data[s].en[x] # 0 /\ Under(data[s].use[x], data[s].en[x])}}
    \union {<<"CG-2", {n}>> : n \in {x \in u.icgs : depth(x) > NGD_MAX}}

source_findings ==
    {<<"CG-5", {u.flop[f].reg : f \in In(g)}>> :
       g \in {x \in Groups : gated(x) /\ \E n \in EnableNets(x) : cone_inputs(n) # {}}}
    \union {<<"CG-5", {n}>> : n \in {x \in u.icgs : cone_inputs(x) # {}}}
    \union {<<"RST-1", {u.reset}>> : x \in (IF reset_loads = {} THEN {} ELSE {1})}

Activity(a, b) ==  \* the first is less active than the second
    a.toggles * (IF b.counted = 0 THEN 1 ELSE b.counted)
      < b.toggles * (IF a.counted = 0 THEN 1 ELSE a.counted)
scenario_findings ==
    {<<"CG-3", {}>> : s \in {x \in 1..Scenarios : data[x].counted < MIN_CYCLES}}
    \union {<<"CG-3", {}>> : s \in {x \in 1..Scenarios - 1 : ~Activity(data[x], data[x + 1])}}

Forms == UNION {form_findings(Written(s)) : s \in u.text}
EveryCycle == UNION {f[2] : f \in {x \in Forms : x[1] = "every cycle"}}

\* form_check: a register written every cycle is excused where it changes
\* often enough in every scenario.
form_check ==
    {<<"CG-1", {r}>> : r \in {x \in EveryCycle :
        x \notin Regs \/ \E s \in 1..Scenarios :
                            Under(data[s].changes[x], data[s].counted)}}
    \union {<<"CG-1", {r}>> : r \in UNION {f[2] : f \in {x \in Forms : x[1] # "every cycle"}}}

\* Mutant of coverage_check: a group too small for a clock gate counts as one.
coverage_check_small ==
    {<<"CG-4", {r}>> : r \in {x \in {u.flop[f].reg : f \in {y \in Flop : group[y][1] = "ungated"}} :
        x \notin EveryCycle /\ \E s \in 1..Scenarios :
                                  Under(data[s].loose[x], data[s].counted)}}

\* coverage_check: the flops in no clock gate, register by register, but for
\* those CG-1 judges.
coverage_check ==
    {<<"CG-4", {r}>> : r \in {x \in {u.flop[f].reg : f \in Loose} :
        x \notin EveryCycle /\ \E s \in 1..Scenarios :
                                  Under(data[s].loose[x], data[s].counted)}}

Findings == unit_findings \union source_findings \union scenario_findings
            \union form_check \union coverage_check

-----------------------------------------------------------------------------

(***************************************************************************)
(* The grouping and the window stats counts in agree with the cells: in a  *)
(* counted cycle no flop changes unless its group is enabled, so the clock *)
(* gate the rules suppose would have clocked every change.                 *)
(***************************************************************************)
GateExact ==
    [][sc > 0 /\ t' = t + 1 /\ tally'.counted > tally.counted =>
         \A f \in Flop : obs'[f] # obs[f] =>
            Enabled(group[f], Val(snaps'[Len(snaps')], obs))]_vars

(***************************************************************************)
(* No register slips between the rules: of a measured unit, a register no  *)
(* finding names is clocked by gates alone, or changes in the share of     *)
(* counted cycles the rules ask, in every scenario.                        *)
(***************************************************************************)
Judged ==
    Measured =>
      \A r \in Regs \ UNION {f[2] : f \in Findings} :
        \/ \A f \in Flop : u.flop[f].reg = r => gated(group[f])
        \/ \A s \in 1..Scenarios : 100 * data[s].changes[r] >= DCGE_MIN * data[s].counted

(***************************************************************************)
(* The form check of each always_ff of the source: the parser reads back   *)
(* what is written, and no register that can be written with the reset and *)
(* every enable low goes unreported.                                       *)
(***************************************************************************)
ConditionsOff == {c \in UNION {{<<x>>, <<"!", x>>} : x \in Ident} :
                    (named(c) /\ Bare(c)[1] \in EnableName) \/ is_reset(c)}
FormSound ==
    /\ stmt(Written(body), 1) = [s |-> body, next |-> Len(Written(body)) + 1]
    /\ MayWrite(body, ConditionsOff) \subseteq Reported(Written(body))
=============================================================================
