------------------------------ MODULE CgPolicy ------------------------------
(***************************************************************************)
(* What tools/check-cg.py lets stand: of the findings on every measured    *)
(* unit, each module's budget takes the smallest, waivers take those they  *)
(* name while their thresholds hold, the ratchet those from before the     *)
(* rules; what the module budgets took is charged to the blocks the        *)
(* modules are in, by a structural read of the block's hierarchy; and an   *)
(* excuse that excuses nothing fails.                                      *)
(*                                                                         *)
(* A unit is [name, module, params, set, defines, blackbox, regs, reset]:  *)
(* the module's parameters as its netlist has them, those its spec set,    *)
(* the children it leaves out, its flops by register.  An instance of a    *)
(* block is [module, parent, over, full, state]: the parameters given on   *)
(* it; over, that it was read as a library leaf, so full is not known.     *)
(***************************************************************************)
EXTENDS Integers, Sequences, FiniteSets, FiniteSetsExt

CONSTANTS
    Units,        \* the units, a sequence: cg-units.json and rpt-units.json
    Modules,      \* design modules with flops
    Findings,     \* the findings there may be, a sequence
    Waivers,      \* the waivers there may be, a sequence
    Baseline, FindingsBaseline,  \* RATCHET_BASELINE, FINDINGS_BASELINE
    MayFail,      \* the units whose bench may fail
    Ratchets, FindingsRatchets,  \* what cg-ratchet.json may hold
    Default,      \* <<module, parameter>> -> its default, 0 for one of the others
    Instances,    \* the block's instances, by name
    Top,          \* the one that is the block itself
    Control,      \* the repeater's control registers: RPT_CONTROL
    Arrival,      \* <<module, port>> -> its arrival in NGD
    BUDGET_PCT, MODULE_FLOPS, NGD_MAX

\* What the netlists are counted to: flops by register, finitely many.
Counted ==
    /\ IsFiniteSet(DOMAIN Findings) /\ DOMAIN Findings \subseteq Nat
    /\ \A k \in DOMAIN Findings : Findings[k].flops \in Nat
    /\ \A k \in DOMAIN Units : /\ IsFiniteSet(DOMAIN Units[k].regs)
                                /\ \A r \in DOMAIN Units[k].regs : Units[k].regs[r] \in Nat
    /\ BUDGET_PCT \in Nat /\ MODULE_FLOPS \in Nat

ASSUME CountedAssumption == Counted

FINDING_RULES == {"CG-5", "RST-1"}

VARIABLES
    phase,
    found,      \* the findings of this design: indices into Findings
    status,     \* finding -> "open", "wrapper", "module", "waived", "ratchet"
    waivedBy,   \* finding -> the waiver that took it, 0 for none
    waivers, used,      \* cg-waivers.json: indices into Waivers; those matched
    ratchet, fratchet,  \* cg-ratchet.json: modules; <<module, rule, register>>
    bad,        \* the units whose bench failed
    fails

policyVars == <<phase, found, status, waivedBy, waivers, used, ratchet, fratchet, bad, fails>>

F(k) == Findings[k]
Unit == {Units[k] : k \in DOMAIN Units}
Ok   == {x \in Unit : x.name \notin bad}
Sum(f(_), S) == MapThenSumSet(f, S)

\* Structure.key and matches.  An instance read whole is a unit's when every
\* value is equal; one read as a leaf when what it overrides is equal, and
\* what it leaves was not set by the unit or is a default that is one value.
\* Mutant of matches: a parameter left at its default is not compared.
matches_overrides(i, x) ==
    LET inst == Instances[i] IN
    /\ inst.module = x.module /\ ~x.defines
    /\ IF ~inst.over THEN inst.given = x.params
       ELSE /\ DOMAIN inst.given \subseteq DOMAIN x.params
            /\ \A p \in DOMAIN inst.given : inst.given[p] = x.params[p]

matches(i, x) ==
    LET inst == Instances[i] IN
    /\ inst.module = x.module /\ ~x.defines
    /\ IF ~inst.over THEN inst.given = x.params
       ELSE /\ DOMAIN inst.given \subseteq DOMAIN x.params
            /\ \A p \in DOMAIN x.params :
                 IF p \in DOMAIN inst.given THEN inst.given[p] = x.params[p]
                 ELSE p \in x.set => Default[<<x.module, p>>] = x.params[p]

\* find_unit: the first that measures it.  A unit that failed in its bench
\* still has its netlist.
UnitsOf(i) == {k \in DOMAIN Units : matches(i, Units[k])}
find_unit(i) == Units[CHOOSE k \in UnitsOf(i) : \A j \in UnitsOf(i) : k <= j]

Kids(i) == {j \in DOMAIN Instances : Instances[j].parent = i}

\* block_parts' walk: below an instance a unit measures, only the children
\* the unit leaves out; below one with none, all.
Under(i) == IF UnitsOf(i) = {} THEN Kids(i)
            ELSE {j \in Kids(i) : Instances[j].module \in find_unit(i).blackbox}
Walked ==
    LET w[n \in 0..Cardinality(DOMAIN Instances)] ==
          IF n = 0 THEN {Top} ELSE w[n - 1] \union UNION {Under(i) : i \in w[n - 1]}
    IN  w[Cardinality(DOMAIN Instances)]
Parts == {i \in Walked : UnitsOf(i) # {}}
Uncounted == {i \in Walked : UnitsOf(i) = {} /\ Instances[i].state}

Flops(x) == Sum(LAMBDA r : x.regs[r], DOMAIN x.regs)
RegFlops(x, f) == Sum(LAMBDA r : x.regs[r], f.regs \cap DOMAIN x.regs)

\* unit_flops.
unit_flops(x, f) == IF f.unit = x.name THEN f.flops ELSE RegFlops(x, f)

\* rpt_control.
rpt_control(f) == /\ f.module = "rpt" /\ f.budgetable
                  /\ f.regs # {} /\ f.regs \subseteq Control

-----------------------------------------------------------------------------

PolicyInit ==
    /\ phase = "budget"
    /\ found \in SUBSET DOMAIN Findings
    /\ status = [k \in found |-> "open"] /\ waivedBy = [k \in found |-> 0]
    /\ waivers \in SUBSET DOMAIN Waivers /\ used = {}
    /\ ratchet \in Ratchets /\ fratchet \in FindingsRatchets
    /\ bad \in {{}} \union {{x} : x \in MayFail}
    /\ \A k \in found : F(k).unit \in bad => F(k).rule \in FINDING_RULES
    /\ fails = {}

Candidates == {k \in found : status[k] = "open" /\ F(k).budgetable /\ ~rpt_control(F(k))}
Items(x) == {k \in Candidates : F(k).module = x.module /\ F(k).unit \in {"none", x.name}}

\* module_budget: of a unit's findings the smallest, while they fit the
\* larger of its share and MODULE_FLOPS - 1.
Before(x, j, k) == \/ unit_flops(x, F(j)) < unit_flops(x, F(k))
                   \/ unit_flops(x, F(j)) = unit_flops(x, F(k)) /\ j <= k
Allowed(x, n) == 100 * n <= BUDGET_PCT * Flops(x) \/ n <= MODULE_FLOPS - 1
Taken(x) == {k \in Items(x) :
               Allowed(x, Sum(LAMBDA j : unit_flops(x, F(j)),
                              {j \in Items(x) : Before(x, j, k)}))}

\* Mutant of BudgetTakes: a finding one of its units takes is excused.
BudgetTakes_any(k) == \E x \in Ok : k \in Taken(x)

\* A finding of several units is excused only if every one takes it.
BudgetTakes(k) == /\ \E x \in Ok : k \in Items(x)
                  /\ \A x \in Ok : k \in Items(x) => k \in Taken(x)

ModuleBudget ==
    /\ phase = "budget" /\ phase' = "waivers"
    /\ status' = [k \in found |-> IF rpt_control(F(k)) THEN "wrapper"
                                  ELSE IF k \in Candidates /\ BudgetTakes(k) THEN "module"
                                  ELSE "open"]
    /\ UNCHANGED <<found, waivedBy, waivers, used, ratchet, fratchet, bad, fails>>

-----------------------------------------------------------------------------

\* cg5_waiver_refusal: it names every input the enable reads, and states a
\* depth the latest of them and the cone come to, within the limit.
cg5_refused(w, f) ==
    LET late  == Max({Arrival[<<f.module, q>>] : q \in f.inputs})
        total == f.cone + late
    IN  ~(f.inputs \subseteq w.ports) \/ total > NGD_MAX \/ w.states < total

\* cg3_waiver_refusal: its floor is no higher than what it was measured at,
\* and the gate holds the floor.
cg3_refused(w, f) == w.states > w.measured \/ f.pct < w.states

\* flops_waiver_refusal.
flops_refused(w, f) == f.flops > w.states

waiver_refusal(w, f) ==
    CASE f.rule = "CG-5" -> cg5_refused(w, f)
      [] f.rule = "CG-3" /\ f.scenario -> cg3_refused(w, f)
      [] f.rule \in {"CG-1", "CG-4"} /\ f.budgetable -> flops_refused(w, f)
      [] OTHER -> FALSE

Names(w, f) == /\ w.module = f.module /\ w.rule = f.rule /\ w.target \in f.regs
               /\ w.enable # "none" => w.enable = f.enable

\* policy: a finding is its first waiver's, whatever becomes of it.
Matching(k) == {j \in waivers : Names(Waivers[j], F(k))}
MatchFirst(k) == IF Matching(k) = {} THEN 0 ELSE Min(Matching(k))
Refused(k) == waiver_refusal(Waivers[MatchFirst(k)], F(k))

\* Mutant of Used: every waiver that names a finding counts as used.
Used_all(matched) == UNION {Matching(k) : k \in matched}

\* w["_used"]: the waivers that were the first to name a finding.
Used(matched) == {MatchFirst(k) : k \in matched}

Waive ==
    /\ phase = "waivers" /\ phase' = "ratchet"
    /\ LET open    == {k \in found : status[k] = "open"}
           matched == {k \in open : MatchFirst(k) # 0}
           taken   == {k \in matched : ~Refused(k)}
       IN  /\ status' = [k \in found |-> IF k \in taken THEN "waived" ELSE status[k]]
           /\ waivedBy' = [k \in found |-> IF k \in taken THEN MatchFirst(k) ELSE 0]
           /\ used' = Used(matched)
           /\ fails' = fails \union {<<"refused", MatchFirst(k)>> : k \in matched \ taken}
    /\ UNCHANGED <<found, waivers, ratchet, fratchet, bad>>

Keys(f) == IF f.rule \in FINDING_RULES THEN {<<f.module, f.rule, r>> : r \in f.regs} ELSE {}

\* The module ratchet, then the findings', then what is still open fails.
Ratchet ==
    /\ phase = "ratchet" /\ phase' = "block"
    /\ status' = [k \in found |->
          IF status[k] = "open" /\ \/ F(k).module \in ratchet
                                   \/ F(k).rule \in FINDING_RULES /\ Keys(F(k)) \subseteq fratchet
          THEN "ratchet" ELSE status[k]]
    /\ fails' = fails \union {<<"open", k>> : k \in {x \in found : status'[x] = "open"}}
    /\ UNCHANGED <<found, waivedBy, waivers, used, ratchet, fratchet, bad>>

-----------------------------------------------------------------------------

\* block_charged: waived, but still the block's.
block_charged(k) == status[k] = "waived" /\ Waivers[waivedBy[k]].charged
Took == {k \in found : status[k] \in {"module", "wrapper"} \/ block_charged(k)}

\* took_flops: a finding's flops in an instance, as its unit measured them;
\* one of no unit by its registers.
In(i, f) ==
    LET x == find_unit(i) IN
    IF x.module # f.module \/ f.unit \notin {"none", x.name} THEN 0
    ELSE IF f.unit = x.name THEN f.flops ELSE RegFlops(x, f)

\* block_budget's sum over the instances.
Charged == Sum(LAMBDA i : Sum(LAMBDA k : In(i, F(k)), Took), Parts)
Total == Sum(LAMBDA i : Flops(find_unit(i)), Parts)

BlockBudget ==
    /\ phase = "block" /\ phase' = "idle"
    /\ fails' = fails \union {<<"uncounted", i>> : i \in Uncounted}
                      \union (IF 100 * Charged > BUDGET_PCT * Total THEN {<<"block", Top>>} ELSE {})
    /\ UNCHANGED <<found, status, waivedBy, waivers, used, ratchet, fratchet, bad>>

FoundKeys == UNION {Keys(F(k)) : k \in found}
measured == {x.module : x \in Ok}

\* What the ratchets no longer need, or never had.
Stale ==
    {<<"not listed", e>> : e \in fratchet \ FindingsBaseline}
    \union {<<"meets", e>> : e \in {x \in fratchet \cap FindingsBaseline :
                                      x[1] \in measured /\ x \notin FoundKeys}}
    \union {<<"module not listed", m>> : m \in ratchet \ Baseline}
    \union {<<"gone", m>> : m \in (ratchet \cap Baseline) \ Modules}
    \union {<<"module meets", m>> : m \in {x \in ratchet \cap Baseline \cap Modules :
               x \in measured /\ \A k \in found : F(k).module = x => status[k] = "module"}}

\* policy's rest: incomplete and idle waivers, the ratchets, the modules no
\* unit measures, the units that measure none, and those not measured.
Idle ==
    /\ phase = "idle" /\ phase' = "done"
    /\ fails' = fails
         \union {<<"incomplete", j>> : j \in {x \in waivers : ~Waivers[x].complete}}
         \union {<<"excuses nothing", j>> : j \in waivers \ used}
         \union Stale
         \union {<<"no unit", m>> : m \in (Modules \ {x.module : x \in Unit}) \ ratchet}
         \union {<<"no module", x>> : x \in {y.module : y \in Unit} \ Modules}
         \union {<<"not measured", x>> : x \in bad}
    /\ UNCHANGED <<found, status, waivedBy, waivers, used, ratchet, fratchet, bad>>

PolicyNext == ModuleBudget \/ Waive \/ Ratchet \/ BlockBudget \/ Idle
PolicySpec == PolicyInit /\ [][PolicyNext]_policyVars

Passed == phase = "done" /\ fails = {}

-----------------------------------------------------------------------------
\* The block as it is.

CONSTANT RealRegs(_)   \* an instance's own flops, by register

\* The instance whose unit's netlist an instance's flops are in.
MeasuredIn[i \in DOMAIN Instances] ==
    IF i \in Parts THEN i ELSE MeasuredIn[Instances[i].parent]

\* The registers of i that something took.
Excused(i) ==
    LET x == find_unit(MeasuredIn[i]) IN
    {r \in DOMAIN RealRegs(i) :
       \E k \in Took : F(k).module = x.module /\ F(k).unit \in {"none", x.name} /\ r \in F(k).regs}

(***************************************************************************)
(* The block's budget, flop by flop over the whole hierarchy: of the flops *)
(* the block really has, those that module budgets, control pulses and     *)
(* charged waivers leave outside the rules are within its percentage.      *)
(***************************************************************************)
BlockHeld ==
    Passed =>
      LET regs(i) == RealRegs(i)
          held == {i \in DOMAIN Instances : DOMAIN regs(i) # {}}
      IN  100 * Sum(LAMBDA i : Sum(LAMBDA r : regs(i)[r], Excused(i)), held)
            <= BUDGET_PCT * Sum(LAMBDA i : Sum(LAMBDA r : regs(i)[r], DOMAIN regs(i)), held)

(***************************************************************************)
(* No unit, of however many that measure a module, has more flops excused  *)
(* by its module's budget than its own allowance.                          *)
(***************************************************************************)
AllowanceHeld ==
    phase # "budget" =>
      \A x \in Ok : Allowed(x, Sum(LAMBDA k : unit_flops(x, F(k)),
                       {k \in found : /\ status[k] = "module" /\ F(k).module = x.module
                                      /\ F(k).unit \in {"none", x.name}}))

(***************************************************************************)
(* Nothing is kept for nothing: when the check passes, every waiver has    *)
(* taken a finding, every ratcheted finding still stands in its module if  *)
(* that was measured, and no finding is left without its excuse.           *)
(***************************************************************************)
NothingIdle ==
    Passed => /\ \A j \in waivers : \E k \in found : waivedBy[k] = j
              /\ \A e \in fratchet : e[1] \in measured =>
                   \E k \in found : F(k).module = e[1] /\ F(k).rule = e[2] /\ e[3] \in F(k).regs
              /\ \A k \in found : status[k] # "open"
=============================================================================
