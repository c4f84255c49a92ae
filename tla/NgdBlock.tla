------------------------------ MODULE NgdBlock ------------------------------
(***************************************************************************)
(* The depth rule of tools/check-ngd.py on an assembled block, "as a sum   *)
(* of parts": no path across modules is ever timed whole.  Each unit is    *)
(* measured alone and held to its ports' budgets (findings), each level    *)
(* of the hierarchy is timed with its children cut out, their outputs      *)
(* starting at their required times and their inputs due at their arrivals *)
(* (converge), and the block's ports are held by their shape (straight).   *)
(*                                                                         *)
(* Against the checks stands a signal: launched by a flop, or at an input  *)
(* of the block, it takes the real depth of each part it crosses, and is   *)
(* captured by a flop or reaches an output of the block.                   *)
(*                                                                         *)
(* A pin is a port of an instance; the instances of a module share its     *)
(* unit's measurement and its budgets.  A wire is what a level puts        *)
(* between two pins.  A depth of NEG says there is no such path.           *)
(***************************************************************************)
EXTENDS NgdTiming

CONSTANTS
    STAGE, PORT, EPS,   \* CCV_NGD_BUDGET, CCV_NGD_PORT, the float tolerance
    Pin,                \* the pins of the assembled block
    Kind,               \* pin -> "leaf", "mid" (a level in the block), "block"
    Output,             \* the pins that are outputs of their instance
    PortOf              \* pin -> the port of its module

ASSUME NumbersAssumption == /\ STAGE \in Nat /\ PORT \in 0..STAGE /\ EPS \in Nat
ASSUME PinsAssumption == /\ Kind \in [Pin -> {"leaf", "mid", "block"}]
                         /\ Output \subseteq Pin /\ IsFiniteSet(Pin)
                         /\ Pin \cap {"unlaunched", "flop", "out"} = {}

Depth == Nat \union {NEG}
Port == {PortOf[p] : p \in Pin}

\* A named budget (Budgets.e), or none.
Budget == [kind : {"none", "arrival", "required", "observation"}, v : Nat]

VARIABLES
    budgets,   \* port -> Budget: the <module>.ngd.json files
    ro, ir,    \* port of a leaf -> from, to its flops: its unit's measurement
    p_ro,      \* the same as ro without the fanout term
    thru,      \* <<input, output>> of a leaf -> depth straight through it
    reg,       \* register of a leaf -> its depth to the leaf's flops (flop) and
               \* to each output (out), without the fanout term
    rr,        \* leaf flops, and each level's own: flop to flop
    io, p_io,  \* <<pin, pin>> -> a level's path, with the term and without
    lvl_ir,    \* pin -> into a flop of the level
    lvl_ro,    \* pin -> from a flop of the level
    unitAt,    \* the leaf instances are at their unit's parameters
    passed,    \* "checking", "refused", "passed"
    at,        \* where the signal is: a pin, "unlaunched", "flop" or "out"
    elapsed,   \* depth since its launch
    logic,     \* the same without the fanout term
    fromPort,  \* it was launched at an input of the block
    slack      \* what the tolerances it met add up to

design == <<budgets, ro, ir, p_ro, thru, reg, rr, io, p_io, lvl_ir, lvl_ro,
            unitAt>>
signal == <<at, elapsed, logic, fromPort, slack>>
blockVars == <<design, passed, signal>>

-----------------------------------------------------------------------------

observation(p) == budgets[p].kind = "observation"

\* Budgets.required, Budgets.arrival.
required(p) == CASE budgets[p].kind = "observation" -> STAGE
                 [] budgets[p].kind = "required"    -> budgets[p].v
                 [] OTHER                           -> PORT
arrival(p) == IF budgets[p].kind = "arrival" THEN budgets[p].v
                                             ELSE STAGE - PORT

Over(d, limit) == d > limit + EPS

Outs(kind) == {PortOf[p] : p \in {x \in Output : Kind[x] = kind}}
Ins(kind)  == {PortOf[p] : p \in {x \in Pin \ Output : Kind[x] = kind}}

\* Budgets.check (NGD-4): an entry names a port of its direction, in 0..STAGE.
NGD4 ==
    {p \in Port : \/ budgets[p].kind = "arrival" /\ p \in Outs("leaf") \union Outs("mid")
                  \/ /\ budgets[p].kind \in {"required", "observation"}
                     /\ p \in Ins("leaf") \union Ins("mid")
                  \/ budgets[p].v > STAGE}

\* shared_flops (NGD-7): a register is held, on its way to the leaf's own
\* flops and to every output within its own required time, to the strictest
\* of the outputs it drives.
Drives(q) == {o \in DOMAIN reg[q].out : reg[q].out[o] # NEG /\ ~observation(o)}
Ends(q)   == {reg[q].flop} \union
             {reg[q].out[o] : o \in {x \in Drives(q) : ~Over(reg[q].out[x], required(x))}}
NGD7 == {q \in DOMAIN reg : \E o \in Drives(q), d \in Ends(q) : Over(d, required(o))}

\* findings: what a leaf's unit, measured alone, is refused for.
findings ==
    {<<"NGD-1", p>> : p \in {x \in DOMAIN rr : Over(rr[x], STAGE)}}
    \union {<<"NGD-2", o>> : o \in {x \in Outs("leaf") :
              ~observation(x) /\ Over(ro[x], required(x))}}
    \union {<<"NGD-3", i>> : i \in {x \in Ins("leaf") :
              ir[x] # NEG /\ Over(arrival(x) + ir[x], STAGE)}}
    \union {<<"NGD-7", q>> : q \in NGD7}
    \union {<<"NGD-5", e>> : e \in {x \in DOMAIN thru :
              thru[x] # NEG /\ ~observation(x[2])}}

\* converge: when a pin's signal starts from it, and is due at it.  A block
\* input starts at 0, straight from its wrapper's flop.
Time(p) == IF Kind[p] = "block" THEN 0
           ELSE IF p \in Output THEN required(PortOf[p])
           ELSE arrival(PortOf[p])

\* A wire from the level's own input to its own output: not converge's.
OwnToOwn(e) == e[1] \notin Output /\ e[2] \in Output

Wires == {e \in DOMAIN io : io[e] # NEG}
BlockOut(p) == Kind[p] = "block" /\ p \in Output

\* Mutant of converge: a wire's fanout term is not added to its start.
converge_no_fan ==
    {<<"flops", p>> : p \in {x \in Pin : lvl_ir[x] # NEG /\ Over(Time(x) + lvl_ir[x], STAGE)}}
    \union {<<"reach", q>> : q \in {x \in Pin :
              ~BlockOut(x) /\ lvl_ro[x] # NEG /\ Over(lvl_ro[x], Time(x))}}
    \union {<<"NGD-5", e>> : e \in {x \in Wires : ~OwnToOwn(x) /\ p_io[x] > EPS}}
    \union {<<"wire", e>> : e \in {x \in Wires :
              ~OwnToOwn(x) /\ ~BlockOut(x[2]) /\ Over(Time(x[1]), Time(x[2]))}}

\* converge: every connection of every level meets the budgets at its ends,
\* and a path that touches none of the level's flops is a wire.
converge ==
    {<<"flops", p>> : p \in {x \in Pin : lvl_ir[x] # NEG /\ Over(Time(x) + lvl_ir[x], STAGE)}}
    \union {<<"reach", q>> : q \in {x \in Pin :
              ~BlockOut(x) /\ lvl_ro[x] # NEG /\ Over(lvl_ro[x], Time(x))}}
    \union {<<"NGD-5", e>> : e \in {x \in Wires : ~OwnToOwn(x) /\ p_io[x] > EPS}}
    \union {<<"wire", e>> : e \in {x \in Wires :
              /\ ~OwnToOwn(x) /\ ~BlockOut(x[2])
              /\ Over(Time(x[1]) + io[x], Time(x[2]))}}

\* A mid module's unit, flattened: nothing straight through it, not even a
\* wire (NGD-5).
MidThru == {e \in Wires : /\ OwnToOwn(e) /\ Kind[e[1]] = "mid"
                          /\ ~observation(PortOf[e[2]])}

\* straight, from an output back: at each level by a wire to a pin that is
\* straight in its turn; in a leaf, from a flop with no logic after it.  No
\* look-up is longer than there are pins.
Behind(q) == {e \in Wires : e[2] = q}
StraightOut[n \in 0..Cardinality(Pin)] ==
    [q \in Pin |->
       IF Kind[q] = "leaf"
       THEN /\ p_ro[PortOf[q]] <= EPS
            /\ \A e \in DOMAIN thru : e[2] = PortOf[q] => thru[e] = NEG
       ELSE /\ lvl_ro[q] <= EPS
            /\ \A e \in Behind(q) : /\ p_io[e] <= EPS
                                    /\ e[1] \in Output
                                    /\ n > 0 /\ StraightOut[n - 1][e[1]]]

\* straight, from an input on: no fanout term either.
Ahead(p) == {e \in Wires : e[1] = p}
StraightIn[n \in 0..Cardinality(Pin)] ==
    [p \in Pin |->
       IF Kind[p] = "leaf"
       THEN /\ ir[PortOf[p]] <= EPS
            /\ \A e \in DOMAIN thru : e[1] = PortOf[p] => thru[e] = NEG
       ELSE /\ lvl_ir[p] <= EPS
            /\ \A e \in Ahead(p) : /\ p_io[e] <= EPS /\ io[e] <= EPS
                                   /\ e[2] \notin Output
                                   /\ n > 0 /\ StraightIn[n - 1][e[2]]]

\* Mutant of boundary: inputs only.
boundary_in ==
    \A p \in Pin : Kind[p] = "block" /\ p \notin Output => StraightIn[Cardinality(Pin)][p]

\* block_check (c): every port of the block straight from or into a flop.
boundary ==
    \A p \in Pin : Kind[p] = "block" =>
        IF p \in Output THEN StraightOut[Cardinality(Pin)][p] ELSE StraightIn[Cardinality(Pin)][p]

\* block_check: coverage at the instances' parameters, convergence, boundary.
block_check == unitAt /\ converge = {} /\ MidThru = {} /\ boundary

\* main_check, with nothing on the ratchet.
main_check == NGD4 = {} /\ findings = {} /\ block_check

-----------------------------------------------------------------------------

Check ==
    /\ passed = "checking"
    /\ passed' = IF main_check THEN "passed" ELSE "refused"
    /\ UNCHANGED <<design, signal>>

\* An output only checkers read, which sample it at the edge: no signal goes
\* on from it to another part.
Observed(p) == p \in Output /\ Kind[p] # "block" /\ observation(PortOf[p])

\* What a leaf's path takes at the parameters its instance has: more than
\* its unit's where those are not the unit's.
Real(d) == IF unitAt THEN d ELSE d + STAGE

Launched(p, d, l, port) ==
    /\ at = "unlaunched"
    /\ at' = p /\ elapsed' = d /\ logic' = l /\ fromPort' = port
    /\ slack' = IF port THEN 0 ELSE EPS
    /\ UNCHANGED <<design, passed>>

LaunchLeaf(p)  == /\ p \in Output /\ Kind[p] = "leaf" /\ ro[PortOf[p]] # NEG
                  /\ Launched(p, Real(ro[PortOf[p]]), Real(p_ro[PortOf[p]]), FALSE)
LaunchLevel(p) == lvl_ro[p] # NEG /\ Launched(p, lvl_ro[p], lvl_ro[p], FALSE)
LaunchPort(p)  == Kind[p] = "block" /\ p \notin Output /\ Launched(p, 0, 0, TRUE)

Moves(p, d, l) ==
    /\ at' = p /\ elapsed' = elapsed + d /\ logic' = logic + l
    /\ slack' = slack + EPS
    /\ UNCHANGED <<design, passed, fromPort>>

Cross(e) == /\ at = e[1] /\ io[e] # NEG /\ ~Observed(at) /\ Moves(e[2], io[e], p_io[e])

\* Straight through a leaf, in at one pin and out at another.
Through(p, q) ==
    /\ at = p /\ Kind[p] = "leaf" /\ p \notin Output
    /\ Kind[q] = "leaf" /\ q \in Output
    /\ <<PortOf[p], PortOf[q]>> \in DOMAIN thru
    /\ thru[<<PortOf[p], PortOf[q]>>] # NEG
    /\ Moves(q, thru[<<PortOf[p], PortOf[q]>>], thru[<<PortOf[p], PortOf[q]>>])

CaptureLeaf(p) ==
    /\ at = p /\ Kind[p] = "leaf" /\ p \notin Output /\ ir[PortOf[p]] # NEG
    /\ Moves("flop", Real(ir[PortOf[p]]), Real(ir[PortOf[p]]))

CaptureLevel(p) == /\ at = p /\ lvl_ir[p] # NEG /\ ~Observed(at)
                   /\ Moves("flop", lvl_ir[p], lvl_ir[p])

Leave(p) == at = p /\ BlockOut(p) /\ Moves("out", 0, 0)

Travel == \E p \in Pin :
            \/ LaunchLeaf(p) \/ LaunchLevel(p) \/ LaunchPort(p)
            \/ CaptureLeaf(p) \/ CaptureLevel(p) \/ Leave(p)
            \/ \E q \in Pin : Cross(<<p, q>>) \/ Through(p, q)

\* Only what passed is built.
BlockNext == Check \/ (passed = "passed" /\ Travel)

\* What yosys and ABC hand to the checks: a depth or none for every path.
Measurements ==
    /\ budgets \in [Port -> Budget]
    /\ \A o \in Outs("leaf") : ro[o] \in Depth /\ p_ro[o] \in Depth
    /\ \A i \in Ins("leaf") : ir[i] \in Depth
    /\ \A e \in DOMAIN thru : thru[e] \in Depth
    /\ io \in [Pin \X Pin -> Depth] /\ p_io \in [Pin \X Pin -> Depth]
    /\ lvl_ir \in [Pin -> Depth] /\ lvl_ro \in [Pin -> Depth]

\* An instance is cut out of the level it stands in: a wire that enters a
\* level and leaves it does both at the level's own pins, and a leaf's own
\* part ends at its outputs and begins at its inputs, where the level's
\* begins and ends.  And nothing of the block is behind its outputs.
Hierarchical ==
    /\ \A e \in Wires : OwnToOwn(e) => /\ Kind[e[1]] # "leaf"
                                      /\ Kind[e[1]] = Kind[e[2]]
    /\ \A e \in Wires : /\ Kind[e[1]] = "leaf" => e[1] \in Output
                        /\ Kind[e[2]] = "leaf" => e[2] \notin Output
    /\ \A p \in Pin : Kind[p] = "leaf" =>
         IF p \in Output THEN lvl_ro[p] = NEG ELSE lvl_ir[p] = NEG
    /\ \A e \in Wires : ~BlockOut(e[1])
    /\ \A p \in Pin : BlockOut(p) => lvl_ir[p] = NEG

\* A block put together and not yet judged.
BlockInit == /\ Measurements /\ Hierarchical /\ unitAt \in BOOLEAN
             /\ passed = "checking" /\ at = "unlaunched" /\ elapsed = 0
             /\ logic = 0 /\ fromPort = FALSE /\ slack = 0

BlockSpec == BlockInit /\ [][BlockNext]_blockVars

-----------------------------------------------------------------------------

(***************************************************************************)
(* What the sum of parts promises (block_check (b)): in a block that       *)
(* passed, no signal takes longer from flop to flop than the stage,        *)
(* whichever levels and instances it crosses, tolerances aside.            *)
(***************************************************************************)
WithinStage == at = "flop" => elapsed <= STAGE + slack

(***************************************************************************)
(* The boundary (block_check (c)): a signal leaves the block straight from *)
(* a flop, with no logic after it and not from an input; and one that came *)
(* in at an input meets its flop with no logic and no buffer tree before   *)
(* it.                                                                     *)
(***************************************************************************)
BoundaryStraight ==
    /\ at = "out" => logic <= slack /\ ~fromPort
    /\ at = "flop" /\ fromPort => elapsed <= slack
=============================================================================
