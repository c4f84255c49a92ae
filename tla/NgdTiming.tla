----------------------------- MODULE NgdTiming -----------------------------
(***************************************************************************)
(* The timing pass of tools/check-ngd.py over one netlist mapped by ABC,   *)
(* and what it keeps of two mappings of the same logic.  A netlist is a    *)
(* record: ins and outs (nets that are ports, one bit each), latches (a    *)
(* set of <<d, q>> nets), and gate, a function from each driven net to its *)
(* gate: its cell, and pins, a function from the cell's input pins to the  *)
(* nets they read.  Depths are in whole units of NGD; NEG is the depth of  *)
(* what is not reached.                                                    *)
(***************************************************************************)
EXTENDS Integers, FiniteSets

CONSTANTS
    Delay,     \* the library: cell -> its pins' delays, "*" for pins that
               \* share one (ngd.genlib)
    Fanout     \* loads a net drives before it needs a buffer tree: 4

\* The delay of a cell's pin.
delay(g, pin) == IF pin \in DOMAIN Delay[g] THEN Delay[g][pin] ELSE Delay[g]["*"]
HasPin(g, pin) == {pin, "*"} \cap DOMAIN Delay[g] # {}

ASSUME DelayAssumption ==
    /\ \A g \in DOMAIN Delay : \A pin \in DOMAIN Delay[g] : Delay[g][pin] \in Nat
    /\ "INV" \in DOMAIN Delay /\ HasPin("INV", "A")
    /\ Fanout \in Nat /\ Fanout > 1

\* -inf; no depth is negative.
NEG == -1

MaxOf(S) == IF S = {} THEN NEG ELSE CHOOSE x \in S : \A y \in S : x >= y
MinOf(a, b) == IF a <= b THEN a ELSE b
MinReached(a, b) == IF b = NEG THEN a ELSE MinOf(a, b)

Net(n)   == n.ins \union {l[2] : l \in n.latches} \union DOMAIN n.gate
D_nets(n) == {l[1] : l \in n.latches}
Q_nets(n) == {l[2] : l \in n.latches}

\* What parse_blif returns of a netlist ABC has mapped: finite, of the
\* library's cells and their pins, each net driven once (a port, a flop or a
\* gate), and combinational between the flops: among any gates there is one
\* that reads none of them.
Reads(n, x) == {n.gate[x].pins[pin] : pin \in DOMAIN n.gate[x].pins}
Netlist(n) ==
    /\ IsFiniteSet(Net(n)) /\ IsFiniteSet(n.latches)
    /\ n.outs \union D_nets(n) \subseteq Net(n)
    /\ (n.ins \union Q_nets(n)) \intersect DOMAIN n.gate = {}
    /\ \A x \in DOMAIN n.gate :
         /\ n.gate[x].cell \in DOMAIN Delay
         /\ IsFiniteSet(DOMAIN n.gate[x].pins)
         /\ \A pin \in DOMAIN n.gate[x].pins : HasPin(n.gate[x].cell, pin)
         /\ Reads(n, x) \subseteq Net(n)
    /\ \A S \in SUBSET DOMAIN n.gate :
         S # {} => \E x \in S : Reads(n, x) \intersect S = {}

\* The gate pins on a net, as <<the net the gate drives, pin>>.
PinsOn(n, x) ==
    UNION {{<<y, pin>> : pin \in {p \in DOMAIN n.gate[y].pins : n.gate[y].pins[p] = x}} :
             y \in DOMAIN n.gate}

\* Timing.loads: gate pins, latches and output ports on a net.
loads(n, x) == Cardinality(PinsOn(n, x))
               + Cardinality({l \in n.latches : l[1] = x})
               + (IF x \in n.outs THEN 1 ELSE 0)

\* Timing.fo: the inverter stages of a tree at fanout Fanout over the loads,
\* ceil(log_Fanout(loads / Fanout)): one for each power of Fanout below them.
fo(n, x) ==
    LET c == loads(n, x)
    IN  Cardinality({k \in 1..c : Fanout^k < c}) * delay("INV", "A")

\* A BUF counts nothing in the passes.
PinDelay(g, pin) == IF g = "BUF" THEN 0 ELSE delay(g, pin)

\* Mutant of prop: the latest arrival and the gate's slowest pin, whichever
\* pin it came in by.
prop_slowest(n, start, fan) ==
    LET term(x) == IF fan THEN fo(n, x) ELSE 0
        arr[x \in Net(n)] ==
            IF x \in start THEN term(x)
            ELSE IF x \notin DOMAIN n.gate THEN NEG
            ELSE LET g  == n.gate[x]
                     in == {arr[y] : y \in Reads(n, x)} \ {NEG}
                 IN  IF in = {} THEN NEG
                     ELSE MaxOf(in) + MaxOf({PinDelay(g.cell, pin) : pin \in DOMAIN g.pins})
                          + term(x)
    IN  arr

\* Timing.prop: the latest arrival at each net from the nets of start, each
\* pin of a gate at its own delay, with or without the fanout term of each
\* net on the way.
prop(n, start, fan) ==
    LET term(x) == IF fan THEN fo(n, x) ELSE 0
        arr[x \in Net(n)] ==
            IF x \in start THEN term(x)
            ELSE IF x \notin DOMAIN n.gate THEN NEG
            ELSE LET g  == n.gate[x]
                     at == {arr[g.pins[pin]] + PinDelay(g.cell, pin) :
                              pin \in {p \in DOMAIN g.pins : arr[g.pins[p]] # NEG}}
                 IN  IF at = {} THEN NEG ELSE MaxOf(at) + term(x)
    IN  arr

\* Timing.back: each net's longest way to one of ends, without the term.
back(n, ends) ==
    LET dep[x \in Net(n)] ==
            MaxOf((IF x \in ends THEN {0} ELSE {})
                  \union {dep[r[1]] + PinDelay(n.gate[r[1]].cell, r[2]) :
                            r \in {p \in PinsOn(n, x) : dep[p[1]] # NEG}})
    IN  dep

\* Timing: the longest paths of one mapped netlist.
Timing(n) ==
    LET Q   == Q_nets(n)
        D   == D_nets(n)
        r   == prop(n, Q, FALSE)
        rf  == prop(n, Q, TRUE)
        p   == prop(n, n.ins, FALSE)
        a   == [i \in n.ins |-> prop(n, {i}, TRUE)]
        z   == [i \in n.ins |-> prop(n, {i}, FALSE)]
        toD == back(n, D)
        toO == [o \in n.outs |-> back(n, {o})]
    IN  [p_rr   |-> MaxOf({r[d] : d \in D}),
         p_ro   |-> [o \in n.outs |-> r[o]],
         p_ir   |-> MaxOf({p[d] : d \in D}),
         rr     |-> MaxOf({rf[d] : d \in D}),
         ro     |-> [o \in n.outs |-> rf[o]],
         ir     |-> [i \in n.ins |-> MaxOf({a[i][d] : d \in D})],
         io     |-> [e \in n.ins \X n.outs |-> a[e[1]][e[2]]],
         p_io   |-> [e \in n.ins \X n.outs |-> z[e[1]][e[2]]],
         q_flop |-> [q \in Q |-> toD[q]],
         q_out  |-> [q \in Q |-> [o \in n.outs |-> toO[o][q]]]]

\* map_and_time: of ABC's two mappings of one netlist, map and map -r, each
\* input's depth from the better, and the registers' from the better where
\* map -r is no worse flop to flop.
map_and_time(t, tr) ==
    LET inputs == [t EXCEPT !.ir = [i \in DOMAIN t.ir |->
                                      MinOf(t.ir[i], tr.ir[i])]]
    IN  IF tr.rr > t.rr THEN inputs
        ELSE [inputs EXCEPT
                !.ro = [o \in DOMAIN t.ro |-> MinOf(t.ro[o], tr.ro[o])],
                !.p_ro = [o \in DOMAIN t.ro |-> MinOf(t.p_ro[o], tr.p_ro[o])],
                !.q_flop = [q \in DOMAIN t.q_flop |->
                              MinReached(t.q_flop[q], tr.q_flop[q])],
                !.q_out = [q \in DOMAIN t.q_out |->
                             [o \in DOMAIN t.q_out[q] |->
                                MinReached(t.q_out[q][o], tr.q_out[q][o])]]]

-----------------------------------------------------------------------------

\* Every way through the gates of n from one net to another, pin by pin, as
\* the set of the delays summed along it, with or without the fanout term of
\* each net on the way: the reference the passes are held to.
Ways(n, from, fan) ==
    LET term(x) == IF fan THEN fo(n, x) ELSE 0
        w[x \in Net(n)] ==
            (IF x = from THEN {term(x)} ELSE {})
            \union (IF x \notin DOMAIN n.gate THEN {}
                    ELSE UNION {{k + PinDelay(n.gate[x].cell, pin) + term(x) :
                                   k \in w[n.gate[x].pins[pin]]} :
                                  pin \in DOMAIN n.gate[x].pins})
    IN  w
=============================================================================
