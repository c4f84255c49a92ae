------------------------------ MODULE TopWires ------------------------------
(***************************************************************************)
(* The SV top tools/gen-top.py writes: the wrapper module of every block   *)
(* instance, hard-reuse templates shared between instances that hold the   *)
(* same, the nets of every link's segments, and the repeater units.  And   *)
(* the netlist a tool elaborates from those files, followed register by    *)
(* register, with what tools/check-top-pure.py and                         *)
(* tools/check-top-wiring.py require of it.                                *)
(***************************************************************************)
EXTENDS TopPorts

(***************************************************************************)
(* The ports of a wrapper: an end of a channel, <<"rpt", c, copy>>, the    *)
(* copy Whole where the block is itself one copy or there is but one; and  *)
(* the two sides of feedthrough o, <<"fti", c, o>> and <<"fto", c, o>>.    *)
(* A port's stages are the parameter of its name, an "ft" for both sides.  *)
(***************************************************************************)
LinkAt(k, c, cp) ==
    <<c, IF cp # Whole THEN cp ELSE IF ninst(c) > 1 THEN k[2] ELSE 0>>

block_ends(k) == UNION {{<<"rpt", c, cp>> : cp \in ToSet(owns_copies(c, k[1]))} :
                           c \in Ends(k[1])}

\* The links across wrapper k in cinst order; CrossedAt is the hop there.
feedthroughs(H, k) ==
    SelectSeq(cinst, LAMBDA x : \E j \in 2..(Len(H[x]) - 1) : H[x][j].at = k)
CrossedAt(H, k, x) == CHOOSE j \in 2..(Len(H[x]) - 1) : H[x][j].at = k
ft_param(H, k, o)  == <<"ft", feedthroughs(H, k)[o][1], o>>

\* Every parameter of wrapper k and its stages.
Stages(H, k) ==
    LET fts == feedthroughs(H, k)
        ofEnd(p) == LET r == H[LinkAt(k, p[2], p[3])]
                    IN IF Src[p[2]] = k[1] THEN r[1].n ELSE Last(r).n
        ofFt(p) == LET x == fts[p[3]] IN H[x][CrossedAt(H, k, x)].n
    IN [p \in block_ends(k) |-> ofEnd(p)] @@
       [p \in {ft_param(H, k, o) : o \in DOMAIN fts} |-> ofFt(p)]

(***************************************************************************)
(* wrapper_plan: which module wraps each instance, with the block types R  *)
(* under hard reuse.                                                       *)
(***************************************************************************)
Peers(k) == {m \in Wrappers : m[1] = k[1]}
Group_ends(V, k) == {m \in Peers(k) : \A p \in block_ends(k) : V[m][p] = V[k][p]}
Group(V, k) == {m \in Peers(k) : V[m] = V[k]}
FirstOf(S) == CHOOSE k \in S : \A m \in S : k[2] <= m[2]
Ahead(S, T) == \/ Cardinality(S) > Cardinality(T)
               \/ Cardinality(S) = Cardinality(T) /\ FirstOf(S)[2] < FirstOf(T)[2]

Module(t, kind, n) == [type |-> t, kind |-> kind, n |-> n]
wrapper_plan(R, H, V, k) ==
    IF k[1] \in R
    THEN LET groups == {Group(V, m) : m \in Peers(k)}
             n == Cardinality({g \in groups : Ahead(g, Group(V, k))})
         IN Module(k[1], IF n = 0 THEN "w" ELSE "v", n)
    ELSE IF feedthroughs(H, k) # <<>> /\ Many(k[1])
         THEN Module(k[1], "own", k[2])
         ELSE Module(k[1], "w", 0)

\* gen_wrapper: the text of wrapper k's module, its stages fixed in it or
\* left to the top.  An end with nothing to hold is wired straight.
gen_wrapper(fs, R, H, V, k) ==
    LET baked == k[1] \in R
        form(p) == CASE baked /\ V[k][p] + bnd(fs, k[1], p[2]) = 0 -> "wire"
                     [] baked \/ bnd(fs, k[1], p[2]) = 1 -> "rpt"
                     [] OTHER -> "optional"
    IN [type |-> k[1], baked |-> baked,
        fixed |-> IF baked THEN V[k] ELSE <<>>,
        ends |-> [p \in block_ends(k) |->
                     [form |-> form(p), boundary |-> bnd(fs, k[1], p[2])]],
        fts  |-> [o \in DOMAIN feedthroughs(H, k) |-> feedthroughs(H, k)[o][1]]]

(***************************************************************************)
(* gen_top: every instance's module, the stages the top sets on it, and    *)
(* the net on every port.  Segment j of a link leaves hop j; the only      *)
(* segment, and one at the core's boundary, has the link's plain name.     *)
(***************************************************************************)
Plain == -1
nsegs(H, x) == Len(H[x]) - 1
seg_net(H, x, j) ==
    IF \/ nsegs(H, x) = 1
       \/ (Src[x[1]] = EXTERNAL /\ j = 0)
       \/ (Dst[x[1]] = EXTERNAL /\ j = nsegs(H, x) - 1)
    THEN <<x, Plain>> ELSE <<x, j>>

Conns(H, k) ==
    LET fts == feedthroughs(H, k)
        hop(o) == CrossedAt(H, k, fts[o]) - 1
        end(p) == LET x == LinkAt(k, p[2], p[3])
                  IN seg_net(H, x, IF Src[p[2]] = k[1] THEN 0 ELSE nsegs(H, x) - 1)
        side(s) == [p \in {<<s, fts[o][1], o>> : o \in DOMAIN fts} |->
                       seg_net(H, fts[p[3]], hop(p[3]) - (IF s = "fti" THEN 1 ELSE 0))]
    IN [p \in block_ends(k) |-> end(p)] @@ side("fti") @@ side("fto")

\* The net bits on a common port.  A vector's net has the source's or the
\* instance's slot of it; the owner of a star has its own ports at the top's.
Wires(net, lo, n) == [b \in 1..n |-> <<net, lo + b - 1>>]
OfPort(n) == CHOOSE p \in ToSet(Common) : n \in {p.name, p.port}
CommonConn(k, q) ==
    LET n == q.name[1]
        p == OfPort(n)
        net == <<"net", p.name>>
    IN CASE p.kind = "none" \/ (p.kind = "star" /\ k[1] = p.end /\ n = p.name)
                 -> Wires(<<"top", n>>, 0, q.w)
         [] p.kind = "gather" /\ n = p.name
                 -> Wires(net, (Index(p.blks, k[1]) - 1) * p.w, p.w)
         [] p.kind = "star" /\ n = p.name -> Wires(net, slot_of(k, p.end) * p.w, p.w)
         [] p.kind = "observe" -> Wires(<<"gated", k>>, 0, q.w)
         [] OTHER -> Wires(net, 0, q.w)
CommonPorts(t) == ToSet(SelectSeq(PortsOf[t], LAMBDA q : ~OfChan(q)))
CommonNets == [k \in Wrappers |->
                 [n \in {q.name : q \in CommonPorts(k[1])} |->
                    CommonConn(k, CHOOSE q \in CommonPorts(k[1]) : q.name = n)]]

\* The bank's vectors, in slot-map order, of each link's first segment;
\* credit, stall and the trace ids are joined as valid is.
SlotWires(H, x, s, sig, w) == [b \in 1..w |-> <<seg_net(H, x, 0), s, sig, b>>]
\* Mutant of cat: the first slot is listed first.
cat_listed(H, sig, w) ==
    FlattenSeq([i \in DOMAIN cinst |->
        [s \in 1..Rate[cinst[i][1]] |-> SlotWires(H, cinst[i], s - 1, sig, w[cinst[i][1]])]])
cat(H, sig, w) ==
    Reverse(FlattenSeq([i \in DOMAIN cinst |->
        [s \in 1..Rate[cinst[i][1]] |->
            SlotWires(H, cinst[i], s - 1, sig, w[cinst[i][1]])]]))
Bank(H) ==
    [valid   |-> cat(H, "valid", [c \in Chans |-> 1]),
     payload |-> cat(H, "payload", Bits),
     wake    |-> Reverse([i \in DOMAIN cinst |-> SlotWires(H, cinst[i], 0, "wake", 1)]),
     rx_gated |-> Reverse([i \in DOMAIN cinst |->
                     IF DstOf(cinst[i])[1] = EXTERNAL THEN Wires(<<"low">>, 0, 1)
                     ELSE Wires(<<"gated", DstOf(cinst[i])>>, 0, 1)])]

gen_top(R, H, V) ==
    [inst |-> [k \in Wrappers |->
                  [mod |-> wrapper_plan(R, H, V, k),
                   set |-> IF k[1] \in R THEN <<>>
                           ELSE [p \in {p \in DOMAIN V[k] : V[k][p] > 0} |-> V[k][p]],
                   conns |-> Conns(H, k)]],
     common |-> CommonNets,
     bank |-> Bank(H)]

\* One unit for each distinct repeater that holds a register.
Unit(st, b, de, c) == [stages |-> st, boundary |-> b, dst_end |-> de, shape |-> c]
rpt_units_staged(fs, V) ==
    {Unit(V[q[1]][q[2]], IF q[2][1] = "ft" THEN 0 ELSE bnd(fs, q[1][1], q[2][2]),
          FALSE, q[2][2]) :
        q \in {q \in UNION {{k} \X DOMAIN V[k] : k \in Wrappers} : V[q[1]][q[2]] > 0}}
rpt_units(fs, V) ==
    {u \in UNION {{LET b == IF p[1] = "ft" THEN 0 ELSE bnd(fs, k[1], p[2])
                   IN Unit(V[k][p], b,
                           b = 1 /\ Dst[p[2]] = k[1] /\ p[2] \in LeadMask, p[2]) :
                   p \in DOMAIN V[k]} : k \in Wrappers} : u.stages + u.boundary > 0}

(***************************************************************************)
(* The netlist of a top T over wrapper modules W.  A port's registers are  *)
(* those of its repeater in the module of the instance.                    *)
(***************************************************************************)
Param(p) == IF p[1] \in {"fti", "fto"} THEN <<"ft", p[2], p[3]>> ELSE p
Setting(T, W, k, p) ==
    LET m == W[T.inst[k].mod]
    IN IF m.baked THEN m.fixed[Param(p)]
       ELSE IF Param(p) \in DOMAIN T.inst[k].set THEN T.inst[k].set[Param(p)] ELSE 0

Registers(T, W, k, p) ==
    IF p[1] # "rpt" THEN Setting(T, W, k, p)
    ELSE LET e == W[T.inst[k].mod].ends[p]
         IN CASE e.form = "wire" -> 0
              [] e.form = "rpt"  -> Setting(T, W, k, p) + e.boundary
              [] OTHER           -> Setting(T, W, k, p)

Drives(k, p) == \/ p[1] = "fto"
                \/ p[1] = "rpt" /\ Src[p[2]] = k[1]
Ports(T)     == UNION {{<<k, p>> : p \in DOMAIN T.inst[k].conns} : k \in Wrappers}
NetOf(T, q)  == T.inst[q[1]].conns[q[2]]
Pins(T, net, out) == {q \in Ports(T) : NetOf(T, q) = net /\ Drives(q[1], q[2]) = out}

\* Where the registers behind net lead: the one block end or core port.
Lost == [to |-> <<"nowhere", 0>>, link |-> <<"none", 0>>, n |-> 0]
RECURSIVE Follow(_, _, _, _, _)
Follow(T, W, net, n, fuel) ==
    LET sinks == Pins(T, net, FALSE)
        q == CHOOSE q \in sinks : TRUE
        across == <<q[2][1], q[2][2], q[2][3]>>
    IN IF Dst[net[1][1]] = EXTERNAL /\ net[2] = Plain
       THEN IF sinks = {} THEN [to |-> <<EXTERNAL, 0>>, link |-> net[1], n |-> n] ELSE Lost
       ELSE IF Cardinality(sinks) # 1 \/ fuel = 0 THEN Lost
       ELSE IF across[1] = "rpt"
       THEN [to |-> q[1], link |-> LinkAt(q[1], q[2][2], q[2][3]),
             n |-> n + Registers(T, W, q[1], q[2])]
       ELSE Follow(T, W, NetOf(T, <<q[1], <<"fto", q[2][2], q[2][3]>>>>),
                   n + Registers(T, W, q[1], q[2]), fuel - 1)

SrcPort(x) == CHOOSE p \in block_ends(SrcOf(x)) : p[2] = x[1] /\ LinkAt(SrcOf(x), p[2], p[3]) = x
Trace(T, W, x) ==
    IF SrcOf(x)[1] = EXTERNAL THEN Follow(T, W, <<x, Plain>>, 0, Cardinality(Wrappers))
    ELSE Follow(T, W, NetOf(T, <<SrcOf(x), SrcPort(x)>>),
                Registers(T, W, SrcOf(x), SrcPort(x)), Cardinality(Wrappers))

\* The net where x leaves its source's wrapper, and the registers from the
\* sender to the net the bank watches.
SrcNet(T, x) == IF SrcOf(x)[1] = EXTERNAL THEN <<x, Plain>>
                ELSE NetOf(T, <<SrcOf(x), SrcPort(x)>>)
ToBank(T, W, x) ==
    IF \/ SrcOf(x)[1] = EXTERNAL
       \/ Concat(T.bank.valid)[slot_base(x) + 1][1] # SrcNet(T, x) THEN 0
    ELSE Registers(T, W, SrcOf(x), SrcPort(x))

(***************************************************************************)
(* The checks.  check-top-wiring: each link runs from its own sender to    *)
(* its own receiver, and the registers on the way are those the skeleton   *)
(* reports; no net has two drivers.                                        *)
(***************************************************************************)
wiring_holds(T, W, C) ==
    /\ \A x \in Links : Trace(T, W, x) = [to |-> C[x].dst, link |-> x, n |-> pipe(C[x])]
    /\ \A q \in Ports(T) : Cardinality(Pins(T, NetOf(T, q), TRUE)) <= 1

\* check-top-pure R1, R6: an instance is wrapped by a module of its own
\* type; under hard reuse none is parameterised and no two are one circuit.
is_wrapper_of(m, k) == m.type = k[1] /\ (m.kind = "own" => m.n = k[2])
Circuit(m) == [m EXCEPT !.fixed = [p \in {p \in DOMAIN m.fixed :
                                      p[1] = "ft" \/ m.ends[p].form = "rpt"} |-> m.fixed[p]]]
reuse_holds(T, W, R) ==
    \A k \in Wrappers :
        /\ is_wrapper_of(T.inst[k].mod, k)
        /\ k[1] \in R =>
              /\ T.inst[k].set = <<>>
              /\ \A m \in Peers(k) : Circuit(W[T.inst[m].mod]) = Circuit(W[T.inst[k].mod])
                                        => T.inst[m].mod = T.inst[k].mod

\* R2 to R5, of the common nets: every bit read has one driver, and every
\* bit driven is read, clk_gated by the bank.  The top's own ports are the
\* bits named "top".
CommonPins(out) ==
    UNION {UNION {{<<k, q.name, i>> : i \in 1..q.w} :
              q \in {q \in CommonPorts(k[1]) : q.out = out}} : k \in Wrappers}
pure_holds(T) ==
    LET bit(q) == T.common[q[1]][q[2]][q[3]]
        driven == {bit(q) : q \in CommonPins(TRUE)}
        read   == {bit(q) : q \in CommonPins(FALSE)}
        core(out) == UNION {ToSet(Wires(<<"top", p.name>>, 0, p.w)) :
                        p \in {p \in ToSet(Common) : p.kind \in {"none", "star"} /\ p.out = out}}
        banked == ToSet(Concat(T.bank.rx_gated))
    IN /\ Cardinality(driven) = Cardinality(CommonPins(TRUE))
       /\ driven \cap core(FALSE) = {}
       /\ read \subseteq driven \cup core(FALSE)
       /\ core(TRUE) \subseteq driven
       /\ driven \ core(TRUE) \subseteq read \cup banked

\* R7: a block's one gate reports its clk_gated.
gates_hold(texts) == \A t \in DOMAIN texts : texts[t].gated = {gate_lines}

\* R8: the repeaters with a register in the netlist are the units' (a
\* unit's dst_end is not compared).
Key(u) == <<u.stages, u.boundary, u.shape>>
Repeaters(T, W) ==
    {r \in UNION {{LET e == W[T.inst[k].mod].ends
                   IN <<Setting(T, W, k, p), IF p[1] = "rpt" THEN e[p].boundary ELSE 0, p[2]>> :
                   p \in {p \in DOMAIN T.inst[k].conns : p[1] # "fto"}} : k \in Wrappers} :
       r[1] + r[2] > 0}
units_hold(T, W, U) == Repeaters(T, W) = {Key(u) : u \in U}
=============================================================================
