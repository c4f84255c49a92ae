------------------------------ MODULE TopHosts ------------------------------
(***************************************************************************)
(* What hangs off the top's nets: the DPI shims, each handing its vector   *)
(* to the C++ host (sim/skel/dpi_host.cpp), which places every bit by the  *)
(* generated table and the skeleton's slot map; and the checker bank,      *)
(* which takes its slices of the top's vectors.                            *)
(***************************************************************************)
EXTENDS TopWires

External == <<EXTERNAL, 0>>
Hosted   == Wrappers \cup {External}
ShimOf(k) == IF k = External THEN "ext" ELSE k[1]

\* What the skeleton's header tells a host.
gen_h(insts) ==
    [insts |-> binst,
     chans |-> [c \in Chans |-> [rate |-> Rate[c], bits |-> Bits[c], ninst |-> ninst(c),
                                 lead |-> lead_mask(c),
                                 fields |-> [i \in DOMAIN Fields[c] |-> FieldSpan(c, i)]]],
     links |-> [x \in Links |-> [slot_base |-> slot_base(x)] @@ insts[x]],
     fabs  |-> fabrics]

(***************************************************************************)
(* The wire a bit of a port is on: a signal of a link's slot, which        *)
(* wiring_holds carries between its two ends, or a net of the top.         *)
(***************************************************************************)
WidthOf(P, n) == (CHOOSE p \in ToSet(P) : p.name = n).w
PortWires(k, T, P, n) ==
    [b \in 1..WidthOf(P, n) |->
        IF Len(n) = 4 THEN <<LinkAt(k, n[1], n[2]), n[3], n[4], b>> ELSE T.common[k][n][b]]

\* The host's place for bit b of a table's entry: a slot's signal, or the
\* fabric state's slot -- a gather's end has a source's every width bits.
fabSlot(h, k, e, b) ==
    LET f == h.fabs[e.name[1]]
    IN CASE f.kind = "broadcast" -> f.base
         [] e.out  -> f.base + Index(f.blks, k[1]) - 1
         [] OTHER  -> f.base + (b - 1) \div f.w
Place(h, k, e, b) ==
    IF Len(e.name) = 4
    THEN <<"slot", h.links[LinkAt(k, e.name[1], e.name[2])].slot_base + e.name[3], e.name[4], b>>
    ELSE <<"fabric", fabSlot(h, k, e, b), "", 1 + ((b - 1) % h.fabs[e.name[1]].w)>>
Places(h, k, entries) ==
    FlattenSeq([i \in DOMAIN entries |->
        [b \in 1..entries[i].w |-> Place(h, k, entries[i], b)]])

\* resolve: every channel port is a slot of its channel, at this instance's
\* end and as wide; a fabric port has the fabric's width.
resolve(h, k, tab) ==
    \A i \in DOMAIN tab :
        LET e == tab[i]
            x == h.links[LinkAt(k, e.name[1], e.name[2])]
            c == h.chans[e.name[1]]
            f == h.fabs[e.name[1]]
        IN IF Len(e.name) = 4
           THEN /\ k = IF Forward(e.name[4]) = e.out THEN x.src ELSE x.dst
                /\ e.name[3] < c.rate
                /\ e.w = IF e.name[4] = "payload" THEN c.bits ELSE 1
           ELSE e.w = IF f.kind = "gather" /\ ~e.out THEN Len(f.blks) * f.w ELSE f.w

(***************************************************************************)
(* One cycle of every shim: what the host drives comes out on the wires,   *)
(* and each shim's sample is what its host reads.  P, D and h are the port *)
(* lists, the shims and the tables by type, W the skeleton's header.       *)
(***************************************************************************)
Listed(T, P, k, names) == Concat([i \in DOMAIN names |-> PortWires(k, T, P[ShimOf(k)], names[i])])

hosts_carry(T, P, D, h, W) ==
    LET tab(k)   == h[ShimOf(k)]
        shim(k)  == D[ShimOf(k)]
        drives   == UNION {LET out == Listed(T, P, k, shim(k).drive)
                               from == Places(W, k, Outputs(tab(k)))
                           IN {<<out[i], from[i]>> : i \in DOMAIN out} : k \in Hosted}
    IN /\ layout_holds([c \in Chans |-> W.chans[c].fields])
       /\ \A k \in Hosted :
          LET at == Listed(T, P, k, shim(k).sample)
              reads == Places(W, k, tab(k))
          IN /\ resolve(W, k, tab(k))
             /\ Len(at) = Len(reads)
             /\ \A i \in DOMAIN at : {d[2] : d \in {d \in drives : d[1] = at[i]}} = {reads[i]}

(***************************************************************************)
(* The bank B on the top's vectors: each checker is on the net that leaves *)
(* the sender's wrapper, of the slots it judges, and the payload bits it   *)
(* is told of are its fields' in the typedef.                              *)
(***************************************************************************)
bank_reads(T, B) ==
    LET cut(v, r) == Slice(v, r.lo, r.n)
        valid == Concat(T.bank.valid)
        payload == Concat(T.bank.payload)
        sent(x, s, sig, w) == [b \in 1..w |-> <<SrcNet(T, x), s, sig, b>>]
        slot(q) == sent(q[1], q[2], "valid", 1)
        every(x) == FlattenSeq([s \in 1..Rate[x[1]] |-> slot(<<x, s - 1>>)])
        gate(x) == IF DstOf(x)[1] = EXTERNAL THEN Wires(<<"low">>, 0, 1)
                   ELSE T.common[DstOf(x)][<<"clk_gated">>]
        field(q, n) == SelectSeq(sent(q[1], q[2], "payload", Bits[q[1][1]]),
                                 LAMBDA b : typedef(q[1][1])[b[4]][1] = n)
    IN \A j \in B :
        LET q == j.of[1]
            x == q[1]
            c == x[1]
        IN CASE j.kind = "credit" ->
                /\ cut(valid, j.valid) = slot(q)
                /\ cut(payload, j.bits.at) = sent(x, q[2], "payload", Bits[c])
                /\ masks(c, j.bits.lead, {i \in DOMAIN Fields[c] : Fields[c][i].lead})
                /\ masks(c, j.bits.zero, {i \in DOMAIN Fields[c] : q[2] \notin Fields[c][i].slots})
          [] j.kind = "atomic" -> cut(valid, j.valid) = every(x)
          [] j.kind = "binding" ->
                /\ cut(valid, j.valid) = every(x)
                /\ \A s \in 1..Rate[c] :
                      cut(payload, Reverse(j.bits)[s]) = field(<<x, s - 1>>, BindingKey[c])
          [] j.kind = "wake" ->
                /\ cut(valid, j.valid) = every(x)
                /\ cut(Concat(T.bank.wake), Span(j.one, 1)) = sent(x, 0, "wake", 1)
                /\ cut(Concat(T.bank.rx_gated), Span(j.one, 1)) = gate(x)
          [] j.kind = "lockstep" ->
                cut(valid, j.valid) = FlattenSeq([i \in 1..ninst(c) |-> every(<<c, i - 1>>)])
          [] OTHER ->
                /\ cut(valid, j.valid) = slot(q)
                /\ cut(valid, Span(j.one, 1)) = slot(j.of[2])
                /\ \A key \in j.bits : /\ cut(payload, key[2]) = field(q, key[1])
                                       /\ cut(payload, key[3]) = field(j.of[2], key[1])
=============================================================================
