------------------------------ MODULE TopPorts ------------------------------
(***************************************************************************)
(* The ports of the blocks and what hangs off their order: the slot map    *)
(* and fabric table of the C++ skeleton and the checker bank's slices      *)
(* (tools/gen-skel.py); the stubs, the DPI shims that host a C++ block in  *)
(* the SV top, and the table that tells the host each shim's vector        *)
(* (tools/gen-top.py).  A trace id is one bit.                             *)
(***************************************************************************)
EXTENDS TopLayout

CONSTANTS
    Common,          \* the common ports, in order: [name, out, w, kind, end,
                     \* blks, port], kind one of broadcast, gather, star,
                     \* observe and none; end is the one block at its root
    AnsweredBy       \* {<<c, d>> : requests on c are answered on d}

(***************************************************************************)
(* The slot map, instance-major then slot, and the fabrics: a slot for a   *)
(* broadcast, one per source for a gather.                                 *)
(***************************************************************************)
slot_base(x)    == SumOf(LAMBDA y : Rate[y[1]], Before(cinst, Index(cinst, x)))
payload_base(x) == SumOf(LAMBDA y : Rate[y[1]] * Bits[y[1]], Before(cinst, Index(cinst, x)))

Fab    == SelectSeq(Common, LAMBDA p : p.kind \in {"broadcast", "gather"})
FabSlots(f) == IF f.kind = "broadcast" THEN 1 ELSE Len(f.blks)
fabrics == [i \in DOMAIN Fab |->
              [name |-> Fab[i].name, port |-> Fab[i].port, w |-> Fab[i].w,
               kind |-> Fab[i].kind, end |-> Fab[i].end, blks |-> Fab[i].blks,
               base |-> SumOf(FabSlots, Before(Fab, i))]]
FAB == [n \in UNION {{f.name, f.port} : f \in ToSet(fabrics)} |->
           CHOOSE i \in DOMAIN fabrics : n \in {fabrics[i].name, fabrics[i].port}]

\* An instance's place in a star's vector: its index, less the owner's
\* instances before it.
slot_of(k, owner) ==
    LET i == Index(binst, k)
    IN i - 1 - Cardinality({j \in 1..(i - 1) : binst[j][1] = owner})
Others(owner) == Len(binst) - Count[owner]

(***************************************************************************)
(* A block type's ports: [out, w, name, guard], the name <<common name>>   *)
(* or <<channel, copy, slot, signal>>.                                     *)
(***************************************************************************)
Whole == -1
Port(out, w, name, guard) == [out |-> out, w |-> w, name |-> name, guard |-> guard]
OfChan(p) == Len(p.name) = 4
Forward(sig) == sig \in {"valid", "payload", "tid", "wake"}

\* The copies a block of type t names in its ports.
owns_copies(c, t) == IF Many(t) \/ ninst(c) = 1 THEN <<Whole>>
                     ELSE [n \in 1..ninst(c) |-> n - 1]

chan_ports(c, src, copies) ==
    LET slots(sigs(_, _), cp) ==
            FlattenSeq([s \in 1..Rate[c] |-> sigs(cp, s - 1)])
        four(cp, s) == <<Port(src, 1, <<c, cp, s, "valid">>, "none"),
                         Port(src, Bits[c], <<c, cp, s, "payload">>, "none"),
                         Port(~src, 1, <<c, cp, s, "credit">>, "none"),
                         Port(~src, 1, <<c, cp, s, "stall">>, "none")>>
        tid(cp, s) == <<Port(src, 1, <<c, cp, s, "tid">>, "CCV_TRACE")>>
        wake(cp) == <<Port(src, 1, <<c, cp, 0, "wake">>, "none")>>
    IN FlattenSeq([i \in DOMAIN copies |-> slots(four, copies[i]) \o wake(copies[i])])
       \o FlattenSeq([i \in DOMAIN copies |-> slots(tid, copies[i])])

common_ports(t, p) ==
    LET own == <<Port(p.out, p.w, <<p.name>>, "none")>>
    IN CASE p.kind = "broadcast" /\ t = p.end -> <<Port(TRUE, p.w, <<p.name>>, "none")>>
         [] p.kind = "broadcast" -> IF t \in ToSet(p.blks)
                                    THEN <<Port(FALSE, p.w, <<p.name>>, "none")>> ELSE <<>>
         [] p.kind = "gather" /\ t = p.end ->
                <<Port(FALSE, Len(p.blks) * p.w, <<p.port>>, "none")>>
         [] p.kind = "gather" -> IF t \in ToSet(p.blks) THEN own ELSE <<>>
         [] p.kind = "star" /\ t = p.end ->
                own \o <<Port(~p.out, Others(t) * p.w, <<p.port>>, "none")>>
         [] p.kind = "observe" -> <<Port(p.out, p.w, <<p.name>>, "CCV_CHECK")>>
         [] OTHER -> own

block_ports(t) ==
    FlattenSeq([i \in DOMAIN Common |-> common_ports(t, Common[i])]) \o
    FlattenSeq([i \in DOMAIN Channels |->
        LET c == Channels[i]
        IN IF c \in Ends(t) THEN chan_ports(c, Src[c] = t, owns_copies(c, t)) ELSE <<>>])

\* The testbench's end: clock, reset, and every channel out of the core.
ext_ports ==
    FlattenSeq([i \in DOMAIN Common |->
        IF Common[i].kind = "none" THEN <<Port(FALSE, 1, <<Common[i].name>>, "none")>>
        ELSE <<>>]) \o
    FlattenSeq([i \in DOMAIN Channels |->
        LET c == Channels[i]
        IN IF EXTERNAL \in {Src[c], Dst[c]}
           THEN chan_ports(c, Src[c] = EXTERNAL, <<Whole>>) ELSE <<>>])

\* Each type's ports, computed once.
PortsOf == [t \in Types |-> block_ports(t)] @@ ("ext" :> ext_ports)

Names(P) == [i \in DOMAIN P |-> P[i].name]
Outputs(P) == SelectSeq(P, LAMBDA p : p.out)

(***************************************************************************)
(* The texts.  A stub and a shim hold the block's one clock gate, tied     *)
(* open, which reports clk_gated; what else they do not drive is zero.     *)
(***************************************************************************)
gate_lines == <<"clk_gated">>
gen_ports(P) == P
gen_stub(P) ==
    [gated |-> {gate_lines}, sample |-> <<>>, drive |-> <<>>,
     zero |-> ToSet(Names(Outputs(P))) \ {gate_lines}]

\* The ports a shim samples.
dpi_ports(P) == SelectSeq(P, LAMBDA p : IF OfChan(p) THEN p.name[4] # "wake"
                                        ELSE p.name[1] \in DOMAIN FAB)

\* Mutant of gen_shim: the vectors are listed in port order.
gen_shim_listed(P) ==
    LET S == dpi_ports(P) IN
    [gated |-> {gate_lines} \cap ToSet(Names(P)),
     sample |-> Names(S), drive |-> Names(Outputs(S)),
     zero |-> (ToSet(Names(Outputs(P))) \ ToSet(Names(S))) \ {gate_lines}]

gen_shim(P) ==
    LET S == dpi_ports(P) IN
    [gated |-> {gate_lines} \cap ToSet(Names(P)),
     sample |-> Reverse(Names(S)), drive |-> Reverse(Names(Outputs(S))),
     zero |-> (ToSet(Names(Outputs(P))) \ ToSet(Names(S))) \ {gate_lines}]

\* The host's table of a shim, the first entry at the LSB; a fabric port is
\* given by its fabric's index.
gen_dpi_header(P) ==
    LET S == dpi_ports(P)
    IN [i \in DOMAIN S |->
           [name |-> IF OfChan(S[i]) THEN S[i].name ELSE <<FAB[S[i].name[1]]>>,
            w |-> S[i].w, out |-> S[i].out]]

\* The testbench of the stubs' top ties what goes in to 0; the hosted run's
\* joins every port to the port of the same name of tb_ext.
gen_tb == {p.name : p \in {p \in ToSet(ext_ports) : p.out}}
gen_tb_hosted == [n \in ToSet(Names(ext_ports)) |-> n]

(***************************************************************************)
(* The checker bank: each checker by what it judges, the slices it takes   *)
(* of the bank's vectors, and the payload bits it is told of: a credit     *)
(* checker's lead and zero masks, or the slices of the keys it compares.   *)
(***************************************************************************)
Judge(kind, of, valid, one, bits) ==
    [kind |-> kind, of |-> of, valid |-> valid, one |-> one, bits |-> bits]
SlotAt(x, s) == slot_base(x) + s
PayloadAt(x, s, r) == Span(payload_base(x) + s * Bits[x[1]] + r.lo, r.n)
KeyAt(q, n) == PayloadAt(q[1], q[2], FieldSpan(q[1][1], At(q[1][1], n)))
FirstCopy(c) == <<c, 0>>

gen_sv ==
    LET all(x) == Span(slot_base(x), Rate[x[1]])
        first(x) == <<<<x, 0>>>>
        slots == UNION {{<<x, s>> : s \in 0..(Rate[x[1]] - 1)} : x \in Links}
        pair(kind, a, b, keys) == Judge(kind, <<a, b>>, Span(SlotAt(a[1], a[2]), 1),
                                        SlotAt(b[1], b[2]), keys)
        keys(a, b) == {<<n, KeyAt(a, n), KeyAt(b, n)>> : n \in NoticeKeys}
    IN {Judge("credit", <<q>>, Span(SlotAt(q[1], q[2]), 1), 0,
              [at |-> PayloadAt(q[1], q[2], Span(0, Bits[q[1][1]])),
               lead |-> lead_mask(q[1][1]), zero |-> zero_mask(q[1][1], q[2])]) : q \in slots}
       \cup {Judge("atomic", first(x), all(x), 0, {}) : x \in {x \in Links : Rate[x[1]] > 1}}
       \cup {Judge("binding", first(x), all(x), 0,
                   Reverse([s \in 1..Rate[x[1]] |-> KeyAt(<<x, s - 1>>, BindingKey[x[1]])])) :
                 x \in {x \in Links : BindingKey[x[1]] # ""}}
       \cup {Judge("wake", first(x), all(x), Index(cinst, x) - 1, {}) : x \in Links}
       \cup {pair("outstanding", <<FirstCopy(a[1]), 0>>, <<FirstCopy(a[2]), 0>>, {}) :
                 a \in AnsweredBy}
       \cup UNION {{LET m == <<<<a[2], q[1][2]>>, q[2]>> IN pair("notice", q, m, keys(q, m)) :
                       q \in {q \in slots : q[1][1] = a[1]}} : a \in NoticeOf}
       \cup {Judge("lockstep", first(FirstCopy(c)),
                   Span(slot_base(FirstCopy(c)), ninst(c) * Rate[c]), 0, {}) : c \in Lockstep}
=============================================================================
