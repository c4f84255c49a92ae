------------------------------ MODULE LinkPlan ------------------------------
(***************************************************************************)
(* What params/links.json says of the design: the route of every channel   *)
(* instance across the hardening wrappers, with the repeater stages each   *)
(* wrapper holds, and the channel ends built without a boundary flop       *)
(* (tools/ccv_links.py); and what the C++ skeleton, the checker bank       *)
(* (tools/gen-skel.py) and the parameters (tools/gen-params.py) make of it. *)
(* A block instance, and its wrapper, is <<type, index>>; a channel        *)
(* instance is <<channel, copy>>.  A slot's valid, payload, credit, stall  *)
(* and wake run together, so one line stands for all of a copy's signals.  *)
(***************************************************************************)
EXTENDS Integers, Sequences, FiniteSetsExt, SequencesExt

CONSTANTS
    Blocks,          \* the block types, in partition order
    Count,           \* block type |-> its instances
    Rtl,             \* the block types whose top is RTL
    Channels,        \* the channels, in the schema's order
    Src, Dst,        \* channel |-> the block type at that end, or EXTERNAL
    Lockstep,        \* the channels whose copies deliver together
    LatencyMatch,    \* {<<c, d>> : c must arrive in the order sent against d}
    NoticeOf,        \* {<<c, d>> : c announces d}
    MAX_STAGES,      \* the most stages of a hop
    CCV_LAT_HOP      \* cycles of a crossing with no stage and no flop

EXTERNAL == "EXTERNAL"
Types    == ToSet(Blocks)
Chans    == ToSet(Channels)

binst == FlattenSeq([i \in DOMAIN Blocks |->
             [n \in 1..Count[Blocks[i]] |-> <<Blocks[i], n - 1>>]])
Wrappers == ToSet(binst)

\* A channel has a copy for each instance of its replicated end.
Many(t)  == t # EXTERNAL /\ Count[t] > 1
ninst(c) == Max({IF Many(t) THEN Count[t] ELSE 1 : t \in {Src[c], Dst[c]}})
cinst == FlattenSeq([i \in DOMAIN Channels |->
             [n \in 1..ninst(Channels[i]) |-> <<Channels[i], n - 1>>]])
Links     == ToSet(cinst)
LinksOf(c) == {x \in Links : x[1] = c}

EndAt(t, copy) == <<t, IF Many(t) THEN copy ELSE 0>>
SrcOf(x) == EndAt(Src[x[1]], x[2])
DstOf(x) == EndAt(Dst[x[1]], x[2])

(***************************************************************************)
(* Routes.  An entry is [channel, all, copies, route]; a hop [at, n], the  *)
(* first at <<"src", 0>>, the last at <<"dst", 0>>.                        *)
(***************************************************************************)
Covers(e, x) == x[1] = e.channel /\ (e.all \/ x[2] \in e.copies)
Sum(route)   == FoldLeft(LAMBDA t, h : t + h.n, 0, route)

BadHop(e, x, j) ==
    LET h == e.route[j]
        ends == {SrcOf(x), DstOf(x)}
    IN CASE j = 1 -> SrcOf(x)[1] = EXTERNAL /\ h.n > 0
         [] j = Len(e.route) -> DstOf(x)[1] = EXTERNAL /\ h.n > 0
         [] OTHER -> \/ h.at \notin Wrappers \ ends
                     \/ \E i \in 2..(j - 1) : e.route[i].at = h.at

BadEntry(e) ==
    \/ e.channel \notin Chans
    \/ ~e.all /\ (e.copies = {} \/ ~(e.copies \subseteq 0..(ninst(e.channel) - 1)))
    \/ Len(e.route) < 2
    \/ e.route[1].at # <<"src", 0>>
    \/ Last(e.route).at # <<"dst", 0>>
    \/ \E j \in DOMAIN e.route :
          \/ e.route[j].n > MAX_STAGES
          \/ \E x \in Links : Covers(e, x) /\ BadHop(e, x, j)

\* The entries in order: one naming copies beats one for all, and a second
\* of the kind in force is refused.
Choice == [found |-> FALSE, specific |-> FALSE, twice |-> FALSE, route |-> <<>>]
choose(prev, e) ==
    CASE prev.found /\ prev.specific # e.all -> [prev EXCEPT !.twice = TRUE]
      [] prev.found /\ e.all -> prev
      [] OTHER -> [found |-> TRUE, specific |-> ~e.all, twice |-> prev.twice,
                   route |-> e.route]
Chosen(es, x) ==
    FoldLeft(choose, Choice, SelectSeq(es, LAMBDA e : Covers(e, x)))

hops(es, x) ==
    LET r == IF Chosen(es, x).found THEN Chosen(es, x).route
             ELSE <<[at |-> <<"src", 0>>, n |-> 0], [at |-> <<"dst", 0>>, n |-> 0]>>
    IN [j \in DOMAIN r |->
           [at |-> CASE j = 1 -> SrcOf(x) [] j = Len(r) -> DstOf(x) [] OTHER -> r[j].at,
            n  |-> r[j].n]]

Totals(es, c) == {Sum(hops(es, x)) : x \in LinksOf(c)}
Heads(es, c)  == {hops(es, x)[1].n : x \in LinksOf(c)}
Splits(es, c) == {[j \in DOMAIN hops(es, x) |-> hops(es, x)[j].n] : x \in LinksOf(c)}

Level_totals(es, c) == Cardinality(Totals(es, c)) = 1
Level(es, c) == Cardinality(Totals(es, c)) = 1 /\ Cardinality(Heads(es, c)) = 1

\* Mutant of load_refuses: a latency-matched pair is not compared.
load_refuses_unpaired(es) ==
    \/ \E i \in DOMAIN es : BadEntry(es[i])
    \/ \E x \in Links : Chosen(es, x).twice
    \/ \E c \in Lockstep : ~Level(es, c)
    \/ \E p \in NoticeOf : Splits(es, p[1]) # Splits(es, p[2])

load_refuses(es) ==
    \/ \E i \in DOMAIN es : BadEntry(es[i])
    \/ \E x \in Links : Chosen(es, x).twice
    \/ \E c \in Lockstep : ~Level(es, c)
    \/ \E p \in LatencyMatch : Totals(es, p[1]) # Totals(es, p[2])
    \/ \E p \in NoticeOf : Splits(es, p[1]) # Splits(es, p[2])

(***************************************************************************)
(* Boundary flops.  An entry is [block, all, channels, except].            *)
(***************************************************************************)
Ends(t) == {c \in Chans : t \in {Src[c], Dst[c]}}
Named(f) == (IF f.all THEN Ends(f.block) ELSE f.channels) \ f.except
no_flop(fs) == UNION {{f.block} \X Named(f) : f \in ToSet(fs)}

no_flop_refuses(fs) ==
    \/ \E i \in DOMAIN fs : LET f == fs[i] IN
          \/ f.block \notin Types
          \/ f.all /\ f.block \in Rtl
          \/ ~f.all /\ (f.channels = {} \/ f.except # {})
          \/ ~(f.except \cup Named(f) \subseteq Ends(f.block))
          \/ \E j \in 1..(i - 1) :
                fs[j].block = f.block /\ Named(fs[j]) \cap Named(f) # {}
    \/ \E c \in Chans : Src[c] \in Types \ Rtl /\ <<Src[c], c>> \notin no_flop(fs)

\* The flops an end of c at block type t holds in its wrapper's repeater.
bnd(fs, t, c) == IF t = EXTERNAL \/ <<t, c>> \in no_flop(fs) THEN 0 ELSE 1
bnd_rx(fs, c) == bnd(fs, Dst[c], c)

(***************************************************************************)
(* The skeleton's channel instances, and the bank's checkers of each.      *)
(***************************************************************************)
ChanInst(es, fs, x) ==
    [src |-> SrcOf(x), dst |-> DstOf(x),
     stages |-> Sum(hops(es, x)), src_stages |-> hops(es, x)[1].n,
     bnd_src |-> bnd(fs, Src[x[1]], x[1]), bnd_rx |-> bnd_rx(fs, x[1])]

pipe(i) == i.stages + i.bnd_src + i.bnd_rx

Checker(es, fs, x) ==
    LET i == ChanInst(es, fs, x) IN
    [round_trip |-> 2 * (i.stages + i.bnd_rx),    \* over CCV_RT_ABUT
     src_stages |-> IF i.stages + i.bnd_rx = 0 THEN 0 ELSE i.src_stages,
     src_boundary |-> i.bnd_src,
     arrive |-> i.stages - i.src_stages + i.bnd_rx]

(***************************************************************************)
(* A parameter derived from a crossing: what link_n and bnd_rx give for    *)
(* the channel, read from the entries alone.                               *)
(***************************************************************************)
link_n_last(es, c) ==
    FoldLeft(LAMBDA n, e : IF e.channel = c THEN Sum(e.route) ELSE n, 0, es)
link_n(es, c) == Max({0} \cup {Sum(es[i].route) : i \in {i \in DOMAIN es : es[i].channel = c}})
Crossing(es, fs, c) == CCV_LAT_HOP + link_n(es, c) + bnd_rx(fs, c)
=============================================================================
