------------------------------- MODULE MCNgd -------------------------------
(***************************************************************************)
(* A block of two instances of one leaf, k1 inside a module m and k2 beside *)
(* it, on every path a signal can take through them, at a stage of 4.      *)
(***************************************************************************)
EXTENDS NgdCheck, TLC

MCPin == {"k1.i", "k1.o", "k2.i", "k2.o", "m.i", "m.o", "b.i", "b.o"}
MCKind == [p \in MCPin |-> CASE p \in {"m.i", "m.o"} -> "mid"
                              [] p \in {"b.i", "b.o"} -> "block"
                              [] OTHER -> "leaf"]
MCOutput == {"k1.o", "k2.o", "m.o", "b.o"}
MCPortOf == [p \in MCPin |-> CASE p \in {"k1.i", "k2.i"} -> "i"
                                [] p \in {"k1.o", "k2.o"} -> "o"
                                [] OTHER -> p]

\* As ngd.genlib: one delay for all pins, or each pin its own.
MCDelay == [BUF |-> [A |-> 1], INV |-> [A |-> 1], NAND2 |-> "*" :> 1,
            XOR2 |-> [A |-> 2, B |-> 1]]

\* Five functions of a leaf, each mapped to cells that differ in delay: the
\* nets each gate's pins read, one twice in the last.
One(a)    == [A |-> a]
Two(a, b) == [A |-> a, B |-> b]
Functions == {
    [x |-> One("q1"), o |-> One("q1"),       d1 |-> One("i"),       d2 |-> One("x")],
    [x |-> One("q1"), o |-> Two("x", "q2"),  d1 |-> Two("q2", "i"), d2 |-> One("x")],
    [x |-> One("i"),  o |-> Two("q1", "x"),  d1 |-> One("q2"),      d2 |-> One("i")],
    [x |-> One("q2"), o |-> One("q2"),       d1 |-> One("x"),       d2 |-> One("i")],
    [x |-> Two("q1", "q1"), o |-> Two("q2", "x"), d1 |-> Two("x", "i"), d2 |-> Two("x", "x")]}
Cells(pins) == IF DOMAIN pins = {"A"} THEN {"BUF", "INV"} ELSE {"NAND2", "XOR2"}
Netlists(f) ==
    {[ins |-> {"i"}, outs |-> {"o"}, latches |-> {<<"d1", "q1">>, <<"d2", "q2">>},
      gate |-> [y \in {"x", "o", "d1", "d2"} |-> [cell |-> c[y], pins |-> f[y]]]] :
        c \in {m \in [{"x", "o", "d1", "d2"} -> DOMAIN MCDelay] :
                 \A y \in DOMAIN m : m[y] \in Cells(f[y])}}
MCMapped == {Netlists(f) : f \in Functions}

Shape(ws, ls, cs, in) ==
    [wires |-> ws, launches |-> ls, captures |-> cs, input |-> in]
MCShapes == {
    Shape({<<"k1.o", "m.o">>, <<"m.o", "k2.i">>}, {}, {}, FALSE),
    Shape({<<"k2.o", "m.i">>, <<"m.i", "k1.i">>}, {}, {}, TRUE),
    Shape({<<"m.o", "k2.i">>}, {"m.o"}, {}, FALSE),
    Shape({<<"k1.o", "m.o">>}, {}, {"m.o"}, FALSE),
    Shape({<<"b.i", "m.i">>, <<"m.i", "k1.i">>}, {}, {}, TRUE),
    Shape({<<"k1.o", "m.o">>, <<"m.o", "b.o">>}, {}, {}, FALSE),
    Shape({<<"k2.o", "m.i">>, <<"m.i", "m.o">>, <<"m.o", "k2.i">>}, {}, {}, TRUE)}

MCInBudgets == {[kind |-> "none", v |-> 0], [kind |-> "arrival", v |-> 1],
                [kind |-> "arrival", v |-> 3], [kind |-> "required", v |-> 3]}
MCOutBudgets == {[kind |-> "none", v |-> 0], [kind |-> "required", v |-> 0],
                 [kind |-> "required", v |-> 3], [kind |-> "observation", v |-> 0]}
=============================================================================
