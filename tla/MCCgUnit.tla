------------------------------ MODULE MCCgUnit ------------------------------
(***************************************************************************)
(* Small netlists on which the cells, polarities and resets that Netlist   *)
(* tells apart all occur, and small always_ff bodies for the form check.   *)
(***************************************************************************)
EXTENDS CgUnit

MCIdent == {"x", "y", "a", "x_en", "rst", "i", "d"}

Cell(type, e, epol, r, rpol, reg) ==
    [type |-> type, e |-> e, epol |-> epol, r |-> r, rpol |-> rpol, d |-> "dat", reg |-> reg]
Capture(d) ==
    [type |-> "DFF", e |-> "none", epol |-> TRUE, r |-> "none", rpol |-> TRUE, d |-> d,
     reg |-> "rst_r"]
Netlist(flop, logic, text) ==
    [flop |-> flop, logic |-> logic, inputs |-> {"rst", "en", "dat"}, outs |-> {"x0"},
     icgs |-> {"en"}, reset |-> "rst", rhigh |-> TRUE, text |-> text]
None == [n \in {} |-> {}]

X == <<"assign", {"x"}>>
ResetElse(c, s) == <<"if", <<"rst">>, c, s>>
EnabledX == <<"if", <<"x_en">>, X, NoElse>>
Every == {<<"assign", {"x"}>>, <<"assign", {"y"}>>}

MCUnit == {
    \* A gate of three whose reset is flopped twice, and one too small.
    Netlist([x0 |-> Cell("SDFFE", "en", TRUE, "r2", TRUE, "x"),
             x1 |-> Cell("DFFE", "en", TRUE, "none", TRUE, "x"),
             r1 |-> Capture("rst"), r2 |-> Capture("r1")],
            None, {ResetElse(X, EnabledX)}),
    \* A clear made of the reset at the other polarity is the gate's own.
    Netlist([x0 |-> Cell("SDFFE", "en", FALSE, "r1", FALSE, "x"),
             x1 |-> Cell("SDFFE", "en", FALSE, "r1", FALSE, "x"),
             r1 |-> Capture("rst")], None, {ResetElse(X, EnabledX)}),
    \* A reset gated with the enable, under logic; a lone enabled flop.
    Netlist([x0 |-> Cell("SDFFCE", "n", TRUE, "r1", TRUE, "x"),
             x1 |-> Cell("SDFFCE", "n", TRUE, "r1", TRUE, "x"),
             y0 |-> Cell("DFFE", "x0", TRUE, "none", TRUE, "y"),
             r1 |-> Capture("rst")],
            [n \in {"n"} |-> {"en", "x0"}], {ResetElse(X, EnabledX)}),
    \* Clocked every cycle, the reset used before it is flopped.
    Netlist([x0 |-> Cell("SDFF", "none", TRUE, "rst", TRUE, "x"),
             x1 |-> Cell("DFF", "none", TRUE, "none", TRUE, "x"),
             y0 |-> Cell("DFF", "none", TRUE, "none", TRUE, "y")],
            None, Every)}

Conds == {<<"rst">>, <<"!", "x_en">>, <<"a">>, <<"a", "d">>}
Leaves == {<<"assign", {"x"}>>, <<"assign", {"x", "y"}>>, <<"case", {"y"}>>, <<"macro">>}
Ifs(cs, A, B) == {<<"if", c, s, e>> : c \in cs, s \in A, e \in B}
Small == Leaves \union Ifs(Conds, {X, <<"macro">>}, {X, NoElse})
         \union {<<"block", <<p, q>>>> : p, q \in Leaves}
         \union {<<"for", p>> : p \in Leaves}
MCBodies == {s \in Small \union Ifs({<<"rst">>, <<"!", "x_en">>}, Small, Small \union {NoElse})
                   \union {<<"block", <<p, q>>>> : p, q \in Small}
                   \union {<<"for", p>> : p \in Small} : Unambiguous(s)}
=============================================================================
