----------------------------- MODULE MCCgPolicy -----------------------------
(***************************************************************************)
(* A block of two modules and a repeater: A, with a helper it flattens and *)
(* an L it does not, and two more of L, at different parameters.  L's Q is *)
(* by default twice its P, and its flops are P of s and Q of v.            *)
(***************************************************************************)
EXTENDS CgPolicy

U(name, module, params, set, blackbox, regs) ==
    [name |-> name, module |-> module, params |-> params, set |-> set, defines |-> FALSE,
     blackbox |-> blackbox, regs |-> regs]
NoParams == [p \in {} |-> 0]
L(name, P, Q, set) == U(name, "L", [P |-> P, Q |-> Q], set, {}, [s |-> P, v |-> Q])
MCUnits == <<U("A", "A", NoParams, {}, {"L"}, [x |-> 2, y |-> 9, z |-> 2]),
             L("L5", 1, 9, {"P", "Q"}), L("L1", 1, 2, {"P"}), L("L2", 2, 4, {}),
             U("R", "rpt", NoParams, {}, {}, [ctl |-> 1, pay |-> 8])>>
MCModules == {"A", "L", "rpt"}

I(module, parent, given, over) ==
    [module |-> module, parent |-> parent, given |-> given, over |-> over,
     state |-> module # "T"]
MCInstances ==
    [t |-> I("T", "none", NoParams, FALSE), a |-> I("A", "t", NoParams, FALSE),
     h |-> I("H", "a", NoParams, FALSE),    l1 |-> I("L", "a", [P |-> 1], TRUE),
     l2 |-> I("L", "t", NoParams, TRUE),    l3 |-> I("L", "t", [P |-> 1, Q |-> 2], FALSE),
     r |-> I("rpt", "t", NoParams, FALSE)]
MCDefault == [e \in {<<"L", "P">>, <<"L", "Q">>} |-> IF e[2] = "P" THEN 2 ELSE 0]
MCRealRegs(i) ==
    CASE i = "t" -> [p \in {} |-> 0]
      [] i = "a" -> [x |-> 2, y |-> 9]
      [] i = "h" -> [z |-> 2]
      [] i \in {"l1", "l3"} -> [s |-> 1, v |-> 2]
      [] i = "l2" -> [s |-> 2, v |-> 4]
      [] i = "r" -> [ctl |-> 1, pay |-> 8]

Finding(rule, module, unit, regs, flops) ==
    [rule |-> rule, module |-> module, unit |-> unit, regs |-> regs, flops |-> flops,
     budgetable |-> rule \notin FINDING_RULES, scenario |-> rule = "CG-3",
     enable |-> "e", pct |-> 30, inputs |-> {"p"}, cone |-> 3]
MCFindings == <<Finding("CG-4", "A", "A", {"z"}, 2), Finding("CG-1", "L", "none", {"s"}, 2),
                Finding("CG-1", "L", "none", {"v"}, 9), Finding("CG-3", "L", "L1", {"v"}, 2),
                Finding("CG-4", "rpt", "R", {"ctl"}, 1), Finding("CG-5", "A", "A", {"x"}, 2),
                Finding("RST-1", "L", "L2", {"rst"}, 0)>>

Waiver(rule, module, target, states, charged) ==
    [rule |-> rule, module |-> module, target |-> target, states |-> states,
     measured |-> 35, ports |-> {"p"}, enable |-> "none", charged |-> charged,
     complete |-> TRUE]
MCWaivers == <<Waiver("CG-5", "A", "x", 6, FALSE), Waiver("CG-1", "L", "v", 9, FALSE),
               Waiver("CG-1", "L", "v", 12, TRUE), Waiver("CG-3", "L", "v", 20, TRUE)>>
MCBaseline == {"L"}
MCFindingsBaseline == {<<"A", "CG-5", "x">>, <<"L", "RST-1", "rst">>}
MCRatchets == {{}, {"L"}}
MCFindingsRatchets == {{}, MCFindingsBaseline}
MCArrival == [e \in {<<"A", "p">>} |-> 2]
=============================================================================
