------------------------------- MODULE MCTop -------------------------------
(***************************************************************************)
(* Three single blocks and a pair of lanes: the lockstep channel out to    *)
(* the lanes, a latency-matched pair, a notice and its partner, and a      *)
(* channel out of the core.  OOE's top is RTL, the others C++.  RAU has    *)
(* only common ports: it kills, FET owns the CSRs.                         *)
(***************************************************************************)
EXTENDS TopBuild

MCBlocks   == <<"rau", "ooe", "fet", "lane">>
MCCount    == "rau" :> 1 @@ "ooe" :> 1 @@ "fet" :> 1 @@ "lane" :> 2
MCChannels == <<"ops", "rd", "ck", "res", "hint", "out", "adm">>
MCSrc == "ops" :> "ooe" @@ "rd" :> "ooe" @@ "ck" :> "ooe" @@ "adm" :> "ooe" @@
         "res" :> "fet" @@ "hint" :> "fet" @@ "out" :> "fet"
MCDst == "ops" :> "lane" @@ "rd" :> "fet" @@ "ck" :> "fet" @@ "adm" :> "rau" @@
         "res" :> "ooe" @@ "hint" :> "ooe" @@ "out" :> "EXTERNAL"
MCRate == "ops" :> 2 @@ [c \in ToSet(MCChannels) |-> 1]
Field(n, lead, slots) == [name |-> n, w |-> 1, lead |-> lead, slots |-> slots]
One(n) == Field(n, FALSE, {0})
MCFields ==
    "ops" :> <<Field("way", FALSE, {0, 1}), Field("mask", TRUE, {0, 1}), Field("imm", FALSE, {0})>> @@
    "rd" :> <<One("pc"), [One("id") EXCEPT !.w = 2]>> @@
    "res" :> <<One("id"), Field("mask", TRUE, {0})>> @@ "hint" :> <<One("id")>> @@
    [c \in {"ck", "out", "adm"} |-> <<One("id")>>]
MCKey == "ops" :> "way" @@ [c \in ToSet(MCChannels) |-> ""]

Com(n, out, w, kind, end, blks, port) ==
    [name |-> n, out |-> out, w |-> w, kind |-> kind, end |-> end, blks |-> blks, port |-> port]
MCCommon ==
    <<Com("core_clk", FALSE, 1, "none", "", <<>>, ""),
      Com("kill", FALSE, 2, "broadcast", "rau", <<"fet", "ooe">>, "kill"),
      Com("kill_ack", TRUE, 2, "gather", "rau", <<"fet", "ooe">>, "kill_acks"),
      Com("csr_req", FALSE, 1, "star", "fet", <<>>, "csr_reqs"),
      Com("csr_rsp", TRUE, 1, "star", "fet", <<>>, "csr_rsps"),
      Com("clk_gated", TRUE, 1, "observe", "", <<>>, "")>>
MCAnswered == {<<"rd", "res">>}
MCMatch  == {<<"ck", "rd">>}
MCNotice == {<<"hint", "res">>}

S(n) == [at |-> <<"src", 0>>, n |-> n]
D(n) == [at |-> <<"dst", 0>>, n |-> n]
L(i, n) == [at |-> <<"lane", i>>, n |-> n]
F(n) == [at |-> <<"fet", 0>>, n |-> n]
All(c, r) == [channel |-> c, all |-> TRUE, copies |-> {}, route |-> r]
Of(c, cs, r) == [channel |-> c, all |-> FALSE, copies |-> cs, route |-> r]

OpsChoices == {
    <<>>,
    <<All("ops", <<S(1), D(1)>>)>>,
    <<All("ops", <<S(1), D(1)>>), Of("ops", {1}, <<S(1), L(0, 1), D(0)>>)>>,
    <<Of("ops", {0}, <<S(0), L(1, 1), D(1)>>), Of("ops", {1}, <<S(0), L(0, 1), D(1)>>)>>,
    <<Of("ops", {0, 1}, <<S(0), F(1), D(0)>>), All("ops", <<S(2), D(0)>>)>>,
    <<Of("ops", {0, 1}, <<S(1), D(1)>>), All("ops", <<S(0), D(0)>>)>>,
    <<All("ops", <<S(1), D(0)>>), Of("ops", {0}, <<S(0), D(1)>>)>>,
    <<Of("ops", {0}, <<S(1), L(0, 1), D(0)>>)>>}
PairChoices == {
    <<>>,
    <<All("rd", <<S(0), L(0, 1), D(1)>>), All("ck", <<S(2), D(0)>>)>>,
    <<All("rd", <<S(1), L(0, 0), L(1, 1), D(0)>>), All("ck", <<S(1), L(1, 1), D(0)>>)>>,
    <<All("rd", <<S(1), D(0)>>)>>}
RestChoices == {
    <<>>,
    <<All("res", <<S(1), L(1, 0), D(0)>>), All("hint", <<S(1), L(0, 0), D(0)>>),
      All("out", <<S(0), L(0, 1), D(0)>>)>>,
    <<All("res", <<S(1), D(0)>>), All("hint", <<S(0), D(1)>>)>>}

No(b, ex) == [block |-> b, all |-> TRUE, channels |-> {}, except |-> ex]
AllNo == <<No("fet", {}), No("lane", {}), No("rau", {})>>
NoFlops == {
    AllNo,
    <<No("fet", {"rd"}), No("lane", {"ops"}), No("rau", {}),
      [block |-> "ooe", all |-> FALSE, channels |-> {"ops", "res"}, except |-> {}]>>,
    <<No("fet", {"res"}), No("lane", {}), No("rau", {})>>}

Conf(o, p, r, n, u, x) ==
    [links |-> o \o p \o r, no_flop |-> n, reuse |-> u, extra |-> x]
MCConfs == {Conf(q[1], q[2], q[3], q[4], q[5], {}) :
               q \in {q \in OpsChoices \X PairChoices \X RestChoices \X NoFlops \X {{}, {"lane"}} :
                         Cardinality({i \in 1..5 : q[i] # <<<<>>, <<>>, <<>>, AllNo, {"lane"}>>[i]}) <= 2}}
MCFirsts == {Conf(<<>>, <<>>, <<>>, AllNo, {"lane"}, {"old"}),
             Conf(<<Of("ops", {0}, <<S(0), L(1, 1), D(1)>>), Of("ops", {1}, <<S(0), D(2)>>)>>,
                  <<>>, <<>>, AllNo, {}, {})}
=============================================================================
