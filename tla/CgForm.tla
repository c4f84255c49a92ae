------------------------------- MODULE CgForm -------------------------------
(***************************************************************************)
(* CG-1's form check of tools/check-cg.py: it reads the tokens of an       *)
(* always_ff body as statements and reports every register whose write is  *)
(* not under a named enable.  Nothing it reads is a real SystemVerilog     *)
(* parse, so what it must not do is pass a register that is written with   *)
(* every enable low.                                                       *)
(*                                                                         *)
(* A statement is a tuple headed by its kind, as the parser builds it:     *)
(* <<"assign", registers>>, <<"case", registers>>, <<"if", condition,      *)
(* then, other>>, <<"block", statements>>, <<"for", body>>, <<"macro">>,   *)
(* <<"empty">>; NoElse is an if's missing else.  A condition is its tokens.*)
(***************************************************************************)
EXTENDS Integers, Sequences, FiniteSets

CONSTANTS
    Ident,        \* identifiers
    EnableName,   \* those named <what>_en[_<stage>][_n|_b]
    ResetName     \* those RESET_RE takes for a reset

Open  == {"(", "[", "{"}
Close == {")", "]", "}"}
NoElse == <<"none">>

\* Bracket depth after the tokens of t up to i.
Depth(t, i) == Cardinality({k \in 1..i : t[k] \in Open})
               - Cardinality({k \in 1..i : t[k] \in Close})
First(S) == CHOOSE i \in S : \A j \in S : i <= j

\* The register a target ends in, reading back from its last token: past its
\* selects and fields; every name of a concatenation.
RECURSIVE Target(_)
Target(s) ==
    IF s = <<>> THEN {}
    ELSE LET n == Len(s)
             matching == CHOOSE k \in 1..n : /\ s[k] \in Open
                                             /\ Depth(s, k - 1) = Depth(s, n)
                                             /\ \A j \in k + 1..n - 1 : Depth(s, j) > Depth(s, n)
         IN  CASE s[n] = "]" -> Target(SubSeq(s, 1, matching - 1))
               [] s[n] = "}" -> {s[k] : k \in matching..n} \cap Ident
               [] n > 1 /\ s[n] \in Ident /\ s[n - 1] = "." ->
                    Target(SubSeq(s, 1, n - 2))
               [] OTHER -> {s[n]} \cap Ident

\* assigned: the targets of each statement's first <= outside brackets.
RECURSIVE assigned(_)
assigned(t) ==
    LET ends  == {i \in 1..Len(t) : t[i] = ";" /\ Depth(t, i) <= 0}
        e     == IF ends = {} THEN Len(t) + 1 ELSE First(ends)
        seg   == SubSeq(t, 1, e - 1)
        arrow == {i \in 1..Len(seg) : seg[i] = "<=" /\ Depth(seg, i) = 0}
        here  == IF arrow = {} THEN {} ELSE Target(SubSeq(seg, 1, First(arrow) - 1))
    IN  IF t = <<>> THEN {}
        ELSE here \union assigned(SubSeq(t, e + 1, Len(t)))

-----------------------------------------------------------------------------
\* Parser: peek, take, group and stmt.  Each returns what it read and where
\* it stopped.

Peek(t, i) == IF i <= Len(t) THEN t[i] ELSE "eof"

\* Just past the bracket that closes the one at i.
GroupEnd(t, i) ==
    LET shut == {k \in i..Len(t) : Depth(t, k) = Depth(t, i - 1)}
    IN  IF shut = {} THEN Len(t) + 1 ELSE First(shut) + 1

\* Just past the endcase of the case at i.
CaseEnd(t, i) ==
    LET nest(k) == Cardinality({j \in i..k : t[j] = "case"})
                   - Cardinality({j \in i..k : t[j] = "endcase"})
        shut == {k \in i..Len(t) : nest(k) = 0}
    IN  IF shut = {} THEN Len(t) + 1 ELSE First(shut) + 1

RECURSIVE stmt(_, _), Body(_, _)
stmt(t, i) ==
    LET tok == Peek(t, i) IN
    CASE tok = "eof"    -> [s |-> <<"empty">>, next |-> i]
      [] tok = "unique" -> stmt(t, i + 1)
      [] tok = "begin"  ->
           LET b == Body(t, IF Peek(t, i + 1) = ":" THEN i + 3 ELSE i + 1)
           IN  [s |-> <<"block", b.s>>,
                next |-> IF Peek(t, b.next + 1) = ":" THEN b.next + 3 ELSE b.next + 1]
      [] tok = "if" ->
           LET j    == IF Peek(t, i + 1) = "(" THEN GroupEnd(t, i + 1) ELSE i + 1
               then == stmt(t, j)
               else == stmt(t, then.next + 1)
               cond == SubSeq(t, i + 2, j - 2)
           IN  IF Peek(t, then.next) = "else"
               THEN [s |-> <<"if", cond, then.s, else.s>>, next |-> else.next]
               ELSE [s |-> <<"if", cond, then.s, NoElse>>, next |-> then.next]
      [] tok = "for" ->
           LET b == stmt(t, IF Peek(t, i + 1) = "(" THEN GroupEnd(t, i + 1) ELSE i + 1)
           IN  [s |-> <<"for", b.s>>, next |-> b.next]
      [] tok = "case" ->
           [s |-> <<"case", assigned(SubSeq(t, i + 1, CaseEnd(t, i) - 1))>>,
            next |-> CaseEnd(t, i)]
      [] tok = "$CCV" ->
           LET j == IF Peek(t, i + 1) = "(" THEN GroupEnd(t, i + 1) ELSE i + 1
           IN  [s |-> <<"macro">>, next |-> IF Peek(t, j) = ";" THEN j + 1 ELSE j]
      [] tok = ";" -> [s |-> <<"empty">>, next |-> i + 1]
      [] OTHER ->
           LET rest == SubSeq(t, i, Len(t))
               ends == {k \in 1..Len(rest) : rest[k] = ";" /\ Depth(rest, k) <= 0}
               e    == IF ends = {} THEN Len(rest) ELSE First(ends)
           IN  [s |-> <<"assign", assigned(SubSeq(rest, 1, e))>>, next |-> i + e]
Body(t, i) ==
    IF Peek(t, i) \in {"eof", "end"} THEN [s |-> <<>>, next |-> i]
    ELSE LET a == stmt(t, i)
             b == Body(t, a.next)
         IN  [s |-> <<a.s>> \o b.s, next |-> b.next]

-----------------------------------------------------------------------------

RECURSIVE regs_of(_)
regs_of(s) ==
    CASE s[1] \in {"assign", "case"} -> s[2]
      [] s[1] = "block" -> UNION {regs_of(s[2][k]) : k \in 1..Len(s[2])}
      [] s[1] = "if"    -> regs_of(s[3]) \union regs_of(s[4])
      [] s[1] = "for"   -> regs_of(s[2])
      [] OTHER -> {}

\* A condition that is one signal, maybe inverted, with selects and fields.
Bare(c) == IF c # <<>> /\ c[1] \in {"!", "~"} THEN Tail(c) ELSE c
named(c) == /\ Bare(c) # <<>> /\ Bare(c)[1] \in Ident
            /\ \A k \in 2..Len(Bare(c)) :
                 Bare(c)[k] \in {"[", "]", "."} \/ Bare(c)[k] \in Ident
is_reset(c) == \E k \in 1..Len(c) : c[k] \in ResetName

RECURSIVE nonreset(_)

\* Mutant of nonreset: an if under a named enable passes with its else.
nonreset_else(s) ==
    CASE s[1] = "block" -> UNION {nonreset(s[2][k]) : k \in 1..Len(s[2])}
      [] s[1] = "for"   -> nonreset(s[2])
      [] s[1] = "if"    ->
           IF ~named(s[2]) THEN {<<"expression", regs_of(s)>>}
           ELSE IF Bare(s[2])[1] \notin EnableName THEN {<<"name", regs_of(s)>>}
           ELSE {}
      [] s[1] \in {"assign", "case"} /\ s[2] # {} -> {<<"every cycle", s[2]>>}
      [] OTHER -> {}

\* nonreset: what is wrong with the part not in reset, as <<why, registers>>.
\* Every statement of it is an enable if.
nonreset(s) ==
    CASE s[1] = "block" -> UNION {nonreset(s[2][k]) : k \in 1..Len(s[2])}
      [] s[1] = "for"   -> nonreset(s[2])
      [] s[1] = "if"    ->
           IF s[4] # NoElse THEN {<<"else", regs_of(s)>>}
           ELSE IF ~named(s[2]) THEN {<<"expression", regs_of(s)>>}
           ELSE IF Bare(s[2])[1] \notin EnableName THEN {<<"name", regs_of(s)>>}
           ELSE {}
      [] s[1] \in {"assign", "case"} /\ s[2] # {} -> {<<"every cycle", s[2]>>}
      [] OTHER -> {}

\* form_findings, of one always_ff body: a lone reset if is taken apart, and
\* anything else is held to be all enable ifs.
form_findings(t) ==
    LET top   == stmt(t, 1).s
        items == IF top[1] = "block"
                 THEN SelectSeq(top[2], LAMBDA s : s[1] \notin {"macro", "empty"})
                 ELSE <<top>>
        first == items[1]
    IN  IF Len(items) = 1 /\ first[1] = "if" /\ is_reset(first[2])
        THEN IF first[4] = NoElse THEN {} ELSE nonreset(first[4])
        ELSE UNION {nonreset(items[k]) : k \in 1..Len(items)}

-----------------------------------------------------------------------------

\* The tokens of a statement as it is written: the reference the parser is
\* read back against.
RECURSIVE Written(_), WrittenAll(_)
Written(s) ==
    CASE s[1] = "assign" ->
           (IF Cardinality(s[2]) = 1
            THEN <<CHOOSE x \in s[2] : TRUE, "[", "(", "i", ")", "]", ".", "i">>
            ELSE LET x == CHOOSE y \in s[2] : TRUE
                     z == CHOOSE y \in s[2] : y # x
                 IN  <<"{", x, ",", z, "}">>)
           \o <<"<=", "(", "d", "<=", "i", ")", ";">>
      [] s[1] = "case" ->
           <<"case", "(", "i", ")", "d", ":", CHOOSE x \in s[2] : TRUE, "<=", "d", ";",
             "endcase">>
      [] s[1] = "block" -> <<"begin">> \o WrittenAll(s[2]) \o <<"end">>
      [] s[1] = "for"   -> <<"for", "(", "i", ";", "i", "<=", "d", ";", "i", ")">>
                           \o Written(s[2])
      [] s[1] = "if"    ->
           <<"if", "(">> \o s[2] \o <<")">> \o Written(s[3])
           \o (IF s[4] = NoElse THEN <<>> ELSE <<"else">> \o Written(s[4]))
      [] s[1] = "macro" -> <<"$CCV", "(", "d", ")", ";">>
      [] OTHER -> <<";">>
WrittenAll(q) == IF q = <<>> THEN <<>> ELSE Written(q[1]) \o WrittenAll(Tail(q))

\* An else belongs to the nearest if: no if without one stands open before it.
RECURSIVE Dangles(_), Unambiguous(_)
Dangles(s) == \/ s[1] = "if" /\ (s[4] = NoElse \/ Dangles(s[4]))
              \/ s[1] = "for" /\ Dangles(s[2])
Unambiguous(s) ==
    CASE s[1] = "if" -> /\ s[4] # NoElse => ~Dangles(s[3])
                        /\ Unambiguous(s[3])
                        /\ s[4] # NoElse => Unambiguous(s[4])
      [] s[1] = "for" -> Unambiguous(s[2])
      [] s[1] = "block" -> \A k \in 1..Len(s[2]) : Unambiguous(s[2][k])
      [] OTHER -> TRUE

\* The registers s may write when the conditions in off are false and the
\* others may be either.
RECURSIVE MayWrite(_, _)
MayWrite(s, off) ==
    CASE s[1] \in {"assign", "case"} -> s[2]
      [] s[1] = "block" -> UNION {MayWrite(s[2][k], off) : k \in 1..Len(s[2])}
      [] s[1] = "for"   -> MayWrite(s[2], off)
      [] s[1] = "if"    -> (IF s[2] \in off THEN {} ELSE MayWrite(s[3], off))
                           \union MayWrite(s[4], off)
      [] OTHER -> {}

\* The registers form_findings reports.
Reported(t) == UNION {f[2] : f \in form_findings(t)}
=============================================================================
