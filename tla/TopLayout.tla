----------------------------- MODULE TopLayout ------------------------------
(***************************************************************************)
(* Where a channel's fields lie in its payload, twice over: the packed     *)
(* typedef of the SV (tools/gen-interfaces.py) and the offsets the C++     *)
(* skeleton and the checker bank are given (tools/gen-skel.py), which the  *)
(* layout probe compares.  A vector is a sequence of bits, the LSB first;  *)
(* an SV concatenation or packed struct lists its items from the MSB.      *)
(***************************************************************************)
EXTENDS LinkPlan

CONSTANTS
    Fields,          \* channel |-> its payload's fields in order:
                     \* [name, w, lead, slots], slots those it is defined on
    Rate,            \* channel |-> its slots
    BindingKey,      \* channel |-> the field its slot binding goes by, or ""
    NoticeKeys       \* the fields a notice shares with its partner

Concat(items) == FlattenSeq(Reverse(items))
Slice(v, lo, n) == SubSeq(v, lo + 1, lo + n)
SumOf(f(_), s) == FoldLeft(LAMBDA n, x : n + f(x), 0, s)
Before(s, i) == SubSeq(s, 1, i - 1)
Index(s, x) == CHOOSE i \in DOMAIN s : s[i] = x
Span(lo, n) == [lo |-> lo, n |-> n]

\* The typedef: each payload bit is a bit of a field.
Bit(f, b) == <<f.name, b>>
typedef(c) == Concat([i \in DOMAIN Fields[c] |->
                         [b \in 1..Fields[c][i].w |-> Bit(Fields[c][i], b - 1)]])

\* The skeleton's offsets, counted down from the payload's width.
Bits == [c \in Chans |-> SumOf(LAMBDA f : f.w, Fields[c])] @@ <<>>
lsb(c, i) == Bits[c] - SumOf(LAMBDA f : f.w, SubSeq(Fields[c], 1, i))
At(c, n)  == CHOOSE i \in DOMAIN Fields[c] : Fields[c][i].name = n
FieldSpan(c, i) == Span(lsb(c, i), Fields[c][i].w)
Mask(c, S) == UNION {lsb(c, i)..(lsb(c, i) + Fields[c][i].w - 1) : i \in S}
lead_mask(c) == Mask(c, {i \in DOMAIN Fields[c] : Fields[c][i].lead})
zero_mask(c, s) == Mask(c, {i \in DOMAIN Fields[c] : s \notin Fields[c][i].slots})
LeadMask == {c \in Chans : lead_mask(c) # {}}

\* The probe drives a payload and reads every field through the typedef:
\* it must be the bits the skeleton's table F gives it.
layout_holds(F) ==
    \A c \in Chans : \A i \in DOMAIN Fields[c] :
        Slice(typedef(c), F[c][i].lo, F[c][i].n) =
            [b \in 1..Fields[c][i].w |-> Bit(Fields[c][i], b - 1)]
\* A mask of payload bits covers exactly the fields of the typedef in S.
masks(c, m, S) ==
    \A b \in 0..(Bits[c] - 1) :
        b \in m <=> \E i \in S : typedef(c)[b + 1][1] = Fields[c][i].name
=============================================================================
