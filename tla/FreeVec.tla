------------------------------ MODULE FreeVec ------------------------------
(***************************************************************************)
(* The free list of the cycle model (class FreeVec, sim/ooe/ooe_core.h) in *)
(* the form rename uses: a candidate buffer that is the only source of     *)
(* names, refilled from interleaved banks in two steps (fl_two_step).  It  *)
(* is the reference that rtl/ooe/ooe_freelist.sv is held to, edge by edge. *)
(*                                                                         *)
(* One step is one cycle: the names taken and freed in it, then clock().   *)
(***************************************************************************)
EXTENDS Integers, Sequences, FiniteSets

CONSTANTS
    Entries,   \* names in the pool
    Banks,     \* interleaved banks: name p is in bank p % Banks
    Cap,       \* places in the buffer
    Ports,     \* names taken in a cycle
    None

VARIABLES
    bit,       \* the names that are free, the buffered ones included
    buf,       \* the buffer, head first, those in transit included
    transit,   \* names at its head that the last cycle took
    inbuf,     \* the names marked buffered
    bptr,      \* per bank, where its search starts (an index in the bank)
    rot,       \* the bank that appends first
    cq,        \* per bank, its registered candidate, or None
    pr         \* the last edge's pops, still marked buffered

freeVecVars == <<bit, buf, transit, inbuf, bptr, rot, cq, pr>>

Entry == 0..(Entries - 1)
Bank  == 0..(Banks - 1)
PerBank == Entries \div Banks
Index == 0..(PerBank - 1)
Name(b, i) == i * Banks + b

Avail == Len(buf) - transit

\* The first of a bank's indices in S at or after ptr, wrapping.
FirstFrom(S, ptr) ==
    IF S = {} THEN None
    ELSE CHOOSE i \in S : \A j \in S : (i - ptr) % PerBank <= (j - ptr) % PerBank

\* Banks before b in this edge's order.
Before(b, order) == {j \in Bank : (j - order) % Banks < (b - order) % Banks}

FreeVecInit ==
    /\ bit = Entry /\ buf = <<>> /\ transit = 0 /\ inbuf = {} /\ pr = {}
    /\ bptr = [b \in Bank |-> 0] /\ rot = 0
    /\ cq = [b \in Bank |-> None]

\* alloc() takes names behind those in transit; free() refuses a free name.
\* At the edge the taken leave the buffer a cycle late, the registered
\* candidates are appended while there is room, each bank searches the state
\* before the edge for its next one, and then the frees join the bits.
FreeVecCycle(k, freed) ==
    LET left   == SubSeq(buf, transit + 1, Len(buf))
        popped == {buf[i] : i \in 1..transit}
        bits   == bit \ {left[i] : i \in 1..k}
        ahead(b)  == Cardinality({j \in Before(b, rot) : cq[j] # None})
        append(b) == cq[b] # None /\ Len(left) + ahead(b) < Cap
        added  == {b \in Bank : append(b)}
        nth(n) == CHOOSE b \in added : ahead(b) = n
        ptr(b) == IF append(b) THEN (cq[b] + 1) % PerBank ELSE bptr[b]
        marked == inbuf \union {Name(b, cq[b]) : b \in added}
        fresh(b) == FirstFrom({i \in Index : /\ Name(b, i) \in bits
                                             /\ Name(b, i) \notin marked}, ptr(b))
    IN  /\ k <= Ports /\ k <= Avail
        /\ freed \intersect bits = {}
        /\ transit' = k
        /\ buf' = left \o [n \in 1..Cardinality(added) |->
                             Name(nth(n-1), cq[nth(n-1)])]
        /\ inbuf' = marked \ pr
        /\ pr' = popped
        /\ bptr' = [b \in Bank |-> ptr(b)]
        /\ rot' = (rot + 1) % Banks
        /\ cq' = [b \in Bank |-> IF cq[b] # None /\ ~append(b) THEN cq[b]
                                                             ELSE fresh(b)]
        /\ bit' = bits \union freed

FreeVecNext == \E k \in 0..Ports, freed \in SUBSET Entry : FreeVecCycle(k, freed)

FreeVecSpec == FreeVecInit /\ [][FreeVecNext]_freeVecVars
=============================================================================
