------------------------------ MODULE FreeList ------------------------------
(***************************************************************************)
(* One of rename's free lists as RTL (rtl/ooe/ooe_freelist.sv, without     *)
(* sections): a bit per name, a buffer that is the only source of names,   *)
(* and banks that refill it.  What a cycle takes is registered: the names  *)
(* stay at the buffer's head, in transit, until the next edge, when their  *)
(* free bits clear too; that they are buffered is forgotten an edge later. *)
(*                                                                         *)
(* One step is one clock edge of the module out of reset.  Rename takes    *)
(* the heads of the ports it asks at; the ROBs' registers free any names   *)
(* held for at least FreeAfter cycles, a lead always coming a cycle before.*)
(***************************************************************************)
EXTENDS Integers, Sequences, FiniteSets

CONSTANTS
    N,          \* pool entries
    A,          \* allocation ports
    B,          \* candidate buffer entries
    K,          \* refill banks
    None,
    FreeAfter   \* the earliest free of a name, in cycles after its take

ASSUME PoolAssumption == K \in Nat \ {0} /\ N \in Nat \ {0} /\ N % K = 0
ASSUME BufferAssumption == A \in Nat \ {0} /\ B \in Nat /\ A <= B
ASSUME FreeAfterAssumption == FreeAfter \in {1, 2}
ASSUME NoneAssumption == None \notin Nat

M == N \div K
Entry == 0..(N - 1)
Bank  == 0..(K - 1)
Index == 0..(M - 1)
Name(b, i) == i * K + b

VARIABLES
    free,      \* the free bits, those of the names in transit still set
    buf,       \* the buffer, head first
    inbuf,     \* the names marked buffered
    bptr,      \* per bank, its pointer
    rot,       \* the bank that comes first
    cand,      \* per bank, its registered candidate, or None
    sp,        \* per bank, where its next search starts
    rq,        \* how many names the last cycle took
    pr,        \* the names that left at the last edge
    free_en,   \* the lead's flop: names may be freed this cycle
    fr_ch,     \* names were freed at the last edge
    held       \* history: names rename has taken and not got back

listVars == <<free, buf, inbuf, bptr, rot, cand, sp, rq, pr, free_en, fr_ch>>
vars == <<listVars, held>>

TypeOK ==
    /\ free \subseteq Entry /\ inbuf \subseteq Entry /\ pr \subseteq Entry
    /\ buf \in Seq(Entry) /\ Len(buf) <= B
    /\ bptr \in [Bank -> Index] /\ sp \in [Bank -> Index]
    /\ rot \in Bank
    /\ cand \in [Bank -> Index \union {None}]
    /\ rq \in 0..A /\ rq <= Len(buf)
    /\ free_en \in BOOLEAN /\ fr_ch \in BOOLEAN
    /\ held \subseteq Entry

-----------------------------------------------------------------------------

\* The reset state; fr_ch because the reset frees every entry.
Init ==
    /\ free = Entry /\ buf = <<>> /\ inbuf = {} /\ pr = {}
    /\ bptr = [b \in Bank |-> 0] /\ sp = [b \in Bank |-> 0] /\ rot = 0
    /\ cand = [b \in Bank |-> None]
    /\ rq = 0
    /\ free_en = FALSE /\ fr_ch = TRUE
    /\ held = {}

\* Names rename can take this cycle, and the ones port k = 1, 2, ... offers.
Avail == Len(buf) - rq
Offer(k) == buf[rq + k]

Transit == {buf[i] : i \in 1..rq}

\* popped_of: what leaves the buffer at this edge, last cycle's take.
Popped == {buf[i] : i \in 1..rq}

Found(b) == cand[b] # None
Cand(b)  == Name(b, cand[b])

\* Banks with a candidate that come before b in the rotating order.
Ahead(b) == {j \in Bank : Found(j) /\ (j - rot) % K < (b - rot) % K}
Rank(b)  == Cardinality(Ahead(b))

\* Room behind the names that stay.
Room == B - (Len(buf) - rq)

\* A bank's candidate goes into the buffer.
Adv(b) == Found(b) /\ Rank(b) < Room

\* The same as a clock enable, from the two banks just ahead of b alone.
AdvOf(b) ==
    LET p1 == /\ K > 1 /\ b # rot
              /\ Found((b - 1) % K)
        p2 == /\ K > 2 /\ b # rot /\ (b - 1) % K # rot
              /\ Found((b - 2) % K)
    IN  /\ Found(b) /\ Room > 0
        /\ p1 \/ p2 => Room > 1
        /\ p1 /\ p2 => Room > 2

\* The index of S first met from ptr, wrapping.
FirstFrom(S, ptr) ==
    LET after == {i \in S : i >= ptr}
        from  == IF after # {} THEN after ELSE S
    IN  IF S = {} THEN None ELSE CHOOSE i \in from : \A j \in from : i <= j

\* Mutant of Searchable: the names marked buffered are not left out.
SearchableAll(b) == {i \in Index : Name(b, i) \in free /\ i # cand[b]}

\* What bank b's search sees: free, not buffered, and not its own candidate.
Searchable(b) ==
    {i \in Index : /\ Name(b, i) \in free /\ Name(b, i) \notin inbuf
                   /\ i # cand[b]}

\* A bank's candidate and search start are clocked when it appends, and,
\* holding none, when names were freed at the last edge.
CandEnable(b) == AdvOf(b) \/ (~Found(b) /\ fr_ch)

CandNext(b) == IF Found(b) /\ ~Adv(b) THEN cand[b]
                                      ELSE FirstFrom(Searchable(b), sp[b])

PtrNext(b) == IF Adv(b) THEN (cand[b] + 1) % M ELSE bptr[b]

\* The buffer gathered place by place: names that stay, then candidates.
BufNext ==
    LET stay  == Len(buf) - rq
        adds  == {b \in Bank : Adv(b)}
        nth(r) == CHOOSE b \in adds : Rank(b) = r
    IN  [i \in 1..(stay + Cardinality(adds)) |->
            IF i <= stay THEN buf[i + rq] ELSE Cand(nth(i - stay - 1))]

\* The late clear of the names that leave, and this cycle's frees.
FreeNext(freed) == (free \ Popped) \union freed

Refills == Len(buf) < B /\ \E b \in Bank : Found(b)

\* The enables of the free bits, of the buffer and its pointers, and of the
\* marks, from flops alone.
BitsEnable == rq > 0 \/ free_en
BufEnable  == rq > 0 \/ Refills
\* Mutant of MarksEnable: a pop that waits for its late clear is forgotten.
MarksEnableNow == rq > 0 \/ Refills
MarksEnable == rq > 0 \/ Refills \/ pr # {}

\* One edge: rename takes k heads, the ROBs free `freed`.
Edge(k, freed, lead) ==
    /\ k <= A /\ k <= Avail
    /\ freed # {} => free_en
    /\ freed \subseteq IF FreeAfter = 1 THEN held ELSE held \ Transit
    /\ free' = IF BitsEnable THEN FreeNext(freed) ELSE free
    /\ buf' = IF BufEnable THEN BufNext ELSE buf
    /\ bptr' = [b \in Bank |-> IF BufEnable THEN PtrNext(b) ELSE bptr[b]]
    /\ inbuf' = IF MarksEnable
               THEN (inbuf \ pr) \union {Cand(b) : b \in {c \in Bank : Adv(c)}}
               ELSE inbuf
    /\ rot' = (rot + 1) % K
    /\ cand' = [b \in Bank |-> IF CandEnable(b) THEN CandNext(b) ELSE cand[b]]
    /\ sp' = [b \in Bank |-> IF ~CandEnable(b) THEN sp[b]
                             ELSE IF CandNext(b) # None THEN CandNext(b)
                             ELSE PtrNext(b)]
    /\ rq' = k
    /\ pr' = Popped
    /\ free_en' = lead
    /\ fr_ch' = free_en
    /\ held' = (held \ freed) \union {Offer(i) : i \in 1..k}

Next == \E k \in 0..A, freed \in SUBSET held, lead \in BOOLEAN :
            Edge(k, freed, lead)

Spec == Init /\ [][Next]_vars

-----------------------------------------------------------------------------

(***************************************************************************)
(* No name is given to two instructions: the heads the ports offer are all *)
(* different, and none of them is held, whatever is in transit, waiting as *)
(* a candidate, or freed while still marked buffered.                      *)
(***************************************************************************)
OffersFree ==
    \A i \in 1..Avail : /\ Offer(i) \notin held
                        /\ \A j \in 1..Avail : Offer(i) = Offer(j) => i = j

(***************************************************************************)
(* No name is lost: the free bits, less the names in transit nobody has    *)
(* freed, are exactly the names nobody holds (what the admission floors    *)
(* count, and assertion no_double_free).                                   *)
(***************************************************************************)
NoneLost == free \ (Transit \intersect held) = Entry \ held

(***************************************************************************)
(* A free name that is not on its way to the ports is found by its bank's  *)
(* next search: "found from the search after" it stopped being marked      *)
(* buffered.  A bank that holds no candidate after a cycle in which it     *)
(* could have searched has nothing to find.                                *)
(***************************************************************************)
FoundBySearchAfter ==
    \A b \in Bank : ~Found(b) /\ ~CandEnable(b) => Searchable(b) = {}

\* The model's bits clear as a name is taken; its pointers and buffer are
\* the module's.
Model == INSTANCE FreeVec
           WITH Entries <- N, Banks <- K, Cap <- B, Ports <- A,
                bit <- free \ (Transit \intersect held), transit <- rq,
                cq <- cand

(***************************************************************************)
(* Every edge of the module is a cycle of the model's FreeVec, from the    *)
(* same state to the same state: the same names in the same order, though  *)
(* bits, marks and candidates are clocked by enables formed early.         *)
(***************************************************************************)
ImplementsModel == Model!FreeVecSpec

(***************************************************************************)
(* The three at once, on flops that keep their widths: a name is never in  *)
(* two places, in none, or in one where nothing looks.                     *)
(***************************************************************************)
NamesKept == TypeOK /\ OffersFree /\ NoneLost /\ FoundBySearchAfter
=============================================================================
