----------------------------- MODULE CreditLink -----------------------------
(***************************************************************************)
(* One slot of a credited channel, as RTL: a sender, N sequential repeater *)
(* stages (rtl/phys/ccv_common_rpt.sv) and a receiver, joined the way the  *)
(* formal harness test/formal/fv_link.sv joins them.  One step is one      *)
(* clock edge; each variable is a flop, or one flop per node.  Node 0 is   *)
(* the sender's side of the wire and node N the receiver's, so v[k] is the *)
(* valid after k stages and cr[k] the credit with k stages still to go.    *)
(*                                                                         *)
(* Built says where the boundary flops are: in the sender's and receiver's *)
(* own logic (FALSE), or in the wrapper around the block (TRUE, FV_BUILT), *)
(* where a stall reaches the launch decision one cycle later, a credit is  *)
(* usable in the cycle it emerges, and the payload is due one cycle after  *)
(* its message landed.                                                     *)
(*                                                                         *)
(* A message is its sequence number.  It is carried twice, as the slice    *)
(* that leads (driven with valid) and as the rest (driven a cycle later).  *)
(***************************************************************************)
EXTENDS Integers, FiniteSets

CONSTANTS
    N,         \* repeater stages on the link
    Depth,     \* credits of the slot
    SeqMod,    \* sequence numbers wrap at SeqMod (2^H in the harness)
    Built,     \* the boundary flops are the wrapper's (FV_BUILT)
    Unknown    \* what a payload flop holds before it is first written

ASSUME NAssumption      == N \in Nat
ASSUME DepthAssumption  == Depth \in Nat \ {0}
ASSUME SeqModAssumption == SeqMod \in Nat \ {0}
ASSUME BuiltAssumption  == Built \in BOOLEAN

Node == 0..N
SeqNum == 0..(SeqMod - 1)
Word == SeqNum \union {Unknown}

VARIABLES
    rst_n_q,   \* the repeaters' flopped reset: FALSE in the first cycle only
    credits,   \* sender: credits it holds
    seq,       \* sender: number of the next message
    prom,      \* sender: number of the message promised by the last launch
    bcr, bst,  \* credit and stall in the sender's interface flop, if Built
    v,         \* valid, per node
    lead,      \* the lead slice on the wire, per node
    rest,      \* the rest of the payload on the wire, per node
    cr, st,    \* credit and stall, per node
    landing,   \* receiver: a message is counted this cycle
    due_q,     \* receiver: its payload is readable this cycle, if Built
    lead_q,    \* receiver: the lead it took
    d_lead, d_rest,  \* receiver: the payload in its interface flop, if Built
    occ,       \* receiver: messages held
    expect     \* receiver: number the next message must have

senderVars   == <<credits, seq, prom, bcr, bst>>
wireVars     == <<v, lead, rest, cr, st>>
receiverVars == <<landing, due_q, lead_q, d_lead, d_rest, occ, expect>>
vars == <<rst_n_q, senderVars, wireVars, receiverVars>>

TypeOK ==
    /\ rst_n_q \in BOOLEAN
    /\ credits \in 0..Depth
    /\ seq \in SeqNum
    /\ prom \in Word
    /\ bcr \in BOOLEAN
    /\ bst \in BOOLEAN
    /\ v \in [Node -> BOOLEAN]
    /\ lead \in [Node -> Word]
    /\ rest \in [Node -> Word]
    /\ cr \in [Node -> BOOLEAN]
    /\ st \in [Node -> BOOLEAN]
    /\ landing \in BOOLEAN
    /\ due_q \in BOOLEAN
    /\ lead_q \in Word
    /\ d_lead \in Word
    /\ d_rest \in Word
    /\ occ \in 0..Depth
    /\ expect \in SeqNum

-----------------------------------------------------------------------------

Bit(b) == IF b THEN 1 ELSE 0

Succ(s) == (s + 1) % SeqMod

\* Sender and receiver leave reset with the repeaters if Built, a cycle
\* before them if not.
BlkRst == Built => rst_n_q

CrIn    == IF Built THEN bcr ELSE cr[0]
Stalled == IF Built THEN bst ELSE st[0]
Due     == IF Built THEN due_q ELSE landing

\* Mutant of CanGo: the stall is not looked at.
CanGoThroughStall == BlkRst /\ (credits # 0 \/ (Built /\ bcr))

\* The sender may launch this cycle.
CanGo == BlkRst /\ (credits # 0 \/ (Built /\ bcr)) /\ ~Stalled

\* What the receiver holds or sees landing, hence may consume.
Avail == occ + Bit(landing)

\* The cycle after reset.  The unbuilt sender resets the payload it drives.
Init ==
    /\ rst_n_q = FALSE
    /\ credits = Depth
    /\ seq = 0
    /\ prom = Unknown
    /\ bcr = FALSE
    /\ bst = FALSE
    /\ v = [k \in Node |-> FALSE]
    /\ lead = [k \in Node |-> IF ~Built /\ k < 2 THEN 0 ELSE Unknown]
    /\ rest = [k \in Node |-> IF ~Built /\ k = 0 THEN 0 ELSE Unknown]
    /\ cr = [k \in Node |-> FALSE]
    /\ st = [k \in Node |-> FALSE]
    /\ landing = FALSE
    /\ due_q = FALSE
    /\ lead_q = Unknown
    /\ d_lead = Unknown
    /\ d_rest = Unknown
    /\ occ = 0
    /\ expect = 0

\* A credit is spent on valid; one that arrives is counted in its own cycle.
Sender(go) ==
    /\ credits' = credits + Bit(CrIn /\ ~go) - Bit(go /\ ~CrIn)
    /\ seq' = IF go THEN Succ(seq) ELSE seq
    /\ prom' = IF go THEN seq ELSE prom
    /\ bcr' = (Built /\ rst_n_q /\ cr[0])
    /\ bst' = (Built /\ rst_n_q /\ st[0])

\* Mutant of Forward: a lead takes the enable of the rest, its own valid.
ForwardLateLead(go) ==
    /\ v' = [k \in Node |-> IF k = 0 THEN go ELSE rst_n_q /\ v[k-1]]
    /\ lead' = [k \in Node |-> CASE ~v[k] -> lead[k]
                                 [] v[k] /\ k = 0 -> prom
                                 [] OTHER -> lead[k-1]]
    /\ rest' = [k \in Node |-> CASE ~v[k] -> rest[k]
                                 [] v[k] /\ k = 0 -> prom
                                 [] OTHER -> rest[k-1]]

\* Valid moves every cycle.  The lead slice is written with its valid (every
\* cycle where the valid is an input of the module), the rest one cycle
\* after, enabled by the node's own valid.
Forward(go) ==
    /\ v' = [k \in Node |-> IF k = 0 THEN go ELSE rst_n_q /\ v[k-1]]
    /\ lead' = [k \in Node |->
                  CASE k = 0 -> IF go \/ Built THEN seq ELSE lead[0]
                    [] k = 1 -> lead[0]
                    [] OTHER -> IF v[k-1] THEN lead[k-1] ELSE lead[k]]
    /\ rest' = [k \in Node |->
                  CASE ~v[k] -> rest[k]
                    [] v[k] /\ k = 0 -> prom
                    [] OTHER -> rest[k-1]]

\* Credit and stall move every cycle, one stage nearer to the sender.
Backward(pop, stall) ==
    /\ cr' = [k \in Node |-> IF k = N THEN BlkRst /\ pop
                                      ELSE rst_n_q /\ cr[k+1]]
    /\ st' = [k \in Node |-> IF k = N THEN BlkRst /\ stall
                                      ELSE rst_n_q /\ st[k+1]]

\* Mutant of Receiver: two messages are consumed for one credit.
ReceiverDoublePop(pop) ==
    /\ landing' = (BlkRst /\ v[N])
    /\ due_q' = (Built /\ BlkRst /\ landing)
    /\ lead_q' = lead_q
    /\ d_lead' = d_lead
    /\ d_rest' = d_rest
    /\ occ' = Avail - Bit(pop) - Bit(pop /\ Avail > 1)
    /\ expect' = expect

\* A message counts as held in the cycle its payload lands; only what is due
\* is compared, a cycle later if Built.
Receiver(pop) ==
    /\ landing' = (BlkRst /\ v[N])
    /\ due_q' = (Built /\ BlkRst /\ landing)
    /\ lead_q' = IF Built THEN IF landing THEN d_lead ELSE lead_q
                          ELSE IF v[N] THEN lead[N] ELSE lead_q
    /\ d_lead' = IF Built THEN lead[N] ELSE d_lead
    /\ d_rest' = IF Built /\ landing THEN rest[N] ELSE d_rest
    /\ occ' = Avail - Bit(pop)
    /\ expect' = IF Due THEN Succ(expect) ELSE expect

\* One clock edge, given what the sender wants, whether the receiver drains
\* and whether it stalls.
Cycle(want, pop_en, stall_in) ==
    LET go  == want /\ CanGo
        pop == pop_en /\ Avail # 0
    IN  /\ Sender(go)
        /\ Forward(go)
        /\ Backward(pop, stall_in)
        /\ Receiver(pop)
        /\ rst_n_q' = TRUE

Next == \E want, pop_en, stall_in \in BOOLEAN : Cycle(want, pop_en, stall_in)

Spec == Init /\ [][Next]_vars

-----------------------------------------------------------------------------

High(f) == {k \in Node : f[k]}

\* Messages launched and not yet counted by the receiver.
OnWire == Cardinality(High(v)) + Bit(landing)

\* Credits given back and not yet counted by the sender.
ComingBack == Cardinality(High(cr)) + Bit(bcr)

(***************************************************************************)
(* fv_link.sv `conservation`: credits at the sender, messages on the link, *)
(* messages held and credits on the way back are Depth, in every cycle.    *)
(***************************************************************************)
Conservation == credits + OnWire + occ + ComingBack = Depth

(***************************************************************************)
(* fv_link.sv `no_overflow`, with the message landing now counted: the     *)
(* receiver is never handed more than the Depth places it has.             *)
(***************************************************************************)
NoOverflow == Avail <= Depth

(***************************************************************************)
(* fv_link.sv `data_in_order`: when a payload is due, the lead slice taken *)
(* with valid and the rest on the wire both belong to the next message in  *)
(* the order they were launched, whatever was launched right behind it.    *)
(***************************************************************************)
PayloadWord == IF Built THEN d_rest ELSE rest[N]
DataInOrder == Due => lead_q = expect /\ PayloadWord = expect
=============================================================================
