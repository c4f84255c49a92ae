------------------------------ MODULE SkelSlot ------------------------------
(***************************************************************************)
(* One slot of the C++ cycle model (sim/skel/channel.h): the two ends, the *)
(* repeater stages between them, the Sender and the Receiver that hide the *)
(* protocol from a block, and the Machine step that runs them.             *)
(*                                                                         *)
(* A cycle is two phases.  Every block reads `cur` and writes `nxt`, in    *)
(* whatever order the machine (or the DPI host) calls them: TxCycle and    *)
(* RxCycle, in either order.  Then every slot commits nxt to cur: Edge.    *)
(* The blocks are the exerciser's (sim/skel/exerciser.cpp): free to send,  *)
(* drain and stall, until the run drains, when nothing more is launched    *)
(* and every message is taken.                                             *)
(*                                                                         *)
(* A message is a value m; its lead slice and the rest of its payload are  *)
(* two flops that should both hold m when the receiver has put it together.*)
(***************************************************************************)
EXTENDS Integers, Sequences, FiniteSets

CONSTANTS
    Stages,    \* repeater stages of the link
    Depth,     \* credits, and places in the receiver's buffer
    Msgs,      \* messages
    Zero,      \* what a payload register holds before the first message
    HasLead    \* some fields of the channel lead

ASSUME StagesAssumption == Stages \in Nat
ASSUME DepthAssumption == Depth \in Nat \ {0}
ASSUME LeadAssumption == HasLead \in BOOLEAN
ASSUME ZeroAssumption == Zero \notin Msgs

Payload == [lead : Msgs \union {Zero}, rest : Msgs \union {Zero}]
Forwards == [valid : BOOLEAN, payload : Payload]       \* the producer's signals
Backwards == [credit : BOOLEAN, stall : BOOLEAN]       \* the consumer's
StageState == [valid : BOOLEAN, pay : Payload, lead : Msgs \union {Zero},
               credit : BOOLEAN, stall : BOOLEAN]

VARIABLES
    txCur, txNxt,  \* the sender's end: valid and payload, now and next cycle
    rxCur, rxNxt,  \* the receiver's end: credit and stall, now and next cycle
    pipe,          \* the repeater stages, 1 next to the sender
    todo,          \* blocks that have not run in this cycle
    credits, promised,       \* Sender: credits_, promised_
    buf, leads, landing,     \* Receiver: buf_, leads_, landing_
    draining,                \* the run drains (g_draining)
    inflight,      \* history: launched and not yet popped, oldest first
    taken          \* history: the last message popped

endVars == <<txCur, txNxt, rxCur, rxNxt>>
senderVars == <<credits, promised>>
receiverVars == <<buf, leads, landing>>
vars == <<endVars, pipe, todo, senderVars, receiverVars, draining, inflight,
          taken>>

TypeOK ==
    /\ txCur \in Forwards /\ txNxt \in Forwards
    /\ rxCur \in Backwards /\ rxNxt \in Backwards
    /\ pipe \in [1..Stages -> StageState]
    /\ todo \subseteq {"tx", "rx"}
    /\ credits \in 0..Depth
    /\ promised \in Payload
    /\ buf \in Seq(Payload) /\ Len(buf) <= Depth
    /\ leads \in Seq(Msgs \union {Zero}) /\ Len(leads) <= 2
    /\ landing \in BOOLEAN /\ draining \in BOOLEAN
    /\ inflight \in Seq(Msgs)
    /\ taken \in Payload

-----------------------------------------------------------------------------

Word(m) == [lead |-> m, rest |-> m]

\* The link after k stages, as `at` shows it: what comes from the sender's
\* side, and what comes from the receiver's.
ForwardAt(k) ==
    IF k = 0 THEN txCur
    ELSE [valid |-> pipe[k].valid,
          payload |-> IF HasLead THEN [pipe[k].pay EXCEPT !.lead = pipe[k].lead]
                                 ELSE pipe[k].pay]

BackwardAt(k) ==
    IF k = Stages THEN rxCur
    ELSE [credit |-> pipe[k+1].credit, stall |-> pipe[k+1].stall]

Idle == [valid |-> FALSE, payload |-> Word(Zero)]
Quiet == [credit |-> FALSE, stall |-> FALSE]

Init ==
    /\ txCur = Idle /\ txNxt = Idle
    /\ rxCur = Quiet /\ rxNxt = Quiet
    /\ pipe = [k \in 1..Stages |-> [valid |-> FALSE, pay |-> Word(Zero),
                                    lead |-> Zero, credit |-> FALSE,
                                    stall |-> FALSE]]
    /\ todo = {"tx", "rx"}
    /\ credits = Depth /\ promised = Word(Zero)
    /\ buf = <<>> /\ leads = <<>> /\ landing = FALSE
    /\ draining = FALSE
    /\ inflight = <<>> /\ taken = Word(Zero)

CanSend == credits # 0 /\ ~BackwardAt(0).stall

\* Mutant of TxCycle: the lead waits for the rest (--break late-lead).
TxCycleLateLead(launch, m) ==
    LET go == launch /\ CanSend
        credit == BackwardAt(0).credit
        due == IF txCur.valid THEN promised ELSE txNxt.payload
    IN  /\ "tx" \in todo
        /\ todo' = todo \ {"tx"}
        /\ txNxt' = [valid |-> go,
                     payload |-> due]
        /\ promised' = IF go THEN Word(m) ELSE promised
        /\ credits' = CASE go /\ ~credit -> credits - 1
                        [] ~go /\ credit -> credits + 1
                        [] OTHER -> credits
        /\ inflight' = IF go THEN Append(inflight, m) ELSE inflight
        /\ UNCHANGED <<txCur, rxCur, rxNxt, pipe, receiverVars, draining, taken>>

\* Sender::cycle.  The message promised by the valid that is up goes on the
\* wire; a launch writes its lead over it, with its valid.
TxCycle(launch, m) ==
    LET go == launch /\ CanSend
        credit == BackwardAt(0).credit
        due == IF txCur.valid THEN promised ELSE txNxt.payload
    IN  /\ "tx" \in todo
        /\ todo' = todo \ {"tx"}
        /\ txNxt' = [valid |-> go,
                     payload |-> IF go /\ HasLead THEN [due EXCEPT !.lead = m]
                                                  ELSE due]
        /\ promised' = IF go THEN Word(m) ELSE promised
        /\ credits' = CASE go /\ ~credit -> credits - 1
                        [] ~go /\ credit -> credits + 1
                        [] OTHER -> credits
        /\ inflight' = IF go THEN Append(inflight, m) ELSE inflight
        /\ UNCHANGED <<txCur, rxCur, rxNxt, pipe, receiverVars, draining, taken>>

\* What a message is once its rest has landed: the lead was taken off the
\* wire in its valid cycle.
Landed == IF HasLead THEN [ForwardAt(Stages).payload EXCEPT !.lead = Head(leads)]
                     ELSE ForwardAt(Stages).payload

\* The buffer and the leads once Receiver::cycle has looked at the wire.
Held == IF landing THEN Append(buf, Landed) ELSE buf

LeadsHeld ==
    LET wire == ForwardAt(Stages)
        left == IF landing /\ HasLead THEN Tail(leads) ELSE leads
    IN  IF wire.valid /\ HasLead THEN Append(left, wire.payload.lead) ELSE left

\* Mutant of Take: a stall suppresses the credit of its cycle.
TakeUnpaid(stall) ==
    /\ Held # <<>>
    /\ buf' = Tail(Held)
    /\ taken' = Head(Held)
    /\ inflight' = Tail(inflight)
    /\ rxNxt' = [credit |-> ~stall, stall |-> stall]

\* Receiver::pop and Receiver::stall: the oldest message, for one credit.
Take(stall) ==
    /\ Held # <<>>
    /\ buf' = Tail(Held)
    /\ taken' = Head(Held)
    /\ inflight' = Tail(inflight)
    /\ rxNxt' = [credit |-> TRUE, stall |-> stall]

Leave(stall) ==
    /\ buf' = Held
    /\ rxNxt' = [credit |-> FALSE, stall |-> stall]
    /\ UNCHANGED <<taken, inflight>>

\* Receiver::cycle, then what the block does: at most one pop, and a stall.
\* A draining exerciser pops whatever it holds.
RxCycle(stall) ==
    /\ "rx" \in todo
    /\ todo' = todo \ {"rx"}
    /\ landing' = ForwardAt(Stages).valid
    /\ leads' = LeadsHeld
    /\ \/ Take(stall)
       \/ (draining => Held = <<>>) /\ Leave(stall)
    /\ UNCHANGED <<txCur, txNxt, rxCur, pipe, senderVars, draining>>

\* Slot::commit, and the next cycle's Slot::begin: every flop takes its
\* input, the payload registers hold and the pulses start low.
Edge ==
    /\ todo = {}
    /\ todo' = {"tx", "rx"}
    /\ txCur' = txNxt
    /\ rxCur' = rxNxt
    /\ txNxt' = [txNxt EXCEPT !.valid = FALSE]
    /\ rxNxt' = Quiet
    /\ pipe' = [k \in 1..Stages |->
                  LET f == ForwardAt(k-1)
                      b == BackwardAt(k)
                  IN  [valid |-> f.valid, credit |-> b.credit, stall |-> b.stall,
                       pay |-> IF pipe[k].valid THEN f.payload ELSE pipe[k].pay,
                       lead |-> IF HasLead /\ f.valid THEN f.payload.lead
                                                      ELSE pipe[k].lead]]
    /\ UNCHANGED <<senderVars, receiverVars, draining, inflight, taken>>

\* The exerciser: a draining run launches nothing and pops what it holds.
Send(m) == ~draining /\ TxCycle(TRUE, m)
SkipSend == TxCycle(FALSE, Zero)
Receive == \E stall \in BOOLEAN : RxCycle(stall)

StartDrain ==
    /\ ~draining /\ draining' = TRUE
    /\ UNCHANGED <<endVars, pipe, todo, senderVars, receiverVars, inflight,
                   taken>>

Cycle == (\E m \in Msgs : Send(m)) \/ SkipSend \/ Receive \/ Edge

Next == Cycle \/ StartDrain

Spec == Init /\ [][Next]_vars

\* The machine steps for ever; nothing obliges a run to drain.
FairSpec == Spec /\ WF_vars(Cycle)

-----------------------------------------------------------------------------

\* Credits sent back and not yet counted by the sender.  The one on the
\* sender's wire is counted when the sender has run in this cycle.
Owed ==
    LET onWire == {k \in 0..Stages : BackwardAt(k).credit}
    IN  Cardinality(IF "tx" \in todo THEN onWire ELSE onWire \ {0})
          + IF rxNxt.credit THEN 1 ELSE 0

\* The receiver puts a message together from two cycles of the wire: its
\* lead, taken with valid, and the rest, a cycle later, when the wire's lead
\* slice may already be the next message's.
Taken == IF taken.lead = taken.rest THEN taken.lead ELSE "torn"

Flow == INSTANCE CreditFlow
          WITH queue <- inflight, owed <- Owed, out <- Taken, None <- Zero

(***************************************************************************)
(* The slot implements CreditFlow: whatever order the blocks are run in,   *)
(* and for any stages, what is popped is the oldest message launched, and  *)
(* launches, pops and credits account for each other.  No buffer of either *)
(* end passes its size on the way: no more than Depth messages are held,   *)
(* no more than two leads wait for their rest.                             *)
(***************************************************************************)
ImplementsFlow == Flow!FlowSpec /\ []TypeOK

(***************************************************************************)
(* quiesced_at_end: a run that drains ends with every credit back at its   *)
(* sender and nothing held.                                                *)
(***************************************************************************)
DrainsHome == draining ~> (credits = Depth /\ inflight = <<>>)
=============================================================================
