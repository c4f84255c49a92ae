----------------------------- MODULE CreditFlow -----------------------------
(***************************************************************************)
(* What a credited slot promises its two blocks, with no cycles, wires or  *)
(* stages: messages come out in the order and with the content they went   *)
(* in, and a sender that spends a credit on each message can never have    *)
(* more than Depth of them unanswered.                                     *)
(*                                                                         *)
(* The queue holds what was launched and not yet consumed, wherever it is; *)
(* owed counts the credits of consumed messages on their way back.         *)
(***************************************************************************)
EXTENDS Integers, Sequences

CONSTANTS Depth, Msgs, None

VARIABLES credits, queue, owed, out

flowVars == <<credits, queue, owed, out>>

FlowInit == credits = Depth /\ queue = <<>> /\ owed = 0 /\ out = None

\* A sender's cycle: it may launch one message, if it holds a credit, and a
\* credit may arrive; one that arrives pays for no launch of its own cycle.
Send(launches) ==
    \E refund \in {0, 1} :
        /\ Len(launches) <= credits
        /\ refund <= owed
        /\ credits' = credits - Len(launches) + refund
        /\ owed' = owed - refund
        /\ queue' = queue \o launches
        /\ UNCHANGED out

\* The receiver takes the oldest message, and owes a credit for it.
Consume ==
    /\ queue # <<>>
    /\ out' = Head(queue)
    /\ queue' = Tail(queue)
    /\ owed' = owed + 1
    /\ UNCHANGED credits

FlowNext == Consume \/ \E ms \in {<<>>} \union {<<m>> : m \in Msgs} : Send(ms)

FlowSpec == FlowInit /\ [][FlowNext]_flowVars
=============================================================================
