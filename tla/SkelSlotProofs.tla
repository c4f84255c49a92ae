--------------------------- MODULE SkelSlotProofs ---------------------------
(***************************************************************************)
(* The C++ slot implements CreditFlow for every number of stages, depth    *)
(* and set of messages, with leads and without, whichever block of it is   *)
(* run first in a cycle.                                                   *)
(*                                                                         *)
(* The argument: the wire is a row of places from the launch to the        *)
(* landing.  A message sits in one place, its position among those in      *)
(* flight is the number of full places from its own to the landing, and    *)
(* what is to become its rest is one place behind it.                      *)
(***************************************************************************)
EXTENDS SkelSlot, FunctionTheorems, FiniteSetTheorems, SequenceTheorems, TLAPS

Node == 0..Stages                     \* the wires, as `at` shows them
Place == -1..(Stages + 1)             \* launch, wires, landing
Bit(b) == IF b THEN 1 ELSE 0

\* A place is counted once: a launch is in place -1 until the edge puts it on
\* wire 0, and a landing is that of the wire from when the receiver has run.
Carries(p) ==
    \/ p = -1 /\ txNxt.valid
    \/ p \in Node /\ ForwardAt(p).valid
    \/ p = Stages + 1 /\ landing /\ "rx" \in todo

\* w holds the rest of m; without leads, the lead comes with it.
Follows(w, m) == w.rest = m /\ (~HasLead => w.lead = m)

\* What makes a place carry m: its lead where the valid is, the rest where
\* the next edge will take it from.
Bears(p, m) ==
    /\ p = -1 => promised = Word(m) /\ (HasLead => txNxt.payload.lead = m)
    /\ p \in Node => (HasLead => ForwardAt(p).payload.lead = m)
    /\ p = 0 => IF "tx" \in todo THEN promised = Word(m)
                                 ELSE Follows(txNxt.payload, m)
    /\ p \in Node \ {0} => Follows(ForwardAt(p - 1).payload, m)
    /\ p = Stages + 1 => /\ Follows(ForwardAt(Stages).payload, m)
                         /\ HasLead => leads[1] = m

\* The full places from p on, and with them what place p holds in inflight.
Ahead(p) == {r \in Place : r >= p /\ Carries(r)}
Position(p) == Len(buf) + Cardinality(Ahead(p))

Ordered ==
    /\ Len(inflight) = Position(-1)
    /\ \A i \in 1..Len(buf) : buf[i] = Word(inflight[i])
    /\ \A p \in Place, m \in Msgs :
         Carries(p) /\ inflight[Position(p)] = m => Bears(p, m)

\* What a block leaves behind once it has run, and nothing before.
Halves ==
    /\ "tx" \in todo => ~txNxt.valid
    /\ "rx" \in todo => ~rxNxt.credit
    /\ "rx" \notin todo => landing = ForwardAt(Stages).valid
    /\ Len(leads) = IF landing /\ HasLead THEN 1 ELSE 0
    /\ "rx" \notin todo /\ landing /\ HasLead =>
         leads[1] = ForwardAt(Stages).payload.lead

\* The types, without the bounds that follow from the conservation.
TypeBase ==
    /\ txCur \in Forwards /\ txNxt \in Forwards
    /\ rxCur \in Backwards /\ rxNxt \in Backwards
    /\ pipe \in [1..Stages -> StageState]
    /\ todo \subseteq {"tx", "rx"}
    /\ credits \in Nat
    /\ promised \in Payload
    /\ buf \in Seq(Payload)
    /\ leads \in Seq(Msgs \union {Zero})
    /\ landing \in BOOLEAN /\ draining \in BOOLEAN
    /\ inflight \in Seq(Msgs)
    /\ taken \in Payload

Conserved == credits + Owed + Len(inflight) = Depth

SlotIInv == TypeBase /\ Halves /\ Ordered /\ Conserved

-----------------------------------------------------------------------------
(* The wires.                                                              *)

LEMMA Wires ==
  ASSUME TypeBase, NEW k \in Node
  PROVE  ForwardAt(k) \in Forwards /\ BackwardAt(k) \in Backwards
<1>1. ForwardAt(k) \in Forwards
  <2>1. CASE k = 0
    BY <2>1 DEF ForwardAt, TypeBase
  <2>2. CASE k # 0
    <3>1. k \in 1..Stages /\ pipe[k] \in StageState
      BY <2>2, StagesAssumption DEF Node, TypeBase
    <3>2. pipe[k].pay \in Payload /\ pipe[k].lead \in Msgs \union {Zero}
          /\ pipe[k].valid \in BOOLEAN
      BY <3>1 DEF StageState
    <3>3. [pipe[k].pay EXCEPT !.lead = pipe[k].lead] \in Payload
      BY <3>2 DEF Payload
    <3> QED BY <2>2, <3>2, <3>3 DEF ForwardAt, Forwards
  <2> QED BY <2>1, <2>2
<1>2. BackwardAt(k) \in Backwards
  <2>1. CASE k = Stages
    BY <2>1 DEF BackwardAt, TypeBase
  <2>2. CASE k # Stages
    <3>1. k + 1 \in 1..Stages /\ pipe[k+1] \in StageState
      BY <2>2, StagesAssumption DEF Node, TypeBase
    <3> QED BY <2>2, <3>1 DEF StageState, BackwardAt, Backwards
  <2> QED BY <2>1, <2>2
<1> QED BY <1>1, <1>2

\* Nothing on the wires moves but at the edge.
LEMMA WiresHold ==
  ASSUME UNCHANGED <<txCur, rxCur, pipe>>
  PROVE  /\ \A k \in Node : ForwardAt(k)' = ForwardAt(k)
         /\ \A k \in Node : BackwardAt(k)' = BackwardAt(k)
BY DEF ForwardAt, BackwardAt

LEMMA WiresMove ==
  ASSUME TypeBase, Edge
  PROVE  /\ ForwardAt(0)' = txNxt
         /\ \A k \in Node \ {0} :
              /\ ForwardAt(k)'.valid = ForwardAt(k-1).valid
              /\ HasLead /\ ForwardAt(k-1).valid =>
                   ForwardAt(k)'.payload.lead = ForwardAt(k-1).payload.lead
              /\ ForwardAt(k).valid =>
                   /\ ForwardAt(k)'.payload.rest = ForwardAt(k-1).payload.rest
                   /\ ~HasLead => ForwardAt(k)'.payload.lead
                                    = ForwardAt(k-1).payload.lead
         /\ BackwardAt(Stages)' = rxNxt
         /\ \A k \in Node \ {Stages} : BackwardAt(k)' = BackwardAt(k+1)
<1>1. ForwardAt(0)' = txNxt
  BY DEF Edge, ForwardAt
<1>2. BackwardAt(Stages)' = rxNxt
  BY DEF Edge, BackwardAt
<1>3. ASSUME NEW k \in Node \ {Stages} PROVE BackwardAt(k)' = BackwardAt(k+1)
  <2>1. k + 1 \in 1..Stages /\ k # Stages /\ k + 1 \in Node
    BY StagesAssumption DEF Node
  <2>2. /\ pipe'[k+1].credit = BackwardAt(k+1).credit
        /\ pipe'[k+1].stall = BackwardAt(k+1).stall
    BY <2>1 DEF Edge
  <2>3. BackwardAt(k)' = [credit |-> pipe'[k+1].credit, stall |-> pipe'[k+1].stall]
    BY <2>1 DEF BackwardAt
  <2>4. BackwardAt(k+1) = [credit |-> BackwardAt(k+1).credit,
                           stall |-> BackwardAt(k+1).stall]
    BY <2>1, Wires DEF Backwards
  <2> QED BY <2>2, <2>3, <2>4
<1>4. ASSUME NEW k \in Node \ {0}
      PROVE  /\ ForwardAt(k)'.valid = ForwardAt(k-1).valid
             /\ HasLead /\ ForwardAt(k-1).valid =>
                  ForwardAt(k)'.payload.lead = ForwardAt(k-1).payload.lead
             /\ ForwardAt(k).valid =>
                  /\ ForwardAt(k)'.payload.rest = ForwardAt(k-1).payload.rest
                  /\ ~HasLead => ForwardAt(k)'.payload.lead
                                   = ForwardAt(k-1).payload.lead
  <2>1. k \in 1..Stages /\ k # 0 /\ k - 1 \in Node
    BY StagesAssumption DEF Node
  <2> DEFINE f == ForwardAt(k-1)
  <2>2. f \in Forwards
    BY <2>1, Wires
  <2>3. /\ pipe'[k].valid = f.valid
        /\ pipe'[k].pay = (IF pipe[k].valid THEN f.payload ELSE pipe[k].pay)
        /\ pipe'[k].lead = (IF HasLead /\ f.valid THEN f.payload.lead ELSE pipe[k].lead)
    BY <2>1 DEF Edge
  <2>4. pipe[k] \in StageState
    BY <2>1 DEF TypeBase
  <2>5. ForwardAt(k)' = [valid |-> pipe'[k].valid,
          payload |-> IF HasLead THEN [pipe'[k].pay EXCEPT !.lead = pipe'[k].lead]
                                 ELSE pipe'[k].pay]
    BY <2>1 DEF ForwardAt
  <2>6. ForwardAt(k).valid = pipe[k].valid
    BY <2>1 DEF ForwardAt
  <2>7. pipe'[k].pay \in Payload
    BY <2>2, <2>3, <2>4 DEF StageState, Forwards
  <2>8. CASE HasLead
    <3>1. ForwardAt(k)'.payload = [pipe'[k].pay EXCEPT !.lead = pipe'[k].lead]
      BY <2>5, <2>8
    <3>2. /\ ForwardAt(k)'.payload.lead = pipe'[k].lead
          /\ ForwardAt(k)'.payload.rest = pipe'[k].pay.rest
      BY <3>1, <2>7 DEF Payload
    <3> QED BY <3>2, <2>3, <2>5, <2>6, <2>8
  <2>9. CASE ~HasLead
    BY <2>3, <2>5, <2>6, <2>9
  <2> QED BY <2>8, <2>9
<1> QED BY <1>1, <1>2, <1>3, <1>4

-----------------------------------------------------------------------------
(* The credits on their way back.                                          *)

\* A set of numbers moved by d has as many elements.
LEMMA Translate ==
  ASSUME NEW S \in SUBSET Int, IsFiniteSet(S), NEW d \in Int,
         NEW T, T = {x + d : x \in S}
  PROVE  IsFiniteSet(T) /\ Cardinality(T) = Cardinality(S)
<1> DEFINE F == [x \in S |-> x + d]
<1>1. F \in Injection(S, T)
  BY DEF Injection, IsInjective
<1>2. F \in Surjection(S, T)
  BY DEF Surjection
<1> QED BY <1>1, <1>2, FS_Bijection DEF ExistsBijection, Bijection

OnWire == {k \in Node : BackwardAt(k).credit}

LEMMA OwedIs ==
  /\ IsFiniteSet(OnWire) /\ Cardinality(OnWire) \in Nat
  /\ IsFiniteSet(OnWire \ {0}) /\ Cardinality(OnWire \ {0}) \in Nat
  /\ Owed = (IF "tx" \in todo THEN Cardinality(OnWire) ELSE Cardinality(OnWire \ {0}))
              + Bit(rxNxt.credit)
  /\ Owed \in Nat
<1>1. IsFiniteSet(Node)
  BY StagesAssumption, FS_Interval DEF Node
<1>2. IsFiniteSet(OnWire) /\ IsFiniteSet(OnWire \ {0})
  BY <1>1, FS_Subset DEF OnWire
<1>3. Cardinality(OnWire) \in Nat /\ Cardinality(OnWire \ {0}) \in Nat
  BY <1>2, FS_CardinalityType
<1>4. Owed = (IF "tx" \in todo THEN Cardinality(OnWire) ELSE Cardinality(OnWire \ {0}))
              + Bit(rxNxt.credit)
  BY DEF Owed, OnWire, Node, Bit
<1> QED BY <1>2, <1>3, <1>4 DEF Bit

LEMMA TxOwed ==
  ASSUME TypeBase, NEW launch, NEW m, TxCycle(launch, m)
  PROVE  /\ Owed' = Owed - Bit(BackwardAt(0).credit)
         /\ BackwardAt(0).credit => Owed >= 1
<1>1. OnWire' = OnWire /\ "tx" \in todo /\ "tx" \notin todo' /\ rxNxt' = rxNxt
  BY WiresHold DEF TxCycle, OnWire
<1>2. 0 \in OnWire <=> BackwardAt(0).credit
  BY StagesAssumption DEF OnWire, Node
<1>3. Cardinality(OnWire \ {0}) = Cardinality(OnWire) - Bit(BackwardAt(0).credit)
  BY <1>2, OwedIs, FS_RemoveElement DEF Bit
<1>4. Owed = Cardinality(OnWire) + Bit(rxNxt.credit)
  BY <1>1, OwedIs
<1>5. Owed' = Cardinality(OnWire \ {0}) + Bit(rxNxt.credit)
  <2>1. Owed' = (IF "tx" \in todo' THEN Cardinality(OnWire') ELSE Cardinality(OnWire' \ {0}))
              + Bit(rxNxt'.credit)
    BY DEF Owed, OnWire, Node, Bit
  <2> QED BY <2>1, <1>1
<1> QED BY <1>3, <1>4, <1>5, OwedIs DEF Bit

LEMMA RxOwed ==
  ASSUME TypeBase, UNCHANGED <<txCur, rxCur, pipe>>,
         "tx" \in todo' <=> "tx" \in todo, ~rxNxt.credit
  PROVE  Owed' = Owed + Bit(rxNxt'.credit)
<1>1. OnWire' = OnWire
  BY WiresHold DEF OnWire
<1>2. Owed' = (IF "tx" \in todo' THEN Cardinality(OnWire') ELSE Cardinality(OnWire' \ {0}))
              + Bit(rxNxt'.credit)
  BY DEF Owed, OnWire, Node, Bit
<1> DEFINE was == Cardinality(OnWire)
           less == Cardinality(OnWire \ {0})
<1>3. was \in Nat /\ less \in Nat
  BY OwedIs
<1>4. Owed = (IF "tx" \in todo THEN was ELSE less) + Bit(rxNxt.credit)
  BY OwedIs
<1>5. Owed' = (IF "tx" \in todo THEN was ELSE less) + Bit(rxNxt'.credit)
  BY <1>1, <1>2
<1> HIDE DEF was, less
<1> QED BY <1>3, <1>4, <1>5 DEF Bit

LEMMA EdgeOwed ==
  ASSUME TypeBase, Edge
  PROVE  Owed' = Owed
<1> DEFINE S == OnWire \ {0}
           T == {x + (-1) : x \in S}
           b == rxNxt.credit
<1>1. "tx" \notin todo /\ "tx" \in todo' /\ rxNxt' = Quiet
  BY DEF Edge
<1>2. IsFiniteSet(S) /\ S \in SUBSET Int /\ Cardinality(S) \in Nat
  BY OwedIs, StagesAssumption DEF OnWire, Node
<1>3. IsFiniteSet(T) /\ Cardinality(T) = Cardinality(S)
  <2> HIDE DEF S
  <2> QED BY <1>2, -1 \in Int, Translate
<1>4. OnWire' = {k \in Node : BackwardAt(k)'.credit}
  BY DEF OnWire, Node
<1>5. ASSUME NEW k \in Node \ {Stages}
      PROVE  BackwardAt(k)'.credit <=> k \in T
  <2>1. k + 1 \in Node /\ k + 1 # 0 /\ k \in Int
    BY StagesAssumption DEF Node
  <2>2. k \in T <=> k + 1 \in S
    <3>1. \A x \in S : x \in Int /\ (x + (-1) = k <=> x = k + 1)
      BY <1>2, <2>1
    <3> QED BY <3>1
  <2> QED BY <2>1, <2>2, WiresMove DEF OnWire
<1>6. BackwardAt(Stages)'.credit = b
  BY WiresMove
<1>7. T \subseteq Node \ {Stages}
  BY StagesAssumption DEF OnWire, Node
<1>8. OnWire' = IF b THEN T \union {Stages} ELSE T
  <2>1. Stages \in Node
    BY StagesAssumption DEF Node
  <2> HIDE DEF T, b
  <2> QED BY <1>4, <1>5, <1>6, <1>7, <2>1
<1>9. Cardinality(OnWire') = Cardinality(S) + Bit(b)
  <2>1. Stages \notin T
    BY <1>7
  <2>2. Cardinality(T \union {Stages}) = Cardinality(T) + 1
    BY <1>3, <2>1, FS_AddElement
  <2> HIDE DEF T, S, b
  <2> QED BY <1>2, <1>3, <1>8, <2>2 DEF Bit
<1>10. Owed' = Cardinality(OnWire') + 0
  <2>1. Owed' = (IF "tx" \in todo' THEN Cardinality(OnWire') ELSE Cardinality(OnWire' \ {0}))
              + Bit(rxNxt'.credit)
    BY DEF Owed, OnWire, Node, Bit
  <2>2. Bit(rxNxt'.credit) = 0
    BY <1>1 DEF Quiet, Bit
  <2> QED BY <2>1, <2>2, <1>1
<1>11. Owed = Cardinality(S) + Bit(b)
  BY <1>1, OwedIs
<1> HIDE DEF S, b
<1> QED BY <1>2, <1>9, <1>10, <1>11 DEF Bit

-----------------------------------------------------------------------------
(* The places of the messages.                                             *)

LEMMA Places ==
  /\ -1 \in Place /\ Stages + 1 \in Place /\ Node \subseteq Place
  /\ \A p \in Place : p \in Int /\ (p = -1 \/ p \in Node \/ p = Stages + 1)
  /\ 0 \in Node /\ Stages \in Node /\ -1 \notin Node /\ Stages + 1 \notin Node
  /\ Stages + 1 # -1
BY StagesAssumption DEF Place, Node

LEMMA AheadIs ==
  ASSUME NEW p \in Place
  PROVE  /\ IsFiniteSet(Ahead(p)) /\ Ahead(p) \in SUBSET Int
         /\ Cardinality(Ahead(p)) \in Nat
         /\ Cardinality(Ahead(p)) <= Cardinality(Ahead(-1))
         /\ Carries(p) => Cardinality(Ahead(p)) >= 1
<1>1. IsFiniteSet(Place) /\ Place \in SUBSET Int
  BY StagesAssumption, FS_Interval DEF Place
<1>2. IsFiniteSet(Ahead(p)) /\ IsFiniteSet(Ahead(-1)) /\ Ahead(p) \subseteq Ahead(-1)
  <2>1. Ahead(p) \subseteq Place /\ Ahead(-1) \subseteq Place
    BY DEF Ahead
  <2>2. \A r \in Place : r >= -1
    BY DEF Place
  <2>3. Ahead(p) \subseteq Ahead(-1)
    BY <2>2 DEF Ahead
  <2> QED BY <1>1, <2>1, <2>3, FS_Subset
<1>3. /\ Cardinality(Ahead(p)) \in Nat
      /\ Cardinality(Ahead(p)) <= Cardinality(Ahead(-1))
  BY <1>2, FS_CardinalityType, FS_Subset
<1>4. ASSUME Carries(p) PROVE Cardinality(Ahead(p)) >= 1
  <2>1. p \in Ahead(p)
    BY <1>1, <1>4 DEF Ahead
  <2>2. Cardinality(Ahead(p)) # 0
    BY <1>2, <2>1, FS_EmptySet
  <2> QED BY <1>3, <2>2
<1> QED BY <1>1, <1>2, <1>3, <1>4 DEF Ahead

\* A full place's position is that of a message, after those in the buffer.
LEMMA Positions ==
  ASSUME TypeBase, Ordered, NEW p \in Place
  PROVE  /\ Position(p) \in Nat
         /\ Carries(p) => Position(p) \in (Len(buf) + 1)..Len(inflight)
<1>1. Len(buf) \in Nat /\ Len(inflight) \in Nat
  BY DEF TypeBase
<1>2. Len(inflight) = Len(buf) + Cardinality(Ahead(-1))
  BY DEF Ordered, Position
<1>3. /\ Cardinality(Ahead(p)) \in Nat /\ Cardinality(Ahead(-1)) \in Nat
      /\ Cardinality(Ahead(p)) <= Cardinality(Ahead(-1))
      /\ Carries(p) => Cardinality(Ahead(p)) >= 1
  BY AheadIs, Places
<1> QED BY <1>1, <1>2, <1>3 DEF Position

\* The launch fills place -1; no other place changes.
LEMMA TxAhead ==
  ASSUME TypeBase, Halves, NEW launch \in BOOLEAN, NEW m, TxCycle(launch, m)
  PROVE  /\ \A p \in Place : p # -1 =>
              (Carries(p)' <=> Carries(p)) /\ Ahead(p)' = Ahead(p)
         /\ Carries(-1)' <=> launch /\ CanSend
         /\ Cardinality(Ahead(-1)') = Cardinality(Ahead(-1)) + Bit(launch /\ CanSend)
<1>1. \A p \in Place : p # -1 => (Carries(p)' <=> Carries(p))
  BY WiresHold, Places DEF TxCycle, Carries, receiverVars
<1>2. Carries(-1)' <=> launch /\ CanSend
  BY Places DEF TxCycle, Carries
<1>3. ~Carries(-1)
  BY Places DEF Halves, TxCycle, Carries
<1>4. ASSUME NEW p \in Place, p # -1 PROVE Ahead(p)' = Ahead(p)
  BY <1>1, <1>4, Places DEF Ahead, Place
<1>5. Ahead(-1)' = IF launch /\ CanSend THEN Ahead(-1) \union {-1} ELSE Ahead(-1)
  <2>1. \A r \in Place : r >= -1
    BY DEF Place
  <2>2. Ahead(-1) = {r \in Place : Carries(r)} /\ Ahead(-1)' = {r \in Place : Carries(r)'}
    BY <2>1 DEF Ahead, Place
  <2>3. \A r \in Place : Carries(r)' <=> Carries(r) \/ (r = -1 /\ launch /\ CanSend)
    BY <1>1, <1>2, <1>3
  <2> QED BY <2>2, <2>3, Places
<1>6. -1 \notin Ahead(-1)
  BY <1>3 DEF Ahead
<1>7. Cardinality(Ahead(-1) \union {-1}) = Cardinality(Ahead(-1)) + 1
  BY <1>6, AheadIs, Places, FS_AddElement
<1>8. Cardinality(Ahead(-1)) \in Nat
  BY AheadIs, Places
<1>9. Cardinality(Ahead(-1)') = Cardinality(Ahead(-1)) + Bit(launch /\ CanSend)
  <2>1. CASE launch /\ CanSend
    BY <2>1, <1>5, <1>7 DEF Bit
  <2>2. CASE ~(launch /\ CanSend)
    BY <2>2, <1>5, <1>8 DEF Bit
  <2> QED BY <2>1, <2>2
<1> QED BY <1>1, <1>2, <1>4, <1>9

\* The receiver empties the landing.
LEMMA RxAhead ==
  ASSUME TypeBase, "rx" \in todo, "rx" \notin todo',
         UNCHANGED <<txCur, txNxt, rxCur, pipe>>, NEW p \in Place
  PROVE  /\ Carries(p)' <=> Carries(p) /\ p # Stages + 1
         /\ Cardinality(Ahead(p)') = Cardinality(Ahead(p)) - Bit(landing)
         /\ landing /\ p # Stages + 1 /\ Carries(p) => Cardinality(Ahead(p)) >= 2
<1>1. \A r \in Place : Carries(r)' <=> Carries(r) /\ r # Stages + 1
  BY WiresHold, Places DEF Carries
<1>2. Carries(Stages + 1) <=> landing
  BY Places DEF Carries
<1>3. Ahead(p)' = Ahead(p) \ {Stages + 1}
  BY <1>1 DEF Ahead, Place
<1>4. Stages + 1 \in Ahead(p) <=> landing
  BY <1>2, Places, StagesAssumption DEF Ahead, Place
<1>5. Cardinality(Ahead(p) \ {Stages + 1})
        = IF Stages + 1 \in Ahead(p) THEN Cardinality(Ahead(p)) - 1
                                     ELSE Cardinality(Ahead(p))
  BY AheadIs, FS_RemoveElement
<1>6. Cardinality(Ahead(p)) \in Nat
  BY AheadIs
<1>7. Cardinality(Ahead(p)') = Cardinality(Ahead(p)) - Bit(landing)
  BY <1>3, <1>4, <1>5, <1>6 DEF Bit
<1>8. ASSUME landing, p # Stages + 1, Carries(p) PROVE Cardinality(Ahead(p)) >= 2
  <2> DEFINE B == Ahead(p) \ {Stages + 1}
  <2>1. p \in B /\ IsFiniteSet(B)
    <3>1. p >= p
      BY Places
    <3>2. p \in B
      BY <1>8, <3>1 DEF Ahead
    <3>3. IsFiniteSet(Ahead(p))
      BY AheadIs
    <3> QED BY <3>2, <3>3, FS_Subset
  <2>2. Cardinality(B) # 0 /\ Cardinality(B) \in Nat
    BY <2>1, FS_EmptySet, FS_CardinalityType
  <2>3. Cardinality(B) = Cardinality(Ahead(p)) - 1
    BY <1>4, <1>5, <1>8
  <2> HIDE DEF B
  <2> QED BY <2>2, <2>3, <1>6
<1> QED BY <1>1, <1>7, <1>8

\* The edge takes every message one place on.
LEMMA EdgeAhead ==
  ASSUME TypeBase, Halves, Edge
  PROVE  /\ ~Carries(-1)'
         /\ \A p \in Place \ {-1} :
              /\ p - 1 \in Place
              /\ Carries(p)' <=> Carries(p - 1)
              /\ Cardinality(Ahead(p)') = Cardinality(Ahead(p - 1))
         /\ Cardinality(Ahead(-1)') = Cardinality(Ahead(-1))
<1>1. todo = {} /\ todo' = {"tx", "rx"} /\ landing' = landing
      /\ txNxt' = [txNxt EXCEPT !.valid = FALSE]
  BY DEF Edge, receiverVars
<1>2. ~Carries(-1)'
  <2>1. txNxt'.valid = FALSE
    BY <1>1 DEF TypeBase, Forwards
  <2> QED BY <2>1, Places DEF Carries
<1>3. ~Carries(Stages + 1)
  BY <1>1, Places DEF Carries
<1>4. ASSUME NEW p \in Place \ {-1}
      PROVE  p - 1 \in Place /\ (Carries(p)' <=> Carries(p - 1))
  <2>1. p - 1 \in Place /\ p \in Int
    BY StagesAssumption DEF Place
  <2>2. CASE p = 0
    <3>1. Carries(0)' <=> ForwardAt(0)'.valid
      BY Places DEF Carries, Node
    <3>2. Carries(-1) <=> txNxt.valid
      BY Places DEF Carries
    <3> QED BY <2>1, <2>2, <3>1, <3>2, WiresMove
  <2>3. CASE p \in Node \ {0}
    <3>1. p - 1 \in Node /\ p # -1 /\ p # Stages + 1 /\ p - 1 # -1 /\ p - 1 # Stages + 1
      BY <2>3, StagesAssumption DEF Node
    <3>2. Carries(p)' <=> ForwardAt(p)'.valid
      BY <2>3, <3>1 DEF Carries, Node
    <3>3. Carries(p - 1) <=> ForwardAt(p - 1).valid
      BY <3>1 DEF Carries
    <3> QED BY <2>1, <2>3, <3>2, <3>3, WiresMove
  <2>4. CASE p = Stages + 1
    <3>1. p - 1 = Stages
      BY <2>4, StagesAssumption
    <3>2. Carries(Stages + 1)' <=> landing
      BY <1>1, Places DEF Carries, Node
    <3>3. Carries(Stages) <=> ForwardAt(Stages).valid
      BY Places, StagesAssumption DEF Carries
    <3> QED BY <1>1, <2>1, <2>4, <3>1, <3>2, <3>3 DEF Halves
  <2> QED BY <2>1, <2>2, <2>3, <2>4, Places
<1>5. ASSUME NEW p \in Place \ {-1} PROVE Cardinality(Ahead(p)') = Cardinality(Ahead(p - 1))
  <2>1. p - 1 \in Place /\ p \in Int
    BY <1>4, Places
  <2>2. Ahead(p)' = {x + 1 : x \in Ahead(p - 1)}
    <3>1. ASSUME NEW r \in Ahead(p)' PROVE r \in {x + 1 : x \in Ahead(p - 1)}
      <4>1. r \in Place /\ r >= p /\ Carries(r)'
        BY <3>1 DEF Ahead, Place
      <4>2. r \in Place \ {-1}
        BY <4>1, <1>2
      <4>3. r - 1 \in Place /\ Carries(r - 1) /\ r \in Int
        BY <4>1, <4>2, <1>4, Places
      <4>4. r - 1 \in Ahead(p - 1) /\ r = (r - 1) + 1
        BY <4>1, <4>3, <2>1 DEF Ahead
      <4> QED BY <4>4
    <3>2. ASSUME NEW x \in Ahead(p - 1) PROVE x + 1 \in Ahead(p)'
      <4>1. x \in Place /\ x >= p - 1 /\ Carries(x) /\ x # Stages + 1
        BY <3>2, <1>3 DEF Ahead
      <4>2. x + 1 \in Place \ {-1} /\ (x + 1) - 1 = x /\ x \in Int
        BY <4>1, StagesAssumption DEF Place
      <4>3. Carries(x + 1)'
        BY <4>1, <4>2, <1>4
      <4>4. x + 1 >= p
        BY <4>1, <4>2, <2>1
      <4> QED BY <4>2, <4>3, <4>4 DEF Ahead, Place
    <3> QED BY <3>1, <3>2
  <2>3. ASSUME NEW S \in SUBSET Int, IsFiniteSet(S)
        PROVE  Cardinality({x + 1 : x \in S}) = Cardinality(S)
    <3> DEFINE T == {x + 1 : x \in S}
    <3>1. T = {x + 1 : x \in S}
      OBVIOUS
    <3> HIDE DEF T
    <3>2. Cardinality(T) = Cardinality(S)
      BY <2>3, <3>1, Translate, 1 \in Int, ZenonT(60)
    <3> QED BY <3>1, <3>2
  <2>4. IsFiniteSet(Ahead(p - 1)) /\ Ahead(p - 1) \in SUBSET Int
    BY <2>1, AheadIs
  <2>5. Cardinality({x + 1 : x \in Ahead(p - 1)}) = Cardinality(Ahead(p - 1))
    BY <2>3, <2>4
  <2> QED BY <2>2, <2>5
<1>6. Ahead(-1)' = Ahead(0)'
  BY <1>2 DEF Ahead, Place
<1>7. Cardinality(Ahead(-1)') = Cardinality(Ahead(-1))
  <2>1. 0 \in Place \ {-1} /\ 0 - 1 = -1
    BY Places
  <2> QED BY <2>1, <1>5, <1>6
<1> QED BY <1>2, <1>4, <1>5, <1>7

-----------------------------------------------------------------------------
(* The sender's half of a cycle.                                           *)

\* What Sender::cycle puts on the wire next.
LEMMA TxPuts ==
  ASSUME TypeBase, NEW launch \in BOOLEAN, NEW m, launch => m \in Msgs,
         TxCycle(launch, m)
  PROVE  /\ txNxt' \in Forwards
         /\ txNxt'.valid = (launch /\ CanSend)
         /\ launch /\ CanSend /\ HasLead => txNxt'.payload.lead = m
         /\ txCur.valid => /\ txNxt'.payload.rest = promised.rest
                           /\ ~HasLead => txNxt'.payload.lead = promised.lead
<1> DEFINE go == launch /\ CanSend
           due == IF txCur.valid THEN promised ELSE txNxt.payload
           pay == IF go /\ HasLead THEN [due EXCEPT !.lead = m] ELSE due
<1>1. txNxt' = [valid |-> go, payload |-> pay]
  BY DEF TxCycle
<1>2. due \in Payload
  BY DEF TypeBase, Forwards
<1>3. /\ pay \in Payload /\ pay.rest = due.rest
      /\ go /\ HasLead => pay.lead = m
      /\ ~HasLead => pay.lead = due.lead
  <2> HIDE DEF due
  <2>1. CASE go /\ HasLead
    BY <1>2, <2>1 DEF Payload
  <2>2. CASE ~(go /\ HasLead)
    BY <1>2, <2>2 DEF Payload
  <2> QED BY <2>1, <2>2
<1>4. go \in BOOLEAN
  BY DEF CanSend
<1>5. txCur.valid => due = promised
  OBVIOUS
<1> HIDE DEF due, pay, go
<1>6. txNxt' \in Forwards /\ txNxt'.valid = go /\ txNxt'.payload = pay
  BY <1>1, <1>3, <1>4 DEF Forwards
<1> QED BY <1>3, <1>5, <1>6 DEF go

LEMMA TxTypes ==
  ASSUME TypeBase, NEW launch \in BOOLEAN, NEW m, launch => m \in Msgs,
         TxCycle(launch, m)
  PROVE  TypeBase'
<1> USE DEF TypeBase, receiverVars
<1>1. txNxt' \in Forwards
  BY TxPuts
<1>2. promised' \in Payload
  <2>1. launch => Word(m) \in Payload
    BY DEF Word, Payload
  <2> QED BY <2>1 DEF TxCycle
<1>3. credits' \in Nat
  BY DEF TxCycle, CanSend
<1>4. inflight' \in Seq(Msgs)
  BY DEF TxCycle
<1> QED BY <1>1, <1>2, <1>3, <1>4 DEF TxCycle

LEMMA TxOrder ==
  ASSUME SlotIInv, NEW launch \in BOOLEAN, NEW m, launch => m \in Msgs,
         TxCycle(launch, m)
  PROVE  Ordered'
<1> DEFINE go == launch /\ CanSend
<1>0. TypeBase /\ Halves /\ Ordered
  BY DEF SlotIInv
<1>1. /\ inflight' = IF go THEN Append(inflight, m) ELSE inflight
      /\ promised' = IF go THEN Word(m) ELSE promised
      /\ buf' = buf /\ leads' = leads /\ "tx" \in todo /\ "tx" \notin todo'
  BY DEF TxCycle, receiverVars
<1>2. /\ inflight \in Seq(Msgs) /\ buf \in Seq(Payload)
      /\ Len(inflight) \in Nat /\ Len(buf) \in Nat
  BY <1>0 DEF TypeBase
<1>3. /\ Len(inflight') = Len(inflight) + Bit(go)
      /\ \A i \in 1..Len(inflight) : inflight'[i] = inflight[i]
      /\ go => inflight'[Len(inflight) + 1] = m
  <2>1. CASE go
    BY <1>1, <1>2, <2>1 DEF Bit
  <2>2. CASE ~go
    BY <1>1, <1>2, <2>2 DEF Bit
  <2> QED BY <2>1, <2>2
<1>4. Len(inflight) = Len(buf) + Cardinality(Ahead(-1)) /\ Cardinality(Ahead(-1)) \in Nat
  BY <1>0, AheadIs, Places DEF Ordered, Position
<1>5. Cardinality(Ahead(-1)') = Cardinality(Ahead(-1)) + Bit(go)
  BY <1>0, TxAhead
<1>6. Position(-1)' = Len(inflight')
  <2>1. Position(-1)' = Len(buf) + Cardinality(Ahead(-1)')
    BY <1>1 DEF Position
  <2>2. Bit(go) \in Nat
    BY DEF Bit
  <2> HIDE DEF go
  <2> QED BY <1>2, <1>3, <1>4, <1>5, <2>1, <2>2
<1>7. ASSUME NEW i \in 1..Len(buf') PROVE buf'[i] = Word(inflight'[i])
  <2>1. i \in 1..Len(buf) /\ i \in 1..Len(inflight)
    BY <1>1, <1>2, <1>4
  <2> QED BY <2>1, <1>0, <1>1, <1>3 DEF Ordered
<1>8. ASSUME NEW p \in Place, NEW y \in Msgs, Carries(p)', inflight'[Position(p)'] = y
      PROVE  Bears(p, y)'
  <2>1. CASE p = -1
    <3>1. go /\ Position(p)' = Len(inflight) + 1
      BY <1>0, <1>2, <1>3, <1>6, <1>8, <2>1, TxAhead DEF Bit
    <3>2. y = m /\ promised' = Word(m)
      BY <1>1, <1>3, <1>8, <3>1
    <3>3. HasLead => txNxt'.payload.lead = m
      BY <1>0, <3>1, TxPuts
    <3> QED BY <2>1, <3>2, <3>3, Places DEF Bears, Node, Word
  <2>2. CASE p # -1
    <3>1. Carries(p) /\ Ahead(p)' = Ahead(p)
      BY <1>0, <1>8, <2>2, TxAhead
    <3>2. Position(p)' = Position(p) /\ Position(p) \in 1..Len(inflight)
      BY <1>0, <1>1, <1>2, <3>1, Positions DEF Position
    <3>3. y = inflight[Position(p)]
      BY <1>3, <1>8, <3>2
    <3>4. Bears(p, y)
      BY <1>0, <3>1, <3>3 DEF Ordered
    <3>5. \A k \in Node : ForwardAt(k)' = ForwardAt(k)
      BY WiresHold DEF TxCycle
    <3>6. p \in Node => (HasLead => ForwardAt(p)'.payload.lead = y)
      BY <3>4, <3>5 DEF Bears
    <3>7. ASSUME p = 0 PROVE Follows(txNxt'.payload, y)
      <4>1. txCur.valid
        BY <3>1, <3>7, Places DEF Carries, ForwardAt
      <4>2. promised = Word(y)
        BY <3>4, <3>7, <1>1 DEF Bears
      <4>3. promised.rest = y /\ promised.lead = y
        BY <4>2 DEF Word
      <4> QED BY <4>1, <4>3, <1>0, TxPuts DEF Follows
    <3>8. p \in Node \ {0} => Follows(ForwardAt(p - 1)'.payload, y)
      <4>1. p \in Node \ {0} => p - 1 \in Node
        BY StagesAssumption DEF Node
      <4> QED BY <3>4, <3>5, <4>1 DEF Bears
    <3>9. p = Stages + 1 => /\ Follows(ForwardAt(Stages)'.payload, y)
                            /\ HasLead => leads'[1] = y
      BY <3>4, <3>5, <1>1, Places DEF Bears
    <3> QED BY <2>2, <1>1, <3>6, <3>7, <3>8, <3>9 DEF Bears, Node, Follows
  <2> QED BY <2>1, <2>2
<1>9. \A i \in 1..Len(buf') : buf'[i] = Word(inflight'[i])
  BY <1>7
<1> QED BY <1>6, <1>8, <1>9 DEF Ordered, Word, Place

\* What one pool gives the next one takes.
LEMMA Balance ==
  ASSUME NEW c \in Nat, NEW o \in Nat, NEW l \in Nat, NEW g \in Nat, NEW r \in Nat
  PROVE  (c - g + r) + (o - r) + (l + g) = c + o + l
BY SMT

LEMMA TxStep ==
  ASSUME SlotIInv, NEW launch \in BOOLEAN, NEW m, launch => m \in Msgs,
         TxCycle(launch, m)
  PROVE  SlotIInv'
<1> DEFINE go == launch /\ CanSend
           refund == BackwardAt(0).credit
<1>0. TypeBase /\ Halves /\ Ordered /\ Conserved
  BY DEF SlotIInv
<1>1. TypeBase'
  BY <1>0, TxTypes
<1>2. Ordered'
  BY TxOrder
<1>3. Halves'
  <2>1. ForwardAt(Stages)' = ForwardAt(Stages)
    BY WiresHold, Places DEF TxCycle
  <2>2. /\ "tx" \notin todo' /\ ("rx" \in todo' <=> "rx" \in todo)
        /\ UNCHANGED <<rxNxt, landing, leads>>
    BY DEF TxCycle, receiverVars
  <2> QED BY <1>0, <2>1, <2>2 DEF Halves
<1>4. Conserved'
  <2>1. go \in BOOLEAN /\ refund \in BOOLEAN
    BY <1>0, Wires, Places DEF CanSend, Backwards
  <2>2. /\ credits' = CASE go /\ ~refund -> credits - 1
                        [] ~go /\ refund -> credits + 1
                        [] OTHER -> credits
        /\ inflight' = IF go THEN Append(inflight, m) ELSE inflight
    BY DEF TxCycle
  <2> HIDE DEF go, refund
  <2>3. credits \in Nat /\ Owed \in Nat /\ inflight \in Seq(Msgs) /\ Len(inflight) \in Nat
    BY <1>0, OwedIs DEF TypeBase
  <2>4. Owed' = Owed - Bit(refund)
    BY <1>0, TxOwed DEF refund
  <2>5. Len(inflight') = Len(inflight) + Bit(go)
    BY <2>1, <2>2, <2>3 DEF Bit
  <2>6. credits' = credits - Bit(go) + Bit(refund)
    BY <2>1, <2>2, <2>3 DEF Bit
  <2>7. Bit(go) \in Nat /\ Bit(refund) \in Nat
    BY DEF Bit
  <2>8. credits + Owed + Len(inflight) = Depth
    BY <1>0 DEF Conserved
  <2>9. (credits - Bit(go) + Bit(refund)) + (Owed - Bit(refund))
          + (Len(inflight) + Bit(go)) = Depth
    BY <2>3, <2>7, <2>8, Balance
  <2>10. credits' + Owed' + Len(inflight') = Depth
    BY <2>4, <2>5, <2>6, <2>9, Zenon
  <2> QED BY <2>10 DEF Conserved
<1> QED BY <1>1, <1>2, <1>3, <1>4 DEF SlotIInv

-----------------------------------------------------------------------------
(* The receiver's half.                                                    *)

\* What the receiver holds once it has looked at the wire: the messages that
\* are in flight longest, whole.
LEMMA HeldIs ==
  ASSUME TypeBase, Halves, Ordered, "rx" \in todo
  PROVE  /\ Held \in Seq(Payload)
         /\ Len(Held) = Len(buf) + Bit(landing)
         /\ Len(Held) <= Len(inflight)
         /\ \A i \in 1..Len(Held) : Held[i] = Word(inflight[i])
<1>1. /\ inflight \in Seq(Msgs) /\ buf \in Seq(Payload) /\ landing \in BOOLEAN
      /\ Len(inflight) \in Nat /\ Len(buf) \in Nat
  BY DEF TypeBase
<1>2. Len(buf) <= Len(inflight)
  BY <1>1, AheadIs, Places DEF Ordered, Position
<1>3. CASE ~landing
  BY <1>1, <1>2, <1>3 DEF Held, Bit, Ordered
<1>4. CASE landing
  <2> DEFINE p == Stages + 1
             x == inflight[Len(buf) + 1]
             w == ForwardAt(Stages).payload
  <2>1. p \in Place /\ Carries(p)
    BY <1>4, Places DEF Carries
  <2>2. Ahead(p) = {p}
    BY <2>1, StagesAssumption DEF Ahead, Place
  <2>3. Cardinality(Ahead(p)) = 1
    BY <2>2, FS_Singleton
  <2>4. Position(p) = Len(buf) + 1 /\ Position(p) \in 1..Len(inflight)
    BY <2>1, <2>3, <1>1, Positions DEF Position
  <2>5. x \in Msgs /\ Bears(p, x)
    BY <2>1, <2>4, <1>1 DEF Ordered
  <2>6. Follows(w, x) /\ (HasLead => leads[1] = x)
    BY <2>5 DEF Bears
  <2>7. w \in Payload
    BY Wires, Places DEF Forwards
  <2>8. Landed = Word(x)
    <3> HIDE DEF w, x
    <3>1. CASE HasLead
      <4>1. Len(leads) = 1 /\ leads \in Seq(Msgs \union {Zero})
        BY <1>4, <3>1 DEF Halves, TypeBase
      <4>2. Head(leads) = x
        BY <4>1, <3>1, <2>6
      <4>3. Landed = [w EXCEPT !.lead = x]
        BY <3>1, <4>2 DEF Landed, w
      <4> QED BY <4>3, <2>6, <2>7 DEF Payload, Word, Follows
    <3>2. CASE ~HasLead
      <4>1. Landed = w
        BY <3>2 DEF Landed, w
      <4> QED BY <3>2, <4>1, <2>6, <2>7 DEF Payload, Word, Follows
    <3> QED BY <3>1, <3>2
  <2>9. Held = Append(buf, Word(x)) /\ Word(x) \in Payload
    BY <1>4, <2>5, <2>8 DEF Held, Word, Payload
  <2>10. Len(Held) = Len(buf) + 1 /\ Held \in Seq(Payload)
         /\ Held[Len(buf) + 1] = Word(x)
         /\ \A i \in 1..Len(buf) : Held[i] = buf[i]
    BY <2>9, <1>1
  <2>11. ASSUME NEW i \in 1..Len(Held) PROVE Held[i] = Word(inflight[i])
    <3>1. i \in 1..Len(buf) \/ i = Len(buf) + 1
      BY <1>1, <2>10
    <3> QED BY <3>1, <2>10 DEF Ordered
  <2> QED BY <1>1, <1>4, <2>4, <2>10, <2>11 DEF Bit
<1> QED BY <1>1, <1>3, <1>4

LEMMA LeadsAre ==
  ASSUME TypeBase, Halves
  PROVE  LeadsHeld = IF ForwardAt(Stages).valid /\ HasLead
                       THEN <<ForwardAt(Stages).payload.lead>> ELSE <<>>
<1> DEFINE left == IF landing /\ HasLead THEN Tail(leads) ELSE leads
           w == ForwardAt(Stages)
<1>1. left = <<>>
  <2>1. leads \in Seq(Msgs \union {Zero}) /\ Len(leads) = IF landing /\ HasLead THEN 1 ELSE 0
    BY DEF TypeBase, Halves
  <2>2. CASE landing /\ HasLead
    <3>1. Len(leads) = 1 /\ leads # <<>>
      BY <2>1, <2>2
    <3>2. /\ Tail(leads) \in Seq(Msgs \union {Zero})
          /\ Len(Tail(leads)) = Len(leads) - 1
      BY <2>1, <3>1, HeadTailProperties
    <3>3. Tail(leads) = <<>>
      <4>1. Tail(leads) # <<>> => Len(Tail(leads)) \in Nat \ {0}
        BY <3>2, EmptySeq
      <4> QED BY <3>1, <3>2, <4>1
    <3> QED BY <2>2, <3>3
  <2>3. CASE ~(landing /\ HasLead)
    BY <2>1, <2>3
  <2> QED BY <2>2, <2>3
<1>2. LeadsHeld = IF w.valid /\ HasLead THEN Append(left, w.payload.lead) ELSE left
  BY DEF LeadsHeld
<1>3. Append(<<>>, w.payload.lead) = <<w.payload.lead>>
  OBVIOUS
<1> QED BY <1>1, <1>2, <1>3

LEMMA RxTypes ==
  ASSUME TypeBase, Halves, Ordered, NEW stall \in BOOLEAN, RxCycle(stall)
  PROVE  TypeBase'
<1> USE DEF TypeBase, senderVars
<1>1. "rx" \in todo /\ todo' \subseteq {"tx", "rx"}
      /\ UNCHANGED <<txCur, txNxt, rxCur, pipe, credits, promised, draining>>
      /\ landing' = ForwardAt(Stages).valid /\ leads' = LeadsHeld
      /\ (Take(stall) \/ Leave(stall))
  BY DEF RxCycle
<1>2. ForwardAt(Stages) \in Forwards
  BY Wires, Places
<1>3. landing' \in BOOLEAN /\ leads' \in Seq(Msgs \union {Zero})
  <2>1. LeadsHeld \in Seq(Msgs \union {Zero})
    <3> DEFINE e == ForwardAt(Stages).payload.lead
    <3>1. e \in Msgs \union {Zero}
      BY <1>2 DEF Forwards, Payload
    <3> HIDE DEF e
    <3>2. <<e>> \in Seq(Msgs \union {Zero}) /\ <<>> \in Seq(Msgs \union {Zero})
      BY <3>1
    <3>3. LeadsHeld = <<e>> \/ LeadsHeld = <<>>
      BY LeadsAre DEF e
    <3> QED BY <3>2, <3>3
  <2> QED BY <1>1, <1>2, <2>1 DEF Forwards
<1>4. Held \in Seq(Payload) /\ Len(Held) <= Len(inflight)
  BY <1>1, HeldIs
<1>5. CASE Take(stall)
  <2>1. Held # <<>> /\ Len(Held) \in Nat \ {0} /\ inflight # <<>>
    BY <1>4, <1>5, EmptySeq DEF Take
  <2>2. Tail(Held) \in Seq(Payload) /\ Head(Held) \in Payload
        /\ Tail(inflight) \in Seq(Msgs)
    BY <1>4, <2>1, HeadTailProperties
  <2>3. rxNxt' \in Backwards
    BY <1>5 DEF Take, Backwards
  <2> QED BY <1>1, <1>3, <1>5, <2>2, <2>3 DEF Take
<1>6. CASE Leave(stall)
  <2>1. rxNxt' \in Backwards
    BY <1>6 DEF Leave, Backwards
  <2> QED BY <1>1, <1>3, <1>4, <1>6, <2>1 DEF Leave
<1> QED BY <1>1, <1>5, <1>6

LEMMA RxHalves ==
  ASSUME TypeBase, Halves, NEW stall \in BOOLEAN, RxCycle(stall)
  PROVE  Halves'
<1>1. /\ landing' = ForwardAt(Stages).valid /\ leads' = LeadsHeld
      /\ "rx" \notin todo' /\ ("tx" \in todo' <=> "tx" \in todo)
      /\ txNxt' = txNxt
  BY DEF RxCycle
<1>2. ForwardAt(Stages)' = ForwardAt(Stages)
  BY WiresHold, Places DEF RxCycle
<1>3. Len(leads') = IF landing' /\ HasLead THEN 1 ELSE 0
  BY <1>1, LeadsAre
<1>4. landing' /\ HasLead => leads'[1] = ForwardAt(Stages).payload.lead
  BY <1>1, LeadsAre
<1> QED BY <1>1, <1>2, <1>3, <1>4 DEF Halves

\* A place the receiver leaves alone carries what it carried.
LEMMA BearsOn ==
  ASSUME UNCHANGED <<txCur, txNxt, rxCur, pipe, promised>>,
         "tx" \in todo' <=> "tx" \in todo,
         NEW p \in Place, NEW x, Bears(p, x), p # Stages + 1
  PROVE  Bears(p, x)'
<1>1. \A k \in Node : ForwardAt(k)' = ForwardAt(k)
  BY WiresHold
<1>2. p \in Node => ForwardAt(p)' = ForwardAt(p)
  BY <1>1
<1>3. p \in Node \ {0} => ForwardAt(p - 1)' = ForwardAt(p - 1)
  BY <1>1, StagesAssumption DEF Node
<1>4. (p = -1 => promised' = Word(x) /\ (HasLead => txNxt'.payload.lead = x))
      /\ (p = 0 => IF "tx" \in todo' THEN promised' = Word(x)
                                     ELSE Follows(txNxt'.payload, x))
  BY DEF Bears
<1>5. (p \in Node => (HasLead => ForwardAt(p)'.payload.lead = x))
      /\ (p \in Node \ {0} => Follows(ForwardAt(p - 1)'.payload, x))
  BY <1>2, <1>3 DEF Bears
<1> QED BY <1>4, <1>5 DEF Bears, Node, Word, Follows

LEMMA RxOrder ==
  ASSUME TypeBase, Halves, Ordered, NEW stall \in BOOLEAN, RxCycle(stall)
  PROVE  Ordered'
<1>1. /\ "rx" \in todo /\ "rx" \notin todo'
      /\ UNCHANGED <<txCur, txNxt, rxCur, pipe, promised>>
      /\ ("tx" \in todo' <=> "tx" \in todo)
      /\ (Take(stall) \/ Leave(stall))
  BY DEF RxCycle, senderVars
<1>2. /\ inflight \in Seq(Msgs) /\ Len(inflight) \in Nat
      /\ Len(buf) \in Nat /\ landing \in BOOLEAN
  BY DEF TypeBase
<1>3. /\ Held \in Seq(Payload) /\ Len(Held) \in Nat
      /\ Len(Held) = Len(buf) + Bit(landing)
      /\ Len(Held) <= Len(inflight)
      /\ \A i \in 1..Len(Held) : Held[i] = Word(inflight[i])
  BY <1>1, HeldIs
<1>4. Bit(landing) \in Nat
  BY DEF Bit
<1>5. ASSUME NEW p \in Place
      PROVE  /\ Carries(p)' => Carries(p) /\ p # Stages + 1
             /\ Cardinality(Ahead(p)) \in Nat
             /\ Cardinality(Ahead(p)') = Cardinality(Ahead(p)) - Bit(landing)
             /\ Position(p) = Len(buf) + Cardinality(Ahead(p))
             /\ Position(p)' = Len(buf') + Cardinality(Ahead(p)')
             /\ Position(p) \in Nat
             /\ Carries(p)' => Position(p) \in (Len(Held) + 1)..Len(inflight)
  <2>1. Carries(p)' => Carries(p) /\ p # Stages + 1
    BY <1>1, RxAhead
  <2>2. Cardinality(Ahead(p)') = Cardinality(Ahead(p)) - Bit(landing)
    BY <1>1, RxAhead
  <2>3. landing /\ Carries(p)' => Cardinality(Ahead(p)) >= 2
    BY <1>1, <2>1, RxAhead
  <2>4. /\ Cardinality(Ahead(p)) \in Nat
        /\ Carries(p) => Cardinality(Ahead(p)) >= 1
    BY AheadIs
  <2>5. Position(p) = Len(buf) + Cardinality(Ahead(p))
        /\ Position(p)' = Len(buf') + Cardinality(Ahead(p)')
    BY DEF Position
  <2>6. Carries(p)' => Position(p) <= Len(inflight)
    BY <2>1, <1>2, Positions
  <2>7. Carries(p)' => Position(p) >= Len(Held) + 1
    BY <1>2, <1>3, <2>1, <2>3, <2>4, <2>5 DEF Bit
  <2> QED BY <1>2, <1>3, <2>1, <2>2, <2>4, <2>5, <2>6, <2>7
<1>6. Len(inflight) = Position(-1) /\ -1 \in Place
  BY Places DEF Ordered
<1>7. CASE Take(stall)
  <2>1. /\ Held # <<>> /\ buf' = Tail(Held) /\ inflight' = Tail(inflight)
    BY <1>7 DEF Take
  <2>2. Len(Held) \in Nat \ {0} /\ inflight # <<>>
    BY <1>3, <2>1, EmptySeq
  <2>3. /\ Len(buf') = Len(Held) - 1
        /\ \A i \in 1..(Len(Held) - 1) : buf'[i] = Held[i + 1]
    BY <1>3, <2>1, HeadTailProperties
  <2>4. /\ Len(inflight') = Len(inflight) - 1
        /\ \A i \in 1..(Len(inflight) - 1) : inflight'[i] = inflight[i + 1]
    BY <1>2, <2>1, <2>2, HeadTailProperties
  <2>5. \A p \in Place : Position(p)' = Position(p) - 1
    BY <1>2, <1>3, <1>4, <1>5, <2>3
  <2>6. ASSUME NEW i \in 1..Len(buf') PROVE buf'[i] = Word(inflight'[i])
    <3>1. i \in 1..(Len(Held) - 1) /\ i \in 1..(Len(inflight) - 1)
          /\ i + 1 \in 1..Len(Held)
      BY <1>2, <1>3, <2>2, <2>3
    <3> QED BY <3>1, <1>3, <2>3, <2>4
  <2>7. ASSUME NEW p \in Place, NEW x \in Msgs, Carries(p)', inflight'[Position(p)'] = x
        PROVE  Bears(p, x)'
    <3>1. Carries(p) /\ p # Stages + 1
      BY <1>5, <2>7
    <3>2. Position(p)' \in 1..(Len(inflight) - 1) /\ Position(p)' + 1 = Position(p)
      BY <1>2, <1>3, <1>5, <2>2, <2>5, <2>7
    <3>3. inflight[Position(p)] = x
      BY <2>4, <2>7, <3>2
    <3>4. Bears(p, x)
      BY <3>1, <3>3 DEF Ordered
    <3> QED BY <1>1, <3>1, <3>4, BearsOn
  <2>8. Len(inflight') = Position(-1)'
    BY <1>6, <2>4, <2>5
  <2>9. \A i \in 1..Len(buf') : buf'[i] = Word(inflight'[i])
    BY <2>6
  <2> QED BY <2>7, <2>8, <2>9 DEF Ordered, Word, Place
<1>8. CASE Leave(stall)
  <2>1. buf' = Held /\ inflight' = inflight
    BY <1>8 DEF Leave
  <2>2. \A p \in Place : Position(p)' = Position(p)
    BY <1>2, <1>3, <1>4, <1>5, <2>1
  <2>3. ASSUME NEW p \in Place, NEW x \in Msgs, Carries(p)', inflight'[Position(p)'] = x
        PROVE  Bears(p, x)'
    <3>1. Carries(p) /\ p # Stages + 1
      BY <1>5, <2>3
    <3>2. inflight[Position(p)] = x
      BY <2>1, <2>2, <2>3
    <3>3. Bears(p, x)
      BY <3>1, <3>2 DEF Ordered
    <3> QED BY <1>1, <3>1, <3>3, BearsOn
  <2>4. Len(inflight') = Position(-1)'
    BY <1>6, <2>1, <2>2
  <2>5. \A i \in 1..Len(buf') : buf'[i] = Word(inflight'[i])
    BY <1>3, <2>1
  <2> QED BY <2>3, <2>4, <2>5 DEF Ordered, Word, Place
<1> QED BY <1>1, <1>7, <1>8

LEMMA RxStep ==
  ASSUME SlotIInv, NEW stall \in BOOLEAN, RxCycle(stall)
  PROVE  SlotIInv'
<1>0. TypeBase /\ Halves /\ Ordered /\ Conserved
  BY DEF SlotIInv
<1>1. TypeBase' /\ Halves' /\ Ordered'
  BY <1>0, RxTypes, RxHalves, RxOrder
<1>2. Conserved'
  <2>1. /\ UNCHANGED <<txCur, rxCur, pipe, credits>> /\ "rx" \in todo
        /\ ("tx" \in todo' <=> "tx" \in todo)
        /\ (Take(stall) \/ Leave(stall))
    BY DEF RxCycle, senderVars
  <2>2. ~rxNxt.credit
    BY <1>0, <2>1 DEF Halves
  <2>3. Owed' = Owed + Bit(rxNxt'.credit)
    BY <1>0, <2>1, <2>2, RxOwed
  <2>4. credits \in Nat /\ Owed \in Nat /\ inflight \in Seq(Msgs) /\ Len(inflight) \in Nat
        /\ credits + Owed + Len(inflight) = Depth
    BY <1>0, OwedIs DEF TypeBase, Conserved
  <2>5. CASE Take(stall)
    <3>1. Held \in Seq(Payload) /\ Len(Held) <= Len(inflight) /\ Held # <<>>
      BY <1>0, <2>1, <2>5, HeldIs DEF Take
    <3>2. inflight # <<>>
      BY <2>4, <3>1, EmptySeq
    <3>3. Len(inflight') = Len(inflight) - 1
      BY <2>4, <2>5, <3>2, HeadTailProperties DEF Take
    <3>4. Owed' = Owed + 1
      BY <2>3, <2>5 DEF Take, Bit
    <3>5. credits + (Owed + 1) + (Len(inflight) - 1) = Depth
      BY <2>4
    <3> QED BY <2>1, <3>3, <3>4, <3>5, Zenon DEF Conserved
  <2>6. CASE Leave(stall)
    <3>1. Owed' = Owed + 0
      BY <2>3, <2>6 DEF Leave, Bit
    <3>2. Owed' = Owed /\ inflight' = inflight /\ credits' = credits
      BY <2>1, <2>4, <2>6, <3>1 DEF Leave
    <3> QED BY <2>4, <3>2, Zenon DEF Conserved
  <2> QED BY <2>1, <2>5, <2>6
<1> QED BY <1>0, <1>1, <1>2 DEF SlotIInv

-----------------------------------------------------------------------------
(* The edge.                                                               *)

LEMMA EdgeTypes ==
  ASSUME TypeBase, Edge
  PROVE  TypeBase'
<1>1. /\ todo' = {"tx", "rx"} /\ txCur' = txNxt /\ rxCur' = rxNxt
      /\ txNxt' = [txNxt EXCEPT !.valid = FALSE] /\ rxNxt' = Quiet
      /\ UNCHANGED <<credits, promised, buf, leads, landing, draining, inflight, taken>>
  BY DEF Edge, senderVars, receiverVars
<1>2. txNxt' \in Forwards /\ rxNxt' \in Backwards
  BY <1>1 DEF TypeBase, Forwards, Quiet, Backwards
<1>3. pipe' \in [1..Stages -> StageState]
  <2> DEFINE S(k) == [valid |-> ForwardAt(k-1).valid, credit |-> BackwardAt(k).credit,
                      stall |-> BackwardAt(k).stall,
                      pay |-> IF pipe[k].valid THEN ForwardAt(k-1).payload ELSE pipe[k].pay,
                      lead |-> IF HasLead /\ ForwardAt(k-1).valid
                                 THEN ForwardAt(k-1).payload.lead ELSE pipe[k].lead]
  <2>1. pipe' = [k \in 1..Stages |-> S(k)]
    BY DEF Edge
  <2>2. ASSUME NEW k \in 1..Stages PROVE S(k) \in StageState
    <3>1. k \in Node /\ k - 1 \in Node
      BY StagesAssumption DEF Node
    <3> DEFINE f == ForwardAt(k-1)
               b == BackwardAt(k)
    <3>2. f \in Forwards /\ b \in Backwards /\ pipe[k] \in StageState
      BY <3>1, Wires DEF TypeBase
    <3>3. /\ f.valid \in BOOLEAN /\ b.credit \in BOOLEAN /\ b.stall \in BOOLEAN
          /\ (IF pipe[k].valid THEN f.payload ELSE pipe[k].pay) \in Payload
          /\ (IF HasLead /\ f.valid THEN f.payload.lead ELSE pipe[k].lead)
               \in Msgs \union {Zero}
      <4> HIDE DEF f, b
      <4>1. f.payload \in Payload /\ f.payload.lead \in Msgs \union {Zero}
            /\ pipe[k].pay \in Payload /\ pipe[k].lead \in Msgs \union {Zero}
        BY <3>2 DEF Forwards, Payload, StageState
      <4>2. f.valid \in BOOLEAN /\ b.credit \in BOOLEAN /\ b.stall \in BOOLEAN
        BY <3>2 DEF Forwards, Backwards
      <4> QED BY <4>1, <4>2
    <3> QED BY <3>3 DEF StageState
  <2> HIDE DEF S
  <2> QED BY <2>1, <2>2
<1> QED BY <1>1, <1>2, <1>3 DEF TypeBase

\* The rest of the message of wire k is on wire k after the edge.
LEMMA RestMoves ==
  ASSUME TypeBase, Edge, NEW k \in Node, NEW x, Carries(k), Bears(k, x)
  PROVE  Follows(ForwardAt(k)'.payload, x)
<1>1. ForwardAt(k).valid
  BY Places DEF Carries
<1>2. CASE k = 0
  <2>1. "tx" \notin todo
    BY DEF Edge
  <2>2. Follows(txNxt.payload, x)
    BY <1>2, <2>1 DEF Bears
  <2> QED BY <1>2, <2>2, WiresMove
<1>3. CASE k # 0
  <2>1. Follows(ForwardAt(k - 1).payload, x)
    BY <1>3 DEF Bears
  <2>2. /\ ForwardAt(k)'.payload.rest = ForwardAt(k-1).payload.rest
        /\ ~HasLead => ForwardAt(k)'.payload.lead = ForwardAt(k-1).payload.lead
    BY <1>1, <1>3, WiresMove
  <2> QED BY <2>1, <2>2 DEF Follows
<1> QED BY <1>2, <1>3

LEMMA EdgeOrder ==
  ASSUME TypeBase, Halves, Ordered, Edge
  PROVE  Ordered'
<1>1. /\ todo = {} /\ todo' = {"tx", "rx"}
      /\ UNCHANGED <<promised, buf, leads, landing, inflight>>
  BY DEF Edge, senderVars, receiverVars
<1>2. /\ Position(-1)' = Position(-1)
      /\ \A p \in Place \ {-1} : /\ p - 1 \in Place /\ (Carries(p)' => Carries(p - 1))
                                 /\ Position(p)' = Position(p - 1)
      /\ ~Carries(-1)'
  BY <1>1, EdgeAhead DEF Position
<1>3. ASSUME NEW p \in Place, NEW x \in Msgs, Carries(p)', inflight'[Position(p)'] = x
      PROVE  Bears(p, x)'
  <2>1. p # -1 /\ p - 1 \in Place /\ Carries(p - 1) /\ p \in Int
    BY <1>2, <1>3, Places
  <2>2. Bears(p - 1, x)
    BY <1>1, <1>2, <1>3, <2>1 DEF Ordered
  <2>3. CASE p = 0
    <3>1. promised' = Word(x) /\ (HasLead => txNxt.payload.lead = x)
      BY <1>1, <2>2, <2>3, Places DEF Bears
    <3>2. HasLead => ForwardAt(0)'.payload.lead = x
      BY <3>1, WiresMove
    <3> QED BY <1>1, <2>3, <3>1, <3>2, Places DEF Bears, Node, Word
  <2>4. CASE p \in Node \ {0}
    <3>1. p - 1 \in Node
      BY <2>4, StagesAssumption DEF Node
    <3>2. Follows(ForwardAt(p - 1)'.payload, x)
      BY <2>1, <2>2, <3>1, RestMoves
    <3>3. ForwardAt(p - 1).valid /\ (HasLead => ForwardAt(p - 1).payload.lead = x)
      BY <2>1, <2>2, <3>1, Places DEF Carries, Bears
    <3>4. HasLead => ForwardAt(p)'.payload.lead = x
      BY <2>4, <3>3, WiresMove
    <3> QED BY <2>4, <3>2, <3>4, Places DEF Bears, Node, Follows
  <2>5. CASE p = Stages + 1
    <3>1. p - 1 = Stages /\ Stages \in Node
      BY <2>5, Places, StagesAssumption
    <3>2. Follows(ForwardAt(Stages)'.payload, x)
      BY <2>1, <2>2, <3>1, RestMoves
    <3>3. ForwardAt(Stages).valid /\ (HasLead => ForwardAt(Stages).payload.lead = x)
      BY <2>1, <2>2, <3>1, Places DEF Carries, Bears
    <3>4. HasLead => leads'[1] = x
      BY <1>1, <3>3 DEF Halves
    <3> QED BY <2>5, <3>2, <3>4, Places DEF Bears, Node, Follows
  <2> QED BY <2>1, <2>3, <2>4, <2>5, Places
<1>4. Len(inflight') = Position(-1)' /\ \A i \in 1..Len(buf') : buf'[i] = Word(inflight'[i])
  BY <1>1, <1>2 DEF Ordered
<1> QED BY <1>3, <1>4 DEF Ordered, Word, Place

LEMMA EdgeStep == ASSUME SlotIInv, Edge PROVE SlotIInv'
<1>0. TypeBase /\ Halves /\ Ordered /\ Conserved
  BY DEF SlotIInv
<1>1. TypeBase' /\ Ordered'
  BY <1>0, EdgeTypes, EdgeOrder
<1>2. Halves'
  <2>1. /\ todo = {} /\ todo' = {"tx", "rx"} /\ leads' = leads /\ landing' = landing
        /\ txNxt' = [txNxt EXCEPT !.valid = FALSE] /\ rxNxt' = Quiet
    BY DEF Edge, receiverVars
  <2>2. ~txNxt'.valid
    BY <1>0, <2>1 DEF TypeBase, Forwards
  <2>3. ~rxNxt'.credit
    BY <2>1 DEF Quiet
  <2> QED BY <1>0, <2>1, <2>2, <2>3 DEF Halves
<1>3. Conserved'
  <2>1. Owed' = Owed /\ credits' = credits /\ inflight' = inflight
    BY <1>0, EdgeOwed DEF Edge, senderVars
  <2> QED BY <1>0, <2>1, Zenon DEF Conserved
<1> QED BY <1>1, <1>2, <1>3 DEF SlotIInv

-----------------------------------------------------------------------------

\* A step that leaves the slot alone.
LEMMA RestStep ==
  ASSUME SlotIInv, draining' \in BOOLEAN,
         UNCHANGED <<endVars, pipe, todo, senderVars, receiverVars, inflight, taken>>
  PROVE  SlotIInv' /\ Owed' = Owed
<1> USE DEF endVars, senderVars, receiverVars
<1>1. TypeBase'
  BY DEF SlotIInv, TypeBase
<1>2. /\ \A k \in Node : ForwardAt(k)' = ForwardAt(k)
      /\ \A k \in Node : BackwardAt(k)' = BackwardAt(k)
  BY WiresHold
<1>3. Halves'
  <2>1. ForwardAt(Stages)' = ForwardAt(Stages)
    BY <1>2, Places
  <2> QED BY <2>1 DEF SlotIInv, Halves
<1>4. Owed' = Owed
  <2>1. OnWire' = OnWire
    BY <1>2 DEF OnWire
  <2>2. Owed' = (IF "tx" \in todo' THEN Cardinality(OnWire') ELSE Cardinality(OnWire' \ {0}))
              + Bit(rxNxt'.credit)
    BY DEF Owed, OnWire, Node, Bit
  <2> QED BY <2>1, <2>2, OwedIs
<1>5. Ordered'
  <2>1. \A p \in Place : Carries(p)' <=> Carries(p)
    BY <1>2 DEF Carries, Node
  <2>2. \A p \in Place : Ahead(p)' = Ahead(p)
    BY <2>1 DEF Ahead, Place
  <2>3. \A p \in Place : Position(p)' = Position(p)
    BY <2>2 DEF Position
  <2>4. ASSUME NEW p \in Place, NEW x, Bears(p, x) PROVE Bears(p, x)'
    <3>1. CASE p # Stages + 1
      BY <2>4, <3>1, BearsOn
    <3>2. CASE p = Stages + 1
      <4>1. ForwardAt(Stages)' = ForwardAt(Stages)
        BY <1>2, Places
      <4> QED BY <2>4, <3>2, <4>1, Places DEF Bears, Node, Follows
    <3> QED BY <3>1, <3>2
  <2>5. Ordered
    BY DEF SlotIInv
  <2>6. Len(inflight') = Position(-1)' /\ \A i \in 1..Len(buf') : buf'[i] = Word(inflight'[i])
    BY <2>3, <2>5, Places DEF Ordered
  <2>7. ASSUME NEW p \in Place, NEW x \in Msgs, Carries(p)', inflight'[Position(p)'] = x
        PROVE  Bears(p, x)'
    <3>1. Carries(p) /\ inflight[Position(p)] = x
      BY <2>1, <2>3, <2>7
    <3> QED BY <2>4, <2>5, <3>1 DEF Ordered
  <2> QED BY <2>6, <2>7 DEF Ordered, Word, Place
<1>6. Conserved'
  BY <1>4, Zenon DEF SlotIInv, Conserved
<1> QED BY <1>1, <1>3, <1>4, <1>5, <1>6 DEF SlotIInv

LEMMA InitWires ==
  ASSUME Init, NEW k \in Node
  PROVE  ForwardAt(k) = Idle /\ BackwardAt(k) = Quiet
<1>1. k # 0 => k \in 1..Stages
  BY StagesAssumption DEF Node
<1>2. k # Stages => k + 1 \in 1..Stages
  BY StagesAssumption DEF Node
<1>3. ASSUME NEW j \in 1..Stages
      PROVE  pipe[j] = [valid |-> FALSE, pay |-> Word(Zero), lead |-> Zero,
                        credit |-> FALSE, stall |-> FALSE]
  BY DEF Init
<1>4. ForwardAt(k) = Idle
  <2>1. CASE k = 0
    BY <2>1 DEF Init, ForwardAt
  <2>2. CASE k # 0
    <3>1. /\ pipe[k].valid = FALSE /\ pipe[k].pay = Word(Zero) /\ pipe[k].lead = Zero
      BY <1>1, <1>3, <2>2
    <3>2. [Word(Zero) EXCEPT !.lead = Zero] = Word(Zero)
      BY DEF Word
    <3> QED BY <2>2, <3>1, <3>2 DEF ForwardAt, Idle
  <2> QED BY <2>1, <2>2
<1>5. BackwardAt(k) = Quiet
  <2>1. CASE k = Stages
    BY <2>1 DEF Init, BackwardAt
  <2>2. CASE k # Stages
    <3>1. pipe[k+1].credit = FALSE /\ pipe[k+1].stall = FALSE
      BY <1>2, <1>3, <2>2
    <3> QED BY <2>2, <3>1 DEF BackwardAt, Quiet
  <2> QED BY <2>1, <2>2
<1> QED BY <1>4, <1>5

LEMMA InitOwed == ASSUME Init PROVE Owed = 0
<1>1. OnWire = {}
  BY InitWires DEF OnWire, Quiet
<1>2. rxNxt.credit = FALSE /\ "tx" \in todo
  BY DEF Init, Quiet
<1> QED BY <1>1, <1>2, OwedIs, FS_EmptySet DEF Bit

LEMMA SlotInit == Init => SlotIInv
<1> SUFFICES ASSUME Init PROVE SlotIInv
  OBVIOUS
<1>1. TypeBase
  <2>1. Word(Zero) \in Payload
    BY DEF Word, Payload
  <2>2. Idle \in Forwards /\ Quiet \in Backwards
    BY <2>1 DEF Idle, Forwards, Quiet, Backwards
  <2>3. pipe \in [1..Stages -> StageState]
    BY <2>1 DEF Init, StageState
  <2>4. credits \in Nat
    BY DepthAssumption DEF Init
  <2>5. buf \in Seq(Payload) /\ leads \in Seq(Msgs \union {Zero}) /\ inflight \in Seq(Msgs)
    BY DEF Init
  <2> QED BY <2>1, <2>2, <2>3, <2>4, <2>5 DEF Init, TypeBase
<1>2. Halves
  BY DEF Init, Halves, Idle, Quiet
<1>3. \A p \in Place : ~Carries(p)
  <2>1. \A k \in Node : ~ForwardAt(k).valid
    BY InitWires DEF Idle
  <2>2. ~txNxt.valid /\ ~landing
    BY DEF Init, Idle
  <2> QED BY <2>1, <2>2 DEF Carries
<1>4. Ordered
  <2>1. Ahead(-1) = {}
    BY <1>3 DEF Ahead
  <2>2. Position(-1) = 0
    BY <2>1, FS_EmptySet DEF Init, Position
  <2> QED BY <1>3, <2>2 DEF Init, Ordered
<1>5. Conserved
  <2>1. credits = Depth /\ Owed = 0 /\ Len(inflight) = 0
    BY InitOwed DEF Init
  <2> QED BY <2>1, DepthAssumption DEF Conserved
<1> QED BY <1>1, <1>2, <1>4, <1>5 DEF SlotIInv

LEMMA SlotStep == SlotIInv /\ [Next]_vars => SlotIInv'
<1> SUFFICES ASSUME SlotIInv, [Next]_vars PROVE SlotIInv'
  OBVIOUS
<1>1. ASSUME NEW m \in Msgs, Send(m) PROVE SlotIInv'
  BY <1>1, TxStep DEF Send
<1>2. CASE SkipSend
  BY <1>2, TxStep DEF SkipSend
<1>3. CASE Receive
  BY <1>3, RxStep DEF Receive
<1>4. CASE Edge
  BY <1>4, EdgeStep
<1>5. CASE StartDrain
  BY <1>5, RestStep DEF StartDrain
<1>6. CASE UNCHANGED vars
  <2>1. draining \in BOOLEAN
    BY DEF SlotIInv, TypeBase
  <2> QED BY <1>6, <2>1, RestStep DEF vars
<1> QED BY <1>1, <1>2, <1>3, <1>4, <1>5, <1>6 DEF Next, Cycle

\* The bounds that the conservation gives.
LEMMA SlotTypes == SlotIInv => TypeOK
<1> SUFFICES ASSUME SlotIInv PROVE TypeOK
  OBVIOUS
<1>1. TypeBase /\ Halves /\ Ordered /\ Conserved
  BY DEF SlotIInv
<1>2. /\ credits \in Nat /\ Owed \in Nat /\ Len(inflight) \in Nat /\ Len(buf) \in Nat
      /\ Cardinality(Ahead(-1)) \in Nat
  BY <1>1, OwedIs, AheadIs, Places DEF TypeBase
<1>3. credits \in 0..Depth /\ Len(inflight) <= Depth
  BY <1>1, <1>2, DepthAssumption DEF Conserved
<1>4. Len(buf) <= Depth
  BY <1>1, <1>2, <1>3, DepthAssumption DEF Ordered, Position
<1>5. Len(leads) <= 2
  BY <1>1 DEF Halves
<1> QED BY <1>1, <1>3, <1>4, <1>5 DEF TypeOK, TypeBase

-----------------------------------------------------------------------------
(* Each half and each edge is a step of CreditFlow, or none.               *)

LEMMA TxFlows ==
  ASSUME SlotIInv, NEW launch \in BOOLEAN, NEW m, launch => m \in Msgs,
         TxCycle(launch, m)
  PROVE  Flow!FlowNext
<1> DEFINE go == launch /\ CanSend
           refund == BackwardAt(0).credit
           ms == IF go THEN <<m>> ELSE <<>>
<1>0. TypeBase
  BY DEF SlotIInv
<1>1. go \in BOOLEAN /\ refund \in BOOLEAN /\ (go => credits # 0)
  BY <1>0, Wires, Places DEF CanSend, Backwards
<1>2. /\ credits' = CASE go /\ ~refund -> credits - 1
                      [] ~go /\ refund -> credits + 1
                      [] OTHER -> credits
      /\ inflight' = IF go THEN Append(inflight, m) ELSE inflight
      /\ taken' = taken
  BY DEF TxCycle
<1>3. credits \in Nat /\ Owed \in Nat /\ inflight \in Seq(Msgs)
  BY <1>0, OwedIs DEF TypeBase
<1>4. Owed' = Owed - Bit(refund) /\ Bit(refund) <= Owed
  <2>1. Owed' = Owed - Bit(refund) /\ (refund => Owed >= 1)
    BY <1>0, TxOwed
  <2> HIDE DEF refund
  <2> QED BY <1>1, <1>3, <2>1 DEF Bit
<1>5. ms \in {<<>>} \union {<<x>> : x \in Msgs}
  OBVIOUS
<1>6. Len(ms) = Bit(go) /\ inflight' = inflight \o ms
  <2>1. CASE go
    <3>1. inflight \o <<m>> = Append(inflight, m)
      BY <1>3, <2>1, AppendIsConcat
    <3> QED BY <1>2, <2>1, <3>1 DEF Bit
  <2>2. CASE ~go
    <3>1. inflight \o <<>> = inflight
      BY <1>3, ConcatEmptySeq
    <3> QED BY <1>2, <2>2, <3>1 DEF Bit
  <2> QED BY <2>1, <2>2
<1> HIDE DEF go, refund, ms
<1>7. Len(ms) <= credits /\ credits' = credits - Len(ms) + Bit(refund)
  BY <1>1, <1>2, <1>3, <1>6 DEF Bit
<1>8. Taken' = Taken
  BY <1>2 DEF Taken
<1>9. Bit(refund) \in {0, 1}
  BY DEF Bit
<1>10. Flow!Send(ms)
  BY <1>4, <1>6, <1>7, <1>8, <1>9 DEF Flow!Send
<1> QED BY <1>5, <1>10 DEF Flow!FlowNext

LEMMA RxFlows ==
  ASSUME SlotIInv, NEW stall \in BOOLEAN, RxCycle(stall)
  PROVE  [Flow!FlowNext]_(Flow!flowVars)
<1>0. TypeBase /\ Halves /\ Ordered
  BY DEF SlotIInv
<1>1. /\ UNCHANGED <<txCur, rxCur, pipe, credits>> /\ "rx" \in todo
      /\ ("tx" \in todo' <=> "tx" \in todo)
      /\ (Take(stall) \/ Leave(stall))
  BY DEF RxCycle, senderVars
<1>2. Owed' = Owed + Bit(rxNxt'.credit) /\ Owed \in Nat
  BY <1>0, <1>1, RxOwed, OwedIs DEF Halves
<1>3. CASE Take(stall)
  <2>1. Held \in Seq(Payload) /\ Len(Held) <= Len(inflight) /\ Held # <<>>
        /\ \A i \in 1..Len(Held) : Held[i] = Word(inflight[i])
    BY <1>0, <1>1, <1>3, HeldIs DEF Take
  <2>2. Len(Held) \in Nat \ {0} /\ inflight \in Seq(Msgs) /\ inflight # <<>>
    BY <1>0, <2>1, EmptySeq DEF TypeBase
  <2>3. Head(Held) = Word(Head(inflight))
    <3>1. Head(Held) = Held[1] /\ Head(inflight) = inflight[1] /\ 1 \in 1..Len(Held)
      BY <2>1, <2>2
    <3> QED BY <2>1, <3>1
  <2>4. Taken' = Head(inflight)
    <3>1. taken' = Word(Head(inflight))
      BY <1>3, <2>3 DEF Take
    <3>2. taken'.lead = Head(inflight) /\ taken'.rest = Head(inflight)
      BY <3>1 DEF Word
    <3> QED BY <3>2 DEF Taken
  <2>5. Owed' = Owed + 1
    BY <1>2, <1>3 DEF Take, Bit
  <2>6. Flow!Consume
    BY <1>1, <1>3, <2>2, <2>4, <2>5 DEF Take, Flow!Consume
  <2> QED BY <2>6 DEF Flow!FlowNext
<1>4. CASE Leave(stall)
  <2>1. Owed' = Owed
    BY <1>2, <1>4 DEF Leave, Bit
  <2>2. Taken' = Taken
    BY <1>4 DEF Leave, Taken
  <2> QED BY <1>1, <1>4, <2>1, <2>2 DEF Leave, Flow!flowVars
<1> QED BY <1>1, <1>3, <1>4

LEMMA FlowStep == SlotIInv /\ [Next]_vars => [Flow!FlowNext]_(Flow!flowVars)
<1> SUFFICES ASSUME SlotIInv, [Next]_vars PROVE [Flow!FlowNext]_(Flow!flowVars)
  OBVIOUS
<1>0. TypeBase
  BY DEF SlotIInv
<1>1. ASSUME NEW m \in Msgs, Send(m) PROVE Flow!FlowNext
  BY <1>1, TxFlows DEF Send
<1>2. CASE SkipSend
  BY <1>2, TxFlows DEF SkipSend
<1>3. CASE Receive
  BY <1>3, RxFlows DEF Receive
<1>4. CASE Edge
  <2>1. Owed' = Owed
    BY <1>0, <1>4, EdgeOwed
  <2>2. credits' = credits /\ inflight' = inflight /\ Taken' = Taken
    BY <1>4 DEF Edge, senderVars, Taken
  <2> QED BY <2>1, <2>2 DEF Flow!flowVars
<1>5. CASE StartDrain
  <2>1. Owed' = Owed
    BY <1>5, RestStep DEF StartDrain
  <2>2. credits' = credits /\ inflight' = inflight /\ Taken' = Taken
    BY <1>5 DEF StartDrain, senderVars, Taken
  <2> QED BY <2>1, <2>2 DEF Flow!flowVars
<1>6. CASE UNCHANGED vars
  <2>1. draining' \in BOOLEAN
    BY <1>0, <1>6 DEF vars, TypeBase
  <2>2. Owed' = Owed
    BY <1>6, <2>1, RestStep DEF vars
  <2>3. credits' = credits /\ inflight' = inflight /\ Taken' = Taken
    BY <1>6 DEF vars, senderVars, Taken
  <2> QED BY <2>2, <2>3 DEF Flow!flowVars
<1> QED BY <1>1, <1>2, <1>3, <1>4, <1>5, <1>6 DEF Next, Cycle

LEMMA FlowStart == Init => Flow!FlowInit
<1> SUFFICES ASSUME Init PROVE Flow!FlowInit
  OBVIOUS
<1>1. Owed = 0
  BY InitOwed
<1>2. Taken = Zero
  BY DEF Init, Word, Taken
<1> QED BY <1>1, <1>2 DEF Init, Flow!FlowInit

(***************************************************************************)
(* ImplementsFlow: in whatever order Machine::step runs the blocks, and    *)
(* however long the link, what Receiver::pop takes is the oldest message   *)
(* that Sender::cycle launched, both slices of it, and launches, pops and  *)
(* credits account for each other; no buffer of either end passes its      *)
(* size.                                                                   *)
(***************************************************************************)
THEOREM SlotImplemented == Spec => ImplementsFlow
<1>1. SlotIInv => TypeOK
  BY SlotTypes
<1> QED BY <1>1, SlotInit, SlotStep, FlowStart, FlowStep, PTL
        DEF Spec, ImplementsFlow, Flow!FlowSpec
=============================================================================
