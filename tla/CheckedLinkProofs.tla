------------------------- MODULE CheckedLinkProofs -------------------------
(***************************************************************************)
(* Theorems about a credited link and the two checkers on it, for every    *)
(* number of repeater stages, every depth and either form of the boundary. *)
(* The repository proves them by k-induction for zero, one and two stages. *)
(*                                                                         *)
(* The argument of the conservation: a pipeline of flags loses the flag    *)
(* that leaves and gains the one that enters, so the number of raised      *)
(* flags changes by exactly those two.  That is the only fact about        *)
(* Cardinality that is needed (ShiftUp, ShiftDown); the rest is arithmetic *)
(* on the pools.                                                           *)
(*                                                                         *)
(* The argument of the timing: what has been true at the receiver for n    *)
(* cycles is true at every node less than n stages from it.  Every part of *)
(* the invariant says that of one signal: the stall, the silence a stall   *)
(* causes, the absence of a stall, the credits of a backlog.               *)
(***************************************************************************)
EXTENDS CheckedLink, FunctionTheorems, FiniteSetTheorems, TLAPS

----------------------------------------------------------------------------
(* The link alone.                                                         *)

\* The set of raised flags moved by d places has as many elements.
LEMMA Translate ==
    ASSUME NEW S \in SUBSET Int, IsFiniteSet(S), NEW d \in Int,
           NEW T, T = {x + d : x \in S}
    PROVE  /\ IsFiniteSet(T)
           /\ Cardinality(T) = Cardinality(S)
<1> DEFINE F == [x \in S |-> x + d]
<1>1. F \in Injection(S, T)
  BY DEF Injection, IsInjective
<1>2. F \in Surjection(S, T)
  BY DEF Surjection
<1>3. ExistsBijection(S, T)
  BY <1>1, <1>2 DEF ExistsBijection, Bijection
<1> QED BY <1>3, FS_Bijection

\* The raised flags of a pipeline are a finite set.
LEMMA HighFinite ==
    ASSUME NEW f \in [Node -> BOOLEAN]
    PROVE  /\ IsFiniteSet(High(f))
           /\ Cardinality(High(f)) \in Nat
<1>1. IsFiniteSet(Node)
  BY NAssumption, FS_Interval DEF Node
<1>2. High(f) \in SUBSET Node
  BY DEF High
<1> QED BY <1>1, <1>2, FS_Subset, FS_CardinalityType

\* A pipeline of flags shifted away from node 0, which takes in b: it loses
\* the flag of node N.
LEMMA ShiftUp ==
    ASSUME NEW f \in [Node -> BOOLEAN], NEW g \in [Node -> BOOLEAN],
           NEW b \in BOOLEAN,
           g[0] = b, \A k \in Node \ {0} : g[k] = f[k-1]
    PROVE  Cardinality(High(g)) = Cardinality(High(f)) - Bit(f[N]) + Bit(b)
<1> DEFINE A == High(f) \ {N}
           B == {x + 1 : x \in A}
<1>1. /\ IsFiniteSet(High(f)) /\ Cardinality(High(f)) \in Nat
      /\ IsFiniteSet(A)
      /\ Cardinality(A) = Cardinality(High(f)) - Bit(f[N])
      /\ Cardinality(A) \in Int
  <2>1. N \in High(f) <=> f[N]
    BY NAssumption DEF High, Node
  <2> QED BY <2>1, HighFinite, FS_RemoveElement DEF Bit
<1>2. /\ IsFiniteSet(B)
      /\ Cardinality(B) = Cardinality(A)
  <2>1. A \in SUBSET Int
    BY NAssumption DEF High, Node
  <2>2. 1 \in Int /\ B = {x + 1 : x \in A} /\ IsFiniteSet(A)
    BY <1>1
  <2> HIDE DEF A, B
  <2> QED BY <2>1, <2>2, Translate, ZenonT(60)
<1>3. High(g) = IF b THEN B \cup {0} ELSE B
  <2>1. ASSUME NEW k \in Node \ {0} PROVE k \in High(g) <=> k \in B
    <3>1. k \in Int /\ k - 1 \in Node /\ k - 1 # N
      BY <2>1, NAssumption DEF Node
    <3>2. k \in B <=> k - 1 \in A
      BY <3>1, NAssumption DEF High, Node
    <3> QED BY <2>1, <3>1, <3>2 DEF High
  <2>2. 0 \notin B /\ B \subseteq Node \ {0}
    BY NAssumption DEF High, Node
  <2>3. 0 \in High(g) <=> b
    BY NAssumption DEF High, Node
  <2> QED BY <2>1, <2>2, <2>3 DEF High
<1>4. 0 \notin B
  BY NAssumption DEF High, Node
<1>5. Cardinality(B \cup {0}) = Cardinality(B) + 1
  BY <1>2, <1>4, FS_AddElement
<1> QED BY <1>1, <1>2, <1>3, <1>5 DEF Bit

\* The same towards node 0: it loses the flag of node 0 and takes in b at N.
LEMMA ShiftDown ==
    ASSUME NEW f \in [Node -> BOOLEAN], NEW g \in [Node -> BOOLEAN],
           NEW b \in BOOLEAN,
           g[N] = b, \A k \in Node \ {N} : g[k] = f[k+1]
    PROVE  Cardinality(High(g)) = Cardinality(High(f)) - Bit(f[0]) + Bit(b)
<1> DEFINE A == High(f) \ {0}
           B == {x + (-1) : x \in A}
<1>1. /\ IsFiniteSet(High(f)) /\ Cardinality(High(f)) \in Nat
      /\ IsFiniteSet(A)
      /\ Cardinality(A) = Cardinality(High(f)) - Bit(f[0])
      /\ Cardinality(A) \in Int
  <2>1. 0 \in High(f) <=> f[0]
    BY NAssumption DEF High, Node
  <2> QED BY <2>1, HighFinite, FS_RemoveElement DEF Bit
<1>2. /\ IsFiniteSet(B)
      /\ Cardinality(B) = Cardinality(A)
  <2>1. A \in SUBSET Int
    BY NAssumption DEF High, Node
  <2>2. -1 \in Int /\ B = {x + (-1) : x \in A} /\ IsFiniteSet(A)
    BY <1>1
  <2> HIDE DEF A, B
  <2> QED BY <2>1, <2>2, Translate, ZenonT(60)
<1>3. High(g) = IF b THEN B \cup {N} ELSE B
  <2>1. ASSUME NEW k \in Node \ {N} PROVE k \in High(g) <=> k \in B
    <3>1. k \in Int /\ k + 1 \in Node /\ k + 1 # 0
      BY <2>1, NAssumption DEF Node
    <3>2. k \in B <=> k + 1 \in A
      BY <3>1, NAssumption DEF High, Node
    <3> QED BY <2>1, <3>1, <3>2 DEF High
  <2>2. N \notin B /\ B \subseteq Node \ {N}
    BY NAssumption DEF High, Node
  <2>3. N \in High(g) <=> b
    BY NAssumption DEF High, Node
  <2> QED BY <2>1, <2>2, <2>3 DEF High
<1>4. N \notin B
  BY NAssumption DEF High, Node
<1>5. Cardinality(B \cup {N}) = Cardinality(B) + 1
  BY <1>2, <1>4, FS_AddElement
<1> QED BY <1>1, <1>2, <1>3, <1>5 DEF Bit

-----------------------------------------------------------------------------

\* The types, before the bounds that only Conservation gives.
TypeBase ==
    /\ rst_n_q \in BOOLEAN
    /\ credits \in Nat
    /\ seq \in SeqNum
    /\ prom \in Word
    /\ bcr \in BOOLEAN
    /\ bst \in BOOLEAN
    /\ v \in [Node -> BOOLEAN]
    /\ lead \in [Node -> Word]
    /\ rest \in [Node -> Word]
    /\ cr \in [Node -> BOOLEAN]
    /\ st \in [Node -> BOOLEAN]
    /\ landing \in BOOLEAN
    /\ due_q \in BOOLEAN
    /\ lead_q \in Word
    /\ d_lead \in Word
    /\ d_rest \in Word
    /\ occ \in Nat
    /\ expect \in SeqNum

\* Nothing is in the pipelines in the cycle in which the repeaters still
\* hold their reset, so what they drop then is nothing.
ResetQuiet ==
    ~rst_n_q => /\ \A k \in Node : ~v[k] /\ ~cr[k]
                /\ ~bcr /\ ~landing /\ occ = 0

\* The interface flop of the sender exists only in the built form.
NoFlopNoCredit == ~Built => ~bcr

IInv == TypeBase /\ ResetQuiet /\ NoFlopNoCredit /\ Conservation

LEMMA InitIInv == Init => IInv
<1> SUFFICES ASSUME Init PROVE IInv
  OBVIOUS
<1>1. TypeBase
  <2>1. 0 \in SeqNum /\ 0 \in Word /\ Unknown \in Word
    BY SeqModAssumption DEF SeqNum, Word
  <2>2. /\ v \in [Node -> BOOLEAN] /\ cr \in [Node -> BOOLEAN]
        /\ st \in [Node -> BOOLEAN]
    BY DEF Init
  <2>3. lead \in [Node -> Word] /\ rest \in [Node -> Word]
    BY <2>1 DEF Init
  <2>4. credits \in Nat /\ occ \in Nat
    BY DepthAssumption DEF Init
  <2> QED BY <2>1, <2>2, <2>3, <2>4 DEF Init, TypeBase
<1>2. ResetQuiet /\ NoFlopNoCredit
  BY DEF Init, ResetQuiet, NoFlopNoCredit
<1>3. High(v) = {} /\ High(cr) = {}
  BY DEF Init, High
<1>4. Cardinality(High(v)) = 0 /\ Cardinality(High(cr)) = 0
  BY <1>3, FS_EmptySet
<1>5. credits = Depth /\ occ = 0 /\ Bit(landing) = 0 /\ Bit(bcr) = 0
  BY DEF Init, Bit
<1>6. Conservation
  BY <1>4, <1>5, DepthAssumption DEF Conservation, OnWire, ComingBack
<1> QED BY <1>1, <1>2, <1>6 DEF IInv

\* The pools before and after a cycle: one message in, one out, one credit
\* back, each moved and none made or lost.
LEMMA StepIInv ==
    ASSUME IInv, NEW want \in BOOLEAN, NEW pop_en \in BOOLEAN,
           NEW stall_in \in BOOLEAN, Cycle(want, pop_en, stall_in)
    PROVE  IInv'
<1> DEFINE go == want /\ CanGo
           pop == pop_en /\ Avail # 0
<1>1. /\ Sender(go) /\ Forward(go) /\ Backward(pop, stall_in)
      /\ Receiver(pop) /\ rst_n_q' = TRUE
  BY DEF Cycle
<1>2. /\ TypeBase /\ ResetQuiet /\ NoFlopNoCredit /\ Conservation
      /\ 0 \in Node /\ N \in Node
      /\ CrIn \in BOOLEAN /\ BlkRst \in BOOLEAN /\ Stalled \in BOOLEAN
  BY NAssumption, BuiltAssumption
  DEF IInv, Node, TypeBase, CrIn, BlkRst, Stalled
<1>3. Avail \in Nat /\ Avail = occ + Bit(landing) /\ go \in BOOLEAN
      /\ pop \in BOOLEAN
  BY <1>2, BuiltAssumption DEF TypeBase, Avail, Bit, CanGo
<1>4. go => credits # 0 \/ CrIn
  BY DEF CanGo, CrIn
<1>5. pop => Avail # 0
  OBVIOUS
<1> HIDE DEF go, pop
<1>6. TypeBase'
  <2>1. credits' \in Nat
    BY <1>1, <1>2, <1>3, <1>4 DEF Sender, TypeBase, Bit
  <2>2. /\ seq' \in SeqNum /\ prom' \in Word /\ bcr' \in BOOLEAN
        /\ bst' \in BOOLEAN
    BY <1>1, <1>2, <1>3, SeqModAssumption, BuiltAssumption
    DEF Sender, TypeBase, SeqNum, Word, Succ
  <2>3. v' \in [Node -> BOOLEAN] /\ v' = [k \in Node |-> v'[k]]
    BY <1>1, <1>2, <1>3, NAssumption DEF Forward, TypeBase, Node
  <2>4. lead' \in [Node -> Word]
    <3>1. ASSUME NEW k \in Node
          PROVE  /\ k = 0 => (IF go \/ Built THEN seq ELSE lead[0]) \in Word
                 /\ k # 0 => k-1 \in Node /\ lead[k-1] \in Word
                 /\ lead[k] \in Word
      BY <1>2, <3>1, NAssumption DEF TypeBase, Node, Word
    <3> QED BY <3>1, <1>1, <1>2 DEF Forward, TypeBase
  <2>5. rest' \in [Node -> Word]
    <3>1. ASSUME NEW k \in Node
          PROVE  /\ prom \in Word /\ rest[k] \in Word /\ v[k] \in BOOLEAN
                 /\ k # 0 => k-1 \in Node /\ rest[k-1] \in Word
      BY <1>2, <3>1, NAssumption DEF TypeBase, Node
    <3> QED BY <3>1, <1>1 DEF Forward
  <2>6. cr' \in [Node -> BOOLEAN] /\ st' \in [Node -> BOOLEAN]
    BY <1>1, <1>2, <1>3, NAssumption DEF Backward, TypeBase, Node
  <2>7. occ' \in Nat
    BY <1>1, <1>3, <1>5 DEF Receiver, Bit
  <2>8. /\ landing' \in BOOLEAN /\ due_q' \in BOOLEAN /\ lead_q' \in Word
        /\ d_lead' \in Word /\ d_rest' \in Word
    BY <1>1, <1>2, BuiltAssumption DEF Receiver, TypeBase
  <2>9. expect' \in SeqNum
    BY <1>1, <1>2, SeqModAssumption DEF Receiver, TypeBase, SeqNum, Succ
  <2> QED BY <1>1, <2>1, <2>2, <2>3, <2>4, <2>5, <2>6, <2>7, <2>8, <2>9
          DEF TypeBase
<1>7. ResetQuiet' /\ NoFlopNoCredit'
  BY <1>1 DEF ResetQuiet, NoFlopNoCredit, Sender
<1>8. Conservation'
  <2>1. Cardinality(High(v')) = Cardinality(High(v)) - Bit(v[N]) + Bit(go)
    <3>1. v' \in [Node -> BOOLEAN] /\ v \in [Node -> BOOLEAN]
      BY <1>2, <1>6 DEF TypeBase
    <3>2. v'[0] = go
      BY <1>1, <1>2 DEF Forward
    <3>3. \A k \in Node \ {0} : v'[k] = v[k-1]
      <4> SUFFICES ASSUME NEW k \in Node \ {0} PROVE v'[k] = v[k-1]
        OBVIOUS
      <4>1. k-1 \in Node /\ v'[k] = (rst_n_q /\ v[k-1])
        BY <1>1, NAssumption DEF Forward, Node
      <4> QED BY <4>1, <1>2 DEF ResetQuiet, TypeBase
    <3> QED BY <3>1, <3>2, <3>3, <1>3, ShiftUp
  <2>2. Cardinality(High(cr')) = Cardinality(High(cr)) - Bit(cr[0]) + Bit(pop)
    <3>1. cr' \in [Node -> BOOLEAN] /\ cr \in [Node -> BOOLEAN]
      BY <1>2, <1>6 DEF TypeBase
    <3>2. cr'[N] = pop
      <4>1. cr'[N] = (BlkRst /\ pop)
        BY <1>1, <1>2 DEF Backward
      <4>2. ~BlkRst => pop = FALSE
        BY <1>2, <1>3, <1>5 DEF BlkRst, ResetQuiet, Bit
      <4> QED BY <4>1, <4>2, <1>2, <1>3
    <3>3. \A k \in Node \ {N} : cr'[k] = cr[k+1]
      <4> SUFFICES ASSUME NEW k \in Node \ {N} PROVE cr'[k] = cr[k+1]
        OBVIOUS
      <4>1. k+1 \in Node /\ cr'[k] = (rst_n_q /\ cr[k+1])
        BY <1>1, NAssumption DEF Backward, Node
      <4> QED BY <4>1, <1>2 DEF ResetQuiet, TypeBase
    <3> QED BY <3>1, <3>2, <3>3, <1>3, ShiftDown
  <2>3. /\ credits' = credits + Bit(CrIn) - Bit(go)
        /\ occ' = occ + Bit(landing) - Bit(pop)
        /\ Bit(landing') = Bit(v[N])
    <3>1. credits' = credits + Bit(CrIn) - Bit(go)
      BY <1>1, <1>2, <1>3 DEF Sender, Bit, TypeBase
    <3>2. occ' = occ + Bit(landing) - Bit(pop)
      BY <1>1, <1>2, <1>3 DEF Receiver, TypeBase, Bit
    <3>3. Bit(landing') = Bit(v[N])
      <4>1. ~BlkRst => v[N] = FALSE
        BY <1>2 DEF BlkRst, ResetQuiet, TypeBase
      <4> QED BY <4>1, <1>1, <1>2 DEF Receiver, TypeBase, Bit
    <3> QED BY <3>1, <3>2, <3>3
  <2>4. Bit(bcr') + Bit(CrIn) = Bit(bcr) + Bit(cr[0])
    <3>1. CASE Built
      <4>1. bcr' = cr[0]
        BY <3>1, <1>1, <1>2 DEF Sender, ResetQuiet, TypeBase
      <4> QED BY <4>1, <3>1 DEF CrIn, Bit
    <3>2. CASE ~Built
      <4>1. bcr' = FALSE /\ bcr = FALSE
        BY <3>2, <1>1, <1>2 DEF Sender, NoFlopNoCredit, TypeBase
      <4> QED BY <4>1, <3>2 DEF CrIn, Bit
    <3> QED BY <3>1, <3>2
  <2>5. /\ Cardinality(High(v)) \in Nat /\ Cardinality(High(cr)) \in Nat
        /\ credits \in Nat /\ occ \in Nat
        /\ Bit(landing) \in Int /\ Bit(v[N]) \in Int /\ Bit(go) \in Int
        /\ Bit(pop) \in Int /\ Bit(cr[0]) \in Int /\ Bit(CrIn) \in Int
        /\ Bit(bcr) \in Int /\ Bit(bcr') \in Int
    BY <1>2, HighFinite DEF TypeBase, Bit
  <2>6. /\ OnWire = Cardinality(High(v)) + Bit(landing)
        /\ OnWire' = Cardinality(High(v')) + Bit(landing')
        /\ ComingBack = Cardinality(High(cr)) + Bit(bcr)
        /\ ComingBack' = Cardinality(High(cr')) + Bit(bcr')
    BY DEF OnWire, ComingBack, High, Bit
  <2>7. /\ OnWire' = OnWire - Bit(landing) + Bit(go)
        /\ ComingBack' = ComingBack + Bit(pop) - Bit(CrIn)
    <3>1. OnWire' = OnWire - Bit(landing) + Bit(go)
      BY <2>1, <2>3, <2>5, <2>6
    <3>2. ComingBack' = ComingBack + Bit(pop) - Bit(CrIn)
      BY <2>2, <2>4, <2>5, <2>6
    <3> QED BY <3>1, <3>2
  <2>8. OnWire \in Int /\ ComingBack \in Int
    BY <2>5, <2>6
  <2> QED BY <2>3, <2>5, <2>7, <2>8, <1>2, DepthAssumption DEF Conservation
<1> QED BY <1>6, <1>7, <1>8 DEF IInv

LEMMA NextIInv == IInv /\ [Next]_vars => IInv'
<1> SUFFICES ASSUME IInv, [Next]_vars PROVE IInv'
  OBVIOUS
<1>1. CASE Next
  BY <1>1, StepIInv DEF Next
<1>2. CASE UNCHANGED vars
  BY <1>2 DEF vars, senderVars, wireVars, receiverVars, IInv, TypeBase,
       ResetQuiet, NoFlopNoCredit, Conservation, OnWire, ComingBack, High, Bit
<1> QED BY <1>1, <1>2

LEMMA SpecIInv == Spec => []IInv
  BY InitIInv, NextIInv, PTL DEF Spec

(***************************************************************************)
(* Every flop keeps its type, and neither the credit counter of the sender *)
(* nor the occupancy counter of the receiver leaves 0..Depth: their width  *)
(* is sufficient whatever the two ends do.                                 *)
(***************************************************************************)
THEOREM TypeCorrect == Spec => []TypeOK
<1>1. IInv => TypeOK
  <2> SUFFICES ASSUME IInv PROVE TypeOK
    OBVIOUS
  <2>1. Cardinality(High(v)) \in Nat /\ Cardinality(High(cr)) \in Nat
    BY HighFinite DEF IInv, TypeBase
  <2>2. credits \in 0..Depth /\ occ \in 0..Depth
    BY <2>1, DepthAssumption
    DEF IInv, TypeBase, Conservation, OnWire, ComingBack, Bit
  <2> QED BY <2>2 DEF IInv, TypeBase, TypeOK
<1> QED BY <1>1, SpecIInv, PTL

(***************************************************************************)
(* No credit is made or lost on a link of any length, in either form of    *)
(* the boundary and across the release of reset.                           *)
(***************************************************************************)
THEOREM CreditsConserved == Spec => []Conservation
<1>1. IInv => Conservation
  BY DEF IInv
<1> QED BY <1>1, SpecIInv, PTL

(***************************************************************************)
(* The receiver is never handed more than Depth messages, whatever it      *)
(* drains and whatever the link holds.                                     *)
(***************************************************************************)
THEOREM ReceiverNeverOverrun == Spec => []NoOverflow
<1>1. IInv => NoOverflow
  <2> SUFFICES ASSUME IInv PROVE NoOverflow
    OBVIOUS
  <2>1. Cardinality(High(v)) \in Nat /\ Cardinality(High(cr)) \in Nat
    BY HighFinite DEF IInv, TypeBase
  <2> QED BY <2>1, DepthAssumption
          DEF IInv, TypeBase, Conservation, OnWire, ComingBack, Bit,
              NoOverflow, Avail
<1> QED BY <1>1, SpecIInv, PTL

-----------------------------------------------------------------------------
(***************************************************************************)
(* The order of the payloads.  A message passes the places 0..Last, one a  *)
(* cycle: the nodes of the wire, the cycle in which it is counted and, if  *)
(* Built, the cycle in which it is due.  The sender stands before the      *)
(* first place with the number it sends next, the receiver after the last  *)
(* with the number it expects.  Between any two neighbours of that queue,  *)
(* whatever gap a stall left between them, the one behind carries the      *)
(* number after the one in front.                                          *)
(***************************************************************************)

\* The place in which a message is due.
Last == IF Built THEN N + 2 ELSE N + 1

Place == -1..(Last + 1)

Taken(p) ==
    \/ p = -1
    \/ p \in Node /\ v[p]
    \/ p = N + 1 /\ landing
    \/ Built /\ p = N + 2 /\ due_q
    \/ p = Last + 1

\* The leading slice of the message at a place.
LeadAt(p) ==
    IF p = -1 THEN seq
    ELSE IF p \in Node THEN lead[p]
    ELSE IF Built /\ p = N + 1 THEN d_lead
    ELSE lead_q

\* The rest of it, one node behind.
RestAt(p) ==
    IF p = 0 THEN prom
    ELSE IF p <= N + 1 THEN rest[p-1]
    ELSE d_rest

\* The number of the message behind the one at q.
Behind(q) == IF q = Last + 1 THEN expect ELSE Succ(LeadAt(q))

Neighbours(p, q) ==
    /\ p < q
    /\ Taken(p)
    /\ Taken(q)
    /\ \A r \in Place : p < r /\ r < q => ~Taken(r)

Queued == \A p, q \in Place : Neighbours(p, q) => LeadAt(p) = Behind(q)

\* Both halves of a message on the way are of one message.
Joined == \A p \in 0..Last : Taken(p) => RestAt(p) = LeadAt(p)

\* What a cycle does to the places: each message moves one on, unless it is
\* the one that was due.
LEMMA Moved ==
    ASSUME IInv, NEW go \in BOOLEAN, NEW pop \in BOOLEAN, Forward(go),
           Receiver(pop), Sender(go), NEW p \in 0..(Last - 1)
    PROVE  /\ Taken(p+1)' <=> Taken(p)
           /\ Taken(p) => LeadAt(p+1)' = LeadAt(p)
           /\ Taken(p) /\ RestAt(p) = LeadAt(p)
                => RestAt(p+1)' = LeadAt(p+1)'
<1>1. TypeBase /\ ResetQuiet
  BY DEF IInv
<1>2. p \in Int /\ p >= 0 /\ p <= N + 1 /\ (~Built => p <= N)
      /\ Last \in Int /\ p # Last + 1 /\ p + 1 # Last + 1 /\ p + 1 # -1
      /\ p # -1 /\ p + 1 # 0
  BY NAssumption, BuiltAssumption DEF Last
<1>3. CASE p < N
  <2>1. p \in Node /\ p+1 \in Node /\ p+1 # N+1 /\ p+1 # N+2 /\ p # N+1
        /\ p # N+2 /\ p+1-1 = p /\ p + 1 # 0 /\ p + 1 <= N + 1
    BY <1>2, <1>3, NAssumption DEF Node
  <2>2. (Taken(p+1)' <=> v'[p+1]) /\ (Taken(p) <=> v[p])
    BY <1>2, <2>1, NAssumption DEF Taken, Last, Node
  <2>3. v'[p+1] = (rst_n_q /\ v[p])
    BY <2>1 DEF Forward
  <2>4. v'[p+1] <=> v[p]
    BY <2>3, <2>1, <1>1 DEF ResetQuiet, TypeBase
  <2>5. LeadAt(p+1)' = lead'[p+1] /\ LeadAt(p) = lead[p]
        /\ RestAt(p+1)' = rest'[p]
    BY <1>2, <2>1, NAssumption DEF LeadAt, RestAt, Node
  <2>6. v[p] => lead'[p+1] = lead[p]
    <3>1. lead'[p+1] = CASE p + 1 = 0 -> IF go \/ Built THEN seq ELSE lead[0]
                         [] p + 1 = 1 -> lead[0]
                         [] OTHER -> IF v[p+1-1] THEN lead[p+1-1] ELSE lead[p+1]
      BY <2>1 DEF Forward
    <3>2. CASE p = 0
      BY <3>1, <3>2
    <3>3. CASE p # 0
      BY <3>1, <3>3, <2>1, <1>2
    <3> QED BY <3>2, <3>3
  <2>7. v[p] => rest'[p] = RestAt(p)
    BY <2>1, <1>2 DEF Forward, RestAt
  <2> QED BY <2>2, <2>4, <2>5, <2>6, <2>7
<1>4. CASE p = N
  <2>1. N \in Node /\ N+1 \notin Node /\ N+1 # N+2 /\ N + 1 - 1 = N
        /\ N + 1 # 0 /\ N + 1 <= N + 1 /\ N # N + 1 /\ N # N + 2
        /\ N <= N + 1
    BY NAssumption DEF Node
  <2>2. (Taken(p+1)' <=> landing') /\ (Taken(p) <=> v[N])
    BY <1>2, <1>4, <2>1, NAssumption DEF Taken, Last, Node
  <2>3. landing' <=> v[N]
    BY <2>1, <1>1 DEF Receiver, BlkRst, ResetQuiet, TypeBase
  <2>4. LeadAt(p+1)' = (IF Built THEN d_lead' ELSE lead_q')
        /\ LeadAt(p) = lead[N] /\ RestAt(p+1)' = rest'[N]
    BY <1>2, <1>4, <2>1, NAssumption DEF LeadAt, RestAt, Node
  <2>5. v[N] => (IF Built THEN d_lead' ELSE lead_q') = lead[N]
    BY DEF Receiver
  <2>6. v[N] => rest'[N] = RestAt(N)
    BY <2>1, <1>2, <1>4 DEF Forward, RestAt
  <2> QED BY <2>2, <2>3, <2>4, <2>5, <2>6, <1>4
<1>5. CASE p = N + 1
  <2>1. Built /\ N+1 \notin Node /\ N+2 \notin Node /\ N + 2 = p + 1
        /\ N + 1 # N + 2 /\ N + 2 # N + 1 /\ N + 2 # 0 /\ ~(N + 2 <= N + 1)
        /\ N + 1 # 0 /\ N + 1 - 1 = N /\ N + 1 # -1 /\ N + 2 # -1
    BY <1>2, <1>5, NAssumption DEF Node
  <2>2. (Taken(p+1)' <=> due_q') /\ (Taken(p) <=> landing)
    BY <1>2, <1>5, <2>1, NAssumption DEF Taken, Last
  <2>3. due_q' <=> landing
    BY <2>1, <1>1 DEF Receiver, BlkRst, ResetQuiet, TypeBase
  <2>4. LeadAt(p+1)' = lead_q' /\ LeadAt(p) = d_lead /\ RestAt(p+1)' = d_rest'
        /\ RestAt(p) = rest[N]
    BY <1>5, <2>1, NAssumption DEF LeadAt, RestAt
  <2>5. landing => lead_q' = d_lead /\ d_rest' = rest[N]
    BY <2>1 DEF Receiver
  <2> QED BY <2>2, <2>3, <2>4, <2>5
<1> QED BY <1>2, <1>3, <1>4, <1>5, NAssumption

\* What enters the first place and what leaves the last.
LEMMA Ends ==
    ASSUME IInv, NEW go \in BOOLEAN, NEW pop \in BOOLEAN, Forward(go),
           Receiver(pop), Sender(go)
    PROVE  /\ Taken(0)' <=> go
           /\ go => LeadAt(0)' = seq /\ RestAt(0)' = seq
           /\ LeadAt(-1) = seq
           /\ LeadAt(-1)' = IF go THEN Succ(seq) ELSE seq
           /\ Taken(-1) /\ Taken(-1)' /\ Taken(Last+1) /\ Taken(Last+1)'
           /\ Taken(Last) <=> Due
           /\ Behind(Last+1) = expect
           /\ Behind(Last+1)' = IF Taken(Last) THEN Succ(expect) ELSE expect
<1>1. /\ 0 \in Node /\ 0 # -1 /\ -1 \notin Node /\ 0 # N + 1 /\ 0 # N + 2
      /\ 0 # Last + 1 /\ Last \notin Node /\ Last # -1 /\ Last # Last + 1
      /\ Last + 1 # -1 /\ N + 1 # N + 2
  BY NAssumption DEF Node, Last
<1>2. Taken(0)' <=> go
  <2>1. v'[0] = go
    BY <1>1 DEF Forward
  <2> QED BY <2>1, <1>1, NAssumption DEF Taken, Last
<1>3. go => LeadAt(0)' = seq /\ RestAt(0)' = seq
  <2>1. go => lead'[0] = seq
    BY <1>1 DEF Forward
  <2> QED BY <2>1, <1>1 DEF LeadAt, RestAt, Sender
<1>4. LeadAt(-1) = seq /\ LeadAt(-1)' = IF go THEN Succ(seq) ELSE seq
  BY DEF LeadAt, Sender
<1>5. Taken(-1) /\ Taken(-1)' /\ Taken(Last+1) /\ Taken(Last+1)'
  BY DEF Taken, Last
<1>6. Taken(Last) <=> Due
  <2>1. CASE Built
    <3>1. Last = N + 2
      BY <2>1 DEF Last
    <3> QED BY <3>1, <2>1, <1>1 DEF Taken, Due
  <2>2. CASE ~Built
    <3>1. Last = N + 1
      BY <2>2 DEF Last
    <3> QED BY <3>1, <2>2, <1>1 DEF Taken, Due
  <2> QED BY <2>1, <2>2
<1>7. Behind(Last+1) = expect /\ Behind(Last+1)' = expect'
  BY DEF Behind, Last
<1>8. expect' = IF Due THEN Succ(expect) ELSE expect
  BY DEF Receiver
<1> QED BY <1>2, <1>3, <1>4, <1>5, <1>6, <1>7, <1>8

\* Before the cycle, the neighbours p and q of after it.
LEMMA QueuedStays ==
    ASSUME IInv, Queued, NEW go \in BOOLEAN, NEW pop \in BOOLEAN,
           Forward(go), Receiver(pop), Sender(go)
    PROVE  Queued'
<1> SUFFICES ASSUME NEW p \in Place, NEW q \in Place, Neighbours(p, q)'
             PROVE  LeadAt(p)' = Behind(q)'
  BY DEF Queued, Place, Last
<1>1. Last \in Int /\ Last >= 1 /\ p \in Int /\ q \in Int /\ -1 <= p
      /\ p < q /\ q <= Last + 1
  BY NAssumption DEF Last, Place, Neighbours
<1>2. Taken(p)' /\ Taken(q)'
      /\ \A r \in Place : p < r /\ r < q => ~Taken(r)'
  BY DEF Neighbours, Place, Last
<1>3. \A a \in 0..(Last - 1) : /\ Taken(a+1)' <=> Taken(a)
                               /\ Taken(a) => LeadAt(a+1)' = LeadAt(a)
  BY Moved
<1>4. /\ Taken(0)' <=> go
      /\ go => LeadAt(0)' = seq
      /\ LeadAt(-1) = seq
      /\ LeadAt(-1)' = IF go THEN Succ(seq) ELSE seq
      /\ Taken(-1) /\ Taken(-1)' /\ Taken(Last+1) /\ Taken(Last+1)'
      /\ Behind(Last+1) = expect
      /\ Behind(Last+1)' = IF Taken(Last) THEN Succ(expect) ELSE expect
  BY Ends
<1>5. \A a, b \in Place : Neighbours(a, b) => LeadAt(a) = Behind(b)
  BY DEF Queued
<1>6. \A b \in 0..Last : Behind(b) = Succ(LeadAt(b))
                         /\ Behind(b)' = Succ(LeadAt(b)')
  BY <1>1 DEF Behind, Last, Succ
<1> DEFINE a == IF p <= 0 THEN -1 ELSE p - 1
<1>7. CASE p = -1 /\ go
  <2>1. q = 0
    BY <1>1, <1>2, <1>4, <1>7 DEF Place
  <2> QED BY <2>1, <1>1, <1>4, <1>6, <1>7
<1>8. CASE ~(p = -1 /\ go)
  <2>1. a \in Place /\ a < q - 1 /\ a < Last /\ q - 1 \in Place
        /\ q # 0 /\ q >= 1 /\ q - 1 >= 0
    <3>1. q # 0
      BY <1>1, <1>2, <1>4, <1>8
    <3>2. q - 1 > a
      BY <1>1, <3>1
    <3> QED BY <3>1, <3>2, <1>1 DEF Place
  <2>2. Taken(a) /\ LeadAt(p)' = LeadAt(a)
    <3>1. CASE p <= 0
      <4>1. p = -1 \/ (p = 0 /\ go)
        BY <1>1, <1>2, <1>4, <3>1
      <4> QED BY <4>1, <1>4, <1>8, <3>1
    <3>2. CASE p > 0
      <4>1. p - 1 \in 0..(Last - 1) /\ p - 1 + 1 = p /\ a = p - 1
        BY <1>1, <3>2
      <4> QED BY <4>1, <1>2, <1>3
    <3> QED BY <3>1, <3>2, <1>1
  <2>3. \A r \in Place : a < r /\ r < q - 1 => ~Taken(r)
    <3> SUFFICES ASSUME NEW r \in Place, a < r, r < q - 1 PROVE ~Taken(r)
      OBVIOUS
    <3>1. r \in 0..(Last - 1) /\ r + 1 \in Place /\ p < r + 1 /\ r + 1 < q
      BY <1>1, <2>1 DEF Place
    <3> QED BY <3>1, <1>2, <1>3
  <2> HIDE DEF a
  <2>4. CASE q <= Last
    <3>1. q - 1 \in 0..(Last - 1) /\ q - 1 + 1 = q /\ q \in 0..Last
          /\ q - 1 \in 0..Last
      BY <1>1, <2>1, <2>4
    <3>2. Taken(q-1) /\ LeadAt(q)' = LeadAt(q-1)
      BY <3>1, <1>2, <1>3
    <3>3. LeadAt(a) = Behind(q-1)
      BY <2>1, <2>2, <2>3, <3>2, <1>5 DEF Neighbours
    <3> QED BY <3>1, <3>2, <3>3, <2>2, <1>6
  <2>5. CASE q = Last + 1
    <3>1. q - 1 = Last /\ Last \in Place /\ Last + 1 \in Place
          /\ Last \in 0..Last /\ Last < Last + 1
      BY <1>1, <2>5 DEF Place
    <3>2. CASE Taken(Last)
      <4>1. LeadAt(a) = Behind(Last)
        BY <2>1, <2>2, <2>3, <3>1, <3>2, <1>5 DEF Neighbours
      <4>2. \A r \in Place : Last < r /\ r < Last + 1 => ~Taken(r)
        BY <1>1 DEF Place
      <4>3. LeadAt(Last) = Behind(Last + 1)
        BY <3>1, <3>2, <4>2, <1>4, <1>5 DEF Neighbours
      <4> QED BY <4>1, <4>3, <3>1, <3>2, <2>2, <2>5, <1>4, <1>6
    <3>3. CASE ~Taken(Last)
      <4>1. \A r \in Place : a < r /\ r < Last + 1 => ~Taken(r)
        BY <2>3, <3>1, <3>3, <1>1 DEF Place
      <4>2. LeadAt(a) = Behind(Last + 1)
        BY <2>1, <2>2, <3>1, <4>1, <1>1, <1>4, <1>5 DEF Neighbours
      <4> QED BY <4>2, <3>3, <2>2, <2>5, <1>4
    <3> QED BY <3>2, <3>3
  <2> QED BY <2>4, <2>5, <1>1
<1> QED BY <1>7, <1>8

LEMMA JoinedStays ==
    ASSUME IInv, Joined, NEW go \in BOOLEAN, NEW pop \in BOOLEAN,
           Forward(go), Receiver(pop), Sender(go)
    PROVE  Joined'
<1> SUFFICES ASSUME NEW p \in 0..Last, Taken(p)'
             PROVE  RestAt(p)' = LeadAt(p)'
  BY DEF Joined, Last
<1>1. Last \in Int /\ p \in Int
  BY NAssumption DEF Last
<1>2. CASE p = 0
  BY <1>2, Ends
<1>3. CASE p # 0
  <2>1. p - 1 \in 0..(Last - 1) /\ p - 1 \in 0..Last /\ p - 1 + 1 = p
    BY <1>1, <1>3
  <2> QED BY <2>1, Moved DEF Joined
<1> QED BY <1>2, <1>3

OInv == IInv /\ Queued /\ Joined

LEMMA SpecOInv == Spec => []OInv
<1>1. Init => OInv
  <2> SUFFICES ASSUME Init PROVE OInv
    OBVIOUS
  <2>1. \A p \in 0..Last : ~Taken(p)
    BY NAssumption DEF Init, Taken, Last, Node
  <2>2. \A p, q \in Place : Neighbours(p, q) => p = -1 /\ q = Last + 1
    BY <2>1, NAssumption DEF Neighbours, Place, Last
  <2>3. LeadAt(-1) = 0 /\ Behind(Last + 1) = 0
    BY DEF Init, LeadAt, Behind
  <2> QED BY <2>1, <2>2, <2>3, InitIInv DEF OInv, Queued, Joined
<1>2. OInv /\ [Next]_vars => OInv'
  <2> SUFFICES ASSUME OInv, [Next]_vars PROVE OInv'
    OBVIOUS
  <2>1. CASE Next
    <3>1. PICK want, pop_en, stall_in \in BOOLEAN :
            Cycle(want, pop_en, stall_in)
      BY <2>1 DEF Next
    <3> DEFINE go == want /\ CanGo
               pop == pop_en /\ Avail # 0
    <3>2. go \in BOOLEAN /\ pop \in BOOLEAN
      BY DEF CanGo
    <3>3. Sender(go) /\ Forward(go) /\ Receiver(pop)
      BY <3>1 DEF Cycle
    <3>4. IInv'
      BY <3>1, StepIInv DEF OInv
    <3> HIDE DEF go, pop
    <3>5. Queued' /\ Joined'
      BY <3>2, <3>3, QueuedStays, JoinedStays DEF OInv
    <3> QED BY <3>4, <3>5 DEF OInv
  <2>2. CASE UNCHANGED vars
    <3>1. IInv'
      BY <2>2, NextIInv DEF OInv
    <3>2. Queued' /\ Joined'
      BY <2>2 DEF OInv, vars, senderVars, wireVars, receiverVars, Queued,
           Joined, Neighbours, Taken, LeadAt, RestAt, Behind
    <3> QED BY <3>1, <3>2 DEF OInv
  <2> QED BY <2>1, <2>2
<1> QED BY <1>1, <1>2, PTL DEF Spec

(***************************************************************************)
(* When a payload is due, the slice that led it and the rest both belong   *)
(* to the next message in the order the messages were launched: the two    *)
(* enables of the slices, a cycle apart, never mix two messages that       *)
(* follow each other closely, on a link of any length and in either form.  *)
(***************************************************************************)
THEOREM PayloadsInOrder == Spec => []DataInOrder
<1>1. OInv => DataInOrder
  <2> SUFFICES ASSUME OInv, Due PROVE lead_q = expect /\ PayloadWord = expect
    BY DEF DataInOrder
  <2>1. Last \in Int /\ Last \in 0..Last /\ Last \in Place /\ Last+1 \in Place
        /\ Last < Last + 1 /\ \A r \in Place : ~(Last < r /\ r < Last + 1)
    BY NAssumption DEF Last, Place
  <2>2. Taken(Last)
    <3>1. CASE Built
      BY <3>1 DEF Taken, Last, Due
    <3>2. CASE ~Built
      BY <3>2 DEF Taken, Last, Due
    <3> QED BY <3>1, <3>2
  <2>3. Taken(Last + 1) /\ Behind(Last + 1) = expect
    BY DEF Taken, Behind
  <2>4. LeadAt(Last) = expect
    BY <2>1, <2>2, <2>3 DEF OInv, Queued, Neighbours
  <2>5. RestAt(Last) = expect
    BY <2>1, <2>2, <2>4 DEF OInv, Joined
  <2>6. LeadAt(Last) = lead_q /\ RestAt(Last) = PayloadWord
    <3>1. CASE Built
      <4>1. Last = N + 2 /\ N + 2 # -1 /\ N + 2 \notin Node /\ N + 2 # N + 1
            /\ N + 2 # 0 /\ ~(N + 2 <= N + 1)
        BY <3>1, NAssumption DEF Last, Node
      <4> QED BY <4>1, <3>1 DEF LeadAt, RestAt, PayloadWord
    <3>2. CASE ~Built
      <4>1. Last = N + 1 /\ N + 1 # -1 /\ N + 1 \notin Node
            /\ Last # 0 /\ Last <= N + 1 /\ Last - 1 = N
        BY <3>2, NAssumption DEF Last, Node
      <4>2. LeadAt(Last) = lead_q
        BY <4>1, <3>2 DEF LeadAt
      <4>3. RestAt(Last) = rest[N]
        BY <4>1 DEF RestAt
      <4> QED BY <4>2, <4>3, <3>2 DEF PayloadWord
    <3> QED BY <3>1, <3>2
  <2> QED BY <2>4, <2>5, <2>6
<1> QED BY <1>1, SpecOInv, PTL

----------------------------------------------------------------------------
(* The checked link.                                                       *)

TimingTypes ==
    /\ greedy \in 0..CreditLoop
    /\ stalled \in 0..(DrainWait + 1)
    /\ rescued \in Nat
    /\ ~rst_n_q => stalled = 0 /\ greedy = 0

\* A stall has gone as many stages as it has been up for.
StallReaches ==
    /\ \A k \in Node : stalled + k > N => st[k]
    /\ Built /\ stalled >= N + 2 => bst

\* Behind it nothing is launched, so the wire empties from node 0.
WireClears ==
    /\ \A k \in Node : stalled >= N + 2 + Bit(Built) + k => ~v[k]
    /\ stalled > DrainWait => ~landing

RescueCounted == rescued <= stalled /\ rescued <= DrainWait

\* The absence of a stall goes as far.
StallGone ==
    /\ \A k \in Node : greedy + k > N => ~st[k]
    /\ Built /\ greedy >= N + 2 => ~bst

\* While it drains, the receiver has a backlog, and gives a credit back in
\* every cycle, or none, and takes each message as it lands.
BacklogPays ==
    \/ occ = 0
    \/ /\ \A k \in Node : greedy + k > N => cr[k]
       /\ greedy >= N + 2 => IF Built THEN bcr ELSE credits # 0

TInv == /\ TimingTypes /\ StallReaches /\ WireClears /\ RescueCounted
        /\ StallGone /\ BacklogPays

LEMMA LoopFacts ==
    /\ CreditLoop = 2*N + 4
    /\ DrainWait = 2*N + 2 + Bit(Built)
    /\ RescueDepth = DrainWait
    /\ Bit(Built) \in 0..1
    /\ Built => Bit(Built) = 1
    /\ ~Built => Bit(Built) = 0
    /\ CreditLoop \in Nat
    /\ DrainWait \in Nat
BY NAssumption, BuiltAssumption
DEF CreditLoop, RoundTrip, DrainWait, RescueDepth, Bit

LEMMA TimingInitTInv == Init /\ TimingInit => TInv
<1> SUFFICES ASSUME Init, TimingInit PROVE TInv
  OBVIOUS
<1>1. TimingTypes
  BY LoopFacts DEF TimingInit, TimingTypes
<1>2. StallReaches /\ WireClears /\ StallGone
  BY LoopFacts, NAssumption
  DEF TimingInit, StallReaches, WireClears, StallGone, Node
<1>3. RescueCounted /\ BacklogPays
  BY LoopFacts DEF TimingInit, Init, RescueCounted, BacklogPays
<1> QED BY <1>1, <1>2, <1>3 DEF TInv

\* A cycle of the link, with the launch and the pop it takes.
LinkStep(go, pop, want, pop_en, stall_in) ==
    /\ go = (want /\ CanGo)
    /\ pop = (pop_en /\ Avail # 0)
    /\ Sender(go)
    /\ Forward(go)
    /\ Backward(pop, stall_in)
    /\ Receiver(pop)
    /\ rst_n_q' = TRUE

LEMMA StallTravels ==
    ASSUME IInv, TInv, NEW want \in BOOLEAN, NEW pop_en \in BOOLEAN,
           NEW stall_in \in BOOLEAN, NEW go \in BOOLEAN, NEW pop \in BOOLEAN,
           LinkStep(go, pop, want, pop_en, stall_in), Timed(pop_en, stall_in)
    PROVE  TimingTypes' /\ StallReaches' /\ WireClears' /\ RescueCounted'
<1>1. /\ Sender(go) /\ Forward(go) /\ Backward(pop, stall_in)
      /\ Receiver(pop) /\ rst_n_q' = TRUE /\ go = (want /\ CanGo)
  BY DEF LinkStep
<1>2. /\ TypeBase /\ ResetQuiet /\ TimingTypes /\ StallReaches /\ WireClears
      /\ RescueCounted
  BY DEF IInv, TInv
<1>3. 0 \in Node /\ N \in Node /\ N \in Int
  BY NAssumption DEF Node
<1>4. /\ stalled' = IF st'[N] THEN Saturate(stalled, DrainWait + 1) ELSE 0
      /\ rescued' = IF st'[N] THEN rescued + Bit(landing') ELSE 0
      /\ greedy' = IF pop_en /\ ~stall_in THEN Saturate(greedy, CreditLoop)
                                          ELSE 0
  BY DEF Timed
<1>5. stalled \in Int /\ 0 <= stalled /\ stalled <= DrainWait + 1
      /\ rescued \in Nat /\ greedy \in Int /\ 0 <= greedy /\ greedy <= CreditLoop
  BY <1>2, LoopFacts DEF TimingTypes
<1> DEFINE up == stalled'
<1>6. /\ up \in Int /\ 0 <= up /\ up <= DrainWait + 1 /\ up <= stalled + 1
      /\ greedy' \in 0..CreditLoop
  BY <1>4, <1>5, LoopFacts DEF Saturate
<1>7. up > 0 => st'[N]
  BY <1>4
<1>8. ~rst_n_q => stalled = 0
  BY <1>2 DEF TimingTypes
<1>9. landing' \in BOOLEAN /\ Bit(landing') \in 0..1
      /\ (~landing' => Bit(landing') = 0)
  BY <1>1, <1>2, <1>3 DEF Receiver, TypeBase, BlkRst, Bit
<1> HIDE DEF up
<1>10. TimingTypes'
  <2>1. rescued' \in Nat
    BY <1>4, <1>5, <1>9
  <2>2. up \in 0..(DrainWait + 1)
    BY <1>6, LoopFacts
  <2>3. CreditLoop' = CreditLoop /\ DrainWait' = DrainWait
    BY DEF CreditLoop, DrainWait, RoundTrip
  <2> QED BY <2>1, <2>2, <2>3, <1>1, <1>6 DEF TimingTypes, up
<1>11. StallReaches'
  <2>1. ASSUME NEW k \in Node, up + k > N PROVE st'[k]
    <3>0. k \in Int /\ 0 <= k /\ k <= N
      BY NAssumption DEF Node
    <3>1. CASE k = N
      <4>1. up > 0
        BY <3>1, <2>1, <1>3, <1>6
      <4> QED BY <4>1, <3>1, <1>7
    <3>2. CASE k # N
      <4>1. k + 1 \in Node /\ stalled + (k + 1) > N
        <5>1. k + 1 \in Node
          BY <3>0, <3>2, <1>3 DEF Node
        <5>2. stalled + (k + 1) > N
          BY <3>0, <2>1, <1>3, <1>5, <1>6
        <5> QED BY <5>1, <5>2
      <4>2. st[k+1]
        BY <4>1, <1>2 DEF StallReaches
      <4>3. rst_n_q
        BY <4>1, <1>8, <3>2, NAssumption DEF Node
      <4>4. st'[k] = (rst_n_q /\ st[k+1])
        BY <1>1, <3>2 DEF Backward
      <4> QED BY <4>2, <4>3, <4>4
    <3> QED BY <3>1, <3>2
  <2>2. ASSUME Built, up >= N + 2 PROVE bst'
    <3>1. stalled + 0 > N /\ stalled # 0
      BY <2>2, <1>3, <1>5, <1>6, NAssumption
    <3>2. st[0]
      BY <3>1, <1>2, <1>3 DEF StallReaches
    <3> QED BY <2>2, <3>1, <3>2, <1>1, <1>8 DEF Sender
  <2> QED BY <2>1, <2>2 DEF StallReaches, up
<1>12. WireClears'
  <2>1. ASSUME NEW k \in Node, up >= N + 2 + Bit(Built) + k
        PROVE  ~v'[k]
    <3>1. CASE k = 0
      <4>1. stalled >= N + 1 + Bit(Built)
        BY <2>1, <3>1, <1>3, <1>5, <1>6, LoopFacts
      <4>2. Stalled
        <5>1. CASE Built
          <6>1. Bit(Built) = 1
            BY <5>1, LoopFacts
          <6>2. stalled >= N + 2
            BY <4>1, <6>1, <1>3, <1>5
          <6> QED BY <6>2, <5>1, <1>2 DEF Stalled, StallReaches
        <5>2. CASE ~Built
          <6>1. stalled + 0 > N
            BY <4>1, <5>2, LoopFacts, <1>3, <1>5
          <6> QED BY <6>1, <5>2, <1>2, <1>3 DEF Stalled, StallReaches
        <5> QED BY <5>1, <5>2
      <4>3. go = FALSE
        BY <4>2, <1>1 DEF CanGo
      <4> QED BY <4>3, <3>1, <1>1, <1>3 DEF Forward
    <3>2. CASE k # 0
      <4>1. k - 1 \in Node /\ stalled >= N + 2 + Bit(Built) + (k - 1)
        BY <3>2, <2>1, <1>3, <1>5, <1>6, LoopFacts DEF Node
      <4>2. ~v[k-1]
        BY <4>1, <1>2 DEF WireClears
      <4>3. v'[k] = (rst_n_q /\ v[k-1])
        BY <3>2, <1>1 DEF Forward
      <4> QED BY <4>2, <4>3
    <3> QED BY <3>1, <3>2
  <2>2. ASSUME up > DrainWait PROVE ~landing'
    <3>1. stalled >= N + 2 + Bit(Built) + N
      BY <2>2, <1>3, <1>5, <1>6, LoopFacts
    <3>2. ~v[N]
      BY <3>1, <1>2, <1>3 DEF WireClears
    <3> QED BY <3>2, <1>1 DEF Receiver
  <2>3. DrainWait' = DrainWait
    BY DEF DrainWait, RoundTrip
  <2>4. Bit(Built)' = Bit(Built)
    BY DEF Bit
  <2> QED BY <2>1, <2>2, <2>3 DEF WireClears, Bit, up
<1>13. RescueCounted'
  <2>1. rescued <= stalled /\ rescued <= DrainWait
    BY <1>2 DEF RescueCounted
  <2>2. up > DrainWait => ~landing'
    BY <1>12 DEF WireClears, DrainWait, RoundTrip, up
  <2>3. rescued' <= up /\ rescued' <= DrainWait
    <3>1. CASE st'[N] /\ stalled < DrainWait + 1
      <4>1. up = stalled + 1 /\ rescued' = rescued + Bit(landing')
        BY <3>1, <1>4 DEF Saturate, up
      <4> QED BY <4>1, <2>1, <2>2, <1>5, <1>9, LoopFacts
    <3>2. CASE st'[N] /\ ~(stalled < DrainWait + 1)
      <4>1. up = DrainWait + 1 /\ rescued' = rescued + Bit(landing')
        BY <3>2, <1>4 DEF Saturate, up
      <4> QED BY <4>1, <2>1, <2>2, <1>5, <1>9, LoopFacts
    <3>3. CASE ~st'[N]
      BY <3>3, <1>4, LoopFacts DEF up
    <3> QED BY <3>1, <3>2, <3>3
  <2>4. DrainWait' = DrainWait
    BY DEF DrainWait, RoundTrip
  <2> QED BY <2>3, <2>4 DEF RescueCounted, up
<1> QED BY <1>10, <1>11, <1>12, <1>13

LEMMA DrainTravels ==
    ASSUME IInv, TInv, NEW want \in BOOLEAN, NEW pop_en \in BOOLEAN,
           NEW stall_in \in BOOLEAN, NEW go \in BOOLEAN, NEW pop \in BOOLEAN,
           LinkStep(go, pop, want, pop_en, stall_in), Timed(pop_en, stall_in)
    PROVE  StallGone' /\ BacklogPays'
<1>1. /\ Sender(go) /\ Forward(go) /\ Backward(pop, stall_in)
      /\ Receiver(pop) /\ rst_n_q' = TRUE /\ go = (want /\ CanGo)
      /\ pop = (pop_en /\ Avail # 0)
  BY DEF LinkStep
<1>2. /\ TypeBase /\ ResetQuiet /\ TimingTypes /\ StallGone /\ BacklogPays
  BY DEF IInv, TInv
<1>3. 0 \in Node /\ N \in Node /\ N \in Int /\ N >= 0
  BY NAssumption DEF Node
<1> DEFINE grown == greedy'
<1>4. grown = IF pop_en /\ ~stall_in THEN Saturate(greedy, CreditLoop) ELSE 0
  BY DEF Timed
<1>5. greedy \in Int /\ 0 <= greedy /\ greedy <= CreditLoop
  BY <1>2, LoopFacts DEF TimingTypes
<1>6. grown \in Int /\ 0 <= grown /\ grown <= greedy + 1
  BY <1>4, <1>5, LoopFacts DEF Saturate
<1>7. grown > 0 => pop_en /\ ~stall_in
  BY <1>4
<1> HIDE DEF grown
<1>8. StallGone'
  <2>1. ASSUME NEW k \in Node, grown + k > N PROVE ~st'[k]
    <3>0. k \in Int /\ 0 <= k /\ k <= N
      BY NAssumption DEF Node
    <3>1. CASE k = N
      <4>1. grown > 0
        BY <3>1, <2>1, <1>3, <1>6
      <4>2. st'[N] = (BlkRst /\ stall_in)
        BY <1>1, <1>3 DEF Backward
      <4> QED BY <4>1, <4>2, <3>1, <1>7
    <3>2. CASE k # N
      <4>1. k + 1 \in Node
        BY <3>0, <3>2, <1>3 DEF Node
      <4>2. greedy + (k + 1) > N
        BY <3>0, <2>1, <1>3, <1>5, <1>6
      <4>3. ~st[k+1]
        BY <4>1, <4>2, <1>2 DEF StallGone
      <4>4. st'[k] = (rst_n_q /\ st[k+1])
        BY <1>1, <3>2 DEF Backward
      <4> QED BY <4>3, <4>4
    <3> QED BY <3>1, <3>2
  <2>2. ASSUME Built, grown >= N + 2 PROVE ~bst'
    <3>1. greedy + 0 > N
      BY <2>2, <1>3, <1>5, <1>6
    <3>2. ~st[0]
      BY <3>1, <1>2, <1>3 DEF StallGone
    <3> QED BY <3>2, <1>1 DEF Sender
  <2> QED BY <2>1, <2>2 DEF StallGone, grown
<1>9. BacklogPays'
  <2>1. CASE grown = 0
    <3>1. \A k \in Node : ~(grown + k > N)
      BY <2>1, NAssumption DEF Node
    <3>2. ~(grown >= N + 2)
      BY <2>1, <1>3
    <3> QED BY <3>1, <3>2 DEF BacklogPays, grown
  <2>2. CASE grown # 0 /\ occ = 0
    <3>1. pop = (Avail # 0)
      BY <2>2, <1>1, <1>6, <1>7
    <3>2. Avail = Bit(landing) /\ Avail \in 0..1
      BY <2>2, <1>2 DEF Avail, Bit, TypeBase
    <3>3. occ' = 0
      <4>1. occ' = Avail - Bit(pop)
        BY <1>1 DEF Receiver
      <4>2. CASE Avail = 0
        <5>1. ~pop
          BY <4>2, <3>1, Zenon
        <5>2. Bit(pop) = 0
          BY <5>1 DEF Bit
        <5> QED BY <5>2, <4>1, <4>2
      <4>3. CASE Avail # 0
        <5>1. pop
          BY <4>3, <3>1, Zenon
        <5>2. Bit(pop) = 1
          BY <5>1 DEF Bit
        <5> QED BY <5>2, <4>1, <4>3, <3>2
      <4> QED BY <4>2, <4>3
    <3> QED BY <3>3 DEF BacklogPays
  <2>3. CASE grown # 0 /\ occ # 0
    <3>1. pop_en
      BY <2>3, <1>6, <1>7
    <3>2. Avail # 0
      BY <2>3, <1>2 DEF Avail, Bit, TypeBase
    <3>3. pop = TRUE /\ rst_n_q
      BY <2>3, <3>1, <3>2, <1>1, <1>2 DEF ResetQuiet
    <3>4. /\ \A k \in Node : greedy + k > N => cr[k]
          /\ greedy >= N + 2 => IF Built THEN bcr ELSE credits # 0
      BY <2>3, <1>2 DEF BacklogPays
    <3>5. ASSUME NEW k \in Node, grown + k > N PROVE cr'[k]
      <4>0. k \in Int /\ 0 <= k /\ k <= N
        BY NAssumption DEF Node
      <4>1. CASE k = N
        BY <4>1, <3>3, <1>1, <1>3 DEF Backward, BlkRst
      <4>2. CASE k # N
        <5>1. k + 1 \in Node
          BY <4>0, <4>2, <1>3 DEF Node
        <5>2. greedy + (k + 1) > N
          BY <4>0, <3>5, <1>3, <1>5, <1>6
        <5>3. cr'[k] = (rst_n_q /\ cr[k+1])
          BY <1>1, <4>2 DEF Backward
        <5> QED BY <5>1, <5>2, <5>3, <3>3, <3>4
      <4> QED BY <4>1, <4>2
    <3>6. ASSUME grown >= N + 2
          PROVE  IF Built THEN bcr' ELSE credits' # 0
      <4>1. greedy + 0 > N
        BY <3>6, <1>3, <1>5, <1>6
      <4>2. cr[0]
        BY <4>1, <3>4, <1>3
      <4>3. CASE Built
        BY <4>2, <4>3, <3>3, <1>1 DEF Sender
      <4>4. CASE ~Built
        <5>1. CrIn
          BY <4>2, <4>4 DEF CrIn
        <5>2. credits' = credits + Bit(~go)
          BY <5>1, <1>1, <1>2 DEF Sender, Bit, TypeBase
        <5>3. go => credits # 0
          BY <4>4, <1>1 DEF CanGo
        <5> QED BY <5>2, <5>3, <4>4, <1>2 DEF Bit, TypeBase
      <4> QED BY <4>3, <4>4
    <3> QED BY <3>5, <3>6 DEF BacklogPays, grown
  <2> QED BY <2>1, <2>2, <2>3
<1> QED BY <1>8, <1>9

-----------------------------------------------------------------------------

\* What both timing theorems are taken from.
LInv == IInv /\ TInv

checkedVars == <<vars, timingVars, checkerVars, drains>>

LEMMA SpecLInv == CheckedSpec => []LInv
<1>1. CheckedInit => LInv
  BY InitIInv, TimingInitTInv DEF CheckedInit, LInv
<1>2. LInv /\ [CheckedNext]_checkedVars => LInv'
  <2> SUFFICES ASSUME LInv, [CheckedNext]_checkedVars PROVE LInv'
    OBVIOUS
  <2>1. CASE CheckedNext
    <3>1. PICK want \in BOOLEAN, pop_en \in BOOLEAN, stall_in \in BOOLEAN :
            Cycle(want, pop_en, stall_in) /\ Timed(pop_en, stall_in)
      BY <2>1 DEF CheckedNext
    <3> DEFINE go == want /\ CanGo
               pop == pop_en /\ Avail # 0
    <3>2. go \in BOOLEAN /\ pop \in BOOLEAN
      BY DEF CanGo
    <3>3. LinkStep(go, pop, want, pop_en, stall_in)
      BY <3>1 DEF Cycle, LinkStep
    <3>4. IInv'
      BY <3>1, StepIInv DEF LInv
    <3> HIDE DEF go, pop
    <3>5. TInv'
      BY <3>1, <3>2, <3>3, StallTravels, DrainTravels DEF LInv, TInv
    <3> QED BY <3>4, <3>5 DEF LInv
  <2>2. CASE UNCHANGED checkedVars
    <3>1. UNCHANGED vars /\ UNCHANGED timingVars
      BY <2>2 DEF checkedVars
    <3>2. IInv'
      BY <3>1, NextIInv DEF LInv
    <3>3. TimingTypes' /\ RescueCounted'
      BY <3>1 DEF LInv, TInv, TimingTypes, RescueCounted, vars, timingVars,
         CreditLoop, DrainWait, RoundTrip, Bit
    <3>4. StallReaches' /\ WireClears'
      BY <3>1 DEF LInv, TInv, StallReaches, WireClears, vars, senderVars,
         wireVars, receiverVars, timingVars, DrainWait, RoundTrip, Bit
    <3>5. StallGone' /\ BacklogPays'
      BY <3>1 DEF LInv, TInv, StallGone, BacklogPays, vars, senderVars,
         wireVars, receiverVars, timingVars
    <3> QED BY <3>2, <3>3, <3>4, <3>5 DEF LInv, TInv
  <2> QED BY <2>1, <2>2
<1> QED BY <1>1, <1>2, PTL DEF CheckedSpec, checkedVars

(***************************************************************************)
(* A receiver that raises its stall with CCV_RESCUE_DEPTH places left      *)
(* loses nothing, and CCV_DRAIN_WAIT cycles later nothing is on the wire,  *)
(* for every number of stages and either boundary: the two parameters, as  *)
(* they grow with the link, are enough.                                    *)
(***************************************************************************)
THEOREM StallHolds == CheckedSpec => []StallTakesHold
<1>1. LInv => StallTakesHold
  <2> SUFFICES ASSUME LInv PROVE StallTakesHold
    OBVIOUS
  <2>1. rescued <= RescueDepth
    BY LoopFacts DEF LInv, TInv, RescueCounted
  <2>2. ASSUME stalled > DrainWait PROVE OnWire = 0
    <3>1. \A k \in Node : stalled >= N + 2 + Bit(Built) + k
      <4> SUFFICES ASSUME NEW k \in Node
                   PROVE  stalled >= N + 2 + Bit(Built) + k
        OBVIOUS
      <4>1. k \in Int /\ k <= N /\ N \in Int
        BY NAssumption DEF Node
      <4>2. stalled \in Int /\ DrainWait \in Int /\ Bit(Built) \in Int
        BY LoopFacts DEF LInv, TInv, TimingTypes
      <4> QED BY <4>1, <4>2, <2>2, LoopFacts
    <3>2. High(v) = {} /\ ~landing
      BY <3>1, <2>2 DEF LInv, TInv, WireClears, High
    <3>3. Cardinality(High(v)) = 0 /\ Bit(landing) = 0
      BY <3>2, FS_EmptySet DEF Bit
    <3> QED BY <3>3 DEF OnWire
  <2> QED BY <2>1, <2>2 DEF StallTakesHold
<1> QED BY <1>1, SpecLInv, PTL

\* The raised flags of a pipeline are no more than its nodes.
LEMMA HighBound ==
    ASSUME NEW f \in [Node -> BOOLEAN]
    PROVE  Cardinality(High(f)) <= N + 1
<1>1. IsFiniteSet(Node) /\ Cardinality(Node) = N + 1
  BY NAssumption, FS_Interval DEF Node
<1>2. High(f) \subseteq Node
  BY DEF High
<1> QED BY <1>1, <1>2, FS_Subset

(***************************************************************************)
(* Once the receiver has drained for a credit loop, the sender may launch  *)
(* in every cycle, whatever the past: a slot whose depth is at least the   *)
(* loop of its link runs at full bandwidth.  The depth is the theorem's    *)
(* hypothesis because it is the plan's to choose: CCV_CREDIT_DEPTH is the  *)
(* loop of an abutted link, and grows with it on a repeated one.           *)
(***************************************************************************)
THEOREM FullSpeed ==
    ASSUME Depth >= CreditLoop
    PROVE  CheckedSpec => []FullBandwidth
<1>1. LInv => FullBandwidth
  <2> SUFFICES ASSUME LInv, greedy >= CreditLoop PROVE CanGo
    BY DEF FullBandwidth
  <2>1. TypeBase /\ Conservation /\ TimingTypes /\ StallGone /\ BacklogPays
    BY DEF LInv, IInv, TInv
  <2>2. greedy \in Int /\ greedy >= 2*N + 4 /\ N \in Nat /\ 0 \in Node
    BY <2>1, LoopFacts, NAssumption DEF TimingTypes, Node
  <2>3. greedy >= N + 2 /\ greedy + 0 > N /\ greedy # 0
    BY <2>2
  <2>4. BlkRst
    BY <2>1, <2>3 DEF BlkRst, TimingTypes
  <2>5. ~Stalled
    BY <2>1, <2>2, <2>3 DEF StallGone, Stalled
  <2>6. credits # 0 \/ (Built /\ bcr)
    <3>1. CASE occ = 0
      <4>1. /\ Cardinality(High(v)) \in Nat /\ Cardinality(High(v)) <= N + 1
            /\ Cardinality(High(cr)) \in Nat /\ Cardinality(High(cr)) <= N + 1
        BY <2>1, HighFinite, HighBound DEF TypeBase
      <4>2. Depth \in Nat /\ Depth >= 2*N + 4 /\ credits \in Nat
        BY <2>1, LoopFacts, DepthAssumption DEF TypeBase
      <4>3. Bit(landing) \in Nat /\ Bit(landing) <= 1 /\ (~bcr => Bit(bcr) = 0)
        BY DEF Bit
      <4>4. ~bcr => credits # 0
        BY <4>1, <4>2, <4>3, <3>1, <2>1, <2>2
        DEF Conservation, OnWire, ComingBack
      <4>5. bcr => Built
        BY DEF LInv, IInv, NoFlopNoCredit
      <4> QED BY <4>4, <4>5
    <3>2. CASE occ # 0
      BY <3>2, <2>1, <2>3 DEF BacklogPays
    <3> QED BY <3>1, <3>2
  <2> QED BY <2>4, <2>5, <2>6 DEF CanGo
<1> QED BY <1>1, SpecLInv, PTL

-----------------------------------------------------------------------------
(***************************************************************************)
(* The checkers.  A checker's account is the part of Conservation that is  *)
(* on the receiver's side of it; its stall history is the stall's way to   *)
(* the sender and the silence's way back; its ages are the places, counted *)
(* from the checker round to it again, at which there is a message or the  *)
(* credit for one.                                                         *)
(***************************************************************************)

\* What a checker sees changes its account by what it sees.
LEMMA Counted ==
    ASSUME NEW out \in 0..Depth, NEW valid \in BOOLEAN,
           NEW credit \in BOOLEAN, credit => out # 0
    PROVE  (IF valid /\ ~(credit /\ out # 0) /\ out # OutMax THEN out + 1
            ELSE IF ~valid /\ (credit /\ out # 0) THEN out - 1 ELSE out)
             = out + Bit(valid) - Bit(credit)
<1>1. out \in Int /\ out # OutMax
  BY DepthAssumption, OutMaxAssumption
<1>2. CASE valid /\ credit
  BY <1>1, <1>2 DEF Bit
<1>3. CASE valid /\ ~credit
  BY <1>1, <1>3 DEF Bit
<1>4. CASE ~valid /\ credit
  BY <1>1, <1>4 DEF Bit
<1>5. CASE ~valid /\ ~credit
  BY <1>1, <1>5 DEF Bit
<1> QED BY <1>2, <1>3, <1>4, <1>5

\* The account of a checker whose ages are age and whose count is out, when
\* the messages and credits that are its own stand at the places T of a way
\* of length L: one age for each, the oldest first, and none beyond.
Aging(age, out, T, L) ==
    /\ age \in [0..Depth -> 0..AgeMax]
    /\ \A g \in 0..Depth : g >= out => age[g] = 0
    /\ AgeMax >= L =>
         /\ \A g \in 0..Depth : g < out => age[g] \in T
         /\ \A g, h \in 0..Depth : g < h /\ h < out => age[h] < age[g]
         /\ \A p \in T : \E g \in 0..Depth : g < out /\ age[g] = p

\* The ages after one edge of a checker (Watch).
WatchedAges(age, out, valid, credit) ==
    [g \in 0..Depth |->
       IF valid /\ g = (IF credit /\ out # 0 THEN out - 1 ELSE out) THEN 1
       ELSE IF ~(credit /\ out # 0)
         THEN IF g < out /\ age[g] # AgeMax THEN age[g] + 1 ELSE age[g]
       ELSE IF g = Depth THEN 0
       ELSE IF g + 1 < out /\ age[g + 1] # AgeMax THEN age[g + 1] + 1
                                                 ELSE age[g + 1]]

\* One edge of a checker, on a way on which everything moves every cycle.
LEMMA AgesMove ==
    ASSUME NEW L \in Nat \ {0}, NEW T \in SUBSET (1..L),
           NEW U \in SUBSET (1..L), NEW valid \in BOOLEAN,
           NEW credit \in BOOLEAN, credit <=> L \in T,
           \A p \in 1..L : p \in U <=> (p = 1 /\ valid) \/ (p > 1 /\ p - 1 \in T),
           NEW out \in 0..Depth, credit => out # 0,
           NEW next \in 0..Depth, next = out + Bit(valid) - Bit(credit),
           NEW age, Aging(age, out, T, L)
    PROVE  Aging(WatchedAges(age, out, valid, credit), next, U, L)
<1> DEFINE tail == IF credit THEN out - 1 ELSE out
           aged == [g \in 0..Depth |->
              IF g < out /\ age[g] # AgeMax THEN age[g] + 1 ELSE age[g]]
           age2 == WatchedAges(age, out, valid, credit)
<1>0. ASSUME NEW g \in 0..Depth
      PROVE  age2[g] = IF valid /\ g = tail THEN 1
                       ELSE IF ~credit THEN aged[g]
                       ELSE IF g = Depth THEN 0 ELSE aged[g+1]
  <2>1. g # Depth => g + 1 \in 0..Depth
    BY DepthAssumption
  <2>2. CASE credit
    BY <2>1, <2>2 DEF WatchedAges
  <2>3. CASE ~credit
    BY <2>3 DEF WatchedAges
  <2> QED BY <2>2, <2>3
<1>b. age2 = [g \in 0..Depth |-> age2[g]]
  BY DEF WatchedAges
<1>1. /\ Depth \in Int /\ Depth > 0 /\ AgeMax \in Int /\ AgeMax > 0
      /\ out \in Int /\ 0 <= out /\ out <= Depth
      /\ tail \in Int /\ 0 <= tail /\ tail <= out
      /\ next = tail + Bit(valid)
  BY DepthAssumption, AgeMaxAssumption DEF Bit
<1>a. /\ credit => tail + 1 = out
      /\ ~credit => tail = out
  BY <1>1
<1>2. /\ next \in Int
      /\ valid => next = tail + 1
      /\ ~valid => next = tail
      /\ credit => tail + 1 = out
      /\ ~credit => tail = out
  BY <1>1, <1>a DEF Bit
<1>3. /\ \A g \in 0..Depth : age[g] \in Int /\ 0 <= age[g] /\ age[g] <= AgeMax
      /\ \A g \in 0..Depth : g >= out => age[g] = 0
  BY <1>1 DEF Aging
<1>4. \A g \in 0..Depth : aged[g] \in Int /\ 0 <= aged[g] /\ aged[g] <= AgeMax
  BY <1>1, <1>3
<1>5. \A g \in 0..Depth : g >= out => aged[g] = 0
  BY <1>1, <1>3
<1>c. \A g \in 0..Depth : g < out /\ age[g] # AgeMax => aged[g] = age[g] + 1
  OBVIOUS
<1> HIDE DEF tail, aged, age2
\* Which slot a slot's value comes from.
<1> DEFINE from(g) == IF credit THEN g + 1 ELSE g
<1>6. ASSUME NEW g \in 0..Depth
      PROVE  /\ valid /\ g = tail => age2[g] = 1
             /\ ~(valid /\ g = tail) /\ from(g) \in 0..Depth
                  => age2[g] = aged[from(g)]
             /\ ~(valid /\ g = tail) /\ from(g) \notin 0..Depth
                  => age2[g] = 0
  <2>1. age2[g] = IF valid /\ g = tail THEN 1
              ELSE IF ~credit THEN aged[g]
              ELSE IF g = Depth THEN 0 ELSE aged[g+1]
    BY <1>0
  <2>2. CASE credit
    <3>1. from(g) = g + 1 /\ (g + 1 \in 0..Depth <=> g # Depth)
      BY <2>2, <1>1
    <3> QED BY <2>1, <2>2, <3>1
  <2>3. CASE ~credit
    BY <2>1, <2>3
  <2> QED BY <2>2, <2>3
<1>7. age2 \in [0..Depth -> 0..AgeMax]
  <2> SUFFICES ASSUME NEW g \in 0..Depth PROVE age2[g] \in 0..AgeMax
    BY <1>b
  <2> QED BY <1>1, <1>4, <1>6
<1>8. ASSUME NEW g \in 0..Depth, g >= next PROVE age2[g] = 0
  <2>1. ~(valid /\ g = tail) /\ from(g) >= out
    BY <1>1, <1>2, <1>8
  <2> QED BY <2>1, <1>5, <1>6
<1> HIDE DEF from
<1>9. ASSUME AgeMax >= L
      PROVE  /\ \A g \in 0..Depth : g < next => age2[g] \in U
             /\ \A g, h \in 0..Depth : g < h /\ h < next => age2[h] < age2[g]
             /\ \A p \in U : \E g \in 0..Depth : g < next /\ age2[g] = p
  <2>1. /\ \A g \in 0..Depth : g < out => age[g] \in T
        /\ \A g, h \in 0..Depth : g < h /\ h < out => age[h] < age[g]
        /\ \A p \in T : \E g \in 0..Depth : g < out /\ age[g] = p
    BY <1>9 DEF Aging
  <2>2. ASSUME NEW g \in 0..Depth, g < out
        PROVE  1 <= age[g] /\ age[g] <= L /\ age[g] \in 1..L /\ age[g] \in T
    <3>1. age[g] \in T
      BY <2>1, <2>2
    <3>2. age[g] \in 1..L
      BY <3>1
    <3> QED BY <3>1, <3>2
  \* The oldest has come all the way exactly when its credit is here.
  <2>3. credit => age[0] = L
    <3> SUFFICES ASSUME credit PROVE age[0] = L
      OBVIOUS
    <3>1. PICK g \in 0..Depth : g < out /\ age[g] = L
      BY <2>1
    <3>2. CASE g = 0
      BY <3>1, <3>2
    <3>3. CASE g # 0
      <4>1. 0 \in 0..Depth /\ 0 < g /\ 0 < out
        BY <1>1, <3>1, <3>3
      <4>2. age[g] < age[0] /\ age[0] <= L
        BY <4>1, <3>1, <2>1, <2>2
      <4> QED BY <4>1, <4>2, <3>1, <1>3
    <3> QED BY <3>2, <3>3
  <2>4. ASSUME NEW g \in 0..Depth, g < out, ~credit \/ g # 0
        PROVE  age[g] < L
    <3>1. CASE credit
      <4>1. 0 \in 0..Depth /\ 0 < g /\ g # 0
        BY <1>1, <2>4, <3>1
      <4> QED BY <4>1, <2>1, <2>3, <2>4, <3>1
    <3>2. CASE ~credit
      BY <3>2, <2>1, <2>2, <2>4, <1>3
    <3> QED BY <3>1, <3>2
  <2>5. ASSUME NEW g \in 0..Depth, g < tail
        PROVE  /\ from(g) \in 0..Depth /\ from(g) < out
               /\ age2[g] = age[from(g)] + 1 /\ age[from(g)] < L
               /\ age[from(g)] \in T
    <3>1. from(g) \in 0..Depth /\ from(g) < out /\ (~credit \/ from(g) # 0)
      BY <1>1, <1>2, <2>5 DEF from
    <3>2. age2[g] = aged[from(g)]
      <4>1. g # tail
        BY <1>1, <2>5
      <4> QED BY <4>1, <1>6, <3>1
    <3>3. age[from(g)] < L /\ age[from(g)] # AgeMax
      BY <3>1, <2>4, <1>1, <1>3, <1>9
    <3>4. aged[from(g)] = age[from(g)] + 1
      BY <3>1, <3>3, <1>c
    <3> QED BY <3>1, <3>2, <3>3, <3>4, <2>1
  <2>6. ASSUME NEW g \in 0..Depth, g < next
        PROVE  g < tail \/ (valid /\ g = tail)
    BY <2>6, <1>1, <1>2
  <2>7. ASSUME NEW g \in 0..Depth, g < next PROVE age2[g] \in U
    <3>1. CASE g < tail
      <4> DEFINE a == age[from(g)]
      <4>1. a \in 1..L /\ a < L /\ a \in T /\ age2[g] = a + 1
        BY <2>2, <2>5, <3>1
      <4> HIDE DEF a
      <4>2. a + 1 \in 1..L /\ a + 1 > 1 /\ a + 1 - 1 = a
        BY <4>1
      <4> QED BY <4>1, <4>2
    <3>2. CASE valid /\ g = tail
      <4>1. age2[g] = 1 /\ 1 \in 1..L
        BY <3>2, <1>6
      <4> QED BY <4>1, <3>2
    <3> QED BY <2>6, <2>7, <3>1, <3>2
  <2>8. ASSUME NEW g \in 0..Depth, NEW h \in 0..Depth, g < h, h < next
        PROVE  age2[h] < age2[g]
    <3>1. g < tail
      BY <2>8, <1>1, <1>2
    <3>2. age2[g] = age[from(g)] + 1 /\ age[from(g)] >= 1
          /\ age[from(g)] \in Int /\ from(g) \in 0..Depth /\ from(g) < out
      BY <3>1, <2>5, <2>2, <1>3
    <3>3. CASE h < tail
      <4>1. age2[h] = age[from(h)] + 1 /\ from(h) \in 0..Depth
            /\ from(h) < out /\ age[from(h)] \in Int
        BY <3>3, <2>5, <1>3
      <4>2. from(g) < from(h)
        BY <2>8 DEF from
      <4>3. age[from(h)] < age[from(g)]
        BY <4>1, <4>2, <3>2, <2>1
      <4> QED BY <4>1, <4>3, <3>2
    <3>4. CASE valid /\ h = tail
      <4>1. age2[h] = 1
        BY <3>4, <1>6
      <4> QED BY <4>1, <3>2
    <3> QED BY <2>6, <2>8, <3>3, <3>4
  <2>9. ASSUME NEW p \in U
        PROVE  \E g \in 0..Depth : g < next /\ age2[g] = p
    <3>1. p \in 1..L /\ ((p = 1 /\ valid) \/ (p > 1 /\ p - 1 \in T))
      OBVIOUS
    <3>2. CASE p = 1 /\ valid
      <4>0. next = tail + 1
        BY <3>2, <1>2
      <4>1. tail \in 0..Depth /\ tail < next
        BY <4>0, <1>1
      <4>2. age2[tail] = 1
        BY <3>2, <4>1, <1>6
      <4> QED BY <4>1, <4>2, <3>2
    <3>3. CASE p > 1 /\ p - 1 \in T
      <4>1. PICK h \in 0..Depth : h < out /\ age[h] = p - 1
        BY <3>3, <2>1
      <4>2. credit => h # 0
        BY <4>1, <3>1, <2>3
      <4> DEFINE g == IF credit THEN h - 1 ELSE h
      <4>3. g \in 0..Depth /\ g < tail /\ from(g) = h /\ g < next
        BY <4>1, <4>2, <1>1, <1>2 DEF from
      <4>4. age2[g] = p
        BY <4>1, <4>3, <2>5, <3>1
      <4> QED BY <4>3, <4>4
    <3> QED BY <3>1, <3>2, <3>3
  <2> QED BY <2>7, <2>8, <2>9
<1> QED BY <1>7, <1>8, <1>9 DEF Aging, age2

-----------------------------------------------------------------------------

ResetNoStall == ~rst_n_q => \A k \in Node : ~st[k]

\* What is outstanding at the sender's port: neither still a credit nor a
\* message about to pass the port, nor a credit that has passed it.
SrcAccount ==
    /\ srcOut \in Nat
    /\ srcOut + Bit(v[0]) + Bit(bcr) + credits = Depth

\* What is outstanding at the receiver's: a message it holds, or the credit
\* of one that it put on the wire.
DstAccount == dstOut = occ + Bit(landing) + Bit(cr[N])

\* The stall history h of a checker M stages from the sender: the stall of i
\* cycles ago is i stages nearer to the sender, in its interface flop, or a
\* silence that far from it.
Seen(h, M) ==
    \A i \in 1..(1 + Bit(Built) + 2*M) : h[i] =>
        IF i <= M THEN st[M - i]
        ELSE IF Built /\ i = M + 1 THEN bst
        ELSE ~v[i - (M + 1 + Bit(Built))]

\* The way of a message and then of its credit, from the sender and back.
Busy(p) ==
    IF p <= N THEN v[p] ELSE IF p = N + 1 THEN landing ELSE cr[2*N + 2 - p]

Way(a, L) == {p \in 1..L : Busy(a + p)}

\* A receiver that always drains holds nothing.
Prompt ==
    drains = "always" =>
        /\ occ = 0
        /\ Aging(srcAge, srcOut, Way(0, 2 + 2*N), 2 + 2*N)
        /\ Aging(dstAge, dstOut, Way(N, 2), 2)

CInv == /\ ResetNoStall /\ SrcAccount /\ DstAccount
        /\ Seen(srcStall, 0) /\ Seen(dstStall, N) /\ Prompt

\* A raised flag is counted.
LEMMA HighCounts ==
    ASSUME NEW f \in [Node -> BOOLEAN], NEW k \in Node
    PROVE  Cardinality(High(f)) >= Bit(f[k])
<1>1. IsFiniteSet(High(f)) /\ Cardinality(High(f)) \in Nat
  BY HighFinite
<1>2. f[k] => High(f) # {}
  BY DEF High
<1>3. f[k] => Cardinality(High(f)) # 0
  BY <1>1, <1>2, FS_EmptySet
<1> QED BY <1>1, <1>3 DEF Bit

\* Neither account leaves 0..Depth, and a credit finds a message to answer.
LEMMA AccountFacts ==
    IInv /\ SrcAccount /\ DstAccount
      => /\ srcOut \in 0..Depth /\ (cr[0] => srcOut # 0)
         /\ dstOut \in 0..Depth /\ (cr[N] => dstOut # 0)
<1> SUFFICES ASSUME IInv, SrcAccount, DstAccount
             PROVE  /\ srcOut \in 0..Depth /\ (cr[0] => srcOut # 0)
                    /\ dstOut \in 0..Depth /\ (cr[N] => dstOut # 0)
  OBVIOUS
<1>1. TypeBase /\ Conservation /\ 0 \in Node /\ N \in Node /\ Depth \in Nat
  BY NAssumption, DepthAssumption DEF IInv, Node
<1>2. v \in [Node -> BOOLEAN] /\ cr \in [Node -> BOOLEAN]
  BY <1>1 DEF TypeBase
<1>3. /\ Cardinality(High(v)) \in Nat /\ Cardinality(High(cr)) \in Nat
      /\ Cardinality(High(v)) >= Bit(v[0])
      /\ Cardinality(High(cr)) >= Bit(cr[0])
      /\ Cardinality(High(cr)) >= Bit(cr[N])
  BY <1>1, <1>2, HighFinite, HighCounts
<1>4. /\ credits + (Cardinality(High(v)) + Bit(landing)) + occ
           + (Cardinality(High(cr)) + Bit(bcr)) = Depth
      /\ credits \in Nat /\ occ \in Nat
  BY <1>1 DEF Conservation, OnWire, ComingBack, TypeBase
<1>5. /\ Bit(v[0]) \in Nat /\ Bit(landing) \in Nat /\ Bit(bcr) \in Nat
      /\ Bit(cr[0]) \in Nat /\ Bit(cr[N]) \in Nat
      /\ (cr[0] => Bit(cr[0]) = 1) /\ (cr[N] => Bit(cr[N]) = 1)
  BY DEF Bit
<1>6. srcOut \in 0..Depth /\ (cr[0] => srcOut # 0)
  <2>1. srcOut \in Nat /\ srcOut + Bit(v[0]) + Bit(bcr) + credits = Depth
    BY DEF SrcAccount
  <2> QED BY <2>1, <1>1, <1>3, <1>4, <1>5
<1>7. dstOut \in 0..Depth /\ (cr[N] => dstOut # 0)
  <2>1. dstOut = occ + Bit(landing) + Bit(cr[N])
    BY DEF DstAccount
  <2> QED BY <2>1, <1>1, <1>3, <1>4, <1>5
<1> QED BY <1>6, <1>7

LEMMA AccountBoundsNext ==
    IInv' /\ SrcAccount' /\ DstAccount'
      => srcOut' \in 0..Depth /\ dstOut' \in 0..Depth
<1>1. IInv /\ SrcAccount /\ DstAccount
        => srcOut \in 0..Depth /\ dstOut \in 0..Depth
  BY AccountFacts
<1>2. (IInv /\ SrcAccount /\ DstAccount
        => srcOut \in 0..Depth /\ dstOut \in 0..Depth)'
  BY <1>1, PTL
<1> QED BY <1>2

\* A cycle of the checkers with the link.
CheckStep(go, pop, want, pop_en, stall_in) ==
    /\ LinkStep(go, pop, want, pop_en, stall_in)
    /\ Src!Watch(v[0], cr[0], st[0])
    /\ Dst!Watch(v[N], cr[N], st[N])
    /\ UNCHANGED drains
    /\ drains = "always" => pop_en /\ ~stall_in

\* What a step of the link does to single signals.
LEMMA Signals ==
    ASSUME IInv, NEW want \in BOOLEAN, NEW pop_en \in BOOLEAN,
           NEW stall_in \in BOOLEAN, NEW go \in BOOLEAN, NEW pop \in BOOLEAN,
           LinkStep(go, pop, want, pop_en, stall_in)
    PROVE  /\ v'[0] = go
           /\ \A k \in Node \ {0} : v'[k] = v[k-1]
           /\ landing' = v[N]
           /\ cr'[N] = pop
           /\ \A k \in Node \ {N} : cr'[k] = cr[k+1]
           /\ \A k \in Node \ {N} : st'[k] = (rst_n_q /\ st[k+1])
           /\ bst' = (Built /\ rst_n_q /\ st[0])
           /\ occ' = occ + Bit(landing) - Bit(pop)
           /\ credits' = credits + Bit(CrIn) - Bit(go)
           /\ Bit(bcr') + Bit(CrIn) = Bit(bcr) + Bit(cr[0])
           /\ go => ~Stalled
<1>1. /\ Sender(go) /\ Forward(go) /\ Backward(pop, stall_in)
      /\ Receiver(pop) /\ go = (want /\ CanGo)
      /\ pop = (pop_en /\ Avail # 0)
  BY DEF LinkStep
<1>2. /\ TypeBase /\ ResetQuiet /\ NoFlopNoCredit
      /\ 0 \in Node /\ N \in Node
      /\ CrIn \in BOOLEAN /\ BlkRst \in BOOLEAN
  BY NAssumption, BuiltAssumption
  DEF IInv, Node, TypeBase, CrIn, BlkRst
<1>3. v'[0] = go
  BY <1>1, <1>2 DEF Forward
<1>4. ASSUME NEW k \in Node \ {0} PROVE v'[k] = v[k-1]
  <2>1. k-1 \in Node /\ v'[k] = (rst_n_q /\ v[k-1])
    BY <1>1, NAssumption DEF Forward, Node
  <2> QED BY <2>1, <1>2 DEF ResetQuiet, TypeBase
<1>5. landing' = v[N]
  <2>1. ~BlkRst => v[N] = FALSE
    BY <1>2 DEF BlkRst, ResetQuiet, TypeBase
  <2> QED BY <2>1, <1>1, <1>2 DEF Receiver, TypeBase
<1>6. cr'[N] = pop
  <2>1. cr'[N] = (BlkRst /\ pop)
    BY <1>1, <1>2 DEF Backward
  <2>2. ~BlkRst => Avail = 0
    BY <1>2 DEF BlkRst, ResetQuiet, Bit, Avail
  <2>3. pop => Avail # 0
    BY <1>1
  <2> QED BY <2>1, <2>2, <2>3, <1>2
<1>7. ASSUME NEW k \in Node \ {N} PROVE cr'[k] = cr[k+1]
  <2>1. k+1 \in Node /\ cr'[k] = (rst_n_q /\ cr[k+1])
    BY <1>1, NAssumption DEF Backward, Node
  <2> QED BY <2>1, <1>2 DEF ResetQuiet, TypeBase
<1>8. ASSUME NEW k \in Node \ {N} PROVE st'[k] = (rst_n_q /\ st[k+1])
  BY <1>1 DEF Backward
<1>9. bst' = (Built /\ rst_n_q /\ st[0])
  BY <1>1 DEF Sender
<1>10. occ' = occ + Bit(landing) - Bit(pop)
  BY <1>1, <1>2 DEF Receiver, TypeBase, Bit, Avail
<1>11. credits' = credits + Bit(CrIn) - Bit(go)
  BY <1>1, <1>2 DEF Sender, Bit, TypeBase
<1>12. Bit(bcr') + Bit(CrIn) = Bit(bcr) + Bit(cr[0])
  <2>1. CASE Built
    <3>1. bcr' = cr[0]
      BY <2>1, <1>1, <1>2 DEF Sender, ResetQuiet, TypeBase
    <3> QED BY <3>1, <2>1 DEF CrIn, Bit
  <2>2. CASE ~Built
    <3>1. bcr' = FALSE /\ bcr = FALSE
      BY <2>2, <1>1, <1>2 DEF Sender, NoFlopNoCredit, TypeBase
    <3> QED BY <3>1, <2>2 DEF CrIn, Bit
  <2> QED BY <2>1, <2>2
<1>13. go => ~Stalled
  BY <1>1 DEF CanGo
<1> QED BY <1>3, <1>4, <1>5, <1>6, <1>7, <1>8, <1>9, <1>10, <1>11, <1>12, <1>13

LEMMA AccountsStay ==
    ASSUME IInv, SrcAccount, DstAccount, NEW want \in BOOLEAN,
           NEW pop_en \in BOOLEAN, NEW stall_in \in BOOLEAN,
           NEW go \in BOOLEAN, NEW pop \in BOOLEAN, IInv',
           CheckStep(go, pop, want, pop_en, stall_in)
    PROVE  /\ SrcAccount' /\ DstAccount'
           /\ srcOut' = srcOut + Bit(v[0]) - Bit(cr[0])
           /\ dstOut' = dstOut + Bit(v[N]) - Bit(cr[N])
<1>1. LinkStep(go, pop, want, pop_en, stall_in)
  BY DEF CheckStep
<1>2. /\ TypeBase /\ TypeBase' /\ 0 \in Node /\ N \in Node /\ Depth \in Nat
  BY NAssumption, DepthAssumption DEF IInv, Node
<1>3. v[0] \in BOOLEAN /\ v[N] \in BOOLEAN /\ cr[0] \in BOOLEAN
      /\ cr[N] \in BOOLEAN
  BY <1>2 DEF TypeBase
<1>4. srcOut' = srcOut + Bit(v[0]) - Bit(cr[0])
  <2>1. srcOut' = IF v[0] /\ ~(cr[0] /\ srcOut # 0) /\ srcOut # OutMax
                    THEN srcOut + 1
                  ELSE IF ~v[0] /\ (cr[0] /\ srcOut # 0) THEN srcOut - 1
                  ELSE srcOut
    BY DEF CheckStep, Src!Watch
  <2> QED BY <2>1, <1>3, AccountFacts, Counted
<1>5. dstOut' = dstOut + Bit(v[N]) - Bit(cr[N])
  <2>1. dstOut' = IF v[N] /\ ~(cr[N] /\ dstOut # 0) /\ dstOut # OutMax
                    THEN dstOut + 1
                  ELSE IF ~v[N] /\ (cr[N] /\ dstOut # 0) THEN dstOut - 1
                  ELSE dstOut
    BY DEF CheckStep, Dst!Watch
  <2> QED BY <2>1, <1>3, AccountFacts, Counted
<1>6. /\ v'[0] = go /\ landing' = v[N] /\ cr'[N] = pop
      /\ occ' = occ + Bit(landing) - Bit(pop)
      /\ credits' = credits + Bit(CrIn) - Bit(go)
      /\ Bit(bcr') + Bit(CrIn) = Bit(bcr) + Bit(cr[0])
  BY <1>1, Signals
<1>7. /\ Bit(v[0]) \in Int /\ Bit(cr[0]) \in Int /\ Bit(go) \in Int
      /\ Bit(CrIn) \in Int /\ Bit(bcr) \in Int /\ Bit(bcr') \in Int
      /\ Bit(v[N]) \in Int /\ Bit(cr[N]) \in Int /\ Bit(landing) \in Int
      /\ Bit(pop) \in Int /\ credits \in Int /\ occ \in Int
      /\ srcOut \in Nat /\ dstOut \in Int /\ (cr[0] => srcOut # 0)
      /\ (cr[0] => Bit(cr[0]) = 1) /\ (~cr[0] => Bit(cr[0]) = 0)
      /\ Bit(v[0]) >= 0
  BY <1>2, AccountFacts DEF Bit, TypeBase
<1>8. SrcAccount'
  <2>1. srcOut + Bit(v[0]) + Bit(bcr) + credits = Depth
    BY DEF SrcAccount
  <2> DEFINE n == srcOut'
             c == credits'
             b == Bit(bcr')
  <2>a. /\ n = srcOut + Bit(v[0]) - Bit(cr[0])
        /\ c = credits + Bit(CrIn) - Bit(go)
        /\ b + Bit(CrIn) = Bit(bcr) + Bit(cr[0])
        /\ b \in Int
    BY <1>4, <1>6, <1>7
  <2> HIDE DEF n, c, b
  <2>b. n + Bit(go) + b + c = Depth /\ n \in Nat
    <3>1. n \in Int /\ c \in Int
      BY <2>a, <1>7
    <3>2. n >= 0
      BY <2>a, <1>7
    <3> QED BY <3>1, <3>2, <2>1, <2>a, <1>2, <1>7
  <2>2. /\ srcOut' + Bit(go) + Bit(bcr') + credits' = Depth
        /\ srcOut' \in Nat
    BY <2>b DEF n, b, c
  <2>3. Bit(v[0])' = Bit(go) /\ Bit(bcr)' = Bit(bcr')
    BY <1>6 DEF Bit
  <2> QED BY <2>2, <2>3 DEF SrcAccount
<1>9. DstAccount'
  <2>1. dstOut = occ + Bit(landing) + Bit(cr[N])
    BY DEF DstAccount
  <2>2. dstOut' = occ' + Bit(v[N]) + Bit(pop)
    BY <2>1, <1>5, <1>6, <1>7
  <2>3. Bit(landing)' = Bit(v[N]) /\ Bit(cr[N])' = Bit(pop)
    BY <1>6 DEF Bit
  <2> QED BY <2>2, <2>3 DEF DstAccount
<1> QED BY <1>4, <1>5, <1>8, <1>9

\* A checker's history moves with the stall and the silence.
LEMMA SeenMoves ==
    ASSUME IInv, ResetNoStall, NEW want \in BOOLEAN, NEW pop_en \in BOOLEAN,
           NEW stall_in \in BOOLEAN, NEW go \in BOOLEAN, NEW pop \in BOOLEAN,
           LinkStep(go, pop, want, pop_en, stall_in),
           NEW M \in Node, NEW h, NEW h2, Seen(h, M),
           h2 = [i \in 1..(1 + Bit(Built) + 2*M) |->
                   IF i = 1 THEN st[M] ELSE h[i-1]],
           NEW i \in 1..(1 + Bit(Built) + 2*M), h2[i]
    PROVE  IF i <= M THEN st'[M - i]
           ELSE IF Built /\ i = M + 1 THEN bst'
           ELSE ~v'[i - (M + 1 + Bit(Built))]
<1>1. M \in Int /\ 0 <= M /\ M <= N /\ N \in Int /\ i \in Int /\ 1 <= i
      /\ Bit(Built) \in Int /\ 0 <= Bit(Built) /\ Bit(Built) <= 1
      /\ i <= 1 + Bit(Built) + 2*M
  BY NAssumption DEF Node, Bit
<1>2. v'[0] = go /\ (go => ~Stalled)
      /\ (\A k \in Node \ {0} : v'[k] = v[k-1])
      /\ (\A k \in Node \ {N} : st'[k] = (rst_n_q /\ st[k+1]))
      /\ bst' = (Built /\ rst_n_q /\ st[0])
  BY Signals
<1>3. h2[i] = IF i = 1 THEN st[M] ELSE h[i-1]
  OBVIOUS
<1>4. i > 1 => i - 1 \in 1..(1 + Bit(Built) + 2*M) /\ h[i-1]
  BY <1>1, <1>3
<1>5. CASE i <= M
  <2>1. M - i \in Node \ {N} /\ M - i + 1 \in Node
    BY <1>1, <1>5 DEF Node
  <2>2. st[M - i + 1]
    <3>1. CASE i = 1
      <4>1. M - i + 1 = M
        BY <3>1, <1>1
      <4> QED BY <4>1, <3>1, <1>3
    <3>2. CASE i # 1
      <4>1. i - 1 <= M /\ M - (i - 1) = M - i + 1
        BY <1>1, <1>5
      <4> QED BY <4>1, <3>2, <1>1, <1>4 DEF Seen
    <3> QED BY <3>1, <3>2
  <2>3. rst_n_q
    BY <2>1, <2>2 DEF ResetNoStall
  <2>4. st'[M - i]
    BY <2>1, <2>2, <2>3, <1>2
  <2> QED BY <2>4, <1>5
<1>6. CASE i = M + 1
  <2>1. st[0] /\ 0 \in Node
    <3>1. CASE M = 0
      BY <3>1, <1>1, <1>3, <1>6 DEF Node
    <3>2. CASE M # 0
      <4>1. i > 1 /\ i - 1 <= M /\ M - (i - 1) = 0 /\ 0 \in Node
        BY <3>2, <1>1, <1>6 DEF Node
      <4> QED BY <4>1, <1>4 DEF Seen
    <3> QED BY <3>1, <3>2
  <2>2. rst_n_q /\ ~(i <= M)
    BY <2>1, <1>1, <1>6 DEF ResetNoStall
  <2>3. CASE Built
    BY <2>1, <2>2, <2>3, <1>2, <1>6
  <2>4. CASE ~Built
    <3>1. ~v'[0]
      BY <2>1, <2>4, <1>2 DEF Stalled
    <3>0. Bit(Built) = 0
      BY <2>4 DEF Bit
    <3>2. i - (M + 1 + Bit(Built)) = 0
      BY <3>0, <1>1, <1>6
    <3> QED BY <3>1, <3>2, <2>2, <2>4
  <2> QED BY <2>3, <2>4
<1>7. CASE i > M + 1
  <2> DEFINE k == i - (M + 1 + Bit(Built))
  <2>1. k \in Node /\ k \in Int /\ ~(i <= M) /\ ~(i = M + 1)
    BY <1>1, <1>7 DEF Node
  <2>2. CASE k = 0
    <3>1. Built
      BY <2>2, <1>1, <1>7 DEF Bit
    <3>2. Bit(Built) = 1
      BY <3>1 DEF Bit
    <3>3. i - 1 = M + 1
      BY <2>2, <3>2, <1>1
    <3>4. bst
      <4>1. i > 1 /\ ~(i - 1 <= M)
        BY <3>3, <1>1
      <4> QED BY <4>1, <3>1, <3>3, <1>4 DEF Seen
    <3>5. ~v'[0]
      BY <3>1, <3>4, <1>2 DEF Stalled
    <3> QED BY <3>5, <2>1, <2>2
  <2>3. CASE k # 0
    <3>1. ~(i - 1 <= M) /\ i > 1
      BY <1>1, <1>7
    <3>2. ~(Built /\ i - 1 = M + 1)
      <4> SUFFICES ASSUME Built, i - 1 = M + 1 PROVE FALSE
        OBVIOUS
      <4>1. Bit(Built) = 1
        BY DEF Bit
      <4>2. i = M + 2
        BY <1>1
      <4>3. i - (M + 1 + 1) = 0
        BY <4>2, <1>1
      <4>4. k = 0
        BY <4>1, <4>3
      <4> QED BY <4>4, <2>3
    <3>3. (i - 1) - (M + 1 + Bit(Built)) = k - 1
      BY <1>1
    <3>4. ~v[k-1]
      BY <3>1, <3>2, <3>3, <1>4 DEF Seen
    <3>5. ~v'[k]
      BY <3>4, <2>1, <2>3, <1>2
    <3> QED BY <3>5, <2>1
  <2> QED BY <2>2, <2>3
<1> QED BY <1>1, <1>5, <1>6, <1>7

LEMMA SeenStays ==
    ASSUME IInv, CInv, NEW want \in BOOLEAN, NEW pop_en \in BOOLEAN,
           NEW stall_in \in BOOLEAN, NEW go \in BOOLEAN, NEW pop \in BOOLEAN,
           CheckStep(go, pop, want, pop_en, stall_in)
    PROVE  Seen(srcStall, 0)' /\ Seen(dstStall, N)'
<1>1. LinkStep(go, pop, want, pop_en, stall_in) /\ ResetNoStall
      /\ Seen(srcStall, 0) /\ Seen(dstStall, N)
  BY DEF CheckStep, CInv
<1>2. 0 \in Node /\ N \in Node /\ Bit(Built) + 2*0 = Bit(Built)
      /\ 1 + Bit(Built) + 2*0 = 1 + Bit(Built)
  BY NAssumption DEF Node, Bit
<1>3. /\ srcStall' = [i \in 1..(1 + Bit(Built) + 2*0) |->
                        IF i = 1 THEN st[0] ELSE srcStall[i-1]]
      /\ dstStall' = [i \in 1..(1 + Bit(Built) + 2*N) |->
                        IF i = 1 THEN st[N] ELSE dstStall[i-1]]
  BY <1>2 DEF CheckStep, Src!Watch, Dst!Watch
<1>4. ASSUME NEW i \in 1..(1 + Bit(Built) + 2*0), srcStall'[i]
      PROVE  IF i <= 0 THEN st'[0 - i]
             ELSE IF Built /\ i = 0 + 1 THEN bst'
             ELSE ~v'[i - (0 + 1 + Bit(Built))]
  BY <1>1, <1>2, <1>3, <1>4, SeenMoves
<1>5. ASSUME NEW i \in 1..(1 + Bit(Built) + 2*N), dstStall'[i]
      PROVE  IF i <= N THEN st'[N - i]
             ELSE IF Built /\ i = N + 1 THEN bst'
             ELSE ~v'[i - (N + 1 + Bit(Built))]
  BY <1>1, <1>2, <1>3, <1>5, SeenMoves
<1>6. Seen(srcStall, 0)'
  BY <1>4 DEF Seen, Bit
<1>7. Seen(dstStall, N)'
  BY <1>5 DEF Seen, Bit
<1> QED BY <1>6, <1>7

\* With a receiver that always drains, everything on the way moves one place
\* every cycle, and what passed the last place is gone.
LEMMA WayMoves ==
    ASSUME IInv, occ = 0, NEW want \in BOOLEAN, NEW pop_en \in BOOLEAN,
           NEW stall_in \in BOOLEAN, NEW go \in BOOLEAN, NEW pop \in BOOLEAN,
           LinkStep(go, pop, want, pop_en, stall_in), pop_en
    PROVE  /\ occ' = 0
           /\ \A p \in 1..(2 + 2*N) : Busy(p)' <=> Busy(p - 1)
<1>1. /\ \A k \in Node \ {0} : v'[k] = v[k-1]
      /\ landing' = v[N] /\ cr'[N] = pop
      /\ \A k \in Node \ {N} : cr'[k] = cr[k+1]
      /\ occ' = occ + Bit(landing) - Bit(pop)
  BY Signals, ZenonT(60)
<1>2. pop = landing
  <2>1. Avail # 0 <=> landing
    BY DEF Avail, Bit, IInv, TypeBase
  <2>2. landing \in BOOLEAN
    BY DEF IInv, TypeBase
  <2> QED BY <2>1, <2>2, Zenon DEF LinkStep
<1>3. occ' = 0
  BY <1>1, <1>2 DEF Bit
<1>4. ASSUME NEW p \in 1..(2 + 2*N) PROVE Busy(p)' <=> Busy(p - 1)
  <2>1. p \in Int /\ 1 <= p /\ p <= 2 + 2*N /\ N \in Int /\ 0 <= N
    BY NAssumption
  <2>2. CASE p <= N
    <3>1. p \in Node \ {0} /\ p - 1 <= N
      BY <2>1, <2>2 DEF Node
    <3> QED BY <3>1, <2>2, <1>1 DEF Busy
  <2>3. CASE p = N + 1
    <3>1. ~(p <= N) /\ p - 1 <= N /\ p - 1 = N
      BY <2>1, <2>3
    <3> QED BY <3>1, <2>3, <1>1 DEF Busy
  <2>4. CASE p = N + 2
    <3>1. ~(p <= N) /\ ~(p = N + 1) /\ ~(p - 1 <= N) /\ p - 1 = N + 1
          /\ 2*N + 2 - p = N
      BY <2>1, <2>4
    <3> QED BY <3>1, <1>1, <1>2 DEF Busy
  <2>5. CASE p > N + 2
    <3> DEFINE k == 2*N + 2 - p
    <3>1. ~(p <= N) /\ ~(p = N + 1) /\ ~(p - 1 <= N) /\ ~(p - 1 = N + 1)
          /\ k \in Node \ {N} /\ 2*N + 2 - (p - 1) = k + 1
      BY <2>1, <2>5 DEF Node
    <3> HIDE DEF k
    <3>2. cr'[k] = cr[k+1]
      BY <3>1, <1>1
    <3>3. 2*N + 2 - p = k
      BY DEF k
    <3> QED BY <3>1, <3>2, <3>3 DEF Busy
  <2> QED BY <2>1, <2>2, <2>3, <2>4, <2>5
<1> QED BY <1>3, <1>4

\* Both checkers' ages stay on their ways.
LEMMA PromptStays ==
    ASSUME IInv, CInv, NEW want \in BOOLEAN, NEW pop_en \in BOOLEAN,
           NEW stall_in \in BOOLEAN, NEW go \in BOOLEAN, NEW pop \in BOOLEAN,
           IInv', CheckStep(go, pop, want, pop_en, stall_in)
    PROVE  Prompt'
<1> SUFFICES ASSUME drains = "always" PROVE
      /\ occ' = 0
      /\ Aging(srcAge', srcOut', Way(0, 2 + 2*N)', 2 + 2*N)
      /\ Aging(dstAge', dstOut', Way(N, 2)', 2)
  BY DEF Prompt, CheckStep, Aging
<1>1. /\ LinkStep(go, pop, want, pop_en, stall_in) /\ pop_en
      /\ SrcAccount /\ DstAccount /\ occ = 0
      /\ Aging(srcAge, srcOut, Way(0, 2 + 2*N), 2 + 2*N)
      /\ Aging(dstAge, dstOut, Way(N, 2), 2)
  BY DEF CheckStep, CInv, Prompt
<1>2. /\ occ' = 0
      /\ \A p \in 1..(2 + 2*N) : Busy(p)' <=> Busy(p - 1)
  BY <1>1, WayMoves
<1>3. N \in Int /\ 0 <= N /\ 0 \in Node /\ N \in Node
  BY NAssumption DEF Node
<1>4. /\ v[0] \in BOOLEAN /\ v[N] \in BOOLEAN /\ cr[0] \in BOOLEAN
      /\ cr[N] \in BOOLEAN /\ landing \in BOOLEAN
  BY <1>3 DEF IInv, TypeBase
<1>5. /\ srcOut \in 0..Depth /\ (cr[0] => srcOut # 0)
      /\ dstOut \in 0..Depth /\ (cr[N] => dstOut # 0)
  BY <1>1, AccountFacts
<1>6. /\ SrcAccount' /\ DstAccount'
      /\ srcOut' = srcOut + Bit(v[0]) - Bit(cr[0])
      /\ dstOut' = dstOut + Bit(v[N]) - Bit(cr[N])
  BY <1>1, AccountsStay
<1>7. srcOut' \in 0..Depth /\ dstOut' \in 0..Depth
  BY <1>6, AccountBoundsNext
<1>8. Aging(srcAge', srcOut', Way(0, 2 + 2*N)', 2 + 2*N)
  <2> DEFINE L == 2 + 2*N
             T == Way(0, L)
             U == Way(0, L)'
  <2>1. L \in Nat \ {0} /\ T \in SUBSET (1..L) /\ U \in SUBSET (1..L)
    BY NAssumption DEF Way
  <2>2. cr[0] <=> L \in T
    <3>1. L \in 1..L /\ 0 + L = L /\ ~(L <= N) /\ ~(L = N + 1)
          /\ 2*N + 2 - L = 0
      BY <1>3
    <3> QED BY <3>1 DEF Way, Busy
  <2>3. \A p \in 1..L : p \in U <=> (p = 1 /\ v[0]) \/ (p > 1 /\ p - 1 \in T)
    <3> SUFFICES ASSUME NEW p \in 1..L
                 PROVE  p \in U <=> (p = 1 /\ v[0]) \/ (p > 1 /\ p - 1 \in T)
      OBVIOUS
    <3>1. p \in Int /\ 0 + p = p /\ 0 + (p - 1) = p - 1 /\ 1 <= p /\ p <= L
      OBVIOUS
    <3>2. p \in U <=> Busy(0 + p)'
      BY DEF Way
    <3>3. p \in U <=> Busy(p - 1)
      BY <3>1, <3>2, <1>2
    <3>4. CASE p = 1
      <4>1. p - 1 = 0 /\ ~(p > 1)
        BY <3>4
      <4>2. Busy(0) <=> v[0]
        BY <1>3 DEF Busy
      <4> QED BY <4>1, <4>2, <3>3, <3>4
    <3>5. CASE p # 1
      <4>1. p > 1 /\ p - 1 \in 1..L
        BY <2>1, <3>1, <3>5
      <4>2. p - 1 \in T <=> Busy(p - 1)
        BY <4>1, <3>1 DEF Way
      <4> QED BY <4>1, <4>2, <3>3, <3>5
    <3> QED BY <3>4, <3>5
  <2>4. srcAge' = WatchedAges(srcAge, srcOut, v[0], cr[0])
    BY DEF CheckStep, WatchedAges, Src!Watch, Src!Slots,
       Src!Shifted, Src!Aged
  <2>6. Aging(srcAge, srcOut, T, L)
    BY <1>1
  <2> HIDE DEF L, T, U
  <2>8. Aging(WatchedAges(srcAge, srcOut, v[0], cr[0]), srcOut', U, L)
    BY <2>1, <2>2, <2>3, <2>6, <1>4, <1>5, <1>6, <1>7, AgesMove
  <2> QED BY <2>4, <2>8 DEF U, L
<1>9. Aging(dstAge', dstOut', Way(N, 2)', 2)
  <2> DEFINE T == Way(N, 2)
             U == Way(N, 2)'
  <2>1. 2 \in Nat \ {0} /\ T \in SUBSET (1..2) /\ U \in SUBSET (1..2)
    BY DEF Way
  <2>2. cr[N] <=> 2 \in T
    <3>1. 2 \in 1..2 /\ ~(N + 2 <= N) /\ ~(N + 2 = N + 1)
          /\ 2*N + 2 - (N + 2) = N
      BY <1>3
    <3> QED BY <3>1 DEF Way, Busy
  <2>3. \A p \in 1..2 : p \in U <=> (p = 1 /\ v[N]) \/ (p > 1 /\ p - 1 \in T)
    <3> SUFFICES ASSUME NEW p \in 1..2
                 PROVE  p \in U <=> (p = 1 /\ v[N]) \/ (p > 1 /\ p - 1 \in T)
      OBVIOUS
    <3>1. N + p \in 1..(2 + 2*N) /\ (N + p) - 1 = N + (p - 1)
      BY <1>3
    <3>2. p \in U <=> Busy(N + p)'
      BY DEF Way
    <3>3. p \in U <=> Busy(N + (p - 1))
      BY <3>1, <3>2, <1>2
    <3>4. CASE p = 1
      <4>1. N + (p - 1) = N /\ ~(p > 1)
        BY <3>4, <1>3
      <4>2. Busy(N) <=> v[N]
        BY <1>3 DEF Busy
      <4> QED BY <4>1, <4>2, <3>3, <3>4
    <3>5. CASE p # 1
      <4>1. p > 1 /\ p - 1 \in 1..2
        BY <3>5
      <4>2. p - 1 \in T <=> Busy(N + (p - 1))
        BY <4>1 DEF Way
      <4> QED BY <4>1, <4>2, <3>3, <3>5
    <3> QED BY <3>4, <3>5
  <2>4. dstAge' = WatchedAges(dstAge, dstOut, v[N], cr[N])
    BY DEF CheckStep, WatchedAges, Dst!Watch, Dst!Slots,
       Dst!Shifted, Dst!Aged
  <2>6. Aging(dstAge, dstOut, T, 2)
    BY <1>1
  <2> HIDE DEF T, U
  <2>8. Aging(WatchedAges(dstAge, dstOut, v[N], cr[N]), dstOut', U, 2)
    BY <2>1, <2>2, <2>3, <2>6, <1>4, <1>5, <1>6, <1>7, AgesMove
  <2> QED BY <2>4, <2>8 DEF U
<1> QED BY <1>2, <1>8, <1>9

LEMMA CheckedInitCInv == CheckedInit => CInv
<1> SUFFICES ASSUME CheckedInit PROVE CInv
  OBVIOUS
<1>1. /\ Init /\ srcOut = 0 /\ dstOut = 0
      /\ srcAge = [g \in 0..Depth |-> 0] /\ dstAge = [g \in 0..Depth |-> 0]
      /\ srcStall = [i \in 1..(1 + Bit(Built)) |-> FALSE]
      /\ dstStall = [i \in 1..(1 + Bit(Built) + 2*N) |-> FALSE]
  BY DEF CheckedInit, Src!CheckerInit, Dst!CheckerInit, Src!Slots, Dst!Slots
<1>2. 0 \in Node /\ N \in Node /\ N \in Int /\ 0 <= N /\ Depth \in Nat
      /\ Bit(Built) \in 0..1 /\ 0 \in 0..AgeMax
  BY NAssumption, DepthAssumption, AgeMaxAssumption DEF Node, Bit
<1>3. v[0] = FALSE /\ cr[N] = FALSE /\ credits = Depth /\ occ = 0
      /\ bcr = FALSE /\ landing = FALSE
  BY <1>1, <1>2 DEF Init
<1>4. ResetNoStall
  BY <1>1 DEF Init, ResetNoStall
<1>5. SrcAccount /\ DstAccount
  BY <1>1, <1>2, <1>3 DEF SrcAccount, DstAccount, Bit
<1>6. Seen(srcStall, 0)
  <2> SUFFICES ASSUME NEW i \in 1..(1 + Bit(Built) + 2*0) PROVE ~srcStall[i]
    BY DEF Seen
  <2>1. i \in 1..(1 + Bit(Built))
    BY <1>2
  <2> QED BY <2>1, <1>1
<1>7. Seen(dstStall, N)
  BY <1>1 DEF Seen
<1>8. Prompt
  <2>1. \A p \in 0..(2 + 2*N) : ~Busy(p)
    <3> SUFFICES ASSUME NEW p \in 0..(2 + 2*N) PROVE ~Busy(p)
      OBVIOUS
    <3>1. CASE p <= N
      <4>1. p \in Node
        BY <3>1, <1>2 DEF Node
      <4> QED BY <4>1, <3>1, <1>1 DEF Busy, Init
    <3>2. CASE p = N + 1
      BY <3>2, <1>2, <1>3 DEF Busy
    <3>3. CASE ~(p <= N) /\ p # N + 1
      <4>1. 2*N + 2 - p \in Node
        BY <3>3, <1>2 DEF Node
      <4> QED BY <4>1, <3>3, <1>1 DEF Busy, Init
    <3> QED BY <3>1, <3>2, <3>3
  <2>2. Way(0, 2 + 2*N) = {} /\ Way(N, 2) = {}
    <3>1. \A p \in 1..(2 + 2*N) : 0 + p \in 0..(2 + 2*N)
      BY <1>2
    <3>2. \A p \in 1..2 : N + p \in 0..(2 + 2*N)
      BY <1>2
    <3> QED BY <2>1, <3>1, <3>2 DEF Way
  <2>3. ASSUME NEW L PROVE Aging([g \in 0..Depth |-> 0], 0, {}, L)
    BY <1>2 DEF Aging
  <2> QED BY <2>2, <2>3, <1>1, <1>3 DEF Prompt
<1> QED BY <1>4, <1>5, <1>6, <1>7, <1>8 DEF CInv

LEMMA SpecCInv == CheckedSpec => [](LInv /\ CInv)
<1>1. LInv /\ LInv' /\ CInv /\ [CheckedNext]_checkedVars => CInv'
  <2> SUFFICES ASSUME LInv, LInv', CInv, [CheckedNext]_checkedVars PROVE CInv'
    OBVIOUS
  <2>1. CASE CheckedNext
    <3>1. PICK want \in BOOLEAN, pop_en \in BOOLEAN, stall_in \in BOOLEAN :
            /\ drains = "always" => pop_en /\ ~stall_in
            /\ Cycle(want, pop_en, stall_in)
            /\ Src!Watch(v[0], cr[0], st[0])
            /\ Dst!Watch(v[N], cr[N], st[N])
            /\ UNCHANGED drains
      BY <2>1 DEF CheckedNext
    <3> DEFINE go == want /\ CanGo
               pop == pop_en /\ Avail # 0
    <3>2. go \in BOOLEAN /\ pop \in BOOLEAN
      BY DEF CanGo
    <3>3. CheckStep(go, pop, want, pop_en, stall_in)
      BY <3>1 DEF Cycle, LinkStep, CheckStep
    <3>4. IInv /\ IInv' /\ SrcAccount /\ DstAccount
      BY DEF LInv, CInv
    <3>5. ResetNoStall'
      BY <3>1 DEF Cycle, ResetNoStall
    <3> HIDE DEF go, pop
    <3>6. SrcAccount' /\ DstAccount'
      BY <3>2, <3>3, <3>4, AccountsStay
    <3>7. Seen(srcStall, 0)' /\ Seen(dstStall, N)'
      BY <3>2, <3>3, <3>4, SeenStays
    <3>8. Prompt'
      BY <3>2, <3>3, <3>4, PromptStays
    <3> QED BY <3>5, <3>6, <3>7, <3>8 DEF CInv
  <2>2. CASE UNCHANGED checkedVars
    <3>1. ResetNoStall' /\ SrcAccount' /\ DstAccount'
      BY <2>2 DEF CInv, ResetNoStall, SrcAccount, DstAccount, Bit, checkedVars,
         checkerVars, vars, senderVars, wireVars, receiverVars
    <3>2. Seen(srcStall, 0)' /\ Seen(dstStall, N)'
      BY <2>2 DEF CInv, Seen, Bit, checkedVars, checkerVars, vars, senderVars,
         wireVars, receiverVars
    <3>3. Prompt'
      BY <2>2 DEF CInv, Prompt, Aging, Way, Busy, checkedVars, checkerVars,
         vars, wireVars, receiverVars
    <3> QED BY <3>1, <3>2, <3>3 DEF CInv
  <2> QED BY <2>1, <2>2
<1>2. CheckedSpec => CInv /\ [][CheckedNext]_checkedVars
  BY CheckedInitCInv DEF CheckedSpec, checkedVars
<1> QED BY <1>1, <1>2, SpecLInv, PTL

(***************************************************************************)
(* Neither checker ever reports a correct link, wherever on it the checker *)
(* stands: its count never passes the depth and never meets a credit it    *)
(* has no message for, its stall rule allows for exactly the way there and *)
(* back, and on a fixed-latency channel its bound of a round trip holds,   *)
(* its saturating counters included.                                       *)
(***************************************************************************)
THEOREM NothingReported == CheckedSpec => []NoFalseReport
<1>1. LInv /\ CInv => NoFalseReport
  <2> SUFFICES ASSUME LInv, CInv PROVE NoFalseReport
    OBVIOUS
  <2>1. IInv /\ SrcAccount /\ DstAccount /\ Seen(srcStall, 0)
        /\ Seen(dstStall, N) /\ Prompt
    BY DEF LInv, CInv
  <2>2. N \in Int /\ 0 <= N /\ 0 \in Node /\ N \in Node /\ Depth \in Nat
        /\ Bit(Built) \in 0..1
    BY NAssumption, DepthAssumption DEF Node, Bit
  <2>3. /\ srcOut \in 0..Depth /\ (cr[0] => srcOut # 0)
        /\ dstOut \in 0..Depth /\ (cr[N] => dstOut # 0)
    BY <2>1, AccountFacts
  <2>4. Src!no_overrun /\ Dst!no_overrun
    BY <2>2, <2>3 DEF Src!no_overrun, Dst!no_overrun
  <2>5. Src!no_phantom_credit(cr[0]) /\ Dst!no_phantom_credit(cr[N])
    BY <2>3 DEF Src!no_phantom_credit, Dst!no_phantom_credit
  <2>6. ASSUME NEW h, NEW M \in Node, Seen(h, M), h[1 + Bit(Built) + 2*M]
        PROVE  ~v[M]
    <3> DEFINE i == 1 + Bit(Built) + 2*M
    <3>1. M \in Int /\ 0 <= M /\ Bit(Built) \in Int /\ 0 <= Bit(Built)
      BY <2>2 DEF Node
    <3>2. i \in 1..(1 + Bit(Built) + 2*M) /\ ~(i <= M)
          /\ i - (M + 1 + Bit(Built)) = M
      BY <3>1
    <3>3. CASE Built /\ i = M + 1
      <4>1. Bit(Built) = 1
        BY <3>3 DEF Bit
      <4> QED BY <4>1, <3>1, <3>3
    <3> HIDE DEF i
    <3>4. CASE ~(Built /\ i = M + 1)
      <4>1. h[i]
        BY <2>6 DEF i
      <4> QED BY <4>1, <3>2, <3>4, <2>6 DEF Seen
    <3> QED BY <3>3, <3>4
  <2>7. Src!stall_honoured(v[0])
    <3>1. srcStall[1 + Bit(Built) + 2*0] => ~v[0]
      BY <2>1, <2>2, <2>6
    <3>2. 1 + Bit(Built) + 2*0 = 1 + Bit(Built)
      BY <2>2
    <3> QED BY <3>1, <3>2 DEF Src!stall_honoured
  <2>8. Dst!stall_honoured(v[N])
    BY <2>1, <2>2, <2>6 DEF Dst!stall_honoured
  <2>9. ASSUME NEW age, NEW out \in 0..Depth, NEW L \in Nat, NEW T,
               T \subseteq 1..L, Aging(age, out, T, L)
        PROVE  age[0] <= L
    <3>1. 0 \in 0..Depth /\ age[0] \in 0..AgeMax
      BY <2>2, <2>9 DEF Aging
    <3>2. CASE 0 >= out
      BY <3>1, <3>2, <2>9 DEF Aging
    <3>3. CASE 0 < out /\ AgeMax >= L
      <4>1. age[0] \in T
        BY <3>1, <3>3, <2>9 DEF Aging
      <4>2. age[0] \in 1..L
        BY <4>1, <2>9
      <4> QED BY <4>2
    <3>4. CASE AgeMax < L
      BY <3>1, <3>4, AgeMaxAssumption
    <3> QED BY <3>2, <3>3, <3>4, <2>2, AgeMaxAssumption
  <2>10. ASSUME drains = "always"
         PROVE  /\ Src!fixed_latency_prompt(2 + 2*N)
                /\ Dst!fixed_latency_prompt(2)
    <3>1. /\ Aging(srcAge, srcOut, Way(0, 2 + 2*N), 2 + 2*N)
          /\ Aging(dstAge, dstOut, Way(N, 2), 2)
      BY <2>1, <2>10 DEF Prompt
    <3>2. /\ Way(0, 2 + 2*N) \subseteq 1..(2 + 2*N) /\ Way(N, 2) \subseteq 1..2
          /\ 2 + 2*N \in Nat /\ 2 \in Nat
      BY <2>2 DEF Way
    <3>3. srcAge[0] <= 2 + 2*N /\ dstAge[0] <= 2
      BY <3>1, <3>2, <2>3, <2>9
    <3> QED BY <3>3 DEF Src!fixed_latency_prompt, Dst!fixed_latency_prompt
  <2> QED BY <2>4, <2>5, <2>7, <2>8, <2>10 DEF NoFalseReport
<1> QED BY <1>1, SpecCInv, PTL
=============================================================================
