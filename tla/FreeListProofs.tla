-------------------------- MODULE FreeListProofs --------------------------
(***************************************************************************)
(* Theorems about the free list, for every number of banks, entries and    *)
(* places.  The clock enables of its candidates are formed from the two    *)
(* banks just ahead alone (adv_of, rtl/ooe/ooe_freelist.sv), not from a    *)
(* bank's full rank, and never miss an append; a name is in one place and  *)
(* found again; and each edge does what a cycle of the model does.         *)
(***************************************************************************)
EXTENDS FreeList, FiniteSetTheorems, SequenceTheorems, WellFoundedInduction,
        TLAPS

LEMMA ModUp == ASSUME NEW k \in Nat \ {0}, NEW x \in 0..(k-1) PROVE x % k = x
  BY SMT

LEMMA ModDown ==
  ASSUME NEW k \in Nat \ {0}, NEW x \in (-k)..(-1) PROVE x % k = x + k
  BY SMT

\* How far bank x is from bank r, in the order of k banks.
LEMMA Distance ==
  ASSUME NEW k \in Nat \ {0}, NEW x \in 0..(k-1), NEW r \in 0..(k-1)
  PROVE  (x - r) % k = IF x >= r THEN x - r ELSE x - r + k
<1>1. CASE x >= r
  BY <1>1, ModUp, x - r \in 0..(k-1)
<1>2. CASE x < r
  BY <1>2, ModDown, x - r \in (-k)..(-1)
<1> QED BY <1>1, <1>2

\* The bank one back from x.
LEMMA Back ==
  ASSUME NEW k \in Nat \ {0}, NEW x \in 0..(k-1)
  PROVE  (x - 1) % k = IF x >= 1 THEN x - 1 ELSE k - 1
<1>1. CASE x >= 1
  BY <1>1, ModUp, x - 1 \in 0..(k-1)
<1>2. CASE x = 0
  BY <1>2, ModDown, x - 1 \in (-k)..(-1)
<1> QED BY <1>1, <1>2

\* The bank two back from x, of at least two.
LEMMA BackTwo ==
  ASSUME NEW k \in Nat \ {0}, k > 1, NEW x \in 0..(k-1)
  PROVE  (x - 2) % k = IF x >= 2 THEN x - 2 ELSE x - 2 + k
<1>1. CASE x >= 2
  BY <1>1, ModUp, x - 2 \in 0..(k-1)
<1>2. CASE x < 2
  BY <1>2, ModDown, x - 2 \in (-k)..(-1)
<1> QED BY <1>1, <1>2

\* The banks ahead are finitely many, each of them a bank.
LEMMA AheadFinite ==
  ASSUME NEW b \in Bank
  PROVE  IsFiniteSet(Ahead(b)) /\ Rank(b) \in Nat
<1>1. IsFiniteSet(Bank)
  BY FS_Interval, PoolAssumption DEF Bank
<1>2. Ahead(b) \subseteq Bank
  BY DEF Ahead
<1>3. IsFiniteSet(Ahead(b))
  BY <1>1, <1>2, FS_Subset
<1> QED BY <1>3, FS_CardinalityType DEF Rank

\* A found bank ahead of b pushes b's rank to at least one; two, to two.
LEMMA RankAtLeast ==
  ASSUME NEW b \in Bank
  PROVE  /\ \A x \in Ahead(b) : Rank(b) >= 1
         /\ \A x, y \in Ahead(b) : x # y => Rank(b) >= 2
<1>1. ASSUME NEW x \in Ahead(b) PROVE Rank(b) >= 1
  <2>1. Cardinality(Ahead(b)) # 0
    BY AheadFinite, FS_EmptySet
  <2> QED BY <2>1, AheadFinite DEF Rank
<1>2. ASSUME NEW x \in Ahead(b), NEW y \in Ahead(b), x # y PROVE Rank(b) >= 2
  <2>1. {x, y} \subseteq Ahead(b)
    OBVIOUS
  <2>2. Cardinality({x, y}) <= Cardinality(Ahead(b))
    BY <2>1, AheadFinite, FS_Subset
  <2>3. Cardinality({x, y}) = 2
    <3>1. /\ IsFiniteSet({x}) /\ Cardinality({x}) = 1
      BY FS_Singleton
    <3>2. {x, y} = {x} \union {y} /\ y \notin {x}
      BY <1>2
    <3> QED BY <3>1, <3>2, FS_AddElement
  <2> QED BY <2>2, <2>3, AheadFinite DEF Rank
<1> QED BY <1>1, <1>2

(***************************************************************************)
(* A bank that appends has its clock enable: no candidate goes into the    *)
(* buffer and stays behind as the bank's next one.                         *)
(***************************************************************************)
THEOREM EnableCoversAppend ==
  ASSUME NEW b \in Bank, rot \in Bank, Room \in Int, Adv(b)
  PROVE  AdvOf(b)
<1>0. b \in 0..(K-1) /\ rot \in 0..(K-1) /\ K \in Nat \ {0}
  BY PoolAssumption DEF Bank
<1>1. Found(b) /\ Rank(b) < Room /\ Rank(b) \in Nat
  BY AheadFinite DEF Adv
<1> DEFINE b1 == (b - 1) % K
           b2 == (b - 2) % K
<1>a. b1 = IF b >= 1 THEN b - 1 ELSE K - 1
  BY <1>0, Back
<1>b. K > 2 => b2 = IF b >= 2 THEN b - 2 ELSE b - 2 + K
  <2>1. K > 2 => (b - 2) % K = IF b >= 2 THEN b - 2 ELSE b - 2 + K
    <3>1. K > 2 => K > 1
      BY <1>0
    <3> QED BY <1>0, <3>1, BackTwo
  <2> QED BY <2>1
<1> HIDE DEF b1, b2
<1>c. b1 \in 0..(K-1) /\ (K > 2 => b2 \in 0..(K-1))
  BY <1>0, <1>a, <1>b
<1>2. ASSUME b # rot, Found(b1) PROVE b1 \in Ahead(b)
  <2>1. (b1 - rot) % K = IF b1 >= rot THEN b1 - rot ELSE b1 - rot + K
    BY <1>0, <1>c, Distance
  <2>2. (b - rot) % K = IF b >= rot THEN b - rot ELSE b - rot + K
    BY <1>0, Distance
  <2>3. (b1 - rot) % K < (b - rot) % K
    BY <1>0, <1>2, <1>a, <2>1, <2>2
  <2> QED BY <1>2, <1>c, <2>3 DEF Ahead, Bank
<1>3. ASSUME K > 2, b # rot, b1 # rot, Found(b2) PROVE b2 \in Ahead(b) /\ b2 # b1
  <2>1. (b2 - rot) % K = IF b2 >= rot THEN b2 - rot ELSE b2 - rot + K
    BY <1>0, <1>3, <1>c, Distance
  <2>2. (b - rot) % K = IF b >= rot THEN b - rot ELSE b - rot + K
    BY <1>0, Distance
  <2>3. (b2 - rot) % K < (b - rot) % K
    BY <1>0, <1>3, <1>a, <1>b, <2>1, <2>2
  <2>4. b2 # b1
    BY <1>0, <1>3, <1>a, <1>b
  <2> QED BY <1>3, <1>c, <2>3, <2>4 DEF Ahead, Bank
<1>4. b1 \in Ahead(b) \/ b2 \in Ahead(b) => Rank(b) >= 1
  BY RankAtLeast
<1>5. b1 \in Ahead(b) /\ b2 \in Ahead(b) /\ b2 # b1 => Rank(b) >= 2
  BY RankAtLeast
<1>6. /\ b1 \in Ahead(b) \/ b2 \in Ahead(b) => Room > 1
      /\ b1 \in Ahead(b) /\ b2 \in Ahead(b) /\ b2 # b1 => Room > 2
      /\ Room > 0
  BY <1>1, <1>4, <1>5
<1> QED BY <1>1, <1>2, <1>3, <1>6 DEF AdvOf, b1, b2

-----------------------------------------------------------------------------
\* A set of naturals has a least.
LEMMA Least ==
  ASSUME NEW S, S \subseteq Nat, S # {}
  PROVE  \E i \in S : \A j \in S : i <= j
<1> DEFINE R == {ss \in Nat \X Nat : ss[1] < ss[2]}
<1>1. IsWellFoundedOn(R, Nat)
  BY NatLessThanWellFounded DEF OpToRel
<1>2. \A x, y \in Nat : <<y, x>> \in R <=> y < x
  OBVIOUS
<1> HIDE DEF R
<1>3. PICK x \in S : \A y \in S : ~(<<y, x>> \in R)
  BY <1>1, WFMin
<1>4. \A y \in S : ~(y < x)
  BY <1>2, <1>3
<1> QED BY <1>4

\* The pool is divided into banks of the same size.
LEMMA Whole ==
  ASSUME NEW n \in Nat \ {0}, NEW k \in Nat \ {0}, n % k = 0
  PROVE  (n \div k) \in Nat \ {0} /\ n = (n \div k) * k
BY SMT

\* A bank and an index in it make a name of the pool ...
LEMMA NameInPool ==
  ASSUME NEW k \in Nat \ {0}, NEW m \in Nat \ {0}, NEW i \in 0..(m-1), NEW b \in 0..(k-1)
  PROVE  i * k + b \in 0..(m * k - 1)
<1>1. i * k \in Nat /\ (i + 1) * k <= m * k
  <2>1. (m - (i + 1)) * k >= 0
    <3>1. \A x, y \in Nat : x * y >= 0
      BY SMT
    <3> QED BY <3>1, m - (i + 1) \in Nat
  <2>2. (m - (i + 1)) * k = m * k - (i + 1) * k
    BY SMT
  <2> QED BY <2>1, <2>2, SMT
<1>2. (i + 1) * k = i * k + k
  BY SMT
<1>3. i * k \in Int /\ m * k \in Int
  BY SMT
<1> QED BY <1>1, <1>2, <1>3

\* ... and no other bank and index make the same.
LEMMA NameOnce ==
  ASSUME NEW k \in Nat \ {0}, NEW i \in Nat, NEW j \in Nat,
         NEW b \in 0..(k-1), NEW c \in 0..(k-1), i * k + b = j * k + c
  PROVE  i = j /\ b = c
<1>1. ASSUME NEW x \in Nat, NEW y \in Nat, x < y PROVE x * k + k <= y * k
  <2>1. (y - (x + 1)) * k >= 0
    <3>1. \A u, v \in Nat : u * v >= 0
      BY SMT
    <3> QED BY <3>1, <1>1, y - (x + 1) \in Nat
  <2>2. (y - (x + 1)) * k = y * k - (x * k + k)
    BY SMT
  <2>3. x * k \in Int /\ y * k \in Int
    BY SMT
  <2> QED BY <2>1, <2>2, <2>3
<1>2. i * k \in Int /\ j * k \in Int
  BY SMT
<1>3. ~(i < j)
  BY <1>1, <1>2
<1>4. ~(j < i)
  BY <1>1, <1>2
<1>5. i = j
  BY <1>3, <1>4
<1> QED BY <1>2, <1>5

-----------------------------------------------------------------------------

\* The banks that append, and the names that stay in the buffer.
Adds == {b \in Bank : Adv(b)}
Stay == Len(buf) - rq

\* How far bank b is from the one that comes first.
Turn(b) == (b - rot) % K

LEMMA TurnOnce ==
  ASSUME rot \in Bank, NEW b \in Bank, NEW c \in Bank, b # c
  PROVE  Turn(b) \in Nat /\ Turn(c) \in Nat /\ Turn(b) # Turn(c)
<1>0. b \in 0..(K-1) /\ c \in 0..(K-1) /\ rot \in 0..(K-1) /\ K \in Nat \ {0}
  BY PoolAssumption DEF Bank
<1>1. Turn(b) = IF b >= rot THEN b - rot ELSE b - rot + K
  BY <1>0, Distance DEF Turn
<1>2. Turn(c) = IF c >= rot THEN c - rot ELSE c - rot + K
  BY <1>0, Distance DEF Turn
<1> QED BY <1>0, <1>1, <1>2

\* Of two banks with candidates, the one that comes first has the lower rank.
LEMMA RankMono ==
  ASSUME rot \in Bank, NEW b \in Bank, NEW c \in Bank, Found(b), Turn(b) < Turn(c),
         Turn(b) \in Nat, Turn(c) \in Nat
  PROVE  Rank(b) < Rank(c)
<1>1. \A j \in Bank : j # b => Turn(j) \in Nat
  BY TurnOnce
<1>2. Ahead(b) \union {b} \subseteq Ahead(c)
  BY <1>1 DEF Ahead, Turn
<1>3. b \notin Ahead(b)
  BY DEF Ahead, Turn
<1>4. Cardinality(Ahead(b) \union {b}) = Rank(b) + 1
  BY <1>3, AheadFinite, FS_AddElement DEF Rank
<1>5. Cardinality(Ahead(b) \union {b}) <= Rank(c)
  BY <1>2, AheadFinite, FS_Subset DEF Rank
<1> QED BY <1>4, <1>5, AheadFinite

LEMMA RankOnce ==
  ASSUME rot \in Bank, NEW b \in Bank, NEW c \in Bank, b # c, Found(b), Found(c)
  PROVE  Rank(b) # Rank(c)
<1>1. Turn(b) \in Nat /\ Turn(c) \in Nat /\ Turn(b) # Turn(c)
  BY TurnOnce
<1>2. CASE Turn(b) < Turn(c)
  BY <1>1, <1>2, RankMono, AheadFinite
<1>3. CASE Turn(c) < Turn(b)
  BY <1>1, <1>3, RankMono, AheadFinite
<1> QED BY <1>1, <1>2, <1>3

(***************************************************************************)
(* The banks that append have the ranks from 0 up, each once, and there is *)
(* room for all of them: what the gathering of the buffer rests on.        *)
(***************************************************************************)
LEMMA RanksFill ==
  ASSUME TypeOK
  PROVE  /\ Cardinality(Adds) \in Nat
         /\ \A b \in Adds : Rank(b) \in 0..(Cardinality(Adds) - 1)
         /\ \A r \in 0..(Cardinality(Adds) - 1) : \E b \in Adds : Rank(b) = r
         /\ Stay \in Nat /\ Stay + Cardinality(Adds) <= B
<1>0. rot \in Bank /\ B \in Nat /\ Len(buf) \in Nat /\ Len(buf) <= B
      /\ rq \in Nat /\ rq <= Len(buf) /\ Room = B - Stay
  BY BufferAssumption DEF TypeOK, Room, Stay
<1>1. Adds \subseteq Bank /\ IsFiniteSet(Adds) /\ Cardinality(Adds) \in Nat
  <2>1. IsFiniteSet(Bank)
    BY FS_Interval, PoolAssumption DEF Bank
  <2> QED BY <2>1, FS_Subset, FS_CardinalityType DEF Adds
<1> DEFINE c == Cardinality(Adds)
<1>2. ASSUME NEW b \in Adds PROVE Rank(b) \in 0..(c-1)
  <2>0. b \in Bank /\ Adv(b) /\ Rank(b) \in Nat /\ Found(b) /\ Rank(b) < Room
    BY AheadFinite DEF Adds, Adv
  <2>1. ASSUME NEW j \in Ahead(b) PROVE j \in Adds /\ j # b
    <3>1. j \in Bank /\ Found(j) /\ Turn(j) < Turn(b)
      BY DEF Ahead, Turn
    <3>2. j # b
      <4>1. SUFFICES ASSUME j = b PROVE FALSE
        OBVIOUS
      <4>2. Turn(b) \in Int
        BY <1>0, <2>0, PoolAssumption, SMT DEF Turn, Bank
      <4> QED BY <3>1, <4>1, <4>2
    <3>3. Turn(j) \in Nat /\ Turn(b) \in Nat
      BY <1>0, <2>0, <3>1, <3>2, TurnOnce
    <3>4. Rank(j) < Rank(b) /\ Rank(j) \in Nat
      BY <1>0, <2>0, <3>1, <3>3, RankMono, AheadFinite
    <3>5. Adv(j)
      BY <1>0, <2>0, <3>1, <3>4 DEF Adv, Stay
    <3> QED BY <3>1, <3>2, <3>5 DEF Adds
  <2>2. Ahead(b) \subseteq Adds \ {b}
    BY <2>1
  <2>3. IsFiniteSet(Adds \ {b}) /\ Cardinality(Adds \ {b}) = c - 1
    BY <1>1, FS_RemoveElement
  <2>4. Rank(b) <= c - 1
    BY <2>2, <2>3, FS_Subset DEF Rank
  <2> QED BY <1>1, <2>0, <2>4
<1> DEFINE f == [b \in Adds |-> Rank(b)]
<1>3. f \in Injection(Adds, 0..(c-1))
  <2>1. f \in [Adds -> 0..(c-1)]
    BY <1>2
  <2>2. ASSUME NEW a \in Adds, NEW b \in Adds, f[a] = f[b] PROVE a = b
    BY <1>0, <2>2, RankOnce DEF Adds, Adv
  <2> QED BY <2>1, <2>2 DEF Injection, IsInjective
<1>4. IsFiniteSet(0..(c-1)) /\ Cardinality(0..(c-1)) = c
  BY <1>1, FS_Interval
<1>5. f \in Surjection(Adds, 0..(c-1))
  BY <1>3, <1>4, FS_Injection
<1>6. \A r \in 0..(c-1) : \E b \in Adds : Rank(b) = r
  BY <1>5 DEF Surjection
<1>7. Stay \in Nat /\ Stay + c <= B
  <2>1. CASE c = 0
    BY <1>0, <2>1 DEF Stay
  <2>2. CASE c # 0
    <3>1. c - 1 \in 0..(c-1)
      BY <1>1, <2>2
    <3>2. PICK b \in Adds : Rank(b) = c - 1
      BY <1>6, <3>1
    <3>3. c - 1 < Room
      BY <3>2 DEF Adds, Adv
    <3> QED BY <1>0, <1>1, <3>3 DEF Stay
  <2> QED BY <2>1, <2>2
<1> QED BY <1>1, <1>2, <1>6, <1>7

\* A candidate is a name of the pool, and no other bank's.
LEMMA CandName ==
  ASSUME TypeOK, NEW b \in Bank, NEW i \in Index
  PROVE  /\ Name(b, i) \in Entry
         /\ \A c \in Bank, j \in Index : Name(b, i) = Name(c, j) => b = c /\ i = j
<1>1. M \in Nat \ {0} /\ N = M * K
  BY PoolAssumption, Whole DEF M
<1>2. Name(b, i) \in Entry
  BY <1>1, PoolAssumption, NameInPool DEF Name, Entry, Bank, Index
<1>3. ASSUME NEW c \in Bank, NEW j \in Index, Name(b, i) = Name(c, j)
      PROVE  b = c /\ i = j
  <2>1. i \in Nat /\ j \in Nat /\ b \in 0..(K-1) /\ c \in 0..(K-1)
    BY <1>1 DEF Index, Bank
  <2> QED BY <1>3, <2>1, PoolAssumption, NameOnce DEF Name
<1> QED BY <1>2, <1>3

LEMMA FoundIndex ==
  ASSUME TypeOK, NEW b \in Bank, Found(b)
  PROVE  cand[b] \in Index /\ Cand(b) \in Entry
BY CandName DEF TypeOK, Found, Cand

LEMMA CandOnce ==
  ASSUME TypeOK, NEW b \in Bank, NEW c \in Bank, Found(b), Found(c), Cand(b) = Cand(c)
  PROVE  b = c
<1>1. cand[b] \in Index /\ cand[c] \in Index
  BY FoundIndex
<1>2. Name(b, cand[b]) = Name(c, cand[c])
  BY DEF Cand
<1> QED BY <1>1, <1>2, CandName

(***************************************************************************)
(* The gathered buffer: the names that stay, in order, then the candidate  *)
(* of each bank that appends, once.                                        *)
(***************************************************************************)
LEMMA Gather ==
  ASSUME TypeOK
  PROVE  /\ BufNext \in Seq(Entry) /\ Len(BufNext) = Stay + Cardinality(Adds)
         /\ \A i \in 1..Stay : BufNext[i] = buf[i + rq]
         /\ \A i \in (Stay + 1)..(Stay + Cardinality(Adds)) :
               \E b \in Adds : Rank(b) = i - Stay - 1 /\ BufNext[i] = Cand(b)
         /\ \A b \in Adds : /\ Rank(b) + Stay + 1 \in 1..(Stay + Cardinality(Adds))
                            /\ BufNext[Rank(b) + Stay + 1] = Cand(b)
<1> DEFINE c == Cardinality(Adds)
           nth(r) == CHOOSE b \in Adds : Rank(b) = r
<1>0. c \in Nat /\ Stay \in Nat /\ rq \in Nat /\ rq <= Len(buf) /\ Len(buf) \in Nat
  BY RanksFill DEF TypeOK
<1>1. BufNext = [i \in 1..(Stay + c) |->
                   IF i <= Stay THEN buf[i + rq] ELSE Cand(nth(i - Stay - 1))]
  BY DEF BufNext, Adds, Stay
<1>2. ASSUME NEW r \in 0..(c-1)
      PROVE  nth(r) \in Adds /\ Rank(nth(r)) = r /\ Cand(nth(r)) \in Entry
  <2>1. nth(r) \in Adds /\ Rank(nth(r)) = r
    BY RanksFill
  <2> QED BY <2>1, FoundIndex DEF Adds, Adv
<1> HIDE DEF c, nth
<1>3. ASSUME NEW i \in 1..Stay PROVE BufNext[i] = buf[i + rq] /\ buf[i + rq] \in Entry
  <2>1. i + rq \in 1..Len(buf) /\ i \in 1..(Stay + c) /\ i <= Stay
    BY <1>0 DEF Stay
  <2>2. buf[i + rq] \in Entry
    BY <2>1 DEF TypeOK
  <2> QED BY <1>1, <2>1, <2>2
<1>4. ASSUME NEW i \in (Stay + 1)..(Stay + c)
      PROVE  /\ BufNext[i] = Cand(nth(i - Stay - 1)) /\ i - Stay - 1 \in 0..(c-1)
  <2>1. i \in 1..(Stay + c) /\ ~(i <= Stay) /\ i - Stay - 1 \in 0..(c-1)
    BY <1>0
  <2> QED BY <1>1, <2>1
<1>5. BufNext \in [1..(Stay + c) -> Entry]
  <2>1. \A i \in 1..(Stay + c) : i \in 1..Stay \/ i \in (Stay + 1)..(Stay + c)
    BY <1>0
  <2>2. \A i \in 1..(Stay + c) : BufNext[i] \in Entry
    BY <1>2, <1>3, <1>4, <2>1
  <2> QED BY <1>1, <2>2
<1>6. BufNext \in Seq(Entry) /\ Len(BufNext) = Stay + c
  BY <1>0, <1>5
<1>7. ASSUME NEW i \in (Stay + 1)..(Stay + c)
      PROVE  \E b \in Adds : Rank(b) = i - Stay - 1 /\ BufNext[i] = Cand(b)
  BY <1>2, <1>4
<1>8. ASSUME NEW b \in Adds
      PROVE  /\ Rank(b) + Stay + 1 \in 1..(Stay + c)
             /\ BufNext[Rank(b) + Stay + 1] = Cand(b)
  <2>1. Rank(b) \in 0..(c-1)
    BY RanksFill DEF c
  <2>2. Rank(b) + Stay + 1 \in (Stay + 1)..(Stay + c)
    BY <1>0, <2>1
  <2>3. PICK a \in Adds : /\ Rank(a) = (Rank(b) + Stay + 1) - Stay - 1
                          /\ BufNext[Rank(b) + Stay + 1] = Cand(a)
    BY <1>7, <2>2
  <2>4. Rank(a) = Rank(b)
    BY <1>0, <2>1, <2>3
  <2>5. a = b
    BY <2>4, RankOnce DEF TypeOK, Adds, Adv
  <2> QED BY <1>0, <2>2, <2>3, <2>5
<1> QED BY <1>3, <1>6, <1>7, <1>8 DEF c

\* An edge at which the buffer's enable is off leaves nothing to gather.
LEMMA GatherIdle ==
  ASSUME TypeOK, ~BufEnable
  PROVE  rq = 0 /\ Adds = {} /\ BufNext = buf
<1>0. rq = 0 /\ ~Refills /\ Len(buf) \in Nat /\ B \in Nat /\ Len(buf) <= B
  BY BufferAssumption DEF TypeOK, BufEnable
<1>1. Adds = {}
  <2>1. ASSUME NEW b \in Adds PROVE FALSE
    <3>1. b \in Bank /\ Found(b) /\ Rank(b) < Room /\ Rank(b) \in Nat
      BY AheadFinite DEF Adds, Adv
    <3> QED BY <1>0, <3>1 DEF Refills, Room
  <2> QED BY <2>1
<1>2. Cardinality(Adds) = 0
  BY <1>1, FS_EmptySet
<1>3. BufNext \in Seq(Entry) /\ Len(BufNext) = Len(buf)
      /\ \A i \in 1..Len(buf) : BufNext[i] = buf[i]
  <2>1. Stay = Len(buf)
    BY <1>0 DEF Stay
  <2>2. Len(BufNext) = Len(buf) /\ BufNext \in Seq(Entry)
    BY <1>0, <1>2, <2>1, Gather
  <2>3. ASSUME NEW i \in 1..Len(buf) PROVE BufNext[i] = buf[i]
    <3>1. BufNext[i] = buf[i + rq]
      BY <2>1, Gather
    <3> QED BY <1>0, <3>1
  <2> QED BY <2>2, <2>3
<1> QED BY <1>0, <1>1, <1>3 DEF TypeOK

-----------------------------------------------------------------------------

Buffered == {buf[i] : i \in 1..Len(buf)}

(***************************************************************************)
(* Where a name may be.  A name in transit is held and its bit still set;  *)
(* a name behind those is free, in one place, and marked; a popped name is *)
(* marked an edge longer; a candidate is free and not marked.              *)
(***************************************************************************)
Places ==
    /\ TypeOK
    /\ \A i, j \in 1..Len(buf) : buf[i] = buf[j] => i = j
    /\ \A i \in 1..Len(buf) : /\ buf[i] \in free
                              /\ buf[i] \in held <=> i <= rq
    /\ free \ Transit = Entry \ held
    /\ inbuf = Buffered \union pr
    /\ pr \intersect Buffered = {}
    /\ \A b \in Bank : Found(b) => Cand(b) \in free \ inbuf

\* When names come back two cycles after their take at the earliest, a popped
\* name is not free while its mark remains, and a search misses nothing.
Searched == FreeAfter = 2 => /\ pr \intersect free = {}
                             /\ FoundBySearchAfter

NamesIInv == Places /\ Searched

\* A search finds an index of the set, if it has one.
LEMMA FirstFromIn ==
  ASSUME NEW S, S \subseteq Index, NEW ptr \in Index
  PROVE  /\ S = {} => FirstFrom(S, ptr) = None
         /\ S # {} => FirstFrom(S, ptr) \in S
<1> DEFINE after == {i \in S : i >= ptr}
           from  == IF after # {} THEN after ELSE S
<1>1. ASSUME S # {} PROVE FirstFrom(S, ptr) \in S
  <2>0. S \subseteq Nat
    BY PoolAssumption, Whole DEF Index, M
  <2>1. from \subseteq S /\ from # {} /\ from \subseteq Nat
    BY <1>1, <2>0
  <2>2. FirstFrom(S, ptr) = CHOOSE i \in from : \A j \in from : i <= j
    BY <1>1 DEF FirstFrom
  <2> HIDE DEF from
  <2>3. \E i \in from : \A j \in from : i <= j
    BY <2>1, Least
  <2> QED BY <2>1, <2>2, <2>3
<1> QED BY <1>1 DEF FirstFrom

\* The names a bank's search may return.
LEMMA SearchableIn ==
  ASSUME NEW b \in Bank
  PROVE  Searchable(b) \subseteq Index
BY DEF Searchable

Added  == {Cand(b) : b \in Adds}
Stayed == {buf[i] : i \in (rq + 1)..Len(buf)}
Taken(k) == {Offer(i) : i \in 1..k}

\* What an edge does, whichever of its enables are on.
LEMMA EdgeDoes ==
  ASSUME Places, NEW k \in 0..A, NEW freed \in SUBSET held, NEW lead \in BOOLEAN,
         Edge(k, freed, lead)
  PROVE  /\ free' = (free \ Popped) \union freed
         /\ buf' = BufNext
         /\ inbuf' = (inbuf \ pr) \union Added
         /\ rq' = k /\ k <= Stay
         /\ pr' = Popped
         /\ held' = (held \ freed) \union Taken(k)
<1>0. TypeOK
  BY DEF Places
<1>1. free' = (free \ Popped) \union freed
  <2>1. CASE BitsEnable
    BY <2>1 DEF Edge, FreeNext
  <2>2. CASE ~BitsEnable
    <3>1. rq = 0 /\ freed = {}
      BY <1>0, <2>2 DEF BitsEnable, Edge, TypeOK
    <3>2. Popped = {}
      BY <3>1 DEF Popped
    <3> QED BY <2>2, <3>1, <3>2 DEF Edge
  <2> QED BY <2>1, <2>2
<1>2. buf' = BufNext
  BY <1>0, GatherIdle DEF Edge
<1>3. inbuf' = (inbuf \ pr) \union Added
  <2>1. Added = {Cand(b) : b \in {c \in Bank : Adv(c)}}
    BY DEF Added, Adds
  <2>2. CASE MarksEnable
    BY <2>1, <2>2 DEF Edge
  <2>3. CASE ~MarksEnable
    <3>1. pr = {} /\ ~BufEnable
      BY <2>3 DEF MarksEnable, BufEnable
    <3>2. Added = {}
      BY <1>0, <3>1, GatherIdle DEF Added
    <3> QED BY <2>3, <3>1, <3>2 DEF Edge
  <2> QED BY <2>2, <2>3
<1> QED BY <1>1, <1>2, <1>3 DEF Edge, Avail, Stay, Taken

\* The candidates after an edge: one that did not append is kept, and any
\* other is what the bank's search found.
LEMMA EdgeCand ==
  ASSUME Places, NEW k \in 0..A, NEW freed \in SUBSET held, NEW lead \in BOOLEAN,
         Edge(k, freed, lead), NEW b \in Bank
  PROVE  \/ cand'[b] = cand[b] /\ b \notin Adds
         \/ /\ cand'[b] \in Searchable(b)
         \/ /\ cand'[b] = None /\ Searchable(b) = {}
<1>0. TypeOK /\ rot \in Bank /\ Room \in Int
  BY BufferAssumption DEF Places, TypeOK, Room
<1>1. cand'[b] = IF CandEnable(b) THEN CandNext(b) ELSE cand[b]
  BY DEF Edge
<1>2. CASE ~CandEnable(b)
  BY <1>0, <1>1, <1>2, EnableCoversAppend DEF CandEnable, Adds
<1>3. CASE CandEnable(b) /\ Found(b) /\ ~Adv(b)
  BY <1>1, <1>3 DEF CandNext, Adds
<1>4. CASE CandEnable(b) /\ ~(Found(b) /\ ~Adv(b))
  <2>1. cand'[b] = FirstFrom(Searchable(b), sp[b])
    BY <1>1, <1>4 DEF CandNext
  <2>2. sp[b] \in Index
    BY <1>0 DEF TypeOK
  <2> QED BY <2>1, <2>2, SearchableIn, FirstFromIn
<1> QED BY <1>2, <1>3, <1>4

\* The same, when its clock enable was off: nothing changed.
LEMMA CandKept ==
  ASSUME NEW k \in 0..A, NEW freed \in SUBSET held, NEW lead \in BOOLEAN,
         Edge(k, freed, lead), NEW b \in Bank, ~CandEnable(b)
  PROVE  cand'[b] = cand[b]
BY DEF Edge

(***************************************************************************)
(* The names after an edge are where the invariant says: the ones that     *)
(* leave, the ones that stay, the candidates that join and those that stay *)
(* out are four sets of names no two of which meet.                        *)
(***************************************************************************)
LEMMA NamesApart ==
  ASSUME Places
  PROVE  /\ Popped \union Stayed = Buffered /\ Popped \intersect Stayed = {}
         /\ Added \intersect Buffered = {} /\ Added \subseteq free
         /\ Popped \subseteq held /\ Popped \subseteq free
         /\ Stayed \intersect held = {} /\ Stayed \subseteq free
         /\ Added \intersect held = {}
<1>0. TypeOK /\ rq \in Nat /\ rq <= Len(buf) /\ Len(buf) \in Nat
  BY DEF Places, TypeOK
<1>1. Popped \union Stayed = Buffered
  <2>1. \A i : i \in 1..Len(buf) <=> i \in 1..rq \/ i \in (rq + 1)..Len(buf)
    BY <1>0
  <2> QED BY <2>1 DEF Popped, Stayed, Buffered
<1>2. Popped \intersect Stayed = {}
  <2>1. SUFFICES ASSUME NEW i \in 1..rq, NEW j \in (rq + 1)..Len(buf) PROVE buf[i] # buf[j]
    BY DEF Popped, Stayed
  <2>2. i \in 1..Len(buf) /\ j \in 1..Len(buf) /\ i # j
    BY <1>0
  <2> QED BY <2>2 DEF Places
<1>3. Added \intersect Buffered = {} /\ Added \subseteq free
  BY DEF Added, Adds, Adv, Places
<1>4. Popped \subseteq held /\ Popped \subseteq free
  <2>1. \A i \in 1..rq : i \in 1..Len(buf) /\ i <= rq
    BY <1>0
  <2> QED BY <2>1 DEF Popped, Places
<1>5. Stayed \intersect held = {} /\ Stayed \subseteq free
  <2>1. \A i \in (rq + 1)..Len(buf) : i \in 1..Len(buf) /\ ~(i <= rq)
    BY <1>0
  <2> QED BY <2>1 DEF Stayed, Places
<1>6. Added \intersect held = {}
  <2>1. Transit = Popped
    BY DEF Transit, Popped
  <2>2. Added \intersect Transit = {}
    BY <1>1, <1>3, <2>1
  <2> QED BY <1>3, <2>2 DEF Places
<1> QED BY <1>1, <1>2, <1>3, <1>4, <1>5, <1>6

(***************************************************************************)
(* The buffer after an edge, place by place and as a set.                  *)
(***************************************************************************)
LEMMA NextBuffer ==
  ASSUME Places, buf' = BufNext
  PROVE  /\ Len(buf') = Stay + Cardinality(Adds)
         /\ \A i \in 1..Stay : buf'[i] = buf[i + rq] /\ buf'[i] \in Stayed
         /\ \A i \in 1..Len(buf') : ~(i <= Stay) =>
               \E b \in Adds : Rank(b) = i - Stay - 1 /\ buf'[i] = Cand(b)
         /\ \A i, j \in 1..Len(buf') : buf'[i] = buf'[j] => i = j
         /\ Buffered' = Stayed \union Added
<1>0. /\ TypeOK /\ rq \in Nat /\ rq <= Len(buf) /\ Len(buf) \in Nat
      /\ Stay \in Nat /\ Cardinality(Adds) \in Nat /\ Stay = Len(buf) - rq
  BY RanksFill DEF Places, TypeOK, Stay
<1>1. Len(buf') = Stay + Cardinality(Adds)
  BY <1>0, Gather
<1>2. ASSUME NEW i \in 1..Stay PROVE buf'[i] = buf[i + rq] /\ buf'[i] \in Stayed
  <2>1. i + rq \in (rq + 1)..Len(buf)
    BY <1>0
  <2>2. buf'[i] = buf[i + rq]
    BY <1>0, Gather
  <2> QED BY <2>1, <2>2 DEF Stayed
<1>3. ASSUME NEW i \in 1..Len(buf'), ~(i <= Stay)
      PROVE  \E b \in Adds : Rank(b) = i - Stay - 1 /\ buf'[i] = Cand(b)
  <2>1. i \in (Stay + 1)..(Stay + Cardinality(Adds))
    BY <1>0, <1>1, <1>3
  <2> QED BY <1>0, <2>1, Gather
<1>4. ASSUME NEW i \in 1..Len(buf'), NEW j \in 1..Len(buf'), buf'[i] = buf'[j]
      PROVE  i = j
  <2>1. CASE i <= Stay /\ j <= Stay
    <3>1. i \in 1..Stay /\ j \in 1..Stay /\ i + rq \in 1..Len(buf) /\ j + rq \in 1..Len(buf)
      BY <1>0, <2>1
    <3>2. buf[i + rq] = buf[j + rq]
      BY <1>2, <1>4, <3>1
    <3>3. i + rq = j + rq
      BY <3>1, <3>2 DEF Places
    <3> QED BY <1>0, <3>3
  <2>2. ASSUME NEW x \in 1..Len(buf'), NEW y \in 1..Len(buf'), x <= Stay, ~(y <= Stay)
        PROVE  buf'[x] # buf'[y]
    <3>1. buf'[x] \in Stayed
      BY <1>0, <1>2, <2>2, x \in 1..Stay
    <3>2. buf'[y] \in Added
      BY <1>3, <2>2 DEF Added
    <3> QED BY <3>1, <3>2, NamesApart
  <2>3. CASE ~(i <= Stay) /\ ~(j <= Stay)
    <3>1. PICK b \in Adds : Rank(b) = i - Stay - 1 /\ buf'[i] = Cand(b)
      BY <1>3, <2>3
    <3>2. PICK c \in Adds : Rank(c) = j - Stay - 1 /\ buf'[j] = Cand(c)
      BY <1>3, <2>3
    <3>3. b \in Bank /\ c \in Bank /\ Found(b) /\ Found(c)
      BY DEF Adds, Adv
    <3>4. b = c
      BY <1>0, <1>4, <3>1, <3>2, <3>3, CandOnce
    <3> QED BY <1>0, <3>1, <3>2, <3>4
  <2> QED BY <1>4, <2>1, <2>2, <2>3
<1>5. Buffered' \subseteq Stayed \union Added
  <2>1. SUFFICES ASSUME NEW i \in 1..Len(buf') PROVE buf'[i] \in Stayed \union Added
    BY DEF Buffered
  <2>2. CASE i <= Stay
    BY <1>0, <1>2, <2>2, i \in 1..Stay
  <2>3. CASE ~(i <= Stay)
    BY <1>3, <2>3 DEF Added
  <2> QED BY <2>2, <2>3
<1>6. Stayed \subseteq Buffered'
  <2>1. SUFFICES ASSUME NEW i \in (rq + 1)..Len(buf) PROVE buf[i] \in Buffered'
    BY DEF Stayed
  <2>2. i - rq \in 1..Stay /\ i - rq \in 1..Len(buf') /\ (i - rq) + rq = i
    BY <1>0, <1>1
  <2>3. buf'[i - rq] = buf[i]
    BY <1>2, <2>2
  <2> QED BY <2>2, <2>3 DEF Buffered
<1>7. Added \subseteq Buffered'
  <2>1. SUFFICES ASSUME NEW b \in Adds PROVE Cand(b) \in Buffered'
    BY DEF Added
  <2> QED BY <1>0, <1>1, Gather DEF Buffered
<1> QED BY <1>1, <1>2, <1>3, <1>4, <1>5, <1>6, <1>7

-----------------------------------------------------------------------------

LEMMA InitNames == Init => NamesIInv
<1> SUFFICES ASSUME Init PROVE NamesIInv
  OBVIOUS
<1>1. M \in Nat \ {0} /\ K \in Nat \ {0} /\ 0 \in Index /\ 0 \in Bank
  BY PoolAssumption, Whole DEF M, Index, Bank
<1>2. buf = <<>> /\ Len(buf) = 0 /\ buf \in Seq(Entry)
  BY DEF Init
<1>3. TypeOK
  BY <1>1, <1>2, BufferAssumption DEF Init, TypeOK
<1>4. Transit = {} /\ Buffered = {}
  BY <1>2 DEF Init, Transit, Buffered
<1>5. \A b \in Bank : ~Found(b)
  BY DEF Init, Found
<1>6. \A i \in 1..Len(buf) : FALSE
  BY <1>2
<1>7. Places
  BY <1>3, <1>4, <1>5, <1>6 DEF Init, Places
<1>8. Searched
  <2>1. \A b \in Bank : CandEnable(b)
    BY <1>5 DEF Init, CandEnable
  <2> QED BY <2>1 DEF Init, Searched, FoundBySearchAfter
<1> QED BY <1>7, <1>8 DEF NamesIInv

LEMMA EdgeTypes ==
  ASSUME Places, NEW k \in 0..A, NEW freed \in SUBSET held, NEW lead \in BOOLEAN,
         Edge(k, freed, lead)
  PROVE  TypeOK'
<1>0. TypeOK /\ K \in Nat \ {0} /\ M \in Nat \ {0} /\ N \in Nat \ {0} /\ B \in Nat
  BY PoolAssumption, Whole, BufferAssumption DEF Places, M
<1>e. /\ free' = (free \ Popped) \union freed
      /\ buf' = BufNext
      /\ inbuf' = (inbuf \ pr) \union Added
      /\ rq' = k /\ k <= Stay
      /\ pr' = Popped
      /\ held' = (held \ freed) \union Taken(k)
  BY EdgeDoes
<1>1. /\ Popped \subseteq Entry /\ Added \subseteq Entry /\ Stayed \subseteq Entry
      /\ freed \subseteq Entry
  <2>1. Buffered \subseteq free /\ free \subseteq Entry /\ held \subseteq Entry
    BY <1>0 DEF Places, Buffered, TypeOK
  <2> QED BY <2>1, NamesApart
<1>2. free' \subseteq Entry /\ inbuf' \subseteq Entry /\ pr' \subseteq Entry
  BY <1>0, <1>1, <1>e DEF TypeOK
<1>3. buf' \in Seq(Entry) /\ Len(buf') <= B /\ Len(buf') = Stay + Cardinality(Adds)
  BY <1>0, <1>e, Gather, RanksFill
<1>4. rq' \in 0..A /\ rq' <= Len(buf')
  BY <1>0, <1>3, <1>e, RanksFill
<1>5. held' \subseteq Entry
  <2>1. Taken(k) \subseteq Entry
    <3>1. SUFFICES ASSUME NEW i \in 1..k PROVE buf[rq + i] \in Entry
      BY DEF Taken, Offer
    <3>2. k <= Stay /\ rq \in Nat /\ Len(buf) \in Nat
      BY <1>0, <1>e DEF TypeOK
    <3>3. rq + i \in 1..Len(buf)
      BY <3>2 DEF Stay
    <3> QED BY <1>0, <3>3 DEF TypeOK
  <2> QED BY <1>0, <2>1, <1>e DEF TypeOK
<1>6. \A b \in Bank : PtrNext(b) \in Index
  <2>1. SUFFICES ASSUME NEW b \in Bank PROVE PtrNext(b) \in Index
    OBVIOUS
  <2>2. CASE Adv(b)
    <3>1. cand[b] \in Index
      BY <1>0, <2>2, FoundIndex DEF Adv
    <3>2. \A x \in Nat, m \in Nat \ {0} : x % m \in 0..(m - 1)
      BY SMT
    <3>3. cand[b] + 1 \in Nat
      BY <1>0, <3>1 DEF Index
    <3> QED BY <1>0, <2>2, <3>2, <3>3 DEF PtrNext, Index
  <2>3. CASE ~Adv(b)
    BY <1>0, <2>3 DEF PtrNext, TypeOK
  <2> QED BY <2>2, <2>3
<1>7. bptr' \in [Bank -> Index]
  BY <1>0, <1>6 DEF Edge, TypeOK
<1>8. rot' \in Bank
  <2>1. \A x \in Nat, m \in Nat \ {0} : x % m \in 0..(m - 1)
    BY SMT
  <2>2. rot + 1 \in Nat /\ rot' = (rot + 1) % K
    BY <1>0 DEF Edge, TypeOK, Bank
  <2> QED BY <1>0, <2>1, <2>2 DEF Bank
<1>9. \A b \in Bank : CandNext(b) \in Index \union {None}
  <2>1. SUFFICES ASSUME NEW b \in Bank PROVE CandNext(b) \in Index \union {None}
    OBVIOUS
  <2>2. cand[b] \in Index \union {None} /\ sp[b] \in Index
    BY <1>0 DEF TypeOK
  <2>3. FirstFrom(Searchable(b), sp[b]) \in Index \union {None}
    BY <2>2, SearchableIn, FirstFromIn
  <2> QED BY <2>2, <2>3 DEF CandNext
<1>10. cand' \in [Bank -> Index \union {None}] /\ sp' \in [Bank -> Index]
  BY <1>0, <1>6, <1>9 DEF Edge, TypeOK
<1>11. free_en' \in BOOLEAN /\ fr_ch' \in BOOLEAN
  BY <1>0 DEF Edge, TypeOK
<1> QED BY <1>2, <1>3, <1>4, <1>5, <1>7, <1>8, <1>10, <1>11 DEF TypeOK

\* The names taken are the first of those that stay, and first in the buffer
\* after the edge.
LEMMA TakenFirst ==
  ASSUME Places, buf' = BufNext, NEW k \in 0..A, k <= Stay
  PROVE  /\ Taken(k) \subseteq Stayed /\ Taken(k) = {buf'[i] : i \in 1..k}
         /\ \A i \in 1..Len(buf') : buf'[i] \in Taken(k) <=> i <= k
<1>0. /\ TypeOK /\ Stay \in Nat /\ k \in Nat /\ rq \in Nat
      /\ Len(buf') \in Nat /\ k <= Len(buf')
  BY RanksFill, NextBuffer DEF Places, TypeOK
<1>1. ASSUME NEW i \in 1..k PROVE Offer(i) = buf'[i] /\ buf'[i] \in Stayed
  <2>1. i \in 1..Stay /\ i + rq = rq + i
    BY <1>0
  <2> QED BY <2>1, NextBuffer DEF Offer
<1>2. Taken(k) = {buf'[i] : i \in 1..k}
  BY <1>1 DEF Taken
<1>3. ASSUME NEW i \in 1..Len(buf') PROVE buf'[i] \in Taken(k) <=> i <= k
  <2>1. i <= k => i \in 1..k
    BY <1>0
  <2>2. \A j \in 1..k : j \in 1..Len(buf') /\ j <= k
    BY <1>0
  <2>3. \A j \in 1..k : buf'[i] = buf'[j] => i = j
    BY <2>2, NextBuffer
  <2> QED BY <1>2, <2>1, <2>2, <2>3
<1> QED BY <1>1, <1>2, <1>3

(***************************************************************************)
(* Every edge keeps every name in its place.                               *)
(***************************************************************************)
LEMMA EdgePlaces ==
  ASSUME Places, NEW k \in 0..A, NEW freed \in SUBSET held, NEW lead \in BOOLEAN,
         Edge(k, freed, lead)
  PROVE  Places'
<1>e. /\ free' = (free \ Popped) \union freed
      /\ buf' = BufNext
      /\ inbuf' = (inbuf \ pr) \union Added
      /\ rq' = k /\ k <= Stay
      /\ pr' = Popped
      /\ held' = (held \ freed) \union Taken(k)
  BY EdgeDoes
<1>a. /\ Popped \union Stayed = Buffered /\ Popped \intersect Stayed = {}
      /\ Added \intersect Buffered = {} /\ Added \subseteq free
      /\ Popped \subseteq held /\ Popped \subseteq free
      /\ Stayed \intersect held = {} /\ Stayed \subseteq free
      /\ Added \intersect held = {}
  BY NamesApart
<1>t. /\ Taken(k) \subseteq Stayed /\ Taken(k) = {buf'[i] : i \in 1..k}
      /\ \A i \in 1..Len(buf') : buf'[i] \in Taken(k) <=> i <= k
  BY <1>e, TakenFirst
<1>b. Buffered' = Stayed \union Added
  BY <1>e, NextBuffer
<1>p. /\ free \subseteq Entry /\ held \subseteq Entry
      /\ inbuf = Buffered \union pr /\ pr \intersect Buffered = {}
      /\ free \ Popped = Entry \ held
  BY DEF Places, TypeOK, Transit, Popped
<1>1. TypeOK'
  BY EdgeTypes
<1>2. \A i, j \in 1..Len(buf') : buf'[i] = buf'[j] => i = j
  BY <1>e, NextBuffer
<1>3. ASSUME NEW i \in 1..Len(buf')
      PROVE  buf'[i] \in free' /\ (buf'[i] \in held' <=> i <= rq')
  <2>1. buf'[i] \in Stayed \union Added
    BY <1>b DEF Buffered
  <2>2. buf'[i] \in free /\ buf'[i] \notin Popped /\ buf'[i] \notin held
    BY <1>a, <2>1
  <2>3. buf'[i] \in free'
    BY <1>e, <2>2
  <2>4. buf'[i] \in held' <=> buf'[i] \in Taken(k)
    BY <1>e, <2>2
  <2> QED BY <1>e, <1>t, <2>3, <2>4
<1>4. free' \ Transit' = Entry \ held'
  <2>1. Transit' = Taken(k)
    BY <1>e, <1>t DEF Transit
  <2>2. free' \ Taken(k) = ((Entry \ held) \union freed) \ Taken(k)
    BY <1>e, <1>p
  <2>3. ((Entry \ held) \union freed) \ Taken(k) = Entry \ ((held \ freed) \union Taken(k))
    BY <1>p
  <2> QED BY <1>e, <2>1, <2>2, <2>3
<1>5. inbuf' = Buffered' \union pr'
  BY <1>a, <1>b, <1>e, <1>p
<1>6. pr' \intersect Buffered' = {}
  BY <1>a, <1>b, <1>e
<1>7. ASSUME NEW b \in Bank, cand'[b] # None
      PROVE  Name(b, cand'[b]) \in free' \ inbuf'
  <2>0. TypeOK
    BY DEF Places
  <2>1. ASSUME NEW n \in free, n \notin inbuf, n \notin Added PROVE n \in free' \ inbuf'
    BY <1>a, <1>e, <1>p, <2>1
  <2>2. CASE cand'[b] = cand[b] /\ b \notin Adds
    <3>1. Found(b) /\ Cand(b) = Name(b, cand'[b])
      BY <1>7, <2>2 DEF Found, Cand
    <3>2. Cand(b) \in free /\ Cand(b) \notin inbuf
      BY <3>1 DEF Places
    <3>3. Cand(b) \notin Added
      BY <2>0, <2>2, <3>1, CandOnce DEF Added, Adds, Adv
    <3> QED BY <2>1, <3>1, <3>2, <3>3
  <2>3. CASE cand'[b] \in Searchable(b)
    <3>1. /\ cand'[b] \in Index /\ cand'[b] # cand[b]
          /\ Name(b, cand'[b]) \in free /\ Name(b, cand'[b]) \notin inbuf
      BY <2>3 DEF Searchable
    <3>2. ASSUME NEW c \in Adds PROVE Name(b, cand'[b]) # Cand(c)
      <4>1. c \in Bank /\ cand[c] \in Index /\ Cand(c) = Name(c, cand[c])
        BY <2>0, FoundIndex DEF Adds, Adv, Cand
      <4> QED BY <2>0, <3>1, <4>1, CandName
    <3> QED BY <2>1, <3>1, <3>2 DEF Added
  <2> QED BY <1>7, <2>2, <2>3, EdgeCand
<1>8. \A b \in Bank : Found(b)' => Cand(b)' \in free' \ inbuf'
  BY <1>7 DEF Found, Cand, Name
<1> QED BY <1>1, <1>2, <1>3, <1>4, <1>5, <1>6, <1>8 DEF Places

(***************************************************************************)
(* No search misses a name, when names come back two cycles after their    *)
(* take at the earliest: a free that could make an idle bank's search find *)
(* something sets fr_ch, and a mark that goes uncovers no free name.       *)
(***************************************************************************)
LEMMA EdgeSearched ==
  ASSUME Places, Searched, NEW k \in 0..A, NEW freed \in SUBSET held,
         NEW lead \in BOOLEAN, Edge(k, freed, lead)
  PROVE  Searched'
<1> SUFFICES ASSUME FreeAfter = 2
             PROVE  (pr \intersect free = {})' /\ FoundBySearchAfter'
  BY DEF Searched
<1>e. /\ free' = (free \ Popped) \union freed
      /\ inbuf' = (inbuf \ pr) \union Added
      /\ pr' = Popped
  BY EdgeDoes
<1>s. pr \intersect free = {} /\ FoundBySearchAfter
  BY DEF Searched
<1>1. pr' \intersect free' = {}
  <2>1. freed \intersect Popped = {}
    BY DEF Edge, Transit, Popped
  <2> QED BY <1>e, <2>1
<1>2. ASSUME NEW b \in Bank, cand'[b] = None, ~CandEnable(b)', NEW i \in Searchable(b)'
      PROVE  FALSE
  <2>0. Index \subseteq Nat /\ sp[b] \in Index /\ Searchable(b) \subseteq Index
    BY PoolAssumption, Whole DEF Places, TypeOK, Index, M, Searchable
  <2>1. ~free_en /\ freed = {}
    <3>1. ~fr_ch'
      BY <1>2 DEF CandEnable, Found
    <3> QED BY <3>1 DEF Edge
  <2>2. i \in Index /\ Name(b, i) \in free' /\ Name(b, i) \notin inbuf'
    BY <1>2 DEF Searchable, Name
  <2>3. Name(b, i) \in free /\ Name(b, i) \notin inbuf
    BY <1>e, <1>s, <2>1, <2>2
  <2>4. Searchable(b) = {} /\ ~(Found(b) /\ ~Adv(b))
    <3>1. CASE CandEnable(b)
      <4>1. CandNext(b) = None
        BY <1>2, <3>1 DEF Edge
      <4>2. ~(Found(b) /\ ~Adv(b))
        BY <4>1 DEF CandNext, Found
      <4>3. FirstFrom(Searchable(b), sp[b]) = None
        BY <4>1, <4>2 DEF CandNext
      <4> QED BY <2>0, <4>2, <4>3, FirstFromIn, NoneAssumption
    <3>2. CASE ~CandEnable(b)
      <4>1. ~Found(b)
        BY <1>2, <3>2, CandKept DEF Found
      <4> QED BY <1>s, <3>2, <4>1 DEF FoundBySearchAfter
    <3> QED BY <3>1, <3>2
  <2>5. i = cand[b]
    BY <2>2, <2>3, <2>4 DEF Searchable
  <2>6. Found(b) /\ Name(b, i) = Cand(b)
    BY <2>0, <2>2, <2>5, NoneAssumption DEF Found, Cand
  <2>7. Cand(b) \in Added
    BY <2>4, <2>6 DEF Added, Adds
  <2> QED BY <1>e, <2>2, <2>6, <2>7
<1>3. FoundBySearchAfter'
  <2>1. \A b \in Bank : cand'[b] = None /\ ~CandEnable(b)' => Searchable(b)' = {}
    BY <1>2
  <2> QED BY <2>1 DEF FoundBySearchAfter, Found
<1> QED BY <1>1, <1>3

LEMMA NextNames == NamesIInv /\ [Next]_vars => NamesIInv'
<1> SUFFICES ASSUME NamesIInv, [Next]_vars PROVE NamesIInv'
  OBVIOUS
<1>1. CASE Next
  <2>1. PICK k \in 0..A, freed \in SUBSET held, lead \in BOOLEAN : Edge(k, freed, lead)
    BY <1>1 DEF Next
  <2>2. Places'
    BY <2>1, EdgePlaces DEF NamesIInv
  <2>3. Searched'
    BY <2>1, EdgeSearched DEF NamesIInv
  <2> QED BY <2>2, <2>3 DEF NamesIInv
<1>2. CASE UNCHANGED vars
  <2>1. /\ UNCHANGED <<free, buf, inbuf, bptr, rot, cand, sp, rq, pr>>
        /\ UNCHANGED <<free_en, fr_ch, held>>
    BY <1>2 DEF vars, listVars
  <2>2. TypeOK'
    BY <2>1 DEF TypeOK, NamesIInv, Places
  <2>3. Buffered' = Buffered /\ Transit' = Transit
    BY <2>1 DEF Buffered, Transit
  <2>4. \A b \in Bank : /\ Found(b)' <=> Found(b)
                        /\ Cand(b)' = Cand(b)
                        /\ CandEnable(b)' <=> CandEnable(b)
                        /\ Searchable(b)' = Searchable(b)
    BY <2>1 DEF Found, Cand, CandEnable, AdvOf, Room, Searchable
  <2>5. Places'
    BY <2>1, <2>2, <2>3, <2>4 DEF NamesIInv, Places
  <2>6. Searched'
    BY <2>1, <2>4 DEF NamesIInv, Searched, FoundBySearchAfter
  <2> QED BY <2>5, <2>6 DEF NamesIInv
<1> QED BY <1>1, <1>2

LEMMA SpecNames == Spec => []NamesIInv
BY InitNames, NextNames, PTL DEF Spec

\* What the invariant says at the ports.
LEMMA OffersOfPlaces == Places => OffersFree /\ NoneLost
<1> SUFFICES ASSUME Places PROVE OffersFree /\ NoneLost
  OBVIOUS
<1>0. rq \in Nat /\ Len(buf) \in Nat /\ rq <= Len(buf)
  BY DEF Places, TypeOK
<1>1. OffersFree
  <2>1. \A i \in 1..Avail : rq + i \in 1..Len(buf) /\ ~(rq + i <= rq)
    BY <1>0 DEF Avail
  <2>2. \A i \in 1..Avail : Offer(i) \notin held
    BY <2>1 DEF Offer, Places
  <2>3. \A i, j \in 1..Avail : Offer(i) = Offer(j) => rq + i = rq + j
    BY <2>1 DEF Offer, Places
  <2>4. \A i, j \in 1..Avail : rq + i = rq + j => i = j
    BY <1>0
  <2> QED BY <2>2, <2>3, <2>4 DEF OffersFree
<1>2. NoneLost
  <2>1. Transit \subseteq held
    BY NamesApart DEF Transit, Popped
  <2> QED BY <2>1 DEF Places, NoneLost
<1> QED BY <1>1, <1>2

(***************************************************************************)
(* No name is given to two instructions, or lost, whatever the size of the *)
(* pool, the buffer and the banks, however early names come back.          *)
(***************************************************************************)
THEOREM NoNameTwice == Spec => [](OffersFree /\ NoneLost)
<1>1. NamesIInv => OffersFree /\ NoneLost
  BY OffersOfPlaces DEF NamesIInv
<1> QED BY <1>1, SpecNames, PTL

(***************************************************************************)
(* With names that come back two cycles after their take at the earliest,  *)
(* as retirement frees them, a free name is also found by its bank's next  *)
(* search: NamesKept, for every pool.                                      *)
(***************************************************************************)
THEOREM EveryNameKept == FreeAfter = 2 /\ Spec => []NamesKept
<1> SUFFICES ASSUME FreeAfter = 2 PROVE Spec => []NamesKept
  OBVIOUS
<1>1. NamesIInv => NamesKept
  BY OffersOfPlaces DEF NamesIInv, Searched, NamesKept, Places
<1> QED BY <1>1, SpecNames, PTL

-----------------------------------------------------------------------------
(***************************************************************************)
(* The RTL free list implements the cycle model's FreeVec, for every pool, *)
(* number of banks, buffer and ports: ImplementsModel of FreeList, proved  *)
(* from the invariant above and from where a search starts.                *)
(***************************************************************************)

\* A bank's search starts at its candidate, which it leaves out, or, without
\* one, where the model's pointer is.
SearchStart == \A b \in Bank : sp[b] = IF Found(b) THEN cand[b] ELSE bptr[b]

LEMMA Sizes ==
  /\ M \in Nat \ {0} /\ K \in Nat \ {0} /\ Index = 0..(M-1)
  /\ Model!PerBank = M /\ Model!Index = Index /\ Model!Bank = Bank /\ Model!Entry = Entry
BY PoolAssumption, Whole
   DEF M, Index, Bank, Entry, Model!PerBank, Model!Index, Model!Bank, Model!Entry

\* The model counts with its own copy of the library's Cardinality.
LEMMA SameCount == ASSUME NEW S PROVE Model!Cardinality(S) = Cardinality(S)
BY DEF Model!Cardinality, Cardinality

\* What a search returns: the first at or after the start, else the first.
LEMMA FirstFromIs ==
  ASSUME NEW S, S \subseteq Index, S # {}, NEW p \in Index
  PROVE  LET r == FirstFrom(S, p)
         IN  /\ r \in S
             /\ \A j \in S : j >= p => r >= p /\ r <= j
             /\ (\A j \in S : j < p) => \A j \in S : r <= j
<1> DEFINE after == {i \in S : i >= p}
           from  == IF after # {} THEN after ELSE S
           r == FirstFrom(S, p)
<1>0. S \subseteq Nat /\ p \in Nat
  BY Sizes
<1>1. from \subseteq S /\ from # {} /\ from \subseteq Nat
  BY <1>0
<1>2. r = CHOOSE i \in from : \A j \in from : i <= j
  BY DEF FirstFrom
<1>3. r \in from /\ \A j \in from : r <= j
  <2> HIDE DEF from, r
  <2>1. \E i \in from : \A j \in from : i <= j
    BY <1>1, Least
  <2> QED BY <1>2, <2>1
<1> HIDE DEF r
<1>4. \A j \in S : j >= p => r >= p /\ r <= j
  BY <1>3
<1>5. ASSUME \A j \in S : j < p PROVE \A j \in S : r <= j
  <2>1. ASSUME NEW i \in S PROVE ~(i >= p)
    <3>1. i < p /\ i \in Nat
      BY <1>0, <1>5
    <3> QED BY <1>0, <3>1
  <2>2. after = {}
    BY <2>1
  <2> QED BY <1>3, <2>2
<1> QED BY <1>3, <1>4, <1>5 DEF r

\* Distance from the start, going round the bank.
LEMMA Round ==
  ASSUME NEW x \in Index, NEW q \in Index
  PROVE  (x - q) % M = IF x >= q THEN x - q ELSE x - q + M
BY Sizes, Distance

LEMMA NextIndex ==
  ASSUME NEW p \in Index
  PROVE  (p + 1) % M = IF p + 1 = M THEN 0 ELSE p + 1
<1>0. M \in Nat \ {0} /\ p \in 0..(M-1)
  BY Sizes
<1>1. \A m \in Nat \ {0} : m % m = 0
  BY SMT
<1>2. CASE p + 1 # M
  BY <1>0, <1>2, ModUp, p + 1 \in 0..(M-1)
<1> QED BY <1>0, <1>1, <1>2

(***************************************************************************)
(* Searching from p, as the module does, is searching from p or, when p is *)
(* not in the set, from the index after it, as the model does.             *)
(***************************************************************************)
LEMMA SameSearch ==
  ASSUME NEW S, S \subseteq Index, NEW p \in Index, NEW q \in Index,
         q = p \/ (q = (p + 1) % M /\ p \notin S)
  PROVE  FirstFrom(S, p) = Model!FirstFrom(S, q)
<1>1. CASE S = {}
  BY <1>1 DEF FirstFrom, Model!FirstFrom
<1>2. CASE S # {}
  <2> DEFINE r == FirstFrom(S, p)
             Near(i) == \A j \in S : (i - q) % M <= (j - q) % M
  <2>0. /\ M \in Nat \ {0} /\ p \in 0..(M-1) /\ q \in 0..(M-1)
        /\ \A j \in S : j \in 0..(M-1)
    BY Sizes
  <2>1. /\ r \in S
        /\ \A j \in S : j >= p => r >= p /\ r <= j
        /\ (\A j \in S : j < p) => \A j \in S : r <= j
    BY <1>2, FirstFromIs
  <2> HIDE DEF r
  <2>2. \A j \in S : (j - q) % M = IF j >= q THEN j - q ELSE j - q + M
    BY Round
  <2>3. q = p \/ (p \notin S /\ q = IF p + 1 = M THEN 0 ELSE p + 1)
    BY NextIndex
  <2>4. ASSUME NEW j \in S PROVE (r - q) % M <= (j - q) % M
    <3>1. r \in 0..(M-1) /\ j \in 0..(M-1)
      BY <2>0, <2>1
    <3>2. CASE j >= p
      BY <2>0, <2>1, <2>2, <2>3, <3>1, <3>2
    <3>3. CASE j < p /\ r >= p
      BY <2>0, <2>1, <2>2, <2>3, <3>1, <3>3
    <3>4. CASE j < p /\ r < p
      <4>1. \A i \in S : i < p
        BY <2>0, <2>1, <3>4
      <4>2. r <= j
        BY <2>1, <4>1
      <4> QED BY <2>0, <2>1, <2>2, <2>3, <3>1, <3>4, <4>2
    <3> QED BY <2>0, <3>1, <3>2, <3>3, <3>4
  <2>5. ASSUME NEW i \in S, Near(i) PROVE i = r
    <3>1. (i - q) % M = (r - q) % M
      <4>1. (i - q) % M <= (r - q) % M /\ (r - q) % M <= (i - q) % M
        BY <2>1, <2>4, <2>5
      <4>2. (i - q) % M \in Int /\ (r - q) % M \in Int
        BY <2>0, <2>1, <2>2
      <4> QED BY <4>1, <4>2
    <3> QED BY <2>0, <2>1, <2>2, <3>1
  <2>6. Model!FirstFrom(S, q) = CHOOSE i \in S : Near(i)
    BY <1>2, Sizes DEF Model!FirstFrom
  <2>7. Near(r)
    BY <2>4
  <2> HIDE DEF Near
  <2>8. (CHOOSE i \in S : Near(i)) = r
    BY <2>1, <2>5, <2>7
  <2> QED BY <2>6, <2>8 DEF r
<1> QED BY <1>1, <1>2

-----------------------------------------------------------------------------

LEMMA EdgeStart ==
  ASSUME Places, SearchStart, NEW k \in 0..A, NEW freed \in SUBSET held,
         NEW lead \in BOOLEAN, Edge(k, freed, lead)
  PROVE  SearchStart' /\ \A b \in Bank : bptr'[b] = PtrNext(b)
<1>0. TypeOK /\ rot \in Bank /\ Room \in Int
  BY BufferAssumption DEF Places, TypeOK, Room
<1>1. \A b \in Bank : b \notin Adds => PtrNext(b) = bptr[b]
  BY DEF PtrNext, Adds
<1>2. \A b \in Bank : bptr'[b] = PtrNext(b)
  <2>1. CASE BufEnable
    BY <2>1 DEF Edge
  <2>2. CASE ~BufEnable
    BY <1>0, <1>1, <2>2, GatherIdle DEF Edge
  <2> QED BY <2>1, <2>2
<1>3. ASSUME NEW b \in Bank
      PROVE  sp'[b] = IF cand'[b] # None THEN cand'[b] ELSE bptr'[b]
  <2>1. CASE ~CandEnable(b)
    <3>1. b \notin Adds
      BY <1>0, <2>1, EnableCoversAppend DEF CandEnable, Adds
    <3>2. sp'[b] = sp[b] /\ cand'[b] = cand[b] /\ bptr'[b] = bptr[b]
      BY <1>1, <1>2, <2>1, <3>1 DEF Edge
    <3> QED BY <3>2 DEF SearchStart, Found
  <2>2. CASE CandEnable(b)
    BY <1>2, <2>2 DEF Edge
  <2> QED BY <2>1, <2>2
<1> QED BY <1>2, <1>3 DEF SearchStart, Found

\* The model's view of the free bits, before and after an edge.
LEMMA ModelBits ==
  ASSUME Places PROVE free \ (Transit \intersect held) = Entry \ held
BY OffersOfPlaces DEF NoneLost

\* The model's rank of a bank, and the banks that append in it.
LEMMA ModelRank ==
  ASSUME NEW b \in Bank
  PROVE  {j \in Model!Before(b, rot) : cand[j] # None} = Ahead(b)
BY Sizes DEF Model!Before, Ahead, Found

(***************************************************************************)
(* What a search of the model sees after this cycle's takes and appends is *)
(* what the module's search sees before them: a name taken or appended is  *)
(* marked buffered, or is the bank's own candidate.                        *)
(***************************************************************************)
LEMMA ModelSees ==
  ASSUME Places, buf' = BufNext, NEW k \in 0..A, k <= Stay, NEW b \in Bank,
         ~(Found(b) /\ ~Adv(b))
  PROVE  {i \in Index : /\ Name(b, i) \in (Entry \ held) \ Taken(k)
                        /\ Name(b, i) \notin inbuf \union Added} = Searchable(b)
<1>0. TypeOK /\ Index \subseteq Nat
  BY Sizes DEF Places
<1>1. ASSUME NEW i \in Index,
             Name(b, i) \in (Entry \ held) \ Taken(k), Name(b, i) \notin inbuf \union Added
      PROVE  i \in Searchable(b)
  <2>1. Name(b, i) \in free
    BY <1>1 DEF Places
  <2>2. i # cand[b]
    <3>1. SUFFICES ASSUME i = cand[b] PROVE FALSE
      OBVIOUS
    <3>2. Found(b) /\ Name(b, i) = Cand(b)
      BY <1>0, <3>1, NoneAssumption DEF Found, Cand
    <3>3. Name(b, i) \in Added
      BY <3>2 DEF Added, Adds
    <3> QED BY <1>1, <3>3
  <2> QED BY <1>1, <2>1, <2>2 DEF Searchable
<1>2. ASSUME NEW i \in Searchable(b)
      PROVE  /\ i \in Index /\ Name(b, i) \in (Entry \ held) \ Taken(k)
             /\ Name(b, i) \notin inbuf \union Added
  <2>1. /\ i \in Index /\ Name(b, i) \in free /\ Name(b, i) \notin inbuf
        /\ i # cand[b]
    BY DEF Searchable
  <2>2. Name(b, i) \notin Buffered
    BY <2>1 DEF Places
  <2>3. Name(b, i) \notin Transit /\ Name(b, i) \notin Taken(k)
    BY <2>2, NamesApart, TakenFirst DEF Transit, Popped
  <2>4. Name(b, i) \in Entry \ held
    BY <2>1, <2>3 DEF Places
  <2>5. Name(b, i) \notin Added
    <3>1. ASSUME NEW c \in Adds PROVE Name(b, i) # Cand(c)
      <4>1. c \in Bank /\ cand[c] \in Index /\ Cand(c) = Name(c, cand[c])
        BY <1>0, FoundIndex DEF Adds, Adv, Cand
      <4> QED BY <1>0, <2>1, <4>1, CandName
    <3> QED BY <3>1 DEF Added
  <2> QED BY <2>1, <2>3, <2>4, <2>5
<1> QED BY <1>1, <1>2

\* The candidates after an edge are the model's.
LEMMA ModelCand ==
  ASSUME NamesIInv, SearchStart, FreeAfter = 2, NEW k \in 0..A,
         NEW freed \in SUBSET held, NEW lead \in BOOLEAN, Edge(k, freed, lead),
         NEW b \in Bank
  PROVE  cand'[b] = IF Found(b) /\ ~Adv(b) THEN cand[b]
                    ELSE Model!FirstFrom(Searchable(b), PtrNext(b))
<1>0. /\ Places /\ TypeOK /\ rot \in Bank /\ Room \in Int /\ sp[b] \in Index
      /\ FoundBySearchAfter /\ Searchable(b) \subseteq Index
  BY BufferAssumption DEF NamesIInv, Places, TypeOK, Room, Searched, Searchable
<1>1. cand'[b] = IF CandEnable(b) THEN CandNext(b) ELSE cand[b]
  BY DEF Edge
<1>2. CASE Found(b) /\ ~Adv(b)
  BY <1>1, <1>2 DEF CandNext
<1>3. CASE ~(Found(b) /\ ~Adv(b)) /\ ~CandEnable(b)
  <2>1. ~Found(b) /\ Searchable(b) = {}
    BY <1>0, <1>3, EnableCoversAppend DEF CandEnable, FoundBySearchAfter
  <2>2. Model!FirstFrom(Searchable(b), PtrNext(b)) = None
    BY <2>1 DEF Model!FirstFrom
  <2> QED BY <1>1, <1>3, <2>1, <2>2 DEF Found
<1>4. CASE ~(Found(b) /\ ~Adv(b)) /\ CandEnable(b)
  <2>1. cand'[b] = FirstFrom(Searchable(b), sp[b])
    BY <1>1, <1>4 DEF CandNext
  <2>2. CASE Found(b)
    <3>1. /\ sp[b] = cand[b] /\ sp[b] \notin Searchable(b)
          /\ PtrNext(b) = (sp[b] + 1) % M
      BY <1>4, <2>2 DEF SearchStart, Searchable, PtrNext
    <3>2. PtrNext(b) \in Index
      <4>1. sp[b] \in 0..(M-1) /\ M \in Nat \ {0}
        BY <1>0, Sizes
      <4>2. \A x \in Nat, m \in Nat \ {0} : x % m \in 0..(m - 1)
        BY SMT
      <4>3. sp[b] + 1 \in Nat
        BY <4>1
      <4> QED BY <3>1, <4>1, <4>2, <4>3, Sizes
    <3> QED BY <1>0, <1>4, <2>1, <2>2, <3>1, <3>2, SameSearch
  <2>3. CASE ~Found(b)
    <3>1. PtrNext(b) = sp[b]
      BY <2>3 DEF SearchStart, PtrNext, Adv
    <3> QED BY <1>0, <1>4, <2>1, <2>3, <3>1, SameSearch
  <2> QED BY <2>2, <2>3
<1> QED BY <1>2, <1>3, <1>4

-----------------------------------------------------------------------------

(***************************************************************************)
(* Every edge of the module is a cycle of the model that takes and frees   *)
(* the same names.                                                         *)
(***************************************************************************)
LEMMA EdgeIsCycle ==
  ASSUME NamesIInv, SearchStart, FreeAfter = 2, NEW k \in 0..A,
         NEW freed \in SUBSET held, NEW lead \in BOOLEAN, Edge(k, freed, lead)
  PROVE  Model!FreeVecCycle(k, freed)
<1> DEFINE left      == SubSeq(buf, rq + 1, Len(buf))
           popped    == {buf[i] : i \in 1..rq}
           bits      == (free \ (Transit \intersect held)) \ {left[i] : i \in 1..k}
           ahead(b)  == Model!Cardinality({j \in Model!Before(b, rot) : cand[j] # None})
           append(b) == cand[b] # None /\ Len(left) + ahead(b) < B
           added     == {b \in Model!Bank : append(b)}
           nth(n)    == CHOOSE b \in added : ahead(b) = n
           ptr(b)    == IF append(b) THEN (cand[b] + 1) % Model!PerBank ELSE bptr[b]
           marked    == inbuf \union {Model!Name(b, cand[b]) : b \in added}
           fresh(b)  == Model!FirstFrom({i \in Model!Index : /\ Model!Name(b, i) \in bits
                                                  /\ Model!Name(b, i) \notin marked}, ptr(b))
<1> HIDE DEF left, popped, bits, ahead, append, added, nth, ptr, marked, fresh
<1>p. Places
  BY DEF NamesIInv
<1>q. Places'
  BY <1>p, EdgePlaces
<1>r. NoneLost'
  BY <1>q, OffersOfPlaces, PTL
<1>0. /\ TypeOK /\ rq \in Nat /\ Len(buf) \in Nat /\ rq <= Len(buf)
      /\ Stay \in Nat /\ B \in Nat /\ Cardinality(Adds) \in Nat
      /\ Room = B - Stay /\ Stay = Len(buf) - rq /\ buf \in Seq(Entry)
  BY <1>p, RanksFill, BufferAssumption DEF Places, TypeOK, Room, Stay
<1>e. /\ free' = (free \ Popped) \union freed
      /\ buf' = BufNext
      /\ inbuf' = (inbuf \ pr) \union Added
      /\ rq' = k /\ k <= Stay
      /\ pr' = Popped
      /\ held' = (held \ freed) \union Taken(k)
  BY <1>p, EdgeDoes
<1>1. /\ Len(left) = Stay /\ left \in Seq(Entry)
      /\ \A i \in 1..Stay : left[i] = buf[i + rq]
  <2>1. \A i \in (rq + 1)..Len(buf) : buf[i] \in Entry
    BY <1>0
  <2>2. /\ left \in Seq(Entry)
        /\ Len(left) = IF rq + 1 <= Len(buf) THEN Len(buf) - (rq + 1) + 1 ELSE 0
        /\ \A i \in 1..(Len(buf) - (rq + 1) + 1) : left[i] = buf[(rq + 1) + i - 1]
    BY <1>0, <2>1, SubSeqProperties DEF left
  <2>3. Len(left) = Stay
    BY <1>0, <2>2
  <2>4. \A i \in 1..Stay : (rq + 1) + i - 1 = i + rq /\ i \in 1..(Len(buf) - (rq + 1) + 1)
    BY <1>0
  <2> QED BY <2>2, <2>3, <2>4
<1>2. bits = (Entry \ held) \ Taken(k)
  <2>1. {left[i] : i \in 1..k} = Taken(k)
    <3>1. \A i \in 1..k : i \in 1..Stay /\ i + rq = rq + i
      BY <1>0, <1>e
    <3>2. \A i \in 1..k : left[i] = Offer(i)
      BY <1>1, <3>1 DEF Offer
    <3> QED BY <3>2 DEF Taken
  <2> QED BY <1>p, <2>1, ModelBits DEF bits
<1>3. \A b \in Bank : ahead(b) = Rank(b)
  BY ModelRank, SameCount DEF Rank, ahead
<1>4. \A b \in Bank : append(b) <=> Adv(b)
  BY <1>0, <1>1, <1>3, AheadFinite DEF Adv, Found, append
<1>5. added = Adds
  BY <1>4, Sizes DEF Adds, added
<1>6. \A b \in Bank : ptr(b) = PtrNext(b)
  BY <1>4, Sizes DEF PtrNext, ptr
<1>7. marked = inbuf \union Added
  BY <1>5 DEF Added, Cand, Name, Model!Name, marked
<1>8. ASSUME NEW b \in Bank, ~(Found(b) /\ ~Adv(b))
      PROVE  fresh(b) = Model!FirstFrom(Searchable(b), PtrNext(b))
  <2>1. {i \in Model!Index : Model!Name(b, i) \in bits /\ Model!Name(b, i) \notin marked}
          = {i \in Index : /\ Name(b, i) \in (Entry \ held) \ Taken(k)
                           /\ Name(b, i) \notin inbuf \union Added}
    BY <1>2, <1>7, Sizes DEF Name, Model!Name
  <2>2. @ = Searchable(b)
    BY <1>p, <1>8, <1>e, ModelSees
  <2> QED BY <1>6, <2>1, <2>2 DEF fresh
<1> DEFINE appended == [n \in 1..Model!Cardinality(added) |->
                          Model!Name(nth(n-1), cand[nth(n-1)])]
<1> HIDE DEF appended
<1>9. buf' = left \o appended
  <2> DEFINE c == Cardinality(Adds)
  <2>1. appended = [n \in 1..c |-> Cand(nth(n-1))]
    BY <1>5, SameCount DEF appended, Cand, Name, Model!Name
  <2>2. ASSUME NEW n \in 1..c
        PROVE  nth(n-1) \in Adds /\ Rank(nth(n-1)) = n - 1 /\ Cand(nth(n-1)) \in Entry
    <3>1. \A b \in Adds : ahead(b) = Rank(b)
      BY <1>3 DEF Adds
    <3>2. n - 1 \in 0..(c-1)
      BY <1>0
    <3>3. \E b \in added : ahead(b) = n - 1
      BY <1>0, <1>5, <3>1, <3>2, RanksFill
    <3>4. nth(n-1) \in added /\ ahead(nth(n-1)) = n - 1
      BY <3>3 DEF nth
    <3>5. nth(n-1) \in Bank /\ Found(nth(n-1))
      BY <1>5, <3>4 DEF Adds, Adv
    <3> QED BY <1>0, <1>5, <3>1, <3>4, <3>5, FoundIndex
  <2>3. appended \in Seq(Entry) /\ Len(appended) = c
    BY <1>0, <2>1, <2>2
  <2>4. /\ left \o appended \in Seq(Entry) /\ Len(left \o appended) = Stay + c
        /\ \A i \in 1..(Stay + c) : (left \o appended)[i] =
              IF i <= Stay THEN left[i] ELSE appended[i - Stay]
    <3>1. /\ left \o appended \in Seq(Entry)
          /\ Len(left \o appended) = Len(left) + Len(appended)
          /\ \A i \in 1..(Len(left) + Len(appended)) : (left \o appended)[i] =
                IF i <= Len(left) THEN left[i] ELSE appended[i - Len(left)]
      BY <1>1, <2>3, ConcatProperties
    <3> QED BY <1>1, <2>3, <3>1
  <2>5. BufNext \in Seq(Entry) /\ Len(BufNext) = Stay + c
    BY <1>0, Gather
  <2>6. ASSUME NEW i \in 1..(Stay + c) PROVE BufNext[i] = (left \o appended)[i]
    <3>1. CASE i <= Stay
      BY <1>0, <1>1, <2>4, <3>1, Gather, i \in 1..Stay
    <3>2. CASE ~(i <= Stay)
      <4>1. i \in (Stay + 1)..(Stay + c) /\ i - Stay \in 1..c
        BY <1>0, <3>2
      <4>2. PICK b \in Adds : Rank(b) = i - Stay - 1 /\ BufNext[i] = Cand(b)
        BY <1>0, <4>1, Gather
      <4>3. appended[i - Stay] = Cand(nth(i - Stay - 1))
        BY <2>1, <4>1
      <4>4. nth(i - Stay - 1) \in Adds /\ Rank(nth(i - Stay - 1)) = i - Stay - 1
        BY <2>2, <4>1
      <4>5. nth(i - Stay - 1) = b
        BY <1>0, <4>2, <4>4, RankOnce DEF TypeOK, Adds, Adv
      <4> QED BY <2>4, <3>2, <4>2, <4>3, <4>5
    <3> QED BY <3>1, <3>2
  <2> QED BY <1>e, <2>4, <2>5, <2>6, SeqEqual
<1>10. inbuf' = marked \ pr
  <2>1. pr \intersect Added = {}
    <3>1. pr \subseteq inbuf
      BY <1>p DEF Places
    <3>2. \A b \in Adds : Cand(b) \notin inbuf
      BY <1>p DEF Places, Adds, Adv
    <3> QED BY <3>1, <3>2 DEF Added
  <2> QED BY <1>7, <1>e, <2>1
<1>11. (free \ (Transit \intersect held))' = bits \union freed
  <2>1. (free \ (Transit \intersect held))' = (Entry \ held)'
    BY <1>q, <1>r DEF NoneLost
  <2>2. Taken(k) \intersect freed = {} /\ freed \subseteq Entry
    BY <1>0, <1>e, <1>p, TakenFirst, NamesApart DEF TypeOK
  <2> QED BY <1>2, <1>e, <2>1, <2>2 DEF Entry
<1>12. k <= A /\ k <= Model!Avail /\ freed \intersect bits = {}
  BY <1>0, <1>2, <1>e DEF Model!Avail
<1>13. bptr' = [b \in Model!Bank |-> ptr(b)]
  <2>1. \A b \in Bank : bptr'[b] = ptr(b)
    BY <1>6, <1>p, EdgeStart
  <2>2. DOMAIN bptr' = Bank /\ bptr' = [b \in Bank |-> bptr'[b]]
    BY DEF Edge
  <2> QED BY <2>1, <2>2, Sizes
<1>14. cand' = [b \in Model!Bank |-> IF cand[b] # None /\ ~append(b) THEN cand[b]
                                     ELSE fresh(b)]
  <2>1. ASSUME NEW b \in Bank
        PROVE  cand'[b] = IF cand[b] # None /\ ~append(b) THEN cand[b] ELSE fresh(b)
    <3>1. cand'[b] = IF Found(b) /\ ~Adv(b) THEN cand[b]
                     ELSE Model!FirstFrom(Searchable(b), PtrNext(b))
      BY ModelCand
    <3> QED BY <1>4, <1>8, <3>1 DEF Found
  <2>2. cand' = [b \in Bank |-> cand'[b]]
    BY DEF Edge
  <2> QED BY <2>1, <2>2, Sizes
<1>15. rot' = (rot + 1) % K /\ rq' = k /\ pr' = popped
  BY <1>e DEF Edge, Popped, popped
<1> USE DEF left, popped, bits, ahead, append, added, nth, ptr, marked, fresh, appended
<1> QED
  BY <1>9, <1>10, <1>11, <1>12, <1>13, <1>14, <1>15, ZenonT(60) DEF Model!FreeVecCycle

LEMMA InitStart == Init => SearchStart
BY DEF Init, SearchStart, Found

LEMMA NextStart == NamesIInv /\ SearchStart /\ [Next]_vars => SearchStart'
<1> SUFFICES ASSUME NamesIInv, SearchStart, [Next]_vars PROVE SearchStart'
  OBVIOUS
<1>1. CASE Next
  <2>1. PICK k \in 0..A, freed \in SUBSET held, lead \in BOOLEAN : Edge(k, freed, lead)
    BY <1>1 DEF Next
  <2>2. Places
    BY DEF NamesIInv
  <2> QED BY <2>1, <2>2, EdgeStart
<1>2. CASE UNCHANGED vars
  BY <1>2 DEF vars, listVars, SearchStart, Found
<1> QED BY <1>1, <1>2

LEMMA InitIsInit == Init => Model!FreeVecInit
<1> SUFFICES ASSUME Init PROVE Model!FreeVecInit
  OBVIOUS
<1>1. free \ (Transit \intersect held) = Model!Entry
  BY Sizes DEF Init
<1> QED BY <1>1, Sizes DEF Init, Model!FreeVecInit

LEMMA NextIsNext ==
  FreeAfter = 2 /\ NamesIInv /\ SearchStart /\ [Next]_vars
    => [Model!FreeVecNext]_(Model!freeVecVars)
<1> SUFFICES ASSUME FreeAfter = 2, NamesIInv, SearchStart, [Next]_vars
             PROVE  [Model!FreeVecNext]_(Model!freeVecVars)
  OBVIOUS
<1>1. CASE Next
  <2>1. PICK k \in 0..A, freed \in SUBSET held, lead \in BOOLEAN : Edge(k, freed, lead)
    BY <1>1 DEF Next
  <2>2. Model!FreeVecCycle(k, freed)
    BY <2>1, EdgeIsCycle
  <2>3. freed \in SUBSET Model!Entry
    BY Sizes DEF NamesIInv, Places, TypeOK
  <2> QED BY <2>2, <2>3 DEF Model!FreeVecNext
<1>2. CASE UNCHANGED vars
  BY <1>2 DEF vars, listVars, Model!freeVecVars, Transit
<1> QED BY <1>1, <1>2

(***************************************************************************)
(* The RTL free list implements the model's, for every pool, number of     *)
(* banks, buffer and ports, as long as names come back two cycles after    *)
(* their take at the earliest: every edge takes, frees, appends and finds  *)
(* the same names in the same order, whatever the early enables leave off. *)
(***************************************************************************)
THEOREM ModelImplemented == FreeAfter = 2 /\ Spec => ImplementsModel
<1> SUFFICES ASSUME FreeAfter = 2 PROVE Spec => ImplementsModel
  OBVIOUS
<1>1. NamesIInv /\ SearchStart /\ [Next]_vars
        => [Model!FreeVecNext]_(Model!freeVecVars)
  BY NextIsNext
<1> QED BY <1>1, InitNames, NextNames, InitStart, NextStart, InitIsInit, PTL
        DEF Spec, ImplementsModel, Model!FreeVecSpec
=============================================================================
