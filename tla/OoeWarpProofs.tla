--------------------------- MODULE OoeWarpProofs ---------------------------
(***************************************************************************)
(* Theorems about OoeWarp, for every ring, pool, set of registers and set  *)
(* of checkpoints.  The parts of the invariant lean on each other: a name  *)
(* a retirement frees is the previous version of its register only if the  *)
(* speculative map is exact, which a squash keeps only if the checkpoint   *)
(* it restores is, which retirement keeps only if it never passes a        *)
(* branch whose squash is due.                                             *)
(***************************************************************************)
EXTENDS OoeWarp, FiniteSetTheorems, WellFoundedInduction, TLAPS

\* The ring: the live entries are the ages below count, in one piece.
Ring == \A i \in Idx : rob[i].st = "live" <=> Age(i) < count

\* What an entry's fields say of each other.
Sound(e) ==
  /\ e.st = "none" => e = NoEntry
  /\ e.st = "held" => e.ck = None /\ ~e.wp /\ ~e.complete /\ ~e.pend
  /\ IF e.dst = None THEN e.new = Zero /\ e.old = Zero
                     ELSE e.new \in Name /\ e.kind = "op"
  /\ e.ck # None => IsBranch(e)
  /\ e.complete => e.rs = "free" /\ e.owed = 0
  /\ e.pend => e.complete /\ e.kind = "ret"
  /\ e.kind = "exit" => e.rs = "free"

Entries == \A i \in Idx : Sound(rob[i])

\* A tag's owed dones are those in flight, all for its name; all but the one
\* that will say the entry is done are void.
Matched(e, f) ==
  /\ \A k \in 1..Len(f) : e.st # "none" /\ f[k] = e.new
  /\ e.st # "none" =>
       /\ e.owed = Len(f)
       /\ e.stale = IF /\ e.st = "live" /\ e.rs \in {"issued", "free"}
                       /\ e.kind # "exit" /\ ~e.done
                    THEN e.owed - 1 ELSE e.owed
       /\ e.done => e.rs # "wait"

Dones == \A i \in Idx : Matched(rob[i], flight[i])

\* What is younger than a misprediction is known to be, until the edge
\* squashes it; its branch is in the ring until retirement has passed it.
DueBranch ==
  /\ due.on =>
       /\ due.keep <= count
       /\ IF due.keep = 0 THEN phase \in {"select", "rename"}
                          ELSE IsBranch(rob[At(due.keep - 1)])
  /\ \A i \in Idx : rob[i].wp <=> (due.on /\ Age(i) < count /\ Age(i) >= due.keep)

\* A branch of the path so far holds a checkpoint until it has resolved.
KeepsCkpt(e) ==
  e.st = "live" /\ IsBranch(e) /\ ~e.wp => (e.ck = None <=> e.complete /\ ~e.pend)

Unresolved == \A i \in Idx : KeepsCkpt(rob[i])

\* RatExact, CkptExact, and the same of the names that retirement frees: an
\* entry's old name is its register's as the entries before it left it.
Maps ==
  \A n \in 0..Depth :
    /\ n = count => rat = MapAt(n)
    /\ due.on /\ n = due.keep => due.map = MapAt(n)

Ckpts ==
  \A c \in Ckpt :
    /\ ckpt[c].live <=> \E i \in Idx : rob[i].st = "live" /\ rob[i].ck = c
    /\ \A k \in Idx, n \in 0..Depth :
         n = k + 1 /\ k < count /\ rob[At(k)].ck = c => ckpt[c].map = MapAt(n)
    /\ \A i, j \in Idx : rob[i].ck = c /\ rob[j].ck = c => i = j

Olds ==
  \A k \in Idx : k < count /\ rob[At(k)].dst # None =>
                   rob[At(k)].old = MapAt(k)[rob[At(k)].dst]

\* A name is in one place, and each name is somewhere.
Apart ==
  /\ free \cap nameFree = {}
  /\ \A a \in Arch : crat[a] \notin free \cup nameFree
  /\ \A a, b \in Arch : crat[a] = crat[b] /\ crat[a] # Zero => a = b
  /\ \A i \in Idx : rob[i].dst # None =>
       /\ rob[i].new \notin free \cup nameFree
       /\ \A a \in Arch : crat[a] # rob[i].new
       /\ \A j \in Idx : rob[j].dst # None /\ rob[j].new = rob[i].new => j = i

Whole ==
  \A p \in Name : \/ p \in free \cup nameFree
                  \/ \E a \in Arch : crat[a] = p
                  \/ \E i \in Idx : rob[i].dst # None /\ rob[i].new = p

\* What the slot holds in each state of its warp.
Empty == \A i \in Idx : rob[i].st = "none"
Slot ==
  /\ st # "active" => count = 0 /\ ~due.on
  /\ st \in {"free", "allocated", "drained"} => Empty
  /\ st = "free" => crat = ZeroMap
  /\ restoring # {} => Empty /\ st \in {"allocated", "killing"}
  /\ \A a \in restoring : crat[a] = Zero
  /\ exitedSent => Empty /\ exitRetired
  /\ exitRetired => st \in {"active", "killing"}

WInv == /\ TypeOK /\ Ring /\ Entries /\ DueBranch /\ Unresolved
        /\ Maps /\ Ckpts /\ Olds
        /\ Apart /\ Whole /\ Slot /\ Dones

-----------------------------------------------------------------------------
(* The ring.                                                               *)

LEMMA Below == ASSUME NEW d \in Nat \ {0}, NEW x \in 0..(d - 1) PROVE x % d = x
BY SMT

LEMMA Beyond == ASSUME NEW d \in Nat \ {0}, NEW x \in d..(2*d - 1) PROVE x % d = x - d
BY SMT

LEMMA Wrap ==
  ASSUME NEW d \in Nat \ {0}, NEW x \in 0..(2*d - 1)
  PROVE  x % d = IF x < d THEN x ELSE x - d
<1>1. CASE x < d
  BY <1>1, x \in 0..(d-1), Below
<1>2. CASE x >= d
  BY <1>2, x \in d..(2*d-1), Beyond
<1> QED BY <1>1, <1>2

LEMMA WrapDepth ==
  /\ Depth \in Nat \ {0}
  /\ \A x \in 0..(2*Depth - 1) : x % Depth = IF x < Depth THEN x ELSE x - Depth
BY Wrap, WarpAssumption

\* A slot's age and the slot of an age, without the wrap.
LEMMA RingPlaces ==
  ASSUME head \in Idx
  PROVE  /\ \A i \in Idx : Age(i) = IF i >= head THEN i - head ELSE i - head + Depth
         /\ \A k \in 0..Depth : At(k) = (IF head + k < Depth THEN head + k
                                                         ELSE head + k - Depth)
<1>1. ASSUME NEW i \in Idx
      PROVE  Age(i) = IF i >= head THEN i - head ELSE i - head + Depth
  <2>1. i + Depth - head \in 0..(2*Depth - 1) /\ Depth \in Nat \ {0}
    BY WarpAssumption DEF Idx
  <2>2. Age(i) = IF i + Depth - head < Depth THEN i + Depth - head
                                             ELSE i + Depth - head - Depth
    BY <2>1, WrapDepth DEF Age, Idx
  <2> QED BY <2>2, WarpAssumption DEF Idx
<1>2. ASSUME NEW k \in 0..Depth
      PROVE  At(k) = IF head + k < Depth THEN head + k ELSE head + k - Depth
  <2>1. head + k \in 0..(2*Depth - 1) /\ Depth \in Nat \ {0}
    BY WarpAssumption DEF Idx
  <2> QED BY <2>1, WrapDepth DEF At, Idx
<1> QED BY <1>1, <1>2

\* Ages and slots correspond one to one.
LEMMA AgeAt ==
  ASSUME head \in Idx
  PROVE  /\ \A i \in Idx : Age(i) \in Idx /\ At(Age(i)) = i
         /\ \A k \in Idx : At(k) \in Idx /\ Age(At(k)) = k
         /\ \A i, j \in Idx : Age(i) = Age(j) => i = j
         /\ Depth \in Nat \ {0} /\ Idx \subseteq Nat
BY RingPlaces, WarpAssumption DEF Idx

\* Retirement moves the head past n entries.
LEMMA HeadMoves ==
  ASSUME head \in Idx, NEW n \in 0..Depth, head' = At(n)
  PROVE  /\ head' \in Idx
         /\ \A i \in Idx : Age(i)' = IF Age(i) >= n THEN Age(i) - n ELSE Age(i) - n + Depth
         /\ \A k \in Idx : k + n < Depth => At(k)' = At(k + n)
<1>1. head' \in Idx
  BY RingPlaces, WarpAssumption DEF Idx
<1>2. \A i \in Idx : Age(i)' = IF i >= head' THEN i - head' ELSE i - head' + Depth
  <2>1. SUFFICES ASSUME NEW i \in Idx
                 PROVE Age(i)' = IF i >= head' THEN i - head' ELSE i - head' + Depth
    OBVIOUS
  <2>2. i + Depth - head' \in 0..(2*Depth - 1) /\ Depth \in Nat \ {0}
    BY <1>1, WarpAssumption DEF Idx
  <2>3. (i + Depth - head') % Depth =
          IF i + Depth - head' < Depth THEN i + Depth - head' ELSE i + Depth - head' - Depth
    BY <1>1, <2>2, WrapDepth DEF Idx
  <2> QED BY <2>3, <1>1, WarpAssumption DEF Age, Idx
<1>3. ASSUME NEW k \in Idx PROVE At(k)' = IF head' + k < Depth THEN head' + k ELSE head' + k - Depth
  <2>1. head' + k \in 0..(2*Depth - 1) /\ Depth \in Nat \ {0}
    BY <1>1, WarpAssumption DEF Idx
  <2> QED BY <1>1, <2>1, WrapDepth DEF At, Idx
<1>4. \A i \in Idx : Age(i)' = IF Age(i) >= n THEN Age(i) - n ELSE Age(i) - n + Depth
  BY <1>2, RingPlaces, WarpAssumption DEF Idx
<1>5. \A k \in Idx : k + n < Depth => At(k)' = At(k + n)
  BY <1>3, RingPlaces, WarpAssumption DEF Idx
<1> QED BY <1>1, <1>4, <1>5

\* A ring that keeps its head keeps every age.
LEMMA HeadStays ==
  ASSUME head' = head
  PROVE  /\ \A i \in Idx : Age(i)' = Age(i)
         /\ \A k \in 0..Depth : At(k)' = At(k)
BY DEF Age, At
-----------------------------------------------------------------------------
(* The maps.                                                               *)

\* A set of naturals has a least.
LEMMA Least ==
  ASSUME NEW S, S \subseteq Nat, S # {}
  PROVE  \E i \in S : \A j \in S : i <= j
<1> DEFINE R == {ss \in Nat \X Nat : ss[1] < ss[2]}
<1>1. IsWellFoundedOn(R, Nat)
  BY NatLessThanWellFounded DEF OpToRel
<1>2. \A x, y \in Nat : <<y, x>> \in R <=> y < x
  OBVIOUS
<1> HIDE DEF R
<1>3. PICK x \in S : \A y \in S : ~(<<y, x>> \in R)
  BY <1>1, WFMin
<1>4. \A y \in S : ~(y < x)
  BY <1>2, <1>3
<1> QED BY <1>4

\* A set of naturals below n has a greatest.
LEMMA Greatest ==
  ASSUME NEW n \in Nat, NEW S, S \subseteq 0..(n-1), S # {}
  PROVE  \E i \in S : \A j \in S : j <= i
<1> DEFINE T == {n - 1 - x : x \in S}
<1>0. \A x \in S : x \in Nat /\ x <= n - 1
  OBVIOUS
<1>1. T \subseteq Nat /\ T # {}
  <2>1. \A x \in S : n - 1 - x \in Nat
    BY <1>0
  <2>2. PICK x \in S : TRUE
    OBVIOUS
  <2>3. n - 1 - x \in T
    BY <2>2
  <2> QED BY <2>1, <2>3
<1>2. PICK t \in T : \A u \in T : t <= u
  BY <1>1, Least
<1>3. PICK i \in S : t = n - 1 - i
  OBVIOUS
<1>4. ASSUME NEW j \in S PROVE j <= i
  <2>1. n - 1 - j \in T
    OBVIOUS
  <2> HIDE DEF T
  <2> QED BY <1>0, <1>2, <1>3, <2>1
<1> QED BY <1>4

\* The entry of age k is the youngest of the first n that write a.
Wrote(n, a, k) ==
  /\ k \in 0..(n-1) /\ rob[At(k)].dst = a
  /\ \A j \in 0..(n-1) : rob[At(j)].dst = a => j <= k

\* MapAt(n) by its registers: each has the name its last writer gave it.
MapLaw(n) ==
  /\ MapAt(n) = [a \in Arch |-> MapAt(n)[a]]
  /\ \A a \in Arch : (\A k \in 0..(n-1) : rob[At(k)].dst # a) => MapAt(n)[a] = crat[a]
  /\ \A a \in Arch : \A k : Wrote(n, a, k) => MapAt(n)[a] = rob[At(k)].new
  /\ \A a \in Arch : \/ \A k \in 0..(n-1) : rob[At(k)].dst # a
                     \/ \E k : Wrote(n, a, k)

LEMMA MapAtIs == \A n \in Nat : MapLaw(n)
<1> SUFFICES ASSUME NEW n \in Nat PROVE MapLaw(n)
  OBVIOUS
<1>1. MapAt(n) = [a \in Arch |-> MapAt(n)[a]]
  BY DEF MapAt
<1>2. ASSUME NEW a \in Arch, \A k \in 0..(n-1) : rob[At(k)].dst # a
      PROVE  MapAt(n)[a] = crat[a]
  <2>1. {k \in 0..(n-1) : rob[At(k)].dst = a} = {}
    BY <1>2
  <2> QED BY <2>1 DEF MapAt
<1>3. ASSUME NEW a \in Arch, NEW k, Wrote(n, a, k)
      PROVE  MapAt(n)[a] = rob[At(k)].new
  <2> DEFINE W == {x \in 0..(n-1) : rob[At(x)].dst = a}
  <2>1. k \in W /\ \A j \in W : j <= k
    BY <1>3 DEF Wrote
  <2>2. \A x \in W : (\A j \in W : j <= x) => x = k
    BY <2>1
  <2>3. (CHOOSE x \in W : \A j \in W : j <= x) = k
    BY <2>1, <2>2
  <2>4. MapAt(n)[a] = IF W = {} THEN crat[a]
                      ELSE rob[At(CHOOSE x \in W : \A j \in W : j <= x)].new
    BY DEF MapAt
  <2> QED BY <2>1, <2>3, <2>4
<1>4. ASSUME NEW a \in Arch, NEW x \in 0..(n-1), rob[At(x)].dst = a
      PROVE  \E k : Wrote(n, a, k)
  <2> DEFINE W == {y \in 0..(n-1) : rob[At(y)].dst = a}
  <2>1. W \subseteq 0..(n-1) /\ W # {}
    BY <1>4
  <2> QED BY <2>1, Greatest DEF Wrote
<1> QED BY <1>1, <1>2, <1>3, <1>4 DEF MapLaw

\* Before any entry, the committed map.
LEMMA MapZero ==
  ASSUME crat \in Map
  PROVE  MapAt(0) = crat
<1>1. \A a \in Arch : MapAt(0)[a] = crat[a]
  BY MapAtIs, 0 \in Nat DEF MapLaw
<1>2. MapAt(0) = [a \in Arch |-> MapAt(0)[a]]
  BY MapAtIs, 0 \in Nat DEF MapLaw
<1> QED BY <1>1, <1>2 DEF Map

\* One entry more writes its register, if it has one.
LEMMA MapNext ==
  ASSUME NEW n \in Nat
  PROVE  MapAt(n+1) = IF rob[At(n)].dst \in Arch
                        THEN [MapAt(n) EXCEPT ![rob[At(n)].dst] = rob[At(n)].new]
                        ELSE MapAt(n)
<1> DEFINE d == rob[At(n)].dst
<1>0. n + 1 \in Nat /\ n \in 0..n /\ 0..((n+1)-1) = 0..(n-1) \cup {n}
  OBVIOUS
<1>1. ASSUME NEW a \in Arch, a = d PROVE MapAt(n+1)[a] = rob[At(n)].new
  BY <1>0, <1>1, MapAtIs DEF Wrote, MapLaw
<1>2. ASSUME NEW a \in Arch, a # d PROVE MapAt(n+1)[a] = MapAt(n)[a]
  <2>1. CASE \A k \in 0..(n-1) : rob[At(k)].dst # a
    BY <1>0, <1>2, <2>1, MapAtIs DEF MapLaw
  <2>2. CASE \E k : Wrote(n, a, k)
    <3>1. PICK k : Wrote(n, a, k)
      BY <2>2
    <3>2. Wrote(n+1, a, k)
      BY <1>0, <1>2, <3>1 DEF Wrote
    <3> QED BY <1>0, <3>1, <3>2, MapAtIs DEF MapLaw
  <2> QED BY <2>1, <2>2, MapAtIs DEF MapLaw
<1> QED BY <1>0, <1>1, <1>2, MapAtIs DEF MapLaw

\* What the first n entries write is what their map is made of.
LEMMA MapStays ==
  ASSUME NEW n \in 0..Depth, head' = head, crat' = crat,
         \A k \in 0..(n-1) : /\ rob'[At(k)].dst = rob[At(k)].dst
                             /\ rob'[At(k)].new = rob[At(k)].new
  PROVE  MapAt(n)' = MapAt(n)
<1>2. ASSUME NEW a \in Arch PROVE (MapAt(n)')[a] = MapAt(n)[a]
  <2> DEFINE W == {k \in 0..(n-1) : rob[At(k)].dst = a}
             V == {k \in 0..(n-1) : rob'[At(k)].dst = a}
  <2>1. W = V
    OBVIOUS
  <2>2. MapAt(n)[a] = IF W = {} THEN crat[a]
                      ELSE rob[At(CHOOSE x \in W : \A j \in W : j <= x)].new
    BY DEF MapAt
  <2>3. (MapAt(n)')[a] = IF V = {} THEN crat'[a]
                       ELSE rob'[At(CHOOSE x \in V : \A j \in V : j <= x)].new
    BY DEF MapAt, At
  <2>4. W # {} => (CHOOSE x \in W : \A j \in W : j <= x) \in 0..(n-1)
    <3>1. W \subseteq 0..(n-1) /\ n \in Nat
      BY WarpAssumption
    <3> QED BY <3>1, Greatest
  <2> QED BY <2>1, <2>2, <2>3, <2>4
<1>3. MapAt(n)' = [a \in Arch |-> (MapAt(n)')[a]] /\ MapAt(n) = [a \in Arch |-> MapAt(n)[a]]
  BY DEF MapAt
<1> QED BY <1>2, <1>3
\* The same of the state after a step.
LEMMA MapAtIsNext == \A n \in Nat : MapLaw(n)'
<1>1. \A n \in Nat : MapLaw(n)
  BY MapAtIs
<1>2. (\A n \in Nat : MapLaw(n))'
  BY <1>1, PTL
<1> QED BY <1>2

\* Retirement of n entries commits their map, and the entries behind them
\* write over it what they wrote before.
LEMMA MapMoves ==
  ASSUME head \in Idx, NEW n \in 0..Depth, NEW m \in Nat, n + m <= Depth,
         head' = At(n), crat' = MapAt(n),
         \A k \in n..(n+m-1) : /\ rob'[At(k)].dst = rob[At(k)].dst
                               /\ rob'[At(k)].new = rob[At(k)].new
  PROVE  MapAt(m)' = MapAt(n+m)
<1>0. /\ n \in Nat /\ n + m \in Nat /\ Depth \in Nat \ {0}
      /\ \A k \in 0..(m-1) : k + n \in n..(n+m-1) /\ k + n \in 0..(n+m-1)
      /\ \A k \in 0..(n+m-1) : k < n \/ (k - n \in 0..(m-1) /\ (k - n) + n = k)
      /\ \A k \in 0..(n-1) : k \in 0..(n+m-1)
  BY WarpAssumption
<1>1. \A k \in 0..(m-1) : At(k)' = At(k+n)
  BY <1>0, HeadMoves DEF Idx
<1>2. \A k \in 0..(m-1) : /\ rob'[At(k)'].dst = rob[At(k+n)].dst
                          /\ rob'[At(k)'].new = rob[At(k+n)].new
  BY <1>0, <1>1
<1>3. ASSUME NEW a \in Arch PROVE (MapAt(m)')[a] = MapAt(n+m)[a]
  <2>1. CASE \E k : Wrote(m, a, k)'
    <3>1. PICK k : Wrote(m, a, k)'
      BY <2>1
    <3>2. /\ k \in 0..(m-1) /\ rob'[At(k)'].dst = a
          /\ \A j \in 0..(m-1) : rob'[At(j)'].dst = a => j <= k
      BY <3>1 DEF Wrote
    <3>3. Wrote(n+m, a, k+n)
      <4>1. ASSUME NEW j \in 0..(n+m-1), rob[At(j)].dst = a PROVE j <= k + n
        <5>1. CASE j < n
          BY <1>0, <3>2, <5>1
        <5>2. CASE j - n \in 0..(m-1) /\ (j - n) + n = j
          <6>1. rob'[At(j - n)'].dst = a
            BY <1>2, <4>1, <5>2
          <6>2. j - n <= k
            BY <3>2, <5>2, <6>1
          <6> QED BY <1>0, <3>2, <5>2, <6>2
        <5> QED BY <1>0, <5>1, <5>2
      <4> QED BY <1>0, <1>2, <3>2, <4>1 DEF Wrote
    <3>4. (MapAt(m)')[a] = rob'[At(k)'].new
      BY <3>1, MapAtIsNext DEF MapLaw
    <3>5. MapAt(n+m)[a] = rob[At(k+n)].new
      BY <1>0, <3>3, MapAtIs DEF MapLaw
    <3> QED BY <1>2, <3>2, <3>4, <3>5
  <2>2. CASE \A k \in 0..(m-1) : rob'[At(k)'].dst # a
    <3>1. (MapAt(m)')[a] = MapAt(n)[a]
      BY <2>2, MapAtIsNext DEF MapLaw
    <3>2. \A k \in 0..(n+m-1) : k >= n => rob[At(k)].dst # a
      BY <1>0, <1>2, <2>2
    <3>3. CASE \A k \in 0..(n-1) : rob[At(k)].dst # a
      <4>1. \A k \in 0..(n+m-1) : rob[At(k)].dst # a
        BY <1>0, <3>2, <3>3
      <4> QED BY <1>0, <3>1, <3>3, <4>1, MapAtIs DEF MapLaw
    <3>4. CASE \E k : Wrote(n, a, k)
      <4>1. PICK k : Wrote(n, a, k)
        BY <3>4
      <4>2. Wrote(n+m, a, k)
        BY <1>0, <3>2, <4>1 DEF Wrote
      <4> QED BY <1>0, <3>1, <4>1, <4>2, MapAtIs DEF MapLaw
    <3> QED BY <1>0, <3>3, <3>4, MapAtIs DEF MapLaw
  <2> QED BY <2>1, <2>2, MapAtIsNext DEF MapLaw
<1>4. (MapAt(m))' = [a \in Arch |-> (MapAt(m)')[a]] /\ MapAt(n+m) = [a \in Arch |-> MapAt(n+m)[a]]
  BY DEF MapAt
<1> QED BY <1>3, <1>4
-----------------------------------------------------------------------------
(* Steps that leave every entry in its place.                              *)

\* The fields that say which uop an entry is and what it names.
SameUop(e, f) == /\ e.st = f.st /\ e.kind = f.kind
                 /\ e.dst = f.dst /\ e.new = f.new /\ e.old = f.old

LEMMA PlacesStay ==
  ASSUME head \in Idx, count \in 0..Depth, UNCHANGED <<head, count, crat>>,
         \A i \in Idx : SameUop(rob'[i], rob[i])
  PROVE  /\ \A i \in Idx : Age(i)' = Age(i)
         /\ \A k \in 0..Depth : At(k)' = At(k)
         /\ Live' = Live
         /\ \A n \in 0..Depth : MapAt(n)' = MapAt(n)
         /\ Ring => Ring'
         /\ Olds => Olds'
<1>1. /\ \A i \in Idx : Age(i)' = Age(i)
      /\ \A k \in 0..Depth : At(k)' = At(k)
  BY HeadStays
<1>2. Live' = Live
  BY <1>1 DEF Live
<1>3. \A n \in 0..Depth : MapAt(n)' = MapAt(n)
  <2> SUFFICES ASSUME NEW n \in 0..Depth PROVE MapAt(n)' = MapAt(n)
    OBVIOUS
  <2>1. \A k \in 0..(n-1) : At(k) \in Idx
    BY AgeAt DEF Idx
  <2> QED BY <2>1, MapStays DEF SameUop
<1>4. Ring => Ring'
  BY <1>1 DEF Ring, SameUop
<1>5. Olds => Olds'
  <2> SUFFICES ASSUME Olds, NEW k \in Idx, k < count, rob'[At(k)'].dst # None
               PROVE  rob'[At(k)'].old = (MapAt(k)')[rob'[At(k)'].dst]
    BY DEF Olds
  <2>1. At(k) \in Idx /\ k \in 0..Depth
    BY AgeAt DEF Idx
  <2>2. MapAt(k)' = MapAt(k) /\ At(k)' = At(k)
    BY <1>1, <1>3, <2>1
  <2>3. /\ rob'[At(k)].old = rob[At(k)].old /\ rob'[At(k)].dst = rob[At(k)].dst
    BY <2>1 DEF SameUop
  <2>4. rob[At(k)].old = MapAt(k)[rob[At(k)].dst]
    BY <2>2, <2>3 DEF Olds
  <2> QED BY <2>2, <2>3, <2>4
<1> QED BY <1>1, <1>2, <1>3, <1>4, <1>5

LEMMA NamesStay ==
  ASSUME UNCHANGED <<crat, free, nameFree>>, \A i \in Idx : SameUop(rob'[i], rob[i])
  PROVE  /\ Apart => Apart'
         /\ Whole => Whole'
BY DEF Apart, Whole, SameUop

LEMMA DueStays ==
  ASSUME WInv, UNCHANGED <<head, count, due>>,
         phase \in {"select", "rename"} => phase' \in {"select", "rename"},
         \A i \in Idx : SameUop(rob'[i], rob[i]) /\ rob'[i].wp = rob[i].wp
  PROVE  DueBranch'
<1>0. due \in [on : BOOLEAN, keep : 0..Depth, map : Map] /\ head \in Idx
  BY DEF WInv, TypeOK
<1>1. \A i \in Idx : Age(i)' = Age(i)
  BY HeadStays
<1>2. due.on /\ due.keep # 0 => IsBranch(rob'[At(due.keep - 1)'])
  <2> SUFFICES ASSUME due.on, due.keep # 0 PROVE IsBranch(rob'[At(due.keep - 1)'])
    OBVIOUS
  <2>1. due.keep - 1 \in Idx /\ due.keep - 1 \in 0..Depth
    BY <1>0, WarpAssumption DEF Idx
  <2>2. At(due.keep - 1) \in Idx /\ IsBranch(rob[At(due.keep - 1)])
    BY <1>0, <2>1, AgeAt DEF WInv, DueBranch
  <2>3. At(due.keep - 1)' = At(due.keep - 1)
    BY <1>0 DEF At
  <2> QED BY <2>2, <2>3 DEF SameUop, IsBranch
<1>3. \A i \in Idx : rob'[i].wp <=> (due.on /\ Age(i) < count /\ Age(i) >= due.keep)
  BY DEF WInv, DueBranch
<1> QED BY <1>0, <1>1, <1>2, <1>3 DEF WInv, DueBranch

\* Entries that keep their uop, checkpoint and path, whatever is learnt of
\* their progress.
LEMMA Refit ==
  ASSUME WInv, UNCHANGED <<head, count, mapVars, poolVars, warpVars>>,
         rob' \in [Idx -> Entry], flight' \in [Idx -> Seq(Name \cup {Zero})],
         phase' \in Phase, phase \in {"select", "rename"} => phase' \in {"select", "rename"},
         \A i \in Idx : /\ SameUop(rob'[i], rob[i])
                        /\ rob'[i].ck = rob[i].ck /\ rob'[i].wp = rob[i].wp
                        /\ Sound(rob'[i]) /\ KeepsCkpt(rob'[i])
                        /\ Matched(rob'[i], flight'[i])
  PROVE  WInv'
<1>0. /\ head \in Idx /\ count \in 0..Depth /\ due \in [on : BOOLEAN, keep : 0..Depth, map : Map]
      /\ UNCHANGED <<head, count, crat, rat, ckpt, due, free, nameFree, st, restoring,
                     landed, mapSent, faultStop, exitRetired, exitedSent>>
  BY DEF WInv, TypeOK, mapVars, poolVars, warpVars, flagVars
<1>1. /\ \A i \in Idx : Age(i)' = Age(i)
      /\ \A k \in 0..Depth : At(k)' = At(k)
      /\ \A n \in 0..Depth : MapAt(n)' = MapAt(n)
      /\ Ring' /\ Olds'
  BY <1>0, PlacesStay DEF WInv
<1>2. Apart' /\ Whole'
  BY <1>0, NamesStay DEF WInv
<1>3. TypeOK'
  BY <1>0 DEF WInv, TypeOK
<1>4. Entries' /\ Unresolved' /\ Dones'
  BY DEF Entries, Unresolved, Dones
<1>5. DueBranch'
  BY <1>0, DueStays
<1>6. Maps'
  BY <1>0, <1>1 DEF WInv, Maps
<1>7. Ckpts'
  <2> SUFFICES ASSUME NEW c \in Ckpt
               PROVE  /\ ckpt[c].live <=> \E i \in Idx : rob'[i].st = "live" /\ rob'[i].ck = c
                      /\ \A k \in Idx, n \in 0..Depth :
                           n = k + 1 /\ k < count /\ rob'[At(k)'].ck = c => ckpt[c].map = MapAt(n)'
                      /\ \A i, j \in Idx : rob'[i].ck = c /\ rob'[j].ck = c => i = j
    BY <1>0 DEF Ckpts
  <2>1. ckpt[c].live <=> \E i \in Idx : rob'[i].st = "live" /\ rob'[i].ck = c
    BY SMTT(30) DEF WInv, Ckpts, SameUop
  <2>2. ASSUME NEW k \in Idx, NEW n \in 0..Depth, n = k + 1, k < count, rob'[At(k)'].ck = c
        PROVE  ckpt[c].map = MapAt(n)'
    <3>1. At(k) \in Idx /\ At(k)' = At(k)
      BY <1>0, AgeAt DEF At
    <3> QED BY <1>1, <2>2, <3>1 DEF WInv, Ckpts
  <2>3. \A i, j \in Idx : rob'[i].ck = c /\ rob'[j].ck = c => i = j
    BY DEF WInv, Ckpts
  <2> QED BY <2>1, <2>2, <2>3
<1>8. Slot'
  <2>1. Empty => Empty'
    BY DEF Empty, SameUop
  <2> QED BY <1>0, <2>1 DEF WInv, Slot
<1> QED BY <1>1, <1>2, <1>3, <1>4, <1>5, <1>6, <1>7, <1>8 DEF WInv

LEMMA EachEntry ==
  ASSUME WInv, NEW i \in Idx
  PROVE  /\ rob[i] \in Entry /\ flight[i] \in Seq(Name \cup {Zero})
         /\ Sound(rob[i]) /\ KeepsCkpt(rob[i]) /\ Matched(rob[i], flight[i])
         /\ Len(flight[i]) \in Nat
BY DEF WInv, TypeOK, Entries, Unresolved, Dones

\* A step that refits one entry only.
LEMMA RefitOne ==
  ASSUME WInv, UNCHANGED <<head, count, mapVars, poolVars, warpVars>>,
         NEW i \in Idx, NEW e \in Entry, NEW f \in Seq(Name \cup {Zero}),
         rob' = [rob EXCEPT ![i] = e], flight' = [flight EXCEPT ![i] = f],
         phase' \in Phase, phase \in {"select", "rename"} => phase' \in {"select", "rename"},
         SameUop(e, rob[i]), e.ck = rob[i].ck, e.wp = rob[i].wp,
         Sound(e), KeepsCkpt(e), Matched(e, f)
  PROVE  WInv'
<1>1. rob \in [Idx -> Entry] /\ flight \in [Idx -> Seq(Name \cup {Zero})]
  BY DEF WInv, TypeOK
<1>2. rob' \in [Idx -> Entry] /\ flight' \in [Idx -> Seq(Name \cup {Zero})]
  BY <1>1
<1>3. ASSUME NEW j \in Idx
      PROVE  /\ SameUop(rob'[j], rob[j]) /\ rob'[j].ck = rob[j].ck /\ rob'[j].wp = rob[j].wp
             /\ Sound(rob'[j]) /\ KeepsCkpt(rob'[j]) /\ Matched(rob'[j], flight'[j])
  <2>1. CASE j = i
    BY <1>1, <2>1
  <2>2. CASE j # i
    BY <1>1, <2>2, EachEntry DEF SameUop
  <2> QED BY <2>1, <2>2
<1> QED BY <1>2, <1>3, Refit

LEMMA ReplayStep == ASSUME WInv, NEW i \in Idx, Replay(i) PROVE WInv'
<1> DEFINE e == rob[i]
           g == Replayed(e)
<1>0. /\ e \in Entry /\ Sound(e) /\ KeepsCkpt(e) /\ Matched(e, flight[i])
      /\ e.st = "live" /\ e.rs = "issued"
      /\ flight[i] \in Seq(Name \cup {Zero}) /\ Len(flight[i]) \in Nat
      /\ rob \in [Idx -> Entry] /\ flight \in [Idx -> Seq(Name \cup {Zero})]
  BY EachEntry DEF Replay, WInv, TypeOK
<1>1. rob' = [rob EXCEPT ![i] = g] /\ flight' = [flight EXCEPT ![i] = flight[i]]
  <2>1. rob' = [rob EXCEPT ![i] = g]
    BY DEF Replay
  <2>2. flight' = flight
    BY DEF Replay
  <2> QED BY <1>0, <2>1, <2>2
<1>2. UNCHANGED <<head, count, mapVars, poolVars, warpVars>> /\ phase' \in Phase
      /\ phase \notin {"select", "rename"}
  BY DEF Replay, Phase, Waking
<1>3. g \in Entry
  <2>1. CASE e.owed > e.stale
    <3>1. e.stale + 1 \in 0..MaxOwed
      BY <1>0, <2>1, WarpAssumption DEF Entry
    <3> QED BY <1>0, <2>1, <3>1 DEF Entry, Replayed
  <2>2. CASE ~(e.owed > e.stale)
    BY <1>0, <2>2 DEF Entry, Replayed
  <2> QED BY <2>1, <2>2
<1>4. SameUop(g, e) /\ g.ck = e.ck /\ g.wp = e.wp
  BY <1>0 DEF Entry, SameUop, Replayed
<1>5. Sound(g) /\ KeepsCkpt(g)
  BY <1>0 DEF Entry, Replayed, Sound, KeepsCkpt, IsBranch
<1>6. Matched(g, flight[i])
  BY <1>0, WarpAssumption DEF Entry, Replayed, Matched
<1> HIDE DEF g
<1> QED BY <1>0, <1>1, <1>2, <1>3, <1>4, <1>5, <1>6, RefitOne

LEMMA SelectStep == ASSUME WInv, Select PROVE WInv'
<1>1. PICK S \in SUBSET {i \in Live : rob[i].rs = "wait" /\ rob[i].owed < MaxOwed} :
        /\ rob' = [i \in Idx |-> IF i \in S
                     THEN [rob[i] EXCEPT !.rs = "issued", !.owed = @ + 1]
                     ELSE rob[i]]
        /\ flight' = [i \in Idx |-> IF i \in S THEN Append(flight[i], rob[i].new)
                                               ELSE flight[i]]
  BY DEF Select
<1>2. UNCHANGED <<head, count, mapVars, poolVars, warpVars>> /\ phase' \in Phase
      /\ phase' \in {"select", "rename"}
  BY DEF Select, Phase
<1>3. ASSUME NEW i \in Idx
      PROVE  /\ rob'[i] \in Entry /\ flight'[i] \in Seq(Name \cup {Zero})
             /\ SameUop(rob'[i], rob[i]) /\ rob'[i].ck = rob[i].ck /\ rob'[i].wp = rob[i].wp
             /\ Sound(rob'[i]) /\ KeepsCkpt(rob'[i]) /\ Matched(rob'[i], flight'[i])
  <2> DEFINE e == rob[i]
             g == [e EXCEPT !.rs = "issued", !.owed = @ + 1]
             f == Append(flight[i], e.new)
  <2>0. /\ e \in Entry /\ Sound(e) /\ KeepsCkpt(e) /\ Matched(e, flight[i])
        /\ flight[i] \in Seq(Name \cup {Zero}) /\ Len(flight[i]) \in Nat
    BY EachEntry
  <2>1. CASE i \notin S
    BY <1>1, <2>0, <2>1 DEF SameUop
  <2>2. CASE i \in S
    <3>0. e.rs = "wait" /\ e.owed < MaxOwed /\ e.st = "live"
      BY <2>2 DEF WInv, Ring, Live
    <3>1. rob'[i] = g /\ flight'[i] = f
      BY <1>1, <2>2
    <3>2. g \in Entry
      <4>1. e.owed + 1 \in 0..MaxOwed
        BY <2>0, <3>0, WarpAssumption DEF Entry
      <4> QED BY <2>0, <4>1 DEF Entry
    <3>3. SameUop(g, e) /\ g.ck = e.ck /\ g.wp = e.wp
      BY <2>0 DEF Entry, SameUop
    <3>4. Sound(g) /\ KeepsCkpt(g)
      BY <2>0, <3>0 DEF Entry, Sound, KeepsCkpt, IsBranch
    <3>5. f \in Seq(Name \cup {Zero}) /\ Len(f) = Len(flight[i]) + 1
          /\ \A k \in 1..Len(f) : f[k] = IF k <= Len(flight[i]) THEN flight[i][k] ELSE e.new
      BY <2>0 DEF Entry
    <3>6. Matched(g, f)
      <4>1. g.st = "live" /\ g.new = e.new /\ g.owed = e.owed + 1 /\ g.stale = e.stale
            /\ g.rs = "issued" /\ g.kind = e.kind /\ g.done = e.done
        BY <2>0, <3>0 DEF Entry
      <4>2. e.owed = Len(flight[i]) /\ e.stale = e.owed /\ ~e.done /\ e.kind # "exit"
        BY <2>0, <3>0 DEF Matched, Sound, Entry
      <4>3. \A k \in 1..Len(f) : f[k] = e.new
        BY <2>0, <3>5 DEF Matched
      <4> HIDE DEF f, g
      <4> QED BY <2>0, <3>5, <4>1, <4>2, <4>3 DEF Matched
    <3> HIDE DEF f, g
    <3> QED BY <3>1, <3>2, <3>3, <3>4, <3>5, <3>6
  <2> QED BY <2>1, <2>2
<1>4. rob' \in [Idx -> Entry] /\ flight' \in [Idx -> Seq(Name \cup {Zero})]
  BY <1>1, <1>3
<1> QED BY <1>2, <1>3, <1>4, Refit

\* Some entries lose their checkpoints, and what is younger than one of them
\* may be known to be on the wrong path.
LEMMA Loses ==
  ASSUME WInv, UNCHANGED <<head, count, rat, crat, poolVars, warpVars>>,
         rob' \in [Idx -> Entry], flight' \in [Idx -> Seq(Name \cup {Zero})],
         phase' \in Phase, ckpt' \in [Ckpt -> [live : BOOLEAN, map : Map]],
         due' \in [on : BOOLEAN, keep : 0..Depth, map : Map],
         \A i \in Idx : /\ SameUop(rob'[i], rob[i])
                        /\ rob'[i].ck = rob[i].ck \/ rob'[i].ck = None
                        /\ Sound(rob'[i]) /\ KeepsCkpt(rob'[i])
                        /\ Matched(rob'[i], flight'[i]),
         \A c \in Ckpt : IF \E i \in Idx : rob[i].ck = c /\ rob'[i].ck = None
                           THEN ~ckpt'[c].live ELSE ckpt'[c] = ckpt[c],
         DueBranch', due'.on => st = "active",
         \A n \in 0..Depth : due'.on /\ n = due'.keep => due'.map = MapAt(n)
  PROVE  WInv'
<1>0. /\ head \in Idx /\ count \in 0..Depth
      /\ UNCHANGED <<head, count, crat, rat, free, nameFree, st, restoring,
                     landed, mapSent, faultStop, exitRetired, exitedSent>>
  BY DEF WInv, TypeOK, poolVars, warpVars, flagVars
<1>1. /\ \A i \in Idx : Age(i)' = Age(i)
      /\ \A k \in 0..Depth : At(k)' = At(k)
      /\ \A n \in 0..Depth : MapAt(n)' = MapAt(n)
      /\ Ring' /\ Olds'
  BY <1>0, PlacesStay DEF WInv
<1>2. Apart' /\ Whole'
  BY <1>0, NamesStay DEF WInv
<1>3. TypeOK'
  BY <1>0 DEF WInv, TypeOK
<1>4. Entries' /\ Unresolved' /\ Dones'
  BY DEF Entries, Unresolved, Dones
<1>6. Maps'
  BY <1>0, <1>1 DEF WInv, Maps
<1>7. Ckpts'
  <2> SUFFICES ASSUME NEW c \in Ckpt
               PROVE  /\ ckpt'[c].live <=> \E i \in Idx : rob'[i].st = "live" /\ rob'[i].ck = c
                      /\ \A k \in Idx, n \in 0..Depth :
                           n = k + 1 /\ k < count /\ rob'[At(k)'].ck = c => ckpt'[c].map = MapAt(n)'
                      /\ \A i, j \in Idx : rob'[i].ck = c /\ rob'[j].ck = c => i = j
    BY <1>0 DEF Ckpts
  <2>0. c # None
    BY WarpAssumption
  <2>1. \A i \in Idx : rob'[i].ck = c => rob[i].ck = c
    BY <2>0
  <2>2. \A i, j \in Idx : rob[i].ck = c /\ rob[j].ck = c => i = j
    BY DEF WInv, Ckpts
  <2>3. CASE \E i \in Idx : rob[i].ck = c /\ rob'[i].ck = None
    <3>1. \A i \in Idx : rob'[i].ck # c
      BY <2>0, <2>1, <2>2, <2>3
    <3>2. \A k \in Idx : At(k)' \in Idx
      BY <1>0, AgeAt DEF At
    <3> QED BY <2>3, <3>1, <3>2
  <2>4. CASE ~\E i \in Idx : rob[i].ck = c /\ rob'[i].ck = None
    <3>1. ckpt'[c] = ckpt[c] /\ \A i \in Idx : rob'[i].ck = c <=> rob[i].ck = c
      BY <2>0, <2>1, <2>4
    <3>2. ASSUME NEW k \in Idx, NEW n \in 0..Depth, n = k + 1, k < count, rob'[At(k)'].ck = c
          PROVE  ckpt'[c].map = MapAt(n)'
      <4>1. At(k) \in Idx /\ At(k)' = At(k)
        BY <1>0, AgeAt DEF At
      <4> QED BY <1>1, <3>1, <3>2, <4>1 DEF WInv, Ckpts
    <3>3. ckpt[c].live <=> \E i \in Idx : rob[i].st = "live" /\ rob[i].ck = c
      BY DEF WInv, Ckpts
    <3> QED BY <2>2, <3>1, <3>2, <3>3, ZenonT(60) DEF SameUop
  <2> QED BY <2>3, <2>4
<1>8. Slot'
  <2>1. Empty => Empty'
    BY DEF Empty, SameUop
  <2> QED BY <1>0, <2>1 DEF WInv, Slot
<1> QED BY <1>1, <1>2, <1>3, <1>4, <1>6, <1>7, <1>8 DEF WInv

\* A branch that resolves, e being its entry.
LEMMA ResolveStep ==
  ASSUME WInv, UNCHANGED <<head, count, rat, crat, poolVars, warpVars>>,
         NEW i \in Idx, NEW e \in Entry, NEW f \in Seq(Name \cup {Zero}), Resolve(i, e),
         flight' = [flight EXCEPT ![i] = f],
         phase \notin {"select", "rename"}, phase' \in Phase,
         SameUop(e, rob[i]), e.ck = rob[i].ck, e.wp = rob[i].wp,
         Sound(e), Matched(e, f), IsBranch(e), e.st = "live",
         e.complete, ~e.pend, ~e.wp => e.ck # None
  PROVE  WInv'
<1>0. /\ head \in Idx /\ count \in 0..Depth /\ rob \in [Idx -> Entry]
      /\ ckpt \in [Ckpt -> [live : BOOLEAN, map : Map]]
      /\ due \in [on : BOOLEAN, keep : 0..Depth, map : Map]
      /\ flight \in [Idx -> Seq(Name \cup {Zero})]
      /\ flight' \in [Idx -> Seq(Name \cup {Zero})]
      /\ Age(i) \in Idx /\ Age(i) < count /\ At(Age(i)) = i
      /\ st = "active" /\ None \notin Ckpt /\ rob[i].st = "live"
  <2>1. rob[i].st = "live"
    BY DEF SameUop
  <2>2. Age(i) < count /\ Age(i) \in Idx /\ At(Age(i)) = i
    BY <2>1, AgeAt DEF WInv, TypeOK, Ring
  <2>3. st = "active"
    BY <2>2 DEF WInv, Slot, TypeOK, Idx
  <2> QED BY <2>1, <2>2, <2>3, WarpAssumption DEF WInv, TypeOK
<1>1. CASE due.on /\ Age(i) >= due.keep
  <2>1. rob' = [rob EXCEPT ![i] = e] /\ UNCHANGED mapVars
    BY <1>1 DEF Resolve, mapVars
  <2>2. KeepsCkpt(e)
    BY <1>0, <1>1 DEF WInv, DueBranch, KeepsCkpt
  <2> QED BY <2>1, <2>2, RefitOne
<1>2. ASSUME ~(due.on /\ Age(i) >= due.keep)
      PROVE  ~e.wp /\ e.ck \in Ckpt /\ rob[i].ck = e.ck
  BY <1>0, <1>2 DEF WInv, DueBranch, Entry
<1>3. ASSUME NEW d \in Entry, d = [e EXCEPT !.ck = None]
      PROVE  /\ SameUop(d, rob[i]) /\ d.ck = None /\ d.wp = e.wp
             /\ Sound(d) /\ KeepsCkpt(d) /\ Matched(d, f)
  <2>1. /\ d.st = e.st /\ d.kind = e.kind /\ d.dst = e.dst /\ d.new = e.new /\ d.old = e.old
        /\ d.wp = e.wp /\ d.rs = e.rs /\ d.owed = e.owed /\ d.stale = e.stale
        /\ d.done = e.done /\ d.complete = e.complete /\ d.pend = e.pend /\ d.ck = None
    BY <1>3 DEF Entry
  <2> QED BY <2>1 DEF SameUop, Sound, KeepsCkpt, Matched, IsBranch
<1>4. [e EXCEPT !.ck = None] \in Entry
  BY DEF Entry
<1>5. CASE /\ ~(due.on /\ Age(i) >= due.keep)
           /\ rob' = [rob EXCEPT ![i] = [e EXCEPT !.ck = None]]
           /\ ckpt' = [ckpt EXCEPT ![e.ck] = NoCkpt]
           /\ due' = due
  <2> DEFINE d == [e EXCEPT !.ck = None]
  <2>1. ~e.wp /\ e.ck \in Ckpt /\ rob[i].ck = e.ck
    BY <1>2, <1>5
  <2>2. ASSUME NEW j \in Idx
        PROVE  /\ SameUop(rob'[j], rob[j]) /\ rob'[j].wp = rob[j].wp
               /\ rob'[j].ck = IF j = i THEN None ELSE rob[j].ck
               /\ Sound(rob'[j]) /\ KeepsCkpt(rob'[j]) /\ Matched(rob'[j], flight'[j])
    <3>1. CASE j = i
      <4>1. rob'[j] = d /\ flight'[j] = f
        BY <1>0, <1>5, <3>1
      <4> QED BY <1>3, <1>4, <3>1, <4>1
    <3>2. CASE j # i
      BY <1>0, <1>5, <3>2, EachEntry DEF SameUop
    <3> QED BY <3>1, <3>2
  <2>3. rob' \in [Idx -> Entry]
    BY <1>0, <1>4, <1>5
  <2>4. NoCkpt \in [live : BOOLEAN, map : Map] /\ ~NoCkpt.live
    BY DEF NoCkpt, Map, ZeroMap
  <2>5. ckpt' \in [Ckpt -> [live : BOOLEAN, map : Map]]
    BY <1>0, <1>5, <2>4
  <2>6. DueBranch'
    BY <1>5, <2>2, DueStays
  <2>7. ASSUME NEW c \in Ckpt
        PROVE  IF \E j \in Idx : rob[j].ck = c /\ rob'[j].ck = None
                 THEN ~ckpt'[c].live ELSE ckpt'[c] = ckpt[c]
    <3>1. CASE c = e.ck
      BY <1>0, <1>5, <2>1, <2>2, <2>4, <3>1
    <3>2. CASE c # e.ck
      <4>1. ~\E j \in Idx : rob[j].ck = c /\ rob'[j].ck = None
        BY <1>0, <2>1, <2>2, <3>2
      <4> QED BY <1>0, <1>5, <3>2, <4>1
    <3> QED BY <3>1, <3>2
  <2>8. \A n \in 0..Depth : due'.on /\ n = due'.keep => due'.map = MapAt(n)
    BY <1>5 DEF WInv, Maps
  <2> QED BY <1>0, <1>5, <2>2, <2>3, <2>5, <2>6, <2>7, <2>8, Loses
<1>6. CASE /\ ~(due.on /\ Age(i) >= due.keep)
           /\ LET gone == {j \in Live : Age(j) > Age(i)}
              IN /\ rob' = [j \in Idx |->
                              IF j = i THEN [e EXCEPT !.ck = None]
                              ELSE IF j \in gone
                                THEN [rob[j] EXCEPT !.ck = None, !.wp = TRUE]
                                ELSE rob[j]]
                 /\ ckpt' = FreedCkpts({e} \cup {rob[j] : j \in gone})
                 /\ due' = [on |-> TRUE, keep |-> Age(i) + 1, map |-> ckpt[e.ck].map]
  <2> DEFINE d == [e EXCEPT !.ck = None]
             gone == {j \in Live : Age(j) > Age(i)}
             g(j) == [rob[j] EXCEPT !.ck = None, !.wp = TRUE]
  <2>1. ~e.wp /\ e.ck \in Ckpt /\ rob[i].ck = e.ck
    BY <1>2, <1>6
  <2>2. \A j \in Idx : j \in gone <=> Age(j) < count /\ Age(j) > Age(i)
    BY DEF Live
  <2>3. i \notin gone
    BY <1>0, <2>2 DEF Idx
  <2>4. ASSUME NEW j \in gone
        PROVE  /\ g(j) \in Entry /\ g(j).ck = None /\ g(j).wp = TRUE
               /\ SameUop(g(j), rob[j])
               /\ Sound(g(j)) /\ KeepsCkpt(g(j)) /\ Matched(g(j), flight[j])
    <3>0. j \in Idx /\ rob[j].st = "live" /\ rob[j] \in Entry
      BY <2>2, <1>0 DEF Live, WInv, Ring
    <3>1. /\ Sound(rob[j]) /\ Matched(rob[j], flight[j])
      BY <3>0, EachEntry
    <3>2. g(j) \in Entry
      BY <3>0 DEF Entry
    <3>3. LET r == rob[j] q == g(j)
          IN /\ q.st = r.st /\ q.kind = r.kind /\ q.dst = r.dst /\ q.new = r.new /\ q.old = r.old
             /\ q.wp = TRUE /\ q.rs = r.rs /\ q.owed = r.owed /\ q.stale = r.stale
             /\ q.done = r.done /\ q.complete = r.complete /\ q.pend = r.pend /\ q.ck = None
      BY <3>0 DEF Entry
    <3> HIDE DEF g
    <3> QED BY <3>0, <3>1, <3>2, <3>3 DEF SameUop, Sound, KeepsCkpt, Matched, IsBranch
  <2>5. ASSUME NEW j \in Idx
        PROVE  /\ SameUop(rob'[j], rob[j]) /\ rob'[j] \in Entry
               /\ rob'[j].wp = (rob[j].wp \/ j \in gone)
               /\ rob'[j].ck = IF j = i \/ j \in gone THEN None ELSE rob[j].ck
               /\ Sound(rob'[j]) /\ KeepsCkpt(rob'[j]) /\ Matched(rob'[j], flight'[j])
    <3>1. CASE j = i
      <4>1. rob'[j] = d /\ flight'[j] = f
        BY <1>0, <1>6, <3>1
      <4>2. rob[j].wp = FALSE /\ e.wp = FALSE
        BY <2>1, <3>1 DEF Entry
      <4> QED BY <1>3, <1>4, <2>3, <3>1, <4>1, <4>2
    <3>2. CASE j \in gone
      <4>1. j # i /\ rob'[j] = g(j) /\ flight'[j] = flight[j]
        BY <1>0, <1>6, <2>3, <3>2
      <4> HIDE DEF g, gone
      <4> QED BY <2>4, <3>2, <4>1
    <3>3. CASE j # i /\ j \notin gone
      <4>1. rob'[j] = rob[j] /\ flight'[j] = flight[j] /\ rob[j] \in Entry
        BY <1>0, <1>6, <3>3
      <4>2. rob[j].wp \in BOOLEAN
        BY <4>1 DEF Entry
      <4> HIDE DEF gone
      <4> QED BY <3>3, <4>1, <4>2, EachEntry DEF SameUop
    <3> QED BY <3>1, <3>2, <3>3
  <2>6. rob' \in [Idx -> Entry]
    BY <1>6, <2>5
  <2>7. /\ NoCkpt \in [live : BOOLEAN, map : Map] /\ ~NoCkpt.live
        /\ \A c \in Ckpt : ckpt'[c] = IF \E j \in Idx : (j = i \/ j \in gone) /\ rob[j].ck = c
                                        THEN NoCkpt ELSE ckpt[c]
        /\ ckpt' \in [Ckpt -> [live : BOOLEAN, map : Map]]
    <3>1. NoCkpt \in [live : BOOLEAN, map : Map] /\ ~NoCkpt.live
      BY DEF NoCkpt, Map, ZeroMap
    <3>2. \A c \in Ckpt : (\E x \in {e} \cup {rob[j] : j \in gone} : x.ck = c)
                            <=> \E j \in Idx : (j = i \/ j \in gone) /\ rob[j].ck = c
      BY <2>1, <2>2 DEF Live
    <3>3. ckpt' = [c \in Ckpt |-> IF \E x \in {e} \cup {rob[j] : j \in gone} : x.ck = c
                                    THEN NoCkpt ELSE ckpt[c]]
      BY <1>6 DEF FreedCkpts
    <3> HIDE DEF gone
    <3> QED BY <1>0, <3>1, <3>2, <3>3
  <2>8. due' = [on |-> TRUE, keep |-> Age(i) + 1, map |-> ckpt[e.ck].map]
        /\ Age(i) + 1 \in 0..Depth /\ Age(i) + 1 <= count
    <3>1. due' = [on |-> TRUE, keep |-> Age(i) + 1, map |-> ckpt[e.ck].map]
      BY <1>6
    <3>2. Age(i) + 1 \in 0..Depth /\ Age(i) + 1 <= count
      BY <1>0, WarpAssumption DEF Idx
    <3> QED BY <3>1, <3>2
  <2>9. due' \in [on : BOOLEAN, keep : 0..Depth, map : Map]
    BY <1>0, <2>1, <2>8
  <2>10. DueBranch'
    <3>1. \A j \in Idx : Age(j)' = Age(j)
      BY HeadStays
    <3>2. due'.on /\ due'.keep = Age(i) + 1 /\ due'.keep # 0 /\ due'.keep - 1 = Age(i)
          /\ due'.keep <= count
      BY <1>0, <2>8 DEF Idx
    <3>3. At(due.keep - 1)' = i
      BY <1>0, <3>2 DEF At
    <3>4. IsBranch(rob'[i])
      BY <2>5 DEF SameUop, IsBranch
    <3>5. \A j \in Idx : rob'[j].wp <=> (Age(j) < count /\ Age(j) >= Age(i) + 1)
      <4> SUFFICES ASSUME NEW j \in Idx
                   PROVE rob'[j].wp <=> (Age(j) < count /\ Age(j) >= Age(i) + 1)
        OBVIOUS
      <4>1. rob[j].wp <=> (due.on /\ Age(j) < count /\ Age(j) >= due.keep)
        BY DEF WInv, DueBranch
      <4>2. Age(j) \in Nat /\ Age(i) \in Nat /\ due.keep \in Nat
        BY <1>0, AgeAt DEF Idx
      <4>3. rob[j].wp => j \in gone
        <5>1. ~(due.on /\ Age(i) >= due.keep)
          BY <1>6
        <5> QED BY <5>1, <2>2, <4>1, <4>2
      <4>4. rob'[j].wp <=> j \in gone
        BY <2>5, <4>3
      <4> QED BY <2>2, <4>2, <4>4
    <3> QED BY <3>1, <3>2, <3>3, <3>4, <3>5 DEF DueBranch
  <2>11. ASSUME NEW c \in Ckpt
         PROVE  IF \E j \in Idx : rob[j].ck = c /\ rob'[j].ck = None
                  THEN ~ckpt'[c].live ELSE ckpt'[c] = ckpt[c]
    <3>1. ckpt'[c] = IF \E j \in Idx : (j = i \/ j \in gone) /\ rob[j].ck = c
                       THEN NoCkpt ELSE ckpt[c]
      BY <2>7
    <3>2. \A j \in Idx : rob'[j].ck = IF j = i \/ j \in gone THEN None ELSE rob[j].ck
      BY <2>5
    <3>3. c # None
      BY <1>0
    <3> HIDE DEF gone
    <3> QED BY <2>7, <3>1, <3>2, <3>3
  <2>12. \A n \in 0..Depth : due'.on /\ n = due'.keep => due'.map = MapAt(n)
    BY <1>0, <2>1, <2>8 DEF WInv, Ckpts
  <2> HIDE DEF gone
  <2> QED BY <1>0, <2>5, <2>6, <2>7, <2>8, <2>9, <2>10, <2>11, <2>12, Loses
<1> QED BY <1>1, <1>5, <1>6 DEF Resolve

LEMMA CompleteStep ==
  ASSUME WInv, UNCHANGED <<head, count, rat, crat, poolVars, warpVars>>,
         NEW i \in Idx, NEW e \in Entry, NEW f \in Seq(Name \cup {Zero}), Complete(i, e),
         flight' = [flight EXCEPT ![i] = f],
         phase \notin {"select", "rename"}, phase' \in Phase,
         SameUop(e, rob[i]), e.ck = rob[i].ck, e.wp = rob[i].wp, e.st = "live",
         ~rob[i].complete, ~e.complete, ~e.pend, Sound(e), Matched(e, f)
  PROVE  WInv'
<1> DEFINE c == e.st = "live" /\ e.done /\ e.owed = 0 /\ e.rs = "free"
           g == [e EXCEPT !.complete = c, !.pend = c /\ e.kind = "ret"]
<1>0. /\ c \in BOOLEAN /\ KeepsCkpt(rob[i])
      /\ IF c /\ e.kind = "branch" THEN Resolve(i, g)
         ELSE rob' = [rob EXCEPT ![i] = g] /\ UNCHANGED <<ckpt, due>>
  BY EachEntry DEF Complete, Entry
<1>1. /\ g \in Entry
      /\ g.st = e.st /\ g.kind = e.kind /\ g.dst = e.dst /\ g.new = e.new /\ g.old = e.old
      /\ g.wp = e.wp /\ g.rs = e.rs /\ g.owed = e.owed /\ g.stale = e.stale
      /\ g.done = e.done /\ g.ck = e.ck
      /\ g.complete = c /\ g.pend = (c /\ e.kind = "ret")
  BY <1>0, ZenonT(60) DEF Entry
<1> HIDE DEF g
<1>2. /\ SameUop(g, rob[i]) /\ g.ck = rob[i].ck /\ g.wp = rob[i].wp
      /\ Sound(g) /\ Matched(g, f)
  BY <1>1 DEF SameUop, Sound, Matched, IsBranch
<1>3. IsBranch(e) /\ ~e.wp => e.ck # None
  BY <1>0 DEF KeepsCkpt, IsBranch, SameUop
<1>4. CASE c /\ e.kind = "branch"
  <2>1. IsBranch(g) /\ g.complete /\ ~g.pend /\ g.st = "live" /\ (~g.wp => g.ck # None)
    BY <1>1, <1>3, <1>4 DEF IsBranch
  <2> QED BY <1>0, <1>1, <1>2, <1>4, <2>1, ResolveStep
<1>5. CASE ~(c /\ e.kind = "branch")
  <2>1. KeepsCkpt(g)
    BY <1>1, <1>3, <1>5 DEF KeepsCkpt, IsBranch
  <2>2. rob' = [rob EXCEPT ![i] = g] /\ UNCHANGED <<head, count, mapVars, poolVars, warpVars>>
    BY <1>0, <1>5 DEF mapVars
  <2> QED BY <1>1, <1>2, <2>1, <2>2, RefitOne
<1> QED BY <1>4, <1>5

LEMMA ConfirmStep == ASSUME WInv, NEW i \in Idx, Confirm(i) PROVE WInv'
<1> DEFINE e == rob[i]
           g == [e EXCEPT !.rs = "free"]
<1>0. /\ e \in Entry /\ Sound(e) /\ Matched(e, flight[i])
      /\ e.st = "live" /\ e.rs = "issued" /\ Complete(i, g)
      /\ flight[i] \in Seq(Name \cup {Zero}) /\ Len(flight[i]) \in Nat
      /\ flight \in [Idx -> Seq(Name \cup {Zero})]
  BY EachEntry DEF Confirm, WInv, TypeOK
<1>1. flight' = [flight EXCEPT ![i] = flight[i]] /\ phase' \in Phase
      /\ phase \notin {"select", "rename"}
      /\ UNCHANGED <<head, count, rat, crat, poolVars, warpVars>>
  <2>1. flight' = flight
    BY DEF Confirm
  <2> QED BY <1>0, <2>1 DEF Confirm, Phase, Waking
<1>2. /\ g \in Entry
      /\ g.st = e.st /\ g.kind = e.kind /\ g.dst = e.dst /\ g.new = e.new /\ g.old = e.old
      /\ g.wp = e.wp /\ g.rs = "free" /\ g.owed = e.owed /\ g.stale = e.stale
      /\ g.done = e.done /\ g.ck = e.ck /\ g.complete = e.complete /\ g.pend = e.pend
  BY <1>0 DEF Entry
<1> HIDE DEF g
<1>3. ~e.complete /\ ~e.pend
  BY <1>0 DEF Sound
<1>4. SameUop(g, e) /\ Sound(g) /\ Matched(g, flight[i])
  BY <1>0, <1>2, <1>3 DEF SameUop, Sound, Matched, IsBranch
<1> QED BY <1>0, <1>1, <1>2, <1>3, <1>4, CompleteStep

LEMMA ResolveRetStep == ASSUME WInv, ResolveRet PROVE WInv'
<1>1. PICK i \in Idx : Pending(i) /\ Resolve(i, [rob[i] EXCEPT !.pend = FALSE])
  BY DEF ResolveRet
<1> DEFINE e == rob[i]
           g == [e EXCEPT !.pend = FALSE]
<1>0. /\ e \in Entry /\ Sound(e) /\ Matched(e, flight[i]) /\ KeepsCkpt(e)
      /\ e.st = "live" /\ e.pend /\ Resolve(i, g)
      /\ flight[i] \in Seq(Name \cup {Zero}) /\ Len(flight[i]) \in Nat
      /\ flight \in [Idx -> Seq(Name \cup {Zero})]
  BY <1>1, EachEntry DEF Pending, Live, WInv, Ring, TypeOK
<1>2. flight' = [flight EXCEPT ![i] = flight[i]] /\ phase' \in Phase
      /\ phase \notin {"select", "rename"}
      /\ UNCHANGED <<head, count, rat, crat, poolVars, warpVars>>
  <2>1. flight' = flight
    BY DEF ResolveRet
  <2> QED BY <1>0, <2>1 DEF ResolveRet, WInv, TypeOK
<1>3. /\ g \in Entry
      /\ g.st = e.st /\ g.kind = e.kind /\ g.dst = e.dst /\ g.new = e.new /\ g.old = e.old
      /\ g.wp = e.wp /\ g.rs = e.rs /\ g.owed = e.owed /\ g.stale = e.stale
      /\ g.done = e.done /\ g.ck = e.ck /\ g.complete = e.complete /\ ~g.pend
  BY <1>0 DEF Entry
<1> HIDE DEF g
<1>4. e.complete /\ e.kind = "ret"
  BY <1>0 DEF Sound
<1>5. /\ SameUop(g, e) /\ Sound(g) /\ Matched(g, flight[i]) /\ IsBranch(g)
      /\ g.st = "live" /\ g.complete /\ (~g.wp => g.ck # None)
  BY <1>0, <1>3, <1>4 DEF SameUop, Sound, Matched, IsBranch, KeepsCkpt
<1> QED BY <1>0, <1>2, <1>3, <1>5, ResolveStep

LEMMA DoneStep == ASSUME WInv, NEW i \in Idx, Done(i) PROVE WInv'
<1> DEFINE e == rob[i]
           g == AfterDone(e)
           f == Tail(flight[i])
<1>0. /\ e \in Entry /\ Sound(e) /\ Matched(e, flight[i]) /\ KeepsCkpt(e)
      /\ flight[i] \in Seq(Name \cup {Zero}) /\ flight[i] # << >>
      /\ Len(flight[i]) \in Nat \ {0}
      /\ rob \in [Idx -> Entry]
      /\ flight' = [flight EXCEPT ![i] = f]
      /\ phase' = phase /\ phase = "take"
      /\ UNCHANGED <<head, count, rat, crat, poolVars, warpVars>>
  BY EachEntry DEF Done, WInv, TypeOK
<1>1. /\ f \in Seq(Name \cup {Zero}) /\ Len(f) = Len(flight[i]) - 1
      /\ \A k \in 1..Len(f) : f[k] = flight[i][k+1] /\ k + 1 \in 1..Len(flight[i])
  BY <1>0
<1>2. e.st # "none" /\ e.owed = Len(flight[i]) /\ \A k \in 1..Len(f) : f[k] = e.new
  <2>1. 1 \in 1..Len(flight[i])
    BY <1>0
  <2> QED BY <1>0, <1>1, <2>1 DEF Matched
<1>3. ~e.complete /\ ~e.pend
  BY <1>0, <1>2 DEF Sound
<1>4. CASE e.stale > 0 \/ e.st = "held"
  <2>1. rob' = [rob EXCEPT ![i] = g] /\ UNCHANGED <<ckpt, due>>
    BY <1>0, <1>2, <1>4 DEF Done, Valid
  <2>2. /\ e.stale \in 0..e.owed
        /\ e.stale = e.owed \/ (e.stale = e.owed - 1 /\ e.st = "live")
    BY <1>0, <1>2 DEF Matched, Entry
  <2>3. e.stale > 0
    BY <1>0, <1>2, <1>4 DEF Matched, Entry
  <2>4. g = [e EXCEPT !.owed = @ - 1, !.stale = @ - 1]
    BY <2>3 DEF AfterDone
  <2>5. e.owed - 1 \in 0..MaxOwed /\ e.stale - 1 \in 0..MaxOwed
    <3>1. e.owed \in 0..MaxOwed /\ e.stale \in 0..MaxOwed /\ MaxOwed \in Nat
      BY <1>0, WarpAssumption DEF Entry
    <3> QED BY <1>0, <1>2, <2>3, <3>1
  <2>6. /\ g \in Entry
        /\ g.st = e.st /\ g.kind = e.kind /\ g.dst = e.dst /\ g.new = e.new /\ g.old = e.old
        /\ g.wp = e.wp /\ g.rs = e.rs /\ g.owed = e.owed - 1 /\ g.stale = e.stale - 1
        /\ g.done = e.done /\ g.ck = e.ck /\ g.complete = e.complete /\ g.pend = e.pend
    BY <1>0, <2>4, <2>5 DEF Entry
  <2> HIDE DEF g, f
  <2>7. Matched(g, f)
    BY <1>0, <1>1, <1>2, <2>6 DEF Matched, Entry
  <2>8. SameUop(g, e) /\ Sound(g) /\ KeepsCkpt(g)
    BY <1>0, <1>2, <1>3, <2>6 DEF SameUop, Sound, KeepsCkpt, IsBranch
  <2>9. UNCHANGED <<head, count, mapVars, poolVars, warpVars>> /\ phase' \in Phase
        /\ phase \notin {"select", "rename"}
    BY <1>0, <2>1 DEF mapVars, Phase
  <2> QED BY <1>0, <1>1, <2>1, <2>6, <2>7, <2>8, <2>9, RefitOne
<1>5. CASE ~(e.stale > 0 \/ e.st = "held")
  <2>1. Complete(i, g)
    BY <1>0, <1>2, <1>5 DEF Done, Valid
  <2>2. /\ e.st = "live" /\ e.stale = 0 /\ e.owed = 1 /\ ~e.done
        /\ e.rs # "wait" /\ e.kind # "exit" /\ e.rs \in {"issued", "free"}
    <3>1. e.st = "live" /\ e.stale = 0
      <4>1. e.st \in {"none", "live", "held"} /\ e.stale \in 0..MaxOwed /\ MaxOwed \in Nat
        BY <1>0, WarpAssumption DEF Entry
      <4> QED BY <1>2, <1>5, <4>1
    <3>2. /\ e.stale = IF /\ e.st = "live" /\ e.rs \in {"issued", "free"}
                          /\ e.kind # "exit" /\ ~e.done
                       THEN e.owed - 1 ELSE e.owed
      BY <1>0, <1>2 DEF Matched
    <3>3. e.owed \in Nat \ {0}
      BY <1>0, <1>2
    <3> QED BY <3>1, <3>2, <3>3
  <2>3. g = [e EXCEPT !.owed = @ - 1, !.done = TRUE]
    BY <2>2 DEF AfterDone
  <2>4. /\ g \in Entry
        /\ g.st = e.st /\ g.kind = e.kind /\ g.dst = e.dst /\ g.new = e.new /\ g.old = e.old
        /\ g.wp = e.wp /\ g.rs = e.rs /\ g.owed = 0 /\ g.stale = 0
        /\ g.done = TRUE /\ g.ck = e.ck /\ g.complete = e.complete /\ g.pend = e.pend
    <3>1. e.owed - 1 = 0 /\ 0 \in 0..MaxOwed
      BY <2>2, WarpAssumption
    <3>2. g = [e EXCEPT !.owed = 0, !.done = TRUE]
      BY <2>3, <3>1
    <3> HIDE DEF g
    <3> QED BY <1>0, <2>2, <3>1, <3>2 DEF Entry
  <2> HIDE DEF g, f
  <2>5. Matched(g, f)
    BY <1>0, <1>1, <1>2, <2>2, <2>4 DEF Matched
  <2>6. SameUop(g, e) /\ Sound(g)
    BY <1>0, <1>2, <1>3, <2>4 DEF SameUop, Sound, IsBranch
  <2>7. phase' \in Phase /\ phase \notin {"select", "rename"}
    BY <1>0 DEF Phase
  <2> QED BY <1>0, <1>1, <1>3, <2>1, <2>2, <2>4, <2>5, <2>6, <2>7, CompleteStep
<1> QED BY <1>4, <1>5

\* A step of the warp's state alone.
LEMMA SlotStep ==
  ASSUME WInv, UNCHANGED <<robVars, mapVars, poolVars, flight>>,
         phase' \in Phase, phase \in {"select", "rename"} => phase' \in {"select", "rename"},
         st' \in State, restoring' \subseteq Arch,
         landed' \in BOOLEAN, mapSent' \in BOOLEAN, faultStop' \in BOOLEAN,
         exitRetired' \in BOOLEAN, exitedSent' \in BOOLEAN, Slot'
  PROVE  WInv'
<1>0. UNCHANGED <<rob, head, count, rat, crat, ckpt, due, free, nameFree, flight>>
  BY DEF robVars, mapVars, poolVars
<1>1. TypeOK'
  BY <1>0 DEF WInv, TypeOK
<1>2. Ring' /\ Entries' /\ Unresolved' /\ Dones' /\ Apart' /\ Whole'
  BY <1>0 DEF WInv, Ring, Age, Entries, Unresolved, Dones, Apart, Whole
<1>3. DueBranch'
  BY <1>0, DueStays DEF SameUop
<1>4. /\ \A n \in 0..Depth : MapAt(n)' = MapAt(n)
      /\ \A k \in Idx : At(k)' = At(k)
      /\ Olds'
  BY <1>0, PlacesStay DEF WInv, TypeOK, SameUop, At
<1>5. Maps'
  BY <1>0, <1>4 DEF WInv, Maps
<1>6. Ckpts'
  BY <1>0, <1>4 DEF WInv, Ckpts
<1> QED BY <1>1, <1>2, <1>3, <1>4, <1>5, <1>6 DEF WInv

LEMMA LaunchStep == ASSUME WInv, Launch PROVE WInv'
<1>0. /\ UNCHANGED <<robVars, mapVars, poolVars, flight, flagVars, phase>>
      /\ phase = "control" /\ st = "free"
      /\ \/ st' = "active" /\ restoring' = restoring
         \/ st' = "allocated" /\ restoring' = Arch
  BY DEF Launch
<1>1. st' \in State /\ restoring' \subseteq Arch
  BY <1>0 DEF State, WInv, TypeOK
<1>2. /\ crat = ZeroMap /\ crat' = crat /\ rob' = rob /\ count' = count /\ due' = due
      /\ exitedSent' = exitedSent /\ exitRetired' = exitRetired
      /\ restoring = {}
  BY <1>0 DEF WInv, Slot, mapVars, robVars, flagVars
<1>3. Slot'
  BY <1>0, <1>2 DEF WInv, Slot, Empty, ZeroMap
<1> QED BY <1>0, <1>1, <1>3, SlotStep DEF WInv, TypeOK, flagVars

LEMMA ActivateStep == ASSUME WInv, Activate PROVE WInv'
<1>0. /\ UNCHANGED <<robVars, mapVars, poolVars, restoring, flagVars, flight, phase>>
      /\ st = "allocated" /\ restoring = {} /\ st' = "active"
  BY DEF Activate
<1>1. st' \in State
  BY <1>0 DEF State
<1>2. /\ crat' = crat /\ rob' = rob /\ count' = count /\ due' = due
      /\ exitedSent' = exitedSent /\ exitRetired' = exitRetired
  BY <1>0 DEF mapVars, robVars, flagVars
<1>3. Slot'
  BY <1>0, <1>2 DEF WInv, Slot, Empty
<1> QED BY <1>0, <1>1, <1>3, SlotStep DEF WInv, TypeOK, flagVars

\* A slot that holds no entry gives every name back.
LEMMA ReleaseStep ==
  ASSUME WInv, Empty, ReleaseSlot, flight' = flight, phase' \in Phase
  PROVE  /\ WInv' /\ free' = Name
         /\ \A i \in Idx : rob[i].st = "none" /\ flight[i] = << >>
<1>0. /\ free' = free \cup nameFree \cup ({crat[a] : a \in Arch} \ {Zero})
      /\ nameFree' = {} /\ rob' = [i \in Idx |-> NoEntry] /\ head' = 0 /\ count' = 0
      /\ rat' = ZeroMap /\ crat' = ZeroMap
      /\ ckpt' = [c \in Ckpt |-> NoCkpt] /\ due' = NoDue
      /\ st' = "free" /\ restoring' = {}
      /\ landed' = FALSE /\ mapSent' = FALSE /\ faultStop' = FALSE
      /\ exitRetired' = FALSE /\ exitedSent' = FALSE
  BY DEF ReleaseSlot
<1>1. \A i \in Idx : rob[i].st = "none" /\ rob[i] = NoEntry /\ flight[i] = << >>
  <2> SUFFICES ASSUME NEW i \in Idx
               PROVE rob[i].st = "none" /\ rob[i] = NoEntry /\ flight[i] = << >>
    OBVIOUS
  <2>1. rob[i].st = "none" /\ rob[i] = NoEntry /\ Matched(rob[i], flight[i])
    BY EachEntry DEF Empty, Sound
  <2>2. flight[i] \in Seq(Name \cup {Zero}) /\ Len(flight[i]) \in Nat
    BY EachEntry
  <2>3. ~(1 \in 1..Len(flight[i]))
    BY <2>1 DEF Matched
  <2> QED BY <2>1, <2>2, <2>3
<1>2. free' = Name
  <2>1. free' \subseteq Name
    BY <1>0 DEF WInv, TypeOK, Map
  <2>2. ASSUME NEW p \in Name PROVE p \in free'
    <3>1. \A i \in Idx : rob[i].dst = None
      BY <1>1 DEF NoEntry
    <3>2. p \in free \cup nameFree \/ \E a \in Arch : crat[a] = p
      BY <3>1 DEF WInv, Whole
    <3> QED BY <1>0, <3>2, WarpAssumption
  <2> QED BY <2>1, <2>2
<1>3. /\ NoEntry \in Entry /\ ZeroMap \in Map /\ 0 \in Idx /\ 0 \in 0..Depth
      /\ NoCkpt \in [live : BOOLEAN, map : Map] /\ NoDue \in [on : BOOLEAN, keep : 0..Depth, map : Map]
  BY WarpAssumption DEF NoEntry, Entry, Kind, ZeroMap, Map, Idx, NoCkpt, NoDue
<1>4. TypeOK'
  BY <1>0, <1>2, <1>3 DEF WInv, TypeOK, State
<1>5. /\ \A i \in Idx : rob'[i] = NoEntry
      /\ NoEntry.st = "none" /\ NoEntry.dst = None /\ NoEntry.new = Zero /\ NoEntry.old = Zero
      /\ NoEntry.ck = None /\ NoEntry.wp = FALSE /\ NoEntry.owed = 0 /\ NoEntry.stale = 0
      /\ NoEntry.complete = FALSE /\ NoEntry.pend = FALSE /\ NoEntry.kind = "op"
  BY <1>0 DEF NoEntry
<1>6. \A i \in Idx : Age(i)' \in Idx /\ Age(i)' >= count'
  <2>1. \A i \in Idx : Age(i)' = IF i < Depth THEN i ELSE i
    BY <1>0, WarpAssumption DEF Age, Idx
  <2> QED BY <1>0, <2>1, WarpAssumption DEF Idx
<1>7. Ring' /\ Entries' /\ Unresolved' /\ Olds' /\ Slot'
  BY <1>0, <1>5, <1>6 DEF Ring, Entries, Sound, Unresolved, KeepsCkpt, Olds, Slot, Empty, Idx, NoDue
<1>8. Dones'
  BY <1>1, <1>5 DEF Dones, Matched
<1>9. Apart' /\ Whole'
  BY <1>0, <1>2, <1>5, WarpAssumption DEF Apart, Whole, ZeroMap
<1>10. DueBranch'
  BY <1>0, <1>5 DEF DueBranch, NoDue
<1>11. Maps'
  <2>1. MapAt(0)' = crat'
    <3>1. {k \in 0..(0-1) : FALSE} = {}
      OBVIOUS
    <3> QED BY <1>0 DEF MapAt, ZeroMap
  <2> QED BY <1>0, <2>1 DEF Maps, NoDue
<1>12. Ckpts'
  BY <1>0, <1>5, WarpAssumption DEF Ckpts, NoCkpt, Idx
<1> QED BY <1>1, <1>2, <1>4, <1>7, <1>8, <1>9, <1>10, <1>11, <1>12 DEF WInv
LEMMA FreeStep ==
  ASSUME WInv, Free
  PROVE  /\ WInv' /\ free' = Name
         /\ \A i \in Idx : rob[i].st = "none" /\ flight[i] = << >>
<1>1. Empty /\ ReleaseSlot /\ flight' = flight /\ phase' \in Phase
  BY DEF Free, WInv, Slot, Phase
<1> QED BY <1>1, ReleaseStep

\* Progress gives the slot back, or changes the warp's state alone.
LEMMA ProgressStep ==
  ASSUME WInv, Progress
  PROVE  /\ WInv'
         /\ st # "free" /\ st' = "free" =>
              /\ free' = Name
              /\ \A i \in Idx : rob[i].st = "none" /\ flight[i] = << >>
<1>0. /\ flight' = flight /\ phase = "control" /\ phase' = "retire" /\ phase' \in Phase
      /\ Empty <=> ~HoldsEntries
  BY DEF Progress, Phase, Empty, HoldsEntries, Valid
<1>1. CASE st = "killing" /\ ~HoldsEntries /\ landed
  <2>1. ReleaseSlot
    BY <1>1 DEF Progress
  <2> QED BY <1>0, <1>1, <2>1, ReleaseStep
<1>2. CASE ~(st = "killing" /\ ~HoldsEntries /\ landed)
  <2>1. /\ \/ st = "demoting" /\ Empty /\ st' = "drained" /\ mapSent' = mapSent
           \/ st' = st /\ mapSent' \in {mapSent, TRUE}
        /\ exitedSent' = (exitedSent \/ (st = "active" /\ exitRetired /\ ~HoldsEntries))
        /\ UNCHANGED <<robVars, mapVars, poolVars, restoring, landed, faultStop, exitRetired>>
    BY <1>0, <1>2 DEF Progress
  <2>2. /\ st' \in State /\ mapSent' \in BOOLEAN /\ exitedSent' \in BOOLEAN
        /\ restoring' \subseteq Arch /\ landed' \in BOOLEAN /\ faultStop' \in BOOLEAN
        /\ exitRetired' \in BOOLEAN
    <3>1. exitedSent' \in BOOLEAN
      BY <2>1
    <3> QED BY <2>1, <3>1 DEF WInv, TypeOK, State
  <2>3. Slot'
    <3>1. Empty' <=> Empty
      BY <2>1 DEF Empty, robVars
    <3>2. /\ count' = count /\ due' = due /\ crat' = crat /\ restoring' = restoring
          /\ exitRetired' = exitRetired
      BY <2>1 DEF robVars, mapVars
    <3>3. Slot
      BY DEF WInv
    <3>4. exitedSent' => Empty' /\ exitRetired'
      <4>1. exitedSent' => exitedSent \/ (exitRetired /\ Empty)
        BY <1>0, <2>1, Zenon
      <4>2. exitedSent => Empty /\ exitRetired
        BY <3>3 DEF Slot
      <4> QED BY <3>1, <3>2, <4>1, <4>2, Zenon
    <3>5. CASE st = "demoting" /\ Empty /\ st' = "drained"
      BY <3>1, <3>2, <3>3, <3>4, <3>5 DEF Slot
    <3>6. CASE st' = st
      BY <3>1, <3>2, <3>3, <3>4, <3>6 DEF Slot
    <3> QED BY <2>1, <3>5, <3>6
  <2>4. WInv'
    BY <1>0, <2>1, <2>2, <2>3, SlotStep
  <2>5. ~(st # "free" /\ st' = "free")
    BY <2>1
  <2> QED BY <2>4, <2>5
<1> QED BY <1>1, <1>2
-----------------------------------------------------------------------------
(* Steps that take entries away from the tail, and those that let held     *)
(* ones go.                                                                *)

\* Entries younger than the first c have no part in the map those make.
LEMMA LivesStay ==
  ASSUME head \in Idx, UNCHANGED <<head, crat>>, NEW c \in 0..Depth,
         \A i \in Idx : Age(i) < c => /\ rob'[i].dst = rob[i].dst
                                      /\ rob'[i].new = rob[i].new
  PROVE  /\ \A n \in 0..c : MapAt(n)' = MapAt(n)
         /\ \A i \in Idx : Age(i)' = Age(i)
         /\ \A k \in 0..Depth : At(k)' = At(k)
<1>1. ASSUME NEW n \in 0..c PROVE MapAt(n)' = MapAt(n)
  <2>1. \A k \in 0..(n-1) : k \in Idx /\ k < c
    BY WarpAssumption DEF Idx
  <2>2. \A k \in 0..(n-1) : At(k) \in Idx /\ Age(At(k)) < c
    BY <2>1, AgeAt
  <2>3. n \in 0..Depth
    BY WarpAssumption
  <2> QED BY <2>2, <2>3, MapStays
<1> QED BY <1>1, HeadStays

\* Names that leave their entries go to the pool, at once or by nameFree.
LEMMA CutNames ==
  ASSUME WInv, crat' = crat, free' \cap nameFree' = {},
         \A i \in Idx : rob'[i].dst # None => /\ rob'[i].dst = rob[i].dst
                                              /\ rob'[i].new = rob[i].new,
         free' \cup nameFree' =
           free \cup nameFree \cup
             {rob[i].new : i \in {j \in Idx : rob[j].dst # None /\ rob'[j].dst = None}}
  PROVE  Apart' /\ Whole'
<1> DEFINE gone == {j \in Idx : rob[j].dst # None /\ rob'[j].dst = None}
           pool == free' \cup nameFree'
<1>0. /\ \A p : p \in pool <=> p \in free \cup nameFree \/ \E i \in gone : p = rob[i].new
      /\ \A i \in Idx : i \in gone <=> rob[i].dst # None /\ rob'[i].dst = None
  OBVIOUS
<1>1. Apart'
  <2>1. \A a \in Arch : crat[a] \notin pool
    BY <1>0 DEF WInv, Apart
  <2>2. ASSUME NEW i \in Idx, rob'[i].dst # None
        PROVE  /\ rob'[i].new \notin pool
               /\ \A a \in Arch : crat'[a] # rob'[i].new
               /\ \A j \in Idx : rob'[j].dst # None /\ rob'[j].new = rob'[i].new => j = i
    <3>1. rob[i].dst # None /\ rob'[i].new = rob[i].new
      BY <2>2
    <3>2. rob[i].new \notin pool
      <4>1. rob[i].new \notin free \cup nameFree
        BY <3>1 DEF WInv, Apart
      <4>2. ASSUME NEW j \in gone PROVE rob[i].new # rob[j].new
        BY <1>0, <2>2, <3>1 DEF WInv, Apart
      <4> HIDE DEF gone
      <4> QED BY <1>0, <4>1, <4>2
    <3>3. \A a \in Arch : crat[a] # rob[i].new
      BY <3>1 DEF WInv, Apart
    <3>4. \A j \in Idx : rob'[j].dst # None /\ rob'[j].new = rob'[i].new => j = i
      BY <3>1 DEF WInv, Apart
    <3> QED BY <3>1, <3>2, <3>3, <3>4
  <2> QED BY <2>1, <2>2 DEF WInv, Apart
<1>2. Whole'
  <2> SUFFICES ASSUME NEW p \in Name
               PROVE \/ p \in pool \/ \E a \in Arch : crat'[a] = p
                     \/ \E i \in Idx : rob'[i].dst # None /\ rob'[i].new = p
    BY DEF Whole
  <2>1. \/ p \in free \cup nameFree \/ \E a \in Arch : crat[a] = p
        \/ \E i \in Idx : rob[i].dst # None /\ rob[i].new = p
    BY DEF WInv, Whole
  <2> HIDE DEF pool, gone
  <2> QED BY <1>0, <2>1
<1> QED BY <1>1, <1>2

\* The first c live entries stay as they are; of the others none is live
\* afterwards, and what one of them still holds is what it held.
LEMMA Cut ==
  ASSUME WInv, NEW c \in 0..Depth, c <= count, UNCHANGED <<head, crat, flight>>,
         count' = c, TypeOK', DueBranch', Slot', rat' = MapAt(c),
         due'.on => due' = due /\ c = count,
         free' \cap nameFree' = {},
         free' \cup nameFree' =
           free \cup nameFree \cup
             {rob[i].new : i \in {j \in Idx : rob[j].dst # None /\ rob'[j].dst = None}},
         \A x \in Ckpt : IF \E i \in Idx : Age(i) < c /\ rob[i].ck = x
                           THEN ckpt'[x] = ckpt[x] ELSE ~ckpt'[x].live,
         \A i \in Idx :
           IF Age(i) < c THEN rob'[i] = rob[i]
           ELSE /\ rob'[i].st # "live" /\ rob'[i].ck = None
                /\ Sound(rob'[i]) /\ Matched(rob'[i], flight[i])
                /\ rob'[i].dst # None => rob'[i].dst = rob[i].dst /\ rob'[i].new = rob[i].new
  PROVE  WInv'
<1>0. /\ head \in Idx /\ count \in 0..Depth /\ c \in Nat
      /\ UNCHANGED <<head, crat, flight>>
  BY WarpAssumption DEF WInv, TypeOK
<1>1. /\ \A n \in 0..c : MapAt(n)' = MapAt(n)
      /\ \A i \in Idx : Age(i)' = Age(i)
      /\ \A k \in 0..Depth : At(k)' = At(k)
  BY <1>0, LivesStay
<1>2. Apart' /\ Whole'
  BY CutNames
<1>3. Ring'
  <2> SUFFICES ASSUME NEW i \in Idx PROVE rob'[i].st = "live" <=> Age(i)' < count'
    BY DEF Ring
  <2>1. Age(i)' = Age(i) /\ Age(i) \in Nat
    BY <1>0, <1>1, AgeAt
  <2>2. rob[i].st = "live" <=> Age(i) < count
    BY DEF WInv, Ring
  <2> QED BY <1>0, <2>1, <2>2
<1>4. Entries' /\ Unresolved' /\ Dones'
  <2> SUFFICES ASSUME NEW i \in Idx
               PROVE Sound(rob'[i]) /\ KeepsCkpt(rob'[i]) /\ Matched(rob'[i], flight'[i])
    BY DEF Entries, Unresolved, Dones
  <2>1. CASE Age(i) < c
    BY <1>0, <2>1, EachEntry
  <2>2. CASE ~(Age(i) < c)
    BY <1>0, <2>2 DEF KeepsCkpt
  <2> QED BY <2>1, <2>2
<1>5. ASSUME NEW k \in Idx, k < c
      PROVE  /\ At(k) \in Idx /\ At(k)' = At(k) /\ rob'[At(k)'] = rob[At(k)]
             /\ k < count /\ k \in 0..c /\ k + 1 \in 0..c
             /\ MapAt(k)' = MapAt(k) /\ MapAt(k+1)' = MapAt(k+1)
  <2>1. At(k) \in Idx /\ Age(At(k)) = k
    BY <1>0, AgeAt
  <2>2. k \in 0..Depth /\ k < count /\ k \in 0..c /\ k + 1 \in 0..c
    BY <1>0, <1>5, WarpAssumption DEF Idx
  <2> QED BY <1>1, <1>5, <2>1, <2>2
<1>6. Maps'
  <2>1. due'.on => due'.keep \in 0..c /\ due'.map = MapAt(due.keep) /\ due'.keep = due.keep
    BY <1>0 DEF WInv, DueBranch, Maps, TypeOK
  <2> QED BY <1>0, <1>1, <2>1 DEF Maps
<1>7. Olds'
  BY <1>0, <1>5 DEF WInv, Olds
<1>8. Ckpts'
  <2> SUFFICES ASSUME NEW x \in Ckpt
               PROVE  /\ ckpt'[x].live <=> \E i \in Idx : rob'[i].st = "live" /\ rob'[i].ck = x
                      /\ \A k \in Idx, n \in 0..Depth :
                           n = k + 1 /\ k < count' /\ rob'[At(k)'].ck = x => ckpt'[x].map = MapAt(n)'
                      /\ \A i, j \in Idx : rob'[i].ck = x /\ rob'[j].ck = x => i = j
    BY DEF Ckpts
  <2>0. x # None
    BY WarpAssumption
  <2>1. \A i \in Idx : rob'[i].ck = x => Age(i) < c /\ rob'[i] = rob[i]
    BY <2>0
  <2>2. /\ ckpt[x].live <=> \E i \in Idx : rob[i].st = "live" /\ rob[i].ck = x
        /\ \A k \in Idx, n \in 0..Depth :
             n = k + 1 /\ k < count /\ rob[At(k)].ck = x => ckpt[x].map = MapAt(n)
        /\ \A i, j \in Idx : rob[i].ck = x /\ rob[j].ck = x => i = j
    BY DEF WInv, Ckpts
  <2>3. ckpt'[x].live <=> \E i \in Idx : rob'[i].st = "live" /\ rob'[i].ck = x
    <3>1. CASE \E i \in Idx : Age(i) < c /\ rob[i].ck = x
      <4>1. PICK i \in Idx : Age(i) < c /\ rob[i].ck = x
        BY <3>1
      <4>2. rob[i].st = "live" /\ rob'[i] = rob[i]
        <5>1. Age(i) \in Nat
          BY <1>0, AgeAt
        <5> QED BY <1>0, <4>1, <5>1 DEF WInv, Ring
      <4> QED BY <2>2, <3>1, <4>1, <4>2
    <3>2. CASE ~\E i \in Idx : Age(i) < c /\ rob[i].ck = x
      BY <2>1, <3>2
    <3> QED BY <3>1, <3>2
  <2>4. ASSUME NEW k \in Idx, NEW n \in 0..Depth, n = k + 1, k < c, rob'[At(k)'].ck = x
        PROVE  ckpt'[x].map = MapAt(n)'
    <3>1. /\ At(k) \in Idx /\ rob[At(k)].ck = x /\ k < count
          /\ MapAt(n)' = MapAt(n) /\ Age(At(k)) < c
      BY <1>0, <1>5, <2>4, AgeAt
    <3>2. ckpt'[x] = ckpt[x]
      BY <3>1
    <3> QED BY <2>2, <2>4, <3>1, <3>2
  <2>5. \A i, j \in Idx : rob'[i].ck = x /\ rob'[j].ck = x => i = j
    BY <2>1, <2>2
  <2> QED BY <2>3, <2>4, <2>5
<1> QED BY <1>2, <1>3, <1>4, <1>6, <1>7, <1>8 DEF WInv

\* What a squash leaves of an entry.
Left(e, f, g) ==
  /\ g \in Entry /\ g.st # "live" /\ g.ck = None /\ g.wp = FALSE
  /\ Sound(g) /\ Matched(g, f)
  /\ g.dst # None => g.dst = e.dst /\ g.new = e.new
  /\ g.dst = None <=> e.owed = 0 \/ e.dst = None

LEMMA SquashedIs ==
  ASSUME NEW e \in Entry, NEW f \in Seq(Name \cup {Zero}), Sound(e), Matched(e, f), e.st = "live"
  PROVE  Left(e, f, Squashed(e))
<1> DEFINE g == Squashed(e)
<1>0. Len(f) \in Nat /\ e.owed = Len(f) /\ (\A k \in 1..Len(f) : f[k] = e.new) /\ e.owed \in 0..MaxOwed
  BY DEF Matched, Entry
<1>1. ASSUME e.owed > 0 PROVE Left(e, f, g)
  <2>1. g = [NoEntry EXCEPT !.st = "held", !.dst = e.dst, !.new = e.new,
                            !.owed = e.owed, !.stale = e.owed]
    BY <1>1 DEF Squashed
  <2>2. /\ g \in Entry
        /\ g.st = "held" /\ g.kind = "op" /\ g.dst = e.dst /\ g.new = e.new /\ g.old = Zero
        /\ g.ck = None /\ g.wp = FALSE /\ g.rs = "none" /\ g.owed = e.owed /\ g.stale = e.owed
        /\ g.done = FALSE /\ g.complete = FALSE /\ g.pend = FALSE
    BY <2>1 DEF NoEntry, Entry, Kind
  <2> HIDE DEF g
  <2>3. Sound(g) /\ Matched(g, f)
    BY <1>0, <2>2 DEF Sound, Matched, IsBranch
  <2> QED BY <1>0, <1>1, <2>2, <2>3 DEF Left
<1>2. ASSUME ~(e.owed > 0) PROVE Left(e, f, g)
  <2>1. g = NoEntry /\ e.owed = 0 /\ Len(f) = 0
    BY <1>0, <1>2 DEF Squashed
  <2>2. NoEntry \in Entry
    BY WarpAssumption DEF NoEntry, Entry, Kind
  <2>3. Sound(NoEntry) /\ NoEntry.st = "none" /\ NoEntry.ck = None /\ NoEntry.wp = FALSE
        /\ NoEntry.dst = None
    BY DEF NoEntry, Sound, IsBranch
  <2>4. Matched(NoEntry, f)
    BY <2>1, <2>3 DEF Matched
  <2> QED BY <2>1, <2>2, <2>3, <2>4 DEF Left
<1> HIDE DEF g
<1>3. Left(e, f, g)
  BY <1>1, <1>2
<1> QED BY <1>3 DEF g

LEMMA Squashes ==
  ASSUME WInv, NEW c \in 0..count, NEW pool, squashAfter(c, pool)
  PROVE  /\ rob' \in [Idx -> Entry] /\ head' = head /\ count' = c
         /\ \A i \in Idx :
              IF Age(i) < c THEN rob'[i] = rob[i]
              ELSE /\ rob'[i].st # "live" /\ rob'[i].ck = None /\ ~rob'[i].wp
                   /\ Sound(rob'[i]) /\ Matched(rob'[i], flight[i])
                   /\ rob'[i].dst # None => rob'[i].dst = rob[i].dst /\ rob'[i].new = rob[i].new
         /\ free' = pool \cup
              {rob[i].new : i \in {j \in Idx : rob[j].dst # None /\ rob'[j].dst = None}}
<1> DEFINE gone == {i \in Live : Age(i) >= c}
<1>0. /\ rob \in [Idx -> Entry] /\ count \in 0..Depth /\ c \in Nat /\ head \in Idx
      /\ rob' = [i \in Idx |-> IF i \in gone THEN Squashed(rob[i]) ELSE rob[i]]
      /\ head' = head /\ count' = c
      /\ free' = pool \cup Names({rob[i] : i \in {j \in gone : rob[j].owed = 0}})
  BY WarpAssumption DEF WInv, TypeOK, squashAfter
<1>1. \A i \in Idx : Age(i) \in Nat /\ (i \in gone <=> rob[i].st = "live" /\ Age(i) >= c)
  BY <1>0, AgeAt DEF Live, WInv, Ring
<1> HIDE DEF gone
<1>2. ASSUME NEW i \in Idx
      PROVE  /\ rob'[i] \in Entry
             /\ IF Age(i) < c THEN rob'[i] = rob[i]
                ELSE /\ rob'[i].st # "live" /\ rob'[i].ck = None /\ ~rob'[i].wp
                     /\ Sound(rob'[i]) /\ Matched(rob'[i], flight[i])
                     /\ rob'[i].dst # None => rob'[i].dst = rob[i].dst /\ rob'[i].new = rob[i].new
             /\ rob[i].dst # None /\ rob'[i].dst = None
                  <=> i \in gone /\ rob[i].owed = 0 /\ rob[i].dst # None
  <2>0. /\ rob[i] \in Entry /\ Sound(rob[i]) /\ Matched(rob[i], flight[i])
        /\ flight[i] \in Seq(Name \cup {Zero})
    BY EachEntry
  <2>1. CASE i \in gone
    <3>1. rob[i].st = "live" /\ rob'[i] = Squashed(rob[i]) /\ ~(Age(i) < c)
      BY <1>0, <1>1, <2>1
    <3>2. Left(rob[i], flight[i], rob'[i])
      BY <2>0, <3>1, SquashedIs
    <3> QED BY <2>1, <3>1, <3>2 DEF Left
  <2>2. CASE i \notin gone
    <3>1. rob'[i] = rob[i]
      BY <1>0, <2>2
    <3>2. ~(Age(i) < c) => rob[i].st # "live"
      BY <1>0, <1>1, <2>2
    <3>3. rob[i].st # "live" => rob[i].ck = None /\ rob[i].wp = FALSE
      <4>1. rob[i].st \in {"none", "live", "held"} /\ rob[i].wp \in BOOLEAN
        BY <2>0 DEF Entry
      <4> QED BY <2>0, <4>1 DEF Sound, NoEntry
    <3> QED BY <2>0, <2>2, <3>1, <3>2, <3>3
  <2> QED BY <2>1, <2>2
<1>3. Names({rob[i] : i \in {j \in gone : rob[j].owed = 0}})
        = {rob[i].new : i \in {j \in Idx : rob[j].dst # None /\ rob'[j].dst = None}}
  <2>1. gone \subseteq Idx
    BY DEF gone, Live
  <2> QED BY <1>2, <2>1 DEF Names
<1>4. rob' \in [Idx -> Entry]
  BY <1>0, <1>2
<1> QED BY <1>0, <1>2, <1>3, <1>4

LEMMA EmptyStays ==
  ASSUME WInv, Empty, NEW c, NEW pool, squashAfter(c, pool)
  PROVE  Empty'
<1>1. Live = {}
  BY DEF WInv, Ring, Live, Empty
<1>2. rob' = rob
  BY <1>1 DEF WInv, TypeOK, squashAfter
<1> QED BY <1>2 DEF Empty

\* The names a squash frees were in no place of the pool.
LEMMA FreedApart ==
  ASSUME WInv
  PROVE  \A i \in Idx : rob[i].dst # None => rob[i].new \in Name /\ rob[i].new \notin free \cup nameFree
BY EachEntry DEF WInv, Apart, Sound

LEMMA ToRetirement ==
  ASSUME WInv, SquashToRetirement, UNCHANGED <<crat, nameFree, flight, phase>>,
         st' \in State, restoring' \subseteq Arch, mapSent' \in BOOLEAN, faultStop' \in BOOLEAN,
         exitRetired' \in BOOLEAN, exitedSent' \in BOOLEAN, Slot'
  PROVE  WInv'
<1>0. /\ squashAfter(0, free) /\ ckpt' = [c \in Ckpt |-> NoCkpt] /\ rat' = crat
      /\ due' = NoDue /\ landed' = FALSE /\ UNCHANGED <<crat, nameFree, flight, phase>>
      /\ head \in Idx /\ count \in 0..Depth /\ 0 \in 0..count /\ 0 \in 0..Depth /\ 0 <= count
      /\ crat \in Map
  BY WarpAssumption DEF SquashToRetirement, WInv, TypeOK
<1>1. /\ rob' \in [Idx -> Entry] /\ head' = head /\ count' = 0
      /\ \A i \in Idx :
           IF Age(i) < 0 THEN rob'[i] = rob[i]
           ELSE /\ rob'[i].st # "live" /\ rob'[i].ck = None /\ ~rob'[i].wp
                /\ Sound(rob'[i]) /\ Matched(rob'[i], flight[i])
                /\ rob'[i].dst # None => rob'[i].dst = rob[i].dst /\ rob'[i].new = rob[i].new
      /\ free' = free \cup
           {rob[i].new : i \in {j \in Idx : rob[j].dst # None /\ rob'[j].dst = None}}
  BY <1>0, Squashes
<1>2. \A i \in Idx : ~(Age(i) < 0)
  BY <1>0, AgeAt DEF Idx
<1>3. /\ NoCkpt \in [live : BOOLEAN, map : Map] /\ ~NoCkpt.live
      /\ NoDue \in [on : BOOLEAN, keep : 0..Depth, map : Map] /\ ~NoDue.on
  BY <1>0 DEF NoCkpt, NoDue, Map, ZeroMap
<1>4. free' \subseteq Name /\ free' \cap nameFree' = {}
  BY <1>0, <1>1, FreedApart DEF WInv, Apart, TypeOK
<1>5. free' \cup nameFree' = free \cup nameFree \cup
           {rob[i].new : i \in {j \in Idx : rob[j].dst # None /\ rob'[j].dst = None}}
  BY <1>0, <1>1
<1>6. TypeOK'
  BY <1>0, <1>1, <1>3, <1>4 DEF WInv, TypeOK
<1>7. DueBranch'
  BY <1>0, <1>1, <1>2, <1>3 DEF DueBranch
<1>8. rat' = MapAt(0)
  BY <1>0, MapZero
<1>9. \A x \in Ckpt : IF \E i \in Idx : Age(i) < 0 /\ rob[i].ck = x
                        THEN ckpt'[x] = ckpt[x] ELSE ~ckpt'[x].live
  BY <1>0, <1>2, <1>3
<1> QED BY <1>0, <1>1, <1>3, <1>4, <1>5, <1>6, <1>7, <1>8, <1>9, Cut

LEMMA DemoteStep == ASSUME WInv, Demote PROVE WInv'
<1>0. /\ SquashToRetirement /\ st = "active" /\ ~exitRetired /\ st' = "demoting"
      /\ mapSent' = FALSE
      /\ UNCHANGED <<crat, nameFree, restoring, faultStop, exitRetired, exitedSent, flight, phase>>
  BY DEF Demote
<1>1. count' = 0 /\ ~due'.on
  BY <1>0 DEF SquashToRetirement, squashAfter, NoDue
<1>2. Slot'
  BY <1>0, <1>1 DEF WInv, Slot
<1>3. st' \in State
  BY <1>0 DEF State
<1> QED BY <1>0, <1>2, <1>3, ToRetirement DEF WInv, TypeOK

LEMMA KillStep == ASSUME WInv, Kill PROVE WInv'
<1>0. /\ SquashToRetirement /\ st' = "killing"
      /\ UNCHANGED <<crat, nameFree, restoring, mapSent, faultStop, exitRetired, exitedSent,
                     flight, phase>>
  BY DEF Kill
<1>1. count' = 0 /\ ~due'.on /\ (Empty => Empty')
  BY <1>0, EmptyStays DEF SquashToRetirement, squashAfter, NoDue
<1>2. Slot'
  BY <1>0, <1>1 DEF WInv, Slot
<1>3. st' \in State
  BY <1>0 DEF State
<1> QED BY <1>0, <1>2, <1>3, ToRetirement DEF WInv, TypeOK

\* A due squash takes the entries past its branch, and the map that branch
\* saved is the map of those it keeps.
LEMMA EdgeStep == ASSUME WInv, Edge PROVE WInv'
<1>0. /\ phase' = "take" /\ phase' \in Phase /\ nameFree' = {}
      /\ landed' \in BOOLEAN
      /\ UNCHANGED <<st, restoring, mapSent, faultStop, exitRetired, exitedSent, flight>>
      /\ head \in Idx /\ count \in 0..Depth /\ crat \in Map
      /\ due \in [on : BOOLEAN, keep : 0..Depth, map : Map]
      /\ NoCkpt \in [live : BOOLEAN, map : Map] /\ ~NoCkpt.live
      /\ NoDue \in [on : BOOLEAN, keep : 0..Depth, map : Map] /\ ~NoDue.on
  <2>1. landed' \in BOOLEAN
    <3>1. landed' \in {landed, TRUE} \/ landed' \in {landed}
      BY DEF Edge
    <3> QED BY <3>1 DEF WInv, TypeOK
  <2>2. /\ NoCkpt \in [live : BOOLEAN, map : Map] /\ ~NoCkpt.live
        /\ NoDue \in [on : BOOLEAN, keep : 0..Depth, map : Map] /\ ~NoDue.on
    BY WarpAssumption DEF NoCkpt, NoDue, Map, ZeroMap
  <2> QED BY <2>1, <2>2 DEF Edge, WInv, TypeOK, Phase
<1>1. CASE due.on
  <2> DEFINE c == due.keep
             gone == {j \in Live : Age(j) >= c}
  <2>0. /\ squashAfter(c, free \cup nameFree)
        /\ ckpt' = FreedCkpts({rob[i] : i \in gone})
        /\ rat' = due.map /\ due' = NoDue /\ crat' = crat
        /\ c \in 0..Depth /\ c <= count /\ c \in 0..count
    <3>1. c \in 0..Depth /\ c <= count
      BY <1>0, <1>1 DEF WInv, DueBranch
    <3> QED BY <1>0, <1>1, <3>1, WarpAssumption DEF Edge
  <2>1. /\ rob' \in [Idx -> Entry] /\ head' = head /\ count' = c
        /\ \A i \in Idx :
             IF Age(i) < c THEN rob'[i] = rob[i]
             ELSE /\ rob'[i].st # "live" /\ rob'[i].ck = None /\ ~rob'[i].wp
                  /\ Sound(rob'[i]) /\ Matched(rob'[i], flight[i])
                  /\ rob'[i].dst # None => rob'[i].dst = rob[i].dst /\ rob'[i].new = rob[i].new
        /\ free' = (free \cup nameFree) \cup
             {rob[i].new : i \in {j \in Idx : rob[j].dst # None /\ rob'[j].dst = None}}
    BY <2>0, Squashes
  <2>2. \A x \in Ckpt : /\ ckpt'[x] = IF \E i \in gone : rob[i].ck = x THEN NoCkpt ELSE ckpt[x]
                        /\ ckpt'[x] \in [live : BOOLEAN, map : Map]
    BY <1>0, <2>0 DEF FreedCkpts, WInv, TypeOK
  <2>3. ckpt' \in [Ckpt -> [live : BOOLEAN, map : Map]]
    <3>1. ckpt' = [x \in Ckpt |-> ckpt'[x]]
      BY <2>0 DEF FreedCkpts
    <3> QED BY <2>2, <3>1
  <2>4. \A i \in Idx : Age(i) \in Nat /\ (i \in gone <=> rob[i].st = "live" /\ Age(i) >= c)
    BY <1>0, AgeAt DEF Live, WInv, Ring
  <2>5. ASSUME NEW x \in Ckpt
        PROVE  IF \E i \in Idx : Age(i) < c /\ rob[i].ck = x
                 THEN ckpt'[x] = ckpt[x] ELSE ~ckpt'[x].live
    <3> HIDE DEF gone, c
    <3>1. CASE \E i \in Idx : Age(i) < c /\ rob[i].ck = x
      <4>1. PICK i \in Idx : Age(i) < c /\ rob[i].ck = x
        BY <3>1
      <4>2. ASSUME NEW j \in gone PROVE rob[j].ck # x
        <5>1. j \in Idx /\ j # i
          BY <2>0, <2>4, <4>1 DEF gone, Live
        <5> QED BY <4>1, <5>1 DEF WInv, Ckpts
      <4> QED BY <2>2, <3>1, <4>2
    <3>2. CASE ~\E i \in Idx : Age(i) < c /\ rob[i].ck = x
      <4>1. CASE \E i \in gone : rob[i].ck = x
        BY <1>0, <2>2, <3>2, <4>1
      <4>2. CASE ~\E i \in gone : rob[i].ck = x
        <5>1. ckpt[x].live <=> \E i \in Idx : rob[i].st = "live" /\ rob[i].ck = x
          BY DEF WInv, Ckpts
        <5>2. \A i \in Idx : Age(i) < c \/ Age(i) >= c
          BY <2>0, <2>4
        <5>3. ~ckpt[x].live
          BY <2>4, <3>2, <4>2, <5>1, <5>2
        <5> QED BY <2>2, <3>2, <4>2, <5>3
      <4> QED BY <4>1, <4>2
    <3> QED BY <3>1, <3>2
  <2>6. free' \subseteq Name
    BY <2>1, FreedApart DEF WInv, TypeOK
  <2>7. TypeOK'
    BY <1>0, <2>0, <2>1, <2>3, <2>6 DEF WInv, TypeOK
  <2>8. \A i \in Idx : ~rob'[i].wp
    <3> SUFFICES ASSUME NEW i \in Idx PROVE ~rob'[i].wp
      OBVIOUS
    <3>1. CASE Age(i) < c
      <4>1. rob'[i] = rob[i] /\ ~(Age(i) >= due.keep)
        BY <2>0, <2>1, <2>4, <3>1
      <4> QED BY <4>1 DEF WInv, DueBranch
    <3>2. CASE ~(Age(i) < c)
      BY <2>1, <3>2
    <3> QED BY <3>1, <3>2
  <2>9. DueBranch'
    BY <1>0, <2>0, <2>8 DEF DueBranch
  <2>10. rat' = MapAt(c)
    BY <1>1, <2>0 DEF WInv, Maps
  <2>11. Slot'
    <3>1. st = "active" /\ (Empty => Empty')
      BY <1>1, <2>0, EmptyStays DEF WInv, Slot
    <3> QED BY <1>0, <2>0, <3>1 DEF WInv, Slot
  <2>12. /\ free' \cap nameFree' = {}
         /\ free' \cup nameFree' = free \cup nameFree \cup
              {rob[i].new : i \in {j \in Idx : rob[j].dst # None /\ rob'[j].dst = None}}
    BY <1>0, <2>1
  <2> HIDE DEF c, gone
  <2> QED BY <1>0, <2>0, <2>1, <2>5, <2>7, <2>9, <2>10, <2>11, <2>12, Cut
<1>2. CASE ~due.on
  <2>0. free' = free \cup nameFree /\ UNCHANGED <<robVars, mapVars>>
    BY <1>2 DEF Edge
  <2>1. UNCHANGED <<rob, head, count, rat, crat, ckpt, due>>
    BY <2>0 DEF robVars, mapVars
  <2>2. TypeOK'
    BY <1>0, <2>0, <2>1 DEF WInv, TypeOK
  <2>3. Ring' /\ Entries' /\ Unresolved' /\ Dones'
    BY <1>0, <2>1 DEF WInv, Ring, Age, Entries, Unresolved, Dones
  <2>4. DueBranch'
    BY <1>2, <2>1 DEF WInv, DueBranch
  <2>5. /\ \A n \in 0..Depth : MapAt(n)' = MapAt(n)
        /\ \A k \in Idx : At(k)' = At(k)
        /\ Olds'
    BY <2>1, PlacesStay DEF WInv, TypeOK, SameUop, At
  <2>6. Maps' /\ Ckpts'
    BY <2>1, <2>5 DEF WInv, Maps, Ckpts
  <2>7. Apart' /\ Whole'
    BY <1>0, <2>0, <2>1 DEF WInv, Apart, Whole
  <2>8. Slot'
    BY <1>0, <2>1 DEF WInv, Slot, Empty
  <2> QED BY <2>2, <2>3, <2>4, <2>5, <2>6, <2>7, <2>8 DEF WInv
<1> QED BY <1>1, <1>2

LEMMA ReleaseHeldStep == ASSUME WInv, ReleaseHeld PROVE WInv'
<1> DEFINE landing == {i \in Idx : rob[i].st = "held" /\ rob[i].owed = 0}
<1>0. /\ rob' = [i \in Idx |-> IF i \in landing THEN NoEntry ELSE rob[i]]
      /\ nameFree' = nameFree \cup Names({rob[i] : i \in landing})
      /\ UNCHANGED <<head, count, rat, crat, ckpt, due, free, flight, st, restoring,
                     landed, mapSent, faultStop, exitRetired, exitedSent>>
      /\ phase \in {"take", "wake"} /\ phase' \in Phase
      /\ head \in Idx /\ count \in 0..Depth /\ rob \in [Idx -> Entry]
      /\ count <= count /\ due \in [on : BOOLEAN, keep : 0..Depth, map : Map]
  BY WarpAssumption DEF ReleaseHeld, Waking, Phase, WInv, TypeOK, mapVars, warpVars, flagVars
<1>1. /\ \A i \in Idx : /\ Age(i) \in Nat
                        /\ i \in landing <=> rob[i].st = "held" /\ rob[i].owed = 0
                        /\ rob[i].st = "live" <=> Age(i) < count
      /\ \A k \in Idx : At(k) \in Idx /\ Age(At(k)) = k
  BY <1>0, AgeAt DEF WInv, Ring
<1>2. /\ NoEntry \in Entry /\ Sound(NoEntry) /\ NoEntry.st = "none" /\ NoEntry.ck = None
      /\ NoEntry.wp = FALSE /\ NoEntry.dst = None
  <2>1. NoEntry \in Entry
    BY WarpAssumption DEF NoEntry, Entry, Kind
  <2> QED BY <2>1 DEF NoEntry, Sound, IsBranch
<1> HIDE DEF landing
<1>3. ASSUME NEW i \in Idx
      PROVE  /\ rob'[i] \in Entry
             /\ IF Age(i) < count THEN rob'[i] = rob[i]
                ELSE /\ rob'[i].st # "live" /\ rob'[i].ck = None
                     /\ Sound(rob'[i]) /\ Matched(rob'[i], flight[i])
                     /\ rob'[i].dst # None => rob'[i].dst = rob[i].dst /\ rob'[i].new = rob[i].new
             /\ rob'[i].wp = rob[i].wp
             /\ rob[i].dst # None /\ rob'[i].dst = None <=> i \in landing /\ rob[i].dst # None
  <2>0. rob[i] \in Entry /\ Sound(rob[i]) /\ Matched(rob[i], flight[i])
    BY EachEntry
  <2>1. CASE i \in landing
    <3>1. rob'[i] = NoEntry /\ rob[i].st = "held" /\ rob[i].owed = 0 /\ ~(Age(i) < count)
      BY <1>0, <1>1, <2>1
    <3>2. Matched(NoEntry, flight[i])
      <4>1. Len(flight[i]) = 0
        BY <2>0, <3>1 DEF Matched
      <4> QED BY <1>2, <4>1 DEF Matched
    <3>3. rob[i].wp = FALSE
      <4>1. rob[i].wp \in BOOLEAN
        BY <2>0 DEF Entry
      <4> QED BY <2>0, <3>1, <4>1 DEF Sound
    <3> QED BY <1>2, <2>1, <3>1, <3>2, <3>3
  <2>2. CASE i \notin landing
    <3>1. rob'[i] = rob[i]
      BY <1>0, <2>2
    <3>2. ~(Age(i) < count) => rob[i].st # "live" /\ rob[i].ck = None
      <4>1. rob[i].st \in {"none", "live", "held"}
        BY <2>0 DEF Entry
      <4>2. rob[i].st = "none" \/ rob[i].st = "held" => rob[i].ck = None
        BY <1>2, <2>0 DEF Sound
      <4> QED BY <1>1, <4>1, <4>2
    <3> QED BY <2>0, <2>2, <3>1, <3>2
  <2> QED BY <2>1, <2>2
<1>4. Names({rob[i] : i \in landing})
        = {rob[i].new : i \in {j \in Idx : rob[j].dst # None /\ rob'[j].dst = None}}
  <2>1. landing \subseteq Idx
    BY DEF landing
  <2> QED BY <1>3, <2>1 DEF Names
<1>5. /\ free' \cap nameFree' = {} /\ nameFree' \subseteq Name
      /\ free' \cup nameFree' = free \cup nameFree \cup
           {rob[i].new : i \in {j \in Idx : rob[j].dst # None /\ rob'[j].dst = None}}
  <2> DEFINE N == {rob[i].new : i \in {j \in Idx : rob[j].dst # None /\ rob'[j].dst = None}}
  <2>1. \A p \in N : p \in Name /\ p \notin free
    BY FreedApart
  <2>2. free' = free /\ nameFree' = nameFree \cup N
    BY <1>0, <1>4
  <2>3. free \cap nameFree = {} /\ nameFree \subseteq Name
    BY DEF WInv, Apart, TypeOK
  <2> HIDE DEF N
  <2>4. free' \cap nameFree' = {} /\ nameFree' \subseteq Name /\ free' \cup nameFree' = free \cup nameFree \cup N
    BY <2>1, <2>2, <2>3
  <2> QED BY <2>4 DEF N
<1>6. TypeOK'
  <2>1. rob' \in [Idx -> Entry]
    BY <1>0, <1>3
  <2> QED BY <1>0, <1>5, <2>1 DEF WInv, TypeOK
<1>7. DueBranch'
  <2>1. \A i \in Idx : Age(i)' = Age(i)
    BY <1>0, HeadStays
  <2>2. due.on => due.keep # 0 /\ IsBranch(rob'[At(due.keep - 1)'])
    <3> SUFFICES ASSUME due.on PROVE due.keep # 0 /\ IsBranch(rob'[At(due.keep - 1)'])
      OBVIOUS
    <3>1. due.keep # 0 /\ IsBranch(rob[At(due.keep - 1)]) /\ due.keep <= count
      BY <1>0 DEF WInv, DueBranch
    <3>2. due.keep - 1 \in Idx /\ due.keep - 1 < count
      BY <1>0, <3>1, WarpAssumption DEF Idx
    <3>3. At(due.keep - 1)' = At(due.keep - 1)
      BY <1>0 DEF At
    <3> QED BY <1>1, <1>3, <3>1, <3>2, <3>3
  <2>3. \A i \in Idx : rob'[i].wp <=> (due.on /\ Age(i) < count /\ Age(i) >= due.keep)
    BY <1>3 DEF WInv, DueBranch
  <2> QED BY <1>0, <2>1, <2>2, <2>3 DEF WInv, DueBranch
<1>8. Slot'
  <2>1. Empty => Empty'
    BY <1>0, <1>2 DEF Empty
  <2> QED BY <1>0, <2>1 DEF WInv, Slot
<1>9. rat' = MapAt(count)
  BY <1>0 DEF WInv, Maps
<1>10. \A x \in Ckpt : IF \E i \in Idx : Age(i) < count /\ rob[i].ck = x
                         THEN ckpt'[x] = ckpt[x] ELSE ~ckpt'[x].live
  BY <1>0, <1>1 DEF WInv, Ckpts
<1> QED BY <1>0, <1>3, <1>5, <1>6, <1>7, <1>8, <1>9, <1>10, Cut

\* A restore names a register in both maps of a slot that holds no entry.
LEMMA RestoreOneStep == ASSUME WInv, RestoreStep PROVE WInv'
<1>1. PICK a \in restoring, p \in free :
        /\ rat' = [rat EXCEPT ![a] = p] /\ crat' = [crat EXCEPT ![a] = p]
        /\ free' = free \ {p} /\ restoring' = restoring \ {a}
  BY DEF RestoreStep
<1>0. /\ UNCHANGED <<rob, head, count, ckpt, due, nameFree, st, landed, mapSent, faultStop,
                     exitRetired, exitedSent, flight, phase>>
      /\ a \in Arch /\ p \in Name /\ p # Zero /\ crat \in Map /\ rat \in Map
      /\ crat[a] = Zero /\ Zero \notin Name
      /\ Empty /\ st \in {"allocated", "killing"} /\ count = 0 /\ due.on = FALSE
      /\ head \in Idx
  <2>1. restoring # {} /\ a \in Arch /\ p \in Name /\ crat[a] = Zero
    BY <1>1 DEF WInv, TypeOK, Slot
  <2>2. Empty /\ st \in {"allocated", "killing"} /\ count = 0 /\ due.on = FALSE
    BY <2>1 DEF WInv, TypeOK, Slot
  <2> QED BY <2>1, <2>2, WarpAssumption DEF RestoreStep, robVars, flagVars, WInv, TypeOK
<1>2. /\ \A b \in Arch : crat'[b] = IF b = a THEN p ELSE crat[b]
      /\ crat' \in Map /\ rat' \in Map
  BY <1>0, <1>1 DEF Map
<1>3. \A i \in Idx : rob[i] = NoEntry /\ rob[i].dst = None /\ rob[i].ck = None
  <2>1. \A i \in Idx : rob[i] = NoEntry
    BY <1>0, EachEntry DEF Empty, Sound
  <2>2. NoEntry.dst = None /\ NoEntry.ck = None
    BY DEF NoEntry
  <2> QED BY <2>1, <2>2
<1>4. TypeOK'
  BY <1>0, <1>1, <1>2 DEF WInv, TypeOK
<1>5. Ring' /\ Entries' /\ Unresolved' /\ Dones'
  BY <1>0 DEF WInv, Ring, Age, Entries, Unresolved, Dones
<1>6. DueBranch' /\ Olds'
  BY <1>0, <1>3 DEF WInv, DueBranch, Olds, Idx
<1>7. Maps'
  <2>1. rat = crat
    BY <1>0, MapZero DEF WInv, Maps, TypeOK
  <2>2. MapLaw(0)'
    BY MapAtIsNext, 0 \in Nat
  <2>3. MapAt(0)' = crat'
    BY <1>2, <2>2 DEF MapLaw, Map
  <2> QED BY <1>0, <1>1, <2>1, <2>3 DEF Maps
<1>8. Ckpts'
  BY <1>0, <1>3, WarpAssumption DEF WInv, Ckpts, Idx
<1>9. Apart'
  <2>1. \A b \in Arch : crat[b] \notin free \cup nameFree
    BY DEF WInv, Apart
  <2>2. p \notin nameFree /\ \A b \in Arch : crat[b] # p
    BY DEF WInv, Apart
  <2>3. \A b \in Arch : crat'[b] \notin free' \cup nameFree'
    BY <1>0, <1>1, <1>2, <2>1, <2>2
  <2>4. \A b, c \in Arch : crat'[b] = crat'[c] /\ crat'[b] # Zero => b = c
    BY <1>2, <2>2 DEF WInv, Apart
  <2>5. free' \cap nameFree' = {}
    BY <1>0, <1>1 DEF WInv, Apart
  <2> QED BY <1>0, <1>3, <2>3, <2>4, <2>5 DEF Apart
<1>10. Whole'
  <2> SUFFICES ASSUME NEW q \in Name
               PROVE  q \in free' \cup nameFree' \/ \E b \in Arch : crat'[b] = q
    BY DEF Whole
  <2>1. q \in free \cup nameFree \/ \E b \in Arch : crat[b] = q
    BY <1>3 DEF WInv, Whole
  <2> QED BY <1>0, <1>1, <1>2, <2>1
<1>11. Slot'
  <2>1. Empty' /\ \A b \in restoring' : crat'[b] = Zero
    BY <1>0, <1>1, <1>2 DEF WInv, Slot, Empty, TypeOK
  <2>2. st # "free"
    BY <1>0
  <2> QED BY <1>0, <1>1, <2>1, <2>2 DEF WInv, Slot
<1> QED BY <1>4, <1>5, <1>6, <1>7, <1>8, <1>9, <1>10, <1>11 DEF WInv
-----------------------------------------------------------------------------
(* Renaming: an entry more at the tail.                                    *)

LEMMA MapNextNext ==
  \A n \in Nat : (MapAt(n+1) = IF rob[At(n)].dst \in Arch
                                 THEN [MapAt(n) EXCEPT ![rob[At(n)].dst] = rob[At(n)].new]
                                 ELSE MapAt(n))'
<1>1. \A n \in Nat : MapAt(n+1) = IF rob[At(n)].dst \in Arch
                                    THEN [MapAt(n) EXCEPT ![rob[At(n)].dst] = rob[At(n)].new]
                                    ELSE MapAt(n)
  BY MapNext
<1>2. (\A n \in Nat : MapAt(n+1) = IF rob[At(n)].dst \in Arch
                                     THEN [MapAt(n) EXCEPT ![rob[At(n)].dst] = rob[At(n)].new]
                                     ELSE MapAt(n))'
  BY <1>1, PTL
<1> QED BY <1>2

\* The entry a rename adds, and the maps after it.
LEMMA RenameStep ==
  ASSUME WInv, NEW kind \in Kind, NEW dst \in Arch \cup {None}, NEW new, NEW ck \in Ckpt \cup {None},
         Rename(kind, dst, new, ck),
         IF dst = None THEN new = Zero ELSE new \in free /\ kind = "op",
         ck # None <=> kind \in {"branch", "ret"},
         ck # None => ~ckpt[ck].live
  PROVE  WInv'
<1> DEFINE i == Tail1
           e == [NoEntry EXCEPT !.st = "live", !.kind = kind, !.dst = dst,
                   !.new = new, !.old = IF dst = None THEN Zero ELSE rat[dst],
                   !.ck = ck, !.wp = due.on,
                   !.rs = IF kind = "exit" THEN "free" ELSE "wait",
                   !.complete = (kind = "exit")]
           m == IF dst = None THEN rat ELSE [rat EXCEPT ![dst] = new]
<1>0. /\ UNCHANGED <<head, crat, due, nameFree, st, restoring, landed, mapSent, faultStop,
                     exitRetired, exitedSent, flight, phase>>
      /\ phase = "rename" /\ st = "active" /\ restoring = {} /\ count < Depth
      /\ rob[i].st = "none" /\ ~exitRetired
      /\ rob' = [rob EXCEPT ![i] = e] /\ count' = count + 1
      /\ rat' = m /\ free' = free \ {new}
      /\ ckpt' = IF ck = None THEN ckpt ELSE [ckpt EXCEPT ![ck] = [live |-> TRUE, map |-> m]]
  BY DEF Rename, Valid, warpVars, flagVars
<1>1. /\ head \in Idx /\ count \in Nat /\ count \in Idx /\ count + 1 \in 0..Depth /\ count \in 0..Depth
      /\ rob \in [Idx -> Entry] /\ rat \in Map /\ crat \in Map
      /\ ckpt \in [Ckpt -> [live : BOOLEAN, map : Map]]
      /\ due \in [on : BOOLEAN, keep : 0..Depth, map : Map]
      /\ free \subseteq Name /\ Zero \notin Name /\ None \notin Arch /\ None \notin Ckpt
      /\ Depth \in Nat
  BY <1>0, WarpAssumption DEF WInv, TypeOK, Idx
<1>2. /\ i \in Idx /\ Age(i) = count /\ At(count) = i
      /\ \A j \in Idx : Age(j) \in Nat /\ (Age(j) = count => j = i)
      /\ \A k \in Idx : At(k) \in Idx /\ Age(At(k)) = k
  <2>1. i = At(count)
    BY DEF Tail1
  <2> QED BY <1>1, <2>1, AgeAt
<1>3. /\ e \in Entry /\ new \in Name \cup {Zero} /\ m \in Map
      /\ e.st = "live" /\ e.kind = kind /\ e.dst = dst /\ e.new = new
      /\ e.old = IF dst = None THEN Zero ELSE rat[dst]
      /\ e.ck = ck /\ e.wp = due.on /\ e.rs = IF kind = "exit" THEN "free" ELSE "wait"
      /\ e.owed = 0 /\ e.stale = 0 /\ e.done = FALSE
      /\ e.complete = (kind = "exit") /\ e.pend = FALSE
  <2>1. new \in Name \cup {Zero} /\ (dst # None => rat[dst] \in Name \cup {Zero})
    BY <1>1 DEF Map
  <2>2. m \in Map
    BY <1>1, <2>1 DEF Map
  <2> DEFINE o == IF dst = None THEN Zero ELSE rat[dst]
             r == IF kind = "exit" THEN "free" ELSE "wait"
             x == (kind = "exit")
  <2>3. /\ due.on \in BOOLEAN /\ 0 \in 0..MaxOwed /\ o \in Name \cup {Zero}
        /\ r \in {"wait", "free"} /\ x \in BOOLEAN
    BY <1>1, <2>1, WarpAssumption
  <2>4. e = [NoEntry EXCEPT !.st = "live", !.kind = kind, !.dst = dst, !.new = new, !.old = o,
               !.ck = ck, !.wp = due.on, !.rs = r, !.complete = x]
    OBVIOUS
  <2> HIDE DEF o, r, x, e
  <2>5. /\ e \in Entry
        /\ e.st = "live" /\ e.kind = kind /\ e.dst = dst /\ e.new = new /\ e.old = o
        /\ e.ck = ck /\ e.wp = due.on /\ e.rs = r /\ e.owed = 0 /\ e.stale = 0
        /\ e.done = FALSE /\ e.complete = x /\ e.pend = FALSE
    BY <2>1, <2>3, <2>4 DEF NoEntry, Entry
  <2> QED BY <2>1, <2>2, <2>5 DEF o, r, x
<1> HIDE DEF e, i
<1>4. \A j \in Idx : rob'[j] = IF j = i THEN e ELSE rob[j]
  BY <1>0, <1>1
<1>5. rob[i] = NoEntry /\ NoEntry.dst = None /\ NoEntry.ck = None /\ flight[i] = << >>
      /\ Len(flight[i]) = 0 /\ ~\E k : k \in 1..Len(flight[i])
  <2>1. Sound(rob[i]) /\ Matched(rob[i], flight[i]) /\ flight[i] \in Seq(Name \cup {Zero})
        /\ Len(flight[i]) \in Nat
    BY <1>2, EachEntry
  <2>2. ~(1 \in 1..Len(flight[i]))
    BY <1>0, <2>1 DEF Matched
  <2>3. rob[i] = NoEntry
    BY <1>0, <2>1 DEF Sound
  <2> QED BY <2>1, <2>2, <2>3 DEF NoEntry
<1>6. /\ \A n \in 0..count : MapAt(n)' = MapAt(n)
      /\ \A j \in Idx : Age(j)' = Age(j)
      /\ \A k \in 0..Depth : At(k)' = At(k)
  <2>1. \A j \in Idx : Age(j) < count => j # i
    BY <1>1, <1>2
  <2> QED BY <1>0, <1>1, <1>4, <2>1, LivesStay
<1>7. ASSUME NEW n \in 0..Depth, n = count + 1 PROVE MapAt(n)' = m
  <2>1. MapAt(count) = rat /\ rob'[i] = e
    BY <1>1, <1>2, <1>4 DEF WInv, Maps
  <2>2. ASSUME NEW k \in Nat, k = count PROVE MapAt(n)' = m
    <3>1. (MapAt(k+1))' = IF rob'[At(k)'].dst \in Arch
                            THEN [(MapAt(k)') EXCEPT ![rob'[At(k)'].dst] = rob'[At(k)'].new]
                            ELSE MapAt(k)'
      BY MapNextNext
    <3>2. n = k + 1 /\ MapAt(k)' = rat /\ At(k)' = i
      BY <1>7, <1>1, <1>2, <1>6, <2>1, <2>2
    <3> QED BY <1>1, <1>3, <2>1, <3>1, <3>2
  <2> QED BY <1>1, <2>2
<1> HIDE DEF m
<1>8. TypeOK'
  <2>1. rob' \in [Idx -> Entry]
    BY <1>0, <1>1, <1>3
  <2>2. ckpt' \in [Ckpt -> [live : BOOLEAN, map : Map]]
    BY <1>0, <1>1, <1>3
  <2> QED BY <1>0, <1>1, <1>3, <2>1, <2>2 DEF WInv, TypeOK
<1>9. Ring'
  <2> SUFFICES ASSUME NEW j \in Idx PROVE rob'[j].st = "live" <=> Age(j) < count + 1
    BY <1>0, <1>6 DEF Ring
  <2>1. rob[j].st = "live" <=> Age(j) < count
    BY DEF WInv, Ring
  <2> QED BY <1>1, <1>2, <1>3, <1>4, <2>1
<1>10. Entries' /\ Unresolved' /\ Dones'
  <2>1. Sound(e) /\ KeepsCkpt(e) /\ Matched(e, flight[i])
    BY <1>1, <1>3, <1>5 DEF Sound, KeepsCkpt, Matched, IsBranch, Kind
  <2> QED BY <1>0, <1>4, <2>1, EachEntry DEF Entries, Unresolved, Dones
<1>11. DueBranch'
  <2>1. due.on => due.keep <= count /\ due.keep \in Nat
    BY <1>1 DEF WInv, DueBranch
  <2>2. due.on /\ due.keep # 0 => IsBranch(rob'[At(due.keep - 1)'])
    <3> SUFFICES ASSUME due.on, due.keep # 0 PROVE IsBranch(rob'[At(due.keep - 1)'])
      OBVIOUS
    <3>1. due.keep - 1 \in Idx /\ due.keep - 1 < count /\ due.keep - 1 \in 0..Depth
      BY <1>1, <2>1 DEF Idx
    <3>2. At(due.keep - 1) \in Idx /\ At(due.keep - 1) # i /\ IsBranch(rob[At(due.keep - 1)])
      BY <1>2, <3>1 DEF WInv, DueBranch
    <3>3. At(due.keep - 1)' = At(due.keep - 1)
      BY <1>0 DEF At
    <3> QED BY <1>4, <3>2, <3>3
  <2>3. ASSUME NEW j \in Idx
        PROVE  rob'[j].wp <=> (due.on /\ Age(j) < count + 1 /\ Age(j) >= due.keep)
    <3>1. rob[j].wp <=> (due.on /\ Age(j) < count /\ Age(j) >= due.keep)
      BY DEF WInv, DueBranch
    <3>2. CASE j = i
      BY <1>1, <1>2, <1>3, <1>4, <2>1, <3>2
    <3>3. CASE j # i
      <4>1. Age(j) # count /\ Age(j) \in Nat
        BY <1>2, <3>3
      <4> QED BY <1>1, <1>4, <3>1, <3>3, <4>1
    <3> QED BY <3>2, <3>3
  <2>4. due.on => due.keep <= count + 1
    BY <1>1, <2>1
  <2> QED BY <1>0, <1>6, <2>2, <2>3, <2>4 DEF WInv, DueBranch
<1>12. Maps'
  <2>1. ASSUME due.on PROVE due.keep \in 0..count /\ due.map = MapAt(due.keep)
    BY <1>1, <2>1 DEF WInv, DueBranch, Maps
  <2> QED BY <1>0, <1>6, <1>7, <2>1 DEF Maps
<1>13. Ckpts'
  <2> SUFFICES ASSUME NEW c \in Ckpt
               PROVE  /\ ckpt'[c].live <=> \E j \in Idx : rob'[j].st = "live" /\ rob'[j].ck = c
                      /\ \A k \in Idx, n \in 0..Depth :
                           n = k + 1 /\ k < count' /\ rob'[At(k)'].ck = c => ckpt'[c].map = MapAt(n)'
                      /\ \A j, k \in Idx : rob'[j].ck = c /\ rob'[k].ck = c => j = k
    BY DEF Ckpts
  <2>5. count' = count + 1 /\ \A k \in Idx : At(k)' = At(k)
    BY <1>0 DEF At
  <2>0. /\ ckpt[c].live <=> \E j \in Idx : rob[j].st = "live" /\ rob[j].ck = c
        /\ \A k \in Idx, n \in 0..Depth :
             n = k + 1 /\ k < count /\ rob[At(k)].ck = c => ckpt[c].map = MapAt(n)
        /\ \A j, k \in Idx : rob[j].ck = c /\ rob[k].ck = c => j = k
        /\ c # None
    BY <1>1 DEF WInv, Ckpts
  <2>1. ASSUME NEW j \in Idx, rob[j].ck = c PROVE rob[j].st = "live" /\ j # i
    <3>1. Sound(rob[j]) /\ rob[j].st \in {"none", "live", "held"}
      BY <1>1, EachEntry DEF Entry
    <3> QED BY <1>5, <2>0, <2>1, <3>1 DEF Sound
  <2>2. \A k \in Idx : k # count => At(k) # i
    BY <1>2
  <2>3. CASE c = ck
    <3>1. ckpt'[c] = [live |-> TRUE, map |-> m] /\ \A j \in Idx : rob[j].ck # c
      BY <1>0, <1>1, <2>0, <2>1, <2>3
    <3>2. \A j \in Idx : rob'[j].ck = c <=> j = i
      BY <1>3, <1>4, <2>3, <3>1
    <3>3. \A k \in Idx : rob'[At(k)].ck = c => k = count
      BY <1>2, <2>2, <3>2
    <3> QED BY <1>2, <1>3, <1>4, <1>7, <2>5, <3>1, <3>2, <3>3
  <2>4. CASE c # ck
    <3>1. ckpt'[c] = ckpt[c] /\ \A j \in Idx : rob'[j].ck = c <=> rob[j].ck = c
      BY <1>0, <1>1, <1>3, <1>4, <1>5, <2>0, <2>4
    <3>2. ckpt[c].live <=> \E j \in Idx : rob'[j].st = "live" /\ rob'[j].ck = c
      BY <1>4, <2>0, <2>1, <3>1
    <3>3. ASSUME NEW k \in Idx, NEW n \in 0..Depth, n = k + 1, k < count + 1, rob'[At(k)].ck = c
          PROVE  ckpt[c].map = MapAt(n)'
      <4>1. rob[At(k)].ck = c /\ At(k) # i
        BY <1>2, <2>1, <3>1, <3>3
      <4>2. k # count /\ k \in Nat
        BY <1>2, <4>1 DEF Idx
      <4>3. k < count /\ n \in 0..count
        BY <1>1, <3>3, <4>2
      <4> QED BY <1>6, <2>0, <3>3, <4>1, <4>3
    <3> QED BY <2>0, <2>5, <3>1, <3>2, <3>3
  <2> QED BY <2>3, <2>4
<1>14. Olds'
  <2> SUFFICES ASSUME NEW k \in Idx, k < count + 1, rob'[At(k)].dst # None
               PROVE  rob'[At(k)].old = (MapAt(k)')[rob'[At(k)].dst]
    BY <1>0, <1>1, <1>6, SMTT(30) DEF Olds, Idx
  <2>1. k \in 0..count
    BY <1>1 DEF Idx
  <2>2. CASE k = count
    <3>1. rat = MapAt(count)
      BY <1>1 DEF WInv, Maps
    <3> QED BY <1>2, <1>3, <1>4, <1>6, <2>1, <2>2, <3>1
  <2>3. CASE k # count
    <3>1. At(k) # i /\ At(k) \in Idx /\ k < count
      BY <1>1, <1>2, <2>1, <2>3
    <3> QED BY <1>4, <1>6, <2>1, <3>1 DEF WInv, Olds
  <2> QED BY <2>2, <2>3
<1>15. Apart' /\ Whole'
  <2>1. Apart
    BY DEF WInv
  <2>2. CASE dst = None
    <3>1. free' = free
      BY <1>0, <1>1, <2>2
    <3>2. \A j \in Idx : rob'[j].dst = rob[j].dst /\ (rob[j].dst # None => rob'[j].new = rob[j].new)
      BY <1>3, <1>4, <1>5, <2>2
    <3> QED BY <1>0, <3>1, <3>2 DEF WInv, Apart, Whole
  <2>3. CASE dst # None
    <3>1. new \in free /\ free' = free \ {new} /\ new \in Name
      BY <1>0, <1>1, <2>3
    <3>2. new \notin nameFree /\ (\A a \in Arch : crat[a] # new)
          /\ \A j \in Idx : rob[j].dst # None => rob[j].new # new
      BY <2>1, <3>1 DEF Apart
    <3>3. \A j \in Idx : IF j = i THEN rob'[j].dst # None /\ rob'[j].new = new ELSE rob'[j] = rob[j]
      BY <1>3, <1>4, <2>3
    <3>4. Apart'
      BY <1>0, <1>2, <2>1, <3>1, <3>2, <3>3 DEF Apart
    <3>5. Whole'
      <4> SUFFICES ASSUME NEW p \in Name
                   PROVE \/ p \in free' \cup nameFree \/ \E a \in Arch : crat[a] = p
                         \/ \E j \in Idx : rob'[j].dst # None /\ rob'[j].new = p
        BY <1>0 DEF Whole
      <4>1. \/ p \in free \cup nameFree \/ \E a \in Arch : crat[a] = p
            \/ \E j \in Idx : rob[j].dst # None /\ rob[j].new = p
        BY DEF WInv, Whole
      <4> QED BY <1>2, <1>5, <3>1, <3>3, <4>1
    <3> QED BY <3>4, <3>5
  <2> QED BY <2>2, <2>3
<1>16. Slot'
  BY <1>0 DEF WInv, Slot
<1> QED BY <1>8, <1>9, <1>10, <1>11, <1>12, <1>13, <1>14, <1>15, <1>16 DEF WInv
-----------------------------------------------------------------------------
(* Retirement.  A register's name is its version: two maps of one path     *)
(* agree on a name only if nothing between them writes the register, so a  *)
(* name that retirement frees is in no map that is still to be read.       *)

LEMMA MapIn == ASSUME WInv PROVE \A n \in 0..Depth : MapAt(n) \in Map
<1> SUFFICES ASSUME NEW n \in 0..Depth PROVE MapAt(n) \in Map
  OBVIOUS
<1>0. n \in Nat /\ crat \in Map /\ rob \in [Idx -> Entry] /\ head \in Idx /\ Depth \in Nat
  BY WarpAssumption DEF WInv, TypeOK
<1>1. ASSUME NEW a \in Arch PROVE MapAt(n)[a] \in Name \cup {Zero}
  <2>1. CASE \A k \in 0..(n-1) : rob[At(k)].dst # a
    BY <1>0, <2>1, MapAtIs DEF MapLaw, Map
  <2>2. CASE \E k : Wrote(n, a, k)
    <3>1. PICK k : Wrote(n, a, k)
      BY <2>2
    <3>2. k \in Idx
      BY <1>0, <3>1 DEF Wrote, Idx
    <3>3. rob[At(k)].new \in Name \cup {Zero}
      BY <1>0, <3>2, AgeAt DEF Entry
    <3> QED BY <1>0, <3>1, <3>3, MapAtIs DEF MapLaw
  <2> QED BY <1>0, <2>1, <2>2, MapAtIs DEF MapLaw
<1>2. MapAt(n) = [a \in Arch |-> MapAt(n)[a]]
  BY <1>0, MapAtIs DEF MapLaw
<1> QED BY <1>1, <1>2 DEF Map

\* A register that no entry between writes keeps its name.
LEMMA NoWriter ==
  ASSUME NEW n \in Nat, NEW m \in Nat, m <= n, NEW a \in Arch,
         \A k \in m..(n-1) : rob[At(k)].dst # a
  PROVE  MapAt(n)[a] = MapAt(m)[a]
<1>0. \A k \in 0..(n-1) : k \in 0..(m-1) \/ k \in m..(n-1)
  OBVIOUS
<1>1. CASE \A k \in 0..(m-1) : rob[At(k)].dst # a
  <2>1. \A k \in 0..(n-1) : rob[At(k)].dst # a
    BY <1>0, <1>1
  <2> QED BY <1>1, <2>1, MapAtIs DEF MapLaw
<1>2. CASE \E k : Wrote(m, a, k)
  <2>1. PICK k : Wrote(m, a, k)
    BY <1>2
  <2>2. Wrote(n, a, k)
    BY <1>0, <2>1 DEF Wrote
  <2> QED BY <2>1, <2>2, MapAtIs DEF MapLaw
<1> QED BY <1>1, <1>2, MapAtIs DEF MapLaw

LEMMA Versions ==
  ASSUME WInv
  PROVE  \A m, n \in 0..Depth, a, b \in Arch :
           /\ MapAt(n)[a] \notin free \cup nameFree
           /\ \A i \in Idx : rob[i].dst # None /\ rob[i].new = MapAt(n)[a] => Age(i) < n
           /\ MapAt(n)[a] # Zero /\ MapAt(n)[a] = MapAt(m)[b] =>
                a = b /\ \A k \in m..(n-1) : rob[At(k)].dst # a
<1> SUFFICES ASSUME NEW m \in 0..Depth, NEW n \in 0..Depth, NEW a \in Arch, NEW b \in Arch
             PROVE  /\ MapAt(n)[a] \notin free \cup nameFree
                    /\ \A i \in Idx : rob[i].dst # None /\ rob[i].new = MapAt(n)[a] => Age(i) < n
                    /\ MapAt(n)[a] # Zero /\ MapAt(n)[a] = MapAt(m)[b] =>
                         a = b /\ \A k \in m..(n-1) : rob[At(k)].dst # a
  OBVIOUS
<1>0. /\ m \in Nat /\ n \in Nat /\ n <= Depth /\ m <= Depth /\ head \in Idx /\ None \notin Arch
      /\ Depth \in Nat
  BY WarpAssumption DEF WInv, TypeOK
<1>1. \A c \in Arch, k, x \in Nat : x <= Depth /\ Wrote(x, c, k) =>
        /\ At(k) \in Idx /\ Age(At(k)) = k /\ k < x /\ k \in Nat
        /\ rob[At(k)].dst = c /\ rob[At(k)].dst # None
  <2> SUFFICES ASSUME NEW c \in Arch, NEW k \in Nat, NEW x \in Nat, x <= Depth, Wrote(x, c, k)
               PROVE  /\ At(k) \in Idx /\ Age(At(k)) = k /\ k < x /\ k \in Nat
                      /\ rob[At(k)].dst = c /\ rob[At(k)].dst # None
    OBVIOUS
  <2>1. k \in Idx /\ k < x /\ rob[At(k)].dst = c
    BY <1>0 DEF Wrote, Idx
  <2> QED BY <1>0, <2>1, AgeAt
<1>2. \/ MapAt(n)[a] = crat[a] /\ \A k \in 0..(n-1) : rob[At(k)].dst # a
      \/ \E k \in Nat : Wrote(n, a, k) /\ MapAt(n)[a] = rob[At(k)].new
  BY <1>0, MapAtIs, SMTT(30) DEF MapLaw, Wrote
<1>3. \/ MapAt(m)[b] = crat[b] /\ \A k \in 0..(m-1) : rob[At(k)].dst # b
      \/ \E k \in Nat : Wrote(m, b, k) /\ MapAt(m)[b] = rob[At(k)].new
  BY <1>0, MapAtIs, SMTT(30) DEF MapLaw, Wrote
<1>4. /\ \A c \in Arch : crat[c] \notin free \cup nameFree
      /\ \A c, d \in Arch : crat[c] = crat[d] /\ crat[c] # Zero => c = d
      /\ \A i \in Idx : rob[i].dst # None =>
           /\ rob[i].new \notin free \cup nameFree
           /\ \A c \in Arch : crat[c] # rob[i].new
           /\ \A j \in Idx : rob[j].dst # None /\ rob[j].new = rob[i].new => j = i
  BY DEF WInv, Apart
<1>5. MapAt(n)[a] \notin free \cup nameFree
  BY <1>0, <1>1, <1>2, <1>4
<1>6. \A i \in Idx : rob[i].dst # None /\ rob[i].new = MapAt(n)[a] => Age(i) < n
  BY <1>0, <1>1, <1>2, <1>4
<1>7. ASSUME MapAt(n)[a] # Zero, MapAt(n)[a] = MapAt(m)[b]
      PROVE  a = b /\ \A k \in m..(n-1) : rob[At(k)].dst # a
  <2>0. \A k \in m..(n-1) : k \in 0..(n-1) /\ k >= m
    BY <1>0
  <2>1. CASE MapAt(n)[a] = crat[a] /\ \A k \in 0..(n-1) : rob[At(k)].dst # a
    <3>1. MapAt(m)[b] = crat[b]
      BY <1>0, <1>1, <1>3, <1>4, <1>7, <2>1
    <3> QED BY <1>4, <1>7, <2>0, <2>1, <3>1
  <2>2. CASE \E k \in Nat : Wrote(n, a, k) /\ MapAt(n)[a] = rob[At(k)].new
    <3>1. PICK k \in Nat : Wrote(n, a, k) /\ MapAt(n)[a] = rob[At(k)].new
      BY <2>2
    <3>2. PICK j \in Nat : Wrote(m, b, j) /\ MapAt(m)[b] = rob[At(j)].new
      BY <1>0, <1>1, <1>3, <1>4, <1>7, <3>1
    <3>3. At(k) = At(j) /\ k = j /\ a = b
      <4>1. /\ At(k) \in Idx /\ Age(At(k)) = k /\ rob[At(k)].dst = a /\ rob[At(k)].dst # None
            /\ At(j) \in Idx /\ Age(At(j)) = j /\ rob[At(j)].dst = b /\ rob[At(j)].dst # None
        BY <1>0, <1>1, <3>1, <3>2
      <4>2. rob[At(k)].new = rob[At(j)].new
        BY <1>7, <3>1, <3>2
      <4>3. At(k) = At(j)
        BY <1>4, <4>1, <4>2
      <4> QED BY <4>1, <4>3
    <3>4. k < m
      BY <1>0, <1>1, <3>2, <3>3
    <3>5. ASSUME NEW x \in m..(n-1) PROVE rob[At(x)].dst # a
      <4>1. x \in 0..(n-1) /\ ~(x <= k)
        BY <1>0, <2>0, <3>4
      <4> QED BY <3>1, <4>1 DEF Wrote
    <3> QED BY <3>3, <3>5
  <2> QED BY <1>2, <2>1, <2>2
<1> QED BY <1>5, <1>6, <1>7

\* A version survives n retirements in the committed map, or one of the n
\* entries frees it.
LEMMA Outlives ==
  ASSUME WInv, NEW n \in 0..count, NEW m \in 0..n, NEW a \in Arch, MapAt(n)[a] # MapAt(m)[a]
  PROVE  \E k \in m..(n-1) : rob[At(k)].dst = a /\ rob[At(k)].old = MapAt(m)[a]
<1>0. n \in Nat /\ m \in Nat /\ m <= n /\ count \in 0..Depth /\ n <= count /\ Depth \in Nat
      /\ None \notin Arch
  BY WarpAssumption DEF WInv, TypeOK
<1> DEFINE W == {k \in m..(n-1) : rob[At(k)].dst = a}
<1>1. W # {} /\ W \subseteq Nat
  BY <1>0, NoWriter
<1>2. PICK k \in W : \A j \in W : k <= j
  BY <1>1, Least
<1>3. k \in m..(n-1) /\ k \in Nat /\ m <= k /\ k < count /\ k \in Idx
      /\ rob[At(k)].dst = a
  BY <1>0, <1>2 DEF Idx
<1>4. \A j \in m..(k-1) : rob[At(j)].dst # a
  BY <1>0, <1>2, <1>3
<1>5. MapAt(k)[a] = MapAt(m)[a]
  BY <1>0, <1>3, <1>4, NoWriter
<1>6. rob[At(k)].old = MapAt(k)[a]
  BY <1>0, <1>3 DEF WInv, Olds
<1> QED BY <1>3, <1>5, <1>6

\* What a cycle retires: complete entries of the right path, at most the
\* last of them a branch, none behind a branch whose squash is due.
LEMMA Window ==
  ASSUME WInv, phase = "retire", NEW n \in Nat, \A k \in 0..(n-1) : Retirable(k)
  PROVE  /\ n <= count
         /\ due.on => n <= due.keep
         /\ \A i \in Idx : Age(i) < n =>
              /\ rob[i].st = "live" /\ rob[i].complete /\ ~rob[i].pend
              /\ rob[i].owed = 0 /\ rob[i].ck = None /\ ~rob[i].wp
<1>0. /\ head \in Idx /\ count \in 0..Depth /\ Depth \in Nat /\ rob \in [Idx -> Entry]
      /\ due \in [on : BOOLEAN, keep : 0..Depth, map : Map]
  BY WarpAssumption DEF WInv, TypeOK
<1>1. n <= count
  <2>1. CASE n = 0
    BY <1>0, <2>1
  <2>2. CASE n # 0
    <3>1. n - 1 \in 0..(n-1)
      BY <2>2
    <3>2. n - 1 < count
      BY <3>1 DEF Retirable
    <3> QED BY <1>0, <3>2
  <2> QED BY <2>1, <2>2
<1>2. ASSUME due.on PROVE n <= due.keep
  <2>1. due.keep \in Nat /\ due.keep # 0 /\ IsBranch(rob[At(due.keep - 1)])
    BY <1>0, <1>2 DEF WInv, DueBranch
  <2>2. CASE n > due.keep
    <3>1. due.keep \in 0..(n-1) /\ due.keep - 1 \in 0..(due.keep - 1)
      BY <2>1, <2>2
    <3>2. ~IsBranch(rob[At(due.keep - 1)])
      BY <3>1 DEF Retirable
    <3> QED BY <2>1, <3>2
  <2> QED BY <2>1, <2>2
<1>3. ASSUME NEW i \in Idx, Age(i) < n
      PROVE  /\ rob[i].st = "live" /\ rob[i].complete /\ ~rob[i].pend
             /\ rob[i].owed = 0 /\ rob[i].ck = None /\ ~rob[i].wp
  <2>1. Age(i) \in 0..(n-1) /\ Age(i) \in Nat /\ At(Age(i)) = i /\ Age(i) < count
    <3>1. Age(i) \in Idx /\ At(Age(i)) = i
      BY <1>0, AgeAt
    <3>2. Age(i) \in Nat
      BY <3>1, WarpAssumption DEF Idx
    <3>3. \A x \in Nat : x < n => x \in 0..(n-1) /\ x < count
      BY <1>0, <1>1
    <3> QED BY <1>3, <3>1, <3>2, <3>3
  <2>2. rob[i].complete /\ ~rob[i].pend
    BY <2>1 DEF Retirable
  <2>3. rob[i].st = "live"
    BY <2>1 DEF WInv, Ring
  <2>4. ~rob[i].wp
    <3>1. due.on => ~(Age(i) >= due.keep)
      BY <1>0, <1>2, <1>3, <2>1
    <3> QED BY <3>1 DEF WInv, DueBranch
  <2>5. rob[i].ck = None
    BY <2>2, <2>3, <2>4, EachEntry DEF Sound, KeepsCkpt
  <2>6. rob[i].owed = 0
    BY <2>2, EachEntry DEF Sound
  <2> QED BY <2>2, <2>3, <2>4, <2>5, <2>6
<1> QED BY <1>1, <1>2, <1>3

LEMMA RetireNIs == RetireN \in 0..RetireMax /\ \A k \in 0..(RetireN - 1) : Retirable(k)
<1> DEFINE S == {n \in 0..RetireMax : n = RetireMax \/ ~Retirable(n)}
           P(n) == /\ \A k \in 0..(n-1) : Retirable(k)
                   /\ n = RetireMax \/ ~Retirable(n)
<1>0. RetireMax \in Nat
  BY WarpAssumption
<1>1. S # {} /\ S \subseteq Nat
  BY <1>0
<1>2. PICK n \in S : \A j \in S : n <= j
  BY <1>1, Least
<1>3. n \in 0..RetireMax /\ (n = RetireMax \/ ~Retirable(n))
  OBVIOUS
<1>4. ASSUME NEW k \in 0..(n-1) PROVE Retirable(k)
  <2>1. k \in 0..RetireMax /\ ~(n <= k)
    BY <1>0, <1>3
  <2> QED BY <1>2, <2>1
<1>5. \E x \in 0..RetireMax : P(x)
  BY <1>3, <1>4
<1>6. RetireN = CHOOSE x \in 0..RetireMax : P(x)
  BY DEF RetireN
<1>7. RetireN \in 0..RetireMax /\ P(RetireN)
  <2> HIDE DEF P, S
  <2> QED BY <1>5, <1>6
<1> QED BY <1>7

\* n entries leave the head: their names become the committed map's, and
\* the names they supersede go to the pool.
LEMMA RetireHeadStep ==
  ASSUME WInv, phase = "retire", phase' = "select", st = "active",
         NEW n \in Nat, \A k \in 0..(n-1) : Retirable(k), RetireHead(n),
         UNCHANGED <<rat, ckpt, nameFree, st, restoring, landed, mapSent, exitedSent, flight>>,
         faultStop' \in BOOLEAN
  PROVE  WInv' /\ \A i \in Idx : rob[i].wp => rob'[i] = rob[i]
<1> DEFINE olds == {rob[At(k)].old : k \in 0..(n-1)} \ {Zero}
<1>0. /\ rob' = [i \in Idx |-> IF Age(i) < n THEN NoEntry ELSE rob[i]]
      /\ head' = At(n) /\ count' = count - n /\ crat' = MapAt(n)
      /\ free' = free \cup olds
      /\ due' = IF due.on THEN [due EXCEPT !.keep = @ - n] ELSE due
      /\ exitRetired' \in BOOLEAN /\ (exitRetired => exitRetired')
  <2>1. {e.old : e \in {rob[At(k)] : k \in 0..(n-1)}} = {rob[At(k)].old : k \in 0..(n-1)}
    OBVIOUS
  <2>2. free' = free \cup ({e.old : e \in {rob[At(k)] : k \in 0..(n-1)}} \ {Zero})
    BY DEF RetireHead
  <2>3. exitRetired' = (exitRetired \/ \E e \in {rob[At(k)] : k \in 0..(n-1)} : e.kind = "exit")
    BY DEF RetireHead
  <2>4. exitRetired' \in BOOLEAN /\ (exitRetired => exitRetired')
    BY <2>3, Zenon
  <2> QED BY <2>1, <2>2, <2>4 DEF RetireHead
<1>1. /\ head \in Idx /\ count \in 0..Depth /\ Depth \in Nat /\ Depth # 0
      /\ rob \in [Idx -> Entry] /\ crat \in Map
      /\ due \in [on : BOOLEAN, keep : 0..Depth, map : Map]
      /\ Zero \notin Name /\ None \notin Arch /\ None \notin Ckpt
  BY WarpAssumption DEF WInv, TypeOK
<1>2. /\ n <= count /\ n \in 0..Depth /\ n \in 0..count
      /\ due.on => n <= due.keep
      /\ \A i \in Idx : Age(i) < n =>
           /\ rob[i].st = "live" /\ rob[i].complete /\ ~rob[i].pend
           /\ rob[i].owed = 0 /\ rob[i].ck = None /\ ~rob[i].wp
  BY <1>1, Window
<1>3. /\ head' \in Idx
      /\ \A i \in Idx : Age(i)' = IF Age(i) >= n THEN Age(i) - n ELSE Age(i) - n + Depth
      /\ \A k \in Idx : k + n < Depth => At(k)' = At(k+n)
  BY <1>0, <1>1, <1>2, HeadMoves
<1>4. /\ \A i \in Idx : Age(i) \in Idx /\ Age(i) \in Nat /\ Age(i) < Depth /\ At(Age(i)) = i
      /\ \A k \in Idx : At(k) \in Idx /\ Age(At(k)) = k
      /\ \A k : k \in Idx <=> k \in Nat /\ k < Depth
  <2>1. \A k : k \in Idx <=> k \in Nat /\ k < Depth
    BY <1>1 DEF Idx
  <2>2. /\ \A i \in Idx : Age(i) \in Idx /\ At(Age(i)) = i
        /\ \A k \in Idx : At(k) \in Idx /\ Age(At(k)) = k
    BY <1>1, AgeAt
  <2> QED BY <2>1, <2>2
<1>5. /\ NoEntry \in Entry /\ Sound(NoEntry) /\ NoEntry.st = "none" /\ NoEntry.ck = None
      /\ NoEntry.wp = FALSE /\ NoEntry.dst = None
  <2>1. NoEntry \in Entry
    BY WarpAssumption DEF NoEntry, Entry, Kind
  <2> QED BY <2>1 DEF NoEntry, Sound, IsBranch
<1>6. \A i \in Idx : rob'[i] = IF Age(i) < n THEN NoEntry ELSE rob[i]
  BY <1>0
<1>7. ASSUME NEW k \in Nat, k + n < Depth
      PROVE  /\ k \in Idx /\ k + n \in Idx /\ At(k)' = At(k+n) /\ At(k+n) \in Idx
             /\ rob'[At(k)'] = rob[At(k+n)]
  <2>1. k \in Idx /\ k + n \in Idx
    BY <1>1, <1>4, <1>7
  <2>2. At(k)' = At(k+n) /\ At(k+n) \in Idx /\ ~(Age(At(k+n)) < n)
    BY <1>3, <1>4, <1>7, <2>1
  <2> QED BY <1>6, <2>1, <2>2
<1>8. ASSUME NEW m \in Nat, n + m <= Depth PROVE MapAt(m)' = MapAt(n+m)
  <2>1. ASSUME NEW k \in n..(n+m-1) PROVE rob'[At(k)] = rob[At(k)]
    <3>1. k \in Idx /\ ~(k < n)
      BY <1>1, <1>4, <1>8
    <3> QED BY <1>4, <1>6, <3>1
  <2> QED BY <1>0, <1>1, <1>2, <1>8, <2>1, MapMoves
<1>9. olds \subseteq Name /\ olds \cap (free \cup nameFree) = {}
  <2>1. ASSUME NEW k \in 0..(n-1), rob[At(k)].old # Zero
        PROVE  /\ rob[At(k)].dst \in Arch /\ rob[At(k)].old = MapAt(k)[rob[At(k)].dst]
               /\ k \in 0..Depth /\ k < count
    <3>1. k \in Idx /\ k < count /\ k \in 0..Depth
      BY <1>1, <1>2, <1>4
    <3>2. At(k) \in Idx /\ rob[At(k)] \in Entry /\ Sound(rob[At(k)])
      BY <1>4, <3>1, EachEntry
    <3>3. rob[At(k)].dst # None /\ rob[At(k)].dst \in Arch
      BY <2>1, <3>2 DEF Sound, Entry
    <3> QED BY <3>1, <3>3 DEF WInv, Olds
  <2>2. ASSUME NEW k \in 0..(n-1), rob[At(k)].old # Zero
        PROVE  rob[At(k)].old \in Name /\ rob[At(k)].old \notin free \cup nameFree
    <3>1. MapAt(k) \in Map
      BY <2>1, <2>2, MapIn
    <3>2. rob[At(k)].old \notin free \cup nameFree
      BY <2>1, <2>2, Versions
    <3> QED BY <2>1, <2>2, <3>1, <3>2 DEF Map
  <2> QED BY <2>2
<1> HIDE DEF olds
<1>10. TypeOK'
  <2>1. rob' \in [Idx -> Entry]
    BY <1>0, <1>1, <1>5
  <2>2. due' \in [on : BOOLEAN, keep : 0..Depth, map : Map]
    <3>1. due.on => due.keep - n \in 0..Depth
      BY <1>1, <1>2
    <3> QED BY <1>0, <1>1, <3>1
  <2>3. crat' \in Map
    BY <1>0, <1>2, MapIn
  <2>4. count' \in 0..Depth
    BY <1>0, <1>1, <1>2
  <2> QED BY <1>0, <1>3, <1>9, <2>1, <2>2, <2>3, <2>4 DEF WInv, TypeOK, Phase
<1>11. Ring'
  <2> SUFFICES ASSUME NEW i \in Idx PROVE rob'[i].st = "live" <=> Age(i)' < count'
    BY DEF Ring
  <2>1. rob[i].st = "live" <=> Age(i) < count
    BY DEF WInv, Ring
  <2> QED BY <1>0, <1>1, <1>2, <1>3, <1>4, <1>5, <1>6, <2>1
<1>12. Entries' /\ Unresolved' /\ Dones'
  <2> SUFFICES ASSUME NEW i \in Idx
               PROVE Sound(rob'[i]) /\ KeepsCkpt(rob'[i]) /\ Matched(rob'[i], flight[i])
    BY DEF Entries, Unresolved, Dones
  <2>1. CASE Age(i) < n
    <3>1. Len(flight[i]) = 0
      BY <1>2, <2>1, EachEntry DEF Matched
    <3>2. Matched(NoEntry, flight[i])
      BY <1>5, <3>1 DEF Matched
    <3> QED BY <1>5, <1>6, <2>1, <3>2 DEF KeepsCkpt
  <2>2. CASE ~(Age(i) < n)
    BY <1>6, <2>2, EachEntry
  <2> QED BY <2>1, <2>2
<1>13. \A i \in Idx : rob[i].wp => rob'[i] = rob[i]
  BY <1>2, <1>6
<1>14. DueBranch'
  <2>1. due'.on = due.on /\ (due.on => due'.keep = due.keep - n) /\ due.keep \in Nat
    BY <1>0, <1>1
  <2>2. due.on => due.keep <= count
    BY DEF WInv, DueBranch
  <2>3. ASSUME due.on, due'.keep # 0 PROVE IsBranch(rob'[At(due.keep - 1)'])
    <3>1. due.keep - n - 1 \in Nat /\ (due.keep - n - 1) + n = due.keep - 1 /\ due.keep - 1 < Depth
          /\ due.keep # 0 /\ due'.keep - 1 = due.keep - n - 1
      BY <1>1, <1>2, <2>1, <2>2, <2>3
    <3>2. IsBranch(rob[At(due.keep - 1)])
      BY <2>3, <3>1 DEF WInv, DueBranch
    <3>3. ASSUME NEW k \in Nat, k = due.keep - n - 1 PROVE rob'[At(k)'] = rob[At(due.keep - 1)]
      BY <1>7, <3>1, <3>3
    <3>4. At(due.keep - 1)' = (head' + (due.keep - n - 1)) % Depth
      BY <3>1 DEF At
    <3>5. \A k \in Nat : k = due.keep - n - 1 => At(k)' = (head' + (due.keep - n - 1)) % Depth
      BY DEF At
    <3> QED BY <3>1, <3>2, <3>3, <3>4, <3>5
  <2>4. ASSUME NEW i \in Idx
        PROVE  rob'[i].wp <=> (due.on /\ Age(i)' < count' /\ Age(i)' >= due.keep - n)
    <3>1. rob[i].wp <=> (due.on /\ Age(i) < count /\ Age(i) >= due.keep)
      BY DEF WInv, DueBranch
    <3> QED BY <1>0, <1>1, <1>2, <1>3, <1>4, <1>5, <1>6, <2>1, <2>2, <3>1
  <2>5. due.on => due'.keep <= count'
    BY <1>0, <1>1, <1>2, <2>1, <2>2
  <2> QED BY <2>1, <2>3, <2>4, <2>5 DEF DueBranch
<1>15. Maps'
  <2> SUFFICES ASSUME NEW m \in 0..Depth
               PROVE  /\ m = count' => rat' = MapAt(m)'
                      /\ due'.on /\ m = due'.keep => due'.map = MapAt(m)'
    BY DEF Maps
  <2>1. ASSUME m = count' PROVE rat' = MapAt(m)'
    <3>1. n + m = count /\ n + m <= Depth /\ n + m \in 0..Depth
      BY <1>0, <1>1, <1>2, <2>1
    <3> QED BY <1>8, <3>1 DEF WInv, Maps
  <2>2. ASSUME due'.on, m = due'.keep PROVE due'.map = MapAt(m)'
    <3>1. due.on /\ due'.map = due.map /\ n + m = due.keep /\ n + m <= Depth /\ n + m \in 0..Depth
      BY <1>0, <1>1, <1>2, <2>2
    <3> QED BY <1>8, <3>1 DEF WInv, Maps
  <2> QED BY <2>1, <2>2
<1>16. Ckpts'
  <2> SUFFICES ASSUME NEW c \in Ckpt
               PROVE  /\ ckpt[c].live <=> \E i \in Idx : rob'[i].st = "live" /\ rob'[i].ck = c
                      /\ \A k \in Idx, m \in 0..Depth :
                           m = k + 1 /\ k < count' /\ rob'[At(k)'].ck = c => ckpt[c].map = MapAt(m)'
                      /\ \A i, j \in Idx : rob'[i].ck = c /\ rob'[j].ck = c => i = j
    BY DEF Ckpts
  <2>0. /\ ckpt[c].live <=> \E i \in Idx : rob[i].st = "live" /\ rob[i].ck = c
        /\ \A k \in Idx, m \in 0..Depth :
             m = k + 1 /\ k < count /\ rob[At(k)].ck = c => ckpt[c].map = MapAt(m)
        /\ \A i, j \in Idx : rob[i].ck = c /\ rob[j].ck = c => i = j
        /\ c # None
    BY <1>1 DEF WInv, Ckpts
  <2>1. \A i \in Idx : /\ rob'[i].ck = c <=> rob[i].ck = c
                       /\ rob[i].ck = c => rob'[i] = rob[i]
    BY <1>2, <1>5, <1>6, <2>0
  <2>2. ASSUME NEW k \in Idx, NEW m \in 0..Depth, m = k + 1, k < count', rob'[At(k)'].ck = c
        PROVE  ckpt[c].map = MapAt(m)'
    <3>1. k \in Nat /\ k + n < Depth /\ k + n < count /\ n + m <= Depth /\ n + m = (k + n) + 1
          /\ n + m \in 0..Depth
      BY <1>0, <1>1, <1>2, <1>4, <2>2, SMTT(30)
    <3>2. rob[At(k+n)].ck = c /\ k + n \in Idx
      BY <1>7, <2>2, <3>1
    <3> QED BY <1>8, <2>0, <3>1, <3>2
  <2> QED BY <2>0, <2>1, <2>2
<1>17. Olds'
  <2> SUFFICES ASSUME NEW k \in Idx, k < count', rob'[At(k)'].dst # None
               PROVE  rob'[At(k)'].old = (MapAt(k)')[rob'[At(k)'].dst]
    BY DEF Olds
  <2>1. k \in Nat /\ k + n < Depth /\ k + n < count /\ n + k <= Depth /\ n + k = k + n
    BY <1>0, <1>1, <1>2, <1>4
  <2>2. rob'[At(k)'] = rob[At(k+n)] /\ k + n \in Idx /\ MapAt(k)' = MapAt(k+n)
    BY <1>7, <1>8, <2>1
  <2> QED BY <2>1, <2>2 DEF WInv, Olds
<1>18. Slot'
  <2>1. Empty => Empty'
    BY <1>5, <1>6 DEF Empty
  <2> QED BY <1>0, <2>1 DEF WInv, Slot
<1>19. \A k \in 0..(n-1) : /\ k \in Idx /\ k \in 0..Depth /\ k < count /\ At(k) \in Idx
                           /\ rob[At(k)].old \notin {Zero} => rob[At(k)].old \in olds
  BY <1>1, <1>2, <1>4 DEF olds
<1>20. Apart'
  <2>1. ASSUME NEW p \in olds
        PROVE  \E k \in 0..(n-1) : /\ rob[At(k)].dst \in Arch /\ p # Zero
                                   /\ p = MapAt(k)[rob[At(k)].dst]
    <3>1. PICK k \in 0..(n-1) : p = rob[At(k)].old /\ p # Zero
      BY DEF olds
    <3>2. Sound(rob[At(k)]) /\ rob[At(k)] \in Entry
      BY <1>19, EachEntry
    <3>3. rob[At(k)].dst # None /\ rob[At(k)].dst \in Arch
      BY <3>1, <3>2 DEF Sound, Entry
    <3> QED BY <1>19, <3>1, <3>3 DEF WInv, Olds
  <2>2. ASSUME NEW a \in Arch PROVE MapAt(n)[a] \notin free' \cup nameFree'
    <3>1. MapAt(n)[a] \notin free \cup nameFree
      BY <1>2, Versions
    <3>2. ASSUME MapAt(n)[a] \in olds PROVE FALSE
      <4>1. PICK k \in 0..(n-1) : /\ rob[At(k)].dst \in Arch /\ MapAt(n)[a] # Zero
                                 /\ MapAt(n)[a] = MapAt(k)[rob[At(k)].dst]
        BY <2>1, <3>2
      <4>2. a = rob[At(k)].dst /\ \A j \in k..(n-1) : rob[At(j)].dst # a
        BY <1>2, <1>19, <4>1, Versions
      <4>3. k \in k..(n-1)
        OBVIOUS
      <4> QED BY <4>2, <4>3
    <3> QED BY <1>0, <3>1, <3>2
  <2>3. ASSUME NEW a \in Arch, NEW b \in Arch, MapAt(n)[a] = MapAt(n)[b], MapAt(n)[a] # Zero
        PROVE  a = b
    BY <1>2, <2>3, Versions
  <2>4. ASSUME NEW i \in Idx, rob'[i].dst # None
        PROVE  /\ rob'[i] = rob[i]
               /\ rob[i].new \notin free' \cup nameFree'
               /\ \A a \in Arch : MapAt(n)[a] # rob[i].new
               /\ \A j \in Idx : rob'[j].dst # None /\ rob'[j].new = rob[i].new => j = i
    <3>1. rob'[i] = rob[i] /\ ~(Age(i) < n) /\ rob[i].dst # None /\ Age(i) \in Nat
      BY <1>4, <1>5, <1>6, <2>4
    <3>2. \A a \in Arch : MapAt(n)[a] # rob[i].new
      BY <1>2, <3>1, Versions
    <3>3. rob[i].new \notin olds
      <4>1. ASSUME NEW k \in 0..(n-1), NEW a \in Arch PROVE MapAt(k)[a] # rob[i].new
        <5>1. ~(Age(i) < k)
          BY <1>2, <3>1
        <5> QED BY <1>19, <3>1, <5>1, Versions
      <4> QED BY <2>1, <4>1
    <3>4. rob[i].new \notin free \cup nameFree
      BY <3>1 DEF WInv, Apart
    <3>5. \A j \in Idx : rob'[j].dst # None /\ rob'[j].new = rob[i].new => j = i
      BY <1>5, <1>6, <3>1 DEF WInv, Apart
    <3> QED BY <1>0, <3>1, <3>2, <3>3, <3>4, <3>5
  <2>5. free' \cap nameFree' = {}
    BY <1>0, <1>9 DEF WInv, Apart
  <2> QED BY <1>0, <2>2, <2>3, <2>4, <2>5 DEF Apart
<1>21. Whole'
  <2> SUFFICES ASSUME NEW p \in Name
               PROVE  \/ p \in free' \cup nameFree' \/ \E a \in Arch : MapAt(n)[a] = p
                      \/ \E i \in Idx : rob'[i].dst # None /\ rob'[i].new = p
    BY <1>0 DEF Whole
  <2>1. ASSUME NEW m \in 0..n, NEW a \in Arch, MapAt(m)[a] = p
        PROVE  p \in free' \/ MapAt(n)[a] = p
    <3>1. CASE MapAt(n)[a] = MapAt(m)[a]
      BY <2>1, <3>1
    <3>2. CASE MapAt(n)[a] # MapAt(m)[a]
      <4>1. PICK k \in m..(n-1) : rob[At(k)].dst = a /\ rob[At(k)].old = MapAt(m)[a]
        BY <1>2, <3>2, Outlives
      <4>2. k \in 0..(n-1) /\ p # Zero
        BY <1>1
      <4> QED BY <1>0, <1>19, <2>1, <4>1, <4>2
    <3> QED BY <3>1, <3>2
  <2>2. CASE p \in free \cup nameFree
    BY <1>0, <2>2
  <2>3. CASE \E a \in Arch : crat[a] = p
    <3>1. MapAt(0) = crat /\ 0 \in 0..n
      BY <1>1, MapZero
    <3> QED BY <2>1, <2>3, <3>1
  <2>4. CASE \E i \in Idx : rob[i].dst # None /\ rob[i].new = p
    <3>1. PICK i \in Idx : rob[i].dst # None /\ rob[i].new = p
      BY <2>4
    <3>2. CASE Age(i) < n
      <4>1. ASSUME NEW k \in Nat, k = Age(i) PROVE MapAt(k+1)[rob[i].dst] = p
        <5>1. At(k) = i /\ rob[i].dst \in Arch
          BY <1>1, <1>4, <3>1, <4>1 DEF Entry
        <5>2. MapAt(k+1) = [MapAt(k) EXCEPT ![rob[i].dst] = rob[i].new]
          BY <5>1, MapNext
        <5>3. MapAt(k) = [a \in Arch |-> MapAt(k)[a]]
          BY MapAtIs DEF MapLaw
        <5> QED BY <3>1, <5>1, <5>2, <5>3
      <4>2. Age(i) \in Nat /\ Age(i) + 1 \in 0..n /\ rob[i].dst \in Arch
        BY <1>1, <1>4, <3>1, <3>2 DEF Entry
      <4>3. MapAt(Age(i) + 1)[rob[i].dst] = p
        BY <4>1, <4>2
      <4> QED BY <2>1, <4>2, <4>3
    <3>3. CASE ~(Age(i) < n)
      BY <1>6, <3>1, <3>3
    <3> QED BY <3>2, <3>3
  <2>5. \/ p \in free \cup nameFree \/ \E a \in Arch : crat[a] = p
        \/ \E i \in Idx : rob[i].dst # None /\ rob[i].new = p
    BY DEF WInv, Whole
  <2> QED BY <2>2, <2>3, <2>4, <2>5
<1> QED BY <1>10, <1>11, <1>12, <1>13, <1>14, <1>15, <1>16, <1>17, <1>18, <1>20, <1>21 DEF WInv

LEMMA RetireStep ==
  ASSUME WInv, Retire
  PROVE  WInv' /\ \A i \in Idx : rob[i].wp => rob'[i] = rob[i]
<1>0. /\ phase = "retire" /\ phase' = "select" /\ phase' \in Phase
      /\ UNCHANGED <<rat, ckpt, nameFree, st, restoring, landed, mapSent, exitedSent, flight>>
  BY DEF Retire, Phase
<1>1. /\ RetireMax \in Nat /\ RetireN \in 0..RetireMax
      /\ \A k \in 0..(RetireN - 1) : Retirable(k)
  BY RetireNIs, WarpAssumption
<1>2. CASE st = "active" /\ ~faultStop
  <2>1. CASE RetireHead(RetireN) /\ UNCHANGED faultStop
    <3>1. RetireN \in Nat /\ faultStop' \in BOOLEAN
      BY <1>1, <2>1 DEF WInv, TypeOK
    <3> QED BY <1>0, <1>1, <1>2, <2>1, <3>1, RetireHeadStep
  <2>2. ASSUME NEW n \in 0..(RetireN - 1), RetireHead(n), faultStop' = TRUE
        PROVE  WInv' /\ \A i \in Idx : rob[i].wp => rob'[i] = rob[i]
    <3>1. n \in Nat /\ \A k \in 0..(n-1) : k \in 0..(RetireN - 1)
      BY <1>1
    <3> QED BY <1>0, <1>1, <1>2, <2>2, <3>1, RetireHeadStep
  <2> QED BY <1>2, <2>1, <2>2 DEF Retire
<1>3. CASE ~(st = "active" /\ ~faultStop)
  <2>1. UNCHANGED <<robVars, crat, free, due, faultStop, exitRetired>>
    BY <1>3 DEF Retire
  <2>2. /\ UNCHANGED <<robVars, mapVars, poolVars, flight>> /\ rob' = rob
        /\ UNCHANGED <<rob, count, crat, due, st, restoring, landed, mapSent, faultStop,
                       exitRetired, exitedSent>>
    BY <1>0, <2>1 DEF robVars, mapVars, poolVars
  <2>3. Slot'
    BY <2>2 DEF WInv, Slot, Empty
  <2> QED BY <1>0, <2>2, <2>3, SlotStep DEF WInv, TypeOK
<1> QED BY <1>2, <1>3
-----------------------------------------------------------------------------
LEMMA WInvInit == ASSUME Init PROVE WInv
<1>0. /\ rob = [i \in Idx |-> NoEntry] /\ head = 0 /\ count = 0
      /\ rat = ZeroMap /\ crat = ZeroMap /\ ckpt = [c \in Ckpt |-> NoCkpt]
      /\ free = Name /\ nameFree = {} /\ due = NoDue
      /\ st = "free" /\ restoring = {}
      /\ landed = FALSE /\ mapSent = FALSE /\ faultStop = FALSE
      /\ exitRetired = FALSE /\ exitedSent = FALSE
      /\ flight = [i \in Idx |-> << >>] /\ phase = "rename"
  BY DEF Init
<1>1. /\ NoEntry \in Entry /\ ZeroMap \in Map /\ 0 \in Idx /\ 0 \in 0..Depth
      /\ NoCkpt \in [live : BOOLEAN, map : Map] /\ NoDue \in [on : BOOLEAN, keep : 0..Depth, map : Map]
      /\ << >> \in Seq(Name \cup {Zero}) /\ Len(<< >>) = 0
  BY WarpAssumption DEF NoEntry, Entry, Kind, ZeroMap, Map, Idx, NoCkpt, NoDue
<1>2. TypeOK
  BY <1>0, <1>1 DEF TypeOK, State, Phase
<1>3. /\ \A i \in Idx : rob[i] = NoEntry /\ flight[i] = << >>
      /\ NoEntry.st = "none" /\ NoEntry.dst = None /\ NoEntry.new = Zero /\ NoEntry.old = Zero
      /\ NoEntry.ck = None /\ NoEntry.wp = FALSE /\ NoEntry.owed = 0 /\ NoEntry.stale = 0
      /\ NoEntry.complete = FALSE /\ NoEntry.pend = FALSE /\ NoEntry.kind = "op"
      /\ NoEntry.done = FALSE /\ ~NoCkpt.live /\ ~NoDue.on
  BY <1>0 DEF NoEntry, NoCkpt, NoDue
<1>4. \A i \in Idx : Age(i) \in Nat
  BY <1>0, <1>1, AgeAt DEF Idx
<1>5. Ring /\ Entries /\ Unresolved /\ Olds /\ Slot /\ DueBranch /\ Dones
  BY <1>0, <1>1, <1>3, <1>4
     DEF Ring, Entries, Sound, Unresolved, KeepsCkpt, Olds, Slot, Empty, Idx, DueBranch, Dones, Matched
<1>6. Apart /\ Whole
  BY <1>0, <1>3, WarpAssumption DEF Apart, Whole, ZeroMap
<1>7. Maps
  BY <1>0, <1>1, <1>3, MapZero DEF Maps
<1>8. Ckpts
  BY <1>0, <1>3, WarpAssumption DEF Ckpts, Idx
<1> QED BY <1>2, <1>5, <1>6, <1>7, <1>8 DEF WInv

LEMMA WInvStutter == ASSUME WInv, UNCHANGED vars PROVE WInv'
<1>0. /\ UNCHANGED <<robVars, mapVars, poolVars, flight, phase>>
      /\ UNCHANGED <<rob, head, count, crat, due, st, restoring, landed, mapSent, faultStop,
                     exitRetired, exitedSent>>
  BY DEF vars, warpVars, flagVars, robVars, mapVars, poolVars
<1>1. Slot'
  BY <1>0 DEF WInv, Slot, Empty
<1> QED BY <1>0, <1>1, SlotStep DEF WInv, TypeOK

LEMMA RenamesStep == ASSUME WInv, RenameOp \/ RenameBranch \/ RenameExit PROVE WInv'
<1>1. CASE RenameOp
  <2>1. PICK a \in Arch, p \in free : Rename("op", a, p, None)
    BY <1>1 DEF RenameOp
  <2> QED BY <2>1, RenameStep, WarpAssumption DEF Kind
<1>2. CASE RenameBranch
  <2>1. PICK k \in {"branch", "ret"}, c \in Ckpt : ~ckpt[c].live /\ Rename(k, None, Zero, c)
    BY <1>2 DEF RenameBranch
  <2> QED BY <2>1, RenameStep, WarpAssumption DEF Kind
<1>3. CASE RenameExit
  BY <1>3, RenameStep DEF Kind, RenameExit
<1> QED BY <1>1, <1>2, <1>3

LEMMA WInvNext == ASSUME WInv, [Next]_vars PROVE WInv'
<1>1. CASE Edge BY <1>1, EdgeStep
<1>2. CASE ResolveRet BY <1>2, ResolveRetStep
<1>3. CASE ReleaseHeld BY <1>3, ReleaseHeldStep
<1>4. CASE Launch BY <1>4, LaunchStep
<1>5. CASE Activate BY <1>5, ActivateStep
<1>6. CASE Demote BY <1>6, DemoteStep
<1>7. CASE Kill BY <1>7, KillStep
<1>8. CASE Free BY <1>8, FreeStep
<1>9. CASE Progress BY <1>9, ProgressStep
<1>10. CASE Retire BY <1>10, RetireStep
<1>11. CASE Select BY <1>11, SelectStep
<1>12. CASE RenameOp \/ RenameBranch \/ RenameExit BY <1>12, RenamesStep
<1>13. CASE RestoreStep BY <1>13, RestoreOneStep
<1>14. ASSUME NEW i \in Idx, Done(i) PROVE WInv' BY <1>14, DoneStep
<1>15. ASSUME NEW i \in Idx, Replay(i) PROVE WInv' BY <1>15, ReplayStep
<1>16. ASSUME NEW i \in Idx, Confirm(i) PROVE WInv' BY <1>16, ConfirmStep
<1>17. CASE UNCHANGED vars BY <1>17, WInvStutter
<1> QED BY <1>1, <1>2, <1>3, <1>4, <1>5, <1>6, <1>7, <1>8, <1>9, <1>10, <1>11, <1>12,
           <1>13, <1>14, <1>15, <1>16, <1>17 DEF Next

\* The invariant every theorem below rests on.
LEMMA WInvAlways == Spec => []WInv
BY WInvInit, WInvNext, PTL DEF Spec
-----------------------------------------------------------------------------
(* What follows for the core.                                              *)

\* V-01 (ooe_core.cpp's freelist and rename): in every reachable state each
\* name of the pool is free, due to be freed, committed to one register or
\* the destination of one entry, and of only one of these.
THEOREM PoolHolds == Spec => []PoolWhole
<1>1. ASSUME WInv, NEW p \in Name
      PROVE  (IF p \in free THEN 1 ELSE 0) + (IF p \in nameFree THEN 1 ELSE 0)
               + Cardinality({a \in Arch : crat[a] = p}) + Cardinality(InFlight(p)) = 1
  <2> DEFINE C == {a \in Arch : crat[a] = p}
             F == InFlight(p)
  <2>0. p # Zero /\ Apart /\ Whole
    BY <1>1, WarpAssumption DEF WInv
  <2>1. F = {i \in Idx : rob[i].dst # None /\ rob[i].new = p}
    <3>1. \A i \in Idx : rob[i].dst # None => Valid(i)
      BY <1>1, EachEntry DEF Sound, Valid, NoEntry
    <3> QED BY <3>1 DEF InFlight
  <2>2. \A a \in C : C = {a} /\ F = {} /\ p \notin free /\ p \notin nameFree
    BY <2>0, <2>1 DEF Apart
  <2>3. \A i \in F : F = {i} /\ C = {} /\ p \notin free /\ p \notin nameFree
    BY <2>0, <2>1 DEF Apart
  <2>4. ~(p \in free /\ p \in nameFree)
    BY <2>0 DEF Apart
  <2>5. p \in free \/ p \in nameFree \/ C # {} \/ F # {}
    BY <2>0, <2>1 DEF Whole
  <2> HIDE DEF C, F
  <2>6. /\ C = {} => Cardinality(C) = 0
        /\ C # {} => Cardinality(C) = 1
        /\ F = {} => Cardinality(F) = 0
        /\ F # {} => Cardinality(F) = 1
    BY <2>2, <2>3, FS_EmptySet, FS_Singleton
  <2>7. /\ C # {} => F = {} /\ p \notin free /\ p \notin nameFree
        /\ F # {} => C = {} /\ p \notin free /\ p \notin nameFree
    BY <2>2, <2>3
  <2>8. (IF p \in free THEN 1 ELSE 0) + (IF p \in nameFree THEN 1 ELSE 0)
          + Cardinality(C) + Cardinality(F) = 1
    BY <2>4, <2>5, <2>6, <2>7
  <2> QED BY <2>8 DEF C, F
<1>2. WInv => PoolWhole
  BY <1>1 DEF PoolWhole, Partition, WInv
<1> QED BY <1>2, WInvAlways, PTL

\* V-22 and A-47 (cancelHop, takeCompletions): a done that is to come finds
\* its entry and its name still there, and the entry's stale count voids
\* exactly the dones of issues that were taken back.
THEOREM DonesHold == Spec => []DonesMatched
<1>1. WInv => DonesMatched
  <2> SUFFICES ASSUME WInv PROVE NoLateWrite /\ VoidsExactly
    BY DEF DonesMatched
  <2>1. NoLateWrite
    BY EachEntry DEF NoLateWrite, Matched, Valid
  <2>2. VoidsExactly
    BY EachEntry DEF VoidsExactly, Matched
  <2> QED BY <2>1, <2>2
<1> QED BY <1>1, WInvAlways, PTL

\* V-07 and the maps (resolveBranch, squashAfter, retire): the speculative
\* map is what the live entries wrote over the committed one, so is what a
\* due squash will restore, and a live checkpoint belongs to one unresolved
\* branch and holds the map as that branch left it.
THEOREM PathHolds == Spec => []PathExact
<1>1. WInv => PathExact
  <2> SUFFICES ASSUME WInv PROVE RatExact /\ CkptExact
    BY DEF PathExact
  <2>0. /\ count \in 0..Depth /\ head \in Idx /\ due.keep \in 0..Depth
        /\ \A i \in Idx : i \in Live <=> rob[i].st = "live"
        /\ Depth \in Nat
    BY WarpAssumption DEF WInv, TypeOK, Ring, Live
  <2>1. RatExact
    BY <2>0 DEF WInv, Maps, DueBranch, RatExact
  <2>2. CkptExact
    <3> SUFFICES ASSUME NEW c \in Ckpt
                 PROVE  /\ ckpt[c].live = (\E i \in Live : rob[i].ck = c)
                        /\ \A i \in Live : rob[i].ck = c =>
                             /\ ckpt[c].map = MapAt(Age(i) + 1)
                             /\ \A j \in Live : rob[j].ck = c => j = i
      BY DEF CkptExact
    <3>0. Live \subseteq Idx
      BY DEF Live
    <3>1. ckpt[c].live = (\E i \in Live : rob[i].ck = c)
      <4>1. ckpt[c].live <=> \E i \in Idx : rob[i].st = "live" /\ rob[i].ck = c
        BY DEF WInv, Ckpts
      <4>2. ckpt[c].live \in BOOLEAN
        BY DEF WInv, TypeOK
      <4>3. (\E i \in Live : rob[i].ck = c) <=> \E i \in Idx : rob[i].st = "live" /\ rob[i].ck = c
        BY <2>0, <3>0
      <4> QED BY <4>1, <4>2, <4>3
    <3>2. ASSUME NEW i \in Live, rob[i].ck = c
          PROVE  ckpt[c].map = MapAt(Age(i) + 1) /\ \A j \in Live : rob[j].ck = c => j = i
      <4>1. Age(i) \in Idx /\ At(Age(i)) = i /\ Age(i) < count
        BY <2>0, <3>0, AgeAt DEF Live
      <4>2. Age(i) + 1 \in 0..Depth
        BY <2>0, <4>1 DEF Idx
      <4>3. ckpt[c].map = MapAt(Age(i) + 1)
        BY <3>2, <4>1, <4>2 DEF WInv, Ckpts
      <4>4. \A j \in Live : rob[j].ck = c => j = i
        BY <3>0, <3>2 DEF WInv, Ckpts
      <4> QED BY <4>3, <4>4
    <3> QED BY <3>1, <3>2
  <2> QED BY <2>1, <2>2
<1> QED BY <1>1, WInvAlways, PTL

\* A-42 and V-28 (retire, releaseSlot): retirement takes no entry renamed
\* behind a misprediction, and a slot is given back with every name in the
\* pool, no entry held and no done to come.
THEOREM LeavesHold == Spec => LeavesRightly
<1>1. ASSUME WInv, [Next]_vars
      PROVE  [phase = "retire" => \A i \in Idx : rob[i].wp => rob'[i] = rob[i]]_vars
  <2> SUFFICES ASSUME Next, phase = "retire" PROVE \A i \in Idx : rob[i].wp => rob'[i] = rob[i]
    BY <1>1
  <2>1. Retire
    BY DEF Next, Edge, ResolveRet, ReleaseHeld, Waking, Launch, Activate, Demote, Kill, Free,
           Progress, Select, RenameOp, RenameBranch, RenameExit, Rename, RestoreStep, Done,
           Replay, Confirm
  <2> QED BY <1>1, <2>1, RetireStep
<1>2. ASSUME WInv, [Next]_vars
      PROVE  [st # "free" /\ st' = "free" =>
                /\ free' = Name
                /\ \A i \in Idx : rob[i].st = "none" /\ flight[i] = << >>]_vars
  <2> SUFFICES ASSUME Next, st # "free", st' = "free"
               PROVE  /\ free' = Name
                      /\ \A i \in Idx : rob[i].st = "none" /\ flight[i] = << >>
    BY <1>2
  <2>1. CASE Free BY <1>2, <2>1, FreeStep
  <2>2. CASE Progress BY <1>2, <2>2, ProgressStep
  <2>3. Free \/ Progress
    BY DEF Next, Edge, ResolveRet, ReleaseHeld, Launch, Activate, Demote, Kill, Retire, Select,
           RenameOp, RenameBranch, RenameExit, Rename, RestoreStep, Done, Replay, Confirm,
           warpVars
  <2> QED BY <2>1, <2>2, <2>3
<1>3. Spec => WrongPathNeverRetires
  BY <1>1, WInvAlways, PTL DEF Spec, WrongPathNeverRetires
<1>4. Spec => ReleasedClean
  BY <1>2, WInvAlways, PTL DEF Spec, ReleasedClean
<1> QED BY <1>3, <1>4 DEF LeavesRightly
=============================================================================
