----------------------------- MODULE RuleProofs -----------------------------
(***************************************************************************)
(* What the two checkers of design rules promise, for every leaf, block,   *)
(* unit and finding.                                                       *)
(*                                                                         *)
(* check-ngd: that the two timing passes measure one thing (over any       *)
(* netlist each finds the longest of the ways through its gates), and that *)
(* the sum of parts is sound, whatever the pins, levels, budgets, depths   *)
(* and tolerance: a signal on its way is never later than the budget of    *)
(* the pin it is at, so each part may be judged by its own depths and      *)
(* budgets alone.                                                          *)
(*                                                                         *)
(* check-cg: that no unit has more excused by its module's budget than its *)
(* own allowance, and that what excuses nothing fails the check.           *)
(*                                                                         *)
(* The passes are recursive functions over the nets, the flops sums over   *)
(* sets, and no induction theorem of the library can be used on them (each *)
(* takes an operator).  Its place is taken by a smallest counterexample:   *)
(* WFMin on the naturals gives the least of the sizes of a family of       *)
(* finite sets (Fewest), from which follow that a recursion along founded  *)
(* dependencies has a solution (Solution), what holds of a net when it     *)
(* does of those it depends on (FoundedInduction), and what a sum is       *)
(* whatever the order it is taken in (Totals).                             *)
(***************************************************************************)
EXTENDS NgdCheck, CgPolicy, FiniteSetTheorems, WellFoundedInduction, TLAPS

-----------------------------------------------------------------------------
(* The timing passes.                                                      *)

\* A set of naturals has a least.
LEMMA Least ==
  ASSUME NEW S, S \subseteq Nat, S # {}
  PROVE  \E i \in S : \A j \in S : i <= j
<1> DEFINE R == {ss \in Nat \X Nat : ss[1] < ss[2]}
<1>1. IsWellFoundedOn(R, Nat)
  BY NatLessThanWellFounded DEF OpToRel
<1>2. \A x, y \in Nat : <<y, x>> \in R <=> y < x
  OBVIOUS
<1> HIDE DEF R
<1>3. PICK x \in S : \A y \in S : ~(<<y, x>> \in R)
  BY <1>1, WFMin
<1>4. \A y \in S : ~(y < x)
  BY <1>2, <1>3
<1> QED BY <1>4

\* Of sets that have a number, one has the least.
LEMMA Fewest ==
  ASSUME NEW C, C # {}, NEW size, \A c \in C : size[c] \in Nat
  PROVE  \E c \in C : \A e \in C : size[c] <= size[e]
<1> DEFINE T == {size[c] : c \in C}
<1>1. T \subseteq Nat /\ T # {}
  OBVIOUS
<1>2. PICK i \in T : \A j \in T : i <= j
  BY ONLY <1>1, Least
<1> QED BY <1>2

\* From any nodes there is one that depends on none of them.
Founded(N, deps) == \A T \in SUBSET N : T # {} => \E x \in T : deps[x] \cap T = {}

\* A recursion along founded dependencies: step gives the value at a node,
\* from those it depends on.
Recursion(N, deps, V, step) ==
  /\ IsFiniteSet(N) /\ (\A x \in N : deps[x] \subseteq N) /\ Founded(N, deps) /\ V # {}
  /\ \A x \in N : \A f \in [N -> V] : step[x][f] \in V
  /\ \A x \in N : \A f, g \in [N -> V] :
       (\A y \in deps[x] : f[y] = g[y]) => step[x][f] = step[x][g]

\* It has a solution: a largest closed part on which it has one leaves
\* nothing out.
LEMMA Solution ==
  ASSUME NEW N, NEW deps, NEW V, NEW step, Recursion(N, deps, V, step)
  PROVE  \E f \in [N -> V] : \A x \in N : f[x] = step[x][f]
<1> USE DEF Recursion
<1> DEFINE Solves(f, c) == f \in [N -> V] /\ \A x \in c : f[x] = step[x][f]
           C == {c \in SUBSET N : /\ \A x \in c : deps[x] \subseteq c
                                  /\ \E f \in [N -> V] : Solves(f, c)}
           size == [c \in SUBSET N |-> Cardinality(N \ c)]
<1>1. \A c \in SUBSET N : IsFiniteSet(N \ c) /\ size[c] \in Nat
  <2>1. ASSUME NEW c \in SUBSET N PROVE IsFiniteSet(N \ c)
    BY FS_Subset
  <2> QED BY <2>1, FS_CardinalityType
<1>2. {} \in C
  <2>1. PICK v : v \in V
    OBVIOUS
  <2>2. [x \in N |-> v] \in [N -> V]
    BY <2>1
  <2> QED BY <2>2
<1> DEFINE Best(c) == c \in C /\ \A e \in C : size[c] <= size[e]
<1>3. PICK c : Best(c)
  <2>1. \A e \in C : size[e] \in Nat
    BY <1>1
  <2>2. C # {}
    BY <1>2
  <2> HIDE DEF C, size
  <2> QED BY <2>1, <2>2, Fewest
<1>4. PICK f \in [N -> V] : Solves(f, c)
  BY <1>3
<1>5. c \in SUBSET N /\ \A x \in c : deps[x] \subseteq c
  BY <1>3
<1>6. ASSUME N \ c # {} PROVE FALSE
  <2>1. PICK x \in N \ c : deps[x] \cap (N \ c) = {}
    BY <1>6 DEF Founded
  <2>2. deps[x] \subseteq c
    BY <2>1
  <2> DEFINE g == [f EXCEPT ![x] = step[x][f]]
             e == c \cup {x}
  <2>3. g \in [N -> V] /\ g[x] = step[x][f] /\ \A y \in c : g[y] = f[y]
    BY <1>4, <1>5, <2>1
  <2> HIDE DEF g
  <2>4. \A y \in e : step[y][g] = step[y][f]
    <3>1. ASSUME NEW y \in e PROVE step[y][g] = step[y][f]
      <4>1. \A z \in deps[y] : g[z] = f[z]
        BY <1>5, <2>2, <2>3
      <4> QED BY <1>5, <2>1, <2>3, <4>1
    <3> QED BY <3>1
  <2>5. Solves(g, e)
    BY <1>4, <2>3, <2>4
  <2>6. e \in C
    BY <1>5, <2>1, <2>2, <2>3, <2>5
  <2>7. Cardinality(N \ e) = Cardinality(N \ c) - 1
    <3>1. N \ e = (N \ c) \ {x}
      OBVIOUS
    <3>2. IsFiniteSet(N \ c)
      BY <1>1, <1>5
    <3> QED BY <2>1, <3>1, <3>2, FS_RemoveElement
  <2>8. size[c] <= size[e] /\ e \in SUBSET N
    BY <1>3, <2>6
  <2>9. Cardinality(N \ c) \in Nat
    BY <1>1, <1>5, FS_CardinalityType
  <2> QED BY <1>5, <2>7, <2>8, <2>9
<1>7. c = N
  BY <1>5, <1>6
<1> QED BY <1>4, <1>7

\* What depends on founded nodes is founded the other way: leave out of the
\* fewest nodes without a last one a first one.
LEMMA Reversed ==
  ASSUME NEW N, IsFiniteSet(N), NEW deps, Founded(N, deps), NEW users,
         \A x, y \in N : y \in users[x] <=> x \in deps[y]
  PROVE  Founded(N, users)
<1> DEFINE Last(T) == \E x \in T : users[x] \cap T = {}
           C == {T \in SUBSET N : T # {} /\ ~Last(T)}
           size == [T \in SUBSET N |-> Cardinality(T)]
<1>1. \A T \in SUBSET N : IsFiniteSet(T) /\ size[T] \in Nat
  <2>1. ASSUME NEW T \in SUBSET N PROVE IsFiniteSet(T)
    BY FS_Subset
  <2> QED BY <2>1, FS_CardinalityType
<1>2. ASSUME C # {} PROVE FALSE
  <2> DEFINE Best(T) == T \in C /\ \A S \in C : size[T] <= size[S]
  <2>1. PICK T : Best(T)
    <3>1. \A S \in C : size[S] \in Nat
      BY <1>1
    <3> HIDE DEF C, size
    <3> QED BY <1>2, <3>1, Fewest
  <2>2. T \in SUBSET N /\ T # {} /\ ~Last(T)
    BY <2>1
  <2>3. PICK x \in T : deps[x] \cap T = {}
    BY <2>2 DEF Founded
  <2>4. PICK y \in T : y \in users[x]
    BY <2>2
  <2>5. y # x /\ y \in T \ {x}
    BY <2>2, <2>3, <2>4
  <2>6. T \ {x} \notin C
    <3>1. Cardinality(T \ {x}) = Cardinality(T) - 1 /\ Cardinality(T) \in Nat
      BY <1>1, <2>2, <2>3, FS_RemoveElement, FS_CardinalityType
    <3>2. T \ {x} \in SUBSET N
      BY <2>2
    <3>3. size[T] = Cardinality(T) /\ size[T \ {x}] = Cardinality(T \ {x})
      BY <2>2, <3>2
    <3>4. T \ {x} \in C => size[T] <= size[T \ {x}]
      BY <2>1
    <3> QED BY <3>1, <3>3, <3>4
  <2>7. PICK z \in T \ {x} : users[z] \cap (T \ {x}) = {}
    BY <2>2, <2>5, <2>6
  <2>8. x \in users[z]
    BY <2>2, <2>7
  <2> QED BY <2>2, <2>3, <2>7, <2>8
<1> QED BY <1>2 DEF Founded

\* What holds of a node when it does of those it depends on holds of all.
LEMMA FoundedInduction ==
  ASSUME NEW N, NEW deps, Founded(N, deps), NEW G,
         \A x \in N : deps[x] \cap (N \ G) = {} => x \in G
  PROVE  N \subseteq G
<1> DEFINE T == N \ G
<1>1. SUFFICES ASSUME T # {} PROVE FALSE
  OBVIOUS
<1>2. PICK x \in T : deps[x] \cap T = {}
  BY <1>1 DEF Founded
<1> QED BY <1>2

\* The image of a finite set is finite.
LEMMA ImageFinite ==
  ASSUME NEW S, IsFiniteSet(S), NEW f, NEW T, T = {f[x] : x \in S}
  PROVE  IsFiniteSet(T)
<1> DEFINE g == [x \in S |-> f[x]]
<1>1. g \in Surjection(S, T)
  BY DEF Surjection
<1> QED BY <1>1, FS_Surjection

\* The largest of some depths, NEG when there is none.
IsMax(S, m) == IF S = {} THEN m = NEG ELSE m \in S /\ \A y \in S : y <= m

LEMMA MaxExists ==
  ASSUME NEW S, IsFiniteSet(S), S \subseteq Int, S # {}
  PROVE  \E x \in S : \A y \in S : x >= y
<1> DEFINE Has(T) == \E x \in T : \A y \in T : x >= y
           C == {T \in SUBSET S : T # {} /\ ~Has(T)}
           size == [T \in SUBSET S |-> Cardinality(T)]
<1>1. \A T \in SUBSET S : IsFiniteSet(T) /\ size[T] \in Nat
  <2>1. ASSUME NEW T \in SUBSET S PROVE IsFiniteSet(T)
    BY FS_Subset
  <2> QED BY <2>1, FS_CardinalityType
<1>2. ASSUME C # {} PROVE FALSE
  <2> DEFINE Best(T) == T \in C /\ \A U \in C : size[T] <= size[U]
  <2>1. PICK T : Best(T)
    <3>1. \A U \in C : size[U] \in Nat
      BY <1>1
    <3> HIDE DEF C, size
    <3> QED BY <1>2, <3>1, Fewest
  <2>2. T \in SUBSET S /\ T # {} /\ ~Has(T)
    BY <2>1
  <2>3. PICK t : t \in T
    BY <2>2
  <2>4. T \ {t} \notin C
    <3>1. Cardinality(T \ {t}) = Cardinality(T) - 1 /\ Cardinality(T) \in Nat
      BY <1>1, <2>2, <2>3, FS_RemoveElement, FS_CardinalityType
    <3>2. T \ {t} \in SUBSET S
      BY <2>2
    <3>3. size[T] = Cardinality(T) /\ size[T \ {t}] = Cardinality(T \ {t})
      BY <2>2, <3>2
    <3>4. T \ {t} \in C => size[T] <= size[T \ {t}]
      BY <2>1
    <3> QED BY <3>1, <3>3, <3>4
  <2>5. CASE T = {t}
    BY <2>2, <2>3, <2>5
  <2>6. CASE T # {t}
    <3>1. PICK x \in T \ {t} : \A y \in T \ {t} : x >= y
      BY <2>2, <2>3, <2>4, <2>6
    <3>2. x \in Int /\ t \in Int /\ \A y \in T : y \in Int
      BY <2>2, <2>3, <3>1
    <3>3. CASE x >= t
      BY <2>2, <3>1, <3>2, <3>3
    <3>4. CASE t >= x
      <4>1. \A y \in T : t >= y
        BY <3>1, <3>2, <3>4
      <4> QED BY <2>2, <2>3, <4>1
    <3> QED BY <3>2, <3>3, <3>4
  <2> QED BY <2>5, <2>6
<1> QED BY <1>2

LEMMA MaxOfIs ==
  ASSUME NEW S, IsFiniteSet(S), S \subseteq Nat \cup {NEG}
  PROVE  IsMax(S \ {NEG}, MaxOf(S)) /\ MaxOf(S) \in Nat \cup {NEG}
<1> USE DEF NEG
<1>1. CASE S = {}
  BY <1>1 DEF IsMax, MaxOf
<1>2. CASE S # {}
  <2>1. \E x \in S : \A y \in S : x >= y
    <3>1. S \subseteq Int
      OBVIOUS
    <3> QED BY <1>2, <3>1, MaxExists
  <2>2. MaxOf(S) = CHOOSE x \in S : \A y \in S : x >= y
    BY <1>2, Zenon DEF MaxOf
  <2>3. MaxOf(S) \in S /\ \A y \in S : MaxOf(S) >= y
    BY <2>1, <2>2
  <2>4. PICK m : m = MaxOf(S)
    OBVIOUS
  <2>5. m \in S /\ \A y \in S : m >= y
    BY <2>3, <2>4
  <2>6. \A y \in S : y <= m
    BY <2>5
  <2>7. IsMax(S \ {NEG}, m)
    <3>1. CASE S \ {NEG} = {}
      BY <2>5, <3>1 DEF IsMax
    <3>2. CASE S \ {NEG} # {}
      <4>1. PICK y \in S : y # NEG
        BY <3>2
      <4>2. m # NEG
        BY <2>5, <4>1
      <4> QED BY <2>5, <2>6, <3>2, <4>2 DEF IsMax
    <3> QED BY <3>1, <3>2
  <2> QED BY <2>4, <2>5, <2>7
<1> QED BY <1>1, <1>2

LEMMA MaxUnique ==
  ASSUME NEW S, S \subseteq Nat, NEW a, NEW b, IsMax(S, a), IsMax(S, b)
  PROVE  a = b
<1>1. CASE S = {}
  BY <1>1 DEF IsMax
<1>2. CASE S # {}
  <2>1. a \in S /\ b \in S /\ a <= b /\ b <= a
    BY <1>2 DEF IsMax
  <2>2. a \in Nat /\ b \in Nat
    BY <2>1
  <2> QED BY <2>1, <2>2
<1> QED BY <1>1, <1>2

\* The largest of the largests is the largest of all.
LEMMA MaxOfMax ==
  ASSUME NEW D, IsFiniteSet(D), NEW A, NEW m,
         \A d \in D : A[d] \subseteq Nat /\ IsMax(A[d], m[d]),
         NEW T, T = {m[d] : d \in D},
         NEW U, \A k : k \in U <=> \E d \in D : k \in A[d]
  PROVE  IsMax(U, MaxOf(T)) /\ U \subseteq Nat
<1>1. IsFiniteSet(T)
  BY ImageFinite
<1>2. \A d \in D : m[d] \in Nat \cup {NEG} /\ (m[d] = NEG <=> A[d] = {})
  BY DEF IsMax, NEG
<1>3. T \subseteq Nat \cup {NEG}
  BY <1>2
<1>4. IsMax(T \ {NEG}, MaxOf(T))
  BY <1>1, <1>3, MaxOfIs
<1>5. CASE U = {}
  <2>1. \A d \in D : m[d] = NEG
    BY <1>2, <1>5
  <2>2. T \ {NEG} = {}
    BY <2>1
  <2> QED BY <1>4, <1>5, <2>2 DEF IsMax
<1>6. CASE U # {}
  <2>1. PICK k \in U : TRUE
    BY <1>6
  <2>2. PICK d \in D : k \in A[d]
    BY <2>1
  <2>3. m[d] \in T \ {NEG}
    BY <1>2, <2>2
  <2>4. MaxOf(T) \in T \ {NEG} /\ \A y \in T \ {NEG} : y <= MaxOf(T)
    BY <1>4, <2>3 DEF IsMax
  <2>5. PICK e \in D : MaxOf(T) = m[e] /\ m[e] # NEG
    BY <2>4
  <2>6. MaxOf(T) \in U
    BY <1>2, <2>5 DEF IsMax
  <2>7. ASSUME NEW u \in U PROVE u <= MaxOf(T)
    <3>1. PICK c \in D : u \in A[c]
      OBVIOUS
    <3>2. u <= m[c] /\ m[c] \in T \ {NEG} /\ u \in Nat /\ m[c] \in Nat
      BY <1>2, <3>1 DEF IsMax
    <3>3. m[c] <= MaxOf(T) /\ MaxOf(T) \in Nat
      BY <1>2, <2>4, <2>5, <3>2
    <3> QED BY <3>2, <3>3
  <2> QED BY <1>6, <2>6, <2>7 DEF IsMax
<1> QED BY <1>5, <1>6

-----------------------------------------------------------------------------
\* The fanout term of a net, and the arcs of the gates: into a net, from the
\* net each pin of its gate reads at the pin's delay, and out of a net, to
\* what each pin on it drives.
Term(n, x, fan) == IF fan THEN fo(n, x) ELSE 0
Into(n, x) ==
  IF x \notin DOMAIN n.gate THEN {}
  ELSE {<<n.gate[x].pins[pin], PinDelay(n.gate[x].cell, pin)>> : pin \in DOMAIN n.gate[x].pins}
Out(n, x) == {<<r[1], PinDelay(n.gate[r[1]].cell, r[2])>> : r \in PinsOn(n, x)}

\* What a net depends on, and what depends on it.
Deps(n) == [x \in Net(n) |-> {a[1] : a \in Into(n, x)}]
Users(n) == [x \in Net(n) |-> {a[1] : a \in Out(n, x)}]

Arcs(N, R) == IsFiniteSet(R) /\ \A a \in R : a[1] \in N /\ a[2] \in Nat

LEMMA PinDelayIs ==
  ASSUME NEW g \in DOMAIN Delay, NEW pin, HasPin(g, pin)
  PROVE  PinDelay(g, pin) \in Nat /\ delay(g, pin) \in Nat
<1>1. delay(g, pin) \in Nat
  BY DelayAssumption DEF delay, HasPin
<1> QED BY <1>1 DEF PinDelay

LEMMA NetlistIs ==
  ASSUME NEW n, Netlist(n)
  PROVE  /\ IsFiniteSet(Net(n)) /\ DOMAIN n.gate \subseteq Net(n)
         /\ \A x \in DOMAIN n.gate :
              /\ IsFiniteSet(DOMAIN n.gate[x].pins)
              /\ \A pin \in DOMAIN n.gate[x].pins :
                   /\ n.gate[x].pins[pin] \in Net(n)
                   /\ PinDelay(n.gate[x].cell, pin) \in Nat
<1>1. IsFiniteSet(Net(n)) /\ DOMAIN n.gate \subseteq Net(n)
  BY DEF Netlist, Net
<1>2. ASSUME NEW x \in DOMAIN n.gate
      PROVE  /\ IsFiniteSet(DOMAIN n.gate[x].pins)
             /\ \A pin \in DOMAIN n.gate[x].pins :
                  /\ n.gate[x].pins[pin] \in Net(n)
                  /\ PinDelay(n.gate[x].cell, pin) \in Nat
  <2>1. n.gate[x].cell \in DOMAIN Delay /\ IsFiniteSet(DOMAIN n.gate[x].pins)
    BY DEF Netlist
  <2>2. ASSUME NEW pin \in DOMAIN n.gate[x].pins
        PROVE  n.gate[x].pins[pin] \in Net(n) /\ HasPin(n.gate[x].cell, pin)
    BY DEF Netlist, Reads
  <2> QED BY <2>1, <2>2, PinDelayIs
<1> QED BY <1>1, <1>2

LEMMA PinsOnFinite ==
  ASSUME NEW n, Netlist(n), NEW x
  PROVE  IsFiniteSet(PinsOn(n, x))
<1> DEFINE on == [y \in DOMAIN n.gate |->
                    {<<y, pin>> : pin \in {p \in DOMAIN n.gate[y].pins : n.gate[y].pins[p] = x}}]
           all == {on[y] : y \in DOMAIN n.gate}
<1>1. IsFiniteSet(DOMAIN n.gate)
  BY NetlistIs, FS_Subset
<1>2. ASSUME NEW y \in DOMAIN n.gate PROVE IsFiniteSet(on[y])
  <2> DEFINE P == {p \in DOMAIN n.gate[y].pins : n.gate[y].pins[p] = x}
             f == [p \in P |-> <<y, p>>]
  <2>1. IsFiniteSet(P)
    BY NetlistIs, FS_Subset
  <2>2. on[y] = {f[p] : p \in P}
    OBVIOUS
  <2> HIDE DEF on, f, P
  <2> QED BY <2>1, <2>2, ImageFinite
<1>3. IsFiniteSet(all)
  <2> HIDE DEF on
  <2> QED BY <1>1, ImageFinite
<1>4. \A T \in all : IsFiniteSet(T)
  BY <1>2
<1>5. PinsOn(n, x) = UNION all
  <2>1. all = {{<<y, pin>> : pin \in {p \in DOMAIN n.gate[y].pins : n.gate[y].pins[p] = x}} :
                 y \in DOMAIN n.gate}
    OBVIOUS
  <2> HIDE DEF all
  <2> QED BY <2>1 DEF PinsOn
<1> HIDE DEF all
<1> QED BY <1>3, <1>4, <1>5, FS_UNION

\* The fanout term is a depth.
LEMMA TermIs ==
  ASSUME NEW n, Netlist(n), NEW x, NEW fan
  PROVE  Term(n, x, fan) \in Nat
<1>1. Cardinality(PinsOn(n, x)) \in Nat
  BY PinsOnFinite, FS_CardinalityType
<1>2. Cardinality({l \in n.latches : l[1] = x}) \in Nat
  <2>1. IsFiniteSet({l \in n.latches : l[1] = x})
    BY FS_Subset DEF Netlist
  <2> QED BY <2>1, FS_CardinalityType
<1>3. PICK c : c = loads(n, x)
  OBVIOUS
<1>4. c \in Nat
  BY <1>1, <1>2, <1>3 DEF loads
<1> DEFINE stages == {k \in 1..c : Fanout^k < c}
<1>5. Cardinality(stages) \in Nat
  <2>1. IsFiniteSet(1..c)
    BY <1>4, FS_Interval
  <2>2. stages \in SUBSET (1..c)
    OBVIOUS
  <2> HIDE DEF stages
  <2> QED BY <2>1, <2>2, FS_Subset, FS_CardinalityType
<1>6. delay("INV", "A") \in Nat
  BY DelayAssumption, PinDelayIs
<1>7. fo(n, x) = Cardinality(stages) * delay("INV", "A")
  BY <1>3 DEF fo
<1>8. fo(n, x) \in Nat
  <2> HIDE DEF stages
  <2> QED BY <1>5, <1>6, <1>7
<1> QED BY <1>8 DEF Term

\* The arcs into a net and out of it are its gates' pins, each at its delay.
LEMMA ArcsAre ==
  ASSUME NEW n, Netlist(n), NEW x \in Net(n)
  PROVE  Arcs(Net(n), Into(n, x)) /\ Arcs(Net(n), Out(n, x))
<1>1. ASSUME x \in DOMAIN n.gate PROVE Arcs(Net(n), Into(n, x))
  <2> DEFINE P == DOMAIN n.gate[x].pins
             f == [pin \in P |-> <<n.gate[x].pins[pin], PinDelay(n.gate[x].cell, pin)>>]
  <2>1. Into(n, x) = {f[pin] : pin \in P}
    BY <1>1 DEF Into
  <2>2. IsFiniteSet(P) /\ \A pin \in P : f[pin][1] \in Net(n) /\ f[pin][2] \in Nat
    BY <1>1, NetlistIs
  <2> HIDE DEF f, P
  <2>3. IsFiniteSet(Into(n, x))
    BY <2>1, <2>2, ImageFinite
  <2> QED BY <2>1, <2>2, <2>3 DEF Arcs
<1>2. ASSUME x \notin DOMAIN n.gate PROVE Arcs(Net(n), Into(n, x))
  BY <1>2, FS_EmptySet DEF Into, Arcs
<1>3. Arcs(Net(n), Out(n, x))
  <2> DEFINE P == PinsOn(n, x)
             f == [r \in P |-> <<r[1], PinDelay(n.gate[r[1]].cell, r[2])>>]
  <2>1. Out(n, x) = {f[r] : r \in P}
    BY DEF Out
  <2>2. \A r \in P : r[1] \in DOMAIN n.gate /\ r[2] \in DOMAIN n.gate[r[1]].pins
    BY DEF PinsOn
  <2>3. \A r \in P : f[r][1] \in Net(n) /\ f[r][2] \in Nat
    BY <2>2, NetlistIs
  <2>4. IsFiniteSet(P)
    BY PinsOnFinite
  <2> HIDE DEF f, P
  <2>5. IsFiniteSet(Out(n, x))
    BY <2>1, <2>4, ImageFinite
  <2> QED BY <2>1, <2>3, <2>5 DEF Arcs
<1> QED BY <1>1, <1>2, <1>3

\* They are the same arcs.
LEMMA ArcsMeet ==
  ASSUME NEW n, Netlist(n), NEW x, NEW y, NEW w
  PROVE  <<y, w>> \in Out(n, x) <=> <<x, w>> \in Into(n, y)
<1>1. ASSUME <<y, w>> \in Out(n, x) PROVE <<x, w>> \in Into(n, y)
  <2>1. PICK r \in PinsOn(n, x) : y = r[1] /\ w = PinDelay(n.gate[r[1]].cell, r[2])
    BY <1>1 DEF Out
  <2>2. PICK z \in DOMAIN n.gate : \E pin \in DOMAIN n.gate[z].pins :
               n.gate[z].pins[pin] = x /\ r = <<z, pin>>
    BY <2>1 DEF PinsOn
  <2>3. PICK pin \in DOMAIN n.gate[z].pins : n.gate[z].pins[pin] = x /\ r = <<z, pin>>
    BY <2>2
  <2> QED BY <2>1, <2>3 DEF Into
<1>2. ASSUME <<x, w>> \in Into(n, y) PROVE <<y, w>> \in Out(n, x)
  <2>1. y \in DOMAIN n.gate
    BY <1>2 DEF Into
  <2>2. PICK pin \in DOMAIN n.gate[y].pins :
               x = n.gate[y].pins[pin] /\ w = PinDelay(n.gate[y].cell, pin)
    BY <1>2, <2>1 DEF Into
  <2>3. <<y, pin>> \in PinsOn(n, x)
    BY <2>1, <2>2 DEF PinsOn
  <2>4. PICK r \in PinsOn(n, x) : r = <<y, pin>>
    BY <2>3
  <2>5. r[1] = y /\ r[2] = pin
    BY <2>4
  <2> QED BY <2>2, <2>4, <2>5 DEF Out
<1> QED BY <1>1, <1>2

\* No net depends on itself through any number of gates, in either direction.
LEMMA NetsFounded ==
  ASSUME NEW n, Netlist(n)
  PROVE  Founded(Net(n), Deps(n)) /\ Founded(Net(n), Users(n))
<1>1. \A x \in Net(n) : Deps(n)[x] = IF x \in DOMAIN n.gate THEN Reads(n, x) ELSE {}
  <2>1. ASSUME NEW x \in Net(n), x \in DOMAIN n.gate PROVE Deps(n)[x] = Reads(n, x)
    <3>1. Deps(n)[x] = {a[1] : a \in Into(n, x)}
      BY DEF Deps
    <3>2. \A pin \in DOMAIN n.gate[x].pins :
            \E a \in Into(n, x) : a[1] = n.gate[x].pins[pin]
      <4>1. SUFFICES ASSUME NEW pin \in DOMAIN n.gate[x].pins
                     PROVE  \E a \in Into(n, x) : a[1] = n.gate[x].pins[pin]
        OBVIOUS
      <4>2. <<n.gate[x].pins[pin], PinDelay(n.gate[x].cell, pin)>> \in Into(n, x)
        BY <2>1 DEF Into
      <4> QED BY <4>2
    <3>3. \A a \in Into(n, x) : \E pin \in DOMAIN n.gate[x].pins : a[1] = n.gate[x].pins[pin]
      BY <2>1 DEF Into
    <3> QED BY <3>1, <3>2, <3>3 DEF Reads
  <2>2. ASSUME NEW x \in Net(n), x \notin DOMAIN n.gate PROVE Deps(n)[x] = {}
    BY <2>2 DEF Deps, Into
  <2> QED BY <2>1, <2>2
<1>2. Founded(Net(n), Deps(n))
  <2>1. SUFFICES ASSUME NEW T \in SUBSET Net(n), T # {}
                 PROVE  \E x \in T : Deps(n)[x] \cap T = {}
    BY DEF Founded
  <2>2. CASE T \subseteq DOMAIN n.gate
    <3>1. PICK x \in T : Reads(n, x) \cap T = {}
      BY <2>1, <2>2 DEF Netlist
    <3> QED BY <1>1, <2>2, <3>1
  <2>3. CASE ~(T \subseteq DOMAIN n.gate)
    BY <1>1, <2>3
  <2> QED BY <2>2, <2>3
<1>3. ASSUME NEW x \in Net(n), NEW y \in Net(n)
      PROVE  y \in Users(n)[x] <=> x \in Deps(n)[y]
  <2>1. \A b \in Out(n, x) : b = <<b[1], b[2]>>
    BY DEF Out
  <2>2. \A a \in Into(n, y) : a = <<a[1], a[2]>>
    BY DEF Into
  <2>3. y \in Users(n)[x] <=> \E w : <<y, w>> \in Out(n, x)
    BY <2>1, ZenonT(60) DEF Users
  <2>4. x \in Deps(n)[y] <=> \E w : <<x, w>> \in Into(n, y)
    BY <2>2, ZenonT(60) DEF Deps
  <2>5. \A w : <<y, w>> \in Out(n, x) <=> <<x, w>> \in Into(n, y)
    BY ArcsMeet
  <2> QED BY <2>3, <2>4, <2>5
<1>4. Founded(Net(n), Users(n))
  <2>1. PICK deps, users : deps = Deps(n) /\ users = Users(n)
    OBVIOUS
  <2>2. IsFiniteSet(Net(n))
    BY NetlistIs
  <2>3. \A x, y \in Net(n) : y \in users[x] <=> x \in deps[y]
    BY <1>3, <2>1
  <2>4. Founded(Net(n), users)
    BY ONLY <1>2, <2>1, <2>2, <2>3, Reversed
  <2> QED BY <2>1, <2>4
<1> QED BY <1>2, <1>4

\* The depths there are before some arcs, and after them, at their delays.
Reached(R, A, f) == \A a \in R : A[a[1]] \subseteq Nat /\ IsMax(A[a[1]], f[a[1]])
Gathered(R, A, base, U) ==
  \A k : k \in U <=> k \in base \/ \E a \in R : \E j \in A[a[1]] : k = j + a[2]

\* The largest after some arcs and of what starts there (base), taken from
\* the largest before each.
Arriving(N, R, f, base, all) ==
  /\ Arcs(N, R) /\ \A a \in R : f[a[1]] \in Nat \cup {NEG}
  /\ IsFiniteSet(base) /\ base \subseteq Nat
  /\ all = base \cup {f[a[1]] + a[2] : a \in {b \in R : f[b[1]] # NEG}}

LEMMA ArcsMax ==
  ASSUME NEW N, NEW R, NEW f, NEW base, NEW all, Arriving(N, R, f, base, all)
  PROVE  /\ MaxOf(all) \in Nat \cup {NEG} /\ (MaxOf(all) = NEG <=> all = {})
         /\ \A A, U : Reached(R, A, f) /\ Gathered(R, A, base, U)
                     => U \subseteq Nat /\ IsMax(U, MaxOf(all)) /\ (U = {} <=> all = {})
<1> USE DEF Arriving
<1> DEFINE L == {b \in R : f[b[1]] # NEG}
           v == [a \in L |-> f[a[1]] + a[2]]
           T == {v[a] : a \in L}
<1>1. all = base \cup T
  OBVIOUS
<1>2. \A a \in L : a \in R /\ a[2] \in Nat /\ f[a[1]] \in Nat /\ v[a] = f[a[1]] + a[2]
  BY DEF Arcs, NEG
<1>3. IsFiniteSet(all) /\ all \subseteq Nat
  <2>1. IsFiniteSet(L)
    BY FS_Subset DEF Arcs
  <2>2. IsFiniteSet(T)
    <3> HIDE DEF v, L
    <3> QED BY <2>1, ImageFinite
  <2>3. T \subseteq Nat
    <3>1. ASSUME NEW a \in L PROVE v[a] \in Nat
      <4>1. f[a[1]] \in Nat /\ a[2] \in Nat /\ v[a] = f[a[1]] + a[2]
        BY <1>2
      <4> HIDE DEF v
      <4> QED BY <4>1
    <3> HIDE DEF v, L
    <3> QED BY <3>1
  <2> HIDE DEF T
  <2>4. IsFiniteSet(base \cup T)
    BY <2>2, FS_Union
  <2> QED BY <1>1, <2>3, <2>4
<1>4. IsMax(all, MaxOf(all)) /\ MaxOf(all) \in Nat \cup {NEG}
  <2>1. all \ {NEG} = all
    BY <1>3 DEF NEG
  <2> QED BY <1>3, <2>1, MaxOfIs
<1>5. MaxOf(all) = NEG <=> all = {}
  BY <1>3, <1>4 DEF IsMax, NEG
<1>6. ASSUME NEW A, NEW U, Reached(R, A, f), Gathered(R, A, base, U)
      PROVE  U \subseteq Nat /\ IsMax(U, MaxOf(all)) /\ (U = {} <=> all = {})
  <2> USE DEF Reached, Gathered
  <2>1. \A a \in R : A[a[1]] = {} <=> f[a[1]] = NEG
    BY <1>6 DEF IsMax, NEG
  <2>2. U \subseteq Nat
    <3>1. ASSUME NEW k \in U PROVE k \in Nat
      <4>1. CASE k \in base
        BY <4>1
      <4>2. CASE \E a \in R : \E j \in A[a[1]] : k = j + a[2]
        <5>1. PICK a \in R : \E j \in A[a[1]] : k = j + a[2]
          BY <4>2
        <5>2. PICK j \in A[a[1]] : k = j + a[2]
          BY <5>1
        <5>3. j \in Nat /\ a[2] \in Nat
          BY <1>6, <5>2 DEF Arcs
        <5> QED BY <5>2, <5>3
      <4> QED BY <1>6, <4>1, <4>2
    <3> QED BY <3>1
  <2>3. all \subseteq U
    <3>1. ASSUME NEW a \in L PROVE v[a] \in U
      <4>1. f[a[1]] \in A[a[1]]
        BY <1>2, <1>6, <2>1 DEF IsMax
      <4> QED BY <1>2, <1>6, <4>1
    <3>2. T \subseteq U /\ base \subseteq U
      BY <1>6, <3>1
    <3> HIDE DEF T
    <3> QED BY <1>1, <3>2
  <2>4. ASSUME NEW k \in U PROVE \E a \in all : k <= a
    <3>1. CASE k \in base
      BY <1>1, <2>2, <3>1
    <3>2. CASE \E a \in R : \E j \in A[a[1]] : k = j + a[2]
      <4>1. PICK a \in R : \E j \in A[a[1]] : k = j + a[2]
        BY <3>2
      <4>2. PICK j \in A[a[1]] : k = j + a[2]
        BY <4>1
      <4>3. a \in L
        BY <2>1, <4>2
      <4>4. j <= f[a[1]] /\ j \in Nat
        BY <1>6, <4>2 DEF IsMax
      <4>5. v[a] \in all /\ v[a] = f[a[1]] + a[2] /\ f[a[1]] \in Nat /\ a[2] \in Nat
        BY <1>2, <4>3
      <4> QED BY <4>2, <4>4, <4>5
    <3> QED BY <1>6, <3>1, <3>2
  <2>5. PICK m : m = MaxOf(all)
    OBVIOUS
  <2>6. CASE all = {}
    BY <1>4, <2>4, <2>6 DEF IsMax
  <2>7. CASE all # {}
    <3>1. m \in all /\ (\A a \in all : a <= m) /\ m \in Nat
      BY <1>3, <1>4, <2>5, <2>7 DEF IsMax
    <3>2. ASSUME NEW k \in U PROVE k <= m
      <4>1. PICK a \in all : k <= a
        BY <2>4
      <4>2. a \in Nat /\ a <= m /\ k \in Nat
        BY <1>3, <2>2, <3>1
      <4> QED BY <3>1, <4>1, <4>2
    <3>3. m \in U /\ U # {}
      BY <2>3, <3>1
    <3> QED BY <2>2, <2>5, <2>7, <3>2, <3>3 DEF IsMax
  <2> QED BY <2>6, <2>7
<1> QED BY ONLY <1>4, <1>5, <1>6

\* A fanout term added to all of some depths is added to the largest.
LEMMA MaxShifts ==
  ASSUME NEW U, U \subseteq Nat, NEW m, IsMax(U, m), NEW t \in Nat,
         NEW W, \A k : k \in W <=> \E j \in U : k = j + t
  PROVE  IsMax(W, IF U = {} THEN NEG ELSE m + t)
<1>1. CASE U = {}
  <2>1. W = {}
    BY <1>1
  <2> QED BY <1>1, <2>1 DEF IsMax
<1>2. CASE U # {}
  <2>1. m \in U /\ (\A y \in U : y <= m) /\ m \in Nat
    BY <1>2 DEF IsMax
  <2>2. m + t \in W
    BY <2>1
  <2>3. ASSUME NEW k \in W PROVE k <= m + t
    <3>1. PICK j \in U : k = j + t
      OBVIOUS
    <3>2. j <= m /\ j \in Nat
      BY <2>1
    <3> QED BY <2>1, <3>1, <3>2
  <2> QED BY <1>2, <2>2, <2>3 DEF IsMax
<1> QED BY <1>1, <1>2

-----------------------------------------------------------------------------
\* One step of the forward pass.
PropAt(n, start, fan, f, x) ==
  IF x \in start THEN (IF fan THEN fo(n, x) ELSE 0)
  ELSE IF x \notin DOMAIN n.gate THEN NEG
  ELSE LET g  == n.gate[x]
           in == {f[g.pins[pin]] + PinDelay(g.cell, pin) :
                    pin \in {p \in DOMAIN g.pins : f[g.pins[p]] # NEG}}
       IN  IF in = {} THEN NEG ELSE MaxOf(in) + (IF fan THEN fo(n, x) ELSE 0)

LEMMA PropIs ==
  ASSUME NEW n, NEW S, NEW fan
  PROVE  prop(n, S, fan) = CHOOSE f : f = [x \in Net(n) |-> PropAt(n, S, fan, f, x)]
BY Zenon DEF prop, PropAt

\* What has arrived by the arcs into a net.
Arrived(n, f, x) == {f[a[1]] + a[2] : a \in {b \in Into(n, x) : f[b[1]] # NEG}}

LEMMA PropAtArcs ==
  ASSUME NEW n, NEW S, NEW fan, NEW f, NEW x
  PROVE  PropAt(n, S, fan, f, x) =
           IF x \in S THEN Term(n, x, fan)
           ELSE IF Arrived(n, f, x) = {} THEN NEG
                ELSE MaxOf(Arrived(n, f, x)) + Term(n, x, fan)
<1> DEFINE g == n.gate[x]
           in == {f[g.pins[pin]] + PinDelay(g.cell, pin) :
                    pin \in {p \in DOMAIN g.pins : f[g.pins[p]] # NEG}}
<1>1. CASE x \notin DOMAIN n.gate
  <2>1. Arrived(n, f, x) = {}
    BY <1>1 DEF Arrived, Into
  <2> QED BY <1>1, <2>1 DEF PropAt, Term
<1>2. CASE x \in DOMAIN n.gate
  <2>1. ASSUME NEW k, k \in in PROVE k \in Arrived(n, f, x)
    <3>1. PICK pin \in DOMAIN g.pins : f[g.pins[pin]] # NEG
                                      /\ k = f[g.pins[pin]] + PinDelay(g.cell, pin)
      BY <2>1
    <3>2. <<g.pins[pin], PinDelay(g.cell, pin)>> \in Into(n, x)
      BY <1>2 DEF Into
    <3>3. PICK a \in Into(n, x) : a = <<g.pins[pin], PinDelay(g.cell, pin)>>
      BY <3>2
    <3>4. a[1] = g.pins[pin] /\ a[2] = PinDelay(g.cell, pin)
      BY <3>3
    <3> QED BY <3>1, <3>4 DEF Arrived
  <2>2. ASSUME NEW k \in Arrived(n, f, x) PROVE k \in in
    <3>1. PICK a \in Into(n, x) : f[a[1]] # NEG /\ k = f[a[1]] + a[2]
      BY DEF Arrived
    <3>2. PICK pin \in DOMAIN g.pins : a = <<g.pins[pin], PinDelay(g.cell, pin)>>
      BY <1>2 DEF Into
    <3>3. a[1] = g.pins[pin] /\ a[2] = PinDelay(g.cell, pin)
      BY <3>2
    <3> QED BY <3>1, <3>3
  <2>3. in = Arrived(n, f, x)
    <3> HIDE DEF in
    <3> QED BY <2>1, <2>2
  <2>4. PropAt(n, S, fan, f, x) = IF x \in S THEN Term(n, x, fan)
                                  ELSE IF in = {} THEN NEG ELSE MaxOf(in) + Term(n, x, fan)
    BY <1>2 DEF PropAt, Term
  <2> HIDE DEF in
  <2> QED BY <2>3, <2>4
<1> QED BY <1>1, <1>2

LEMMA PropAtIs ==
  ASSUME NEW n, Netlist(n), NEW S, NEW fan, NEW x \in Net(n), NEW f,
         \A a \in Into(n, x) : f[a[1]] \in Nat \cup {NEG}
  PROVE  /\ PropAt(n, S, fan, f, x) \in Nat \cup {NEG}
         /\ x \in S => PropAt(n, S, fan, f, x) = Term(n, x, fan)
         /\ \A A : x \notin S /\ Reached(Into(n, x), A, f)
              => \A U : (\A k : k \in U <=> \E a \in Into(n, x) : \E j \in A[a[1]] :
                                             k = j + a[2] + Term(n, x, fan))
                   => IsMax(U, PropAt(n, S, fan, f, x))
<1>1. PICK R, all, t : R = Into(n, x) /\ all = Arrived(n, f, x) /\ t = Term(n, x, fan)
  OBVIOUS
<1>2. Arcs(Net(n), R) /\ t \in Nat
  BY <1>1, ArcsAre, TermIs
<1>3. \A a \in R : f[a[1]] \in Nat \cup {NEG}
  BY <1>1
<1>4. all = {} \cup {f[a[1]] + a[2] : a \in {b \in R : f[b[1]] # NEG}}
  BY <1>1 DEF Arrived
<1>5. PICK base : base = {} /\ IsFiniteSet(base) /\ base \subseteq Nat
  BY FS_EmptySet
<1>6. PICK N : N = Net(n)
  OBVIOUS
<1>7. /\ MaxOf(all) \in Nat \cup {NEG} /\ (MaxOf(all) = NEG <=> all = {})
      /\ \A A, U : Reached(R, A, f) /\ Gathered(R, A, base, U)
                  => U \subseteq Nat /\ IsMax(U, MaxOf(all)) /\ (U = {} <=> all = {})
  <2>1. Arriving(N, R, f, base, all)
    BY <1>2, <1>3, <1>4, <1>5, <1>6 DEF Arriving
  <2> QED BY ONLY <2>1, ArcsMax
<1>8. PropAt(n, S, fan, f, x) = IF x \in S THEN t ELSE IF all = {} THEN NEG ELSE MaxOf(all) + t
  BY <1>1, PropAtArcs
<1>9. PropAt(n, S, fan, f, x) \in Nat \cup {NEG}
  <2>1. all # {} => MaxOf(all) \in Nat
    BY <1>7
  <2> QED BY <1>2, <1>8, <2>1
<1>10. ASSUME NEW A, x \notin S, Reached(R, A, f),
              NEW W, \A k : k \in W <=> \E a \in R : \E j \in A[a[1]] : k = j + a[2] + t
       PROVE  IsMax(W, PropAt(n, S, fan, f, x))
  <2> DEFINE U == {k \in Nat : \E a \in R : \E j \in A[a[1]] : k = j + a[2]}
  <2>1. \A a \in R : \A j \in A[a[1]] : j \in Nat /\ a[2] \in Nat /\ j + a[2] \in Nat
    BY <1>2, <1>10 DEF Arcs, Reached
  <2>2. Gathered(R, A, base, U)
    BY <1>5, <2>1 DEF Gathered
  <2>3. \A k : k \in W <=> \E j \in U : k = j + t
    <3>1. ASSUME NEW k \in W PROVE \E j \in U : k = j + t
      <4>1. PICK a \in R : \E j \in A[a[1]] : k = j + a[2] + t
        BY <1>10
      <4>2. PICK j \in A[a[1]] : k = j + a[2] + t
        BY <4>1
      <4>3. j + a[2] \in U
        BY <2>1, <4>2
      <4> HIDE DEF U
      <4> QED BY <4>2, <4>3
    <3>2. ASSUME NEW j \in U PROVE j + t \in W
      <4>1. PICK a \in R : \E i \in A[a[1]] : j = i + a[2]
        OBVIOUS
      <4> QED BY <1>10, <4>1
    <3> HIDE DEF U
    <3> QED BY <3>1, <3>2
  <2>4. PICK m : m = MaxOf(all)
    OBVIOUS
  <2> HIDE DEF U
  <2>5. U \subseteq Nat /\ IsMax(U, m) /\ (U = {} <=> all = {})
    BY ONLY <1>7, <1>10, <2>2, <2>4
  <2>6. IsMax(W, IF U = {} THEN NEG ELSE m + t)
    BY ONLY <1>2, <2>3, <2>5, MaxShifts
  <2> QED BY <1>8, <1>10, <2>4, <2>5, <2>6
<1>11. x \in S => PropAt(n, S, fan, f, x) = t
  BY <1>8
<1> QED BY ONLY <1>1, <1>9, <1>10, <1>11

\* The forward pass is defined: it does its step at each net.
LEMMA PropUnfolds ==
  ASSUME NEW n, Netlist(n), NEW S, NEW fan
  PROVE  \A x \in Net(n) :
           /\ prop(n, S, fan)[x] = PropAt(n, S, fan, prop(n, S, fan), x)
           /\ prop(n, S, fan)[x] \in Nat \cup {NEG}
<1> DEFINE N == Net(n)
           V == Nat \cup {NEG}
           step == [x \in N |-> [f \in [N -> V] |-> PropAt(n, S, fan, f, x)]]
           deps == Deps(n)
<1>1. /\ IsFiniteSet(N) /\ (\A x \in N : deps[x] \subseteq N) /\ Founded(N, deps)
      /\ \A x \in N : \A a \in Into(n, x) : a[1] \in deps[x]
  <2>1. \A x \in N : deps[x] = {a[1] : a \in Into(n, x)}
    BY DEF Deps
  <2>2. \A x \in N : \A a \in Into(n, x) : a[1] \in N
    BY ArcsAre DEF Arcs
  <2> QED BY <2>1, <2>2, NetlistIs, NetsFounded
<1>2. \A x \in N : \A f \in [N -> V] : step[x][f] = PropAt(n, S, fan, f, x)
  OBVIOUS
<1>3. ASSUME NEW x \in N, NEW f \in [N -> V] PROVE PropAt(n, S, fan, f, x) \in V
  <2>1. \A a \in Into(n, x) : f[a[1]] \in V
    BY <1>1
  <2> QED BY <2>1, PropAtIs
<1>4. ASSUME NEW x \in N, NEW f, NEW g, \A y \in deps[x] : f[y] = g[y]
      PROVE  PropAt(n, S, fan, f, x) = PropAt(n, S, fan, g, x)
  <2>1. \A a \in Into(n, x) : f[a[1]] = g[a[1]]
    BY <1>1, <1>4
  <2>2. Arrived(n, f, x) = Arrived(n, g, x)
    BY <2>1 DEF Arrived
  <2> QED BY <2>2, PropAtArcs
<1>5. \E f \in [N -> V] : \A x \in N : f[x] = step[x][f]
  <2>1. \A x \in N : \A f \in [N -> V] : step[x][f] \in V
    BY <1>2, <1>3
  <2>2. \A x \in N : \A f, g \in [N -> V] :
          (\A y \in deps[x] : f[y] = g[y]) => step[x][f] = step[x][g]
    BY <1>2, <1>4
  <2>3. V # {}
    OBVIOUS
  <2> HIDE DEF N, V, step, deps
  <2>4. Recursion(N, deps, V, step)
    BY ONLY <1>1, <2>1, <2>2, <2>3, Zenon DEF Recursion
  <2>5. PICK N0, deps0, V0, step0 : N0 = N /\ deps0 = deps /\ V0 = V /\ step0 = step
    OBVIOUS
  <2>6. Recursion(N0, deps0, V0, step0)
    BY <2>4, <2>5
  <2>7. \E f \in [N0 -> V0] : \A x \in N0 : f[x] = step0[x][f]
    BY ONLY <2>6, Solution
  <2> QED BY <2>5, <2>7
<1>6. PICK f \in [N -> V] : \A x \in N : f[x] = PropAt(n, S, fan, f, x)
  <2> HIDE DEF N, V, step
  <2> QED BY ONLY <1>2, <1>5, Zenon
<1>7. f = [x \in N |-> PropAt(n, S, fan, f, x)]
  <2> HIDE DEF N, V
  <2> QED BY <1>6
<1>8. PICK p : p = prop(n, S, fan)
  OBVIOUS
<1>9. p = [x \in N |-> PropAt(n, S, fan, p, x)]
  <2>1. p = CHOOSE g : g = [x \in N |-> PropAt(n, S, fan, g, x)]
    BY <1>8, PropIs
  <2>2. \E g : g = [x \in N |-> PropAt(n, S, fan, g, x)]
    BY <1>7
  <2> HIDE DEF N
  <2> QED BY ONLY <2>1, <2>2, Zenon
<1>10. \A x \in N : p[x] = PropAt(n, S, fan, p, x)
  BY <1>9
<1>11. \A x \in N : p[x] = f[x]
  <2> DEFINE G == {x \in N : p[x] = f[x]}
  <2>1. ASSUME NEW x \in N, deps[x] \cap (N \ G) = {} PROVE x \in G
    <3>1. \A y \in deps[x] : p[y] = f[y]
      BY <1>1, <2>1
    <3> QED BY <1>4, <1>6, <1>10, <3>1
  <2>2. N \subseteq G
    <3> HIDE DEF G, N, deps
    <3> QED BY <1>1, <2>1, FoundedInduction
  <2> QED BY <2>2
<1> QED BY <1>6, <1>8, <1>10, <1>11

\* One step of the backward pass.
BackAt(n, E, f, x) ==
  MaxOf((IF x \in E THEN {0} ELSE {})
        \union {f[r[1]] + PinDelay(n.gate[r[1]].cell, r[2]) :
                  r \in {p \in PinsOn(n, x) : f[p[1]] # NEG}})

LEMMA BackIs ==
  ASSUME NEW n, NEW E
  PROVE  back(n, E) = CHOOSE f : f = [x \in Net(n) |-> BackAt(n, E, f, x)]
BY Zenon DEF back, BackAt

\* What is left by the arcs out of a net.
Left(n, E, f, x) == (IF x \in E THEN {0} ELSE {})
                    \cup {f[a[1]] + a[2] : a \in {b \in Out(n, x) : f[b[1]] # NEG}}

LEMMA BackAtArcs ==
  ASSUME NEW n, NEW E, NEW f, NEW x
  PROVE  BackAt(n, E, f, x) = MaxOf(Left(n, E, f, x))
<1> DEFINE T == {f[r[1]] + PinDelay(n.gate[r[1]].cell, r[2]) :
                   r \in {p \in PinsOn(n, x) : f[p[1]] # NEG}}
           W == {f[a[1]] + a[2] : a \in {b \in Out(n, x) : f[b[1]] # NEG}}
<1>1. ASSUME NEW k, k \in T PROVE k \in W
  <2>1. PICK r \in PinsOn(n, x) : f[r[1]] # NEG /\ k = f[r[1]] + PinDelay(n.gate[r[1]].cell, r[2])
    BY <1>1
  <2>2. PICK a \in Out(n, x) : a = <<r[1], PinDelay(n.gate[r[1]].cell, r[2])>>
    BY DEF Out
  <2>3. a[1] = r[1] /\ a[2] = PinDelay(n.gate[r[1]].cell, r[2])
    BY <2>2
  <2> QED BY <2>1, <2>3
<1>2. ASSUME NEW k, k \in W PROVE k \in T
  <2>1. PICK a \in Out(n, x) : f[a[1]] # NEG /\ k = f[a[1]] + a[2]
    BY <1>2
  <2>2. PICK r \in PinsOn(n, x) : a = <<r[1], PinDelay(n.gate[r[1]].cell, r[2])>>
    BY DEF Out
  <2>3. a[1] = r[1] /\ a[2] = PinDelay(n.gate[r[1]].cell, r[2])
    BY <2>2
  <2> QED BY <2>1, <2>3
<1>3. T = W
  <2> HIDE DEF T, W
  <2> QED BY <1>1, <1>2
<1> QED BY <1>3 DEF BackAt, Left

LEMMA BackAtIs ==
  ASSUME NEW n, Netlist(n), NEW E, NEW x \in Net(n), NEW f,
         \A a \in Out(n, x) : f[a[1]] \in Nat \cup {NEG}
  PROVE  /\ BackAt(n, E, f, x) \in Nat \cup {NEG}
         /\ \A A, U : /\ Reached(Out(n, x), A, f)
                       /\ Gathered(Out(n, x), A, IF x \in E THEN {0} ELSE {}, U)
                      => IsMax(U, BackAt(n, E, f, x))
<1>1. PICK N, R, all, base : N = Net(n) /\ R = Out(n, x) /\ all = Left(n, E, f, x)
                             /\ base = IF x \in E THEN {0} ELSE {}
  OBVIOUS
<1>2. Arcs(N, R)
  BY <1>1, ArcsAre
<1>3. \A a \in R : f[a[1]] \in Nat \cup {NEG}
  BY <1>1
<1>4. all = base \cup {f[a[1]] + a[2] : a \in {b \in R : f[b[1]] # NEG}}
  BY <1>1 DEF Left
<1>5. IsFiniteSet(base) /\ base \subseteq Nat
  <2>1. IsFiniteSet({}) /\ IsFiniteSet({0})
    BY FS_EmptySet, FS_Singleton
  <2> QED BY <1>1, <2>1
<1>6. /\ MaxOf(all) \in Nat \cup {NEG}
      /\ \A A, U : Reached(R, A, f) /\ Gathered(R, A, base, U) => IsMax(U, MaxOf(all))
  <2>1. Arriving(N, R, f, base, all)
    BY <1>2, <1>3, <1>4, <1>5 DEF Arriving
  <2> QED BY ONLY <2>1, ArcsMax
<1>7. BackAt(n, E, f, x) = MaxOf(all)
  BY <1>1, BackAtArcs
<1> QED BY ONLY <1>1, <1>6, <1>7

\* The backward pass is defined: it does its step at each net.
LEMMA BackUnfolds ==
  ASSUME NEW n, Netlist(n), NEW E
  PROVE  \A x \in Net(n) : /\ back(n, E)[x] = BackAt(n, E, back(n, E), x)
                           /\ back(n, E)[x] \in Nat \cup {NEG}
<1> DEFINE N == Net(n)
           V == Nat \cup {NEG}
           step == [x \in N |-> [f \in [N -> V] |-> BackAt(n, E, f, x)]]
           deps == Users(n)
<1>1. /\ IsFiniteSet(N) /\ (\A x \in N : deps[x] \subseteq N) /\ Founded(N, deps)
      /\ \A x \in N : \A a \in Out(n, x) : a[1] \in deps[x]
  <2>1. \A x \in N : deps[x] = {a[1] : a \in Out(n, x)}
    BY DEF Users
  <2>2. \A x \in N : \A a \in Out(n, x) : a[1] \in N
    BY ArcsAre DEF Arcs
  <2> QED BY <2>1, <2>2, NetlistIs, NetsFounded
<1>2. \A x \in N : \A f \in [N -> V] : step[x][f] = BackAt(n, E, f, x)
  OBVIOUS
<1>3. ASSUME NEW x \in N, NEW f \in [N -> V] PROVE BackAt(n, E, f, x) \in V
  <2>1. \A a \in Out(n, x) : f[a[1]] \in V
    BY <1>1
  <2> QED BY <2>1, BackAtIs
<1>4. ASSUME NEW x \in N, NEW f, NEW g, \A y \in deps[x] : f[y] = g[y]
      PROVE  BackAt(n, E, f, x) = BackAt(n, E, g, x)
  <2>1. \A a \in Out(n, x) : f[a[1]] = g[a[1]]
    BY <1>1, <1>4
  <2>2. {f[a[1]] + a[2] : a \in {b \in Out(n, x) : f[b[1]] # NEG}}
          = {g[a[1]] + a[2] : a \in {b \in Out(n, x) : g[b[1]] # NEG}}
    BY <2>1
  <2>3. Left(n, E, f, x) = Left(n, E, g, x)
    BY <2>2 DEF Left
  <2> QED BY <2>3, BackAtArcs
<1>5. \E f \in [N -> V] : \A x \in N : f[x] = step[x][f]
  <2>1. \A x \in N : \A f \in [N -> V] : step[x][f] \in V
    BY <1>2, <1>3
  <2>2. \A x \in N : \A f, g \in [N -> V] :
          (\A y \in deps[x] : f[y] = g[y]) => step[x][f] = step[x][g]
    BY <1>2, <1>4
  <2>3. V # {}
    OBVIOUS
  <2> HIDE DEF N, V, step, deps
  <2>4. Recursion(N, deps, V, step)
    BY ONLY <1>1, <2>1, <2>2, <2>3, Zenon DEF Recursion
  <2>5. PICK N0, deps0, V0, step0 : N0 = N /\ deps0 = deps /\ V0 = V /\ step0 = step
    OBVIOUS
  <2>6. Recursion(N0, deps0, V0, step0)
    BY <2>4, <2>5
  <2>7. \E f \in [N0 -> V0] : \A x \in N0 : f[x] = step0[x][f]
    BY ONLY <2>6, Solution
  <2> QED BY <2>5, <2>7
<1>6. PICK f \in [N -> V] : \A x \in N : f[x] = BackAt(n, E, f, x)
  <2> HIDE DEF N, V, step
  <2> QED BY ONLY <1>2, <1>5, Zenon
<1>7. f = [x \in N |-> BackAt(n, E, f, x)]
  <2> HIDE DEF N, V
  <2> QED BY <1>6
<1>8. PICK p : p = back(n, E)
  OBVIOUS
<1>9. p = [x \in N |-> BackAt(n, E, p, x)]
  <2>1. p = CHOOSE g : g = [x \in N |-> BackAt(n, E, g, x)]
    BY <1>8, BackIs
  <2>2. \E g : g = [x \in N |-> BackAt(n, E, g, x)]
    BY <1>7
  <2> HIDE DEF N
  <2> QED BY ONLY <2>1, <2>2, Zenon
<1>10. \A x \in N : p[x] = BackAt(n, E, p, x)
  BY <1>9
<1>11. \A x \in N : p[x] = f[x]
  <2> DEFINE G == {x \in N : p[x] = f[x]}
  <2>1. ASSUME NEW x \in N, deps[x] \cap (N \ G) = {} PROVE x \in G
    <3>1. \A y \in deps[x] : p[y] = f[y]
      BY <1>1, <2>1
    <3> QED BY <1>4, <1>6, <1>10, <3>1
  <2>2. N \subseteq G
    <3> HIDE DEF G, N, deps
    <3> QED BY <1>1, <2>1, FoundedInduction
  <2> QED BY <2>2
<1> QED BY <1>6, <1>8, <1>10, <1>11

\* The ways to a net, by the pin they come in by.
WaysAt(n, from, fan, f, x) ==
  (IF x = from THEN {IF fan THEN fo(n, x) ELSE 0} ELSE {})
  \union (IF x \notin DOMAIN n.gate THEN {}
          ELSE UNION {{k + PinDelay(n.gate[x].cell, pin) + (IF fan THEN fo(n, x) ELSE 0) :
                         k \in f[n.gate[x].pins[pin]]} : pin \in DOMAIN n.gate[x].pins})

LEMMA WaysIs ==
  ASSUME NEW n, NEW from, NEW fan
  PROVE  Ways(n, from, fan) = CHOOSE f : f = [x \in Net(n) |-> WaysAt(n, from, fan, f, x)]
BY Zenon DEF Ways, WaysAt

\* A way to a net is the empty one, or a way to what a pin of its gate reads
\* and that pin's arc.
Comes(n, from, fan, f, x, k) ==
  \/ k = Term(n, x, fan) /\ x = from
  \/ \E a \in Into(n, x) : \E j \in f[a[1]] : k = j + a[2] + Term(n, x, fan)

LEMMA WaysAtArcs ==
  ASSUME NEW n, NEW from, NEW fan, NEW f, NEW x, NEW k
  PROVE  k \in WaysAt(n, from, fan, f, x) <=> Comes(n, from, fan, f, x, k)
<1> DEFINE g == n.gate[x]
           t == Term(n, x, fan)
           Pinned == \E pin \in DOMAIN g.pins : \E j \in f[g.pins[pin]] :
                       k = j + PinDelay(g.cell, pin) + t
<1>1. CASE x \notin DOMAIN n.gate
  BY <1>1 DEF WaysAt, Comes, Into, Term
<1>2. CASE x \in DOMAIN n.gate
  <2>1. k \in WaysAt(n, from, fan, f, x) <=> (k = t /\ x = from) \/ Pinned
    BY <1>2 DEF WaysAt, Term
  <2>2. ASSUME Pinned PROVE Comes(n, from, fan, f, x, k)
    <3>1. PICK pin \in DOMAIN g.pins : \E j \in f[g.pins[pin]] : k = j + PinDelay(g.cell, pin) + t
      BY <2>2
    <3>2. <<g.pins[pin], PinDelay(g.cell, pin)>> \in Into(n, x)
      BY <1>2 DEF Into
    <3>3. PICK a \in Into(n, x) : a = <<g.pins[pin], PinDelay(g.cell, pin)>>
      BY <3>2
    <3>4. a[1] = g.pins[pin] /\ a[2] = PinDelay(g.cell, pin)
      BY <3>3
    <3> QED BY <3>1, <3>4 DEF Comes
  <2>3. ASSUME Comes(n, from, fan, f, x, k), ~(k = t /\ x = from) PROVE Pinned
    <3>1. PICK a \in Into(n, x) : \E j \in f[a[1]] : k = j + a[2] + t
      BY <2>3 DEF Comes
    <3>2. PICK pin \in DOMAIN g.pins : a = <<g.pins[pin], PinDelay(g.cell, pin)>>
      BY <1>2 DEF Into
    <3>3. a[1] = g.pins[pin] /\ a[2] = PinDelay(g.cell, pin)
      BY <3>2
    <3> QED BY <3>1, <3>3
  <2>4. k = t /\ x = from => Comes(n, from, fan, f, x, k)
    BY DEF Comes
  <2> HIDE DEF Pinned, t
  <2> QED BY <2>1, <2>2, <2>3, <2>4
<1> QED BY <1>1, <1>2

LEMMA WaysUnfolds ==
  ASSUME NEW n, Netlist(n), NEW from, NEW fan
  PROVE  \A x \in Net(n) :
           /\ Ways(n, from, fan)[x] \subseteq Nat
           /\ \A k : k \in Ways(n, from, fan)[x] <=> Comes(n, from, fan, Ways(n, from, fan), x, k)
<1> DEFINE N == Net(n)
           V == SUBSET Nat
           step == [x \in N |-> [f \in [N -> V] |-> WaysAt(n, from, fan, f, x)]]
           deps == Deps(n)
<1>1. /\ IsFiniteSet(N) /\ (\A x \in N : deps[x] \subseteq N) /\ Founded(N, deps)
      /\ \A x \in N : \A a \in Into(n, x) : a[1] \in deps[x] /\ a[1] \in N /\ a[2] \in Nat
  <2>1. \A x \in N : deps[x] = {a[1] : a \in Into(n, x)}
    BY DEF Deps
  <2>2. \A x \in N : \A a \in Into(n, x) : a[1] \in N /\ a[2] \in Nat
    BY ArcsAre DEF Arcs
  <2> QED BY <2>1, <2>2, NetlistIs, NetsFounded
<1>2. \A x \in N : \A f \in [N -> V] : step[x][f] = WaysAt(n, from, fan, f, x)
  OBVIOUS
<1>3. ASSUME NEW x \in N, NEW f \in [N -> V] PROVE WaysAt(n, from, fan, f, x) \in V
  <2>1. ASSUME NEW k \in WaysAt(n, from, fan, f, x) PROVE k \in Nat
    <3>1. Comes(n, from, fan, f, x, k) /\ Term(n, x, fan) \in Nat
      BY WaysAtArcs, TermIs
    <3>2. CASE k = Term(n, x, fan)
      BY <3>1, <3>2
    <3>3. CASE \E a \in Into(n, x) : \E j \in f[a[1]] : k = j + a[2] + Term(n, x, fan)
      <4>1. PICK a \in Into(n, x) : \E j \in f[a[1]] : k = j + a[2] + Term(n, x, fan)
        BY <3>3
      <4>2. f[a[1]] \in SUBSET Nat /\ a[2] \in Nat
        BY <1>1, <4>1
      <4>3. PICK j \in Nat : k = j + a[2] + Term(n, x, fan)
        BY <4>1, <4>2
      <4> QED BY <3>1, <4>2, <4>3
    <3> QED BY <3>1, <3>2, <3>3 DEF Comes
  <2> QED BY <2>1
<1>4. ASSUME NEW x \in N, NEW f, NEW g, \A y \in deps[x] : f[y] = g[y]
      PROVE  WaysAt(n, from, fan, f, x) = WaysAt(n, from, fan, g, x)
  <2>1. \A a \in Into(n, x) : f[a[1]] = g[a[1]]
    BY <1>1, <1>4
  <2>2. \A k : Comes(n, from, fan, f, x, k) <=> Comes(n, from, fan, g, x, k)
    BY <2>1 DEF Comes
  <2>3. \A k : k \in WaysAt(n, from, fan, f, x) <=> k \in WaysAt(n, from, fan, g, x)
    BY <2>2, WaysAtArcs
  <2> QED BY <2>3
<1>5. \E f \in [N -> V] : \A x \in N : f[x] = step[x][f]
  <2>1. \A x \in N : \A f \in [N -> V] : step[x][f] \in V
    BY <1>2, <1>3
  <2>2. \A x \in N : \A f, g \in [N -> V] :
          (\A y \in deps[x] : f[y] = g[y]) => step[x][f] = step[x][g]
    BY <1>2, <1>4
  <2>3. V # {}
    OBVIOUS
  <2> HIDE DEF N, V, step, deps
  <2>4. Recursion(N, deps, V, step)
    BY ONLY <1>1, <2>1, <2>2, <2>3, Zenon DEF Recursion
  <2>5. PICK N0, deps0, V0, step0 : N0 = N /\ deps0 = deps /\ V0 = V /\ step0 = step
    OBVIOUS
  <2>6. Recursion(N0, deps0, V0, step0)
    BY <2>4, <2>5
  <2>7. \E f \in [N0 -> V0] : \A x \in N0 : f[x] = step0[x][f]
    BY ONLY <2>6, Solution
  <2> QED BY <2>5, <2>7
<1>6. PICK f \in [N -> V] : \A x \in N : f[x] = WaysAt(n, from, fan, f, x)
  <2> HIDE DEF N, V, step
  <2> QED BY ONLY <1>2, <1>5, Zenon
<1>7. f = [x \in N |-> WaysAt(n, from, fan, f, x)]
  <2> HIDE DEF N, V
  <2> QED BY <1>6
<1>8. PICK p : p = Ways(n, from, fan)
  OBVIOUS
<1>9. p = [x \in N |-> WaysAt(n, from, fan, p, x)]
  <2>1. p = CHOOSE g : g = [x \in N |-> WaysAt(n, from, fan, g, x)]
    BY <1>8, WaysIs
  <2>2. \E g : g = [x \in N |-> WaysAt(n, from, fan, g, x)]
    BY <1>7
  <2> HIDE DEF N
  <2> QED BY ONLY <2>1, <2>2, Zenon
<1>10. \A x \in N : p[x] = WaysAt(n, from, fan, p, x)
  BY <1>9
<1>11. \A x \in N : p[x] = f[x]
  <2> DEFINE G == {x \in N : p[x] = f[x]}
  <2>1. ASSUME NEW x \in N, deps[x] \cap (N \ G) = {} PROVE x \in G
    <3>1. \A y \in deps[x] : p[y] = f[y]
      BY <1>1, <2>1
    <3> QED BY <1>4, <1>6, <1>10, <3>1
  <2>2. N \subseteq G
    <3> HIDE DEF G, N, deps
    <3> QED BY <1>1, <2>1, FoundedInduction
  <2> QED BY <2>2
<1>12. ASSUME NEW x \in N
       PROVE  p[x] \subseteq Nat /\ \A k : k \in p[x] <=> Comes(n, from, fan, p, x, k)
  <2>1. p[x] \in V
    BY <1>6, <1>11
  <2>2. \A k : k \in WaysAt(n, from, fan, p, x) <=> Comes(n, from, fan, p, x, k)
    BY WaysAtArcs
  <2> QED BY <1>10, <2>1, <2>2
<1> QED BY <1>8, <1>12

-----------------------------------------------------------------------------
\* The ways from the nets of S to each net, and from each net to those of E.
From(n, S, fan) == [x \in Net(n) |-> {k \in Nat : \E q \in S : k \in Ways(n, q, fan)[x]}]
To(n, E) == [x \in Net(n) |-> {k \in Nat : \E e \in E : k \in Ways(n, x, FALSE)[e]}]

LEMMA FromIs ==
  ASSUME NEW n, Netlist(n), NEW S, NEW fan
  PROVE  \A x \in Net(n) :
           /\ From(n, S, fan)[x] \subseteq Nat
           /\ \A k : k \in From(n, S, fan)[x] <=> \E q \in S : k \in Ways(n, q, fan)[x]
<1>1. \A x \in Net(n) : \A q \in S : Ways(n, q, fan)[x] \subseteq Nat
  BY WaysUnfolds
<1> QED BY <1>1 DEF From

LEMMA ToIs ==
  ASSUME NEW n, Netlist(n), NEW E, E \subseteq Net(n)
  PROVE  \A x \in Net(n) :
           /\ To(n, E)[x] \subseteq Nat
           /\ \A k : k \in To(n, E)[x] <=> \E e \in E : k \in Ways(n, x, FALSE)[e]
<1>1. \A x \in Net(n) : \A e \in E : Ways(n, x, FALSE)[e] \subseteq Nat
  BY WaysUnfolds
<1> QED BY <1>1 DEF To

\* The forward pass from ports and flops is the longest of the ways from them.
LEMMA PropMeasures ==
  ASSUME NEW n, Netlist(n), NEW S, S \subseteq Net(n), S \cap DOMAIN n.gate = {}, NEW fan
  PROVE  \A x \in Net(n) : IsMax(From(n, S, fan)[x], prop(n, S, fan)[x])
<1> DEFINE N == Net(n)
           A == From(n, S, fan)
           p == prop(n, S, fan)
           G == {x \in N : IsMax(A[x], p[x])}
           Via(x, k) == \E a \in Into(n, x) : \E j \in A[a[1]] : k = j + a[2] + Term(n, x, fan)
<1>1. \A x \in N : /\ A[x] \subseteq Nat /\ p[x] \in Nat \cup {NEG}
                   /\ p[x] = PropAt(n, S, fan, p, x) /\ Term(n, x, fan) \in Nat
                   /\ \A a \in Into(n, x) : a[1] \in N /\ a[1] \in Deps(n)[x]
                   /\ x \in S => Into(n, x) = {}
  <2>1. \A x \in N : A[x] \subseteq Nat
    BY FromIs
  <2>2. \A x \in N : p[x] \in Nat \cup {NEG} /\ p[x] = PropAt(n, S, fan, p, x)
    BY PropUnfolds
  <2>3. \A x \in N : \A a \in Into(n, x) : a[1] \in N
    BY ArcsAre DEF Arcs
  <2>4. \A x \in N : \A a \in Into(n, x) : a[1] \in Deps(n)[x]
    BY DEF Deps
  <2>5. \A x \in N : x \in S => Into(n, x) = {}
    BY DEF Into
  <2>6. \A x \in N : Term(n, x, fan) \in Nat
    BY TermIs
  <2> HIDE DEF A, p, N
  <2> QED BY <2>1, <2>2, <2>3, <2>4, <2>5, <2>6
<1>2. ASSUME NEW x \in N, NEW k
      PROVE  k \in A[x] <=> (k = Term(n, x, fan) /\ x \in S) \/ Via(x, k)
  <2>1. k \in A[x] <=> \E q \in S : k \in Ways(n, q, fan)[x]
    BY FromIs
  <2>2. \A q \in S : k \in Ways(n, q, fan)[x] <=>
                       \/ k = Term(n, x, fan) /\ x = q
                       \/ \E a \in Into(n, x) : \E j \in Ways(n, q, fan)[a[1]] :
                            k = j + a[2] + Term(n, x, fan)
    BY WaysUnfolds DEF Comes
  <2>3. \A a \in Into(n, x) : \A j : j \in A[a[1]] <=> \E q \in S : j \in Ways(n, q, fan)[a[1]]
    BY <1>1, FromIs
  <2> HIDE DEF A
  <2> QED BY ONLY <2>1, <2>2, <2>3
<1>3. ASSUME NEW x \in N, Deps(n)[x] \cap (N \ G) = {} PROVE x \in G
  <2>1. PICK B, f : B = A /\ f = p
    OBVIOUS
  <2>2. \A a \in Into(n, x) : IsMax(B[a[1]], f[a[1]]) /\ B[a[1]] \subseteq Nat
                            /\ f[a[1]] \in Nat \cup {NEG}
    BY <1>1, <1>3, <2>1
  <2>3. Reached(Into(n, x), B, f)
    BY <2>2 DEF Reached
  <2>4. CASE x \in S
    <3>1. p[x] = Term(n, x, fan)
      <4>1. PropAt(n, S, fan, f, x) = Term(n, x, fan)
        BY <2>2, <2>4, PropAtIs
      <4> QED BY <1>1, <2>1, <4>1
    <3>2. \A k : k \in A[x] <=> k = Term(n, x, fan)
      BY <1>1, <1>2, <2>4
    <3> HIDE DEF A, p
    <3> QED BY <1>1, <3>1, <3>2 DEF IsMax
  <2>5. CASE x \notin S
    <3>1. \A U : (\A k : k \in U <=> \E a \in Into(n, x) : \E j \in B[a[1]] :
                           k = j + a[2] + Term(n, x, fan))
             => IsMax(U, PropAt(n, S, fan, f, x))
      BY <2>2, <2>3, <2>5, PropAtIs
    <3>2. \A k : k \in B[x] <=> \E a \in Into(n, x) : \E j \in B[a[1]] :
                   k = j + a[2] + Term(n, x, fan)
      BY <1>2, <2>1, <2>5
    <3>3. IsMax(B[x], PropAt(n, S, fan, f, x))
      BY ONLY <3>1, <3>2
    <3> HIDE DEF A, p
    <3> QED BY <1>1, <2>1, <3>3
  <2> QED BY <2>4, <2>5
<1>4. N \subseteq G
  <2>1. Founded(N, Deps(n))
    BY NetsFounded
  <2> HIDE DEF G, N
  <2> QED BY <1>3, <2>1, FoundedInduction
<1> QED BY <1>4

\* A way from a net is the empty one, or a pin that reads it and a way from
\* what that pin's gate drives: the same ways, taken from their first gate.
LEMMA WaysFromFirst ==
  ASSUME NEW n, Netlist(n), NEW x \in Net(n)
  PROVE  \A e \in Net(n) : \A k :
           k \in Ways(n, x, FALSE)[e] <=>
             \/ k = 0 /\ x = e
             \/ \E b \in Out(n, x) : \E j \in Ways(n, b[1], FALSE)[e] : k = j + b[2]
<1> DEFINE N == Net(n)
           W(q) == Ways(n, q, FALSE)
           First(k, e) == \/ k = 0 /\ x = e
                          \/ \E b \in Out(n, x) : \E j \in W(b[1])[e] : k = j + b[2]
           Last(q, k, e) == \/ k = 0 /\ e = q
                            \/ \E a \in Into(n, e) : \E j \in W(q)[a[1]] : k = j + a[2]
           G == {e \in N : \A k : k \in W(x)[e] <=> First(k, e)}
<1>1. /\ \A e \in N : \A a \in Into(n, e) :
           a[1] \in N /\ a[2] \in Nat /\ a[1] \in Deps(n)[e] /\ a = <<a[1], a[2]>>
      /\ \A b \in Out(n, x) : b[1] \in N /\ b[2] \in Nat /\ b = <<b[1], b[2]>>
      /\ \A y, w : <<y, w>> \in Out(n, x) <=> <<x, w>> \in Into(n, y)
  <2>1. \A e \in N : \A a \in Into(n, e) : a[1] \in N /\ a[2] \in Nat
    BY ArcsAre DEF Arcs
  <2>2. \A b \in Out(n, x) : b[1] \in N /\ b[2] \in Nat
    BY ArcsAre DEF Arcs
  <2>3. \A e \in N : \A a \in Into(n, e) : a = <<a[1], a[2]>>
    BY DEF Into
  <2>4. \A b \in Out(n, x) : b = <<b[1], b[2]>>
    BY DEF Out
  <2>5. \A e \in N : \A a \in Into(n, e) : a[1] \in Deps(n)[e]
    BY DEF Deps
  <2> QED BY <2>1, <2>2, <2>3, <2>4, <2>5, ArcsMeet
<1>2. \A q \in N : \A e \in N : W(q)[e] \subseteq Nat /\ \A k : k \in W(q)[e] <=> Last(q, k, e)
  <2>1. ASSUME NEW q \in N, NEW e \in N
        PROVE  W(q)[e] \subseteq Nat /\ \A k : k \in W(q)[e] <=> Last(q, k, e)
    <3>1. W(q)[e] \subseteq Nat /\ \A k : k \in W(q)[e] <=> Comes(n, q, FALSE, W(q), e, k)
      BY WaysUnfolds
    <3>2. Term(n, e, FALSE) = 0
      BY DEF Term
    <3>3. \A a \in Into(n, e) : \A j \in W(q)[a[1]] : j + a[2] + 0 = j + a[2]
      <4>1. \A a \in Into(n, e) : W(q)[a[1]] \subseteq Nat /\ a[2] \in Nat
        BY <1>1, WaysUnfolds
      <4> HIDE DEF W
      <4>2. ASSUME NEW a \in Into(n, e), NEW j \in W(q)[a[1]] PROVE j + a[2] + 0 = j + a[2]
        <5>1. PICK u \in Nat, v \in Nat : u = j /\ v = a[2]
          BY <4>1
        <5>2. u + v + 0 = u + v
          OBVIOUS
        <5> QED BY <5>1, <5>2
      <4> QED BY ONLY <4>2
    <3>4. \A k : Comes(n, q, FALSE, W(q), e, k) <=> Last(q, k, e)
      <4> HIDE DEF W
      <4> QED BY <3>2, <3>3 DEF Comes
    <3> QED BY ONLY <3>1, <3>4
  <2> QED BY <2>1
<1> HIDE DEF W
<1>3. ASSUME NEW e \in N, Deps(n)[e] \cap (N \ G) = {} PROVE e \in G
  <2>1. \A a \in Into(n, e) : \A j : j \in W(x)[a[1]] <=> First(j, a[1])
    BY <1>1, <1>3
  <2>2. ASSUME NEW k, k \in W(x)[e] PROVE First(k, e)
    <3>1. CASE k = 0 /\ e = x
      BY <3>1
    <3>2. CASE \E a \in Into(n, e) : \E j \in W(x)[a[1]] : k = j + a[2]
      <4>1. PICK a \in Into(n, e) : \E j \in W(x)[a[1]] : k = j + a[2]
        BY <3>2
      <4>2. PICK j \in W(x)[a[1]] : k = j + a[2]
        BY <4>1
      <4>3. a[1] \in N /\ a[2] \in Nat /\ First(j, a[1]) /\ a = <<a[1], a[2]>>
        BY <1>1, <2>1, <4>1, <4>2
      <4>4. CASE j = 0 /\ x = a[1]
        <5>1. PICK b \in Out(n, x) : b = <<e, a[2]>>
          BY <1>1, <4>3, <4>4
        <5>2. b[1] = e /\ b[2] = a[2] /\ 0 \in W(e)[e]
          BY <1>2, <5>1
        <5> QED BY <4>2, <4>4, <5>1, <5>2
      <4>5. CASE \E b \in Out(n, x) : \E i \in W(b[1])[a[1]] : j = i + b[2]
        <5>1. PICK b \in Out(n, x) : \E i \in W(b[1])[a[1]] : j = i + b[2]
          BY <4>5
        <5>2. PICK i \in W(b[1])[a[1]] : j = i + b[2]
          BY <5>1
        <5>3. b[1] \in N /\ b[2] \in Nat
          BY <1>1, <5>1
        <5>4. i \in Nat
          BY <1>2, <4>3, <5>2, <5>3
        <5>5. i + a[2] \in W(b[1])[e]
          BY <1>2, <4>1, <5>2, <5>3
        <5>6. k = (i + a[2]) + b[2]
          BY <4>2, <4>3, <5>2, <5>3, <5>4
        <5> QED BY <5>1, <5>5, <5>6
      <4> QED BY <4>3, <4>4, <4>5
    <3> QED BY <1>2, <2>2, <3>1, <3>2
  <2>3. ASSUME NEW k, First(k, e) PROVE k \in W(x)[e]
    <3>1. CASE k = 0 /\ x = e
      BY <1>2, <3>1
    <3>2. CASE \E b \in Out(n, x) : \E j \in W(b[1])[e] : k = j + b[2]
      <4>1. PICK b \in Out(n, x) : \E j \in W(b[1])[e] : k = j + b[2]
        BY <3>2
      <4>2. PICK j \in W(b[1])[e] : k = j + b[2]
        BY <4>1
      <4>3. b[1] \in N /\ b[2] \in Nat /\ b = <<b[1], b[2]>>
        BY <1>1, <4>1
      <4>4. CASE j = 0 /\ e = b[1]
        <5>1. PICK a \in Into(n, e) : a = <<x, b[2]>>
          BY <1>1, <4>3, <4>4
        <5>2. a[1] = x /\ a[2] = b[2] /\ 0 \in W(x)[x]
          BY <1>2, <5>1
        <5> QED BY <1>2, <4>2, <4>4, <5>1, <5>2
      <4>5. CASE \E a \in Into(n, e) : \E i \in W(b[1])[a[1]] : j = i + a[2]
        <5>1. PICK a \in Into(n, e) : \E i \in W(b[1])[a[1]] : j = i + a[2]
          BY <4>5
        <5>2. PICK i \in W(b[1])[a[1]] : j = i + a[2]
          BY <5>1
        <5>3. a[1] \in N /\ a[2] \in Nat
          BY <1>1, <5>1
        <5>4. i \in Nat
          BY <1>2, <4>3, <5>2, <5>3
        <5>5. i + b[2] \in W(x)[a[1]]
          BY <2>1, <4>1, <5>1, <5>2
        <5>6. k = (i + b[2]) + a[2]
          BY <4>2, <4>3, <5>2, <5>3, <5>4
        <5> QED BY <1>2, <5>1, <5>5, <5>6
      <4> QED BY <1>2, <4>2, <4>3, <4>4, <4>5
    <3> QED BY <2>3, <3>1, <3>2
  <2> QED BY <2>2, <2>3
<1>4. N \subseteq G
  <2>1. Founded(N, Deps(n))
    BY NetsFounded
  <2> HIDE DEF G, N
  <2> QED BY <1>3, <2>1, FoundedInduction
<1> QED BY <1>4 DEF W

\* The backward pass is the longest of the ways to its ends.
LEMMA BackMeasures ==
  ASSUME NEW n, Netlist(n), NEW E, E \subseteq Net(n)
  PROVE  \A x \in Net(n) : IsMax(To(n, E)[x], back(n, E)[x])
<1> DEFINE N == Net(n)
           A == To(n, E)
           p == back(n, E)
           G == {x \in N : IsMax(A[x], p[x])}
<1>1. \A x \in N : /\ A[x] \subseteq Nat /\ p[x] \in Nat \cup {NEG} /\ p[x] = BackAt(n, E, p, x)
                   /\ \A b \in Out(n, x) : b[1] \in N /\ b[1] \in Users(n)[x]
  <2>1. \A x \in N : A[x] \subseteq Nat
    BY ToIs
  <2>2. \A x \in N : p[x] \in Nat \cup {NEG} /\ p[x] = BackAt(n, E, p, x)
    BY BackUnfolds
  <2>3. \A x \in N : \A b \in Out(n, x) : b[1] \in N
    BY ArcsAre DEF Arcs
  <2>4. \A x \in N : \A b \in Out(n, x) : b[1] \in Users(n)[x]
    BY DEF Users
  <2> HIDE DEF A, p, N
  <2> QED BY <2>1, <2>2, <2>3, <2>4
<1>2. ASSUME NEW x \in N, NEW k
      PROVE  k \in A[x] <=> \/ k = 0 /\ x \in E
                            \/ \E b \in Out(n, x) : \E j \in A[b[1]] : k = j + b[2]
  <2>1. \A y \in N : \A j : j \in A[y] <=> \E e \in E : j \in Ways(n, y, FALSE)[e]
    BY ToIs
  <2>2. \A e \in E : k \in Ways(n, x, FALSE)[e] <=>
                       \/ k = 0 /\ x = e
                       \/ \E b \in Out(n, x) : \E j \in Ways(n, b[1], FALSE)[e] : k = j + b[2]
    <3>1. \A e \in N : \A i : i \in Ways(n, x, FALSE)[e] <=>
                         \/ i = 0 /\ x = e
                         \/ \E b \in Out(n, x) : \E j \in Ways(n, b[1], FALSE)[e] : i = j + b[2]
      BY WaysFromFirst
    <3> QED BY <3>1
  <2>3. \A b \in Out(n, x) : b[1] \in N
    BY <1>1
  <2>4. k \in A[x] <=> \E e \in E : k \in Ways(n, x, FALSE)[e]
    BY <2>1
  <2> HIDE DEF A, N
  <2>5. ASSUME k \in A[x]
        PROVE  \/ k = 0 /\ x \in E
               \/ \E b \in Out(n, x) : \E j \in A[b[1]] : k = j + b[2]
    <3>1. PICK e \in E : k \in Ways(n, x, FALSE)[e]
      BY ONLY <2>4, <2>5
    <3>2. \/ k = 0 /\ x = e
          \/ \E b \in Out(n, x) : \E j \in Ways(n, b[1], FALSE)[e] : k = j + b[2]
      BY ONLY <2>2, <3>1
    <3> QED BY ONLY <2>1, <2>3, <3>1, <3>2
  <2>6. ASSUME k = 0 /\ x \in E PROVE k \in A[x]
    BY ONLY <2>2, <2>4, <2>6
  <2>7. ASSUME NEW b \in Out(n, x), NEW j \in A[b[1]], k = j + b[2] PROVE k \in A[x]
    <3>1. PICK e \in E : j \in Ways(n, b[1], FALSE)[e]
      BY ONLY <2>1, <2>3, <2>7
    <3> QED BY ONLY <2>2, <2>4, <2>7, <3>1
  <2> QED BY ONLY <2>5, <2>6, <2>7
<1>3. ASSUME NEW x \in N, Users(n)[x] \cap (N \ G) = {} PROVE x \in G
  <2>1. PICK B, f, base : B = A /\ f = p /\ base = IF x \in E THEN {0} ELSE {}
    OBVIOUS
  <2>2. \A b \in Out(n, x) : IsMax(B[b[1]], f[b[1]]) /\ B[b[1]] \subseteq Nat
                             /\ f[b[1]] \in Nat \cup {NEG}
    BY <1>1, <1>3, <2>1
  <2>3. Reached(Out(n, x), B, f)
    BY <2>2 DEF Reached
  <2>4. Gathered(Out(n, x), B, base, B[x])
    <3>1. \A k : k \in base <=> k = 0 /\ x \in E
      BY <2>1
    <3> HIDE DEF A
    <3> QED BY <1>2, <2>1, <3>1 DEF Gathered
  <2>5. IsMax(B[x], BackAt(n, E, f, x))
    <3>1. \A C, U : Reached(Out(n, x), C, f) /\ Gathered(Out(n, x), C, base, U)
                      => IsMax(U, BackAt(n, E, f, x))
      BY <2>1, <2>2, BackAtIs
    <3> QED BY ONLY <2>3, <2>4, <3>1
  <2> HIDE DEF A, p
  <2> QED BY <1>1, <2>1, <2>5
<1>4. N \subseteq G
  <2>1. Founded(N, Users(n))
    BY NetsFounded
  <2> HIDE DEF G, N
  <2> QED BY <1>3, <2>1, FoundedInduction
<1> QED BY <1>4

\* The largest of a set is the CHOOSE the models make of it.
LEMMA MaxOfMaxIs ==
  ASSUME NEW S, S \subseteq Nat, NEW m, IsMax(S, m)
  PROVE  MaxOf(S) = m
<1>1. CASE S = {}
  BY <1>1 DEF IsMax, MaxOf
<1>2. CASE S # {}
  <2>1. m \in S /\ \A y \in S : m >= y
    BY <1>2 DEF IsMax
  <2>2. MaxOf(S) = CHOOSE x \in S : \A y \in S : x >= y
    BY <1>2, Zenon DEF MaxOf
  <2>3. MaxOf(S) \in S /\ \A y \in S : MaxOf(S) >= y
    BY <2>1, <2>2
  <2>4. PICK a : a = MaxOf(S)
    OBVIOUS
  <2>5. a \in S /\ a >= m /\ m >= a
    BY <2>1, <2>3, <2>4
  <2>6. a \in Nat /\ m \in Nat
    BY <2>1, <2>5
  <2> QED BY <2>4, <2>5, <2>6
<1> QED BY <1>1, <1>2

\* The same, of sets that are given a name.
Largests(D, A, m, T, U) ==
  /\ IsFiniteSet(D) /\ \A d \in D : A[d] \subseteq Nat /\ IsMax(A[d], m[d])
  /\ T = {m[d] : d \in D} /\ \A k : k \in U <=> \E d \in D : k \in A[d]

LEMMA LargestsMax ==
  ASSUME NEW D, NEW A, NEW m, NEW T, NEW U, Largests(D, A, m, T, U)
  PROVE  IsMax(U, MaxOf(T)) /\ U \subseteq Nat
BY MaxOfMax DEF Largests

\* The nets a signal starts from, and those it ends at.
Starts(n) == n.ins \cup Q_nets(n)

LEMMA EndsAre ==
  ASSUME NEW n, Netlist(n)
  PROVE  /\ Starts(n) \subseteq Net(n) /\ Starts(n) \cap DOMAIN n.gate = {}
         /\ n.outs \subseteq Net(n) /\ D_nets(n) \subseteq Net(n)
         /\ IsFiniteSet(Q_nets(n)) /\ IsFiniteSet(D_nets(n))
<1>1. Q_nets(n) \subseteq Net(n) /\ D_nets(n) \subseteq Net(n) /\ IsFiniteSet(Net(n))
  BY DEF Netlist, Net, Q_nets
<1>2. IsFiniteSet(Q_nets(n)) /\ IsFiniteSet(D_nets(n))
  BY <1>1, FS_Subset
<1> QED BY <1>1, <1>2 DEF Starts, Netlist, Net

\* The ways from one net have a longest, which the forward pass from it finds.
LEMMA WaysLongest ==
  ASSUME NEW n, Netlist(n), NEW q \in Starts(n), NEW fan, NEW x \in Net(n)
  PROVE  LET w == Ways(n, q, fan)[x]
         IN  w \subseteq Nat /\ IsMax(w, MaxOf(w)) /\ prop(n, {q}, fan)[x] = MaxOf(w)
<1>1. {q} \subseteq Net(n) /\ {q} \cap DOMAIN n.gate = {}
  BY EndsAre
<1>2. IsMax(From(n, {q}, fan)[x], prop(n, {q}, fan)[x])
  BY <1>1, PropMeasures
<1>3. From(n, {q}, fan)[x] = Ways(n, q, fan)[x] /\ From(n, {q}, fan)[x] \subseteq Nat
  <2>1. PICK A, B : A = From(n, {q}, fan)[x] /\ B = Ways(n, q, fan)[x]
    OBVIOUS
  <2>2. A \subseteq Nat /\ \A k : k \in A <=> \E z \in {q} : k \in Ways(n, z, fan)[x]
    BY <2>1, FromIs
  <2>3. \A k : k \in A <=> k \in B
    BY <2>1, <2>2
  <2>4. B \subseteq Nat
    BY <1>1, <2>1, WaysUnfolds
  <2>5. A = B
    BY ONLY <2>3
  <2> QED BY <2>1, <2>2, <2>5
<1>4. PICK w, m : w = Ways(n, q, fan)[x] /\ m = prop(n, {q}, fan)[x]
  OBVIOUS
<1>5. w \subseteq Nat /\ IsMax(w, m)
  BY <1>2, <1>3, <1>4
<1>6. MaxOf(w) = m
  BY ONLY <1>5, MaxOfMaxIs
<1> QED BY ONLY <1>4, <1>5, <1>6

\* The longest way from each start to each net, and what v gives of some.
WayMax(n, fan) == [e \in Starts(n) \X Net(n) |-> MaxOf(Ways(n, e[1], fan)[e[2]])]
Rows(v, Q, x) == {v[<<q, x>>] : q \in Q}
Cols(v, D, q) == {v[<<q, d>>] : d \in D}
At(f, D) == {f[d] : d \in D}

LEMMA WayMaxIs ==
  ASSUME NEW n, Netlist(n), NEW fan
  PROVE  \A q \in Starts(n), x \in Net(n) :
           /\ Ways(n, q, fan)[x] \subseteq Nat
           /\ IsMax(Ways(n, q, fan)[x], WayMax(n, fan)[<<q, x>>])
           /\ prop(n, {q}, fan)[x] = WayMax(n, fan)[<<q, x>>]
<1>1. ASSUME NEW q \in Starts(n), NEW x \in Net(n)
      PROVE  /\ Ways(n, q, fan)[x] \subseteq Nat
             /\ IsMax(Ways(n, q, fan)[x], WayMax(n, fan)[<<q, x>>])
             /\ prop(n, {q}, fan)[x] = WayMax(n, fan)[<<q, x>>]
  <2>1. WayMax(n, fan)[<<q, x>>] = MaxOf(Ways(n, q, fan)[x])
    BY DEF WayMax
  <2>2. PICK w, m : w = Ways(n, q, fan)[x] /\ m = WayMax(n, fan)[<<q, x>>]
    OBVIOUS
  <2>3. w \subseteq Nat /\ IsMax(w, MaxOf(w)) /\ prop(n, {q}, fan)[x] = MaxOf(w)
    BY <2>2, WaysLongest
  <2> QED BY ONLY <2>1, <2>2, <2>3
<1> QED BY ONLY <1>1

\* The forward pass from the flops, at one net.
LEMMA PropLongest ==
  ASSUME NEW n, Netlist(n), NEW fan, NEW x \in Net(n)
  PROVE  prop(n, Q_nets(n), fan)[x] = MaxOf(Rows(WayMax(n, fan), Q_nets(n), x))
<1>1. PICK Q, U, m, A, v, w, T : /\ Q = Q_nets(n) /\ U = From(n, Q_nets(n), fan)[x]
                                 /\ m = prop(n, Q_nets(n), fan)[x]
                                 /\ A = [q \in Q_nets(n) |-> Ways(n, q, fan)[x]]
                                 /\ v = WayMax(n, fan)
                                 /\ w = [q \in Q_nets(n) |-> v[<<q, x>>]]
                                 /\ T = Rows(v, Q_nets(n), x)
  OBVIOUS
<1>2. IsFiniteSet(Q) /\ Q \subseteq Net(n) /\ Q \cap DOMAIN n.gate = {} /\ Q \subseteq Starts(n)
  BY <1>1, EndsAre DEF Starts
<1>3. \A q \in Q : A[q] \subseteq Nat /\ IsMax(A[q], w[q])
  BY <1>1, <1>2, WayMaxIs
<1>4. U \subseteq Nat /\ IsMax(U, m) /\ \A k : k \in U <=> \E q \in Q : k \in A[q]
  BY <1>1, <1>2, PropMeasures, FromIs
<1>5. T = {w[q] : q \in Q}
  BY <1>1 DEF Rows
<1>6. IsMax(U, MaxOf(T))
  <2>1. Largests(Q, A, w, T, U)
    BY <1>2, <1>3, <1>4, <1>5 DEF Largests
  <2> QED BY ONLY <2>1, LargestsMax
<1>7. m = MaxOf(T)
  BY ONLY <1>4, <1>6, MaxUnique
<1> QED BY <1>1, <1>7

\* The backward pass, at one flop.
LEMMA BackLongest ==
  ASSUME NEW n, Netlist(n), NEW q \in Starts(n), NEW E, E \subseteq Net(n), IsFiniteSet(E)
  PROVE  back(n, E)[q] = MaxOf(Cols(WayMax(n, FALSE), E, q))
<1>1. PICK U, m, A, v, w, T : /\ U = To(n, E)[q] /\ m = back(n, E)[q]
                              /\ A = [e \in E |-> Ways(n, q, FALSE)[e]]
                              /\ v = WayMax(n, FALSE)
                              /\ w = [e \in E |-> v[<<q, e>>]]
                              /\ T = Cols(v, E, q)
  OBVIOUS
<1>2. q \in Net(n)
  BY EndsAre
<1>3. \A e \in E : A[e] \subseteq Nat /\ IsMax(A[e], w[e])
  <2>1. \A e \in Net(n) : /\ Ways(n, q, FALSE)[e] \subseteq Nat
                          /\ IsMax(Ways(n, q, FALSE)[e], WayMax(n, FALSE)[<<q, e>>])
    BY WayMaxIs
  <2> QED BY <1>1, <2>1
<1>4. U \subseteq Nat /\ IsMax(U, m) /\ \A k : k \in U <=> \E e \in E : k \in A[e]
  BY <1>1, <1>2, BackMeasures, ToIs
<1>5. T = {w[e] : e \in E}
  BY <1>1 DEF Cols
<1>6. IsMax(U, MaxOf(T))
  <2>1. Largests(E, A, w, T, U)
    BY <1>3, <1>4, <1>5 DEF Largests
  <2> QED BY ONLY <2>1, LargestsMax
<1>7. m = MaxOf(T)
  BY ONLY <1>4, <1>6, MaxUnique
<1> QED BY <1>1, <1>7

\* To one end.
LEMMA BackOne ==
  ASSUME NEW n, Netlist(n), NEW q \in Starts(n), NEW o \in Net(n)
  PROVE  back(n, {o})[q] = WayMax(n, FALSE)[<<q, o>>]
<1>1. PICK E : E = {o}
  OBVIOUS
<1>2. q \in Net(n) /\ E \subseteq Net(n)
  BY <1>1, EndsAre
<1>3. PICK w, m, v, A : /\ w = Ways(n, q, FALSE)[o] /\ m = back(n, E)[q]
                        /\ v = WayMax(n, FALSE) /\ A = To(n, E)[q]
  OBVIOUS
<1>4. w \subseteq Nat /\ IsMax(w, v[<<q, o>>])
  BY <1>3, WayMaxIs
<1>5. IsMax(A, m)
  BY <1>2, <1>3, BackMeasures
<1>6. A = w
  <2>1. \A k : k \in A <=> \E e \in E : k \in Ways(n, q, FALSE)[e]
    BY <1>2, <1>3, ToIs
  <2>2. \A k : k \in A <=> k \in w
    BY <1>1, <1>3, <2>1
  <2> QED BY ONLY <2>2
<1>7. m = v[<<q, o>>]
  BY ONLY <1>4, <1>5, <1>6, MaxUnique
<1> QED BY <1>1, <1>3, <1>7

\* Over two sets, the largest by the first, by the second or by pairs is one.

ByRows(v, Q, D) == {MaxOf(Rows(v, Q, d)) : d \in D}
ByCols(v, Q, D) == {MaxOf(Cols(v, D, q)) : q \in Q}

LEMMA MaxOfPairs ==
  ASSUME NEW Q, NEW D, IsFiniteSet(Q), IsFiniteSet(D), NEW A, NEW v,
         \A q \in Q, d \in D : A[<<q, d>>] \subseteq Nat /\ IsMax(A[<<q, d>>], v[<<q, d>>])
  PROVE  /\ MaxOf(At(v, Q \X D)) = MaxOf(ByRows(v, Q, D))
         /\ MaxOf(At(v, Q \X D)) = MaxOf(ByCols(v, Q, D))
<1> DEFINE U == {k \in Nat : \E q \in Q : \E d \in D : k \in A[<<q, d>>]}
           UD == [d \in D |-> {k \in Nat : \E q \in Q : k \in A[<<q, d>>]}]
           UQ == [q \in Q |-> {k \in Nat : \E d \in D : k \in A[<<q, d>>]}]
           md == [d \in D |-> MaxOf({v[<<q, d>>] : q \in Q})]
           mq == [q \in Q |-> MaxOf({v[<<q, d>>] : d \in D})]
<1>1. IsMax(U, MaxOf({v[e] : e \in Q \X D})) /\ U \subseteq Nat
  <2>1. PICK P, T : P = Q \X D /\ T = {v[e] : e \in P}
    OBVIOUS
  <2>2. IsFiniteSet(P)
    BY <2>1, FS_Product
  <2>3. \A e \in P : A[e] \subseteq Nat /\ IsMax(A[e], v[e])
    BY <2>1
  <2>4. \A k : k \in U <=> \E e \in P : k \in A[e]
    <3>1. ASSUME NEW k, k \in U PROVE \E e \in P : k \in A[e]
      <4>1. PICK q \in Q, d \in D : k \in A[<<q, d>>]
        BY <3>1
      <4>2. <<q, d>> \in P
        BY <2>1
      <4> QED BY <4>1, <4>2
    <3>2. ASSUME NEW k, NEW e \in P, k \in A[e] PROVE k \in U
      <4>1. PICK q \in Q, d \in D : e = <<q, d>>
        BY <2>1
      <4> QED BY <2>3, <3>2, <4>1
    <3> HIDE DEF U
    <3> QED BY <3>1, <3>2
  <2>5. Largests(P, A, v, T, U)
    BY ONLY <2>1, <2>2, <2>3, <2>4 DEF Largests
  <2> HIDE DEF U
  <2> QED BY ONLY <2>1, <2>5, LargestsMax
<1>2. ASSUME NEW d \in D PROVE UD[d] \subseteq Nat /\ IsMax(UD[d], md[d])
  <2>1. PICK B, m, T, V : /\ B = [q \in Q |-> A[<<q, d>>]] /\ m = [q \in Q |-> v[<<q, d>>]]
                          /\ T = {m[q] : q \in Q} /\ V = UD[d]
    OBVIOUS
  <2>2. \A q \in Q : B[q] \subseteq Nat /\ IsMax(B[q], m[q])
    BY <2>1
  <2>3. \A k : k \in V <=> \E q \in Q : k \in B[q]
    BY <2>1
  <2>4. IsMax(V, MaxOf(T)) /\ V \subseteq Nat
    <3>1. Largests(Q, B, m, T, V)
      BY ONLY <2>1, <2>2, <2>3, IsFiniteSet(Q) DEF Largests
    <3> QED BY ONLY <3>1, LargestsMax
  <2>5. T = {v[<<q, d>>] : q \in Q}
    BY <2>1
  <2> QED BY <2>1, <2>4, <2>5
<1>3. ASSUME NEW q \in Q PROVE UQ[q] \subseteq Nat /\ IsMax(UQ[q], mq[q])
  <2>1. PICK B, m, T, V : /\ B = [d \in D |-> A[<<q, d>>]] /\ m = [d \in D |-> v[<<q, d>>]]
                          /\ T = {m[d] : d \in D} /\ V = UQ[q]
    OBVIOUS
  <2>2. \A d \in D : B[d] \subseteq Nat /\ IsMax(B[d], m[d])
    BY <2>1
  <2>3. \A k : k \in V <=> \E d \in D : k \in B[d]
    BY <2>1
  <2>4. IsMax(V, MaxOf(T)) /\ V \subseteq Nat
    <3>1. Largests(D, B, m, T, V)
      BY ONLY <2>1, <2>2, <2>3, IsFiniteSet(D) DEF Largests
    <3> QED BY ONLY <3>1, LargestsMax
  <2>5. T = {v[<<q, d>>] : d \in D}
    BY <2>1
  <2> QED BY <2>1, <2>4, <2>5
<1>4. /\ \A k : k \in U <=> \E d \in D : k \in UD[d]
      /\ \A k : k \in U <=> \E q \in Q : k \in UQ[q]
  OBVIOUS
<1>5. PICK W, E, H : W = U /\ E = UD /\ H = UQ
  OBVIOUS
<1>6. PICK f, g, R, S : f = md /\ g = mq /\ R = {f[d] : d \in D} /\ S = {g[q] : q \in Q}
  OBVIOUS
<1>7. /\ \A d \in D : E[d] \subseteq Nat /\ IsMax(E[d], f[d])
      /\ \A q \in Q : H[q] \subseteq Nat /\ IsMax(H[q], g[q])
  BY <1>2, <1>3, <1>5, <1>6
<1>8. IsMax(W, MaxOf(R))
  <2>1. \A k : k \in W <=> \E d \in D : k \in E[d]
    BY <1>4, <1>5
  <2>2. Largests(D, E, f, R, W)
    BY ONLY <1>6, <1>7, <2>1, IsFiniteSet(D) DEF Largests
  <2> QED BY ONLY <2>2, LargestsMax
<1>9. IsMax(W, MaxOf(S))
  <2>1. \A k : k \in W <=> \E q \in Q : k \in H[q]
    BY <1>4, <1>5
  <2>2. Largests(Q, H, g, S, W)
    BY ONLY <1>6, <1>7, <2>1, IsFiniteSet(Q) DEF Largests
  <2> QED BY ONLY <2>2, LargestsMax
<1>10. PICK m : m = MaxOf({v[e] : e \in Q \X D})
  OBVIOUS
<1>11. IsMax(W, m) /\ W \subseteq Nat
  BY <1>1, <1>5, <1>10
<1>12. m = MaxOf(R) /\ m = MaxOf(S)
  BY ONLY <1>8, <1>9, <1>11, MaxUnique
<1>13. R = {MaxOf({v[<<q, d>>] : q \in Q}) : d \in D} /\ S = {MaxOf({v[<<q, d>>] : d \in D}) : q \in Q}
  BY <1>6
<1>14. R = ByRows(v, Q, D) /\ S = ByCols(v, Q, D)
  BY <1>13 DEF ByRows, ByCols, Rows, Cols
<1>15. m = MaxOf(At(v, Q \X D))
  BY <1>10 DEF At
<1> QED BY <1>12, <1>14, <1>15

\* The forward passes from one net each.
PropMax(n, fan) == [e \in Starts(n) \X Net(n) |-> prop(n, {e[1]}, fan)[e[2]]]

LEMMA PropOne ==
  ASSUME NEW n, Netlist(n), NEW fan
  PROVE  PropMax(n, fan) = WayMax(n, fan)
<1>1. PICK N, S, p, w : N = Net(n) /\ S = Starts(n) /\ p = PropMax(n, fan) /\ w = WayMax(n, fan)
  OBVIOUS
<1>2. ASSUME NEW q \in S, NEW x \in N PROVE p[<<q, x>>] = w[<<q, x>>]
  <2>1. prop(n, {q}, fan)[x] = w[<<q, x>>]
    <3>1. q \in Starts(n) /\ x \in Net(n)
      BY <1>1
    <3>2. prop(n, {q}, fan)[x] = WayMax(n, fan)[<<q, x>>]
      BY ONLY Netlist(n), <3>1, WayMaxIs
    <3> QED BY <1>1, <3>2
  <2>2. p[<<q, x>>] = prop(n, {q}, fan)[x]
    BY <1>1 DEF PropMax
  <2> QED BY <2>1, <2>2
<1>3. p = [e \in S \X N |-> p[e]] /\ w = [e \in S \X N |-> w[e]]
  BY <1>1 DEF PropMax, WayMax
<1>4. \A e \in S \X N : p[e] = w[e]
  BY <1>2
<1>5. p = w
  BY ONLY <1>3, <1>4
<1> QED BY <1>1, <1>5

\* Each depth is the longest of the ways it stands for, and what is seen from
\* the flops is what is seen from where their paths end.
Plain(n, q, x) == MaxOf(Ways(n, q, FALSE)[x])
Fanned(n, q, x) == MaxOf(Ways(n, q, TRUE)[x])

LEMMA TimingAgrees ==
  ASSUME NEW n, Netlist(n)
  PROVE  LET t == Timing(n)
             Q == Q_nets(n)
             D == D_nets(n)
         IN  /\ t.p_rr = MaxOf({t.q_flop[q] : q \in Q})
             /\ \A o \in n.outs : t.p_ro[o] = MaxOf({t.q_out[q][o] : q \in Q})
             /\ \A q \in Q : t.q_flop[q] = MaxOf({Plain(n, q, d) : d \in D})
             /\ t.rr = MaxOf({Fanned(n, e[1], e[2]) : e \in Q \X D})
             /\ \A o \in n.outs : t.ro[o] = MaxOf({Fanned(n, q, o) : q \in Q})
             /\ \A i \in n.ins :
                  /\ t.ir[i] = MaxOf({Fanned(n, i, d) : d \in D})
                  /\ \A o \in n.outs : /\ t.io[<<i, o>>] = Fanned(n, i, o)
                                       /\ t.p_io[<<i, o>>] = Plain(n, i, o)
<1> DEFINE Q == Q_nets(n)
           D == D_nets(n)
           I == n.ins
           O == n.outs
           t == Timing(n)
<1>1. Q = Q_nets(n) /\ D = D_nets(n) /\ I = n.ins /\ O = n.outs
  OBVIOUS
<1>0. t = Timing(n)
  OBVIOUS
<1> HIDE DEF Q, D, I, O, t
<1>2. PICK M, T, pF, pT : /\ M = WayMax(n, FALSE) /\ T = WayMax(n, TRUE)
                          /\ pF = prop(n, Q, FALSE) /\ pT = prop(n, Q, TRUE)
  OBVIOUS
<1>3. PICK a, z, b, c : /\ a = [i \in I |-> prop(n, {i}, TRUE)]
                        /\ z = [i \in I |-> prop(n, {i}, FALSE)]
                        /\ b = back(n, D) /\ c = [o \in O |-> back(n, {o})]
  OBVIOUS
<1>4. /\ IsFiniteSet(Q) /\ IsFiniteSet(D) /\ Q \subseteq Starts(n) /\ I \subseteq Starts(n)
      /\ O \subseteq Net(n) /\ D \subseteq Net(n)
  BY <1>1, EndsAre DEF Starts
<1>5. /\ \A x \in Net(n) : pF[x] = MaxOf(Rows(M, Q, x))
      /\ \A x \in Net(n) : pT[x] = MaxOf(Rows(T, Q, x))
  BY <1>1, <1>2, PropLongest
<1>6. /\ \A i \in I, x \in Net(n) : a[i][x] = T[<<i, x>>]
      /\ \A i \in I, x \in Net(n) : z[i][x] = M[<<i, x>>]
  <2>1. PropMax(n, TRUE) = T /\ PropMax(n, FALSE) = M
    BY <1>2, PropOne
  <2>2. /\ \A i \in I, x \in Net(n) : a[i][x] = PropMax(n, TRUE)[<<i, x>>]
        /\ \A i \in I, x \in Net(n) : z[i][x] = PropMax(n, FALSE)[<<i, x>>]
    BY <1>3, <1>4 DEF PropMax
  <2> QED BY <2>1, <2>2
<1>7. /\ \A q \in Q : b[q] = MaxOf(Cols(M, D, q))
      /\ \A q \in Q, o \in O : c[o][q] = M[<<q, o>>]
  BY <1>2, <1>3, <1>4, BackLongest, BackOne
<1>8. /\ \A q \in Starts(n), x \in Net(n) : Plain(n, q, x) = M[<<q, x>>]
      /\ \A q \in Starts(n), x \in Net(n) : Fanned(n, q, x) = T[<<q, x>>]
  BY <1>2 DEF WayMax, Plain, Fanned
<1>9. /\ MaxOf(At(M, Q \X D)) = MaxOf(ByRows(M, Q, D))
      /\ MaxOf(At(M, Q \X D)) = MaxOf(ByCols(M, Q, D))
      /\ MaxOf(At(T, Q \X D)) = MaxOf(ByRows(T, Q, D))
  <2>1. PICK A, B : /\ A = [e \in Q \X D |-> Ways(n, e[1], FALSE)[e[2]]]
                    /\ B = [e \in Q \X D |-> Ways(n, e[1], TRUE)[e[2]]]
    OBVIOUS
  <2>2. /\ \A q \in Starts(n), d \in Net(n) : /\ Ways(n, q, FALSE)[d] \subseteq Nat
                                              /\ IsMax(Ways(n, q, FALSE)[d], M[<<q, d>>])
        /\ \A q \in Starts(n), d \in Net(n) : /\ Ways(n, q, TRUE)[d] \subseteq Nat
                                              /\ IsMax(Ways(n, q, TRUE)[d], T[<<q, d>>])
    BY <1>2, WayMaxIs
  <2>3. \A q \in Q, d \in D : A[<<q, d>>] \subseteq Nat /\ IsMax(A[<<q, d>>], M[<<q, d>>])
    BY <1>4, <2>1, <2>2
  <2>4. \A q \in Q, d \in D : B[<<q, d>>] \subseteq Nat /\ IsMax(B[<<q, d>>], T[<<q, d>>])
    BY <1>4, <2>1, <2>2
  <2>5. IsFiniteSet(Q) /\ IsFiniteSet(D)
    BY <1>4
  <2>6. /\ MaxOf(At(M, Q \X D)) = MaxOf(ByRows(M, Q, D))
        /\ MaxOf(At(M, Q \X D)) = MaxOf(ByCols(M, Q, D))
    BY ONLY <2>3, <2>5, MaxOfPairs, SMTT(60)
  <2>7. /\ MaxOf(At(T, Q \X D)) = MaxOf(ByRows(T, Q, D))
        /\ MaxOf(At(T, Q \X D)) = MaxOf(ByCols(T, Q, D))
    BY ONLY <2>4, <2>5, MaxOfPairs, SMTT(60)
  <2> QED BY <2>6, <2>7
<1>10. /\ t.p_rr = MaxOf(At(pF, D)) /\ t.rr = MaxOf(At(pT, D))
       /\ \A o \in O : t.p_ro[o] = pF[o] /\ t.ro[o] = pT[o]
       /\ \A i \in I : t.ir[i] = MaxOf(At(a[i], D))
       /\ \A i \in I, o \in O : t.io[<<i, o>>] = a[i][o] /\ t.p_io[<<i, o>>] = z[i][o]
       /\ \A q \in Q : t.q_flop[q] = b[q]
       /\ \A q \in Q, o \in O : t.q_out[q][o] = c[o][q]
  <2>1. t.p_rr = MaxOf(At(pF, D)) /\ t.rr = MaxOf(At(pT, D))
    BY <1>0, <1>1, <1>2 DEF Timing, At
  <2>2. t.p_ro = [o \in O |-> pF[o]] /\ t.ro = [o \in O |-> pT[o]]
    <3>1. /\ Timing(n).p_ro = [o \in n.outs |-> prop(n, Q_nets(n), FALSE)[o]]
          /\ Timing(n).ro = [o \in n.outs |-> prop(n, Q_nets(n), TRUE)[o]]
      BY DEF Timing
    <3> QED BY <1>0, <1>1, <1>2, <3>1
  <2>3. t.ir = [i \in I |-> MaxOf(At(prop(n, {i}, TRUE), D))]
    <3>1. Timing(n).ir = [i \in n.ins |-> MaxOf(At(prop(n, {i}, TRUE), D_nets(n)))]
      BY DEF Timing, At
    <3> QED BY <1>0, <1>1, <1>2, <3>1
  <2>4. /\ t.io = [e \in I \X O |-> prop(n, {e[1]}, TRUE)[e[2]]]
        /\ t.p_io = [e \in I \X O |-> prop(n, {e[1]}, FALSE)[e[2]]]
    BY <1>0, <1>1, <1>2 DEF Timing
  <2>5. t.q_flop = [q \in Q |-> b[q]] /\ t.q_out = [q \in Q |-> [o \in O |-> back(n, {o})[q]]]
    <3>1. /\ Timing(n).q_flop = [q \in Q_nets(n) |-> back(n, D_nets(n))[q]]
          /\ Timing(n).q_out = [q \in Q_nets(n) |-> [o \in n.outs |-> back(n, {o})[q]]]
      BY DEF Timing
    <3> QED BY <1>0, <1>1, <1>2, <1>3, <3>1
  <2>6. \A i \in I : t.ir[i] = MaxOf(At(a[i], D))
    BY <1>3, <2>3
  <2>7. ASSUME NEW i \in I, NEW o \in O PROVE t.io[<<i, o>>] = a[i][o] /\ t.p_io[<<i, o>>] = z[i][o]
    <3>1. t.io[<<i, o>>] = prop(n, {i}, TRUE)[o] /\ t.p_io[<<i, o>>] = prop(n, {i}, FALSE)[o]
      BY ONLY <2>4, i \in I, o \in O
    <3> QED BY <1>3, <3>1
  <2>8. ASSUME NEW q \in Q, NEW o \in O PROVE t.q_out[q][o] = c[o][q]
    BY <1>3, <2>5
  <2> QED BY <2>1, <2>2, <2>5, <2>6, <2>7, <2>8
<1>11. t.p_rr = MaxOf({t.q_flop[q] : q \in Q})
  <2>1. At(pF, D) = ByRows(M, Q, D)
    BY ONLY <1>4, <1>5 DEF At, ByRows
  <2>2. {t.q_flop[q] : q \in Q} = ByCols(M, Q, D)
    BY ONLY <1>7, <1>10 DEF ByCols
  <2> QED BY ONLY <1>9, <1>10, <2>1, <2>2
<1>12. ASSUME NEW o \in O PROVE t.p_ro[o] = MaxOf({t.q_out[q][o] : q \in Q})
  <2>1. {t.q_out[q][o] : q \in Q} = Rows(M, Q, o)
    <3>1. \A q \in Q : t.q_out[q][o] = M[<<q, o>>]
      BY ONLY <1>7, <1>10, o \in O
    <3> QED BY ONLY <3>1 DEF Rows
  <2> QED BY ONLY <1>4, <1>5, <1>10, <2>1, o \in O
<1>13. ASSUME NEW q \in Q PROVE t.q_flop[q] = MaxOf({Plain(n, q, d) : d \in D})
  <2>1. {Plain(n, q, d) : d \in D} = Cols(M, D, q)
    BY <1>4, <1>8, ZenonT(60) DEF Cols
  <2> QED BY <1>7, <1>10, <2>1
<1>14. t.rr = MaxOf({Fanned(n, e[1], e[2]) : e \in Q \X D})
  <2>1. At(pT, D) = ByRows(T, Q, D)
    BY ONLY <1>4, <1>5 DEF At, ByRows
  <2>2. \A e \in Q \X D : Fanned(n, e[1], e[2]) = T[e]
    BY <1>4, <1>8
  <2>3. {Fanned(n, e[1], e[2]) : e \in Q \X D} = At(T, Q \X D)
    BY <2>2 DEF At
  <2> QED BY <1>9, <1>10, <2>1, <2>3
<1>15. ASSUME NEW o \in O PROVE t.ro[o] = MaxOf({Fanned(n, q, o) : q \in Q})
  <2>1. {Fanned(n, q, o) : q \in Q} = Rows(T, Q, o)
    BY <1>4, <1>8 DEF Rows
  <2> QED BY <1>4, <1>5, <1>10, <2>1, ZenonT(60)
<1>16. ASSUME NEW i \in I
       PROVE  /\ t.ir[i] = MaxOf({Fanned(n, i, d) : d \in D})
              /\ \A o \in O : /\ t.io[<<i, o>>] = Fanned(n, i, o)
                              /\ t.p_io[<<i, o>>] = Plain(n, i, o)
  <2>1. At(a[i], D) = {Fanned(n, i, d) : d \in D}
    <3>0. /\ \A x \in Net(n) : a[i][x] = T[<<i, x>>]
          /\ \A x \in Net(n) : Fanned(n, i, x) = T[<<i, x>>]
      BY <1>4, <1>6, <1>8
    <3>1. \A d \in D : a[i][d] = Fanned(n, i, d)
      BY ONLY <1>4, <3>0
    <3> QED BY ONLY <3>1 DEF At
  <2>2. \A o \in O : t.io[<<i, o>>] = Fanned(n, i, o) /\ t.p_io[<<i, o>>] = Plain(n, i, o)
    BY <1>4, <1>6, <1>8, <1>10
  <2>3. t.ir[i] = MaxOf({Fanned(n, i, d) : d \in D})
    BY <1>10, <2>1
  <2> QED BY ONLY <2>2, <2>3
<1> QED BY <1>11, <1>12, <1>13, <1>14, <1>15, <1>16 DEF Q, D, I, O, t

-----------------------------------------------------------------------------
\* Only what ABC mapped is timed.
Timed == passed = "timing" => net \in UNION Mapped

\* The pass forward (NGD-1, NGD-2) and the pass backward (NGD-7) agree on
\* every netlist timed, and both on the longest of the ways through its
\* gates.
THEOREM PassesMeasureSame == Spec => []PassesAgree
<1>1. Init => Timed
  BY DEF Init, Timed
<1>2. ASSUME Timed, [Next]_vars PROVE Timed'
  <2>1. CASE UNCHANGED vars
    BY <1>2, <2>1 DEF Timed, vars, blockVars
  <2>2. CASE Measure \/ BudgetLeaf \/ RefuseUnit \/ Assemble
    BY <2>2 DEF Timed, Measure, BudgetLeaf, RefuseUnit, Assemble
  <2>3. CASE BlockNext
    <3>1. CASE Check
      BY <3>1 DEF Check, Timed
    <3>2. CASE passed = "passed" /\ Travel
      <4>1. UNCHANGED passed
        BY <3>2 DEF Travel, LaunchLeaf, LaunchLevel, LaunchPort, CaptureLeaf,
             CaptureLevel, Leave, Cross, Through, Launched, Moves
      <4> QED BY <3>2, <4>1 DEF Timed
    <3> QED BY <2>3, <3>1, <3>2 DEF BlockNext
  <2> QED BY <1>2, <2>1, <2>2, <2>3 DEF Next
<1>3. Timed => PassesAgree
  <2>1. SUFFICES ASSUME Timed, passed = "timing" PROVE PassesAgree
    BY DEF PassesAgree
  <2>2. Netlist(net)
    BY <2>1, MappedAssumption DEF Timed
  <2> QED BY <2>2, TimingAgrees, Zenon DEF PassesAgree, Plain, Fanned
<1> QED BY <1>1, <1>2, <1>3, PTL DEF Spec

-----------------------------------------------------------------------------
(* The sum of parts.                                                       *)

\* A signal is on a pin, captured, out, or not launched.
SignalType == /\ at \in Pin \union {"unlaunched", "flop", "out"}
              /\ elapsed \in Nat /\ slack \in Nat

\* Nothing starts before the checks have passed, and nothing they judged
\* changes after.
Judged == at # "unlaunched" => passed = "passed"
BlockPassed == passed = "passed" => main_check

\* The signal keeps the time of the pin it is at, but at an output of the
\* block, which boundary judges, and at one only checkers read.
OnTime == at \in Pin /\ ~BlockOut(at) /\ ~Observed(at)
             => elapsed <= Time(at) + slack

SumIInv == /\ Measurements /\ Hierarchical /\ SignalType
           /\ Judged /\ BlockPassed /\ OnTime /\ WithinStage

-----------------------------------------------------------------------------

\* A pin's port is in the sets the findings range over.
LEMMA PortsOfPins ==
  ASSUME NEW p \in Pin, Kind[p] = "leaf"
  PROVE  /\ p \in Output => PortOf[p] \in Outs("leaf")
         /\ p \notin Output => PortOf[p] \in Ins("leaf")
BY DEF Outs, Ins

\* Budgets are depths, whether named or not.
LEMMA TimesAreDepths ==
  ASSUME Measurements, NEW p \in Pin
  PROVE  Time(p) \in Nat
<1>1. budgets[PortOf[p]] \in Budget
  BY DEF Measurements, Port
<1>2. required(PortOf[p]) \in Nat
  BY <1>1, NumbersAssumption DEF required, Budget
<1>3. arrival(PortOf[p]) \in Nat
  BY <1>1, NumbersAssumption DEF arrival, Budget
<1> QED BY <1>2, <1>3 DEF Time

\* What main_check says of each part the signal may cross.
LEMMA PartsJudged ==
  ASSUME Measurements, Hierarchical, main_check
  PROVE  /\ unitAt = TRUE
         /\ \A p \in Pin : /\ Kind[p] = "leaf" /\ p \in Output
                           /\ ~observation(PortOf[p])
                           => ro[PortOf[p]] <= required(PortOf[p]) + EPS
         /\ \A p \in Pin : /\ Kind[p] = "leaf" /\ p \notin Output
                           /\ ir[PortOf[p]] # NEG
                           => arrival(PortOf[p]) + ir[PortOf[p]] <= STAGE + EPS
         /\ \A p, q \in Pin : /\ <<PortOf[p], PortOf[q]>> \in DOMAIN thru
                              /\ thru[<<PortOf[p], PortOf[q]>>] # NEG
                              => observation(PortOf[q])
         /\ \A p \in Pin : lvl_ir[p] # NEG => Time(p) + lvl_ir[p] <= STAGE + EPS
         /\ \A p \in Pin : lvl_ro[p] # NEG /\ ~BlockOut(p)
                           => lvl_ro[p] <= Time(p) + EPS
         /\ \A e \in Wires : \/ BlockOut(e[2]) \/ Observed(e[2])
                             \/ Time(e[1]) + io[e] <= Time(e[2]) + EPS
<1>1. unitAt /\ converge = {} /\ MidThru = {} /\ findings = {}
  BY DEF main_check, block_check
<1>2. ASSUME NEW p \in Pin, Kind[p] = "leaf", p \in Output,
             ~observation(PortOf[p])
      PROVE  ro[PortOf[p]] <= required(PortOf[p]) + EPS
  <2>1. ~Over(ro[PortOf[p]], required(PortOf[p]))
    BY <1>1, <1>2, PortsOfPins DEF findings
  <2>2. ro[PortOf[p]] \in Int
    BY <1>2, PortsOfPins DEF Measurements, Depth, NEG
  <2>3. required(PortOf[p]) \in Nat
    BY <1>2, TimesAreDepths DEF Time
  <2> QED BY <2>1, <2>2, <2>3, NumbersAssumption DEF Over
<1>3. ASSUME NEW p \in Pin, Kind[p] = "leaf", p \notin Output,
             ir[PortOf[p]] # NEG
      PROVE  arrival(PortOf[p]) + ir[PortOf[p]] <= STAGE + EPS
  <2>1. ~Over(arrival(PortOf[p]) + ir[PortOf[p]], STAGE)
    BY <1>1, <1>3, PortsOfPins DEF findings
  <2>2. ir[PortOf[p]] \in Int
    BY <1>3, PortsOfPins DEF Measurements, Depth, NEG
  <2>3. arrival(PortOf[p]) \in Nat
    BY <1>3, TimesAreDepths DEF Time
  <2> QED BY <2>1, <2>2, <2>3, NumbersAssumption DEF Over
<1>4. ASSUME NEW p \in Pin, NEW q \in Pin,
             <<PortOf[p], PortOf[q]>> \in DOMAIN thru,
             thru[<<PortOf[p], PortOf[q]>>] # NEG
      PROVE  observation(PortOf[q])
  <2> DEFINE e == <<PortOf[p], PortOf[q]>>
  <2>1. <<"NGD-5", e>> \notin findings
    BY <1>1
  <2>2. ~(e \in DOMAIN thru /\ thru[e] # NEG /\ ~observation(e[2]))
    <3> HIDE DEF e
    <3> QED BY <2>1 DEF findings
  <2>3. e[2] = PortOf[q]
    OBVIOUS
  <2> QED BY <1>4, <2>2, <2>3
<1>5. ASSUME NEW p \in Pin, lvl_ir[p] # NEG
      PROVE  Time(p) + lvl_ir[p] <= STAGE + EPS
  <2>1. ~Over(Time(p) + lvl_ir[p], STAGE)
    BY <1>1, <1>5 DEF converge
  <2>2. lvl_ir[p] \in Int /\ Time(p) \in Nat
    BY TimesAreDepths DEF Measurements, Depth, NEG
  <2> QED BY <2>1, <2>2, NumbersAssumption DEF Over
<1>6. ASSUME NEW p \in Pin, lvl_ro[p] # NEG, ~BlockOut(p)
      PROVE  lvl_ro[p] <= Time(p) + EPS
  <2>1. ~Over(lvl_ro[p], Time(p))
    BY <1>1, <1>6 DEF converge
  <2>2. lvl_ro[p] \in Int /\ Time(p) \in Nat
    BY TimesAreDepths DEF Measurements, Depth, NEG
  <2> QED BY <2>1, <2>2, NumbersAssumption DEF Over
<1>7. ASSUME NEW e \in Wires, ~BlockOut(e[2]), ~Observed(e[2])
      PROVE  Time(e[1]) + io[e] <= Time(e[2]) + EPS
  <2>1. e[1] \in Pin /\ e[2] \in Pin /\ io[e] \in Int
    BY DEF Wires, Measurements, Depth, NEG
  <2>2. ~OwnToOwn(e)
    <3>1. SUFFICES ASSUME OwnToOwn(e) PROVE FALSE
      OBVIOUS
    <3>2. Kind[e[1]] \in {"mid", "block"} /\ Kind[e[1]] = Kind[e[2]]
      BY <2>1, <3>1, PinsAssumption DEF Hierarchical
    <3>3. Kind[e[1]] = "mid"
      BY <1>7, <3>1, <3>2 DEF OwnToOwn, BlockOut
    <3>4. ~observation(PortOf[e[2]])
      BY <1>7, <3>1, <3>2, <3>3 DEF OwnToOwn, Observed
    <3> QED BY <1>1, <3>1, <3>3, <3>4 DEF MidThru
  <2>3. ~Over(Time(e[1]) + io[e], Time(e[2]))
    BY <1>1, <1>7, <2>2 DEF converge
  <2>4. Time(e[1]) \in Nat /\ Time(e[2]) \in Nat
    BY <2>1, TimesAreDepths
  <2> QED BY <2>1, <2>3, <2>4, NumbersAssumption DEF Over
<1> QED BY <1>1, <1>2, <1>3, <1>4, <1>5, <1>6, <1>7

-----------------------------------------------------------------------------

LEMMA SumInit == BlockInit => SumIInv
BY PinsAssumption
   DEF BlockInit, SumIInv, SignalType, Judged, BlockPassed, OnTime, WithinStage

\* The verdict is read from what it is about, which no step changes.
LEMMA DesignKept ==
  ASSUME UNCHANGED design
  PROVE  /\ Measurements' = Measurements /\ Hierarchical' = Hierarchical
         /\ main_check' = main_check
         /\ \A p : /\ Time(p)' = Time(p) /\ Observed(p)' = Observed(p)
BY DEF design, Measurements, Hierarchical, main_check, NGD4, findings,
       NGD7, Drives, Ends,
       block_check, converge, MidThru, boundary, StraightOut, StraightIn,
       Behind, Ahead, Wires, Time, Observed, required, arrival, observation,
       Over, OwnToOwn, BlockOut

LEMMA SumStep == SumIInv /\ [BlockNext]_blockVars => SumIInv'
<1> SUFFICES ASSUME SumIInv, [BlockNext]_blockVars PROVE SumIInv'
  OBVIOUS
<1> USE DEF SumIInv
<1>1. CASE UNCHANGED blockVars
  <2>1. UNCHANGED design
    BY <1>1 DEF blockVars
  <2> QED BY <1>1, <2>1, DesignKept
          DEF blockVars, signal, SignalType, Judged, BlockPassed, OnTime,
              WithinStage, BlockOut
<1>2. CASE Check
  <2>1. UNCHANGED design /\ UNCHANGED signal /\ at = "unlaunched"
    BY <1>2 DEF Check, Judged
  <2>2. passed' = "passed" => main_check
    BY <1>2 DEF Check
  <2> QED BY <2>1, <2>2, DesignKept, PinsAssumption
          DEF signal, SignalType, Judged, BlockPassed, OnTime, WithinStage
<1>3. CASE passed = "passed" /\ Travel
  <2>1. main_check
    BY <1>3 DEF BlockPassed
  <2>2. PICK p \in Pin :
            \/ LaunchLeaf(p) \/ LaunchLevel(p) \/ LaunchPort(p)
            \/ CaptureLeaf(p) \/ CaptureLevel(p) \/ Leave(p)
            \/ \E q \in Pin : Cross(<<p, q>>) \/ Through(p, q)
    BY <1>3 DEF Travel
  <2>3. UNCHANGED design /\ passed' = "passed"
    BY <1>3, <2>2 DEF LaunchLeaf, LaunchLevel, LaunchPort, CaptureLeaf,
         CaptureLevel, Leave, Cross, Through, Launched, Moves
  <2>4. Measurements' /\ Hierarchical' /\ Judged' /\ BlockPassed'
    BY <2>1, <2>3, DesignKept DEF Judged, BlockPassed
  <2>5. SUFFICES SignalType' /\
          \/ at' = "flop" /\ elapsed' <= STAGE + slack'
          \/ at' = "out"
          \/ at' \in Pin /\ (\/ BlockOut(at') \/ Observed(at')
                            \/ elapsed' <= Time(at') + slack')
    BY <2>3, <2>4, DesignKept, PinsAssumption DEF OnTime, WithinStage, BlockOut
  <2>6. Time(p) \in Nat
    BY TimesAreDepths
  <2>7. CASE LaunchLeaf(p)
    <3>1. ro[PortOf[p]] \in Nat
      BY <2>7, PortsOfPins DEF LaunchLeaf, Measurements, Depth, NEG
    <3>2. Observed(p) \/ ro[PortOf[p]] <= Time(p) + EPS
      BY <2>1, <2>7, PartsJudged DEF LaunchLeaf, Observed, Time
    <3> QED BY <2>1, <2>7, <3>1, <3>2, PartsJudged, NumbersAssumption
            DEF LaunchLeaf, Launched, Real, SignalType
  <2>8. CASE LaunchLevel(p)
    <3>1. lvl_ro[p] \in Nat
      BY <2>8 DEF LaunchLevel, Measurements, Depth, NEG
    <3>2. BlockOut(p) \/ lvl_ro[p] <= Time(p) + EPS
      BY <2>1, <2>8, PartsJudged DEF LaunchLevel
    <3> QED BY <2>8, <3>1, <3>2, NumbersAssumption
            DEF LaunchLevel, Launched, SignalType
  <2>9. CASE LaunchPort(p)
    BY <2>6, <2>9 DEF LaunchPort, Launched, SignalType
  <2>10. CASE CaptureLeaf(p)
    <3>1. ir[PortOf[p]] \in Nat
      BY <2>10, PortsOfPins DEF CaptureLeaf, Measurements, Depth, NEG
    <3>2. Time(p) = arrival(PortOf[p])
      BY <2>10 DEF CaptureLeaf, Time
    <3>3. Time(p) + ir[PortOf[p]] <= STAGE + EPS
      BY <2>1, <2>10, <3>2, PartsJudged DEF CaptureLeaf
    <3>4. elapsed <= Time(p) + slack
      BY <2>10 DEF CaptureLeaf, OnTime, BlockOut, Observed
    <3> QED BY <2>1, <2>6, <2>10, <3>1, <3>3, <3>4, PartsJudged,
               NumbersAssumption
            DEF CaptureLeaf, Moves, Real, SignalType
  <2>11. CASE CaptureLevel(p)
    <3>1. lvl_ir[p] \in Nat
      BY <2>11 DEF CaptureLevel, Measurements, Depth, NEG
    <3>2. Time(p) + lvl_ir[p] <= STAGE + EPS
      BY <2>1, <2>11, PartsJudged DEF CaptureLevel
    <3>3. elapsed <= Time(p) + slack
      BY <2>11 DEF CaptureLevel, OnTime, Hierarchical
    <3> QED BY <2>6, <2>11, <3>1, <3>2, <3>3, NumbersAssumption
            DEF CaptureLevel, Moves, SignalType
  <2>12. CASE Leave(p)
    BY <2>12, NumbersAssumption DEF Leave, Moves, SignalType
  <2>13. ASSUME NEW q \in Pin, Cross(<<p, q>>)
         PROVE  SignalType' /\ at' = q /\
                  (BlockOut(q) \/ Observed(q) \/ elapsed' <= Time(q) + slack')
    <3> DEFINE e == <<p, q>>
    <3>1. /\ at = p /\ io[e] # NEG /\ ~Observed(p)
          /\ at' = q /\ elapsed' = elapsed + io[e] /\ slack' = slack + EPS
      BY <2>13 DEF Cross, Moves
    <3>2. io[e] \in Nat /\ e \in Wires
      BY <3>1 DEF Measurements, Depth, NEG, Wires
    <3>3. elapsed <= Time(p) + slack
      BY <3>1, <3>2 DEF OnTime, Hierarchical
    <3>4. BlockOut(q) \/ Observed(q) \/ Time(p) + io[e] <= Time(q) + EPS
      <4>1. e[1] = p /\ e[2] = q
        OBVIOUS
      <4> HIDE DEF e
      <4> QED BY <2>1, <3>2, <4>1, PartsJudged
    <3>5. Time(q) \in Nat
      BY TimesAreDepths
    <3> HIDE DEF e
    <3> QED BY <2>6, <3>1, <3>2, <3>3, <3>4, <3>5, NumbersAssumption
            DEF SignalType
  <2>14. ASSUME NEW q \in Pin, Through(p, q)
         PROVE  SignalType' /\ at' = q /\ Observed(q)
    <3> DEFINE e == <<PortOf[p], PortOf[q]>>
    <3>1. /\ e \in DOMAIN thru /\ thru[e] # NEG
          /\ q \in Output /\ Kind[q] = "leaf"
          /\ at' = q /\ elapsed' = elapsed + thru[e] /\ slack' = slack + EPS
      BY <2>14 DEF Through, Moves
    <3>2. observation(PortOf[q])
      BY <2>1, <3>1, PartsJudged
    <3>3. thru[e] \in Nat
      BY <3>1 DEF Measurements, Depth, NEG
    <3>4. Observed(q)
      BY <3>1, <3>2 DEF Observed
    <3> HIDE DEF e
    <3> QED BY <3>1, <3>3, <3>4, NumbersAssumption DEF SignalType
  <2> QED BY <2>2, <2>7, <2>8, <2>9, <2>10, <2>11, <2>12, <2>13, <2>14
<1> QED BY <1>1, <1>2, <1>3 DEF BlockNext

\* block_check (b): in a block whose parts all passed, whatever it is built
\* of, no signal is longer than the stage from flop to flop, tolerances aside.
THEOREM SumOfParts == BlockSpec => []WithinStage
<1>1. SumIInv => WithinStage
  BY DEF SumIInv
<1> QED BY <1>1, SumInit, SumStep, PTL DEF BlockSpec

-----------------------------------------------------------------------------

LEMMA PinsCounted == Cardinality(Pin) \in Nat
BY PinsAssumption, FS_CardinalityType

\* Rows, each read from the one before, are founded.
Below == [n \in 0..Cardinality(Pin) |-> IF n = 0 THEN {} ELSE {n - 1}]

LEMMA RowsFounded ==
  /\ IsFiniteSet(0..Cardinality(Pin))
  /\ \A n \in 0..Cardinality(Pin) : Below[n] \subseteq 0..Cardinality(Pin)
  /\ Founded(0..Cardinality(Pin), Below)
<1>1. PICK M \in Nat : M = Cardinality(Pin)
  BY PinsCounted
<1>2. IsFiniteSet(0..M)
  BY <1>1, FS_Interval
<1>3. \A n \in 0..M : Below[n] \subseteq 0..M /\ \A m \in Below[n] : m < n
  BY <1>1 DEF Below
<1>4. ASSUME NEW T \in SUBSET (0..M), T # {} PROVE \E x \in T : Below[x] \cap T = {}
  <2>1. T \subseteq Nat
    BY <1>1
  <2>2. PICK x \in T : \A y \in T : x <= y
    BY <1>4, <2>1, Least
  <2> QED BY <1>1, <1>3, <2>2
<1> QED BY <1>1, <1>2, <1>3, <1>4 DEF Founded

\* The solution of a recursion along rows of answers is the function its
\* definition chooses.
RowSteps(step, N, V) ==
  /\ N = 0..Cardinality(Pin) /\ V = [Pin -> BOOLEAN]
  /\ \A n \in N : \A f \in [N -> V] : step[n][f] \in V
  /\ \A n \in N : \A f, g \in [N -> V] :
       (\A m \in Below[n] : f[m] = g[m]) => step[n][f] = step[n][g]

LEMMA RowsUnfold ==
  ASSUME NEW step, NEW N, NEW V, RowSteps(step, N, V)
  PROVE  \E f \in [N -> V] : \A n \in N : f[n] = step[n][f]
<1>1. IsFiniteSet(N) /\ (\A n \in N : Below[n] \subseteq N) /\ Founded(N, Below)
  BY RowsFounded DEF RowSteps
<1>2. V # {}
  <2>1. [q \in Pin |-> TRUE] \in V
    BY DEF RowSteps
  <2> QED BY <2>1
<1>3. Recursion(N, Below, V, step)
  BY <1>1, <1>2, Zenon DEF Recursion, RowSteps
<1>4. PICK deps : deps = Below
  OBVIOUS
<1>5. Recursion(N, deps, V, step)
  BY <1>3, <1>4
<1> QED BY ONLY <1>5, Solution

\* One row of straight, from an output back.
OutAt(n, f) ==
  [q \in Pin |->
     IF Kind[q] = "leaf"
     THEN /\ p_ro[PortOf[q]] <= EPS
          /\ \A e \in DOMAIN thru : e[2] = PortOf[q] => thru[e] = NEG
     ELSE /\ lvl_ro[q] <= EPS
          /\ \A e \in Behind(q) : /\ p_io[e] <= EPS
                                  /\ e[1] \in Output
                                  /\ n > 0 /\ f[n - 1][e[1]]]

LEMMA OutIs == StraightOut = CHOOSE f : f = [n \in 0..Cardinality(Pin) |-> OutAt(n, f)]
BY Zenon DEF StraightOut, OutAt

LEMMA OutUnfolds ==
  \A n \in 0..Cardinality(Pin) : StraightOut[n] = OutAt(n, StraightOut)
<1>1. PICK N, V : N = 0..Cardinality(Pin) /\ V = [Pin -> BOOLEAN]
  OBVIOUS
<1>2. PICK step : step = [n \in N |-> [f \in [N -> V] |-> OutAt(n, f)]]
  OBVIOUS
<1>3. \A n \in N : \A f \in [N -> V] : step[n][f] = OutAt(n, f)
  BY <1>2
<1>4. \A n \in N : \A f \in [N -> V] : OutAt(n, f) \in V
  BY <1>1 DEF OutAt
<1>5. ASSUME NEW n \in N, NEW f \in [N -> V], NEW g \in [N -> V], \A m \in Below[n] : f[m] = g[m]
      PROVE  OutAt(n, f) = OutAt(n, g)
  <2>1. n > 0 => f[n - 1] = g[n - 1]
    BY <1>1, <1>5, PinsCounted DEF Below
  <2> QED BY <2>1 DEF OutAt
<1>6. \E f \in [N -> V] : \A n \in N : f[n] = step[n][f]
  <2>1. \A n \in N : \A f \in [N -> V] : step[n][f] \in V
    BY <1>3, <1>4
  <2>2. \A n \in N : \A f, g \in [N -> V] :
          (\A m \in Below[n] : f[m] = g[m]) => step[n][f] = step[n][g]
    BY <1>3, <1>5
  <2>3. RowSteps(step, N, V)
    BY ONLY <1>1, <2>1, <2>2, Zenon DEF RowSteps
  <2> QED BY ONLY <2>3, RowsUnfold
<1>7. PICK f \in [N -> V] : \A n \in N : f[n] = OutAt(n, f)
  BY <1>3, <1>6
<1>8. f = [n \in N |-> OutAt(n, f)]
  BY <1>7
<1>9. PICK s : s = StraightOut
  OBVIOUS
<1>10. s = [n \in N |-> OutAt(n, s)]
  <2>1. s = CHOOSE g : g = [n \in N |-> OutAt(n, g)]
    BY <1>1, <1>9, OutIs
  <2>2. \E g : g = [n \in N |-> OutAt(n, g)]
    BY <1>8
  <2> QED BY ONLY <2>1, <2>2, Zenon
<1>11. \A n \in N : s[n] = OutAt(n, s)
  BY <1>10
<1> QED BY <1>1, <1>9, <1>11

\* One row of straight, from an input on.
InAt(n, f) ==
  [p \in Pin |->
     IF Kind[p] = "leaf"
     THEN /\ ir[PortOf[p]] <= EPS
          /\ \A e \in DOMAIN thru : e[1] = PortOf[p] => thru[e] = NEG
     ELSE /\ lvl_ir[p] <= EPS
          /\ \A e \in Ahead(p) : /\ p_io[e] <= EPS /\ io[e] <= EPS
                                 /\ e[2] \notin Output
                                 /\ n > 0 /\ f[n - 1][e[2]]]

LEMMA InIs == StraightIn = CHOOSE f : f = [n \in 0..Cardinality(Pin) |-> InAt(n, f)]
BY Zenon DEF StraightIn, InAt

LEMMA InUnfolds ==
  \A n \in 0..Cardinality(Pin) : StraightIn[n] = InAt(n, StraightIn)
<1>1. PICK N, V : N = 0..Cardinality(Pin) /\ V = [Pin -> BOOLEAN]
  OBVIOUS
<1>2. PICK step : step = [n \in N |-> [f \in [N -> V] |-> InAt(n, f)]]
  OBVIOUS
<1>3. \A n \in N : \A f \in [N -> V] : step[n][f] = InAt(n, f)
  BY <1>2
<1>4. \A n \in N : \A f \in [N -> V] : InAt(n, f) \in V
  BY <1>1 DEF InAt
<1>5. ASSUME NEW n \in N, NEW f \in [N -> V], NEW g \in [N -> V], \A m \in Below[n] : f[m] = g[m]
      PROVE  InAt(n, f) = InAt(n, g)
  <2>1. n > 0 => f[n - 1] = g[n - 1]
    BY <1>1, <1>5, PinsCounted DEF Below
  <2> QED BY <2>1 DEF InAt
<1>6. \E f \in [N -> V] : \A n \in N : f[n] = step[n][f]
  <2>1. \A n \in N : \A f \in [N -> V] : step[n][f] \in V
    BY <1>3, <1>4
  <2>2. \A n \in N : \A f, g \in [N -> V] :
          (\A m \in Below[n] : f[m] = g[m]) => step[n][f] = step[n][g]
    BY <1>3, <1>5
  <2>3. RowSteps(step, N, V)
    BY ONLY <1>1, <2>1, <2>2, Zenon DEF RowSteps
  <2> QED BY ONLY <2>3, RowsUnfold
<1>7. PICK f \in [N -> V] : \A n \in N : f[n] = InAt(n, f)
  BY <1>3, <1>6
<1>8. f = [n \in N |-> InAt(n, f)]
  BY <1>7
<1>9. PICK s : s = StraightIn
  OBVIOUS
<1>10. s = [n \in N |-> InAt(n, s)]
  <2>1. s = CHOOSE g : g = [n \in N |-> InAt(n, g)]
    BY <1>1, <1>9, InIs
  <2>2. \E g : g = [n \in N |-> InAt(n, g)]
    BY <1>8
  <2> QED BY ONLY <2>1, <2>2, Zenon
<1>11. \A n \in N : s[n] = InAt(n, s)
  BY <1>10
<1> QED BY <1>1, <1>9, <1>11

-----------------------------------------------------------------------------

SignalKind == logic \in Int /\ fromPort \in BOOLEAN

\* Behind an output straight from a flop is a signal with no logic yet, and
\* none that came in at an input.
OutStraight == at \in Output => \A n \in 0..Cardinality(Pin) :
                 StraightOut[n][at] => logic <= slack /\ ~fromPort

\* A signal that came in at an input is still ahead of its flop, on the
\* straight way there.
InStraight == at \in Pin /\ fromPort =>
                /\ at \notin Output /\ elapsed <= slack
                /\ \E n \in 0..Cardinality(Pin) : StraightIn[n][at]

EdgeIInv == SignalKind /\ OutStraight /\ InStraight /\ BoundaryStraight

LEMMA EdgeInit == BlockInit => EdgeIInv
<1> SUFFICES ASSUME BlockInit PROVE EdgeIInv
  OBVIOUS
<1>1. at = "unlaunched" /\ logic = 0 /\ fromPort = FALSE
  BY DEF BlockInit
<1>2. "unlaunched" \notin Output
  BY PinsAssumption
<1>3. SignalKind
  <2>1. logic \in Int
    BY <1>1
  <2>2. fromPort \in BOOLEAN
    BY <1>1, Zenon
  <2> QED BY <2>1, <2>2 DEF SignalKind
<1>4. OutStraight
  BY <1>1, <1>2 DEF OutStraight
<1>5. InStraight /\ BoundaryStraight
  BY <1>1 DEF InStraight, BoundaryStraight
<1> QED BY <1>3, <1>4, <1>5 DEF EdgeIInv

\* No step moves what straight reads.
LEMMA StraightKept ==
  ASSUME UNCHANGED design
  PROVE  /\ StraightOut' = StraightOut /\ StraightIn' = StraightIn
BY DEF design, StraightOut, StraightIn, Behind, Ahead, Wires

LEMMA EdgeStep == SumIInv /\ EdgeIInv /\ [BlockNext]_blockVars => EdgeIInv'
<1> SUFFICES ASSUME SumIInv, EdgeIInv, [BlockNext]_blockVars PROVE EdgeIInv'
  OBVIOUS
<1> USE DEF EdgeIInv
<1>0. Measurements /\ Hierarchical /\ SignalType /\ slack \in Nat /\ elapsed \in Nat
  BY DEF SumIInv, SignalType
<1>1. CASE UNCHANGED blockVars
  <2>1. UNCHANGED design /\ UNCHANGED signal
    BY <1>1 DEF blockVars
  <2> QED BY <2>1, StraightKept
          DEF signal, SignalKind, OutStraight, InStraight, BoundaryStraight
<1>2. CASE Check
  <2>1. UNCHANGED design /\ UNCHANGED signal
    BY <1>2 DEF Check
  <2> QED BY <2>1, StraightKept
          DEF signal, SignalKind, OutStraight, InStraight, BoundaryStraight
<1>3. CASE passed = "passed" /\ Travel
  <2>1. main_check /\ unitAt = TRUE /\ boundary
    BY <1>0, <1>3, PartsJudged DEF SumIInv, BlockPassed, main_check, block_check
  <2>2. PICK p \in Pin :
            \/ LaunchLeaf(p) \/ LaunchLevel(p) \/ LaunchPort(p)
            \/ CaptureLeaf(p) \/ CaptureLevel(p) \/ Leave(p)
            \/ \E q \in Pin : Cross(<<p, q>>) \/ Through(p, q)
    BY <1>3 DEF Travel
  <2>3. UNCHANGED design
    BY <2>2 DEF LaunchLeaf, LaunchLevel, LaunchPort, CaptureLeaf,
         CaptureLevel, Leave, Cross, Through, Launched, Moves
  <2>4. StraightOut' = StraightOut /\ StraightIn' = StraightIn
    BY <2>3, StraightKept
  <2>5. Output \subseteq Pin /\ "flop" \notin Pin /\ "out" \notin Pin
    BY PinsAssumption
  <2>6. EPS \in Nat
    BY NumbersAssumption
  \* What is left: where the signal is now, and what it took.
  <2>7. CASE LaunchLeaf(p)
    <3>1. /\ at' = p /\ p \in Output /\ fromPort' = FALSE /\ slack' = EPS
          /\ logic' = p_ro[PortOf[p]] /\ Kind[p] = "leaf"
      BY <2>1, <2>7 DEF LaunchLeaf, Launched, Real
    <3>2. p_ro[PortOf[p]] \in Int
      BY <1>0, <3>1, PortsOfPins DEF Measurements, Depth, NEG
    <3>3. \A n \in 0..Cardinality(Pin) : StraightOut[n][p] => p_ro[PortOf[p]] <= EPS
      BY <3>1, OutUnfolds DEF OutAt
    <3> QED BY <2>4, <2>5, <3>1, <3>2, <3>3
            DEF SignalKind, OutStraight, InStraight, BoundaryStraight
  <2>8. CASE LaunchLevel(p)
    <3>1. /\ at' = p /\ fromPort' = FALSE /\ slack' = EPS
          /\ logic' = lvl_ro[p] /\ lvl_ro[p] # NEG
      BY <2>8 DEF LaunchLevel, Launched
    <3>2. lvl_ro[p] \in Int
      BY <1>0 DEF Measurements, Depth, NEG
    <3>3. p \in Output => Kind[p] # "leaf"
      BY <1>0, <3>1 DEF Hierarchical
    <3>4. \A n \in 0..Cardinality(Pin) : p \in Output /\ StraightOut[n][p] => lvl_ro[p] <= EPS
      BY <3>3, OutUnfolds DEF OutAt
    <3> QED BY <2>4, <2>5, <3>1, <3>2, <3>4
            DEF SignalKind, OutStraight, InStraight, BoundaryStraight
  <2>9. CASE LaunchPort(p)
    <3>1. /\ at' = p /\ p \notin Output /\ Kind[p] = "block"
          /\ fromPort' = TRUE /\ slack' = 0 /\ logic' = 0 /\ elapsed' = 0
      BY <2>9 DEF LaunchPort, Launched
    <3>2. StraightIn[Cardinality(Pin)][p] /\ Cardinality(Pin) \in 0..Cardinality(Pin)
      BY <2>1, <3>1, PinsCounted DEF boundary
    <3> QED BY <2>4, <2>5, <3>1, <3>2
            DEF SignalKind, OutStraight, InStraight, BoundaryStraight
  <2>10. CASE CaptureLeaf(p)
    <3>1. /\ at = p /\ Kind[p] = "leaf" /\ at' = "flop" /\ UNCHANGED fromPort
          /\ elapsed' = elapsed + ir[PortOf[p]] /\ slack' = slack + EPS
          /\ logic' = logic + ir[PortOf[p]] /\ p \notin Output
      BY <2>1, <2>10 DEF CaptureLeaf, Moves, Real
    <3>2. ir[PortOf[p]] \in Int
      BY <1>0, <3>1, PortsOfPins DEF Measurements, Depth, NEG
    <3>3. \A n \in 0..Cardinality(Pin) : StraightIn[n][p] => ir[PortOf[p]] <= EPS
      BY <3>1, InUnfolds DEF InAt
    <3>4. fromPort => elapsed' <= slack'
      BY <1>0, <2>6, <3>1, <3>2, <3>3 DEF InStraight
    <3> QED BY <2>5, <3>1, <3>2, <3>4
            DEF SignalKind, OutStraight, InStraight, BoundaryStraight
  <2>11. CASE CaptureLevel(p)
    <3>1. /\ at = p /\ lvl_ir[p] # NEG /\ at' = "flop" /\ UNCHANGED fromPort
          /\ elapsed' = elapsed + lvl_ir[p] /\ slack' = slack + EPS
          /\ logic' = logic + lvl_ir[p]
      BY <2>11 DEF CaptureLevel, Moves
    <3>2. lvl_ir[p] \in Int
      BY <1>0 DEF Measurements, Depth, NEG
    <3>3. p \notin Output => Kind[p] # "leaf"
      BY <1>0, <3>1 DEF Hierarchical
    <3>4. \A n \in 0..Cardinality(Pin) : p \notin Output /\ StraightIn[n][p] => lvl_ir[p] <= EPS
      BY <3>3, InUnfolds DEF InAt
    <3>5. fromPort => elapsed' <= slack'
      BY <1>0, <2>6, <3>1, <3>2, <3>4 DEF InStraight
    <3> QED BY <2>5, <3>1, <3>2, <3>5
            DEF SignalKind, OutStraight, InStraight, BoundaryStraight
  <2>12. CASE Leave(p)
    <3>1. /\ at = p /\ BlockOut(p) /\ at' = "out" /\ UNCHANGED fromPort
          /\ logic' = logic + 0 /\ slack' = slack + EPS
      BY <2>12 DEF Leave, Moves
    <3>2. StraightOut[Cardinality(Pin)][p] /\ Cardinality(Pin) \in 0..Cardinality(Pin)
      BY <2>1, <3>1, PinsCounted DEF boundary, BlockOut
    <3>3. logic <= slack /\ ~fromPort
      BY <3>1, <3>2 DEF OutStraight, BlockOut
    <3> QED BY <1>0, <2>5, <2>6, <3>1, <3>3
            DEF SignalKind, OutStraight, InStraight, BoundaryStraight
  <2>13. ASSUME NEW q \in Pin, Cross(<<p, q>>)
         PROVE  EdgeIInv'
    <3> DEFINE e == <<p, q>>
    <3>1. /\ at = p /\ e \in Wires /\ at' = q /\ UNCHANGED fromPort
          /\ elapsed' = elapsed + io[e] /\ logic' = logic + p_io[e]
          /\ slack' = slack + EPS
      BY <1>0, <2>13 DEF Cross, Moves, Wires, Measurements
    <3>2. io[e] \in Int /\ p_io[e] \in Int /\ e[1] = p /\ e[2] = q
      BY <1>0 DEF Measurements, Depth, NEG
    <3> HIDE DEF e
    <3>3. /\ Kind[p] = "leaf" => p \in Output
          /\ Kind[q] = "leaf" => q \notin Output
      BY <1>0, <3>1, <3>2 DEF Hierarchical
    <3>4. e \in Behind(q) /\ e \in Ahead(p)
      BY <3>1, <3>2 DEF Behind, Ahead
    <3>5. ASSUME q \in Output, NEW n \in 0..Cardinality(Pin), StraightOut[n][q]
          PROVE  logic' <= slack' /\ ~fromPort'
      <4>1. p_io[e] <= EPS /\ p \in Output /\ n - 1 \in 0..Cardinality(Pin)
            /\ StraightOut[n - 1][p]
        <5>1. Kind[q] # "leaf"
          BY <3>3, <3>5
        <5>2. \A d \in Behind(q) : /\ p_io[d] <= EPS /\ d[1] \in Output
                                   /\ n > 0 /\ StraightOut[n - 1][d[1]]
          BY <3>5, <5>1, OutUnfolds DEF OutAt
        <5>3. p_io[e] <= EPS /\ e[1] \in Output /\ n > 0 /\ StraightOut[n - 1][e[1]]
          BY <3>4, <5>2
        <5> QED BY <3>2, <5>3, PinsCounted
      <4>2. logic <= slack /\ ~fromPort
        BY <3>1, <4>1 DEF OutStraight
      <4>3. logic + p_io[e] <= slack + EPS
        BY <1>0, <2>6, <3>2, <4>1, <4>2 DEF SignalKind
      <4> QED BY <3>1, <4>2, <4>3
    <3>6. ASSUME fromPort
          PROVE  /\ q \notin Output /\ elapsed' <= slack'
                 /\ \E n \in 0..Cardinality(Pin) : StraightIn[n][q]
      <4>1. p \notin Output /\ elapsed <= slack
        BY <3>1, <3>6 DEF InStraight
      <4>2. PICK n \in 0..Cardinality(Pin) : StraightIn[n][p]
        BY <3>1, <3>6 DEF InStraight
      <4>3. /\ io[e] <= EPS /\ q \notin Output
            /\ n - 1 \in 0..Cardinality(Pin) /\ StraightIn[n - 1][q]
        <5>1. Kind[p] # "leaf"
          BY <3>3, <4>1
        <5>2. \A d \in Ahead(p) : /\ p_io[d] <= EPS /\ io[d] <= EPS
                                  /\ d[2] \notin Output
                                  /\ n > 0 /\ StraightIn[n - 1][d[2]]
          BY <4>2, <5>1, InUnfolds DEF InAt
        <5>3. io[e] <= EPS /\ e[2] \notin Output /\ n > 0 /\ StraightIn[n - 1][e[2]]
          BY <3>4, <5>2
        <5> QED BY <3>2, <5>3, PinsCounted
      <4>4. elapsed + io[e] <= slack + EPS
        BY <1>0, <2>6, <3>2, <4>1, <4>3
      <4> QED BY <3>1, <4>3, <4>4
    <3>7. SignalKind' /\ at' # "flop" /\ at' # "out"
      BY <2>5, <3>1, <3>2 DEF SignalKind
    <3> QED BY <2>4, <3>1, <3>5, <3>6, <3>7
            DEF OutStraight, InStraight, BoundaryStraight
  <2>14. ASSUME NEW q \in Pin, Through(p, q)
         PROVE  EdgeIInv'
    <3> DEFINE e == <<PortOf[p], PortOf[q]>>
    <3>1. /\ at = p /\ Kind[p] = "leaf" /\ Kind[q] = "leaf" /\ at' = q
          /\ e \in DOMAIN thru /\ thru[e] # NEG
          /\ logic' = logic + thru[e] /\ UNCHANGED fromPort
      BY <2>14 DEF Through, Moves
    <3>2. e[1] = PortOf[p] /\ e[2] = PortOf[q] /\ thru[e] \in Int
      BY <1>0, <3>1 DEF Measurements, Depth, NEG
    <3> HIDE DEF e
    <3>3. \A n \in 0..Cardinality(Pin) : ~StraightOut[n][q]
      BY <3>1, <3>2, OutUnfolds DEF OutAt
    <3>4. \A n \in 0..Cardinality(Pin) : ~StraightIn[n][p]
      BY <3>1, <3>2, InUnfolds DEF InAt
    <3>5. ~fromPort
      BY <3>1, <3>4 DEF InStraight
    <3> QED BY <2>4, <2>5, <3>1, <3>2, <3>3, <3>5
            DEF SignalKind, OutStraight, InStraight, BoundaryStraight
  <2> QED BY <2>2, <2>7, <2>8, <2>9, <2>10, <2>11, <2>12, <2>13, <2>14
<1> QED BY <1>1, <1>2, <1>3 DEF BlockNext

\* block_check (c): in a block whose parts all passed, what leaves it comes
\* straight from a flop and what enters it goes straight into one, however
\* many levels the wire crosses on its way.
THEOREM BoundaryOfParts == BlockSpec => []BoundaryStraight
<1>1. EdgeIInv => BoundaryStraight
  BY DEF EdgeIInv
<1> QED BY <1>1, SumInit, SumStep, EdgeInit, EdgeStep, PTL DEF BlockSpec

-----------------------------------------------------------------------------
(* The policy: nothing is kept for nothing.                                *)

\* What the phases leave behind: a waiver that named a finding took one or was
\* refused; a finding still open after the ratchets is a failure; and at the
\* end so is a waiver that named none, and a ratchet entry nothing stands for.
KeptFor == /\ phase \in {"budget", "waivers"} => used = {}
           /\ \A j \in used : \/ \E k \in found : waivedBy[k] = j
                              \/ <<"refused", j>> \in fails
           /\ phase \in {"block", "idle", "done"} =>
                \A k \in found : status[k] = "open" => <<"open", k>> \in fails
           /\ phase = "done" =>
                /\ \A j \in waivers \ used : <<"excuses nothing", j>> \in fails
                /\ Stale \subseteq fails

LEMMA KeptInit == PolicyInit => KeptFor
BY DEF PolicyInit, KeptFor

\* The stale entries are read from the findings and the units measured.
LEMMA StaleKept ==
  ASSUME UNCHANGED <<found, status, ratchet, fratchet, bad>>
  PROVE  Stale' = Stale
<1>1. FoundKeys' = FoundKeys
  BY DEF FoundKeys, Keys, F
<1>2. measured' = measured
  BY DEF measured, Ok, Unit
<1>3. \A k : F(k)' = F(k)
  BY DEF F
<1> QED BY <1>1, <1>2, <1>3, Zenon DEF Stale

LEMMA KeptStep == KeptFor /\ [PolicyNext]_policyVars => KeptFor'
<1> SUFFICES ASSUME KeptFor, [PolicyNext]_policyVars PROVE KeptFor'
  OBVIOUS
<1> USE DEF KeptFor
<1>1. CASE UNCHANGED policyVars
  BY <1>1, StaleKept DEF policyVars
<1>2. CASE ModuleBudget
  BY <1>2 DEF ModuleBudget
<1>3. CASE Waive
  <2> DEFINE open == {k \in found : status[k] = "open"}
             matched == {k \in open : MatchFirst(k) # 0}
             taken == {k \in matched : ~Refused(k)}
  <2>1. /\ phase' = "ratchet" /\ found' = found
        /\ waivedBy' = [k \in found |-> IF k \in taken THEN MatchFirst(k) ELSE 0]
        /\ used' = {MatchFirst(k) : k \in matched}
        /\ fails' = fails \union {<<"refused", MatchFirst(k)>> : k \in matched \ taken}
    BY <1>3 DEF Waive, Used
  <2>2. ASSUME NEW k \in matched
        PROVE  \/ \E i \in found' : waivedBy'[i] = MatchFirst(k)
               \/ <<"refused", MatchFirst(k)>> \in fails'
    BY <2>1
  <2> HIDE DEF matched, taken
  <2> QED BY <2>1, <2>2
<1>4. CASE Ratchet
  <2>1. /\ phase' = "block" /\ UNCHANGED <<found, waivedBy, used>> /\ fails \subseteq fails'
        /\ \A k \in found : status'[k] = "open" => <<"open", k>> \in fails'
    BY <1>4 DEF Ratchet
  <2> QED BY <2>1
<1>5. CASE BlockBudget
  BY <1>5 DEF BlockBudget
<1>6. CASE Idle
  <2>1. /\ phase' = "done" /\ phase = "idle" /\ fails \subseteq fails'
        /\ UNCHANGED <<found, status, waivedBy, waivers, used, ratchet, fratchet, bad>>
        /\ {<<"excuses nothing", j>> : j \in waivers \ used} \subseteq fails'
        /\ Stale \subseteq fails'
    BY <1>6 DEF Idle
  <2>2. Stale' = Stale
    BY <2>1, StaleKept
  <2> QED BY <2>1, <2>2
<1> QED BY <1>1, <1>2, <1>3, <1>4, <1>5, <1>6 DEF PolicyNext

\* policy: when the check passes every waiver took a finding, every ratcheted
\* finding still stands in its module if that was measured, and none is
\* without an excuse; whatever the units, findings, waivers and ratchets.
THEOREM NothingKeptIdle == PolicySpec => []NothingIdle
<1>1. KeptFor => NothingIdle
  <2> SUFFICES ASSUME KeptFor, phase = "done", fails = {} PROVE NothingIdle
    BY DEF NothingIdle, Passed
  <2>1. /\ \A j \in waivers : j \in used
        /\ Stale = {}
    BY DEF KeptFor
  <2>2. \A j \in waivers : \E k \in found : waivedBy[k] = j
    BY <2>1 DEF KeptFor
  <2>3. \A k \in found : status[k] # "open"
    BY DEF KeptFor
  <2>4. ASSUME NEW e \in fratchet, e[1] \in measured
        PROVE  \E k \in found : /\ F(k).module = e[1] /\ F(k).rule = e[2]
                                /\ e[3] \in F(k).regs
    <3>1. e \in FindingsBaseline
      BY <2>1 DEF Stale
    <3>2. e \in FoundKeys
      <4>1. e \notin FoundKeys => <<"meets", e>> \in Stale
        BY <2>4, <3>1 DEF Stale
      <4> QED BY <2>1, <4>1
    <3>3. PICK k \in found : e \in Keys(F(k))
      BY <3>2 DEF FoundKeys
    <3>4. PICK r \in F(k).regs : e = <<F(k).module, F(k).rule, r>>
      BY <3>3 DEF Keys
    <3> QED BY <3>4
  <2> QED BY <2>2, <2>3, <2>4 DEF NothingIdle
<1> QED BY <1>1, KeptInit, KeptStep, PTL DEF PolicySpec

-----------------------------------------------------------------------------
(* The policy: no unit is excused more than its allowance.                 *)

\* What g counts to over each part of D, in whatever order it is taken.
Sums(g, D, T) == /\ T \in [SUBSET D -> Nat] /\ T[{}] = 0
                 /\ \A s \in SUBSET D : \A y \in s : T[s] = g[y] + T[s \ {y}]

Totalled(g, D, T) == /\ IsFiniteSet(D) /\ \A y \in D : g[y] \in Nat
                     /\ Sums(g, D, T)

\* There is such a sum: a largest part that has one leaves nothing out.
LEMMA Totals ==
  ASSUME NEW D, IsFiniteSet(D), NEW g, \A y \in D : g[y] \in Nat
  PROVE  \E T : Totalled(g, D, T)
<1> DEFINE C == {c \in SUBSET D : \E T : Sums(g, c, T)}
           size == [c \in SUBSET D |-> Cardinality(D \ c)]
<1>1. \A c \in SUBSET D : IsFiniteSet(D \ c) /\ size[c] \in Nat
  <2>1. ASSUME NEW c \in SUBSET D PROVE IsFiniteSet(D \ c)
    BY FS_Subset
  <2> QED BY <2>1, FS_CardinalityType
<1>2. {} \in C
  <2>1. Sums(g, {}, [s \in SUBSET {} |-> 0])
    BY DEF Sums
  <2> QED BY <2>1
<1> DEFINE Best(c) == c \in C /\ \A e \in C : size[c] <= size[e]
<1>3. PICK c : Best(c)
  <2>1. \A e \in C : size[e] \in Nat
    BY <1>1
  <2>2. C # {}
    BY <1>2
  <2> HIDE DEF C, size
  <2> QED BY <2>1, <2>2, Fewest
<1>4. PICK T : Sums(g, c, T)
  BY <1>3
<1>5. c \in SUBSET D
  BY <1>3
<1>6. ASSUME NEW a \in D \ c PROVE FALSE
  <2> DEFINE e == c \cup {a}
             U == [s \in SUBSET e |-> IF a \in s THEN g[a] + T[s \ {a}] ELSE T[s]]
  <2>1. \A s \in SUBSET e : s \ {a} \in SUBSET c /\ (a \notin s => s \in SUBSET c)
    OBVIOUS
  <2>2. g[a] \in Nat /\ \A s \in SUBSET c : T[s] \in Nat
    BY <1>4 DEF Sums
  <2>3. \A s \in SUBSET e : U[s] \in Nat /\ U[s] = IF a \in s THEN g[a] + T[s \ {a}] ELSE T[s]
    BY <2>1, <2>2
  <2>4. U \in [SUBSET e -> Nat] /\ U[{}] = 0
    BY <1>4, <2>3 DEF Sums
  <2> HIDE DEF U
  <2>5. ASSUME NEW s \in SUBSET e, NEW y \in s PROVE U[s] = g[y] + U[s \ {y}]
    <3>1. s \ {y} \in SUBSET e
      OBVIOUS
    <3>2. CASE a \notin s
      BY <1>4, <2>1, <2>3, <3>1, <3>2 DEF Sums
    <3>3. CASE y = a
      BY <2>3, <3>1, <3>3
    <3>4. CASE a \in s /\ y # a
      <4>1. U[s] = g[a] + T[s \ {a}] /\ U[s \ {y}] = g[a] + T[(s \ {y}) \ {a}]
        BY <2>3, <3>1, <3>4
      <4>2. (s \ {y}) \ {a} = (s \ {a}) \ {y} /\ y \in s \ {a}
        BY <3>4
      <4>3. T[s \ {a}] = g[y] + T[(s \ {a}) \ {y}]
        BY <1>4, <2>1, <4>2 DEF Sums
      <4>4. g[y] \in Nat /\ g[a] \in Nat /\ T[(s \ {a}) \ {y}] \in Nat
        BY <1>5, <2>1, <2>2
      <4>5. PICK i, j, k \in Nat : i = g[y] /\ j = g[a] /\ k = T[(s \ {a}) \ {y}]
        BY <4>4
      <4>6. U[s] = j + (i + k) /\ U[s \ {y}] = j + k
        BY <4>1, <4>2, <4>3, <4>5
      <4>7. j + (i + k) = i + (j + k)
        OBVIOUS
      <4> QED BY <4>5, <4>6, <4>7
    <3> QED BY <3>2, <3>3, <3>4
  <2>6. e \in C
    BY <1>5, <2>4, <2>5 DEF Sums
  <2>7. Cardinality(D \ e) = Cardinality(D \ c) - 1
    <3>1. D \ e = (D \ c) \ {a} /\ a \in D \ c
      OBVIOUS
    <3>2. IsFiniteSet(D \ c)
      BY <1>1, <1>5
    <3> QED BY <3>1, <3>2, FS_RemoveElement
  <2>8. size[c] <= size[e] /\ e \in SUBSET D
    BY <1>3, <2>6
  <2>9. Cardinality(D \ c) \in Nat
    BY <1>1, <1>5, FS_CardinalityType
  <2> QED BY <1>5, <2>7, <2>8, <2>9
<1>7. c = D
  BY <1>5, <1>6
<1> QED BY <1>4, <1>7 DEF Totalled

\* A part counts to no more than the whole.
LEMMA SumsGrow ==
  ASSUME NEW D, NEW g, NEW T, Totalled(g, D, T), NEW S, NEW P, S \subseteq P, P \subseteq D
  PROVE  T[S] <= T[P]
<1> USE DEF Totalled
<1> DEFINE C == {s \in SUBSET D : S \subseteq s /\ ~(T[S] <= T[s])}
           size == [s \in SUBSET D |-> Cardinality(s)]
<1>1. \A s \in SUBSET D : IsFiniteSet(s) /\ size[s] \in Nat
  <2>1. ASSUME NEW s \in SUBSET D PROVE IsFiniteSet(s)
    BY FS_Subset
  <2> QED BY <2>1, FS_CardinalityType
<1>2. \A s \in SUBSET D : T[s] \in Nat
  BY DEF Sums
<1>3. ASSUME C # {} PROVE FALSE
  <2> DEFINE Best(s) == s \in C /\ \A e \in C : size[s] <= size[e]
  <2>1. PICK s : Best(s)
    <3>1. \A e \in C : size[e] \in Nat
      BY <1>1
    <3> HIDE DEF C, size
    <3> QED BY <1>3, <3>1, Fewest
  <2>2. s \in SUBSET D /\ S \subseteq s /\ ~(T[S] <= T[s])
    BY <2>1
  <2>3. PICK y \in s : y \notin S
    <3>1. s # S
      BY <1>2, <2>2
    <3> QED BY <2>2, <3>1
  <2>4. s \ {y} \notin C
    <3>1. Cardinality(s \ {y}) = Cardinality(s) - 1 /\ Cardinality(s) \in Nat
      BY <1>1, <2>2, <2>3, FS_RemoveElement, FS_CardinalityType
    <3>2. s \ {y} \in SUBSET D
      BY <2>2
    <3>3. size[s] = Cardinality(s) /\ size[s \ {y}] = Cardinality(s \ {y})
      BY <2>2, <3>2
    <3>4. s \ {y} \in C => size[s] <= size[s \ {y}]
      BY <2>1
    <3> QED BY <3>1, <3>3, <3>4
  <2>5. T[S] <= T[s \ {y}]
    BY <2>2, <2>3, <2>4
  <2>6. T[s] = g[y] + T[s \ {y}] /\ g[y] \in Nat
    BY <2>2, <2>3 DEF Sums
  <2>7. T[s] \in Nat /\ T[s \ {y}] \in Nat /\ T[S] \in Nat
    BY <1>2, <2>2
  <2> QED BY <2>2, <2>5, <2>6, <2>7
<1> QED BY <1>3

\* A fold takes its next element as it chooses.
Pick(s) == CHOOSE y \in s : TRUE

Folded(g, S, p) ==
  \A s \in SUBSET S : p[s] = IF s = {} THEN 0 ELSE g[Pick(s)] + p[s \ {Pick(s)}]

LEMMA FoldIs ==
  ASSUME NEW D, NEW g, NEW T, Totalled(g, D, T), NEW S, S \subseteq D, NEW p, Folded(g, S, p)
  PROVE  p[S] = T[S]
<1> USE DEF Totalled, Folded
<1> DEFINE C == {s \in SUBSET S : p[s] # T[s]}
           size == [s \in SUBSET S |-> Cardinality(s)]
<1>1. \A s \in SUBSET S : IsFiniteSet(s) /\ size[s] \in Nat
  <2>1. ASSUME NEW s \in SUBSET S PROVE IsFiniteSet(s)
    BY FS_Subset
  <2> QED BY <2>1, FS_CardinalityType
<1>2. ASSUME C # {} PROVE FALSE
  <2> DEFINE Best(s) == s \in C /\ \A e \in C : size[s] <= size[e]
  <2>1. PICK s : Best(s)
    <3>1. \A e \in C : size[e] \in Nat
      BY <1>1
    <3> HIDE DEF C, size
    <3> QED BY <1>2, <3>1, Fewest
  <2>2. s \in SUBSET S /\ p[s] # T[s]
    BY <2>1
  <2>3. s # {}
    BY <2>2 DEF Sums
  <2>4. Pick(s) \in s
    BY <2>3 DEF Pick
  <2>5. PICK y \in s : y = Pick(s)
    BY <2>4
  <2>6. s \ {y} \notin C
    <3>1. Cardinality(s \ {y}) = Cardinality(s) - 1 /\ Cardinality(s) \in Nat
      BY <1>1, <2>2, <2>5, FS_RemoveElement, FS_CardinalityType
    <3>2. s \ {y} \in SUBSET S
      BY <2>2
    <3>3. size[s] = Cardinality(s) /\ size[s \ {y}] = Cardinality(s \ {y})
      BY <2>2, <3>2
    <3>4. s \ {y} \in C => size[s] <= size[s \ {y}]
      BY <2>1
    <3> QED BY <3>1, <3>3, <3>4
  <2>7. p[s \ {y}] = T[s \ {y}]
    BY <2>2, <2>6
  <2>8. p[s] = g[y] + p[s \ {y}]
    BY <2>2, <2>3, <2>5
  <2>9. T[s] = g[y] + T[s \ {y}]
    BY <2>2, <2>5 DEF Sums
  <2> QED BY <2>2, <2>7, <2>8, <2>9
<1> QED BY <1>2

\* A sum is a solution of the fold's recursion.
LEMMA SumsFold ==
  ASSUME NEW D, NEW g, NEW T, Totalled(g, D, T), NEW S, S \subseteq D
  PROVE  Folded(g, S, T)
<1> USE DEF Totalled, Folded
<1> SUFFICES ASSUME NEW s \in SUBSET S
             PROVE  T[s] = IF s = {} THEN 0 ELSE g[Pick(s)] + T[s \ {Pick(s)}]
  OBVIOUS
<1>1. CASE s = {}
  BY <1>1 DEF Sums
<1>2. CASE s # {}
  <2>1. Pick(s) \in s
    BY <1>2 DEF Pick
  <2>2. s \in SUBSET D
    OBVIOUS
  <2> QED BY <1>2, <2>1, <2>2 DEF Sums
<1> QED BY <1>1, <1>2

\* The fold over S is the sum there.
Fold(g, S) == CHOOSE it : it = [s \in SUBSET S |->
                IF s = {} THEN 0 ELSE g[Pick(s)] + it[s \ {Pick(s)}]]

LEMMA FoldChosen ==
  ASSUME NEW D, NEW g, NEW T, Totalled(g, D, T), NEW S, S \subseteq D
  PROVE  Fold(g, S)[S] = T[S]
<1> DEFINE U == [s \in SUBSET S |-> T[s]]
<1>1. U = [s \in SUBSET S |-> IF s = {} THEN 0 ELSE g[Pick(s)] + U[s \ {Pick(s)}]]
  <2>1. \A s \in SUBSET S : s \ {Pick(s)} \in SUBSET S
    OBVIOUS
  <2>2. \A s \in SUBSET S : U[s] = IF s = {} THEN 0 ELSE g[Pick(s)] + U[s \ {Pick(s)}]
    <3>1. Folded(g, S, T)
      BY SumsFold
    <3> QED BY <2>1, <3>1 DEF Folded
  <2>3. U = [s \in SUBSET S |-> U[s]]
    OBVIOUS
  <2> HIDE DEF U
  <2> QED BY <2>2, <2>3
<1> HIDE DEF U
<1>2. PICK p : p = Fold(g, S)
  OBVIOUS
<1>3. p = [s \in SUBSET S |-> IF s = {} THEN 0 ELSE g[Pick(s)] + p[s \ {Pick(s)}]]
  BY ONLY <1>1, <1>2, Zenon DEF Fold
<1>4. Folded(g, S, p)
  BY <1>3 DEF Folded
<1>5. p[S] = T[S]
  BY <1>4, FoldIs
<1> QED BY <1>2, <1>5

\* A unit's flops, and those of some of its registers, are counts.
LEMMA FlopsCounted ==
  ASSUME NEW x, IsFiniteSet(DOMAIN x.regs), \A r \in DOMAIN x.regs : x.regs[r] \in Nat
  PROVE  Flops(x) \in Nat /\ \A f : RegFlops(x, f) \in Nat
<1> DEFINE D == DOMAIN x.regs
<1>0. PICK g : g = x.regs
  OBVIOUS
<1>1. PICK T : Totalled(g, D, T)
  BY <1>0, Totals
<1>2. \A S \in SUBSET D : T[S] \in Nat
  BY <1>1 DEF Sums, Totalled
<1>3. Flops(x) = T[D]
  <2>1. Flops(x) = Fold(g, D)[D]
    BY <1>0, Zenon DEF Fold, Pick, Flops, Sum, MapThenSumSet, MapThenFoldSet
  <2> QED BY <1>1, <2>1, FoldChosen
<1>4. ASSUME NEW f PROVE RegFlops(x, f) = T[f.regs \cap D]
  <2> DEFINE S == f.regs \cap D
  <2>1. RegFlops(x, f) = Fold(g, S)[S]
    BY <1>0, Zenon DEF Fold, Pick, RegFlops, Sum, MapThenSumSet, MapThenFoldSet
  <2> QED BY <1>1, <2>1, FoldChosen
<1> QED BY <1>2, <1>3, <1>4

\* The flops of a set of findings in a unit, and of one.
Count(x, S) == Sum(LAMBDA j : unit_flops(x, F(j)), S)
Of(x, D) == [j \in D |-> unit_flops(x, F(j))]

LEMMA CountIs ==
  ASSUME NEW x, NEW D, NEW T, Totalled(Of(x, D), D, T), NEW S, S \subseteq D
  PROVE  Count(x, S) = T[S]
<1> DEFINE g == Of(x, D)
           U == [s \in SUBSET S |-> T[s]]
           u(y) == unit_flops(x, F(y))
<1>1. \A s \in SUBSET S : s # {} => g[Pick(s)] = u(Pick(s))
  <2>1. ASSUME NEW s \in SUBSET S, s # {} PROVE Pick(s) \in D
    BY <2>1 DEF Pick
  <2> QED BY <2>1 DEF Of
<1>2. U = [s \in SUBSET S |-> IF s = {} THEN 0 ELSE u(Pick(s)) + U[s \ {Pick(s)}]]
  <2>1. \A s \in SUBSET S : s \ {Pick(s)} \in SUBSET S
    OBVIOUS
  <2>2. \A s \in SUBSET S : U[s] = IF s = {} THEN 0 ELSE g[Pick(s)] + U[s \ {Pick(s)}]
    <3>1. Folded(g, S, T)
      BY SumsFold
    <3> HIDE DEF g
    <3> QED BY <2>1, <3>1 DEF Folded
  <2>3. \A s \in SUBSET S : U[s] = IF s = {} THEN 0 ELSE u(Pick(s)) + U[s \ {Pick(s)}]
    <3> HIDE DEF g, u, U
    <3> QED BY <1>1, <2>2
  <2>4. U = [s \in SUBSET S |-> U[s]]
    OBVIOUS
  <2> HIDE DEF U, u
  <2> QED BY <2>3, <2>4
<1>3. PICK p : p = CHOOSE it : it = [s \in SUBSET S |->
                 IF s = {} THEN 0 ELSE u(Pick(s)) + it[s \ {Pick(s)}]]
  OBVIOUS
<1>4. Count(x, S) = p[S]
  BY <1>3, Zenon DEF Count, Pick, Sum, MapThenSumSet, MapThenFoldSet
<1>5. p = [s \in SUBSET S |-> IF s = {} THEN 0 ELSE u(Pick(s)) + p[s \ {Pick(s)}]]
  <2> HIDE DEF U, u
  <2> QED BY ONLY <1>2, <1>3, Zenon
<1>6. Folded(g, S, p)
  <2> HIDE DEF g, u
  <2>1. \A s \in SUBSET S : p[s] = IF s = {} THEN 0 ELSE u(Pick(s)) + p[s \ {Pick(s)}]
    BY <1>5
  <2> QED BY <1>1, <2>1 DEF Folded
<1>7. p[S] = T[S]
  <2>1. Totalled(g, D, T)
    OBVIOUS
  <2> HIDE DEF g
  <2> QED BY ONLY S \subseteq D, <1>6, <2>1, FoldIs
<1> QED BY <1>4, <1>7

\* What the policy's assumption says of its numbers.
LEMMA CountedParts ==
  ASSUME Counted
  PROVE  /\ IsFiniteSet(DOMAIN Findings) /\ DOMAIN Findings \subseteq Nat
         /\ \A k \in DOMAIN Findings : Findings[k].flops \in Nat
         /\ \A x \in Unit : /\ IsFiniteSet(DOMAIN x.regs)
                                  /\ \A r \in DOMAIN x.regs : x.regs[r] \in Nat
         /\ BUDGET_PCT \in Nat /\ MODULE_FLOPS \in Nat
BY DEF Counted, Unit

LEMMA FlopsAreCounts ==
  ASSUME Counted, NEW x \in Unit
  PROVE  /\ Flops(x) \in Nat
         /\ \A k \in DOMAIN Findings : unit_flops(x, F(k)) \in Nat
         /\ BUDGET_PCT * Flops(x) \in Nat
<1>1. IsFiniteSet(DOMAIN x.regs) /\ \A r \in DOMAIN x.regs : x.regs[r] \in Nat
  BY CountedParts
<1>2. Flops(x) \in Nat /\ \A f : RegFlops(x, f) \in Nat
  BY <1>1, FlopsCounted
<1>3. \A k \in DOMAIN Findings : unit_flops(x, F(k)) \in Nat
  BY <1>2 DEF unit_flops, F, Counted
<1>4. BUDGET_PCT * Flops(x) \in Nat
  BY <1>2 DEF Counted
<1> QED BY <1>2, <1>3, <1>4

\* Of some findings one comes last in the order the budget takes them.
LEMMA LastTaken ==
  ASSUME Counted, NEW x \in Unit, NEW S, S \subseteq DOMAIN Findings, S # {}
  PROVE  \E k \in S : \A j \in S : Before(x, j, k)
<1> DEFINE g == [j \in S |-> unit_flops(x, F(j))]
           V == {g[j] : j \in S}
<1>1. \A j \in S : g[j] \in Nat /\ g[j] = unit_flops(x, F(j))
  BY FlopsAreCounts
<1>2. IsFiniteSet(S) /\ S \subseteq Nat
  BY CountedParts, FS_Subset
<1>3. PICK m \in V : \A v \in V : m >= v
  <2>1. IsFiniteSet(V)
    BY <1>2, ImageFinite
  <2>2. V \subseteq Int /\ V # {}
    BY <1>1
  <2> HIDE DEF V
  <2> QED BY <2>1, <2>2, MaxExists
<1> DEFINE L == {j \in S : g[j] = m}
<1>4. PICK k \in L : \A j \in L : k >= j
  <2>1. IsFiniteSet(L)
    BY <1>2, FS_Subset
  <2>2. L \subseteq Int /\ L # {}
    BY <1>2, <1>3
  <2> HIDE DEF L
  <2> QED BY <2>1, <2>2, MaxExists
<1>5. ASSUME NEW j \in S PROVE Before(x, j, k)
  <2>1. g[j] \in Nat /\ g[k] = m /\ m \in Nat /\ g[j] <= m /\ k \in Nat /\ j \in Nat
    BY <1>1, <1>2, <1>3, <1>4
  <2>2. g[j] = m => j <= k
    BY <1>2, <1>4
  <2>3. g[j] < g[k] \/ (g[j] = g[k] /\ j <= k)
    BY <2>1, <2>2
  <2>4. k \in S
    OBVIOUS
  <2> HIDE DEF g
  <2> QED BY <1>1, <2>3, <2>4 DEF Before
<1> QED BY <1>5

\* What a unit's budget takes, and any part of it, is within its allowance.
LEMMA TakenAllowed ==
  ASSUME Counted, found \subseteq DOMAIN Findings, NEW x \in Unit,
         NEW S, S \subseteq Taken(x)
  PROVE  Allowed(x, Count(x, S))
<1> DEFINE D == DOMAIN Findings
           P(k) == {j \in Items(x) : Before(x, j, k)}
<1>1. Items(x) \subseteq D
  BY DEF Items, Candidates
<1>2. Taken(x) = {k \in Items(x) : Allowed(x, Count(x, P(k)))}
  BY Zenon DEF Taken, Count
<1>3. PICK T : Totalled(Of(x, D), D, T)
  <2>1. \A j \in D : Of(x, D)[j] \in Nat
    BY FlopsAreCounts DEF Of
  <2>2. IsFiniteSet(D)
    BY CountedParts
  <2>3. PICK g : g = Of(x, D)
    OBVIOUS
  <2> QED BY <2>1, <2>2, <2>3, Totals
<1>4. \A R \in SUBSET D : Count(x, R) = T[R] /\ T[R] \in Nat
  <2>1. \A R \in SUBSET D : Count(x, R) = T[R]
    BY <1>3, CountIs
  <2> QED BY <1>3, <2>1 DEF Totalled, Sums
<1>5. PICK b \in Nat : b = BUDGET_PCT * Flops(x)
  BY FlopsAreCounts
<1>6. \A n : Allowed(x, n) <=> 100 * n <= b \/ n <= MODULE_FLOPS - 1
  BY <1>5 DEF Allowed
<1>7. CASE S = {}
  <2>1. Count(x, S) = 0
    BY <1>3, <1>4, <1>7 DEF Totalled, Sums
  <2> QED BY <1>6, <2>1
<1>8. CASE S # {}
  <2>1. Taken(x) \subseteq D /\ Taken(x) # {}
    BY <1>1, <1>2, <1>8
  <2>2. PICK k \in Taken(x) : \A j \in Taken(x) : Before(x, j, k)
    BY <2>1, LastTaken
  <2>3. Allowed(x, Count(x, P(k)))
    BY <1>2, <2>2
  <2>4. S \subseteq P(k) /\ P(k) \subseteq D
    BY <1>1, <1>2, <2>2
  <2>5. T[S] <= T[P(k)]
    <3> HIDE DEF P, D
    <3> QED BY <1>3, <2>4, SumsGrow
  <2>6. PICK i, n \in Nat : i = Count(x, S) /\ n = Count(x, P(k)) /\ i <= n
    BY <1>4, <2>4, <2>5
  <2>7. 100 * n <= b \/ n <= MODULE_FLOPS - 1
    BY <1>6, <2>3, <2>6
  <2>8. 100 * i <= b \/ i <= MODULE_FLOPS - 1
    BY <2>6, <2>7 DEF Counted
  <2> QED BY <1>6, <2>6, <2>8
<1> QED BY <1>7, <1>8

\* The findings a unit is excused by its module's budget.
BudgetExcused(x) == {k \in found : /\ status[k] = "module" /\ F(k).module = x.module
                             /\ F(k).unit \in {"none", x.name}}

\* Nothing is decided before the budgets are.
Allowance == /\ found \subseteq DOMAIN Findings
             /\ phase = "budget" => \A k \in found : status[k] = "open"
             /\ phase # "budget" => \A x \in Ok : Allowed(x, Count(x, BudgetExcused(x)))

LEMMA AllowanceInit == PolicyInit => Allowance
BY DEF PolicyInit, Allowance

LEMMA AllowanceStep ==
  ASSUME Counted, Allowance, [PolicyNext]_policyVars
  PROVE  Allowance'
<1>1. Ok \subseteq Unit
  BY DEF Ok
<1>2. ASSUME UNCHANGED <<found, bad>>, phase # "budget", phase' # "budget",
             \A k \in found : status'[k] = "module" <=> status[k] = "module"
      PROVE  Allowance'
  <2>1. Ok' = Ok
    BY <1>2 DEF Ok, Unit
  <2>2. \A x : BudgetExcused(x)' = BudgetExcused(x)
    BY <1>2 DEF BudgetExcused, F
  <2>3. \A x \in Ok : Allowed(x, Count(x, BudgetExcused(x)))
    BY <1>2 DEF Allowance
  <2>4. \A x \in Ok' : Allowed(x, Count(x, BudgetExcused(x)'))
    BY <2>1, <2>2, <2>3
  <2>5. (found \subseteq DOMAIN Findings)'
    BY <1>2 DEF Allowance
  <2> QED BY <1>2, <2>4, <2>5 DEF Allowance
<1>3. CASE UNCHANGED policyVars
  <2>1. UNCHANGED <<phase, found, status, bad>>
    BY <1>3 DEF policyVars
  <2>2. CASE phase = "budget"
    BY <2>1, <2>2 DEF Allowance
  <2>3. CASE phase # "budget"
    BY <1>2, <2>1, <2>3
  <2> QED BY <2>2, <2>3
<1>4. CASE ModuleBudget
  <2>1. /\ phase = "budget" /\ phase' = "waivers" /\ UNCHANGED <<found, bad>>
        /\ \A k \in found : status'[k] = "module" =>
             k \in Candidates /\ BudgetTakes(k)
    BY <1>4 DEF ModuleBudget
  <2>2. Ok' = Ok
    BY <2>1 DEF Ok, Unit
  <2>3. ASSUME NEW x \in Ok PROVE Allowed(x, Count(x, BudgetExcused(x)'))
    <3>1. BudgetExcused(x)' \subseteq Taken(x)
      <4>1. ASSUME NEW k \in BudgetExcused(x)' PROVE k \in Taken(x)
        <5>1. /\ k \in found /\ status'[k] = "module" /\ F(k).module = x.module
              /\ F(k).unit \in {"none", x.name}
          BY <2>1 DEF BudgetExcused, F
        <5>2. k \in Items(x)
          BY <2>1, <5>1 DEF Items
        <5> QED BY <2>1, <5>1, <5>2 DEF BudgetTakes
      <4> QED BY <4>1
    <3>2. found \subseteq DOMAIN Findings /\ x \in Unit
      BY <1>1 DEF Allowance
    <3> QED BY <3>1, <3>2, TakenAllowed
  <2>4. (found \subseteq DOMAIN Findings)'
    BY <2>1 DEF Allowance
  <2> QED BY <2>1, <2>2, <2>3, <2>4 DEF Allowance
<1>5. CASE Waive
  BY <1>2, <1>5 DEF Waive
<1>6. CASE Ratchet
  BY <1>2, <1>6 DEF Ratchet
<1>7. CASE BlockBudget
  BY <1>2, <1>7 DEF BlockBudget
<1>8. CASE Idle
  BY <1>2, <1>8 DEF Idle
<1> QED BY <1>3, <1>4, <1>5, <1>6, <1>7, <1>8 DEF PolicyNext

\* module_budget: no unit, of however many that measure a module, has more
\* flops excused by its module's budget than its own allowance.
THEOREM AllowanceKept == PolicySpec => []AllowanceHeld
<1>1. Allowance => AllowanceHeld
  BY Zenon DEF Allowance, AllowanceHeld, BudgetExcused, Count
<1>2. Allowance /\ [PolicyNext]_policyVars => Allowance'
  BY CountedAssumption, AllowanceStep
<1> QED BY <1>1, <1>2, AllowanceInit, PTL DEF PolicySpec
=============================================================================
