-------------------------- MODULE FetchEpochProofs --------------------------
(***************************************************************************)
(* Theorems about FetchEpoch, for every set of checkpoints, every epoch    *)
(* counter wide enough, every latency of the channel and every wait in the *)
(* queue.                                                                  *)
(*                                                                         *)
(* The argument is about what is on its way.  To FET there are messages    *)
(* and frees: later redirects are for older branches, a free is older than *)
(* every redirect before it, and nothing follows a notice but notices, so  *)
(* whatever lands meets the checkpoints it was sent for.  To OOE there are *)
(* uops: those of the path OOE is on carry its epoch and come last, and    *)
(* every older one is some squashes behind.  Each squash that has left     *)
(* such a uop behind has taken a branch from br, so the distance and the   *)
(* branches left never exceed the checkpoints, and the counter cannot have *)
(* come round.  A warp relaunched before its last notices have landed is   *)
(* dark: all it is sent is out of date, and when one of them lands FET     *)
(* stops it, until it is killed, demoted or freed.                         *)
(***************************************************************************)
EXTENDS FetchEpoch, SequenceTheorems, FiniteSetTheorems, FunctionTheorems,
        WellFoundedInduction, TLAPS

----------------------------------------------------------------------------
(* Orders.                                                                 *)

\* a stands before b in s.
Older(s, a, b) == \E i, j \in DOMAIN s : i < j /\ s[i] = a /\ s[j] = b

Distinct(s) == \A i, j \in DOMAIN s : s[i] = s[j] => i = j

\* The warp runs and is fetched; runs, but was launched before its notices
\* had landed; is squashed and waits for its notice; or is quiet.
Running == st \in {"allocated", "active"}
NoNotice == /\ \A p \in DOMAIN toFet : toFet[p].msg.type # "notice"
            /\ \A i \in DOMAIN queue : queue[i].type # "notice"
Up == Running /\ fetching /\ NoNotice
Dark == Running /\ ~(fetching /\ NoNotice)
Down == st \in {"demoting", "killing"}
Quiet == st \in {"free", "drained"}

\* What is on its way to FET, by the order it lands in: the channel, and
\* last what the next bundles are made of.
Pos == 1 .. Lat
Chan == 1 .. Lat - 1
WayMsg(p) == IF p \in Chan THEN toFet[p].msg
             ELSE IF queue = << >> THEN NoMsg ELSE Head(queue)
WayFree(p) == IF p \in Chan THEN toFet[p].free ELSE freeMask
Redir(p) == WayMsg(p).type = "redirect"

\* What is on its way to OOE: the decode queue and then the channel.
Uops == 1 .. Len(decq) + Len(pipe)
UopAt(i) == IF i <= Len(decq) THEN decq[i] ELSE pipe[i - Len(decq)]

\* The epoch and the branches once a due squash has acted.
NowEpoch == IF due.on THEN NextEpoch(epoch) ELSE epoch
Kept == IF due.on THEN due.keep ELSE Len(br)

\* How many squashes ago e was the epoch, and that it still counts.
Lag(e) == (NowEpoch + Epochs - e) % Epochs
Behind(e) == Lag(e) >= 1 /\ Lag(e) + Kept <= Cardinality(Ckpt)

----------------------------------------------------------------------------
(* The invariant.                                                          *)

\* Nothing is on its way to FET but notices.
OnlyNotices ==
  /\ \A p \in Chan : toFet[p].msg.type \in {"none", "notice"} /\ toFet[p].free = {}
  /\ \A i \in DOMAIN queue : queue[i].type = "notice"

\* Which parts of the state go with the warp's state and the phase.
Modes ==
  /\ phase = "take" => ~due.on /\ freeMask = {}
  /\ due.on => Up /\ queue # << >>
  /\ ~Up => br = << >> /\ ~due.on /\ freeMask = {}
  /\ ~Down => rewindPending = 0
  /\ Up => /\ Len(queue) <= 1
           /\ \A p \in Pos : WayMsg(p).type \in {"none", "redirect"}
           /\ queue # << >> => Redir(Lat)
  /\ Quiet \/ Dark => OnlyNotices
  /\ st = "free" => decq = << >>

\* A squashed warp's queue: a redirect it overtook, the notices and a beat,
\* of which the first to be sent starts the timer.  The timer outlasts all
\* in the channel but notices.
Ends(m) == m.type \in {"notice", "beat"}
DownQueue ==
  Down =>
    /\ \A i \in DOMAIN queue :
         /\ queue[i].type = "redirect" => i = 1 /\ ~noticeSent
         /\ queue[i].type # "redirect" => Ends(queue[i])
         /\ queue[i].type = "beat" => rewindPending = 1
         /\ \A j \in DOMAIN queue :
              i < j /\ queue[j].type = "beat" => queue[i].type # "beat"
    /\ noticeSent => \A p \in Chan :
         toFet[p].msg.type \notin {"none", "notice"} \/ toFet[p].free # {} => p <= timer

\* Later redirects are for older branches; a free is of a branch older than
\* the redirects before it, and not one a later redirect restores; nothing
\* that names a checkpoint follows a notice.
Landings ==
  /\ Distinct(live)
  /\ \A p \in Pos : Redir(p) =>
       /\ WayMsg(p).ck \in Rng(live)
       /\ \A q \in Pos : p < q /\ Redir(q) => Older(live, WayMsg(q).ck, WayMsg(p).ck)
  /\ \A p \in Pos : \A c \in WayFree(p) :
       /\ c \in Rng(live)
       /\ \A q \in Pos : Redir(q) => IF q <= p THEN Older(live, c, WayMsg(q).ck)
                                             ELSE c # WayMsg(q).ck
       /\ \A q \in Pos : q # p => c \notin WayFree(q)
  /\ \A p \in Pos : WayMsg(p).type = "notice" =>
       \A q \in Pos : q >= p => WayFree(q) = {} /\ ~Redir(q)

\* The epoch FET holds, and those it will be sent: the last is OOE's, and
\* the others are behind it.
Sig(m) == m.type \in {"redirect", "notice"}
Given(p) == IF p = 0 THEN fetEpoch ELSE toFet[p].msg.ep
Gives(p) == p = 0 \/ Sig(toFet[p].msg)
Later(p) == \/ \E q \in Chan : p < q /\ Sig(toFet[q].msg)
            \/ \E i \in DOMAIN queue : Sig(queue[i])
EpochsGiven ==
  /\ \A p \in 0 .. Lat - 1 : Gives(p) =>
       IF Later(p) THEN Up => Behind(Given(p)) ELSE Given(p) = NowEpoch
  /\ \A i \in DOMAIN queue :
       Sig(queue[i]) /\ (\A j \in DOMAIN queue : i < j => ~Sig(queue[j]))
         => queue[i].ep = NowEpoch

\* The unresolved branches, oldest first, are live in FET and not on the way
\* to be freed, and those that stay are older than every redirect.
Branches ==
  Up => \A b \in DOMAIN br :
    /\ br[b] \in Rng(live)
    /\ \A a \in DOMAIN br : a < b => Older(live, br[a], br[b])
    /\ \A p \in Pos : br[b] \notin WayFree(p)
    /\ b <= Kept => \A p \in Pos : Redir(p) => Older(live, br[b], WayMsg(p).ck)

\* The uops: the stale ones come first and are behind, the others carry the
\* epoch both blocks have.  Those of OOE's epoch, younger than its branches,
\* are live in FET and in order.
Fresh(i) == UopAt(i).ep = epoch /\ UopAt(i).ck # None
UopsInTurn ==
  Up => \A i \in Uops :
    /\ \A j \in Uops : i < j /\ UopAt(j).stale => UopAt(i).stale
    /\ UopAt(i).stale => Behind(UopAt(i).ep)
    /\ ~UopAt(i).stale => UopAt(i).ep = epoch /\ Outstanding = {}
    /\ Fresh(i) =>
         /\ UopAt(i).ck \in Rng(live)
         /\ \A j \in Uops : i < j /\ Fresh(j) => Older(live, UopAt(i).ck, UopAt(j).ck)
         /\ \A b \in DOMAIN br : Older(live, br[b], UopAt(i).ck)
         /\ \A p \in Pos : UopAt(i).ck \notin WayFree(p)

\* A checkpoint no redirect will free belongs to a branch that stays, to one
\* on its way to rename, or to a free.
Owned(c) ==
  \/ \E b \in DOMAIN br : b <= Kept /\ br[b] = c
  \/ \E i \in Uops : ~UopAt(i).stale /\ UopAt(i).ck = c
  \/ \E p \in Pos : c \in WayFree(p)
Survives(c) == \A p \in Pos : Redir(p) => Older(live, c, WayMsg(p).ck)
Mirrored == Up => \A c \in Rng(live) : Survives(c) => Owned(c)

\* All a dark warp has been sent, and all it would be, is out of date; it
\* was stopped with no checkpoint.
Outdated ==
  Dark => /\ \A i \in Uops : UopAt(i).ep # epoch /\ UopAt(i).stale
          /\ IF fetching THEN fetEpoch # epoch ELSE live = << >>

IInv == /\ TypeOK /\ Modes /\ DownQueue /\ Landings /\ EpochsGiven
        /\ Branches /\ UopsInTurn /\ Mirrored /\ Outdated

----------------------------------------------------------------------------
(* What is left of a sequence.                                             *)

\* The members of a finite set of naturals, counted up to each: the count
\* goes up by one from a member to the next, from 1 to their number.
LEMMA Ranks ==
  ASSUME NEW n \in Nat, NEW I \in SUBSET (1..n)
  PROVE  /\ IsFiniteSet(I) /\ Cardinality(I) \in Nat
         /\ \A i \in I : Cardinality({j \in I : j <= i}) \in 1..Cardinality(I)
         /\ \A i, k \in I : i < k => Cardinality({j \in I : j <= i})
                                        < Cardinality({j \in I : j <= k})
         /\ \A m \in 1..Cardinality(I) :
              \E i \in I : Cardinality({j \in I : j <= i}) = m
<1> DEFINE Upto(i) == {j \in I : j <= i}
           rank == [i \in I |-> Cardinality(Upto(i))]
           K == Cardinality(I)
<1>1. IsFiniteSet(I) /\ K \in Nat
  BY FS_Interval, FS_Subset, FS_CardinalityType, 1 \in Int, n \in Int
<1>2. \A i \in I : /\ IsFiniteSet(Upto(i)) /\ Upto(i) \subseteq I
                   /\ Cardinality(Upto(i)) \in Nat /\ Cardinality(Upto(i)) <= K
  BY <1>1, FS_Subset, FS_CardinalityType
<1>3. \A i \in I : i \in Upto(i)
  OBVIOUS
<1>4. \A i \in I : Cardinality(Upto(i)) # 0
  BY <1>2, <1>3, FS_EmptySet
<1>5. \A i \in I : Cardinality(Upto(i)) \in 1..K
  BY <1>1, <1>2, <1>4
<1>6. ASSUME NEW i \in I, NEW k \in I, i < k
      PROVE  Cardinality(Upto(i)) < Cardinality(Upto(k))
  <2>0. i \in Nat /\ k \in Nat /\ \A j \in I : j \in Nat
    OBVIOUS
  <2> HIDE DEF rank
  <2>a. \A j \in I : j <= i => j <= k
    BY <1>6, <2>0
  <2>b. ~(k <= i) /\ k <= k
    BY <1>6, <2>0
  <2>1. Upto(i) \subseteq Upto(k) /\ k \in Upto(k) /\ k \notin Upto(i)
    BY <2>a, <2>b
  <2>2. IsFiniteSet(Upto(k)) /\ IsFiniteSet(Upto(i))
    BY <1>2
  <2>3. Cardinality(Upto(i)) <= Cardinality(Upto(k))
        /\ Cardinality(Upto(i)) # Cardinality(Upto(k))
    BY <2>1, <2>2, FS_Subset
  <2> QED BY <1>2, <2>3
<1>7. \A m \in 1..K : \E i \in I : Cardinality(Upto(i)) = m
  <2> DEFINE R == {rank[i] : i \in I}
  <2>1. R \subseteq 1..K
    BY <1>5
  <2>2. \A i, k \in I : rank[i] = rank[k] => i = k
    <3> SUFFICES ASSUME NEW i \in I, NEW k \in I, rank[i] = rank[k], i # k
                 PROVE  FALSE
      OBVIOUS
    <3>1. i < k \/ k < i
      OBVIOUS
    <3> QED BY <1>2, <1>6, <3>1
  <2> HIDE DEF rank
  <2>3. rank \in [I -> R]
    BY DEF rank
  <2>4. rank \in Bijection(I, R)
    BY <2>2, <2>3 DEF Bijection, Injection, Surjection, IsInjective
  <2>5. Cardinality(R) = K
    BY <1>1, <2>4, FS_Bijection DEF ExistsBijection
  <2>6. IsFiniteSet(1..K) /\ Cardinality(1..K) = K
    BY <1>1, FS_Interval
  <2>7. R = 1..K
    BY <2>1, <2>5, <2>6, FS_Subset
  <2> QED BY <2>7 DEF rank
<1> QED BY <1>1, <1>5, <1>6, <1>7

\* Without(s, F) takes the kept places of s in their order.
Takes(s, F, K, place) ==
  /\ K \in Nat /\ place \in [1..K -> DOMAIN s]
  /\ Without(s, F) = [n \in 1..K |-> s[place[n]]]
  /\ \A m, n \in 1..K : m < n => place[m] < place[n]
  /\ \A i \in DOMAIN s : s[i] \notin F <=> \E n \in 1..K : place[n] = i

LEMMA WithoutPlaces ==
  ASSUME NEW S, NEW s \in Seq(S), NEW F
  PROVE  \E K, place : Takes(s, F, K, place)
<1> DEFINE I == {i \in DOMAIN s : s[i] \notin F}
           rank(i) == Cardinality({j \in I : j <= i})
           K == Cardinality(I)
           place == [n \in 1..K |-> CHOOSE i \in I : rank(i) = n]
<1>1. I \in SUBSET (1..Len(s)) /\ Len(s) \in Nat
  OBVIOUS
<1>a. Without(s, F) = [n \in 1..K |-> s[CHOOSE i \in I : rank(i) = n]]
  BY DEF Without
<1> HIDE DEF I
<1>2. /\ K \in Nat
      /\ \A i \in I : rank(i) \in 1..K
      /\ \A i, k \in I : i < k => rank(i) < rank(k)
      /\ \A m \in 1..K : \E i \in I : rank(i) = m
  BY <1>1, Ranks
<1>3. \A n \in 1..K : place[n] \in I /\ rank(place[n]) = n
  BY <1>2
<1>4. \A i \in I : i \in Nat
  BY <1>1
<1> HIDE DEF rank, K
<1>5. \A m, n \in 1..K : m < n => place[m] < place[n]
  <2> SUFFICES ASSUME NEW m \in 1..K, NEW n \in 1..K, m < n, ~(place[m] < place[n])
               PROVE  FALSE
    OBVIOUS
  <2>0. place[m] \in I /\ place[n] \in I /\ rank(place[m]) = m /\ rank(place[n]) = n
    BY <1>3
  <2> HIDE DEF place
  <2>1. place[n] = place[m] \/ place[n] < place[m]
    BY <1>4, <2>0
  <2>2. place[n] < place[m] => n < m
    BY <1>2, <2>0
  <2> QED BY <1>2, <2>0, <2>1, <2>2
<1>6. \A i \in I : \E n \in 1..K : place[n] = i
  <2> SUFFICES ASSUME NEW i \in I PROVE place[rank(i)] = i
    BY <1>2
  <2>0. /\ place[rank(i)] \in I /\ rank(place[rank(i)]) = rank(i)
        /\ rank(i) \in 1..K
    BY <1>2, <1>3
  <2> HIDE DEF place
  <2>1. place[rank(i)] = i \/ place[rank(i)] < i \/ i < place[rank(i)]
    BY <1>4, <2>0
  <2> QED BY <1>2, <2>0, <2>1
<1>7. place \in [1..K -> DOMAIN s]
  BY <1>3 DEF I
<1>8. Without(s, F) = [n \in 1..K |-> s[place[n]]]
  BY <1>a
<1>9. \A i \in DOMAIN s : s[i] \notin F <=> \E n \in 1..K : place[n] = i
  BY <1>3, <1>6 DEF I
<1> HIDE DEF place
<1>10. Takes(s, F, K, place)
  BY <1>2, <1>5, <1>7, <1>8, <1>9 DEF Takes
<1> QED BY <1>10

LEMMA WithoutIs ==
  ASSUME NEW S, NEW s \in Seq(S), NEW F, Distinct(s)
  PROVE  /\ Without(s, F) \in Seq(S) /\ Distinct(Without(s, F))
         /\ \A c : c \in Rng(Without(s, F)) <=> c \in Rng(s) /\ c \notin F
         /\ \A a, b : Older(Without(s, F), a, b)
                        <=> Older(s, a, b) /\ a \notin F /\ b \notin F
<1>1. PICK K, place : Takes(s, F, K, place)
  BY WithoutPlaces
<1>2. /\ K \in Nat /\ place \in [1..K -> DOMAIN s]
      /\ Without(s, F) = [n \in 1..K |-> s[place[n]]]
      /\ \A m, n \in 1..K : m < n => place[m] < place[n]
      /\ \A i \in DOMAIN s : s[i] \notin F <=> \E n \in 1..K : place[n] = i
  BY <1>1 DEF Takes
<1> DEFINE w == Without(s, F)
<1>3. DOMAIN w = 1..K /\ \A n \in 1..K : w[n] = s[place[n]] /\ place[n] \in DOMAIN s
  BY <1>2
<1>4. DOMAIN s = 1..Len(s) /\ Len(s) \in Nat /\ \A i \in DOMAIN s : s[i] \in S
  OBVIOUS
<1>5. w \in Seq(S)
  BY <1>2, <1>3, <1>4, IsASeq
<1> HIDE DEF w
<1>6. \A m, n \in 1..K : place[m] < place[n] => m < n
  <2> SUFFICES ASSUME NEW m \in 1..K, NEW n \in 1..K, place[m] < place[n], ~(m < n)
               PROVE  FALSE
    OBVIOUS
  <2>1. place[m] \in Nat /\ place[n] \in Nat
    BY <1>3, <1>4
  <2>2. n = m \/ n < m
    OBVIOUS
  <2> QED BY <1>2, <2>1, <2>2
<1>7. Distinct(w)
  <2> SUFFICES ASSUME NEW m \in 1..K, NEW n \in 1..K, w[m] = w[n], m # n
               PROVE  FALSE
    BY <1>3 DEF Distinct
  <2>1. place[m] = place[n]
    BY <1>3 DEF Distinct
  <2>2. m < n \/ n < m
    OBVIOUS
  <2>3. place[m] \in Nat
    BY <1>3, <1>4
  <2> QED BY <1>2, <2>1, <2>2, <2>3
<1>8. ASSUME NEW c PROVE c \in Rng(w) <=> c \in Rng(s) /\ c \notin F
  <2>1. ASSUME c \in Rng(w) PROVE c \in Rng(s) /\ c \notin F
    <3>1. PICK n \in 1..K : w[n] = c
      BY <1>3, <2>1 DEF Rng
    <3> QED BY <1>2, <1>3, <3>1 DEF Rng
  <2>2. ASSUME c \in Rng(s), c \notin F PROVE c \in Rng(w)
    <3>1. PICK i \in DOMAIN s : s[i] = c
      BY <2>2 DEF Rng
    <3>2. PICK n \in 1..K : place[n] = i
      BY <1>2, <2>2, <3>1
    <3> QED BY <1>3, <3>1, <3>2 DEF Rng
  <2> QED BY <2>1, <2>2
<1>9. ASSUME NEW a, NEW b, Older(w, a, b)
      PROVE  Older(s, a, b) /\ a \notin F /\ b \notin F
  BY <1>2, <1>3, <1>9 DEF Older
<1>10. ASSUME NEW a, NEW b, Older(s, a, b), a \notin F, b \notin F
       PROVE  Older(w, a, b)
  <2>1. PICK i \in DOMAIN s, j \in DOMAIN s : i < j /\ s[i] = a /\ s[j] = b
    BY <1>10 DEF Older
  <2>2. PICK m \in 1..K, n \in 1..K : place[m] = i /\ place[n] = j
    BY <1>2, <1>10, <2>1
  <2> QED BY <1>3, <1>6, <2>1, <2>2 DEF Older
<1> QED BY <1>5, <1>7, <1>8, <1>9, <1>10 DEF w

\* In a sequence without repetition, standing before is a strict total order.
LEMMA OlderIs ==
  ASSUME NEW S, NEW s \in Seq(S), Distinct(s)
  PROVE  /\ \A a : ~Older(s, a, a)
         /\ \A a, b : Older(s, a, b) => a \in Rng(s) /\ b \in Rng(s) /\ a # b
         /\ \A a, b, c : Older(s, a, b) /\ Older(s, b, c) => Older(s, a, c)
         /\ \A a, b \in Rng(s) : a = b \/ Older(s, a, b) \/ Older(s, b, a)
         /\ \A c : c \in Rng(s) => c \in S
<1>1. DOMAIN s = 1..Len(s) /\ Len(s) \in Nat /\ \A i \in DOMAIN s : s[i] \in S
  OBVIOUS
<1>2. \A a : ~Older(s, a, a)
  BY <1>1 DEF Older, Distinct
<1>3. \A a, b : Older(s, a, b) => a \in Rng(s) /\ b \in Rng(s)
  BY DEF Older, Rng
<1>4. ASSUME NEW a, NEW b, NEW c, Older(s, a, b), Older(s, b, c)
      PROVE  Older(s, a, c)
  <2>1. PICK i \in DOMAIN s, j \in DOMAIN s : i < j /\ s[i] = a /\ s[j] = b
    BY <1>4 DEF Older
  <2>2. PICK k \in DOMAIN s, l \in DOMAIN s : k < l /\ s[k] = b /\ s[l] = c
    BY <1>4 DEF Older
  <2>3. j = k
    BY <2>1, <2>2 DEF Distinct
  <2> QED BY <1>1, <2>1, <2>2, <2>3 DEF Older
<1>5. ASSUME NEW a \in Rng(s), NEW b \in Rng(s)
      PROVE  a = b \/ Older(s, a, b) \/ Older(s, b, a)
  <2>1. PICK i \in DOMAIN s, j \in DOMAIN s : s[i] = a /\ s[j] = b
    BY <1>5 DEF Rng
  <2>2. i = j \/ i < j \/ j < i
    BY <1>1
  <2> QED BY <2>1, <2>2 DEF Older
<1> QED BY <1>1, <1>2, <1>3, <1>4, <1>5 DEF Rng

LEMMA PrefixIs ==
  ASSUME NEW S, NEW s \in Seq(S), NEW n \in 0..Len(s)
  PROVE  /\ SubSeq(s, 1, n) \in Seq(S) /\ Len(SubSeq(s, 1, n)) = n
         /\ DOMAIN SubSeq(s, 1, n) = 1..n
         /\ \A i \in 1..n : SubSeq(s, 1, n)[i] = s[i] /\ i \in DOMAIN s
<1>1. n \in Int /\ 1 \in Int /\ n - 1 + 1 = n /\ (1 <= n \/ n = 0)
  OBVIOUS
<1>2. \A i \in 1..n : i \in DOMAIN s /\ s[i] \in S /\ 1 + i - 1 = i
  OBVIOUS
<1>3. /\ SubSeq(s, 1, n) \in Seq(S)
      /\ Len(SubSeq(s, 1, n)) = IF 1 <= n THEN n - 1 + 1 ELSE 0
      /\ \A i \in 1..(n - 1 + 1) : SubSeq(s, 1, n)[i] = s[1 + i - 1]
  BY <1>1, <1>2, SubSeqProperties
<1>4. Len(SubSeq(s, 1, n)) = n
  BY <1>1, <1>3
<1>5. DOMAIN SubSeq(s, 1, n) = 1..n
  BY <1>3, <1>4, LenProperties
<1> QED BY <1>1, <1>2, <1>3, <1>4, <1>5

\* The elements before one of them.
Before(s, e) == SubSeq(s, 1, (CHOOSE i \in DOMAIN s : s[i] = e) - 1)

LEMMA BeforeIs ==
  ASSUME NEW S, NEW s \in Seq(S), Distinct(s), NEW e \in Rng(s), NEW t, t = Before(s, e)
  PROVE  /\ t \in Seq(S) /\ Distinct(t)
         /\ \A c : c \in Rng(t) <=> Older(s, c, e)
         /\ \A a, b : Older(t, a, b) <=> Older(s, a, b) /\ Older(s, b, e)
<1> DEFINE k == CHOOSE i \in DOMAIN s : s[i] = e
<1>1. k \in DOMAIN s /\ s[k] = e
  BY DEF Rng
<1>2. DOMAIN s = 1..Len(s) /\ Len(s) \in Nat
  OBVIOUS
<1> HIDE DEF k
<1>3. t = SubSeq(s, 1, k - 1)
  BY DEF k, Before
<1>a. k - 1 \in 0..Len(s)
  BY <1>1, <1>2
<1>4. /\ t \in Seq(S) /\ Len(t) = k - 1 /\ \A i \in 1..(k-1) : t[i] = s[i]
  <2> DEFINE n == k - 1
  <2>1. n \in 0..Len(s) /\ t = SubSeq(s, 1, n)
    BY <1>3, <1>a
  <2> HIDE DEF n
  <2>a. /\ SubSeq(s, 1, n) \in Seq(S) /\ Len(SubSeq(s, 1, n)) = n
        /\ \A i \in 1..n : SubSeq(s, 1, n)[i] = s[i]
    BY ONLY s \in Seq(S), <2>1, PrefixIs, Zenon
  <2>2. t \in Seq(S) /\ Len(t) = n /\ \A i \in 1..n : t[i] = s[i]
    BY <2>1, <2>a, Zenon
  <2> QED BY <2>2 DEF n
<1>5. DOMAIN t = 1..(k-1)
  BY <1>4
<1>6. \A i \in DOMAIN t : i \in DOMAIN s /\ t[i] = s[i] /\ i < k
  BY <1>1, <1>2, <1>4, <1>5
<1>7. Distinct(t)
  BY <1>6 DEF Distinct
<1>8. \A i \in DOMAIN s : i < k => i \in DOMAIN t
  BY <1>1, <1>2, <1>5
<1>9. \A i \in DOMAIN s : s[i] = e => i = k
  BY <1>1 DEF Distinct
<1>10. ASSUME NEW c PROVE c \in Rng(t) <=> Older(s, c, e)
  <2>1. ASSUME c \in Rng(t) PROVE Older(s, c, e)
    BY <1>1, <1>6, <2>1 DEF Rng, Older
  <2>2. ASSUME Older(s, c, e) PROVE c \in Rng(t)
    <3>1. PICK i \in DOMAIN s : i < k /\ s[i] = c
      BY <1>9, <2>2 DEF Older
    <3> QED BY <1>6, <1>8, <3>1 DEF Rng
  <2> QED BY <2>1, <2>2
<1>11. ASSUME NEW a, NEW b
       PROVE  Older(t, a, b) <=> Older(s, a, b) /\ Older(s, b, e)
  <2>1. ASSUME Older(t, a, b) PROVE Older(s, a, b) /\ Older(s, b, e)
    BY <1>1, <1>6, <2>1 DEF Older
  <2>2. ASSUME Older(s, a, b), Older(s, b, e) PROVE Older(t, a, b)
    <3>1. PICK i \in DOMAIN s, j \in DOMAIN s : i < j /\ s[i] = a /\ s[j] = b
      BY <2>2 DEF Older
    <3>2. j < k
      BY <1>9, <2>2, <3>1 DEF Older, Distinct
    <3>3. i < k
      BY <1>1, <1>2, <3>1, <3>2
    <3> QED BY <1>6, <1>8, <3>1, <3>2, <3>3 DEF Older
  <2> QED BY <2>1, <2>2
<1> QED BY <1>4, <1>7, <1>10, <1>11

\* One more at the end.
LEMMA AfterIs ==
  ASSUME NEW S, NEW s \in Seq(S), Distinct(s), NEW e \in S, e \notin Rng(s)
  PROVE  /\ Append(s, e) \in Seq(S) /\ Distinct(Append(s, e))
         /\ \A c : c \in Rng(Append(s, e)) <=> c \in Rng(s) \/ c = e
         /\ \A a, b : Older(Append(s, e), a, b)
                        <=> Older(s, a, b) \/ (a \in Rng(s) /\ b = e)
<1> DEFINE t == Append(s, e)
<1>1. /\ t \in Seq(S) /\ Len(t) = Len(s) + 1 /\ Len(s) \in Nat
      /\ \A i \in 1..Len(s) : t[i] = s[i] /\ t[Len(s) + 1] = e
  BY AppendProperties
<1>a. t[Len(s) + 1] = e
  BY AppendProperties
<1>2. DOMAIN t = 1..(Len(s) + 1) /\ DOMAIN s = 1..Len(s)
  BY <1>1
<1> HIDE DEF t
<1>3. \A i \in DOMAIN t : i \in DOMAIN s \/ i = Len(s) + 1
  BY <1>1, <1>2
<1>4. \A i \in DOMAIN s : i \in DOMAIN t /\ i < Len(s) + 1 /\ t[i] = s[i] /\ s[i] # e
  BY <1>1, <1>2 DEF Rng
<1>5. Len(s) + 1 \in DOMAIN t /\ ~(Len(s) + 1 < Len(s) + 1)
  BY <1>1, <1>2
<1>6. \A i \in DOMAIN s : ~(Len(s) + 1 < i)
  BY <1>1, <1>2
<1>7. Distinct(t)
  BY <1>a, <1>3, <1>4 DEF Distinct
<1>8. \A c : c \in Rng(t) <=> c \in Rng(s) \/ c = e
  BY <1>a, <1>3, <1>4, <1>5 DEF Rng
<1>9. \A a, b : Older(t, a, b) <=> Older(s, a, b) \/ (a \in Rng(s) /\ b = e)
  BY <1>a, <1>3, <1>4, <1>5, <1>6 DEF Older, Rng
<1> QED BY <1>1, <1>7, <1>8, <1>9 DEF t

\* Nothing stands in the empty sequence.
LEMMA NoneIs == Distinct(<< >>) /\ \A c : c \notin Rng(<< >>)
BY DEF Distinct, Rng

\* A sequence without repetition is no longer than the set it is drawn from.
LEMMA DistinctLen ==
  ASSUME NEW S, IsFiniteSet(S), NEW s \in Seq(S), Distinct(s)
  PROVE  Len(s) <= Cardinality(S)
<1>1. s \in Injection(1..Len(s), S)
  BY DEF Injection, IsInjective, Distinct
<1>2. IsFiniteSet(1..Len(s)) /\ Cardinality(1..Len(s)) = Len(s)
  <2>1. 1 \in Int /\ Len(s) \in Int /\ Len(s) >= 0
    OBVIOUS
  <2> QED BY <2>1, FS_Interval
<1>3. Cardinality(1..Len(s)) <= Cardinality(S)
  BY <1>1, FS_Injection
<1> QED BY <1>2, <1>3

----------------------------------------------------------------------------
(* What the parts of the invariant are about.                              *)

LEMMA Places ==
  /\ Lat \in Nat /\ Lat - 1 \in Nat /\ Lat - 1 \in Chan /\ 1 \in Chan
  /\ Lat \in Pos /\ Lat \notin Chan
  /\ \A p \in Pos : p \in Nat /\ (p \in Chan \/ p = Lat) /\ p <= Lat
  /\ \A p \in Chan : p \in Pos /\ p \in Nat /\ p + 1 \in Pos /\ p < Lat
BY EpochAssumption DEF Chan, Pos

\* An epoch's distance from the next one is one more, short of a full turn.
Turned(N, a, b, x) ==
  /\ x \in 0..N-1 /\ x # a
  /\ (a + N - b) % N \in 0..N-1
  /\ (a + N - b) % N = 0 <=> a = b
  /\ (x + N - a) % N = 1
  /\ (a + N - b) % N < N - 1 => (x + N - b) % N = ((a + N - b) % N) + 1

LEMMA Turns ==
  ASSUME NEW N \in Nat, N > 1, NEW a \in 0..N-1, NEW b \in 0..N-1, NEW x,
         x = (a + 1) % N
  PROVE  Turned(N, a, b, x)
<1>1. x = IF a = N - 1 THEN 0 ELSE a + 1
  OBVIOUS
<1>2. ASSUME NEW c \in 0..N-1, NEW d \in 0..N-1
      PROVE  (c + N - d) % N = IF d <= c THEN c - d ELSE c + N - d
  <2>1. CASE d <= c
    <3>1. c - d \in 0..N-1 /\ c + N - d = (c - d) + N
      BY <2>1
    <3> QED BY <2>1, <3>1
  <2>2. CASE ~(d <= c)
    <3>1. c + N - d \in 0..N-1
      BY <2>2
    <3> QED BY <2>2, <3>1
  <2> QED BY <2>1, <2>2
<1>3. x \in 0..N-1 /\ x # a
  BY <1>1
<1>4. (a + N - b) % N \in 0..N-1 /\ ((a + N - b) % N = 0 <=> a = b)
  BY <1>2
<1>5. (x + N - a) % N = 1
  BY <1>1, <1>2, <1>3
<1>6. (a + N - b) % N < N - 1 => (x + N - b) % N = ((a + N - b) % N) + 1
  <2>1. (x + N - b) % N = IF b <= x THEN x - b ELSE x + N - b
    BY <1>2, <1>3
  <2>2. (a + N - b) % N = IF b <= a THEN a - b ELSE a + N - b
    BY <1>2
  <2> QED BY <1>1, <2>1, <2>2
<1> QED BY <1>3, <1>4, <1>5, <1>6 DEF Turned

LEMMA Wide == Cardinality(Ckpt) \in Nat /\ Epochs \in Nat /\ Epochs > Cardinality(Ckpt) + 1
BY EpochAssumption, FS_CardinalityType

LEMMA InitIInv ==
  ASSUME Init
  PROVE  IInv
<1> USE Places
<1>a. NoMsg \in Msg
  BY Wide, EpochAssumption DEF NoMsg, Msg, Epoch
<1>b. toFet = [i \in 1 .. Lat - 1 |-> [msg |-> NoMsg, free |-> {}]] /\ Lat - 1 \in Nat
  BY Places DEF Init
<1>0. /\ Len(toFet) = Lat - 1 /\ DOMAIN toFet = Chan
      /\ \A p \in Chan : toFet[p] = [msg |-> NoMsg, free |-> {}]
      /\ toFet \in Seq([msg : Msg, free : SUBSET Ckpt])
  <2> DEFINE none == [msg |-> NoMsg, free |-> {}]
  <2>1. none \in [msg : Msg, free : SUBSET Ckpt]
    BY <1>a
  <2> HIDE DEF none
  <2>2. toFet = [i \in 1 .. Lat - 1 |-> none]
    BY <1>b DEF none
  <2>3. /\ Len(toFet) = Lat - 1 /\ DOMAIN toFet = Chan
        /\ \A p \in Chan : toFet[p] = none
        /\ toFet \in Seq([msg : Msg, free : SUBSET Ckpt])
    <3> DEFINE n == Lat - 1
    <3>1. n \in Nat /\ toFet = [i \in 1 .. n |-> none] /\ Chan = 1 .. n
      BY <1>b, <2>2 DEF Chan
    <3> HIDE DEF n
    <3>2. toFet \in Seq([msg : Msg, free : SUBSET Ckpt])
      BY <2>1, <3>1, IsASeq
    <3>3. Len(toFet) = n
      BY <3>1, <3>2
    <3> QED BY <3>1, <3>2, <3>3 DEF n
  <2> QED BY <2>3 DEF none
<1>c. 0 \in Epoch /\ 0 \in 0 .. Cardinality(Ckpt) /\ 0 \in 0 .. Lat /\ MaxDecq \in Nat /\ MaxPipe \in Nat
  BY Wide, EpochAssumption DEF Epoch
<1>d. << >> \in Seq(Ckpt) /\ << >> \in Seq(Uop) /\ << >> \in Seq(Msg) /\ Len(<< >>) = 0
  OBVIOUS
<1>1. TypeOK
  <2>1. epoch \in Epoch /\ st \in State /\ freeMask \subseteq Ckpt /\ held \in BOOLEAN
    BY <1>c DEF Init, State
  <2>6. br \in Seq(Ckpt) /\ Len(br) <= Cardinality(Ckpt)
    BY <1>d, Wide DEF Init
  <2>2. due \in [on : BOOLEAN, keep : 0 .. Cardinality(Ckpt)] /\ ~due.on
    BY <1>c DEF Init, NoDue
  <2>3. decq \in Seq(Uop) /\ Len(decq) <= MaxDecq /\ queue \in Seq(Msg)
        /\ pipe \in Seq(Uop) /\ Len(pipe) <= MaxPipe
    BY <1>c, <1>d DEF Init
  <2>4. noticeSent \in BOOLEAN /\ timer \in 0 .. Lat /\ rewindPending \in 0 .. 1
    BY <1>c, 0 \in 0 .. 1 DEF Init
  <2>5. fetEpoch \in Epoch /\ live \in Seq(Ckpt) /\ fetching \in BOOLEAN
        /\ phase \in {"take", "control", "rename", "arrive"}
    BY <1>c, <1>d DEF Init
  <2> QED BY <1>0, <2>1, <2>2, <2>3, <2>4, <2>5, <2>6 DEF TypeOK
<1>2. \A p \in Pos : WayMsg(p) = NoMsg /\ WayFree(p) = {}
  BY <1>0 DEF Init, WayMsg, WayFree
<1>e. OnlyNotices
  <2>1. DOMAIN queue = {}
    BY DEF Init
  <2>2. NoMsg.type = "none"
    BY DEF NoMsg
  <2>3. \A p \in Chan : toFet[p] = [msg |-> NoMsg, free |-> {}]
    BY <1>0
  <2>4. \A p \in Chan : toFet[p].msg = NoMsg /\ toFet[p].free = {}
    BY ONLY <2>3
  <2> QED BY ONLY <2>1, <2>2, <2>4 DEF OnlyNotices
<1>3. Modes
  BY <1>e DEF Init, Modes, NoDue, Up, Running
<1>4. DownQueue
  BY DEF Init, DownQueue, Down
<1>5. Landings
  BY <1>2, NoneIs DEF Init, Landings, Redir, NoMsg
<1>6. EpochsGiven
  BY <1>0 DEF Init, EpochsGiven, Gives, Given, Later, Sig, NowEpoch, NoMsg, NoDue, Chan
<1>7. ~Up /\ ~Dark
  BY DEF Init, Up, Dark, Running
<1> QED BY <1>1, <1>3, <1>4, <1>5, <1>6, <1>7 DEF IInv, Branches, UopsInTurn, Mirrored, Outdated

\* Each part is a matter of the variables it names.
LEMMA SameModes ==
  ASSUME UNCHANGED <<toFet, queue, fetching>>
  PROVE  /\ NoNotice' = NoNotice /\ OnlyNotices' = OnlyNotices
         /\ Running' = Running => Up' = Up /\ Dark' = Dark
BY DEF NoNotice, OnlyNotices, Up, Dark

LEMMA SameOutdated ==
  ASSUME Outdated, Dark' => Dark,
         UNCHANGED <<decq, pipe, epoch, fetching, fetEpoch, live>>
  PROVE  Outdated'
<1>1. Uops' = Uops /\ \A i : UopAt(i)' = UopAt(i)
  BY DEF Uops, UopAt
<1> QED BY <1>1 DEF Outdated

LEMMA SameWay ==
  ASSUME UNCHANGED <<toFet, queue, freeMask>>
  PROVE  \A p : WayMsg(p)' = WayMsg(p) /\ WayFree(p)' = WayFree(p) /\ Redir(p)' = Redir(p)
BY DEF WayMsg, WayFree, Redir

LEMMA SameLandings ==
  ASSUME Landings, UNCHANGED <<toFet, queue, freeMask, live>>
  PROVE  Landings'
BY SameWay DEF Landings

LEMMA SameGiven ==
  ASSUME EpochsGiven, Up' => Up /\ Kept' = Kept,
         UNCHANGED <<toFet, queue, fetEpoch>>, NowEpoch' = NowEpoch
  PROVE  EpochsGiven'
<1>1. Up' => \A e : Behind(e)' = Behind(e)
  BY DEF Behind, Lag
<1>2. \A p : Later(p)' = Later(p) /\ Given(p)' = Given(p) /\ Gives(p)' = Gives(p)
  BY DEF Later, Given, Gives
<1> QED BY <1>1, <1>2 DEF EpochsGiven

LEMMA SameBranches ==
  ASSUME Branches, Up' => Up, UNCHANGED <<toFet, queue, freeMask, live, br, due>>
  PROVE  Branches'
<1>1. Kept' = Kept
  BY DEF Kept
<1> QED BY <1>1, SameWay DEF Branches

LEMMA SameUops ==
  ASSUME UopsInTurn, Up' => Up,
         UNCHANGED <<toFet, queue, freeMask, live, br, due, decq, pipe, epoch>>
  PROVE  UopsInTurn'
<1>1. \A e : Behind(e)' = Behind(e)
  BY DEF Behind, Lag, NowEpoch, Kept
<1>2. \A i : UopAt(i)' = UopAt(i) /\ Fresh(i)' = Fresh(i)
  BY DEF UopAt, Fresh
<1>3. Uops' = Uops /\ Outstanding' = Outstanding
  BY DEF Uops, Outstanding, InChannel
<1> QED BY <1>1, <1>2, <1>3, SameWay DEF UopsInTurn

LEMMA SameMirrored ==
  ASSUME Mirrored, Up' => Up,
         UNCHANGED <<toFet, queue, freeMask, live, br, due, decq, pipe>>
  PROVE  Mirrored'
<1>1. \A i : UopAt(i)' = UopAt(i)
  BY DEF UopAt
<1>2. Uops' = Uops /\ Kept' = Kept
  BY DEF Uops, Kept
<1>3. \A c : Owned(c)' = Owned(c)
  BY <1>1, <1>2, SameWay DEF Owned
<1>4. \A c : Survives(c)' = Survives(c)
  BY SameWay DEF Survives
<1> QED BY <1>3, <1>4 DEF Mirrored

LEMMA NextEpochIs ==
  ASSUME NEW e \in Epoch
  PROVE  NextEpoch(e) \in Epoch /\ NextEpoch(e) # e
<1>1. Epochs \in Nat /\ Epochs > 1 /\ Epoch = 0..Epochs-1
  BY Wide DEF Epoch
<1>2. NextEpoch(e) = (e + 1) % Epochs
  BY DEF NextEpoch
<1> QED BY <1>1, <1>2, Turns DEF Turned

\* What the types say of the derived state.
LEMMA Typed ==
  ASSUME TypeOK
  PROVE  /\ DOMAIN toFet = Chan
         /\ \A p \in Chan : toFet[p].msg \in Msg /\ toFet[p].free \in SUBSET Ckpt
         /\ \A p \in Pos : WayMsg(p) \in Msg /\ WayFree(p) \subseteq Ckpt
         /\ Len(decq) \in Nat /\ Len(pipe) \in Nat
         /\ \A i \in Uops : UopAt(i) \in Uop /\ i \in Nat
         /\ DOMAIN br = 1..Len(br) /\ Len(br) \in Nat
         /\ \A b \in DOMAIN br : br[b] \in Ckpt
         /\ Kept \in 0..Len(br)
         /\ NowEpoch \in Epoch
         /\ DOMAIN queue = 1..Len(queue) /\ Len(queue) \in Nat
         /\ \A i \in DOMAIN queue : queue[i] \in Msg
         /\ queue # << >> => Head(queue) = queue[1] /\ 1 \in DOMAIN queue /\ Len(queue) >= 1
<1> USE DEF TypeOK
<1>1. DOMAIN toFet = Chan
  BY Places DEF Chan
<1>2. \A p \in Chan : toFet[p] \in [msg : Msg, free : SUBSET Ckpt]
  <2> DEFINE R == [msg : Msg, free : SUBSET Ckpt]
  <2>1. toFet \in Seq(R)
    OBVIOUS
  <2> HIDE DEF R
  <2>2. \A p \in DOMAIN toFet : toFet[p] \in R
    BY <2>1
  <2> QED BY <1>1, <2>2 DEF R
<1>3. \A p \in Chan : toFet[p].msg \in Msg /\ toFet[p].free \in SUBSET Ckpt
  BY <1>2
<1>4. /\ DOMAIN queue = 1..Len(queue) /\ Len(queue) \in Nat
      /\ \A i \in DOMAIN queue : queue[i] \in Msg
  OBVIOUS
<1>5. queue # << >> => Head(queue) = queue[1] /\ 1 \in DOMAIN queue /\ Len(queue) >= 1
  BY <1>4, EmptySeq
<1>6. NoMsg \in Msg
  BY Wide, EpochAssumption DEF NoMsg, Msg, Epoch
<1>7. \A p \in Pos : WayMsg(p) \in Msg /\ WayFree(p) \subseteq Ckpt
  BY <1>3, <1>4, <1>5, <1>6 DEF WayMsg, WayFree
<1>8. Len(decq) \in Nat /\ Len(pipe) \in Nat /\ DOMAIN decq = 1..Len(decq) /\ DOMAIN pipe = 1..Len(pipe)
  OBVIOUS
<1>9. ASSUME NEW i \in Uops PROVE UopAt(i) \in Uop /\ i \in Nat
  <2>1. i \in Nat /\ i >= 1 /\ i <= Len(decq) + Len(pipe)
    BY <1>8, <1>9 DEF Uops
  <2>2. CASE i <= Len(decq)
    <3>1. i \in DOMAIN decq
      BY <1>8, <2>1, <2>2
    <3> QED BY <2>1, <2>2, <3>1 DEF UopAt
  <2>3. CASE ~(i <= Len(decq))
    <3>1. i - Len(decq) \in DOMAIN pipe
      BY <1>8, <2>1, <2>3
    <3> QED BY <2>1, <2>3, <3>1 DEF UopAt
  <2> QED BY <2>2, <2>3
<1>10. /\ DOMAIN br = 1..Len(br) /\ Len(br) \in Nat
       /\ \A b \in DOMAIN br : br[b] \in Ckpt
  OBVIOUS
<1>11. Kept \in 0..Len(br)
  BY <1>10, Wide DEF Kept
<1>12. NowEpoch \in Epoch
  BY NextEpochIs DEF NowEpoch
<1> QED BY <1>1, <1>3, <1>4, <1>5, <1>7, <1>8, <1>9, <1>10, <1>11, <1>12

\* FET has something to take that ends its path: in an up warp, a redirect.
LEMMA Signals ==
  ASSUME TypeOK
  PROVE  /\ Outstanding = {} <=> ~Later(0)
         /\ Up /\ Modes => (Outstanding = {} <=> \A p \in Pos : ~Redir(p))
         /\ Modes /\ due.on => Outstanding # {}
<1>1. Outstanding = {} <=> ~Later(0)
  <2>1. \A m : m \in Outstanding <=> Sig(m) /\ ((\E p \in Chan : m = toFet[p].msg)
                                                  \/ \E i \in DOMAIN queue : m = queue[i])
    BY Typed DEF Outstanding, InChannel, Rng, Sig
  <2>2. \A p \in Chan : 0 < p
    BY Places DEF Chan
  <2> HIDE DEF Outstanding
  <2>3. Outstanding = {} <=> \A m : m \notin Outstanding
    OBVIOUS
  <2> QED BY <2>1, <2>2, <2>3 DEF Later
<1>2. ASSUME Up, Modes
      PROVE  Outstanding = {} <=> \A p \in Pos : ~Redir(p)
  <2>1. Later(0) <=> (\E p \in Chan : Sig(toFet[p].msg)) \/ \E i \in DOMAIN queue : Sig(queue[i])
    BY Places DEF Later, Chan
  <2>2. \A p \in Chan : Sig(toFet[p].msg) <=> Redir(p)
    BY <1>2, Places DEF Modes, Sig, Redir, WayMsg
  <2>3. (\E i \in DOMAIN queue : Sig(queue[i])) <=> queue # << >>
    <3>1. CASE queue = << >>
      <4>1. DOMAIN queue = {}
        BY <3>1
      <4> QED BY <3>1, <4>1
    <3>2. CASE queue # << >>
      <4>1. Redir(Lat) /\ WayMsg(Lat) = queue[1] /\ 1 \in DOMAIN queue
        BY <1>2, <3>2, Typed, Places DEF Modes, WayMsg
      <4> QED BY <3>2, <4>1 DEF Redir, Sig
    <3> QED BY <3>1, <3>2
  <2>4. Redir(Lat) <=> queue # << >>
    BY <1>2, Places DEF Modes, Redir, WayMsg, NoMsg
  <2> QED BY <1>1, <2>1, <2>2, <2>3, <2>4, Places
<1>3. ASSUME Modes, due.on PROVE Outstanding # {}
  BY <1>2, <1>3, Places DEF Modes
<1> QED BY <1>1, <1>2, <1>3

\* An epoch that is behind is not the one OOE is about to hold.
LEMMA BehindIs ==
  ASSUME TypeOK, NEW e \in Epoch, Behind(e)
  PROVE  e # NowEpoch /\ (~due.on => e # epoch)
<1>1. Epochs \in Nat /\ Epochs > 1 /\ Epoch = 0..Epochs-1
  BY Wide DEF Epoch
<1>2. NowEpoch \in 0..Epochs-1 /\ e \in 0..Epochs-1
  BY <1>1, Typed
<1>3. (NowEpoch + Epochs - e) % Epochs = 0 <=> NowEpoch = e
  <2> DEFINE a == NowEpoch
  <2>1. a \in 0..Epochs-1
    BY <1>2
  <2> HIDE DEF a
  <2> QED BY <1>1, <1>2, <2>1, Turns DEF a, Turned
<1>4. e # NowEpoch
  BY <1>3 DEF Behind, Lag
<1> QED BY <1>4 DEF NowEpoch

----------------------------------------------------------------------------
(* The steps.                                                              *)

\* A fetch puts its checkpoint after every live one, and its uop last.
LEMMA FetchStep ==
  ASSUME IInv, Fetch
  PROVE  IInv'
<1> USE DEF IInv
<1>1. PICK c \in (Ckpt \ Rng(live)) \cup {None} :
        /\ live' = IF c = None THEN live ELSE Append(live, c)
        /\ pipe' = Append(pipe, [ep |-> fetEpoch, ck |-> c, stale |-> Outstanding # {}])
  BY DEF Fetch
<1>2. /\ phase = "take" /\ fetching /\ Len(pipe) < MaxPipe /\ ~due.on /\ freeMask = {}
      /\ UNCHANGED <<epoch, st, br, due, freeMask, decq, held, queue, noticeSent, timer,
                     rewindPending, toFet, fetEpoch, fetching, phase>>
  BY DEF Fetch, Modes, oweVars
<1> DEFINE new == [ep |-> fetEpoch, ck |-> c, stale |-> Outstanding # {}]
<1>l. PICK last : last = Len(decq) + Len(pipe) + 1
  OBVIOUS
<1>3. new \in Uop
  BY EpochAssumption DEF TypeOK, Uop
<1>a. new.ep = fetEpoch /\ new.ck = c /\ (new.stale <=> Outstanding # {})
  OBVIOUS
<1>4. live \in Seq(Ckpt) /\ Distinct(live) /\ pipe \in Seq(Uop)
  BY DEF TypeOK, Landings
<1>5. /\ live' \in Seq(Ckpt) /\ Distinct(live')
      /\ \A e : e \in Rng(live') <=> e \in Rng(live) \/ (e = c /\ c # None)
      /\ \A a, b : Older(live', a, b) <=>
                     Older(live, a, b) \/ (a \in Rng(live) /\ b = c /\ c # None)
  <2>1. CASE c = None
    BY <1>1, <1>4, <2>1
  <2>2. CASE c # None
    <3>1. c \in Ckpt /\ c \notin Rng(live) /\ live' = Append(live, c)
      BY <1>1, <2>2
    <3>2. /\ Append(live, c) \in Seq(Ckpt) /\ Distinct(Append(live, c))
          /\ \A e : e \in Rng(Append(live, c)) <=> e \in Rng(live) \/ e = c
          /\ \A a, b : Older(Append(live, c), a, b)
                         <=> Older(live, a, b) \/ (a \in Rng(live) /\ b = c)
      BY ONLY <1>4, <3>1, AfterIs, Zenon
    <3> QED BY <2>2, <3>1, <3>2, Zenon
  <2> QED BY <2>1, <2>2
<1>6. /\ pipe' \in Seq(Uop) /\ Len(pipe') = Len(pipe) + 1
      /\ \A i \in 1..Len(pipe) : pipe'[i] = pipe[i]
      /\ pipe'[Len(pipe) + 1] = new
  <2>1. pipe' = Append(pipe, new)
    BY <1>1
  <2> HIDE DEF new
  <2> QED BY <1>3, <1>4, <2>1, AppendProperties
<1>7. Len(decq) \in Nat /\ Len(pipe) \in Nat
  BY Typed
<1>8. /\ Uops' = Uops \cup {last} /\ last \notin Uops /\ \A i \in Uops : i < last
      /\ \A i \in Uops : UopAt(i)' = UopAt(i)
      /\ UopAt(last)' = new
  <2>1. Uops' = Uops \cup {last} /\ last \notin Uops /\ \A i \in Uops : i < last
    BY <1>2, <1>6, <1>7, <1>l DEF Uops
  <2>2. ASSUME NEW i \in Uops PROVE UopAt(i)' = UopAt(i)
    <3>1. ~(i <= Len(decq)) => i - Len(decq) \in 1..Len(pipe)
      BY <1>7 DEF Uops
    <3> QED BY <1>2, <1>6, <3>1 DEF UopAt
  <2>3. UopAt(last)' = new
    <3> HIDE DEF new
    <3>1. ~(last <= Len(decq)) /\ last - Len(decq) = Len(pipe) + 1
      BY <1>7, <1>l
    <3> QED BY <1>2, <1>6, <3>1 DEF UopAt
  <2> QED BY <2>1, <2>2, <2>3
<1>b. \A i \in Uops' : i \in Uops \/ i = last
  BY <1>8
<1>c. \A j \in Uops' : ~(last < j)
  BY <1>7, <1>8, <1>l DEF Uops
<1> HIDE DEF new
<1>9. /\ \A p : WayMsg(p)' = WayMsg(p) /\ WayFree(p)' = WayFree(p) /\ Redir(p)' = Redir(p)
      /\ Up' = Up /\ Dark' = Dark /\ OnlyNotices' = OnlyNotices
      /\ Outstanding' = Outstanding /\ Kept' = Kept
      /\ \A e : Behind(e)' = Behind(e)
  BY <1>2, SameWay, SameModes DEF Running, Outstanding, InChannel, Kept, Behind, Lag, NowEpoch
<1>10. TypeOK'
  <2>1. Len(pipe') <= MaxPipe
    BY <1>2, <1>6, <1>7, EpochAssumption
  <2> QED BY <1>2, <1>5, <1>6, <2>1 DEF TypeOK
<1>11. Modes' /\ DownQueue'
  BY <1>2, <1>9 DEF Modes, DownQueue, Down, Quiet
<1>12. Landings'
  BY <1>5, <1>9 DEF Landings
<1>13. EpochsGiven'
  BY <1>2, <1>9, SameGiven DEF NowEpoch
<1>14. Branches'
  BY <1>2, <1>5, <1>9 DEF Branches
<1>15. ASSUME Up
       PROVE  /\ Outstanding # {} => Behind(fetEpoch) /\ fetEpoch # epoch
              /\ Outstanding = {} => fetEpoch = epoch
  <2>1. Outstanding = {} <=> ~Later(0)
    BY Signals
  <2>2. 0 \in 0 .. Lat - 1 /\ Gives(0) /\ Given(0) = fetEpoch /\ NowEpoch = epoch
    BY <1>2, Places DEF Gives, Given, NowEpoch
  <2>3. fetEpoch \in Epoch
    BY DEF TypeOK
  <2> QED BY <1>2, <1>15, <2>1, <2>2, <2>3, BehindIs DEF EpochsGiven
<1>16. UopsInTurn'
  <2> SUFFICES ASSUME Up
               PROVE  UopsInTurn'
    BY <1>9 DEF UopsInTurn
  <2>0. \A i : Fresh(i)' <=> UopAt(i)'.ep = epoch /\ UopAt(i)'.ck # None
    BY <1>2 DEF Fresh
  <2>1. ASSUME NEW i \in Uops
        PROVE  /\ \A j \in Uops' : i < j /\ UopAt(j)'.stale => UopAt(i)'.stale
               /\ UopAt(i)'.stale => Behind(UopAt(i)'.ep)
               /\ ~UopAt(i)'.stale => UopAt(i)'.ep = epoch /\ Outstanding = {}
    <3>1. /\ \A j \in Uops : i < j /\ UopAt(j).stale => UopAt(i).stale
          /\ UopAt(i).stale => Behind(UopAt(i).ep)
          /\ ~UopAt(i).stale => UopAt(i).ep = epoch /\ Outstanding = {}
      BY DEF UopsInTurn
    <3>2. UopAt(last)'.stale => Outstanding # {}
      BY <1>a, <1>8
    <3> QED BY <1>8, <1>b, <3>1, <3>2
  <2>2. ASSUME NEW i \in Uops, Fresh(i)'
        PROVE  /\ UopAt(i)'.ck \in Rng(live')
               /\ \A j \in Uops' : i < j /\ Fresh(j)' => Older(live', UopAt(i)'.ck, UopAt(j)'.ck)
               /\ \A b \in DOMAIN br : Older(live', br[b], UopAt(i)'.ck)
               /\ \A p \in Pos : UopAt(i)'.ck \notin WayFree(p)
    <3>1. Fresh(i) /\ UopAt(i)' = UopAt(i)
      BY <1>8, <2>0, <2>2 DEF Fresh
    <3>2. /\ UopAt(i).ck \in Rng(live)
          /\ \A j \in Uops : i < j /\ Fresh(j) => Older(live, UopAt(i).ck, UopAt(j).ck)
          /\ \A b \in DOMAIN br : Older(live, br[b], UopAt(i).ck)
          /\ \A p \in Pos : UopAt(i).ck \notin WayFree(p)
      BY <3>1 DEF UopsInTurn
    <3>3. \A j \in Uops : Fresh(j)' => Fresh(j) /\ UopAt(j)' = UopAt(j)
      BY <1>8, <2>0 DEF Fresh
    <3>4. Fresh(last)' => UopAt(last)'.ck = c /\ c # None
      BY <1>a, <1>8, <2>0
    <3> QED BY <1>5, <1>8, <1>b, <3>1, <3>2, <3>3, <3>4
  <2>3. /\ UopAt(last)'.stale => Behind(UopAt(last)'.ep)
        /\ ~UopAt(last)'.stale => UopAt(last)'.ep = epoch /\ Outstanding = {}
    BY <1>a, <1>8, <1>15
  <2>4. ASSUME Fresh(last)'
        PROVE  /\ UopAt(last)'.ck \in Rng(live')
               /\ \A b \in DOMAIN br : Older(live', br[b], UopAt(last)'.ck)
               /\ \A p \in Pos : UopAt(last)'.ck \notin WayFree(p)
    <3>1. UopAt(last)'.ck = c /\ c # None /\ c \notin Rng(live)
      BY <1>1, <1>a, <1>8, <2>0, <2>4
    <3>2. \A b \in DOMAIN br : br[b] \in Rng(live)
      BY DEF Branches
    <3>3. \A p \in Pos : \A e \in WayFree(p) : e \in Rng(live)
      BY DEF Landings
    <3> QED BY <1>5, <3>1, <3>2, <3>3
  <2> QED BY <1>2, <1>8, <1>9, <1>b, <1>c, <2>1, <2>2, <2>3, <2>4 DEF UopsInTurn
<1>17. Mirrored'
  <2> SUFFICES ASSUME Up, NEW e \in Rng(live'), Survives(e)' PROVE Owned(e)'
    BY <1>9 DEF Mirrored
  <2>1. \A p \in Pos : Redir(p) => Older(live', e, WayMsg(p).ck)
    BY <1>9 DEF Survives
  <2>2. \A p \in Pos : Redir(p) => WayMsg(p).ck \in Rng(live)
    BY DEF Landings
  <2>3. \A p \in Pos : Redir(p) => WayMsg(p).ck # c \/ c = None
    BY <1>1, <2>2
  <2>4. \A p \in Pos : Redir(p) => Older(live, e, WayMsg(p).ck)
    BY <1>5, <2>1, <2>3
  <2>5. CASE e \in Rng(live)
    <3>1. Owned(e)
      BY <2>4, <2>5 DEF Mirrored, Survives
    <3> QED BY <1>2, <1>8, <1>9, <3>1 DEF Owned
  <2>6. CASE e = c /\ c # None /\ e \notin Rng(live)
    <3>1. \A p \in Pos : ~Redir(p)
      BY <1>4, <2>4, <2>6, OlderIs
    <3>2. Outstanding = {}
      BY <3>1, Signals
    <3>3. last \in Uops' /\ ~UopAt(last)'.stale /\ UopAt(last)'.ck = e
      BY <1>a, <1>8, <2>6, <3>2
    <3> QED BY <3>3 DEF Owned
  <2> QED BY <1>5, <2>5, <2>6
<1>18. Outdated'
  <2>2. Dark => Outstanding # {}
    BY <1>2, Signals DEF Dark, NoNotice, Outstanding, InChannel, Rng
  <2>1. Dark => UopAt(last)'.ep # epoch /\ UopAt(last)'.stale
    BY <1>2, <1>a, <1>8, <2>2 DEF Outdated
  <2> QED BY <1>2, <1>8, <1>9, <1>b, <2>1 DEF Outdated
<1> QED BY <1>10, <1>11, <1>12, <1>13, <1>14, <1>16, <1>17, <1>18

\* What a step leaves alone, but for the warp's state and the phase.
LEMMA QuietStep ==
  ASSUME IInv, Up' => Up,
         UNCHANGED <<epoch, br, due, freeMask, decq, queue, toFet, fetEpoch, live, pipe>>
  PROVE  /\ Landings' /\ EpochsGiven' /\ Branches' /\ UopsInTurn' /\ Mirrored'
         /\ \A p : WayMsg(p)' = WayMsg(p) /\ WayFree(p)' = WayFree(p) /\ Redir(p)' = Redir(p)
<1> USE DEF IInv
<1>1. NowEpoch' = NowEpoch /\ Kept' = Kept
  BY DEF NowEpoch, Kept
<1> QED BY <1>1, SameWay, SameLandings, SameGiven, SameBranches, SameUops, SameMirrored

LEMMA PhaseStep ==
  ASSUME IInv, NoResolve \/ RenameEnd \/ Land \/ Activate
  PROVE  IInv'
<1> USE DEF IInv
<1>1. /\ UNCHANGED <<epoch, br, due, freeMask, decq, queue, toFet, fetEpoch, live, pipe,
                     noticeSent, timer, rewindPending, fetching>>
      /\ st' = st \/ (st = "allocated" /\ st' = "active")
      /\ phase' = phase \/ phase' \in {"control", "arrive"}
      /\ held' = held \/ held' = FALSE
  BY DEF NoResolve, RenameEnd, Land, Activate, oweVars, fetVars
<1>2. /\ Up' = Up /\ Dark' = Dark /\ OnlyNotices' = OnlyNotices
      /\ Down' = Down /\ Quiet' = Quiet /\ (st' = "free" => st = "free")
  BY <1>1, SameModes DEF Running, Down, Quiet
<1>3. TypeOK'
  BY <1>1 DEF TypeOK, State
<1>4. Landings' /\ EpochsGiven' /\ Branches' /\ UopsInTurn' /\ Mirrored'
      /\ \A p : WayMsg(p)' = WayMsg(p) /\ WayFree(p)' = WayFree(p) /\ Redir(p)' = Redir(p)
  BY <1>1, <1>2, QuietStep
<1>5. phase' = "take" => phase = "take"
  BY <1>1
<1>6. Modes'
  BY <1>1, <1>2, <1>4, <1>5 DEF Modes
<1>7. DownQueue'
  BY <1>1, <1>2 DEF DownQueue
<1>8. Outdated'
  BY <1>1, <1>2, SameOutdated
<1> QED BY <1>3, <1>4, <1>6, <1>7, <1>8

\* A launched warp has nothing on its way to OOE, and nothing to FET but
\* notices, which leave it dark.
LEMMA LaunchStep ==
  ASSUME IInv, Launch
  PROVE  IInv'
<1> USE DEF IInv
<1>1. /\ phase = "control" /\ st = "free" /\ pipe = << >> /\ NotRound
      /\ st' \in {"active", "allocated"} /\ fetching' = TRUE /\ live' = << >>
      /\ UNCHANGED <<epoch, br, due, freeMask, decq, held, queue, noticeSent, timer,
                     rewindPending, toFet, fetEpoch, pipe, phase>>
  BY DEF Launch, oweVars
<1>2. /\ rewindPending = 0 /\ decq = << >> /\ br = << >>
      /\ ~due.on /\ freeMask = {} /\ OnlyNotices /\ OnlyNotices'
  BY <1>1 DEF Modes, Up, Running, Quiet, Down, OnlyNotices
<1>3. ~Down' /\ ~Quiet' /\ st' # "free" /\ (Up' \/ Dark')
  BY <1>1 DEF Up, Dark, Running, Down, Quiet
<1>4. \A p \in Pos : WayMsg(p)'.type \in {"none", "notice"} /\ WayFree(p)' = {} /\ ~Redir(p)'
  BY <1>1, <1>2, Typed, Places DEF OnlyNotices, WayMsg, WayFree, NoMsg, Redir
<1>5. Uops' = {} /\ DOMAIN br' = {}
  BY <1>1, <1>2 DEF Uops
<1>6. ASSUME Up'
      PROVE  queue = << >> /\ \A p \in Chan : toFet[p].msg.type = "none"
  <2>1. NoNotice
    BY <1>1, <1>6 DEF Up, NoNotice
  <2> QED BY <1>2, <2>1, Typed DEF NoNotice, OnlyNotices
<1>7. TypeOK'
  BY <1>1 DEF TypeOK, State
<1>8. Modes' /\ DownQueue'
  <2>1. ASSUME Up'
        PROVE  /\ Len(queue') <= 1 /\ queue' = << >>
               /\ \A p \in Pos : WayMsg(p)'.type \in {"none", "redirect"}
    BY <1>1, <1>6, <2>1, Places DEF WayMsg, NoMsg
  <2> QED BY <1>1, <1>2, <1>3, <2>1 DEF Modes, DownQueue
<1>9. Landings'
  BY <1>1, <1>4, NoneIs DEF Landings
<1>10. EpochsGiven'
  <2>1. Up' => \A p : ~Later(p)'
    BY <1>1, <1>6 DEF Later, Sig
  <2>2. \A p : Given(p)' = Given(p) /\ Gives(p)' = Gives(p) /\ Later(p)' = Later(p)
    BY <1>1 DEF Given, Gives, Later
  <2>3. NowEpoch' = NowEpoch /\ queue' = queue
    BY <1>1 DEF NowEpoch
  <2> QED BY <2>1, <2>2, <2>3 DEF EpochsGiven
<1>11. Branches' /\ UopsInTurn'
  BY <1>5 DEF Branches, UopsInTurn
<1>12. Mirrored'
  BY <1>1, NoneIs DEF Mirrored
<1>13. Outdated'
  <2>1. ASSUME Dark' PROVE fetEpoch # epoch
    <3>1. ~NoNotice
      BY <1>1, <2>1 DEF Dark, NoNotice
    <3>2. Later(0)
      BY <3>1, Typed, Places DEF NoNotice, Later, Sig, Chan
    <3> QED BY <1>1, <3>2, Signals DEF NotRound
  <2> QED BY <1>1, <1>5, <2>1 DEF Outdated
<1> QED BY <1>7, <1>8, <1>9, <1>10, <1>11, <1>12, <1>13

\* A message that has joined a queue stands last in it.
Joined(r, q, m) ==
  /\ r \in Seq(Msg) /\ Len(r) = Len(q) + 1 /\ DOMAIN r = 1..(Len(q) + 1)
  /\ \A i \in 1..Len(q) : r[i] = q[i]
  /\ LET e == r[Len(q) + 1]
     IN e.type = m.type /\ e.ep = m.ep /\ e.ck = m.ck /\ e.ahead \in 0..MaxAhead

LEMMA QueuedIs ==
  ASSUME NEW q \in Seq(Msg), NEW m \in Msg, NEW r \in Queued(q, m)
  PROVE  Joined(r, q, m)
<1>1. PICK n \in 0..MaxAhead : r = Append(q, [m EXCEPT !.ahead = n])
  BY DEF Queued
<1> DEFINE e == [m EXCEPT !.ahead = n]
<1>2. e \in Msg /\ e.type = m.type /\ e.ep = m.ep /\ e.ck = m.ck /\ e.ahead = n
  BY DEF Msg
<1>3. r = Append(q, e)
  BY <1>1
<1> HIDE DEF e
<1>4. /\ r \in Seq(Msg) /\ Len(r) = Len(q) + 1 /\ r[Len(q) + 1] = e
      /\ \A i \in 1..Len(q) : r[i] = q[i]
  BY <1>2, <1>3, AppendProperties
<1>5. DOMAIN r = 1..(Len(q) + 1)
  BY <1>4, LenProperties
<1> QED BY <1>2, <1>4, <1>5 DEF Joined

LEMMA NoticeIs ==
  ASSUME TypeOK
  PROVE  /\ Notice \in Msg /\ Notice.type = "notice" /\ Notice.ep = NextEpoch(epoch)
         /\ [NoMsg EXCEPT !.type = "beat"] \in Msg
         /\ [NoMsg EXCEPT !.type = "beat"].type = "beat"
<1>1. NextEpoch(epoch) \in Epoch
  BY NextEpochIs DEF TypeOK
<1>2. 0 \in Epoch /\ MaxAhead \in Nat
  BY EpochAssumption, Wide DEF Epoch
<1>a. NoMsg \in Msg
  BY <1>2 DEF NoMsg, Msg
<1>4. [NoMsg EXCEPT !.type = "beat"] = [type |-> "beat", ep |-> 0, ck |-> None, ahead |-> 0]
  BY DEF NoMsg
<1>5. 0 \in 0 .. MaxAhead
  BY <1>2
<1>6. Notice \in Msg
  BY <1>1, <1>a DEF Msg, Notice
<1>7. [NoMsg EXCEPT !.type = "beat"] \in Msg
  BY <1>2, <1>4, <1>5 DEF Msg
<1>8. Notice.type = "notice" /\ Notice.ep = NextEpoch(epoch)
  BY <1>1, <1>a DEF Msg, Notice
<1>9. [NoMsg EXCEPT !.type = "beat"].type = "beat"
  BY <1>4
<1> QED BY <1>6, <1>7, <1>8, <1>9

\* A squash to retirement queues its notice, and maybe a beat, behind what
\* is queued.
SquashQueues ==
  LET n == Len(queue)
  IN /\ queue' \in Seq(Msg) /\ DOMAIN queue' = 1..Len(queue')
     /\ \A i \in 1..n : queue'[i] = queue[i]
     /\ queue'[n + 1].type = "notice" /\ queue'[n + 1].ep = NextEpoch(epoch)
     /\ \/ Len(queue') = n + 1 /\ rewindPending' = rewindPending
        \/ /\ Len(queue') = n + 2 /\ queue'[n + 2].type = "beat"
           /\ st = "active" /\ st' = "demoting" /\ rewindPending' = rewindPending + 1

LEMMA DemoteQueues == TypeOK /\ Demote => SquashQueues
<1> SUFFICES ASSUME TypeOK, Demote PROVE SquashQueues
  OBVIOUS
<1> DEFINE beat == [NoMsg EXCEPT !.type = "beat"]
<1>1. PICK q \in Queued(queue, Notice) :
        \/ queue' = q /\ UNCHANGED rewindPending
        \/ queue' \in Queued(q, beat) /\ rewindPending' = rewindPending + 1
  BY DEF Demote
<1>2. queue \in Seq(Msg) /\ Len(queue) \in Nat /\ Notice \in Msg /\ beat \in Msg
      /\ Notice.type = "notice" /\ Notice.ep = NextEpoch(epoch) /\ beat.type = "beat"
      /\ st = "active" /\ st' = "demoting"
  BY NoticeIs DEF TypeOK, Demote
<1> HIDE DEF beat
<1>3. Joined(q, queue, Notice)
  BY <1>1, <1>2, QueuedIs
<1>4. CASE queue' = q /\ UNCHANGED rewindPending
  BY <1>2, <1>3, <1>4 DEF SquashQueues, Joined
<1>5. CASE queue' \in Queued(q, beat) /\ rewindPending' = rewindPending + 1
  <2>1. q \in Seq(Msg)
    BY <1>3 DEF Joined
  <2>2. Joined(queue', q, beat)
    BY <1>2, <1>5, <2>1, QueuedIs
  <2>3. Len(q) = Len(queue) + 1 /\ \A i \in 1..Len(queue) : i \in 1..Len(q)
    BY <1>2, <1>3 DEF Joined
  <2>4. Len(queue) + 1 \in 1..Len(q) /\ Len(queue') = Len(queue) + 2
        /\ Len(q) + 1 = Len(queue) + 2 /\ DOMAIN queue' = 1..Len(queue')
    BY <1>2, <2>2, <2>3 DEF Joined
  <2> QED BY <1>2, <1>3, <1>5, <2>2, <2>3, <2>4 DEF SquashQueues, Joined
<1> QED BY <1>1, <1>4, <1>5

LEMMA KillQueues == TypeOK /\ Kill => SquashQueues
<1> SUFFICES ASSUME TypeOK, Kill PROVE SquashQueues
  OBVIOUS
<1>1. queue' \in Queued(queue, Notice) /\ rewindPending' = rewindPending
  BY DEF Kill
<1>2. queue \in Seq(Msg) /\ Len(queue) \in Nat /\ Notice \in Msg
      /\ Notice.type = "notice" /\ Notice.ep = NextEpoch(epoch)
  BY NoticeIs DEF TypeOK
<1>3. Joined(queue', queue, Notice)
  BY <1>1, <1>2, QueuedIs
<1> QED BY <1>1, <1>2, <1>3 DEF SquashQueues, Joined

\* The notice follows all that was on its way.
LEMMA SquashWay ==
  ASSUME IInv, SquashQueues, SquashToRetirement, st' \in {"demoting", "killing"},
         UNCHANGED <<toFet, fetEpoch, live>>
  PROVE  /\ Landings' /\ EpochsGiven' /\ Branches' /\ UopsInTurn' /\ Mirrored' /\ Outdated'
         /\ due' = NoDue /\ ~due'.on /\ br' = << >> /\ freeMask' = {} /\ decq' = << >>
         /\ ~noticeSent'
<1> USE DEF IInv
<1>1. /\ br' = << >> /\ due' = NoDue /\ ~due'.on /\ freeMask' = {} /\ decq' = << >>
      /\ epoch' = NextEpoch(epoch) /\ ~noticeSent'
  BY DEF SquashToRetirement, NoDue
<1>2. ~Up' /\ ~Dark' /\ NowEpoch' = NextEpoch(epoch)
  BY <1>1 DEF Up, Dark, Running, NowEpoch
<1> DEFINE n == Len(queue)
<1>3. n \in Nat /\ DOMAIN queue = 1..n /\ (queue # << >> => n >= 1 /\ Head(queue) = queue[1])
      /\ (queue = << >> => n = 0)
  BY Typed
<1>4. /\ queue' \in Seq(Msg) /\ DOMAIN queue' = 1..Len(queue') /\ n + 1 \in DOMAIN queue'
      /\ queue' # << >> /\ Head(queue') = queue'[1] /\ 1 \in DOMAIN queue'
      /\ \A i \in DOMAIN queue' : i \in DOMAIN queue \/ i = n + 1
                                    \/ (i = n + 2 /\ queue'[i].type = "beat")
  <2>1. /\ queue' \in Seq(Msg) /\ DOMAIN queue' = 1..Len(queue')
        /\ Len(queue') = n + 1 \/ (Len(queue') = n + 2 /\ queue'[n + 2].type = "beat")
    BY DEF SquashQueues
  <2> HIDE DEF n
  <2>a. n \in Nat /\ (Len(queue') = n + 1 \/ Len(queue') = n + 2)
    BY <1>3, <2>1, Zenon
  <2>b. DOMAIN queue' = 1..Len(queue') /\ DOMAIN queue = 1..n
    BY <1>3, <2>1, Zenon
  <2>c. PICK L : L = Len(queue')
    OBVIOUS
  <2>2. L \in Nat /\ L >= 1 /\ n + 1 \in 1..L /\ 1 \in 1..L
    BY <2>a, <2>c
  <2>3. queue' # << >>
    BY <2>2, <2>c
  <2>4. Head(queue') = queue'[1]
    BY <2>1, <2>3
  <2>5. \A i \in DOMAIN queue' : i \in DOMAIN queue \/ i = n + 1
                                    \/ (i = n + 2 /\ queue'[i].type = "beat")
    <3>1. ASSUME NEW i \in DOMAIN queue'
          PROVE  i \in DOMAIN queue \/ i = n + 1 \/ (i = n + 2 /\ Len(queue') = n + 2)
      <4>1. ASSUME NEW j \in 1..L PROVE j \in 1..n \/ j = n + 1 \/ (j = n + 2 /\ L = n + 2)
        BY <2>a, <2>c
      <4> QED BY <2>b, <2>c, <4>1, Zenon
    <3>2. Len(queue') = n + 2 => queue'[n + 2].type = "beat"
      <4>1. n + 1 # n + 2
        BY <2>a
      <4> QED BY <2>1, <4>1, Zenon
    <3> QED BY <3>1, <3>2, Zenon
  <2> QED BY <2>1, <2>2, <2>3, <2>4, <2>5, <2>b, <2>c, ZenonT(60)
<1>5. \A p \in Chan : WayMsg(p)' = WayMsg(p) /\ WayFree(p)' = WayFree(p)
  BY DEF WayMsg, WayFree
<1>6. WayFree(Lat)' = {} /\ WayMsg(Lat)' = Head(queue')
  BY <1>1, <1>4, Places DEF WayFree, WayMsg
<1>7. \/ queue # << >> /\ WayMsg(Lat)' = WayMsg(Lat)
      \/ WayMsg(Lat)'.type = "notice"
  <2>1. CASE queue = << >>
    <3>1. queue'[1].type = "notice"
      BY <1>3, <2>1 DEF SquashQueues
    <3> QED BY <1>4, <1>6, <3>1
  <2>2. CASE queue # << >>
    <3>a. \A i \in 1..Len(queue) : queue'[i] = queue[i]
      BY DEF SquashQueues
    <3>1. queue'[1] = queue[1]
      BY <1>3, <2>2, <3>a
    <3>2. WayMsg(Lat) = queue[1]
      BY <1>3, <2>2, Places DEF WayMsg
    <3> QED BY <1>4, <1>6, <2>2, <3>1, <3>2
  <2> QED BY <2>1, <2>2
<1>8. \A p \in Pos : /\ WayFree(p)' \subseteq WayFree(p)
                     /\ Redir(p)' => Redir(p) /\ WayMsg(p)' = WayMsg(p)
                     /\ WayMsg(p)'.type = "notice" => p = Lat \/ WayMsg(p)' = WayMsg(p)
  BY <1>5, <1>6, <1>7, Places DEF Redir
<1>9. WayMsg(Lat)'.type = "notice" => WayFree(Lat)' = {} /\ ~Redir(Lat)'
  BY <1>6 DEF Redir
<1>10. Landings'
  <2>1. Distinct(live')
    BY DEF Landings
  <2>2. ASSUME NEW p \in Pos, Redir(p)'
        PROVE  /\ WayMsg(p)'.ck \in Rng(live')
               /\ \A q \in Pos : p < q /\ Redir(q)' => Older(live', WayMsg(q)'.ck, WayMsg(p)'.ck)
    BY <1>8, <2>2 DEF Landings
  <2>3. ASSUME NEW p \in Pos, NEW c \in WayFree(p)'
        PROVE  /\ c \in Rng(live')
               /\ \A q \in Pos : Redir(q)' => IF q <= p THEN Older(live', c, WayMsg(q)'.ck)
                                                        ELSE c # WayMsg(q)'.ck
               /\ \A q \in Pos : q # p => c \notin WayFree(q)'
    <3>1. c \in WayFree(p)
      BY <1>8
    <3> QED BY <1>8, <3>1 DEF Landings
  <2>4. ASSUME NEW p \in Pos, WayMsg(p)'.type = "notice", NEW q \in Pos, q >= p
        PROVE  WayFree(q)' = {} /\ ~Redir(q)'
    <3>1. CASE p = Lat
      <4>1. q = Lat
        BY <2>4, <3>1, Places
      <4> QED BY <1>9, <2>4, <3>1, <4>1
    <3>2. CASE p # Lat
      BY <1>8, <2>4, <3>2 DEF Landings
    <3> QED BY <3>1, <3>2
  <2> QED BY <2>1, <2>2, <2>3, <2>4 DEF Landings
<1>11. EpochsGiven'
  <2>1. \A p : Later(p)'
    BY <1>4 DEF Later, SquashQueues, Sig
  <2>2. ASSUME NEW i \in DOMAIN queue', Sig(queue'[i]),
               \A j \in DOMAIN queue' : i < j => ~Sig(queue'[j])
        PROVE  queue'[i].ep = NowEpoch'
    <3>1. queue'[n + 1].type = "notice" /\ queue'[n + 1].ep = NowEpoch'
      BY <1>2 DEF SquashQueues
    <3>2. ~(i < n + 1)
      BY <1>4, <2>2, <3>1 DEF Sig
    <3>3. i = n + 1
      BY <1>3, <1>4, <2>2, <3>2 DEF Sig
    <3> QED BY <3>1, <3>3
  <2> QED BY <1>2, <2>1, <2>2 DEF EpochsGiven
<1> QED BY <1>1, <1>2, <1>10, <1>11 DEF Branches, UopsInTurn, Mirrored, Outdated

LEMMA StaleIs ==
  ASSUME NEW s \in Seq(Uop)
  PROVE  /\ Stale(s) \in Seq(Uop) /\ Len(Stale(s)) = Len(s)
         /\ \A i \in DOMAIN s : /\ Stale(s)[i].ep = s[i].ep /\ Stale(s)[i].ck = s[i].ck
                                /\ Stale(s)[i].stale
<1> DEFINE f(i) == [s[i] EXCEPT !.stale = TRUE]
           n == Len(s)
<1>1. n \in Nat /\ DOMAIN s = 1..n
  OBVIOUS
<1>2. ASSUME NEW i \in DOMAIN s
      PROVE  f(i) \in Uop /\ f(i).ep = s[i].ep /\ f(i).ck = s[i].ck /\ f(i).stale
  <2>1. s[i] \in Uop
    OBVIOUS
  <2> QED BY <2>1 DEF Uop
<1>3. Stale(s) = [i \in 1..n |-> f(i)]
  BY <1>1 DEF Stale
<1> HIDE DEF f, n
<1>4. Stale(s) \in Seq(Uop)
  BY <1>1, <1>2, <1>3, IsASeq
<1>5. Len(Stale(s)) = n
  BY <1>1, <1>3, <1>4
<1> QED BY <1>1, <1>2, <1>3, <1>4, <1>5 DEF n

\* What a warp has queued, whatever its state.
LEMMA QueuedSoFar ==
  ASSUME IInv
  PROVE  \A i \in DOMAIN queue :
           /\ queue[i].type = "redirect" => i = 1
           /\ queue[i].type # "redirect" => Ends(queue[i])
           /\ queue[i].type = "beat" => Down /\ rewindPending = 1
           /\ \A j \in DOMAIN queue :
                i < j /\ queue[j].type = "beat" => queue[i].type # "beat"
<1> USE DEF IInv
<1>1. Up \/ Dark \/ Down \/ Quiet
  BY DEF TypeOK, State, Up, Dark, Running, Down, Quiet
<1>2. CASE Up
  <2>1. \A i \in DOMAIN queue : i = 1 /\ queue # << >>
    <3>1. Len(queue) <= 1 /\ Len(queue) \in Nat /\ DOMAIN queue = 1..Len(queue)
      BY <1>2, Typed DEF Modes
    <3>2. queue = << >> => DOMAIN queue = {}
      OBVIOUS
    <3> QED BY <3>1, <3>2
  <2>2. \A i \in DOMAIN queue : queue[i].type = "redirect"
    BY <1>2, <2>1, Typed, Places DEF Modes, Redir, WayMsg
  <2> QED BY <2>1, <2>2
<1>3. CASE Down
  BY <1>3 DEF DownQueue
<1>4. CASE Quiet \/ Dark
  <2>1. \A i \in DOMAIN queue : queue[i].type = "notice"
    BY <1>4 DEF Modes, OnlyNotices
  <2> QED BY <2>1 DEF Ends
<1> QED BY <1>1, <1>2, <1>3, <1>4

LEMMA SquashDown ==
  ASSUME IInv, SquashQueues, SquashToRetirement,
         st = "active" \/ st' = "killing", st' \in {"demoting", "killing"},
         phase' = "control", UNCHANGED toFet
  PROVE  Modes' /\ DownQueue' /\ rewindPending' \in 0..1
<1> USE DEF IInv
<1>1. /\ br' = << >> /\ ~due'.on /\ freeMask' = {} /\ ~noticeSent'
  BY DEF SquashToRetirement, NoDue
<1>2. Down' /\ ~Up' /\ ~Dark' /\ ~Quiet' /\ st' # "free"
  BY DEF Down, Up, Dark, Running, Quiet
<1>3. Modes'
  BY <1>1, <1>2 DEF Modes
<1> DEFINE n == Len(queue)
<1>4. /\ DOMAIN queue' = 1..Len(queue') /\ n \in Nat /\ DOMAIN queue = 1..n
      /\ \A i \in 1..n : queue'[i] = queue[i]
      /\ queue'[n + 1].type = "notice"
      /\ \/ Len(queue') = n + 1 /\ rewindPending' = rewindPending
         \/ /\ Len(queue') = n + 2 /\ queue'[n + 2].type = "beat"
            /\ st = "active" /\ st' = "demoting" /\ rewindPending' = rewindPending + 1
  BY Typed DEF SquashQueues
<1>5. PICK L : L = Len(queue')
  OBVIOUS
<1>6. rewindPending \in 0..1 /\ (st = "active" => rewindPending = 0 /\ ~Down)
  BY DEF TypeOK, Modes, Down
<1>7. PICK w : w = rewindPending'
  OBVIOUS
<1>b. \/ L = n + 1 /\ w = rewindPending
      \/ /\ L = n + 2 /\ queue'[n + 2].type = "beat"
         /\ st = "active" /\ w = rewindPending + 1
  BY <1>4, <1>5, <1>7, Zenon
<1>c. n \in Nat /\ n + 1 # n + 2
  BY Typed
<1>d. /\ L = n + 1 \/ L = n + 2
      /\ L = n + 2 => st = "active" /\ w = rewindPending + 1 /\ queue'[n + 2].type = "beat"
      /\ L = n + 1 => w = rewindPending
  BY <1>b, <1>c, Zenon
<1>8. w \in 0..1 /\ (L = n + 2 => w = 1) /\ (L = n + 1 => w = rewindPending)
  BY <1>d, <1>6
<1>9. /\ L = n + 1 \/ L = n + 2
      /\ L = n + 2 => st = "active" /\ queue'[n + 2].type = "beat"
      /\ L = n + 1 => L # n + 2
      /\ \A i \in 1..L : i \in 1..n \/ i = n + 1 \/ (i = n + 2 /\ L = n + 2)
      /\ \A i \in 1..n : i \in 1..L /\ i # n + 1 /\ i # n + 2 /\ ~(n + 1 < i) /\ ~(n + 2 < i)
      /\ ~(n + 1 < n + 1) /\ ~(n + 2 < n + 1) /\ ~(n + 2 < n + 2) /\ (1 = n + 1 \/ 1 \in 1..n)
  BY <1>c, <1>d
<1> HIDE DEF n
<1>10. ASSUME NEW i \in 1..L
       PROVE  /\ queue'[i].type = "redirect" => i = 1
              /\ queue'[i].type # "redirect" => Ends(queue'[i])
              /\ queue'[i].type = "beat" => w = 1
  <2>1. CASE i \in 1..n
    <3>1. queue'[i] = queue[i] /\ i \in DOMAIN queue
      BY <1>4, <2>1
    <3>2. queue[i].type = "beat" => rewindPending = 1 /\ st # "active"
      BY <1>6, <3>1, QueuedSoFar
    <3> QED BY <1>8, <1>9, <3>1, <3>2, QueuedSoFar
  <2>2. CASE i = n + 1
    BY <1>4, <2>2 DEF Ends
  <2>3. CASE i = n + 2 /\ L = n + 2
    BY <1>8, <1>9, <2>3 DEF Ends
  <2> QED BY <1>9, <2>1, <2>2, <2>3
<1>11. ASSUME NEW i \in 1..L, NEW j \in 1..L, i < j, queue'[j].type = "beat"
       PROVE  queue'[i].type # "beat"
  <2>1. CASE j \in 1..n
    <3>1. i \in 1..n
      BY <1>9, <1>11, <2>1
    <3> QED BY <1>4, <1>11, <2>1, <3>1, QueuedSoFar
  <2>2. CASE j = n + 1
    BY <1>4, <1>11, <2>2
  <2>3. CASE j = n + 2 /\ L = n + 2
    <3>1. i \in 1..n \/ i = n + 1
      BY <1>9, <1>11, <2>3
    <3>2. st = "active"
      BY <1>9, <2>3
    <3>3. i \in 1..n => queue[i].type # "beat"
      BY <1>4, <1>6, <3>2, QueuedSoFar
    <3> QED BY <1>4, <3>1, <3>3
  <2> QED BY <1>9, <2>1, <2>2, <2>3
<1>12. DownQueue'
  <2>1. DOMAIN queue' = 1..L
    BY <1>4, <1>5
  <2> QED BY <1>1, <1>5, <1>7, <1>10, <1>11, <2>1 DEF DownQueue
<1> QED BY <1>3, <1>7, <1>8, <1>12

LEMMA SquashStep ==
  ASSUME IInv, Demote \/ Kill
  PROVE  IInv'
<1> USE DEF IInv
<1>1. /\ SquashToRetirement /\ phase = "control"
      /\ st = "active" \/ st' = "killing"
      /\ st' \in {"demoting", "killing"}
      /\ UNCHANGED <<timer, toFet, fetEpoch, live, phase>>
      /\ fetching' = fetching \/ fetching' = FALSE
  BY DEF Demote, Kill, fetVars
<1>2. SquashQueues
  BY DemoteQueues, KillQueues
<1>3. Landings' /\ EpochsGiven' /\ Branches' /\ UopsInTurn' /\ Mirrored' /\ Outdated'
  BY <1>1, <1>2, SquashWay
<1>4. Modes' /\ DownQueue' /\ rewindPending' \in 0..1
  BY <1>1, <1>2, SquashDown
<1>5. TypeOK'
  <2>1. /\ br' = << >> /\ due' = NoDue /\ freeMask' = {} /\ decq' = << >>
        /\ pipe' = Stale(pipe) /\ epoch' = NextEpoch(epoch)
        /\ held' \in BOOLEAN /\ noticeSent' = FALSE
    BY <1>1 DEF SquashToRetirement
  <2>2. epoch' \in Epoch
    BY <2>1, NextEpochIs DEF TypeOK
  <2>3. pipe' \in Seq(Uop) /\ Len(pipe') <= MaxPipe
    BY <2>1, StaleIs DEF TypeOK
  <2>4. br' \in Seq(Ckpt) /\ Len(br') <= Cardinality(Ckpt)
    BY <2>1, Wide
  <2>5. due' \in [on : BOOLEAN, keep : 0 .. Cardinality(Ckpt)] /\ ~due'.on
    BY <2>1, Wide DEF NoDue
  <2>6. decq' \in Seq(Uop) /\ Len(decq') <= MaxDecq
    BY <2>1, EpochAssumption
  <2>7. queue' \in Seq(Msg)
    BY <1>2 DEF SquashQueues
  <2>8. freeMask' \subseteq Ckpt /\ held' \in BOOLEAN /\ noticeSent' \in BOOLEAN
    BY <2>1
  <2>9. st' \in State /\ timer' \in 0..Lat /\ fetching' \in BOOLEAN
    BY <1>1 DEF TypeOK, State
  <2>10. /\ toFet' \in Seq([msg : Msg, free : SUBSET Ckpt]) /\ Len(toFet') = Lat - 1
         /\ fetEpoch' \in Epoch /\ live' \in Seq(Ckpt)
         /\ phase' \in {"take", "control", "rename", "arrive"}
    BY <1>1 DEF TypeOK
  <2> QED BY <1>4, <2>2, <2>3, <2>4, <2>5, <2>6, <2>7, <2>8, <2>9, <2>10 DEF TypeOK
<1> QED BY <1>3, <1>4, <1>5

\* The timer has run out: but for notices, what it was started for has
\* landed.
LEMMA LandedAll ==
  ASSUME IInv, Down, Landed
  PROVE  OnlyNotices /\ rewindPending = 0 /\ freeMask = {} /\ ~due.on /\ br = << >>
<1> USE DEF IInv
<1>1. noticeSent /\ rewindPending = 0 /\ timer = 0
  BY DEF Landed
<1>2. \A i \in DOMAIN queue : queue[i].type = "notice"
  BY <1>1 DEF DownQueue, Ends
<1>3. ASSUME NEW p \in Chan PROVE toFet[p].msg.type \in {"none", "notice"} /\ toFet[p].free = {}
  <2>1. toFet[p].msg.type \notin {"none", "notice"} \/ toFet[p].free # {} => p <= 0
    BY <1>1 DEF DownQueue
  <2>2. ~(p <= 0)
    BY DEF Chan
  <2> QED BY <2>1, <2>2
<1>4. ~Up
  BY DEF Up, Running, Down
<1> QED BY <1>1, <1>2, <1>3, <1>4 DEF OnlyNotices, Modes

\* A warp comes to rest with nothing on its way to FET but notices.
LEMMA RestStep ==
  ASSUME IInv, st' \in {"free", "drained"}, OnlyNotices,
         freeMask = {}, ~due.on, ~due'.on, rewindPending' = 0, br' = << >>,
         st' = "free" => decq' = << >>,
         UNCHANGED <<epoch, freeMask, queue, toFet, fetEpoch, live>>
  PROVE  /\ Modes' /\ DownQueue' /\ Landings' /\ EpochsGiven'
         /\ Branches' /\ UopsInTurn' /\ Mirrored' /\ Outdated'
<1> USE DEF IInv
<1>1. ~Up' /\ ~Dark' /\ ~Down' /\ Quiet'
  BY DEF Up, Dark, Running, Down, Quiet
<1>2. Modes' /\ DownQueue'
  BY <1>1 DEF Modes, DownQueue, OnlyNotices
<1>3. Landings'
  BY SameLandings
<1>4. EpochsGiven'
  <2>1. NowEpoch' = NowEpoch
    BY DEF NowEpoch
  <2> QED BY <1>1, <2>1, SameGiven
<1> QED BY <1>1, <1>2, <1>3, <1>4 DEF Branches, UopsInTurn, Mirrored, Outdated

LEMMA ReleaseTyped ==
  ASSUME TypeOK, ReleaseSlot, UNCHANGED <<epoch, freeMask, queue, toFet, fetEpoch, live, pipe>>,
         fetching' \in BOOLEAN, phase' \in {"take", "control", "rename", "arrive"}
  PROVE  TypeOK' /\ ~due'.on /\ br' = << >> /\ decq' = << >> /\ rewindPending' = 0 /\ st' = "free"
<1>1. /\ st' = "free" /\ br' = << >> /\ due' = NoDue /\ decq' = << >> /\ held' = FALSE
      /\ noticeSent' = FALSE /\ timer' = 0 /\ rewindPending' = 0
  BY DEF ReleaseSlot
<1>2. br' \in Seq(Ckpt) /\ Len(br') <= Cardinality(Ckpt)
  BY <1>1, Wide
<1>3. due' \in [on : BOOLEAN, keep : 0 .. Cardinality(Ckpt)] /\ ~due'.on
  BY <1>1, Wide DEF NoDue
<1>4. decq' \in Seq(Uop) /\ Len(decq') <= MaxDecq
  BY <1>1, EpochAssumption
<1>a. 0 \in 0..Lat /\ 0 \in 0..1
  BY EpochAssumption
<1>5. noticeSent' \in BOOLEAN /\ timer' \in 0..Lat /\ rewindPending' \in 0..1 /\ held' \in BOOLEAN
  BY <1>1, <1>a
<1>6. st' \in State
  BY <1>1 DEF State
<1> QED BY <1>1, <1>2, <1>3, <1>4, <1>5, <1>6 DEF TypeOK

LEMMA FreeStep ==
  ASSUME IInv, Free
  PROVE  IInv'
<1> USE DEF IInv
<1>1. /\ phase = "control" /\ (st = "drained" \/ Finished) /\ ReleaseSlot /\ fetching' = FALSE
      /\ UNCHANGED <<epoch, freeMask, queue, toFet, fetEpoch, live, pipe, phase>>
  BY DEF Free
<1>2. TypeOK' /\ ~due'.on /\ br' = << >> /\ decq' = << >> /\ rewindPending' = 0 /\ st' = "free"
  BY <1>1, ReleaseTyped
<1>3. OnlyNotices /\ freeMask = {} /\ ~due.on
  <2>1. CASE st = "drained"
    BY <2>1 DEF Modes, Quiet, Up, Running
  <2>2. CASE Finished
    BY <2>2, Typed DEF Finished, NoMsg, OnlyNotices
  <2> QED BY <1>1, <2>1, <2>2
<1> QED BY <1>1, <1>2, <1>3, RestStep

LEMMA ProgressStep ==
  ASSUME IInv, Progress
  PROVE  IInv'
<1> USE DEF IInv
<1>1. /\ phase = "control" /\ phase' = "rename"
      /\ UNCHANGED <<epoch, freeMask, queue, toFet, fetEpoch, live, fetching, pipe>>
      /\ IF ~held /\ Landed /\ st = "killing"
           THEN ReleaseSlot
           ELSE /\ st' = IF ~held /\ Landed /\ st = "demoting" THEN "drained" ELSE st
                /\ UNCHANGED <<br, due, decq, held, noticeSent, timer, rewindPending>>
  BY DEF Progress, fetVars, oweVars
<1>2. CASE ~held /\ Landed /\ st = "killing"
  <2>1. TypeOK' /\ ~due'.on /\ br' = << >> /\ decq' = << >> /\ rewindPending' = 0 /\ st' = "free"
    BY <1>1, <1>2, ReleaseTyped DEF TypeOK
  <2>2. OnlyNotices /\ freeMask = {} /\ ~due.on
    BY <1>2, LandedAll DEF Down
  <2> QED BY <1>1, <2>1, <2>2, RestStep
<1>3. CASE ~held /\ Landed /\ st = "demoting"
  <2>1. st' = "drained" /\ UNCHANGED <<br, due, decq, held, noticeSent, timer, rewindPending>>
    BY <1>1, <1>3
  <2>2. OnlyNotices /\ rewindPending = 0 /\ freeMask = {} /\ ~due.on /\ br = << >>
    BY <1>3, LandedAll DEF Down
  <2>3. TypeOK'
    BY <1>1, <2>1 DEF TypeOK, State
  <2> QED BY <1>1, <2>1, <2>2, <2>3, RestStep
<1>4. CASE ~(~held /\ Landed /\ st \in {"killing", "demoting"})
  <2>1. UNCHANGED <<st, br, due, decq, held, noticeSent, timer, rewindPending>>
    BY <1>1, <1>4
  <2>2. /\ Up' = Up /\ Dark' = Dark /\ OnlyNotices' = OnlyNotices
        /\ Down' = Down /\ Quiet' = Quiet
    BY <1>1, <2>1, SameModes DEF Running, Down, Quiet
  <2>3. TypeOK'
    BY <1>1, <2>1 DEF TypeOK
  <2>4. Landings' /\ EpochsGiven' /\ Branches' /\ UopsInTurn' /\ Mirrored'
        /\ \A p : WayMsg(p)' = WayMsg(p) /\ WayFree(p)' = WayFree(p) /\ Redir(p)' = Redir(p)
    BY <1>1, <2>1, <2>2, QuietStep
  <2>5. Modes' /\ DownQueue'
    BY <1>1, <2>1, <2>2, <2>4 DEF Modes, DownQueue
  <2>6. Outdated'
    BY <1>1, <2>1, <2>2, SameOutdated
  <2> QED BY <2>3, <2>4, <2>5, <2>6
<1> QED BY <1>2, <1>3, <1>4

\* Some uops go, the others keep their order.
Thins(f) ==
  /\ \A i \in Uops' : f[i] \in Uops /\ UopAt(i)' = UopAt(f[i])
  /\ \A i, j \in Uops' : i < j => f[i] < f[j]

LEMMA ThinUops ==
  ASSUME UopsInTurn, Up' => Up, NEW f, Thins(f),
         UNCHANGED <<epoch, live, toFet, queue, freeMask>>,
         \A b \in DOMAIN br' : \A i \in Uops' :
           Fresh(f[i]) => Older(live, br'[b], UopAt(f[i]).ck),
         \A i \in Uops' : \A e : UopAt(f[i]).stale /\ Behind(e) => Behind(e)'
  PROVE  UopsInTurn'
<1>1. Outstanding' = Outstanding
  BY DEF Outstanding, InChannel
<1>2. ASSUME NEW i \in Uops' PROVE Fresh(i)' <=> Fresh(f[i])
  <2>1. PICK m : m = f[i]
    OBVIOUS
  <2>2. UopAt(i)' = UopAt(m)
    BY <2>1 DEF Thins
  <2>3. Fresh(i)' <=> Fresh(m)
    BY <2>2 DEF Fresh
  <2> QED BY <2>1, <2>3
<1>3. SUFFICES ASSUME Up, NEW i \in Uops', NEW m \in Uops, m = f[i], UopAt(i)' = UopAt(m)
              PROVE  /\ \A j \in Uops' : i < j /\ UopAt(j)'.stale => UopAt(i)'.stale
                     /\ UopAt(i)'.stale => Behind(UopAt(i).ep)'
                     /\ ~UopAt(i)'.stale => UopAt(i)'.ep = epoch' /\ Outstanding' = {}
                     /\ Fresh(i)' =>
                          /\ UopAt(i)'.ck \in Rng(live')
                          /\ \A j \in Uops' : i < j /\ Fresh(j)'
                               => Older(live', UopAt(i)'.ck, UopAt(j)'.ck)
                          /\ \A b \in DOMAIN br' : Older(live', br'[b], UopAt(i)'.ck)
                          /\ \A p \in Pos : UopAt(i)'.ck \notin WayFree(p)'
  BY DEF UopsInTurn, Thins
<1>4. \A j \in Uops' : i < j => m < f[j] /\ f[j] \in Uops /\ UopAt(j)' = UopAt(f[j])
  BY <1>3 DEF Thins
<1>5. UopAt(i)'.stale => Behind(UopAt(i).ep)'
  <2>1. PICK e : e = UopAt(m).ep
    OBVIOUS
  <2>2. UopAt(m).stale => Behind(e)'
    BY <1>3, <2>1 DEF UopsInTurn
  <2>3. UopAt(i)'.ep = e
    BY <1>3, <2>1
  <2> QED BY <1>3, <2>2, <2>3
<1>6. \A j \in Uops' : i < j /\ UopAt(j)'.stale => UopAt(i)'.stale
  BY <1>3, <1>4 DEF UopsInTurn
<1>7. ~UopAt(i)'.stale => UopAt(i)'.ep = epoch' /\ Outstanding' = {}
  BY <1>1, <1>3 DEF UopsInTurn
<1>8. ASSUME Fresh(i)'
      PROVE  /\ UopAt(i)'.ck \in Rng(live')
             /\ \A j \in Uops' : i < j /\ Fresh(j)' => Older(live', UopAt(i)'.ck, UopAt(j)'.ck)
             /\ \A b \in DOMAIN br' : Older(live', br'[b], UopAt(i)'.ck)
             /\ \A p \in Pos : UopAt(i)'.ck \notin WayFree(p)'
  <2>1. Fresh(m)
    BY <1>2, <1>3, <1>8
  <2>2. /\ UopAt(m).ck \in Rng(live)
        /\ \A j \in Uops : m < j /\ Fresh(j) => Older(live, UopAt(m).ck, UopAt(j).ck)
        /\ \A p \in Pos : UopAt(m).ck \notin WayFree(p)
    BY <1>3, <2>1 DEF UopsInTurn
  <2>3. \A b \in DOMAIN br' : Older(live, br'[b], UopAt(m).ck)
    BY <1>3, <2>1
  <2>4. \A j \in Uops' : i < j /\ Fresh(j)' => Older(live, UopAt(m).ck, UopAt(j)'.ck)
    BY <1>2, <1>4, <2>2
  <2> QED BY <1>3, <2>2, <2>3, <2>4, SameWay
<1> QED BY <1>5, <1>6, <1>7, <1>8

LEMMA ThinOutdated ==
  ASSUME Outdated, Dark' => Dark, NEW f, Thins(f),
         UNCHANGED <<epoch, fetching, fetEpoch, live>>
  PROVE  Outdated'
<1>1. \A i \in Uops' : f[i] \in Uops /\ UopAt(i)' = UopAt(f[i])
  BY DEF Thins
<1> QED BY <1>1 DEF Outdated

LEMMA ThinMirrored ==
  ASSUME TypeOK, Mirrored, Up' => Up, NEW f, Thins(f),
         UNCHANGED <<live, toFet, queue, freeMask>>,
         \A b \in DOMAIN br : b <= Kept =>
           \E d \in DOMAIN br' : d <= Kept' /\ br'[d] = br[b],
         \A i \in Uops : ~UopAt(i).stale /\ UopAt(i).ck # None =>
           \/ \E k \in Uops' : f[k] = i
           \/ \E d \in DOMAIN br' : d <= Kept' /\ br'[d] = UopAt(i).ck
  PROVE  Mirrored'
<1> SUFFICES ASSUME Up, NEW c \in Rng(live), Survives(c)' PROVE Owned(c)'
  BY DEF Mirrored
<1>1. c # None
  BY EpochAssumption DEF TypeOK, Rng
<1>2. Owned(c)
  BY SameWay DEF Survives, Mirrored
<1>3. CASE \E b \in DOMAIN br : b <= Kept /\ br[b] = c
  BY <1>3 DEF Owned
<1>4. CASE \E i \in Uops : ~UopAt(i).stale /\ UopAt(i).ck = c
  <2>1. PICK i \in Uops : ~UopAt(i).stale /\ UopAt(i).ck = c
    BY <1>4
  <2>2. CASE \E k \in Uops' : f[k] = i
    <3>1. PICK k \in Uops' : f[k] = i
      BY <2>2
    <3>2. UopAt(k)' = UopAt(i)
      BY <3>1 DEF Thins
    <3> QED BY <2>1, <3>2 DEF Owned
  <2>3. CASE \E d \in DOMAIN br' : d <= Kept' /\ br'[d] = UopAt(i).ck
    BY <2>1, <2>3 DEF Owned
  <2> QED BY <1>1, <2>1, <2>2, <2>3
<1>5. CASE \E p \in Pos : c \in WayFree(p)
  BY <1>5, SameWay DEF Owned
<1> QED BY <1>2, <1>3, <1>4, <1>5 DEF Owned

LEMMA TailIs ==
  ASSUME NEW S, NEW s \in Seq(S), s # << >>
  PROVE  /\ Tail(s) \in Seq(S) /\ Len(s) \in Nat /\ Len(s) >= 1 /\ Len(Tail(s)) = Len(s) - 1
         /\ DOMAIN Tail(s) = 1..Len(s) - 1 /\ DOMAIN s = 1..Len(s)
         /\ \A i \in 1..Len(s) - 1 : Tail(s)[i] = s[i + 1]
         /\ Head(s) = s[1] /\ s[1] \in S
<1>1. Len(s) \in Nat /\ DOMAIN s = 1..Len(s) /\ Len(s) >= 1
  BY EmptySeq
<1>2. /\ Tail(s) \in Seq(S) /\ Len(Tail(s)) = Len(s) - 1
      /\ \A i \in 1..Len(s) - 1 : Tail(s)[i] = s[i + 1]
  BY <1>1, HeadTailProperties
<1> QED BY <1>1, <1>2

\* The oldest uop of the channel is dropped, or moves to the decode queue.
LEMMA ArriveUops ==
  ASSUME TypeOK, Arrive
  PROVE  /\ TypeOK'
         /\ \E f, n : /\ Thins(f) /\ n \in Uops /\ UopAt(n) = Head(pipe)
                      /\ \A i \in Uops : (\E k \in Uops' : f[k] = i)
                           \/ (i = n /\ ~(st # "free" /\ UopAt(n).ep = epoch))
<1>1. /\ phase = "arrive" /\ pipe # << >> /\ Len(decq) < MaxDecq /\ pipe' = Tail(pipe)
      /\ decq' = IF st # "free" /\ Head(pipe).ep = epoch
                   THEN Append(decq, Head(pipe)) ELSE decq
      /\ UNCHANGED <<epoch, st, br, due, freeMask, held, queue, noticeSent, timer,
                     rewindPending, toFet, fetEpoch, live, fetching, phase>>
  BY DEF Arrive, CanAccept, oweVars, fetVars
<1>2. PICK D, P : D = Len(decq) /\ P = Len(pipe)
  OBVIOUS
<1>3. decq \in Seq(Uop) /\ pipe \in Seq(Uop) /\ D \in Nat /\ P <= MaxPipe
  BY <1>2, Typed DEF TypeOK
<1>4. /\ Tail(pipe) \in Seq(Uop) /\ P \in Nat /\ P >= 1 /\ Len(pipe') = P - 1
      /\ \A i \in 1..P - 1 : pipe'[i] = pipe[i + 1]
      /\ Head(pipe) = pipe[1] /\ pipe[1] \in Uop
  BY <1>1, <1>2, <1>3, TailIs
<1>5. UopAt(D + 1) = pipe[1] /\ D + 1 \in Uops /\ Uops = 1..D + P
  <2>1. ~(D + 1 <= D) /\ D + 1 - D = 1 /\ D + 1 \in 1..D + P
    BY <1>3, <1>4
  <2> QED BY <1>2, <2>1 DEF UopAt, Uops
<1>6. CASE st # "free" /\ Head(pipe).ep = epoch
  <2>1. decq' = Append(decq, pipe[1])
    BY <1>1, <1>4, <1>6
  <2>2. /\ decq' \in Seq(Uop) /\ Len(decq') = D + 1 /\ decq'[D + 1] = pipe[1]
        /\ \A i \in 1..D : decq'[i] = decq[i]
    BY <1>2, <1>3, <1>4, <2>1, AppendProperties
  <2>3. Uops' = Uops
    <3>1. D + 1 + (P - 1) = D + P
      BY <1>3, <1>4
    <3> QED BY <1>4, <1>5, <2>2, <3>1 DEF Uops
  <2>4. ASSUME NEW i \in Uops PROVE UopAt(i)' = UopAt(i)
    <3>0. UopAt(i)' = IF i <= D + 1 THEN decq'[i] ELSE pipe'[i - (D + 1)]
      BY <2>2 DEF UopAt
    <3>1. CASE i <= D
      <4>1. i \in 1..D /\ i <= D + 1
        BY <1>3, <1>5, <3>1
      <4> QED BY <1>2, <2>2, <3>0, <3>1, <4>1 DEF UopAt
    <3>2. CASE i = D + 1
      BY <1>3, <1>5, <2>2, <3>0, <3>2
    <3>3. CASE i > D + 1
      <4>0. D \in Nat /\ P \in Nat /\ i \in 1..D + P /\ i > D + 1
        BY <1>3, <1>4, <1>5, <3>3
      <4>1. /\ ~(i <= D) /\ ~(i <= D + 1) /\ i - (D + 1) \in 1..P - 1
            /\ i - (D + 1) + 1 = i - D
        BY ONLY <4>0
      <4> QED BY <1>2, <1>4, <3>0, <4>1 DEF UopAt
    <3> QED BY <1>3, <1>5, <3>1, <3>2, <3>3
  <2>a. PICK f : f = [i \in Uops |-> i]
    OBVIOUS
  <2>5. Thins(f) /\ \A i \in Uops : \E k \in Uops' : f[k] = i
    BY <2>3, <2>4, <2>a DEF Thins
  <2>6. TypeOK'
    <3>1. Len(decq') <= MaxDecq /\ Len(pipe') <= MaxPipe
      BY <1>1, <1>2, <1>3, <1>4, <2>2, EpochAssumption
    <3> QED BY <1>1, <1>4, <2>2, <3>1 DEF TypeOK
  <2> QED BY <1>4, <1>5, <2>3, <2>5, <2>6
<1>7. CASE ~(st # "free" /\ Head(pipe).ep = epoch)
  <2> DEFINE f == [i \in Uops' |-> IF i <= D THEN i ELSE i + 1]
  <2>1. decq' = decq /\ Uops' = 1..D + P - 1
    <3>1. D + (P - 1) = D + P - 1
      BY <1>3, <1>4
    <3> QED BY <1>1, <1>2, <1>4, <1>7, <3>1 DEF Uops
  <2>2. ASSUME NEW i \in Uops' PROVE f[i] \in Uops /\ UopAt(i)' = UopAt(f[i])
    <3>0. UopAt(i)' = IF i <= D THEN decq[i] ELSE pipe'[i - D]
      BY <1>2, <2>1 DEF UopAt
    <3>1. CASE i <= D
      <4>1. i \in 1..D + P
        BY <1>3, <1>4, <2>1, <3>1
      <4> QED BY <1>2, <1>5, <3>0, <3>1, <4>1 DEF UopAt
    <3>2. CASE ~(i <= D)
      <4>0. PICK m : m = i + 1
        OBVIOUS
      <4>1. m \in 1..D + P /\ ~(m <= D) /\ i - D \in 1..P - 1 /\ i - D + 1 = m - D
        BY <1>3, <1>4, <2>1, <3>2, <4>0
      <4>2. f[i] = m /\ pipe'[i - D] = pipe[m - D]
        BY <1>4, <3>2, <4>0, <4>1
      <4>3. UopAt(m) = pipe[m - D]
        BY <1>2, <4>1 DEF UopAt
      <4>4. UopAt(i)' = UopAt(m) /\ m \in Uops
        BY <1>5, <3>0, <3>2, <4>1, <4>2, <4>3
      <4> HIDE DEF f
      <4> QED BY <4>2, <4>4
    <3> QED BY <3>1, <3>2
  <2>3. \A i, j \in Uops' : i < j => f[i] < f[j]
    BY <1>3, <1>4, <2>1
  <2>4. ASSUME NEW i \in Uops, i # D + 1 PROVE \E k \in Uops' : f[k] = i
    <3>1. CASE i <= D
      <4>1. i \in 1..D + P - 1
        BY <1>3, <1>4, <1>5, <3>1
      <4> QED BY <2>1, <3>1, <4>1
    <3>2. CASE ~(i <= D)
      <4>1. i - 1 \in 1..D + P - 1 /\ ~(i - 1 <= D) /\ i - 1 + 1 = i
        BY <1>3, <1>4, <1>5, <2>4, <3>2
      <4> QED BY <2>1, <4>1
    <3> QED BY <3>1, <3>2
  <2> HIDE DEF f
  <2>5. Thins(f)
    BY <2>2, <2>3 DEF Thins
  <2>6. TypeOK'
    <3>1. Len(pipe') <= MaxPipe
      BY <1>3, <1>4, EpochAssumption
    <3> QED BY <1>1, <1>4, <2>1, <3>1 DEF TypeOK
  <2> QED BY <1>4, <1>5, <1>7, <2>4, <2>5, <2>6
<1> QED BY <1>6, <1>7

LEMMA ArriveStep ==
  ASSUME IInv, Arrive
  PROVE  IInv'
<1> USE DEF IInv
<1>1. /\ UNCHANGED <<epoch, st, br, due, freeMask, held, queue, noticeSent, timer,
                     rewindPending, toFet, fetEpoch, live, fetching, phase>>
      /\ st = "free" => decq' = decq
  BY DEF Arrive, oweVars, fetVars
<1>2. PICK f, n : /\ Thins(f) /\ n \in Uops /\ UopAt(n) = Head(pipe)
                  /\ \A i \in Uops : (\E k \in Uops' : f[k] = i)
                       \/ (i = n /\ ~(st # "free" /\ UopAt(n).ep = epoch))
  BY ArriveUops
<1>3. /\ Up' = Up /\ Dark' = Dark /\ OnlyNotices' = OnlyNotices
      /\ Down' = Down /\ Quiet' = Quiet /\ Kept' = Kept /\ NowEpoch' = NowEpoch
  BY <1>1, SameModes DEF Running, Down, Quiet, Kept, NowEpoch
<1>4. TypeOK'
  BY ArriveUops
<1>5. \A p : WayMsg(p)' = WayMsg(p) /\ WayFree(p)' = WayFree(p) /\ Redir(p)' = Redir(p)
  BY <1>1, SameWay
<1>6. Modes' /\ DownQueue'
  BY <1>1, <1>3, <1>5 DEF Modes, DownQueue
<1>7. Landings' /\ EpochsGiven' /\ Branches'
  BY <1>1, <1>3, SameLandings, SameGiven, SameBranches
<1>8. UopsInTurn'
  <2>1. \A e : Behind(e)' = Behind(e)
    BY <1>3 DEF Behind, Lag
  <2>2. \A b \in DOMAIN br' : \A i \in Uops' :
          Up /\ Fresh(f[i]) => Older(live, br'[b], UopAt(f[i]).ck)
    BY <1>1, <1>2 DEF UopsInTurn, Thins
  <2>3. CASE Up
    BY <1>1, <1>2, <1>3, <2>1, <2>2, <2>3, ThinUops
  <2>4. CASE ~Up
    BY <1>3, <2>4 DEF UopsInTurn
  <2> QED BY <2>3, <2>4
<1>9. Mirrored'
  <2>1. CASE Up
    <3>1. \A i \in Uops : ~UopAt(i).stale => \E k \in Uops' : f[k] = i
      BY <1>2, <2>1 DEF UopsInTurn, Up, Running
    <3> QED BY <1>1, <1>2, <1>3, <3>1, ThinMirrored
  <2>2. CASE ~Up
    BY <1>3, <2>2 DEF Mirrored
  <2> QED BY <2>1, <2>2
<1>10. Outdated'
  BY <1>1, <1>2, <1>3, ThinOutdated
<1> QED BY <1>4, <1>6, <1>7, <1>8, <1>9, <1>10

\* The oldest uop leaves the decode queue.
LEMMA RenameUops ==
  ASSUME TypeOK, Rename
  PROVE  /\ 1 \in Uops /\ Head(decq) = UopAt(1)
         /\ decq' \in Seq(Uop) /\ Len(decq') <= MaxDecq
         /\ \E f : /\ Thins(f) /\ \A i \in Uops' : 1 < f[i]
                   /\ \A i \in Uops : i = 1 \/ \E k \in Uops' : f[k] = i
<1>1. decq # << >> /\ decq' = Tail(decq) /\ pipe' = pipe
  BY DEF Rename
<1>2. PICK D, P : D = Len(decq) /\ P = Len(pipe)
  OBVIOUS
<1>3. decq \in Seq(Uop) /\ D <= MaxDecq /\ P \in Nat
  BY <1>2, Typed DEF TypeOK
<1>4. /\ Tail(decq) \in Seq(Uop) /\ D \in Nat /\ D >= 1 /\ Len(decq') = D - 1
      /\ \A i \in 1..D - 1 : decq'[i] = decq[i + 1]
      /\ Head(decq) = decq[1]
  BY <1>1, <1>2, <1>3, TailIs
<1>5. Uops = 1..D + P /\ Uops' = 1..(D - 1) + P
  BY <1>1, <1>2, <1>4 DEF Uops
<1>6. 1 \in Uops /\ Head(decq) = UopAt(1)
  BY <1>2, <1>3, <1>4, <1>5 DEF UopAt
<1>7. decq' \in Seq(Uop) /\ Len(decq') <= MaxDecq
  BY <1>1, <1>3, <1>4, EpochAssumption
<1> DEFINE f == [i \in Uops' |-> i + 1]
<1>8. ASSUME NEW i \in Uops' PROVE f[i] \in Uops /\ UopAt(i)' = UopAt(f[i]) /\ 1 < f[i]
  <2>1. PICK m : m = i + 1
    OBVIOUS
  <2>2. f[i] = m /\ m \in 1..D + P /\ 1 < m /\ m - D = i - (D - 1)
    BY <1>3, <1>4, <1>5, <2>1
  <2> HIDE DEF f
  <2>3. UopAt(i)' = IF i <= D - 1 THEN decq'[i] ELSE pipe[i - (D - 1)]
    BY <1>1, <1>4 DEF UopAt
  <2>4. CASE i <= D - 1
    <3>1. i \in 1..D - 1 /\ m <= D
      BY <1>3, <1>4, <1>5, <2>1, <2>4
    <3>2. UopAt(m) = decq[m] /\ UopAt(i)' = decq[m]
      BY <1>2, <1>4, <2>1, <2>3, <2>4, <3>1 DEF UopAt
    <3> QED BY <1>5, <2>2, <3>2
  <2>5. CASE ~(i <= D - 1)
    <3>1. ~(m <= D)
      BY <1>3, <1>4, <1>5, <2>1, <2>5
    <3>2. UopAt(m) = pipe[m - D] /\ UopAt(i)' = pipe[m - D]
      BY <1>2, <2>2, <2>3, <2>5, <3>1 DEF UopAt
    <3> QED BY <1>5, <2>2, <3>2
  <2> QED BY <2>4, <2>5
<1>9. \A i, j \in Uops' : i < j => f[i] < f[j]
  BY <1>3, <1>4, <1>5
<1>10. ASSUME NEW i \in Uops, i # 1 PROVE \E k \in Uops' : f[k] = i
  <2>1. i - 1 \in Uops' /\ i - 1 + 1 = i
    BY <1>3, <1>4, <1>5, <1>10
  <2> QED BY <2>1
<1> HIDE DEF f
<1>11. Thins(f)
  BY <1>8, <1>9 DEF Thins
<1> QED BY <1>6, <1>7, <1>8, <1>10, <1>11

\* A branch that is renamed is younger than the others, and comes when no
\* redirect is on its way, or is squashed with the next edge.
LEMMA RenameUp ==
  ASSUME IInv, Rename, Up
  PROVE  IInv'
<1> USE DEF IInv
<1>1. /\ st = "active" /\ phase = "rename"
      /\ br' = IF Head(decq).ep = epoch /\ Head(decq).ck # None
                 THEN Append(br, Head(decq).ck) ELSE br
      /\ UNCHANGED <<epoch, st, due, freeMask, held, queue, noticeSent, timer,
                     rewindPending, toFet, fetEpoch, live, fetching, pipe, phase>>
  BY DEF Rename, oweVars, fetVars
<1>2. /\ 1 \in Uops /\ Head(decq) = UopAt(1)
      /\ decq' \in Seq(Uop) /\ Len(decq') <= MaxDecq
  BY RenameUops
<1>3. PICK f : /\ Thins(f) /\ \A i \in Uops' : 1 < f[i]
               /\ \A i \in Uops : i = 1 \/ \E k \in Uops' : f[k] = i
  BY RenameUops
<1>4. /\ Up /\ Up' /\ ~Dark' /\ ~Down /\ ~Down' /\ ~Quiet' /\ st' # "free"
      /\ NowEpoch' = NowEpoch
  BY <1>1, SameModes DEF Up, Dark, Running, Down, Quiet, NowEpoch
<1>5. \A p : WayMsg(p)' = WayMsg(p) /\ WayFree(p)' = WayFree(p) /\ Redir(p)' = Redir(p)
  BY <1>1, SameWay
<1>6. Modes' /\ DownQueue' /\ Landings'
  BY <1>1, <1>4, <1>5, SameLandings DEF Modes, DownQueue
<1>t. ASSUME br' \in Seq(Ckpt), Len(br') <= Cardinality(Ckpt), Len(br) <= Len(br')
      PROVE  TypeOK'
  <2>1. due'.on => due'.keep <= Len(br')
    <3>1. PICK L, M : L = Len(br) /\ M = Len(br')
      OBVIOUS
    <3>2. L \in Nat /\ M \in Nat /\ L <= M
      BY <1>t, <3>1, Typed
    <3>3. due.on => due.keep <= L /\ due.keep \in Nat
      BY <3>1, Wide DEF TypeOK
    <3> QED BY <1>1, <3>1, <3>2, <3>3
  <2> QED BY <1>1, <1>2, <1>t, <2>1 DEF TypeOK
<1>7. CASE ~Fresh(1)
  <2>1. br' = br
    BY <1>1, <1>2, <1>7 DEF Fresh
  <2>2. Kept' = Kept /\ \A e : Behind(e)' = Behind(e)
    BY <1>1, <1>4, <2>1 DEF Kept, Behind, Lag
  <2>3. TypeOK'
    BY <1>t, <2>1, Typed DEF TypeOK
  <2>4. EpochsGiven' /\ Branches'
    BY <1>1, <1>4, <2>1, <2>2, SameGiven, SameBranches
  <2>5. UopsInTurn'
    <3>1. \A b \in DOMAIN br' : \A i \in Uops' : Fresh(f[i]) => Older(live, br'[b], UopAt(f[i]).ck)
      BY <1>3, <1>4, <2>1 DEF UopsInTurn, Thins
    <3> QED BY <1>1, <1>3, <1>4, <2>2, <3>1, ThinUops
  <2>6. Mirrored'
    <3>1. \A i \in Uops : ~UopAt(i).stale /\ UopAt(i).ck # None => \E k \in Uops' : f[k] = i
      BY <1>2, <1>3, <1>4, <1>7 DEF UopsInTurn, Fresh
    <3> QED BY <1>1, <1>3, <1>4, <2>1, <2>2, <3>1, ThinMirrored
  <2> QED BY <1>4, <1>6, <2>3, <2>4, <2>5, <2>6 DEF Outdated
<1>8. CASE Fresh(1)
  <2>1. PICK c, n : c = UopAt(1).ck /\ n = Len(br)
    OBVIOUS
  <2>2. br' = Append(br, c) /\ UopAt(1).ep = epoch
    BY <1>1, <1>2, <1>8, <2>1 DEF Fresh
  <2>3. c \in Ckpt /\ c \in Rng(live) /\ br \in Seq(Ckpt) /\ n \in Nat /\ DOMAIN br = 1..n
    <3>1. UopAt(1) \in Uop /\ br \in Seq(Ckpt) /\ n \in Nat /\ DOMAIN br = 1..n
      BY <1>2, <2>1, Typed DEF TypeOK
    <3>2. c \in Ckpt
      BY <1>8, <2>1, <3>1 DEF Uop, Fresh
    <3>3. c \in Rng(live)
      BY <1>2, <1>4, <1>8, <2>1 DEF UopsInTurn
    <3> QED BY <3>1, <3>2, <3>3
  <2>4. /\ br' \in Seq(Ckpt) /\ Len(br') = n + 1 /\ DOMAIN br' = 1..n + 1
        /\ \A b \in 1..n : br'[b] = br[b]
        /\ br'[n + 1] = c
    BY <2>1, <2>2, <2>3, AppendProperties, LenProperties
  <2>5. /\ \A b \in DOMAIN br : Older(live, br[b], c)
        /\ \A i \in Uops : 1 < i /\ Fresh(i) => Older(live, c, UopAt(i).ck)
        /\ \A p \in Pos : c \notin WayFree(p)
    BY <1>2, <1>4, <1>8, <2>1 DEF UopsInTurn
  <2>6. ~due.on => /\ \A i \in Uops : ~UopAt(i).stale
                   /\ Outstanding = {} /\ \A p \in Pos : ~Redir(p)
    <3>1. SUFFICES ASSUME ~due.on
                   PROVE  /\ \A i \in Uops : ~UopAt(i).stale
                          /\ Outstanding = {} /\ \A p \in Pos : ~Redir(p)
      OBVIOUS
    <3>2. ~UopAt(1).stale
      <4>1. UopAt(1).stale => Behind(UopAt(1).ep)
        BY <1>2, <1>4 DEF UopsInTurn
      <4>2. UopAt(1).ep \in Epoch
        BY <2>2 DEF TypeOK
      <4> QED BY <2>2, <3>1, <4>1, <4>2, BehindIs
    <3>3. \A i \in Uops : i = 1 \/ 1 < i
      BY Typed DEF Uops
    <3> QED BY <1>2, <1>4, <3>2, <3>3, Signals DEF UopsInTurn
  <2>7. Kept' = (IF due.on THEN Kept ELSE n + 1) /\ Kept \in 0..n
    BY <1>1, <2>1, <2>4, Typed DEF Kept
  <2>8. Branches'
    <3>1. \A b \in DOMAIN br' : b \in DOMAIN br \/ b = n + 1
      BY <2>3, <2>4
    <3>2. n + 1 \notin DOMAIN br /\ \A b \in DOMAIN br : ~(n + 1 < b)
      BY <2>3
    <3>3. \A b \in DOMAIN br : br'[b] = br[b]
      BY <2>3, <2>4
    <3>4. \A b \in DOMAIN br :
            /\ br[b] \in Rng(live)
            /\ \A a \in DOMAIN br : a < b => Older(live, br[a], br[b])
            /\ \A p \in Pos : br[b] \notin WayFree(p)
            /\ b <= Kept => \A p \in Pos : Redir(p) => Older(live, br[b], WayMsg(p).ck)
      BY <1>4 DEF Branches
    <3>5. due.on => Kept' = Kept /\ ~(n + 1 <= Kept')
      BY <2>3, <2>7
    <3>6. ASSUME NEW b \in DOMAIN br'
          PROVE  /\ br'[b] \in Rng(live')
                 /\ \A a \in DOMAIN br' : a < b => Older(live', br'[a], br'[b])
                 /\ \A p \in Pos : br'[b] \notin WayFree(p)'
                 /\ b <= Kept' => \A p \in Pos : Redir(p)' => Older(live', br'[b], WayMsg(p)'.ck)
      <4>0. ~(n + 1 < n + 1)
        BY <2>3
      <4>1. CASE b \in DOMAIN br
        BY <1>1, <1>5, <2>6, <3>1, <3>2, <3>3, <3>4, <3>5, <4>1
      <4>2. CASE b = n + 1
        BY <1>1, <1>5, <2>3, <2>4, <2>5, <2>6, <3>1, <3>3, <3>5, <4>0, <4>2
      <4> QED BY <3>1, <4>1, <4>2
    <3> QED BY <3>6 DEF Branches
  <2>9. TypeOK'
    <3>1. Distinct(br')
      <4> SUFFICES ASSUME NEW a \in DOMAIN br', NEW b \in DOMAIN br', br'[a] = br'[b], a # b
                   PROVE  FALSE
        BY DEF Distinct
      <4>1. a < b \/ b < a
        BY <2>3, <2>4
      <4>2. Older(live, br'[a], br'[b]) \/ Older(live, br'[b], br'[a])
        BY <1>1, <1>4, <2>8, <4>1 DEF Branches
      <4>3. live \in Seq(Ckpt) /\ Distinct(live)
        BY DEF TypeOK, Landings
      <4> QED BY <4>2, <4>3, OlderIs
    <3>2. Len(br') <= Cardinality(Ckpt)
      BY <2>4, <3>1, DistinctLen, EpochAssumption
    <3>3. Len(br) <= Len(br')
      BY <2>1, <2>3, <2>4
    <3> QED BY <1>t, <2>4, <3>2, <3>3
  <2>10. EpochsGiven'
    <3>1. CASE due.on
      BY <1>1, <1>4, <2>7, <3>1, SameGiven
    <3>2. CASE ~due.on
      <4>1. ~Later(0)
        BY <2>6, <3>2, Signals
      <4>2. \A p \in 0..Lat - 1 : ~Later(p)
        <5>1. \A p \in 0..Lat - 1 : \A q \in Chan : p < q => 0 < q
          BY DEF Chan
        <5> QED BY <4>1, <5>1 DEF Later
      <4>3. \A p : Later(p)' = Later(p) /\ Given(p)' = Given(p) /\ Gives(p)' = Gives(p)
        BY <1>1 DEF Later, Given, Gives
      <4> QED BY <1>1, <1>4, <4>2, <4>3 DEF EpochsGiven
    <3> QED BY <3>1, <3>2
  <2>11. UopsInTurn'
    <3>1. \A b \in DOMAIN br' : \A i \in Uops' : Fresh(f[i]) => Older(live, br'[b], UopAt(f[i]).ck)
      <4>1. \A b \in DOMAIN br' : (b \in DOMAIN br /\ br'[b] = br[b]) \/ br'[b] = c
        BY <2>3, <2>4
      <4>2. \A i \in Uops' : f[i] \in Uops /\ 1 < f[i]
        BY <1>3 DEF Thins
      <4>3. \A b \in DOMAIN br : \A i \in Uops : Fresh(i) => Older(live, br[b], UopAt(i).ck)
        BY <1>4 DEF UopsInTurn
      <4> QED BY <2>5, <4>1, <4>2, <4>3
    <3>2. \A i \in Uops' : \A e : UopAt(f[i]).stale /\ Behind(e) => Behind(e)'
      <4>1. CASE due.on
        <5>1. Kept' = Kept
          BY <2>7, <4>1
        <5> QED BY <1>4, <5>1 DEF Behind, Lag
      <4>2. CASE ~due.on
        BY <1>3, <2>6, <4>2 DEF Thins
      <4> QED BY <4>1, <4>2
    <3> QED BY <1>1, <1>3, <1>4, <3>1, <3>2, ThinUops
  <2>12. Mirrored'
    <3>1. \A b \in DOMAIN br : b <= Kept => b \in DOMAIN br' /\ b <= Kept' /\ br'[b] = br[b]
      BY <2>3, <2>4, <2>7
    <3>2. due.on => \A i \in Uops : UopAt(i).stale
      BY <1>4, Signals DEF UopsInTurn
    <3>3. ~due.on => n + 1 \in DOMAIN br' /\ n + 1 <= Kept' /\ br'[n + 1] = UopAt(1).ck
      BY <2>1, <2>3, <2>4, <2>7
    <3>4. \A i \in Uops : ~UopAt(i).stale /\ UopAt(i).ck # None =>
            \/ \E k \in Uops' : f[k] = i
            \/ \E d \in DOMAIN br' : d <= Kept' /\ br'[d] = UopAt(i).ck
      BY <1>3, <3>2, <3>3
    <3> QED BY <1>1, <1>3, <1>4, <3>1, <3>4, ThinMirrored
  <2> QED BY <1>4, <1>6, <2>8, <2>9, <2>10, <2>11, <2>12 DEF Outdated
<1> QED BY <1>7, <1>8

\* In a dark warp it is dropped.
LEMMA RenameDark ==
  ASSUME IInv, Rename, Dark
  PROVE  IInv'
<1> USE DEF IInv
<1>1. PICK f : Thins(f)
  BY RenameUops
<1>2. /\ br' = br /\ decq' \in Seq(Uop) /\ Len(decq') <= MaxDecq
  <2>1. Head(decq).ep # epoch
    BY RenameUops DEF Outdated
  <2> QED BY <2>1, RenameUops DEF Rename
<1>3. UNCHANGED <<epoch, st, br, due, freeMask, held, queue, noticeSent, timer,
                  rewindPending, toFet, fetEpoch, live, fetching, pipe, phase>>
  BY <1>2 DEF Rename, oweVars, fetVars
<1>4. /\ ~Up' /\ Dark' /\ Up' = Up /\ OnlyNotices' = OnlyNotices
      /\ Down' = Down /\ Quiet' = Quiet /\ Kept' = Kept /\ NowEpoch' = NowEpoch
      /\ st # "free" /\ ~Down
  <2>1. ~Up /\ ~Down /\ st # "free"
    BY DEF Dark, Up, Running, Down
  <2> QED BY <1>3, <2>1, SameModes DEF Running, Down, Quiet, Kept, NowEpoch
<1>5. TypeOK'
  BY <1>2, <1>3 DEF TypeOK
<1>6. Modes' /\ DownQueue'
  BY <1>3, <1>4 DEF Modes, DownQueue
<1>7. Landings' /\ EpochsGiven'
  BY <1>3, <1>4, SameLandings, SameGiven
<1>8. Outdated'
  BY <1>1, <1>3, <1>4, ThinOutdated
<1> QED BY <1>4, <1>5, <1>6, <1>7, <1>8 DEF Branches, UopsInTurn, Mirrored

LEMMA RenameStep ==
  ASSUME IInv, Rename
  PROVE  IInv'
<1>1. Up \/ Dark
  BY DEF Rename, Up, Dark, Running
<1> QED BY <1>1, RenameUp, RenameDark

\* With a branch fewer, or with one squash more and a branch fewer, an epoch
\* that was behind still is; with a squash more, so is the one before it.
LEMMA StillBehind ==
  ASSUME TypeOK, NEW K \in Nat, Kept' = K,
         \/ NowEpoch' = NowEpoch /\ K <= Kept
         \/ NowEpoch' = NextEpoch(NowEpoch) /\ K < Kept
  PROVE  /\ \A e \in Epoch : Behind(e) => Behind(e)'
         /\ NowEpoch' # NowEpoch => \A e : e = NowEpoch => Behind(e)'
<1>1. PICK C, N, a, k, x : /\ C = Cardinality(Ckpt) /\ N = Epochs /\ a = NowEpoch
                           /\ k = Kept /\ x = NowEpoch'
  OBVIOUS
<1>2. /\ C \in Nat /\ N \in Nat /\ N > C + 1 /\ Epoch = 0..N-1
      /\ a \in 0..N-1 /\ k \in Nat /\ k <= C
  <2>1. Kept \in 0..Len(br) /\ Len(br) \in Nat /\ Len(br) <= Cardinality(Ckpt)
    BY Typed DEF TypeOK
  <2>2. k \in Nat /\ k <= C
    BY <1>1, <2>1, Wide
  <2> QED BY <1>1, <2>2, Typed, Wide DEF Epoch
<1>3. \/ x = a /\ K <= k
      \/ x = (a + 1) % N /\ K < k
  BY <1>1 DEF NextEpoch
<1>4. N > 1
  BY <1>2
<1>5. ASSUME NEW e \in 0..N-1
      PROVE  /\ Behind(e) <=> (a + N - e) % N >= 1 /\ ((a + N - e) % N) + k <= C
             /\ Behind(e)' <=> (x + N - e) % N >= 1 /\ ((x + N - e) % N) + K <= C
  BY <1>1 DEF Behind, Lag
<1>6. CASE x = a /\ K <= k
  <2>1. ASSUME NEW e \in 0..N-1, Behind(e) PROVE Behind(e)'
    <3>1. PICK g : g = (a + N - e) % N
      OBVIOUS
    <3>a. Turned(N, a, e, (a + 1) % N)
      BY <1>2, <1>4, Turns
    <3>2. g \in 0..N-1
      BY <3>1, <3>a DEF Turned
    <3>3. g >= 1 /\ g + k <= C
      BY <1>5, <2>1, <3>1
    <3>4. g + K <= C
      BY <1>2, <1>6, <3>2, <3>3
    <3> QED BY <1>5, <1>6, <3>1, <3>3, <3>4
  <2> QED BY <1>1, <1>2, <1>6, <2>1
<1>7. CASE x = (a + 1) % N /\ K < k
  <2>1. ASSUME NEW e \in 0..N-1, Behind(e) PROVE Behind(e)'
    <3>1. PICK g, h : g = (a + N - e) % N /\ h = (x + N - e) % N
      OBVIOUS
    <3>a. /\ (a + N - e) % N \in 0..N-1
          /\ (a + N - e) % N < N - 1 => (x + N - e) % N = ((a + N - e) % N) + 1
      <4>1. N \in Nat /\ N > 1 /\ a \in 0..N-1 /\ x = (a + 1) % N
        BY <1>2, <1>4, <1>7
      <4>2. Turned(N, a, e, x)
        BY <4>1, Turns
      <4> QED BY <4>2 DEF Turned
    <3>2. g \in 0..N-1 /\ (g < N - 1 => h = g + 1)
      BY <3>1, <3>a, Zenon
    <3>3. g >= 1 /\ g + k <= C
      BY <1>5, <2>1, <3>1
    <3>4. h >= 1 /\ h + K <= C
      BY <1>2, <1>7, <3>2, <3>3
    <3> QED BY <1>5, <3>1, <3>4
  <2>2. Behind(a)'
    <3>1. (x + N - a) % N = 1
      <4>1. N \in Nat /\ N > 1 /\ a \in 0..N-1 /\ x = (a + 1) % N
        BY <1>2, <1>4, <1>7
      <4>2. Turned(N, a, a, x)
        BY <4>1, Turns
      <4> QED BY <4>2 DEF Turned
    <3>2. 1 + K <= C
      BY <1>2, <1>7
    <3> QED BY <1>2, <1>5, <3>1, <3>2
  <2> QED BY <1>1, <1>2, <2>1, <2>2
<1> QED BY <1>3, <1>6, <1>7

\* All of a sequence but its k-th element.
LEMMA CutIs ==
  ASSUME NEW S, NEW s \in Seq(S), NEW k \in DOMAIN s, NEW t,
         t = SubSeq(s, 1, k - 1) \o SubSeq(s, k + 1, Len(s))
  PROVE  /\ t \in Seq(S) /\ Len(t) = Len(s) - 1 /\ DOMAIN t = 1..Len(s) - 1
         /\ \A i \in 1..Len(s) - 1 : t[i] = s[IF i < k THEN i ELSE i + 1]
<1>1. PICK n : n = Len(s)
  OBVIOUS
<1>2. n \in Nat /\ k \in 1..n
  BY <1>1
<1> DEFINE u == SubSeq(s, 1, k - 1)
           v == SubSeq(s, k + 1, n)
<1>3. u \in Seq(S) /\ Len(u) = k - 1 /\ \A i \in 1..k - 1 : u[i] = s[i]
  <2>1. PICK m : m = k - 1
    OBVIOUS
  <2>2. m \in 0..Len(s)
    BY <1>1, <1>2, <2>1
  <2>3. /\ SubSeq(s, 1, m) \in Seq(S) /\ Len(SubSeq(s, 1, m)) = m
        /\ \A i \in 1..m : SubSeq(s, 1, m)[i] = s[i]
    BY ONLY s \in Seq(S), <2>2, PrefixIs, Zenon
  <2> QED BY <2>1, <2>3, Zenon
<1>4. v \in Seq(S) /\ Len(v) = n - k /\ \A i \in 1..n - k : v[i] = s[k + i]
  <2>1. PICK m : m = k + 1
    OBVIOUS
  <2>2. /\ m \in Int /\ n \in Int /\ \A i \in m..n : i \in 1..n /\ s[i] \in S
        /\ n - m + 1 = n - k /\ (m <= n <=> 1 <= n - k)
    BY <1>1, <1>2, <2>1
  <2>3. /\ SubSeq(s, m, n) \in Seq(S)
        /\ Len(SubSeq(s, m, n)) = IF m <= n THEN n - m + 1 ELSE 0
        /\ \A i \in 1..(n - m + 1) : SubSeq(s, m, n)[i] = s[m + i - 1]
    BY <2>2, SubSeqProperties
  <2>4. Len(SubSeq(s, m, n)) = n - k
    BY <1>2, <2>1, <2>2, <2>3
  <2>5. \A i \in 1..n - k : m + i - 1 = k + i
    BY <1>2, <2>1
  <2> QED BY <2>1, <2>2, <2>3, <2>4, <2>5
<1> HIDE DEF u, v
<1>5. t = u \o v
  BY <1>1 DEF u, v
<1>6. /\ t \in Seq(S) /\ Len(t) = Len(u) + Len(v)
      /\ \A i \in 1..Len(u) + Len(v) : t[i] = IF i <= Len(u) THEN u[i] ELSE v[i - Len(u)]
  <2>1. u \in Seq(S) /\ v \in Seq(S)
    BY <1>3, <1>4
  <2>2. /\ u \o v \in Seq(S) /\ Len(u \o v) = Len(u) + Len(v)
        /\ \A i \in 1..Len(u) + Len(v) :
             (u \o v)[i] = IF i <= Len(u) THEN u[i] ELSE v[i - Len(u)]
    BY ONLY <2>1, ConcatProperties
  <2> QED BY <1>5, <2>2
<1>7. Len(t) = n - 1
  BY <1>2, <1>3, <1>4, <1>6
<1>8. ASSUME NEW i \in 1..n - 1 PROVE t[i] = s[IF i < k THEN i ELSE i + 1]
  <2>0. t[i] = IF i <= k - 1 THEN u[i] ELSE v[i - (k - 1)]
    <3>1. 1..Len(u) + Len(v) = 1..n - 1
      BY <1>6, <1>7
    <3> QED BY <1>3, <1>6, <3>1
  <2>1. CASE i < k
    BY <1>2, <1>3, <2>0, <2>1
  <2>2. CASE ~(i < k)
    <3>1. PICK j : j = i - (k - 1)
      OBVIOUS
    <3>2. i \in Nat /\ i >= k /\ i <= n - 1
      BY <1>2, <2>2
    <3>3. j \in 1..n - k
      BY <1>2, <3>1, <3>2
    <3>4. k + j = i + 1
      BY <1>2, <3>1, <3>2
    <3>a. ~(i <= k - 1)
      BY <1>2, <3>2
    <3>5. t[i] = v[j]
      BY <2>0, <3>1, <3>a, Zenon
    <3>6. v[j] = s[k + j]
      BY <1>4, <3>3
    <3> QED BY <2>2, <3>4, <3>5, <3>6
  <2> QED BY <2>1, <2>2
<1> QED BY <1>1, <1>6, <1>7, <1>8, LenProperties

\* The k-th branch resolves, right or wrong.
ResolveRight(k) ==
  /\ freeMask' = freeMask \cup {br[k]}
  /\ br' = SubSeq(br, 1, k - 1) \o SubSeq(br, k + 1, Len(br))
  /\ UNCHANGED <<due, queue, decq, pipe>>
ResolveWrong(k) ==
  /\ br' = SubSeq(br, 1, k - 1)
  /\ due' = [on |-> TRUE, keep |-> k - 1]
  /\ queue' \in Queued(Without(queue, Redirects),
                       [NoMsg EXCEPT !.type = "redirect",
                          !.ep = NextEpoch(epoch), !.ck = br[k]])
  /\ freeMask' = freeMask
  /\ decq' = Stale(decq) /\ pipe' = Stale(pipe)

LEMMA ResolveIs ==
  ASSUME IInv, Resolve
  PROVE  /\ phase = "take" /\ phase' = "control" /\ ~due.on /\ freeMask = {}
         /\ UNCHANGED <<epoch, st, held, noticeSent, timer, rewindPending, toFet,
                        fetEpoch, live, fetching>>
         /\ Up /\ ~Down' /\ ~Quiet' /\ st' # "free"
         /\ Kept = Len(br) /\ NowEpoch = epoch
         /\ \E k \in DOMAIN br : ResolveRight(k) \/ ResolveWrong(k)
<1> USE DEF IInv
<1>1. /\ phase = "take" /\ phase' = "control"
      /\ UNCHANGED <<epoch, st, held, noticeSent, timer, rewindPending, toFet,
                     fetEpoch, live, fetching>>
  BY DEF Resolve, oweVars, fetVars
<1>2. ~due.on /\ freeMask = {}
  BY <1>1 DEF Modes
<1>3. \E k \in DOMAIN br : ResolveRight(k) \/ ResolveWrong(k)
  BY <1>2 DEF Resolve, ResolveRight, ResolveWrong
<1>4. Up
  <2>1. br # << >>
    BY <1>3
  <2> QED BY <2>1 DEF Modes
<1> QED BY <1>1, <1>2, <1>3, <1>4 DEF Up, Running, Down, Quiet, Kept, NowEpoch

\* What the branches say of the k-th one: the older ones stay older, it is
\* live, is not on the way to be freed, and every redirect is for a younger.
LEMMA BranchIs ==
  ASSUME IInv, Up, ~due.on, NEW k \in DOMAIN br
  PROVE  /\ br[k] \in Ckpt /\ br[k] \in Rng(live)
         /\ \A p \in Pos : br[k] \notin WayFree(p)
         /\ \A p \in Pos : Redir(p) => Older(live, br[k], WayMsg(p).ck)
         /\ \A a \in DOMAIN br : a < k <=> Older(live, br[a], br[k])
         /\ \A a \in DOMAIN br : a = k <=> br[a] = br[k]
         /\ \A i \in Uops : Fresh(i) => Older(live, br[k], UopAt(i).ck)
         /\ k \in Nat /\ k <= Kept /\ k - 1 \in Nat /\ k - 1 < Kept /\ k <= Len(br)
<1> USE DEF IInv
<1>1. live \in Seq(Ckpt) /\ Distinct(live) /\ br[k] \in Ckpt
  BY Typed DEF TypeOK, Landings
<1>2. k \in 1..Len(br) /\ Len(br) \in Nat /\ Kept = Len(br)
  BY Typed DEF Kept
<1>3. k \in Nat /\ k <= Kept /\ k - 1 \in Nat /\ k - 1 < Kept /\ k <= Len(br)
  BY <1>2
<1>4. /\ br[k] \in Rng(live)
      /\ \A p \in Pos : br[k] \notin WayFree(p)
      /\ \A p \in Pos : Redir(p) => Older(live, br[k], WayMsg(p).ck)
  BY <1>3 DEF Branches
<1>5. ASSUME NEW a \in DOMAIN br
      PROVE  /\ a < k <=> Older(live, br[a], br[k])
             /\ a = k <=> br[a] = br[k]
  <2>1. a \in 1..Len(br)
    BY Typed
  <2>2. a < k \/ a = k \/ k < a
    BY <1>2, <2>1
  <2>3. ~(a < a) /\ ~(k < k) /\ (a < k => ~(k < a) /\ a # k) /\ (k < a => a # k)
    BY <1>2, <2>1
  <2>4. /\ a < k => Older(live, br[a], br[k])
        /\ k < a => Older(live, br[k], br[a])
    BY DEF Branches
  <2> QED BY <1>1, <2>2, <2>3, <2>4, OlderIs
<1>6. \A i \in Uops : Fresh(i) => Older(live, br[k], UopAt(i).ck)
  BY DEF UopsInTurn
<1> QED BY <1>1, <1>3, <1>4, <1>5, <1>6

\* A branch resolved right leaves br for the frees of this cycle.
LEMMA RightStep ==
  ASSUME IInv, Resolve, NEW k \in DOMAIN br, ResolveRight(k)
  PROVE  IInv'
<1> USE DEF IInv
<1>1. /\ phase = "take" /\ phase' = "control" /\ ~due.on /\ freeMask = {}
      /\ UNCHANGED <<epoch, st, held, noticeSent, timer, rewindPending, toFet,
                     fetEpoch, live, fetching>>
      /\ Up /\ Up' /\ ~Dark' /\ ~Down /\ ~Down' /\ ~Quiet' /\ st' # "free"
      /\ Kept = Len(br) /\ NowEpoch = epoch
  BY ResolveIs, SameModes DEF ResolveRight, Up, Dark, Running, Down
<1>2. PICK c, n : c = br[k] /\ n = Len(br)
  OBVIOUS
<1>3. /\ c \in Ckpt /\ c \in Rng(live)
      /\ \A p \in Pos : c \notin WayFree(p)
      /\ \A p \in Pos : Redir(p) => Older(live, c, WayMsg(p).ck)
      /\ \A a \in DOMAIN br : a = k <=> br[a] = c
      /\ \A i \in Uops : Fresh(i) => Older(live, c, UopAt(i).ck)
  BY <1>1, <1>2, BranchIs
<1>4. /\ freeMask' = {c} /\ UNCHANGED <<due, queue, decq, pipe>>
      /\ br' = SubSeq(br, 1, k - 1) \o SubSeq(br, k + 1, n)
  BY <1>1, <1>2 DEF ResolveRight
<1>5. br \in Seq(Ckpt) /\ n \in Nat /\ DOMAIN br = 1..n /\ n <= Cardinality(Ckpt)
  BY <1>2, Typed DEF TypeOK
<1>6. /\ br' \in Seq(Ckpt) /\ Len(br') = n - 1 /\ DOMAIN br' = 1..n - 1
      /\ \A i \in 1..n - 1 : br'[i] = br[IF i < k THEN i ELSE i + 1]
  BY <1>2, <1>4, <1>5, CutIs
<1> DEFINE g == [i \in 1..n - 1 |-> IF i < k THEN i ELSE i + 1]
<1>7. /\ \A i \in DOMAIN br' : g[i] \in DOMAIN br /\ br'[i] = br[g[i]] /\ g[i] # k
      /\ \A i, j \in DOMAIN br' : i < j => g[i] < g[j]
      /\ \A a \in DOMAIN br : a # k => \E i \in DOMAIN br' : g[i] = a
  <2>1. \A i \in DOMAIN br' : g[i] \in DOMAIN br /\ br'[i] = br[g[i]] /\ g[i] # k
    BY <1>5, <1>6
  <2>2. \A i, j \in DOMAIN br' : i < j => g[i] < g[j]
    BY <1>5, <1>6
  <2>3. ASSUME NEW a \in DOMAIN br, a # k PROVE \E i \in DOMAIN br' : g[i] = a
    <3>1. CASE a < k
      BY <1>5, <1>6, <2>3, <3>1
    <3>2. CASE ~(a < k)
      <4>1. a - 1 \in 1..n - 1 /\ ~(a - 1 < k) /\ a - 1 + 1 = a
        BY <1>5, <2>3, <3>2
      <4> QED BY <1>6, <4>1
    <3> QED BY <3>1, <3>2
  <2> QED BY <2>1, <2>2, <2>3
<1> HIDE DEF g
<1>8. Kept' = n - 1 /\ Kept = n /\ NowEpoch' = NowEpoch
      /\ \A i \in DOMAIN br' : i <= Kept'
  <2>1. ~due'.on
    BY <1>1, <1>4
  <2>2. Kept' = n - 1
    BY <1>6, <2>1 DEF Kept
  <2>3. Kept = n
    BY <1>1, <1>2
  <2>4. NowEpoch' = NowEpoch
    BY <1>1, <2>1 DEF NowEpoch
  <2>5. \A i \in DOMAIN br' : i <= n - 1
    BY <1>5, <1>6
  <2> QED BY <2>2, <2>3, <2>4, <2>5
<1>9. \A e \in Epoch : Behind(e) => Behind(e)'
  <2>1. n - 1 \in Nat /\ n - 1 <= n
    BY <1>5
  <2> QED BY <1>8, <2>1, StillBehind
<1>10. /\ \A p : WayMsg(p)' = WayMsg(p) /\ Redir(p)' = Redir(p)
       /\ \A p \in Chan : WayFree(p)' = WayFree(p)
       /\ WayFree(Lat) = {} /\ WayFree(Lat)' = {c}
       /\ \A i : UopAt(i)' = UopAt(i) /\ Fresh(i)' = Fresh(i)
       /\ Uops' = Uops /\ Outstanding' = Outstanding
  BY <1>1, <1>4, Places DEF WayMsg, Redir, WayFree, UopAt, Fresh, Uops, Outstanding, InChannel
<1>a. \A p \in Pos : p <= Lat /\ (p \in Chan \/ p = Lat) /\ (p \in Chan => p # Lat)
  BY Places
<1>b. \A p \in Pos : \A e : e \in WayFree(p)' => e \in WayFree(p) \/ (e = c /\ p = Lat)
  BY <1>10, <1>a
<1>11. TypeOK'
  <2>1. Len(br') <= Cardinality(Ckpt)
    <3>1. n - 1 <= n
      BY <1>5
    <3> QED BY <1>5, <1>6, Wide
  <2> QED BY <1>1, <1>3, <1>4, <1>6, <2>1 DEF TypeOK
<1>12. Modes' /\ DownQueue'
  BY <1>1, <1>4, <1>10 DEF Modes, DownQueue
<1>13. Landings'
  <2>1. ASSUME NEW p \in Pos, Redir(p)
        PROVE  /\ WayMsg(p).ck \in Rng(live)
               /\ \A q \in Pos : p < q /\ Redir(q) => Older(live, WayMsg(q).ck, WayMsg(p).ck)
    BY <2>1 DEF Landings
  <2>2. ASSUME NEW p \in Pos, NEW e \in WayFree(p)'
        PROVE  /\ e \in Rng(live)
               /\ \A q \in Pos : Redir(q) => IF q <= p THEN Older(live, e, WayMsg(q).ck)
                                                       ELSE e # WayMsg(q).ck
               /\ \A q \in Pos : q # p => e \notin WayFree(q)'
    <3>1. CASE e \in WayFree(p)
      <4>1. /\ e \in Rng(live)
            /\ \A q \in Pos : Redir(q) => IF q <= p THEN Older(live, e, WayMsg(q).ck)
                                                    ELSE e # WayMsg(q).ck
            /\ \A q \in Pos : q # p => e \notin WayFree(q)
        BY <3>1 DEF Landings
      <4>2. e # c
        BY <1>3, <3>1
      <4> QED BY <1>b, <4>1, <4>2
    <3>2. CASE e = c /\ p = Lat
      BY <1>3, <1>a, <1>b, <3>2
    <3> QED BY <1>b, <2>2, <3>1, <3>2
  <2>3. \A p \in Pos : WayMsg(p).type # "notice"
    BY <1>1 DEF Modes
  <2>4. Distinct(live)
    BY DEF Landings
  <2> QED BY <1>1, <1>10, <2>1, <2>2, <2>3, <2>4 DEF Landings
<1>14. EpochsGiven'
  <2>1. \A p : Later(p)' = Later(p) /\ Given(p)' = Given(p) /\ Gives(p)' = Gives(p)
    BY <1>1, <1>4 DEF Later, Given, Gives
  <2>2. \A p \in 0..Lat - 1 : Given(p) \in Epoch
    <3>1. \A p \in 0..Lat - 1 : p = 0 \/ p \in Chan
      BY Places DEF Chan
    <3> QED BY <3>1, Typed DEF Given, TypeOK, Msg
  <2>3. ASSUME NEW p \in 0..Lat - 1, Gives(p)
        PROVE  IF Later(p) THEN Behind(Given(p))' ELSE Given(p) = NowEpoch
    <3>1. PICK e : e = Given(p)
      OBVIOUS
    <3>2. Later(p) => Behind(e)'
      BY <1>1, <1>9, <2>2, <2>3, <3>1 DEF EpochsGiven
    <3>3. Given(p)' = e
      BY <2>1, <3>1
    <3>4. ~Later(p) => Given(p) = NowEpoch
      BY <2>3 DEF EpochsGiven
    <3> QED BY <3>2, <3>3, <3>4
  <2> QED BY <1>1, <1>4, <1>8, <2>1, <2>3 DEF EpochsGiven
<1>15. Branches'
  <2>1. ASSUME NEW b \in DOMAIN br'
        PROVE  /\ br'[b] \in Rng(live)
               /\ \A a \in DOMAIN br' : a < b => Older(live, br'[a], br'[b])
               /\ \A p \in Pos : br'[b] \notin WayFree(p)'
               /\ \A p \in Pos : Redir(p) => Older(live, br'[b], WayMsg(p).ck)
    <3>1. PICK m \in DOMAIN br : m = g[b] /\ br'[b] = br[m] /\ m # k
      BY <1>7
    <3>2. /\ br[m] \in Rng(live)
          /\ \A a \in DOMAIN br : a < m => Older(live, br[a], br[m])
          /\ \A p \in Pos : br[m] \notin WayFree(p)
          /\ \A p \in Pos : Redir(p) => Older(live, br[m], WayMsg(p).ck)
      <4>1. m <= Kept
        BY <1>5, <1>8
      <4> QED BY <1>1, <4>1 DEF Branches
    <3>3. br[m] # c
      BY <1>3, <3>1
    <3>4. \A a \in DOMAIN br' : a < b => Older(live, br'[a], br'[b])
      BY <1>7, <3>1, <3>2
    <3> QED BY <1>b, <3>1, <3>2, <3>3, <3>4
  <2> QED BY <1>1, <1>10, <2>1 DEF Branches
<1>16. UopsInTurn'
  <2>1. ASSUME NEW i \in Uops
        PROVE  /\ \A j \in Uops : i < j /\ UopAt(j).stale => UopAt(i).stale
               /\ UopAt(i).stale => Behind(UopAt(i).ep)'
               /\ ~UopAt(i).stale => UopAt(i).ep = epoch /\ Outstanding = {}
    <3>1. PICK e : e = UopAt(i).ep
      OBVIOUS
    <3>2. e \in Epoch
      BY <3>1, Typed DEF Uop
    <3>3. UopAt(i).stale => Behind(e)'
      BY <1>1, <1>9, <3>1, <3>2 DEF UopsInTurn
    <3>4. UopAt(i)'.ep = e
      BY <1>10, <3>1
    <3> QED BY <1>1, <3>3, <3>4 DEF UopsInTurn
  <2>2. ASSUME NEW i \in Uops, Fresh(i)
        PROVE  /\ UopAt(i).ck \in Rng(live)
               /\ \A j \in Uops : i < j /\ Fresh(j) => Older(live, UopAt(i).ck, UopAt(j).ck)
               /\ \A b \in DOMAIN br' : Older(live, br'[b], UopAt(i).ck)
               /\ \A p \in Pos : UopAt(i).ck \notin WayFree(p)'
    <3>1. /\ UopAt(i).ck \in Rng(live)
          /\ \A j \in Uops : i < j /\ Fresh(j) => Older(live, UopAt(i).ck, UopAt(j).ck)
          /\ \A b \in DOMAIN br : Older(live, br[b], UopAt(i).ck)
          /\ \A p \in Pos : UopAt(i).ck \notin WayFree(p)
      BY <1>1, <2>2 DEF UopsInTurn
    <3>2. UopAt(i).ck # c
      <4>1. live \in Seq(Ckpt) /\ Distinct(live)
        BY DEF TypeOK, Landings
      <4> QED BY <1>3, <2>2, <4>1, OlderIs
    <3>3. \A b \in DOMAIN br' : Older(live, br'[b], UopAt(i).ck)
      BY <1>7, <3>1
    <3> QED BY <1>b, <3>1, <3>2, <3>3
  <2> QED BY <1>1, <1>10, <2>1, <2>2 DEF UopsInTurn
<1>17. Mirrored'
  <2> SUFFICES ASSUME NEW e \in Rng(live), Survives(e) PROVE Owned(e)'
    BY <1>1, <1>10 DEF Mirrored, Survives
  <2>1. Owned(e)
    BY <1>1 DEF Mirrored
  <2>2. CASE e = c
    BY <1>10, <2>2, Places DEF Owned
  <2>3. CASE e # c /\ \E b \in DOMAIN br : br[b] = e
    <3>1. PICK b \in DOMAIN br : br[b] = e /\ b # k
      BY <1>3, <2>3
    <3>2. PICK i \in DOMAIN br' : br'[i] = e
      BY <1>7, <3>1
    <3> QED BY <1>8, <3>2 DEF Owned
  <2>4. CASE \E i \in Uops : ~UopAt(i).stale /\ UopAt(i).ck = e
    BY <1>10, <2>4 DEF Owned
  <2>5. CASE \E p \in Pos : e \in WayFree(p)
    <3>1. PICK p \in Pos : e \in WayFree(p)
      BY <2>5
    <3>2. e \in WayFree(p)'
      BY <1>10, <1>a, <3>1
    <3> QED BY <3>2 DEF Owned
  <2> QED BY <2>1, <2>2, <2>3, <2>4, <2>5 DEF Owned
<1> QED BY <1>1, <1>11, <1>12, <1>13, <1>14, <1>15, <1>16, <1>17 DEF Outdated

\* The redirect of a wrong branch is alone in the queue.
LEMMA WrongQueue ==
  ASSUME IInv, Resolve, NEW k \in DOMAIN br, ResolveWrong(k)
  PROVE  /\ queue' \in Seq(Msg) /\ Len(queue') = 1 /\ DOMAIN queue' = {1}
         /\ queue'[1].type = "redirect" /\ queue'[1].ep = NextEpoch(epoch)
         /\ queue'[1].ck = br[k]
         /\ queue' # << >> /\ WayMsg(Lat)' = queue'[1]
<1> USE DEF IInv
<1> DEFINE m == [NoMsg EXCEPT !.type = "redirect", !.ep = NextEpoch(epoch), !.ck = br[k]]
           w == Without(queue, Redirects)
<1>1. Up /\ br[k] \in Ckpt
  BY ResolveIs, Typed
<1>2. /\ queue \in Seq(Msg) /\ Len(queue) <= 1 /\ Len(queue) \in Nat
      /\ DOMAIN queue = 1..Len(queue)
  BY <1>1, Typed DEF TypeOK, Modes
<1>3. \A i \in DOMAIN queue : i = 1
  BY <1>2
<1>4. Distinct(queue)
  BY <1>3 DEF Distinct
<1>5. \A i \in DOMAIN queue : queue[i].type = "redirect"
  <2>1. 1 \in DOMAIN queue => queue # << >>
    OBVIOUS
  <2> QED BY <1>1, <1>3, <2>1, Typed, Places DEF Modes, Redir, WayMsg
<1>6. Rng(queue) \subseteq Redirects
  BY <1>5 DEF Redirects, Rng
<1>7. w \in Seq(Msg) /\ \A e : e \notin Rng(w)
  <2>1. w \in Seq(Msg) /\ \A e : e \in Rng(w) <=> e \in Rng(queue) /\ e \notin Redirects
    BY ONLY <1>2, <1>4, WithoutIs, Zenon
  <2> QED BY <1>6, <2>1
<1>m. queue' \in Queued(w, m)
  BY DEF ResolveWrong
<1> HIDE DEF w
<1>8. w = << >>
  <2> SUFFICES ASSUME w # << >> PROVE FALSE
    OBVIOUS
  <2>1. 1 \in DOMAIN w
    BY <1>7, TailIs
  <2> QED BY <1>7, <2>1 DEF Rng
<1>9. /\ m \in Msg /\ m.type = "redirect" /\ m.ep = NextEpoch(epoch) /\ m.ck = br[k]
  <2>1. NextEpoch(epoch) \in Epoch
    BY NextEpochIs DEF TypeOK
  <2>2. 0 \in 0..MaxAhead
    BY EpochAssumption
  <2>3. NoMsg \in Msg
    BY <2>2, EpochAssumption, Wide DEF NoMsg, Msg, Epoch
  <2> QED BY <1>1, <2>1, <2>3 DEF Msg
<1> HIDE DEF m
<1>10. Joined(queue', w, m)
  BY <1>7, <1>9, <1>m, QueuedIs
<1>11. Len(w) = 0
  BY <1>8
<1>12. Len(w) + 1 = 1 /\ 1..Len(w) + 1 = {1}
  BY <1>11
<1>13. /\ queue' \in Seq(Msg) /\ Len(queue') = 1 /\ DOMAIN queue' = {1}
       /\ queue'[1].type = "redirect" /\ queue'[1].ep = NextEpoch(epoch)
       /\ queue'[1].ck = br[k]
  BY <1>9, <1>10, <1>12 DEF Joined
<1>14. queue' # << >> /\ Head(queue') = queue'[1]
  <2>1. PICK q : q = queue'
    OBVIOUS
  <2>2. q \in Seq(Msg) /\ 1 \in DOMAIN q
    BY <1>13, <2>1
  <2>3. q # << >> /\ Head(q) = q[1]
    BY <2>2
  <2> QED BY <2>1, <2>3
<1> QED BY <1>13, <1>14, Places DEF WayMsg

\* A branch resolved wrong: its redirect frees it and every younger one, and
\* all that is on its way to OOE is of the path it ends.
LEMMA WrongUp ==
  ASSUME IInv, Resolve, NEW k \in DOMAIN br, ResolveWrong(k)
  PROVE  Up' /\ ~Dark'
<1>1. Up /\ UNCHANGED <<st, fetching, toFet>>
  BY ResolveIs
<1>2. \A i \in DOMAIN queue' : queue'[i].type # "notice"
  BY WrongQueue
<1> QED BY <1>1, <1>2 DEF Up, Dark, Running, NoNotice

LEMMA WrongStep ==
  ASSUME IInv, Resolve, NEW k \in DOMAIN br, ResolveWrong(k)
  PROVE  IInv'
<1> USE DEF IInv
<1>1. /\ phase = "take" /\ phase' = "control" /\ ~due.on /\ freeMask = {}
      /\ UNCHANGED <<epoch, st, held, noticeSent, timer, rewindPending, toFet,
                     fetEpoch, live, fetching>>
      /\ Up /\ Up' /\ ~Dark' /\ ~Down' /\ ~Quiet' /\ st' # "free"
      /\ Kept = Len(br) /\ NowEpoch = epoch
  BY ResolveIs, WrongUp
<1>2. PICK c, n : c = br[k] /\ n = Len(br)
  OBVIOUS
<1>3. /\ c \in Ckpt /\ c \in Rng(live)
      /\ \A p \in Pos : c \notin WayFree(p)
      /\ \A p \in Pos : Redir(p) => Older(live, c, WayMsg(p).ck)
      /\ \A a \in DOMAIN br : a < k <=> Older(live, br[a], c)
      /\ \A i \in Uops : Fresh(i) => Older(live, c, UopAt(i).ck)
      /\ k \in Nat /\ k - 1 \in Nat /\ k - 1 < Kept /\ k <= n
  BY <1>1, <1>2, BranchIs
<1>4. /\ freeMask' = freeMask /\ decq' = Stale(decq) /\ pipe' = Stale(pipe)
      /\ due' = [on |-> TRUE, keep |-> k - 1]
      /\ br' = SubSeq(br, 1, k - 1)
  BY DEF ResolveWrong
<1>5. /\ queue' \in Seq(Msg) /\ Len(queue') = 1 /\ DOMAIN queue' = {1}
      /\ queue'[1].type = "redirect" /\ queue'[1].ep = NextEpoch(epoch)
      /\ queue'[1].ck = c /\ queue' # << >> /\ WayMsg(Lat)' = queue'[1]
  BY <1>2, WrongQueue
<1>6. br \in Seq(Ckpt) /\ n \in Nat /\ DOMAIN br = 1..n /\ n <= Cardinality(Ckpt)
  BY <1>2, Typed DEF TypeOK
<1>7. /\ br' \in Seq(Ckpt) /\ Len(br') = k - 1 /\ DOMAIN br' = 1..k - 1
      /\ \A i \in 1..k - 1 : br'[i] = br[i] /\ i \in DOMAIN br
  <2>1. PICK m : m = k - 1
    OBVIOUS
  <2>2. m \in 0..Len(br)
    BY <1>2, <1>3, <1>6, <2>1
  <2>3. /\ SubSeq(br, 1, m) \in Seq(Ckpt) /\ Len(SubSeq(br, 1, m)) = m
        /\ DOMAIN SubSeq(br, 1, m) = 1..m
        /\ \A i \in 1..m : SubSeq(br, 1, m)[i] = br[i] /\ i \in DOMAIN br
    BY ONLY <1>6, <2>2, PrefixIs, Zenon
  <2> QED BY <1>4, <2>1, <2>3, Zenon
<1>8. /\ Kept' = k - 1 /\ NowEpoch' = NextEpoch(NowEpoch) /\ due'.on
      /\ NowEpoch' # NowEpoch
  <2>1. due'.on /\ due'.keep = k - 1
    BY <1>4
  <2>2. Kept' = k - 1 /\ NowEpoch' = NextEpoch(epoch)
    BY <1>1, <2>1 DEF Kept, NowEpoch
  <2>3. epoch \in Epoch
    BY DEF TypeOK
  <2> QED BY <1>1, <2>1, <2>2, <2>3, NextEpochIs
<1>9. \A e \in Epoch : Behind(e) \/ e = epoch => Behind(e)'
  BY <1>1, <1>3, <1>8, StillBehind
<1>10. /\ \A p \in Chan : WayMsg(p)' = WayMsg(p) /\ Redir(p)' = Redir(p)
       /\ \A p : WayFree(p)' = WayFree(p)
       /\ WayFree(Lat) = {} /\ Redir(Lat)' /\ WayMsg(Lat)'.ck = c
  BY <1>1, <1>4, <1>5, Places DEF WayMsg, Redir, WayFree
<1>a. \A p \in Pos : p <= Lat /\ (p \in Chan \/ p = Lat) /\ (p \in Chan => p # Lat /\ ~(Lat < p))
  BY Places
<1>11. TypeOK'
  <2>1. Stale(decq) \in Seq(Uop) /\ Len(decq') <= MaxDecq
    BY <1>4, StaleIs DEF TypeOK
  <2>2. Stale(pipe) \in Seq(Uop) /\ Len(pipe') <= MaxPipe
    BY <1>4, StaleIs DEF TypeOK
  <2>3. k - 1 <= Cardinality(Ckpt) /\ k - 1 \in 0..Cardinality(Ckpt)
    BY <1>3, <1>6, Wide
  <2>4. due' \in [on : BOOLEAN, keep : 0 .. Cardinality(Ckpt)] /\ due'.keep = k - 1
    BY <1>4, <2>3
  <2>5. due'.keep <= Len(br') /\ Len(br') <= Cardinality(Ckpt)
    <3>1. k - 1 <= k - 1
      BY <1>3
    <3> QED BY <1>7, <2>3, <2>4, <3>1
  <2> QED BY <1>1, <1>4, <1>5, <1>7, <2>1, <2>2, <2>4, <2>5 DEF TypeOK
<1>12. Modes' /\ DownQueue'
  <2>1. \A p \in Pos : WayMsg(p)'.type \in {"none", "redirect"}
    <3>1. \A p \in Pos : WayMsg(p).type \in {"none", "redirect"}
      BY <1>1 DEF Modes
    <3> QED BY <1>5, <1>10, <1>a, <3>1
  <2>2. rewindPending = 0 /\ queue' # << >> /\ Len(queue') <= 1
    <3>1. PICK L : L = Len(queue')
      OBVIOUS
    <3>2. L <= 1
      BY <1>5, <3>1
    <3>3. ~Down
      BY <1>1 DEF Up, Running, Down
    <3> QED BY <1>1, <1>5, <3>1, <3>2, <3>3 DEF Modes
  <2>3. phase' # "take"
    BY <1>1
  <2>4. Modes'
    BY <1>1, <1>10, <2>1, <2>2, <2>3 DEF Modes
  <2> QED BY <1>1, <2>4 DEF DownQueue
<1>13. Landings'
  <2>1. ASSUME NEW p \in Pos, Redir(p)'
        PROVE  /\ WayMsg(p)'.ck \in Rng(live)
               /\ \A q \in Pos : p < q /\ Redir(q)' => Older(live, WayMsg(q)'.ck, WayMsg(p)'.ck)
    <3>1. CASE p = Lat
      <4>1. ~(Lat < Lat) /\ \A q \in Pos : ~(Lat < q)
        BY Places
      <4> QED BY <1>3, <1>10, <3>1, <4>1
    <3>2. CASE p \in Chan
      <4>1. /\ Redir(p) /\ WayMsg(p)' = WayMsg(p) /\ WayMsg(p).ck \in Rng(live)
            /\ \A q \in Pos : p < q /\ Redir(q) => Older(live, WayMsg(q).ck, WayMsg(p).ck)
        BY <1>10, <2>1, <3>2 DEF Landings
      <4>2. Older(live, c, WayMsg(p).ck)
        BY <1>3, <4>1
      <4> QED BY <1>10, <1>a, <4>1, <4>2
    <3> QED BY <1>a, <3>1, <3>2
  <2>2. ASSUME NEW p \in Pos, NEW e \in WayFree(p)
        PROVE  /\ e \in Rng(live)
               /\ \A q \in Pos : Redir(q)' => IF q <= p THEN Older(live, e, WayMsg(q)'.ck)
                                                        ELSE e # WayMsg(q)'.ck
               /\ \A q \in Pos : q # p => e \notin WayFree(q)
    <3>1. /\ e \in Rng(live)
          /\ \A q \in Pos : Redir(q) => IF q <= p THEN Older(live, e, WayMsg(q).ck)
                                                  ELSE e # WayMsg(q).ck
          /\ \A q \in Pos : q # p => e \notin WayFree(q)
      BY DEF Landings
    <3>2. p \in Chan /\ ~(Lat <= p) /\ e # c
      BY <1>3, <1>10, <1>a, <2>2, Places
    <3> QED BY <1>10, <1>a, <3>1, <3>2
  <2>3. \A p \in Pos : WayMsg(p)'.type # "notice"
    BY <1>1, <1>12 DEF Modes
  <2>4. Distinct(live)
    BY DEF Landings
  <2> QED BY <1>1, <1>10, <2>1, <2>2, <2>3, <2>4 DEF Landings
<1>14. EpochsGiven'
  <2>1. \A p : Given(p)' = Given(p) /\ Gives(p)' = Gives(p)
    BY <1>1 DEF Given, Gives
  <2>2. \A p \in 0..Lat - 1 : Given(p) \in Epoch
    <3>1. \A p \in 0..Lat - 1 : p = 0 \/ p \in Chan
      BY Places DEF Chan
    <3> QED BY <3>1, Typed DEF Given, TypeOK, Msg
  <2>3. ASSUME NEW p \in 0..Lat - 1, Gives(p) PROVE Behind(Given(p))'
    <3>1. PICK e : e = Given(p)
      OBVIOUS
    <3>2. Behind(e) \/ e = epoch
      BY <1>1, <2>3, <3>1 DEF EpochsGiven
    <3>3. Behind(e)'
      BY <1>9, <2>2, <3>1, <3>2
    <3>4. Given(p)' = e
      BY <2>1, <3>1
    <3> QED BY <3>3, <3>4
  <2>4. \A p : Later(p)'
    BY <1>5 DEF Later, Sig
  <2>5. queue'[1].ep = NowEpoch'
    BY <1>1, <1>5, <1>8
  <2> QED BY <1>5, <2>1, <2>3, <2>4, <2>5 DEF EpochsGiven
<1>15. Branches'
  <2>1. ASSUME NEW b \in DOMAIN br'
        PROVE  /\ br'[b] \in Rng(live)
               /\ \A a \in DOMAIN br' : a < b => Older(live, br'[a], br'[b])
               /\ \A p \in Pos : br'[b] \notin WayFree(p)
               /\ \A p \in Pos : Redir(p)' => Older(live, br'[b], WayMsg(p)'.ck)
    <3>1. b \in DOMAIN br /\ br'[b] = br[b] /\ b < k /\ b <= Kept
      BY <1>1, <1>2, <1>3, <1>6, <1>7
    <3>2. /\ br[b] \in Rng(live)
          /\ \A a \in DOMAIN br : a < b => Older(live, br[a], br[b])
          /\ \A p \in Pos : br[b] \notin WayFree(p)
          /\ \A p \in Pos : Redir(p) => Older(live, br[b], WayMsg(p).ck)
      BY <1>1, <3>1 DEF Branches
    <3>3. Older(live, br[b], c)
      BY <1>3, <3>1
    <3> QED BY <1>7, <1>10, <1>a, <3>1, <3>2, <3>3
  <2> QED BY <1>1, <1>10, <2>1 DEF Branches
<1>16. /\ Uops' = Uops
       /\ \A i \in Uops : /\ UopAt(i)'.ep = UopAt(i).ep /\ UopAt(i)'.ck = UopAt(i).ck
                          /\ UopAt(i)'.stale
  <2>1. /\ Len(decq') = Len(decq)
        /\ \A i \in DOMAIN decq : /\ decq'[i].ep = decq[i].ep /\ decq'[i].ck = decq[i].ck
                                  /\ decq'[i].stale
    BY <1>4, StaleIs DEF TypeOK
  <2>2. /\ Len(pipe') = Len(pipe)
        /\ \A i \in DOMAIN pipe : /\ pipe'[i].ep = pipe[i].ep /\ pipe'[i].ck = pipe[i].ck
                                  /\ pipe'[i].stale
    BY <1>4, StaleIs DEF TypeOK
  <2>3. PICK D, P : D = Len(decq) /\ P = Len(pipe)
    OBVIOUS
  <2>4. D \in Nat /\ P \in Nat /\ DOMAIN decq = 1..D /\ DOMAIN pipe = 1..P
    BY <2>3, Typed DEF TypeOK
  <2>5. Uops' = Uops /\ Uops = 1..D + P
    BY <2>1, <2>2, <2>3 DEF Uops
  <2>6. ASSUME NEW i \in 1..D + P
        PROVE  /\ UopAt(i)'.ep = UopAt(i).ep /\ UopAt(i)'.ck = UopAt(i).ck
               /\ UopAt(i)'.stale
    <3>1. CASE i <= D
      <4>1. i \in 1..D
        BY <2>4, <3>1
      <4> QED BY <2>1, <2>3, <2>4, <3>1, <4>1 DEF UopAt
    <3>2. CASE ~(i <= D)
      <4>1. i - D \in 1..P
        BY <2>4, <3>2
      <4> QED BY <2>1, <2>2, <2>3, <2>4, <3>2, <4>1 DEF UopAt
    <3> QED BY <3>1, <3>2
  <2> QED BY <2>5, <2>6
<1>17. UopsInTurn'
  <2>1. ASSUME NEW i \in Uops PROVE Behind(UopAt(i).ep)'
    <3>1. PICK e : e = UopAt(i).ep
      OBVIOUS
    <3>2. e \in Epoch
      BY <3>1, Typed DEF Uop
    <3>3. Behind(e) \/ e = epoch
      BY <1>1, <3>1 DEF UopsInTurn
    <3>4. Behind(e)' /\ UopAt(i)'.ep = e
      BY <1>9, <1>16, <3>1, <3>2, <3>3
    <3> QED BY <3>4
  <2>2. \A i \in Uops : Fresh(i)' <=> Fresh(i)
    BY <1>1, <1>16 DEF Fresh
  <2>3. ASSUME NEW i \in Uops, Fresh(i)
        PROVE  /\ UopAt(i).ck \in Rng(live)
               /\ \A j \in Uops : i < j /\ Fresh(j) => Older(live, UopAt(i).ck, UopAt(j).ck)
               /\ \A b \in DOMAIN br' : Older(live, br'[b], UopAt(i).ck)
               /\ \A p \in Pos : UopAt(i).ck \notin WayFree(p)
    BY <1>1, <1>7, <2>3 DEF UopsInTurn
  <2> QED BY <1>1, <1>10, <1>16, <2>1, <2>2, <2>3 DEF UopsInTurn
<1>18. Mirrored'
  <2> SUFFICES ASSUME NEW e \in Rng(live), Survives(e)' PROVE Owned(e)'
    BY <1>1 DEF Mirrored
  <2>0. live \in Seq(Ckpt) /\ Distinct(live)
    BY DEF TypeOK, Landings
  <2>1. Older(live, e, c) /\ \A p \in Chan : Redir(p) => Older(live, e, WayMsg(p).ck)
    BY <1>1, <1>10, Places DEF Survives
  <2>2. Redir(Lat) => Older(live, e, WayMsg(Lat).ck)
    BY <1>3, <2>0, <2>1, OlderIs, Places
  <2>3. Owned(e)
    BY <1>1, <1>a, <2>1, <2>2 DEF Survives, Mirrored
  <2>4. CASE \E b \in DOMAIN br : br[b] = e
    <3>1. PICK b \in DOMAIN br : br[b] = e
      BY <2>4
    <3>2. b < k
      BY <1>3, <2>1, <3>1
    <3>3. b \in DOMAIN br' /\ b <= Kept' /\ br'[b] = e
      BY <1>3, <1>6, <1>7, <1>8, <3>1, <3>2
    <3> QED BY <3>3 DEF Owned
  <2>5. ASSUME NEW i \in Uops, ~UopAt(i).stale, UopAt(i).ck = e PROVE FALSE
    <3>1. e # None
      BY EpochAssumption, <2>0, OlderIs
    <3>2. Fresh(i)
      BY <1>1, <2>5, <3>1 DEF UopsInTurn, Fresh
    <3> QED BY <1>3, <2>0, <2>1, <2>5, <3>2, OlderIs
  <2>6. CASE \E p \in Pos : e \in WayFree(p)
    BY <1>10, <2>6 DEF Owned
  <2> QED BY <2>3, <2>4, <2>5, <2>6 DEF Owned
<1> QED BY <1>1, <1>11, <1>12, <1>13, <1>14, <1>15, <1>17, <1>18 DEF Outdated

LEMMA ResolveStep ==
  ASSUME IInv, Resolve
  PROVE  IInv'
<1>1. PICK k \in DOMAIN br : ResolveRight(k) \/ ResolveWrong(k)
  BY ResolveIs
<1> QED BY <1>1, RightStep, WrongStep

----------------------------------------------------------------------------
(* The edge.                                                               *)

\* The channel moves by one, and the queue's oldest message is sent, waits
\* for one message of another warp's less, or is none.
Moved ==
  /\ toFet' \in Seq([msg : Msg, free : SUBSET Ckpt]) /\ Len(toFet') = Lat - 1
  /\ Head(Line) = toFet[1]
  /\ \A p \in Chan : p + 1 \in Chan => toFet'[p] = toFet[p + 1]
  /\ toFet'[Lat - 1].free = freeMask
  /\ toFet'[Lat - 1].msg = Bundle.msg
Waits ==
  /\ queue # << >> /\ ~Sends /\ Bundle.msg = NoMsg
  /\ queue' \in Seq(Msg) /\ DOMAIN queue' = DOMAIN queue /\ Len(queue') = Len(queue)
  /\ \A i \in DOMAIN queue : i # 1 => queue'[i] = queue[i]
  /\ queue'[1].type = queue[1].type /\ queue'[1].ck = queue[1].ck
  /\ queue'[1].ep = queue[1].ep /\ queue'[1].ahead < queue[1].ahead
  /\ Head(queue') = queue'[1]
Sent ==
  /\ queue # << >> /\ Sends /\ Bundle.msg = queue[1]
  /\ queue' \in Seq(Msg) /\ Len(queue') = Len(queue) - 1
  /\ DOMAIN queue' = 1..Len(queue) - 1
  /\ \A i \in 1..Len(queue) - 1 : queue'[i] = queue[i + 1]
  /\ queue' # << >> => Head(queue') = queue[2] /\ Head(queue') \in Msg
Idle == queue = << >> /\ queue' = << >> /\ ~Sends /\ Bundle.msg = NoMsg

LEMMA MovedIs ==
  ASSUME TypeOK, SendRedirect
  PROVE  Moved
<1> DEFINE R == [msg : Msg, free : SUBSET Ckpt]
<1>1. toFet \in Seq(R) /\ Len(toFet) = Lat - 1 /\ freeMask \in SUBSET Ckpt
  BY DEF TypeOK
<1>2. Bundle \in R /\ Bundle.free = freeMask
  <2>1. NoMsg \in Msg
    BY Wide, EpochAssumption DEF NoMsg, Msg, Epoch
  <2>2. queue # << >> => Head(queue) \in Msg
    BY Typed
  <2> QED BY <1>1, <2>1, <2>2 DEF Bundle, Sends
<1> HIDE DEF R
<1>3. PICK n : n = Lat - 1
  OBVIOUS
<1>4. n \in Nat /\ n >= 1 /\ Chan = 1..n
  BY <1>3, EpochAssumption DEF Chan
<1>5. /\ Line \in Seq(R) /\ Len(Line) = n + 1 /\ Line[n + 1] = Bundle
      /\ \A i \in 1..n : Line[i] = toFet[i]
  BY <1>1, <1>2, <1>3, AppendProperties DEF Line
<1>6. Line # << >>
  <2>1. Len(Line) # 0
    BY <1>4, <1>5
  <2> QED BY <2>1
<1>7. toFet' = Tail(Line)
  BY DEF SendRedirect
<1>8. /\ Tail(Line) \in Seq(R) /\ Len(Tail(Line)) = Len(Line) - 1
      /\ \A i \in 1..Len(Line) - 1 : Tail(Line)[i] = Line[i + 1]
      /\ Head(Line) = Line[1]
  BY ONLY <1>5, <1>6, TailIs
<1>9. Len(toFet') = n /\ \A i \in 1..n : toFet'[i] = Line[i + 1]
  <2>1. Len(Line) - 1 = n
    BY <1>4, <1>5
  <2> QED BY <1>7, <1>8, <2>1
<1>10. Head(Line) = toFet[1]
  BY <1>4, <1>5, <1>8
<1>11. ASSUME NEW p \in Chan, p + 1 \in Chan PROVE toFet'[p] = toFet[p + 1]
  BY <1>4, <1>5, <1>9, <1>11
<1>12. toFet'[n] = Bundle
  BY <1>4, <1>5, <1>9
<1> QED BY <1>2, <1>3, <1>7, <1>8, <1>9, <1>10, <1>11, <1>12 DEF Moved, R

LEMMA SentIs ==
  ASSUME TypeOK, SendRedirect
  PROVE  Idle \/ Waits \/ Sent
<1>1. queue' = IF Sends THEN Tail(queue)
               ELSE IF queue = << >> THEN queue
               ELSE [queue EXCEPT ![1].ahead = @ - 1]
  BY DEF SendRedirect
<1>2. queue \in Seq(Msg)
  BY DEF TypeOK
<1>3. CASE queue = << >>
  BY <1>1, <1>3 DEF Idle, Sends, Bundle
<1>4. CASE queue # << >> /\ ~Sends
  <2>1. /\ queue' = [queue EXCEPT ![1].ahead = @ - 1] /\ Bundle.msg = NoMsg
        /\ Head(queue) = queue[1] /\ 1 \in DOMAIN queue /\ queue[1] \in Msg
        /\ Len(queue) \in Nat /\ DOMAIN queue = 1..Len(queue)
    BY <1>1, <1>4, Typed DEF Bundle
  <2> DEFINE m == [queue[1] EXCEPT !.ahead = @ - 1]
  <2>2. queue[1].ahead \in 0..MaxAhead /\ queue[1].ahead # 0 /\ MaxAhead \in Nat
    BY <1>4, <2>1, EpochAssumption DEF Sends, Msg
  <2>3. queue[1].ahead - 1 \in 0..MaxAhead /\ queue[1].ahead - 1 < queue[1].ahead
    BY <2>2
  <2>4. /\ m \in Msg /\ m.type = queue[1].type /\ m.ck = queue[1].ck /\ m.ep = queue[1].ep
        /\ m.ahead = queue[1].ahead - 1
    BY <2>1, <2>3 DEF Msg
  <2>5. queue' = [queue EXCEPT ![1] = m]
    BY <2>1
  <2> HIDE DEF m
  <2>6. /\ queue' \in Seq(Msg) /\ DOMAIN queue' = DOMAIN queue /\ Len(queue') = Len(queue)
        /\ queue'[1] = m /\ \A i \in DOMAIN queue : i # 1 => queue'[i] = queue[i]
    BY <1>2, <2>1, <2>4, <2>5
  <2>7. Head(queue') = queue'[1]
    <3>1. PICK q : q = queue'
      OBVIOUS
    <3>2. q \in Seq(Msg) /\ 1 \in DOMAIN q
      BY <2>1, <2>6, <3>1
    <3>3. Head(q) = q[1]
      BY <3>2
    <3> QED BY <3>1, <3>3
  <2> QED BY <1>4, <2>1, <2>3, <2>4, <2>6, <2>7 DEF Waits
<1>5. CASE queue # << >> /\ Sends
  <2>1. queue' = Tail(queue) /\ Bundle.msg = Head(queue)
    BY <1>1, <1>5 DEF Bundle
  <2>2. /\ queue' \in Seq(Msg) /\ Len(queue) \in Nat /\ Len(queue') = Len(queue) - 1
        /\ DOMAIN queue' = 1..Len(queue) - 1
        /\ \A i \in 1..Len(queue) - 1 : queue'[i] = queue[i + 1]
        /\ Head(queue) = queue[1]
    BY <1>2, <1>5, <2>1, TailIs
  <2>3. ASSUME queue' # << >> PROVE Head(queue') = queue[2] /\ Head(queue') \in Msg
    <3>1. PICK q : q = queue'
      OBVIOUS
    <3>2. q \in Seq(Msg) /\ q # << >>
      BY <2>2, <2>3, <3>1
    <3>3. Head(q) = q[1] /\ q[1] \in Msg /\ Len(q) >= 1 /\ DOMAIN q = 1..Len(q) /\ Len(q) \in Nat
      BY <3>2, TailIs
    <3>4. 1 \in DOMAIN q
      BY <3>3
    <3>5. 1 \in 1..Len(queue) - 1 /\ 1 + 1 = 2
      BY <2>2, <3>1, <3>4
    <3>6. q[1] = queue[2]
      BY <2>2, <3>1, <3>5
    <3> QED BY <3>1, <3>3, <3>6
  <2> QED BY <1>5, <2>1, <2>2, <2>3 DEF Sent
<1> QED BY <1>3, <1>4, <1>5

\* All that is on its way is one place nearer, but for a message that waits.
LEMMA EdgeWay ==
  ASSUME IInv, SendRedirect
  PROVE  /\ \A p \in Chan : WayFree(p)' = WayFree(p + 1)
         /\ WayFree(Lat)' = {}
         /\ \A p \in Chan : IF p + 1 = Lat /\ ~Sends THEN WayMsg(p)'.type = "none"
                                                      ELSE WayMsg(p)' = WayMsg(p + 1)
         /\ Sends => ~Redir(Lat)'
         /\ ~Sends => /\ WayMsg(Lat)'.type = WayMsg(Lat).type
                      /\ WayMsg(Lat)'.ck = WayMsg(Lat).ck
<1> USE DEF IInv
<1>1. Moved /\ (Idle \/ Waits \/ Sent)
  BY MovedIs, SentIs
<1>2. freeMask' = {}
  BY DEF SendRedirect
<1>3. \A p \in Chan : p + 1 \in Chan \/ (p = Lat - 1 /\ p + 1 = Lat)
  BY Places DEF Chan
<1>4. \A p \in Chan : WayFree(p)' = WayFree(p + 1)
  <2>1. \A p \in Chan : WayFree(p)' = toFet'[p].free
    BY DEF WayFree
  <2>2. \A p \in Chan : p + 1 \in Chan => WayFree(p + 1) = toFet[p + 1].free
    BY DEF WayFree
  <2>3. WayFree(Lat) = freeMask
    BY Places DEF WayFree
  <2> QED BY <1>1, <1>3, <2>1, <2>2, <2>3 DEF Moved
<1>5. WayFree(Lat)' = {}
  BY <1>2, Places DEF WayFree
<1>6. ASSUME NEW p \in Chan
      PROVE  IF p + 1 = Lat /\ ~Sends THEN WayMsg(p)'.type = "none"
                                       ELSE WayMsg(p)' = WayMsg(p + 1)
  <2>1. WayMsg(p)' = toFet'[p].msg
    BY DEF WayMsg
  <2>2. CASE p + 1 \in Chan
    <3>1. WayMsg(p + 1) = toFet[p + 1].msg /\ p + 1 # Lat
      BY <2>2, Places DEF WayMsg
    <3> QED BY <1>1, <2>1, <2>2, <3>1 DEF Moved
  <2>3. CASE p = Lat - 1 /\ p + 1 = Lat
    <3>1. WayMsg(p)' = Bundle.msg
      BY <1>1, <2>1, <2>3 DEF Moved
    <3>2. CASE Sends
      <4>1. WayMsg(Lat) = Head(queue) /\ Bundle.msg = Head(queue)
        BY <3>2, Places DEF WayMsg, Bundle, Sends
      <4> QED BY <2>3, <3>1, <3>2, <4>1
    <3>3. CASE ~Sends
      BY <2>3, <3>1, <3>3 DEF Bundle, NoMsg
    <3> QED BY <3>2, <3>3
  <2> QED BY <1>3, <2>2, <2>3
<1>7. WayMsg(Lat)' = IF queue' = << >> THEN NoMsg ELSE Head(queue')
  BY Places DEF WayMsg
<1>8. ASSUME Sends PROVE ~Redir(Lat)'
  <2> SUFFICES ASSUME queue' # << >> PROVE Head(queue').type # "redirect"
    BY <1>7 DEF Redir, NoMsg
  <2>1. Sent
    BY <1>1, <1>8 DEF Idle, Waits
  <2>2. Len(queue) \in Nat /\ DOMAIN queue = 1..Len(queue)
    BY Typed
  <2>3. Len(queue) > 1
    <3>1. ASSUME Len(queue) <= 1 PROVE FALSE
      <4>1. DOMAIN queue' = {}
        BY <2>1, <2>2, <3>1 DEF Sent
      <4>2. PICK q : q = queue'
        OBVIOUS
      <4>3. q \in Seq(Msg) /\ DOMAIN q = {}
        BY <2>1, <4>1, <4>2 DEF Sent
      <4>4. q = << >>
        BY <4>3
      <4> QED BY <4>2, <4>4
    <3> QED BY <2>2, <3>1
  <2>4. Head(queue') = queue[2] /\ 2 \in DOMAIN queue
    BY <2>1, <2>2, <2>3 DEF Sent
  <2>5. ~Up
    BY <2>2, <2>3 DEF Modes
  <2>6. CASE Quiet \/ Dark
    <3>1. queue[2].type = "notice"
      BY <2>4, <2>6 DEF Modes, OnlyNotices
    <3> QED BY <2>4, <3>1
  <2>7. CASE Down
    BY <2>4, <2>7 DEF DownQueue
  <2>8. Dark \/ Down \/ Quiet
    BY <2>5 DEF TypeOK, State, Up, Dark, Running, Down, Quiet
  <2> QED BY <2>6, <2>7, <2>8
<1>9. ASSUME ~Sends
      PROVE  /\ WayMsg(Lat)'.type = WayMsg(Lat).type
             /\ WayMsg(Lat)'.ck = WayMsg(Lat).ck
  <2>1. WayMsg(Lat) = IF queue = << >> THEN NoMsg ELSE Head(queue)
    BY Places DEF WayMsg
  <2>2. CASE Idle
    BY <1>7, <2>1, <2>2 DEF Idle
  <2>3. CASE Waits
    <3>1. Head(queue) = queue[1] /\ 1 \in DOMAIN queue /\ queue # << >>
      BY <2>3, Typed DEF Waits
    <3>2. queue' # << >>
      <4>1. 1 \in DOMAIN queue'
        BY <2>3, <3>1 DEF Waits
      <4> QED BY <4>1
    <3> QED BY <1>7, <2>1, <2>3, <3>1, <3>2 DEF Waits
  <2> QED BY <1>1, <1>9, <2>2, <2>3 DEF Sent
<1> QED BY <1>4, <1>5, <1>6, <1>8, <1>9

\* What is in the channel and in the queue after an edge was there before,
\* and stays but for what lands.
LEMMA EdgeFrom ==
  ASSUME TypeOK, SendRedirect
  PROVE  /\ \A i \in DOMAIN queue' : \E j \in DOMAIN queue : queue'[i].type = queue[j].type
         /\ \A j \in DOMAIN queue : \/ Bundle.msg.type = queue[j].type
                                    \/ \E i \in DOMAIN queue' : queue'[i].type = queue[j].type
         /\ \A p \in Chan : \/ toFet'[p].msg = Bundle.msg /\ toFet'[p].free = freeMask
                            \/ p + 1 \in Chan /\ toFet'[p] = toFet[p + 1]
         /\ \A p \in Chan : p = 1 \/ \E q \in Chan : toFet'[q] = toFet[p]
         /\ \E q \in Chan : toFet'[q].msg = Bundle.msg
         /\ Bundle.msg = NoMsg \/ \E j \in DOMAIN queue : Bundle.msg = queue[j]
<1>1. Moved /\ (Idle \/ Waits \/ Sent)
  BY MovedIs, SentIs
<1>2. /\ \A p \in Chan : p + 1 \in Chan \/ p = Lat - 1
      /\ \A p \in Chan : p = 1 \/ (p - 1 \in Chan /\ p - 1 + 1 = p)
      /\ Lat - 1 \in Chan
  BY Places DEF Chan
<1>3. \A p \in Chan : \/ toFet'[p].msg = Bundle.msg /\ toFet'[p].free = freeMask
                      \/ p + 1 \in Chan /\ toFet'[p] = toFet[p + 1]
  <2>1. toFet'[Lat - 1].msg = Bundle.msg /\ toFet'[Lat - 1].free = freeMask
    BY <1>1 DEF Moved
  <2>2. \A p \in Chan : p + 1 \in Chan => toFet'[p] = toFet[p + 1]
    BY <1>1 DEF Moved
  <2>3. ASSUME NEW p \in Chan, p + 1 \notin Chan
        PROVE  toFet'[p].msg = Bundle.msg /\ toFet'[p].free = freeMask
    <3>1. p = Lat - 1
      BY <1>2, <2>3
    <3> QED BY <2>1, <3>1, Zenon
  <2> QED BY <2>2, <2>3, Zenon
<1>4. ASSUME NEW p \in Chan, p # 1 PROVE \E q \in Chan : toFet'[q] = toFet[p]
  <2>1. PICK q \in Chan : q + 1 = p
    BY <1>2, <1>4
  <2> QED BY <1>1, <2>1 DEF Moved
<1>5. \E q \in Chan : toFet'[q].msg = Bundle.msg
  BY <1>1, <1>2 DEF Moved
<1>6. DOMAIN queue = 1..Len(queue) /\ Len(queue) \in Nat /\ (queue # << >> => 1 \in DOMAIN queue)
  BY Typed
<1>7. CASE Idle
  <2>1. DOMAIN queue = {} /\ DOMAIN queue' = {}
    BY <1>7 DEF Idle
  <2> QED BY <1>3, <1>4, <1>5, <1>7, <2>1 DEF Idle
<1>8. CASE Waits
  <2>1. \A i \in DOMAIN queue : i \in DOMAIN queue' /\ queue'[i].type = queue[i].type
    BY <1>8 DEF Waits
  <2>2. DOMAIN queue' = DOMAIN queue /\ Bundle.msg = NoMsg
    BY <1>8 DEF Waits
  <2> QED BY <1>3, <1>4, <1>5, <2>1, <2>2
<1>9. CASE Sent
  <2>1. PICK n : n = Len(queue)
    OBVIOUS
  <2>2. /\ n \in Nat /\ DOMAIN queue = 1..n /\ DOMAIN queue' = 1..n - 1
        /\ \A i \in 1..n - 1 : queue'[i] = queue[i + 1]
        /\ Bundle.msg = queue[1] /\ 1 \in DOMAIN queue
    BY <1>6, <1>9, <2>1 DEF Sent
  <2>3. \A i \in DOMAIN queue' : i + 1 \in DOMAIN queue /\ queue'[i] = queue[i + 1]
    BY <2>2
  <2>4. ASSUME NEW j \in DOMAIN queue, j # 1
        PROVE  \E i \in DOMAIN queue' : queue'[i].type = queue[j].type
    <3>1. PICK i : i = j - 1
      OBVIOUS
    <3>2. i \in 1..n - 1 /\ i + 1 = j
      BY <2>2, <2>4, <3>1
    <3> QED BY <2>2, <3>2
  <2> QED BY <1>3, <1>4, <1>5, <2>2, <2>3, <2>4
<1> QED BY <1>1, <1>7, <1>8, <1>9

\* A warp that is up stays so, and a dark one stays dark: the notice it waits
\* for stops it.
LEMMA EdgeUp ==
  ASSUME IInv, SendRedirect, FetTake(toFet[1]), st' = st
  PROVE  Up' = Up /\ Dark' = Dark /\ Down' = Down /\ Quiet' = Quiet
<1> USE DEF IInv
<1>1. /\ Running' = Running /\ Down' = Down /\ Quiet' = Quiet
      /\ fetching' = (fetching /\ toFet[1].msg.type # "notice")
  BY DEF Running, Down, Quiet, FetTake
<1>2. /\ \A i \in DOMAIN queue' : \E j \in DOMAIN queue : queue'[i].type = queue[j].type
      /\ \A j \in DOMAIN queue : \/ Bundle.msg.type = queue[j].type
                                 \/ \E i \in DOMAIN queue' : queue'[i].type = queue[j].type
      /\ \A p \in Chan : toFet'[p].msg = Bundle.msg \/ (p + 1 \in Chan /\ toFet'[p] = toFet[p + 1])
      /\ \A p \in Chan : p = 1 \/ \E q \in Chan : toFet'[q] = toFet[p]
      /\ \E q \in Chan : toFet'[q].msg = Bundle.msg
      /\ Bundle.msg = NoMsg \/ \E j \in DOMAIN queue : Bundle.msg = queue[j]
  BY EdgeFrom
<1>3. DOMAIN toFet = Chan /\ DOMAIN toFet' = Chan /\ 1 \in Chan
  <2>1. Moved
    BY MovedIs
  <2> DEFINE R == [msg : Msg, free : SUBSET Ckpt]
  <2>2. toFet' \in Seq(R) /\ Len(toFet') = Lat - 1
    BY <2>1 DEF Moved
  <2> HIDE DEF R
  <2> QED BY <2>2, LenProperties, Typed, Places DEF Chan
<1>4. NoMsg.type # "notice"
  BY DEF NoMsg
<1>5. ASSUME NoNotice PROVE NoNotice'
  <2>1. Bundle.msg.type # "notice"
    BY <1>2, <1>4, <1>5 DEF NoNotice
  <2>2. \A p \in Chan : toFet'[p].msg.type # "notice"
    BY <1>2, <1>3, <1>5, <2>1 DEF NoNotice
  <2>3. \A i \in DOMAIN queue' : queue'[i].type # "notice"
    BY <1>2, <1>5 DEF NoNotice
  <2> QED BY <1>3, <2>2, <2>3 DEF NoNotice
<1>6. ASSUME NoNotice', toFet[1].msg.type # "notice" PROVE NoNotice
  <2>1. \A p \in Chan : toFet[p].msg.type # "notice"
    BY <1>2, <1>3, <1>6 DEF NoNotice
  <2>2. \A i \in DOMAIN queue : queue[i].type # "notice"
    BY <1>2, <1>3, <1>6 DEF NoNotice
  <2> QED BY <1>3, <2>1, <2>2 DEF NoNotice
<1>7. NoNotice => toFet[1].msg.type # "notice"
  BY <1>3 DEF NoNotice
<1>8. (fetching /\ NoNotice)' <=> (fetching /\ NoNotice)
  BY <1>1, <1>5, <1>6, <1>7
<1> QED BY <1>1, <1>8 DEF Up, Dark

\* The redirects after an edge were all one place further, or wait.
LEMMA EdgeRedirs ==
  ASSUME IInv, SendRedirect
  PROVE  LET src == [p \in Pos |-> IF p \in Chan THEN p + 1 ELSE Lat]
         IN /\ \A p \in Pos : Redir(p)' => /\ src[p] \in Pos /\ 1 < src[p] /\ Redir(src[p])
                                           /\ WayMsg(p)'.ck = WayMsg(src[p]).ck
            /\ \A p, q \in Pos : p < q /\ Redir(p)' /\ Redir(q)' => src[p] < src[q]
            /\ \A q \in Pos : 1 < q /\ Redir(q) =>
                 \E p \in Pos : Redir(p)' /\ WayMsg(p)'.ck = WayMsg(q).ck
<1> DEFINE src == [p \in Pos |-> IF p \in Chan THEN p + 1 ELSE Lat]
<1>1. /\ \A p \in Chan : IF p + 1 = Lat /\ ~Sends THEN WayMsg(p)'.type = "none"
                                                   ELSE WayMsg(p)' = WayMsg(p + 1)
      /\ Sends => ~Redir(Lat)'
      /\ ~Sends => /\ WayMsg(Lat)'.type = WayMsg(Lat).type
                   /\ WayMsg(Lat)'.ck = WayMsg(Lat).ck
  BY EdgeWay
<1>2. \A p \in Chan : src[p] = p + 1 /\ p + 1 \in Pos /\ 1 < p + 1
  BY Places DEF Chan
<1>3. src[Lat] = Lat /\ Lat \in Pos /\ 1 < Lat /\ Lat \notin Chan /\ \A p \in Pos : p \in Chan \/ p = Lat
  BY Places, EpochAssumption
<1> HIDE DEF src
<1>4. \A p \in Chan : Redir(p)' => WayMsg(p)' = WayMsg(p + 1) /\ (p + 1 = Lat => Sends)
  <2>1. \A p \in Chan : WayMsg(p)'.type = "none" => ~Redir(p)'
    BY DEF Redir
  <2> QED BY <1>1, <2>1 DEF Redir
<1>5. ASSUME NEW p \in Pos, Redir(p)'
      PROVE  /\ src[p] \in Pos /\ 1 < src[p] /\ Redir(src[p])
             /\ WayMsg(p)'.ck = WayMsg(src[p]).ck
  <2>1. CASE p \in Chan
    BY <1>2, <1>4, <1>5, <2>1 DEF Redir
  <2>2. CASE p = Lat
    BY <1>1, <1>3, <1>5, <2>2 DEF Redir
  <2> QED BY <1>3, <2>1, <2>2
<1>6. ASSUME NEW p \in Pos, NEW q \in Pos, p < q, Redir(p)', Redir(q)' PROVE src[p] < src[q]
  <2>1. CASE q \in Chan
    <3>1. p \in Chan
      BY <1>6, <2>1, Places
    <3>2. p + 1 < q + 1
      BY <1>6, <2>1, <3>1, Places
    <3> QED BY <1>2, <2>1, <3>1, <3>2
  <2>2. CASE q = Lat
    <3>1. p \in Chan
      BY <1>6, <2>2, Places
    <3>2. ~Sends
      BY <1>1, <1>6, <2>2
    <3>3. p + 1 # Lat
      BY <1>4, <1>6, <3>1, <3>2
    <3>4. p + 1 < Lat
      BY <3>1, <3>3, Places
    <3> QED BY <1>2, <1>3, <2>2, <3>1, <3>4
  <2> QED BY <1>3, <2>1, <2>2
<1>7. ASSUME NEW q \in Pos, 1 < q, Redir(q)
      PROVE  \E p \in Pos : Redir(p)' /\ WayMsg(p)'.ck = WayMsg(q).ck
  <2>1. q - 1 \in Chan /\ q - 1 + 1 = q /\ q - 1 \in Pos
    BY <1>7, Places DEF Chan, Pos
  <2>2. CASE WayMsg(q - 1)' = WayMsg(q)
    <3>1. PICK r : r = q - 1
      OBVIOUS
    <3>2. Redir(r)' /\ r \in Pos /\ WayMsg(r)' = WayMsg(q)
      BY <1>7, <2>1, <2>2, <3>1 DEF Redir
    <3> QED BY <3>2
  <2>3. CASE q = Lat /\ ~Sends
    BY <1>1, <1>3, <1>7, <2>3 DEF Redir
  <2> QED BY <1>1, <2>1, <2>2, <2>3
<1>8. /\ \A p \in Pos : Redir(p)' => /\ src[p] \in Pos /\ 1 < src[p] /\ Redir(src[p])
                                     /\ WayMsg(p)'.ck = WayMsg(src[p]).ck
      /\ \A p, q \in Pos : p < q /\ Redir(p)' /\ Redir(q)' => src[p] < src[q]
      /\ \A q \in Pos : 1 < q /\ Redir(q) =>
           \E p \in Pos : Redir(p)' /\ WayMsg(p)'.ck = WayMsg(q).ck
  BY <1>5, <1>6, <1>7
<1> QED BY <1>8 DEF src

\* FET's checkpoints once a bundle has landed: those older than a redirect's,
\* but for the ones freed.
LEMMA EdgeLive ==
  ASSUME IInv, FetTake(toFet[1])
  PROVE  /\ live' \in Seq(Ckpt) /\ Distinct(live')
         /\ \A c : c \in Rng(live') <=>
              /\ c \in Rng(live) /\ c \notin WayFree(1) /\ WayMsg(1).type # "notice"
              /\ Redir(1) => Older(live, c, WayMsg(1).ck)
         /\ \A a, b : Older(live', a, b) <=>
              Older(live, a, b) /\ a \in Rng(live') /\ b \in Rng(live')
         /\ Rng(live') \subseteq Rng(live)
<1> USE DEF IInv
<1>1. live' = Without(Restored(toFet[1].msg), toFet[1].free)
  BY DEF FetTake
<1>2. PICK m, F, t : m = WayMsg(1) /\ F = WayFree(1) /\ t = Restored(m)
  OBVIOUS
<1>3. m = toFet[1].msg /\ F = toFet[1].free /\ 1 \in Pos
  BY <1>2, Places DEF WayMsg, WayFree
<1>4. live \in Seq(Ckpt) /\ Distinct(live)
  BY DEF TypeOK, Landings
<1>5. /\ t \in Seq(Ckpt) /\ Distinct(t)
      /\ \A c : c \in Rng(t) <=> /\ c \in Rng(live) /\ m.type # "notice"
                                 /\ m.type = "redirect" => Older(live, c, m.ck)
      /\ \A a, b : Older(t, a, b) <=> Older(live, a, b) /\ a \in Rng(t) /\ b \in Rng(t)
  <2>1. CASE m.type = "notice"
    <3>1. t = << >>
      BY <1>2, <2>1 DEF Restored
    <3>2. t \in Seq(Ckpt) /\ Distinct(t) /\ \A c : c \notin Rng(t)
      BY <3>1, NoneIs
    <3>3. \A a, b : ~Older(t, a, b)
      BY <3>2, OlderIs
    <3> QED BY <2>1, <3>2, <3>3
  <2>2. CASE m.type = "redirect"
    <3>1. m.ck \in Rng(live)
      BY <1>2, <1>3, <2>2 DEF Landings, Redir
    <3>2. PICK e : e = m.ck
      OBVIOUS
    <3>3. t = Before(live, e)
      BY <1>2, <2>2, <3>1, <3>2 DEF Restored, Before
    <3>4. e \in Rng(live)
      BY <3>1, <3>2
    <3>5. /\ t \in Seq(Ckpt) /\ Distinct(t)
          /\ \A c : c \in Rng(t) <=> Older(live, c, e)
          /\ \A a, b : Older(t, a, b) <=> Older(live, a, b) /\ Older(live, b, e)
      BY <1>4, <3>3, <3>4, BeforeIs
    <3>6. \A a, b : Older(live, a, b) /\ Older(live, b, e) => Older(live, a, e)
      BY <1>4, OlderIs
    <3>7. \A c : Older(live, c, e) => c \in Rng(live)
      BY <1>4, OlderIs
    <3> QED BY <2>2, <3>2, <3>5, <3>6, <3>7
  <2>3. CASE m.type \notin {"notice", "redirect"}
    <3>1. t = live
      BY <1>2, <2>3 DEF Restored
    <3>2. \A a, b : Older(live, a, b) => a \in Rng(live) /\ b \in Rng(live)
      BY <1>4, OlderIs
    <3> QED BY <1>4, <2>3, <3>1, <3>2
  <2> QED BY <2>1, <2>2, <2>3
<1>6. live' = Without(t, F)
  BY <1>1, <1>2, <1>3
<1>7. /\ Without(t, F) \in Seq(Ckpt) /\ Distinct(Without(t, F))
      /\ \A c : c \in Rng(Without(t, F)) <=> c \in Rng(t) /\ c \notin F
      /\ \A a, b : Older(Without(t, F), a, b)
                     <=> Older(t, a, b) /\ a \notin F /\ b \notin F
  BY ONLY <1>5, WithoutIs, Zenon
<1>8. /\ live' \in Seq(Ckpt) /\ Distinct(live')
      /\ \A c : c \in Rng(live') <=> c \in Rng(t) /\ c \notin F
      /\ \A a, b : Older(live', a, b) <=> Older(t, a, b) /\ a \notin F /\ b \notin F
  BY <1>6, <1>7, Zenon
<1>9. \A c : c \in Rng(live') <=>
        /\ c \in Rng(live) /\ c \notin F /\ m.type # "notice"
        /\ m.type = "redirect" => Older(live, c, m.ck)
  BY <1>5, <1>8
<1>10. \A a, b : Older(live', a, b) <=>
         Older(live, a, b) /\ a \in Rng(live') /\ b \in Rng(live')
  BY <1>5, <1>8
<1> QED BY <1>2, <1>8, <1>9, <1>10 DEF Redir

LEMMA EdgeLandings ==
  ASSUME IInv, SendRedirect, FetTake(toFet[1])
  PROVE  Landings'
<1> USE DEF IInv
<1> DEFINE src == [p \in Pos |-> IF p \in Chan THEN p + 1 ELSE Lat]
<1>1. /\ \A p \in Pos : Redir(p)' => /\ src[p] \in Pos /\ 1 < src[p] /\ Redir(src[p])
                                     /\ WayMsg(p)'.ck = WayMsg(src[p]).ck
      /\ \A p, q \in Pos : p < q /\ Redir(p)' /\ Redir(q)' => src[p] < src[q]
  BY EdgeRedirs
<1>2. /\ \A p \in Chan : src[p] = p + 1 /\ p + 1 \in Pos /\ 1 < p + 1 /\ p + 1 # 1
      /\ src[Lat] = Lat /\ Lat \in Pos /\ 1 < Lat
      /\ \A p, q \in Chan : p # q => p + 1 # q + 1
      /\ \A p, q \in Chan : p <= q => p + 1 <= q + 1
      /\ \A p \in Pos : p \in Chan \/ p = Lat
      /\ 1 \in Pos /\ \A p \in Pos : 1 <= p /\ p <= Lat
      /\ \A p \in Chan : ~(Lat <= p)
  BY Places, EpochAssumption DEF Chan, Pos
<1> HIDE DEF src
<1>3. /\ Distinct(live')
      /\ \A c : c \in Rng(live') <=>
           /\ c \in Rng(live) /\ c \notin WayFree(1) /\ WayMsg(1).type # "notice"
           /\ Redir(1) => Older(live, c, WayMsg(1).ck)
      /\ \A a, b : Older(live', a, b) <=>
           Older(live, a, b) /\ a \in Rng(live') /\ b \in Rng(live')
  BY EdgeLive
<1>4. /\ \A p \in Chan : WayFree(p)' = WayFree(p + 1)
      /\ WayFree(Lat)' = {}
      /\ \A p \in Chan : IF p + 1 = Lat /\ ~Sends THEN WayMsg(p)'.type = "none"
                                                  ELSE WayMsg(p)' = WayMsg(p + 1)
  BY EdgeWay
<1>5. /\ \A p \in Pos : Redir(p) =>
           /\ WayMsg(p).ck \in Rng(live)
           /\ \A q \in Pos : p < q /\ Redir(q) => Older(live, WayMsg(q).ck, WayMsg(p).ck)
      /\ \A p \in Pos : \A c \in WayFree(p) :
           /\ c \in Rng(live)
           /\ \A q \in Pos : Redir(q) => IF q <= p THEN Older(live, c, WayMsg(q).ck)
                                                   ELSE c # WayMsg(q).ck
           /\ \A q \in Pos : q # p => c \notin WayFree(q)
      /\ \A p \in Pos : WayMsg(p).type = "notice" =>
           \A q \in Pos : q >= p => WayFree(q) = {} /\ ~Redir(q)
  BY DEF Landings
<1>6. \A p \in Pos : 1 < p /\ Redir(p) => WayMsg(p).ck \in Rng(live')
  <2> SUFFICES ASSUME NEW p \in Pos, 1 < p, Redir(p) PROVE WayMsg(p).ck \in Rng(live')
    OBVIOUS
  <2>1. ~(p <= 1)
    BY <1>2, Places
  <2>2. WayMsg(p).ck \notin WayFree(1)
    BY <1>2, <1>5, <2>1
  <2>3. WayMsg(1).type # "notice"
    BY <1>2, <1>5
  <2> QED BY <1>2, <1>3, <1>5, <2>2, <2>3
<1>7. ASSUME NEW p \in Pos, Redir(p)'
      PROVE  /\ WayMsg(p)'.ck \in Rng(live')
             /\ \A q \in Pos : p < q /\ Redir(q)' => Older(live', WayMsg(q)'.ck, WayMsg(p)'.ck)
  BY <1>1, <1>3, <1>5, <1>6, <1>7
<1>8. ASSUME NEW p \in Pos, NEW c \in WayFree(p)'
      PROVE  /\ c \in Rng(live')
             /\ \A q \in Pos : Redir(q)' => IF q <= p THEN Older(live', c, WayMsg(q)'.ck)
                                                      ELSE c # WayMsg(q)'.ck
             /\ \A q \in Pos : q # p => c \notin WayFree(q)'
  <2>1. p \in Chan /\ c \in WayFree(p + 1)
    BY <1>2, <1>4, <1>8
  <2>2. PICK n \in Pos : n = p + 1 /\ 1 < n /\ n # 1
    BY <1>2, <2>1
  <2>3. /\ c \in Rng(live)
        /\ \A q \in Pos : Redir(q) => IF q <= n THEN Older(live, c, WayMsg(q).ck)
                                                ELSE c # WayMsg(q).ck
        /\ \A q \in Pos : q # n => c \notin WayFree(q)
    BY <1>5, <2>1, <2>2
  <2>4. c \in Rng(live')
    <3>1. WayMsg(1).type # "notice"
      BY <1>2, <1>5, <2>1, <2>2
    <3>2. c \notin WayFree(1) /\ (Redir(1) => Older(live, c, WayMsg(1).ck))
      BY <1>2, <2>2, <2>3
    <3> QED BY <1>3, <2>3, <3>1, <3>2
  <2>5. ASSUME NEW q \in Pos, Redir(q)'
        PROVE  IF q <= p THEN Older(live', c, WayMsg(q)'.ck) ELSE c # WayMsg(q)'.ck
    <3>1. /\ src[q] \in Pos /\ Redir(src[q]) /\ WayMsg(q)'.ck = WayMsg(src[q]).ck
          /\ WayMsg(q)'.ck \in Rng(live')
      BY <1>1, <1>6, <2>5
    <3>2. c # WayMsg(q)'.ck
      <4>1. live \in Seq(Ckpt) /\ Distinct(live)
        BY DEF TypeOK, Landings
      <4> QED BY <2>3, <3>1, <4>1, OlderIs
    <3>3. CASE q <= p
      <4>1. q \in Chan
        BY <1>2, <2>1, <3>3
      <4>2. src[q] <= n
        BY <1>2, <2>1, <2>2, <3>3, <4>1
      <4> QED BY <1>3, <2>3, <2>4, <3>1, <3>3, <4>2
    <3> QED BY <3>2, <3>3
  <2>6. \A q \in Pos : q # p => c \notin WayFree(q)'
    <3>1. ASSUME NEW q \in Pos, q # p PROVE c \notin WayFree(q)'
      <4>1. CASE q \in Chan
        <5>1. q + 1 # n /\ q + 1 \in Pos
          BY <1>2, <2>1, <2>2, <3>1, <4>1
        <5> QED BY <1>4, <2>3, <4>1, <5>1
      <4>2. CASE q = Lat
        BY <1>4, <4>2
      <4> QED BY <1>2, <4>1, <4>2
    <3> QED BY <3>1
  <2> QED BY <2>4, <2>5, <2>6
<1>9. ASSUME NEW p \in Pos, WayMsg(p)'.type = "notice", NEW q \in Pos, q >= p
      PROVE  WayFree(q)' = {} /\ ~Redir(q)'
  <2>1. CASE p = Lat
    <3>1. q = Lat
      BY <1>9, <2>1, Places
    <3> QED BY <1>4, <1>9, <2>1, <3>1 DEF Redir
  <2>2. CASE p \in Chan
    <3>1. PICK n \in Pos : n = p + 1
      BY <1>2, <2>2
    <3>2. WayMsg(n).type = "notice" /\ (n = Lat => Sends)
      BY <1>4, <1>9, <2>2, <3>1
    <3>3. \A r \in Pos : r >= n => WayFree(r) = {} /\ ~Redir(r)
      BY <1>5, <3>2
    <3>4. CASE q \in Chan
      <4>1. q + 1 >= n /\ q + 1 \in Pos
        BY <1>9, <2>2, <3>1, <3>4, Places
      <4> QED BY <1>1, <1>2, <1>4, <3>3, <3>4, <4>1
    <3>5. CASE q = Lat
      <4>1. Lat >= n
        BY <3>1, Places
      <4> QED BY <1>1, <1>2, <1>4, <3>3, <3>5, <4>1
    <3> QED BY <1>2, <3>4, <3>5
  <2> QED BY <1>2, <2>1, <2>2
<1> QED BY <1>3, <1>7, <1>8, <1>9 DEF Landings

\* A due squash acts: what it kept is what is left.
LEMMA EdgeSquash ==
  ASSUME IInv, SquashDue
  PROVE  /\ NowEpoch' = NowEpoch /\ epoch' = NowEpoch /\ Kept' = Kept
         /\ due' \in [on : BOOLEAN, keep : 0 .. Cardinality(Ckpt)] /\ ~due'.on
         /\ br' \in Seq(Ckpt) /\ Len(br') = Kept /\ Kept <= Cardinality(Ckpt)
         /\ \A b \in DOMAIN br' : b \in DOMAIN br /\ b <= Kept /\ br'[b] = br[b]
         /\ \A b \in DOMAIN br : b <= Kept => b \in DOMAIN br'
         /\ decq' = IF due.on THEN << >> ELSE decq
<1> USE DEF IInv
<1>1. /\ br \in Seq(Ckpt) /\ DOMAIN br = 1..Len(br) /\ Len(br) \in Nat
      /\ Len(br) <= Cardinality(Ckpt) /\ Kept \in 0..Len(br)
      /\ due \in [on : BOOLEAN, keep : 0 .. Cardinality(Ckpt)]
  BY Typed DEF TypeOK
<1>2. CASE due.on
  <2>1. /\ br' = SubSeq(br, 1, due.keep) /\ due' = NoDue /\ decq' = << >>
        /\ epoch' = NextEpoch(epoch) /\ Kept = due.keep
    BY <1>2 DEF SquashDue, Kept
  <2>2. PICK n : n = due.keep
    OBVIOUS
  <2>3. n \in 0..Len(br)
    BY <1>1, <2>1, <2>2
  <2>4. /\ SubSeq(br, 1, n) \in Seq(Ckpt) /\ Len(SubSeq(br, 1, n)) = n
        /\ DOMAIN SubSeq(br, 1, n) = 1..n
        /\ \A i \in 1..n : SubSeq(br, 1, n)[i] = br[i] /\ i \in DOMAIN br
    BY ONLY <1>1, <2>3, PrefixIs, Zenon
  <2>5. due' \in [on : BOOLEAN, keep : 0 .. Cardinality(Ckpt)] /\ ~due'.on
    BY <2>1, Wide DEF NoDue
  <2>6. /\ br' \in Seq(Ckpt) /\ Len(br') = n /\ DOMAIN br' = 1..n
        /\ \A i \in 1..n : br'[i] = br[i] /\ i \in DOMAIN br
    BY <2>1, <2>2, <2>4, Zenon
  <2>7. NowEpoch' = NowEpoch /\ epoch' = NowEpoch
    BY <1>2, <2>1, <2>5 DEF NowEpoch
  <2>8. Kept' = Kept /\ Kept = n
    BY <2>1, <2>2, <2>5, <2>6 DEF Kept
  <2>9. \A i \in 1..n : i <= n
    BY <1>1, <2>3
  <2>10. \A b \in DOMAIN br : b <= n => b \in 1..n
    BY <1>1, <2>3
  <2>11. n <= Cardinality(Ckpt)
    BY <1>1, <2>3, Wide
  <2> QED BY <1>2, <2>1, <2>5, <2>6, <2>7, <2>8, <2>9, <2>10, <2>11
<1>3. CASE ~due.on
  <2>1. UNCHANGED <<br, due, decq, epoch>>
    BY <1>3 DEF SquashDue
  <2>2. Kept = Len(br) /\ Kept' = Kept /\ NowEpoch' = NowEpoch /\ epoch' = NowEpoch
    BY <1>3, <2>1 DEF Kept, NowEpoch
  <2>3. \A b \in DOMAIN br : b <= Len(br)
    BY <1>1
  <2> QED BY <1>1, <1>3, <2>1, <2>2, <2>3
<1> QED BY <1>2, <1>3

\* The unresolved branches that stay are what every redirect leaves.
LEMMA EdgeBranches ==
  ASSUME IInv, SendRedirect, SquashDue, FetTake(toFet[1]), st' = st
  PROVE  Branches'
<1> USE DEF IInv
<1> DEFINE src == [p \in Pos |-> IF p \in Chan THEN p + 1 ELSE Lat]
<1>1. \A p \in Pos : Redir(p)' => /\ src[p] \in Pos /\ Redir(src[p])
                                  /\ WayMsg(p)'.ck = WayMsg(src[p]).ck
  BY EdgeRedirs
<1> HIDE DEF src
<1>2. /\ \A c : c \in Rng(live') <=>
           /\ c \in Rng(live) /\ c \notin WayFree(1) /\ WayMsg(1).type # "notice"
           /\ Redir(1) => Older(live, c, WayMsg(1).ck)
      /\ \A a, b : Older(live', a, b) <=>
           Older(live, a, b) /\ a \in Rng(live') /\ b \in Rng(live')
  BY EdgeLive
<1>3. \A b \in DOMAIN br' : b \in DOMAIN br /\ b <= Kept /\ br'[b] = br[b]
  BY EdgeSquash
<1>4. \A p \in Pos : \A c : c \in WayFree(p)' => \E q \in Pos : c \in WayFree(q)
  <2>1. \A p \in Pos : p \in Chan \/ p = Lat
    BY Places
  <2>2. \A p \in Chan : p + 1 \in Pos
    BY Places
  <2> QED BY <2>1, <2>2, EdgeWay
<1>5. SUFFICES ASSUME Up
               PROVE  Branches'
  BY EdgeUp DEF Branches
<1>6. \A b \in DOMAIN br' :
        /\ br'[b] \in Rng(live)
        /\ \A p \in Pos : br'[b] \notin WayFree(p)
        /\ \A p \in Pos : Redir(p) => Older(live, br'[b], WayMsg(p).ck)
  BY <1>3, <1>5 DEF Branches
<1>7. 1 \in Pos /\ WayMsg(1).type # "notice"
  BY <1>5, Places DEF Modes
<1>8. \A b \in DOMAIN br' : br'[b] \in Rng(live')
  BY <1>2, <1>6, <1>7
<1>9. \A a, b \in DOMAIN br' : a < b => Older(live', br'[a], br'[b])
  BY <1>2, <1>3, <1>5, <1>8 DEF Branches
<1>10. \A b \in DOMAIN br' : \A p \in Pos : br'[b] \notin WayFree(p)'
  BY <1>4, <1>6
<1>11. ASSUME NEW b \in DOMAIN br', NEW p \in Pos, Redir(p)'
       PROVE  Older(live', br'[b], WayMsg(p)'.ck)
  <2>1. Older(live, br'[b], WayMsg(p)'.ck)
    BY <1>1, <1>6, <1>11
  <2>2. WayMsg(p)'.ck \in Rng(live')
    BY <1>11, EdgeLandings DEF Landings
  <2> QED BY <1>2, <1>8, <2>1, <2>2
<1> QED BY <1>8, <1>9, <1>10, <1>11 DEF Branches

\* With nothing outstanding, nothing is after the edge.
LEMMA EdgeOutstanding ==
  ASSUME IInv, SendRedirect, Outstanding = {}
  PROVE  Outstanding' = {}
<1> USE DEF IInv
<1>1. Moved /\ (Idle \/ Waits \/ Sent)
  BY MovedIs, SentIs
<1>2. (\A p \in Chan : ~Sig(toFet[p].msg)) /\ \A i \in DOMAIN queue : ~Sig(queue[i])
  <2>1. ~Later(0)
    BY Signals
  <2>2. \A p \in Chan : 0 < p
    BY DEF Chan
  <2> QED BY <2>1, <2>2 DEF Later
<1>3. ~Sig(Bundle.msg)
  <2>1. Bundle.msg = NoMsg \/ (Bundle.msg = queue[1] /\ queue # << >>)
    BY <1>1 DEF Idle, Waits, Sent
  <2>2. queue # << >> => ~Sig(queue[1])
    BY <1>2, Typed
  <2>3. ~Sig(NoMsg)
    BY DEF Sig, NoMsg
  <2> QED BY <2>1, <2>2, <2>3
<1>4. \A p \in Chan : p + 1 \in Chan \/ p = Lat - 1
  BY Places DEF Chan
<1>5. \A p \in Chan : ~Sig(toFet'[p].msg)
  BY <1>1, <1>2, <1>3, <1>4 DEF Moved
<1>6. DOMAIN toFet' = Chan
  <2> DEFINE R == [msg : Msg, free : SUBSET Ckpt]
  <2>1. toFet' \in Seq(R) /\ Len(toFet') = Lat - 1
    BY <1>1 DEF Moved
  <2> HIDE DEF R
  <2> QED BY <2>1, LenProperties DEF Chan
<1>7. \A i \in DOMAIN queue' : ~Sig(queue'[i])
  <2>1. CASE Idle
    <3>1. DOMAIN queue' = {}
      BY <2>1 DEF Idle
    <3> QED BY <3>1
  <2>2. CASE Waits
    <3>1. \A i \in DOMAIN queue' : i \in DOMAIN queue /\ queue'[i].type = queue[i].type
      BY <2>2 DEF Waits
    <3> QED BY <1>2, <3>1 DEF Sig
  <2>3. CASE Sent
    <3>1. Len(queue) \in Nat /\ DOMAIN queue = 1..Len(queue)
      BY Typed
    <3>2. \A i \in 1..Len(queue) - 1 : i + 1 \in DOMAIN queue
      BY <3>1
    <3>3. \A i \in DOMAIN queue' : i + 1 \in DOMAIN queue /\ queue'[i] = queue[i + 1]
      BY <2>3, <3>2 DEF Sent
    <3> QED BY <1>2, <3>3
  <2> QED BY <1>1, <2>1, <2>2, <2>3
<1>8. \A m : m \in InChannel' \cup Rng(queue') => ~Sig(m)
  BY <1>5, <1>6, <1>7 DEF InChannel, Rng
<1>9. \A m : m \notin Outstanding'
  BY <1>8 DEF Outstanding, Sig
<1> QED BY <1>9

\* A squash that acts takes the decode queue, and leaves a channel of stale
\* uops.
LEMMA EdgeUops ==
  ASSUME IInv, SendRedirect, SquashDue, FetTake(toFet[1]), st' = st, pipe' = pipe
  PROVE  UopsInTurn'
<1> USE DEF IInv
<1>1. SUFFICES ASSUME Up
               PROVE  UopsInTurn'
  BY EdgeUp DEF UopsInTurn
<1>2. /\ NowEpoch' = NowEpoch /\ epoch' = NowEpoch /\ Kept' = Kept
      /\ decq' = IF due.on THEN << >> ELSE decq
      /\ \A b \in DOMAIN br' : b \in DOMAIN br /\ br'[b] = br[b]
  BY EdgeSquash
<1>3. \A e : Behind(e)' = Behind(e)
  BY <1>2 DEF Behind, Lag
<1>4. CASE due.on
  <2>1. PICK D, P : D = Len(decq) /\ P = Len(pipe)
    OBVIOUS
  <2>2. D \in Nat /\ P \in Nat /\ Uops = 1..D + P
    BY <2>1, Typed DEF Uops
  <2>3. decq' = << >> /\ Len(decq') = 0 /\ Uops' = 1..P
    <3>1. decq' = << >> /\ Len(decq') = 0
      BY <1>2, <1>4
    <3>2. 0 + P = P
      BY <2>2
    <3> QED BY <2>1, <3>1, <3>2 DEF Uops
  <2>4. ASSUME NEW i \in Uops' PROVE \E m \in Uops : UopAt(i)' = UopAt(m)
    <3>1. PICK m : m = D + i
      OBVIOUS
    <3>2. m \in 1..D + P /\ ~(m <= D) /\ m - D = i /\ ~(i <= 0) /\ i - 0 = i
      BY <2>2, <2>3, <3>1
    <3>3. UopAt(i)' = pipe[i]
      BY <2>3, <3>2 DEF UopAt
    <3>4. UopAt(m) = pipe[i]
      BY <2>1, <3>2 DEF UopAt
    <3> QED BY <2>2, <3>2, <3>3, <3>4
  <2>5. \A m \in Uops : UopAt(m).stale /\ Behind(UopAt(m).ep)
    BY <1>1, <1>4, Signals DEF UopsInTurn
  <2>6. ASSUME NEW i \in Uops'
        PROVE  UopAt(i)'.stale /\ Behind(UopAt(i).ep)' /\ ~Fresh(i)'
    <3>1. PICK m \in Uops : UopAt(i)' = UopAt(m)
      BY <2>4
    <3>2. PICK e : e = UopAt(m).ep
      OBVIOUS
    <3>3. UopAt(m).stale /\ Behind(e) /\ UopAt(i)'.ep = e
      BY <2>5, <3>1, <3>2
    <3>4. e \in Epoch
      BY <3>2, Typed DEF Uop
    <3>5. e # NowEpoch
      BY <3>3, <3>4, BehindIs
    <3>6. Behind(e)'
      BY <1>3, <3>3
    <3> QED BY <1>2, <3>1, <3>3, <3>5, <3>6 DEF Fresh
  <2> QED BY <2>6 DEF UopsInTurn
<1>5. CASE ~due.on
  <2>1. decq' = decq /\ epoch' = epoch
    BY <1>2, <1>5 DEF NowEpoch
  <2>2. Uops' = Uops /\ \A i : UopAt(i)' = UopAt(i) /\ Fresh(i)' = Fresh(i)
    BY <2>1 DEF Uops, UopAt, Fresh
  <2>3. /\ \A c : c \in Rng(live') <=>
             /\ c \in Rng(live) /\ c \notin WayFree(1) /\ WayMsg(1).type # "notice"
             /\ Redir(1) => Older(live, c, WayMsg(1).ck)
        /\ \A a, b : Older(live', a, b) <=>
             Older(live, a, b) /\ a \in Rng(live') /\ b \in Rng(live')
    BY EdgeLive
  <2>4. 1 \in Pos /\ WayMsg(1).type # "notice"
    BY <1>1, Places DEF Modes
  <2>5. ASSUME NEW i \in Uops, Fresh(i)
        PROVE  ~UopAt(i).stale /\ Outstanding = {} /\ ~Redir(1) /\ UopAt(i).ck \in Rng(live')
    <3>1. UopAt(i).ep = epoch /\ epoch \in Epoch
      BY <2>5 DEF Fresh, TypeOK
    <3>2. ~UopAt(i).stale
      BY <1>1, <1>5, <3>1, BehindIs DEF UopsInTurn
    <3>3. Outstanding = {} /\ ~Redir(1)
      BY <1>1, <2>4, <3>2, Signals DEF UopsInTurn
    <3>4. UopAt(i).ck \in Rng(live) /\ UopAt(i).ck \notin WayFree(1)
      BY <1>1, <2>4, <2>5 DEF UopsInTurn
    <3> QED BY <2>3, <2>4, <3>2, <3>3, <3>4
  <2>6. \A b \in DOMAIN br' : br'[b] \in Rng(live')
    BY <1>1, EdgeBranches, EdgeUp DEF Branches
  <2>7. \A p \in Pos : \A c : c \in WayFree(p)' => \E q \in Pos : c \in WayFree(q)
    <3>1. \A p \in Pos : p \in Chan \/ p = Lat
      BY Places
    <3>2. \A p \in Chan : p + 1 \in Pos
      BY Places
    <3> QED BY <3>1, <3>2, EdgeWay
  <2>8. ASSUME NEW i \in Uops, Fresh(i)
        PROVE  /\ UopAt(i).ck \in Rng(live')
               /\ \A j \in Uops : i < j /\ Fresh(j) => Older(live', UopAt(i).ck, UopAt(j).ck)
               /\ \A b \in DOMAIN br' : Older(live', br'[b], UopAt(i).ck)
               /\ \A p \in Pos : UopAt(i).ck \notin WayFree(p)'
    <3>1. /\ \A j \in Uops : i < j /\ Fresh(j) => Older(live, UopAt(i).ck, UopAt(j).ck)
          /\ \A b \in DOMAIN br : Older(live, br[b], UopAt(i).ck)
          /\ \A p \in Pos : UopAt(i).ck \notin WayFree(p)
      BY <1>1, <2>8 DEF UopsInTurn
    <3>2. UopAt(i).ck \in Rng(live')
      BY <2>5, <2>8
    <3>3. \A j \in Uops : i < j /\ Fresh(j) => Older(live', UopAt(i).ck, UopAt(j).ck)
      BY <2>3, <2>5, <3>1, <3>2
    <3>4. \A b \in DOMAIN br' : Older(live', br'[b], UopAt(i).ck)
      BY <1>2, <2>3, <2>6, <3>1, <3>2
    <3>5. \A p \in Pos : UopAt(i).ck \notin WayFree(p)'
      BY <2>7, <3>1
    <3> QED BY <3>2, <3>3, <3>4, <3>5
  <2>9. ASSUME NEW i \in Uops
        PROVE  /\ \A j \in Uops : i < j /\ UopAt(j).stale => UopAt(i).stale
               /\ UopAt(i)'.stale => Behind(UopAt(i).ep)'
               /\ ~UopAt(i).stale => UopAt(i).ep = epoch /\ Outstanding' = {}
    <3>1. PICK e : e = UopAt(i).ep
      OBVIOUS
    <3>2. UopAt(i).stale => Behind(e)'
      BY <1>1, <1>3, <3>1 DEF UopsInTurn
    <3>3. UopAt(i)' = UopAt(i) /\ UopAt(i)'.ep = e
      BY <2>2, <3>1
    <3>4. ~UopAt(i).stale => UopAt(i).ep = epoch /\ Outstanding' = {}
      BY <1>1, EdgeOutstanding DEF UopsInTurn
    <3> QED BY <1>1, <3>2, <3>3, <3>4 DEF UopsInTurn
  <2> QED BY <2>1, <2>2, <2>8, <2>9 DEF UopsInTurn
<1> QED BY <1>4, <1>5

\* What no redirect on its way will free still has its owner.
LEMMA EdgeMirrored ==
  ASSUME IInv, SendRedirect, SquashDue, FetTake(toFet[1]), st' = st, pipe' = pipe
  PROVE  Mirrored'
<1> USE DEF IInv
<1>1. SUFFICES ASSUME Up, NEW c \in Rng(live'), Survives(c)'
               PROVE  Owned(c)'
  BY EdgeUp DEF Mirrored
<1>2. /\ c \in Rng(live) /\ c \notin WayFree(1)
      /\ Redir(1) => Older(live, c, WayMsg(1).ck)
      /\ \A a, b : Older(live', a, b) => Older(live, a, b)
  BY EdgeLive
<1>3. \A q \in Pos : 1 < q /\ Redir(q) => \E p \in Pos : Redir(p)' /\ WayMsg(p)'.ck = WayMsg(q).ck
  BY EdgeRedirs
<1>4. \A p \in Pos : Redir(p)' => Older(live', c, WayMsg(p)'.ck)
  BY <1>1 DEF Survives
<1>5. Survives(c)
  <2>1. \A q \in Pos : q = 1 \/ 1 < q
    BY DEF Pos
  <2> QED BY <1>2, <1>3, <1>4, <2>1 DEF Survives
<1>6. Owned(c)
  BY <1>1, <1>2, <1>5 DEF Mirrored
<1>7. CASE \E b \in DOMAIN br : b <= Kept /\ br[b] = c
  BY <1>7, EdgeSquash DEF Owned
<1>8. CASE \E i \in Uops : ~UopAt(i).stale /\ UopAt(i).ck = c
  <2>1. ~due.on
    BY <1>1, <1>8, Signals DEF UopsInTurn
  <2>2. decq' = decq
    BY <2>1, EdgeSquash
  <2>3. Uops' = Uops /\ \A i : UopAt(i)' = UopAt(i)
    BY <2>2 DEF Uops, UopAt
  <2> QED BY <1>8, <2>3 DEF Owned
<1>9. CASE \E p \in Pos : c \in WayFree(p)
  <2>1. PICK p \in Pos : c \in WayFree(p)
    BY <1>9
  <2>2. PICK q : q = p - 1
    OBVIOUS
  <2>3. q \in Chan /\ q + 1 = p /\ q \in Pos
    BY <1>2, <2>1, <2>2, Places DEF Pos, Chan
  <2>4. c \in WayFree(q)'
    BY <2>1, <2>3, EdgeWay
  <2> QED BY <2>3, <2>4 DEF Owned
<1> QED BY <1>6, <1>7, <1>8, <1>9 DEF Owned

\* The epochs FET holds and will be sent move with their messages.
LEMMA EdgeGiven ==
  ASSUME IInv, SendRedirect, SquashDue, FetTake(toFet[1]), st' = st
  PROVE  EpochsGiven'
<1> USE DEF IInv
<1>1. Moved /\ (Idle \/ Waits \/ Sent)
  BY MovedIs, SentIs
<1>2. NowEpoch' = NowEpoch /\ Kept' = Kept /\ Up' = Up
  BY EdgeSquash, EdgeUp
<1>3. \A e : Behind(e)' = Behind(e)
  BY <1>2 DEF Behind, Lag
<1> DEFINE Owed == \E i \in DOMAIN queue : Sig(queue[i])
           Owed2 == \E i \in DOMAIN queue' : Sig(queue'[i])
<1>4. /\ DOMAIN queue = 1..Len(queue) /\ Len(queue) \in Nat
      /\ queue # << >> => 1 \in DOMAIN queue
  BY Typed
<1>5. /\ Owed <=> Owed2 \/ Sig(Bundle.msg)
      /\ \A i \in DOMAIN queue' : \E j \in DOMAIN queue :
           /\ queue'[i].type = queue[j].type /\ queue'[i].ep = queue[j].ep
           /\ \A k \in DOMAIN queue : j < k =>
                \E l \in DOMAIN queue' : i < l /\ queue'[l].type = queue[k].type
  <2>1. CASE Idle
    <3>1. DOMAIN queue' = {} /\ DOMAIN queue = {} /\ ~Sig(Bundle.msg)
      BY <2>1 DEF Idle, Sig, NoMsg
    <3> QED BY <3>1
  <2>2. CASE Waits
    <3>1. /\ DOMAIN queue' = DOMAIN queue
          /\ \A i \in DOMAIN queue : queue'[i].type = queue[i].type /\ queue'[i].ep = queue[i].ep
      BY <2>2 DEF Waits
    <3>2. ~Sig(Bundle.msg)
      BY <2>2 DEF Waits, Sig, NoMsg
    <3>3. \A i \in DOMAIN queue : Sig(queue'[i]) <=> Sig(queue[i])
      BY <3>1 DEF Sig
    <3>4. \A i \in DOMAIN queue' :
            /\ i \in DOMAIN queue
            /\ queue'[i].type = queue[i].type /\ queue'[i].ep = queue[i].ep
            /\ \A k \in DOMAIN queue : i < k =>
                 k \in DOMAIN queue' /\ i < k /\ queue'[k].type = queue[k].type
      BY <3>1
    <3> QED BY <3>1, <3>2, <3>3, <3>4, Zenon
  <2>3. CASE Sent
    <3>1. PICK n : n = Len(queue)
      OBVIOUS
    <3>2. /\ n \in Nat /\ DOMAIN queue = 1..n /\ DOMAIN queue' = 1..n - 1
          /\ \A i \in 1..n - 1 : queue'[i] = queue[i + 1]
          /\ Bundle.msg = queue[1] /\ 1 \in DOMAIN queue
      BY <1>4, <2>3, <3>1 DEF Sent
    <3>3. \A i \in DOMAIN queue' : i + 1 \in DOMAIN queue /\ queue'[i] = queue[i + 1]
      BY <3>2
    <3>4. \A j \in DOMAIN queue : j = 1 \/ (j - 1 \in DOMAIN queue' /\ queue'[j - 1] = queue[j])
      <4> SUFFICES ASSUME NEW j \in 1..n, j # 1
                   PROVE  j - 1 \in 1..n - 1 /\ queue'[j - 1] = queue[j]
        BY <3>2
      <4>1. j - 1 \in 1..n - 1 /\ j - 1 + 1 = j
        BY <3>2
      <4> QED BY <3>2, <4>1
    <3>5. Owed <=> Owed2 \/ Sig(Bundle.msg)
      <4>1. ASSUME NEW j \in DOMAIN queue, Sig(queue[j]) PROVE Owed2 \/ Sig(Bundle.msg)
        <5>1. CASE j = 1
          BY <3>2, <4>1, <5>1
        <5>2. CASE j # 1
          <6>1. PICK l : l = j - 1
            OBVIOUS
          <6>2. l \in DOMAIN queue' /\ queue'[l] = queue[j]
            BY <3>4, <5>2, <6>1
          <6> QED BY <4>1, <6>2
        <5> QED BY <5>1, <5>2
      <4>2. ASSUME NEW i \in DOMAIN queue', Sig(queue'[i]) PROVE Owed
        <5>1. PICK j : j = i + 1
          OBVIOUS
        <5>2. j \in DOMAIN queue /\ queue'[i] = queue[j]
          BY <3>3, <5>1
        <5> QED BY <4>2, <5>2
      <4>3. Sig(Bundle.msg) => Owed
        BY <3>2
      <4> QED BY <4>1, <4>2, <4>3
    <3>6. ASSUME NEW i \in DOMAIN queue'
          PROVE  \E j \in DOMAIN queue :
                   /\ queue'[i].type = queue[j].type /\ queue'[i].ep = queue[j].ep
                   /\ \A k \in DOMAIN queue : j < k =>
                        \E l \in DOMAIN queue' : i < l /\ queue'[l].type = queue[k].type
      <4>1. PICK j \in DOMAIN queue : j = i + 1 /\ queue'[i] = queue[j]
        BY <3>3
      <4>2. ASSUME NEW k \in DOMAIN queue, j < k
            PROVE  \E l \in DOMAIN queue' : i < l /\ queue'[l].type = queue[k].type
        <5>1. PICK l : l = k - 1
          OBVIOUS
        <5>2. k # 1 /\ i < l
          BY <3>2, <4>1, <4>2, <5>1
        <5>3. l \in DOMAIN queue' /\ queue'[l] = queue[k]
          BY <3>4, <5>1, <5>2
        <5> QED BY <5>2, <5>3
      <4> QED BY <4>1, <4>2
    <3> QED BY <3>5, <3>6
  <2> QED BY <1>1, <2>1, <2>2, <2>3
<1> HIDE DEF Owed, Owed2
<1>6. ASSUME NEW i \in DOMAIN queue', Sig(queue'[i]),
             \A j \in DOMAIN queue' : i < j => ~Sig(queue'[j])
      PROVE  queue'[i].ep = NowEpoch'
  <2>1. PICK j \in DOMAIN queue :
           /\ queue'[i].type = queue[j].type /\ queue'[i].ep = queue[j].ep
           /\ \A k \in DOMAIN queue : j < k =>
                \E l \in DOMAIN queue' : i < l /\ queue'[l].type = queue[k].type
    BY <1>5
  <2>2. Sig(queue[j])
    BY <1>6, <2>1 DEF Sig
  <2>3. \A k \in DOMAIN queue : j < k => ~Sig(queue[k])
    BY <1>6, <2>1 DEF Sig
  <2> QED BY <1>2, <2>1, <2>2, <2>3 DEF EpochsGiven
<1>7. /\ \A p : Later(p) <=> (\E q \in Chan : p < q /\ Sig(toFet[q].msg)) \/ Owed
      /\ \A p : Later(p)' <=> (\E q \in Chan : p < q /\ Sig(toFet'[q].msg)) \/ Owed2
  BY DEF Later, Owed, Owed2
<1>8. /\ \A p \in Chan : p + 1 \in Chan \/ p = Lat - 1
      /\ Lat - 1 \in Chan /\ \A p \in Chan : ~(Lat - 1 < p) /\ p \in Nat /\ 0 < p
      /\ \A p \in 0..Lat - 1 : p = 0 \/ p \in Chan
      /\ \A p \in Chan : p \in 0..Lat - 1
      /\ 1 \in Chan /\ \A p \in Chan : p = 1 \/ p - 1 \in Chan
      /\ 0 \in 0..Lat - 1
      /\ \A p \in Chan : p = 1 \/ 1 < p
  BY Places DEF Chan
<1>9. /\ \A p \in Chan : p + 1 \in Chan => toFet'[p].msg = toFet[p + 1].msg
      /\ toFet'[Lat - 1].msg = Bundle.msg
  BY <1>1 DEF Moved
<1>10. ASSUME NEW p \in 0..Lat - 2, p + 1 \in Chan
       PROVE  Later(p)' <=> Later(p + 1)
  <2>1. ASSUME NEW q \in Chan, p < q, Sig(toFet'[q].msg) PROVE Later(p + 1)
    <3>1. CASE q + 1 \in Chan
      <4>1. PICK r \in Chan : r = q + 1
        BY <3>1
      <4>2. p + 1 < r /\ Sig(toFet[r].msg)
        BY <1>8, <1>9, <2>1, <4>1
      <4> QED BY <1>7, <4>2
    <3>2. CASE q = Lat - 1
      <4>1. Sig(Bundle.msg)
        BY <1>9, <2>1, <3>2
      <4> QED BY <1>5, <1>7, <4>1
    <3> QED BY <1>8, <3>1, <3>2
  <2>2. ASSUME NEW q \in Chan, p + 1 < q, Sig(toFet[q].msg) PROVE Later(p)'
    <3>1. PICK r : r = q - 1
      OBVIOUS
    <3>2. r \in Chan /\ r + 1 = q /\ p < r
      BY <1>8, <2>2, <3>1
    <3>3. Sig(toFet'[r].msg)
      BY <1>9, <2>2, <3>2
    <3> QED BY <1>7, <3>2, <3>3
  <2>3. ASSUME Sig(Bundle.msg) PROVE Later(p)'
    <3>1. Sig(toFet'[Lat - 1].msg)
      BY <1>9, <2>3
    <3>2. p < Lat - 1
      BY Places
    <3> QED BY <1>7, <1>8, <3>1, <3>2
  <2> QED BY <1>5, <1>7, <2>1, <2>2, <2>3
<1>11. ASSUME NEW p \in Chan, p + 1 \in Chan, Gives(p)'
       PROVE  IF Later(p)' THEN Up => Behind(Given(p))' ELSE Given(p)' = NowEpoch'
  <2>1. PICK n \in Chan : n = p + 1
    BY <1>11
  <2>2. PICK e : e = Given(n)
    OBVIOUS
  <2>3. Given(p)' = e /\ Gives(n)
    BY <1>8, <1>9, <1>11, <2>1, <2>2 DEF Given, Gives
  <2>4. Later(p)' <=> Later(n)
    <3>1. p \in 0..Lat - 2
      BY <1>11, Places DEF Chan
    <3> QED BY <1>10, <1>11, <2>1, <3>1
  <2>5. IF Later(n) THEN Up => Behind(e) ELSE e = NowEpoch
    BY <1>8, <2>2, <2>3 DEF EpochsGiven
  <2> QED BY <1>2, <1>3, <2>3, <2>4, <2>5
<1>12. ASSUME Gives(Lat - 1)'
       PROVE  IF Later(Lat - 1)' THEN Up => Behind(Given(Lat - 1))'
                                 ELSE Given(Lat - 1)' = NowEpoch'
  <2>1. /\ Sig(Bundle.msg) /\ Given(Lat - 1)' = Bundle.msg.ep
        /\ Later(Lat - 1)' <=> Owed2
    <3>1. Lat - 1 # 0
      BY <1>8
    <3> QED BY <1>7, <1>8, <1>9, <1>12, <3>1 DEF Given, Gives
  <2>2. Sent /\ Bundle.msg = queue[1]
    BY <1>1, <2>1 DEF Idle, Waits, Sent, Sig, NoMsg
  <2>3. ASSUME ~Owed2 PROVE queue[1].ep = NowEpoch
    <3>1. ASSUME NEW j \in DOMAIN queue, 1 < j PROVE ~Sig(queue[j])
      <4>1. PICK l : l = j - 1
        OBVIOUS
      <4>2. l \in 1..Len(queue) - 1 /\ l + 1 = j
        BY <1>4, <3>1, <4>1
      <4>3. l \in DOMAIN queue' /\ queue'[l] = queue[j]
        BY <2>2, <4>2 DEF Sent
      <4> QED BY <2>3, <4>3 DEF Owed2
    <3>2. 1 \in DOMAIN queue /\ Sig(queue[1])
      BY <1>4, <2>1, <2>2 DEF Sent
    <3> QED BY <3>1, <3>2 DEF EpochsGiven
  <2>4. Up => ~Owed2
    <3> SUFFICES ASSUME Up PROVE ~Owed2
      OBVIOUS
    <3>1. Len(queue) <= 1
      BY DEF Modes
    <3>2. 1..Len(queue) - 1 = {}
      BY <1>4, <3>1
    <3> QED BY <2>2, <3>2 DEF Sent, Owed2
  <2> QED BY <1>2, <2>1, <2>2, <2>3, <2>4
<1>13. IF Later(0)' THEN Up => Behind(Given(0))' ELSE Given(0)' = NowEpoch'
  <2>0. fetEpoch' = IF Sig(toFet[1].msg) THEN toFet[1].msg.ep ELSE fetEpoch
    BY DEF FetTake, Sig
  <2>1. Later(0)' <=> Later(1)
    <3>1. 0 \in 0..Lat - 2 /\ 0 + 1 = 1
      BY Places, EpochAssumption
    <3> QED BY <1>8, <1>10, <3>1
  <2>2. PICK g, e : g = (IF Sig(toFet[1].msg) THEN 1 ELSE 0) /\ e = Given(g)
    OBVIOUS
  <2>3. g \in 0..Lat - 1 /\ Gives(g) /\ Given(0)' = e
    BY <1>8, <2>0, <2>2 DEF Gives, Given
  <2>4. Later(1) <=> Later(g)
    <3>1. CASE Sig(toFet[1].msg)
      BY <2>2, <3>1
    <3>2. CASE ~Sig(toFet[1].msg)
      BY <1>7, <1>8, <2>2, <3>2
    <3> QED BY <3>1, <3>2
  <2>5. IF Later(g) THEN Up => Behind(e) ELSE e = NowEpoch
    BY <2>2, <2>3 DEF EpochsGiven
  <2> QED BY <1>2, <1>3, <2>1, <2>3, <2>4, <2>5
<1>14. ASSUME NEW p \in 0..Lat - 1, Gives(p)'
       PROVE  IF Later(p)' THEN Up' => Behind(Given(p))' ELSE Given(p)' = NowEpoch'
  <2>1. CASE p = 0
    BY <1>2, <1>13, <2>1
  <2>2. CASE p \in Chan /\ p + 1 \in Chan
    BY <1>2, <1>11, <1>14, <2>2
  <2>3. CASE p = Lat - 1
    BY <1>2, <1>12, <1>14, <2>3
  <2> QED BY <1>8, <2>1, <2>2, <2>3
<1> QED BY <1>6, <1>14 DEF EpochsGiven

LEMMA EdgeModes ==
  ASSUME IInv, SendRedirect, SquashDue, FetTake(toFet[1]), st' = st
  PROVE  Modes'
<1> USE DEF IInv
<1>1. Moved /\ (Idle \/ Waits \/ Sent)
  BY MovedIs, SentIs
<1>2. /\ ~due'.on /\ freeMask' = {}
      /\ Up' = Up /\ Dark' = Dark /\ Down' = Down /\ Quiet' = Quiet
  BY EdgeSquash, EdgeUp DEF SendRedirect
<1>3. decq = << >> => decq' = << >>
  BY EdgeSquash
<1>4. ~Up => br' = << >>
  <2> SUFFICES ASSUME ~Up PROVE br' = << >>
    OBVIOUS
  <2>1. br = << >> /\ ~due.on
    BY DEF Modes
  <2> QED BY <2>1 DEF SquashDue
<1>5. ~Down => rewindPending' = 0
  <2>1. rewindPending' = rewindPending \/ rewindPending > 0
    BY DEF SendRedirect, RewindAfter
  <2>2. ~Down => rewindPending = 0 /\ ~(rewindPending > 0)
    BY DEF Modes
  <2> QED BY <2>1, <2>2
<1>6. ASSUME Up
      PROVE  /\ Len(queue') <= 1
             /\ \A p \in Pos : WayMsg(p)'.type \in {"none", "redirect"}
             /\ queue' # << >> => Redir(Lat)'
  <2>1. /\ Len(queue) <= 1 /\ Len(queue) \in Nat
        /\ \A p \in Pos : WayMsg(p).type \in {"none", "redirect"}
        /\ queue # << >> => Redir(Lat)
    BY <1>6, Typed DEF Modes
  <2>2. CASE Sent
    <3>1. queue' = << >>
      <4>1. DOMAIN queue' = {}
        BY <2>1, <2>2 DEF Sent
      <4>2. PICK q : q = queue'
        OBVIOUS
      <4>3. q \in Seq(Msg) /\ DOMAIN q = {}
        BY <2>2, <4>1, <4>2 DEF Sent
      <4>4. q = << >>
        BY <4>3
      <4> QED BY <4>2, <4>4
    <3>2. WayMsg(Lat)'.type = "none"
      BY <3>1, Places DEF WayMsg, NoMsg
    <3>4. Len(queue') <= 1
      BY <3>1
    <3>5. \A p \in Pos : WayMsg(p)'.type \in {"none", "redirect"}
      BY <2>1, <3>2, EdgeWay, Places
    <3> QED BY <3>1, <3>2, <3>4, <3>5
  <2>3. CASE Idle \/ Waits
    <3>1. ~Sends /\ Len(queue') <= 1 /\ (queue' # << >> => queue # << >>)
      <4>1. CASE Idle
        BY <2>1, <4>1 DEF Idle
      <4>2. CASE Waits
        <5>1. PICK L : L = Len(queue')
          OBVIOUS
        <5>2. L <= 1
          BY <2>1, <4>2, <5>1 DEF Waits
        <5> QED BY <4>2, <5>1, <5>2 DEF Waits
      <4> QED BY <2>3, <4>1, <4>2
    <3>2. WayMsg(Lat)'.type = WayMsg(Lat).type
      BY <3>1, EdgeWay
    <3>3. \A p \in Pos : WayMsg(p)'.type \in {"none", "redirect"}
      BY <2>1, <3>2, EdgeWay, Places
    <3>4. queue' # << >> => Redir(Lat)'
      BY <2>1, <3>1, <3>2 DEF Redir
    <3> QED BY <3>1, <3>3, <3>4
  <2> QED BY <1>1, <2>2, <2>3
<1>7. ASSUME Quiet \/ Dark PROVE OnlyNotices'
  <2>1. OnlyNotices /\ freeMask = {}
    <3>1. ~Up
      BY <1>7 DEF Up, Dark, Running, Quiet
    <3> QED BY <1>7, <3>1 DEF Modes
  <2>2. Bundle.msg.type \in {"none", "notice"}
    BY <2>1, EdgeFrom DEF OnlyNotices, NoMsg
  <2>3. \A p \in Chan : toFet'[p].msg.type \in {"none", "notice"} /\ toFet'[p].free = {}
    BY <2>1, <2>2, EdgeFrom DEF OnlyNotices
  <2>4. \A i \in DOMAIN queue' : queue'[i].type = "notice"
    BY <2>1, EdgeFrom DEF OnlyNotices
  <2> QED BY <2>3, <2>4 DEF OnlyNotices
<1>8. st' = "free" => decq' = << >>
  BY <1>3 DEF Modes
<1> QED BY <1>2, <1>4, <1>5, <1>6, <1>7, <1>8 DEF Modes

\* The timer starts with each notice or beat that is sent, and counts down
\* with what the channel has left.
LEMMA EdgeDown ==
  ASSUME IInv, SendRedirect, SquashDue, st' = st
  PROVE  DownQueue' /\ timer' \in 0..Lat /\ rewindPending' \in 0..1 /\ noticeSent' \in BOOLEAN
<1> USE DEF IInv
<1>1. Moved /\ (Idle \/ Waits \/ Sent)
  BY MovedIs, SentIs
<1>2. /\ noticeSent' = (noticeSent \/ Owing(Bundle.msg))
      /\ timer' = IF Owing(Bundle.msg) THEN Lat - 1 ELSE IF timer > 0 THEN timer - 1 ELSE 0
      /\ rewindPending' = RewindAfter(Bundle.msg)
      /\ noticeSent \in BOOLEAN /\ timer \in 0..Lat /\ rewindPending \in 0..1
  BY DEF SendRedirect, TypeOK
<1>3. PICK w, t : w = rewindPending' /\ t = timer'
  OBVIOUS
<1>4. /\ Owing(Bundle.msg) => t = Lat - 1
      /\ ~Owing(Bundle.msg) => t = IF timer > 0 THEN timer - 1 ELSE 0
      /\ t \in 0..Lat
  <2>1. Lat \in Nat /\ Lat >= 1
    BY Places, EpochAssumption
  <2> QED BY <1>2, <1>3, <2>1
<1>5. w \in 0..1
  <2>1. rewindPending > 0 => rewindPending - 1 \in 0..1
    BY <1>2
  <2> QED BY <1>2, <1>3, <2>1 DEF RewindAfter
<1>6. SUFFICES ASSUME Down
               PROVE  DownQueue'
  <2>1. noticeSent' \in BOOLEAN
    BY <1>2
  <2> QED BY <1>3, <1>4, <1>5, <2>1 DEF DownQueue, Down
<1>7. freeMask = {} /\ st # "free"
  BY <1>6 DEF Modes, Up, Running, Down
<1>8. /\ \A p \in Chan : p + 1 \in Chan \/ p = Lat - 1
      /\ \A p \in Chan : p \in Nat /\ p >= 1 /\ p <= Lat - 1
  BY Places DEF Chan
<1>9. /\ DOMAIN queue = 1..Len(queue) /\ Len(queue) \in Nat /\ \A i \in DOMAIN queue : queue[i] \in Msg
      /\ queue # << >> => 1 \in DOMAIN queue /\ Head(queue) = queue[1]
  BY Typed
<1>10. /\ \A i \in DOMAIN queue :
            /\ queue[i].type = "redirect" => i = 1 /\ ~noticeSent
            /\ queue[i].type # "redirect" => Ends(queue[i])
            /\ queue[i].type = "beat" => rewindPending = 1
            /\ \A j \in DOMAIN queue :
                 i < j /\ queue[j].type = "beat" => queue[i].type # "beat"
       /\ noticeSent => \A p \in Chan :
            toFet[p].msg.type \notin {"none", "notice"} \/ toFet[p].free # {} => p <= timer
  BY <1>6 DEF DownQueue
<1>11. ASSUME ~Owing(Bundle.msg), noticeSent,
              Bundle.msg.type = "none", NEW p \in Chan,
              toFet'[p].msg.type \notin {"none", "notice"} \/ toFet'[p].free # {}
       PROVE  p <= t
  <2>1. p # Lat - 1
    BY <1>1, <1>7, <1>11 DEF Moved
  <2>2. p + 1 \in Chan
    BY <1>8, <2>1
  <2>3. toFet'[p] = toFet[p + 1]
    BY <1>1, <2>2 DEF Moved
  <2>4. p + 1 <= timer
    BY <1>10, <1>11, <2>2, <2>3
  <2> QED BY <1>2, <1>4, <1>8, <1>11, <2>4
<1>12. CASE Idle
  <2>1. ~Owing(Bundle.msg) /\ Bundle.msg.type = "none" /\ queue' = << >> /\ DOMAIN queue' = {}
    BY <1>12 DEF Idle, Owing, NoMsg
  <2>2. noticeSent' = noticeSent
    BY <1>2, <2>1
  <2>3. noticeSent => \A p \in Chan :
          toFet'[p].msg.type \notin {"none", "notice"} \/ toFet'[p].free # {} => p <= t
    BY <1>11, <2>1
  <2> QED BY <1>3, <2>1, <2>2, <2>3 DEF DownQueue
<1>13. CASE Waits
  <2>1. ~Owing(Bundle.msg) /\ Bundle.msg.type = "none"
    BY <1>13 DEF Waits, Owing, NoMsg
  <2>2. noticeSent' = noticeSent /\ rewindPending' = rewindPending
    BY <1>2, <2>1 DEF RewindAfter
  <2>3. noticeSent => \A p \in Chan :
          toFet'[p].msg.type \notin {"none", "notice"} \/ toFet'[p].free # {} => p <= t
    BY <1>11, <2>1
  <2>4. DOMAIN queue' = DOMAIN queue /\ \A i \in DOMAIN queue : queue'[i].type = queue[i].type
    BY <1>13 DEF Waits
  <2>5. \A i \in DOMAIN queue : Ends(queue'[i]) <=> Ends(queue[i])
    BY <2>4 DEF Ends
  <2> QED BY <1>3, <1>10, <2>2, <2>3, <2>4, <2>5 DEF DownQueue
<1>14. CASE Sent
  <2>1. PICK n, m : n = Len(queue) /\ m = queue[1]
    OBVIOUS
  <2>2. /\ n \in Nat /\ DOMAIN queue = 1..n /\ DOMAIN queue' = 1..n - 1 /\ Len(queue') = n - 1
        /\ \A i \in 1..n - 1 : queue'[i] = queue[i + 1]
        /\ Bundle.msg = m /\ 1 \in DOMAIN queue
    BY <1>9, <1>14, <2>1 DEF Sent
  <2>4. \A i \in 1..n - 1 : /\ i + 1 \in DOMAIN queue /\ queue'[i] = queue[i + 1]
                            /\ i + 1 # 1 /\ 1 < i + 1
                            /\ \A j \in 1..n - 1 : i < j => i + 1 < j + 1
    BY <2>2
  <2>5. ASSUME NEW i \in 1..n - 1
        PROVE  /\ queue'[i].type # "redirect" /\ Ends(queue'[i])
               /\ queue'[i].type = "beat" => rewindPending = 1 /\ m.type # "beat"
               /\ \A j \in 1..n - 1 :
                    i < j /\ queue'[j].type = "beat" => queue'[i].type # "beat"
    <3>1. PICK k \in DOMAIN queue : k = i + 1 /\ queue'[i] = queue[k] /\ 1 < k /\ k # 1
      BY <2>4
    <3>2. /\ queue[k].type # "redirect" /\ Ends(queue[k])
          /\ queue[k].type = "beat" => rewindPending = 1 /\ m.type # "beat"
      BY <1>10, <2>1, <2>2, <3>1
    <3>3. ASSUME NEW j \in 1..n - 1, i < j, queue'[j].type = "beat"
          PROVE  queue'[i].type # "beat"
      <4>1. PICK l \in DOMAIN queue : l = j + 1 /\ queue'[j] = queue[l] /\ k < l
        BY <2>4, <3>1, <3>3
      <4> QED BY <1>10, <3>1, <3>3, <4>1
    <3> QED BY <3>1, <3>2, <3>3
  <2>6. m.type # "beat" => rewindPending' = rewindPending
    BY <1>2, <2>2 DEF RewindAfter
  <2>7. CASE ~Ends(m)
    <3>1. m.type = "redirect" /\ ~noticeSent
      BY <1>10, <2>1, <2>2, <2>7
    <3>2. ~noticeSent'
      BY <1>2, <2>2, <3>1 DEF Owing
    <3> QED BY <2>2, <2>5, <2>6, <3>1, <3>2 DEF DownQueue
  <2>8. CASE Ends(m)
    <3>1. Owing(Bundle.msg) /\ t = Lat - 1
      BY <1>4, <1>7, <2>2, <2>8 DEF Owing, Ends
    <3>2. \A p \in Chan : p <= t
      BY <1>8, <3>1
    <3> QED BY <1>3, <2>2, <2>5, <2>6, <3>2 DEF DownQueue
  <2> QED BY <2>7, <2>8
<1> QED BY <1>1, <1>12, <1>13, <1>14

\* All a dark warp is sent stays out of date: only notices land, and the one
\* that changes FET's epoch stops it.
LEMMA EdgeOutdated ==
  ASSUME IInv, SendRedirect, SquashDue, FetTake(toFet[1]), st' = st, pipe' = pipe
  PROVE  Outdated'
<1> USE DEF IInv
<1>1. SUFFICES ASSUME Dark PROVE Outdated'
  BY EdgeUp DEF Outdated
<1>2. OnlyNotices /\ ~due.on
  <2>1. ~Up
    BY <1>1 DEF Up, Dark
  <2> QED BY <1>1, <2>1 DEF Modes
<1>3. decq' = decq /\ epoch' = epoch
  BY <1>2 DEF SquashDue
<1>4. Uops' = Uops /\ \A i : UopAt(i)' = UopAt(i)
  BY <1>3 DEF Uops, UopAt
<1>5. 1 \in Chan /\ toFet[1].msg.type \in {"none", "notice"} /\ WayMsg(1) = toFet[1].msg
  BY <1>2, Places DEF OnlyNotices, WayMsg
<1>6. fetching' = (fetching /\ toFet[1].msg.type # "notice")
  BY DEF FetTake
<1>7. ASSUME fetching' PROVE fetEpoch' # epoch'
  <2>1. fetching /\ fetEpoch' = fetEpoch
    BY <1>5, <1>6, <1>7 DEF FetTake
  <2> QED BY <1>1, <1>3, <2>1 DEF Outdated
<1>8. ASSUME ~fetching' PROVE live' = << >>
  <2>1. live' \in Seq(Ckpt) /\ \A c : c \notin Rng(live')
    <3>1. CASE fetching
      <4>1. WayMsg(1).type = "notice"
        BY <1>5, <1>6, <1>8, <3>1
      <4> QED BY <4>1, EdgeLive
    <3>2. CASE ~fetching
      <4>1. live = << >>
        BY <1>1, <3>2 DEF Outdated
      <4> QED BY <4>1, NoneIs, EdgeLive
    <3> QED BY <3>1, <3>2
  <2> SUFFICES ASSUME live' # << >> PROVE FALSE
    OBVIOUS
  <2>2. PICK s : s = live'
    OBVIOUS
  <2>3. s[1] \in Rng(s)
    <3>1. s \in Seq(Ckpt) /\ s # << >>
      BY <2>1, <2>2
    <3>2. 1 \in DOMAIN s
      BY <3>1
    <3> QED BY <3>2 DEF Rng
  <2>4. Rng(s) = Rng(live')
    BY <2>2
  <2> QED BY <2>1, <2>3, <2>4
<1> QED BY <1>1, <1>3, <1>4, <1>7, <1>8 DEF Outdated

\* The edge lands a bundle, sends one and acts on a due squash.
LEMMA EdgeStep ==
  ASSUME IInv, Edge
  PROVE  IInv'
<1>1. /\ SendRedirect /\ SquashDue /\ FetTake(Head(Line)) /\ phase' = "take"
      /\ st' = st /\ held' = held /\ pipe' = pipe
  BY DEF Edge
<1>2. TypeOK
  BY DEF IInv
<1>3. Moved /\ (Idle \/ Waits \/ Sent)
  BY <1>1, <1>2, MovedIs, SentIs
<1>4. FetTake(toFet[1])
  BY <1>1, <1>3 DEF Moved
<1>5. TypeOK'
  <2>1. epoch' \in Epoch /\ st' \in State /\ held' \in BOOLEAN
    BY <1>1, <1>2, EdgeSquash, Typed DEF TypeOK
  <2>2. br' \in Seq(Ckpt) /\ Len(br') <= Cardinality(Ckpt)
    BY <1>1, EdgeSquash
  <2>3. due' \in [on : BOOLEAN, keep : 0 .. Cardinality(Ckpt)] /\ ~due'.on
    BY <1>1, EdgeSquash
  <2>4. freeMask' \subseteq Ckpt
    BY <1>1 DEF SendRedirect
  <2>5. decq' \in Seq(Uop) /\ Len(decq') <= MaxDecq
    <3>1. decq' = IF due.on THEN << >> ELSE decq
      BY <1>1, EdgeSquash
    <3> QED BY <1>2, <3>1, EpochAssumption, EmptySeq DEF TypeOK
  <2>6. queue' \in Seq(Msg)
    <3>1. << >> \in Seq(Msg)
      BY EmptySeq
    <3> QED BY <1>3, <3>1 DEF Idle, Waits, Sent
  <2>7. noticeSent' \in BOOLEAN /\ timer' \in 0..Lat /\ rewindPending' \in 0..1
    BY <1>1, EdgeDown
  <2>8. toFet' \in Seq([msg : Msg, free : SUBSET Ckpt]) /\ Len(toFet') = Lat - 1
    BY <1>3 DEF Moved
  <2>9. fetEpoch' \in Epoch /\ fetching' \in BOOLEAN
    <3>1. 1 \in Chan
      BY EpochAssumption DEF Chan
    <3>2. toFet[1].msg \in Msg
      BY <1>2, <3>1, Typed
    <3>3. toFet[1].msg.ep \in Epoch
      BY <3>2 DEF Msg
    <3> QED BY <1>2, <1>4, <3>3 DEF FetTake, TypeOK
  <2>10. live' \in Seq(Ckpt)
    BY <1>4, EdgeLive
  <2>11. pipe' \in Seq(Uop) /\ Len(pipe') <= MaxPipe
    BY <1>1, <1>2 DEF TypeOK
  <2> QED BY ONLY <1>1, <2>1, <2>2, <2>3, <2>4, <2>5, <2>6, <2>7, <2>8, <2>9, <2>10, <2>11, Zenon DEF TypeOK
<1>6. Landings' /\ EpochsGiven' /\ Branches' /\ UopsInTurn' /\ Mirrored' /\ Outdated'
  BY <1>1, <1>4, EdgeLandings, EdgeGiven, EdgeBranches, EdgeUops, EdgeMirrored, EdgeOutdated
<1>7. Modes' /\ DownQueue'
  BY <1>1, <1>4, EdgeModes, EdgeDown
<1> QED BY <1>5, <1>6, <1>7 DEF IInv

----------------------------------------------------------------------------
(* The theorems.                                                           *)

LEMMA StutterStep ==
  ASSUME IInv, UNCHANGED vars
  PROVE  IInv'
<1> USE DEF IInv
<1>1. UNCHANGED <<epoch, st, br, due, freeMask, decq, held, queue, noticeSent, timer,
                  rewindPending, toFet, fetEpoch, live, fetching, pipe, phase>>
  BY DEF vars, oweVars, fetVars
<1>2. /\ Up' = Up /\ Dark' = Dark /\ OnlyNotices' = OnlyNotices
      /\ Down' = Down /\ Quiet' = Quiet
  BY <1>1, SameModes DEF Running, Down, Quiet
<1>3. Landings' /\ EpochsGiven' /\ Branches' /\ UopsInTurn' /\ Mirrored'
      /\ \A p : WayMsg(p)' = WayMsg(p) /\ WayFree(p)' = WayFree(p) /\ Redir(p)' = Redir(p)
  BY <1>1, <1>2, QuietStep
<1>4. TypeOK'
  BY <1>1 DEF TypeOK
<1>5. Modes' /\ DownQueue'
  BY <1>1, <1>2, <1>3 DEF Modes, DownQueue
<1>6. Outdated'
  BY <1>1, <1>2, SameOutdated
<1> QED BY <1>3, <1>4, <1>5, <1>6

\* The invariant is inductive.
LEMMA NextIInv ==
  ASSUME IInv, [Next]_vars
  PROVE  IInv'
<1>1. CASE Fetch
  BY <1>1, FetchStep
<1>2. CASE Resolve
  BY <1>2, ResolveStep
<1>3. CASE NoResolve \/ RenameEnd \/ Land \/ Activate
  BY <1>3, PhaseStep
<1>4. CASE Launch
  BY <1>4, LaunchStep
<1>5. CASE Demote \/ Kill
  BY <1>5, SquashStep
<1>6. CASE Free
  BY <1>6, FreeStep
<1>7. CASE Progress
  BY <1>7, ProgressStep
<1>8. CASE Rename
  BY <1>8, RenameStep
<1>9. CASE Arrive
  BY <1>9, ArriveStep
<1>10. CASE Edge
  BY <1>10, EdgeStep
<1>11. CASE UNCHANGED vars
  BY <1>11, StutterStep
<1> QED BY <1>1, <1>2, <1>3, <1>4, <1>5, <1>6, <1>7, <1>8, <1>9, <1>10, <1>11, Zenon DEF Next

LEMMA SpecIInv == Spec => []IInv
<1>1. Init => IInv
  BY InitIInv
<1>2. IInv /\ [Next]_vars => IInv'
  BY NextIInv
<1> QED BY <1>1, <1>2, PTL DEF Spec

\* V-53: no uop of a path OOE has ended is renamed, however many squashes
\* passed while it was on its way, but for the cycle its squash is due in.
THEOREM StaleNeverRenamed == Spec => []NoStaleRename
<1>1. IInv => NoStaleRename
  <2> USE DEF IInv
  <2>1. SUFFICES ASSUME IInv, st = "active", decq # << >>,
                        Head(decq).ep = epoch, Head(decq).stale, ~due.on
                 PROVE  FALSE
    BY DEF NoStaleRename
  <2>2. 1 \in Uops /\ UopAt(1) = Head(decq)
    <3>1. decq \in Seq(Uop) /\ Len(pipe) \in Nat
      BY <2>1, Typed DEF TypeOK
    <3>2. Head(decq) = decq[1] /\ Len(decq) \in Nat /\ Len(decq) >= 1
      BY <2>1, <3>1, EmptySeq
    <3> QED BY <3>1, <3>2 DEF Uops, UopAt
  <2>a. Up
    <3>1. Up \/ Dark
      BY <2>1 DEF Up, Dark, Running
    <3> QED BY <2>1, <2>2, <3>1 DEF Outdated
  <2>3. Behind(UopAt(1).ep)
    BY <2>1, <2>2, <2>a DEF UopsInTurn
  <2>4. UopAt(1).ep \in Epoch
    BY <2>1, <2>2, Typed DEF Uop
  <2>5. PICK e : e = UopAt(1).ep
    OBVIOUS
  <2>6. e # epoch
    BY <2>1, <2>3, <2>4, <2>5, BehindIs
  <2> QED BY <2>1, <2>2, <2>5, <2>6
<1> QED BY <1>1, SpecIInv, PTL

\* V-56 and V-08: whenever nothing is on its way, the two blocks hold the
\* same epoch and the same checkpoints.
THEOREM MirrorsAgree == Spec => []MirrorAgrees
<1>1. IInv => EpochsAgree
  <2>1. SUFFICES ASSUME IInv, Outstanding = {}
                 PROVE  fetEpoch = epoch
    BY DEF EpochsAgree
  <2>2. ~Later(0) /\ ~due.on
    BY <2>1, Signals DEF IInv
  <2>3. 0 \in 0..Lat - 1
    BY EpochAssumption
  <2> QED BY <2>1, <2>2, <2>3 DEF IInv, EpochsGiven, Gives, Given, NowEpoch
<1>2. IInv => CkptMirror
  <2>1. SUFFICES ASSUME IInv, Outstanding = {}, st = "active"
                 PROVE  Rng(live) = Rng(br) \cup Carried(pipe) \cup Carried(decq) \cup freeMask
                                      \cup UNION {toFet[i].free : i \in DOMAIN toFet}
    BY DEF CkptMirror
  <2> USE DEF IInv
  <2>a. NoNotice
    <3>1. ~Later(0)
      BY <2>1, Signals
    <3>2. DOMAIN toFet = Chan /\ \A p \in Chan : 0 < p
      BY <2>1, Typed DEF Chan
    <3> QED BY <3>1, <3>2 DEF NoNotice, Later, Sig
  <2>b. CASE Dark
    <3>1. live = << >> /\ br = << >> /\ freeMask = {} /\ OnlyNotices
      <4>1. ~fetching /\ ~Up
        BY <2>a, <2>b DEF Dark, Up
      <4> QED BY <2>1, <2>b, <4>1 DEF Outdated, Modes
    <3>2. \A i \in DOMAIN toFet : toFet[i].free = {}
      BY <2>1, <3>1, Typed DEF OnlyNotices
    <3>3. \A i \in Uops : UopAt(i).stale
      BY <2>1, <2>b DEF Outdated
    <3>4. \A u \in Rng(pipe) \cup Rng(decq) : u.stale
      <4>1. /\ DOMAIN decq = 1..Len(decq) /\ DOMAIN pipe = 1..Len(pipe)
            /\ Len(decq) \in Nat /\ Len(pipe) \in Nat
        BY <2>1 DEF TypeOK
      <4>2. ASSUME NEW i \in DOMAIN decq PROVE i \in Uops /\ UopAt(i) = decq[i]
        BY <4>1, <4>2 DEF Uops, UopAt
      <4>3. ASSUME NEW i \in DOMAIN pipe
            PROVE  Len(decq) + i \in Uops /\ UopAt(Len(decq) + i) = pipe[i]
        BY <4>1, <4>3 DEF Uops, UopAt
      <4> QED BY <3>3, <4>2, <4>3 DEF Rng
    <3>5. Carried(pipe) = {} /\ Carried(decq) = {}
      BY <3>4 DEF Carried
    <3>6. Rng(live) = {} /\ Rng(br) = {}
      BY <3>1, NoneIs
    <3>7. UNION {toFet[i].free : i \in DOMAIN toFet} = {}
      BY <3>2
    <3> QED BY <3>1, <3>5, <3>6, <3>7
  <2>c. SUFFICES ASSUME Up
                 PROVE  Rng(live) = Rng(br) \cup Carried(pipe) \cup Carried(decq) \cup freeMask
                                      \cup UNION {toFet[i].free : i \in DOMAIN toFet}
    BY <2>1, <2>b DEF Up, Dark, Running
  <2>2. Up /\ ~due.on /\ \A p \in Pos : ~Redir(p)
    BY <2>1, <2>c, Signals
  <2>3. /\ DOMAIN toFet = Chan /\ DOMAIN br = 1..Len(br) /\ Kept = Len(br)
        /\ DOMAIN decq = 1..Len(decq) /\ DOMAIN pipe = 1..Len(pipe)
        /\ Len(decq) \in Nat /\ Len(pipe) \in Nat
    BY <2>1, <2>2, Typed DEF Kept, TypeOK
  <2>4. \A p \in Pos : WayFree(p) = IF p \in Chan THEN toFet[p].free ELSE freeMask
    BY DEF WayFree
  <2>5. Lat \in Pos /\ Lat \notin Chan /\ \A p \in Chan : p \in Pos
    BY Places
  <2>6. \A c : c \in Carried(pipe) \cup Carried(decq) <=>
               c # None /\ \E i \in Uops : ~UopAt(i).stale /\ UopAt(i).ck = c
    <3>1. ASSUME NEW i \in DOMAIN decq PROVE i \in Uops /\ UopAt(i) = decq[i]
      BY <2>3, <3>1 DEF Uops, UopAt
    <3>2. ASSUME NEW i \in DOMAIN pipe
          PROVE  Len(decq) + i \in Uops /\ UopAt(Len(decq) + i) = pipe[i]
      BY <2>3, <3>2 DEF Uops, UopAt
    <3>3. ASSUME NEW i \in Uops
          PROVE  (i \in DOMAIN decq /\ UopAt(i) = decq[i])
                 \/ (i - Len(decq) \in DOMAIN pipe /\ UopAt(i) = pipe[i - Len(decq)])
      BY <2>3, <3>3 DEF Uops, UopAt
    <3> QED BY <3>1, <3>2, <3>3 DEF Carried, Rng
  <2>7. ASSUME NEW c \in Rng(live)
        PROVE  c \in Rng(br) \/ c \in Carried(pipe) \cup Carried(decq) \/ c \in freeMask
               \/ \E i \in DOMAIN toFet : c \in toFet[i].free
    <3>1. Owned(c)
      BY <2>1, <2>2, <2>7 DEF Mirrored, Survives
    <3>2. c # None
      BY <2>1, <2>7, EpochAssumption DEF TypeOK, Rng
    <3> QED BY <2>3, <2>4, <2>6, <3>1, <3>2 DEF Owned, Rng
  <2>8. ASSUME NEW c, c \in Carried(pipe) \cup Carried(decq)
        PROVE  c \in Rng(live)
    <3>1. PICK i \in Uops : ~UopAt(i).stale /\ UopAt(i).ck = c /\ c # None
      BY <2>6, <2>8
    <3> QED BY <2>1, <2>2, <3>1 DEF UopsInTurn, Fresh
  <2>9. /\ \A c \in Rng(br) : c \in Rng(live)
        /\ \A c \in freeMask : c \in Rng(live)
        /\ \A i \in DOMAIN toFet : \A c \in toFet[i].free : c \in Rng(live)
    BY <2>1, <2>2, <2>3, <2>4, <2>5 DEF Branches, Landings, Rng
  <2>10. \A c : c \in UNION {toFet[i].free : i \in DOMAIN toFet}
                <=> \E i \in DOMAIN toFet : c \in toFet[i].free
    OBVIOUS
  <2> QED BY ONLY <2>7, <2>8, <2>9, <2>10
<1>3. IInv => MirrorAgrees
  BY <1>1, <1>2 DEF MirrorAgrees, IInv
<1> QED BY <1>3, SpecIInv, PTL

\* What lands at an edge names checkpoints FET has live.
LEMMA LandsLive ==
  ASSUME IInv, Edge
  PROVE  /\ Head(Line).msg.type = "redirect" => Head(Line).msg.ck \in Rng(live)
         /\ Head(Line).free \subseteq Rng(Restored(Head(Line).msg))
<1> USE DEF IInv
<1>1. Head(Line) = toFet[1]
  BY MovedIs DEF Edge, Moved
<1>2. 1 \in Chan /\ 1 \in Pos
  BY EpochAssumption DEF Chan, Pos
<1>3. WayMsg(1) = toFet[1].msg /\ WayFree(1) = toFet[1].free
  BY <1>2 DEF WayMsg, WayFree
<1>4. ASSUME NEW c \in toFet[1].free
      PROVE  c \in Rng(Restored(toFet[1].msg))
  <2>1. c \in Rng(live) /\ WayMsg(1).type # "notice"
        /\ (Redir(1) => WayMsg(1).ck \in Rng(live) /\ Older(live, c, WayMsg(1).ck))
    BY <1>2, <1>3, <1>4 DEF Landings
  <2>2. CASE ~Redir(1)
    BY <1>3, <2>1, <2>2 DEF Redir, Restored
  <2>3. CASE Redir(1)
    <3>1. Restored(toFet[1].msg) = Before(live, WayMsg(1).ck)
      BY <1>3, <2>1, <2>3 DEF Restored, Redir, Before
    <3>2. live \in Seq(Ckpt) /\ Distinct(live)
      BY DEF TypeOK, Landings
    <3>3. c \in Rng(Before(live, WayMsg(1).ck))
      BY <2>1, <2>3, <3>2, BeforeIs
    <3> QED BY <3>1, <3>3
  <2> QED BY <2>2, <2>3
<1> QED BY <1>1, <1>2, <1>3, <1>4 DEF Landings, Redir

\* V-46: no free or redirect lands without its checkpoint.
THEOREM FreesLandLive == Spec => FreesLive
<1>1. ASSUME IInv, [Next]_vars, phase = "arrive", phase' = "take"
      PROVE  Edge
  BY <1>1 DEF Next, Fetch, Resolve, NoResolve, Land, Launch, Activate, Demote, Kill, Free,
     Progress, Rename, RenameEnd, Arrive, vars
<1>2. IInv /\ [Next]_vars =>
        [(phase = "arrive" /\ phase' = "take") =>
           /\ Head(Line).msg.type = "redirect" => Head(Line).msg.ck \in Rng(live)
           /\ Head(Line).free \subseteq Rng(Restored(Head(Line).msg))]_vars
  BY <1>1, LandsLive
<1> QED BY <1>2, SpecIInv, PTL DEF Spec, FreesLive

----------------------------------------------------------------------------
(* A kill in turn finds a demotion's messages sent.  What is queued behind *)
(* a notice is then its beat alone, so that the timer, once it runs, covers*)
(* all that is left, and no warp rests or runs with a notice on its way.   *)

TurnInv ==
  /\ Running => Up
  /\ Quiet => queue = << >> /\ \A p \in Chan : toFet[p].msg.type = "none"
  /\ Down => /\ \A i, j \in DOMAIN queue : i < j /\ Ends(queue[i]) => queue[j].type = "beat"
             /\ noticeSent => /\ \A i \in DOMAIN queue : queue[i].type = "beat"
                              /\ \A p \in Chan : toFet[p].msg.type # "none" => p <= timer

\* The steps that leave the queue and the channel alone.
LEMMA SameTurn ==
  ASSUME TurnInv, UNCHANGED <<queue, toFet, noticeSent, timer, fetching>>,
         Running' = Running, Down' = Down, Quiet' = Quiet
  PROVE  TurnInv'
<1>1. Up' = Up
  BY SameModes
<1> QED BY <1>1 DEF TurnInv

LEMMA InitTurn ==
  ASSUME Init
  PROVE  TurnInv
<1>1. Quiet /\ ~Down /\ ~Running /\ queue = << >>
  BY DEF Init, Quiet, Down, Running
<1>2. NoMsg.type = "none"
  BY DEF NoMsg
<1>3. \A p \in Chan : toFet[p].msg = NoMsg
  BY DEF Init, Chan
<1> QED BY <1>1, <1>2, <1>3 DEF TurnInv

\* A notice joins a queue of redirects, and a beat joins it.
LEMMA SquashTurn ==
  ASSUME IInv, SquashQueues, ~noticeSent', st' \in {"demoting", "killing"},
         \A i \in DOMAIN queue : queue[i].type = "redirect"
  PROVE  TurnInv'
<1>1. Down' /\ ~Running' /\ ~Quiet'
  BY DEF Down, Running, Quiet
<1>2. PICK n, L : n = Len(queue) /\ L = Len(queue')
  OBVIOUS
<1>3. /\ DOMAIN queue' = 1..L /\ n \in Nat /\ DOMAIN queue = 1..n
      /\ \A i \in 1..n : queue'[i] = queue[i]
      /\ L = n + 1 \/ (L = n + 2 /\ queue'[n + 2].type = "beat")
  BY <1>2, Typed DEF SquashQueues, IInv
<1>4. ASSUME NEW i \in 1..L, NEW j \in 1..L, i < j, Ends(queue'[i])
      PROVE  queue'[j].type = "beat"
  <2>1. i \notin 1..n
    <3> SUFFICES ASSUME i \in 1..n PROVE FALSE
      OBVIOUS
    <3>1. queue'[i].type = "redirect"
      BY <1>3
    <3> QED BY <1>4, <3>1 DEF Ends
  <2>2. L = n + 2 /\ j = n + 2
    BY <1>3, <1>4, <2>1
  <2>3. n + 1 # n + 2
    BY <1>3
  <2> QED BY <1>3, <2>2, <2>3
<1> QED BY <1>1, <1>3, <1>4 DEF TurnInv

LEMMA SquashInTurn ==
  ASSUME IInv, TurnInv, KillInTurn, Demote \/ Kill
  PROVE  TurnInv'
<1> USE DEF IInv
<1>1. /\ SquashToRetirement /\ st' \in {"demoting", "killing"}
      /\ Demote => st = "active"
      /\ Kill => st' = "killing" /\ st \notin {"free", "killing"}
  BY DEF Demote, Kill
<1>2. SquashQueues /\ ~noticeSent'
  BY <1>1, DemoteQueues, KillQueues DEF SquashToRetirement
<1>3. Up \/ queue = << >>
  <2>1. CASE Running
    BY <2>1 DEF TurnInv
  <2>2. CASE Quiet
    BY <2>2 DEF TurnInv
  <2>3. CASE st = "demoting"
    BY <1>1, <2>3 DEF KillInTurn
  <2> QED BY <1>1, <2>1, <2>2, <2>3 DEF TypeOK, State, Running, Quiet
<1>4. \A i \in DOMAIN queue : queue[i].type = "redirect"
  <2>1. ASSUME NEW i \in DOMAIN queue PROVE Up /\ queue # << >> /\ i = 1
    <3>1. queue # << >>
      OBVIOUS
    <3>2. Up
      BY <1>3, <3>1
    <3>3. Len(queue) <= 1 /\ Len(queue) \in Nat /\ DOMAIN queue = 1..Len(queue)
      BY <3>2, Typed DEF Modes
    <3> QED BY <3>1, <3>2, <3>3
  <2> QED BY <2>1, Typed, Places DEF Modes, Redir, WayMsg
<1> QED BY <1>1, <1>2, <1>4, SquashTurn

\* Once a notice has landed nothing is on its way.
LEMMA LandedNone ==
  ASSUME IInv, TurnInv, Down, Landed
  PROVE  queue = << >> /\ \A p \in Chan : toFet[p].msg.type = "none"
<1> USE DEF IInv
<1>1. noticeSent /\ rewindPending = 0 /\ timer = 0
  BY DEF Landed
<1>2. ASSUME NEW i \in DOMAIN queue PROVE FALSE
  <2>1. queue[i].type = "beat"
    BY <1>1 DEF TurnInv
  <2> QED BY <1>1, <2>1 DEF DownQueue
<1>3. queue = << >>
  BY <1>2, Typed
<1>4. ASSUME NEW p \in Chan PROVE toFet[p].msg.type = "none"
  <2>1. toFet[p].msg.type # "none" => p <= 0
    BY <1>1 DEF TurnInv
  <2>2. ~(p <= 0)
    BY DEF Chan
  <2> QED BY <2>1, <2>2
<1> QED BY <1>3, <1>4

LEMMA ProgressInTurn ==
  ASSUME IInv, TurnInv, Progress
  PROVE  TurnInv'
<1> USE DEF IInv
<1>1. UNCHANGED <<queue, toFet, fetching>>
  BY DEF Progress, fetVars
<1>2. CASE Landed /\ Down /\ st' \in {"free", "drained"}
  <2>1. queue = << >> /\ \A p \in Chan : toFet[p].msg.type = "none"
    BY <1>2, LandedNone
  <2>2. Quiet' /\ ~Running' /\ ~Down'
    BY <1>2 DEF Quiet, Running, Down
  <2> QED BY <1>1, <2>1, <2>2 DEF TurnInv
<1>3. CASE ~(Landed /\ Down /\ st' \in {"free", "drained"})
  <2>1. UNCHANGED <<st, noticeSent, timer>>
    BY <1>3 DEF Progress, ReleaseSlot, Down, oweVars
  <2> QED BY <1>1, <2>1, SameTurn DEF Running, Down, Quiet
<1> QED BY <1>2, <1>3

LEMMA FreeInTurn ==
  ASSUME IInv, TurnInv, Free
  PROVE  TurnInv'
<1> USE DEF IInv
<1>1. /\ UNCHANGED <<queue, toFet>> /\ st' = "free"
      /\ st = "drained" \/ Finished
  BY DEF Free, ReleaseSlot
<1>2. queue = << >> /\ \A p \in Chan : toFet[p].msg.type = "none"
  <2>1. CASE st = "drained"
    BY <2>1 DEF TurnInv, Quiet
  <2>2. CASE Finished
    BY <2>2, Typed DEF Finished, NoMsg
  <2> QED BY <1>1, <2>1, <2>2
<1>3. Quiet' /\ ~Running' /\ ~Down'
  BY <1>1 DEF Quiet, Running, Down
<1> QED BY <1>1, <1>2, <1>3 DEF TurnInv

LEMMA LaunchInTurn ==
  ASSUME IInv, TurnInv, Launch
  PROVE  TurnInv'
<1> USE DEF IInv
<1>1. /\ UNCHANGED <<queue, toFet>> /\ fetching' = TRUE
      /\ st = "free" /\ st' \in {"active", "allocated"}
  BY DEF Launch
<1>2. queue = << >> /\ \A p \in Chan : toFet[p].msg.type = "none"
  BY <1>1 DEF TurnInv, Quiet
<1>3. NoNotice'
  <2>1. DOMAIN toFet = Chan /\ DOMAIN queue = {}
    BY <1>2, Typed
  <2> QED BY <1>1, <1>2, <2>1 DEF NoNotice
<1>4. Up' /\ Running' /\ ~Quiet' /\ ~Down'
  BY <1>1, <1>3 DEF Up, Running, Quiet, Down
<1> QED BY <1>4 DEF TurnInv

LEMMA ResolveInTurn ==
  ASSUME IInv, Resolve
  PROVE  TurnInv'
<1>1. PICK k \in DOMAIN br : ResolveRight(k) \/ ResolveWrong(k)
  BY ResolveIs
<1>2. ~Down' /\ ~Quiet'
  BY ResolveIs
<1>3. Up'
  <2>1. CASE ResolveRight(k)
    BY <2>1, ResolveIs, SameModes DEF ResolveRight, Up, Running
  <2>2. CASE ResolveWrong(k)
    BY <1>1, <2>2, WrongUp
  <2> QED BY <1>1, <2>1, <2>2
<1> QED BY <1>2, <1>3 DEF TurnInv

LEMMA EdgeInTurn ==
  ASSUME IInv, TurnInv, Edge
  PROVE  TurnInv'
<1> USE DEF IInv
<1>1. SendRedirect /\ FetTake(toFet[1]) /\ st' = st
  <2>1. SendRedirect /\ FetTake(Head(Line)) /\ st' = st
    BY DEF Edge
  <2> QED BY <2>1, MovedIs DEF Moved
<1>2. Moved /\ (Idle \/ Waits \/ Sent)
  BY <1>1, MovedIs, SentIs
<1>3. Up' = Up /\ Running' = Running /\ Down' = Down /\ Quiet' = Quiet
  BY <1>1, EdgeUp DEF Running
<1>4. /\ \A i \in DOMAIN queue' : \E j \in DOMAIN queue : queue'[i].type = queue[j].type
      /\ \A p \in Chan : \/ toFet'[p].msg = Bundle.msg
                         \/ p + 1 \in Chan /\ toFet'[p] = toFet[p + 1]
      /\ Bundle.msg = NoMsg \/ \E j \in DOMAIN queue : Bundle.msg = queue[j]
  BY <1>1, EdgeFrom
<1>5. NoMsg.type = "none"
  BY DEF NoMsg
<1>6. ASSUME Quiet PROVE queue' = << >> /\ \A p \in Chan : toFet'[p].msg.type = "none"
  <2>1. queue = << >> /\ \A p \in Chan : toFet[p].msg.type = "none"
    BY <1>6 DEF TurnInv
  <2>2. Bundle.msg = NoMsg /\ queue' = << >>
    BY <1>2, <2>1 DEF Idle, Waits, Sent
  <2> QED BY <1>4, <1>5, <2>1, <2>2
<1>7. ASSUME Down
      PROVE  \A i, j \in DOMAIN queue' : i < j /\ Ends(queue'[i]) => queue'[j].type = "beat"
  <2>1. \A i, j \in DOMAIN queue : i < j /\ Ends(queue[i]) => queue[j].type = "beat"
    BY <1>7 DEF TurnInv
  <2>2. CASE Idle
    <3>1. DOMAIN queue' = {}
      BY <2>2 DEF Idle
    <3> QED BY <3>1
  <2>3. CASE Waits
    <3>1. DOMAIN queue' = DOMAIN queue /\ \A i \in DOMAIN queue : queue'[i].type = queue[i].type
      BY <2>3 DEF Waits
    <3>2. \A i \in DOMAIN queue : Ends(queue'[i]) <=> Ends(queue[i])
      BY <3>1 DEF Ends
    <3> QED BY <2>1, <3>1, <3>2
  <2>4. CASE Sent
    <3>1. PICK n : n = Len(queue)
      OBVIOUS
    <3>2. /\ n \in Nat /\ DOMAIN queue = 1..n /\ DOMAIN queue' = 1..n - 1
          /\ \A i \in 1..n - 1 : queue'[i] = queue[i + 1]
      BY <2>4, <3>1, Typed DEF Sent
    <3>3. ASSUME NEW i \in 1..n - 1, NEW j \in 1..n - 1, i < j, Ends(queue'[i])
          PROVE  queue'[j].type = "beat"
      <4>1. PICK k \in 1..n, l \in 1..n :
              k < l /\ queue'[i] = queue[k] /\ queue'[j] = queue[l]
        <5>1. i + 1 \in 1..n /\ j + 1 \in 1..n /\ i + 1 < j + 1
          BY <3>2, <3>3
        <5> QED BY <3>2, <5>1
      <4> QED BY <2>1, <3>2, <3>3, <4>1
    <3> QED BY <3>2, <3>3
  <2> QED BY <1>2, <2>2, <2>3, <2>4
<1>8. ASSUME Down, noticeSent'
      PROVE  /\ \A i \in DOMAIN queue' : queue'[i].type = "beat"
             /\ \A p \in Chan : toFet'[p].msg.type # "none" => p <= timer'
  <2>1. /\ noticeSent \/ Owing(Bundle.msg)
        /\ timer' = IF Owing(Bundle.msg) THEN Lat - 1
                    ELSE IF timer > 0 THEN timer - 1 ELSE 0
    BY <1>1, <1>8 DEF SendRedirect
  <2>2. CASE noticeSent
    <3>1. /\ \A i \in DOMAIN queue : queue[i].type = "beat"
          /\ \A p \in Chan : toFet[p].msg.type # "none" => p <= timer
      BY <1>8, <2>2 DEF TurnInv
    <3>2. \A i \in DOMAIN queue' : queue'[i].type = "beat"
      BY <1>4, <3>1
    <3>3. CASE Owing(Bundle.msg)
      <4>1. \A p \in Chan : p <= Lat - 1
        BY DEF Chan
      <4> QED BY <2>1, <3>2, <3>3, <4>1
    <3>4. CASE ~Owing(Bundle.msg)
      <4>1. Bundle.msg = NoMsg
        <5>1. st # "free"
          BY <1>8 DEF Down
        <5> QED BY <1>4, <3>1, <3>4, <5>1 DEF Owing
      <4>2. ASSUME NEW p \in Chan, toFet'[p].msg.type # "none" PROVE p <= timer'
        <5>1. p + 1 \in Chan /\ toFet'[p] = toFet[p + 1]
          BY <1>4, <1>5, <4>1, <4>2
        <5>2. p + 1 <= timer
          BY <3>1, <4>2, <5>1
        <5>3. p \in Nat /\ timer \in Nat
          BY Places DEF TypeOK
        <5> QED BY <2>1, <3>4, <5>2, <5>3
      <4> QED BY <3>2, <4>2
    <3> QED BY <3>3, <3>4
  <2>3. CASE ~noticeSent
    <3>1. Owing(Bundle.msg) /\ timer' = Lat - 1
      BY <2>1, <2>3
    <3>2. Sent /\ Bundle.msg = queue[1] /\ Ends(queue[1])
      <4>1. Bundle.msg.type # "none"
        BY <3>1 DEF Owing
      <4>2. Sent /\ Bundle.msg = queue[1]
        BY <1>2, <1>5, <4>1 DEF Idle, Waits, Sent
      <4> QED BY <3>1, <4>2 DEF Owing, Ends
    <3>3. PICK n : n = Len(queue)
      OBVIOUS
    <3>4. /\ n \in Nat /\ DOMAIN queue = 1..n /\ DOMAIN queue' = 1..n - 1
          /\ \A i \in 1..n - 1 : queue'[i] = queue[i + 1]
      BY <3>2, <3>3, Typed DEF Sent
    <3>5. ASSUME NEW i \in 1..n - 1 PROVE queue'[i].type = "beat"
      <4>1. PICK k \in 1..n : 1 < k /\ queue'[i] = queue[k] /\ 1 \in 1..n
        <5>1. i + 1 \in 1..n /\ 1 < i + 1 /\ 1 \in 1..n
          BY <3>4
        <5> QED BY <3>4, <5>1
      <4> QED BY <1>8, <3>2, <3>4, <4>1 DEF TurnInv
    <3>6. \A p \in Chan : p <= Lat - 1
      BY DEF Chan
    <3> QED BY <3>1, <3>4, <3>5, <3>6
  <2> QED BY <2>2, <2>3 DEF TypeOK
<1> QED BY <1>3, <1>6, <1>7, <1>8 DEF TurnInv

LEMMA NextTurn ==
  ASSUME IInv, TurnInv, [Next /\ KillInTurn]_vars
  PROVE  TurnInv'
<1>1. CASE Fetch \/ NoResolve \/ RenameEnd \/ Land \/ Activate \/ Rename \/ Arrive
  <2>1. UNCHANGED <<queue, toFet, noticeSent, timer, fetching>>
    BY <1>1 DEF Fetch, NoResolve, RenameEnd, Land, Activate, Rename, Arrive, oweVars, fetVars
  <2>2. st' = st \/ (st = "allocated" /\ st' = "active")
    BY <1>1 DEF Fetch, NoResolve, RenameEnd, Land, Activate, Rename, Arrive
  <2>3. Running' = Running /\ Down' = Down /\ Quiet' = Quiet
    BY <2>2 DEF Running, Down, Quiet
  <2> QED BY <2>1, <2>3, SameTurn
<1>2. CASE Resolve
  BY <1>2, ResolveInTurn
<1>3. CASE Launch
  BY <1>3, LaunchInTurn
<1>4. CASE (Demote \/ Kill) /\ KillInTurn
  BY <1>4, SquashInTurn
<1>5. CASE Free
  BY <1>5, FreeInTurn
<1>6. CASE Progress
  BY <1>6, ProgressInTurn
<1>7. CASE Edge
  BY <1>7, EdgeInTurn
<1>8. CASE UNCHANGED vars
  BY <1>8, SameTurn DEF vars, oweVars, fetVars, Running, Down, Quiet
<1> QED BY <1>1, <1>2, <1>3, <1>4, <1>5, <1>6, <1>7, <1>8, Zenon DEF Next

\* V-57: where a kill comes in turn, no kill is acked and no demotion
\* reported drained before FET holds OOE's epoch with nothing on its way.
THEOREM AcksInTurn == InTurnSpec => AckAfterNotice
<1>1. Init => IInv /\ TurnInv
  BY InitIInv, InitTurn
<1>2. IInv /\ TurnInv /\ [Next /\ KillInTurn]_vars => IInv' /\ TurnInv'
  BY NextIInv, NextTurn
<1>3. ASSUME IInv, TurnInv, [Next /\ KillInTurn]_vars,
             st \in {"killing", "demoting"}, st' \in {"free", "drained"}
      PROVE  Outstanding = {} /\ fetEpoch = epoch
  <2>1. Progress
    BY <1>3 DEF Next, Fetch, Resolve, NoResolve, Land, Launch, Activate, Demote, Kill, Free,
       Finished, Rename, RenameEnd, Arrive, Edge, vars
  <2>2. Landed /\ Down
    BY <1>3, <2>1 DEF Progress, Down
  <2>3. queue = << >> /\ \A p \in Chan : toFet[p].msg.type = "none"
    BY <1>3, <2>2, LandedNone
  <2>4. ~Later(0)
    <3>1. DOMAIN queue = {}
      BY <2>3
    <3> QED BY <2>3, <3>1 DEF Later, Sig
  <2>5. Outstanding = {} /\ ~due.on
    BY <1>3, <2>2, <2>4, Signals, LandedAll DEF IInv
  <2>6. 0 \in 0..Lat - 1
    BY EpochAssumption
  <2> QED BY <1>3, <2>4, <2>5, <2>6 DEF IInv, EpochsGiven, Gives, Given, NowEpoch
<1>4. IInv /\ TurnInv /\ [Next /\ KillInTurn]_vars =>
        [(st \in {"killing", "demoting"} /\ st' \in {"free", "drained"}) =>
           (Outstanding = {} /\ fetEpoch = epoch)]_vars
  BY <1>3
<1> QED BY <1>1, <1>2, <1>4, PTL DEF InTurnSpec, AckAfterNotice
=============================================================================
