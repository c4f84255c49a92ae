------------------------------ MODULE OoeWarp ------------------------------
(***************************************************************************)
(* One tier-1 slot of the OOE block (sim/ooe/ooe_core.cpp): its reorder    *)
(* buffer, its rename maps and checkpoints, the physical names it takes    *)
(* from the pool and gives back, and RAU's launch, demote, kill and free.  *)
(*                                                                         *)
(* A cycle of the core runs its handlers in the order Core::cycle() calls  *)
(* them; `phase` is that order.  What the core does at its own discretion  *)
(* (which entry is issued, replayed, confirmed) and what its neighbours do *)
(* (RCU's dones, RAU's commands, DEC's uops) is nondeterministic; what a   *)
(* handler must do once reached is one step.                               *)
(*                                                                         *)
(* Names are GPRs.  A done is owed by a tag, not by an issue, and a tag's  *)
(* dones come back in the order of its issues: `flight` is RCU's side.     *)
(***************************************************************************)
EXTENDS Naturals, Sequences, FiniteSets

CONSTANTS Arch,       \* the architectural registers
          Name,       \* the pool of physical names
          Zero,       \* the zero register's name, never in the pool (A-64)
          Ckpt,       \* a warp's branch checkpoints
          Depth,      \* rob_depth
          RetireMax,  \* retire_per_rob: entries a slot retires in a cycle
          MaxOwed,    \* bound: dones one tag may have in flight (3 in OI-90)
          None        \* no register, no checkpoint

ASSUME WarpAssumption ==
  /\ Depth \in Nat \ {0} /\ RetireMax \in Nat \ {0} /\ MaxOwed \in Nat \ {0}
  /\ Zero \notin Name /\ None \notin Arch /\ None \notin Ckpt

VARIABLES
  rob, head, count,      \* the ring of entries, its head and live length
  rat, crat,             \* speculative and committed maps
  ckpt,                  \* checkpoints: live, and the map each saved
  free,                  \* names no slot holds
  nameFree,              \* name_free_: held releases' names, free next cycle
  due,                   \* squash_due_: the squash a misprediction will make
  st,                    \* WarpState
  restoring,             \* registers restore-allocate has still to name
  landed,                \* the epoch notice has landed in FET
  mapSent, faultStop, exitRetired, exitedSent,
  flight,                \* RCU: per tag, the names its unfinished ops write
  phase

robVars  == <<rob, head, count>>
mapVars  == <<rat, crat, ckpt, due>>
poolVars == <<free, nameFree>>
flagVars == <<landed, mapSent, faultStop, exitRetired, exitedSent>>
warpVars == <<st, restoring, flagVars>>
vars == <<robVars, mapVars, poolVars, warpVars, flight, phase>>

Idx == 0 .. Depth - 1
Map == [Arch -> Name \cup {Zero}]
Kind == {"op", "branch", "ret", "exit"}
State == {"free", "allocated", "active", "demoting", "drained", "killing"}
Phase == {"take", "wake", "control", "retire", "select", "rename"}

ZeroMap == [a \in Arch |-> Zero]

\* st: "live" in the ring, or "held": squashed with a done outstanding.
\* rs: where the uop's reservation station stands.  done: its result is in
\* (rcu_done); pend: res_pend.  wp is a history: a mispredicted branch older
\* than the entry has resolved.
NoEntry == [st |-> "none", kind |-> "op", dst |-> None, new |-> Zero,
            old |-> Zero, ck |-> None, wp |-> FALSE,
            rs |-> "none", owed |-> 0, stale |-> 0, done |-> FALSE,
            complete |-> FALSE, pend |-> FALSE]

Entry == [st : {"none", "live", "held"}, kind : Kind, dst : Arch \cup {None},
          new : Name \cup {Zero}, old : Name \cup {Zero},
          ck : Ckpt \cup {None}, wp : BOOLEAN,
          rs : {"none", "wait", "issued", "free"}, owed : 0 .. MaxOwed,
          stale : 0 .. MaxOwed, done : BOOLEAN, complete : BOOLEAN,
          pend : BOOLEAN]

NoCkpt == [live |-> FALSE, map |-> ZeroMap]
NoDue  == [on |-> FALSE, keep |-> 0, map |-> ZeroMap]

TypeOK ==
  /\ rob \in [Idx -> Entry] /\ head \in Idx /\ count \in 0 .. Depth
  /\ rat \in Map /\ crat \in Map
  /\ ckpt \in [Ckpt -> [live : BOOLEAN, map : Map]]
  /\ free \subseteq Name /\ nameFree \subseteq Name
  /\ due \in [on : BOOLEAN, keep : 0 .. Depth, map : Map]
  /\ st \in State /\ restoring \subseteq Arch
  /\ landed \in BOOLEAN /\ mapSent \in BOOLEAN /\ faultStop \in BOOLEAN
  /\ exitRetired \in BOOLEAN /\ exitedSent \in BOOLEAN
  /\ flight \in [Idx -> Seq(Name \cup {Zero})]
  /\ phase \in Phase

----------------------------------------------------------------------------
(* The ring.                                                               *)

\* robAge: i's distance from the head; the live entries are the ages below
\* count.
Age(i) == (i + Depth - head) % Depth
At(k) == (head + k) % Depth
Live == {i \in Idx : Age(i) < count}
Valid(i) == rob[i].st # "none"
Tail1 == At(count)

IsBranch(e) == e.kind \in {"branch", "ret"}
Names(es) == {e.new : e \in {x \in es : x.dst # None}}

\* The map after the first n live entries: the committed one, overlaid by
\* the youngest of them that writes each register.
MapAt(n) ==
  [a \in Arch |->
     LET W == {k \in 0 .. n - 1 : rob[At(k)].dst = a}
     IN IF W = {} THEN crat[a]
        ELSE rob[At(CHOOSE k \in W : \A j \in W : j <= k)].new]

----------------------------------------------------------------------------
Init ==
  /\ rob = [i \in Idx |-> NoEntry] /\ head = 0 /\ count = 0
  /\ rat = ZeroMap /\ crat = ZeroMap /\ ckpt = [c \in Ckpt |-> NoCkpt]
  /\ free = Name /\ nameFree = {} /\ due = NoDue
  /\ st = "free" /\ restoring = {}
  /\ landed = FALSE /\ mapSent = FALSE /\ faultStop = FALSE
  /\ exitRetired = FALSE /\ exitedSent = FALSE
  /\ flight = [i \in Idx |-> << >>] /\ phase = "rename"

(* Squashing.  Every live entry of age first or more loses its reservation *)
(* station and its checkpoint; one whose done is outstanding keeps its tag *)
(* and its name until that done lands (V-22), the others release at once.  *)
Squashed(e) ==
  IF e.owed > 0
    THEN [NoEntry EXCEPT !.st = "held", !.dst = e.dst, !.new = e.new,
                         !.owed = e.owed, !.stale = e.owed]
    ELSE NoEntry

FreedCkpts(gone) ==
  [c \in Ckpt |-> IF \E e \in gone : e.ck = c THEN NoCkpt ELSE ckpt[c]]

squashAfter(first, pool) ==
  LET gone == {i \in Live : Age(i) >= first}
  IN /\ rob' = [i \in Idx |-> IF i \in gone THEN Squashed(rob[i]) ELSE rob[i]]
     /\ head' = head /\ count' = first
     /\ free' = pool \cup Names({rob[i] : i \in {j \in gone : rob[j].owed = 0}})

(* The edge.  Last cycle's held releases give their names to the pool, and *)
(* a due squash acts: what is younger than its branch goes, the RAT takes  *)
(* the branch's checkpoint, and the decode queue's older uops with it.     *)
Edge ==
  /\ phase = "rename" /\ phase' = "take"
  /\ nameFree' = {}
  /\ IF due.on
       THEN /\ squashAfter(due.keep, free \cup nameFree)
            /\ ckpt' = FreedCkpts({rob[i] : i \in {j \in Live : Age(j) >= due.keep}})
            /\ rat' = due.map /\ due' = NoDue /\ crat' = crat
       ELSE free' = free \cup nameFree /\ UNCHANGED <<robVars, mapVars>>
  /\ landed' \in (IF st \in {"demoting", "killing"} THEN {landed, TRUE}
                                                   ELSE {landed})
  /\ UNCHANGED <<st, restoring, mapSent, faultStop, exitRetired, exitedSent,
                 flight>>

(* Completion and resolution.                                              *)

\* resolveBranch(i), e being rob[i] as its completion left it, its outcome
\* right or not.  A branch on a path a due squash takes is not resolved.  A
\* right one frees its checkpoint.  A wrong one frees its own and every
\* younger one, and owes the squash that the next edge makes.
Resolve(i, e) ==
  IF due.on /\ Age(i) >= due.keep
    THEN /\ rob' = [rob EXCEPT ![i] = e] /\ UNCHANGED <<ckpt, due>>
    ELSE \/ /\ rob' = [rob EXCEPT ![i] = [e EXCEPT !.ck = None]]
            /\ ckpt' = [ckpt EXCEPT ![e.ck] = NoCkpt]
            /\ due' = due
         \/ LET gone == {j \in Live : Age(j) > Age(i)}
            IN /\ rob' = [j \in Idx |->
                            IF j = i THEN [e EXCEPT !.ck = None]
                            ELSE IF j \in gone
                              THEN [rob[j] EXCEPT !.ck = None, !.wp = TRUE]
                              ELSE rob[j]]
               /\ ckpt' = FreedCkpts({e} \cup {rob[j] : j \in gone})
               /\ due' = [on |-> TRUE, keep |-> Age(i) + 1,
                          map |-> ckpt[e.ck].map]

\* complete(i): an entry is complete once its done is in, no done is owed
\* and its reservation station is freed.  A branch then resolves at once, a
\* ret a cycle later (resolve_lag_ret_only).
Complete(i, e) ==
  LET c == e.st = "live" /\ e.done /\ e.owed = 0 /\ e.rs = "free"
      f == [e EXCEPT !.complete = c, !.pend = c /\ e.kind = "ret"]
  IN IF c /\ e.kind = "branch"
       THEN Resolve(i, f)
       ELSE rob' = [rob EXCEPT ![i] = f] /\ UNCHANGED <<ckpt, due>>

\* The oldest ret whose resolution is due this cycle.
Pending(i) == i \in Live /\ rob[i].pend
NonePending == ~\E i \in Idx : Pending(i)
ResolveRet ==
  /\ phase = "take"
  /\ \E i \in Idx :
       /\ Pending(i) /\ \A j \in Idx : Pending(j) => Age(i) <= Age(j)
       /\ Resolve(i, [rob[i] EXCEPT !.pend = FALSE])
  /\ UNCHANGED <<head, count, rat, crat, poolVars, warpVars, flight, phase>>

\* takeCompletions: a done for tag i, RCU's oldest.  A voided one says
\* nothing (A-47); one for a squashed entry is dropped (A-58).
AfterDone(e) ==
  IF e.stale > 0 THEN [e EXCEPT !.owed = @ - 1, !.stale = @ - 1]
  ELSE IF e.st = "held" THEN [e EXCEPT !.owed = @ - 1]
  ELSE [e EXCEPT !.owed = @ - 1, !.done = TRUE]

Done(i) ==
  /\ phase = "take" /\ NonePending
  /\ flight[i] # << >>
  /\ flight' = [flight EXCEPT ![i] = Tail(@)]
  /\ IF ~Valid(i) \/ rob[i].owed = 0
       THEN UNCHANGED <<rob, ckpt, due>>
     ELSE IF rob[i].stale > 0 \/ rob[i].st = "held"
       THEN rob' = [rob EXCEPT ![i] = AfterDone(@)] /\ UNCHANGED <<ckpt, due>>
     ELSE Complete(i, AfterDone(rob[i]))
  /\ UNCHANGED <<head, count, rat, crat, poolVars, warpVars, phase>>

(* advanceWakes, once the dones are taken.                                 *)
Waking == phase = "wake" \/ (phase = "take" /\ NonePending)

\* Mutant: a replay voids what the done said and not the done to come.
ReplayUnvoided(i) ==
  /\ Waking /\ phase' = "wake"
  /\ rob[i].st = "live" /\ rob[i].rs = "issued"
  /\ rob' = [rob EXCEPT ![i] = [@ EXCEPT !.rs = "wait", !.done = FALSE]]
  /\ UNCHANGED <<head, count, mapVars, poolVars, warpVars, flight>>

\* cancelHop: an issued, unconfirmed entry whose producer missed or was
\* replayed returns to Waiting.  Its done still comes: void it, or what it
\* said if it has come already.
Replayed(e) ==
  IF e.owed > e.stale THEN [e EXCEPT !.rs = "wait", !.stale = @ + 1]
                      ELSE [e EXCEPT !.rs = "wait", !.done = FALSE]

Replay(i) ==
  /\ Waking /\ phase' = "wake"
  /\ rob[i].st = "live" /\ rob[i].rs = "issued"
  /\ rob' = [rob EXCEPT ![i] = Replayed(rob[i])]
  /\ UNCHANGED <<head, count, mapVars, poolVars, warpVars, flight>>

\* confirmPass: an issued entry's result can no longer be cancelled; its
\* station frees, and the entry may complete.
Confirm(i) ==
  /\ Waking /\ phase' = "wake"
  /\ rob[i].st = "live" /\ rob[i].rs = "issued"
  /\ Complete(i, [rob[i] EXCEPT !.rs = "free"])
  /\ UNCHANGED <<head, count, rat, crat, poolVars, warpVars, flight>>

\* A held entry whose op has landed releases; its name frees next cycle.
ReleaseHeld ==
  /\ Waking /\ phase' = "control"
  /\ LET landing == {i \in Idx : rob[i].st = "held" /\ rob[i].owed = 0}
     IN /\ rob' = [i \in Idx |-> IF i \in landing THEN NoEntry ELSE rob[i]]
        /\ nameFree' = nameFree \cup Names({rob[i] : i \in landing})
  /\ UNCHANGED <<head, count, mapVars, free, warpVars, flight>>

(* control: RAU's commands, then the progress of a demotion or a kill.     *)

\* A launch maps every register to zero and starts the warp; a restore
\* names its registers first.
Launch ==
  /\ phase = "control" /\ st = "free"
  /\ \/ st' = "active" /\ UNCHANGED restoring
     \/ st' = "allocated" /\ restoring' = Arch
  /\ UNCHANGED <<robVars, mapVars, poolVars, flagVars, flight, phase>>

\* RAU activates after the map OOE sends when the restore is done (V-49).
Activate ==
  /\ phase = "control" /\ st = "allocated" /\ restoring = {}
  /\ st' = "active"
  /\ UNCHANGED <<robVars, mapVars, poolVars, restoring, flagVars, flight,
                 phase>>

\* Squash to retirement: all entries go, no checkpoint is live, and any
\* squash still due is taken.
\* Mutant: a demote or kill leaves the checkpoints it squashes live.
SquashKeepsCkpts ==
  /\ squashAfter(0, free)
  /\ rat' = crat /\ due' = NoDue
  /\ landed' = FALSE /\ UNCHANGED ckpt

SquashToRetirement ==
  /\ squashAfter(0, free)
  /\ ckpt' = [c \in Ckpt |-> NoCkpt]
  /\ rat' = crat /\ due' = NoDue
  /\ landed' = FALSE

\* A demote once the final exit has retired is refused and changes nothing.
Demote ==
  /\ phase = "control" /\ st = "active" /\ ~exitRetired
  /\ SquashToRetirement
  /\ st' = "demoting" /\ mapSent' = FALSE
  /\ UNCHANGED <<crat, nameFree, restoring, faultStop, exitRetired,
                 exitedSent, flight, phase>>

Kill ==
  /\ phase = "control" /\ st \notin {"free", "killing"}
  /\ SquashToRetirement
  /\ st' = "killing"
  /\ UNCHANGED <<crat, nameFree, restoring, mapSent, faultStop, exitRetired,
                 exitedSent, flight, phase>>

\* Mutant: the names of held releases due this cycle are lost with the slot.
ReleaseSlotLeak ==
  /\ free' = free \cup ({crat[a] : a \in Arch} \ {Zero})
  /\ nameFree' = {}
  /\ rob' = [i \in Idx |-> NoEntry] /\ head' = 0 /\ count' = 0
  /\ rat' = ZeroMap /\ crat' = ZeroMap
  /\ ckpt' = [c \in Ckpt |-> NoCkpt] /\ due' = NoDue
  /\ st' = "free" /\ restoring' = {}
  /\ landed' = FALSE /\ mapSent' = FALSE /\ faultStop' = FALSE
  /\ exitRetired' = FALSE /\ exitedSent' = FALSE

\* releaseSlot: the committed map's names and any still due go back, and the
\* slot starts afresh; a restore still taking names is abandoned.
ReleaseSlot ==
  /\ free' = free \cup nameFree \cup ({crat[a] : a \in Arch} \ {Zero})
  /\ nameFree' = {}
  /\ rob' = [i \in Idx |-> NoEntry] /\ head' = 0 /\ count' = 0
  /\ rat' = ZeroMap /\ crat' = ZeroMap
  /\ ckpt' = [c \in Ckpt |-> NoCkpt] /\ due' = NoDue
  /\ st' = "free" /\ restoring' = {}
  /\ landed' = FALSE /\ mapSent' = FALSE /\ faultStop' = FALSE
  /\ exitRetired' = FALSE /\ exitedSent' = FALSE

\* RAU frees a slot once its migration is complete, or its exit reported.
Free ==
  /\ phase = "control"
  /\ st = "drained" \/ (st = "active" /\ exitedSent)
  /\ ReleaseSlot
  /\ UNCHANGED <<flight, phase>>

\* Demotion and kill wait for every held entry and for the notice; a
\* finished warp's exit is reported once its ROB holds nothing.
HoldsEntries == \E i \in Idx : Valid(i)
Progress ==
  /\ phase = "control" /\ phase' = "retire"
  /\ IF st = "killing" /\ ~HoldsEntries /\ landed
       THEN ReleaseSlot
       ELSE /\ IF st = "demoting" /\ ~HoldsEntries /\ landed
                 THEN IF mapSent THEN st' = "drained" /\ UNCHANGED mapSent
                                 ELSE mapSent' = TRUE /\ UNCHANGED st
                 ELSE UNCHANGED <<st, mapSent>>
            /\ exitedSent' = (exitedSent \/ ( /\ st = "active" /\ exitRetired
                                               /\ ~HoldsEntries))
            /\ UNCHANGED <<robVars, mapVars, poolVars, restoring, landed,
                           faultStop, exitRetired>>
  /\ UNCHANGED flight

(* retire: up to RetireMax complete entries from the head, none after a    *)
(* branch in the same cycle.  An op whose completion said it faulted does   *)
(* not retire: it stops its warp, for RAU's kill to clean up (V-24).        *)
\* Mutant: a branch does not end its retire window.
RetirablePastBranch(k) ==
  LET e == rob[At(k)] IN k < count /\ e.complete /\ ~e.pend

Retirable(k) ==
  LET e == rob[At(k)]
  IN /\ k < count /\ e.complete /\ ~e.pend
     /\ \A j \in 0 .. k - 1 : ~IsBranch(rob[At(j)])
RetireN ==
  CHOOSE n \in 0 .. RetireMax :
    /\ \A k \in 0 .. n - 1 : Retirable(k)
    /\ n = RetireMax \/ ~Retirable(n)

RetireHead(n) ==
  LET out == {rob[At(k)] : k \in 0 .. n - 1}
  IN /\ rob' = [i \in Idx |-> IF Age(i) < n THEN NoEntry ELSE rob[i]]
     /\ head' = At(n) /\ count' = count - n
     /\ crat' = MapAt(n)
     /\ free' = free \cup ({e.old : e \in out} \ {Zero})
     /\ due' = IF due.on THEN [due EXCEPT !.keep = @ - n] ELSE due
     /\ exitRetired' = (exitRetired \/ \E e \in out : e.kind = "exit")

Retire ==
  /\ phase = "retire" /\ phase' = "select"
  /\ IF st = "active" /\ ~faultStop
       THEN \/ RetireHead(RetireN) /\ UNCHANGED faultStop
            \/ \E n \in 0 .. RetireN - 1 :
                 /\ rob[At(n)].kind = "op"
                 /\ RetireHead(n) /\ faultStop' = TRUE
       ELSE UNCHANGED <<robVars, crat, free, due, faultStop, exitRetired>>
  /\ UNCHANGED <<rat, ckpt, nameFree, st, restoring, landed, mapSent,
                 exitedSent, flight>>

(* select: waiting uops issue, and RCU will owe each one's tag a done.     *)
Select ==
  /\ phase = "select" /\ phase' = "rename"
  /\ \E S \in SUBSET {i \in Live : rob[i].rs = "wait" /\ rob[i].owed < MaxOwed} :
       /\ rob' = [i \in Idx |-> IF i \in S
                     THEN [rob[i] EXCEPT !.rs = "issued", !.owed = @ + 1]
                     ELSE rob[i]]
       /\ flight' = [i \in Idx |-> IF i \in S THEN Append(flight[i], rob[i].new)
                                               ELSE flight[i]]
  /\ UNCHANGED <<head, count, mapVars, poolVars, warpVars>>

(* rename.  The tail slot must be empty: a held entry keeps its tag.  No   *)
(* uop follows a final exit, and a restore owns the ports.                 *)
Rename(kind, dst, new, ck) ==
  LET i == Tail1
      e == [NoEntry EXCEPT !.st = "live", !.kind = kind, !.dst = dst,
              !.new = new, !.old = IF dst = None THEN Zero ELSE rat[dst],
              !.ck = ck, !.wp = due.on,
              !.rs = IF kind = "exit" THEN "free" ELSE "wait",
              !.complete = (kind = "exit")]
      m == IF dst = None THEN rat ELSE [rat EXCEPT ![dst] = new]
  IN /\ phase = "rename" /\ st = "active" /\ ~faultStop /\ restoring = {}
     /\ count < Depth /\ ~Valid(i)
     /\ ~exitRetired /\ \A j \in Live : rob[j].kind # "exit"
     /\ rob' = [rob EXCEPT ![i] = e] /\ count' = count + 1
     /\ rat' = m
     /\ free' = free \ {new}
     /\ ckpt' = IF ck = None THEN ckpt
                ELSE [ckpt EXCEPT ![ck] = [live |-> TRUE, map |-> m]]
     /\ UNCHANGED <<head, crat, due, nameFree, warpVars, flight, phase>>

RenameOp == \E a \in Arch, p \in free : Rename("op", a, p, None)
RenameBranch ==
  \E k \in {"branch", "ret"}, c \in Ckpt :
    ~ckpt[c].live /\ Rename(k, None, Zero, c)
RenameExit == Rename("exit", None, Zero, None)

\* restoreStep takes names for the restored warp's registers, in order, into
\* both maps, also for a warp a kill has since named, until its release.
RestoreStep ==
  /\ phase = "rename" /\ restoring # {}
  /\ \E a \in restoring, p \in free :
       /\ rat' = [rat EXCEPT ![a] = p] /\ crat' = [crat EXCEPT ![a] = p]
       /\ free' = free \ {p} /\ restoring' = restoring \ {a}
  /\ UNCHANGED <<robVars, ckpt, due, nameFree, st, flagVars, flight, phase>>

Next ==
  \/ Edge \/ ResolveRet \/ ReleaseHeld
  \/ Launch \/ Activate \/ Demote \/ Kill \/ Free \/ Progress
  \/ Retire \/ Select
  \/ RenameOp \/ RenameBranch \/ RenameExit \/ RestoreStep
  \/ \E i \in Idx : Done(i) \/ Replay(i) \/ Confirm(i)

Spec == Init /\ [][Next]_vars

----------------------------------------------------------------------------
(* V-01: the pool is partitioned.  Every name is free, due to be freed,    *)
(* committed, or the destination of one entry in flight, and only one of   *)
(* these: a name leaked or handed to two owners shows here whatever order  *)
(* retirement, squash, late dones, demotion and release come in.           *)
InFlight(p) == {i \in Idx : Valid(i) /\ rob[i].dst # None /\ rob[i].new = p}
Partition ==
  \A p \in Name :
    (IF p \in free THEN 1 ELSE 0) + (IF p \in nameFree THEN 1 ELSE 0)
      + Cardinality({a \in Arch : crat[a] = p}) + Cardinality(InFlight(p)) = 1

(* V-22: an op that RCU has not finished writes a name its entry still     *)
(* owns, so its late write cannot land in another warp's register.  This   *)
(* must hold across replays, squashes, kills and the slot's release.       *)
NoLateWrite ==
  \A i \in Idx : \A k \in 1 .. Len(flight[i]) :
    Valid(i) /\ flight[i][k] = rob[i].new

(* A-47: OOE voids exactly the dones of issues it has taken back.  A live  *)
(* entry's stale count covers all its outstanding dones but the newest     *)
(* issue's, and its result counts as in only when that done brought it.    *)
VoidsExactly ==
  \A i \in Idx : rob[i].st # "none" =>
    /\ rob[i].owed = Len(flight[i])
    /\ rob[i].stale =
         IF rob[i].st = "live" /\ rob[i].rs \in {"issued", "free"}
            /\ rob[i].kind # "exit" /\ ~rob[i].done
         THEN rob[i].owed - 1 ELSE rob[i].owed
    /\ rob[i].done => rob[i].rs # "wait"

(* The speculative map is the committed one overlaid by the live entries:  *)
(* what a warp reads is what its own oldest-to-youngest path wrote, after  *)
(* any mix of checkpoint restores, retirements and squashes to retirement. *)
\* A due squash will restore exactly the map of the entries it keeps.
RatExact ==
  /\ rat = MapAt(count)
  /\ due.on => due.keep <= count /\ due.map = MapAt(due.keep)

(* V-07: a checkpoint is live for exactly one unresolved branch in the     *)
(* ring, and it holds the map as of that branch -- also once older entries *)
(* it was taken over have retired.                                         *)
CkptExact ==
  \A c \in Ckpt :
    /\ ckpt[c].live = (\E i \in Live : rob[i].ck = c)
    /\ \A i \in Live : rob[i].ck = c =>
         /\ ckpt[c].map = MapAt(Age(i) + 1)
         /\ \A j \in Live : rob[j].ck = c => j = i

(* A-42: an entry renamed behind a branch that turns out mispredicted      *)
(* never retires, however late its resolution acts: with a ret's resolved  *)
(* a cycle after it completes and every squash a cycle after that, younger *)
(* entries may be complete and waiting at the head.                        *)
WrongPathNeverRetires ==
  [][phase = "retire" => \A i \in Idx : rob[i].wp => rob'[i] = rob[i]]_vars

(* V-28: a slot is given back with nothing of its warp behind it: no held  *)
(* entry, no op RCU has still to finish, every name in the pool.           *)
ReleasedClean ==
  [][st # "free" /\ st' = "free" =>
       /\ free' = Name
       /\ \A i \in Idx : rob[i].st = "none" /\ flight[i] = << >>]_vars

(* V-01 on a well-formed state: the ring keeps its shape while names move. *)
PoolWhole == TypeOK /\ Partition

(* V-22 and A-47: every done that is to come finds its name still its own, *)
(* and is voided exactly if its issue was taken back.                      *)
DonesMatched == NoLateWrite /\ VoidsExactly

(* What the slot would read, and would fall back to at any branch, is what *)
(* its surviving path wrote.                                               *)
PathExact == RatExact /\ CkptExact

(* What leaves the slot: entries of the right path only, and in the end    *)
(* nothing of the warp stays behind.                                       *)
LeavesRightly == WrongPathNeverRetires /\ ReleasedClean
=============================================================================
