----------------------------- MODULE FetchEpoch -----------------------------
(***************************************************************************)
(* One warp's fetch epoch and branch checkpoints, which OOE and FET mirror *)
(* (sim/ooe/ooe_core.cpp; FET as sim/ooe/ooe_test.cpp and                  *)
(* sim/skel/kernel.cpp stand for it).                                      *)
(*                                                                         *)
(* OOE owns the epoch: it advances it at a misprediction's squash, a       *)
(* demotion and a kill, and tells FET in one message each, through a queue *)
(* all warps share and a channel of fixed latency Lat.  FET tags each uop  *)
(* with the epoch it holds, and OOE drops a uop whose epoch is not the     *)
(* warp's.  FET takes a checkpoint per branch; OOE frees it when the       *)
(* branch resolves right, a redirect frees it and every younger one, and a *)
(* notice frees them all.                                                  *)
(*                                                                         *)
(* Phases are the order of Block::work(): take resolutions, control,       *)
(* rename, then the uops that arrive, then the edge.                       *)
(***************************************************************************)
EXTENDS Naturals, Sequences, FiniteSets

CONSTANTS Ckpt,      \* a warp's checkpoints
          Epochs,    \* values of the epoch counter
          Lat,       \* redirect_lat, cycles from OOE's send to FET
          MaxAhead,  \* bound: other warps' messages queued ahead of one
          MaxPipe,   \* bound: uops between FET and OOE
          MaxDecq,   \* the warp's share of the decode queue
          None       \* a uop that is not a branch

ASSUME EpochAssumption ==
  /\ IsFiniteSet(Ckpt) /\ None \notin Ckpt
  /\ Epochs \in Nat /\ Epochs > Cardinality(Ckpt) + 1   \* V-55
  /\ Lat \in Nat /\ Lat >= 2 /\ MaxAhead \in Nat /\ MaxPipe \in Nat /\ MaxDecq \in Nat

VARIABLES
  epoch,        \* OOE's epoch_ for the warp
  st,           \* WarpState
  br,           \* unresolved branches' checkpoints, oldest first
  due,          \* squash_due_: act on the next edge, keep this many of br
  freeMask,     \* free_mask_: checkpoints resolved right this cycle
  decq,         \* the warp's uops in the decode queue
  held,         \* the ROB holds an entry a demotion or kill waits for
  queue,        \* redirects_: the warp's messages not yet sent
  noticeSent, timer, rewindPending,
  toFet,        \* the channel: one bundle a cycle, oldest first
  fetEpoch, live, fetching,   \* FET: epoch, checkpoints by age, not stopped
  pipe,         \* uops between FET and OOE, oldest first
  phase

oweVars == <<noticeSent, timer, rewindPending>>
fetVars == <<fetEpoch, live, fetching>>
vars == <<epoch, st, br, due, freeMask, decq, held, queue, oweVars, toFet,
          fetVars, pipe, phase>>

Rng(s) == {s[i] : i \in DOMAIN s}
Epoch == 0 .. Epochs - 1
State == {"free", "allocated", "active", "demoting", "drained", "killing"}
Uop == [ep : Epoch, ck : Ckpt \cup {None}, stale : BOOLEAN]
Msg == [type : {"none", "redirect", "notice", "beat"}, ep : Epoch,
        ck : Ckpt \cup {None}, ahead : 0 .. MaxAhead]
NoMsg == [type |-> "none", ep |-> 0, ck |-> None, ahead |-> 0]
NoDue == [on |-> FALSE, keep |-> 0]

TypeOK ==
  /\ epoch \in Epoch /\ st \in State
  /\ br \in Seq(Ckpt) /\ Len(br) <= Cardinality(Ckpt)
  /\ due \in [on : BOOLEAN, keep : 0 .. Cardinality(Ckpt)]
  /\ due.on => due.keep <= Len(br)
  /\ freeMask \subseteq Ckpt
  /\ decq \in Seq(Uop) /\ Len(decq) <= MaxDecq
  /\ held \in BOOLEAN
  /\ queue \in Seq(Msg)
  /\ noticeSent \in BOOLEAN /\ timer \in 0 .. Lat /\ rewindPending \in 0 .. 1
  /\ toFet \in Seq([msg : Msg, free : SUBSET Ckpt]) /\ Len(toFet) = Lat - 1
  /\ fetEpoch \in Epoch /\ live \in Seq(Ckpt) /\ fetching \in BOOLEAN
  /\ pipe \in Seq(Uop) /\ Len(pipe) <= MaxPipe
  /\ phase \in {"take", "control", "rename", "arrive"}

\* The channel's messages and the queued ones, oldest first, and whether FET
\* has yet to take one that ends what it is fetching.
InChannel == {toFet[i].msg : i \in DOMAIN toFet}
Outstanding == {m \in InChannel \cup Rng(queue) : m.type \in {"redirect", "notice"}}
Stale(s) == [i \in DOMAIN s |-> [s[i] EXCEPT !.stale = TRUE]]

\* Mutant: a counter no wider than the checkpoints.
NextEpochNarrow(e) == (e + 1) % Cardinality(Ckpt)

NextEpoch(e) == (e + 1) % Epochs

\* What is left of s without the members of F, in its order.
Without(s, F) ==
  LET kept == {i \in DOMAIN s : s[i] \notin F}
      rank(i) == Cardinality({j \in kept : j <= i})
  IN [n \in 1 .. Cardinality(kept) |-> s[CHOOSE i \in kept : rank(i) = n]]

Init ==
  /\ epoch = 0 /\ st = "free" /\ br = << >> /\ due = NoDue
  /\ freeMask = {} /\ decq = << >> /\ held = FALSE /\ queue = << >>
  /\ noticeSent = FALSE /\ timer = 0 /\ rewindPending = 0
  /\ toFet = [i \in 1 .. Lat - 1 |-> [msg |-> NoMsg, free |-> {}]]
  /\ fetEpoch = 0 /\ live = << >> /\ fetching = FALSE
  /\ pipe = << >> /\ phase = "take"

----------------------------------------------------------------------------
(* FET.                                                                    *)

\* The next uop, right path or wrong: a branch takes a checkpoint that is
\* not live, and fetch stalls without one.  History: it is stale if OOE has
\* already ended the path FET is on.
Fetch ==
  /\ phase = "take" /\ fetching /\ Len(pipe) < MaxPipe
  /\ \E c \in (Ckpt \ Rng(live)) \cup {None} :
       /\ live' = IF c = None THEN live ELSE Append(live, c)
       /\ pipe' = Append(pipe, [ep |-> fetEpoch, ck |-> c,
                                stale |-> Outstanding # {}])
  /\ UNCHANGED <<epoch, st, br, due, freeMask, decq, held, queue, oweVars,
                 toFet, fetEpoch, fetching, phase>>

\* Mutant: a redirect frees the checkpoint it restores and no younger one.
RestoredOwn(m) ==
  IF m.type = "notice" THEN << >>
  ELSE IF m.type = "redirect"
    THEN Without(live, {m.ck})
  ELSE live

\* FET's checkpoints once it has applied a message.
Restored(m) ==
  IF m.type = "notice" THEN << >>
  ELSE IF m.type = "redirect" /\ m.ck \in Rng(live)
    THEN SubSeq(live, 1, (CHOOSE i \in DOMAIN live : live[i] = m.ck) - 1)
  ELSE live

\* A landing bundle: the message first, then the frees beside it (A-58).
FetTake(in) ==
  /\ live' = Without(Restored(in.msg), in.free)
  /\ fetEpoch' = IF in.msg.type \in {"redirect", "notice"} THEN in.msg.ep
                                                           ELSE fetEpoch
  /\ fetching' = (fetching /\ in.msg.type # "notice")

----------------------------------------------------------------------------
(* OOE: the queue to FET.                                                  *)

\* A message joins the queue behind some of the other warps'.
Queued(q, m) == {Append(q, [m EXCEPT !.ahead = n]) : n \in 0 .. MaxAhead}

Redirects == {m \in Rng(queue) : m.type = "redirect"}

\* resolveBranch(): the k-th unresolved branch.  One under a due squash is
\* not resolved.  A right one frees its checkpoint in FET.  A wrong one is
\* redirected under the epoch its squash will advance to, and supersedes the
\* warp's queued redirect, which was for a younger branch.
Resolve ==
  /\ phase = "take" /\ phase' = "control"
  /\ \E k \in DOMAIN br :
       /\ due.on => k <= due.keep
       /\ \/ /\ freeMask' = freeMask \cup {br[k]}
             /\ br' = SubSeq(br, 1, k - 1) \o SubSeq(br, k + 1, Len(br))
             /\ due' = IF due.on THEN [due EXCEPT !.keep = @ - 1] ELSE due
             /\ UNCHANGED <<queue, decq, pipe>>
          \/ /\ br' = SubSeq(br, 1, k - 1)
             /\ due' = [on |-> TRUE, keep |-> k - 1]
             /\ queue' \in Queued(Without(queue, Redirects),
                                  [NoMsg EXCEPT !.type = "redirect",
                                     !.ep = NextEpoch(epoch), !.ck = br[k]])
             /\ freeMask' = freeMask
             /\ decq' = Stale(decq) /\ pipe' = Stale(pipe)
  /\ UNCHANGED <<epoch, st, held, oweVars, toFet, fetVars>>

NoResolve ==
  /\ phase = "take" /\ phase' = "control"
  /\ UNCHANGED <<epoch, st, br, due, freeMask, decq, held, queue, oweVars,
                 toFet, fetVars, pipe>>

\* A squashed entry's op lands, or the ROB empties.
Land ==
  /\ phase = "take" /\ held /\ held' = FALSE
  /\ UNCHANGED <<epoch, st, br, due, freeMask, decq, queue, oweVars, toFet,
                 fetVars, pipe, phase>>

----------------------------------------------------------------------------
(* control.                                                                *)

\* Bound: a relaunch finds fewer changes of the epoch on their way to FET
\* than the counter has values (CounterCovers: it holds of itself where a
\* message waits for one other warp's).
NotRound == Outstanding # {} => fetEpoch # epoch

\* RAU launches or restores the warp, and FET starts or resumes it.  RAU
\* does so once the blocks between are quiet.
Launch ==
  /\ phase = "control" /\ st = "free" /\ pipe = << >> /\ NotRound
  /\ st' \in {"active", "allocated"}
  /\ fetching' = TRUE /\ live' = << >>
  /\ UNCHANGED <<epoch, br, due, freeMask, decq, held, queue, oweVars, toFet,
                 fetEpoch, pipe, phase>>

Activate ==
  /\ phase = "control" /\ st = "allocated" /\ st' = "active"
  /\ UNCHANGED <<epoch, br, due, freeMask, decq, held, queue, oweVars, toFet,
                 fetVars, pipe, phase>>

\* Mutant: the frees of this cycle go out beside the notice.
SquashKeepsFrees ==
  /\ br' = << >> /\ due' = NoDue /\ freeMask' = freeMask
  /\ decq' = << >> /\ pipe' = Stale(pipe)
  /\ epoch' = NextEpoch(epoch)
  /\ held' \in BOOLEAN /\ noticeSent' = FALSE

\* Everything the warp has goes, a due squash and the frees of this cycle
\* included; the epoch advances, and a notice of it is owed.
SquashToRetirement ==
  /\ br' = << >> /\ due' = NoDue /\ freeMask' = {}
  /\ decq' = << >> /\ pipe' = Stale(pipe)
  /\ epoch' = NextEpoch(epoch)
  /\ held' \in BOOLEAN /\ noticeSent' = FALSE

Notice == [NoMsg EXCEPT !.type = "notice", !.ep = NextEpoch(epoch)]

\* A demotion's rewind beats, one for a warp with anything unretired, follow
\* its notice.
Demote ==
  /\ phase = "control" /\ st = "active"
  /\ SquashToRetirement /\ st' = "demoting"
  /\ \E q \in Queued(queue, Notice) :
       \/ queue' = q /\ UNCHANGED rewindPending
       \/ /\ queue' \in Queued(q, [NoMsg EXCEPT !.type = "beat"])
          /\ rewindPending' = rewindPending + 1
  /\ UNCHANGED <<timer, toFet, fetVars, phase>>

\* The kill reaches every block: FET stops the warp at once.
Kill ==
  /\ phase = "control" /\ st \notin {"free", "killing"}
  /\ SquashToRetirement /\ st' = "killing"
  /\ queue' \in Queued(queue, Notice)
  /\ fetching' = FALSE
  /\ UNCHANGED <<timer, rewindPending, toFet, fetEpoch, live, phase>>

\* Mutant: a released slot's queued uops stay (inject_keep_released_uops).
ReleaseKeepsUops ==
  /\ st' = "free" /\ br' = << >> /\ due' = NoDue /\ decq' = decq
  /\ held' = FALSE
  /\ noticeSent' = FALSE /\ timer' = 0 /\ rewindPending' = 0

ReleaseSlot ==
  /\ st' = "free" /\ br' = << >> /\ due' = NoDue /\ decq' = << >>
  /\ held' = FALSE
  /\ noticeSent' = FALSE /\ timer' = 0 /\ rewindPending' = 0

\* RAU frees a drained warp's slot after its migration, or a finished one's.
Finished ==
  /\ st = "active" /\ br = << >> /\ ~due.on /\ freeMask = {}
  /\ pipe = << >> /\ decq = << >> /\ queue = << >>
  /\ \A i \in DOMAIN toFet : toFet[i].msg = NoMsg /\ toFet[i].free = {}
Free ==
  /\ phase = "control" /\ (st = "drained" \/ Finished)
  /\ ReleaseSlot /\ fetching' = FALSE
  /\ UNCHANGED <<epoch, freeMask, queue, toFet, fetEpoch, live, pipe, phase>>

Landed == noticeSent /\ rewindPending = 0 /\ timer = 0

\* A killed warp's slot is released, which is its share of the ack, and a
\* demoted one reported drained, once nothing is held and the notice has
\* landed.
Progress ==
  /\ phase = "control" /\ phase' = "rename"
  /\ IF ~held /\ Landed /\ st = "killing"
       THEN ReleaseSlot
       ELSE /\ st' = IF ~held /\ Landed /\ st = "demoting" THEN "drained" ELSE st
            /\ UNCHANGED <<br, due, decq, held, oweVars>>
  /\ UNCHANGED <<epoch, freeMask, queue, toFet, fetVars, pipe>>

----------------------------------------------------------------------------
(* rename, the arriving uops, and the edge.                                *)

\* The oldest uop is renamed, or dropped if its epoch is not the warp's.
Rename ==
  /\ phase = "rename" /\ st = "active" /\ decq # << >>
  /\ decq' = Tail(decq)
  /\ br' = IF Head(decq).ep = epoch /\ Head(decq).ck # None
             THEN Append(br, Head(decq).ck) ELSE br
  /\ UNCHANGED <<epoch, st, due, freeMask, held, queue, oweVars, toFet,
                 fetVars, pipe, phase>>

RenameEnd ==
  /\ phase = "rename" /\ phase' = "arrive"
  /\ UNCHANGED <<epoch, st, br, due, freeMask, decq, held, queue, oweVars,
                 toFet, fetVars, pipe>>

CanAccept == Len(decq) < MaxDecq

\* uop(): one of an older epoch is dropped as it arrives, as is one whose
\* warp holds no slot.
Arrive ==
  /\ phase = "arrive" /\ pipe # << >> /\ CanAccept
  /\ pipe' = Tail(pipe)
  /\ decq' = IF st # "free" /\ Head(pipe).ep = epoch
               THEN Append(decq, Head(pipe)) ELSE decq
  /\ UNCHANGED <<epoch, st, br, due, freeMask, held, queue, oweVars, toFet,
                 fetVars, phase>>

\* sendRedirect(): the oldest message of any warp, and this cycle's frees.
Sends == queue # << >> /\ Head(queue).ahead = 0
Bundle == [msg |-> IF Sends THEN Head(queue) ELSE NoMsg, free |-> freeMask]
Line == Append(toFet, Bundle)
Owing(m) == m.type \in {"notice", "beat"} /\ st # "free"

\* Mutant: a beat counts as sent only while its warp demotes.
RewindAfterDemoting(m) ==
  IF m.type = "beat" /\ st = "demoting" /\ rewindPending > 0
    THEN rewindPending - 1 ELSE rewindPending

RewindAfter(m) ==
  IF m.type = "beat" /\ Owing(m) /\ rewindPending > 0
    THEN rewindPending - 1 ELSE rewindPending

SendRedirect ==
  /\ queue' = IF Sends THEN Tail(queue)
              ELSE IF queue = << >> THEN queue
              ELSE [queue EXCEPT ![1].ahead = @ - 1]
  /\ freeMask' = {}
  /\ noticeSent' = (noticeSent \/ Owing(Bundle.msg))
  /\ timer' = IF Owing(Bundle.msg) THEN Lat - 1
              ELSE IF timer > 0 THEN timer - 1 ELSE 0
  /\ rewindPending' = RewindAfter(Bundle.msg)
  /\ toFet' = Tail(Line)

\* squashDue(): the branches younger than the mispredicted one go, the
\* warp's decode queue is flushed, and the epoch advances.
SquashDue ==
  IF due.on
    THEN /\ br' = SubSeq(br, 1, due.keep) /\ due' = NoDue /\ decq' = << >>
         /\ epoch' = NextEpoch(epoch)
    ELSE UNCHANGED <<br, due, decq, epoch>>

Edge ==
  /\ phase = "arrive" /\ phase' = "take"
  /\ SendRedirect /\ SquashDue /\ FetTake(Head(Line))
  /\ UNCHANGED <<st, held, pipe>>

Next ==
  \/ Fetch \/ Resolve \/ NoResolve \/ Land
  \/ Launch \/ Activate \/ Demote \/ Kill \/ Free \/ Progress
  \/ Rename \/ RenameEnd \/ Arrive \/ Edge

\* The clock runs, and an op a squash waits for lands in some cycle: SF, as
\* a cycle offers it only in its first phase.
Fairness == WF_vars(NoResolve \/ Progress \/ RenameEnd \/ Edge) /\ SF_vars(Land)
Spec == Init /\ [][Next]_vars /\ Fairness

\* RAU kills a demoting warp only once all its demotion sends is sent.
KillInTurn == st = "demoting" /\ st' = "killing" => queue = << >>
InTurnSpec == Init /\ [][Next /\ KillInTurn]_vars

----------------------------------------------------------------------------
(* V-53: OOE never renames a uop of a path it has ended, whatever mix of   *)
(* redirects, demotions and kills overtakes it, and across a release and a *)
(* relaunch of the warp; but for the cycle in which its squash is due.     *)
NoStaleRename ==
  phase = "rename" /\ st = "active" /\ decq # << >>
    /\ Head(decq).ep = epoch /\ Head(decq).stale => due.on

(* V-56: with no message of the warp's outstanding, the two blocks hold    *)
(* the same epoch.                                                         *)
EpochsAgree == Outstanding = {} => fetEpoch = epoch

(* V-08: with no message outstanding, FET's live checkpoints are those of  *)
(* OOE's unresolved branches, of branches on their way to rename, and of   *)
(* frees on their way to FET.                                              *)
Carried(s) == {u.ck : u \in {x \in Rng(s) : ~x.stale}} \ {None}
CkptMirror ==
  Outstanding = {} /\ st = "active" =>
    Rng(live) = Rng(br) \cup Carried(pipe) \cup Carried(decq) \cup freeMask
                  \cup UNION {toFet[i].free : i \in DOMAIN toFet}

(* V-46: a free that lands, or a redirect, names a checkpoint live in FET: *)
(* no free overtakes, or follows, the message that freed it already.       *)
FreesLive ==
  [][(phase = "arrive" /\ phase' = "take") =>
       /\ Head(Line).msg.type = "redirect" => Head(Line).msg.ck \in Rng(live)
       /\ Head(Line).free \subseteq Rng(Restored(Head(Line).msg))]_vars

(* V-57: OOE acks a kill and reports a demotion drained only after the     *)
(* notice has landed, when FET holds OOE's epoch, so that a relaunched or  *)
(* restored warp is never fetched under an older one.                      *)
AckAfterNotice ==
  [][(st \in {"killing", "demoting"} /\ st' \in {"free", "drained"}) =>
       (Outstanding = {} /\ fetEpoch = epoch)]_vars

(* V-28: a killed warp's slot is released in the end, whatever the kill    *)
(* found queued.                                                           *)
KillAcked == st = "killing" ~> st = "free"

(* V-56 and V-08: with nothing on its way, the two blocks mirror each      *)
(* other, in the epoch and in the checkpoints.                             *)
MirrorAgrees == TypeOK /\ EpochsAgree /\ CkptMirror

(* V-55: the counter does not come round to the epoch FET still holds: as  *)
(* long as a message is on its way, while the warp runs or its slot waits  *)
(* for the next, FET's epoch is not OOE's.                                 *)
CounterCovers == st \notin {"demoting", "killing"} /\ ~due.on => NotRound
=============================================================================
