# Verification of the CCV core in TLA+

This directory holds TLA+ models of the CCV core: a vector processor of 14
block types, 45 instances and 48 credited channels, described three times over
in this repository, as SystemVerilog (`src/rtl`), as a C++ cycle model
(`src/sim`) and as parameters and schemas that both are generated from
(`src/params`, `src/schema`). Programs in `src/tools` generate the one from the
other and judge the result: the wiring of the top, the logic depth of every
path, the clock gating of every register. The models are translated from the
RTL, from the C++ and from these programs; TLC checks them on small instances,
and TLAPS proves some of the results for every value of the constants.

Contents: [the system](#1-the-system) - [the modules](#2-the-modules) -
[the runs](#3-the-runs) - [the proofs](#4-the-proofs) -
[what was found](#5-what-was-found) - [limits](#6-limits) -
[the plan](#7-the-plan) - [running it](#8-running-it)

`PROJECT.json` is the machine-readable side of this file: every component and
its status, every run, the source lines behind each definition, the mutations
of the code that each property catches, the hazards, and the theorems.

---------------------------------------------------------------------------

## 1. The system

A block talks to another over a *slot* of a channel: valid and payload one way,
credit and stall the other, every wire registered, repeaters in between when
the link is long (`docs/physical.md`, `docs/skeleton.md`). Blocks sleep behind
clock gates and are woken by their senders (`docs/clock-gate.md`). An interface
checker watches each end of each slot (`docs/interface-checker-convention.md`).
On top of that sits the machine: FET fetches, DEC decodes, OOE renames,
schedules and retires out of order for four tier-1 warps, RCU holds the
registers and executes operand traffic, RAU launches, demotes, restores and
kills warps.

### Inventory

| Component | Where | State it keeps | Operations | Status |
|---|---|---|---|---|
| Credited link | `rtl/phys/ccv_common_rpt.sv`, `test/formal/fv_link.sv` | sender's credits; per stage valid, lead slice, rest, credit, stall; receiver's buffer | launch, repeat, land, pop, stall | modelled |
| Credit checker | `rtl/if/ccv_common_chk_credit.sv` | outstanding count, age per message, stall history | watch an edge; five properties | modelled |
| Wake checker | `rtl/if/ccv_common_chk_wake.sv` | sleep owed, answered, ages | watch an edge | modelled |
| Other checkers | `rtl/if/ccv_common_chk_{atomic,binding,lockstep,notice,outstanding}.sv` | a few flops each | watch an edge | planned |
| Clock gate | `rtl/clk/ccv_common_clk.sv` | two hysteresis counters with flags, wake flop, hold counter | count, gate, wake, hold | modelled |
| Clock-gating cell | `rtl/ctech/*` | a latch | | not modelled: technology cell |
| Skeleton slot, machine | `sim/skel/channel.h`, `machine.cpp` | both ends now and next, stages, Sender, Receiver | run a block, commit | modelled |
| Exerciser | `sim/skel/exerciser.cpp` | per-slot traffic generators | send, receive, stall, drain | partly |
| Free lists | `rtl/ooe/ooe_freelist.sv`, `FreeVec` in `sim/ooe/ooe_core.h` | free bits, candidate buffer, buffered marks, banks' candidates and pointers, takes in transit | take, free, refill | partly (no sections) |
| OOE, per warp | `sim/ooe/ooe_core.cpp` | ROB ring, RAT and committed RAT, branch checkpoints, due squash, warp state | rename, issue, done, replay, confirm, resolve, squash, retire, launch, restore, demote, kill, free | partly |
| OOE and FET | `ooe_core.cpp`, `ooe_block.cpp`, FET in `ooe_test.cpp` and `sim/skel/kernel.cpp` | epochs and checkpoints on both sides, redirect queue, notice timer | resolve, redirect, notice, free, drop, ack | partly |
| OOE scheduler | `rtl/ooe/ooe_{wake,rs,sched,select,pick,age,ready,confirm}.sv` | wake matrix, ready and request registers | wake, grant, replay, confirm | planned |
| OOE rename, admission | `rtl/ooe/ooe_{rename,go,rencred,rendep,...}.sv` | registered shares of the pools, dependency marks | admit, rename | planned |
| OOE maps, ROB, decode queue (RTL) | `rtl/ooe/ooe_{rat,rob_w,decq}.sv` | the same state as the C++ | | through the C++ |
| RCU migration, kill | `rtl/rcu/rcu_{mig,kill}.sv`, `sim/rcu/rcu_core.cpp` | paired maps and commands, row engines, kill drain | demote, restore, drop, ack | planned |
| RCU register file | `rtl/rcu/rcu_{bank_slice,pred,r,xbar}.sv` | registers | fixed-latency read and write | not modelled: datapath |
| Kernel and stubs | `sim/skel/kernel.cpp`, `stub.h` | a recorded execution per warp | replay it | only FET's mirror |
| Pool of measurements | `tools/check-cg.py`, `check-ngd.py` | two processes' queues and threads, the heavy lock and its turnstile, the netlist cache, peaks | take a unit, lock, run or hit, rename, finish, kill, rerun | modelled |
| Depth rule | `tools/check-ngd.py` | per unit longest paths, budgets, levels | time, choose a map, find, converge, judge the boundary | partly |
| Clock-gating rule | `tools/check-cg.py` | statements, groups, tallies per scenario, findings and their excuses | parse, group, replay, judge, excuse | partly |
| Routes, generated top, generators | `tools/{ccv_links,gen-top,gen-skel,gen-params,genout,check-top-pure,check-top-wiring}.py`, `rtl/top`, `params/links.json` | the plan of routes; files, manifests | load, plan, write, sync, remove, check | partly |
| Hosts and layout | `sim/skel/dpi_host.cpp`, `layout_probe.cpp`, `tools/gen-interfaces.py` | vectors of a port, payload bits | resolve, place, compare | partly |
| Oracle, events | `sim/skel/{oracle,main}.cpp`, `sim/src/event.cpp` | traces | compare, print | not modelled: I/O |
| Parameters | `params/ccv_params.json` | derived depths and latencies | derive, refuse | partly |
| Lints, other generators, benches, archive, spike | `tools/lint-rtl.py`, `gen-{walkthrough,event-schema,payload-spec,trust-report}.py`, `test`, `archive`, `spike` | | | not modelled: patterns over text, documents, harnesses, superseded work |

Components of the machine act on each other in four ways: by messages on slots;
by the wake line beside a slot; by RAU's commands, which reach all blocks; and
by shared pools inside OOE (names, checkpoints, the redirect queue). The tools
act on each other by files (a plan read by three generators, a cache shared by
two checks, a manifest per directory) and by locks on files.

### What is hard here

* **Pipelined feedback.** A launch acts on the stall and credit of some cycles
  ago; the payload travels in two slices a cycle apart. Depths, rescue space
  and drain times are derived numbers that must match it exactly.
* **Sleep against wake.** A gate decides from counters computed ahead under one
  shared clock enable, while thresholds are rewritten by CSR; a valid must
  never land on a withheld edge.
* **State cleared late.** The free list registers what a cycle takes and clears
  its bits an edge later and its marks another edge later, under three clock
  enables formed early.
* **Work that outlives its owner.** A squashed op is still executing in RCU; its
  name and tag may not be reused before its done lands, through replays, a kill
  and the release of the slot.
* **Late squashes.** A misprediction acts an edge after it resolves; retirement,
  renaming, a demotion or a kill may come between.
* **Two blocks mirroring one state.** OOE and FET keep the epoch and the
  checkpoints of a warp in step through a shared queue and a fixed-latency
  channel, while demotions, kills, releases and relaunches overtake each other.

* **A sum of parts.** No path across modules is ever timed whole, and no register
  of an assembled block is ever replayed in place: units are measured alone, and
  the budgets, levels and excuses between them must leave no way round.
* **One plan, three readers.** The routes are read by the SV generator, the C++
  generator and the parameters, which must make the same registers of them; the
  order of bits in every vector is agreed by position alone.
* **Tools that stop half way.** A generator or a check may be killed between any
  two files; the next one must not take what it left for its own.

`PROJECT.json` lists each hazard at its line with the properties that would
catch it; the ones without a property say why.

### What makes each component correct

* Link: credits are conserved, so the receiver is never overrun; the payload is
  that of the next message in order; full bandwidth is available after any
  past; rescue depth and drain wait cover what is in flight.
* Checker: it never accuses a correct end, the prompt answers of a fixed-latency
  receiver included.
* Gate: closed exactly when a run lasted its threshold; open through a wake's
  hold; asleep in bounded time; no valid on a withheld edge.
* Skeleton slot: independent of the order blocks run in; messages whole; a
  drained run ends with all credits home.
* Free list: no name offered twice or lost; a free one is found; equal to the
  cycle model edge by edge.
* OOE warp: the pool is partitioned; maps and checkpoints are those of the
  surviving path; no late write; nothing of the wrong path retires; a released
  slot is clean.
* OOE and FET: no stale uop is renamed; the mirrors agree when nothing is in
  flight; an ack comes after its notice has landed, and it does come.
* Pool: a heavy unit is measured alone; a cache hit is whole; a waiting unit is
  not passed; both checks end; the list of heavy units cannot go stale.
* Depth rule: its two passes measure the same paths; what passes as parts holds
  as a whole; every port of a block is straight.
* Clock-gating rule: no register slips through the form check or between the
  rules; excuses stay within the block's share and the module's allowance, and
  none outlives its reason.
* Top: the elaborated links hold the registers the skeleton models; copies and
  matched pairs are level; every repeater is measured; the latencies given to OOE hold; hosts and
  banks read the bits that were driven; nothing a gate passed is stale.

---------------------------------------------------------------------------

## 2. The modules

```
CreditLink -- LinkTiming -- CheckedLink     CheckedLink has two CreditCheckers
                                  +-- CheckedLinkProofs
SkelSlot ......... CreditFlow               the C++ slot implements an abstract flow
     +-- SkelSlotProofs
ClockGate -- GateEpisodes -- WakeContract -- GateProofs
FreeList ......... FreeVec                  the RTL list implements the model's
     +-- FreeListProofs
OoeWarp -- MCWarp
     +-- OoeWarpProofs
FetchEpoch
     +-- FetchEpochProofs
MeasurePool -- MCPool
     +-- MeasurePoolProofs
NgdTiming -- NgdBlock -- NgdCheck -- MCNgd
                              +-- RuleProofs (also of CgPolicy)
CgForm -- CgUnit -- MCCgUnit
CgPolicy -- MCCgPolicy
LinkPlan -- TopLayout -- TopPorts -- TopWires -- TopHosts -- TopBuild -- MCTop
```

(`--` EXTENDS, `...` INSTANCE with a refinement mapping.)

### The machine

**CreditLink** - one RTL slot as `fv_link.sv` joins it. A step is a clock edge
(`Cycle`), with what the sender wants, whether the receiver drains and whether
it stalls chosen freely. Variables are flops, wires are functions over the
nodes of the link: `v[k]`, `lead[k]`, `rest[k]`, `cr[k]`, `st[k]`. `Built` puts
the boundary flops in the wrapper (`FV_BUILT`) instead of in the blocks. A
message is its sequence number, carried as two slices that must agree.

**LinkTiming** adds three history counters (`Timed`) and states the derived
parameters (`CCV_RT_ABUT`, `CCV_CREDIT_TURNAROUND`, `CCV_RESCUE_DEPTH`,
`CCV_DRAIN_WAIT`, as functions of the stages) as invariants over any past, not
only out of reset.

**CreditChecker, CheckedLink** - the checker as a module with its own three
variables, instantiated at the sender's port and behind the repeaters. Its
properties are operators named as in the RTL; `CheckedLink` states what they
must say of correct ends, with a receiver that drains freely and with one of
fixed latency.

**SkelSlot, CreditFlow** - the C++ slot. Blocks run in either order (`TxCycle`,
`RxCycle`), then `Edge` commits. `CreditFlow` is what a slot promises with no
cycles or stages in it; `ImplementsFlow` is the refinement. Its mapping shows a
message whose lead and rest do not belong together as "torn", which no step of
`CreditFlow` puts out.

**ClockGate, GateEpisodes, WakeContract** - the gate per edge of the ungated
clock; the history its documentation speaks of (lengths of quiesced and stalled
runs, steadiness of thresholds, time since the last wake); and the wake checker
composed with it, the sender's half as what the sender waits for.

**FreeList, FreeVec** - the RTL free list with its flops and its clock enables,
and the C++ class it is held to. The mapping clears the free bit of a name in
transit, which the RTL does an edge later.

**OoeWarp, MCWarp** - one warp slot. A cycle of `Core::cycle()` is a sequence
of phases (`take`, `wake`, `control`, `retire`, `select`, `rename`) and each
handler one action. What the core may decide (which entry issues, is replayed
or confirmed) and what neighbours do (RCU's dones, RAU's commands, DEC's uops,
outcomes of branches) is nondeterministic; what a handler does once reached is
one step. `flight` is RCU's side: the names the unfinished ops of each tag
write. `wp` is a history variable: a mispredicted branch older than the entry
has resolved.

**FetchEpoch** - one warp's epoch and checkpoints in OOE and FET. Messages of
other warps in the shared queue are counts (`ahead`) before the warp's own. FET
is modelled as the core's test environment (`ooe_test.cpp`) and the skeleton's
stub stand for it, no RTL of FET existing here. `stale` in a uop is a history
variable. `InTurnSpec` is the same system where RAU kills a demoting warp only
once the messages of the demotion are sent.

### The tools that build it and judge it

**MeasurePool, MCPool** - check-cg and check-ngd side by side, as `verify.sh`
starts them. A thread's place (`at`) says which locks it holds: the turnstile
(`TakeGate`), the heavy lock, exclusive or shared (`TakeLock`), the lock of a
cache key (`TakeKey`). A hit is renamed into the cache file by file
(`PutPart`), and `Kill` takes a whole check with its locks between any two
steps.

**NgdTiming** - `Timing` over one mapped netlist: the delay of a cell's pin,
loads counted pin by pin, the fanout term, the forward pass with it and
without, the backward pass, and what `map_and_time` keeps of two mappings.
`Netlist` is what `parse_blif` may return of a mapped leaf: finite, each net
driven once, combinational between the flops. `Ways` is the reference: every
way through the gates, each pin's own delay and each net's term summed.
**NgdBlock** - the findings of a unit, the budgets, `converge` level by level
and `boundary`, which follows a wire through as many levels as there are pins;
and, against them, a signal that travels through the real parts of the block.
**NgdCheck** puts the two together: a leaf is timed, budgeted, refused or built
into a block, and the block judged.

**CgForm** - the statements of an `always_ff` from its tokens (`stmt`, as
`Parser.stmt` reads them), the registers it assigns and those it writes outside
a named enable (`nonreset`). `Written` writes a statement back as tokens,
`MayWrite` says what running it can write with a set of conditions off; they
are the reference. **CgUnit** - one unit: the reset
nets and the groups of its netlist, the bench's scenarios cycle by cycle
(`Cycle`) with what `Unit.stats` counts, and every finding read off them. Yosys'
cells and netlist values are external. **CgPolicy** - what is done with the
findings of all units: budgets of modules, waivers, ratchets, and the charge on
the blocks, found by a structural read of the hierarchy.

**LinkPlan** - `params/links.json` as `ccv_links.py` reads it, and what the
skeleton, the checker bank and the parameters derive of it. **TopLayout** -
payload bits twice over. **TopPorts** - the ports of the blocks, the slot map,
the shims. **TopWires** - the wrappers and the top as nets, elaborated and
followed register by register (`Trace`), with what check-top-pure and
check-top-wiring require. **TopHosts** - where each host puts every bit.
**TopBuild** - the gate's prelude over the files: an engineer edits the plan,
each generator writes what is stale and removes what it no longer owns
(`Write`, `Unlink`, `Recorded`), one that refuses or stops only fails the run
(`fail`), a run may be killed at any file, and the checks follow.

A definition that follows the comment *Mutant of X*, or *Mutant*, is not part of
a specification: it is a definition with one plausible mistake, and shows that
a property tells the two apart.

---------------------------------------------------------------------------

## 3. The runs

One run, epoch_ahead, documents a disagreement (section 5). Deadlock is checked
where the system may not stop; pool, ngd, cg, policy and top are programs that
end, and say so.

| Run | Instance | States | What it shows |
|---|---|---|---|
| link | 1 stage, depth 6, boundary in the wrapper, a checker at each end, receivers of both kinds | 273 k | lead and rest paired; full bandwidth after any past; a stall takes hold within rescue depth and drain wait; no false report |
| skel | 2 stages, depth 3, 2 messages | 90 k | refinement of CreditFlow; drain |
| gate | thresholds 0..3, hold 3, wake latency 4 | 166 k | the gate's episodes and its bounded sleep, its hold, and the wake contract |
| freelist | 4 names, 2 banks, buffer 3, 2 ports, frees two cycles after the take | 13 k | nothing offered twice or lost, found by the next search; refinement of FreeVec |
| warp | 1 register, 4 names, 2 checkpoints, ring of 3, 2 retired a cycle, 2 dones owed a tag | 797 k | pool partitioned; dones matched to issues; maps and checkpoints exact; only the right path retires, a released slot is clean |
| epoch | 2 checkpoints, 4 epochs, latency 2, 1 message ahead, 2 uops in the pipe, 1 in the queue | 307 k | no stale rename; mirrors agree; the counter does not come round; frees and redirects land on live checkpoints; kills acked |
| epoch_ahead | as epoch | | *violation*: an ack before its notice lands |
| pool | a light and a heavy unit, 2 checks of 2 threads, 1 kill | 59 k | heavy units alone; hits whole; the heavy list complete; no overtaking; both checks end |
| ngd | 5 functions of a leaf in 4 cells, one with its pins apart, 7 blocks of 2 leaves and a module, stage 4, port 2 | 1.5 M | every depth right, pin by pin, with the fanout term and without; a block that passes is within the stage and straight |
| cg | about 6 k bodies; 4 netlists of up to 4 flops, 2 scenarios of 5 cycles, every input | 127 k | the form check sound; groups exact; every register judged |
| policy | 5 units of 3 modules, 7 instances, sets of findings, waivers and ratchet entries | 74 k | the block's share; a module's allowance in each unit; nothing idle |
| top | 4 block types, 7 channels, up to 2 choices from the repository's plan, 1 edit, 1 kill | 36 k | the six properties of the top |

### The bounds, and why they are enough

* *Link.* The state that matters is the position of pulses on the wires. One
  stage makes every register of a repeater appear and keeps the two checkers
  apart; the boundary in the wrapper is the mode in which the launch acts on
  the older state. Depth is the credit loop of the link (4 + 2N), as the
  generator derives it; sequence numbers wrap above the depth, so no two
  messages outstanding share a number. `OutMax` and `AgeMax` are past every
  value the properties tell apart. Conservation, the types and the overrun are
  proved for all stages, depths and modes.
* *Gate.* Two-bit counters, with thresholds at 0, in the middle and at the
  largest value: the boundary cases of the compare and of the wrap. A hold of 3
  and a latency of 4 are the built ones. The CSR changes the quiesce threshold
  at any time.
* *Free list.* Two entries per bank make every search wrap; three places and
  two banks make appends exceed the room; two ports make takes exceed one.
* *Warp.* A ring of three holds a branch, something older and something
  younger; two checkpoints allow a nested branch; two owed dones a tag allow a
  voided done before a good one; four names for one register and three entries
  leave renaming always possible in some states and impossible in others.
  Names and checkpoints are symmetric: no definition compares them but for
  equality, and the properties of that run are invariants and step properties.
* *Epoch.* Four values are the least V-55 allows for two checkpoints
  (`Epochs > Cardinality(Ckpt) + 1`), so the counter wraps within a run.
  Latency 2 is the built one, and with it one other message ahead is enough
  for every order the shared flag and timer can get wrong: it is where
  `AckAfterNotice` fails. `MaxPipe`, `MaxDecq` and `MaxAhead` are guards on the
  environment: FET stalls, DEC holds its uop, other warps send so much. So is
  `NotRound`, on `Launch`: a relaunch does not find the counter come round to
  the value FET still holds. That takes as many kills and relaunches of the
  warp as the counter has values while one message waits; where it waits for
  one other message, `CounterCovers` shows that it does not happen, and the
  guard never binds.
* *Pool.* Two threads a check and two checks are the least with which a heavy
  unit waits for light ones of its own check and of the other, and a key is
  asked for by two. `MaxKills` of 1 leaves any step half done once; the proofs
  cover every list, width and number of kills.
* *Ngd.* A leaf has a path of each kind (in, out, through, register to
  register, a register behind an output); of the four cells the XOR2 has a slow
  pin and a fast one, as in `ngd.genlib`, and the NAND2 one delay for both; the
  seven shapes take a signal out of a leaf, through a module up, down, in,
  across and out. Budgets are absent, at both ends of the range, between, and
  of the wrong kind. The proof covers every hierarchy and depth.
* *Cg.* Bodies nest two deep, with an `else`, a block, a case and a loop around
  each other; the netlists hold an enable of each polarity, resets flopped once
  and twice, one at the other polarity, one gated by logic, a group too small
  and flops clocked every cycle. Five cycles leave reset and hold, enable and
  idle each at least once.
* *Policy.* One module measured at three sets of parameters, two instances
  reached through a leaf whose parameters are not known, one with a parameter
  left at its default; percentages and flop counts chosen so that one finding
  more or less crosses each limit.
* *Top.* `MCConfs` are the routes, boundary flops and hard-reuse sets at most
  two choices from those of the repository; each is reached by one edit
  (`MaxEdits`) from an earlier plan and one kill (`MaxKills`). Two lanes and a
  rate of two make a copy, a slot and an instance different things.

Counters of history variables saturate just past the largest value a property
distinguishes (`Saturate`, `Upto`, `Capped`).

### Fairness

* `SkelSlot!FairSpec`: weak fairness of the machine's cycle. `Machine::step` is
  called until the run ends. Nothing obliges the run to drain; `DrainsHome`
  speaks of runs that do, and the draining receiver's pop is what the exerciser
  does (`exerciser.cpp`), not an assumption.
* `FetchEpoch!Fairness`: weak fairness of the clock's phases, and strong
  fairness of `Land`: an op that a squash waits for lands in some cycle. RCU
  answers in bounded time and a memory op's done is MIU's; the model offers the
  landing in the first phase of each cycle only, hence strong. No fairness is
  assumed of RAU's commands, of fetch, of resolutions or of renames.
* `MeasurePool!Fairness`: weak fairness of each thread, so a command ends and a
  lock that stays free is granted in the end (flock's order is otherwise free:
  it is the turnstile that must keep a heavy unit from starving), and of a
  killed check being run again. Nothing is assumed of kills but their bound.

---------------------------------------------------------------------------

## 4. The proofs

All by TLAPS, with no assumption but the named ones on constants: the number of
stages is a natural, depths are positive, and so on, each next to the constant
it is about and evaluated by TLC in the runs.

**CheckedLinkProofs, the link alone** - for every number of stages, depth and
boundary mode:
`TypeCorrect` (no counter of the link wraps), `CreditsConserved`
(`Conservation`) and `ReceiverNeverOverrun` (`NoOverflow`). The repository's
own runs establish conservation by k-induction for 0, 1 and 2 stages. Being
proved, these three are not repeated in a run. `PayloadsInOrder` (`DataInOrder`)
says it of the data, for every range of sequence numbers. `Conservation` alone is
not inductive. The invariant proved is

    IInv == TypeBase /\ ResetQuiet /\ NoFlopNoCredit /\ Conservation

`TypeBase` has the types without upper bounds (the bounds follow from
conservation, so they cannot be assumed for it); `ResetQuiet` says that nothing
is on the wires in the cycle after reset, when the repeaters drop what reaches
them; `NoFlopNoCredit` that the sender's interface flop is empty when the
boundary is not the wrapper's. The step: a pipeline of flags changes its count
by the flag that enters and the flag that leaves (`ShiftUp`, `ShiftDown`, from
the library's facts on cardinality), and what leaves one pool enters the next.
For the data the sender's flop, the nodes and the landing are one queue of
places (`Place`). `Queued` gives each message the number its place in the queue
calls for, by the distance of neighbours; `Joined` ties a rest to the lead that
went a cycle before it, wherever the two are.

**CheckedLinkProofs, the checked link** - with its two checkers, for every number
of stages and either boundary: `StallHolds` (`StallTakesHold`), `FullSpeed`
(`FullBandwidth`) and `NothingReported` (`NoFalseReport`). One argument serves
the first two: what has been true at the receiver for n cycles is true at every
node less than n stages from it. `StallReaches`, `WireClears`, `StallGone` and
`BacklogPays` say it of the stall, of the silence behind it, of its absence and
of the credits of a backlog. `FullSpeed` has the hypothesis `Depth >=
CreditLoop`: it is what makes a depth one of full bandwidth
(`CCV_CREDIT_TURNAROUND` is derived so), and with less the statement is false.
For the third, each checker's account is a part of the conserved depth (`AccountsStay`:
what it has counted out is what is between its two taps and the far end, so it
neither passes `Depth` nor goes below zero), its history of stalls is that of
the stall wire (`SeenMoves`, `SeenStays`), and of a prompt receiver the age of
each message is the place where it is (`WayMoves`, `PromptStays`). The counters
of the checker have the widths the RTL gives them, as assumptions: `OutMax >
Depth` and `AgeMax >= 1`.

**SkelSlotProofs** - `SlotImplemented` (`ImplementsFlow`, with the types and the
bounds of every buffer): the C++ slot implements CreditFlow for every number of
stages, depth and set of messages, with leads and without, in whatever order the
two blocks of a cycle run. The invariant is

    SlotIInv == TypeBase /\ Halves /\ Ordered /\ Conserved

`Conserved` is the conservation of credits at each half cycle: `Owed` counts a
credit on the sender's wire until the sender has run. `Halves` says what a block
leaves behind when it has run and that nothing is there before. `Ordered` is
the data: the wire is a row of places from the launch to the landing, a message
is in one of them, its position in `inflight` is the number of full places from
its own on (`Position`), its lead is where its valid is, and the word that will
become its rest is one place behind (`Bears`). A place's count moves with the
edge by a shift of the row (`EdgeAhead`), so nothing is said of the number of
stages. That the receiver holds a lead for one message at most is part of
`Halves`; the code reserves two.

**FreeListProofs** - for every pool, buffer and number of
banks and ports. `EnableCoversAppend`: the clock enable of a bank's candidate,
formed in the RTL from the two banks just ahead instead of from its rank, is on
whenever the bank appends. `RanksFill`: the banks that append have the ranks
from 0 up, each once (an injection between sets of one size is a surjection),
so the gathered buffer has each candidate once. The invariant is

    NamesIInv == Places /\ Searched

`Places` says where a name may be: held and in transit, free and in one place of
the buffer, marked and just popped, or a candidate nobody marked. It gives
`NoNameTwice` (`OffersFree` and `NoneLost`) however early names come back.
`Searched`, for names that come back two cycles after their take at the
earliest, adds that no free name is hidden by a late mark; with it
`EveryNameKept` proves `NamesKept` whole, and `ModelImplemented` the refinement
`ImplementsModel`: each edge takes, frees, appends and finds what a cycle of the
model does. The two searches differ in where they start (`SearchStart`,
`SameSearch`) and in what they see (`ModelSees`), never in what they find.

**GateProofs** - for every hold, wake latency and threshold:
`HeldOpenAfterWake` (`WakeHeldOpen`), `ContractKept` (`ValidMeetsClock`),
`ClosesOnTime` (`GateOnTime`) and `GateTypeCorrect`. The invariant of the first
two is

    GateIInv == HoldLeft /\ Debt

`HoldLeft` ties the hold counter to the time since the last wake; `Debt` says
that a gated last cycle leaves a sleep owed and no ungated run, and that a wake
which has answered it is still in its flop. Neither counter of the hysteresis
appears: these promises do not depend on why the gate closed. `ClosesOnTime` is
about just that. Its invariant

    EpisodeIInv == GateType /\ HistoryType /\ Runs /\ HoldExact /\ Budgeted

has `Runs`, that a counter and its flag say how long its run has lasted against
the threshold it is compared with, as long as that threshold has been steady;
`HoldExact`, what is left of the hold; and `Budgeted`, that the cycles a
quiesced block has been awake, with those its hold and its counter still need,
are within `SleepLatency`. The last holds while the thresholds are rewritten at
will and while the stalled counter moves the clock enable it shares. A
threshold has at least one bit (`HystAssumption`): a counter of none is full
when it is clear.

**MeasurePoolProofs** - for every list of units, heavy or not, every number of
threads and of kills, and without fairness: `HeavyUnitsAlone` (`HeavyAlone`)
and `HitsAreWhole` (`HitsWhole`). The first is inductive with the types: a
thread enters the body of `as_unit` only by `TakeLock`, whose grant looks at
every thread there. The second needs `InOrder`, that a mapped netlist in the
cache has its report beside it: the two checks may both write a key, one of
them after a kill of the other, and each renames the first file not yet there.
It takes as a hypothesis that what is queued are units of the design
(`Submitted \in Seq(Unit)`): the order is made by `SelectSeq` and a sort, and
what a recursive definition returns is out of the prover's reach. TLC evaluates
it in the run. `ListNeverStale` (`ListComplete`) needs no such hypothesis. As long
as nothing was killed, a unit over the limit leaves no trace (a netlist in the
cache, a thread beyond its run, a check that is done with it) before a check
has named it, and the check that named it first had not passed then: it would
have been done with the unit (`NeverKilled`). `NobodyOvertakes`
(`NoOvertaking`) is an action property: the turnstile is one thread's
(`GateAlone`), and whoever waits for the heavy lock has it.

**RuleProofs** - of the two checkers of design rules. `PassesMeasureSame`
(`PassesAgree`): for every library of non-negative delays, pin by pin, and every
acyclic netlist, each depth the rules read is the longest of the ways it stands
for: NGD-1's and NGD-2's, from the flops, and NGD-3's and NGD-5's, from each
input, with the fanout term of every net on the way; NGD-7's, backward from each
end, without; and the depths the forward pass finds without the term are those
the backward pass finds from the other side. It rests on two assumptions, that
`Delay` is natural and that what ABC maps is a `Netlist` (`DelayAssumption`,
`MappedAssumption`; TLC evaluates both in the run). Both passes and the reference
`Ways` are recursive functions over the nets, and the induction theorems of the
library cannot be instantiated by the provers; what takes their place is a
smallest counterexample among finite sets, which `WFMin` on the naturals gives
(`Fewest`). From it follow that such a recursion has a solution (`Solution`: a
largest closed part that has one leaves nothing out), that dependencies founded
one way are founded the other (`Reversed`), and `FoundedInduction`. Both passes
are read off the arcs of the netlist, one for each pin with its delay: those
into a net and those out of it are the same arcs (`ArcsMeet`), and what a step of
either pass takes is the largest over them (`ArcsMax`). With those
each pass does its step at each net (`PropUnfolds`, `BackUnfolds`, `WaysUnfolds`);
the forward pass measures the ways taken from their last gate (`PropMeasures`), the
backward pass those taken from their first (`BackMeasures`), and `WaysFromFirst` says
that these are the same ways.

`SumOfParts` (`WithinStage`): whatever the hierarchy, the
budgets, the depths and the tolerance, in a block that passed no signal is
longer than the stage from flop to flop. The invariant is

    OnTime == at \in Pin /\ ~BlockOut(at) /\ ~Observed(at)
                 => elapsed <= Time(at) + slack

with the verdict carried along (`BlockPassed`): a signal is never later than the
budget of the pin it is at, so each part it crosses may be judged alone.
`PartsJudged` is what the findings, `converge` and `MidThru` say of each kind
of step; the mid modules' NGD-5 is what makes a wire through a level's own pins
harmless, which `converge` itself skips. `Hierarchical`, an assumption on the
initial state, says that an instance is cut out of the level it stands in, that
a level's wires begin and end where its instances' pins are, and that nothing
lies behind the block's outputs. `BoundaryOfParts` (`BoundaryStraight`) follows
what `boundary` looks up through the levels (`OutUnfolds`, `InUnfolds` unfold the
two recursive functions row by row, by the same `Solution`): at a straight output there is no logic
behind the signal whichever instance it came from, and of a straight input the
way ahead is without logic at every pin the signal can reach (`OutStraight`,
`InStraight`).

`NothingKeptIdle` (`NothingIdle`), whatever the units, findings, waivers and
ratchets. What a check that passes must not keep is looked for in two phases that
are far apart: `Waive` says which waivers were used, `Idle` at the end which were
not. `KeptFor` says phase by phase what has been settled:

    KeptFor ==
        /\ phase \in {"budget", "waivers"} => no waiver is used
        /\ each used waiver took a finding, or its refusal is among the failures
        /\ phase \in {"block", "idle", "done"} =>
             each open finding is among the failures
        /\ phase = "done" =>
             each unused waiver, and all that is `Stale`, is among the failures

and no phase takes a failure back. `AllowanceKept` (`AllowanceHeld`) rests on
CgPolicy's one assumption, `Counted` (TLC evaluates it in the run): finitely
many findings and registers, and natural numbers of flops. The budget takes
findings smallest first, so what is taken is all there is up to the last one
taken (`LastTaken`), which was within the allowance; and what is excused, a
finding of several units only if each of them takes it, is a part of what each
takes (`TakenAllowed`). A sum over a set is a fold in an order the code does
not fix: `Totals` and `FoldIs`, again by a smallest counterexample, say that
there is one total whatever the order, and `SumsGrow` that a part has no more
than the whole.

**OoeWarpProofs** - for every ring, pool, set of registers and set of
checkpoints, and every retirement width: `PoolHolds` (`PoolWhole`), `DonesHold`
(`DonesMatched`), `PathHolds` (`PathExact`) and `LeavesHold` (`LeavesRightly`, an
action property). One invariant carries the four,

    WInv == /\ TypeOK /\ Ring /\ Entries /\ DueBranch /\ Unresolved
            /\ Maps /\ Ckpts /\ Olds /\ Apart /\ Whole /\ Slot /\ Dones

and none of them has one of its own: the name that a retirement frees is the
previous version of its register (`Olds`) only if the map it was renamed with
was exact (`Maps`), which a squash preserves only if the checkpoint it restores
is (`Ckpts`), which stays so only if retirement does not pass a branch whose
squash is due (`DueBranch`), which rests on an unresolved branch still having
its checkpoint (`Unresolved`). `MapAt`, what the first n entries leave of the
committed map, is a CHOOSE over the youngest writer; `MapNext` and `MapMoves` say
how it grows and what retiring the head does to it, without recursion. `Refit`
is the step of every action that neither renames nor retires nor squashes.

**FetchEpochProofs** - `StaleNeverRenamed` (`NoStaleRename`), `MirrorsAgree`
(`MirrorAgrees`) and `FreesLandLive` (`FreesLive`) of `Spec`, and `AcksInTurn`
(`AckAfterNotice`) of `InTurnSpec`: for every set of checkpoints, every counter
V-55 allows, every latency from the built two on and every number of messages
ahead in the shared queue. What `Spec` says of acks is not assumed: a kill may
be acked before its notice lands, as epoch_ahead shows, and the first three hold
all the same. The one bound they rest on is `NotRound` (section 3), and without
it `NoStaleRename` is false (section 5). The invariant is

    IInv == /\ TypeOK /\ Modes /\ DownQueue /\ Landings /\ EpochsGiven
            /\ Branches /\ UopsInTurn /\ Mirrored /\ Outdated

and is about what is on its way in the two directions. To FET, by the order it
lands in (`WayMsg`, `WayFree` number the channel and then the head of the queue):
a later redirect is for an older branch, a free is older than every redirect
before it and is not restored by a later one, and after a notice come only
notices (`Landings`). So whatever lands meets the checkpoints it was sent for.
`DownQueue` is the squashed warp's part of it: what may stand in the queue, and
that the timer, once one of the warp's notices or beats has started it,
outlasts all that is in the channel but notices: an ack that comes early leaves
nothing on its way that names a checkpoint. A warp launched while notices of its
slot's last owner are still on their way is dark (`Dark`): all it is sent, and
all it would send, is out of date (`Outdated`), the first of those notices stops
FET, and the warp renames nothing until it is squashed or freed, which is where
`NotRound` is used. To OOE: the stale uops come
first, the others carry the epoch both blocks have (`UopsInTurn`), and a stale
uop is `Behind`,

    Behind(e) == Lag(e) >= 1 /\ Lag(e) + Kept <= Cardinality(Ckpt)

its epoch some squashes back, and together with the branches that stay no more
than the checkpoints. This is why a counter of a few values is enough: each
squash that moved the epoch on took at least one branch from `br`, and a
demotion or a kill drops the uops instead. `Behind` and V-55's width of the
counter exclude that it came round. (`EpochsGiven` says the same of the epochs
FET holds and is being sent.) `Mirrored` is the half of the mirror that is not a
consequence of the rest: a checkpoint that no redirect on its way frees belongs
to a branch that stays, to a uop on its way, or to a free. `Kept` and `NowEpoch`
look past a due squash, so that the edge at which it acts leaves both alone. What
is left of a sequence without some members (`Without`) is counted, not filtered
recursively; `WithoutIs` says all that is needed of it. `AcksInTurn` adds
`TurnInv` to `IInv`: where a kill finds the demotion's messages sent, nothing
but that notice's own beat follows a notice in the queue, the timer covers every
message in the channel, and a warp that rests or runs has no notice on its way.
It says what the finding of section 5 takes, and no run repeats it: nothing in
the code obliges RAU to that order. TLC checked both invariants on small constants
before they were proved.

Only model-checked:

* all liveness (`DrainsHome`, `KillAcked`, `BothEnd`), which TLAPS does not
  cover;
* `CounterCovers`, which holds or not by how long a message waits (with
  `MaxAhead` of 2 at the built latency it does not);
* `FormSound`, `Judged` and `GateExact`, which follow a recursive reading of
  tokens and of netlists;
* `BlockHeld`: its sums run over the hierarchy, and it needs more of the netlists
  than the code checks: that what a unit counts of each register is the sum of what
  its own instances have of it, and that a finding counts no fewer flops than its
  registers have. The run's units and instances are so;
* the top (`TopBuild`): evaluations of whole plans, ports and wires, with a
  RECURSIVE operator that follows a wire.

---------------------------------------------------------------------------

## 5. What was found

* **Ack before its notice** (epoch_ahead, code). `sendRedirect`
  (`ooe_core.cpp:4766`) sets the warp's notice flag and timer on any epoch-only
  message, also on one a demotion queued before the kill that overtook it. With
  the built latency of two and one message of another warp between, the kill is
  acked, and the slot released, before the kill's own notice has landed,
  against V-57. If RAU kills a demoting warp only once its messages are sent,
  every ack is proved to come in time, however long they wait (`AcksInTurn`). The
  early ack alone does not let a stale uop through (`StaleNeverRenamed`): the
  relaunched warp is stopped when the notice lands. With as many messages between
  as the latency, V-53 is within reach as well: early acks in a row leave notices
  of more than one launch in the queue, the counter comes round to the epoch FET
  still holds, and a uop fetched before they land is renamed (TLC finds this
  without `NotRound` for one checkpoint, a three-valued counter, `Lat = 2` and
  `MaxAhead = 2`). The model sets no lower bound on
  the time RAU takes to relaunch, which the machine does, so no run states this.

Three statements in comments do not match the code, and need no run to see:

* *Rescue depth.* With the boundary in the wrapper three messages may land after
  a stall on an abutted link, and `CCV_RESCUE_DEPTH` is derived so
  (`ccv_params.json:598`, `RescueDepth` in LinkTiming, which `StallTakesHold`
  checks). The header of the credit checker (`ccv_common_chk_credit.sv:22`) and
  the text of `CCV_CREDIT_TURNAROUND` still say it equals the round trip.
* *Free list, earliest frees.* The comment at `ooe_freelist.sv:287` promises that
  a name freed the cycle after its take is found by the search after. A bank
  with no candidate is clocked only on the edge after a free; that search still
  sees the mark, and nothing clocks the bank once it clears. With `FreeAfter`
  of 1 the run freelist fails for that reason. In the assembled stage a name is
  freed two cycles after its take at the earliest, which the run as it stands
  shows to suffice.
* *Latency-matched pairs.* `links.json:16` says of such a pair that it "has the
  same total as its partner, so the two arrive in the order they were sent"
  (`ccv_links.py:123` says the like). `load` compares the repeater stages, and
  `CopiesLevel` shows the links of the built top to have as many; it does not
  compare the boundary flop at the receiving end (`bnd_rx`), which a `no_flop`
  entry may leave to one of the two channels. Its messages then arrive a cycle
  after its partner's, nothing refuses, and a free overtakes the redirect sent
  with it. The repository's plan gives neither end a flop, though RCU's two
  entries under `except` are of that kind; among `MCConfs` there is a plan that
  does. No property covers that half.

Looked at and harmless here. A misprediction and a kill or demotion of the same
warp in one cycle give the redirect and the notice the same epoch value; what
FET sends between the two looks current, but the warp renames nothing until RAU
launches it again, behind quiet blocks. V-46's withdrawal of a free
(`ooe_core.cpp:1930`) covers only branches still live, which one resolution of a
warp a cycle, as RCU delivers them, never distinguishes. And `link_stages` takes
the longest entry of a channel, also when entries for single copies override all
of what it said, so a latency may be overstated, never understated
(`LatencyHeld`).

---------------------------------------------------------------------------

## 6. Limits

* *OoeWarp* abstracts: predicates, sections and narrow registers; copies;
  memory ops' second completion at MIU; atomics, barriers and fences; the
  shares of pools between slots (a free name may always be taken) and the
  allocation buffer (FreeList has it); the wake matrix and age order, which
  only restrict what is issued or replayed. A branch's outcome and a fault are
  chosen when they act. The exit is the final one. One warp: other slots meet
  it only in the pool, which they would make smaller.
* *FetchEpoch* abstracts: fetch order, lanes and addresses; more than one
  resolution of a warp in a cycle; the slots under the channel, which is a line
  of fixed latency (its receiver takes every message as it lands); and FET and
  RAU themselves, taken from the stand-ins in this repository. That RAU
  launches a slot only when the blocks between FET and OOE are quiet, and not so
  often while one message waits that the counter comes round (`NotRound`), are
  assumptions of the environment (`Launch`).
* *Links*: the wake line and the trace identifiers of the repeater, X
  propagation, event emission, and the checker's TIMEOUT_N.
* *FreeList*: section bits, returned rows and the counts of owners.
* *Gate*: the cell and the test enable.
* *MeasurePool*: the structural reads of whole blocks, which run outside
  `as_unit`; nested holds; a unit whose task raises. A record of unit times is
  a constant.
* *Ngd*: the text of netlists; clock pins; NGD-6; the ratchet. That an
  observation output is read only by checkers, which sample it at the edge, is
  taken as its declaration says. Paths of a level are 0 or 1 or the stage.
* *Cg*: macros of the source, generate blocks and the text around a statement;
  Yosys and the bench are external; power and memory summaries are left out.
  Of units with the same key only the first stands for instances; the ratchet
  is compared with a constant baseline.
* *Top*: files change only between runs of the gate; the signals of a slot run
  together, so one line stands for a copy; a file whose ownership moved from one
  generator to another is not modelled; of a torn manifest, that every
  generator fails until someone deletes it. `ccv_dpi_ports.h` is written even
  under `--check`, as in the code. A block type without channels stands for any
  the partition gains or drops.

Not modelled at all, and staying so: the rules of `lint-rtl.py` (each a pattern
over lines of text), the generators of documents, recording and comparison of
traces, datapaths, technology cells, archived work and the spike.

Not modelled, and worth it: the OOE scheduler's wake matrix and replay; the
shares of the pools between slots; RCU's migration and kill with OoeWarp's
demote and kill; atomics, barriers and fences; the notice, outstanding,
lockstep, atomic and binding checkers. `PROJECT.json` lists the hazards that
wait for the first three.

---------------------------------------------------------------------------

## 7. The plan

Built in this order: the link and its checkers (every other interaction rests on
them), the gate, the free list, the warp, the mirror with FET; then the tools:
the pool of measurements, the depth rule, the clock-gating rule from the form of
a statement to the policy, and the routes, the generated top and its build.

What a continuation would take, in order:

1. **Scheduler** (`ooe_wake`, `ooe_rs`, `ooe_select`, `ooe_ready`,
   `ooe_confirm`): a consumer's ready bit against its producers' dones, replays
   a hop a cycle, registered requests, confirmation. Abstract specification: an
   op executes only on values that came.
2. **RenameShares**: floors and registered counts of the pools between slots;
   every slot can always take its floor.
3. **RCU migration and kill**, composed with the demote and kill of OoeWarp.
4. **OoeWarp** with atomics and barriers; **FreeList** with sections; FET with
   two warps instead of `ahead` counts.
5. The remaining checkers over SkelSlot with several exercisers; the RAU stub.

Worth proving next: `NoStaleRename` without `NotRound`, for a RAU that takes
longer to relaunch a slot than a message waits; and `BlockHeld`, once what relates
a unit's netlist to its instances is stated as an assumption.

---------------------------------------------------------------------------

## 8. Running it

    tlc -workers 2 -config Link.cfg CheckedLink     (runs: see PROJECT.json)
    tlapm CheckedLinkProofs.tla

Every run finishes within about two minutes on two cores; the longest proofs
take some ten minutes from nothing.
