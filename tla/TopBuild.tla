------------------------------ MODULE TopBuild ------------------------------
(***************************************************************************)
(* The generators of the gate's prelude, over the files they share: an     *)
(* engineer edits params/links.json; tools/verify.sh runs gen-params,      *)
(* gen-skel and gen-top, each writing only the files that are stale and    *)
(* removing what it no longer writes, by its entry in the directory's      *)
(* manifest (tools/genout.py); genout then removes what no generator owns; *)
(* each --check and the top's own checks follow.  A step that fails does   *)
(* not stop the gate, it only fails it.  A run may be killed at any write, *)
(* leaving that file torn.                                                 *)
(***************************************************************************)
EXTENDS TopHosts

CONSTANTS Confs,        \* configurations an engineer may write
          Firsts,       \* those the tree may start from
          MaxEdits, MaxKills

Gens == <<"gen-params", "gen-skel", "gen-top">>
Dirs == <<"generated", "sim", "top", "dpi", "ports", "stubs", "wrap", "test">>

VARIABLES
    conf,       \* links.json and blocks.json: [links, no_flop, reuse, extra]
    lat,        \* ccv_params.json: the crossing each channel's value holds
    files,      \* path |-> text
    torn,       \* paths whose last write was cut short
    manifest,   \* directory |-> owner |-> the paths it records
    lost,       \* directories whose manifest was cut short
    pc,         \* the step of the gate
    fail,       \* a step of this run has failed
    want,       \* the running generator's targets, path |-> text
    edits, kills

vars == <<conf, lat, files, torn, manifest, lost, pc, fail, want, edits, kills>>

(***************************************************************************)
(* Paths and each generator's targets.  A block with no channel (extra)    *)
(* stands for any the partition gains or drops: it comes last, and its     *)
(* common ports are left out.                                              *)
(***************************************************************************)
Path(d, name) == [dir |-> d, mod |-> Module(name, "", 0)]
WrapPath(m)   == [dir |-> "wrap", mod |-> m]

Routes(c)     == [x \in Links |-> hops(c.links, x)]
Insts(c)      == [x \in Links |-> ChanInst(c.links, c.no_flop, x)]
Derived(c)    == [d \in Chans |-> Crossing(c.links, c.no_flop, d)]

\* A table computed once and read many times.
Once(f) == f @@ <<>>

BlockTypes(c) == Types \cup c.extra
PortsIn(b)    == IF b \in DOMAIN PortsOf THEN PortsOf[b] ELSE <<>>
Each(d, S, text(_)) == [p \in {Path(d, b) : b \in S} |-> text(p.mod.type)]

TopTargets(c) ==
    LET H == Once(Routes(c))
        V == Once([k \in Wrappers |-> Stages(H, k)])
        plan == Once([k \in Wrappers |-> wrapper_plan(c.reuse, H, V, k)])
        firstBy(m) == FirstOf({k \in Wrappers : plan[k] = m})
    IN (Path("top", "top") :> ([more |-> c.extra] @@ gen_top(c.reuse, H, V))) @@
       (Path("top", "rpt-units") :> rpt_units(c.no_flop, V)) @@
       (Path("test", "top") :> gen_tb) @@
       (Path("test", "ext") :> gen_shim(PortsOf["ext"])) @@
       (Path("test", "hosted") :> gen_tb_hosted) @@
       (Path("sim", "dpi_ports") :>
           [b \in BlockTypes(c) \cup {"ext"} |-> gen_dpi_header(PortsIn(b))]) @@
       Each("ports", BlockTypes(c), LAMBDA b : gen_ports(PortsIn(b))) @@
       Each("stubs", BlockTypes(c), LAMBDA b : gen_stub(PortsIn(b))) @@
       Each("dpi", BlockTypes(c), LAMBDA b : gen_shim(PortsIn(b))) @@
       [p \in {WrapPath(Module(b, "w", 0)) : b \in c.extra} |-> p.mod.type] @@
       [p \in {WrapPath(plan[k]) : k \in Wrappers} |->
           gen_wrapper(c.no_flop, c.reuse, H, V, firstBy(p.mod))]

Targets(g, c) ==
    CASE g = "gen-params" -> (Path("generated", "params") :> lat) @@ (Path("sim", "params") :> lat)
      [] g = "gen-skel" ->
            (Path("sim", "wiring") :> ([more |-> c.extra] @@ gen_h(Insts(c)))) @@
            (Path("generated", "bank") :>
                [checkers |-> gen_sv,
                 of |-> [x \in Links |-> Checker(c.links, c.no_flop, x)]])
      [] OTHER -> TopTargets(c)

\* gen-params reads the routes but does not judge them.
Refused(g, c) ==
    \/ no_flop_refuses(c.no_flop)
    \/ IF g = "gen-params" THEN lat # Derived(c)
       ELSE load_refuses(c.links) \/ ~(c.reuse \subseteq Types \cup c.extra)

InDir(S, d)     == {p \in S : p.dir = d}
Stale(t, p)     == p \in torn \/ p \notin DOMAIN files \/ files[p] # t[p]
StaleIn(t)      == {p \in DOMAIN t : Stale(t, p)}
Recorded(g, d)  == manifest[d][g]
GenNo(g)        == CHOOSE i \in DOMAIN Gens : Gens[i] = g

\* The files of S in a fixed order, so that one run is one sequence.
Next1(S) == CHOOSE p \in S : TRUE

Without(S) == [p \in DOMAIN files \ S |-> files[p]]

(***************************************************************************)
(* The engineer.  Files change only between runs of the gate.              *)
(***************************************************************************)
Idle == pc \in {"idle", "passed", "failed"}

Edit == /\ Idle /\ edits < MaxEdits
        /\ \E c \in Confs \ {conf} : conf' = c
        /\ edits' = edits + 1
        /\ pc' = "idle"
        /\ UNCHANGED <<lat, files, torn, manifest, lost, fail, want, kills>>

\* gen-params names the value a derived parameter should have.
SetParams == /\ pc = "failed" /\ ~no_flop_refuses(conf.no_flop) /\ lat # Derived(conf)
             /\ lat' = Derived(conf)
             /\ pc' = "idle"
             /\ UNCHANGED <<conf, files, torn, manifest, lost, fail, want, edits, kills>>

\* A manifest cut short is no JSON: every generator that reads it fails,
\* until it is deleted.
Mend == /\ pc = "failed" /\ lost # {}
        /\ manifest' = [d \in DOMAIN manifest |->
              IF d \in lost THEN [g \in ToSet(Gens) |-> {}] ELSE manifest[d]]
        /\ lost' = {}
        /\ pc' = "idle"
        /\ UNCHANGED <<conf, lat, files, torn, fail, want, edits, kills>>

(***************************************************************************)
(* A generator: read the configuration, write what is stale, prune and     *)
(* record each directory.  One that refuses writes nothing, and its        *)
(* --check refuses too; the gate goes on to the next.                      *)
(***************************************************************************)
Ended(g) == g \o " ended"
Fails(b) == fail' = (fail \/ b)

Load(g) ==
    /\ pc = IF GenNo(g) = 1 THEN "idle" ELSE Ended(Gens[GenNo(g) - 1])
    /\ Fails(Refused(g, conf))
    /\ IF Refused(g, conf)
       THEN pc' = Ended(g) /\ UNCHANGED want
       ELSE pc' = g \o " writes" /\ want' = Targets(g, conf)
    /\ UNCHANGED <<conf, lat, files, torn, manifest, lost, edits, kills>>

Write(g) ==
    /\ pc = g \o " writes" /\ StaleIn(want) # {}
    /\ LET p == Next1(StaleIn(want)) IN
       /\ files' = (p :> want[p]) @@ files
       /\ torn' = torn \ {p}
    /\ UNCHANGED <<conf, lat, manifest, lost, pc, fail, want, edits, kills>>

\* Only gen-top lists the wrapper directory for modules it no longer makes.
Leftover == InDir(DOMAIN files, "wrap") \ DOMAIN want
Unlink ==
    /\ pc = "gen-top writes" /\ StaleIn(want) = {} /\ Leftover # {}
    /\ files' = Without({Next1(Leftover)})
    /\ torn' = torn \ {Next1(Leftover)}
    /\ UNCHANGED <<conf, lat, manifest, lost, pc, fail, want, edits, kills>>

Dropped(g, d) == (Recorded(g, d) \ DOMAIN want) \cap DOMAIN files
Unrecorded(g) == {i \in DOMAIN Dirs : Recorded(g, Dirs[i]) # InDir(DOMAIN want, Dirs[i])}

\* sync, directory by directory: the dropped files go, then the manifest is
\* rewritten.  A manifest cut short stops it there.
Wrote(g) == /\ pc = g \o " writes" /\ StaleIn(want) = {}
            /\ g = "gen-top" => Leftover = {}
Cut     == {i \in DOMAIN Dirs : Dirs[i] \in lost}
SyncAt(g, i) == /\ Wrote(g) /\ Unrecorded(g) # {} /\ i = Min(Unrecorded(g))
                /\ \A j \in Cut : i < j

Sync(g) ==
    /\ \E i \in DOMAIN Dirs :
          /\ SyncAt(g, i)
          /\ IF Dropped(g, Dirs[i]) # {}
             THEN /\ files' = Without({Next1(Dropped(g, Dirs[i]))})
                  /\ torn' = torn \ {Next1(Dropped(g, Dirs[i]))}
                  /\ UNCHANGED manifest
             ELSE /\ manifest' = [manifest EXCEPT ![Dirs[i]][g] = InDir(DOMAIN want, Dirs[i])]
                  /\ UNCHANGED <<files, torn>>
    /\ UNCHANGED <<conf, lat, lost, pc, fail, want, edits, kills>>

Stop(g) ==
    /\ Wrote(g) /\ Cut # {} /\ \A i \in Unrecorded(g) : \E j \in Cut : j <= i
    /\ pc' = Ended(g) /\ Fails(TRUE) /\ want' = <<>>
    /\ UNCHANGED <<conf, lat, files, torn, manifest, lost, edits, kills>>

\* The generator again, with --check: nothing stale, nothing to record.
check_stale(g) ==
    \/ StaleIn(Targets(g, conf)) # {}
    \/ Unrecorded(g) # {}
    \/ g = "gen-top" /\ Leftover # {}
Checked(g) ==
    /\ Wrote(g) /\ lost = {} /\ Unrecorded(g) = {}
    /\ pc' = Ended(g) /\ Fails(check_stale(g)) /\ want' = <<>>
    /\ UNCHANGED <<conf, lat, files, torn, manifest, lost, edits, kills>>

(***************************************************************************)
(* genout removes the strays, unless a manifest is cut short; then the top *)
(* is checked.                                                             *)
(***************************************************************************)
Owned == UNION {UNION {manifest[d][g] : g \in ToSet(Gens)} : d \in ToSet(Dirs)}
\* Mutant of strays: the directories under rtl/top are not looked into.
strays_shallow == {p \in DOMAIN files \ Owned : p.dir \in {"generated", "sim", "top", "test"}}
strays == DOMAIN files \ Owned
RemoveStrays ==
    /\ pc = Ended("gen-top") /\ pc' = "built"
    /\ Fails(lost # {})
    /\ LET S == IF lost = {} THEN strays ELSE {} IN
       files' = Without(S) /\ torn' = torn \ S
    /\ UNCHANGED <<conf, lat, manifest, lost, want, edits, kills>>

TopText   == files[Path("top", "top")]
UnitText  == files[Path("top", "rpt-units")]
SkelText  == files[Path("sim", "wiring")]
HostText  == SkelText.links
WrapText  == [m \in {p.mod : p \in InDir(DOMAIN files, "wrap")} |-> files[WrapPath(m)]]
Texts(d)  == [b \in {p.mod.type : p \in InDir(DOMAIN files, d)} |-> files[Path(d, b)]]

CheckTop ==
    /\ pc = "built" /\ fail' = FALSE
    /\ pc' = IF /\ ~fail
                /\ wiring_holds(TopText, WrapText, HostText)
                /\ reuse_holds(TopText, WrapText, conf.reuse)
                /\ units_hold(TopText, WrapText, UnitText)
                /\ pure_holds(TopText) /\ gates_hold(Texts("stubs"))
             THEN "passed" ELSE "failed"
    /\ UNCHANGED <<conf, lat, files, torn, manifest, lost, want, edits, kills>>

(***************************************************************************)
(* A kill during a run: between two steps of it, or inside a write, which  *)
(* leaves the file, or the manifest, cut short.                            *)
(***************************************************************************)
Killed == /\ kills < MaxKills /\ ~Idle /\ kills' = kills + 1
          /\ pc' = "idle" /\ fail' = FALSE /\ want' = <<>>
Kill ==
    /\ Killed
    /\ UNCHANGED <<conf, lat, files, torn, manifest, lost, edits>>
KillWrite ==
    /\ Killed /\ want # <<>> /\ StaleIn(want) # {}
    /\ LET p == Next1(StaleIn(want)) IN
       /\ torn' = torn \cup {p}
       /\ files' = (p :> want[p]) @@ files
    /\ UNCHANGED <<conf, lat, manifest, lost, edits>>
KillRecord ==
    /\ Killed
    /\ \E g \in ToSet(Gens), i \in DOMAIN Dirs :
          SyncAt(g, i) /\ Dropped(g, Dirs[i]) = {} /\ lost' = lost \cup {Dirs[i]}
    /\ UNCHANGED <<conf, lat, files, torn, manifest, edits>>

-----------------------------------------------------------------------------
Everything(c, l) ==
    [p \in {Path("generated", "params"), Path("sim", "params")} |-> l] @@ Targets("gen-skel", c) @@ TopTargets(c)

\* A tree the generators left up to date, perhaps with a stub written before
\* there were manifests.
Init ==
    /\ conf \in Firsts
    /\ lat = Derived(conf)
    /\ files = Everything(conf, lat)
    /\ torn = {} /\ lost = {}
    /\ \E older \in SUBSET {Path("stubs", b) : b \in conf.extra} :
          manifest = [d \in ToSet(Dirs) |-> [g \in ToSet(Gens) |->
             InDir(DOMAIN Targets(g, conf) \ older, d)]]
    /\ pc = "idle" /\ fail = FALSE /\ want = <<>>
    /\ edits = 0 /\ kills = 0

Gen(g) == Load(g) \/ Write(g) \/ Sync(g) \/ Stop(g) \/ Checked(g)
Next == \/ Edit \/ SetParams \/ Mend \/ Unlink \/ RemoveStrays \/ CheckTop
        \/ Kill \/ KillWrite \/ KillRecord
        \/ \E g \in ToSet(Gens) : Gen(g)

Spec == Init /\ [][Next]_vars

-----------------------------------------------------------------------------
\* The gate has written the top, all of it so far without failing.
Written == pc = "built" /\ ~fail
Built   == Written \/ pc = "passed"

\* The skeleton and the top are two generators' readings of one file: once
\* both have written, every link of the elaborated top runs from its sender
\* to its receiver through exactly the registers the skeleton models.
HostsAgree == Built => wiring_holds(TopText, WrapText, HostText)

\* Every repeater of the elaborated top that holds a register is one the
\* clock-gating and timing checks are given, and no other.
RepeatersChecked == Built => units_hold(TopText, WrapText, UnitText)

\* The copies of a lockstep channel pass the checker bank together and
\* reach their receivers together, and the links of a latency-matched pair
\* (A-58) run through as many stages, wherever the floorplan puts them.
StagesOf(x) == Trace(TopText, WrapText, x).n - HostText[x].bnd_src - HostText[x].bnd_rx
CopiesLevel ==
    Built =>
        /\ \A c \in Lockstep : \A x, y \in LinksOf(c) :
              /\ ToBank(TopText, WrapText, x) = ToBank(TopText, WrapText, y)
              /\ Trace(TopText, WrapText, x).n = Trace(TopText, WrapText, y).n
        /\ \A p \in LatencyMatch : \A x \in LinksOf(p[1]), y \in LinksOf(p[2]) :
              StagesOf(x) = StagesOf(y)

\* A gate that passes leaves exactly what this configuration generates,
\* whatever was killed on the way.
NothingStale ==
    pc = "passed" => torn = {} /\ files = Everything(conf, lat)

\* No link of the built top is slower than the parameters say, and a link
\* whose entry is the channel's longest is as slow.
LatencyHeld ==
    Built => \A x \in Links :
        LET n == CCV_LAT_HOP + Trace(TopText, WrapText, x).n - HostText[x].bnd_src
            said == files[Path("sim", "params")][x[1]]
        IN /\ n <= said
           /\ Sum(hops(conf.links, x)) = link_n(conf.links, x[1]) => n = said

\* Whoever reads a slot of the built top reads what its driver put there.
\* Of the hosted C++ blocks, every bit a shim samples is the one the host of
\* the block at the other end drove for that place, and a shim reads its own
\* outputs back where it keeps them; every checker of the bank watches its
\* own slots, where they leave the sender's wrapper, and its receiver's gate.
HostedCarries ==
    Written =>
        /\ hosts_carry(TopText, Texts("ports") @@ ("ext" :> PortsOf["ext"]),
                       Texts("dpi") @@ ("ext" :> files[Path("test", "ext")]),
                       files[Path("sim", "dpi_ports")], SkelText)
        /\ bank_reads(TopText, files[Path("generated", "bank")].checkers)
=============================================================================
