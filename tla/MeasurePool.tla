---------------------------- MODULE MeasurePool ----------------------------
(***************************************************************************)
(* check-cg and check-ngd measuring the design's units side by side, as    *)
(* tools/verify.sh starts them: each a process with a pool of Jobs threads *)
(* over one queue, the two sharing build/heavy-unit.lock, its turnstile    *)
(* (.gate) and the netlist cache build/synth-cache.  A unit's task holds   *)
(* the heavy lock throughout (as_unit), exclusive if tools/heavy-units.json *)
(* names it, shared if not; inside it Yosys runs, or its cached netlist is *)
(* taken (yosys_json), then, in check-ngd, ABC (abc_cached).  flock(2) is  *)
(* granted in no particular order and dies with its process, so a check    *)
(* may be killed between any two steps and run again on the cache it left. *)
(*                                                                         *)
(* A lock has no variable: who holds it is where its threads are.          *)
(***************************************************************************)
EXTENDS Naturals, Sequences, FiniteSets

CONSTANTS
    Units,      \* the units, in load_units' order: a sequence
    HEAVY,      \* units tools/heavy-units.json names
    Loads,      \* what the units may be like: those that peak over
                \* light_rss_max_mib, and those whose Yosys run fails
    Slow,       \* the record of the last clean gate: unit -> seconds
    Jobs,       \* threads of each pool (CCV_JOBS)
    MaxKills    \* bound: kills in a behaviour

Check  == {"check-cg", "check-ngd"}
Unit   == {Units[i] : i \in DOMAIN Units}
Thread == Check \X (1..Jobs)

ASSUME JobsAssumption  == Jobs \in Nat \ {0}
ASSUME UnitsAssumption == /\ 1 \in DOMAIN Units
                          /\ HEAVY \subseteq Unit /\ DOMAIN Slow \subseteq Unit
                          /\ Loads \subseteq (SUBSET Unit) \X (SUBSET Unit)

Kind == {"yosys", "abc"}

\* A cache key and the files a hit of it is made of, in the order written.
\* The two checks run the same script on a shared unit: one key.
Key == Kind \X Unit
Parts(key) == IF key[1] = "yosys" THEN <<"json">> ELSE <<"log", "blif">>

VARIABLES
    Big, Bad, \* the units over the light limit, and those Yosys refuses
    queue,    \* per check: units submitted to its pool and not started
    at,       \* per thread: where it is
    unit,     \* per thread: the unit it measures
    cache,    \* per key: the files of the cache, each "none", "part" or "whole"
    done,     \* per check: units whose measurement ended
    errors,   \* per check: units with errors
    peak,     \* per check: units a command of which was seen over the limit
    state,    \* per check: "run", "pass", "fail" or "killed"
    kills     \* kills so far

vars == <<Big, Bad, queue, at, unit, cache, done, errors, peak, state, kills>>

Tool(th) == th[1]

\* Where a thread can be: at a step of the task, or of the two cached runs.
Place == ({"unit"} \X {"idle", "gate", "lock", "end"})
         \union (Kind \X {"ask", "run", "put", "hit"})

\* Where it holds the turnstile, the heavy lock, and a key's lock.
InGate == {<<"unit", "lock">>}
InBody == (Kind \X {"ask", "run", "put", "hit"}) \union {<<"unit", "end">>}
InKey(kind) == {kind} \X {"run", "put"}

Holds(places) == {th \in Thread : at[th] \in places}
KeyHeld(key)  == {th \in Holds(InKey(key[1])) : unit[th] = key[2]}

Hit(key) == LET last == Parts(key)[Len(Parts(key))]
            IN  cache[key][last] # "none"

-----------------------------------------------------------------------------

\* A unit the record lacks counts as slower than any in it.
SlowOf(u) == IF u \in DOMAIN Slow THEN Slow[u]
             ELSE 1 + Cardinality(Unit) * 1000

\* longest_first: a stable sort of s by the recorded time, slowest first.
longest_first(s) ==
    LET rank(i) == Cardinality({j \in DOMAIN s :
                       \/ SlowOf(s[j]) > SlowOf(s[i])
                       \/ SlowOf(s[j]) = SlowOf(s[i]) /\ j <= i})
    IN  [r \in DOMAIN s |-> s[CHOOSE i \in DOMAIN s : rank(i) = r]]

\* measured: heavy units are queued first.
Submitted == SelectSeq(Units, LAMBDA u : u \in HEAVY)
             \o longest_first(SelectSeq(Units, LAMBDA u : u \notin HEAVY))

Init ==
    /\ \E l \in Loads : Big = l[1] /\ Bad = l[2]
    /\ queue = [c \in Check |-> Submitted]
    /\ at = [th \in Thread |-> <<"unit", "idle">>]
    /\ unit = [th \in Thread |-> Units[1]]
    /\ cache = [key \in Key |-> [f \in {"json", "log", "blif"} |-> "none"]]
    /\ done = [c \in Check |-> {}]
    /\ errors = [c \in Check |-> {}]
    /\ peak = [c \in Check |-> {}]
    /\ state = [c \in Check |-> "run"]
    /\ kills = 0

Go(th, place) == at' = [at EXCEPT ![th] = place]

\* A command of th's unit ran: its peak is noted.
note_rss(th) ==
    peak' = IF unit[th] \in Big
            THEN [peak EXCEPT ![Tool(th)] = @ \union {unit[th]}] ELSE peak

\* A pool thread takes the next unit and goes to the turnstile.  Idle threads
\* are alike: the first of them is the one.
unit_task(th) ==
    /\ at[th] = <<"unit", "idle">> /\ \A j \in 1..(th[2] - 1) : at[<<Tool(th), j>>] # <<"unit", "idle">>
    /\ queue[Tool(th)] # <<>> /\ state[Tool(th)] = "run"
    /\ unit' = [unit EXCEPT ![th] = Head(queue[Tool(th)])]
    /\ queue' = [queue EXCEPT ![Tool(th)] = Tail(@)]
    /\ Go(th, <<"unit", "gate">>)
    /\ UNCHANGED <<cache, done, errors, peak, state, kills>>

\* Mutant of GateFree: there is no turnstile.
GateOpen == TRUE

GateFree == Holds(InGate) = {}

\* as_unit: the turnstile (LOCK_EX on the .gate file).
TakeGate(th) ==
    /\ at[th] = <<"unit", "gate">> /\ GateFree
    /\ Go(th, <<"unit", "lock">>)
    /\ UNCHANGED <<queue, unit, cache, done, errors, peak, state, kills>>

\* Mutant of LockFree: a light unit's shared lock ignores the exclusive one.
LockFreeToLight(u) == u \in HEAVY => Holds(InBody) = {}

\* Mutant of LockFree: a nested hold on a second descriptor waits on itself.
LockFreeNested(u) ==
    \A th \in Holds(InBody \union InGate) :
        u \notin HEAVY /\ unit[th] \notin HEAVY

\* flock(lk, LOCK_EX if name in heavy else LOCK_SH) is granted.
LockFree(u) ==
    \A th \in Holds(InBody) : u \notin HEAVY /\ unit[th] \notin HEAVY

\* as_unit: the lock, and the turnstile let go with it.
TakeLock(th) ==
    /\ at[th] = <<"unit", "lock">> /\ LockFree(unit[th])
    /\ Go(th, <<"yosys", "ask">>)
    /\ UNCHANGED <<queue, unit, cache, done, errors, peak, state, kills>>

\* check-ngd maps what Yosys wrote; check-cg is done with the unit's locks.
Leads(th, kind) == IF kind = "yosys" /\ Tool(th) = "check-ngd"
                   THEN <<"abc", "ask">> ELSE <<"unit", "end">>

KeyFree(key) == KeyHeld(key) = {}

\* yosys_json, abc_cached: the key's lock, and the look for a hit under it.
\* On a hit the lock is let go before the hit is copied (yosys_json).
TakeKey(th, kind) ==
    LET key == <<kind, unit[th]>> IN
    /\ at[th] = <<kind, "ask">> /\ KeyFree(key)
    /\ Go(th, <<kind, IF Hit(key) THEN "hit" ELSE "run">>)
    /\ UNCHANGED <<queue, unit, cache, done, errors, peak, state, kills>>

\* What the run and the copies of what it wrote leave in the cache before
\* anything is renamed: .tmp files, which nothing reads.
Written(key) == cache

\* The run, with its memory noted.  One that fails makes no hit.
RunKey(th, kind) ==
    /\ at[th] = <<kind, "run">>
    /\ note_rss(th)
    /\ IF kind = "yosys" /\ unit[th] \in Bad
       THEN /\ errors' = [errors EXCEPT ![Tool(th)] = @ \union {unit[th]}]
            /\ Go(th, <<"unit", "end">>)
            /\ UNCHANGED cache
       ELSE /\ cache' = Written(<<kind, unit[th]>>)
            /\ Go(th, <<kind, "put">>)
            /\ UNCHANGED errors
    /\ UNCHANGED <<queue, unit, done, state, kills>>

\* Mutant of NextPart: the mapped netlist is renamed before its report.
NextPartLast(key) ==
    LET left == {i \in DOMAIN Parts(key) : cache[key][Parts(key)[i]] # "whole"}
    IN  IF left = {} THEN 1 ELSE CHOOSE i \in left : \A j \in left : i >= j

\* The next file of a hit to be renamed into place.
NextPart(key) ==
    LET left == {i \in DOMAIN Parts(key) : cache[key][Parts(key)[i]] # "whole"}
    IN  IF left = {} THEN Len(Parts(key))
        ELSE CHOOSE i \in left : \A j \in left : i <= j

\* os.replace, a file at a step, the one a hit is known by last; that lets
\* the key's lock go.  A log a killed run left is as good as a new one.
PutPart(th, kind) ==
    LET key == <<kind, unit[th]>>
        i   == NextPart(key)
    IN  /\ at[th] = <<kind, "put">>
        /\ cache' = [cache EXCEPT ![key][Parts(key)[i]] = "whole"]
        /\ Go(th, IF i = Len(Parts(key)) THEN Leads(th, kind)
                                         ELSE <<kind, "put">>)
        /\ UNCHANGED <<queue, unit, done, errors, peak, state, kills>>

\* A hit's files are copied into the unit's own directory.
CopyHit(th, kind) ==
    /\ at[th] = <<kind, "hit">>
    /\ Go(th, Leads(th, kind))
    /\ UNCHANGED <<queue, unit, cache, done, errors, peak, state, kills>>

\* as_unit's end: the lock is closed, the future has its result.
Close(th) ==
    /\ at[th] = <<"unit", "end">>
    /\ done' = [done EXCEPT ![Tool(th)] = @ \union {unit[th]}]
    /\ Go(th, <<"unit", "idle">>)
    /\ UNCHANGED <<queue, unit, cache, errors, peak, state, kills>>

\* Mutant of heavy_check: a unit is judged by the name of its check's list,
\* the heavy ones instead of the light.
heavy_check_inverted(c) == peak[c] \subseteq Unit

\* heavy_check: no unit outside the list went over the light limit.
heavy_check(c) == peak[c] \subseteq HEAVY

\* main_check after its last unit: unmeasured units and the heavy list.
Finish(c) ==
    /\ state[c] = "run" /\ done[c] = Unit
    /\ state' = [state EXCEPT ![c] =
                    IF errors[c] = {} /\ heavy_check(c) THEN "pass" ELSE "fail"]
    /\ UNCHANGED <<queue, at, unit, cache, done, errors, peak, kills>>

\* The process is killed: its threads are gone, and with them its locks.
Kill(c) ==
    /\ state[c] = "run" /\ kills < MaxKills
    /\ kills' = kills + 1
    /\ state' = [state EXCEPT ![c] = "killed"]
    /\ at' = [th \in Thread |-> IF Tool(th) = c THEN <<"unit", "idle">> ELSE at[th]]
    /\ UNCHANGED <<queue, unit, cache, done, errors, peak>>

\* It is run again with the cache kept (verify.sh --cached).
Rerun(c) ==
    /\ state[c] = "killed"
    /\ state' = [state EXCEPT ![c] = "run"]
    /\ queue' = [queue EXCEPT ![c] = Submitted]
    /\ done' = [done EXCEPT ![c] = {}]
    /\ errors' = [errors EXCEPT ![c] = {}]
    /\ peak' = [peak EXCEPT ![c] = {}]
    /\ UNCHANGED <<at, unit, cache, kills>>

Step(th) ==
    \/ unit_task(th) \/ TakeGate(th) \/ TakeLock(th) \/ Close(th)
    \/ \E kind \in Kind :
         \/ TakeKey(th, kind) \/ RunKey(th, kind)
         \/ PutPart(th, kind) \/ CopyHit(th, kind)

Next == /\ \/ \E th \in Thread : Step(th)
           \/ \E c \in Check : Finish(c) \/ Kill(c) \/ Rerun(c)
        /\ UNCHANGED <<Big, Bad>>

\* Every runnable thread runs, every command ends, a lock that stays free is
\* granted in the end, and a killed check is run again.
Fairness == /\ \A th \in Thread : WF_vars(Step(th) /\ UNCHANGED <<Big, Bad>>)
            /\ \A c \in Check : WF_vars(Finish(c) /\ UNCHANGED <<Big, Bad>>)
                                 /\ WF_vars(Rerun(c) /\ UNCHANGED <<Big, Bad>>)

Spec == Init /\ [][Next]_vars /\ Fairness

-----------------------------------------------------------------------------

(***************************************************************************)
(* CCV_HEAVY_SERIAL (check-cg.py, "Heavy units, one at a time"): while a   *)
(* unit on the list is measured, no other unit is, in either check.        *)
(***************************************************************************)
HeavyAlone ==
    \A th, o \in Holds(InBody) : th # o => unit[th] \notin HEAVY

(***************************************************************************)
(* as_unit's turnstile: from the moment a unit waits for the heavy lock,   *)
(* no unit that came after it starts before it does, in either check, so a *)
(* heavy unit waits for those already running and for no other.            *)
(***************************************************************************)
NoOvertaking ==
    [][\A th \in Thread :
         at[th] = <<"unit", "lock">> /\ at'[th] = <<"unit", "lock">> =>
            \A o \in Thread : at'[o] = <<"yosys", "ask">> => at[o] = at'[o]]_vars

(***************************************************************************)
(* A hit is the netlist, and the report, the run would have written: no    *)
(* reader finds part of it, whichever check was killed where.              *)
(***************************************************************************)
HitsWhole ==
    \A th \in Thread : \A kind \in Kind :
        at[th] = <<kind, "hit">> =>
            \A i \in DOMAIN Parts(<<kind, unit[th]>>) :
                cache[<<kind, unit[th]>>][Parts(<<kind, unit[th]>>)[i]] = "whole"

(***************************************************************************)
(* "The list cannot go stale silently": when a gate whose cache started    *)
(* empty passes both checks, every unit over the light limit is named,     *)
(* although each check runs only the commands the other has not.           *)
(***************************************************************************)
ListComplete ==
    kills = 0 /\ (\A c \in Check : state[c] = "pass") => Big \subseteq HEAVY

(***************************************************************************)
(* Both checks end, whatever the order their threads meet the turnstile,   *)
(* the heavy lock and the keys' locks in, kills included.                  *)
(***************************************************************************)
BothEnd == <>[](\A c \in Check : state[c] \in {"pass", "fail"})
=============================================================================
