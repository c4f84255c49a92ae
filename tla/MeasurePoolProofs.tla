------------------------- MODULE MeasurePoolProofs -------------------------
(***************************************************************************)
(* That the locks and the cache of the measurements keep their promises    *)
(* for any list of units, heavy or not, any number of threads a check and  *)
(* any number of kills; that two checks which end without a kill leave no  *)
(* unit over the limit off the heavy list; and that no thread passes one   *)
(* that waits for the heavy lock.  None of this rests on the order in      *)
(* which the threads come to a lock, nor on fairness.                      *)
(***************************************************************************)
EXTENDS MeasurePool, TLAPS

\* Where a thread may be, and that each has a unit.
PoolType == /\ at \in [Thread -> Place]
            /\ DOMAIN unit = Thread

HeavyIInv == PoolType /\ HeavyAlone

-----------------------------------------------------------------------------

\* A step that leaves the places and the units alone keeps the invariant; so
\* does one that takes a thread from where it holds the heavy lock, or does
\* not, to where it is the same.
LEMMA BodyKept ==
  ASSUME HeavyIInv, NEW th \in Thread, NEW place \in Place,
         at' = [at EXCEPT ![th] = place], UNCHANGED unit,
         place \in InBody => at[th] \in InBody
  PROVE  HeavyIInv'
BY DEF HeavyIInv, PoolType, HeavyAlone, Holds

\* The places of the cached runs are places, and in the body of as_unit.
LEMMA KeyPlaces ==
  ASSUME NEW kind \in Kind
  PROVE  /\ \A s \in {"ask", "run", "put", "hit"} :
              <<kind, s>> \in Place /\ <<kind, s>> \in InBody
         /\ \A th \in Thread : Leads(th, kind) \in Place
         /\ \A th \in Thread : Leads(th, kind) \in InBody
BY DEF Kind, Place, InBody, Leads

LEMMA HeavyInit == Init => HeavyIInv
BY DEF Init, HeavyIInv, PoolType, HeavyAlone, Holds, InBody, Place, Kind

LEMMA HeavyStep == HeavyIInv /\ [Next]_vars => HeavyIInv'
<1> SUFFICES ASSUME HeavyIInv, [Next]_vars PROVE HeavyIInv'
  OBVIOUS
<1>1. CASE UNCHANGED vars
  BY <1>1 DEF vars, HeavyIInv, PoolType, HeavyAlone, Holds
<1>2. ASSUME NEW th \in Thread, unit_task(th)
      PROVE  HeavyIInv'
  <2>1. at' = [at EXCEPT ![th] = <<"unit", "gate">>]
    BY <1>2 DEF unit_task, Go
  <2>2. <<"unit", "gate">> \in Place /\ <<"unit", "gate">> \notin InBody
    BY DEF Place, InBody, Kind
  <2>3. \A o \in Thread : o # th => unit'[o] = unit[o]
    BY <1>2 DEF unit_task, HeavyIInv, PoolType
  <2>4. DOMAIN unit' = Thread
    BY <1>2 DEF unit_task, HeavyIInv, PoolType
  <2> QED BY <2>1, <2>2, <2>3, <2>4 DEF HeavyIInv, PoolType, HeavyAlone, Holds
<1>3. ASSUME NEW th \in Thread, TakeGate(th)
      PROVE  HeavyIInv'
  <2>1. <<"unit", "lock">> \in Place /\ <<"unit", "lock">> \notin InBody
    BY DEF Place, InBody, Kind
  <2> QED BY <1>3, <2>1, BodyKept DEF TakeGate, Go
<1>4. ASSUME NEW th \in Thread, TakeLock(th)
      PROVE  HeavyIInv'
  <2>1. at' = [at EXCEPT ![th] = <<"yosys", "ask">>] /\ UNCHANGED unit
    BY <1>4 DEF TakeLock, Go
  <2>2. <<"yosys", "ask">> \in Place
    BY KeyPlaces DEF Kind
  <2>3. \A o \in Holds(InBody) : unit[th] \notin HEAVY /\ unit[o] \notin HEAVY
    BY <1>4 DEF TakeLock, LockFree
  <2>4. \A o \in Thread : o # th => at'[o] = at[o]
    BY <2>1 DEF HeavyIInv, PoolType
  <2>5. \A o \in Holds(InBody)' : o = th \/ o \in Holds(InBody)
    BY <2>4 DEF Holds, InBody, Kind
  <2>6. PoolType'
    BY <2>1, <2>2 DEF HeavyIInv, PoolType
  <2>7. HeavyAlone'
    BY <2>1, <2>3, <2>5 DEF HeavyIInv, HeavyAlone
  <2> QED BY <2>6, <2>7 DEF HeavyIInv
<1>5. ASSUME NEW th \in Thread, Close(th)
      PROVE  HeavyIInv'
  <2>1. <<"unit", "idle">> \in Place /\ <<"unit", "idle">> \notin InBody
    BY DEF Place, InBody, Kind
  <2> QED BY <1>5, <2>1, BodyKept DEF Close, Go
<1>6. ASSUME NEW th \in Thread, NEW kind \in Kind,
             \/ TakeKey(th, kind) \/ RunKey(th, kind)
             \/ PutPart(th, kind) \/ CopyHit(th, kind)
      PROVE  HeavyIInv'
  <2>1. /\ UNCHANGED unit /\ at[th] \in InBody
        /\ \E place \in Place : at' = [at EXCEPT ![th] = place]
    <3>1. CASE TakeKey(th, kind)
      BY <3>1, KeyPlaces DEF TakeKey, Go
    <3>2. CASE RunKey(th, kind)
      <4>1. <<"unit", "end">> \in Place
        BY DEF Place, Kind
      <4> QED BY <3>2, <4>1, KeyPlaces DEF RunKey, Go
    <3>3. CASE PutPart(th, kind)
      BY <3>3, KeyPlaces DEF PutPart, Go
    <3>4. CASE CopyHit(th, kind)
      BY <3>4, KeyPlaces DEF CopyHit, Go
    <3> QED BY <1>6, <3>1, <3>2, <3>3, <3>4
  <2> QED BY <2>1, BodyKept
<1>7. ASSUME NEW c \in Check, Finish(c) \/ Rerun(c)
      PROVE  HeavyIInv'
  BY <1>7 DEF Finish, Rerun, HeavyIInv, PoolType, HeavyAlone, Holds
<1>8. ASSUME NEW c \in Check, Kill(c)
      PROVE  HeavyIInv'
  <2>1. UNCHANGED unit
        /\ at' = [th \in Thread |-> IF Tool(th) = c THEN <<"unit", "idle">> ELSE at[th]]
    BY <1>8 DEF Kill
  <2>2. <<"unit", "idle">> \in Place /\ <<"unit", "idle">> \notin InBody
    BY DEF Place, InBody, Kind
  <2> QED BY <2>1, <2>2 DEF HeavyIInv, PoolType, HeavyAlone, Holds
<1> QED BY <1>1, <1>2, <1>3, <1>4, <1>5, <1>6, <1>7, <1>8 DEF Next, Step

\* "Heavy units, one at a time": while a unit of heavy-units.json is measured
\* no other unit is, in either check, for every list, width and kill.
THEOREM HeavyUnitsAlone == Spec => []HeavyAlone
<1>1. HeavyIInv => HeavyAlone
  BY DEF HeavyIInv
<1> QED BY <1>1, HeavyInit, HeavyStep, PTL DEF Spec

-----------------------------------------------------------------------------

\* A file of the cache is there whole or not at all.
CacheType == cache \in [Key -> [{"json", "log", "blif"} -> {"none", "whole"}]]

\* A hit is known by the file renamed last, so all of it is there.
InOrder == \A u \in Unit :
             cache[<<"abc", u>>]["blif"] = "whole" => cache[<<"abc", u>>]["log"] = "whole"

\* A thread's unit is one of the design's, and so is what is queued.
UnitType == /\ unit \in [Thread -> Unit]
            /\ queue \in [Check -> Seq(Unit)]

\* HitsWhole, by what the files of each kind are.
HitFiles ==
    \A th \in Thread :
      /\ at[th] = <<"yosys", "hit">> => cache[<<"yosys", unit[th]>>]["json"] = "whole"
      /\ at[th] = <<"abc", "hit">> =>
           /\ cache[<<"abc", unit[th]>>]["log"] = "whole"
           /\ cache[<<"abc", unit[th]>>]["blif"] = "whole"

HitIInv == PoolType /\ UnitType /\ CacheType /\ InOrder /\ HitFiles

\* What a hit, a whole hit and the next file are, for each kind of key.
LEMMA YosysKey ==
  ASSUME CacheType, NEW u \in Unit
  PROVE  LET key == <<"yosys", u>> IN
         /\ Hit(key) <=> cache[key]["json"] = "whole"
         /\ (\A i \in DOMAIN Parts(key) : cache[key][Parts(key)[i]] = "whole")
              <=> cache[key]["json"] = "whole"
         /\ Parts(key)[NextPart(key)] = "json"
<1> DEFINE key == <<"yosys", u>>
<1>1. Parts(key) = <<"json">>
  BY DEF Parts
<1>2. key \in Key
  BY DEF Key, Kind
<1>3. cache[key]["json"] \in {"none", "whole"}
  BY <1>2 DEF CacheType
<1>4. Len(Parts(key)) = 1 /\ DOMAIN Parts(key) = {1} /\ Parts(key)[1] = "json"
  BY <1>1
<1>5. NextPart(key) = 1
  <2> HIDE DEF key
  <2> QED BY <1>4 DEF NextPart
<1> HIDE DEF key
<1>6. /\ Hit(key) <=> cache[key]["json"] = "whole"
      /\ (\A i \in DOMAIN Parts(key) : cache[key][Parts(key)[i]] = "whole")
           <=> cache[key]["json"] = "whole"
      /\ Parts(key)[NextPart(key)] = "json"
  BY <1>3, <1>4, <1>5 DEF Hit
<1> QED BY <1>6 DEF key

LEMMA AbcKey ==
  ASSUME CacheType, NEW u \in Unit
  PROVE  LET key == <<"abc", u>> IN
         /\ Hit(key) <=> cache[key]["blif"] = "whole"
         /\ (\A i \in DOMAIN Parts(key) : cache[key][Parts(key)[i]] = "whole")
              <=> cache[key]["log"] = "whole" /\ cache[key]["blif"] = "whole"
         /\ Parts(key)[NextPart(key)] =
              IF cache[key]["log"] = "whole" THEN "blif" ELSE "log"
<1> DEFINE key == <<"abc", u>>
<1>1. Parts(key) = <<"log", "blif">>
  BY DEF Parts
<1>2. key \in Key
  BY DEF Key, Kind
<1>3. cache[key]["log"] \in {"none", "whole"} /\ cache[key]["blif"] \in {"none", "whole"}
  BY <1>2 DEF CacheType
<1>4. /\ Len(Parts(key)) = 2 /\ DOMAIN Parts(key) = {1, 2}
      /\ Parts(key)[1] = "log" /\ Parts(key)[2] = "blif"
  BY <1>1
<1> HIDE DEF key
<1>5. NextPart(key) = IF cache[key]["log"] = "whole" THEN 2 ELSE 1
  <2> DEFINE left == {i \in DOMAIN Parts(key) : cache[key][Parts(key)[i]] # "whole"}
  <2>1. NextPart(key) = IF left = {} THEN Len(Parts(key))
                        ELSE CHOOSE i \in left : \A j \in left : i <= j
    BY DEF NextPart
  <2>2. CASE cache[key]["log"] = "whole"
    <3>1. left \subseteq {2}
      BY <1>4, <2>2
    <3> QED BY <1>4, <2>1, <2>2, <3>1
  <2>3. CASE cache[key]["log"] # "whole"
    <3>1. 1 \in left /\ left \subseteq {1, 2}
      BY <1>4, <2>3
    <3> QED BY <2>1, <2>3, <3>1
  <2> QED BY <2>2, <2>3
<1>6. /\ Hit(key) <=> cache[key]["blif"] = "whole"
      /\ (\A i \in DOMAIN Parts(key) : cache[key][Parts(key)[i]] = "whole")
           <=> cache[key]["log"] = "whole" /\ cache[key]["blif"] = "whole"
      /\ Parts(key)[NextPart(key)] =
           IF cache[key]["log"] = "whole" THEN "blif" ELSE "log"
  BY <1>3, <1>4, <1>5 DEF Hit
<1> QED BY <1>6 DEF key

LEMMA HitsByFile == HitIInv => HitsWhole
<1> SUFFICES ASSUME HitIInv, NEW th \in Thread, NEW kind \in Kind,
                    at[th] = <<kind, "hit">>
             PROVE  \A i \in DOMAIN Parts(<<kind, unit[th]>>) :
                      cache[<<kind, unit[th]>>][Parts(<<kind, unit[th]>>)[i]] = "whole"
  BY DEF HitsWhole
<1>1. unit[th] \in Unit /\ CacheType
  BY DEF HitIInv, UnitType
<1>2. CASE kind = "yosys"
  <2>1. cache[<<"yosys", unit[th]>>]["json"] = "whole"
    BY <1>2 DEF HitIInv, HitFiles
  <2> QED BY <1>1, <1>2, <2>1, YosysKey
<1>3. CASE kind = "abc"
  <2>1. /\ cache[<<"abc", unit[th]>>]["log"] = "whole"
        /\ cache[<<"abc", unit[th]>>]["blif"] = "whole"
    BY <1>3 DEF HitIInv, HitFiles
  <2> QED BY <1>1, <1>3, <2>1, AbcKey
<1> QED BY <1>2, <1>3 DEF Kind

LEMMA HitInit == Submitted \in Seq(Unit) /\ Init => UnitType /\ CacheType /\ InOrder /\ HitFiles
<1> SUFFICES ASSUME Submitted \in Seq(Unit), Init
             PROVE  UnitType /\ CacheType /\ InOrder /\ HitFiles
  OBVIOUS
<1>1. UnitType
  BY UnitsAssumption DEF Init, UnitType, Unit
<1>2. CacheType
  BY DEF Init, CacheType
<1>3. InOrder
  BY DEF Init, InOrder, Key, Kind
<1>4. HitFiles
  BY DEF Init, HitFiles
<1> QED BY <1>1, <1>2, <1>3, <1>4

\* A step that leaves the cache alone and takes a thread to a hit only where
\* one was found keeps the invariant.
LEMMA HitKept ==
  ASSUME HitIInv, NEW th \in Thread, NEW place, UNCHANGED <<cache, unit, queue>>,
         at' = [at EXCEPT ![th] = place],
         \A kind \in Kind : place = <<kind, "hit">> => Hit(<<kind, unit[th]>>)
  PROVE  UnitType' /\ CacheType' /\ InOrder' /\ HitFiles'
<1> USE DEF HitIInv
<1>1. UnitType' /\ CacheType' /\ InOrder'
  BY DEF UnitType, CacheType, InOrder
<1>2. unit[th] \in Unit
  BY DEF UnitType
<1>3. /\ at'[th] = place
      /\ \A o \in Thread : o # th => at'[o] = at[o]
  BY DEF PoolType
<1>4. ASSUME place = <<"yosys", "hit">>
      PROVE  cache[<<"yosys", unit[th]>>]["json"] = "whole"
  BY <1>2, <1>4, YosysKey DEF Kind
<1>5. ASSUME place = <<"abc", "hit">>
      PROVE  /\ cache[<<"abc", unit[th]>>]["log"] = "whole"
             /\ cache[<<"abc", unit[th]>>]["blif"] = "whole"
  BY <1>2, <1>5, AbcKey DEF Kind, InOrder
<1> QED BY <1>1, <1>3, <1>4, <1>5 DEF HitFiles

\* A thread goes on from a cached run to no hit.
LEMMA LeadsToNoHit ==
  ASSUME NEW th \in Thread, NEW kind \in Kind, NEW k \in Kind
  PROVE  Leads(th, kind) # <<k, "hit">>
BY DEF Leads

LEMMA HitStep ==
  ASSUME Submitted \in Seq(Unit), HitIInv, [Next]_vars, PoolType'
  PROVE  UnitType' /\ CacheType' /\ InOrder' /\ HitFiles'
<1> USE DEF HitIInv
<1>1. CASE UNCHANGED vars
  BY <1>1 DEF vars, UnitType, CacheType, InOrder, HitFiles
<1>2. ASSUME NEW th \in Thread, unit_task(th)
      PROVE  UnitType' /\ CacheType' /\ InOrder' /\ HitFiles'
  <2>1. Tool(th) \in Check /\ queue[Tool(th)] \in Seq(Unit) /\ queue[Tool(th)] # <<>>
    BY <1>2 DEF unit_task, UnitType, Thread, Tool
  <2>2. Head(queue[Tool(th)]) \in Unit /\ Tail(queue[Tool(th)]) \in Seq(Unit)
    BY <2>1
  <2>3. UnitType'
    BY <1>2, <2>1, <2>2 DEF unit_task, UnitType
  <2>4. CacheType' /\ InOrder'
    BY <1>2 DEF unit_task, CacheType, InOrder
  <2>5. /\ at'[th] = <<"unit", "gate">>
        /\ \A o \in Thread : o # th => at'[o] = at[o] /\ unit'[o] = unit[o]
    BY <1>2 DEF unit_task, Go, PoolType
  <2>6. UNCHANGED cache /\ \A k \in Kind : at'[th] # <<k, "hit">>
    BY <1>2, <2>5 DEF unit_task, Kind
  <2>7. HitFiles'
    BY <2>5, <2>6 DEF HitFiles, Kind
  <2> QED BY <2>3, <2>4, <2>7
<1>3. ASSUME NEW th \in Thread, TakeGate(th) \/ TakeLock(th) \/ Close(th)
      PROVE  UnitType' /\ CacheType' /\ InOrder' /\ HitFiles'
  <2>1. CASE TakeGate(th)
    BY <2>1, HitKept DEF TakeGate, Go, Kind
  <2>2. CASE TakeLock(th)
    BY <2>2, HitKept DEF TakeLock, Go, Kind
  <2>3. CASE Close(th)
    BY <2>3, HitKept DEF Close, Go, Kind
  <2> QED BY <1>3, <2>1, <2>2, <2>3
<1>4. ASSUME NEW th \in Thread, NEW kind \in Kind, TakeKey(th, kind)
      PROVE  UnitType' /\ CacheType' /\ InOrder' /\ HitFiles'
  <2>1. UNCHANGED <<cache, unit, queue>>
    BY <1>4 DEF TakeKey
  <2>2. CASE Hit(<<kind, unit[th]>>)
    <3>1. at' = [at EXCEPT ![th] = <<kind, "hit">>]
      BY <1>4, <2>2 DEF TakeKey, Go
    <3>2. \A k \in Kind : <<kind, "hit">> = <<k, "hit">> => k = kind
      OBVIOUS
    <3>3. \A k \in Kind : <<kind, "hit">> = <<k, "hit">> => Hit(<<k, unit[th]>>)
      BY <2>2, <3>2
    <3> QED BY <2>1, <3>1, <3>3, HitKept
  <2>3. CASE ~Hit(<<kind, unit[th]>>)
    <3>1. at' = [at EXCEPT ![th] = <<kind, "run">>]
      BY <1>4, <2>3 DEF TakeKey, Go
    <3>2. \A k \in Kind : <<kind, "run">> # <<k, "hit">>
      OBVIOUS
    <3> QED BY <2>1, <3>1, <3>2, HitKept
  <2> QED BY <2>2, <2>3
<1>5. ASSUME NEW th \in Thread, NEW kind \in Kind, RunKey(th, kind)
      PROVE  UnitType' /\ CacheType' /\ InOrder' /\ HitFiles'
  BY <1>5, HitKept DEF RunKey, Go, Kind, Written
<1>6. ASSUME NEW th \in Thread, NEW kind \in Kind, CopyHit(th, kind)
      PROVE  UnitType' /\ CacheType' /\ InOrder' /\ HitFiles'
  <2>1. at' = [at EXCEPT ![th] = Leads(th, kind)] /\ UNCHANGED <<cache, unit, queue>>
    BY <1>6 DEF CopyHit, Go
  <2>2. \A k \in Kind : Leads(th, kind) # <<k, "hit">>
    BY LeadsToNoHit
  <2> QED BY <2>1, <2>2, HitKept
<1>7. ASSUME NEW th \in Thread, NEW kind \in Kind, PutPart(th, kind)
      PROVE  UnitType' /\ CacheType' /\ InOrder' /\ HitFiles'
  <2> DEFINE key == <<kind, unit[th]>>
             file == Parts(key)[NextPart(key)]
  <2>1. /\ cache' = [cache EXCEPT ![key][file] = "whole"]
        /\ UNCHANGED <<unit, queue>>
        /\ \A k \in Kind : at'[th] # <<k, "hit">>
        /\ \A o \in Thread : o # th => at'[o] = at[o]
    BY <1>7, LeadsToNoHit DEF PutPart, Go, PoolType
  <2>2. unit[th] \in Unit
    BY DEF UnitType
  <2>3. CASE kind = "yosys"
    <3>1. file = "json"
      BY <2>2, <2>3, YosysKey
    <3>2. key = <<"yosys", unit[th]>>
      BY <2>3
    <3> HIDE DEF key, file
    <3>3. CacheType'
      BY <2>1, <3>1 DEF CacheType
    <3>4. InOrder'
      BY <2>1, <2>2, <3>1, <3>2 DEF CacheType, InOrder, Key, Kind
    <3>5. HitFiles'
      <4>1. \A u \in Unit : /\ <<"yosys", u>> \in Key /\ <<"abc", u>> \in Key
                            /\ <<"yosys", u>> # <<"abc", unit[th]>>
                            /\ <<"abc", u>> # <<"yosys", unit[th]>>
        BY DEF Key, Kind
      <4>2. \A u \in Unit :
              /\ cache[<<"yosys", u>>]["json"] = "whole"
                   => cache'[<<"yosys", u>>]["json"] = "whole"
              /\ cache[<<"abc", u>>]["log"] = "whole"
                   => cache'[<<"abc", u>>]["log"] = "whole"
              /\ cache[<<"abc", u>>]["blif"] = "whole"
                   => cache'[<<"abc", u>>]["blif"] = "whole"
        BY <2>1, <3>1, <3>2, <4>1 DEF CacheType
      <4> QED BY <2>1, <4>2 DEF HitFiles, UnitType, Kind
    <3> QED BY <2>1, <3>3, <3>4, <3>5 DEF UnitType
  <2>4. CASE kind = "abc"
    <3>1. file = IF cache[key]["log"] = "whole" THEN "blif" ELSE "log"
      BY <2>2, <2>4, AbcKey
    <3>2. key = <<"abc", unit[th]>>
      BY <2>4
    <3> HIDE DEF key, file
    <3>3. CacheType'
      BY <2>1, <3>1 DEF CacheType
    <3>4. InOrder'
      BY <2>1, <2>2, <3>1, <3>2 DEF CacheType, InOrder, Key, Kind
    <3>5. HitFiles'
      <4>1. \A u \in Unit : /\ <<"yosys", u>> \in Key /\ <<"abc", u>> \in Key
                            /\ <<"yosys", u>> # <<"abc", unit[th]>>
                            /\ <<"abc", u>> # <<"yosys", unit[th]>>
        BY DEF Key, Kind
      <4>2. \A u \in Unit :
              /\ cache[<<"yosys", u>>]["json"] = "whole"
                   => cache'[<<"yosys", u>>]["json"] = "whole"
              /\ cache[<<"abc", u>>]["log"] = "whole"
                   => cache'[<<"abc", u>>]["log"] = "whole"
              /\ cache[<<"abc", u>>]["blif"] = "whole"
                   => cache'[<<"abc", u>>]["blif"] = "whole"
        BY <2>1, <3>1, <3>2, <4>1 DEF CacheType
      <4> QED BY <2>1, <4>2 DEF HitFiles, UnitType, Kind
    <3> QED BY <2>1, <3>3, <3>4, <3>5 DEF UnitType
  <2> QED BY <2>3, <2>4 DEF Kind
<1>8. ASSUME NEW c \in Check, Finish(c)
      PROVE  UnitType' /\ CacheType' /\ InOrder' /\ HitFiles'
  BY <1>8 DEF Finish, UnitType, CacheType, InOrder, HitFiles
<1>9. ASSUME NEW c \in Check, Rerun(c)
      PROVE  UnitType' /\ CacheType' /\ InOrder' /\ HitFiles'
  BY <1>9 DEF Rerun, UnitType, CacheType, InOrder, HitFiles
<1>10. ASSUME NEW c \in Check, Kill(c)
       PROVE  UnitType' /\ CacheType' /\ InOrder' /\ HitFiles'
  BY <1>10 DEF Kill, UnitType, CacheType, InOrder, HitFiles
<1> QED BY <1>1, <1>2, <1>3, <1>4, <1>5, <1>6, <1>7, <1>8, <1>9, <1>10
        DEF Next, Step

\* No reader of the cache finds part of a netlist and its report, wherever a
\* check was killed, as long as what is queued are units: for every list,
\* width and number of kills.
THEOREM HitsAreWhole == Submitted \in Seq(Unit) /\ Spec => []HitsWhole
<1>1. Submitted \in Seq(Unit) /\ Init => HitIInv
  BY HitInit, HeavyInit DEF HitIInv, HeavyIInv
<1>2. Submitted \in Seq(Unit) /\ HeavyIInv /\ HitIInv /\ [Next]_vars => HitIInv'
  BY HitStep, HeavyStep DEF HitIInv, HeavyIInv
<1>3. HitIInv => HitsWhole
  BY HitsByFile
<1>4. SUFFICES ASSUME Submitted \in Seq(Unit) PROVE Spec => []HitsWhole
  OBVIOUS
<1> QED BY <1>1, <1>2, <1>3, <1>4, HeavyInit, HeavyStep, PTL DEF Spec

-----------------------------------------------------------------------------

\* Where a thread's Yosys run is behind it, its own or the one of a hit.
Past == {<<"yosys", "put">>, <<"yosys", "hit">>, <<"unit", "end">>}
        \union ({"abc"} \X {"ask", "run", "put", "hit"})

\* A unit that left a trace: a thread beyond its run, a netlist in the cache,
\* or a check that has done with it.
Traced(u) == \/ \E th \in Holds(Past) : unit[th] = u
             \/ cache[<<"yosys", u>>]["json"] = "whole"
             \/ \E c \in Check : u \in done[c]

\* A check saw the unit over the limit, and did not pass unless it is listed.
Named(u) == \E c \in Check :
              u \in peak[c] /\ (state[c] = "pass" => u \in HEAVY)

ListType == /\ kills \in Nat /\ Big \subseteq Unit
            /\ DOMAIN peak = Check /\ DOMAIN done = Check /\ DOMAIN state = Check
            /\ CacheType

\* Until a check is killed: it has passed only with every unit done, and a
\* unit over the limit leaves no trace before a check has named it.  The
\* first to note it had not passed then: it would have been done with it.
NeverKilled ==
    /\ \A c \in Check : state[c] # "killed"
    /\ \A c \in Check : state[c] = "pass" => Unit \subseteq done[c]
    /\ \A u \in Big : Traced(u) => Named(u)

ListIInv == ListType /\ (kills = 0 => NeverKilled)

LEMMA ListShown == ListIInv => ListComplete
<1> SUFFICES ASSUME ListIInv, kills = 0, \A c \in Check : state[c] = "pass",
                    NEW u \in Big
             PROVE  u \in HEAVY
  BY DEF ListComplete
<1>1. u \in Unit /\ NeverKilled
  BY DEF ListIInv, ListType
<1>2. \E c \in Check : u \in done[c]
  BY <1>1 DEF NeverKilled, Check
<1>3. Named(u)
  BY <1>1, <1>2 DEF NeverKilled, Traced
<1> QED BY <1>3 DEF Named

LEMMA ListInit == Init => ListIInv
<1> SUFFICES ASSUME Init PROVE ListIInv
  OBVIOUS
<1>1. CacheType
  BY DEF Init, CacheType
<1>2. Big \subseteq Unit
  BY UnitsAssumption DEF Init
<1>3. ListType
  BY <1>1, <1>2 DEF Init, ListType
<1>4. \A u \in Unit : ~Traced(u)
  <2>1. Holds(Past) = {}
    BY DEF Init, Holds, Past
  <2>2. \A u \in Unit : <<"yosys", u>> \in Key
    BY DEF Key, Kind
  <2> QED BY <2>1, <2>2 DEF Init, Traced
<1>5. NeverKilled
  BY <1>2, <1>4 DEF Init, NeverKilled
<1> QED BY <1>3, <1>5 DEF ListIInv

\* A step that leaves what is noted, done and cached alone, and takes a
\* thread beyond its run only from there or from a netlist of the cache.
LEMMA TraceKept ==
  ASSUME ListIInv, PoolType, NEW th \in Thread, NEW place,
         UNCHANGED <<Big, cache, done, peak, state, kills>>,
         at' = [at EXCEPT ![th] = place],
         \A o \in Thread : o # th => unit'[o] = unit[o],
         place \in Past /\ unit'[th] \in Big =>
            /\ unit'[th] = unit[th]
            /\ at[th] \in Past \/ cache[<<"yosys", unit[th]>>]["json"] = "whole"
  PROVE  ListIInv'
<1>1. ListType'
  BY DEF ListIInv, ListType, CacheType
<1>2. \A u \in Big : Traced(u)' => Traced(u)
  <2>1. ASSUME NEW o \in Thread, at'[o] \in Past, unit'[o] \in Big
        PROVE  /\ unit'[o] = unit[o]
               /\ at[o] \in Past \/ cache[<<"yosys", unit[o]>>]["json"] = "whole"
    BY <2>1 DEF PoolType
  <2> QED BY <2>1 DEF Traced, Holds
<1>3. \A u : Named(u)' = Named(u)
  BY DEF Named
<1> QED BY <1>1, <1>2, <1>3 DEF ListIInv, NeverKilled

\* What has been named stays so while no check passes that should not.
LEMMA NamedStays ==
  ASSUME NEW u, Named(u), UNCHANGED state,
         \A c \in Check : peak[c] \subseteq peak'[c]
  PROVE  Named(u)'
BY DEF Named

LEMMA ListRun ==
  ASSUME ListIInv, PoolType, NEW th \in Thread, NEW kind \in Kind,
         RunKey(th, kind), UNCHANGED Big
  PROVE  ListIInv'
<1> DEFINE u == unit[th]
           c == Tool(th)
<1>1. /\ at[th] = <<kind, "run">>
      /\ peak' = IF u \in Big THEN [peak EXCEPT ![c] = @ \union {u}] ELSE peak
      /\ UNCHANGED <<unit, done, state, kills, cache>>
      /\ \A o \in Thread : o # th => at'[o] = at[o]
  BY DEF RunKey, note_rss, Go, Written, PoolType
<1>2. c \in Check
  BY DEF Thread, Tool
<1>3. ListType'
  BY <1>1 DEF ListIInv, ListType, CacheType
<1>4. SUFFICES ASSUME kills = 0 PROVE NeverKilled'
  BY <1>1, <1>3 DEF ListIInv
<1>5. NeverKilled
  BY <1>4 DEF ListIInv
<1>6. \A d \in Check : peak[d] \subseteq peak'[d]
  BY <1>1 DEF ListIInv, ListType
<1>7. u \in Big => u \in peak'[c]
  BY <1>1, <1>2 DEF ListIInv, ListType
<1>8. ASSUME NEW v \in Big, v = u
      PROVE  Named(v)'
  <2>1. CASE state[c] = "pass"
    <3>1. v \in done[c]
      BY <1>2, <1>5, <1>8, <2>1 DEF NeverKilled, ListIInv, ListType
    <3>2. Named(v)
      BY <1>2, <1>5, <1>8, <3>1 DEF NeverKilled, Traced
    <3> QED BY <1>1, <1>6, <3>2, NamedStays
  <2>2. CASE state[c] # "pass"
    BY <1>1, <1>2, <1>7, <1>8, <2>2 DEF Named
  <2> QED BY <2>1, <2>2
<1>9. ASSUME NEW v \in Big, Traced(v)'
      PROVE  Named(v)'
  <2>1. CASE v = u
    BY <1>8, <1>9, <2>1
  <2>2. CASE v # u
    <3>1. Traced(v)
      BY <1>1, <1>9, <2>2 DEF Traced, Holds
    <3> QED BY <1>1, <1>5, <1>6, <3>1, NamedStays DEF NeverKilled
  <2> QED BY <2>1, <2>2
<1> QED BY <1>1, <1>5, <1>9 DEF NeverKilled

LEMMA ListPut ==
  ASSUME ListIInv, PoolType, NEW th \in Thread, NEW kind \in Kind,
         PutPart(th, kind), UNCHANGED Big
  PROVE  ListIInv'
<1> DEFINE u == unit[th]
           key == <<kind, u>>
           file == Parts(key)[NextPart(key)]
<1>1. /\ at[th] = <<kind, "put">>
      /\ cache' = [cache EXCEPT ![key][file] = "whole"]
      /\ UNCHANGED <<unit, done, peak, state, kills>>
      /\ \A o \in Thread : o # th => at'[o] = at[o]
  BY DEF PutPart, Go, PoolType
<1>2. \A v \in Unit : v # u => <<"yosys", v>> # key /\ <<"yosys", v>> \in Key
  BY DEF Key, Kind
<1>3. at[th] \in Past
  BY <1>1 DEF Past, Kind
<1> HIDE DEF key, file
<1>4. ListType'
  BY <1>1 DEF ListIInv, ListType, CacheType
<1>5. ASSUME NEW v \in Big, Traced(v)'
      PROVE  Traced(v)
  <2>1. CASE v = u
    BY <1>3, <2>1 DEF Traced, Holds
  <2>2. CASE v # u
    <3>1. cache'[<<"yosys", v>>] = cache[<<"yosys", v>>]
      BY <1>1, <1>2, <2>2 DEF ListIInv, ListType, CacheType
    <3> QED BY <1>1, <1>5, <2>2, <3>1 DEF Traced, Holds
  <2> QED BY <2>1, <2>2
<1>6. \A v : Named(v)' = Named(v)
  BY <1>1 DEF Named
<1> QED BY <1>1, <1>4, <1>5, <1>6 DEF ListIInv, NeverKilled

LEMMA ListStep == ListIInv /\ PoolType /\ [Next]_vars => ListIInv'
<1> SUFFICES ASSUME ListIInv, PoolType, [Next]_vars PROVE ListIInv'
  OBVIOUS
<1>1. CASE UNCHANGED vars
  BY <1>1 DEF vars, ListIInv, ListType, CacheType, NeverKilled, Traced, Named, Holds
<1>2. ASSUME NEW th \in Thread, UNCHANGED Big,
             unit_task(th) \/ TakeGate(th) \/ TakeLock(th)
      PROVE  ListIInv'
  <2>1. /\ <<"unit", "gate">> \notin Past /\ <<"unit", "lock">> \notin Past
        /\ <<"yosys", "ask">> \notin Past
    BY DEF Past
  <2>2. \A o \in Thread : o # th => unit'[o] = unit[o]
    BY <1>2 DEF unit_task, TakeGate, TakeLock, PoolType
  <2>3. CASE unit_task(th)
    BY <1>2, <2>1, <2>2, <2>3, TraceKept DEF unit_task, Go
  <2>4. CASE TakeGate(th)
    BY <1>2, <2>1, <2>2, <2>4, TraceKept DEF TakeGate, Go
  <2>5. CASE TakeLock(th)
    BY <1>2, <2>1, <2>2, <2>5, TraceKept DEF TakeLock, Go
  <2> QED BY <1>2, <2>3, <2>4, <2>5
<1>3. ASSUME NEW th \in Thread, UNCHANGED Big, Close(th)
      PROVE  ListIInv'
  <2>1. /\ at[th] \in Past /\ Tool(th) \in Check
        /\ done' = [done EXCEPT ![Tool(th)] = @ \union {unit[th]}]
        /\ UNCHANGED <<unit, cache, peak, state, kills>>
        /\ \A o \in Thread : at'[o] \in Past => at[o] \in Past
    BY <1>3 DEF Close, Go, PoolType, Past, Thread, Tool
  <2>2. ListType'
    BY <1>3, <2>1 DEF ListIInv, ListType, CacheType
  <2>3. \A c \in Check : done[c] \subseteq done'[c]
    BY <2>1 DEF ListIInv, ListType
  <2>4. \A u : Traced(u)' => Traced(u)
    BY <2>1 DEF ListIInv, ListType, Traced, Holds
  <2>5. \A u : Named(u)' = Named(u)
    BY <2>1 DEF Named
  <2> QED BY <1>3, <2>1, <2>2, <2>3, <2>4, <2>5 DEF ListIInv, NeverKilled
<1>4. ASSUME NEW th \in Thread, NEW kind \in Kind, UNCHANGED Big,
             TakeKey(th, kind)
      PROVE  ListIInv'
  <2>1. /\ at[th] = <<kind, "ask">>
        /\ at' = [at EXCEPT ![th] = <<kind, IF Hit(<<kind, unit[th]>>) THEN "hit" ELSE "run">>]
        /\ UNCHANGED <<unit, cache, done, peak, state, kills>>
    BY <1>4 DEF TakeKey, Go
  <2>2. CASE kind = "abc"
    <3>1. at[th] \in Past
      BY <2>1, <2>2 DEF Past
    <3> QED BY <1>4, <2>1, <3>1, TraceKept
  <2>3. CASE kind = "yosys" /\ ~Hit(<<kind, unit[th]>>)
    <3>1. <<"yosys", "run">> \notin Past
      BY DEF Past
    <3> QED BY <1>4, <2>1, <2>3, <3>1, TraceKept
  <2>4. CASE kind = "yosys" /\ Hit(<<kind, unit[th]>>)
    <3>1. unit[th] \in Big => cache[<<"yosys", unit[th]>>]["json"] = "whole"
      BY <2>4, YosysKey DEF ListIInv, ListType
    <3> QED BY <1>4, <2>1, <3>1, TraceKept
  <2> QED BY <2>2, <2>3, <2>4 DEF Kind
<1>5. ASSUME NEW th \in Thread, NEW kind \in Kind, UNCHANGED Big,
             CopyHit(th, kind)
      PROVE  ListIInv'
  <2>1. at[th] \in Past
    BY <1>5 DEF CopyHit, Past, Kind
  <2> QED BY <1>5, <2>1, TraceKept DEF CopyHit, Go
<1>6. ASSUME NEW c \in Check, UNCHANGED Big, Finish(c)
      PROVE  ListIInv'
  <2>1. /\ UNCHANGED <<at, unit, cache, done, peak, kills>> /\ done[c] = Unit
        /\ state' = [state EXCEPT ![c] =
                        IF errors[c] = {} /\ heavy_check(c) THEN "pass" ELSE "fail"]
    BY <1>6 DEF Finish
  <2>2. ListType'
    BY <1>6, <2>1 DEF ListIInv, ListType, CacheType
  <2>3. /\ state'[c] \in {"pass", "fail"} /\ (state'[c] = "pass" => peak[c] \subseteq HEAVY)
        /\ \A d \in Check : d # c => state'[d] = state[d]
    BY <2>1 DEF heavy_check, ListIInv, ListType
  <2>4. \A u : Traced(u)' = Traced(u)
    BY <2>1 DEF Traced, Holds
  <2>5. \A u : Named(u) => Named(u)'
    BY <2>1, <2>3 DEF Named
  <2> QED BY <1>6, <2>1, <2>2, <2>3, <2>4, <2>5 DEF ListIInv, NeverKilled
<1>7. ASSUME NEW c \in Check, UNCHANGED Big, Rerun(c)
      PROVE  ListIInv'
  <2>1. kills # 0
    BY <1>7 DEF Rerun, ListIInv, NeverKilled
  <2> QED BY <1>7, <2>1 DEF Rerun, ListIInv, ListType, CacheType
<1>8. ASSUME NEW c \in Check, UNCHANGED Big, Kill(c)
      PROVE  ListIInv'
  <2>1. kills' = kills + 1
    BY <1>8 DEF Kill
  <2>2. kills \in Nat
    BY DEF ListIInv, ListType
  <2>3. kills' \in Nat /\ kills' # 0
    BY <2>1, <2>2
  <2> QED BY <1>8, <2>3 DEF Kill, ListIInv, ListType, CacheType
<1> QED BY <1>1, <1>2, <1>3, <1>4, <1>5, <1>6, <1>7, <1>8, ListRun, ListPut
        DEF Next, Step

\* "The list cannot go stale silently": from an empty cache, two checks that
\* share it and pass leave no unit over the limit off the list, whichever of
\* them ran each command, for every list of units, threads and order.
THEOREM ListNeverStale == Spec => []ListComplete
<1>1. HeavyIInv => PoolType
  BY DEF HeavyIInv
<1> QED BY <1>1, HeavyInit, HeavyStep, ListInit, ListStep, ListShown, PTL DEF Spec

-----------------------------------------------------------------------------

\* The turnstile is one thread's at a time.
GateAlone == \A th, o \in Holds(InGate) : th = o

GateIInv == PoolType /\ GateAlone

\* A step that takes a thread to a place that is not the turnstile's.
LEMMA GateKept ==
  ASSUME GateIInv, PoolType', NEW th \in Thread, NEW place,
         at' = [at EXCEPT ![th] = place], place \notin InGate
  PROVE  GateIInv'
BY DEF GateIInv, PoolType, GateAlone, Holds

LEMMA GateStep == GateIInv /\ PoolType' /\ [Next]_vars => GateIInv'
<1> SUFFICES ASSUME GateIInv, PoolType', [Next]_vars PROVE GateIInv'
  OBVIOUS
<1>1. CASE UNCHANGED at
  BY <1>1 DEF GateIInv, GateAlone, Holds
<1>2. ASSUME NEW th \in Thread, TakeGate(th)
      PROVE  GateIInv'
  <2>1. at' = [at EXCEPT ![th] = <<"unit", "lock">>] /\ Holds(InGate) = {}
    BY <1>2 DEF TakeGate, Go, GateFree
  <2> QED BY <2>1 DEF GateIInv, PoolType, GateAlone, Holds
<1>3. ASSUME NEW th \in Thread, NEW kind \in Kind,
             \/ unit_task(th) \/ TakeLock(th) \/ Close(th)
             \/ TakeKey(th, kind) \/ RunKey(th, kind)
             \/ PutPart(th, kind) \/ CopyHit(th, kind)
      PROVE  GateIInv'
  <2>1. \E place : place \notin InGate /\ at' = [at EXCEPT ![th] = place]
    <3>1. Leads(th, kind) \notin InGate
      BY DEF Leads, InGate
    <3>2. CASE unit_task(th) \/ TakeLock(th) \/ Close(th)
      BY <3>2 DEF unit_task, TakeLock, Close, Go, InGate
    <3>3. CASE TakeKey(th, kind)
      <4>1. \/ at' = [at EXCEPT ![th] = <<kind, "hit">>]
            \/ at' = [at EXCEPT ![th] = <<kind, "run">>]
        BY <3>3 DEF TakeKey, Go
      <4>2. <<kind, "hit">> \notin InGate /\ <<kind, "run">> \notin InGate
        BY DEF InGate
      <4> QED BY <4>1, <4>2
    <3>4. CASE RunKey(th, kind)
      BY <3>4 DEF RunKey, Go, InGate, Kind
    <3>5. CASE PutPart(th, kind)
      BY <3>1, <3>5 DEF PutPart, Go, InGate, Kind
    <3>6. CASE CopyHit(th, kind)
      BY <3>1, <3>6 DEF CopyHit, Go
    <3> QED BY <1>3, <3>2, <3>3, <3>4, <3>5, <3>6
  <2> QED BY <2>1, GateKept
<1>4. ASSUME NEW c \in Check, Kill(c)
      PROVE  GateIInv'
  <2>1. at' = [th \in Thread |-> IF Tool(th) = c THEN <<"unit", "idle">> ELSE at[th]]
    BY <1>4 DEF Kill
  <2>2. <<"unit", "idle">> \notin InGate
    BY DEF InGate
  <2> QED BY <2>1, <2>2 DEF GateIInv, GateAlone, Holds
<1>5. ASSUME NEW c \in Check, Finish(c) \/ Rerun(c)
      PROVE  UNCHANGED at
  BY <1>5 DEF Finish, Rerun
<1>6. Kind # {}
  BY DEF Kind
<1> QED BY <1>1, <1>2, <1>3, <1>4, <1>5, <1>6 DEF Next, Step, vars

\* as_unit's turnstile: while a thread waits for the heavy lock no other is
\* granted it, in either check, for every list, width and kill.
THEOREM NobodyOvertakes == Spec => NoOvertaking
<1> DEFINE Waits ==
      \A th \in Thread :
        at[th] = <<"unit", "lock">> /\ at'[th] = <<"unit", "lock">> =>
           \A o \in Thread : at'[o] = <<"yosys", "ask">> => at[o] = at'[o]
<1>1. Init => GateIInv
  BY HeavyInit DEF Init, GateIInv, HeavyIInv, GateAlone, Holds, InGate
<1>2. GateIInv /\ [Next]_vars => [Waits]_vars
  <2> SUFFICES ASSUME GateIInv, Next, NEW th \in Thread,
                      at[th] = <<"unit", "lock">>, at'[th] = <<"unit", "lock">>,
                      NEW o \in Thread, at'[o] = <<"yosys", "ask">>, at[o] # at'[o]
               PROVE  FALSE
    OBVIOUS
  <2>1. PICK t \in Thread : Step(t)
    <3>1. ASSUME NEW c \in Check, Finish(c) \/ Rerun(c)
          PROVE  FALSE
      BY <3>1 DEF Finish, Rerun
    <3>2. ASSUME NEW c \in Check, Kill(c)
          PROVE  FALSE
      BY <3>2 DEF Kill
    <3> QED BY <3>1, <3>2 DEF Next
  <2>2. \E place : at' = [at EXCEPT ![t] = place]
    <3>1. CASE unit_task(t) \/ TakeGate(t) \/ TakeLock(t) \/ Close(t)
      BY <3>1 DEF unit_task, TakeGate, TakeLock, Close, Go
    <3>2. ASSUME NEW kind \in Kind,
                 \/ TakeKey(t, kind) \/ RunKey(t, kind)
                 \/ PutPart(t, kind) \/ CopyHit(t, kind)
          PROVE  \E place : at' = [at EXCEPT ![t] = place]
      <4>1. CASE TakeKey(t, kind)
        BY <4>1 DEF TakeKey, Go
      <4>2. CASE RunKey(t, kind)
        BY <4>2 DEF RunKey, Go
      <4>3. CASE PutPart(t, kind)
        BY <4>3 DEF PutPart, Go
      <4>4. CASE CopyHit(t, kind)
        BY <4>4 DEF CopyHit, Go
      <4> QED BY <3>2, <4>1, <4>2, <4>3, <4>4
    <3> QED BY <2>1, <3>1, <3>2 DEF Step
  <2>3. o = t
    BY <2>2 DEF GateIInv, PoolType
  <2>4. TakeLock(o)
    <3>1. ASSUME unit_task(o) \/ TakeGate(o) \/ Close(o)
          PROVE  FALSE
      BY <3>1 DEF unit_task, TakeGate, Close, Go, GateIInv, PoolType
    <3>2. ASSUME NEW kind \in Kind,
                 \/ TakeKey(o, kind) \/ RunKey(o, kind)
                 \/ PutPart(o, kind) \/ CopyHit(o, kind)
          PROVE  FALSE
      <4>1. Leads(o, kind) # <<"yosys", "ask">>
        BY DEF Leads
      <4> QED BY <3>2, <4>1 DEF TakeKey, RunKey, PutPart, CopyHit, Go,
                                 GateIInv, PoolType, Kind
    <3> QED BY <2>1, <2>3, <3>1, <3>2 DEF Step
  <2>5. o \in Holds(InGate) /\ th \in Holds(InGate)
    BY <2>4 DEF TakeLock, Holds, InGate
  <2> QED BY <2>5 DEF GateIInv, GateAlone
<1>3. Spec => [][Waits]_vars
  <2>1. HeavyIInv => PoolType
    BY DEF HeavyIInv
  <2> QED BY <1>1, <1>2, <2>1, HeavyInit, HeavyStep, GateStep, PTL DEF Spec
<1> QED BY <1>3 DEF NoOvertaking
=============================================================================
