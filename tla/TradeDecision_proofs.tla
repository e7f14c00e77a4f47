------------------------ MODULE TradeDecision_proofs ------------------------
(***************************************************************************)
(* What no round, price or answer does to an open position, for all        *)
(* configurations, prices and numbers of rounds: its stop only tightens    *)
(* and earns its fees after the first take-profit; an exit for a reversal  *)
(* has two votes and is followed by its cooldown.                          *)
(***************************************************************************)
EXTENDS TradeDecision, FiniteSetTheorems, TLAPS

-----------------------------------------------------------------------------
(* Extrema.                                                                *)

\* Every nonempty finite set of integers has a least and a greatest element:
\* a smallest subset without one would be left with one by a removal.
LEMMA FiniteExtrema ==
  ASSUME NEW S \in SUBSET Int, IsFiniteSet(S), S # {}
  PROVE  /\ \E x \in S : \A y \in S : x >= y
         /\ \E x \in S : \A y \in S : x =< y
<1> DEFINE Has(T) == /\ \E x \in T : \A y \in T : x >= y
                     /\ \E x \in T : \A y \in T : x =< y
           Bad == {T \in FiniteSubsetsOf(S) : T # {} /\ ~Has(T)}
<1>1. SUFFICES Bad = {}
  BY DEF FiniteSubsetsOf
<1>2. SUFFICES ASSUME Bad # {} PROVE FALSE
  OBVIOUS
<1>3. PICK T \in Bad : \A U \in Bad : ~(<<U, T>> \in StrictSubsetOrdering(S))
  <2>1. IsWellFoundedOn(StrictSubsetOrdering(S), FiniteSubsetsOf(S))
    BY FS_StrictSubsetOrderingWellFounded
  <2>2. Bad \subseteq FiniteSubsetsOf(S)
    OBVIOUS
  <2> HIDE DEF Bad
  <2> QED BY <2>1, <2>2, <1>2, WFMin
<1>4. T \subseteq S /\ T \subseteq Int /\ IsFiniteSet(T) /\ T # {} /\ ~Has(T)
  BY <1>3 DEF FiniteSubsetsOf
<1>5. PICK t \in T : TRUE
  BY <1>4
<1>6. T \ {t} # {}
  <2>1. SUFFICES ASSUME T \ {t} = {} PROVE FALSE
    OBVIOUS
  <2>2. T = {t} /\ t \in Int
    BY <2>1, <1>4, <1>5
  <2> QED BY <2>2, <1>4
<1>7. T \ {t} \in FiniteSubsetsOf(S) /\ <<T \ {t}, T>> \in StrictSubsetOrdering(S)
  <2>1. IsFiniteSet(T \ {t})
    BY <1>4, FS_RemoveElement
  <2> QED BY <2>1, <1>4, <1>5 DEF FiniteSubsetsOf, StrictSubsetOrdering
<1>8. Has(T \ {t})
  <2>1. T \ {t} \notin Bad
    BY <1>3, <1>7
  <2> QED BY <2>1, <1>6, <1>7
<1>9. PICK hi \in T \ {t}, lo \in T \ {t} : \A y \in T \ {t} : hi >= y /\ lo =< y
  BY <1>8
<1>10. \E x \in T : \A y \in T : x >= y
  <2>1. CASE t >= hi
    <3>1. \A y \in T : t >= y
      BY <2>1, <1>4, <1>5, <1>9
    <3> QED BY <3>1, <1>5
  <2>2. CASE ~(t >= hi)
    <3>1. \A y \in T : hi >= y
      BY <2>2, <1>4, <1>5, <1>9
    <3> QED BY <3>1, <1>9
  <2> QED BY <2>1, <2>2
<1>11. \E x \in T : \A y \in T : x =< y
  <2>1. CASE t =< lo
    <3>1. \A y \in T : t =< y
      BY <2>1, <1>4, <1>5, <1>9
    <3> QED BY <3>1, <1>5
  <2>2. CASE ~(t =< lo)
    <3>1. \A y \in T : lo =< y
      BY <2>2, <1>4, <1>5, <1>9
    <3> QED BY <3>1, <1>9
  <2> QED BY <2>1, <2>2
<1> QED BY <1>4, <1>10, <1>11

\* So Min and Max choose a member.
LEMMA MinMax ==
  ASSUME NEW S \in SUBSET Int, IsFiniteSet(S), S # {}
  PROVE  /\ Max(S) \in S /\ \A y \in S : Max(S) >= y
         /\ Min(S) \in S /\ \A y \in S : Min(S) =< y
BY FiniteExtrema DEF Max, Min

LEMMA MinMaxPair ==
  ASSUME NEW a \in Int, NEW b \in Int
  PROVE  /\ Max({a, b}) = IF a >= b THEN a ELSE b
         /\ Min({a, b}) = IF a =< b THEN a ELSE b
<1>1. IsFiniteSet({a, b}) /\ {a, b} \in SUBSET Int /\ {a, b} # {}
  <2>1. IsFiniteSet({b})
    BY FS_Singleton
  <2>2. IsFiniteSet({b} \cup {a})
    BY <2>1, FS_AddElement
  <2> QED BY <2>2, {b} \cup {a} = {a, b}
<1>2. /\ Max({a, b}) \in {a, b} /\ \A y \in {a, b} : Max({a, b}) >= y
      /\ Min({a, b}) \in {a, b} /\ \A y \in {a, b} : Min({a, b}) =< y
  BY <1>1, MinMax
<1> QED BY <1>2

LEMMA NumberTypes ==
  /\ \A side : \A p, d \in Int : Toward(side, p, d) \in Int
  /\ \A x, p \in Int : Pct(x, p) \in Int /\ Tenths(x, p) \in Int
BY DEF Toward, Pct, Tenths

-----------------------------------------------------------------------------
(* How a plan moves.                                                       *)

PlanType == [stop : Int, tps : Seq([price : Int, hit : BOOLEAN]), high : Int, low : Int]

\* q is p with its stop, if it moved, moved to the earning side, and with the
\* same first take-profit hit or not.
Tighter(side, p, q) ==
  /\ q \in PlanType
  /\ TP1Hit(q) <=> TP1Hit(p)
  /\ q.stop = p.stop \/ Beyond(side, q.stop, p.stop)

LEMMA TighterAgain ==
  ASSUME NEW side, NEW p \in PlanType, NEW q, NEW r, Tighter(side, p, q), Tighter(side, q, r)
  PROVE  Tighter(side, p, r)
<1>1. p.stop \in Int /\ q.stop \in Int /\ r.stop \in Int
  BY DEF Tighter, PlanType
<1> QED BY <1>1 DEF Tighter, Beyond

LEMMA WatermarksKeep ==
  ASSUME NEW side, NEW p \in PlanType, NEW mark \in Int
  PROVE  Tighter(side, p, UpdateWatermarks(p, side, mark))
<1>1. p.low \in Int /\ p.high \in Int
  BY DEF PlanType
<1>2. Min({p.low, mark}) \in Int /\ Max({p.high, mark}) \in Int
  BY <1>1, MinMaxPair
<1> QED BY <1>2 DEF UpdateWatermarks, Tighter, PlanType, TP1Hit

LEMMA MovedStop ==
  ASSUME NEW side, NEW p \in PlanType, NEW s \in Int, NEW mark, IsStopImproved(side, p.stop, s, mark)
  PROVE  Tighter(side, p, [p EXCEPT !.stop = s])
BY DEF Tighter, PlanType, TP1Hit, IsStopImproved

LEMMA FloorTightens ==
  ASSUME NEW side, NEW p \in PlanType, NEW avg \in Int, NEW fee \in Int, NEW mark
  PROVE  Tighter(side, p, ApplyFloor(p, side, avg, fee, mark))
<1>1. BreakevenStop(side, avg, fee) \in Int
  BY NumberTypes DEF BreakevenStop
<1>2. Tighter(side, p, p)
  BY DEF Tighter
<1> QED BY <1>1, <1>2, MovedStop DEF ApplyFloor

Level == [price : Int, hit : BOOLEAN]

LEMMA LevelPriced ==
  ASSUME NEW r \in Level, NEW c \in Int
  PROVE  [r EXCEPT !.price = c] \in Level /\ [r EXCEPT !.price = c].hit = r.hit
BY DEF Level

LEMMA SameHits ==
  ASSUME NEW p \in PlanType, NEW tps \in Seq(Level), Len(tps) = Len(p.tps),
         \A l \in 1 .. Len(tps) : tps[l].hit = p.tps[l].hit
  PROVE  /\ [p EXCEPT !.tps = tps] \in PlanType
         /\ TP1Hit([p EXCEPT !.tps = tps]) <=> TP1Hit(p)
<1>1. [p EXCEPT !.tps = tps] \in PlanType /\ [p EXCEPT !.tps = tps].tps = tps
  BY DEF PlanType, Level
<1>2. Len(tps) \in Nat /\ (Len(tps) > 0 => 1 \in 1 .. Len(tps))
  OBVIOUS
<1> QED BY <1>1, <1>2 DEF TP1Hit

LEMMA LevelSet ==
  ASSUME NEW p \in PlanType, NEW i \in 1 .. Len(p.tps), NEW r \in Level
  PROVE  /\ [p.tps EXCEPT ![i] = r] \in Seq(Level)
         /\ Len([p.tps EXCEPT ![i] = r]) = Len(p.tps)
         /\ [p.tps EXCEPT ![i] = r][i] = r
         /\ \A l \in 1 .. Len(p.tps) : l # i => [p.tps EXCEPT ![i] = r][l] = p.tps[l]
<1>1. p.tps \in Seq(Level)
  BY DEF PlanType, Level
<1> QED BY <1>1

LEMMA LevelMoves ==
  ASSUME NEW side, NEW p \in PlanType, NEW i \in 1 .. 2, NEW avg \in Int, NEW atr \in Int, NEW x,
         x.tpATR \in [1 .. 2 -> Int], x.minDist \in Int, x.gap \in Int
  PROVE  Tighter(side, p, TightenLevel(p, side, avg, atr, i, x))
<1>1. Tighter(side, p, p)
  BY DEF Tighter
<1> DEFINE price == Toward(side, avg, Tenths(atr, x.tpATR[i]))
<1>2. CASE i \in Remaining(p) /\ x.tpATR[i] > 0 /\ price > 0
  <2>1. price \in Int
    BY NumberTypes
  <2>2. i \in DOMAIN p.tps /\ i \in 1 .. Len(p.tps)
    BY <1>2 DEF Remaining, Unhit, PlanType
  <2>3. i # 1 => p.tps[i - 1].price \in Int
    <3>1. i # 1 => i - 1 \in 1 .. Len(p.tps)
      BY <2>2
    <3>2. p.tps \in Seq(Level)
      BY DEF PlanType, Level
    <3>3. i # 1 => p.tps[i - 1] \in Level
      BY <3>1, <3>2
    <3> QED BY <3>3 DEF Level
  <2>4. Toward(side, avg, Pct(avg, x.minDist)) \in Int /\ Pct(avg, x.gap) \in Int
    BY NumberTypes
  <2>5. TPConstraint(p, side, avg, i, price, x) \in Int
    <3>1. HeldBack(side, price, Toward(side, avg, Pct(avg, x.minDist))) \in Int
      BY <2>1, <2>4 DEF HeldBack, Further
    <3>2. i # 1 => Toward(side, p.tps[i - 1].price, Pct(avg, x.gap)) \in Int
      BY <2>3, <2>4, NumberTypes
    <3> QED BY <3>1, <3>2 DEF TPConstraint, HeldBack, Further
  <2>6. PICK c \in Int : TightenLevel(p, side, avg, atr, i, x) = [p EXCEPT !.tps[i].price = c]
    BY <1>2, <2>5 DEF TightenLevel
  <2>7. p.tps[i] \in Level
    <3>1. p.tps \in Seq(Level)
      BY DEF PlanType, Level
    <3> QED BY <2>2, <3>1
  <2>8. PICK r \in Level : r = [p.tps[i] EXCEPT !.price = c] /\ r.hit = p.tps[i].hit
    BY <2>7, LevelPriced
  <2>9. PICK tps \in Seq(Level) : /\ tps = [p.tps EXCEPT ![i] = r] /\ Len(tps) = Len(p.tps)
                                  /\ \A l \in 1 .. Len(tps) : tps[l].hit = p.tps[l].hit
    <3>1. /\ [p.tps EXCEPT ![i] = r] \in Seq(Level)
          /\ Len([p.tps EXCEPT ![i] = r]) = Len(p.tps)
          /\ [p.tps EXCEPT ![i] = r][i] = r
          /\ \A l \in 1 .. Len(p.tps) : l # i => [p.tps EXCEPT ![i] = r][l] = p.tps[l]
      BY <2>2, LevelSet
    <3> QED BY <3>1, <2>8
  <2>10. TightenLevel(p, side, avg, atr, i, x) = [p EXCEPT !.tps = tps]
    BY <2>6, <2>8, <2>9 DEF PlanType
  <2>11. [p EXCEPT !.tps = tps].stop = p.stop
    BY DEF PlanType
  <2>12. [p EXCEPT !.tps = tps] \in PlanType /\ (TP1Hit([p EXCEPT !.tps = tps]) <=> TP1Hit(p))
    BY <2>9, SameHits
  <2> QED BY <2>10, <2>11, <2>12 DEF Tighter
<1>3. CASE ~(i \in Remaining(p) /\ x.tpATR[i] > 0 /\ price > 0)
  BY <1>1, <1>3 DEF TightenLevel
<1> QED BY <1>2, <1>3

LEMMA LevelsMove ==
  ASSUME NEW side, NEW p \in PlanType, NEW avg \in Int, NEW atr \in Int, NEW x,
         x.tpATR \in [1 .. 2 -> Int], x.minDist \in Int, x.gap \in Int
  PROVE  Tighter(side, p, TightenTPLevels(p, side, avg, atr, x))
<1> DEFINE q == TightenLevel(p, side, avg, atr, 1, x)
<1>1. Tighter(side, p, q)
  BY LevelMoves
<1>2. q \in PlanType
  BY <1>1 DEF Tighter
<1>3. Tighter(side, q, TightenLevel(q, side, avg, atr, 2, x))
  BY <1>2, LevelMoves
<1> HIDE DEF q
<1>4. Tighter(side, p, TightenLevel(q, side, avg, atr, 2, x))
  BY <1>1, <1>3, TighterAgain
<1> QED BY <1>4 DEF TightenTPLevels, q

LEMMA PatchTightens ==
  ASSUME NEW side, NEW p \in PlanType, NEW avg, NEW mark, NEW patch,
         patch.stop \in Int, patch.tps \in Seq(Int), PatchFits(p, side, avg, mark, patch)
  PROVE  Tighter(side, p, ApplyPatch(p, patch))
<1>1. CASE patch.action = "hold"
  BY <1>1 DEF ApplyPatch, Tighter
<1>2. CASE patch.action # "hold"
  <2> DEFINE pick(l) == Cardinality({k \in Remaining(p) : k <= l})
             tp(l) == IF l \in Remaining(p) THEN [p.tps[l] EXCEPT !.price = patch.tps[pick(l)]] ELSE p.tps[l]
             new == [l \in DOMAIN p.tps |-> tp(l)]
  <2>1. /\ Len(patch.tps) = Cardinality(Remaining(p))
        /\ IsStopImproved(side, p.stop, patch.stop, mark)
    BY <1>2 DEF PatchFits
  <2>2. p.tps \in Seq(Level) /\ DOMAIN p.tps = 1 .. Len(p.tps) /\ Len(p.tps) \in Nat
    BY DEF PlanType, Level
  <2>3. IsFiniteSet(Remaining(p)) /\ Cardinality(Remaining(p)) \in Nat
    <3>1. IsFiniteSet(1 .. Len(p.tps))
      BY <2>2, FS_Interval
    <3>2. Remaining(p) \subseteq 1 .. Len(p.tps)
      BY <2>2 DEF Remaining, Unhit
    <3> QED BY <3>1, <3>2, FS_Subset, FS_CardinalityType
  <2>4. ASSUME NEW l \in 1 .. Len(p.tps)
        PROVE  tp(l) \in Level /\ tp(l).hit = p.tps[l].hit
    <3>1. p.tps[l] \in Level
      BY <2>2
    <3>2. CASE l \in Remaining(p)
      <4> DEFINE K == {k \in Remaining(p) : k <= l}
      <4>1. l \in K
        BY <3>2, <2>2
      <4>2. IsFiniteSet(K) /\ Cardinality(K) <= Cardinality(Remaining(p)) /\ Cardinality(K) \in Nat
        BY <2>3, FS_Subset, FS_CardinalityType
      <4>3. Cardinality(K) # 0
        BY <4>1, <4>2, FS_EmptySet
      <4>4. pick(l) \in 1 .. Len(patch.tps)
        BY <4>2, <4>3, <2>1, <2>3
      <4> HIDE DEF pick
      <4>5. PICK c \in Int : c = patch.tps[pick(l)]
        BY <4>4
      <4>6. tp(l) = [p.tps[l] EXCEPT !.price = c]
        BY <3>2, <4>5
      <4> QED BY <3>1, <4>5, <4>6, LevelPriced
    <3> QED BY <3>1, <3>2
  <2>5. ApplyPatch(p, patch) = [p EXCEPT !.stop = patch.stop, !.tps = new]
    BY <1>2 DEF ApplyPatch
  <2> HIDE DEF tp
  <2>6. new \in Seq(Level) /\ Len(new) = Len(p.tps) /\ \A l \in 1 .. Len(new) : new[l].hit = p.tps[l].hit
    BY <2>2, <2>4
  <2>7. PICK tps \in Seq(Level) : /\ tps = new /\ Len(tps) = Len(p.tps)
                                  /\ \A l \in 1 .. Len(tps) : tps[l].hit = p.tps[l].hit
    BY <2>6
  <2> HIDE DEF new
  <2>8. ApplyPatch(p, patch) = [[p EXCEPT !.tps = tps] EXCEPT !.stop = patch.stop]
    BY <2>5, <2>7 DEF PlanType
  <2>9. PICK q \in PlanType : q = [p EXCEPT !.tps = tps] /\ (TP1Hit(q) <=> TP1Hit(p)) /\ q.stop = p.stop
    <3>1. [p EXCEPT !.tps = tps].stop = p.stop
      BY DEF PlanType
    <3> QED BY <2>7, <3>1, SameHits
  <2>10. Tighter(side, q, [q EXCEPT !.stop = patch.stop])
    BY <2>1, <2>9, MovedStop
  <2>11. Tighter(side, p, q)
    BY <2>9 DEF Tighter
  <2> QED BY <2>8, <2>9, <2>10, <2>11, TighterAgain
<1> QED BY <1>1, <1>2

-----------------------------------------------------------------------------
(* A round over the position.                                              *)

LEMMA SetupNumbers ==
  ASSUME setup \in Setups
  PROVE  /\ setup.fee \in Int /\ setup.entryOffset \in Int
         /\ setup.exits.stopATR \in Int /\ setup.exits.minStop \in Int
         /\ setup.exits.buffer \in Int /\ setup.exits.rr \in Seq(Int)
         /\ setup.tighten.mult \in Int /\ setup.tighten.slip \in Int
         /\ setup.tighten.minDist \in Int /\ setup.tighten.gap \in Int
         /\ setup.tighten.tpATR \in [1 .. 2 -> Int]
BY SetupsAssumption

LEMMA StopIsNumber ==
  ASSUME NEW side, NEW anchor \in Int, NEW atr \in Int, NEW x, x.mult \in Int, x.slip \in Int
  PROVE  TightenStop(side, anchor, atr, x) \in Int
<1> DEFINE stop == Toward(side, anchor, -Tenths(atr, x.mult))
<1>1. stop \in Int
  <2>1. -Tenths(atr, x.mult) \in Int
    BY DEF Tenths
  <2> QED BY <2>1, NumberTypes
<1>2. Toward(side, stop, -Pct(stop, x.slip)) \in Int
  <2>1. -Pct(stop, x.slip) \in Int
    BY <1>1 DEF Pct
  <2> QED BY <1>1, <2>1, NumberTypes
<1> QED BY <1>2 DEF TightenStop

\* What a round writes is the plan tightened, and it counts a crossed stop as a
\* vote only if the monitors found a critical exit.
UpdateFits(v, u) ==
  /\ Tighter(pos.side, plan, u.plan)
  /\ u.exitHit \in BOOLEAN
  /\ u.exitHit => CriticalExit(v)

LEMMA WrittenFits ==
  ASSUME plan \in PlanType, NEW v, NEW new, Tighter(pos.side, plan, new)
  PROVE  /\ UpdateFits(v, Written(new)) /\ UpdateFits(v, NoUpdate)
         /\ CriticalExit(v) => UpdateFits(v, [Written(new) EXCEPT !.exitHit = TRUE])
<1>1. Tighter(pos.side, plan, plan)
  BY DEF Tighter
<1> QED BY <1>1 DEF UpdateFits, Written, NoUpdate

LEMMA UpdateTightens ==
  ASSUME setup \in Setups, plan \in PlanType, pos.avg \in Int,
         NEW v, NEW mark \in Int, NEW atr \in Int, NEW patch \in Patches
  PROVE  UpdateFits(v, TightenUpdate(v, mark, atr, patch))
<1> DEFINE side == pos.side
           floored == ApplyFloor(UpdateWatermarks(plan, side, mark), side, pos.avg, setup.fee, mark)
           wanted == TightenStop(side, Anchor(floored, side), atr, setup.tighten)
           second == TightenStop(side, mark, atr, setup.tighten)
           from   == {s \in IF IsStopCrossed(side, wanted, mark) THEN {wanted, second} ELSE {wanted} :
                        s > 0 /\ IsStopImproved(side, floored.stop, s, mark)}
           moved  == [floored EXCEPT !.stop = CHOOSE s \in from : TRUE]
           exits  == wanted > 0 /\ IsStopCrossed(side, wanted, mark) /\ CriticalExit(v)
           asked  == setup.mode = "llm" /\ Remaining(plan) # {}
           fits   == PatchFits(moved, side, pos.avg, mark, patch)
           levels == TightenTPLevels(moved, side, pos.avg, atr, setup.tighten)
<1>1. Tighter(side, plan, plan)
  BY DEF Tighter
<1>2. Tighter(side, plan, floored) /\ floored \in PlanType
  <2>1. PICK w \in PlanType : w = UpdateWatermarks(plan, side, mark) /\ Tighter(side, plan, w)
    BY WatermarksKeep DEF Tighter
  <2>2. Tighter(side, w, ApplyFloor(w, side, pos.avg, setup.fee, mark))
    BY SetupNumbers, FloorTightens
  <2>3. Tighter(side, plan, floored)
    BY <2>1, <2>2, TighterAgain
  <2> QED BY <2>3 DEF Tighter
<1>3. wanted \in Int /\ second \in Int
  <2>1. Anchor(floored, side) \in Int
    BY <1>2 DEF Anchor, PlanType
  <2> QED BY <2>1, SetupNumbers, StopIsNumber
<1>4. ASSUME from # {}
      PROVE  Tighter(side, plan, moved) /\ moved \in PlanType
  <2>1. PICK s \in Int : s = (CHOOSE t \in from : TRUE) /\ IsStopImproved(side, floored.stop, s, mark)
    <3>1. (CHOOSE t \in from : TRUE) \in from
      BY <1>4
    <3>2. \A t \in from : t \in Int /\ IsStopImproved(side, floored.stop, t, mark)
      BY <1>3
    <3> HIDE DEF from
    <3> QED BY <3>1, <3>2
  <2> HIDE DEF from, floored
  <2>2. Tighter(side, floored, moved)
    BY <2>1, <1>2, MovedStop
  <2>3. Tighter(side, plan, moved)
    BY <1>2, <2>2, TighterAgain
  <2> QED BY <2>3 DEF Tighter
<1>5. CASE from = {} /\ exits
  <2>1. TightenUpdate(v, mark, atr, patch) = [Written(floored) EXCEPT !.exitHit = TRUE]
    BY <1>5 DEF TightenUpdate
  <2>2. CriticalExit(v)
    BY <1>5
  <2> HIDE DEF floored
  <2> QED BY <2>1, <2>2, <1>2, WrittenFits
<1>6. CASE from = {} /\ ~exits
  <2>1. TightenUpdate(v, mark, atr, patch) = Written(floored)
    BY <1>6 DEF TightenUpdate
  <2> HIDE DEF floored
  <2> QED BY <2>1, <1>2, WrittenFits
<1>7. CASE from # {} /\ asked
  <2>1. TightenUpdate(v, mark, atr, patch) = IF fits THEN Written(ApplyPatch(moved, patch)) ELSE NoUpdate
    BY <1>7 DEF TightenUpdate
  <2>2. patch.stop \in Int /\ patch.tps \in Seq(Int)
    BY InputsAssumption
  <2>3. Tighter(side, plan, moved) /\ moved \in PlanType
    BY <1>4, <1>7
  <2> HIDE DEF moved
  <2>4. fits => Tighter(side, moved, ApplyPatch(moved, patch))
    BY <2>2, <2>3, PatchTightens
  <2>5. fits => Tighter(side, plan, ApplyPatch(moved, patch))
    BY <2>3, <2>4, TighterAgain
  <2>6. UpdateFits(v, NoUpdate)
    BY <2>3, WrittenFits
  <2>7. fits => UpdateFits(v, Written(ApplyPatch(moved, patch)))
    BY <2>5, WrittenFits
  <2> QED BY <2>1, <2>6, <2>7
<1>8. CASE from # {} /\ ~asked
  <2>1. TightenUpdate(v, mark, atr, patch) = Written(IF setup.mode = "llm" THEN moved ELSE levels)
    BY <1>8 DEF TightenUpdate
  <2>2. Tighter(side, plan, moved) /\ moved \in PlanType
    BY <1>4, <1>8
  <2> HIDE DEF moved
  <2>3. Tighter(side, moved, levels)
    BY <2>2, SetupNumbers, LevelsMove
  <2>4. Tighter(side, plan, levels)
    BY <2>2, <2>3, TighterAgain
  <2> HIDE DEF levels
  <2> QED BY <2>1, <2>2, <2>4, WrittenFits
<1> HIDE DEF from, exits, asked
<1> QED BY <1>5, <1>6, <1>7, <1>8

LEMMA UpdatesFit ==
  ASSUME setup \in Setups, plan \in PlanType, pos.avg \in Int,
         NEW v, NEW action, NEW u \in Updates(action, v)
  PROVE  UpdateFits(v, u) /\ (u.exitHit => action = "TIGHTEN")
<1>1. UpdateFits(v, NoUpdate) /\ NoUpdate.exitHit = FALSE
  <2>1. Tighter(pos.side, plan, plan)
    BY DEF Tighter
  <2> QED BY <2>1, WrittenFits DEF NoUpdate
<1>2. u = NoUpdate \/ (/\ action = "TIGHTEN"
                       /\ \E m \in Prices, a \in ATRs \ {0}, patch \in Patches : u = TightenUpdate(v, m, a, patch))
  BY DEF Updates, TightenEligible
<1>3. \A m \in Prices, a \in ATRs \ {0}, patch \in Patches : UpdateFits(v, TightenUpdate(v, m, a, patch))
  BY PositiveAssumption, UpdateTightens
<1> QED BY <1>1, <1>2, <1>3

-----------------------------------------------------------------------------
(* The count of the votes.                                                 *)

PosType == [id : 0 .. MaxPositions, status : {"flat", "open", "closing"},
            side : Sides \cup {NoSide}, avg : Int]

LEMMA GuardNames ==
  ASSUME NEW g, NEW side, NEW mark, NEW stop, NEW v
  PROVE  HardGuard(g, side, mark, stop, v) \in {"OK", "STOP_LOSS", "RSI_EXTREME", "CIRCUIT_BREAKER"}
<1> DEFINE hit == g.on /\ g.stop /\ (IF side = "short" THEN mark >= stop ELSE mark <= stop)
<1>1. CASE hit
  <2>1. HardGuard(g, side, mark, stop, v) = "STOP_LOSS"
    BY <1>1 DEF HardGuard
  <2> QED BY <2>1
<1>2. CASE ~hit /\ ~g.on
  <2>1. HardGuard(g, side, mark, stop, v) = "OK"
    BY <1>2 DEF HardGuard
  <2> QED BY <2>1
<1>3. CASE ~hit /\ ~ ~g.on
  <2>1. HardGuard(g, side, mark, stop, v) =
          IF g.rsi /\ v.rsi = (IF side = "short" THEN "low" ELSE "high") THEN "RSI_EXTREME"
          ELSE IF g.breaker /\ v.move = (IF side = "short" THEN "surge" ELSE "drop") THEN "CIRCUIT_BREAKER"
          ELSE "OK"
    BY <1>3 DEF HardGuard
  <2> QED BY <2>1
<1> HIDE DEF hit
<1> QED BY <1>1, <1>2, <1>3

LEMMA OneMore ==
  ASSUME NEW n \in 0 .. 2
  PROVE  Min({2, n + 1}) = (IF n = 0 THEN 1 ELSE 2)
<1>1. PICK k \in Int : k = n + 1
  OBVIOUS
<1>2. Min({2, k}) = IF 2 =< k THEN 2 ELSE k
  BY MinMaxPair
<1> QED BY <1>1, <1>2

\* The votes after a round in which no crossed stop counted.
Voted(guard, v, n) ==
  IF guard = "OK" /\ ExitVote(v) THEN Min({2, n + 1})
  ELSE IF guard # "OK" \/ Tagged(v, "exit") \/ Tagged(v, "tighten") THEN n ELSE 0

\* A step of a count is a step of the votes.
LEMMA CountFollowsVotes ==
  ASSUME NEW guard, NEW v, NEW c \in 0 .. 2, NEW n \in 0 .. 2, c <= n
  PROVE  /\ MonitorFusion(guard, v, c).count \in 0 .. 2 /\ Voted(guard, v, n) \in 0 .. 2
         /\ MonitorFusion(guard, v, c).count <= Voted(guard, v, n)
         /\ MonitorFusion(guard, v, c).reason = "REVERSAL_CONFIRMED" =>
              guard = "REVERSAL_CONFIRMED" \/ Voted(guard, v, n) = 2
         /\ MonitorFusion(guard, v, c).action = "TIGHTEN" /\ CriticalExit(v) =>
              guard = "OK" /\ MonitorFusion(guard, v, c).count = c /\ Voted(guard, v, n) = n
<1>1. Min({2, c + 1}) \in 0 .. 2 /\ Min({2, n + 1}) \in 0 .. 2 /\ Min({2, c + 1}) <= Min({2, n + 1})
      /\ (~(Min({2, c + 1}) < 2) => Min({2, n + 1}) = 2)
  <2>1. Min({2, c + 1}) = (IF c = 0 THEN 1 ELSE 2) /\ Min({2, n + 1}) = (IF n = 0 THEN 1 ELSE 2)
    BY OneMore
  <2> QED BY <2>1
<1>2. CASE guard # "OK"
  <2>1. MonitorFusion(guard, v, c) = [action |-> "EXIT", reason |-> guard, count |-> c]
    BY <1>2 DEF MonitorFusion
  <2> QED BY <2>1, <1>2 DEF Voted
<1>3. CASE guard = "OK" /\ ExitVote(v)
  <2>1. CountAfter(v, c) = Min({2, c + 1})
    BY <1>3 DEF CountAfter
  <2>2. MonitorFusion(guard, v, c) =
          IF Min({2, c + 1}) < 2
          THEN [action |-> "TIGHTEN", reason |-> "EXIT_CONFIRM_PENDING", count |-> Min({2, c + 1})]
          ELSE [action |-> "EXIT", reason |-> "REVERSAL_CONFIRMED", count |-> Min({2, c + 1})]
    BY <1>3, <2>1 DEF MonitorFusion
  <2>3. ~CriticalExit(v)
    BY <1>3 DEF ExitVote
  <2> QED BY <2>2, <2>3, <1>1, <1>3 DEF Voted
<1>4. CASE guard = "OK" /\ ~ExitVote(v)
  <2>1. MonitorFusion(guard, v, c) =
          [action |-> IF CriticalExit(v) \/ Tagged(v, "tighten") THEN "TIGHTEN" ELSE "KEEP",
           reason |-> "MONITOR", count |-> CountAfter(v, c)]
    BY <1>4 DEF MonitorFusion
  <2>2. CriticalExit(v) => Tagged(v, "exit")
    BY DEF CriticalExit, Tagged, Kinds
  <2>3. CASE CriticalExit(v) \/ Tagged(v, "tighten")
    <3>1. CountAfter(v, c) = c
      BY <1>4, <2>3 DEF CountAfter
    <3> QED BY <2>1, <2>2, <2>3, <3>1, <1>4 DEF Voted
  <2>4. CASE ~(CriticalExit(v) \/ Tagged(v, "tighten"))
    <3>1. CountAfter(v, c) = 0
      BY <1>4, <2>4 DEF CountAfter
    <3>2. ~Tagged(v, "exit")
      BY <1>4, <2>4 DEF ExitVote
    <3> QED BY <2>1, <2>4, <3>1, <3>2, <1>4 DEF Voted
  <2> QED BY <2>3, <2>4
<1> QED BY <1>2, <1>3, <1>4

\* What a round does to the plan, to the count of the position and to the rest.
LEMMA RoundEffect ==
  ASSUME setup \in Setups, plan \in PlanType, pos \in PosType, confirm \in [Ids -> 0 .. 2],
         votes \in 0 .. 2, pos.id \in Ids, confirm[pos.id] <= votes, NEW v, HoldRound(v)
  PROVE  /\ Tighter(pos.side, plan, plan')
         /\ confirm' \in [Ids -> 0 .. 2] /\ votes' \in 0 .. 2
         /\ confirm'[pos.id] <= votes' /\ \A i \in Ids \ {pos.id} : confirm'[i] = confirm[i]
         /\ pos' \in PosType /\ pos'.id = pos.id /\ pos'.side = pos.side /\ pos'.avg = pos.avg
         /\ pos'.status \in {pos.status, "closing"}
         /\ UNCHANGED <<cooldown, waited>> \/ (cooldown' = CooldownRounds /\ waited' = 0)
         /\ pos.status # "closing" /\ pos'.status = "closing" /\ why' = "reversal" => votes' = 2
         /\ UNCHANGED <<setup, entry>>
<1> DEFINE fused(guard) == MonitorFusion(guard, v, confirm[Key(pos.id)])
           count(guard, u) == IF u.exitHit THEN Min({2, fused(guard).count + 1}) ELSE fused(guard).count
           action(guard, u) == IF u.exitHit THEN IF count(guard, u) < 2 THEN "TIGHTEN" ELSE "EXIT" ELSE fused(guard).action
           reason(guard, u) == IF u.exitHit /\ count(guard, u) = 2 THEN "REVERSAL_CONFIRMED" ELSE fused(guard).reason
           closes(guard, u, done) == FSMAction(State, action(guard, u), FALSE) = "close" /\ done
           arms(guard, u, done) == closes(guard, u, done) /\ v.judged /\ reason(guard, u) = "REVERSAL_CONFIRMED"
           after(guard, u) == IF u.exitHit \/ (guard = "OK" /\ ExitVote(v)) THEN Min({2, votes + 1})
                       ELSE IF guard # "OK" \/ Tagged(v, "exit") \/ Tagged(v, "tighten") THEN votes ELSE 0
<1>1. PICK guard \in {HardGuard(setup.guard, pos.side, m, plan.stop, v) : m \in Prices},
           done \in CloseOutcomes :
        \E u \in Updates(fused(guard).action, v) :
        /\ plan' = u.plan /\ source' = u.source
        /\ confirm' = [confirm EXCEPT ![Key(pos.id)] = count(guard, u)]
        /\ votes' = after(guard, u)
        /\ pos' = [pos EXCEPT !.status = IF closes(guard, u, done) THEN "closing" ELSE @]
        /\ cooldown' = (IF arms(guard, u, done) THEN CooldownRounds ELSE cooldown)
        /\ waited' = (IF arms(guard, u, done) THEN 0 ELSE waited)
        /\ why' = (IF ~closes(guard, u, done) THEN why
                   ELSE IF reason(guard, u) = "REVERSAL_CONFIRMED" THEN "reversal" ELSE "guard")
  BY Zenon DEF HoldRound
<1>2. PICK u \in Updates(fused(guard).action, v) :
        /\ plan' = u.plan
        /\ confirm' = [confirm EXCEPT ![Key(pos.id)] = count(guard, u)]
        /\ votes' = after(guard, u)
        /\ pos' = [pos EXCEPT !.status = IF closes(guard, u, done) THEN "closing" ELSE @]
        /\ cooldown' = (IF arms(guard, u, done) THEN CooldownRounds ELSE cooldown)
        /\ waited' = (IF arms(guard, u, done) THEN 0 ELSE waited)
        /\ why' = (IF ~closes(guard, u, done) THEN why
                   ELSE IF reason(guard, u) = "REVERSAL_CONFIRMED" THEN "reversal" ELSE "guard")
  <2> HIDE DEF fused, count, after, closes, arms, reason
  <2> QED BY <1>1
<1>3. guard # "REVERSAL_CONFIRMED"
  BY <1>1, GuardNames
<1>4. Key(pos.id) = pos.id
  BY DEF Key
<1>5. UpdateFits(v, u) /\ (u.exitHit => fused(guard).action = "TIGHTEN")
  <2>1. pos.avg \in Int
    BY DEF PosType
  <2>2. u \in Updates(fused(guard).action, v)
    BY <1>2
  <2> HIDE DEF fused
  <2> QED BY <2>1, <2>2, UpdatesFit
<1> DEFINE m0 == Voted(guard, v, votes)
<1>6. /\ fused(guard).count \in 0 .. 2 /\ m0 \in 0 .. 2 /\ fused(guard).count <= m0
      /\ fused(guard).reason = "REVERSAL_CONFIRMED" => m0 = 2
      /\ fused(guard).action = "TIGHTEN" /\ CriticalExit(v) =>
           guard = "OK" /\ fused(guard).count = confirm[pos.id] /\ m0 = votes
  <2>1. PICK c \in 0 .. 2 : c = confirm[pos.id] /\ c <= votes
    OBVIOUS
  <2>2. fused(guard) = MonitorFusion(guard, v, c)
    BY <1>4, <2>1
  <2> HIDE DEF fused
  <2> QED BY <1>3, <2>1, <2>2, CountFollowsVotes
<1>7. /\ count(guard, u) \in 0 .. 2 /\ after(guard, u) \in 0 .. 2 /\ count(guard, u) <= after(guard, u)
      /\ reason(guard, u) = "REVERSAL_CONFIRMED" => after(guard, u) = 2
  <2>1. CASE u.exitHit
    <3>1. fused(guard).count = confirm[pos.id] /\ confirm[pos.id] \in 0 .. 2
      BY <2>1, <1>5, <1>6 DEF UpdateFits
    <3>2. count(guard, u) = Min({2, confirm[pos.id] + 1}) /\ after(guard, u) = Min({2, votes + 1})
      BY <2>1, <3>1
    <3>3. /\ Min({2, confirm[pos.id] + 1}) = (IF confirm[pos.id] = 0 THEN 1 ELSE 2)
          /\ Min({2, votes + 1}) = (IF votes = 0 THEN 1 ELSE 2)
      BY <3>1, OneMore
    <3>4. reason(guard, u) = "REVERSAL_CONFIRMED" => count(guard, u) = 2 \/ m0 = 2
      BY <1>6
    <3>5. m0 = votes
      BY <2>1, <1>5, <1>6 DEF UpdateFits
    <3> HIDE DEF count, after, reason, m0
    <3> QED BY <3>1, <3>2, <3>3, <3>4, <3>5
  <2>2. CASE ~u.exitHit
    <3>1. count(guard, u) = fused(guard).count /\ after(guard, u) = m0 /\ reason(guard, u) = fused(guard).reason
      BY <2>2 DEF Voted
    <3> HIDE DEF count, after, reason, m0, fused
    <3> QED BY <3>1, <1>6
  <2> QED BY <2>1, <2>2
<1> HIDE DEF fused, count, action, reason, closes, arms, after, m0
<1>8. /\ plan' = u.plan /\ votes' = after(guard, u)
      /\ confirm' = [confirm EXCEPT ![pos.id] = count(guard, u)]
      /\ pos' = [pos EXCEPT !.status = IF closes(guard, u, done) THEN "closing" ELSE @]
      /\ UNCHANGED <<cooldown, waited>> \/ (cooldown' = CooldownRounds /\ waited' = 0)
      /\ why' = (IF ~closes(guard, u, done) THEN why
                 ELSE IF reason(guard, u) = "REVERSAL_CONFIRMED" THEN "reversal" ELSE "guard")
  BY <1>2, <1>4
<1>9. Tighter(pos.side, plan, plan')
  BY <1>5, <1>8 DEF UpdateFits
<1>10. confirm' \in [Ids -> 0 .. 2] /\ votes' \in 0 .. 2
       /\ confirm'[pos.id] <= votes' /\ \A i \in Ids \ {pos.id} : confirm'[i] = confirm[i]
  BY <1>7, <1>8
<1>11. /\ pos' \in PosType /\ pos'.id = pos.id /\ pos'.side = pos.side /\ pos'.avg = pos.avg
       /\ pos'.status = (IF closes(guard, u, done) THEN "closing" ELSE pos.status)
  BY <1>8 DEF PosType
<1>12. pos.status # "closing" /\ pos'.status = "closing" /\ why' = "reversal" => votes' = 2
  BY <1>7, <1>8, <1>11
<1>13. UNCHANGED <<setup, entry>>
  BY DEF HoldRound
<1> QED BY <1>8, <1>9, <1>10, <1>11, <1>12, <1>13

-----------------------------------------------------------------------------
(* The numbers of a new entry.                                             *)

LEMMA PanelNumbers ==
  ASSUME NEW p \in Panels
  PROVE  /\ p.close \in Int /\ p.atr \in Int /\ p.book \in Int
         /\ p.prevHigh \in Int /\ p.prevLow \in Int
         /\ p.candidates \in SUBSET Int /\ IsFiniteSet(p.candidates)
BY InputsAssumption

LEMMA StructureNumber ==
  ASSUME NEW side, NEW price \in Int, NEW C \in SUBSET Int, IsFiniteSet(C)
  PROVE  StructureDistance(side, price, C) \in Int
<1> DEFINE behind == {c \in C : Beyond(side, price, c)}
<1>1. behind \in SUBSET Int /\ IsFiniteSet(behind)
  BY FS_Subset
<1>2. CASE behind = {}
  BY <1>2 DEF StructureDistance
<1>3. CASE behind # {}
  <2>1. Min(behind) \in Int /\ Max(behind) \in Int
    <3> HIDE DEF behind
    <3> QED BY <1>1, <1>3, MinMax
  <2> QED BY <2>1, <1>3 DEF StructureDistance
<1> QED BY <1>2, <1>3

LEMMA DistanceNumber ==
  ASSUME setup \in Setups, NEW policy, NEW side, NEW price \in Int, NEW atr \in Int,
         NEW C \in SUBSET Int, IsFiniteSet(C)
  PROVE  StopDistance(policy, side, price, atr, C, setup.exits) \in Int
<1>1. PICK a \in Int, b \in Int, c \in Int :
        /\ a = Tenths(atr, setup.exits.stopATR) /\ b = Pct(price, setup.exits.minStop)
        /\ c = IF policy = "fixed_rr" THEN 0 ELSE StructureDistance(side, price, C)
  <2>1. setup.exits.stopATR \in Int /\ setup.exits.minStop \in Int
    BY SetupNumbers
  <2>2. Tenths(atr, setup.exits.stopATR) \in Int /\ Pct(price, setup.exits.minStop) \in Int
    BY <2>1, NumberTypes
  <2>3. StructureDistance(side, price, C) \in Int
    BY StructureNumber
  <2> QED BY <2>2, <2>3
<1>2. IsFiniteSet({a, b, c})
  <2>1. IsFiniteSet({a})
    BY FS_Singleton
  <2>2. IsFiniteSet({a} \cup {b})
    BY <2>1, FS_AddElement
  <2>3. IsFiniteSet(({a} \cup {b}) \cup {c})
    BY <2>2, FS_AddElement
  <2> QED BY <2>3, ({a} \cup {b}) \cup {c} = {a, b, c}
<1>3. {a, b, c} \in SUBSET Int /\ {a, b, c} # {}
  OBVIOUS
<1>4. Max({a, b, c}) \in {a, b, c}
  BY <1>2, <1>3, MinMax
<1> QED BY <1>1, <1>4 DEF StopDistance

LEMMA TPNumber ==
  ASSUME NEW side, NEW price, NEW fixed \in Int, NEW C \in SUBSET Int, IsFiniteSet(C), NEW buffer \in Int
  PROVE  AdjustTP(side, price, fixed, C, buffer) \in Int
<1> DEFINE before == {c \in C : Beyond(side, c, price) /\ Beyond(side, fixed, c)}
           level  == IF side = "short" THEN Max(before) ELSE Min(before)
           next   == Toward(side, level, -Pct(level, buffer))
<1>1. before \in SUBSET Int /\ IsFiniteSet(before)
  BY FS_Subset
<1>2. before # {} => level \in Int
  <2> HIDE DEF before
  <2> QED BY <1>1, MinMax
<1>3. before # {} => next \in Int
  <2> HIDE DEF level
  <2>1. before # {} => -Pct(level, buffer) \in Int
    BY <1>2 DEF Pct
  <2> QED BY <1>2, <2>1, NumberTypes
<1>4. AdjustTP(side, price, fixed, C, buffer) \in {next, fixed}
      /\ (before = {} => AdjustTP(side, price, fixed, C, buffer) = fixed)
  BY DEF AdjustTP
<1> HIDE DEF next, before
<1> QED BY <1>3, <1>4

LEMMA ExitsNumbers ==
  ASSUME setup \in Setups, NEW p \in Panels, NEW side, NEW price \in Int
  PROVE  LET exits == InitialExits(setup.policy, side, price, p.atr, p.candidates, setup.exits)
         IN exits.stop \in Int /\ exits.tps \in Seq(Int)
<1> DEFINE x == setup.exits
           dist == StopDistance(setup.policy, side, price, p.atr, p.candidates, x)
           tp(i) == Toward(side, price, Tenths(dist, x.rr[i]))
           taken(i) == IF setup.policy = "structure_tp"
                       THEN AdjustTP(side, price, tp(i), p.candidates, x.buffer) ELSE tp(i)
<1>1. dist \in Int /\ -dist \in Int
  BY PanelNumbers, DistanceNumber
<1>2. x.rr \in Seq(Int) /\ x.buffer \in Int
  BY SetupNumbers
<1>3. ASSUME NEW i \in DOMAIN x.rr
      PROVE  taken(i) \in Int
  <2>1. x.rr[i] \in Int
    BY <1>2
  <2> HIDE DEF dist, x
  <2>2. tp(i) \in Int
    BY <1>1, <2>1, NumberTypes
  <2> HIDE DEF tp
  <2>3. AdjustTP(side, price, tp(i), p.candidates, x.buffer) \in Int
    BY <1>2, <2>2, PanelNumbers, TPNumber
  <2> QED BY <2>2, <2>3
<1>4. InitialExits(setup.policy, side, price, p.atr, p.candidates, x) =
        [stop |-> Toward(side, price, -dist), tps |-> [i \in DOMAIN x.rr |-> taken(i)]]
  BY DEF InitialExits
<1>5. Toward(side, price, -dist) \in Int
  <2> HIDE DEF dist
  <2> QED BY <1>1, NumberTypes
<1> HIDE DEF taken, dist
<1>6. [i \in DOMAIN x.rr |-> taken(i)] \in Seq(Int)
  <2> HIDE DEF x
  <2> QED BY <1>2, <1>3
<1> QED BY <1>4, <1>5, <1>6

LEMMA PriceNumber ==
  ASSUME setup \in Setups, NEW p \in Panels, NEW side
  PROVE  EntryPrice(p, side) \in Int
<1>1. /\ p.close \in Int /\ p.atr \in Int /\ p.book \in Int
      /\ p.prevHigh \in Int /\ p.prevLow \in Int /\ setup.entryOffset \in Int
  BY PanelNumbers, SetupNumbers
<1>2. Max({p.prevHigh, p.close}) \in Int /\ Min({p.prevLow, p.close}) \in Int
  BY <1>1, MinMaxPair
<1>3. ATREntry(p, side) \in Int
  <2>1. -Tenths(p.atr, setup.entryOffset) \in Int
    BY <1>1 DEF Tenths
  <2> QED BY <1>1, <1>2, <2>1, NumberTypes DEF ATREntry
<1>4. CASE setup.entryMode = "market"
  <2>1. EntryPrice(p, side) = p.close
    BY <1>4 DEF EntryPrice
  <2> QED BY <2>1, <1>1
<1>5. CASE setup.entryMode # "market" /\ setup.entryMode = "orderbook" /\ p.book > 0
  <2>1. EntryPrice(p, side) = p.book
    BY <1>5 DEF EntryPrice
  <2> QED BY <2>1, <1>1
<1>6. CASE setup.entryMode # "market" /\ ~(setup.entryMode = "orderbook" /\ p.book > 0)
  <2>1. EntryPrice(p, side) = ATREntry(p, side)
    BY <1>6 DEF EntryPrice
  <2> QED BY <2>1, <1>3
<1> QED BY <1>4, <1>5, <1>6

\* An entry plan holds the numbers its fill makes a risk plan of.
EntryShape(e) ==
  /\ DOMAIN e = {"side", "price", "stop", "tps", "dist", "risk", "size", "leverage", "base", "ordered"}
  /\ e.side \in Sides \cup {NoSide}
  /\ e.price \in Int /\ e.stop \in Int /\ e.tps \in Seq(Int)

LEMMA EntryNumbers ==
  ASSUME setup \in Setups, NEW p \in Panels, NEW side \in Sides \cup {NoSide}, NEW base, NEW patch \in FlatPatches,
         MakeEntry(p, side, base, patch) # NoEntry
  PROVE  EntryShape(MakeEntry(p, side, base, patch))
<1> DEFINE llm   == setup.mode = "llm"
           price == IF llm THEN patch.entry ELSE EntryPrice(p, side)
           exits == IF llm THEN patch
                    ELSE InitialExits(setup.policy, side, price, p.atr, p.candidates, setup.exits)
<1>1. patch.entry \in Int /\ patch.stop \in Int /\ patch.tps \in Seq(Int)
  BY InputsAssumption
<1>2. price \in Int
  BY <1>1, PriceNumber
<1>3. exits.stop \in Int /\ exits.tps \in Seq(Int)
  <2>1. CASE llm
    BY <2>1, <1>1
  <2>2. CASE ~llm
    <3> HIDE DEF price
    <3> QED BY <2>2, <1>2, ExitsNumbers
  <2> QED BY <2>1, <2>2
<1>4. \E dist, risk, sized :
        MakeEntry(p, side, base, patch) =
          [side |-> side, price |-> price, stop |-> exits.stop, tps |-> exits.tps, dist |-> dist,
           risk |-> risk, size |-> sized.size, leverage |-> sized.leverage,
           base |-> base, ordered |-> FALSE]
  BY DEF MakeEntry
<1> HIDE DEF price, exits
<1> QED BY <1>2, <1>3, <1>4 DEF EntryShape

-----------------------------------------------------------------------------
(* The invariant.                                                          *)

\* The entry and the plan are made of numbers, and an entry is filled once.
NumbersInv ==
  /\ setup \in Setups /\ pos \in PosType /\ plan \in PlanType
  /\ Planned => EntryShape(entry) /\ pos.id < MaxPositions
  /\ Open => pos.id \in Ids

\* The count of this position is at most its votes, that of a later one is 0.
VotesInv ==
  /\ confirm \in [Ids -> 0 .. 2] /\ votes \in 0 .. 2
  /\ Open => confirm[pos.id] <= votes
  /\ \A i \in Ids : i > pos.id => confirm[i] = 0

\* What is left of the cooldown is what was not waited for.
CooldownInv ==
  /\ cooldown \in 0 .. CooldownRounds /\ waited \in 0 .. CooldownRounds
  /\ cooldown + waited >= CooldownRounds

IInv == NumbersInv /\ VotesInv /\ CooldownInv /\ BreakevenAfterTP1

\* What the theorems say of a step.
StopStep == Open /\ Open' /\ pos'.id = pos.id =>
              plan'.stop = plan.stop \/ Beyond(pos.side, plan'.stop, plan.stop)
VoteStep == pos'.status = "closing" /\ pos.status = "open" /\ why' = "reversal" => votes' = 2
PlanStep == entry' # entry /\ ~Planned /\ Planned' => waited = CooldownRounds

LEMMA InitInv == Init => IInv
<1> SUFFICES ASSUME Init PROVE IInv
  OBVIOUS
<1>1. NoPlan \in PlanType /\ ~TP1Hit(NoPlan) /\ ~Planned /\ ~Open
  BY DEF Init, NoPlan, PlanType, TP1Hit, Planned, Open
<1>2. NumbersInv
  BY <1>1, PositiveAssumption DEF Init, NumbersInv, PosType, Planned, Open
<1>3. VotesInv
  BY <1>1 DEF Init, VotesInv, Open
<1>4. CooldownInv
  BY PositiveAssumption DEF Init, CooldownInv
<1> QED BY <1>1, <1>2, <1>3, <1>4 DEF Init, IInv, BreakevenAfterTP1

\* A plan that tightens keeps the floor.
LEMMA FloorKept ==
  ASSUME IInv, Open, Tighter(pos.side, plan, plan'), pos'.side = pos.side, pos'.avg = pos.avg, setup' = setup
  PROVE  BreakevenAfterTP1'
<1> DEFINE floor == BreakevenStop(pos.side, pos.avg, setup.fee)
<1>1. floor \in Int /\ plan.stop \in Int /\ plan'.stop \in Int
  <2>1. pos.avg \in Int /\ setup.fee \in Int
    BY SetupNumbers DEF IInv, NumbersInv, PosType
  <2>2. floor \in Int
    BY <2>1, NumberTypes DEF BreakevenStop
  <2> QED BY <2>2 DEF IInv, NumbersInv, PlanType, Tighter
<1>2. TP1Hit(plan) /\ floor > 0 => ~Beyond(pos.side, floor, plan.stop)
  BY DEF IInv, BreakevenAfterTP1
<1>3. TP1Hit(plan)' <=> TP1Hit(plan)
  BY DEF Tighter, TP1Hit
<1>4. plan'.stop = plan.stop \/ Beyond(pos.side, plan'.stop, plan.stop)
  BY DEF Tighter
<1>5. TP1Hit(plan) /\ floor > 0 => ~Beyond(pos.side, floor, plan'.stop)
  <2> HIDE DEF floor
  <2> QED BY <1>1, <1>2, <1>4 DEF Beyond
<1>6. BreakevenStop(pos.side, pos.avg, setup.fee)' = floor
  BY DEF BreakevenStop, Toward, Pct
<1>7. Beyond(pos.side, BreakevenStop(pos.side, pos.avg, setup.fee), plan.stop)' <=> Beyond(pos.side, floor, plan'.stop)
  BY <1>6 DEF Beyond
<1> QED BY <1>3, <1>5, <1>7 DEF BreakevenAfterTP1

LEMMA HoldStep ==
  ASSUME IInv, NEW v \in Views, HoldRound(v)
  PROVE  IInv' /\ StopStep /\ VoteStep /\ PlanStep
<1>1. Open /\ pos.id \in Ids
  BY DEF HoldRound, State, IInv, NumbersInv
<1>2. /\ Tighter(pos.side, plan, plan')
      /\ confirm' \in [Ids -> 0 .. 2] /\ votes' \in 0 .. 2
      /\ confirm'[pos.id] <= votes' /\ \A i \in Ids \ {pos.id} : confirm'[i] = confirm[i]
      /\ pos' \in PosType /\ pos'.id = pos.id /\ pos'.side = pos.side /\ pos'.avg = pos.avg
      /\ pos'.status \in {pos.status, "closing"}
      /\ UNCHANGED <<cooldown, waited>> \/ (cooldown' = CooldownRounds /\ waited' = 0)
      /\ pos.status # "closing" /\ pos'.status = "closing" /\ why' = "reversal" => votes' = 2
      /\ UNCHANGED <<setup, entry>>
  BY <1>1, RoundEffect DEF IInv, NumbersInv, VotesInv
<1>3. NumbersInv'
  <2>1. plan' \in PlanType
    BY <1>2 DEF Tighter
  <2>2. (Planned' <=> Planned) /\ (Planned => EntryShape(entry)') /\ pos'.id \in Ids
    BY <1>1, <1>2 DEF Planned, NoEntry, NoSide, EntryShape, IInv, NumbersInv
  <2> QED BY <1>2, <2>1, <2>2 DEF IInv, NumbersInv, Ids
<1>4. VotesInv'
  BY <1>1, <1>2 DEF IInv, VotesInv, Ids
<1>5. CooldownInv'
  BY <1>2, PositiveAssumption DEF IInv, CooldownInv
<1>6. BreakevenAfterTP1'
  BY <1>1, <1>2, FloorKept
<1>7. StopStep /\ VoteStep /\ PlanStep
  BY <1>2 DEF StopStep, VoteStep, PlanStep, Tighter
<1> QED BY <1>3, <1>4, <1>5, <1>6, <1>7 DEF IInv

\* The risk monitor marks the level it takes, and with it moves the stop to
\* the floor.
LEMMA TickStep ==
  ASSUME IInv, NEW mark \in Prices, RiskTick(mark)
  PROVE  IInv' /\ StopStep /\ VoteStep /\ PlanStep
<1> DEFINE hit == EvaluateRisk(plan, pos.side, mark)
           floor == BreakevenStop(pos.side, pos.avg, setup.fee)
<1>1. /\ pos.status = "open" /\ Open /\ pos.id \in Ids
      /\ UNCHANGED <<setup, entry, confirm, cooldown, votes, waited>>
      /\ pos' \in PosType /\ pos'.id = pos.id /\ pos'.side = pos.side /\ pos'.avg = pos.avg
      /\ pos'.status \in {"open", "closing"} /\ (pos'.status = "closing" => why' = "price")
  <2>1. PICK done \in BOOLEAN : /\ pos' = [pos EXCEPT !.status = IF done THEN "closing" ELSE @]
                                /\ why' = IF done THEN "price" ELSE why
    BY DEF RiskTick
  <2>2. pos.status = "open" /\ UNCHANGED <<setup, entry, confirm, cooldown, votes, waited>>
    BY DEF RiskTick, memory
  <2> QED BY <2>1, <2>2 DEF IInv, NumbersInv, PosType, Open
<1>2. floor \in Int /\ plan \in PlanType /\ plan.stop \in Int
  <2>1. pos.avg \in Int /\ setup.fee \in Int
    BY SetupNumbers DEF IInv, NumbersInv, PosType
  <2>2. floor \in Int
    BY <2>1, NumberTypes DEF BreakevenStop
  <2> QED BY <2>2 DEF IInv, NumbersInv, PlanType
<1>3. plan' \in PlanType /\ StopStep /\ BreakevenAfterTP1'
  <2>1. CASE plan' = plan
    <3>1. Tighter(pos.side, plan, plan')
      BY <2>1, <1>2 DEF Tighter
    <3> QED BY <1>1, <1>2, <2>1, <3>1, FloorKept DEF StopStep
  <2>2. CASE plan' # plan
    <3>1. hit.type = "TAKE_PROFIT" /\ plan' = ApplyTP1Breakeven(MarkTPLevelHit(plan, hit.level), pos.side, pos.avg, setup.fee)
      BY <2>2 DEF RiskTick
    <3>2. hit.level \in 1 .. Len(plan.tps)
      <4> DEFINE touched == TouchedTPs(plan, pos.side, mark)
      <4>1. touched \subseteq 1 .. Len(plan.tps) /\ Len(plan.tps) \in Nat
        BY <1>2 DEF TouchedTPs, Unhit, PlanType
      <4>2. touched # {} /\ hit.level = Min(touched)
        <5>1. CASE HitStop(plan, pos.side, mark)
          <6>1. hit.type = "STOP_LOSS"
            BY <5>1 DEF EvaluateRisk
          <6> QED BY <6>1, <3>1
        <5>2. CASE ~HitStop(plan, pos.side, mark) /\ touched # {}
          BY <5>2 DEF EvaluateRisk
        <5>3. CASE ~HitStop(plan, pos.side, mark) /\ touched = {}
          <6>1. hit.type = "none"
            BY <5>3 DEF EvaluateRisk
          <6> QED BY <6>1, <3>1
        <5> QED BY <5>1, <5>2, <5>3
      <4>3. IsFiniteSet(touched)
        <5>1. IsFiniteSet(1 .. Len(plan.tps))
          BY <4>1, FS_Interval
        <5> QED BY <4>1, <5>1, FS_Subset
      <4> HIDE DEF touched, hit
      <4>4. Min(touched) \in touched
        BY <4>1, <4>2, <4>3, MinMax
      <4> QED BY <4>1, <4>2, <4>4
    <3>3. PICK marked \in PlanType : marked = MarkTPLevelHit(plan, hit.level) /\ marked.stop = plan.stop
      <4>1. PICK l \in 1 .. Len(plan.tps) : l = hit.level
        BY <3>2
      <4>2. plan.tps \in Seq(Level) /\ plan.tps[l] \in Level
        <5>1. plan.tps \in Seq(Level)
          BY <1>2 DEF PlanType, Level
        <5> QED BY <5>1
      <4>3. PICK r \in Level : r = [plan.tps[l] EXCEPT !.hit = TRUE]
        BY <4>2 DEF Level
      <4>4. PICK tps \in Seq(Level) : tps = [plan.tps EXCEPT ![l] = r]
        <5>1. [plan.tps EXCEPT ![l] = r] \in Seq(Level)
          BY <1>2, LevelSet
        <5> QED BY <5>1
      <4>5. MarkTPLevelHit(plan, l) = [plan EXCEPT !.tps = tps]
        BY <1>2, <4>3, <4>4 DEF MarkTPLevelHit, PlanType
      <4>6. [plan EXCEPT !.tps = tps] \in PlanType /\ [plan EXCEPT !.tps = tps].stop = plan.stop
        BY <1>2 DEF PlanType, Level
      <4> HIDE DEF hit
      <4> QED BY <4>1, <4>5, <4>6
    <3> HIDE DEF hit
    <3>4. plan' = IF TP1Hit(marked) /\ floor > 0 /\ Beyond(pos.side, floor, marked.stop)
                  THEN [marked EXCEPT !.stop = floor] ELSE marked
      BY <3>1, <3>3 DEF ApplyTP1Breakeven
    <3> HIDE DEF floor
    <3>5. /\ plan' \in PlanType /\ (TP1Hit(plan)' <=> TP1Hit(marked))
          /\ plan'.stop = (IF TP1Hit(marked) /\ floor > 0 /\ Beyond(pos.side, floor, marked.stop) THEN floor ELSE marked.stop)
      <4>1. [marked EXCEPT !.stop = floor] \in PlanType /\ [marked EXCEPT !.stop = floor].stop = floor
            /\ [marked EXCEPT !.stop = floor].tps = marked.tps
        BY <1>2 DEF PlanType
      <4> QED BY <3>4, <4>1 DEF TP1Hit
    <3>6. plan'.stop = plan.stop \/ Beyond(pos.side, plan'.stop, plan.stop)
      BY <3>3, <3>5
    <3>7. TP1Hit(plan)' /\ floor > 0 => ~Beyond(pos.side, floor, plan'.stop)
      BY <1>2, <3>3, <3>5 DEF Beyond
    <3>8. BreakevenStop(pos.side, pos.avg, setup.fee)' = floor
      BY <1>1 DEF floor, BreakevenStop, Toward, Pct
    <3>9. Beyond(pos.side, BreakevenStop(pos.side, pos.avg, setup.fee), plan.stop)' <=> Beyond(pos.side, floor, plan'.stop)
      BY <1>1, <3>8 DEF Beyond
    <3>10. StopStep
      BY <3>6 DEF StopStep
    <3>11. BreakevenAfterTP1'
      BY <3>5, <3>7, <3>8, <3>9 DEF BreakevenAfterTP1
    <3> QED BY <3>5, <3>10, <3>11
  <2> QED BY <2>1, <2>2
<1>4. NumbersInv'
  <2>1. (Planned' <=> Planned) /\ (Planned => EntryShape(entry)')
    BY <1>1 DEF Planned, NoEntry, NoSide, EntryShape, IInv, NumbersInv
  <2> QED BY <1>1, <1>3, <2>1 DEF IInv, NumbersInv, Ids
<1>5. VotesInv' /\ CooldownInv'
  BY <1>1 DEF IInv, VotesInv, CooldownInv, Ids
<1>6. VoteStep /\ PlanStep
  BY <1>1 DEF VoteStep, PlanStep
<1> QED BY <1>3, <1>4, <1>5, <1>6 DEF IInv

\* A step that leaves the position, its plan and its votes alone.
LEMMA QuietStep ==
  ASSUME IInv, UNCHANGED <<setup, pos, plan, confirm, votes, cooldown, waited>>,
         Planned' => EntryShape(entry)' /\ pos.id < MaxPositions,
         entry' = entry \/ Planned \/ ~Planned' \/ waited = CooldownRounds
  PROVE  IInv' /\ StopStep /\ VoteStep /\ PlanStep
<1>1. NumbersInv' /\ VotesInv' /\ CooldownInv'
  BY DEF IInv, NumbersInv, VotesInv, CooldownInv, Open, Ids
<1>2. BreakevenAfterTP1'
  BY DEF IInv, BreakevenAfterTP1, TP1Hit, BreakevenStop, Beyond, Toward, Pct
<1>3. StopStep /\ PlanStep
  BY DEF StopStep, PlanStep
<1>4. VoteStep
  BY DEF VoteStep
<1> QED BY <1>1, <1>2, <1>3, <1>4 DEF IInv

LEMMA SkipStep ==
  ASSUME IInv, SkipFlatRound
  PROVE  IInv' /\ StopStep /\ VoteStep /\ PlanStep
<1>1. UNCHANGED <<setup, entry, pos, plan, confirm, votes>>
  BY DEF SkipFlatRound
<1>2. cooldown' = cooldown - 1 /\ cooldown > 0 /\ waited' = Min({CooldownRounds, waited + 1})
  BY DEF SkipFlatRound
<1>3. CooldownInv'
  <2>1. PICK c \in Int, w \in Int : c = CooldownRounds /\ w = waited + 1
    BY PositiveAssumption DEF IInv, CooldownInv
  <2>2. Min({c, w}) = IF c =< w THEN c ELSE w
    BY MinMaxPair
  <2> QED BY <1>2, <2>1, <2>2, PositiveAssumption DEF IInv, CooldownInv
<1>4. NumbersInv' /\ VotesInv'
  BY <1>1 DEF IInv, NumbersInv, VotesInv, Open, Ids, Planned, EntryShape, NoEntry, NoSide
<1>5. BreakevenAfterTP1'
  BY <1>1 DEF IInv, BreakevenAfterTP1, TP1Hit, BreakevenStop, Beyond, Toward, Pct
<1>6. StopStep /\ VoteStep /\ PlanStep
  BY <1>1 DEF StopStep, VoteStep, PlanStep
<1> QED BY <1>3, <1>4, <1>5, <1>6 DEF IInv

LEMMA FlatStep ==
  ASSUME IInv, NEW p \in Panels, NEW f \in Funds, NEW patch \in FlatPatches, FlatRound(p, f, patch)
  PROVE  IInv' /\ StopStep /\ VoteStep /\ PlanStep
<1>1. /\ UNCHANGED <<setup, pos, plan, confirm, votes, cooldown, waited>>
      /\ cooldown = 0 /\ pos.id < MaxPositions
  BY DEF FlatRound, memory, history
<1>2. waited = CooldownRounds
  BY <1>1, PositiveAssumption DEF IInv, CooldownInv
<1>3. \E base : entry' \in {NoEntry, MakeEntry(p, Direction(p.agents, setup.consensus), base, patch)}
  BY DEF FlatRound
<1>4. entry' # NoEntry => EntryShape(entry')
  <2>1. Direction(p.agents, setup.consensus) \in Sides \cup {NoSide}
    BY DEF Direction, Sides, NoSide
  <2> QED BY <1>3, <2>1, EntryNumbers DEF IInv, NumbersInv
<1>5. Planned' => EntryShape(entry)' /\ pos.id < MaxPositions
  BY <1>1, <1>4 DEF Planned, NoEntry, NoSide, EntryShape
<1> QED BY <1>1, <1>2, <1>5, QuietStep

LEMMA TriggerStep ==
  ASSUME IInv, NEW f \in Funds, Trigger(f)
  PROVE  IInv' /\ StopStep /\ VoteStep /\ PlanStep
<1>1. /\ UNCHANGED <<setup, pos, plan, confirm, votes, cooldown, waited>>
      /\ Planned
  BY DEF Trigger, memory, history
<1>2. PICK size, leverage, base : entry' = [entry EXCEPT !.size = size, !.leverage = leverage,
                                                         !.base = base, !.ordered = TRUE]
  BY DEF Trigger
<1>3. EntryShape(entry) /\ pos.id < MaxPositions
  BY <1>1 DEF IInv, NumbersInv
<1>4. EntryShape(entry)'
  BY <1>2, <1>3 DEF EntryShape
<1> QED BY <1>1, <1>3, <1>4, QuietStep

LEMMA FillStep ==
  ASSUME IInv, NEW avg \in Prices, Fill(avg)
  PROVE  IInv' /\ StopStep /\ VoteStep /\ PlanStep
<1>1. /\ Planned /\ ~Open
      /\ pos' = [id |-> pos.id + 1, status |-> "open", side |-> entry.side, avg |-> avg]
      /\ plan' = BuildRiskPlan(entry.price, entry.stop, entry.tps)
      /\ entry' = NoEntry /\ votes' = 0 /\ why' = "none"
      /\ UNCHANGED <<setup, confirm, cooldown, waited>>
  BY DEF Fill, memory, State
<1>2. EntryShape(entry) /\ pos.id \in 0 .. MaxPositions /\ pos.id < MaxPositions
  BY <1>1 DEF IInv, NumbersInv, PosType
<1>3. plan' \in PlanType /\ ~TP1Hit(plan)'
  <2> DEFINE tps == [i \in DOMAIN entry.tps |-> [price |-> entry.tps[i], hit |-> FALSE]]
  <2>1. entry.tps \in Seq(Int) /\ DOMAIN entry.tps = 1 .. Len(entry.tps) /\ Len(entry.tps) \in Nat
    BY <1>2 DEF EntryShape
  <2>2. tps \in Seq([price : Int, hit : BOOLEAN]) /\ Len(tps) = Len(entry.tps)
        /\ \A i \in 1 .. Len(tps) : tps[i].hit = FALSE
    BY <2>1
  <2>3. plan' = [stop |-> entry.stop, tps |-> tps, high |-> entry.price, low |-> entry.price]
    BY <1>1 DEF BuildRiskPlan
  <2> HIDE DEF tps
  <2>4. plan' \in PlanType /\ plan'.tps = tps
    BY <1>2, <2>2, <2>3 DEF EntryShape, PlanType
  <2>5. ~(Len(tps) > 0 /\ tps[1].hit)
    BY <2>2
  <2> QED BY <2>4, <2>5 DEF TP1Hit
<1>4. NumbersInv'
  <2>1. ~Planned' /\ Open'
    BY <1>1 DEF Planned, NoEntry, NoSide, Open
  <2>2. pos' \in PosType
    <3>1. pos.id + 1 \in 0 .. MaxPositions /\ avg \in Int
      BY <1>2, PositiveAssumption
    <3>2. entry.side \in Sides \cup {NoSide}
      BY <1>2 DEF EntryShape
    <3> QED BY <1>1, <3>1, <3>2 DEF PosType
  <2> QED BY <1>1, <1>2, <1>3, <2>1, <2>2, PositiveAssumption DEF IInv, NumbersInv, Ids, PosType
<1>5. VotesInv' /\ CooldownInv'
  <2>1. pos'.id = pos.id + 1 /\ pos'.id \in Ids
    BY <1>1, <1>2, PositiveAssumption DEF Ids
  <2> QED BY <1>1, <1>2, <2>1 DEF IInv, VotesInv, CooldownInv, Ids
<1>6. BreakevenAfterTP1'
  BY <1>3 DEF BreakevenAfterTP1
<1>7. StopStep /\ VoteStep /\ PlanStep
  BY <1>1 DEF StopStep, VoteStep, PlanStep
<1> QED BY <1>3, <1>4, <1>5, <1>6, <1>7 DEF IInv

LEMMA EndSteps ==
  ASSUME IInv, Reopen \/ Gone \/ Restart \/ Drop
  PROVE  IInv' /\ StopStep /\ VoteStep /\ PlanStep
<1>1. CASE Reopen
  <2>1. /\ pos.status = "closing" /\ pos' = [pos EXCEPT !.status = "open"]
        /\ UNCHANGED <<setup, entry, plan, confirm, cooldown, votes, waited>>
    BY <1>1 DEF Reopen, memory
  <2>2. /\ pos' \in PosType /\ pos'.id = pos.id /\ pos'.side = pos.side /\ pos'.avg = pos.avg
        /\ pos'.status = "open" /\ Open
    BY <2>1 DEF IInv, NumbersInv, PosType, Open
  <2>3. NumbersInv' /\ VotesInv' /\ CooldownInv'
    BY <2>1, <2>2 DEF IInv, NumbersInv, VotesInv, CooldownInv, Ids, Planned, EntryShape, NoEntry, NoSide
  <2>4. BreakevenAfterTP1'
    <3>1. Tighter(pos.side, plan, plan')
      BY <2>1 DEF Tighter, IInv, NumbersInv
    <3> QED BY <2>1, <2>2, <3>1, FloorKept
  <2> QED BY <2>1, <2>2, <2>3, <2>4 DEF IInv, StopStep, VoteStep, PlanStep
<1>2. CASE Gone
  <2>1. /\ pos' = [pos EXCEPT !.status = "flat", !.side = NoSide, !.avg = 0]
        /\ plan' = NoPlan /\ votes' = 0
        /\ UNCHANGED <<setup, entry, confirm, cooldown, waited>>
    BY <1>2 DEF Gone, memory
  <2>2. pos' \in PosType /\ pos'.id = pos.id /\ ~Open'
    <3>1. pos \in PosType
      BY DEF IInv, NumbersInv
    <3>2. pos' \in PosType
      <4>1. pos' = [id |-> pos.id, status |-> "flat", side |-> NoSide, avg |-> 0]
        BY <2>1, <3>1 DEF PosType
      <4>2. pos.id \in 0 .. MaxPositions
        BY <3>1 DEF PosType
      <4> QED BY <4>1, <4>2 DEF PosType
    <3>3. pos'.id = pos.id /\ pos'.status = "flat"
      BY <2>1, <3>1 DEF PosType
    <3> QED BY <3>2, <3>3 DEF Open
  <2>3. plan' \in PlanType /\ ~TP1Hit(plan)'
    BY <2>1 DEF NoPlan, PlanType, TP1Hit
  <2>4. NumbersInv' /\ VotesInv' /\ CooldownInv'
    BY <2>1, <2>2, <2>3 DEF IInv, NumbersInv, VotesInv, CooldownInv, Ids, Planned, EntryShape, NoEntry, NoSide
  <2> QED BY <2>1, <2>2, <2>3, <2>4 DEF IInv, StopStep, VoteStep, PlanStep, Open, BreakevenAfterTP1
<1>3. CASE Restart
  <2>1. /\ entry' = NoEntry /\ confirm' = [i \in Ids |-> 0] /\ cooldown' = 0 /\ waited' = CooldownRounds
        /\ UNCHANGED <<setup, pos, plan, votes>>
    BY <1>3 DEF Restart
  <2>2. ~Planned'
    BY <2>1 DEF Planned, NoEntry, NoSide
  <2>3. NumbersInv' /\ VotesInv'
    BY <2>1, <2>2 DEF IInv, NumbersInv, VotesInv, Open, Ids
  <2>4. CooldownInv'
    BY <2>1, PositiveAssumption DEF CooldownInv
  <2>5. BreakevenAfterTP1'
    BY <2>1 DEF IInv, BreakevenAfterTP1, TP1Hit, BreakevenStop, Beyond, Toward, Pct
  <2> QED BY <2>1, <2>2, <2>3, <2>4, <2>5 DEF IInv, StopStep, VoteStep, PlanStep
<1>4. CASE Drop
  <2>1. UNCHANGED <<setup, pos, plan, confirm, votes, cooldown, waited>> /\ entry' = NoEntry
    BY <1>4 DEF Drop, memory, history
  <2>2. ~Planned'
    BY <2>1 DEF Planned, NoEntry, NoSide
  <2> QED BY <2>1, <2>2, QuietStep
<1> QED BY <1>1, <1>2, <1>3, <1>4

LEMMA NextInv ==
  ASSUME IInv, [Next]_vars
  PROVE  IInv' /\ StopStep /\ VoteStep /\ PlanStep
<1>1. CASE UNCHANGED vars
  <2>1. UNCHANGED <<setup, entry, pos, plan, confirm, votes, cooldown, waited>>
    BY <1>1 DEF vars
  <2>2. (Planned' <=> Planned) /\ (EntryShape(entry)' <=> EntryShape(entry))
    BY <2>1 DEF Planned, NoEntry, NoSide, EntryShape
  <2> QED BY <2>1, <2>2, QuietStep DEF IInv, NumbersInv
<1>2. CASE SkipFlatRound
  BY <1>2, SkipStep
<1>3. CASE \E p \in Panels, f \in Funds, patch \in FlatPatches : FlatRound(p, f, patch)
  BY <1>3, FlatStep
<1>4. CASE \E f \in Funds : Trigger(f)
  BY <1>4, TriggerStep
<1>5. CASE \E avg \in Prices : Fill(avg)
  BY <1>5, FillStep
<1>6. CASE \E v \in Views : HoldRound(v)
  BY <1>6, HoldStep
<1>7. CASE \E mark \in Prices : RiskTick(mark)
  BY <1>7, TickStep
<1>8. CASE Reopen \/ Gone \/ Restart \/ Drop
  BY <1>8, EndSteps
<1> QED BY <1>1, <1>2, <1>3, <1>4, <1>5, <1>6, <1>7, <1>8 DEF Next

LEMMA Invariant == Spec => []IInv
BY InitInv, NextInv, PTL DEF Spec

-----------------------------------------------------------------------------
(* The size of an entry.                                                   *)

LEMMA Quotient ==
  ASSUME NEW a \in Nat, NEW d \in Nat \ {0}
  PROVE  a \div d \in Nat /\ (a \div d) * d <= a
OBVIOUS

LEMMA Product ==
  ASSUME NEW a \in Nat, NEW b \in Nat, NEW c \in Nat, a <= b
  PROVE  a * c <= b * c /\ a * c \in Nat
OBVIOUS

SieveRow == [mechTag : STRING, liqConf : STRING, crowded : STRING, action : STRING, factor : 0 .. 100]

\* The row of the sieve that is chosen is one that matches.
LEMMA BestRowMatches ==
  ASSUME setup \in Setups, NEW p, NEW side,
         \E i \in DOMAIN setup.sieve.rows : RowMatches(setup.sieve.rows[i], p, side)
  PROVE  BestRow(setup.sieve.rows, p, side) \in DOMAIN setup.sieve.rows
<1> DEFINE rows == setup.sieve.rows
           hits == {i \in DOMAIN rows : RowMatches(rows[i], p, side)}
           specs == {Specific(rows[i]) : i \in hits}
<1>1. DOMAIN rows = 1 .. Len(rows) /\ Len(rows) \in Nat
  BY SetupsAssumption
<1>2. hits \in SUBSET Int /\ IsFiniteSet(hits) /\ hits # {}
  <2>1. IsFiniteSet(DOMAIN rows)
    BY <1>1, FS_Interval
  <2> QED BY <1>1, <2>1, FS_Subset
<1>3. \A i \in hits : Specific(rows[i]) \in Int
  <2>1. IsFiniteSet({"mechTag", "liqConf", "crowded"})
    <3>1. IsFiniteSet({"mechTag"})
      BY FS_Singleton
    <3>2. IsFiniteSet({"mechTag"} \cup {"liqConf"})
      BY <3>1, FS_AddElement
    <3>3. IsFiniteSet(({"mechTag"} \cup {"liqConf"}) \cup {"crowded"})
      BY <3>2, FS_AddElement
    <3> QED BY <3>3, ({"mechTag"} \cup {"liqConf"}) \cup {"crowded"} = {"mechTag", "liqConf", "crowded"}
  <2> SUFFICES ASSUME NEW i \in hits PROVE Specific(rows[i]) \in Int
    OBVIOUS
  <2> DEFINE fields == {f \in {"mechTag", "liqConf", "crowded"} : rows[i][f] # "any"}
  <2>2. IsFiniteSet(fields)
    BY <2>1, FS_Subset
  <2>3. Cardinality(fields) \in Nat
    <3> HIDE DEF fields
    <3> QED BY <2>2, FS_CardinalityType
  <2> QED BY <2>3 DEF Specific
<1> DEFINE spec(i) == Specific(rows[i])
<1>4. \E top \in specs : \A n \in specs : top >= n
  <2>1. specs \in SUBSET Int /\ specs # {}
    BY <1>2, <1>3
  <2>2. IsFiniteSet(specs)
    <3> HIDE DEF hits
    <3>1. IsFiniteSet({spec(i) : i \in hits})
      <4>1. PICK g \in [hits -> specs] : \A i \in hits : g[i] = spec(i)
        <5>1. [i \in hits |-> spec(i)] \in [hits -> specs]
          OBVIOUS
        <5> QED BY <5>1
      <4>2. \A n \in specs : \E i \in hits : g[i] = n
        BY <4>1
      <4>3. g \in Surjection(hits, specs)
        BY <4>1, <4>2 DEF Surjection
      <4> QED BY <1>2, <4>3, FS_Surjection
    <3> QED BY <3>1
  <2> HIDE DEF specs
  <2> QED BY <2>1, <2>2, FiniteExtrema
<1>5. PICK top \in Int : (\E i \in hits : spec(i) = top) /\ \A i \in hits : spec(i) <= top
  BY <1>3, <1>4
<1> DEFINE best == {i \in hits : spec(i) = top}
<1>6. best \in SUBSET Int /\ IsFiniteSet(best) /\ best # {}
  <2> HIDE DEF hits
  <2> QED BY <1>2, <1>5, FS_Subset
<1>7. PICK b \in best : \A i \in best : b =< i
  <2> HIDE DEF best
  <2> QED BY <1>6, FiniteExtrema
<1>8. b \in hits /\ \A j \in hits : Specific(rows[j]) < Specific(rows[b])
                                    \/ (Specific(rows[j]) = Specific(rows[b]) /\ b <= j)
  <2> HIDE DEF hits
  <2> QED BY <1>3, <1>5, <1>7
<1>9. BestRow(rows, p, side) = CHOOSE i \in hits : \A j \in hits :
        Specific(rows[j]) < Specific(rows[i]) \/ (Specific(rows[j]) = Specific(rows[i]) /\ i <= j)
  BY DEF BestRow
<1> HIDE DEF hits
<1>10. BestRow(rows, p, side) \in hits
  BY <1>8, <1>9
<1> QED BY <1>10 DEF hits

LEMMA SieveShare ==
  ASSUME setup \in Setups, NEW p, NEW side
  PROVE  SieveFactor(setup.sieve, p, side) \in 0 .. 100
<1> DEFINE sieve == setup.sieve
           hit == \E i \in DOMAIN sieve.rows : RowMatches(sieve.rows[i], p, side)
           row == sieve.rows[BestRow(sieve.rows, p, side)]
           factor == IF hit /\ row.factor > 0 THEN row.factor ELSE sieve.factor
           most == Max({factor, sieve.min})
           kept == IF sieve.rows = <<>> THEN factor ELSE most
<1>1. sieve.factor \in 0 .. 100 /\ sieve.min \in 0 .. 100
  BY SetupsAssumption
<1>2. hit => row.factor \in 0 .. 100
  <2> SUFFICES ASSUME hit PROVE row.factor \in 0 .. 100
    OBVIOUS
  <2>1. BestRow(sieve.rows, p, side) \in DOMAIN sieve.rows
    BY BestRowMatches
  <2>2. row \in [mechTag : STRING, liqConf : STRING, crowded : STRING, action : STRING, factor : 0 .. 100]
    <3>1. sieve.rows \in Seq([mechTag : STRING, liqConf : STRING, crowded : STRING,
                              action : STRING, factor : 0 .. 100])
      BY SetupsAssumption
    <3>2. PICK rows \in Seq(SieveRow) : rows = sieve.rows
      BY <3>1 DEF SieveRow
    <3>3. PICK i \in DOMAIN rows : i = BestRow(sieve.rows, p, side)
      BY <2>1, <3>2
    <3>4. rows[i] \in SieveRow
      OBVIOUS
    <3> QED BY <3>2, <3>3, <3>4 DEF SieveRow
  <2> QED BY <2>2
<1>3. factor \in 0 .. 100
  <2> HIDE DEF row, hit
  <2> QED BY <1>1, <1>2
<1>4. kept \in 0 .. 100
  <2> HIDE DEF factor
  <2>1. PICK a \in Int, b \in Int : a = factor /\ b = sieve.min
    BY <1>1, <1>3
  <2>2. Max({a, b}) = IF a >= b THEN a ELSE b
    BY MinMaxPair
  <2>3. most \in 0 .. 100
    BY <1>1, <1>3, <2>1, <2>2
  <2> HIDE DEF most
  <2> QED BY <1>3, <2>3
<1>5. SieveFactor(sieve, p, side) \in {0, 100, kept}
  BY DEF SieveFactor
<1> HIDE DEF kept
<1> QED BY <1>4, <1>5

\* Grade and sieve only take from the risk of the strategy.
LEMMA RiskGranted ==
  ASSUME setup \in Setups, NEW p, NEW side
  PROVE  RiskPct(p, side) \in Nat /\ RiskPct(p, side) <= setup.risk * 10000
<1>1. PICK grade \in 0 .. 3 : grade = Grade(SetupQuality(p.agents, p.answers))
  BY DEF Grade
<1>2. PICK g \in 0 .. 100 : g = setup.grades[IF grade = 0 THEN 1 ELSE grade]
  <2>1. setup.grades \in [1 .. 3 -> 0 .. 100]
    BY SetupsAssumption
  <2>2. (IF grade = 0 THEN 1 ELSE grade) \in 1 .. 3
    OBVIOUS
  <2> QED BY <2>1, <2>2
<1>3. PICK f \in 0 .. 100 : f = SieveFactor(setup.sieve, p.answers, side)
  BY SieveShare
<1>4. PICK r \in Nat : r = setup.risk
  BY SetupsAssumption
<1>5. RiskPct(p, side) = r * g * f
  <2>1. RiskPct(p, side) = setup.risk * setup.grades[IF grade = 0 THEN 1 ELSE grade]
                             * SieveFactor(setup.sieve, p.answers, side)
    BY <1>1 DEF RiskPct
  <2> QED BY <1>2, <1>3, <1>4, <2>1
<1>6. PICK gf \in Nat : gf = g * f /\ gf <= 10000
  <2>1. g * f <= 100 * f /\ g * f \in Nat
    BY Product
  <2> QED BY <2>1
<1>7. r * g * f = gf * r
  BY <1>6
<1>8. gf * r <= 10000 * r /\ gf * r \in Nat
  BY <1>6, Product
<1> QED BY <1>4, <1>5, <1>7, <1>8

\* The size keeps to the risk and to the margin, the leverage to its limit.
LEMMA SizeIsBounded ==
  ASSUME setup \in Setups, NEW side, NEW price \in Nat \ {0}, NEW stop, NEW dist \in Nat \ {0},
         NEW risk \in Nat, risk <= setup.risk * 10000, NEW base \in Nat, base >= 100
  PROVE  LET sized == Sized(side, price, stop, dist, risk, base, setup.maxLeverage) IN
         /\ sized.size \in Nat /\ sized.leverage \in Nat \ {0} /\ sized.leverage <= setup.maxLeverage
         /\ sized.size * dist <= Pct(base, setup.risk)
         /\ sized.size * price <= sized.leverage * MaxInvest(base)
         /\ sized.liquidation = Liquidation(side, price, sized.leverage, (sized.size * price) \div sized.leverage)
<1> DEFINE size == ((base * risk) \div 1000000) \div dist
           invest == MaxInvest(base)
           most == setup.maxLeverage
           wanted == Max({1, (size * price + invest - 1) \div invest})
           lev == IF most > 0 THEN Min({wanted, most}) ELSE wanted
           cut == IF size * price > lev * invest THEN (lev * invest) \div price ELSE size
<1>1. setup.risk \in Nat /\ most \in Nat \ {0}
  BY SetupsAssumption
<1>2. size \in Nat /\ size * dist <= Pct(base, setup.risk)
  <2>1. base * risk \in Nat /\ base * risk <= (base * setup.risk) * 10000
    <3>1. PICK limit \in Nat : limit = setup.risk * 10000 /\ risk <= limit
      BY <1>1
    <3>2. risk * base <= limit * base /\ risk * base \in Nat
      BY <3>1, Product
    <3>3. limit * base = (base * setup.risk) * 10000
      BY <1>1, <3>1
    <3> QED BY <3>2, <3>3
  <2>2. PICK br \in Nat : br = base * setup.risk
    BY <1>1
  <2>3. PICK q \in Nat : q = (base * risk) \div 1000000 /\ q <= br \div 100
    <3>1. PICK a \in Nat : a = base * risk /\ a <= br * 10000
      BY <2>1, <2>2
    <3>2. a \div 1000000 \in Nat /\ a \div 1000000 <= br \div 100
      BY <3>1
    <3> QED BY <3>1, <3>2
  <2>4. q \div dist \in Nat /\ (q \div dist) * dist <= q
    BY Quotient
  <2> QED BY <2>2, <2>3, <2>4 DEF Pct
<1>3. invest \in Nat \ {0}
  <2>1. PICK m \in 1 .. 100 : invest = Pct(base, m)
    <3>1. setup.maxInvest \in 0 .. 100
      BY SetupsAssumption
    <3>2. (IF setup.maxInvest > 0 THEN setup.maxInvest ELSE 100) \in 1 .. 100
      BY <3>1
    <3> QED BY <3>2 DEF MaxInvest
  <2>2. 100 * m <= base * m /\ base * m \in Nat
    BY Product
  <2> QED BY <2>1, <2>2 DEF Pct
<1>4. lev \in Nat \ {0} /\ lev <= most
  <2>1. PICK w \in Int : w = (size * price + invest - 1) \div invest
    <3> HIDE DEF size, invest
    <3>1. size * price + invest - 1 \in Int
      BY <1>2, <1>3
    <3> QED BY <1>3, <3>1
  <2>2. wanted = (IF 1 >= w THEN 1 ELSE w)
    <3> HIDE DEF size, invest
    <3> QED BY <2>1, MinMaxPair
  <2>3. wanted \in Nat \ {0}
    BY <2>2
  <2> HIDE DEF wanted
  <2>4. PICK a \in Int, b \in Int : a = wanted /\ b = most /\ a > 0 /\ b > 0
    BY <1>1, <2>3
  <2>5. Min({a, b}) = IF a =< b THEN a ELSE b
    <3>1. \A x, y \in Int : Min({x, y}) = IF x =< y THEN x ELSE y
      BY ONLY MinMaxPair
    <3> QED BY <3>1
  <2>6. lev = Min({a, b})
    BY <2>4
  <2> HIDE DEF lev
  <2> QED BY <2>4, <2>5, <2>6
<1> HIDE DEF size, invest, lev
<1>5. cut \in Nat /\ cut <= size /\ cut * price <= lev * invest
  <2>1. PICK room \in Nat : room = lev * invest
    BY <1>3, <1>4
  <2>2. size * price \in Nat
    BY <1>2
  <2>3. CASE size * price > room
    <3>1. room \div price \in Nat /\ (room \div price) * price <= room
      BY Quotient
    <3>2. cut = room \div price
      BY <2>1, <2>3
    <3>3. cut <= size
      <4>1. SUFFICES ASSUME cut > size PROVE FALSE
        BY <1>2, <3>1, <3>2
      <4>2. size * price <= cut * price
        BY <4>1, <1>2, <3>1, <3>2, Product
      <4> QED BY <2>2, <2>3, <3>1, <3>2, <4>2
    <3> QED BY <2>1, <3>1, <3>2, <3>3
  <2>4. CASE ~(size * price > room)
    BY <1>2, <2>1, <2>2, <2>4
  <2> QED BY <2>3, <2>4
<1>6. cut * dist <= Pct(base, setup.risk)
  <2> HIDE DEF cut
  <2>1. cut * dist <= size * dist /\ cut * dist \in Nat
    BY <1>2, <1>5, Product
  <2>2. Pct(base, setup.risk) \in Int /\ size * dist \in Int
    BY <1>1, <1>2 DEF Pct
  <2> QED BY <1>2, <2>1, <2>2
<1>7. Sized(side, price, stop, dist, risk, base, setup.maxLeverage) =
        [size |-> cut, leverage |-> lev, liquidation |-> Liquidation(side, price, lev, (cut * price) \div lev)]
  BY DEF Sized, ResolveLeverage, size, invest, lev
<1> HIDE DEF cut
<1> QED BY <1>4, <1>5, <1>6, <1>7 DEF invest

-----------------------------------------------------------------------------
(* The entry in the cache is sound.                                        *)

\* PlanIsSound, and what a second sizing starts from.
Sound(e) ==
  /\ e.price \in Nat \ {0} /\ e.stop \in Int
  /\ e.dist = AbsVal(e.price - e.stop) /\ e.dist \in Nat \ {0}
  /\ e.risk \in Nat /\ e.risk <= setup.risk * 10000
  /\ e.size > 0 /\ e.leverage >= 1 /\ e.leverage <= setup.maxLeverage
  /\ e.size * e.dist <= Pct(e.base, setup.risk)
  /\ e.size * e.price <= e.leverage * MaxInvest(e.base)
  /\ Beyond(e.side, e.price, e.stop) /\ Ascending(e.side, e.price, e.tps)
  /\ ~IsStopBeyondLiquidation(e.side, e.stop,
        Liquidation(e.side, e.price, e.leverage, (e.size * e.price) \div e.leverage))

SoundInv == Planned => Sound(entry)

LEMMA MadeSound ==
  ASSUME setup \in Setups, NEW p \in Panels, NEW side \in Sides \cup {NoSide}, NEW patch \in FlatPatches,
         NEW base \in Int, base > 0 => base >= 100, MakeEntry(p, side, base, patch) # NoEntry
  PROVE  Sound(MakeEntry(p, side, base, patch))
<1> DEFINE llm   == setup.mode = "llm"
           price == IF llm THEN patch.entry ELSE EntryPrice(p, side)
           exits == IF llm THEN patch
                    ELSE InitialExits(setup.policy, side, price, p.atr, p.candidates, setup.exits)
           dist  == AbsVal(price - exits.stop)
           risk  == RiskPct(p, side)
           sized == Sized(side, price, exits.stop, dist, risk, base, setup.maxLeverage)
           made  == [side |-> side, price |-> price, stop |-> exits.stop, tps |-> exits.tps, dist |-> dist,
                     risk |-> risk, size |-> sized.size, leverage |-> sized.leverage,
                     base |-> base, ordered |-> FALSE]
<1>1. /\ FlatPatchFits(side, price, exits) /\ risk # 0 /\ base > 0 /\ ~(sized.size <= 0)
      /\ ~IsStopBeyondLiquidation(side, exits.stop, sized.liquidation)
      /\ MakeEntry(p, side, base, patch) = made
  BY DEF MakeEntry, ValidExits
<1>2. price \in Int /\ exits.stop \in Int
  <2>1. patch.entry \in Int /\ patch.stop \in Int
    BY InputsAssumption
  <2>2. price \in Int
    BY <2>1, PriceNumber
  <2>3. CASE llm
    BY <2>1, <2>2, <2>3
  <2>4. CASE ~llm
    <3> HIDE DEF price
    <3> QED BY <2>2, <2>4, ExitsNumbers
  <2> QED BY <2>3, <2>4
<1>3. risk \in Nat /\ risk <= setup.risk * 10000
  BY RiskGranted
<1> HIDE DEF price, exits, risk
<1>4. price > 0 /\ Beyond(side, price, exits.stop) /\ Ascending(side, price, exits.tps)
  BY <1>1 DEF FlatPatchFits
<1>5. dist \in Nat \ {0}
  BY <1>2, <1>4 DEF AbsVal, Beyond
<1>6. /\ sized.size \in Nat /\ sized.leverage \in Nat \ {0} /\ sized.leverage <= setup.maxLeverage
      /\ sized.size * dist <= Pct(base, setup.risk)
      /\ sized.size * price <= sized.leverage * MaxInvest(base)
      /\ sized.liquidation = Liquidation(side, price, sized.leverage, (sized.size * price) \div sized.leverage)
  <2>1. price \in Nat \ {0} /\ base \in Nat /\ base >= 100
    BY <1>1, <1>2, <1>4
  <2> HIDE DEF dist
  <2> QED BY <1>3, <1>5, <2>1, SizeIsBounded
<1> HIDE DEF sized
<1>7. sized.size > 0
  BY <1>1, <1>6
<1>8. ~IsStopBeyondLiquidation(side, exits.stop,
         Liquidation(side, price, sized.leverage, (sized.size * price) \div sized.leverage))
  BY <1>1, <1>6
<1>9. Sound(made)
  <2>1. /\ made.side = side /\ made.price = price /\ made.stop = exits.stop /\ made.tps = exits.tps
        /\ made.dist = dist /\ made.risk = risk /\ made.size = sized.size
        /\ made.leverage = sized.leverage /\ made.base = base
    OBVIOUS
  <2>2. dist = AbsVal(price - exits.stop)
    OBVIOUS
  <2> HIDE DEF made, dist
  <2> QED BY <1>2, <1>3, <1>4, <1>5, <1>6, <1>7, <1>8, <2>1, <2>2 DEF Sound
<1> HIDE DEF made
<1> QED BY <1>1, <1>9

LEMMA ResizedSound ==
  ASSUME IInv, SoundInv, NEW f \in Funds, Trigger(f)
  PROVE  Sound(entry')
<1> DEFINE cap == IF setup.maxLeverage > 0 THEN setup.maxLeverage ELSE entry.leverage
           sized == Sized(entry.side, entry.price, entry.stop, entry.dist, entry.risk, f.available, cap)
<1>1. /\ Planned /\ f.available > 0 /\ sized.size > 0
      /\ ~IsStopBeyondLiquidation(entry.side, entry.stop, sized.liquidation)
      /\ entry' = [entry EXCEPT !.size = sized.size, !.leverage = sized.leverage,
                                !.base = f.available, !.ordered = TRUE]
  BY DEF Trigger
<1>2. Sound(entry) /\ EntryShape(entry) /\ setup \in Setups
  BY <1>1 DEF SoundInv, IInv, NumbersInv
<1>3. cap = setup.maxLeverage
  BY <1>2, SetupsAssumption
<1>4. f.available \in Nat /\ f.available >= 100
  BY <1>1, InputsAssumption
<1>5. PICK price \in Nat \ {0}, dist \in Nat \ {0}, risk \in Nat :
        /\ price = entry.price /\ dist = entry.dist
        /\ risk = entry.risk /\ risk <= setup.risk * 10000
  BY <1>2 DEF Sound
<1>6. sized = Sized(entry.side, price, entry.stop, dist, risk, f.available, setup.maxLeverage)
  BY <1>3, <1>5
<1> HIDE DEF sized
<1>7. /\ sized.size \in Nat /\ sized.leverage \in Nat \ {0} /\ sized.leverage <= setup.maxLeverage
      /\ sized.size * dist <= Pct(f.available, setup.risk)
      /\ sized.size * price <= sized.leverage * MaxInvest(f.available)
      /\ sized.liquidation = Liquidation(entry.side, price, sized.leverage, (sized.size * price) \div sized.leverage)
  BY <1>2, <1>4, <1>5, <1>6, SizeIsBounded
<1>8. /\ entry'.side = entry.side /\ entry'.price = price /\ entry'.stop = entry.stop /\ entry'.tps = entry.tps
      /\ entry'.dist = dist /\ entry'.risk = risk /\ entry'.size = sized.size
      /\ entry'.leverage = sized.leverage /\ entry'.base = f.available
  BY <1>1, <1>2, <1>5 DEF EntryShape
<1>9. ~IsStopBeyondLiquidation(entry.side, entry.stop,
         Liquidation(entry.side, price, sized.leverage, (sized.size * price) \div sized.leverage))
  BY <1>1, <1>5, <1>7
<1>10. entry.stop \in Int /\ dist = AbsVal(price - entry.stop) /\ Beyond(entry.side, price, entry.stop) /\ Ascending(entry.side, price, entry.tps)
  BY <1>2, <1>5 DEF Sound
<1> QED BY <1>1, <1>5, <1>7, <1>8, <1>9, <1>10 DEF Sound

LEMMA SoundKept ==
  ASSUME IInv, SoundInv, [Next]_vars
  PROVE  SoundInv'
<1>1. CASE setup' = setup /\ (entry' = entry \/ entry' = NoEntry)
  <2>1. CASE entry' = NoEntry
    <3>1. ~Planned'
      BY <2>1 DEF Planned, NoEntry, NoSide
    <3> QED BY <3>1 DEF SoundInv
  <2>2. CASE entry' = entry
    <3>1. Planned' <=> Planned
      BY <2>2 DEF Planned, NoEntry, NoSide
    <3>2. Sound(entry)' <=> Sound(entry)
      BY <1>1, <2>2 DEF Sound, MaxInvest, Pct, AbsVal, Beyond, Ascending, IsStopBeyondLiquidation,
                        Liquidation, Toward, Maintenance, Fee
    <3> QED BY <3>1, <3>2 DEF SoundInv
  <2> QED BY <1>1, <2>1, <2>2
<1>2. ASSUME setup' = setup, Sound(entry')
      PROVE  SoundInv'
  <2>1. Sound(entry)'
    BY <1>2 DEF Sound, MaxInvest, Pct, AbsVal, Beyond, Ascending, IsStopBeyondLiquidation,
                Liquidation, Toward, Maintenance, Fee
  <2> QED BY <2>1 DEF SoundInv
<1>3. ASSUME NEW p \in Panels, NEW f \in Funds, NEW patch \in FlatPatches, FlatRound(p, f, patch)
      PROVE  SoundInv'
  <2> DEFINE base == Balance(f)
             side == Direction(p.agents, setup.consensus)
  <2>1. setup' = setup /\ entry' \in {NoEntry, MakeEntry(p, side, base, patch)}
    BY <1>3 DEF FlatRound
  <2>2. base \in Int /\ (base > 0 => base >= 100)
    BY InputsAssumption DEF Balance
  <2>3. side \in Sides \cup {NoSide}
    BY DEF Direction, Sides, NoSide
  <2> HIDE DEF base, side
  <2>4. entry' # NoEntry => Sound(entry')
    BY <2>1, <2>2, <2>3, MadeSound DEF IInv, NumbersInv
  <2> QED BY <1>1, <1>2, <2>1, <2>4
<1>4. ASSUME NEW f \in Funds, Trigger(f)
      PROVE  SoundInv'
  <2>1. setup' = setup
    BY <1>4 DEF Trigger
  <2> QED BY <1>2, <1>4, <2>1, ResizedSound
<1>5. CASE UNCHANGED vars
  BY <1>1, <1>5 DEF vars
<1>6. CASE SkipFlatRound
  BY <1>1, <1>6 DEF SkipFlatRound
<1>7. CASE \E avg \in Prices : Fill(avg)
  BY <1>1, <1>7 DEF Fill
<1>8. CASE \E v \in Views : HoldRound(v)
  BY <1>1, <1>8 DEF HoldRound
<1>9. CASE \E mark \in Prices : RiskTick(mark)
  BY <1>1, <1>9 DEF RiskTick
<1>10. CASE Reopen \/ Gone \/ Restart \/ Drop
  BY <1>1, <1>10 DEF Reopen, Gone, Restart, Drop
<1> QED BY <1>3, <1>4, <1>5, <1>6, <1>7, <1>8, <1>9, <1>10 DEF Next

\* A plan in the cache risks no more of the balance it was sized for than the
\* strategy grants, keeps to its margin and leverage, has its stop before the
\* liquidation and its take-profits in order beyond the entry: for all
\* configurations, prices, answers and balances.
THEOREM PlansAreSound == Spec => []PlanIsSound
<1>1. Init => SoundInv
  BY DEF Init, SoundInv, Planned
<1>2. SoundInv => PlanIsSound
  BY DEF SoundInv, Sound, PlanIsSound
<1>3. IInv /\ SoundInv /\ [Next]_vars => SoundInv'
  BY SoundKept
<1> QED BY <1>1, <1>2, <1>3, Invariant, PTL DEF Spec

-----------------------------------------------------------------------------
\* Whoever moves the stop of a position, in whichever configuration and at
\* whichever prices, moves it to the earning side.
THEOREM StopsOnlyTighten == Spec => StopOnlyTightens
<1>1. IInv /\ [Next]_vars => [Open /\ Open' /\ pos'.id = pos.id =>
        plan'.stop = plan.stop \/ Beyond(pos.side, plan'.stop, plan.stop)]_vars
  BY NextInv DEF StopStep
<1> QED BY <1>1, Invariant, PTL DEF Spec, StopOnlyTightens

\* Once its first take-profit was hit a position cannot lose at its stop, if
\* its fees leave a price to stop at.
THEOREM BreakevenIsKept == Spec => []BreakevenAfterTP1
<1>1. IInv => BreakevenAfterTP1
  BY DEF IInv
<1> QED BY <1>1, Invariant, PTL

\* A position is closed for a reversal only after two rounds over it asked for
\* it with none between that kept it, for any number of positions and restarts.
THEOREM ReversalHasTwoVotes == Spec => ReversalIsConfirmed
<1>1. IInv /\ [Next]_vars =>
        [pos'.status = "closing" /\ pos.status = "open" /\ why' = "reversal" => votes' = 2]_vars
  BY NextInv DEF VoteStep
<1> QED BY <1>1, Invariant, PTL DEF Spec, ReversalIsConfirmed

\* After the exit of a reversal nothing is planned until the cooldown was
\* waited for, for any length of the cooldown and of the close.
THEOREM ReversalIsWaitedFor == Spec => ReversalCoolsDown
<1>1. IInv /\ [Next]_vars => [entry' # entry /\ ~Planned /\ Planned' => waited = CooldownRounds]_vars
  BY NextInv DEF PlanStep
<1> QED BY <1>1, Invariant, PTL DEF Spec, ReversalCoolsDown
=============================================================================
