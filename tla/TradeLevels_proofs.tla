------------------------- MODULE TradeLevels_proofs --------------------------
(***************************************************************************)
(* The take-profit levels of a plan, for all configurations, prices and    *)
(* answers: they stay prices, but for those an LLM proposed for a short,   *)
(* and they are hit in their order where the configuration keeps them in a *)
(* row.                                                                    *)
(***************************************************************************)
EXTENDS TradeDecision_proofs

-----------------------------------------------------------------------------
(* What keeps the levels of a plan as they should be.                      *)

\* The stop is a price, and each level what TypeOK says of it.
Priced(side, p) == p.stop > 0 /\ \A l \in 1 .. Len(p.tps) : LevelOK(side, p.tps[l])

\* HitsInOrder, of a plan.
HitsFirst(p) == \A i, j \in 1 .. Len(p.tps) : i < j /\ p.tps[j].hit => p.tps[i].hit

\* No level that is left lies beyond the next one.
InRow(side, p) ==
  \A i \in 1 .. Len(p.tps) :
    i > 1 /\ ~p.tps[i - 1].hit => ~Beyond(side, p.tps[i - 1].price, p.tps[i].price)

\* A plan has the levels its strategy configures, or those an LLM proposed.
LevelsConfigured(p) == setup.mode # "llm" => Len(p.tps) = Len(setup.exits.rr)

SameLevelHits(p, q) == Len(q.tps) = Len(p.tps) /\ \A l \in 1 .. Len(p.tps) : q.tps[l].hit = p.tps[l].hit

\* q is p moved: the same levels are hit, prices stay prices, the row is kept.
Keeps(side, p, q) ==
  /\ q \in PlanType /\ SameLevelHits(p, q)
  /\ Priced(side, p) => Priced(side, q)
  /\ Priced(side, p) /\ KeepsOrder(setup, side) /\ LevelsConfigured(p) /\ HitsFirst(p) /\ InRow(side, p) =>
       InRow(side, q)

LEMMA LevelTypes ==
  ASSUME NEW p \in PlanType
  PROVE  /\ p.stop \in Int /\ p.tps \in Seq(Level) /\ Len(p.tps) \in Nat /\ DOMAIN p.tps = 1 .. Len(p.tps)
         /\ \A l \in 1 .. Len(p.tps) : p.tps[l] \in Level /\ p.tps[l].price \in Int /\ p.tps[l].hit \in BOOLEAN
<1>1. p.stop \in Int /\ p.tps \in Seq(Level)
  BY DEF PlanType, Level
<1>2. \A l \in 1 .. Len(p.tps) : p.tps[l] \in Level
  BY <1>1
<1> QED BY <1>1, <1>2 DEF Level

LEMMA KeepsAgain ==
  ASSUME NEW side, NEW p, NEW q, NEW r, Keeps(side, p, q), Keeps(side, q, r)
  PROVE  Keeps(side, p, r)
<1>1. SameLevelHits(p, q) /\ SameLevelHits(q, r)
  BY DEF Keeps
<1>2. SameLevelHits(p, r)
  BY <1>1 DEF SameLevelHits
<1>3. (HitsFirst(p) => HitsFirst(q)) /\ (LevelsConfigured(p) => LevelsConfigured(q))
  BY <1>1 DEF SameLevelHits, HitsFirst, LevelsConfigured
<1> QED BY <1>2, <1>3 DEF Keeps

\* A step that moves the stop only.
LEMMA StopMoves ==
  ASSUME NEW side, NEW p \in PlanType, NEW q \in PlanType, q.tps = p.tps, p.stop > 0 => q.stop > 0
  PROVE  Keeps(side, p, q)
BY DEF Keeps, SameLevelHits, Priced, LevelOK, InRow

\* A stop that improves, on the right side of a price, is a price.
LEMMA ImprovedPrice ==
  ASSUME NEW side, NEW prev \in Int, NEW next \in Int, NEW mark \in Int, mark > 0,
         IsStopImproved(side, prev, next, mark)
  PROVE  prev > 0 => next > 0
BY DEF IsStopImproved, Beyond

LEMMA ImprovedKeeps ==
  ASSUME NEW side, NEW p \in PlanType, NEW s \in Int, NEW mark \in Int, mark > 0,
         IsStopImproved(side, p.stop, s, mark)
  PROVE  Keeps(side, p, [p EXCEPT !.stop = s])
<1>1. [p EXCEPT !.stop = s] \in PlanType /\ [p EXCEPT !.stop = s].tps = p.tps /\ [p EXCEPT !.stop = s].stop = s
  BY DEF PlanType
<1>2. p.stop \in Int
  BY LevelTypes
<1> QED BY <1>1, <1>2, StopMoves, ImprovedPrice

LEMMA KeepsItself ==
  ASSUME NEW side, NEW p \in PlanType
  PROVE  Keeps(side, p, p)
BY StopMoves

LEMMA WatermarksKeepLevels ==
  ASSUME NEW side, NEW p \in PlanType, NEW mark \in Int
  PROVE  Keeps(side, p, UpdateWatermarks(p, side, mark))
<1>1. UpdateWatermarks(p, side, mark) \in PlanType
  BY WatermarksKeep DEF Tighter
<1>2. /\ UpdateWatermarks(p, side, mark).tps = p.tps
      /\ UpdateWatermarks(p, side, mark).stop = p.stop
  BY DEF UpdateWatermarks, PlanType
<1> QED BY <1>1, <1>2, StopMoves

LEMMA FloorKeepsLevels ==
  ASSUME NEW side, NEW p \in PlanType, NEW avg \in Int, NEW fee \in Int, NEW mark \in Int, mark > 0
  PROVE  Keeps(side, p, ApplyFloor(p, side, avg, fee, mark))
<1> DEFINE floor == BreakevenStop(side, avg, fee)
<1>1. floor \in Int
  BY NumberTypes DEF BreakevenStop
<1>2. ApplyFloor(p, side, avg, fee, mark) \in {p, [p EXCEPT !.stop = floor]}
  BY DEF ApplyFloor
<1>3. ApplyFloor(p, side, avg, fee, mark) = p \/ IsStopImproved(side, p.stop, floor, mark)
  BY DEF ApplyFloor
<1> HIDE DEF floor
<1> QED BY <1>1, <1>2, <1>3, KeepsItself, ImprovedKeeps

-----------------------------------------------------------------------------
(* The levels a decision moves.                                            *)

LEMMA HeldBackFurther ==
  ASSUME NEW side, NEW price \in Int, NEW limit \in Int
  PROVE  /\ HeldBack(side, price, limit) \in Int
         /\ price > 0 => HeldBack(side, price, limit) > 0
         /\ ~Beyond(side, price, HeldBack(side, price, limit))
         /\ limit > 0 => ~Beyond(side, limit, HeldBack(side, price, limit))
BY DEF HeldBack, Further, Beyond

\* What the tightening is configured with are numbers.
TightenNumbers(x) == x.tpATR \in [1 .. 2 -> Int] /\ x.minDist \in Int /\ x.gap \in Int

\* The one level that moves, and when.
Moves(p, side, avg, atr, i, x) ==
  i \in Remaining(p) /\ x.tpATR[i] > 0 /\ Toward(side, avg, Tenths(atr, x.tpATR[i])) > 0

\* q is p with level i moved.
LevelMoved(p, q, side, avg, atr, i, x) ==
  /\ q \in PlanType /\ q.stop = p.stop /\ SameLevelHits(p, q)
  /\ \A l \in 1 .. Len(p.tps) : l # i => q.tps[l] = p.tps[l]
  /\ ~Moves(p, side, avg, atr, i, x) => q = p
  /\ Moves(p, side, avg, atr, i, x) =>
       /\ i \in 1 .. Len(p.tps)
       /\ q.tps[i].price = TPConstraint(p, side, avg, i, Toward(side, avg, Tenths(atr, x.tpATR[i])), x)

LEMMA LevelAfter ==
  ASSUME NEW side, NEW p \in PlanType, NEW i \in 1 .. 2, NEW avg \in Int, NEW atr \in Int,
         NEW x, TightenNumbers(x)
  PROVE  LevelMoved(p, TightenLevel(p, side, avg, atr, i, x), side, avg, atr, i, x)
<1> DEFINE price == Toward(side, avg, Tenths(atr, x.tpATR[i]))
           c == TPConstraint(p, side, avg, i, price, x)
<1> SUFFICES ASSUME NEW q, q = TightenLevel(p, side, avg, atr, i, x)
             PROVE  LevelMoved(p, q, side, avg, atr, i, x)
  OBVIOUS
<1> USE DEF TightenNumbers
<1>1. CASE ~Moves(p, side, avg, atr, i, x)
  <2>1. q = p
    BY <1>1 DEF TightenLevel, Moves
  <2> QED BY <1>1, <2>1 DEF SameLevelHits, LevelMoved
<1>2. CASE Moves(p, side, avg, atr, i, x)
  <2>1. q = [p EXCEPT !.tps[i].price = c]
    BY <1>2 DEF TightenLevel, Moves
  <2>2. i \in 1 .. Len(p.tps)
    BY <1>2, LevelTypes DEF Moves, Remaining, Unhit
  <2>3. c \in Int
    <3>1. price \in Int /\ Toward(side, avg, Pct(avg, x.minDist)) \in Int /\ Pct(avg, x.gap) \in Int
      BY NumberTypes
    <3>2. i # 1 => p.tps[i - 1].price \in Int
      <4>1. i # 1 => i - 1 \in 1 .. Len(p.tps)
        BY <2>2
      <4> QED BY <4>1, LevelTypes
    <3>3. i # 1 => Toward(side, p.tps[i - 1].price, Pct(avg, x.gap)) \in Int
      BY <3>1, <3>2, NumberTypes
    <3> HIDE DEF price
    <3>4. HeldBack(side, price, Toward(side, avg, Pct(avg, x.minDist))) \in Int
      BY <3>1, HeldBackFurther
    <3> QED BY <3>3, <3>4, HeldBackFurther DEF TPConstraint
  <2> HIDE DEF c
  <2>4. PICK r \in Level : r = [p.tps[i] EXCEPT !.price = c] /\ r.hit = p.tps[i].hit /\ r.price = c
    <3>1. p.tps[i] \in Level
      BY <2>2, LevelTypes
    <3>2. [p.tps[i] EXCEPT !.price = c].price = c
      BY <3>1 DEF Level
    <3> QED BY <2>3, <3>1, <3>2, LevelPriced
  <2> DEFINE tps == [p.tps EXCEPT ![i] = r]
  <2>5. /\ tps \in Seq(Level) /\ Len(tps) = Len(p.tps) /\ tps[i] = r
        /\ \A l \in 1 .. Len(p.tps) : l # i => tps[l] = p.tps[l]
    BY <2>2, LevelSet
  <2>6. q = [p EXCEPT !.tps = tps]
    BY <2>1, <2>4 DEF PlanType
  <2> HIDE DEF tps
  <2>7. q \in PlanType /\ q.stop = p.stop /\ q.tps = tps
    BY <2>5, <2>6 DEF PlanType, Level
  <2>8. SameLevelHits(p, q)
    BY <2>4, <2>5, <2>7 DEF SameLevelHits
  <2> QED BY <1>2, <2>2, <2>4, <2>5, <2>7, <2>8 DEF c, LevelMoved
<1> QED BY <1>1, <1>2

\* c is where the constraints leave level i on its way to price: no nearer than
\* its own limit, and than the distance it keeps from the first level.
Constrained(p, side, avg, i, price, x, c) ==
  LET limit == Toward(side, avg, Pct(avg, x.minDist))
      apart == Toward(side, p.tps[1].price, Pct(avg, x.gap))
  IN /\ c \in Int /\ c > 0
     /\ ~Beyond(side, price, c) /\ (limit > 0 => ~Beyond(side, limit, c))
     /\ i = 1 => c = HeldBack(side, price, limit)
     /\ i = 2 /\ x.gap # 0 /\ apart > 0 => ~Beyond(side, apart, c)

LEMMA ConstraintHolds ==
  ASSUME NEW side, NEW p \in PlanType, NEW i \in 1 .. 2, i \in 1 .. Len(p.tps), NEW avg \in Int,
         NEW price \in Int, price > 0, NEW x, TightenNumbers(x)
  PROVE  Constrained(p, side, avg, i, price, x, TPConstraint(p, side, avg, i, price, x))
<1> DEFINE limit == Toward(side, avg, Pct(avg, x.minDist))
<1> SUFFICES ASSUME NEW c, c = TPConstraint(p, side, avg, i, price, x)
             PROVE  Constrained(p, side, avg, i, price, x, c)
  OBVIOUS
<1>1. limit \in Int /\ Pct(avg, x.gap) \in Int
  <2>1. Pct(avg, x.minDist) \in Int /\ Pct(avg, x.gap) \in Int
    BY NumberTypes DEF TightenNumbers
  <2> QED BY <2>1, NumberTypes
<1>2. PICK apart \in Int :
        /\ apart = HeldBack(side, price, limit) /\ apart > 0
        /\ ~Beyond(side, price, apart) /\ (limit > 0 => ~Beyond(side, limit, apart))
  BY <1>1, HeldBackFurther
<1>3. CASE i = 1 \/ x.gap = 0
  <2>1. c = apart
    BY <1>2, <1>3 DEF TPConstraint
  <2> QED BY <1>1, <1>2, <1>3, <2>1 DEF Constrained
<1>4. CASE i = 2 /\ x.gap # 0
  <2>1. PICK next \in Int : next = Toward(side, p.tps[1].price, Pct(avg, x.gap))
    <3>1. 1 \in 1 .. Len(p.tps)
      BY <1>4, LevelTypes
    <3>2. p.tps[1].price \in Int
      BY <3>1, LevelTypes
    <3> QED BY <1>1, <3>2, NumberTypes
  <2>2. c = HeldBack(side, apart, next)
    <3>1. i - 1 = 1
      BY <1>4
    <3> QED BY <1>2, <1>4, <2>1, <3>1 DEF TPConstraint
  <2>3. /\ c \in Int /\ c > 0 /\ ~Beyond(side, apart, c)
        /\ next > 0 => ~Beyond(side, next, c)
    BY <1>2, <2>1, <2>2, HeldBackFurther
  <2>4. ~Beyond(side, price, c) /\ (limit > 0 => ~Beyond(side, limit, c))
    BY <1>1, <1>2, <2>3 DEF Beyond
  <2> QED BY <1>1, <1>4, <2>1, <2>3, <2>4 DEF Constrained
<1> QED BY <1>3, <1>4

\* The two levels a native strategy moves stay prices, and in a row where the
\* configuration keeps them so.
LEMMA LevelsMoveInRow ==
  ASSUME setup \in Setups, setup.mode # "llm", NEW side \in Sides, NEW p \in PlanType,
         NEW avg \in Prices, NEW atr \in ATRs
  PROVE  Keeps(side, p, TightenTPLevels(p, side, avg, atr, setup.tighten))
<1> DEFINE x == setup.tighten
           p1 == TightenLevel(p, side, avg, atr, 1, x)
           q == TightenLevel(p1, side, avg, atr, 2, x)
           to(i) == Toward(side, avg, Tenths(atr, x.tpATR[i]))
           limit == Toward(side, avg, Pct(avg, x.minDist))
<1>1. /\ TightenNumbers(x) /\ x.minDist \in Int /\ x.gap \in Int
      /\ avg \in Nat \ {0} /\ atr \in Nat /\ avg \in Int /\ atr \in Int
      /\ 1 \in 1 .. 2 /\ 2 \in 1 .. 2
      /\ x.tpATR[1] \in Int /\ x.tpATR[2] \in Int
  <2>1. x.tpATR \in [1 .. 2 -> Int] /\ x.minDist \in Int /\ x.gap \in Int
    BY SetupNumbers
  <2>2. avg \in Nat \ {0} /\ atr \in Nat /\ 1 \in 1 .. 2 /\ 2 \in 1 .. 2
    BY PositiveAssumption
  <2> HIDE DEF x
  <2> QED BY <2>1, <2>2 DEF TightenNumbers
<1>2. LevelMoved(p, p1, side, avg, atr, 1, x)
  BY <1>1, LevelAfter
<1>3. LevelMoved(p1, q, side, avg, atr, 2, x)
  <2>1. p1 \in PlanType
    BY <1>2 DEF LevelMoved
  <2> HIDE DEF p1
  <2> QED BY <1>1, <2>1, LevelAfter
<1>4. to(1) \in Int /\ to(2) \in Int /\ limit \in Int
  <2> HIDE DEF x
  <2>1. Tenths(atr, x.tpATR[1]) \in Int /\ Tenths(atr, x.tpATR[2]) \in Int /\ Pct(avg, x.minDist) \in Int
    BY <1>1, NumberTypes
  <2> QED BY <1>1, <2>1, NumberTypes
<1> HIDE DEF x, p1, q, to, limit
<1>5. Moves(p, side, avg, atr, 1, x) =>
        /\ p1.tps[1].price \in Int /\ p1.tps[1].price > 0
        /\ p1.tps[1].price = HeldBack(side, to(1), limit)
  <2> SUFFICES ASSUME Moves(p, side, avg, atr, 1, x)
               PROVE  Constrained(p, side, avg, 1, to(1), x, p1.tps[1].price)
    BY DEF Constrained, limit
  <2>1. to(1) > 0
    BY DEF Moves, to
  <2>2. 1 \in 1 .. Len(p.tps) /\ p1.tps[1].price = TPConstraint(p, side, avg, 1, to(1), x)
    BY <1>2 DEF LevelMoved, to
  <2> QED BY <1>1, <1>4, <2>1, <2>2, ConstraintHolds
<1>6. Moves(p1, side, avg, atr, 2, x) =>
        /\ q.tps[2].price \in Int /\ q.tps[2].price > 0 /\ ~Beyond(side, to(2), q.tps[2].price)
        /\ limit > 0 => ~Beyond(side, limit, q.tps[2].price)
        /\ x.gap # 0 /\ Toward(side, p1.tps[1].price, Pct(avg, x.gap)) > 0 =>
              ~Beyond(side, Toward(side, p1.tps[1].price, Pct(avg, x.gap)), q.tps[2].price)
  <2> SUFFICES ASSUME Moves(p1, side, avg, atr, 2, x)
               PROVE  Constrained(p1, side, avg, 2, to(2), x, q.tps[2].price)
    BY DEF Constrained, limit
  <2>1. to(2) > 0
    BY DEF Moves, to
  <2>2. p1 \in PlanType /\ 2 \in 1 .. Len(p1.tps) /\ q.tps[2].price = TPConstraint(p1, side, avg, 2, to(2), x)
    BY <1>2, <1>3 DEF LevelMoved, to
  <2> QED BY <1>1, <1>4, <2>1, <2>2, ConstraintHolds
<1>7. SameLevelHits(p, q)
  BY <1>2, <1>3 DEF SameLevelHits, LevelMoved
<1>8. Priced(side, p) => Priced(side, p1)
  BY <1>2, <1>5 DEF Priced, LevelOK, SameLevelHits, LevelMoved
<1>9. Priced(side, p1) => Priced(side, q)
  BY <1>3, <1>6 DEF Priced, LevelOK, SameLevelHits, LevelMoved
<1>10. ASSUME Priced(side, p), KeepsOrder(setup, side), LevelsConfigured(p), HitsFirst(p), InRow(side, p)
       PROVE  InRow(side, q)
  <2>1. CASE x.tpATR[1] <= 0 /\ x.tpATR[2] <= 0
    <3>1. ~Moves(p, side, avg, atr, 1, x) /\ ~Moves(p1, side, avg, atr, 2, x)
      BY <1>1, <2>1 DEF Moves
    <3> QED BY <1>2, <1>3, <1>10, <3>1 DEF LevelMoved
  <2>2. CASE /\ Len(setup.exits.rr) <= 2 /\ x.tpATR[2] > 0
             /\ \/ side = "long" /\ x.gap > 0
                \/ /\ 0 < x.tpATR[1] /\ x.tpATR[1] <= x.tpATR[2]
                   /\ \A a \in ATRs, m \in Prices : Tenths(a, x.tpATR[2]) < m
    <3>1. Len(q.tps) = Len(p.tps) /\ Len(p.tps) <= 2 /\ Len(p.tps) \in Nat
      BY <1>7, <1>10, <2>2, LevelTypes DEF LevelsConfigured, SameLevelHits
    <3>2. SUFFICES ASSUME 2 \in 1 .. Len(q.tps), ~q.tps[1].hit
                   PROVE  ~Beyond(side, q.tps[1].price, q.tps[2].price)
      <4>1. \A i \in 1 .. Len(q.tps) : i > 1 => i = 2 /\ i - 1 = 1
        BY <3>1
      <4> QED BY <3>2, <4>1 DEF InRow
    <3>3. /\ 1 \in 1 .. Len(p.tps) /\ 2 \in 1 .. Len(p.tps) /\ 1 \in 1 .. Len(p1.tps) /\ 2 \in 1 .. Len(p1.tps)
          /\ ~p.tps[1].hit /\ ~p.tps[2].hit /\ ~p1.tps[2].hit /\ q.tps[1] = p1.tps[1]
      <4>1. Len(p1.tps) = Len(p.tps)
        BY <1>2 DEF SameLevelHits, LevelMoved
      <4>2. 1 \in 1 .. Len(p.tps) /\ 2 \in 1 .. Len(p.tps)
        BY <3>1, <3>2
      <4>3. ~p.tps[1].hit
        BY <1>7, <3>2, <4>2 DEF SameLevelHits
      <4>4. ~p.tps[2].hit
        BY <1>10, <4>2, <4>3 DEF HitsFirst
      <4>5. ~p1.tps[2].hit /\ q.tps[1] = p1.tps[1]
        BY <1>2, <1>3, <4>1, <4>2, <4>4 DEF SameLevelHits, LevelMoved
      <4> QED BY <4>1, <4>2, <4>3, <4>4, <4>5
    <3>4. 1 \in Remaining(p) /\ 2 \in Remaining(p1)
      <4>1. p.tps[1].price > 0 /\ p1.tps[2].price > 0
        BY <1>8, <1>10, <3>3 DEF Priced, LevelOK
      <4> QED BY <1>2, <3>3, <4>1, LevelTypes DEF Remaining, Unhit, LevelMoved
    <3>5. PICK first \in Int : first = p1.tps[1].price /\ first > 0
      BY <1>2, <1>8, <1>10, <3>3, LevelTypes DEF Priced, LevelOK, LevelMoved
    <3>6. CASE side = "long" /\ x.gap > 0
      <4>1. to(2) > 0
        <5>1. PICK t \in Nat : t = x.tpATR[2]
          BY <1>1, <2>2
        <5>2. atr * t \in Nat
          BY <1>1, <5>1
        <5>3. Tenths(atr, x.tpATR[2]) \in Nat
          BY <5>1, <5>2 DEF Tenths
        <5> QED BY <1>1, <3>6, <5>3 DEF to, Toward
      <4>2. PICK g \in Nat : g = Pct(avg, x.gap)
        <5>1. PICK t \in Nat : t = x.gap
          BY <1>1, <3>6
        <5>2. avg * t \in Nat
          BY <1>1, <5>1
        <5> QED BY <5>1, <5>2 DEF Pct
      <4>3. Moves(p1, side, avg, atr, 2, x)
        BY <2>2, <3>4, <4>1 DEF Moves, to
      <4>4. Toward(side, first, g) = first + g
        BY <3>6 DEF Toward
      <4>5. ~Beyond(side, first + g, q.tps[2].price) /\ q.tps[2].price \in Int
        BY <1>1, <1>6, <3>5, <3>6, <4>2, <4>3, <4>4
      <4> QED BY <3>3, <3>5, <3>6, <4>5 DEF Beyond
    <3>7. CASE /\ 0 < x.tpATR[1] /\ x.tpATR[1] <= x.tpATR[2]
               /\ \A a \in ATRs, m \in Prices : Tenths(a, x.tpATR[2]) < m
      <4>1. PICK d1 \in Nat, d2 \in Nat : /\ d1 = Tenths(atr, x.tpATR[1]) /\ d2 = Tenths(atr, x.tpATR[2])
                                          /\ d1 <= d2 /\ d2 < avg
        <5>1. PICK t1 \in Nat, t2 \in Nat : t1 = x.tpATR[1] /\ t2 = x.tpATR[2] /\ t1 <= t2
          BY <1>1, <3>7
        <5>2. t1 * atr <= t2 * atr /\ t1 * atr \in Nat /\ t2 * atr \in Nat
          BY <1>1, <5>1, Product
        <5>3. PICK m1 \in Nat, m2 \in Nat : m1 = atr * t1 /\ m2 = atr * t2 /\ m1 <= m2
          BY <1>1, <5>1, <5>2
        <5>4. m1 \div 10 \in Nat /\ m2 \div 10 \in Nat /\ m1 \div 10 <= m2 \div 10
          BY <5>3
        <5>5. Tenths(atr, x.tpATR[2]) < avg
          BY <3>7
        <5> QED BY <5>1, <5>3, <5>4, <5>5 DEF Tenths
      <4>2. to(1) > 0 /\ to(2) > 0 /\ ~Beyond(side, to(1), to(2))
        BY <1>1, <4>1 DEF to, Toward, Beyond
      <4>3. Moves(p, side, avg, atr, 1, x) /\ Moves(p1, side, avg, atr, 2, x)
        BY <2>2, <3>4, <3>7, <4>2 DEF Moves, to
      <4>4. first = HeldBack(side, to(1), limit)
        BY <1>5, <3>5, <4>3
      <4>5. first = to(1) \/ (first = limit /\ limit > 0)
        BY <4>4 DEF HeldBack, Further
      <4>6. /\ q.tps[2].price \in Int /\ ~Beyond(side, to(2), q.tps[2].price)
            /\ limit > 0 => ~Beyond(side, limit, q.tps[2].price)
        BY <1>6, <4>3
      <4>7. ~Beyond(side, first, q.tps[2].price)
        BY <1>4, <3>5, <4>2, <4>5, <4>6 DEF Beyond
      <4> QED BY <3>3, <3>5, <4>7
    <3> QED BY <2>2, <3>6, <3>7
  <2> QED BY <1>10, <2>1, <2>2 DEF KeepsOrder, x
<1>11. Keeps(side, p, q)
  BY <1>3, <1>7, <1>8, <1>9, <1>10 DEF Keeps, LevelMoved
<1> QED BY <1>11 DEF TightenTPLevels, q, p1, x

\* An answer that fits prices what is left of the levels in its order.
LEMMA PatchKeepsLevels ==
  ASSUME NEW side, NEW p \in PlanType, NEW avg \in Int, NEW mark \in Int, mark > 0, NEW patch,
         patch.stop \in Int, patch.tps \in Seq(Int), PatchFits(p, side, avg, mark, patch)
  PROVE  Keeps(side, p, ApplyPatch(p, patch))
<1>1. CASE patch.action = "hold"
  BY <1>1, KeepsItself DEF ApplyPatch
<1>2. CASE patch.action # "hold"
  <2> DEFINE upTo(l) == {k \in Remaining(p) : k <= l}
             pick(l) == Cardinality(upTo(l))
             tp(l) == IF l \in Remaining(p) THEN [p.tps[l] EXCEPT !.price = patch.tps[pick(l)]] ELSE p.tps[l]
             new == [l \in DOMAIN p.tps |-> tp(l)]
  <2>1. /\ Len(patch.tps) = Cardinality(Remaining(p))
        /\ Ascending(side, avg, patch.tps) /\ ArePrices(patch.tps)
        /\ IsStopImproved(side, p.stop, patch.stop, mark)
    BY <1>2 DEF PatchFits
  <2>2. /\ p.tps \in Seq(Level) /\ DOMAIN p.tps = 1 .. Len(p.tps) /\ Len(p.tps) \in Nat
        /\ Remaining(p) = {l \in 1 .. Len(p.tps) : ~p.tps[l].hit /\ p.tps[l].price > 0}
    BY LevelTypes DEF Remaining, Unhit
  <2>3. IsFiniteSet(Remaining(p)) /\ Cardinality(Remaining(p)) \in Nat
    <3>1. IsFiniteSet(1 .. Len(p.tps))
      BY <2>2, FS_Interval
    <3> QED BY <2>2, <3>1, FS_Subset, FS_CardinalityType
  <2>4. ASSUME NEW l \in Remaining(p)
        PROVE  pick(l) \in 1 .. Len(patch.tps) /\ pick(l) \in Nat
    <3>1. l \in upTo(l)
      BY <2>2
    <3>2. IsFiniteSet(upTo(l)) /\ pick(l) <= Cardinality(Remaining(p)) /\ pick(l) \in Nat
      BY <2>3, FS_Subset, FS_CardinalityType
    <3>3. pick(l) # 0
      BY <3>1, <3>2, FS_EmptySet
    <3> QED BY <2>1, <2>3, <3>2, <3>3
  <2>5. ASSUME NEW l \in Remaining(p), l - 1 \in Remaining(p)
        PROVE  pick(l) = pick(l - 1) + 1
    <3>1. upTo(l) = upTo(l - 1) \cup {l} /\ l \notin upTo(l - 1)
      BY <2>2, <2>5
    <3>2. IsFiniteSet(upTo(l - 1))
      BY <2>3, FS_Subset
    <3> HIDE DEF upTo
    <3> QED BY <3>1, <3>2, FS_AddElement
  <2>6. ASSUME NEW l \in Remaining(p)
        PROVE  /\ patch.tps[pick(l)] \in Int /\ patch.tps[pick(l)] > 0
               /\ pick(l) # 1 => Beyond(side, patch.tps[pick(l)], patch.tps[pick(l) - 1])
    <3>1. PICK n \in 1 .. Len(patch.tps) : n = pick(l)
      BY <2>4
    <3>2. DOMAIN patch.tps = 1 .. Len(patch.tps)
      OBVIOUS
    <3> HIDE DEF pick
    <3> QED BY <2>1, <3>1, <3>2 DEF Ascending, ArePrices
  <2> HIDE DEF upTo, pick
  <2>7. ASSUME NEW l \in 1 .. Len(p.tps)
        PROVE  /\ tp(l) \in Level /\ tp(l).hit = p.tps[l].hit
               /\ tp(l).price = IF l \in Remaining(p) THEN patch.tps[pick(l)] ELSE p.tps[l].price
    <3>1. p.tps[l] \in Level
      BY LevelTypes
    <3>2. CASE l \in Remaining(p)
      <4>1. PICK c \in Int : c = patch.tps[pick(l)]
        BY <2>6, <3>2
      <4>2. tp(l) = [p.tps[l] EXCEPT !.price = c]
        BY <3>2, <4>1
      <4>3. [p.tps[l] EXCEPT !.price = c].price = c
        BY <3>1 DEF Level
      <4> QED BY <3>1, <3>2, <4>1, <4>2, <4>3, LevelPriced
    <3>3. CASE l \notin Remaining(p)
      BY <3>1, <3>3
    <3> QED BY <3>2, <3>3
  <2>8. ApplyPatch(p, patch) = [p EXCEPT !.stop = patch.stop, !.tps = new]
    BY <1>2 DEF ApplyPatch, pick, upTo
  <2>9. PICK tps \in Seq(Level) : tps = new
    <3> HIDE DEF tp
    <3>1. new \in Seq(Level)
      BY <2>2, <2>7
    <3> QED BY <3>1
  <2>10. Len(tps) = Len(p.tps) /\ \A l \in 1 .. Len(p.tps) : tps[l] = tp(l)
    <3>1. tps = [l \in 1 .. Len(p.tps) |-> tp(l)]
      BY <2>2, <2>9
    <3> HIDE DEF tp, new
    <3> QED BY <2>2, <3>1
  <2> HIDE DEF tp, new
  <2>11. PICK q \in PlanType : q = ApplyPatch(p, patch) /\ q.tps = tps /\ q.stop = patch.stop
    <3>1. ApplyPatch(p, patch) = [stop |-> patch.stop, tps |-> tps, high |-> p.high, low |-> p.low]
      BY <2>8, <2>9 DEF PlanType
    <3>2. patch.stop \in Int /\ tps \in Seq([price : Int, hit : BOOLEAN]) /\ p.high \in Int /\ p.low \in Int
      BY DEF PlanType, Level
    <3>3. ApplyPatch(p, patch) \in PlanType
      BY <3>1, <3>2 DEF PlanType
    <3> QED BY <3>1, <3>3
  <2>12. SameLevelHits(p, q)
    BY <2>7, <2>10, <2>11 DEF SameLevelHits
  <2>13. Priced(side, p) => Priced(side, q)
    <3>1. p.stop > 0 => q.stop > 0
      BY <2>1, <2>11, LevelTypes, ImprovedPrice
    <3>2. ASSUME NEW l \in 1 .. Len(p.tps), LevelOK(side, p.tps[l])
          PROVE  LevelOK(side, q.tps[l])
      BY <2>6, <2>7, <2>10, <2>11, <3>2 DEF LevelOK
    <3> QED BY <2>10, <2>11, <3>1, <3>2 DEF Priced
  \* A level that is no price, of a short, stays behind all that are one.
  <2>14. Priced(side, p) /\ HitsFirst(p) /\ InRow(side, p) => InRow(side, q)
    <3> SUFFICES ASSUME Priced(side, p), HitsFirst(p), InRow(side, p),
                        NEW i \in 1 .. Len(q.tps), i > 1, ~q.tps[i - 1].hit
                 PROVE  ~Beyond(side, q.tps[i - 1].price, q.tps[i].price)
      BY DEF InRow
    <3>1. i \in 1 .. Len(p.tps) /\ i - 1 \in 1 .. Len(p.tps) /\ i - 1 < i
      BY <2>2, <2>10, <2>11
    <3>2. PICK a \in Int, b \in Int : /\ a = p.tps[i - 1].price /\ b = p.tps[i].price
                                      /\ ~p.tps[i - 1].hit /\ ~p.tps[i].hit /\ ~Beyond(side, a, b)
                                      /\ a > 0 \/ side = "short"
                                      /\ b > 0 \/ side = "short"
      <4>1. ~p.tps[i - 1].hit
        BY <2>12, <3>1 DEF SameLevelHits
      <4>2. ~p.tps[i].hit
        BY <3>1, <4>1 DEF HitsFirst
      <4>3. ~Beyond(side, p.tps[i - 1].price, p.tps[i].price)
        BY <3>1, <4>1 DEF InRow
      <4>4. /\ p.tps[i - 1].price > 0 \/ side = "short"
            /\ p.tps[i].price > 0 \/ side = "short"
        BY <3>1 DEF Priced, LevelOK
      <4> QED BY <3>1, <4>1, <4>2, <4>3, <4>4, LevelTypes
    <3>3. PICK c \in Int, d \in Int :
            /\ c = q.tps[i - 1].price /\ (IF a > 0 THEN c > 0 /\ c = patch.tps[pick(i - 1)] ELSE c = a)
            /\ d = q.tps[i].price /\ (IF b > 0 THEN d > 0 /\ d = patch.tps[pick(i)] ELSE d = b)
      BY <2>2, <2>6, <2>7, <2>10, <2>11, <3>1, <3>2
    <3>4. CASE a > 0 /\ b > 0
      <4>1. i - 1 \in Remaining(p) /\ i \in Remaining(p)
        BY <2>2, <3>1, <3>2, <3>4
      <4>2. pick(i) = pick(i - 1) + 1 /\ pick(i - 1) \in Nat /\ pick(i - 1) # 0
        BY <2>4, <2>5, <4>1
      <4>3. pick(i) # 1 /\ pick(i) - 1 = pick(i - 1)
        BY <4>2
      <4>4. Beyond(side, d, c)
        BY <2>6, <3>3, <3>4, <4>1, <4>3
      <4> QED BY <3>3, <4>4 DEF Beyond
    <3>5. CASE ~(a > 0 /\ b > 0)
      <4>1. side = "short" /\ a >= b /\ ~(b > 0)
        BY <3>2, <3>5 DEF Beyond
      <4>2. c >= d
        BY <3>3, <4>1
      <4> QED BY <3>3, <4>1, <4>2 DEF Beyond
    <3> QED BY <3>4, <3>5
  <2> QED BY <2>11, <2>12, <2>13, <2>14 DEF Keeps
<1> QED BY <1>1, <1>2

-----------------------------------------------------------------------------
(* A round over the position.                                              *)

UpdateKeeps(u) == Keeps(pos.side, plan, u.plan) /\ u.source \in {source, "monitor-tighten"}

LEMMA WrittenKeeps ==
  ASSUME plan \in PlanType, NEW new, Keeps(pos.side, plan, new)
  PROVE  /\ UpdateKeeps(Written(new)) /\ UpdateKeeps(NoUpdate)
         /\ UpdateKeeps([Written(new) EXCEPT !.exitHit = TRUE])
<1>1. Keeps(pos.side, plan, plan)
  BY KeepsItself
<1> QED BY <1>1 DEF UpdateKeeps, Written, NoUpdate

LEMMA UpdateKeepsLevels ==
  ASSUME setup \in Setups, plan \in PlanType, pos.side \in Sides, pos.avg \in Prices,
         NEW v, NEW mark \in Prices, NEW atr \in ATRs, NEW patch \in Patches
  PROVE  UpdateKeeps(TightenUpdate(v, mark, atr, patch))
<1> DEFINE side == pos.side
           floored == ApplyFloor(UpdateWatermarks(plan, side, mark), side, pos.avg, setup.fee, mark)
           wanted == TightenStop(side, Anchor(floored, side), atr, setup.tighten)
           second == TightenStop(side, mark, atr, setup.tighten)
           from   == {s \in IF IsStopCrossed(side, wanted, mark) THEN {wanted, second} ELSE {wanted} :
                        s > 0 /\ IsStopImproved(side, floored.stop, s, mark)}
           moved  == [floored EXCEPT !.stop = CHOOSE s \in from : TRUE]
           exits  == wanted > 0 /\ IsStopCrossed(side, wanted, mark) /\ CriticalExit(v)
           asked  == setup.mode = "llm" /\ Remaining(plan) # {}
           fits   == PatchFits(moved, side, pos.avg, mark, patch)
           levels == TightenTPLevels(moved, side, pos.avg, atr, setup.tighten)
<1>1. mark \in Int /\ mark > 0 /\ atr \in Int /\ pos.avg \in Int
  <2>1. mark \in Nat \ {0} /\ atr \in Nat /\ pos.avg \in Nat \ {0}
    BY PositiveAssumption
  <2> QED BY <2>1
<1>2. Keeps(side, plan, floored) /\ floored \in PlanType
  <2>1. PICK w \in PlanType : w = UpdateWatermarks(plan, side, mark) /\ Keeps(side, plan, w)
    BY <1>1, WatermarksKeepLevels DEF Keeps
  <2>2. Keeps(side, w, ApplyFloor(w, side, pos.avg, setup.fee, mark))
    BY <1>1, SetupNumbers, FloorKeepsLevels
  <2>3. Keeps(side, plan, floored)
    BY <2>1, <2>2, KeepsAgain
  <2> QED BY <2>3 DEF Keeps
<1>3. wanted \in Int /\ second \in Int
  <2>1. Anchor(floored, side) \in Int
    BY <1>2 DEF Anchor, PlanType
  <2> QED BY <1>1, <2>1, SetupNumbers, StopIsNumber
<1>4. ASSUME from # {}
      PROVE  Keeps(side, plan, moved) /\ moved \in PlanType
  <2>1. PICK s \in Int : s = (CHOOSE t \in from : TRUE) /\ IsStopImproved(side, floored.stop, s, mark)
    <3>1. (CHOOSE t \in from : TRUE) \in from
      BY <1>4
    <3>2. \A t \in from : t \in Int /\ IsStopImproved(side, floored.stop, t, mark)
      BY <1>3
    <3> HIDE DEF from
    <3> QED BY <3>1, <3>2
  <2> HIDE DEF from, floored
  <2>2. Keeps(side, floored, moved)
    BY <2>1, <1>1, <1>2, ImprovedKeeps
  <2>3. Keeps(side, plan, moved)
    BY <1>2, <2>2, KeepsAgain
  <2> QED BY <2>3 DEF Keeps
<1>5. CASE from = {} /\ exits
  <2>1. TightenUpdate(v, mark, atr, patch) = [Written(floored) EXCEPT !.exitHit = TRUE]
    BY <1>5 DEF TightenUpdate
  <2> HIDE DEF floored
  <2> QED BY <2>1, <1>2, WrittenKeeps
<1>6. CASE from = {} /\ ~exits
  <2>1. TightenUpdate(v, mark, atr, patch) = Written(floored)
    BY <1>6 DEF TightenUpdate
  <2> HIDE DEF floored
  <2> QED BY <2>1, <1>2, WrittenKeeps
<1>7. CASE from # {} /\ asked
  <2>1. TightenUpdate(v, mark, atr, patch) = IF fits THEN Written(ApplyPatch(moved, patch)) ELSE NoUpdate
    BY <1>7 DEF TightenUpdate
  <2>2. patch.stop \in Int /\ patch.tps \in Seq(Int)
    BY InputsAssumption
  <2>3. Keeps(side, plan, moved) /\ moved \in PlanType
    BY <1>4, <1>7
  <2> HIDE DEF moved
  <2>4. fits => Keeps(side, moved, ApplyPatch(moved, patch))
    BY <1>1, <2>2, <2>3, PatchKeepsLevels
  <2>5. fits => Keeps(side, plan, ApplyPatch(moved, patch))
    BY <2>3, <2>4, KeepsAgain
  <2>6. UpdateKeeps(NoUpdate)
    BY <2>3, WrittenKeeps
  <2>7. fits => UpdateKeeps(Written(ApplyPatch(moved, patch)))
    BY <2>5, WrittenKeeps
  <2> QED BY <2>1, <2>6, <2>7
<1>8. CASE from # {} /\ ~asked
  <2>1. TightenUpdate(v, mark, atr, patch) = Written(IF setup.mode = "llm" THEN moved ELSE levels)
    BY <1>8 DEF TightenUpdate
  <2>2. Keeps(side, plan, moved) /\ moved \in PlanType
    BY <1>4, <1>8
  <2> HIDE DEF moved
  <2>3. setup.mode # "llm" => Keeps(side, moved, levels)
    BY <2>2, LevelsMoveInRow
  <2>4. setup.mode # "llm" => Keeps(side, plan, levels)
    BY <2>2, <2>3, KeepsAgain
  <2> HIDE DEF levels
  <2> QED BY <2>1, <2>2, <2>4, WrittenKeeps
<1> HIDE DEF from, exits, asked
<1> QED BY <1>5, <1>6, <1>7, <1>8

LEMMA RoundKeepsLevels ==
  ASSUME setup \in Setups, plan \in PlanType, pos.side \in Sides, pos.avg \in Prices, NEW v, HoldRound(v)
  PROVE  /\ Keeps(pos.side, plan, plan') /\ source' \in {source, "monitor-tighten"}
         /\ why' \in {why, "reversal", "guard"}
<1> DEFINE fused(guard) == MonitorFusion(guard, v, confirm[Key(pos.id)])
           count(guard, u) == IF u.exitHit THEN Min({2, fused(guard).count + 1}) ELSE fused(guard).count
           action(guard, u) == IF u.exitHit THEN IF count(guard, u) < 2 THEN "TIGHTEN" ELSE "EXIT" ELSE fused(guard).action
           reason(guard, u) == IF u.exitHit /\ count(guard, u) = 2 THEN "REVERSAL_CONFIRMED" ELSE fused(guard).reason
           closes(guard, u, done) == FSMAction(State, action(guard, u), FALSE) = "close" /\ done
           arms(guard, u, done) == closes(guard, u, done) /\ v.judged /\ reason(guard, u) = "REVERSAL_CONFIRMED"
           after(guard, u) == IF u.exitHit \/ (guard = "OK" /\ ExitVote(v)) THEN Min({2, votes + 1})
                       ELSE IF guard # "OK" \/ Tagged(v, "exit") \/ Tagged(v, "tighten") THEN votes ELSE 0
<1>1. PICK guard \in {HardGuard(setup.guard, pos.side, m, plan.stop, v) : m \in Prices},
           done \in CloseOutcomes :
        \E u \in Updates(fused(guard).action, v) :
        /\ plan' = u.plan /\ source' = u.source
        /\ confirm' = [confirm EXCEPT ![Key(pos.id)] = count(guard, u)]
        /\ votes' = after(guard, u)
        /\ pos' = [pos EXCEPT !.status = IF closes(guard, u, done) THEN "closing" ELSE @]
        /\ cooldown' = (IF arms(guard, u, done) THEN CooldownRounds ELSE cooldown)
        /\ waited' = (IF arms(guard, u, done) THEN 0 ELSE waited)
        /\ why' = (IF ~closes(guard, u, done) THEN why
                   ELSE IF reason(guard, u) = "REVERSAL_CONFIRMED" THEN "reversal" ELSE "guard")
  BY Zenon DEF HoldRound
<1>2. PICK u \in Updates(fused(guard).action, v) :
        /\ plan' = u.plan /\ source' = u.source
        /\ why' = (IF ~closes(guard, u, done) THEN why
                   ELSE IF reason(guard, u) = "REVERSAL_CONFIRMED" THEN "reversal" ELSE "guard")
  <2> HIDE DEF fused, count, after, closes, arms, reason
  <2> QED BY <1>1
<1> HIDE DEF fused, closes, reason
<1>3. UpdateKeeps(u)
  <2>1. u = NoUpdate \/ \E m \in Prices, a \in ATRs \ {0}, patch \in Patches : u = TightenUpdate(v, m, a, patch)
    BY <1>2 DEF Updates
  <2>2. UpdateKeeps(NoUpdate)
    BY KeepsItself, WrittenKeeps
  <2>3. \A m \in Prices, a \in ATRs \ {0}, patch \in Patches : UpdateKeeps(TightenUpdate(v, m, a, patch))
    BY UpdateKeepsLevels
  <2> QED BY <2>1, <2>2, <2>3
<1> QED BY <1>2, <1>3 DEF UpdateKeeps

-----------------------------------------------------------------------------
(* The risk monitor takes a level.                                         *)

\* It is the first of those the price has reached.
LEMMA TakenLevel ==
  ASSUME NEW p \in PlanType, NEW side, NEW mark, NEW hit, hit = EvaluateRisk(p, side, mark),
         hit.type = "TAKE_PROFIT"
  PROVE  /\ hit.level \in 1 .. Len(p.tps) /\ ~Beyond(side, p.tps[hit.level].price, mark)
         /\ \A k \in 1 .. Len(p.tps) :
              k < hit.level => p.tps[k].hit \/ Beyond(side, p.tps[k].price, mark)
<1> DEFINE touched == TouchedTPs(p, side, mark)
<1>1. /\ touched = {l \in 1 .. Len(p.tps) : ~p.tps[l].hit /\ ~Beyond(side, p.tps[l].price, mark)}
      /\ Len(p.tps) \in Nat
  BY LevelTypes DEF TouchedTPs, Unhit
<1>2. touched # {} /\ hit.level = Min(touched)
  <2>1. CASE HitStop(p, side, mark)
    <3>1. hit.type = "STOP_LOSS"
      BY <2>1 DEF EvaluateRisk
    <3> QED BY <3>1
  <2>2. CASE ~HitStop(p, side, mark) /\ touched # {}
    BY <2>2 DEF EvaluateRisk
  <2>3. CASE ~HitStop(p, side, mark) /\ touched = {}
    <3>1. hit.type = "none"
      BY <2>3 DEF EvaluateRisk
    <3> QED BY <3>1
  <2> QED BY <2>1, <2>2, <2>3
<1>3. IsFiniteSet(touched) /\ touched \in SUBSET Int
  <2>1. IsFiniteSet(1 .. Len(p.tps))
    BY <1>1, FS_Interval
  <2> QED BY <1>1, <2>1, FS_Subset
<1> HIDE DEF touched
<1>4. hit.level \in touched /\ \A k \in touched : hit.level =< k
  BY <1>2, <1>3, MinMax
<1> QED BY <1>1, <1>4

LEMMA MarkedLevel ==
  ASSUME NEW p \in PlanType, NEW l \in 1 .. Len(p.tps), NEW q, q = MarkTPLevelHit(p, l)
  PROVE  /\ q \in PlanType /\ q.stop = p.stop /\ Len(q.tps) = Len(p.tps)
         /\ \A k \in 1 .. Len(p.tps) :
              q.tps[k].price = p.tps[k].price /\ (q.tps[k].hit <=> (p.tps[k].hit \/ k = l))
<1>1. p.tps[l] \in Level
  BY LevelTypes
<1>2. PICK r \in Level : r = [p.tps[l] EXCEPT !.hit = TRUE] /\ r.hit /\ r.price = p.tps[l].price
  <2>1. PICK a \in Level : a = p.tps[l]
    BY <1>1
  <2>2. [a EXCEPT !.hit = TRUE] \in Level /\ [a EXCEPT !.hit = TRUE].hit /\ [a EXCEPT !.hit = TRUE].price = a.price
    BY DEF Level
  <2> QED BY <2>1, <2>2
<1>3. PICK tps \in Seq(Level) :
        /\ tps = [p.tps EXCEPT ![l] = r] /\ Len(tps) = Len(p.tps) /\ tps[l] = r
        /\ \A k \in 1 .. Len(p.tps) : k # l => tps[k] = p.tps[k]
  <2>1. /\ [p.tps EXCEPT ![l] = r] \in Seq(Level)
        /\ Len([p.tps EXCEPT ![l] = r]) = Len(p.tps)
        /\ [p.tps EXCEPT ![l] = r][l] = r
        /\ \A k \in 1 .. Len(p.tps) : k # l => [p.tps EXCEPT ![l] = r][k] = p.tps[k]
    BY LevelSet
  <2> QED BY <2>1
<1>4. q = [p EXCEPT !.tps = tps]
  BY <1>2, <1>3 DEF MarkTPLevelHit, PlanType
<1>5. q \in PlanType /\ q.stop = p.stop /\ q.tps = tps
  BY <1>4 DEF PlanType, Level
<1> QED BY <1>2, <1>3, <1>5, LevelTypes

LEMMA TickKeepsLevels ==
  ASSUME setup \in Setups, plan \in PlanType, pos.avg \in Int, NEW mark \in Prices, RiskTick(mark)
  PROVE  /\ Len(plan'.tps) = Len(plan.tps) /\ (Priced(pos.side, plan) => Priced(pos.side, plan'))
         /\ HitsFirst(plan) /\ InRow(pos.side, plan) => HitsFirst(plan') /\ InRow(pos.side, plan')
         /\ source' \in {source, "risk-tp-hit"} /\ why' \in {why, "price"}
<1> DEFINE hit == EvaluateRisk(plan, pos.side, mark)
           floor == BreakevenStop(pos.side, pos.avg, setup.fee)
<1>1. source' \in {source, "risk-tp-hit"} /\ why' \in {why, "price"}
  BY DEF RiskTick
<1>2. CASE plan' = plan
  BY <1>1, <1>2
<1>3. CASE plan' # plan
  <2>1. hit.type = "TAKE_PROFIT" /\ plan' = ApplyTP1Breakeven(MarkTPLevelHit(plan, hit.level), pos.side, pos.avg, setup.fee)
    BY <1>3 DEF RiskTick
  <2>2. /\ hit.level \in 1 .. Len(plan.tps) /\ ~Beyond(pos.side, plan.tps[hit.level].price, mark)
        /\ \A k \in 1 .. Len(plan.tps) :
             k < hit.level => plan.tps[k].hit \/ Beyond(pos.side, plan.tps[k].price, mark)
    BY <2>1, TakenLevel
  <2>3. PICK l \in 1 .. Len(plan.tps) :
          /\ l = hit.level /\ ~Beyond(pos.side, plan.tps[l].price, mark)
          /\ \A k \in 1 .. Len(plan.tps) : k < l => plan.tps[k].hit \/ Beyond(pos.side, plan.tps[k].price, mark)
    BY <2>2
  <2> HIDE DEF hit
  <2>4. PICK q \in PlanType :
          /\ q = MarkTPLevelHit(plan, l) /\ q.stop = plan.stop /\ Len(q.tps) = Len(plan.tps)
          /\ \A k \in 1 .. Len(plan.tps) :
              q.tps[k].price = plan.tps[k].price /\ (q.tps[k].hit <=> (plan.tps[k].hit \/ k = l))
    BY MarkedLevel
  <2>5. plan'.tps = q.tps /\ (plan'.stop = q.stop \/ plan'.stop > 0)
    <3>1. plan' = IF TP1Hit(q) /\ floor > 0 /\ Beyond(pos.side, floor, q.stop) THEN [q EXCEPT !.stop = floor] ELSE q
      BY <2>1, <2>3, <2>4 DEF ApplyTP1Breakeven
    <3>2. [q EXCEPT !.stop = floor].tps = q.tps /\ [q EXCEPT !.stop = floor].stop = floor
      BY DEF PlanType
    <3> HIDE DEF floor
    <3> QED BY <3>1, <3>2
  \* The market quotes prices: a level it has reached is one, for a short.
  <2>6. Priced(pos.side, plan) => Priced(pos.side, plan')
    <3> SUFFICES ASSUME Priced(pos.side, plan) PROVE Priced(pos.side, plan')
      OBVIOUS
    <3>1. plan.tps[l].price > 0
      <4>1. PICK a \in Int, m \in Nat \ {0} : a = plan.tps[l].price /\ m = mark
        BY LevelTypes, PositiveAssumption
      <4>2. a > 0 \/ pos.side = "short"
        BY <4>1 DEF Priced, LevelOK
      <4>3. ~Beyond(pos.side, a, m)
        BY <2>3, <4>1
      <4> QED BY <4>1, <4>2, <4>3 DEF Beyond
    <3>2. ASSUME NEW k \in 1 .. Len(plan.tps) PROVE LevelOK(pos.side, q.tps[k])
      <4>1. LevelOK(pos.side, plan.tps[k])
        BY DEF Priced
      <4>2. q.tps[k].price = plan.tps[k].price /\ (q.tps[k].hit <=> (plan.tps[k].hit \/ k = l))
        BY <2>4
      <4> QED BY <3>1, <4>1, <4>2 DEF LevelOK
    <3>3. plan.stop > 0
      BY DEF Priced
    <3> QED BY <2>4, <2>5, <3>2, <3>3 DEF Priced
  <2>7. ASSUME HitsFirst(plan), InRow(pos.side, plan)
        PROVE  HitsFirst(plan') /\ InRow(pos.side, plan')
    <3>1. l > 1 => plan.tps[l - 1].hit
      <4> SUFFICES ASSUME l > 1, ~plan.tps[l - 1].hit PROVE FALSE
        OBVIOUS
      <4>1. l - 1 \in 1 .. Len(plan.tps) /\ l - 1 < l
        BY LevelTypes
      <4>2. PICK a \in Int, b \in Int, m \in Int :
              a = plan.tps[l - 1].price /\ b = plan.tps[l].price /\ m = mark
        <5>1. mark \in Int
          BY PositiveAssumption
        <5>2. plan.tps[l - 1].price \in Int /\ plan.tps[l].price \in Int
          BY <4>1, LevelTypes
        <5> QED BY <5>1, <5>2
      <4>3. ~Beyond(pos.side, a, b)
        BY <2>7, <4>2 DEF InRow
      <4>4. ~Beyond(pos.side, b, m) /\ Beyond(pos.side, a, m)
        BY <2>3, <4>1, <4>2
      <4> QED BY <4>3, <4>4 DEF Beyond
    <3>2. \A i \in 1 .. Len(plan.tps) : i < l => plan.tps[i].hit
      <4> SUFFICES ASSUME NEW i \in 1 .. Len(plan.tps), i < l PROVE plan.tps[i].hit
        OBVIOUS
      <4>1. l > 1 /\ l - 1 \in 1 .. Len(plan.tps)
        BY LevelTypes
      <4>2. i = l - 1 \/ i < l - 1
        BY LevelTypes
      <4> QED BY <2>7, <3>1, <4>1, <4>2 DEF HitsFirst
    <3>3. HitsFirst(plan')
      BY <2>4, <2>5, <2>7, <3>2 DEF HitsFirst
    <3>4. InRow(pos.side, plan')
      <4> SUFFICES ASSUME NEW i \in 1 .. Len(plan.tps), i > 1, ~q.tps[i - 1].hit
                   PROVE  ~Beyond(pos.side, q.tps[i - 1].price, q.tps[i].price)
        BY <2>4, <2>5 DEF InRow
      <4>1. i - 1 \in 1 .. Len(plan.tps)
        BY LevelTypes
      <4>2. /\ ~plan.tps[i - 1].hit /\ q.tps[i - 1].price = plan.tps[i - 1].price
            /\ q.tps[i].price = plan.tps[i].price
        BY <2>4, <4>1
      <4> QED BY <2>7, <4>2 DEF InRow
    <3> QED BY <3>3, <3>4
  <2> QED BY <1>1, <2>4, <2>5, <2>6, <2>7
<1> QED BY <1>2, <1>3

-----------------------------------------------------------------------------
(* The levels of an entry, and of the position it opens.                   *)

LEMMA AllowedSide ==
  ASSUME NEW a, NEW c, NEW p, NEW g, EvaluateGate(a, c, p, g) = "ALLOW"
  PROVE  Direction(a, c) \in Sides
<1>1. Direction(a, c) # "none"
  <2> SUFFICES ASSUME Direction(a, c) = "none" PROVE FALSE
    OBVIOUS
  <2>1. EvaluateGate(a, c, p, g) = "DIRECTION_UNCLEAR"
    BY DEF EvaluateGate
  <2> QED BY <2>1
<1>2. Direction(a, c) \in {"none", "long", "short"}
  BY DEF Direction
<1> QED BY <1>1, <1>2 DEF Sides

\* The levels of an entry: a native strategy's are those it configures, and
\* prices; of the others only those of a short may be none.
EntryLevels(e) ==
  /\ e.side \in Sides /\ e.ordered \in BOOLEAN /\ e.stop > 0
  /\ setup.mode # "llm" => Len(e.tps) = Len(setup.exits.rr)
  /\ \A i \in 1 .. Len(e.tps) : e.tps[i] > 0 \/ (setup.mode = "llm" /\ e.side = "short")

\* The take-profits of a long rise from its entry.
LEMMA LongRises ==
  ASSUME NEW from \in Int, NEW prices \in Seq(Int), Ascending("long", from, prices)
  PROVE  \A i \in 1 .. Len(prices) : prices[i] > from
<1> DEFINE low == {i \in 1 .. Len(prices) : ~(prices[i] > from)}
<1>1. SUFFICES ASSUME low # {} PROVE FALSE
  OBVIOUS
<1>2. Len(prices) \in Nat /\ DOMAIN prices = 1 .. Len(prices) /\ \A i \in 1 .. Len(prices) : prices[i] \in Int
  OBVIOUS
<1>3. low \in SUBSET Int /\ IsFiniteSet(low)
  <2>1. IsFiniteSet(1 .. Len(prices))
    BY <1>2, FS_Interval
  <2> QED BY <1>2, <2>1, FS_Subset
<1>4. PICK i \in low : \A k \in low : i =< k
  <2> HIDE DEF low
  <2> QED BY <1>1, <1>3, FiniteExtrema
<1>5. i \in 1 .. Len(prices) /\ Beyond("long", prices[i], IF i = 1 THEN from ELSE prices[i - 1])
  BY <1>2 DEF Ascending
<1>6. CASE i = 1
  BY <1>2, <1>4, <1>5, <1>6 DEF Beyond
<1>7. CASE i # 1
  <2>1. i - 1 \in 1 .. Len(prices) /\ ~(i =< i - 1)
    BY <1>2, <1>5, <1>7
  <2>2. prices[i - 1] > from
    BY <1>4, <2>1
  <2>3. PICK a \in Int, b \in Int : a = prices[i - 1] /\ b = prices[i] /\ b > a
    BY <1>2, <1>5, <1>7, <2>1 DEF Beyond
  <2> QED BY <1>4, <2>2, <2>3
<1> QED BY <1>6, <1>7

LEMMA MadeLevels ==
  ASSUME setup \in Setups, NEW p \in Panels, NEW side \in Sides, NEW base, NEW patch \in FlatPatches,
         MakeEntry(p, side, base, patch) # NoEntry
  PROVE  EntryLevels(MakeEntry(p, side, base, patch))
<1> DEFINE llm   == setup.mode = "llm"
           price == IF llm THEN patch.entry ELSE EntryPrice(p, side)
           exits == IF llm THEN patch
                    ELSE InitialExits(setup.policy, side, price, p.atr, p.candidates, setup.exits)
<1>1. FlatPatchFits(side, price, exits) /\ (llm \/ ArePrices(exits.tps)) /\
      \E dist, risk, sized :
        MakeEntry(p, side, base, patch) =
          [side |-> side, price |-> price, stop |-> exits.stop, tps |-> exits.tps, dist |-> dist,
           risk |-> risk, size |-> sized.size, leverage |-> sized.leverage,
           base |-> base, ordered |-> FALSE]
  BY DEF MakeEntry, ValidExits
<1>2. exits.tps \in Seq(Int) /\ price \in Int
  <2>1. price \in Int
    BY PriceNumber, InputsAssumption
  <2>2. llm => exits.tps \in Seq(Int)
    BY InputsAssumption
  <2>3. ~llm => exits.tps \in Seq(Int)
    <3> HIDE DEF price
    <3> QED BY <2>1, ExitsNumbers
  <2> QED BY <2>1, <2>2, <2>3
<1>3. ~llm => Len(exits.tps) = Len(setup.exits.rr)
  <2> SUFFICES ASSUME ~llm PROVE Len(exits.tps) = Len(setup.exits.rr)
    OBVIOUS
  <2>1. setup.exits.rr \in Seq(Int)
    BY SetupNumbers
  <2>2. DOMAIN exits.tps = DOMAIN setup.exits.rr
    <3> HIDE DEF price
    <3> QED BY DEF InitialExits
  <2> HIDE DEF exits
  <2> QED BY <1>2, <2>1, <2>2
<1> HIDE DEF price, exits
<1>4. exits.stop > 0 /\ price > 0 /\ Ascending(side, price, exits.tps)
  BY <1>1 DEF FlatPatchFits
<1>5. ASSUME NEW i \in 1 .. Len(exits.tps)
      PROVE  exits.tps[i] > 0 \/ (llm /\ side = "short")
  <2>1. CASE llm /\ side = "long"
    <3>1. exits.tps[i] > price /\ exits.tps[i] \in Int
      BY <1>2, <1>4, <2>1, LongRises
    <3> QED BY <1>2, <1>4, <3>1
  <2>2. CASE ~llm
    <3>1. i \in DOMAIN exits.tps
      BY <1>2
    <3> QED BY <1>1, <2>2, <3>1 DEF ArePrices
  <2> QED BY <2>1, <2>2 DEF Sides
<1> QED BY <1>1, <1>3, <1>4, <1>5 DEF EntryLevels

\* The plan of a position.
PlanLevels(side, avg, p) ==
  /\ side \in Sides /\ avg \in Prices /\ Priced(side, p) /\ LevelsConfigured(p)
  /\ KeepsOrder(setup, side) => HitsFirst(p) /\ InRow(side, p)

LEMMA FilledLevels ==
  ASSUME NEW e, e.price \in Nat \ {0}, e.stop \in Int, e.tps \in Seq(Int),
         Ascending(e.side, e.price, e.tps), EntryLevels(e), NEW avg \in Prices
  PROVE  PlanLevels(e.side, avg, BuildRiskPlan(e.price, e.stop, e.tps))
<1> DEFINE p == BuildRiskPlan(e.price, e.stop, e.tps)
<1>1. /\ p.stop = e.stop /\ Len(p.tps) = Len(e.tps) /\ Len(e.tps) \in Nat
      /\ \A i \in 1 .. Len(e.tps) : p.tps[i].price = e.tps[i] /\ p.tps[i].hit = FALSE
  <2>1. p.tps = [i \in 1 .. Len(e.tps) |-> [price |-> e.tps[i], hit |-> FALSE]] /\ p.stop = e.stop
    BY DEF BuildRiskPlan
  <2>2. p.tps \in Seq([price : Int, hit : BOOLEAN])
    BY <2>1
  <2> HIDE DEF p
  <2> QED BY <2>1, <2>2
<1> HIDE DEF p
<1>2. /\ \A i \in 1 .. Len(e.tps) : e.tps[i] \in Int
      /\ \A i \in 1 .. Len(e.tps) : i > 1 => Beyond(e.side, e.tps[i], e.tps[i - 1])
  <2>1. DOMAIN e.tps = 1 .. Len(e.tps) /\ \A i \in 1 .. Len(e.tps) : e.tps[i] \in Int
    OBVIOUS
  <2>2. \A i \in 1 .. Len(e.tps) : i > 1 => i # 1
    BY <1>1
  <2> QED BY <2>1, <2>2 DEF Ascending
<1>3. Priced(e.side, p)
  BY <1>1, <1>2 DEF Priced, LevelOK, EntryLevels
<1>4. LevelsConfigured(p)
  BY <1>1 DEF LevelsConfigured, EntryLevels
<1>5. HitsFirst(p)
  BY <1>1 DEF HitsFirst
<1>6. InRow(e.side, p)
  <2> SUFFICES ASSUME NEW i \in 1 .. Len(e.tps), i > 1
               PROVE  ~Beyond(e.side, p.tps[i - 1].price, p.tps[i].price)
    BY <1>1 DEF InRow
  <2>1. i - 1 \in 1 .. Len(e.tps)
    BY <1>1
  <2>2. PICK a \in Int, b \in Int : a = e.tps[i - 1] /\ b = e.tps[i] /\ Beyond(e.side, b, a)
    BY <1>2, <2>1
  <2>3. p.tps[i - 1].price = a /\ p.tps[i].price = b
    BY <1>1, <2>1, <2>2
  <2> QED BY <2>2, <2>3 DEF Beyond
<1> QED BY <1>3, <1>4, <1>5, <1>6 DEF PlanLevels, EntryLevels, p

-----------------------------------------------------------------------------
(* The invariant: with IInv and SoundInv it is inductive.                  *)

LevelsInv ==
  /\ source \in {"none", "open", "monitor-tighten", "risk-tp-hit"}
  /\ why \in {"none", "guard", "reversal", "price"}
  /\ Planned => EntryLevels(entry)
  /\ IF Open THEN PlanLevels(pos.side, pos.avg, plan) ELSE plan = NoPlan

LEMMA InitLevels == Init => LevelsInv
BY DEF Init, LevelsInv, Planned, Open

\* A step that leaves the position and its plan alone.
LEMMA LevelsStay ==
  ASSUME IInv, LevelsInv, UNCHANGED <<setup, plan, source, why>>,
         pos'.side = pos.side, pos'.avg = pos.avg, Open' <=> Open,
         entry' = entry \/ entry' = NoEntry \/ EntryLevels(entry')
  PROVE  LevelsInv'
<1>1. Planned' => EntryLevels(entry)'
  BY DEF LevelsInv, Planned, NoEntry, NoSide, EntryLevels
<1>2. Open => PlanLevels(pos.side, pos.avg, plan)'
  BY DEF LevelsInv, PlanLevels, Priced, LevelOK, LevelsConfigured, HitsFirst, InRow, KeepsOrder, Beyond, Tenths
<1>3. ~Open => plan' = NoPlan /\ NoPlan' = NoPlan
  BY DEF LevelsInv, NoPlan
<1> QED BY <1>1, <1>2, <1>3 DEF LevelsInv

\* A step that moves the plan of the position.
LEMMA LevelsMoved ==
  ASSUME IInv, LevelsInv, Open, Open', UNCHANGED <<setup, entry>>,
         pos'.side = pos.side, pos'.avg = pos.avg,
         source' \in {"none", "open", "monitor-tighten", "risk-tp-hit"},
         why' \in {"none", "guard", "reversal", "price"},
         Len(plan'.tps) = Len(plan.tps), Priced(pos.side, plan'),
         KeepsOrder(setup, pos.side) => HitsFirst(plan') /\ InRow(pos.side, plan')
  PROVE  LevelsInv'
<1>1. Planned' => EntryLevels(entry)'
  BY DEF LevelsInv, Planned, NoEntry, NoSide, EntryLevels
<1>2. PlanLevels(pos.side, pos.avg, plan)'
  <2>1. pos'.side \in Sides /\ pos'.avg \in Prices
    BY DEF LevelsInv, PlanLevels
  <2>2. Priced(pos.side, plan)' /\ LevelsConfigured(plan)'
    BY DEF LevelsInv, PlanLevels, Priced, LevelOK, LevelsConfigured
  <2>3. KeepsOrder(setup, pos.side)' <=> KeepsOrder(setup, pos.side)
    BY DEF KeepsOrder, Tenths
  <2>4. KeepsOrder(setup, pos.side)' => HitsFirst(plan)' /\ InRow(pos.side, plan)'
    BY <2>3 DEF HitsFirst, InRow, Beyond
  <2> QED BY <2>1, <2>2, <2>4 DEF PlanLevels
<1> QED BY <1>1, <1>2 DEF LevelsInv

LEMMA NextLevels ==
  ASSUME IInv, SoundInv, LevelsInv, [Next]_vars
  PROVE  LevelsInv'
<1> USE DEF IInv
<1>1. ASSUME NEW p \in Panels, NEW f \in Funds, NEW patch \in FlatPatches, FlatRound(p, f, patch)
      PROVE  LevelsInv'
  <2> DEFINE base == Balance(f)
             side == Direction(p.agents, setup.consensus)
             allowed == EvaluateGate(p.agents, setup.consensus, p.answers, setup.gate) = "ALLOW"
  <2>1. /\ UNCHANGED <<setup, plan, source, why, pos>>
        /\ entry' = NoEntry \/ (allowed /\ entry' = MakeEntry(p, side, base, patch))
    BY <1>1 DEF FlatRound, history
  <2>2. allowed => side \in Sides
    BY AllowedSide
  <2> HIDE DEF base, side, allowed
  <2>3. entry' = NoEntry \/ EntryLevels(entry')
    BY <2>1, <2>2, MadeLevels DEF NumbersInv
  <2> QED BY <2>1, <2>3, LevelsStay DEF Open
<1>2. ASSUME NEW f \in Funds, Trigger(f)
      PROVE  LevelsInv'
  <2>1. /\ UNCHANGED <<setup, plan, source, why, pos>> /\ Planned
        /\ \E a, b, c : entry' = [entry EXCEPT !.size = a, !.leverage = b, !.base = c, !.ordered = TRUE]
    BY <1>2 DEF Trigger, history
  <2>2. EntryShape(entry) /\ EntryLevels(entry)
    BY <2>1 DEF NumbersInv, LevelsInv
  <2>3. EntryLevels(entry')
    BY <2>1, <2>2 DEF EntryShape, EntryLevels
  <2> QED BY <2>1, <2>3, LevelsStay DEF Open
<1>3. ASSUME NEW avg \in Prices, Fill(avg)
      PROVE  LevelsInv'
  <2>1. /\ Planned /\ entry' = NoEntry /\ setup' = setup /\ source' = "open" /\ why' = "none"
        /\ pos' = [id |-> pos.id + 1, status |-> "open", side |-> entry.side, avg |-> avg]
        /\ plan' = BuildRiskPlan(entry.price, entry.stop, entry.tps)
    BY <1>3 DEF Fill
  <2>2. /\ EntryLevels(entry) /\ entry.price \in Nat \ {0} /\ entry.stop \in Int /\ entry.tps \in Seq(Int)
        /\ Ascending(entry.side, entry.price, entry.tps)
    BY <2>1 DEF NumbersInv, EntryShape, SoundInv, Sound, LevelsInv
  <2>3. PlanLevels(entry.side, avg, plan')
    BY <2>1, <2>2, FilledLevels
  <2>4. PlanLevels(pos.side, pos.avg, plan)'
    <3>1. pos'.side = entry.side /\ pos'.avg = avg
      BY <2>1
    <3> QED BY <2>1, <2>3, <3>1
            DEF PlanLevels, Priced, LevelOK, LevelsConfigured, HitsFirst, InRow, KeepsOrder, Beyond, Tenths
  <2>5. Open' /\ ~Planned'
    BY <2>1 DEF Open, Planned, NoEntry, NoSide
  <2> QED BY <2>1, <2>4, <2>5 DEF LevelsInv
<1>4. ASSUME NEW v \in Views, HoldRound(v)
      PROVE  LevelsInv'
  <2>1. Open /\ pos.id \in Ids
    BY <1>4 DEF HoldRound, State, NumbersInv
  <2>2. /\ pos'.side = pos.side /\ pos'.avg = pos.avg /\ pos'.status \in {pos.status, "closing"}
        /\ UNCHANGED <<setup, entry>>
    BY <1>4, <2>1, RoundEffect DEF NumbersInv, VotesInv
  <2>3. PlanLevels(pos.side, pos.avg, plan) /\ pos.side \in Sides /\ pos.avg \in Prices
    BY <2>1 DEF LevelsInv, PlanLevels
  <2>4. /\ Keeps(pos.side, plan, plan') /\ source' \in {source, "monitor-tighten"}
        /\ why' \in {why, "reversal", "guard"}
    BY <1>4, <2>3, RoundKeepsLevels DEF NumbersInv
  <2>5. /\ Len(plan'.tps) = Len(plan.tps) /\ Priced(pos.side, plan')
        /\ KeepsOrder(setup, pos.side) => HitsFirst(plan') /\ InRow(pos.side, plan')
    BY <2>3, <2>4 DEF Keeps, PlanLevels, SameLevelHits, HitsFirst
  <2>6. Open'
    BY <2>1, <2>2 DEF Open
  <2>7. /\ source' \in {"none", "open", "monitor-tighten", "risk-tp-hit"}
        /\ why' \in {"none", "guard", "reversal", "price"}
    BY <2>4 DEF LevelsInv
  <2> QED BY <2>1, <2>2, <2>5, <2>6, <2>7, LevelsMoved
<1>5. ASSUME NEW mark \in Prices, RiskTick(mark)
      PROVE  LevelsInv'
  <2>1. /\ pos.status = "open" /\ Open /\ UNCHANGED <<setup, entry>>
        /\ pos'.side = pos.side /\ pos'.avg = pos.avg /\ pos'.status \in {"open", "closing"}
    <3>1. PICK done \in BOOLEAN : pos' = [pos EXCEPT !.status = IF done THEN "closing" ELSE @]
      BY <1>5 DEF RiskTick
    <3>2. pos.status = "open" /\ UNCHANGED <<setup, entry>>
      BY <1>5 DEF RiskTick
    <3> QED BY <3>1, <3>2 DEF NumbersInv, PosType, Open
  <2>2. PlanLevels(pos.side, pos.avg, plan) /\ plan \in PlanType /\ pos.avg \in Int /\ setup \in Setups
    BY <2>1 DEF LevelsInv, NumbersInv, PosType
  <2>3. /\ Len(plan'.tps) = Len(plan.tps) /\ (Priced(pos.side, plan) => Priced(pos.side, plan'))
        /\ HitsFirst(plan) /\ InRow(pos.side, plan) => HitsFirst(plan') /\ InRow(pos.side, plan')
        /\ source' \in {source, "risk-tp-hit"} /\ why' \in {why, "price"}
    BY <1>5, <2>2, TickKeepsLevels
  <2>4. Priced(pos.side, plan') /\ (KeepsOrder(setup, pos.side) => HitsFirst(plan') /\ InRow(pos.side, plan'))
    BY <2>2, <2>3 DEF PlanLevels
  <2>5. Open'
    BY <2>1 DEF Open
  <2>6. /\ source' \in {"none", "open", "monitor-tighten", "risk-tp-hit"}
        /\ why' \in {"none", "guard", "reversal", "price"}
    BY <2>3 DEF LevelsInv
  <2> QED BY <2>1, <2>3, <2>4, <2>5, <2>6, LevelsMoved
<1>6. CASE Reopen
  <2>1. /\ UNCHANGED <<setup, entry, plan, source>> /\ why' = "none" /\ Open
        /\ pos'.side = pos.side /\ pos'.avg = pos.avg /\ pos'.status = "open"
    BY <1>6 DEF Reopen, Open, NumbersInv, PosType
  <2>2. Open' /\ PlanLevels(pos.side, pos.avg, plan)
    BY <2>1 DEF Open, LevelsInv
  <2> QED BY <2>1, <2>2, LevelsMoved DEF PlanLevels, LevelsInv
<1>7. CASE Gone
  <2>1. UNCHANGED <<setup, entry>> /\ plan' = NoPlan /\ source' = "none" /\ why' = "none" /\ pos'.status = "flat"
    BY <1>7 DEF Gone, NumbersInv, PosType
  <2>2. Planned' => EntryLevels(entry)'
    BY <2>1 DEF LevelsInv, Planned, NoEntry, NoSide, EntryLevels
  <2> QED BY <2>1, <2>2 DEF LevelsInv, Open, NoPlan
<1>8. CASE SkipFlatRound
  BY <1>8, LevelsStay DEF SkipFlatRound, Open
<1>9. CASE Drop
  BY <1>9, LevelsStay DEF Drop, Open, history
<1>10. CASE Restart
  BY <1>10, LevelsStay DEF Restart, Open
<1>11. CASE UNCHANGED vars
  BY <1>11, LevelsStay DEF vars, Open
<1> QED BY <1>1, <1>2, <1>3, <1>4, <1>5, <1>6, <1>7, <1>8, <1>9, <1>10, <1>11 DEF Next

LEMMA LevelsAlways == Spec => [](IInv /\ LevelsInv)
<1>1. Init => SoundInv
  BY DEF Init, SoundInv, Planned
<1>2. IInv /\ SoundInv /\ [Next]_vars => SoundInv'
  BY SoundKept
<1>3. IInv /\ SoundInv /\ LevelsInv /\ [Next]_vars => LevelsInv'
  BY NextLevels
<1> QED BY <1>1, <1>2, <1>3, InitLevels, Invariant, PTL DEF Spec

\* Whatever rounds, prices and answers do to a symbol, a position keeps a side,
\* an entry the market quoted, a stop that is a price, and levels that are
\* prices; those an LLM proposed for a short may be none, and are never hit then.
THEOREM TradeTypes == Spec => []TypeOK
<1>1. IInv /\ LevelsInv => TypeOK
  <2> SUFFICES ASSUME IInv, LevelsInv PROVE TypeOK
    OBVIOUS
  <2>1. ASSUME Open
        PROVE  pos.side \in Sides /\ pos.avg \in Prices /\ plan.stop > 0 /\ LevelsOK
    <3>1. PlanLevels(pos.side, pos.avg, plan) /\ plan \in PlanType
      BY <2>1 DEF LevelsInv, IInv, NumbersInv
    <3>2. plan.tps \in Seq([price : Int, hit : BOOLEAN])
      BY <3>1, LevelTypes DEF Level
    <3>3. \A l \in DOMAIN plan.tps : LevelOK(pos.side, plan.tps[l])
      BY <3>1, LevelTypes DEF PlanLevels, Priced
    <3> QED BY <3>1, <3>2, <3>3 DEF PlanLevels, Priced, LevelsOK
  <2>2. pos.id \in 0 .. MaxPositions /\ pos.status \in {"flat", "open", "closing"}
    BY DEF IInv, NumbersInv, PosType
  <2> QED BY <2>1, <2>2 DEF TypeOK, IInv, NumbersInv, VotesInv, CooldownInv, LevelsInv, EntryLevels
<1> QED BY <1>1, LevelsAlways, PTL

\* The levels of a plan are hit in their order, for all prices, answers and
\* configurations that keep them in a row.
THEOREM LevelsHitInOrder == Spec => [](KeepsOrder(setup, pos.side) => HitsInOrder)
<1>1. IInv /\ LevelsInv => (KeepsOrder(setup, pos.side) => HitsInOrder)
  <2> SUFFICES ASSUME IInv, LevelsInv, KeepsOrder(setup, pos.side) PROVE HitsInOrder
    OBVIOUS
  <2>1. CASE Open
    <3>1. HitsFirst(plan) /\ plan \in PlanType
      BY <2>1 DEF LevelsInv, PlanLevels, IInv, NumbersInv
    <3> QED BY <3>1, LevelTypes DEF HitsFirst, HitsInOrder
  <2>2. CASE ~Open
    BY <2>2 DEF LevelsInv, NoPlan, HitsInOrder
  <2> QED BY <2>1, <2>2
<1> QED BY <1>1, LevelsAlways, PTL
=============================================================================
