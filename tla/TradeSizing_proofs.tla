------------------------ MODULE TradeSizing_proofs ------------------------
(***************************************************************************)
(* Theorems about TradeSizing, for every price, probability and account,   *)
(* and every clamp of the capital.                                         *)
(***************************************************************************)
EXTENDS TradeSizing, TLAPS

-----------------------------------------------------------------------------
(* Integer arithmetic *)

LEMMA DivBounds ==
  ASSUME NEW a \in Int, NEW b \in Int, b > 0
  PROVE  /\ a \div b \in Int
         /\ b * (a \div b) <= a
         /\ a < b * (a \div b) + b
OBVIOUS

LEMMA ProductMonotone ==
  ASSUME NEW a \in Int, NEW b \in Int, NEW c \in Nat, a <= b
  PROVE  c * a <= c * b
<1>1. c * (b - a) >= 0
  OBVIOUS
<1> QED
  BY <1>1

LEMMA DivMonotone ==
  ASSUME NEW a \in Int, NEW c \in Int, NEW b \in Int, b > 0, a <= c
  PROVE  a \div b <= c \div b
<1> DEFINE q == a \div b
           r == c \div b
<1>1. q \in Int /\ r \in Int /\ b * q <= a /\ c < b * r + b
  BY DivBounds
<1> HIDE DEF q, r
<1>2. SUFFICES ASSUME r + 1 <= q PROVE FALSE
  BY <1>1 DEF q, r
<1>3. b * (r + 1) <= b * q
  BY <1>1, <1>2, ProductMonotone
<1>4. b * (r + 1) = b * r + b
  BY <1>1
<1> QED
  BY <1>1, <1>3, <1>4

-----------------------------------------------------------------------------
(* The quantity *)

LEMMA NearestIs ==
  ASSUME NEW a \in Int, NEW n \in Nearest(a, 1000)
  PROVE  n \in Int /\ 2 * (a - n * 1000) <= 1000 /\ 2 * (n * 1000 - a) <= 1000
BY DivBounds DEF Nearest

LEMMA NearestStop ==
  ASSUME NEW a \in Int, NEW n \in Nearest(a, 10000)
  PROVE  n \in Int /\ 2 * (a - n * 10000) <= 10000 /\ 2 * (n * 10000 - a) <= 10000
BY DivBounds DEF Nearest

LEMMA NearestTick ==
  ASSUME NEW a \in Int, NEW n \in RoundToTick(a)
  PROVE  n \in Int /\ 2 * (a - n * 100) <= 100 /\ 2 * (n * 100 - a) <= 100
BY DivBounds DEF Nearest, RoundToTick, TickSize

\* A candidate that is priced has a positive quote and an offer above it.
LEMMA PricedMeans ==
  ASSUME NEW c \in Candidate, Priced(c)
  PROVE  /\ ReferencePrice(c) \in Nat \ {0}
         /\ c.offer \in Prices
         /\ c.offer \in Nat
         /\ 100 * (c.offer - ReferencePrice(c)) >= ReferencePrice(c)
         /\ c.offer - ReferencePrice(c) \in Nat \ {0}
         /\ c.p \in Int /\ c.netLiq \in Nat /\ c.venue \in {"quoted", "IT"}
<1> USE SizingAssumption DEF Candidate, None, ReferencePrice, Priced, ThinSpread
<1>1. ReferencePrice(c) \in Nat \ {0}
  OBVIOUS
<1>2. c.offer \in Prices /\ c.offer \in Nat
  OBVIOUS
<1>3. 100 * (c.offer - ReferencePrice(c)) >= ReferencePrice(c)
  BY <1>1, <1>2
<1>4. c.p \in Int /\ c.netLiq \in Nat /\ c.venue \in {"quoted", "IT"}
  <2>1. c.p \in Probabilities /\ c.netLiq \in NetLiqs /\ c.venue \in {"quoted", "IT"}
    OBVIOUS
  <2> HIDE DEF Candidate
  <2>2. \A t \in 0..100 : t \in Int
    OBVIOUS
  <2> QED
    BY <2>1, <2>2
<1> HIDE DEF ReferencePrice, Priced
<1> QED
  BY <1>1, <1>2, <1>3, <1>4

LEMMA CapitalType ==
  ASSUME NEW n \in Nat
  PROVE  EffectiveCapital(n) \in Nat
BY SizingAssumption DEF EffectiveCapital, AtLeast, AtMost

LEMMA CapitalMonotone ==
  ASSUME NEW n \in Nat, NEW m \in Nat, n <= m
  PROVE  EffectiveCapital(n) <= EffectiveCapital(m)
BY SizingAssumption DEF EffectiveCapital, AtLeast, AtMost

LEMMA CappedBounds ==
  ASSUME NEW f \in Int
  PROVE  Capped(f) \in Nat /\ Capped(f) <= 1200
BY DEF Capped, AtLeast, AtMost

LEMMA CappedMonotone ==
  ASSUME NEW f \in Int, NEW g \in Int, f <= g
  PROVE  Capped(f) <= Capped(g)
BY DEF Capped, AtLeast, AtMost

LEMMA KellyType ==
  ASSUME NEW p \in Int, NEW r \in Nat, NEW o \in Nat, o - r \in Nat \ {0}
  PROVE  KellyFractional(p, r, o) \in Int
<1>1. -15 * (100 - p) * r \in Int
  OBVIOUS
<1>2. (-15 * (100 - p) * r) \div (o - r) \in Int
  BY <1>1, DivBounds
<1> DEFINE k == 100 * p + (-15 * (100 - p) * r) \div (o - r)
<1>3. k \in Int
  BY <1>2
<1> HIDE DEF k
<1>4. (15 * k) \div 100 \in Int
  BY <1>3
<1> QED
  BY <1>4 DEF KellyFractional, k

LEMMA KellyMonotone ==
  ASSUME NEW p \in Int, NEW q \in Int, p <= q,
         NEW r \in Nat, NEW o \in Nat, o - r \in Nat \ {0}
  PROVE  KellyFractional(p, r, o) <= KellyFractional(q, r, o)
<1> DEFINE x(t) == -15 * (100 - t) * r
           k(t) == 100 * t + x(t) \div (o - r)
<1>1. r * (q - p) >= 0
  OBVIOUS
<1>2. x(p) \in Int /\ x(q) \in Int /\ x(p) <= x(q)
  BY <1>1
<1>3. x(p) \div (o - r) <= x(q) \div (o - r)
  <2> HIDE DEF x
  <2> QED
    BY <1>2, DivMonotone
<1>4. x(p) \div (o - r) \in Int /\ x(q) \div (o - r) \in Int
  <2> HIDE DEF x
  <2> QED
    BY <1>2, DivBounds
<1>5. k(p) \in Int /\ k(q) \in Int /\ k(p) <= k(q)
  <2> HIDE DEF x
  <2> QED
    BY <1>3, <1>4
<1>6. (15 * k(p)) \div 100 <= (15 * k(q)) \div 100
  <2> HIDE DEF k
  <2> QED
    BY <1>5, DivMonotone
<1> QED
  BY <1>6 DEF KellyFractional

LEMMA SizeMonotone ==
  ASSUME NEW p \in Int, NEW q \in Int, p <= q,
         NEW n \in Nat, NEW m \in Nat, n <= m,
         NEW r \in Nat, NEW o \in Nat, o - r \in Nat \ {0}
  PROVE  /\ SizeEur(p, r, o, n) \in Nat
         /\ SizeEur(q, r, o, m) \in Nat
         /\ SizeEur(p, r, o, n) <= SizeEur(q, r, o, m)
<1> DEFINE a == EffectiveCapital(n)
           b == EffectiveCapital(m)
           x == Capped(KellyFractional(p, r, o))
           y == Capped(KellyFractional(q, r, o))
<1>1. a \in Nat /\ b \in Nat /\ a <= b
  BY CapitalType, CapitalMonotone
<1>2. x \in Nat /\ y \in Nat /\ x <= y
  <2>1. /\ KellyFractional(p, r, o) \in Int
        /\ KellyFractional(q, r, o) \in Int
        /\ KellyFractional(p, r, o) <= KellyFractional(q, r, o)
    BY KellyType, KellyMonotone
  <2>2. x \in Nat /\ y \in Nat
    BY <2>1, CappedBounds
  <2>3. x <= y
    BY <2>1, CappedMonotone
  <2> QED
    BY <2>2, <2>3
<1> HIDE DEF a, b, x, y
<1>3. a * x <= a * y
  BY <1>1, <1>2, ProductMonotone
<1>4. y * a <= y * b
  BY <1>1, <1>2, ProductMonotone
<1>5. a * x \in Nat /\ b * y \in Nat /\ a * x <= b * y
  <2>1. a * y = y * a /\ b * y = y * b
    BY <1>1, <1>2
  <2>2. a * x \in Nat /\ b * y \in Nat /\ a * y \in Nat
    BY <1>1, <1>2
  <2> QED
    BY <1>3, <1>4, <2>1, <2>2
<1>6. (a * x) \div 10000 <= (b * y) \div 10000
  BY <1>5, DivMonotone
<1>7. (a * x) \div 10000 \in Nat /\ (b * y) \div 10000 \in Nat
  BY <1>5
<1> QED
  BY <1>6, <1>7 DEF SizeEur, a, b, x, y

\* The entry price a quantity is divided by is at least a point.
LEMMA EntryPositive ==
  ASSUME NEW r \in Nat \ {0}, NEW v
  PROVE  /\ EntryOffset(v) \in {1, 4}
         /\ (r * (1000 + EntryOffset(v))) \div 1000 \in Nat \ {0}
BY DEF EntryOffset

LEMMA QuantityMonotone ==
  ASSUME NEW p \in Int, NEW q \in Int, p <= q,
         NEW n \in Nat, NEW m \in Nat, n <= m,
         NEW r \in Nat \ {0}, NEW o \in Nat, o - r \in Nat \ {0}, NEW v
  PROVE  /\ Quantity(p, r, o, n, v) \in Nat
         /\ Quantity(p, r, o, n, v) <= Quantity(q, r, o, m, v)
<1> DEFINE e == (r * (1000 + EntryOffset(v))) \div 1000
           x == SizeEur(p, r, o, n)
           y == SizeEur(q, r, o, m)
<1>1. e \in Nat \ {0}
  BY EntryPositive
<1>2. x \in Nat /\ y \in Nat /\ x <= y
  BY SizeMonotone
<1> HIDE DEF e, x, y
<1>3. (x * 10000) \div e <= (y * 10000) \div e
  BY <1>1, <1>2, DivMonotone
<1>4. \A z \in Nat : (z * 10000) \div e \in Nat
  <2> SUFFICES ASSUME NEW z \in Nat PROVE (z * 10000) \div e \in Nat
    OBVIOUS
  <2>1. 0 \div e <= (z * 10000) \div e /\ (z * 10000) \div e \in Int
    BY <1>1, DivMonotone, DivBounds
  <2>2. 0 \div e = 0
    BY <1>1
  <2> QED
    BY <2>1, <2>2
<1> QED
  BY <1>2, <1>3, <1>4 DEF Quantity, MinPosition, e, x, y

LEMMA QuantityType ==
  ASSUME NEW p \in Int, NEW n \in Nat,
         NEW r \in Nat \ {0}, NEW o \in Nat, o - r \in Nat \ {0}, NEW v
  PROVE  Quantity(p, r, o, n, v) \in Nat
<1>1. p <= p /\ n <= n
  OBVIOUS
<1> QED
  BY <1>1, QuantityMonotone

-----------------------------------------------------------------------------
(* What a step leaves behind *)

\* A request stands for its candidate: the limit is the reference plus the offset to
\* half a point, the stop nine tenths of it, the target the offer.
RequestFollowsRow ==
    stage = "request" =>
        LET entry == ReferencePrice(row) * (1000 + EntryOffset(row.venue)) IN
        /\ Priced(row)
        /\ req \in Request
        /\ 2 * (entry - req.limit * 1000) <= 1000 /\ 2 * (req.limit * 1000 - entry) <= 1000
        /\ 2 * (9 * entry - req.stop * 10000) <= 10000
        /\ 2 * (req.stop * 10000 - 9 * entry) <= 10000
        /\ req.target = row.offer

SizingInv == TypeOK /\ RequestFollowsRow /\ FinePricesBuild

\* Legs of a request whose reference is a fine price are in order, however ties fall.
LEMMA FineLegsInOrder ==
  ASSUME TypeOK, RequestFollowsRow, stage = "request",
         ReferencePrice(row) >= FinePrice,
         NEW entry \in RoundToTick(req.limit), NEW stop \in RoundToTick(req.stop),
         NEW target \in RoundToTick(req.target)
  PROVE  WellFormed(entry, stop, target)
<1> DEFINE r == ReferencePrice(row)
           k == EntryOffset(row.venue)
           l == req.limit
           s == req.stop
           o == req.target
<1>1. /\ Priced(row) /\ row \in Candidate
      /\ req \in Request /\ o = row.offer
      /\ 2 * (r * (1000 + k) - l * 1000) <= 1000
      /\ 2 * (l * 1000 - r * (1000 + k)) <= 1000
      /\ 2 * (9 * (r * (1000 + k)) - s * 10000) <= 10000
      /\ 2 * (s * 10000 - 9 * (r * (1000 + k))) <= 10000
  BY DEF TypeOK, RequestFollowsRow
<1>2. r \in Nat /\ r >= 16800 /\ o \in Nat /\ 100 * (o - r) >= r
  BY <1>1, PricedMeans DEF FinePrice
<1>3. l \in Nat /\ s \in Nat
  BY <1>1 DEF Request
<1>4. k = 1 \/ k = 4
  BY DEF EntryOffset
<1>5. /\ entry \in Int /\ 2 * (l - entry * 100) <= 100 /\ 2 * (entry * 100 - l) <= 100
      /\ stop \in Int /\ 2 * (s - stop * 100) <= 100 /\ 2 * (stop * 100 - s) <= 100
      /\ target \in Int /\ 2 * (o - target * 100) <= 100 /\ 2 * (target * 100 - o) <= 100
  BY <1>2, <1>3, NearestTick
<1> HIDE DEF r, k, l, s, o
<1>6. CASE k = 1
  BY <1>1, <1>2, <1>3, <1>5, <1>6 DEF WellFormed
<1>7. CASE k = 4
  BY <1>1, <1>2, <1>3, <1>5, <1>7 DEF WellFormed
<1> QED
  BY <1>4, <1>6, <1>7

LEMMA EvaluateType ==
  ASSUME SizingInv, Evaluate
  PROVE  SizingInv'
<1> DEFINE entry == ReferencePrice(row) * (1000 + EntryOffset(row.venue))
<1>1. row \in Candidate /\ Priced(row) /\ row' = row /\ legs' = legs /\ stage' = "request"
  BY DEF SizingInv, TypeOK, Evaluate
<1>2. PICK limit \in Nearest(entry, 1000), stop \in Nearest(9 * entry, 10000) :
        req' = [qty |-> QuantityOf(row), limit |-> limit, stop |-> stop,
                target |-> row.offer]
  BY DEF Evaluate
<1>3. /\ ReferencePrice(row) \in Nat \ {0} /\ row.offer \in Prices
      /\ row.p \in Int /\ row.netLiq \in Nat
      /\ row.offer \in Nat /\ row.offer - ReferencePrice(row) \in Nat \ {0}
  BY <1>1, PricedMeans
<1>4. entry \in Nat /\ entry >= 1001
  BY <1>3 DEF EntryOffset
<1> HIDE DEF entry
<1>5. limit \in Int /\ 2 * (entry - limit * 1000) <= 1000 /\ 2 * (limit * 1000 - entry) <= 1000
  BY <1>4, NearestIs
<1>6. /\ stop \in Int
      /\ 2 * (9 * entry - stop * 10000) <= 10000 /\ 2 * (stop * 10000 - 9 * entry) <= 10000
  BY <1>4, NearestStop
<1>7. limit \in Nat /\ stop \in Nat
  BY <1>4, <1>5, <1>6
<1>8. QuantityOf(row) \in Nat \ {0}
  <2>1. Quantity(row.p, ReferencePrice(row), row.offer, row.netLiq, row.venue) \in Nat
    BY <1>3, QuantityType
  <2>2. QuantityOf(row) \in Nat
    BY <2>1 DEF QuantityOf
  <2> QED
    BY <2>2 DEF Evaluate
<1>9. req' \in Request
  BY <1>2, <1>3, <1>7, <1>8 DEF Request
<1>10. TypeOK'
  BY <1>1, <1>9 DEF SizingInv, TypeOK
<1>11. RequestFollowsRow'
  <2>1. ReferencePrice(row)' = ReferencePrice(row) /\ Priced(row)' = Priced(row)
    BY <1>1
  <2> QED
    BY <1>1, <1>2, <1>5, <1>6, <1>9, <2>1 DEF RequestFollowsRow, entry
<1> QED
  BY <1>1, <1>10, <1>11 DEF SizingInv, FinePricesBuild

LEMMA BuildType ==
  ASSUME SizingInv, BuildBracket
  PROVE  SizingInv'
<1> PICK entry \in RoundToTick(req.limit), stop \in RoundToTick(req.stop),
         target \in RoundToTick(req.target) :
           IF WellFormed(entry, stop, target)
           THEN /\ stage' = "placed"
                /\ legs' = [entry |-> entry, stop |-> stop, target |-> target]
           ELSE /\ stage' = "raised"
                /\ UNCHANGED legs
  BY DEF BuildBracket
<1>1. stage = "request" /\ row' = row /\ req' = req
  BY DEF BuildBracket
<1>2. req \in Request /\ Priced(row) /\ row \in Candidate /\ req.target = row.offer
  BY <1>1 DEF SizingInv, RequestFollowsRow, TypeOK
<1>3. req.limit \in Int /\ req.stop \in Int /\ req.target \in Int
  BY <1>2, PricedMeans DEF Request
<1>4. entry \in Int /\ stop \in Int /\ target \in Int
  BY <1>3, NearestTick
<1>5. WellFormed(entry, stop, target) => legs' \in Legs
  BY <1>4 DEF WellFormed, Legs
<1>6. TypeOK'
  BY <1>1, <1>5 DEF SizingInv, TypeOK
<1>7. ReferencePrice(row) >= FinePrice => stage' = "placed"
  BY <1>1, FineLegsInOrder DEF SizingInv
<1>8. ReferencePrice(row) \in Nat /\ ReferencePrice(row)' = ReferencePrice(row)
  BY <1>1, <1>2, PricedMeans
<1> QED
  BY <1>6, <1>7, <1>8 DEF SizingInv, RequestFollowsRow, FinePricesBuild, FinePrice

LEMMA SizingInductive == SizingInv /\ [Next]_vars => SizingInv'
<1> SUFFICES ASSUME SizingInv, [Next]_vars PROVE SizingInv'
  OBVIOUS
<1>1. CASE Evaluate
  BY <1>1, EvaluateType
<1>2. CASE Skip
  <2>1. TypeOK'
    BY <1>2 DEF SizingInv, TypeOK, Skip
  <2> QED
    BY <1>2, <2>1 DEF SizingInv, Skip, RequestFollowsRow, FinePricesBuild
<1>3. CASE BuildBracket
  BY <1>3, BuildType
<1>4. CASE UNCHANGED vars
  <2>1. TypeOK'
    BY <1>4 DEF SizingInv, TypeOK, vars
  <2>2. /\ row' = row /\ stage' = stage /\ req' = req
    BY <1>4 DEF vars
  <2> QED
    BY <2>1, <2>2 DEF SizingInv, RequestFollowsRow, FinePricesBuild
<1> QED
  BY <1>1, <1>2, <1>3, <1>4 DEF Next

LEMMA SizingInvariant == Spec => []SizingInv
<1>1. Init => SizingInv
  BY DEF Init, SizingInv, TypeOK, RequestFollowsRow, FinePricesBuild
<1> QED
  BY <1>1, SizingInductive, PTL DEF Spec

-----------------------------------------------------------------------------
(* The cost of an order *)

EntryPrice(r, v) == (r * (1000 + EntryOffset(v))) \div 1000

\* At the unrounded entry price a quantity costs no more than the guardrail allows.
LEMMA QuantityWithinCap ==
  ASSUME NEW p \in Int, NEW n \in Nat,
         NEW r \in Nat \ {0}, NEW o \in Nat, o - r \in Nat \ {0}, NEW v
  PROVE  Quantity(p, r, o, n, v) * EntryPrice(r, v) <= 1200 * EffectiveCapital(n)
<1> DEFINE e == EntryPrice(r, v)
           a == EffectiveCapital(n)
           x == Capped(KellyFractional(p, r, o))
           size == SizeEur(p, r, o, n)
<1>1. e \in Nat \ {0} /\ a \in Nat
  BY EntryPositive, CapitalType DEF EntryPrice
<1>2. x \in Nat /\ x <= 1200
  BY KellyType, CappedBounds
<1>3. size = (a * x) \div 10000
  BY DEF SizeEur
<1>4. Quantity(p, r, o, n, v) = IF size < MinPosition THEN 0 ELSE (size * 10000) \div e
  BY DEF Quantity, EntryPrice
<1> HIDE DEF e, a, x, size
<1>5. a * x <= a * 1200 /\ a * x \in Nat
  BY <1>1, <1>2, ProductMonotone
<1>6. size \in Nat /\ 10000 * size <= a * x
  BY <1>3, <1>5, DivBounds
<1>7. e * ((size * 10000) \div e) <= size * 10000 /\ (size * 10000) \div e \in Int
  BY <1>1, <1>6, DivBounds
<1>8. CASE size < MinPosition
  <2>1. 0 * e <= 1200 * a
    BY <1>1
  <2> QED BY <1>4, <1>8, <2>1 DEF a, e
<1>9. CASE ~(size < MinPosition)
  <2> DEFINE q == (size * 10000) \div e
  <2>1. Quantity(p, r, o, n, v) = q
    BY <1>4, <1>9
  <2>2. q \in Int /\ e * q <= size * 10000
    BY <1>7
  <2> HIDE DEF q
  <2>3. q * e <= 1200 * a
    <3>1. q * e = e * q /\ e * q \in Int
      BY <1>1, <2>2
    <3> QED BY <1>1, <1>5, <1>6, <2>2, <3>1
  <2> QED BY <2>1, <2>3 DEF a, e
<1> QED BY <1>8, <1>9

\* Rounding the entry to a point and then to a tick adds half a cent and a half point at
\* most, a small part of a fine price.
LEMMA RoundedCost ==
  ASSUME NEW q \in Nat, NEW a \in Nat, NEW r \in Nat, r >= FinePrice, NEW v,
         q * EntryPrice(r, v) <= a,
         NEW limit \in Nat, 2 * (limit * 1000 - r * (1000 + EntryOffset(v))) <= 1000,
         NEW entry \in Nat, 2 * (entry * 100 - limit) <= 100
  PROVE  q * entry * TickSize - a <= a \div 250
<1> DEFINE e == EntryPrice(r, v)
           w == r * (1000 + EntryOffset(v))
<1>1. EntryOffset(v) \in {1, 4}
  BY EntryPositive
<1>2. w \in Nat /\ w >= 16800 * 1001
  BY <1>1 DEF FinePrice
<1>3. e \in Int /\ 1000 * e <= w /\ w < 1000 * e + 1000
  <2>1. e = w \div 1000
    BY DEF EntryPrice
  <2> HIDE DEF e, w
  <2> QED BY <1>2, <2>1, DivBounds
<1>4. q * e <= a /\ 2 * (limit * 1000 - w) <= 1000
  OBVIOUS
<1> HIDE DEF e, w
<1>5. e \in Nat /\ e >= 12750
  BY <1>2, <1>3
<1>6. entry * 100 <= e + 51
  BY <1>2, <1>3, <1>4
<1>7. q * (entry * 100) <= q * (e + 51)
  BY <1>5, <1>6, ProductMonotone
<1>8. q * 12750 <= q * e
  BY <1>5, ProductMonotone
<1>9. q * e \in Nat /\ q * (e + 51) = q * e + 51 * q /\ q * 12750 = 12750 * q
  BY <1>5
<1> DEFINE c == q * (entry * 100)
           d == q * e
<1>10. c \in Nat /\ c = q * entry * TickSize
  BY DEF TickSize
<1>11. c <= d + 51 * q /\ 12750 * q <= d /\ d <= a /\ d \in Nat
  BY <1>4, <1>7, <1>8, <1>9
<1> HIDE DEF c, d
<1>12. 250 * (c - a) <= a /\ c - a \in Int
  BY <1>10, <1>11
<1>13. c - a <= a \div 250
  <2>1. a < 250 * (a \div 250) + 250 /\ a \div 250 \in Int
    BY DivBounds
  <2> DEFINE b == a \div 250
  <2> HIDE DEF b
  <2>2. a < 250 * b + 250 /\ b \in Int
    BY <2>1 DEF b
  <2>3. c - a <= b
    BY <1>12, <2>2
  <2> QED BY <2>3 DEF b
<1> QED BY <1>10, <1>13

\* The quantity of a request is that of its candidate, and an order that went out is
\* within the cap.
RequestedQuantity == stage = "request" => req.qty = QuantityOf(row)

CostInv == SizingInv /\ RequestedQuantity /\ OrderWithinCap

LEMMA PlacedWithinCap ==
  ASSUME SizingInv, RequestedQuantity, stage = "request", ReferencePrice(row) >= FinePrice,
         NEW entry \in RoundToTick(req.limit), entry > 0
  PROVE  req.qty * entry * TickSize - 1200 * EffectiveCapital(row.netLiq)
            <= (1200 * EffectiveCapital(row.netLiq)) \div 250
<1> DEFINE r == ReferencePrice(row)
           v == row.venue
           l == req.limit
           q == req.qty
           a == 1200 * EffectiveCapital(row.netLiq)
<1>1. /\ Priced(row) /\ row \in Candidate /\ req \in Request
      /\ 2 * (l * 1000 - r * (1000 + EntryOffset(v))) <= 1000
      /\ q = QuantityOf(row)
  BY DEF SizingInv, TypeOK, RequestFollowsRow, RequestedQuantity
<1>2. /\ r \in Nat \ {0} /\ row.offer \in Nat /\ row.offer - r \in Nat \ {0}
      /\ row.p \in Int /\ row.netLiq \in Nat
  BY <1>1, PricedMeans
<1>3. a \in Nat /\ l \in Nat /\ q \in Nat
  BY <1>1, <1>2, CapitalType DEF Request
<1>4. q * EntryPrice(r, v) <= a
  <2> HIDE DEF r
  <2> QED BY <1>1, <1>2, QuantityWithinCap DEF QuantityOf, r
<1>5. entry \in Nat /\ 2 * (entry * 100 - l) <= 100
  BY <1>3, NearestTick
<1>6. r \in Nat /\ r >= FinePrice
  BY <1>2
<1> HIDE DEF r, v, l, q, a
<1>7. q * entry * TickSize - a <= a \div 250
  BY <1>1, <1>3, <1>4, <1>5, <1>6, RoundedCost
<1> QED BY <1>7 DEF q, a

LEMMA CostInductive == CostInv /\ [Next]_vars => CostInv'
<1> SUFFICES ASSUME CostInv, [Next]_vars PROVE RequestedQuantity' /\ OrderWithinCap'
  BY SizingInductive DEF CostInv
<1>1. CASE Evaluate
  BY <1>1 DEF Evaluate, RequestedQuantity, OrderWithinCap
<1>2. CASE Skip
  BY <1>2 DEF Skip, RequestedQuantity, OrderWithinCap
<1>3. CASE BuildBracket
  <2>1. stage = "request" /\ row' = row /\ req' = req
    BY <1>3 DEF BuildBracket
  <2>2. RequestedQuantity'
    BY <1>3 DEF BuildBracket, RequestedQuantity
  <2>3. ASSUME stage' = "placed", ReferencePrice(row)' >= FinePrice
        PROVE  (Notional - 1200 * EffectiveCapital(row.netLiq)
                  <= (1200 * EffectiveCapital(row.netLiq)) \div 250)'
    <3>1. PICK entry \in RoundToTick(req.limit), stop \in RoundToTick(req.stop) :
             0 < stop /\ stop < entry /\ legs'.entry = entry
      BY <1>3, <2>1, <2>3 DEF BuildBracket, WellFormed
    <3>2. entry > 0
      <4>1. req.limit \in Int /\ req.stop \in Int
        BY <2>1 DEF CostInv, SizingInv, RequestFollowsRow, Request
      <4>2. entry \in Int /\ stop \in Int
        BY <4>1, NearestTick
      <4> QED BY <3>1, <4>2
    <3>3. ReferencePrice(row) >= FinePrice
      BY <2>1, <2>3
    <3>4. req.qty * entry * TickSize - 1200 * EffectiveCapital(row.netLiq)
            <= (1200 * EffectiveCapital(row.netLiq)) \div 250
      BY <2>1, <3>3, <3>2, PlacedWithinCap DEF CostInv
    <3> QED BY <2>1, <3>1, <3>4 DEF Notional
  <2> QED BY <2>2, <2>3 DEF OrderWithinCap
<1>4. CASE UNCHANGED vars
  BY <1>4 DEF vars, CostInv, RequestedQuantity, OrderWithinCap, Notional
<1> QED BY <1>1, <1>2, <1>3, <1>4 DEF Next

-----------------------------------------------------------------------------
(* The theorems *)

\* Requests and legs are of their types: quantities and prices are positive.
THEOREM TypeCorrect == Spec => []TypeOK
BY SizingInvariant, PTL DEF SizingInv

\* From 1.68 EUR upwards no candidate that passed the decision engine makes
\* build_bracket raise, and so none ends a cycle for the candidates after it.
THEOREM FinePricesNeverRaise == Spec => []FinePricesBuild
BY SizingInvariant, PTL DEF SizingInv

\* More probability or more capital never means fewer shares.
THEOREM SizeFollowsEdge == Spec => []SizeIsMonotone
<1>1. TypeOK => SizeIsMonotone
  <2> SUFFICES ASSUME TypeOK, Priced(row),
                      NEW p \in Probabilities, NEW netLiq \in NetLiqs,
                      p >= row.p, netLiq >= row.netLiq
               PROVE  QuantityOf([row EXCEPT !.p = p, !.netLiq = netLiq]) >= QuantityOf(row)
    BY DEF SizeIsMonotone
  <2> DEFINE c == [row EXCEPT !.p = p, !.netLiq = netLiq]
  <2>1. row \in Candidate
    BY DEF TypeOK
  <2>2. /\ c.p = p /\ c.netLiq = netLiq /\ c.offer = row.offer /\ c.venue = row.venue
        /\ c.mid = row.mid /\ c.last = row.last
    BY <2>1 DEF Candidate
  <2>3. ReferencePrice(c) = ReferencePrice(row)
    BY <2>2 DEF ReferencePrice
  <2>4. p \in Int /\ netLiq \in Nat
    <3>1. \A t \in 0..100 : t \in Int
      OBVIOUS
    <3> QED
      BY <3>1, SizingAssumption
  <2>5. /\ ReferencePrice(row) \in Nat \ {0} /\ row.offer \in Nat
        /\ row.offer - ReferencePrice(row) \in Nat \ {0}
        /\ row.p \in Int /\ row.netLiq \in Nat
    BY <2>1, PricedMeans
  <2> HIDE DEF c
  <2>6. row.p <= p /\ row.netLiq <= netLiq
    BY <2>4, <2>5
  <2>7. /\ QuantityOf(row) \in Nat
        /\ QuantityOf(row) <= Quantity(p, ReferencePrice(row), row.offer, netLiq, row.venue)
    BY <2>4, <2>5, <2>6, QuantityMonotone DEF QuantityOf
  <2>8. Quantity(p, ReferencePrice(row), row.offer, netLiq, row.venue) \in Nat
    BY <2>4, <2>5, QuantityType
  <2>9. QuantityOf(c) = Quantity(p, ReferencePrice(row), row.offer, netLiq, row.venue)
    BY <2>2, <2>3 DEF QuantityOf
  <2> QED
    BY <2>7, <2>8, <2>9 DEF c
<1> QED
  BY <1>1, TypeCorrect, PTL

\* The entry leg of a fine price, rounded twice on its way to the broker, costs at most
\* 0.4 % more than the 12 % of the capital the guardrail applied to the unrounded price
\* (position_sizing.py, bracket_builder.py round_to_tick).
THEOREM CostStaysWithinCap == Spec => []OrderWithinCap
<1>1. Init => CostInv
  BY DEF Init, CostInv, SizingInv, TypeOK, RequestFollowsRow, FinePricesBuild,
         RequestedQuantity, OrderWithinCap
<1>2. CostInv => OrderWithinCap
  BY DEF CostInv
<1> QED
  BY <1>1, <1>2, CostInductive, PTL DEF Spec

=============================================================================
