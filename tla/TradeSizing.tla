---------------------------- MODULE TradeSizing ----------------------------
(***************************************************************************)
(* How one candidate becomes the legs of a bracket: evaluate_candidate of  *)
(* src/trading/decision_engine.py, PositionSizer of position_sizing.py and *)
(* build_bracket of bracket_builder.py.                                    *)
(*                                                                         *)
(* Prices are integers of a hundredth of a cent, amounts integers of a     *)
(* euro, probabilities of a percent, shares of the capital of a basis      *)
(* point, so a size is right to one basis point. The code rounds floats    *)
(* to even; a tie may fall either way here, since the float that stands    *)
(* for it may lie on either side.                                          *)
(*                                                                         *)
(* Data left out: the count of open positions and the ramp-up, which       *)
(* TradingCycle has, the stars, which the candidates' query filters, and   *)
(* the names, tickers and the rationale of a request.                      *)
(***************************************************************************)
EXTENDS Integers

CONSTANTS
    Prices,        \* quotes and offers
    Probabilities, \* p_completion
    NetLiqs,       \* the account's NetLiquidation
    CapitalFloor,  \* position_sizing.CAPITAL_FLOOR
    CapitalCap     \* position_sizing.CAPITAL_CAP

ASSUME SizingAssumption ==
    /\ Prices \subseteq Nat \ {0}
    /\ Probabilities \subseteq 0..100
    /\ NetLiqs \subseteq Nat
    /\ CapitalFloor \in Nat /\ CapitalCap \in Nat /\ CapitalFloor <= CapitalCap

VARIABLES
    row,   \* the candidate, its snapshot and the account
    stage, \* row, request, placed, or the way it ended
    req,   \* the TradeRequest
    legs   \* prices of the three legs, in ticks

vars == <<row, stage, req, legs>>

-----------------------------------------------------------------------------
\* A missing quote and a quote of zero are alike: both are false.
None == 0

Candidate == [offer : Prices \cup {None}, p : Probabilities, netLiq : NetLiqs,
              mid : Prices \cup {None}, last : Prices \cup {None}, venue : {"quoted", "IT"}]

Request == [qty : Nat \ {0}, limit : Nat, stop : Nat, target : Prices]

Legs == [entry : Nat \ {0}, stop : Nat \ {0}, target : Nat \ {0}]

NoRequest == [qty |-> 0]

NoLegs == [entry |-> 0]

TypeOK ==
    /\ row \in Candidate
    /\ stage \in {"row", "skipped", "request", "placed", "raised"}
    /\ req \in Request \cup {NoRequest}
    /\ legs \in Legs \cup {NoLegs}

Init ==
    /\ row \in Candidate
    /\ stage = "row"
    /\ req = NoRequest
    /\ legs = NoLegs

-----------------------------------------------------------------------------
(* Arithmetic *)

\* The integers nearest to a / b: two of them for a tie.
Nearest(a, b) == {n \in {a \div b, a \div b + 1} : 2 * (a - n * b) \in (-b)..b}

AtMost(x, y) == IF x <= y THEN x ELSE y

AtLeast(x, y) == IF x >= y THEN x ELSE y

TickSize == 100 \* DEFAULT_TICK_SIZE, one cent

\* settings.trading_entry_offset_last and _quoted, in thousandths.
EntryOffset(venue) == IF venue = "IT" THEN 4 ELSE 1

-----------------------------------------------------------------------------
(* The decision *)

\* Borsa Italiana's delayed feed has no bid and ask.
ReferencePrice(c) ==
    IF c.venue = "IT"
    THEN IF c.last # None THEN c.last ELSE c.mid
    ELSE IF c.mid # None THEN c.mid ELSE c.last

\* Slip: any premium of the offer will do.
NoPremium(offer, reference) == offer <= reference

\* settings.trading_min_spread_pct is one percent.
ThinSpread(offer, reference) == 100 * (offer - reference) < reference

EffectiveCapital(netLiq) == AtLeast(AtMost(netLiq, CapitalCap), CapitalFloor)

\* Slip: a fraction above the cap is turned down.
RefusedAboveCap(fractional) == IF fractional > 1200 THEN 0 ELSE AtLeast(0, fractional)

\* Slip: the cap is lost.
OnlyPositive(fractional) == AtLeast(0, fractional)

Capped(fractional) == AtLeast(0, AtMost(1200, fractional))

\* 15 % of the full Kelly fraction with an average break loss of 15 %.
KellyFractional(p, reference, offer) ==
    LET spread == offer - reference
        kelly  == 100 * p + (-15 * (100 - p) * reference) \div spread
    IN  (15 * kelly) \div 100

SizeEur(p, reference, offer, netLiq) ==
    (EffectiveCapital(netLiq) * Capped(KellyFractional(p, reference, offer))) \div 10000

MinPosition == 1000

\* The quantity of a tradeable size, 0 when there is none, by the unrounded entry
\* price; cut to a hundredth of a cent here, which gives a quantity no smaller.
Quantity(p, reference, offer, netLiq, venue) ==
    LET size == SizeEur(p, reference, offer, netLiq)
    IN  IF size < MinPosition THEN 0
        ELSE (size * 10000) \div ((reference * (1000 + EntryOffset(venue))) \div 1000)

Priced(c) ==
    LET reference == ReferencePrice(c)
    IN  c.offer # None /\ reference # None /\ ~ThinSpread(c.offer, reference)

QuantityOf(c) == Quantity(c.p, ReferencePrice(c), c.offer, c.netLiq, c.venue)

Evaluate ==
    LET entry == ReferencePrice(row) * (1000 + EntryOffset(row.venue))
    IN  /\ stage = "row"
        /\ Priced(row)
        /\ QuantityOf(row) >= 1
        /\ \E limit \in Nearest(entry, 1000), stop \in Nearest(9 * entry, 10000) :
               req' = [qty |-> QuantityOf(row), limit |-> limit, stop |-> stop,
                       target |-> row.offer]
        /\ stage' = "request"
        /\ UNCHANGED <<row, legs>>

Skip ==
    /\ stage = "row"
    /\ Priced(row) => QuantityOf(row) < 1
    /\ stage' = "skipped"
    /\ UNCHANGED <<row, req, legs>>

-----------------------------------------------------------------------------
(* The bracket, built inside submit() *)

RoundToTick(price) == Nearest(price, TickSize)

\* Slip: a stop of zero passes.
StopAnywhereBelow(entry, stop, target) == stop < entry /\ entry < target

WellFormed(entry, stop, target) == 0 < stop /\ stop < entry /\ entry < target

\* build_bracket raises for legs in any other order.
BuildBracket ==
    /\ stage = "request"
    /\ \E entry \in RoundToTick(req.limit), stop \in RoundToTick(req.stop),
          target \in RoundToTick(req.target) :
           IF WellFormed(entry, stop, target)
           THEN /\ stage' = "placed"
                /\ legs' = [entry |-> entry, stop |-> stop, target |-> target]
           ELSE /\ stage' = "raised"
                /\ UNCHANGED legs
    /\ UNCHANGED <<row, req>>

Next == Evaluate \/ Skip \/ BuildBracket

Spec == Init /\ [][Next]_vars

-----------------------------------------------------------------------------
\* 1.68 EUR: from here on, the least spread less the largest offset is over a tick.
FinePrice == 16800

(***************************************************************************)
(* The decision engine lets a candidate through by its unrounded spread,   *)
(* and the builder refuses legs by their rounded prices, with an exception *)
(* that ends the whole cycle. From 1.68 EUR upwards the two never          *)
(* disagree (decision_engine.py:134, bracket_builder.py:75-83).            *)
(***************************************************************************)
FinePricesBuild == stage = "raised" => ReferencePrice(row) < FinePrice

\* What the entry leg costs if it fills, in hundredths of a cent.
Notional == req.qty * legs.entry * TickSize

\* The 12 % guardrail is applied to the unrounded price; the order that goes out at
\* the rounded one costs at most 0.4 % more than it allows.
OrderWithinCap ==
    stage = "placed" /\ ReferencePrice(row) >= FinePrice =>
        LET allowed == 1200 * EffectiveCapital(row.netLiq) IN
        Notional - allowed <= allowed \div 250

\* A candidate more likely to complete, or a larger account, never gets the smaller
\* position: the guardrails after the Kelly formula preserve its order.
SizeIsMonotone ==
    stage = "row" /\ Priced(row) =>
        \A p \in Probabilities, netLiq \in NetLiqs :
            p >= row.p /\ netLiq >= row.netLiq =>
                QuantityOf([row EXCEPT !.p = p, !.netLiq = netLiq]) >= QuantityOf(row)

=============================================================================
