----------------------- MODULE TickerResolution_proofs -----------------------
(***************************************************************************)
(* Theorems about TickerResolution, for any deals, listings, prices and    *)
(* numbers of script runs and faults.                                      *)
(***************************************************************************)
EXTENDS TickerResolution, WellFoundedInduction, TLAPS

-----------------------------------------------------------------------------
(* OpenFIGI's answers *)

LEMMA MinIsMember ==
  ASSUME NEW S, S # {}, S \subseteq Nat
  PROVE  Min(S) \in S
<1>1. PICK x \in S : \A y \in S : <<y, x>> \notin OpToRel(<, Nat)
  BY WFMin, NatLessThanWellFounded
<1>2. ASSUME NEW y \in S PROVE x <= y
  <2>1. x \in Nat /\ y \in Nat /\ ~(y < x)
    BY <1>1 DEF OpToRel
  <2> QED
    BY <2>1
<1>3. \E z \in S : \A y \in S : z =< y
  BY <1>2
<1> QED
  BY <1>3 DEF Min

\* Each country's venues are a sequence.
LEMMA VenuesAreIndexed ==
  ASSUME NEW c \in DOMAIN HomeVenues
  PROVE  DOMAIN HomeVenues[c] \subseteq Nat
<1>1. DOMAIN HomeVenues = {"FR", "DE", "IT", "NL", "BE", "ES", "GB"}
  BY DEF HomeVenues
<1>2. /\ HomeVenues["FR"] = <<"FP", "XS", "XH", "EO">> /\ HomeVenues["DE"] = <<"GR", "GY">>
      /\ HomeVenues["IT"] = <<"IM">> /\ HomeVenues["NL"] = <<"NA">>
      /\ HomeVenues["BE"] = <<"BB">> /\ HomeVenues["ES"] = <<"SM">>
      /\ HomeVenues["GB"] = <<"LN">>
  BY DEF HomeVenues
<1> QED
  BY <1>1, <1>2

\* The row taken for a home venue is on one.
LEMMA HomeRowIs ==
  ASSUME NEW rows \in Seq([exch : STRING, ticker : STRING, figi : STRING]), NEW country,
         HomeRow(rows, country) # 0
  PROVE  /\ country \in DOMAIN HomeVenues
         /\ HomeRow(rows, country) \in DOMAIN rows
         /\ rows[HomeRow(rows, country)].exch \in ToSet(HomeVenues[country])
<1> DEFINE venues == IF country \in DOMAIN HomeVenues THEN HomeVenues[country] ELSE <<>>
           listed == {i \in DOMAIN venues : \E k \in DOMAIN rows : rows[k].exch = venues[i]}
           taken  == {k \in DOMAIN rows : rows[k].exch = venues[Min(listed)]}
<1>1. listed # {} /\ HomeRow(rows, country) = Min(taken)
  BY DEF HomeRow
<1>2. country \in DOMAIN HomeVenues
  <2>1. DOMAIN <<>> = {}
    OBVIOUS
  <2> QED
    BY <1>1, <2>1
<1>3. Min(listed) \in listed
  <2>1. listed \subseteq Nat
    BY <1>2, VenuesAreIndexed
  <2> HIDE DEF listed
  <2> QED
    BY <1>1, <2>1, MinIsMember
<1>4. Min(taken) \in taken
  <2>1. taken # {} /\ taken \subseteq Nat
    BY <1>3
  <2> HIDE DEF taken
  <2> QED
    BY <2>1, MinIsMember
<1>5. venues[Min(listed)] \in ToSet(HomeVenues[country])
  BY <1>2, <1>3 DEF ToSet
<1> QED
  BY <1>1, <1>2, <1>4, <1>5

Misses == {"no_match", "unknown_exch"}

LEMMA TickerIsOne ==
  ASSUME NEW row
  PROVE  Yahoo(row) # NoTicker
BY DEF Yahoo, NoTicker

LEMMA AnswerIs ==
  ASSUME NEW i \in Isins, NEW r \in Revisions
  PROVE  LET answer == Answer(i, r)
         IN  /\ answer.flag \in Misses \cup {"venue_fallback", "home_venue_growth", "home_venue"}
             /\ answer.ticker = NoTicker <=> answer.flag \in Misses
             /\ answer.flag = "home_venue" =>
                  \E row \in ToSet(Listings[r][i]) :
                      /\ answer.ticker = Yahoo(row)
                      /\ row.exch \in ToSet(HomeVenues[Country[i]]) \ GrowthVenues
<1> DEFINE rows   == Listings[r][i]
           home   == HomeRow(rows, Country[i])
           row    == rows[IF home # 0 THEN home ELSE DominantRow(rows)]
           source == CASE home = 0 -> "venue_fallback"
                       [] home # 0 /\ row.exch \in GrowthVenues -> "home_venue_growth"
                       [] OTHER -> "home_venue"
           answer == Answer(i, r)
<1>0. rows \in Seq([exch : STRING, ticker : STRING, figi : STRING])
  BY ListingsAssumption
<1>1. answer = CASE rows = <<>> -> [flag |-> "no_match", ticker |-> NoTicker]
                 [] rows # <<>> /\ row.exch \notin DOMAIN Suffix ->
                        [flag |-> "unknown_exch", ticker |-> NoTicker]
                 [] OTHER -> [flag |-> source, ticker |-> Yahoo(row)]
  BY DEF Answer, Answers, Resolution
<1>2. /\ source \in {"venue_fallback", "home_venue_growth", "home_venue"}
      /\ source = "home_venue" => home # 0 /\ row.exch \notin GrowthVenues
  OBVIOUS
<1>3. home # 0 => row \in ToSet(rows) /\ row.exch \in ToSet(HomeVenues[Country[i]])
  BY <1>0, HomeRowIs DEF ToSet
<1> HIDE DEF row, source, home
<1>4. CASE rows = <<>> \/ row.exch \notin DOMAIN Suffix
  <2>1. answer = [flag |-> "no_match", ticker |-> NoTicker]
        \/ answer = [flag |-> "unknown_exch", ticker |-> NoTicker]
    BY <1>1, <1>4
  <2> HIDE DEF answer
  <2> QED
    BY <2>1 DEF Misses, answer
<1>5. CASE ~(rows = <<>> \/ row.exch \notin DOMAIN Suffix)
  <2>1. answer = [flag |-> source, ticker |-> Yahoo(row)]
    BY <1>1, <1>5
  <2>2. source \notin Misses /\ Yahoo(row) # NoTicker
    BY <1>2, TickerIsOne DEF Misses
  <2>3. source = "home_venue" => row \in ToSet(rows)
                                 /\ row.exch \in ToSet(HomeVenues[Country[i]]) \ GrowthVenues
    BY <1>2, <1>3
  <2> QED
    BY <1>2, <2>1, <2>2, <2>3
<1> QED
  BY <1>4, <1>5

-----------------------------------------------------------------------------
(* The inductive invariant *)

\* The tickers of a deal's own ISIN.
Own(d) == {Answer(Isin[d], r).ticker : r \in Revisions} \cup {NoTicker}

RowOk(d, row) ==
    /\ row = [isin |-> row.isin, flag |-> row.flag, ticker |-> row.ticker,
              premium |-> row.premium]
    /\ row.isin \in {None, Isin[d]}
    /\ row.flag \in Flags
    /\ row.ticker # NoTicker => Isin[d] # None /\ row.ticker \in Own(d)
    /\ row.premium # NoPremium => InBounds(row.premium)
    /\ row.flag = "premium_out_of_bounds" => row.premium = NoPremium

RowsOk(rows) == rows = [d \in Deals |-> rows[d]] /\ \A d \in Deals : RowOk(d, rows[d])

\* A session's transaction.
SessionOk(s) ==
    /\ session[s] = [script |-> session[s].script, todo |-> session[s].todo,
                     seen |-> session[s].seen, mine |-> session[s].mine,
                     prices |-> session[s].prices, loaded |-> session[s].loaded,
                     copy |-> session[s].copy]
    /\ session[s].script \in IF s = Cycle THEN {Cycle} ELSE Scripts
    /\ session[s].todo \subseteq Deals
    /\ session[s].script \in {"p11", "p11_force"} => session[s].todo \subseteq labelled
    /\ session[s].script = "p14_decide" =>
           \A d \in session[s].todo : session[s].mine[d].flag = "home_venue"
    /\ RowsOk(session[s].seen) /\ RowsOk(session[s].mine)
    /\ session[s].copy \in [Isins -> {0} \cup Revisions]

SessionsOk ==
    /\ session = [s \in Sessions |-> session[s]]
    /\ \A s \in Sessions : Idle(s) \/ SessionOk(s)

\* A ticker is never taken back.
TickersStay ==
    \A s \in Sessions : ~Idle(s) =>
        \A d \in Deals : session[s].seen[d].ticker # NoTicker =>
            deals[d].ticker # NoTicker /\ session[s].mine[d].ticker # NoTicker

\* Only a script writes premiums, or that one is out of bounds.
PremiumsAreTheScripts ==
    /\ ~Idle("script") =>
         \A d \in Deals :
             /\ deals[d].premium = session["script"].seen[d].premium
             /\ deals[d].flag = "premium_out_of_bounds" =>
                    session["script"].seen[d].flag = "premium_out_of_bounds"
    /\ ~Idle(Cycle) =>
         \A d \in Deals :
             /\ session[Cycle].mine[d].premium = session[Cycle].seen[d].premium
             /\ session[Cycle].mine[d].flag \in
                    {session[Cycle].seen[d].flag} \cup (Flags \ {"premium_out_of_bounds"})

\* A row the gate lets through has a ticker, and one of the main market.
HomeOk(d, row) ==
    row.flag = "home_venue" =>
        row.ticker # NoTicker /\ (d \in torn \/ row.ticker \in MainTickers[d])

HomesOk ==
    \A d \in Deals \ labelled :
        /\ HomeOk(d, deals[d])
        /\ \A s \in Sessions : ~Idle(s) => HomeOk(d, session[s].mine[d])

IInv ==
    /\ RowsOk(deals) /\ SessionsOk
    /\ Labelled \subseteq labelled /\ labelled \subseteq Deals /\ torn \subseteq Deals
    /\ revision \in Revisions /\ file \in [Isins -> {0} \cup Revisions]
    /\ TickersStay /\ PremiumsAreTheScripts /\ HomesOk


-----------------------------------------------------------------------------
(* Rows *)

Record(isin, flag, ticker, premium) ==
    [isin |-> isin, flag |-> flag, ticker |-> ticker, premium |-> premium]

LEMMA RecordIs ==
  ASSUME NEW isin, NEW flag, NEW ticker, NEW premium
  PROVE  LET row == Record(isin, flag, ticker, premium)
         IN  /\ row.isin = isin /\ row.flag = flag /\ row.ticker = ticker
             /\ row.premium = premium
             /\ row = [isin |-> row.isin, flag |-> row.flag, ticker |-> row.ticker,
                       premium |-> row.premium]
BY DEF Record

LEMMA FlagsAre ==
  /\ Misses \cup {"venue_fallback", "home_venue_growth", "home_venue", "not_isin"} \subseteq Flags
  /\ Outcomes \subseteq Flags /\ None \in Flags
  /\ "premium_out_of_bounds" \in Flags /\ "no_price_data" \in Flags
  /\ None \notin Outcomes /\ "home_venue" \notin Outcomes
  /\ "premium_out_of_bounds" \notin
         Misses \cup {"venue_fallback", "home_venue_growth", "home_venue", "not_isin", None,
                      "no_price_data"}
BY DEF Flags, Misses, Outcomes, None

\* An answer belongs to the deal's ISIN, and to the main market where it says so.
LEMMA AnswerOfDeal ==
  ASSUME NEW d \in Deals, Isin[d] # None, NEW r \in Revisions
  PROVE  LET answer == Answer(Isin[d], r)
         IN  /\ answer.flag \in Flags \ (Outcomes \cup {None})
             /\ answer.flag # "home_venue" \/ answer.ticker \in MainTickers[d]
             /\ answer.ticker \in Own(d)
             /\ answer.flag = "home_venue" => answer.ticker # NoTicker
<1> DEFINE answer == Answer(Isin[d], r)
           main   == ToSet(HomeVenues[Country[Isin[d]]]) \ GrowthVenues
           rows   == UNION {ToSet(Listings[q][Isin[d]]) : q \in Revisions}
<1>1. Isin[d] \in Isins
  BY DEF Isins
<1>2. answer.flag \in Misses \cup {"venue_fallback", "home_venue_growth", "home_venue"}
      /\ (answer.ticker = NoTicker <=> answer.flag \in Misses)
  BY <1>1, AnswerIs
<1>3. answer.flag = "home_venue" => answer.ticker \in MainTickers[d]
  <2> SUFFICES ASSUME answer.flag = "home_venue" PROVE answer.ticker \in MainTickers[d]
    OBVIOUS
  <2>1. PICK row \in ToSet(Listings[r][Isin[d]]) :
          answer.ticker = Yahoo(row) /\ row.exch \in main
    BY <1>1, AnswerIs
  <2>2. row \in rows
    OBVIOUS
  <2>3. MainTickers[d] = {Yahoo(x) : x \in {x \in rows : x.exch \in main}}
    BY DEF MainTickers
  <2> HIDE DEF rows, main, answer
  <2> QED
    BY <2>1, <2>2, <2>3
<1>4. answer.ticker \in Own(d)
  BY DEF Own
<1>5. answer.flag \in Flags \ (Outcomes \cup {None})
  <2> HIDE DEF answer
  <2> QED
    BY <1>2, FlagsAre DEF Misses, Outcomes, None
<1> QED
  BY <1>2, <1>3, <1>4, <1>5 DEF Misses

LEMMA ApplyIs ==
  ASSUME NEW d \in Deals, NEW row, RowOk(d, row), row.isin # None, NEW r \in Revisions
  PROVE  LET new == Apply(row, r)
         IN  /\ RowOk(d, new) /\ HomeOk(d, new)
             /\ new.premium = row.premium /\ new.flag \in Flags \ (Outcomes \cup {None})
             /\ row.ticker # NoTicker => new.ticker # NoTicker
<1> DEFINE answer == Answer(Isin[d], r)
           ticker == IF answer.ticker = NoTicker THEN row.ticker ELSE answer.ticker
           new    == Apply(row, r)
<1>1. row.isin = Isin[d] /\ Isin[d] # None
  BY DEF RowOk
<1>2. new = Record(row.isin, answer.flag, ticker, row.premium)
  <2>1. new = [row EXCEPT !.flag = answer.flag, !.ticker = ticker]
    <3>1. new = [row EXCEPT !.flag = answer.flag,
                            !.ticker = IF answer.ticker = NoTicker THEN @ ELSE answer.ticker]
      BY <1>1 DEF Apply
    <3>2. row = Record(row.isin, row.flag, row.ticker, row.premium)
      BY DEF RowOk, Record
    <3> HIDE DEF new, answer
    <3> QED
      BY <3>1, <3>2 DEF Record
  <2>2. row = Record(row.isin, row.flag, row.ticker, row.premium)
    BY DEF RowOk, Record
  <2> HIDE DEF new, answer, ticker
  <2> QED
    BY <2>1, <2>2 DEF Record
<1>3. /\ answer.flag \in Flags \ (Outcomes \cup {None})
      /\ answer.flag # "home_venue" \/ answer.ticker \in MainTickers[d]
      /\ answer.ticker \in Own(d)
      /\ answer.flag = "home_venue" => answer.ticker # NoTicker
  BY <1>1, AnswerOfDeal
<1>4. /\ new.isin = row.isin /\ new.flag = answer.flag /\ new.ticker = ticker
      /\ new.premium = row.premium
      /\ new = [isin |-> new.isin, flag |-> new.flag, ticker |-> new.ticker,
                premium |-> new.premium]
  <2> HIDE DEF new, answer, ticker
  <2> QED
    BY <1>2, RecordIs
<1>5. answer.flag # "premium_out_of_bounds"
  BY <1>3 DEF Outcomes
<1>6. /\ ticker # NoTicker => ticker \in Own(d)
      /\ row.ticker # NoTicker => ticker # NoTicker
      /\ answer.flag = "home_venue" => ticker # NoTicker /\ ticker \in MainTickers[d]
  <2>1. row.ticker # NoTicker => row.ticker \in Own(d)
    BY DEF RowOk
  <2> HIDE DEF answer
  <2> QED
    BY <1>3, <2>1
<1> HIDE DEF new, answer, ticker
<1>7. RowOk(d, new)
  BY <1>1, <1>3, <1>4, <1>5, <1>6 DEF RowOk
<1>8. HomeOk(d, new)
  BY <1>4, <1>6 DEF HomeOk
<1> QED
  BY <1>3, <1>4, <1>6, <1>7, <1>8 DEF new

LEMMA PreservedIs ==
  ASSUME NEW d \in Deals, NEW row, RowOk(d, row), row.isin # None, NEW r \in Revisions
  PROVE  LET new == Preserved(row, r)
         IN  /\ RowOk(d, new) /\ HomeOk(d, new)
             /\ row.ticker # NoTicker => new.ticker # NoTicker
<1> DEFINE applied == Apply(row, r)
           flag    == IF row.flag \in Outcomes THEN row.flag ELSE applied.flag
           new     == Preserved(row, r)
<1>1. /\ RowOk(d, applied) /\ HomeOk(d, applied)
      /\ applied.premium = row.premium /\ applied.flag \in Flags \ (Outcomes \cup {None})
      /\ row.ticker # NoTicker => applied.ticker # NoTicker
  BY ApplyIs
<1>2. new = [applied EXCEPT !.flag = IF row.flag \in Outcomes THEN row.flag ELSE @]
  BY DEF Preserved
<1> HIDE DEF new, applied
<1>3. applied = Record(applied.isin, applied.flag, applied.ticker, applied.premium)
  BY <1>1 DEF RowOk, Record
<1>4. new = Record(applied.isin, flag, applied.ticker, applied.premium)
  BY <1>2, <1>3 DEF Record
<1>5. /\ flag \in Flags
      /\ flag = "premium_out_of_bounds" => row.flag = flag
      /\ flag = "home_venue" => applied.flag = flag
  BY <1>1, FlagsAre DEF RowOk, Outcomes
<1> HIDE DEF flag
<1>6. /\ new.isin = applied.isin /\ new.flag = flag /\ new.ticker = applied.ticker
      /\ new.premium = applied.premium
      /\ new = [isin |-> new.isin, flag |-> new.flag, ticker |-> new.ticker,
                premium |-> new.premium]
  BY <1>4, RecordIs
<1>7. RowOk(d, new)
  BY <1>1, <1>5, <1>6 DEF RowOk
<1>8. HomeOk(d, new)
  BY <1>1, <1>5, <1>6 DEF HomeOk
<1> QED
  BY <1>1, <1>6, <1>7, <1>8 DEF new

\* The premium gate changes the flag and the premium, in step.
LEMMA GatedIs ==
  ASSUME NEW row, row = Record(row.isin, row.flag, row.ticker, row.premium),
         NEW price, NEW flag
  PROVE  LET new == Gated(row, price, flag)
         IN  /\ new = Record(row.isin, new.flag, row.ticker, new.premium)
             /\ \/ new.flag = flag /\ InBounds(new.premium)
                \/ new.flag = "premium_out_of_bounds" /\ new.premium = NoPremium
<1> DEFINE premium == Premium(price, Closes[row.ticker])
           new     == Gated(row, price, flag)
<1>1. new = IF InBounds(premium) THEN [row EXCEPT !.flag = flag, !.premium = premium]
            ELSE [row EXCEPT !.flag = "premium_out_of_bounds", !.premium = NoPremium]
  BY DEF Gated
<1> HIDE DEF new, premium
<1>2. CASE InBounds(premium)
  <2>1. new = Record(row.isin, flag, row.ticker, premium)
    BY <1>1, <1>2 DEF Record
  <2> QED
    BY <1>2, <2>1, RecordIs DEF new
<1>3. CASE ~InBounds(premium)
  <2>1. new = Record(row.isin, "premium_out_of_bounds", row.ticker, NoPremium)
    BY <1>1, <1>3 DEF Record
  <2> QED
    BY <2>1, RecordIs DEF new
<1> QED
  BY <1>2, <1>3


\* p11 writes neither the ticker nor anything to a deal without an answer.
LEMMA PricedIs ==
  ASSUME NEW d \in Deals, NEW row, RowOk(d, row), row.isin # None, NEW r \in Revisions,
         NEW price
  PROVE  LET new == Priced(row, price, r)
         IN  RowOk(d, new) /\ new.ticker = row.ticker
<1> DEFINE answer == Answer(Isin[d], r)
           probe  == [row EXCEPT !.ticker = answer.ticker]
           gated  == Gated(probe, price, answer.flag)
           new    == Priced(row, price, r)
<1>1. row.isin = Isin[d] /\ Isin[d] # None
  BY DEF RowOk
<1>2. answer.flag \in Flags \ (Outcomes \cup {None})
  BY <1>1, AnswerOfDeal
<1>3. row = Record(row.isin, row.flag, row.ticker, row.premium)
  BY DEF RowOk, Record
<1>4. \/ new = [row EXCEPT !.flag = answer.flag]
      \/ new = [row EXCEPT !.flag = "no_price_data"]
      \/ new = [gated EXCEPT !.ticker = row.ticker]
  BY <1>1 DEF Priced
<1>5. ASSUME NEW flag \in Flags \ {"premium_out_of_bounds"}, new = [row EXCEPT !.flag = flag]
      PROVE  RowOk(d, new) /\ new.ticker = row.ticker
  <2> HIDE DEF new
  <2>1. new = Record(row.isin, flag, row.ticker, row.premium)
    BY <1>3, <1>5 DEF Record
  <2>2. /\ new.isin = row.isin /\ new.flag = flag /\ new.ticker = row.ticker
        /\ new.premium = row.premium
        /\ new = [isin |-> new.isin, flag |-> new.flag, ticker |-> new.ticker,
                  premium |-> new.premium]
    BY <2>1, RecordIs
  <2> QED
    BY <2>2 DEF RowOk
<1>6. ASSUME new = [gated EXCEPT !.ticker = row.ticker]
      PROVE  RowOk(d, new) /\ new.ticker = row.ticker
  <2>1. probe = Record(row.isin, row.flag, answer.ticker, row.premium)
    <3> HIDE DEF answer
    <3> QED
      BY <1>3 DEF Record
  <2>2. /\ probe = Record(probe.isin, probe.flag, probe.ticker, probe.premium)
        /\ probe.isin = row.isin
    <3> HIDE DEF probe, answer
    <3> QED
      BY <2>1, RecordIs
  <2> HIDE DEF probe
  <2>3. /\ gated = Record(probe.isin, gated.flag, probe.ticker, gated.premium)
        /\ \/ gated.flag = answer.flag /\ InBounds(gated.premium)
           \/ gated.flag = "premium_out_of_bounds" /\ gated.premium = NoPremium
    <3> HIDE DEF answer
    <3> QED
      BY <2>2, GatedIs
  <2> HIDE DEF gated, answer, new
  <2>4. new = Record(row.isin, gated.flag, row.ticker, gated.premium)
    BY <1>6, <2>2, <2>3 DEF Record
  <2>5. /\ new.isin = row.isin /\ new.flag = gated.flag /\ new.ticker = row.ticker
        /\ new.premium = gated.premium
        /\ new = [isin |-> new.isin, flag |-> new.flag, ticker |-> new.ticker,
                  premium |-> new.premium]
    BY <2>4, RecordIs
  <2>6. gated.flag \in Flags
        /\ (gated.flag = "premium_out_of_bounds" => gated.premium = NoPremium)
        /\ (gated.premium # NoPremium => InBounds(gated.premium))
    BY <1>2, <2>3, FlagsAre DEF Outcomes
  <2> QED
    BY <2>5, <2>6 DEF RowOk
<1>7. answer.flag \in Flags \ {"premium_out_of_bounds"}
      /\ "no_price_data" \in Flags \ {"premium_out_of_bounds"}
  BY <1>2, FlagsAre DEF Outcomes
<1> HIDE DEF new, answer, gated
<1> QED
  BY <1>4, <1>5, <1>6, <1>7 DEF new

LEMMA DecidedIs ==
  ASSUME NEW d \in Deals, NEW row, RowOk(d, row), row.flag = "home_venue", NEW price
  PROVE  LET new == Decided(row, price)
         IN  RowOk(d, new) /\ (HomeOk(d, row) => HomeOk(d, new)) /\ new.ticker = row.ticker
<1> DEFINE gated == Gated(row, price, row.flag)
           new   == Decided(row, price)
<1>1. new = row \/ new = gated
  BY DEF Decided
<1>2. row = Record(row.isin, row.flag, row.ticker, row.premium)
  BY DEF RowOk, Record
<1>3. /\ gated = Record(row.isin, gated.flag, row.ticker, gated.premium)
      /\ \/ gated.flag = row.flag /\ InBounds(gated.premium)
         \/ gated.flag = "premium_out_of_bounds" /\ gated.premium = NoPremium
  BY <1>2, GatedIs
<1> HIDE DEF gated, new
<1>4. /\ gated.isin = row.isin /\ gated.ticker = row.ticker
      /\ gated = [isin |-> gated.isin, flag |-> gated.flag, ticker |-> gated.ticker,
                  premium |-> gated.premium]
  BY <1>3, RecordIs
<1>5. RowOk(d, gated)
  BY <1>3, <1>4, FlagsAre DEF RowOk
<1>6. HomeOk(d, row) => HomeOk(d, gated)
  BY <1>3, <1>4 DEF HomeOk
<1> QED
  BY <1>1, <1>4, <1>5, <1>6 DEF new

LEMMA ExtractedIs ==
  ASSUME NEW d \in Deals, NEW row, RowOk(d, row)
  PROVE  LET new == Extracted(row, d)
         IN  /\ RowOk(d, new) /\ new.flag = row.flag /\ new.ticker = row.ticker
             /\ new.premium = row.premium
<1> DEFINE isin == IF row.isin = None THEN Isin[d] ELSE row.isin
           new  == Extracted(row, d)
<1>1. row = Record(row.isin, row.flag, row.ticker, row.premium)
  BY DEF RowOk, Record
<1>2. new = Record(isin, row.flag, row.ticker, row.premium)
  BY <1>1 DEF Extracted, Record
<1>3. isin \in {None, Isin[d]}
  BY DEF RowOk
<1> HIDE DEF isin, new
<1>4. /\ new.isin = isin /\ new.flag = row.flag /\ new.ticker = row.ticker
      /\ new.premium = row.premium
      /\ new = [isin |-> new.isin, flag |-> new.flag, ticker |-> new.ticker,
                premium |-> new.premium]
  BY <1>2, RecordIs
<1> QED
  BY <1>3, <1>4 DEF RowOk, new

LEMMA NotIsinIs ==
  ASSUME NEW d \in Deals, NEW row, RowOk(d, row)
  PROVE  LET new == [row EXCEPT !.flag = "not_isin"]
         IN  /\ RowOk(d, new) /\ HomeOk(d, new) /\ new.ticker = row.ticker
             /\ new.premium = row.premium /\ new.flag = "not_isin"
<1> DEFINE new == [row EXCEPT !.flag = "not_isin"]
<1>1. row = Record(row.isin, row.flag, row.ticker, row.premium)
  BY DEF RowOk, Record
<1>2. new = Record(row.isin, "not_isin", row.ticker, row.premium)
  BY <1>1 DEF Record
<1> HIDE DEF new
<1>3. /\ new.isin = row.isin /\ new.flag = "not_isin" /\ new.ticker = row.ticker
      /\ new.premium = row.premium
      /\ new = [isin |-> new.isin, flag |-> new.flag, ticker |-> new.ticker,
                premium |-> new.premium]
  BY <1>2, RecordIs
<1> QED
  BY <1>3, FlagsAre DEF RowOk, HomeOk, new

-----------------------------------------------------------------------------
(* Steps *)

LEMMA InitIInv == Init => IInv
<1> SUFFICES ASSUME Init PROVE IInv
  OBVIOUS
<1> DEFINE Isin0(d) == IF d \in Stored THEN Isin[d] ELSE None
<1>1. ASSUME NEW d \in Deals
      PROVE  RowOk(d, deals[d]) /\ HomeOk(d, deals[d])
  <2>1. deals[d] = Record(Isin0(d), None, NoTicker, NoPremium)
    BY DEF Init, Record
  <2>2. Isin0(d) \in {None, Isin[d]}
    OBVIOUS
  <2> HIDE DEF Isin0
  <2>3. /\ deals[d].isin = Isin0(d) /\ deals[d].flag = None /\ deals[d].ticker = NoTicker
        /\ deals[d].premium = NoPremium
        /\ deals[d] = [isin |-> deals[d].isin, flag |-> deals[d].flag,
                       ticker |-> deals[d].ticker, premium |-> deals[d].premium]
    BY <2>1, RecordIs
  <2>4. None # "premium_out_of_bounds" /\ None # "home_venue" /\ None \in Flags
    BY FlagsAre DEF None
  <2> QED
    BY <2>2, <2>3, <2>4 DEF RowOk, HomeOk
<1>2. RowsOk(deals)
  <2>1. deals = [d \in Deals |-> deals[d]]
    BY DEF Init
  <2> QED
    BY <1>1, <2>1 DEF RowsOk
<1>3. /\ session = [s \in Sessions |-> session[s]]
      /\ \A s \in Sessions : Idle(s)
  BY DEF Init, Idle
<1>4. Cycle \in Sessions /\ "script" \in Sessions
  BY DEF Sessions
<1>5. SessionsOk /\ TickersStay /\ PremiumsAreTheScripts /\ HomesOk
  BY <1>1, <1>3, <1>4 DEF SessionsOk, TickersStay, PremiumsAreTheScripts, HomesOk
<1>6. /\ Labelled \subseteq labelled /\ labelled \subseteq Deals /\ torn \subseteq Deals
      /\ revision \in Revisions /\ file \in [Isins -> {0} \cup Revisions]
  BY TickerAssumption, ListingsAssumption DEF Init
<1> QED
  BY <1>2, <1>5, <1>6 DEF IInv

\* The deal a session works on.
LEMMA NowIs ==
  ASSUME IInv, NEW s \in Sessions, Busy(s)
  PROVE  /\ ~Idle(s) /\ SessionOk(s)
         /\ Now(s) \in session[s].todo /\ Now(s) \in Deals
         /\ RowOk(Now(s), Mine(s))
         /\ Now(s) \notin labelled => HomeOk(Now(s), Mine(s))
<1>1. ~Idle(s) /\ SessionOk(s) /\ session[s].todo # {}
  BY DEF IInv, SessionsOk, Busy
<1>2. session[s].todo \subseteq Deals /\ Deals \subseteq Nat
  BY <1>1, TickerAssumption DEF SessionOk
<1>3. Now(s) \in session[s].todo
  BY <1>1, <1>2, MinIsMember DEF Now
<1> QED
  BY <1>1, <1>2, <1>3 DEF SessionOk, RowsOk, Mine, IInv, HomesOk

\* A session that nothing touches stays in order, while deals get labels.
LEMMA SessionStays ==
  ASSUME NEW s \in Sessions, SessionOk(s), session'[s] = session[s], labelled \subseteq labelled'
  PROVE  SessionOk(s)'
BY DEF SessionOk

LEMMA WorkerIsOk ==
  ASSUME IInv, NEW s \in Sessions, Busy(s), NEW row, RowOk(Now(s), row),
         NEW loaded, NEW copy \in [Isins -> {0} \cup Revisions],
         session'[s] = [script |-> session[s].script, todo |-> session[s].todo \ {Now(s)},
                        seen |-> session[s].seen,
                        mine |-> [session[s].mine EXCEPT ![Now(s)] = row],
                        prices |-> session[s].prices, loaded |-> loaded, copy |-> copy],
         labelled' = labelled
  PROVE  SessionOk(s)' /\ ~Idle(s)'
<1> DEFINE mine == session[s].mine
           new  == [session[s].mine EXCEPT ![Now(s)] = row]
<1>1. SessionOk(s) /\ Now(s) \in session[s].todo /\ Now(s) \in Deals
  BY NowIs
<1>2. /\ session'[s].script = session[s].script
      /\ session'[s].todo = session[s].todo \ {Now(s)}
      /\ session'[s].seen = session[s].seen /\ session'[s].mine = new
      /\ session'[s].prices = session[s].prices /\ session'[s].loaded = loaded
      /\ session'[s].copy = copy
  BY DEF SessionOk
<1>3. RowsOk(mine)
  BY <1>1 DEF SessionOk
<1>4. /\ new = [d \in Deals |-> new[d]]
      /\ \A d \in Deals : new[d] = IF d = Now(s) THEN row ELSE mine[d]
  <2> HIDE DEF mine
  <2>1. new = [mine EXCEPT ![Now(s)] = row]
    BY DEF mine
  <2>2. mine = [d \in Deals |-> mine[d]]
    BY <1>3 DEF RowsOk
  <2> HIDE DEF new
  <2> QED
    BY <1>1, <2>1, <2>2
<1> HIDE DEF mine, new
<1>5. RowsOk(new)
  BY <1>3, <1>4 DEF RowsOk
<1>6. \A d \in session[s].todo \ {Now(s)} : new[d] = mine[d]
  BY <1>1, <1>4 DEF SessionOk
<1>7. session[s].script = "p14_decide" =>
         \A d \in session'[s].todo : session'[s].mine[d].flag = "home_venue"
  <2>1. session[s].script = "p14_decide" =>
           \A d \in session[s].todo : mine[d].flag = "home_venue"
    BY <1>1 DEF SessionOk, mine
  <2> QED
    BY <1>2, <1>6, <2>1
<1>8. session'[s] = [script |-> session'[s].script, todo |-> session'[s].todo,
                     seen |-> session'[s].seen, mine |-> session'[s].mine,
                     prices |-> session'[s].prices, loaded |-> session'[s].loaded,
                     copy |-> session'[s].copy]
  BY <1>2 DEF new
<1>9. SessionOk(s)'
  BY <1>1, <1>2, <1>5, <1>7, <1>8 DEF SessionOk
<1>10. session'[s] # NoSession
  <2>1. session[s].script # None
    BY <1>1 DEF SessionOk, Scripts, Cycle, None
  <2>2. NoSession.script = None
    BY DEF NoSession
  <2> QED
    BY <1>2, <2>1, <2>2
<1> QED
  BY <1>9, <1>10 DEF Idle
\* A session moves on by one deal, whose new row is in order.
LEMMA Works ==
  ASSUME IInv, NEW s \in Sessions, Busy(s), NEW row, RowOk(Now(s), row),
         NEW loaded, NEW copy \in [Isins -> {0} \cup Revisions],
         Mine(s).ticker # NoTicker => row.ticker # NoTicker,
         Now(s) \notin labelled => HomeOk(Now(s), row),
         s = Cycle => /\ row.premium = Mine(s).premium
                      /\ row.flag \in {Mine(s).flag} \cup (Flags \ {"premium_out_of_bounds"}),
         session' = [session EXCEPT ![s] =
                       [script |-> session[s].script, todo |-> session[s].todo \ {Now(s)},
                        seen |-> session[s].seen,
                        mine |-> [session[s].mine EXCEPT ![Now(s)] = row],
                        prices |-> session[s].prices, loaded |-> loaded, copy |-> copy]],
         file' \in [Isins -> {0} \cup Revisions],
         UNCHANGED <<deals, labelled, revision, torn>>
  PROVE  IInv'
<1> DEFINE work == [script |-> session[s].script, todo |-> session[s].todo \ {Now(s)},
                    seen |-> session[s].seen,
                    mine |-> [session[s].mine EXCEPT ![Now(s)] = row],
                    prices |-> session[s].prices, loaded |-> loaded, copy |-> copy]
<1>1. /\ ~Idle(s) /\ SessionOk(s) /\ Now(s) \in Deals
      /\ session = [t \in Sessions |-> session[t]]
  BY NowIs DEF IInv, SessionsOk
<1>2. /\ session' = [t \in Sessions |-> session'[t]] /\ session'[s] = work
      /\ \A t \in Sessions \ {s} : session'[t] = session[t]
  <2> HIDE DEF work
  <2>1. session' = [session EXCEPT ![s] = work]
    BY DEF work
  <2> QED
    BY <1>1, <2>1
<1>3. SessionOk(s)' /\ ~Idle(s)'
  <2>1. /\ session'[s] = [script |-> session[s].script, todo |-> session[s].todo \ {Now(s)},
                        seen |-> session[s].seen,
                        mine |-> [session[s].mine EXCEPT ![Now(s)] = row],
                        prices |-> session[s].prices, loaded |-> loaded, copy |-> copy]
        /\ labelled' = labelled
    BY <1>2
  <2> QED
    BY <2>1, WorkerIsOk
<1>4. /\ session'[s].seen = session[s].seen
      /\ \A d \in Deals \ {Now(s)} : session'[s].mine[d] = session[s].mine[d]
      /\ session'[s].mine[Now(s)] = row
  <2>1. /\ session'[s].seen = session[s].seen
        /\ session'[s].mine = [session[s].mine EXCEPT ![Now(s)] = row]
    BY <1>2
  <2>2. session[s].mine = [d \in Deals |-> session[s].mine[d]]
    BY <1>1 DEF SessionOk, RowsOk
  <2> QED
    BY <1>1, <2>1, <2>2
<1> HIDE DEF work
<1>5. \A t \in Sessions \ {s} : (Idle(t)' <=> Idle(t)) /\ (SessionOk(t) => SessionOk(t)')
  BY <1>2, SessionStays DEF Idle
<1>6. RowsOk(deals)' /\ SessionsOk'
  BY <1>2, <1>3, <1>5 DEF IInv, SessionsOk
<1>7. TickersStay'
  BY <1>1, <1>2, <1>4, <1>5 DEF IInv, TickersStay, Mine
<1>8. PremiumsAreTheScripts'
  <2>0. "script" # Cycle /\ "script" \in Sessions /\ Cycle \in Sessions
    BY DEF Cycle, Sessions
  <2>1. /\ ~Idle("script")' => ~Idle("script") /\ session'["script"].seen = session["script"].seen
        /\ ~Idle(Cycle)' => ~Idle(Cycle) /\ session'[Cycle].seen = session[Cycle].seen
    BY <1>1, <1>2, <1>4, <1>5, <2>0
  <2>2. ASSUME s = Cycle, NEW d \in Deals
        PROVE  /\ session'[s].mine[d].premium = session[s].seen[d].premium
               /\ session'[s].mine[d].flag \in
                      {session[s].seen[d].flag} \cup (Flags \ {"premium_out_of_bounds"})
    <3>1. /\ session[s].mine[d].premium = session[s].seen[d].premium
          /\ session[s].mine[d].flag \in
                      {session[s].seen[d].flag} \cup (Flags \ {"premium_out_of_bounds"})
      BY <1>1, <2>2 DEF IInv, PremiumsAreTheScripts
    <3>2. CASE d = Now(s)
      BY <1>4, <2>2, <3>1, <3>2 DEF Mine
    <3>3. CASE d # Now(s)
      BY <1>4, <3>1, <3>3
    <3> QED
      BY <3>2, <3>3
  <2>3. s # Cycle => session'[Cycle] = session[Cycle]
    BY <1>2, <2>0
  <2> QED
    BY <1>4, <2>0, <2>1, <2>2, <2>3 DEF IInv, PremiumsAreTheScripts
<1>9. HomesOk'
  <2>1. ASSUME NEW d \in Deals \ labelled
        PROVE  HomeOk(d, deals[d])'
    BY <2>1 DEF IInv, HomesOk, HomeOk
  <2>2. ASSUME NEW d \in Deals \ labelled, NEW t \in Sessions, ~Idle(t)'
        PROVE  HomeOk(d, session[t].mine[d])'
    <3>1. CASE t = s /\ d = Now(s)
      BY <1>4, <2>2, <3>1 DEF HomeOk
    <3>2. CASE ~(t = s /\ d = Now(s))
      <4>1. session'[t].mine[d] = session[t].mine[d] /\ ~Idle(t)
        BY <1>1, <1>2, <1>4, <1>5, <2>2, <3>2
      <4> QED
        BY <2>2, <4>1 DEF IInv, HomesOk, HomeOk
    <3> QED
      BY <3>1, <3>2
  <2> QED
    BY <2>1, <2>2 DEF HomesOk
<1> QED
  BY <1>6, <1>7, <1>8, <1>9 DEF IInv

\* What Progress leaves, with what the session holds of the cache.
LEMMA ProgressIs ==
  ASSUME NEW s \in Sessions, SessionOk(s), NEW row
  PROVE  Progress(s, row) =
           [script |-> session[s].script, todo |-> session[s].todo \ {Now(s)},
            seen |-> session[s].seen, mine |-> [session[s].mine EXCEPT ![Now(s)] = row],
            prices |-> session[s].prices, loaded |-> session[s].loaded,
            copy |-> session[s].copy]
<1> DEFINE now == Now(s)
           todo == session[s].todo \ {now}
           mine == [session[s].mine EXCEPT ![now] = row]
<1>1. Progress(s, row) = [session[s] EXCEPT !.mine = mine, !.todo = todo]
  <2> HIDE DEF now
  <2> SUFFICES [session[s] EXCEPT !.mine[now] = row, !.todo = @ \ {now}]
                 = [session[s] EXCEPT !.mine = mine, !.todo = todo]
    BY DEF Progress, now
  <2>1. session[s] = [script |-> session[s].script, todo |-> session[s].todo,
                      seen |-> session[s].seen, mine |-> session[s].mine,
                      prices |-> session[s].prices, loaded |-> session[s].loaded,
                      copy |-> session[s].copy]
    BY DEF SessionOk
  <2> QED
    BY <2>1
<1>2. session[s] = [script |-> session[s].script, todo |-> session[s].todo,
                    seen |-> session[s].seen, mine |-> session[s].mine,
                    prices |-> session[s].prices, loaded |-> session[s].loaded,
                    copy |-> session[s].copy]
  BY DEF SessionOk
<1>3. Progress(s, row) = [script |-> session[s].script, todo |-> todo,
                          seen |-> session[s].seen, mine |-> mine,
                          prices |-> session[s].prices, loaded |-> session[s].loaded,
                          copy |-> session[s].copy]
  <2> HIDE DEF mine, todo
  <2> QED
    BY <1>1, <1>2
<1> QED
  BY <1>3

LEMMA AdvanceKeeps ==
  ASSUME IInv, NEW s \in Sessions, Busy(s), NEW row, RowOk(Now(s), row),
         Mine(s).ticker # NoTicker => row.ticker # NoTicker,
         Now(s) \notin labelled => HomeOk(Now(s), row),
         s = Cycle => /\ row.premium = Mine(s).premium
                      /\ row.flag \in {Mine(s).flag} \cup (Flags \ {"premium_out_of_bounds"}),
         Advance(s, row),
         UNCHANGED <<deals, labelled, file, revision, torn>>
  PROVE  IInv'
<1>1. SessionOk(s)
  BY NowIs
<1>2. session[s].copy \in [Isins -> {0} \cup Revisions] /\ file' \in [Isins -> {0} \cup Revisions]
  BY <1>1 DEF SessionOk, IInv
<1>3. session' = [session EXCEPT ![s] =
                    [script |-> session[s].script, todo |-> session[s].todo \ {Now(s)},
                     seen |-> session[s].seen,
                     mine |-> [session[s].mine EXCEPT ![Now(s)] = row],
                     prices |-> session[s].prices, loaded |-> session[s].loaded,
                     copy |-> session[s].copy]]
  BY <1>1, ProgressIs DEF Advance
<1>4. UNCHANGED <<deals, labelled, revision, torn>>
  OBVIOUS
<1> QED
  BY <1>2, <1>3, <1>4, Works

LEMMA NotIsinKeeps ==
  ASSUME IInv, NEW s \in Sessions, NotIsin(s)
  PROVE  IInv'
<1> DEFINE row == IF session[s].script = Cycle THEN [Mine(s) EXCEPT !.flag = "not_isin"]
                  ELSE Mine(s)
<1>1. Busy(s) /\ Advance(s, row) /\ UNCHANGED <<deals, labelled, file, revision, torn>>
  BY DEF NotIsin
<1>2. /\ SessionOk(s) /\ Now(s) \in Deals /\ RowOk(Now(s), Mine(s))
      /\ Now(s) \notin labelled => HomeOk(Now(s), Mine(s))
  BY <1>1, NowIs
<1>3. /\ RowOk(Now(s), row) /\ row.ticker = Mine(s).ticker /\ row.premium = Mine(s).premium
      /\ row.flag \in {Mine(s).flag, "not_isin"}
      /\ Now(s) \notin labelled => HomeOk(Now(s), row)
  <2>1. CASE session[s].script = Cycle
    BY <1>2, <2>1, NotIsinIs
  <2>2. CASE session[s].script # Cycle
    BY <1>2, <2>2
  <2> QED
    BY <2>1, <2>2
<1>4. "not_isin" \in Flags \ {"premium_out_of_bounds"}
  BY FlagsAre
<1> HIDE DEF row
<1> QED
  BY <1>1, <1>3, <1>4, AdvanceKeeps

LEMMA DecideKeeps ==
  ASSUME IInv, Decide("script")
  PROVE  IInv'
<1> DEFINE s   == "script"
           row == Decided(Mine(s), session[s].prices[Now(s)])
<1>1. /\ Busy(s) /\ session[s].script = "p14_decide" /\ Advance(s, row)
      /\ UNCHANGED <<deals, labelled, file, revision, torn>>
  BY DEF Decide
<1>2. s \in Sessions /\ s # Cycle
  BY DEF Sessions, Cycle
<1>3. /\ SessionOk(s) /\ Now(s) \in Deals /\ RowOk(Now(s), Mine(s))
      /\ Now(s) \in session[s].todo
      /\ Now(s) \notin labelled => HomeOk(Now(s), Mine(s))
  BY <1>1, <1>2, NowIs
<1>4. Mine(s).flag = "home_venue"
  BY <1>1, <1>3 DEF SessionOk, Mine
<1> HIDE DEF s
<1>5. RowOk(Now(s), row) /\ row.ticker = Mine(s).ticker
      /\ (Now(s) \notin labelled => HomeOk(Now(s), row))
  BY <1>3, <1>4, DecidedIs
<1> HIDE DEF row
<1> QED
  BY <1>1, <1>2, <1>5, AdvanceKeeps

\* A look-up: the row asked for, the answer it gets, and what the session makes of it.
LEMMA ResolveKeeps ==
  ASSUME IInv, NEW s \in Sessions, Resolve(s)
  PROVE  IInv'
<1> DEFINE isin   == Asking(s).isin
           cached == Known(s)[isin]
           r      == IF cached # 0 THEN cached ELSE revision
           known  == [Known(s) EXCEPT ![isin] = r]
           row    == Changed(s, r)
<1>1. /\ Busy(s) /\ session[s].script # "p14_decide" /\ isin # None
      /\ session' = [session EXCEPT ![s] = [Progress(s, row) EXCEPT
                                              !.loaded = TRUE, !.copy = known]]
      /\ file' = IF cached # 0 THEN file ELSE known
      /\ UNCHANGED <<deals, labelled, revision, torn>>
  BY DEF Resolve, Asks
<1>2. /\ SessionOk(s) /\ Now(s) \in Deals /\ RowOk(Now(s), Mine(s))
      /\ Now(s) \in session[s].todo
  BY <1>1, NowIs
<1>3. RowOk(Now(s), Asking(s)) /\ Asking(s).ticker = Mine(s).ticker
      /\ Asking(s).flag = Mine(s).flag /\ Asking(s).premium = Mine(s).premium
  <2>1. CASE session[s].script = "p14_resolve"
    BY <1>2, <2>1, ExtractedIs DEF Asking
  <2>2. CASE session[s].script # "p14_resolve"
    BY <1>2, <2>2 DEF Asking
  <2> QED
    BY <2>1, <2>2
<1>4. isin \in Isins
  BY <1>1, <1>2, <1>3 DEF RowOk, Isins
<1>5. Known(s) \in [Isins -> {0} \cup Revisions]
  BY <1>2 DEF SessionOk, IInv, Known
<1> HIDE DEF isin
<1>6. r \in Revisions
  BY <1>4, <1>5 DEF IInv
<1> HIDE DEF r
<1>7. known \in [Isins -> {0} \cup Revisions] /\ file' \in [Isins -> {0} \cup Revisions]
  BY <1>1, <1>4, <1>5, <1>6 DEF IInv
<1> HIDE DEF cached, known
<1>8. /\ RowOk(Now(s), row)
      /\ Asking(s).ticker # NoTicker => row.ticker # NoTicker
      /\ Now(s) \notin labelled => HomeOk(Now(s), row)
      /\ s = Cycle => /\ row.premium = Asking(s).premium
                      /\ row.flag \in Flags \ {"premium_out_of_bounds"}
  <2>0. Asking(s).isin # None /\ "premium_out_of_bounds" \in Outcomes
    BY <1>1 DEF isin, Outcomes
  <2>1. CASE session[s].script \in {Cycle, "p14_resolve"}
    <3>1. row = Apply(Asking(s), r)
      BY <2>1 DEF Changed, Cycle
    <3> QED
      BY <1>2, <1>3, <1>6, <2>0, <3>1, ApplyIs
  <2>2. CASE session[s].script \in {"p13", "p13_force"}
    <3>1. row = Preserved(Asking(s), r)
      BY <2>2 DEF Changed, Cycle
    <3>2. s # Cycle
      BY <1>2, <2>2 DEF SessionOk, Cycle
    <3> QED
      BY <1>2, <1>3, <1>6, <2>0, <3>1, <3>2, PreservedIs
  <2>3. CASE session[s].script \in {"p11", "p11_force"}
    <3>1. row = Priced(Asking(s), session[s].prices[Now(s)], r)
      BY <2>3 DEF Changed, Cycle
    <3>2. s # Cycle /\ Now(s) \in labelled
      BY <1>2, <2>3 DEF SessionOk, Cycle
    <3> QED
      BY <1>2, <1>3, <1>6, <2>0, <3>1, <3>2, PricedIs
  <2>4. session[s].script \in {Cycle} \cup Scripts
    BY <1>2 DEF SessionOk
  <2> QED
    BY <1>1, <2>1, <2>2, <2>3, <2>4 DEF Scripts
<1> HIDE DEF row
<1>9. session' = [session EXCEPT ![s] =
                    [script |-> session[s].script, todo |-> session[s].todo \ {Now(s)},
                     seen |-> session[s].seen,
                     mine |-> [session[s].mine EXCEPT ![Now(s)] = row],
                     prices |-> session[s].prices, loaded |-> TRUE, copy |-> known]]
  <2> DEFINE mine == [session[s].mine EXCEPT ![Now(s)] = row]
             todo == session[s].todo \ {Now(s)}
  <2>1. Progress(s, row) =
           [script |-> session[s].script, todo |-> todo, seen |-> session[s].seen,
            mine |-> mine, prices |-> session[s].prices, loaded |-> session[s].loaded,
            copy |-> session[s].copy]
    BY <1>2, ProgressIs
  <2> HIDE DEF mine, todo
  <2>2. [Progress(s, row) EXCEPT !.loaded = TRUE, !.copy = known] =
           [script |-> session[s].script, todo |-> todo, seen |-> session[s].seen,
            mine |-> mine, prices |-> session[s].prices, loaded |-> TRUE, copy |-> known]
    <3> DEFINE progress == Progress(s, row)
               yes      == TRUE
               loaded   == [progress EXCEPT !.loaded = yes]
    <3> HIDE DEF yes
    <3>1. loaded = [script |-> session[s].script, todo |-> todo, seen |-> session[s].seen,
                    mine |-> mine, prices |-> session[s].prices, loaded |-> yes,
                    copy |-> session[s].copy]
      BY <2>1
    <3>2. [progress EXCEPT !.loaded = yes, !.copy = known] = [loaded EXCEPT !.copy = known]
      <4> HIDE DEF progress
      <4> QED
        BY <2>1 DEF progress
    <3> HIDE DEF loaded
    <3>3. [loaded EXCEPT !.copy = known] =
             [script |-> session[s].script, todo |-> todo, seen |-> session[s].seen,
              mine |-> mine, prices |-> session[s].prices, loaded |-> yes, copy |-> known]
      BY <3>1
    <3>4. [progress EXCEPT !.loaded = yes, !.copy = known] =
             [script |-> session[s].script, todo |-> todo, seen |-> session[s].seen,
              mine |-> mine, prices |-> session[s].prices, loaded |-> yes, copy |-> known]
      BY <3>2, <3>3, Zenon
    <3> QED
      BY <3>4, Zenon DEF yes
  <2> QED
    BY <1>1, <2>2 DEF mine, todo
<1>10. /\ Mine(s).ticker # NoTicker => row.ticker # NoTicker
       /\ s = Cycle => /\ row.premium = Mine(s).premium
                       /\ row.flag \in {Mine(s).flag} \cup (Flags \ {"premium_out_of_bounds"})
  BY <1>3, <1>8
<1> QED
  BY <1>1, <1>7, <1>8, <1>9, <1>10, Works

LEMMA Two == Sessions = {Cycle, "script"} /\ Cycle # "script"
BY DEF Sessions, Cycle

LEMMA SessionsKept ==
  ASSUME IInv, labelled \subseteq labelled', session' = [s \in Sessions |-> session'[s]],
         \A s \in Sessions : session'[s] \in {session[s], NoSession}
  PROVE  SessionsOk' /\ \A s \in Sessions : ~Idle(s)' => ~Idle(s) /\ session'[s] = session[s]
<1>1. ASSUME NEW s \in Sessions, ~Idle(s)'
      PROVE  ~Idle(s) /\ session'[s] = session[s] /\ SessionOk(s)'
  <2>1. ~Idle(s) /\ session'[s] = session[s]
    BY <1>1 DEF Idle
  <2> QED
    BY <2>1, SessionStays DEF IInv, SessionsOk
<1> QED
  BY <1>1 DEF SessionsOk

\* A step that writes no row: sessions end, deals get labels, OpenFIGI's listings and the
\* cache move.
LEMMA RowsUntouched ==
  ASSUME IInv, UNCHANGED <<deals, torn>>,
         labelled \subseteq labelled', labelled' \subseteq Deals,
         session' = [s \in Sessions |-> session'[s]],
         \A s \in Sessions : session'[s] \in {session[s], NoSession},
         revision' \in Revisions, file' \in [Isins -> {0} \cup Revisions]
  PROVE  IInv'
<1>1. SessionsOk' /\ \A s \in Sessions : ~Idle(s)' => ~Idle(s) /\ session'[s] = session[s]
  BY SessionsKept
<1>2. RowsOk(deals)'
  BY DEF IInv
<1>3. TickersStay'
  BY <1>1 DEF IInv, TickersStay
<1>4. PremiumsAreTheScripts'
  BY <1>1, Two DEF IInv, PremiumsAreTheScripts
<1>5. HomesOk'
  BY <1>1 DEF IInv, HomesOk, HomeOk
<1> QED
  BY <1>1, <1>2, <1>3, <1>4, <1>5 DEF IInv

\* A session that opens holds the rows as they are.
LEMMA OpenedKeeps ==
  ASSUME IInv, NEW s \in Sessions, NEW script \in IF s = Cycle THEN {Cycle} ELSE Scripts,
         session' = [session EXCEPT ![s] = Opened(script)],
         UNCHANGED <<deals, labelled, file, revision, torn>>
  PROVE  IInv'
<1> DEFINE todo == Selected(script)
<1>1. /\ session' = [t \in Sessions |-> session'[t]] /\ session'[s] = Opened(script)
      /\ \A t \in Sessions \ {s} : session'[t] = session[t]
  BY DEF IInv, SessionsOk
<1>2. /\ session'[s].script = script /\ session'[s].todo = todo /\ session'[s].seen = deals
      /\ session'[s].mine = deals /\ session'[s].copy = [i \in Isins |-> 0]
      /\ session'[s] = [script |-> session'[s].script, todo |-> session'[s].todo,
                        seen |-> session'[s].seen, mine |-> session'[s].mine,
                        prices |-> session'[s].prices, loaded |-> session'[s].loaded,
                        copy |-> session'[s].copy]
  <2> HIDE DEF todo
  <2> QED
    BY <1>1 DEF Opened, todo
<1>3. /\ todo \subseteq Deals
      /\ script \in {"p11", "p11_force"} => todo \subseteq labelled
      /\ script = "p14_decide" => \A d \in todo : deals[d].flag = "home_venue"
  <2>1. CASE script = Cycle
    BY <2>1, TickerAssumption DEF Selected, Cycle
  <2>2. CASE script \in {"p11", "p11_force"}
    BY <2>2, TickerAssumption DEF Selected, Cycle, IInv
  <2>3. CASE script \in {"p13", "p13_force"}
    BY <2>3, TickerAssumption DEF Selected, Cycle
  <2>4. CASE script = "p14_resolve"
    BY <2>4, TickerAssumption DEF Selected, Cycle
  <2>5. CASE script = "p14_decide"
    BY <2>5, TickerAssumption DEF Selected, Cycle
  <2> QED
    BY <2>1, <2>2, <2>3, <2>4, <2>5 DEF Scripts
<1> HIDE DEF todo
<1>4. SessionOk(s)'
  <2>1. RowsOk(deals) /\ [i \in Isins |-> 0] \in [Isins -> {0} \cup Revisions]
    BY DEF IInv
  <2> QED
    BY <1>2, <1>3, <2>1 DEF SessionOk
<1>5. \A t \in Sessions \ {s} : (Idle(t)' <=> Idle(t)) /\ (SessionOk(t) => SessionOk(t)')
  BY <1>1, SessionStays DEF Idle
<1>6. RowsOk(deals)' /\ SessionsOk'
  BY <1>1, <1>4, <1>5 DEF IInv, SessionsOk
<1>7. TickersStay'
  BY <1>1, <1>2, <1>5 DEF IInv, TickersStay
<1>8. PremiumsAreTheScripts'
  <2>1. \A d \in Deals : deals[d].flag \in Flags
    BY DEF IInv, RowsOk, RowOk
  <2>2. CASE s = Cycle
    BY <1>1, <1>2, <1>5, <2>2, Two DEF IInv, PremiumsAreTheScripts
  <2>3. CASE s = "script"
    BY <1>1, <1>2, <1>5, <2>3, Two DEF IInv, PremiumsAreTheScripts
  <2> QED
    BY <2>2, <2>3, Two
<1>9. HomesOk'
  BY <1>1, <1>2, <1>5 DEF IInv, HomesOk, HomeOk
<1> QED
  BY <1>6, <1>7, <1>8, <1>9 DEF IInv

\* A column of a committed row: the session's where it wrote, else the one in place.
LEMMA WrittenIs ==
  ASSUME IInv, NEW s \in Sessions, ~Idle(s), NEW d \in Deals
  PROVE  LET new == Written(s, d)
             old == deals[d]
             mine == session[s].mine[d]
             seen == session[s].seen[d]
         IN  /\ RowOk(d, old) /\ RowOk(d, mine) /\ RowOk(d, seen)
             /\ new = [isin |-> new.isin, flag |-> new.flag, ticker |-> new.ticker,
                       premium |-> new.premium]
             /\ new.isin = IF mine.isin = seen.isin THEN old.isin ELSE mine.isin
             /\ new.flag = IF mine.flag = seen.flag THEN old.flag ELSE mine.flag
             /\ new.ticker = IF mine.ticker = seen.ticker THEN old.ticker ELSE mine.ticker
             /\ new.premium = IF mine.premium = seen.premium THEN old.premium ELSE mine.premium
<1> DEFINE old  == deals[d]
           mine == session[s].mine[d]
           seen == session[s].seen[d]
           new  == Written(s, d)
<1>1. RowOk(d, old) /\ RowOk(d, mine) /\ RowOk(d, seen)
  BY DEF IInv, SessionsOk, SessionOk, RowsOk
<1>2. new = [c \in DOMAIN old |-> IF mine[c] = seen[c] THEN old[c] ELSE mine[c]]
  BY DEF Written
<1> HIDE DEF old, mine, seen, new
<1>3. old = Record(old.isin, old.flag, old.ticker, old.premium)
  BY <1>1 DEF RowOk, Record
<1>4. DOMAIN old = {"isin", "flag", "ticker", "premium"}
  BY <1>3 DEF Record
<1>5. /\ new.isin = IF mine.isin = seen.isin THEN old.isin ELSE mine.isin
      /\ new.flag = IF mine.flag = seen.flag THEN old.flag ELSE mine.flag
      /\ new.ticker = IF mine.ticker = seen.ticker THEN old.ticker ELSE mine.ticker
      /\ new.premium = IF mine.premium = seen.premium THEN old.premium ELSE mine.premium
  BY <1>2, <1>4
<1>6. new = [isin |-> new.isin, flag |-> new.flag, ticker |-> new.ticker,
             premium |-> new.premium]
  BY <1>2, <1>4
<1> QED
  BY <1>1, <1>5, <1>6 DEF old, mine, seen, new

\* A commit keeps each row in order: flag and premium because only one session writes
\* premiums, the ticker because it is never taken back.
LEMMA WrittenKeeps ==
  ASSUME IInv, NEW s \in Sessions, ~Idle(s), NEW d \in Deals
  PROVE  LET new == Written(s, d)
         IN  /\ RowOk(d, new)
             /\ deals[d].ticker # NoTicker => new.ticker # NoTicker
             /\ s = Cycle => /\ new.premium = deals[d].premium
                             /\ new.flag = "premium_out_of_bounds" =>
                                    deals[d].flag = "premium_out_of_bounds"
             /\ d \notin labelled /\ new.flag = "home_venue" =>
                    /\ new.ticker # NoTicker
                    /\ d \in torn \cup {x \in Deals : Tears(s, x)} \/ new.ticker \in MainTickers[d]
<1> DEFINE old  == deals[d]
           mine == session[s].mine[d]
           seen == session[s].seen[d]
           new  == Written(s, d)
<1>1. /\ RowOk(d, old) /\ RowOk(d, mine) /\ RowOk(d, seen)
      /\ new = [isin |-> new.isin, flag |-> new.flag, ticker |-> new.ticker,
                premium |-> new.premium]
      /\ new.isin = IF mine.isin = seen.isin THEN old.isin ELSE mine.isin
      /\ new.flag = IF mine.flag = seen.flag THEN old.flag ELSE mine.flag
      /\ new.ticker = IF mine.ticker = seen.ticker THEN old.ticker ELSE mine.ticker
      /\ new.premium = IF mine.premium = seen.premium THEN old.premium ELSE mine.premium
  BY WrittenIs
<1>2. seen.ticker # NoTicker => old.ticker # NoTicker /\ mine.ticker # NoTicker
  BY DEF IInv, TickersStay
<1>3. s = Cycle => /\ mine.premium = seen.premium
                   /\ mine.flag \in {seen.flag} \cup (Flags \ {"premium_out_of_bounds"})
  BY DEF IInv, PremiumsAreTheScripts
<1>4. s = "script" => /\ old.premium = seen.premium
                      /\ old.flag = "premium_out_of_bounds" =>
                             seen.flag = "premium_out_of_bounds"
  BY DEF IInv, PremiumsAreTheScripts
<1>5. d \notin labelled => HomeOk(d, old) /\ HomeOk(d, mine)
  BY DEF IInv, HomesOk
<1>6. d \in {x \in Deals : Tears(s, x)} <=>
         /\ (mine.flag # seen.flag) # (mine.ticker # seen.ticker)
         /\ old.flag # seen.flag \/ old.ticker # seen.ticker
  BY DEF Tears, Writes, Moved
<1> DEFINE tears == d \in {x \in Deals : Tears(s, x)}
<1> HIDE DEF old, mine, seen, new
<1>7. new.flag = "premium_out_of_bounds" => new.premium = NoPremium
  <2>1. CASE s = Cycle
    BY <1>1, <1>3, <2>1 DEF RowOk
  <2>2. CASE s = "script"
    BY <1>1, <1>4, <2>2 DEF RowOk
  <2> QED
    BY <2>1, <2>2, Two
<1>8. RowOk(d, new)
  BY <1>1, <1>7 DEF RowOk
<1>9. old.ticker # NoTicker => new.ticker # NoTicker
  BY <1>1, <1>2
<1>10. s = Cycle => /\ new.premium = old.premium
                    /\ new.flag = "premium_out_of_bounds" => old.flag = "premium_out_of_bounds"
  BY <1>1, <1>3
<1>11. ASSUME d \notin labelled, new.flag = "home_venue"
       PROVE  new.ticker # NoTicker /\ (d \in torn \/ tears \/ new.ticker \in MainTickers[d])
  <2>1. /\ old.flag = "home_venue" => old.ticker # NoTicker
                                      /\ (d \in torn \/ old.ticker \in MainTickers[d])
        /\ mine.flag = "home_venue" => mine.ticker # NoTicker
                                       /\ (d \in torn \/ mine.ticker \in MainTickers[d])
    BY <1>5, <1>11 DEF HomeOk
  <2>2. CASE mine.flag = seen.flag /\ mine.ticker = seen.ticker
    BY <1>1, <1>11, <2>1, <2>2
  <2>3. CASE mine.flag # seen.flag /\ mine.ticker # seen.ticker
    BY <1>1, <1>11, <2>1, <2>3
  <2>4. CASE mine.flag # seen.flag /\ mine.ticker = seen.ticker
    <3>1. new.flag = mine.flag /\ new.ticker = old.ticker /\ mine.ticker # NoTicker
      BY <1>1, <1>11, <2>1, <2>4
    <3>2. tears \/ (old.ticker = seen.ticker)
      <4> HIDE DEF tears
      <4>1. tears <=> /\ (mine.flag # seen.flag) # (mine.ticker # seen.ticker)
                      /\ old.flag # seen.flag \/ old.ticker # seen.ticker
        BY <1>6 DEF tears
      <4>2. (mine.flag # seen.flag) # (mine.ticker # seen.ticker)
        <5>1. (mine.flag # seen.flag) = TRUE /\ (mine.ticker # seen.ticker) = FALSE
          BY <2>4
        <5> QED
          BY <5>1, Zenon
      <4> QED
        BY <4>1, <4>2
    <3> HIDE DEF tears
    <3> QED
      BY <1>2, <1>11, <2>1, <2>4, <3>1, <3>2
  <2>5. CASE mine.flag = seen.flag /\ mine.ticker # seen.ticker
    <3>1. new.flag = old.flag /\ new.ticker = mine.ticker /\ mine.ticker # NoTicker
      BY <1>1, <1>2, <1>11, <2>1, <2>5
    <3>2. tears \/ (old.flag = seen.flag)
      <4> HIDE DEF tears
      <4>1. tears <=> /\ (mine.flag # seen.flag) # (mine.ticker # seen.ticker)
                      /\ old.flag # seen.flag \/ old.ticker # seen.ticker
        BY <1>6 DEF tears
      <4>2. (mine.flag # seen.flag) # (mine.ticker # seen.ticker)
        <5>1. (mine.flag # seen.flag) = FALSE /\ (mine.ticker # seen.ticker) = TRUE
          BY <2>5
        <5> QED
          BY <5>1, Zenon
      <4> QED
        BY <4>1, <4>2
    <3> HIDE DEF tears
    <3> QED
      BY <1>11, <2>1, <2>5, <3>1, <3>2
  <2> QED
    BY <2>2, <2>3, <2>4, <2>5
<1> QED
  BY <1>8, <1>9, <1>10, <1>11 DEF old, new

LEMMA CommitKeeps ==
  ASSUME IInv, NEW s \in Sessions, Commit(s)
  PROVE  IInv'
<1>1. /\ ~Idle(s) /\ deals' = [d \in Deals |-> Written(s, d)]
      /\ torn' = torn \cup {d \in Deals : Tears(s, d)}
      /\ session' = [session EXCEPT ![s] = NoSession]
      /\ labelled' = labelled /\ file' = file /\ revision' = revision
  BY DEF Commit
<1>2. /\ session' = [t \in Sessions |-> session'[t]] /\ session'[s] = NoSession
      /\ \A t \in Sessions \ {s} : session'[t] = session[t]
  BY <1>1 DEF IInv, SessionsOk
<1>3. \A t \in Sessions : session'[t] \in {session[t], NoSession}
  BY <1>2
<1>4. SessionsOk' /\ \A t \in Sessions : ~Idle(t)' => ~Idle(t) /\ session'[t] = session[t]
  BY <1>1, <1>2, <1>3, SessionsKept
<1>5. Idle(s)'
  BY <1>2 DEF Idle
<1>6. ASSUME NEW d \in Deals
      PROVE  /\ RowOk(d, deals'[d])
             /\ deals[d].ticker # NoTicker => deals'[d].ticker # NoTicker
             /\ s = Cycle => /\ deals'[d].premium = deals[d].premium
                             /\ deals'[d].flag = "premium_out_of_bounds" =>
                                    deals[d].flag = "premium_out_of_bounds"
             /\ d \notin labelled /\ deals'[d].flag = "home_venue" =>
                    /\ deals'[d].ticker # NoTicker
                    /\ d \in torn' \/ deals'[d].ticker \in MainTickers[d]
  <2>1. deals'[d] = Written(s, d)
    BY <1>1
  <2> QED
    BY <1>1, <2>1, WrittenKeeps
<1>7. RowsOk(deals)'
  BY <1>1, <1>6 DEF RowsOk
<1>8. TickersStay'
  BY <1>4, <1>6 DEF IInv, TickersStay
<1>9. PremiumsAreTheScripts'
  <2>1. CASE s = Cycle
    BY <1>4, <1>5, <1>6, <2>1, Two DEF IInv, PremiumsAreTheScripts
  <2>2. CASE s = "script"
    BY <1>4, <1>5, <2>2, Two DEF IInv, PremiumsAreTheScripts
  <2> QED
    BY <2>1, <2>2, Two
<1>10. HomesOk'
  <2>1. ASSUME NEW d \in Deals \ labelled
        PROVE  HomeOk(d, deals[d])'
    BY <1>6, <2>1 DEF HomeOk
  <2>2. ASSUME NEW d \in Deals \ labelled, NEW t \in Sessions, ~Idle(t)'
        PROVE  HomeOk(d, session[t].mine[d])'
    <3>1. session'[t] = session[t] /\ HomeOk(d, session[t].mine[d])
      BY <1>4, <2>2 DEF IInv, HomesOk
    <3> QED
      BY <1>1, <3>1 DEF HomeOk
  <2> QED
    BY <1>1, <2>1, <2>2 DEF HomesOk
<1>11. torn' \subseteq Deals
  BY <1>1 DEF IInv
<1> QED
  BY <1>1, <1>4, <1>7, <1>8, <1>9, <1>10, <1>11 DEF IInv

LEMMA ExtractKeeps ==
  ASSUME IInv, NEW jur, ExtractIsins(jur)
  PROVE  IInv'
<1>1. /\ Idle("script")
      /\ deals' = [d \in Deals |-> IF d \in labelled /\ Jur[d] = jur
                                   THEN Extracted(deals[d], d) ELSE deals[d]]
      /\ UNCHANGED <<labelled, session, file, revision, torn>>
  BY DEF ExtractIsins
<1>2. ASSUME NEW d \in Deals
      PROVE  /\ RowOk(d, deals'[d]) /\ deals'[d].flag = deals[d].flag
             /\ deals'[d].ticker = deals[d].ticker /\ deals'[d].premium = deals[d].premium
  <2>1. RowOk(d, deals[d])
    BY DEF IInv, RowsOk
  <2>2. deals'[d] = Extracted(deals[d], d) \/ deals'[d] = deals[d]
    BY <1>1
  <2> QED
    BY <2>1, <2>2, ExtractedIs
<1>3. RowsOk(deals)'
  BY <1>1, <1>2 DEF RowsOk
<1>4. SessionsOk' /\ \A s \in Sessions : ~Idle(s)' => ~Idle(s) /\ session'[s] = session[s]
  <2>1. /\ labelled \subseteq labelled' /\ session' = [s \in Sessions |-> session'[s]]
        /\ \A s \in Sessions : session'[s] \in {session[s], NoSession}
    BY <1>1 DEF IInv, SessionsOk
  <2> QED
    BY <2>1, SessionsKept
<1>5. TickersStay'
  BY <1>2, <1>4 DEF IInv, TickersStay
<1>6. PremiumsAreTheScripts'
  BY <1>1, <1>4, Two DEF IInv, PremiumsAreTheScripts, Idle
<1>7. HomesOk'
  BY <1>1, <1>2, <1>4 DEF IInv, HomesOk, HomeOk
<1> QED
  BY <1>1, <1>3, <1>4, <1>5, <1>6, <1>7 DEF IInv

LEMMA NextIInv == IInv /\ [Next]_vars => IInv'
<1> SUFFICES ASSUME IInv, [Next]_vars PROVE IInv'
  OBVIOUS
<1>0. /\ session = [s \in Sessions |-> session[s]] /\ revision \in Revisions
      /\ file \in [Isins -> {0} \cup Revisions] /\ labelled \subseteq Deals
      /\ Cycle \in Sessions /\ "script" \in Sessions
  BY Two DEF IInv, SessionsOk
<1>1. CASE StartCycle
  <2>1. session' = [session EXCEPT ![Cycle] = Opened(Cycle)]
        /\ UNCHANGED <<deals, labelled, file, revision, torn>>
    BY <1>1 DEF StartCycle
  <2> QED
    BY <1>0, <2>1, OpenedKeeps
<1>2. ASSUME NEW script \in Scripts, StartScript(script)
      PROVE  IInv'
  <2>1. session' = [session EXCEPT !["script"] = Opened(script)]
        /\ UNCHANGED <<deals, labelled, file, revision, torn>>
    BY <1>2 DEF StartScript
  <2> QED
    BY <1>0, <2>1, Two, OpenedKeeps
<1>3. ASSUME NEW s \in Sessions, Resolve(s) \/ NotIsin(s) \/ Commit(s)
      PROVE  IInv'
  BY <1>3, ResolveKeeps, NotIsinKeeps, CommitKeeps
<1>4. CASE Decide("script")
  BY <1>4, DecideKeeps
<1>5. ASSUME NEW s \in Sessions, EndsUncommitted(s)
      PROVE  IInv'
  <2>1. /\ session' = [session EXCEPT ![s] = NoSession]
        /\ file' \in {file, [i \in Isins |-> 0]}
        /\ UNCHANGED <<deals, labelled, revision, torn>>
    BY <1>5 DEF EndsUncommitted
  <2>2. /\ session' = [t \in Sessions |-> session'[t]]
        /\ \A t \in Sessions : session'[t] \in {session[t], NoSession}
    BY <1>0, <2>1
  <2>3. file' \in [Isins -> {0} \cup Revisions]
    BY <1>0, <2>1
  <2> QED
    BY <1>0, <2>1, <2>2, <2>3, RowsUntouched
<1>6. CASE ExtractFrench \/ ExtractGerman
  BY <1>6, ExtractKeeps DEF ExtractFrench, ExtractGerman
<1>7. ASSUME NEW d \in Deals, ImportLabel(d)
      PROVE  IInv'
  <2>1. labelled' = labelled \cup {d} /\ UNCHANGED <<deals, session, file, revision, torn>>
    BY <1>7 DEF ImportLabel
  <2> QED
    BY <1>0, <2>1, RowsUntouched
<1>8. ASSUME UNCHANGED <<deals, labelled, session, torn>>,
             revision' \in Revisions, file' \in [Isins -> {0} \cup Revisions]
      PROVE  IInv'
  BY <1>0, <1>8, RowsUntouched
<1>9. ASSUME NEW d \in Deals, Correct(d)
      PROVE  IInv'
  BY <1>0, <1>8, <1>9 DEF Correct
<1>10. CASE NewListings
  BY <1>0, <1>8, <1>10 DEF NewListings
<1>11. ASSUME NEW i \in Isins, Expire(i)
       PROVE  IInv'
  <2>1. file' = [file EXCEPT ![i] = 0] /\ UNCHANGED <<deals, labelled, session, revision, torn>>
    BY <1>11 DEF Expire
  <2>2. file' \in [Isins -> {0} \cup Revisions]
    BY <1>0, <2>1
  <2> QED
    BY <1>0, <1>8, <2>1, <2>2
<1>12. CASE UNCHANGED vars
  BY <1>0, <1>8, <1>12 DEF vars
<1> QED
  BY <1>0, <1>1, <1>2, <1>3, <1>4, <1>5, <1>6, <1>7, <1>9, <1>10, <1>11, <1>12
     DEF Next, CycleStep

LEMMA Invariant == Spec => []IInv
BY InitIInv, NextIInv, PTL DEF Spec

-----------------------------------------------------------------------------
(* Theorems *)

\* Rows, cache and transactions hold values of their columns: an ISIN is the one the
\* document prints, a premium is one that passed the gate.
THEOREM TypeCorrect == Spec => []TypeOK
<1>1. IInv => TypeOK
  BY DEF IInv, TypeOK, RowsOk, RowOk, SessionsOk, SessionOk
<1> QED
  BY <1>1, Invariant, PTL

\* Whatever the cycle, the scripts, crashes and new listings do to each other, a deal the
\* gate lets through trades the ticker it is priced by: one of its own ISIN, on the main
\* market unless a commit tore flag and ticker apart; and no premium out of bounds stays.
THEOREM GateIsTrue == Spec => []GateHolds
<1>1. IInv => GateHolds
  <2> SUFFICES ASSUME IInv, NEW d \in Deals
               PROVE  /\ d \notin labelled /\ deals[d].flag = "home_venue" =>
                           \E r \in Revisions :
                              LET t == Answer(Isin[d], r).ticker
                              IN  /\ t # NoTicker /\ deals[d].ticker = t
                                  /\ t \in MainTickers[d] \/ d \in torn
                                  /\ Contract(d) = [symbol |-> t[1],
                                                    exchange |-> IbkrExchange[t[2]]]
                      /\ deals[d].flag = "premium_out_of_bounds" =>
                             deals[d].premium = NoPremium
    BY DEF GateHolds
  <2>1. RowOk(d, deals[d]) /\ (d \notin labelled => HomeOk(d, deals[d]))
    BY DEF IInv, RowsOk, HomesOk
  <2>2. deals[d].flag = "premium_out_of_bounds" => deals[d].premium = NoPremium
    BY <2>1 DEF RowOk
  <2>3. ASSUME d \notin labelled, deals[d].flag = "home_venue"
        PROVE  \E r \in Revisions :
                  LET t == Answer(Isin[d], r).ticker
                  IN  /\ t # NoTicker /\ deals[d].ticker = t
                      /\ t \in MainTickers[d] \/ d \in torn
                      /\ Contract(d) = [symbol |-> t[1], exchange |-> IbkrExchange[t[2]]]
    <3>1. /\ deals[d].ticker # NoTicker /\ deals[d].ticker \in Own(d)
          /\ d \in torn \/ deals[d].ticker \in MainTickers[d]
      BY <2>1, <2>3 DEF RowOk, HomeOk
    <3>2. PICK r \in Revisions : deals[d].ticker = Answer(Isin[d], r).ticker
      BY <3>1 DEF Own
    <3>3. Contract(d) = [symbol |-> deals[d].ticker[1],
                         exchange |-> IbkrExchange[deals[d].ticker[2]]]
      <4> DEFINE ticker == deals[d].ticker
                 Hand   == [symbol |-> ticker[1], exchange |-> IbkrExchange[ticker[2]]]
      <4>1. Contract(d) =
              CASE ticker # NoTicker -> Hand
                [] ticker = NoTicker /\ Mapped[d] # None ->
                     [symbol |-> Mapped[d], exchange |-> JurExchange[Jur[d]]]
                [] OTHER -> [symbol |-> IF Jur[d] = "DE" THEN Isin[d] ELSE deals[d].isin,
                             exchange |-> JurExchange[Jur[d]]]
        BY DEF Contract
      <4> HIDE DEF Hand
      <4>2. ticker # NoTicker /\ ~(ticker = NoTicker /\ Mapped[d] # None)
        BY <3>1
      <4> HIDE DEF ticker
      <4> QED
        BY <4>1, <4>2 DEF Hand, ticker
    <3> QED
      BY <3>1, <3>2, <3>3
  <2> QED
    BY <2>2, <2>3
<1> QED
  BY <1>1, Invariant, PTL

=============================================================================
