-------------------------- MODULE TickerResolution --------------------------
(***************************************************************************)
(* How a deal gets the ticker it is priced and traded by (src/pricing, the *)
(* p10, p11, p13 and p14 scripts, load_candidates).  The ISIN is printed   *)
(* in the offer document; OpenFIGI maps it to venues, of which one gives   *)
(* the Yahoo ticker and a flag; the FR gate trades "home_venue" only.      *)
(*                                                                         *)
(* The trading cycle resolves unresolved candidates while the operator     *)
(* runs one script at a time.  Each is one transaction over the rows it    *)
(* loaded, and writes the columns it changed; both keep a copy of the      *)
(* OpenFIGI cache from their first look-up and write the file whole.       *)
(*                                                                         *)
(* Left out: throttling and retries of a request (a failure is one that    *)
(* exhausted them), currency suffixes of tickers, exchange rates, dry runs *)
(* and the audit files.                                                    *)
(***************************************************************************)
EXTENDS Integers, Sequences, FiniteSets, FiniteSetsExt, SequencesExt

CONSTANTS
    Deals,      \* ids
    Jur,        \* juridiction
    Isin,       \* the ISIN a document prints, or None
    Stored,     \* deals whose ISIN was stored at ingestion
    Labelled,   \* deals with a completion_label from the start
    Candidates, \* deals scored 3 stars or more, at a price flag that trades
    Fresh,      \* deals announced since SINCE
    Country,    \* prefix of an ISIN
    Listings,   \* the equity rows OpenFIGI lists for an ISIN, one per revision
    Mapped,     \* symbol ticker_mapping.json gives the target's name, or None
    Closes,     \* close of a Yahoo ticker on the day before, NoClose if none
    Offers,     \* successive offer prices of a deal
    MaxRuns,    \* script runs (bound)
    MaxFaults   \* sessions that end without commit (bound)

None == "none" \* of an ISIN or a flag
NoTicker == <<>>
NoPremium == 1000
NoClose == 0
Scripts == {"p11", "p11_force", "p13", "p13_force", "p14_resolve", "p14_decide"}
Cycle == "cycle"
Sessions == {Cycle, "script"}

\* COUNTRY_TO_BBG_EXCH, BBG_TO_YAHOO_SUFFIX, GROWTH_VENUES; BBG_TO_IBKR_EXCHANGE and
\* JURISDICTION_EXCHANGE, by suffix and by juridiction.
HomeVenues ==
    [FR |-> <<"FP", "XS", "XH", "EO">>, DE |-> <<"GR", "GY">>, IT |-> <<"IM">>,
     NL |-> <<"NA">>, BE |-> <<"BB">>, ES |-> <<"SM">>, GB |-> <<"LN">>]
Suffix ==
    [FP |-> ".PA", XS |-> ".PA", XH |-> ".PA", EO |-> ".PA", GR |-> ".DE", GY |-> ".DE",
     IM |-> ".MI", NA |-> ".AS", BB |-> ".BR", SM |-> ".MC", LN |-> ".L"]
GrowthVenues == {"XS", "XH", "EO"}
IbkrExchange ==
    (".PA" :> "SBF") @@ (".DE" :> "IBIS") @@ (".MI" :> "BVME") @@ (".AS" :> "AEB") @@
    (".BR" :> "ENEXT.BE") @@ (".MC" :> "BM") @@ (".L" :> "LSE")
JurExchange == [FR |-> "SBF", DE |-> "IBIS", IT |-> "BVME"]

Outcomes == {"premium_out_of_bounds", "no_price_data", "manual_review"}
Flags == Outcomes \cup {None, "home_venue", "home_venue_growth", "venue_fallback",
                        "no_match", "unknown_exch", "not_isin"}
Isins == {Isin[d] : d \in Deals} \ {None}
Revisions == DOMAIN Listings

ASSUME TickerAssumption ==
    /\ IsFiniteSet(Deals) /\ Deals \subseteq Nat
    /\ Labelled \cup Stored \cup Candidates \cup Fresh \subseteq Deals
    /\ MaxRuns \in Nat /\ MaxFaults \in Nat

ASSUME ListingsAssumption ==
    /\ 1 \in Revisions
    /\ \A r \in Revisions, i \in Isins :
           Listings[r][i] \in Seq([exch : STRING, ticker : STRING, figi : STRING])

VARIABLES
    deals,    \* ticker_target, flag, ticker, premium of each deal
    labelled, \* deals with a completion_label
    offer,    \* offer_price
    session,  \* the cycle's and the script's
    file,     \* revision of the answer cached on disk for an ISIN, 0 if none
    revision, \* of OpenFIGI's listings
    runs, faults,
    torn      \* history: deals of which a commit wrote the flag or the ticker, not both,
              \* over a row whose flag or ticker had changed since it was loaded

vars == <<deals, labelled, offer, session, file, revision, runs, faults, torn>>

NoSession == [script |-> None]
Idle(s) == session[s] = NoSession

-----------------------------------------------------------------------------
(* From an ISIN to a Yahoo ticker. *)

Yahoo(row) == <<row.ticker, Suffix[row.exch]>>

\* The first home venue listed, in the country's order; else the first row of the
\* most frequent compositeFIGI.
HomeRow(rows, country) ==
    LET venues == IF country \in DOMAIN HomeVenues THEN HomeVenues[country] ELSE <<>>
        listed == {i \in DOMAIN venues : \E k \in DOMAIN rows : rows[k].exch = venues[i]}
    IN  IF listed = {} THEN 0
        ELSE Min({k \in DOMAIN rows : rows[k].exch = venues[Min(listed)]})

DominantRow(rows) ==
    LET Count(k) == Cardinality({j \in DOMAIN rows : rows[j].figi = rows[k].figi})
    IN  Min({k \in DOMAIN rows : \A j \in DOMAIN rows : Count(j) <= Count(k)})

\* select_home_venue and _from_rows: the flag and the ticker, None without a suffix.
Resolution(rows, country) ==
    LET home == HomeRow(rows, country)
        row == rows[IF home # 0 THEN home ELSE DominantRow(rows)]
        source == CASE home = 0 -> "venue_fallback"
                    [] home # 0 /\ row.exch \in GrowthVenues -> "home_venue_growth"
                    [] OTHER -> "home_venue"
    IN  CASE rows = <<>> -> [flag |-> "no_match", ticker |-> NoTicker]
          [] rows # <<>> /\ row.exch \notin DOMAIN Suffix ->
                 [flag |-> "unknown_exch", ticker |-> NoTicker]
          [] OTHER -> [flag |-> source, ticker |-> Yahoo(row)]

Answers == [r \in Revisions |-> [i \in Isins |-> Resolution(Listings[r][i], Country[i])]]
Answer(isin, r) == Answers[r][isin]

-----------------------------------------------------------------------------
(* What each session does to the row of one deal; r is the answer it got. *)

\* apply_resolution: a miss leaves the ticker columns as they were.
ApplyUnticketed(row, r) ==
    [row EXCEPT !.flag = Answer(row.isin, r).flag,
                !.ticker = IF @ = NoTicker THEN Answer(row.isin, r).ticker ELSE @]

Apply(row, r) ==
    [row EXCEPT !.flag = Answer(row.isin, r).flag,
                !.ticker = IF Answer(row.isin, r).ticker = NoTicker THEN @
                           ELSE Answer(row.isin, r).ticker]

\* p13: a processing outcome stays.
Preserved(row, r) ==
    [Apply(row, r) EXCEPT !.flag = IF row.flag \in Outcomes THEN row.flag ELSE @]

\* The premium sanity gate, in percent of the close before the announcement.
Premium(price, close) == ((price - close) * 100) \div close
InBounds(premium) == premium \in -50..200
GatedUnchecked(row, price, flag) ==
    [row EXCEPT !.flag = flag, !.premium = Premium(price, Closes[row.ticker])]

Gated(row, price, flag) ==
    LET close == Closes[row.ticker]
        premium == Premium(price, close)
    IN  IF InBounds(premium) THEN [row EXCEPT !.flag = flag, !.premium = premium]
        ELSE [row EXCEPT !.flag = "premium_out_of_bounds", !.premium = NoPremium]

\* p11 prices by the answer's ticker and stores the flag, not the ticker.
Priced(row, price, r) ==
    LET answer == Answer(row.isin, r)
        probe == [row EXCEPT !.ticker = answer.ticker]
    IN  CASE answer.flag \notin {"home_venue", "venue_fallback"} ->
                 [row EXCEPT !.flag = answer.flag]
          [] answer.flag \in {"home_venue", "venue_fallback"} /\ Closes[answer.ticker] = NoClose ->
                 [row EXCEPT !.flag = "no_price_data"]
          [] OTHER -> [Gated(probe, price, answer.flag) EXCEPT !.ticker = row.ticker]

\* p14_decide: without a close the deal is excluded this time.
Decided(row, price) ==
    IF Closes[row.ticker] = NoClose THEN row ELSE Gated(row, price, row.flag)

\* p14_resolve takes the ISIN from the document first.
Extracted(row, d) == [row EXCEPT !.isin = IF @ = None THEN Isin[d] ELSE @]

\* TickerResolver.resolve, the contract of an order: the stored ticker, else the one
\* mapped by hand, else the ISIN, which a German reference holds too.
Contract(d) ==
    LET row == deals[d]
        OnExchange(symbol) == [symbol |-> symbol, exchange |-> JurExchange[Jur[d]]]
        isin == IF Jur[d] = "DE" THEN Isin[d] ELSE row.isin
    IN  CASE row.ticker # NoTicker ->
                 [symbol |-> row.ticker[1], exchange |-> IbkrExchange[row.ticker[2]]]
          [] row.ticker = NoTicker /\ Mapped[d] # None -> OnExchange(Mapped[d])
          [] OTHER -> OnExchange(isin)

NeedsResolutionListed(row) == row.flag = None /\ row.isin # None

NeedsResolution(row) == row.flag = None

-----------------------------------------------------------------------------
(* Sessions. *)

Selected(script) ==
    CASE script = Cycle -> {d \in Candidates \ labelled : NeedsResolution(deals[d])}
      [] script \in {"p11", "p11_force"} ->
             {d \in labelled : /\ deals[d].isin # None
                               /\ script = "p11_force" \/ deals[d].flag = None}
      [] script \in {"p13", "p13_force"} ->
             {d \in Deals : /\ deals[d].isin # None
                            /\ script = "p13_force" \/ deals[d].ticker = NoTicker}
      [] script = "p14_resolve" -> {d \in Fresh \ labelled : Jur[d] = "FR"}
      [] script = "p14_decide" ->
             {d \in (Fresh \cap Candidates) \ labelled :
                 Jur[d] \in {"FR", "DE"} /\ deals[d].flag = "home_venue"}

Opened(script) ==
    [script |-> script, todo |-> Selected(script), seen |-> deals, mine |-> deals,
     prices |-> offer, loaded |-> FALSE, copy |-> [i \in Isins |-> 0]]

StartCycle ==
    /\ Idle(Cycle) /\ Selected(Cycle) # {}
    /\ session' = [session EXCEPT ![Cycle] = Opened(Cycle)]
    /\ UNCHANGED <<deals, labelled, offer, file, revision, runs, faults, torn>>

StartScript(script) ==
    /\ Idle("script") /\ runs < MaxRuns /\ Selected(script) # {}
    /\ session' = [session EXCEPT !["script"] = Opened(script)]
    /\ runs' = runs + 1
    /\ UNCHANGED <<deals, labelled, offer, file, revision, faults, torn>>

Now(s) == Min(session[s].todo)
Mine(s) == session[s].mine[Now(s)]
Busy(s) == ~Idle(s) /\ session[s].todo # {}

\* The row the session's resolver asks for: p14_resolve has extracted the ISIN by then.
Asking(s) == IF session[s].script = "p14_resolve" THEN Extracted(Mine(s), Now(s)) ELSE Mine(s)
Asks(s) == session[s].script # "p14_decide" /\ Asking(s).isin # None

Known(s) == IF session[s].loaded THEN session[s].copy ELSE file

Changed(s, r) ==
    LET row == Asking(s)
    IN  CASE session[s].script \in {Cycle, "p14_resolve"} -> Apply(row, r)
          [] session[s].script \in {"p13", "p13_force"} -> Preserved(row, r)
          [] session[s].script \in {"p11", "p11_force"} -> Priced(row, session[s].prices[Now(s)], r)

Progress(s, row) ==
    [session[s] EXCEPT !.mine[Now(s)] = row, !.todo = @ \ {Now(s)}]
Advance(s, row) == session' = [session EXCEPT ![s] = Progress(s, row)]

\* resolve_isin_to_yahoo_ticker, resolve_batch: from the copy, or asked and cached.
Resolve(s) ==
    /\ Busy(s) /\ Asks(s)
    /\ LET isin == Asking(s).isin
           cached == Known(s)[isin]
           r == IF cached # 0 THEN cached ELSE revision
           copy == [Known(s) EXCEPT ![isin] = r]
       IN  /\ session' = [session EXCEPT ![s] = [Progress(s, Changed(s, r)) EXCEPT
                                                    !.loaded = TRUE, !.copy = copy]]
           /\ file' = IF cached # 0 THEN file ELSE copy
    /\ UNCHANGED <<deals, labelled, offer, revision, runs, faults, torn>>

\* No ISIN: the cycle flags the deal, p14_resolve leaves it.
NotIsin(s) ==
    /\ Busy(s) /\ session[s].script # "p14_decide" /\ Asking(s).isin = None
    /\ Advance(s, IF session[s].script = Cycle THEN [Mine(s) EXCEPT !.flag = "not_isin"]
                  ELSE Mine(s))
    /\ UNCHANGED <<deals, labelled, offer, file, revision, runs, faults, torn>>

Decide(s) ==
    /\ Busy(s) /\ session[s].script = "p14_decide"
    /\ Advance(s, Decided(Mine(s), session[s].prices[Now(s)]))
    /\ UNCHANGED <<deals, labelled, offer, file, revision, runs, faults, torn>>

\* The UPDATE of a row carries the columns that differ from those loaded.
Written(s, d) ==
    [c \in DOMAIN deals[d] |->
        IF session[s].mine[d][c] = session[s].seen[d][c] THEN deals[d][c]
        ELSE session[s].mine[d][c]]

Writes(s, d, c) == session[s].mine[d][c] # session[s].seen[d][c]
Moved(s, d, c) == deals[d][c] # session[s].seen[d][c]
Tears(s, d) ==
    /\ Writes(s, d, "flag") # Writes(s, d, "ticker")
    /\ Moved(s, d, "flag") \/ Moved(s, d, "ticker")

Commit(s) ==
    /\ ~Idle(s) /\ session[s].todo = {}
    /\ deals' = [d \in Deals |-> Written(s, d)]
    /\ torn' = torn \cup {d \in Deals : Tears(s, d)}
    /\ session' = [session EXCEPT ![s] = NoSession]
    /\ UNCHANGED <<labelled, offer, file, revision, runs, faults>>

\* OpenFIGI fails for good, the process ends, or the cycle halts: nothing is
\* committed, and a write of the cache file cut off leaves one that reads as empty.
EndsUncommitted(s) ==
    /\ ~Idle(s) /\ faults < MaxFaults
    /\ session' = [session EXCEPT ![s] = NoSession]
    /\ file' \in {file, [i \in Isins |-> 0]}
    /\ faults' = faults + 1
    /\ UNCHANGED <<deals, labelled, offer, revision, runs, torn>>

-----------------------------------------------------------------------------
(* Around them. *)

\* p10: the ISIN of labelled deals; import_labels: the label; price corrections.
ExtractIsins(jur) ==
    /\ Idle("script")
    /\ deals' = [d \in Deals |-> IF d \in labelled /\ Jur[d] = jur THEN Extracted(deals[d], d)
                                 ELSE deals[d]]
    /\ deals' # deals
    /\ UNCHANGED <<labelled, offer, session, file, revision, runs, faults, torn>>

ExtractFrench == ExtractIsins("FR")
ExtractGerman == ExtractIsins("DE")

ImportLabel(d) ==
    /\ Idle("script") /\ d \notin labelled
    /\ labelled' = labelled \cup {d}
    /\ UNCHANGED <<deals, offer, session, file, revision, runs, faults, torn>>

Correct(d) ==
    /\ Idle("script") /\ offer[d] # Last(Offers[d])
    /\ offer' = [offer EXCEPT ![d] = Last(Offers[d])]
    /\ UNCHANGED <<deals, labelled, session, file, revision, runs, faults, torn>>

NewListings ==
    /\ revision + 1 \in Revisions
    /\ revision' = revision + 1
    /\ UNCHANGED <<deals, labelled, offer, session, file, runs, faults, torn>>

\* CACHE_TTL has passed since an answer: the file and the copies hold the same date.
Expire(isin) ==
    /\ file[isin] # 0 /\ file[isin] # revision
    /\ \A s \in Sessions : Idle(s)
    /\ file' = [file EXCEPT ![isin] = 0]
    /\ UNCHANGED <<deals, labelled, offer, session, revision, runs, faults, torn>>

Init ==
    /\ deals = [d \in Deals |-> [isin |-> IF d \in Stored THEN Isin[d] ELSE None,
                                 flag |-> None, ticker |-> NoTicker, premium |-> NoPremium]]
    /\ labelled = Labelled
    /\ offer = [d \in Deals |-> Head(Offers[d])]
    /\ session = [s \in Sessions |-> NoSession]
    /\ file = [i \in Isins |-> 0]
    /\ revision = 1 /\ runs = 0 /\ faults = 0 /\ torn = {}

CycleStep == StartCycle \/ Resolve(Cycle) \/ NotIsin(Cycle) \/ Commit(Cycle)

Next == \/ CycleStep
        \/ \E script \in Scripts : StartScript(script)
        \/ Resolve("script") \/ NotIsin("script") \/ Decide("script") \/ Commit("script")
        \/ \E s \in Sessions : EndsUncommitted(s)
        \/ ExtractFrench \/ ExtractGerman \/ NewListings
        \/ \E d \in Deals : ImportLabel(d) \/ Correct(d)
        \/ \E i \in Isins : Expire(i)

\* The 9h loop runs a cycle every day, and a cycle that started goes on.
Spec == Init /\ [][Next]_vars /\ WF_vars(CycleStep)

-----------------------------------------------------------------------------
(* Properties. *)

TypeOK ==
    /\ \A d \in Deals : /\ deals[d].isin \in {None, Isin[d]}
                        /\ deals[d].flag \in Flags
                        /\ deals[d].premium # NoPremium => InBounds(deals[d].premium)
    /\ Labelled \subseteq labelled /\ labelled \subseteq Deals /\ torn \subseteq Deals
    /\ file \in [Isins -> {0} \cup Revisions]
    /\ \A s \in Sessions : Idle(s) \/ session[s].copy \in [Isins -> {0} \cup Revisions]

\* Main-market tickers OpenFIGI has listed for a deal's ISIN.
MainTickers ==
    [d \in Deals |->
        LET rows == UNION {ToSet(Listings[r][Isin[d]]) : r \in Revisions}
            main == ToSet(HomeVenues[Country[Isin[d]]]) \ GrowthVenues
        IN  {Yahoo(row) : row \in {row \in rows : row.exch \in main}}]

\* openfigi_resolver.py:132-138, scheduler.py:280-285: whatever the cycle and a script
\* write over each other, a deal the gate lets through is priced and traded by one
\* ticker of its own ISIN, whatever the mapping by hand says of its name; it is one on
\* the main market, unless a commit tore the two columns apart; and a premium that
\* failed the gate is not kept.
GateHolds ==
    \A d \in Deals :
        /\ d \notin labelled /\ deals[d].flag = "home_venue" =>
               \E r \in Revisions :
                   LET t == Answer(Isin[d], r).ticker
                   IN  /\ t # NoTicker /\ deals[d].ticker = t
                       /\ t \in MainTickers[d] \/ d \in torn
                       /\ Contract(d) = [symbol |-> t[1], exchange |-> IbkrExchange[t[2]]]
        /\ deals[d].flag = "premium_out_of_bounds" => deals[d].premium = NoPremium

\* load_candidates: a candidate that was never resolved is resolved in the end,
\* though cycles fail and scripts write its row meanwhile.
EventuallyResolved ==
    \A d \in Candidates : (deals[d].flag = None) ~> (deals[d].flag # None \/ d \in labelled)

\* ticker_resolution.py:57-61: a deal whose premium failed the gate is not exposed to the
\* trading gate again by a resolution.
OutcomeKept ==
    [][\A d \in Deals \ labelled : deals[d].flag = "premium_out_of_bounds" =>
           deals'[d].flag # "home_venue"]_vars

=============================================================================
