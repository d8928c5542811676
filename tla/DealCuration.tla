---------------------------- MODULE DealCuration ----------------------------
(***************************************************************************)
(* The rows of deals after they were stored: the price and quality flag    *)
(* the scripts of phases 9 to 14 give them, and the scores computed from   *)
(* them (src/scripts, scoring/inference.py, pricing/recalc.py).  An        *)
(* operator runs one script at a time; it loads its rows at the start,     *)
(* commits deal by deal and may be cut off anywhere, while the pollers     *)
(* keep inserting and refreshing rows.  A session keeps the rows it loaded *)
(* (expire_on_commit=False) and writes only the columns it changed.        *)
(*                                                                         *)
(* A document is what the parser reads in it.  A score is the price and    *)
(* the mixed total of its deal at the time; features, model and stars are  *)
(* left out, and so are dry runs and the audit files.  The script for      *)
(* small caps takes its twelve ids, the scorer its labels, as given.       *)
(***************************************************************************)
EXTENDS Integers, Sequences, FiniteSets, FiniteSetsExt

CONSTANTS
    Deals,     \* ids
    Jur,       \* juridiction: "FR", "DE", "IT"
    Target,    \* target_name
    Announced, \* announcement_date, later is greater
    Opas,      \* Italian exchange offers (deal_type)
    Unnamed,   \* deals whose target is still '[pending parse]'
    Fresh,     \* FR and DE deals since SINCE without a label
    HomeVenue, \* deals resolved to their home venue
    SmallCaps, \* DEAL_IDS of the validation
    Parsers,   \* revisions of the parsers, in order, as naturals
    Reads,     \* what a revision makes of a deal's local document
    Legs,      \* cash and share ratio of mixed offers, acquirer known or not
    Legacy,    \* rows each deal may have before the scripts ran, {} if none
    Closes,    \* closes Yahoo may answer
    MaxRuns,   \* script runs (bound)
    MaxFaults  \* runs cut off (bound)

None == -1 \* of a price, in cents
Default == "suspect_low_unverified"
Version == 2 \* PARSER_VERSION, PARSER_VERSION_02A, PARSER_VERSION_02D
Flags == {Default, "verified_cash", "verified_mixed", "suspect_mixed",
          "failed_validation", "manual_review"}
Row == [price : Int, flag : Flags, version : {1, Version}, total : Int]
NoRow == [price |-> None, flag |-> Default, version |-> 1, total |-> None]
Basis == [price : Int, total : Int]
Line == [old : Int, new : Int]
NoLine == [old |-> None, new |-> None]

PerDeal == {"backfill_p92_02a", "backfill_p91a", "reparse_p91cbis",
            "promote_consob_flags_02d", "populate_deal_consideration",
            "recalc_offer_price_total", "validate_small_caps", "score_deals_run"}

ASSUME CurationAssumption ==
    /\ Deals \subseteq Nat /\ IsFiniteSet(Deals)
    /\ Jur \in [Deals -> {"FR", "DE", "IT"}]
    /\ Announced \in [Deals -> Nat]
    /\ \A d, e \in Deals : Announced[d] = Announced[e] => d = e
    /\ Fresh \subseteq {d \in Deals : Jur[d] # "IT"}
    /\ MaxRuns \in Nat /\ MaxFaults \in Nat

\* Migrations 0014 and 0015 gave the rows of the time flag, version and total; the small
\* caps validated are German; _extract_offer reads no scalar price in a mixed offer.
ASSUME DataAssumption ==
    /\ \A d \in Deals : Legacy[d] \subseteq
           {row \in Row : row.flag = Default /\ row.version = 1 /\ row.total = None}
    /\ SmallCaps \subseteq {d \in Deals : Jur[d] = "DE"}
    /\ Parsers \subseteq Nat /\ Parsers # {}
    /\ \A p \in Parsers, d \in Deals :
           /\ Reads[p][d].price \in Int /\ Reads[p][d].flag \in Flags
           /\ Jur[d] = "DE" /\ Reads[p][d].flag = "suspect_mixed" => Reads[p][d].price = None
    /\ \A d \in Deals : Legs[d].cash \in Int /\ Legs[d].ratio \in Int
    /\ Closes \subseteq Int

VARIABLES
    known,   \* deals that have a row
    deals,   \* offer_price, quality flag, parser_version, offer_price_total_eur
    legs,    \* deals with a deal_consideration row
    scores,  \* rows of scores, per deal, in order of insertion
    csv,     \* CORRECTED lines of p92_02b_re_run_comparison.csv
    parser,  \* revision installed
    job,     \* the script under way: its deals to do, the rows it loaded, scores to insert
    runs, faults

vars == <<known, deals, legs, scores, csv, parser, job, runs, faults>>

NoJob == [script |-> "none", todo |-> {}, seen |-> [d \in Deals |-> NoRow], pending |-> {}]
Read(d) == Reads[parser][d]
Readable(d) == Read(d).got = "read"

-----------------------------------------------------------------------------
(* Flags and prices. *)

\* _derive_quality_flag: nothing read, out of the AMF's bounds, or a cash price.
DerivedFlag(price) ==
    CASE price = None -> Default
      [] price # None /\ (price < 1 \/ price > 10000000) -> "failed_validation"
      [] OTHER -> "verified_cash"

\* categorize of the Consob promotion; mixed offers are told by their type.
Category(d, price) ==
    LET absurd == price # None /\ (price < 1 \/ price > 1000000)
    IN  CASE absurd -> "failed_validation"
          [] ~absurd /\ d \in Opas -> "suspect_mixed"
          [] ~absurd /\ d \notin Opas /\ (price = None \/ d \in Unnamed) -> "manual_review"
          [] OTHER -> "verified_cash"

Apart(a, b) == IF a >= b THEN a - b ELSE b - a

\* _classify of the small caps: a cash price near the close of the day before.
Validated(price, close) ==
    IF price # None /\ close > 0 /\ 10 * Apart(price, close) < 3 * close
    THEN "verified_cash" ELSE "manual_review"

\* compute_total_eur
Total(d, close) == (IF Legs[d].cash = None THEN 0 ELSE Legs[d].cash) + Legs[d].ratio * close

\* reparse_p91cbis counts a price as changed beyond 1 % of the old one.
Moved(old, new) == 100 * Apart(old, new) > old

\* Whose scores the two German scripts delete.
CorrectedOrNulled(old, read) == read.price # old
PriceChanged(old, read) ==
    /\ read.flag # "suspect_mixed" /\ read.price # None
    /\ old \notin {None, 0}
    /\ Moved(old, read.price)

-----------------------------------------------------------------------------
(* Scripts that go deal by deal. *)

OutOfBounds(price) == price = None \/ price < 500 \/ price > 50000

Selected(script) ==
    CASE script = "backfill_p92_02a" ->
             {d \in known : Jur[d] = "FR" /\ deals[d].flag = Default /\ deals[d].version < Version}
      [] script = "backfill_p91a" ->
             {d \in known : /\ Jur[d] = "DE" /\ deals[d].version < Version
                            /\ OutOfBounds(deals[d].price)}
      [] script = "reparse_p91cbis" ->
             {d \in known : Jur[d] = "DE" /\ deals[d].version < Version}
      [] script = "promote_consob_flags_02d" -> {d \in known : Jur[d] = "IT"}
      [] script \in {"populate_deal_consideration", "recalc_offer_price_total"} ->
             {d \in known : deals[d].flag = "suspect_mixed"}
      [] script = "validate_small_caps" -> known \cap SmallCaps
      [] script = "score_deals_run" -> known \ Unnamed

Start(script) ==
    /\ job = NoJob /\ runs < MaxRuns
    /\ job' = [script |-> script, todo |-> Selected(script), seen |-> deals, pending |-> {}]
    /\ runs' = runs + 1
    /\ UNCHANGED <<known, deals, legs, scores, csv, parser, faults>>

Current == Min(job.todo)
Seen == job.seen[Current]
Takes(script) == job.script = script /\ job.todo # {}
Advance == job' = [job EXCEPT !.todo = @ \ {Current}]
Break == job' = NoJob

\* session.commit() of the current deal: the columns that differ from those loaded.
Commit(row) ==
    deals' = [deals EXCEPT ![Current] =
                 [c \in DOMAIN row |-> IF row[c] = Seen[c] THEN @[c] ELSE row[c]]]

Skip == UNCHANGED <<deals, scores>>

DropScores(ds) == scores' = [d \in Deals |-> IF d \in ds THEN <<>> ELSE scores[d]]

BackfillFr ==
    /\ Takes("backfill_p92_02a")
    /\ IF Readable(Current)
       THEN /\ Commit([Seen EXCEPT !.price = Read(Current).price,
                                   !.flag = DerivedFlag(Read(Current).price),
                                   !.version = Version])
            /\ UNCHANGED scores
       ELSE Skip
    /\ Advance /\ UNCHANGED legs

\* _invalidate_scores, after the loop and in a commit of its own.
Invalidated == {d \in known : Jur[d] = "FR" /\ deals[d].version = Version}
InvalidateScores ==
    /\ job.script = "backfill_p92_02a" /\ job.todo = {}
    /\ DropScores(Invalidated)
    /\ Break /\ UNCHANGED <<deals, legs>>

\* The two German scripts: a document that cannot be parsed ends the run.
ReparseGerman(script) ==
    /\ Takes(script)
    /\ \/ Read(Current).got = "noPdf" /\ Skip /\ Advance
       \/ Read(Current).got = "raises" /\ Skip /\ Break
       \/ /\ Readable(Current)
          /\ Commit([Seen EXCEPT !.price = Read(Current).price, !.flag = Read(Current).flag,
                                 !.version = Version])
          /\ DropScores(IF \/ script = "backfill_p91a" /\ CorrectedOrNulled(Seen.price, Read(Current))
                           \/ script = "reparse_p91cbis" /\ PriceChanged(Seen.price, Read(Current))
                        THEN {Current} ELSE {})
          /\ Advance
    /\ UNCHANGED legs

PromoteConsob ==
    /\ Takes("promote_consob_flags_02d")
    /\ LET flag == Category(Current, Seen.price)
       IN  IF flag = Seen.flag /\ Seen.version >= Version THEN Skip
           ELSE Commit([Seen EXCEPT !.flag = flag, !.version = Version]) /\ UNCHANGED scores
    /\ Advance /\ UNCHANGED legs

\* No document, no mixed clause or an unknown acquirer raises and ends the run.
Populate ==
    /\ Takes("populate_deal_consideration")
    /\ IF Readable(Current) /\ Legs[Current].acquirer
       THEN legs' = legs \cup {Current} /\ Advance
       ELSE Break /\ UNCHANGED legs
    /\ Skip

\* Without legs or without a close the deal is reported and left.
Recalc ==
    /\ Takes("recalc_offer_price_total")
    /\ \/ Current \notin legs /\ Skip
       \/ \E close \in Closes :
              /\ Current \in legs
              /\ IF close = None THEN Skip
                 ELSE /\ Commit([Seen EXCEPT !.total = Total(Current, close),
                                             !.flag = "verified_mixed"])
                      /\ DropScores({Current})
    /\ Advance /\ UNCHANGED legs

ValidateSmallCap ==
    /\ Takes("validate_small_caps")
    /\ \E close \in Closes : Commit([Seen EXCEPT !.flag = Validated(Seen.price, close)])
    /\ Advance /\ UNCHANGED <<scores, legs>>

-----------------------------------------------------------------------------
(* Scoring.  A cluster is the deals of one target in one jurisdiction. *)

Cluster(d) == {e \in known : Target[e] = Target[d] /\ Jur[e] = Jur[d]}
BasisOf(row) == [price |-> row.price, total |-> row.total]

\* score_deal writes the cluster's score to its earliest deal.
Representative(d) == CHOOSE e \in Cluster(d) : \A f \in Cluster(d) : Announced[e] <= Announced[f]

\* score_deals_run: score_deal reads the rows of a cluster, and _persist_score inserts one
\* more row in a session of its own.
ReadCluster ==
    /\ Takes("score_deals_run") /\ job.pending = {}
    /\ LET d == Representative(Current)
       IN  job' = [job EXCEPT !.todo = @ \ Cluster(Current), !.seen[d] = deals[d], !.pending = {d}]
    /\ Skip /\ UNCHANGED legs

PersistScore ==
    /\ job.script = "score_deals_run" /\ job.pending # {}
    /\ scores' = [d \in Deals |-> IF d \in job.pending THEN Append(scores[d], BasisOf(job.seen[d]))
                                  ELSE scores[d]]
    /\ job' = [job EXCEPT !.pending = {}]
    /\ UNCHANGED <<deals, legs>>

\* p14_score_fresh prefers home venue, then a price, then the newest filing.
Better(d, e) ==
    LET Priced(x) == deals[x].price # None
        SameVenue == d \in HomeVenue <=> e \in HomeVenue
    IN  \/ d \in HomeVenue /\ e \notin HomeVenue
        \/ SameVenue /\ Priced(d) /\ ~Priced(e)
        \/ SameVenue /\ (Priced(d) <=> Priced(e)) /\ Announced[d] > Announced[e]

ChosenAmongAll ==
    {d \in Fresh : \A e \in Cluster(d) \cap Fresh : e # d => Better(d, e)}

Chosen ==
    {d \in known \cap Fresh : \A e \in Cluster(d) \cap Fresh : e # d => Better(d, e)}

\* The rows are loaded first, and one transaction replaces the scores of those chosen.
LoadFresh ==
    /\ job = NoJob /\ runs < MaxRuns
    /\ job' = [script |-> "p14_score_fresh", todo |-> {}, seen |-> deals, pending |-> Chosen]
    /\ runs' = runs + 1
    /\ UNCHANGED <<known, deals, legs, scores, csv, parser, faults>>

ScoreFresh ==
    /\ job.script = "p14_score_fresh"
    /\ scores' = [d \in Deals |-> IF d \in job.pending THEN <<BasisOf(job.seen[d])>>
                                  ELSE scores[d]]
    /\ Break /\ UNCHANGED <<deals, legs>>

-----------------------------------------------------------------------------
(* Corrections of verified French prices. *)

\* p92_02b_re_run_parser: CORRECTED are the lines read by a trusted rule.
Corrected(d) ==
    /\ d \in known /\ Jur[d] = "FR" /\ deals[d].flag = "verified_cash"
    /\ Readable(d) /\ Read(d).trusted
    /\ Read(d).price # None /\ deals[d].price # None /\ Read(d).price # deals[d].price

ReRunParser ==
    /\ job = NoJob
    /\ csv' = [d \in Deals |->
                  IF Corrected(d) THEN [old |-> deals[d].price, new |-> Read(d).price]
                                  ELSE NoLine]
    /\ csv' # csv
    /\ UNCHANGED <<known, deals, legs, scores, parser, job, runs, faults>>

\* p92_02b_apply_corrections: lines whose row drifted are left out, the rest is one
\* transaction. The scores stay.
Drifted(d) == deals[d].flag # "verified_cash" \/ deals[d].price # csv[d].old
ApplyCorrections ==
    /\ job = NoJob /\ runs < MaxRuns
    /\ \E d \in Deals : csv[d] # NoLine
    /\ deals' = [d \in Deals |->
                    IF csv[d] # NoLine /\ ~Drifted(d)
                    THEN [deals[d] EXCEPT !.price = csv[d].new] ELSE deals[d]]
    /\ runs' = runs + 1
    /\ UNCHANGED <<known, legs, scores, csv, parser, job, faults>>

\* A new revision of the parsers is deployed.
UpgradeParser ==
    /\ job = NoJob /\ parser + 1 \in Parsers
    /\ parser' = parser + 1
    /\ UNCHANGED <<known, deals, legs, scores, csv, job, runs, faults>>

-----------------------------------------------------------------------------
(* The pollers, in processes of their own. *)

\* A row as the services insert it, its document read or not: only the AMF's sets
\* flag and version.
Inserted(d, read) ==
    LET price == IF read THEN Read(d).price ELSE None
    IN  IF Jur[d] = "FR"
        THEN [NoRow EXCEPT !.price = price, !.flag = DerivedFlag(price), !.version = Version]
        ELSE [NoRow EXCEPT !.price = price]

LiveInsert(d) ==
    /\ d \notin known
    /\ \E read \in {FALSE} \cup {Readable(d)} : deals' = [deals EXCEPT ![d] = Inserted(d, read)]
    /\ known' = known \cup {d}

LiveRefreshUnstamped(d) ==
    /\ d \in known /\ Jur[d] = "FR" /\ deals[d].flag = Default /\ Readable(d)
    /\ deals' = [deals EXCEPT ![d].price = Read(d).price,
                              ![d].flag = DerivedFlag(Read(d).price)]
    /\ deals' # deals
    /\ UNCHANGED known

LiveRefreshAny(d) ==
    /\ d \in known /\ Jur[d] = "FR" /\ Readable(d)
    /\ deals' = [deals EXCEPT ![d].price = Read(d).price,
                              ![d].flag = DerivedFlag(Read(d).price),
                              ![d].version = Version]
    /\ deals' # deals
    /\ UNCHANGED known

\* upsert_deal_from_bdif fills a row still at the default flag, also with "no price".
LiveRefresh(d) ==
    /\ d \in known /\ Jur[d] = "FR" /\ deals[d].flag = Default /\ Readable(d)
    /\ deals' = [deals EXCEPT ![d].price = Read(d).price,
                              ![d].flag = DerivedFlag(Read(d).price),
                              ![d].version = Version]
    /\ deals' # deals
    /\ UNCHANGED known

Poller ==
    /\ \E d \in Deals : LiveInsert(d) \/ LiveRefresh(d)
    /\ UNCHANGED <<legs, scores, csv, parser, job, runs, faults>>

-----------------------------------------------------------------------------

Work == \/ BackfillFr \/ InvalidateScores
        \/ ReparseGerman("backfill_p91a")
        \/ ReparseGerman("reparse_p91cbis")
        \/ PromoteConsob \/ Populate \/ Recalc \/ ValidateSmallCap
        \/ ReadCluster \/ PersistScore \/ ScoreFresh

ScriptStep == Work /\ UNCHANGED <<known, csv, parser, runs, faults>>

EndOfLoop ==
    /\ job.todo = {} /\ job.pending = {} /\ job.script \in PerDeal \ {"backfill_p92_02a"}
    /\ Break /\ UNCHANGED <<known, deals, legs, scores, csv, parser, runs, faults>>

CutOff ==
    /\ job # NoJob /\ faults < MaxFaults
    /\ Break /\ faults' = faults + 1
    /\ UNCHANGED <<known, deals, legs, scores, csv, parser, runs>>

Init ==
    /\ known = {d \in Deals : Legacy[d] # {}}
    /\ deals \in {f \in [Deals -> UNION {Legacy[d] : d \in Deals} \cup {NoRow}] :
                     \A d \in Deals : f[d] \in (IF d \in known THEN Legacy[d] ELSE {NoRow})}
    /\ legs = {} /\ scores = [d \in Deals |-> <<>>]
    /\ csv = [d \in Deals |-> NoLine]
    /\ parser = Min(Parsers) /\ job = NoJob
    /\ runs = 0 /\ faults = 0

Next == \/ \E script \in PerDeal : Start(script)
        \/ ScriptStep \/ EndOfLoop \/ CutOff
        \/ LoadFresh \/ ReRunParser \/ ApplyCorrections \/ UpgradeParser
        \/ Poller

Spec == Init /\ [][Next]_vars

-----------------------------------------------------------------------------
(* Properties. *)

TypeOK ==
    /\ known \subseteq Deals /\ legs \subseteq known
    /\ deals \in [Deals -> Row]
    /\ scores \in [Deals -> Seq(Basis)] /\ \A d \in Deals \ known : scores[d] = <<>>
    /\ csv \in [Deals -> Line]
    /\ parser \in Parsers
    /\ job \in [script : PerDeal \cup {"p14_score_fresh", "none"}, todo : SUBSET known,
               seen : [Deals -> Row], pending : SUBSET known]

\* However the scripts are ordered and cut off, a score that is not of its deal's price
\* is one the French back-fill still deletes (its deletion goes by parser_version), or a
\* German one whose price moved by 1 % at most, was withdrawn or had no baseline (none, or
\* 0); and none outlives the recalculation of a mixed total.
ScoresFollowPrices ==
    \A d \in known : \A i \in DOMAIN scores[d] :
        LET s == scores[d][i] IN
        /\ s.total = deals[d].total
        /\ \/ s.price = deals[d].price
           \/ Jur[d] = "FR" /\ deals[d].version = Version
           \/ Jur[d] = "DE" /\ (\/ s.price \in {None, 0} \/ deals[d].price = None
                               \/ ~Moved(s.price, deals[d].price))

\* amf/service.py:129-131 and backfill_p92_02a: a French price that was promoted or
\* failed keeps its flag, and only the corrections change it, whatever the pollers and
\* an overlapping script loaded before.
SettledStays ==
    [][\A d \in known :
           Jur[d] = "FR" /\ deals[d].flag # Default =>
               /\ deals'[d].flag = deals[d].flag
               /\ deals'[d].price \in {deals[d].price, csv[d].new}]_vars

=============================================================================
