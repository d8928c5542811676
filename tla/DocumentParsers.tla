-------------------------- MODULE DocumentParsers --------------------------
(***************************************************************************)
(* How the offer price is read from the text of a document: the parsers of *)
(* src/ingestion (AMF, BaFin, Consob), and the tools of phase 9.2 that     *)
(* audit the French ones: p92_02b_ground_truth compares the stored price   *)
(* with the engagement clause, p92_02b_pre_review guesses the price of the *)
(* suspects, p92_02b_re_run_parser reads every document again.  Each has   *)
(* regular expressions of its own.                                         *)
(*                                                                         *)
(* A text is a sequence of the phrases and amounts the expressions look    *)
(* for, each with the character at which the phrase ends or the amount     *)
(* begins, since every expression allows so many characters in between and *)
(* no more.  The second part of a text is what lies behind the fifth page  *)
(* ("page6"), the third behind the eighth ("page9").  An unreadable file   *)
(* is the empty text.                                                      *)
(*                                                                         *)
(* Left out: names, dates, deal types, the pattern a pre-review names, and *)
(* a number that ends where an amount begins, which blanks and line breaks *)
(* make a group of it.                                                     *)
(***************************************************************************)
EXTENDS Integers, Sequences, FiniteSets, FiniteSetsExt, SequencesExt

CONSTANTS
    Written, \* the amounts a document may print, a record each
    Words,   \* the phrases and amounts that occur in a regulator's documents
    Layouts, \* where they may stand, the n-th word at the n-th place
    Length   \* of a text (bound)

\* An amount is printed with a currency before (lead) or after it. It may be introduced by
\* the words of an offer price ("prix de", "Angebotspreis von"), of so many characters.
Seps == {"none", "space", "nbsp", "dot"} \* between thousands and units
Marks == {"none", "comma", "dot"}        \* before the decimals
Currencies == {"sign", "euro", "EUR", "CHF"} \* the sign, the word, the codes

AmountForm(a) ==
    /\ a.thousands \in 0..999 /\ a.units \in 0..999 /\ a.cents \in 0..99
    /\ a.sep \in Seps /\ a.mark \in Marks /\ a.currency \in Currencies
    /\ a.intro \in Nat /\ a.lead \in BOOLEAN
    /\ a.mark = "none" => a.cents = 0

ASSUME WrittenAssumption == /\ \A w \in DOMAIN Written : AmountForm(Written[w])
                            /\ Length \in Nat

Regulators == {"FR", "DE", "IT"}

ASSUME LayoutsAssumption ==
    \A r \in Regulators : Layouts[r] \subseteq [1..Length -> Nat]

NoPrice == -1
Unset == "none"

VARIABLES
    reg, text,
    stored,        \* the price of the deal
    quality,       \* its quality flag (DE)
    consideration, \* its cash leg where it is structured (DE)
    audit,         \* the row of ground_truth.csv
    review,        \* the case of pre_review.md
    rerun          \* the row of re_run_comparison.csv

docVars == <<reg, text, stored, quality, consideration, audit, review, rerun>>

-----------------------------------------------------------------------------
(* Amounts, in thousandths. *)

IsAmount(w) == w \in DOMAIN Written
Exact(a) == (a.thousands * 1000 + a.units) * 1000 + a.cents * 10
LastGroup(a) == a.units * 1000 + a.cents * 10
Split(a, seps) == a.thousands > 0 /\ a.sep \notin seps

\* _normalise_amount: one dot is the decimal one, of several the last.
FrenchValue(a) ==
    IF a.sep = "dot" /\ a.mark = "none" /\ a.thousands > 0
    THEN a.thousands * 1000 + a.units
    ELSE Exact(a)

\* Where nothing ties the start of the number to a phrase, the expression finds the
\* last group of one whose groups it does not know.
French(w) == LET a == Written[w] IN
             IF Split(a, Seps \ {"none"}) THEN LastGroup(a) ELSE FrenchValue(a)

\* BaFin and Consob: decimals, or a group after a dot, are required; dots are dropped.
KnownForm(a) == a.mark # "none" \/ (a.sep = "dot" /\ a.thousands > 0)
CommaValue(a) == IF a.mark = "dot" THEN Exact(a) * 100 ELSE Exact(a)

-----------------------------------------------------------------------------
(* Texts. *)

Pages(t, breaks) ==
    LET behind == {i \in DOMAIN t : t[i].word \in breaks}
    IN  IF behind = {} THEN t ELSE SubSeq(t, 1, Min(behind) - 1)
FivePages(t) == Pages(t, {"page6", "page9"})
EightPages(t) == Pages(t, {"page9"})

Intro(w) == IF IsAmount(w) THEN Written[w].intro ELSE 0

\* From the end of the phrase at i to the amount at j, or to the word "prix" before it.
Gap(t, i, j, upTo) == t[j].at - t[i].at - (IF upTo = "prix" THEN Intro(t[j].word) ELSE 0)

\* Where the matches of "anchor, so many characters, amount" end: matches do not overlap,
\* and the characters are as few as can be.
Ends(t, anchors, window, upTo, amounts) ==
    {j \in DOMAIN t :
        /\ t[j].word \in amounts
        /\ \E i \in 1..j-1 : /\ t[i].word \in anchors
                             /\ Gap(t, i, j, upTo) <= window
                             /\ \A k \in i+1..j-1 : t[k].word \notin amounts}

\* A marker no farther from the amount than that, which is not the offer price then.
Marked(t, j, marker, reach) ==
    \E i \in 1..j-1 : t[i].word = marker /\ Gap(t, i, j, "amount") <= reach

InEuro == {w \in DOMAIN Written : Written[w].currency \in {"sign", "euro"} /\ ~Written[w].lead}
Introduced == {w \in InEuro : Written[w].intro > 0}
Grouped == {w \in Introduced : ~Split(Written[w], Seps \ {"none"})}

-----------------------------------------------------------------------------
(* amf/parser.py *)

Engagement(t) == Ends(t, {"engage", "engageait"}, 400, "amount", InEuro)

\* 100 characters, and "au" before "prix".
Raised(t) == Ends(t, {"releve"}, 103, "prix", Grouped)

\* "nominal" stands within the 80 characters before the amount.
Fallback(t) ==
    {j \in DOMAIN t : /\ IsAmount(t[j].word) /\ ~Written[t[j].word].lead
                      /\ ~Marked(t, j, "nominal", 73)}

Found(price, source) == [price |-> price, source |-> source]
At(t, ends, source) == Found(French(t[Min(ends)].word), source)

AmfPriceRaisedFirst(t) ==
    CASE Raised(t) # {} -> At(t, Raised(t), "surenchere_raised")
      [] Raised(t) = {} /\ Engagement(t) # {} -> At(t, Engagement(t), "engagement_clause")
      [] OTHER -> Found(NoPrice, "no_match")

AmfPrice(t) ==
    CASE Engagement(t) # {} -> At(t, Engagement(t), "engagement_clause")
      [] Engagement(t) = {} /\ Raised(t) # {} -> At(t, Raised(t), "surenchere_raised")
      [] Engagement(t) \cup Raised(t) = {} /\ Fallback(t) # {} ->
             At(t, Fallback(t), "fallback_first_match")
      [] OTHER -> Found(NoPrice, "no_match")

-----------------------------------------------------------------------------
(* bafin/parser.py, consob/parser.py *)

Mixed(t) == \E i \in DOMAIN t : t[i].word \in {"share", "share_open"}

\* "EUR" before the amount, or behind it, where it may go on as "Euro".
InEur(a) == a.currency = "EUR" \/ (a.currency = "euro" /\ ~a.lead)

CashAmounts(t) ==
    {j \in DOMAIN t : LET a == Written[t[j].word]
                      IN  /\ IsAmount(t[j].word) /\ a.intro > 0 /\ InEur(a)
                          /\ KnownForm(a) /\ ~Split(a, {"space", "dot"})}

\* "Nennwert" stands within the 30 characters before the amount.
ParValue(t, j) == Marked(t, j, "par", 22)
CashPrice(t) ==
    LET offered == {j \in CashAmounts(t) : ~ParValue(t, j)}
    IN  IF offered = {} THEN NoPrice ELSE CommaValue(Written[t[Min(offered)].word])

BafinOfferCashFirst(t) ==
    IF CashPrice(t) # NoPrice THEN [price |-> CashPrice(t), flag |-> "verified_cash"]
    ELSE [price |-> NoPrice,
          flag |-> IF Mixed(t) THEN "suspect_mixed" ELSE "suspect_low_unverified"]

BafinOffer(t) ==
    CASE Mixed(t) -> [price |-> NoPrice, flag |-> "suspect_mixed"]
      [] ~Mixed(t) /\ CashPrice(t) # NoPrice -> [price |-> CashPrice(t), flag |-> "verified_cash"]
      [] OTHER -> [price |-> NoPrice, flag |-> "suspect_low_unverified"]

\* _extract_consideration also wants the words that end the share clause.
Consideration(t) ==
    IF \E i \in DOMAIN t : t[i].word = "share" THEN <<CashPrice(t)>> ELSE <<>>

\* Consob: the first amount of any kind.
ConsobAmounts(t) ==
    {j \in DOMAIN t : LET a == Written[t[j].word]
                      IN  /\ IsAmount(t[j].word) /\ KnownForm(a) /\ a.currency # "CHF"
                          /\ ~(a.lead /\ Split(a, {"space", "dot"}))}
ConsobPrice(t) ==
    LET first == Written[t[Min(ConsobAmounts(t))].word]
    IN  CASE ConsobAmounts(t) = {} -> NoPrice
          [] ConsobAmounts(t) # {} /\ Split(first, {"space", "dot"}) ->
                 CommaValue([first EXCEPT !.thousands = 0])
          [] OTHER -> CommaValue(first)

-----------------------------------------------------------------------------
(* p92_02b_ground_truth.py: its amounts may run on in digits, but then have no decimals,
   and its 400 characters end at "prix", those of the parser at the amount. *)

Digits == {w \in Introduced : Written[w].mark = "none"} \cup Grouped
Primary(t) == Ends(t, {"engage"}, 400, "prix", Digits)
AnyPrice(t) == {j \in DOMAIN t : t[j].word \in Digits}

Verdict(status, primary) == [status |-> status, primary |-> primary]

\* The last clause is the one that counts.
GroundTruth(t, price) ==
    LET Value(ends) == FrenchValue(Written[t[Max(ends)].word])
        Compare(ends, match, mismatch) ==
            Verdict(IF Value(ends) = price THEN match ELSE mismatch, Value(ends))
    IN  CASE Cardinality(Primary(t)) > 1 ->
                 Compare(Primary(t), "several_match", "several_mismatch")
          [] Cardinality(Primary(t)) = 1 ->
                 Compare(Primary(t), "single_match", "single_mismatch")
          [] Primary(t) = {} /\ AnyPrice(t) # {} ->
                 Compare(AnyPrice(t), "fallback_match", "fallback_mismatch")
          [] OTHER -> Verdict("no_engagement_clause", NoPrice)

Suspect(status) ==
    status \in {"several_mismatch", "single_mismatch", "fallback_mismatch", "no_engagement_clause"}

(* p92_02b_pre_review.py, over all pages. *)

Principals(t) == Ends(t, {"engage"}, 400, "prix", Grouped)
ValuesAt(t, ends) == {FrenchValue(Written[t[j].word]) : j \in ends}
Others(t) ==
    {French(t[j].word) : j \in {j \in DOMAIN t : t[j].word \in InEuro}}
        \ ValuesAt(t, Principals(t))

Guess(price, confidence) == [price |-> price, confidence |-> confidence]

BestGuess(t) ==
    LET values == ValuesAt(t, Principals(t))
        last == FrenchValue(Written[t[Max(Principals(t))].word])
    IN  CASE Cardinality(values) = 1 -> Guess(last, "HIGH")
          [] Cardinality(values) > 1 -> Guess(last, "MEDIUM")
          [] values = {} /\ Cardinality(Others(t)) = 1 ->
                 Guess(CHOOSE v \in Others(t) : TRUE, "MEDIUM")
          [] OTHER -> Guess(NoPrice, "LOW")

(* p92_02b_re_run_parser.py *)

Categorise(old, new) ==
    CASE old = NoPrice /\ new.price # NoPrice -> "NEW_EXTRACT"
      [] old # NoPrice /\ new.price = NoPrice -> "PARSER_FAIL"
      [] old = new.price -> "UNCHANGED"
      [] OTHER -> IF new.source \in {"engagement_clause", "surenchere_raised"}
                  THEN "CORRECTED" ELSE "NEW_DIFFERENT"

-----------------------------------------------------------------------------
(* The life of one document. *)

Token(r) == [word : Words[r], at : Nat]
Placed(words, layout) == [k \in DOMAIN words |-> [word |-> words[k], at |-> layout[k]]]

\* Words stand one behind the other, with room for what introduces an amount.
Fits(t) == \A i, j \in DOMAIN t : i < j => t[i].at + Intro(t[j].word) < t[j].at

DocInit ==
    /\ reg \in Regulators
    /\ \E n \in 0..Length, layout \in Layouts[reg] :
           \E words \in [1..n -> Words[reg]] : text = Placed(words, layout)
    /\ Fits(text)
    /\ stored = NoPrice /\ quality = Unset /\ consideration = <<>>
    /\ audit = Verdict(Unset, NoPrice) /\ review = Guess(NoPrice, Unset)
    /\ rerun = [category |-> Unset, price |-> NoPrice]

InFrench(w) == IsAmount(w) /\ ~Written[w].lead

\* A French price may also come from an earlier revision of the parser: it is one of
\* the document's amounts then.
StoreFrench ==
    /\ reg = "FR" /\ stored = NoPrice
    /\ stored' \in {AmfPrice(FivePages(text)).price}
                   \cup {French(text[j].word) : j \in {j \in DOMAIN text : InFrench(text[j].word)}}
    /\ stored' # NoPrice
    /\ UNCHANGED <<reg, text, quality, consideration, audit, review, rerun>>

StoreGerman ==
    /\ reg = "DE" /\ quality = Unset
    /\ stored' = BafinOffer(text).price
    /\ quality' = BafinOffer(text).flag
    /\ UNCHANGED <<reg, text, consideration, audit, review, rerun>>

\* populate_deal_consideration raises for a mixed offer whose clause it cannot read.
RecordLegs ==
    /\ quality = "suspect_mixed" /\ consideration = <<>> /\ Consideration(text) # <<>>
    /\ consideration' = Consideration(text)
    /\ UNCHANGED <<reg, text, stored, quality, audit, review, rerun>>

StoreItalian ==
    /\ reg = "IT" /\ stored = NoPrice /\ ConsobPrice(text) # NoPrice
    /\ stored' = ConsobPrice(text)
    /\ UNCHANGED <<reg, text, quality, consideration, audit, review, rerun>>

Audit ==
    /\ reg = "FR" /\ stored # NoPrice /\ audit.status = Unset
    /\ audit' = GroundTruth(EightPages(text), stored)
    /\ UNCHANGED <<reg, text, stored, quality, consideration, review, rerun>>

Review ==
    /\ Suspect(audit.status) /\ review.confidence = Unset
    /\ review' = BestGuess(text)
    /\ UNCHANGED <<reg, text, stored, quality, consideration, audit, rerun>>

ReRun ==
    /\ reg = "FR" /\ stored # NoPrice /\ rerun.category = Unset
    /\ LET new == AmfPrice(FivePages(text))
       IN  rerun' = [category |-> Categorise(stored, new), price |-> new.price]
    /\ UNCHANGED <<reg, text, stored, quality, consideration, audit, review>>

DocNext == \/ StoreFrench \/ StoreGerman \/ StoreItalian
           \/ RecordLegs \/ Audit \/ Review \/ ReRun

DocSpec == DocInit /\ [][DocNext]_docVars

-----------------------------------------------------------------------------
(* Properties. *)

\* Forms each regulator's expressions read as another number: digits run together, a
\* group after a dot without decimals (FR); a decimal dot, groups they do not know.
Misread(a) ==
    CASE reg = "FR" -> Split(a, Seps \ {"none"})
                       \/ (a.sep = "dot" /\ a.mark = "none" /\ a.thousands > 0)
      [] reg = "DE" -> a.mark = "dot"
      [] reg = "IT" -> a.mark = "dot" \/ Split(a, {"space", "dot"})

\* amf/parser.py:85-101 and 369-382, bafin/parser.py:94-134 and 272-302: a stored price is
\* the exact value of an amount printed in the document, up to the named forms; a
\* German one was introduced by a cash clause and no share clause stands beside it,
\* and cash and share legs are recorded of an offer without scalar price only.
PricesAreOffered ==
    /\ stored # NoPrice =>
           \E j \in DOMAIN text :
               /\ IsAmount(text[j].word)
               /\ Misread(Written[text[j].word]) \/ stored = Exact(Written[text[j].word])
               /\ reg = "DE" => Written[text[j].word].intro > 0 /\ ~ParValue(text, j)
    /\ reg = "DE" => /\ (stored # NoPrice) = (quality = "verified_cash")
                     /\ stored # NoPrice => ~Mixed(text)
                     /\ consideration # <<>> => stored = NoPrice

\* The tools read more pages than the parser; they matter if an amount stands there.
PricesOnLaterPages ==
    \E j \in DOMAIN text \ DOMAIN FivePages(text) : IsAmount(text[j].word)

\* The 400 characters of the tools end at "prix", the parser's at the amount behind it.
OutOfReach ==
    \E i, j \in DOMAIN text : /\ i < j /\ text[i].word = "engage" /\ text[j].word \in Introduced
                              /\ Gap(text, i, j, "prix") <= 400
                              /\ Gap(text, i, j, "amount") > 400

\* Why the tools may rightly differ about a French document: prices on pages some do not
\* read or at the very end of the window; clauses of different prices, of which the
\* parser takes the first and the audit the last; an amount between the verb and the
\* price, or digits run together, in a clause of the parser.
ToolsDiffer ==
    \/ PricesOnLaterPages \/ OutOfReach
    \/ \E j, k \in Engagement(text) : French(text[j].word) # French(text[k].word)
    \/ \E j \in Engagement(text) : text[j].word \notin Grouped

Anchored(status) ==
    status \in {"single_match", "single_mismatch", "several_match", "several_mismatch"}
Confirmed(status) == status \in {"single_match", "several_match"}

\* p92_02b_ground_truth.py, p92_02b_pre_review.py and the parser each look for the clause by
\* an expression of their own: but for the named causes, the price the audit takes for
\* right, of however many clauses, is the one the parser finds, a stored price it confirms
\* is left alone by the re-run, and a guess of high confidence is the audit's price.
ToolsAgree ==
    ~ToolsDiffer =>
        /\ Anchored(audit.status) /\ rerun.category # Unset =>
               /\ rerun.price = audit.primary
               /\ rerun.category = IF Confirmed(audit.status) THEN "UNCHANGED" ELSE "CORRECTED"
        /\ review.confidence = "HIGH" => review.price = audit.primary

=============================================================================
