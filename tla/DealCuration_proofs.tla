------------------------ MODULE DealCuration_proofs ------------------------
(***************************************************************************)
(* Theorems about DealCuration: its types, the agreement of scores and     *)
(* prices and the stability of settled French prices.  All follow from one *)
(* inductive invariant, IInv, which says which rows a script may still     *)
(* hold in a stale form (Loaded), and of each row on its own what its flag *)
(* and version tell about it and its scores (RowInv).                      *)
(*                                                                         *)
(* The second half is about DocumentParsers, the documents that the prices *)
(* to be curated are read from.  DocInv says of each thing written about a *)
(* document that it is still what the text says; the rest is about texts   *)
(* alone, how amounts are read and which clauses the expressions of two    *)
(* tools can both match.                                                   *)
(***************************************************************************)
EXTENDS DealCuration, DocumentParsers, FiniteSetTheorems, WellFoundedInduction, TLAPS

LEMMA LeastExists ==
  ASSUME NEW S, S \subseteq Nat, S # {}
  PROVE  \E x \in S : \A y \in S : x <= y
<1> DEFINE R == OpToRel(<, Nat)
<1>1. IsWellFoundedOn(R, Nat)
  BY NatLessThanWellFounded
<1>2. \A a, b \in Nat : a < b => <<a, b>> \in R
  BY DEF OpToRel
<1> HIDE DEF R
<1>3. PICK x \in S : \A y \in S : ~ (<<y, x>> \in R)
  BY <1>1, WFMin
<1>4. \A y \in S : ~ (y < x)
  BY <1>2, <1>3
<1> QED BY <1>3, <1>4

LEMMA MinIsMember ==
  ASSUME NEW S, S \subseteq Nat, S # {}
  PROVE  Min(S) \in S
<1>1. \E x \in S : \A y \in S : x <= y
  BY LeastExists
<1> QED BY <1>1, Zenon DEF Min


-----------------------------------------------------------------------------
(* Rows on their own. *)

Merge(row, seen, cur) == [c \in DOMAIN row |-> IF row[c] = seen[c] THEN cur[c] ELSE row[c]]

LEMMA MergeIsRow ==
  ASSUME NEW row \in Row, NEW seen \in Row, NEW cur \in Row,
         NEW m, m = Merge(row, seen, cur)
  PROVE  /\ m \in Row
         /\ m.price = IF row.price = seen.price THEN cur.price ELSE row.price
         /\ m.flag = IF row.flag = seen.flag THEN cur.flag ELSE row.flag
         /\ m.version = IF row.version = seen.version THEN cur.version ELSE row.version
         /\ m.total = IF row.total = seen.total THEN cur.total ELSE row.total
<1>1. DOMAIN row = {"price", "flag", "version", "total"}
  BY DEF Row
<1>2. m = [price |-> m.price, flag |-> m.flag, version |-> m.version, total |-> m.total]
  BY <1>1 DEF Merge
<1> QED BY <1>1, <1>2 DEF Row, Merge

\* No French row is mixed or under review, and none left the default unstamped.
FrenchRow(d, row) ==
    Jur[d] = "FR" =>
        /\ row.flag \in {Default, "verified_cash", "failed_validation"}
        /\ row.flag # Default => row.version = Version

\* What ScoresFollowPrices says of one score.
Follows(d, row, s) ==
    /\ s.total = row.total
    /\ \/ s.price = row.price
       \/ Jur[d] = "FR" /\ row.version = Version
       \/ Jur[d] = "DE" /\ (\/ s.price \in {None, 0} \/ row.price = None
                           \/ ~Moved(s.price, row.price))

\* Until it is parsed anew, a German deal has the price all its scores were computed from.
FirstPrice(d, row, s) == Jur[d] = "DE" /\ row.version = 1 => s.price = row.price

RowInv(d, row, sc) ==
    /\ FrenchRow(d, row)
    /\ \A i \in DOMAIN sc : Follows(d, row, sc[i]) /\ FirstPrice(d, row, sc[i])

Settled(d, row, row2, new) ==
    Jur[d] = "FR" /\ row.flag # Default =>
        row2.flag = row.flag /\ row2.price \in {row.price, new}

-----------------------------------------------------------------------------
(* The inductive invariant. *)

\* Why a row of the script under way was selected.
PickedFor(script, d, row) ==
    /\ script = "backfill_p92_02a" =>
           Jur[d] = "FR" /\ row.flag = Default /\ row.version = 1
    /\ script \in {"backfill_p91a", "reparse_p91cbis"} => Jur[d] = "DE" /\ row.version = 1
    /\ script = "promote_consob_flags_02d" => Jur[d] = "IT"
    /\ script \in {"populate_deal_consideration", "recalc_offer_price_total"} =>
           row.flag = "suspect_mixed"
    /\ script = "validate_small_caps" => Jur[d] = "DE"

\* What a poller made of a French row since the script loaded it.
Refreshed(d, seen, row, price) ==
    /\ Jur[d] = "FR" /\ seen.flag = Default
    /\ row.price = price /\ row.flag = DerivedFlag(price)
    /\ row.version = Version /\ row.total = seen.total

\* A row as it was loaded, up to a refresh since.
Recent(d, seen, row, price) == seen = row \/ Refreshed(d, seen, row, price)

\* The rows a script still has to do or to insert a score for are as it loaded them, or French
\* ones refreshed since; only the two that score have scores to insert.
Loaded ==
    /\ \A d \in job.todo : PickedFor(job.script, d, job.seen[d])
    /\ \A d \in job.todo \cup job.pending : Recent(d, job.seen[d], deals[d], Read(d).price)
    /\ job.pending # {} => job.script \in {"score_deals_run", "p14_score_fresh"}

CorrectionsAreFrench == \A d \in Deals : csv[d] # NoLine => Jur[d] = "FR"

RowsInv == \A d \in Deals : RowInv(d, deals[d], scores[d])

IInv == TypeOK /\ Loaded /\ CorrectionsAreFrench /\ RowsInv

SettledStep == \A d \in known : Settled(d, deals[d], deals'[d], csv[d].new)

-----------------------------------------------------------------------------
(* What the commits and the pollers do to one row. *)

LEMMA DerivedFlags ==
  ASSUME NEW price \in Int
  PROVE  /\ DerivedFlag(price) \in {Default, "verified_cash", "failed_validation"}
         /\ DerivedFlag(price) = Default <=> price = None
BY DEF DerivedFlag, Default, None

\* The back-fill of a row not read, or read by a poller since: the same flag and price.
LEMMA BackfilledRow ==
  ASSUME NEW d \in Deals, NEW seen \in Row, NEW cur \in Row, NEW price \in Int, NEW sc,
         PickedFor("backfill_p92_02a", d, seen),
         seen = cur \/ Refreshed(d, seen, cur, price),
         RowInv(d, cur, sc),
         NEW row \in Row, row.price = price, row.flag = DerivedFlag(price),
         row.version = Version, row.total = seen.total,
         NEW m, m = Merge(row, seen, cur), NEW new
  PROVE  m \in Row /\ RowInv(d, m, sc) /\ Settled(d, cur, m, new)
<1>2. Jur[d] = "FR" /\ seen.flag = Default /\ seen.version = 1
  BY DEF PickedFor
<1>3. /\ m \in Row /\ m.version = Version /\ m.total = cur.total
      /\ m.price = IF price = seen.price THEN cur.price ELSE price
      /\ m.flag = IF DerivedFlag(price) = seen.flag THEN cur.flag ELSE DerivedFlag(price)
  BY <1>2, MergeIsRow DEF Version
<1>4. m.flag \in {Default, "verified_cash", "failed_validation"}
  BY <1>2, <1>3, DerivedFlags DEF RowInv, FrenchRow
<1>5. RowInv(d, m, sc)
  BY <1>2, <1>3, <1>4 DEF RowInv, FrenchRow, Follows, FirstPrice
<1>6. Settled(d, cur, m, new)
  <2>1. CASE seen = cur
    BY <2>1, <1>2 DEF Settled
  <2>2. CASE Refreshed(d, seen, cur, price)
    BY <2>2, <1>3 DEF Settled, Refreshed
  <2> QED BY <2>1, <2>2
<1> QED BY <1>3, <1>5, <1>6

\* The two German scripts: scores stay only where the price stays, or within 1 %.
LEMMA ReparsedRow ==
  ASSUME NEW d \in Deals, NEW cur \in Row, NEW price \in Int, NEW flag \in Flags, NEW sc,
         Jur[d] = "DE", cur.version = 1,
         RowInv(d, cur, sc),
         price = cur.price \/ flag = "suspect_mixed" \/ price = None
            \/ cur.price \in {None, 0} \/ ~Moved(cur.price, price),
         flag = "suspect_mixed" => price = None,
         NEW row \in Row, row.price = price, row.flag = flag,
         row.version = Version, row.total = cur.total,
         NEW m, m = Merge(row, cur, cur)
  PROVE  m \in Row /\ RowInv(d, m, sc)
<1>2. m \in Row /\ m.version = Version /\ m.total = cur.total /\ m.price = price
  BY MergeIsRow DEF Version
<1>3. FrenchRow(d, m)
  BY DEF FrenchRow
<1>4. ASSUME NEW i \in DOMAIN sc PROVE Follows(d, m, sc[i]) /\ FirstPrice(d, m, sc[i])
  <2>1. sc[i].price = cur.price /\ sc[i].total = cur.total
    BY <1>4 DEF RowInv, FirstPrice, Follows
  <2> QED BY <1>2, <2>1 DEF FirstPrice, Follows, Version
<1> QED BY <1>2, <1>3, <1>4 DEF RowInv

\* Every other commit to a row that is not French keeps its price and its first version.
LEMMA FlaggedRow ==
  ASSUME NEW d \in Deals, NEW cur \in Row, NEW row \in Row, NEW sc,
         Jur[d] # "FR", RowInv(d, cur, sc),
         row.price = cur.price, row.total = cur.total,
         row.version = cur.version \/ Jur[d] = "IT",
         NEW m, m = Merge(row, cur, cur)
  PROVE  m \in Row /\ RowInv(d, m, sc)
<1>1. /\ m \in Row /\ m.total = cur.total /\ m.price = cur.price
      /\ m.version = cur.version \/ Jur[d] = "IT"
  BY MergeIsRow
<1> QED BY <1>1 DEF RowInv, FrenchRow, FirstPrice, Follows

\* A row whose scores go with the commit.
LEMMA UnscoredRow ==
  ASSUME NEW d \in Deals, NEW cur \in Row, NEW row \in Row,
         Jur[d] # "FR", NEW m, m = Merge(row, cur, cur)
  PROVE  m \in Row /\ RowInv(d, m, <<>>)
BY MergeIsRow DEF RowInv, FrenchRow

\* A refresh by the AMF poller.
LEMMA RefreshedRow ==
  ASSUME NEW d \in Deals, NEW cur \in Row, NEW price \in Int, NEW sc,
         Jur[d] = "FR", RowInv(d, cur, sc), cur.flag = Default,
         NEW m, m = [cur EXCEPT !.price = price, !.flag = DerivedFlag(price),
                                !.version = Version]
  PROVE  m \in Row /\ RowInv(d, m, sc)
<1>1. /\ m \in Row /\ m.price = price /\ m.flag = DerivedFlag(price)
      /\ m.version = Version /\ m.total = cur.total
  BY DerivedFlags DEF Row, Flags, Version
<1> QED BY <1>1, DerivedFlags DEF RowInv, FrenchRow, FirstPrice, Follows

\* An applied correction.
LEMMA CorrectedRow ==
  ASSUME NEW d \in Deals, NEW cur \in Row, NEW price \in Int, NEW sc,
         Jur[d] = "FR", RowInv(d, cur, sc), cur.flag = "verified_cash",
         NEW m, m = [cur EXCEPT !.price = price]
  PROVE  m \in Row /\ RowInv(d, m, sc) /\ Settled(d, cur, m, price)
<1>1. /\ m \in Row /\ m.price = price /\ m.flag = cur.flag
      /\ m.version = cur.version /\ m.total = cur.total
  BY DEF Row
<1>2. cur.version = Version
  BY DEF RowInv, FrenchRow, Default
<1> QED BY <1>1, <1>2 DEF RowInv, FrenchRow, FirstPrice, Follows, Settled

-----------------------------------------------------------------------------
(* Steps. *)

Jobs(rows) == [script : PerDeal \cup {"p14_score_fresh", "none"}, todo : SUBSET rows,
               seen : [Deals -> Row], pending : SUBSET rows]

LEMMA CurrentRow ==
  ASSUME TypeOK, job.todo # {}
  PROVE  /\ Current \in job.todo /\ Current \in known /\ Current \in Deals
         /\ Seen \in Row /\ deals[Current] \in Row
         /\ Read(Current).price \in Int /\ Read(Current).flag \in Flags
<1>1. job.todo \subseteq known /\ known \subseteq Deals /\ job.seen \in [Deals -> Row]
  BY DEF TypeOK
<1>2. Current \in job.todo
  BY <1>1, MinIsMember, CurationAssumption DEF Current
<1>3. deals \in [Deals -> Row] /\ parser \in Parsers
  BY DEF TypeOK
<1> HIDE DEF Current
<1> QED BY <1>1, <1>2, <1>3, DataAssumption DEF Seen, Read

LEMMA NoJobType ==
  ASSUME NEW rows
  PROVE  NoJob \in Jobs(rows)
BY DEF NoJob, NoRow, Jobs, Row, None, Default, Version, Flags

\* A script that goes on with some of its deals, none of them written since, or stops.
LEMMA JobGoesOn ==
  ASSUME TypeOK, Loaded, NEW T \in SUBSET job.todo,
         job' = NoJob \/ job' = [job EXCEPT !.todo = T],
         parser' = parser, known \subseteq known',
         \A d \in T \cup job.pending : deals'[d] = deals[d]
  PROVE  job' \in Jobs(known') /\ Loaded'
<1>1. CASE job' = NoJob
  <2>1. job'.todo = {} /\ job'.pending = {}
    BY <1>1 DEF NoJob
  <2> QED BY <1>1, <2>1, NoJobType DEF Loaded
<1>2. CASE job' = [job EXCEPT !.todo = T]
  <2>1. job \in Jobs(known)
    BY DEF TypeOK, Jobs
  <2>2. /\ job'.todo = T /\ job'.script = job.script /\ job'.seen = job.seen
        /\ job'.pending = job.pending /\ job' \in Jobs(known')
    BY <1>2, <2>1 DEF Jobs
  <2>3. ASSUME NEW d \in T \cup job.pending
        PROVE  Recent(d, job'.seen[d], deals'[d], Read(d)'.price)
    <3>1. Read(d)' = Read(d)
      BY DEF Read
    <3>2. d \in job.todo \cup job.pending /\ deals'[d] = deals[d]
      BY <2>3
    <3>3. Recent(d, job.seen[d], deals[d], Read(d).price)
      BY <3>2 DEF Loaded
    <3> QED BY <2>2, <3>1, <3>2, <3>3
  <2>4. \A d \in T : PickedFor(job'.script, d, job'.seen[d])
    BY <2>2 DEF Loaded
  <2> QED BY <2>2, <2>3, <2>4 DEF Loaded
<1> QED BY <1>1, <1>2

\* A commit to the current deal, its scores dropped or not, and on to the next.
LEMMA CommitStep ==
  ASSUME IInv, job.todo # {}, job.script \notin {"score_deals_run", "p14_score_fresh"},
         NEW row \in Row, NEW ds \in SUBSET {Current},
         NEW m \in Row, m = Merge(row, Seen, deals[Current]),
         RowInv(Current, m, IF Current \in ds THEN <<>> ELSE scores[Current]),
         Settled(Current, deals[Current], m, csv[Current].new),
         Commit(row),
         scores' = [d \in Deals |-> IF d \in ds THEN <<>> ELSE scores[d]],
         Advance, UNCHANGED <<known, legs, csv, parser>>
  PROVE  IInv' /\ SettledStep
<1>1. /\ Current \in job.todo /\ Current \in known /\ Current \in Deals
  BY CurrentRow DEF IInv
<1>2. deals' = [deals EXCEPT ![Current] = m]
  BY Zenon DEF Commit, Merge
<1>3. job' = [job EXCEPT !.todo = @ \ {Current}]
  BY DEF Advance
<1>4. UNCHANGED <<known, legs, csv, parser>>
  OBVIOUS
<1> DEFINE c == Current
<1>a. c \in job.todo /\ c \in known /\ c \in Deals
  BY <1>1
<1>b. deals' = [deals EXCEPT ![c] = m] /\ job' = [job EXCEPT !.todo = job.todo \ {c}]
  BY <1>2, <1>3
<1>c. RowInv(c, m, IF c \in ds THEN <<>> ELSE scores[c]) /\ ds \subseteq {c}
  OBVIOUS
<1>d. Settled(c, deals[c], m, csv[c].new)
  OBVIOUS
<1> HIDE DEF c
<1>5. TypeOK /\ Loaded /\ CorrectionsAreFrench /\ RowsInv
  BY DEF IInv
<1>6. deals \in [Deals -> Row] /\ scores \in [Deals -> Seq(Basis)]
  BY <1>5 DEF TypeOK
<1>7. deals'[c] = m /\ \A d \in Deals : d # c => deals'[d] = deals[d]
  BY <1>a, <1>b, <1>6
<1>8. job' \in Jobs(known') /\ Loaded'
  <2>1. \A d \in (job.todo \ {c}) \cup job.pending : deals'[d] = deals[d]
    <3>1. job.pending = {} /\ job.todo \subseteq Deals
      BY <1>5 DEF TypeOK, Loaded
    <3> QED BY <1>7, <3>1
  <2> QED BY <2>1, <1>b, <1>4, <1>5, JobGoesOn
<1>9. TypeOK'
  <2>1. deals' \in [Deals -> Row]
    BY <1>a, <1>b, <1>6
  <2>2. scores' \in [Deals -> Seq(Basis)]
    BY <1>6
  <2>3. \A d \in Deals \ known : scores'[d] = <<>>
    BY <1>5 DEF TypeOK
  <2> QED BY <2>1, <2>2, <2>3, <1>4, <1>5, <1>8 DEF TypeOK, Jobs
<1>10. RowsInv'
  <2>1. ASSUME NEW d \in Deals PROVE RowInv(d, deals'[d], scores'[d])
    <3>1. CASE d = c
      BY <3>1, <1>7, <1>a, <1>c
    <3>2. CASE d # c
      <4>1. deals'[d] = deals[d] /\ scores'[d] = scores[d]
        BY <3>2, <1>7, <1>c
      <4> QED BY <4>1, <1>5 DEF RowsInv
    <3> QED BY <3>1, <3>2
  <2> QED BY <2>1 DEF RowsInv
<1>11. CorrectionsAreFrench'
  BY <1>4, <1>5 DEF CorrectionsAreFrench
<1>12. SettledStep
  <2>1. ASSUME NEW d \in known PROVE Settled(d, deals[d], deals'[d], csv[d].new)
    <3>1. d \in Deals
      BY <1>5 DEF TypeOK
    <3>2. CASE d = c
      BY <3>2, <1>7, <1>d
    <3>3. CASE d # c
      BY <3>1, <3>3, <1>7 DEF Settled
    <3> QED BY <3>2, <3>3
  <2> QED BY <2>1 DEF SettledStep
<1> QED BY <1>5, <1>8, <1>9, <1>10, <1>11, <1>12 DEF IInv

\* A step that leaves the rows alone, whatever becomes of the script under way.
LEMMA RowsStay ==
  ASSUME IInv, job' \in Jobs(known), Loaded',
         legs' \subseteq known,
         scores' \in [Deals -> Seq(Basis)],
         \A d \in Deals : scores'[d] # scores[d] =>
            d \in known /\ RowInv(d, deals[d], scores'[d]),
         UNCHANGED <<known, deals, csv, parser>>
  PROVE  IInv' /\ SettledStep
<1>1. TypeOK /\ CorrectionsAreFrench /\ RowsInv
  BY DEF IInv
<1>2. UNCHANGED <<known, deals, csv, parser>>
  OBVIOUS
<1>3. TypeOK'
  BY <1>1, <1>2 DEF TypeOK, Jobs
<1>4. RowsInv'
  BY <1>1, <1>2 DEF RowsInv
<1>5. CorrectionsAreFrench'
  BY <1>1, <1>2 DEF CorrectionsAreFrench
<1>6. SettledStep
  BY <1>2 DEF SettledStep, Settled
<1> QED BY <1>3, <1>4, <1>5, <1>6 DEF IInv

LEMMA QuietStep ==
  ASSUME IInv, NEW T \in SUBSET job.todo,
         job' = NoJob \/ job' = [job EXCEPT !.todo = T],
         legs' \subseteq known,
         scores' \in [Deals -> Seq(Basis)],
         \A d \in Deals : scores'[d] # scores[d] =>
            d \in known /\ RowInv(d, deals[d], scores'[d]),
         UNCHANGED <<known, deals, csv, parser>>
  PROVE  IInv' /\ SettledStep
<1>1. job' \in Jobs(known') /\ Loaded'
  BY JobGoesOn DEF IInv
<1> QED BY <1>1, RowsStay

LEMMA UnchangedScores ==
  ASSUME TypeOK, UNCHANGED scores
  PROVE  scores' = [d \in Deals |-> IF d \in {} THEN <<>> ELSE scores[d]]
BY DEF TypeOK

\* A deal that is only passed over, and the end of a run.
LEMMA PassedOver ==
  ASSUME IInv, Skip, legs' \subseteq known, Advance \/ Break, UNCHANGED <<known, csv, parser>>
  PROVE  IInv' /\ SettledStep
<1>1. scores' \in [Deals -> Seq(Basis)] /\ scores' = scores /\ deals' = deals
  BY DEF IInv, TypeOK, Skip
<1>2. CASE Advance
  <2> DEFINE T == job.todo \ {Current}
  <2>1. job' = [job EXCEPT !.todo = T] /\ T \in SUBSET job.todo
    BY <1>2 DEF Advance
  <2> HIDE DEF T
  <2> QED BY <1>1, <2>1, QuietStep
<1>3. CASE Break
  BY <1>1, <1>3, QuietStep DEF Break
<1> QED BY <1>2, <1>3

LEMMA BackfillFrStep ==
  ASSUME IInv, BackfillFr, UNCHANGED <<known, csv, parser>>
  PROVE  IInv' /\ SettledStep
<1>1. /\ job.script = "backfill_p92_02a" /\ job.todo # {}
      /\ Advance /\ UNCHANGED legs
  BY DEF BackfillFr, Takes
<1>2. TypeOK /\ Loaded /\ RowsInv
  BY DEF IInv
<1>3. CASE ~Readable(Current)
  BY <1>1, <1>2, <1>3, PassedOver DEF BackfillFr, TypeOK
<1>4. CASE Readable(Current)
  <2> DEFINE price == Read(Current).price
             row == [Seen EXCEPT !.price = price, !.flag = DerivedFlag(price),
                                 !.version = Version]
             cur == deals[Current]
             m == Merge(row, Seen, cur)
  <2>1. Commit(row) /\ UNCHANGED scores
    BY <1>4 DEF BackfillFr
  <2>2. /\ Current \in job.todo /\ Current \in Deals
        /\ Seen \in Row /\ cur \in Row /\ price \in Int
    BY <1>1, <1>2, CurrentRow
  <2>3. /\ row \in Row /\ row.price = price /\ row.flag = DerivedFlag(price)
        /\ row.version = Version /\ row.total = Seen.total
    BY <2>2, DerivedFlags DEF Row, Flags, Version
  <2>4. /\ PickedFor("backfill_p92_02a", Current, Seen)
        /\ Seen = cur \/ Refreshed(Current, Seen, cur, price)
    BY <1>1, <1>2, <2>2 DEF Loaded, Recent, Seen
  <2>5. RowInv(Current, cur, scores[Current])
    BY <1>2, <2>2 DEF RowsInv
  <2>6. m = Merge(row, Seen, cur)
    OBVIOUS
  <2> HIDE DEF row, m, price
  <2>7. /\ m \in Row /\ RowInv(Current, m, scores[Current])
        /\ Settled(Current, cur, m, csv[Current].new)
    BY <2>2, <2>3, <2>4, <2>5, <2>6, BackfilledRow
  <2>8. scores' = [d \in Deals |-> IF d \in {} THEN <<>> ELSE scores[d]]
    BY <2>1, <1>2, UnchangedScores
  <2>9. RowInv(Current, m, IF Current \in {} THEN <<>> ELSE scores[Current])
    BY <2>7
  <2>10. {} \in SUBSET {Current}
    OBVIOUS
  <2> QED BY <1>1, <2>1, <2>3, <2>6, <2>7, <2>8, <2>9, <2>10, CommitStep
<1> QED BY <1>3, <1>4

\* Rows that no poller refreshes are as the script loaded them.
LEMMA SeenIsCurrent ==
  ASSUME IInv, job.todo # {}, Jur[Current] # "FR"
  PROVE  Seen = deals[Current]
<1>1. Current \in job.todo
  BY CurrentRow DEF IInv
<1> QED BY <1>1 DEF IInv, Loaded, Recent, Refreshed, Seen

LEMMA NotFrenchSettled ==
  ASSUME NEW d, NEW row, NEW m, NEW new, Jur[d] # "FR"
  PROVE  Settled(d, row, m, new)
BY DEF Settled

LEMMA ReparseGermanStep ==
  ASSUME IInv, NEW script \in {"backfill_p91a", "reparse_p91cbis"}, ReparseGerman(script),
         UNCHANGED <<known, csv, parser>>
  PROVE  IInv' /\ SettledStep
<1>1. job.script = script /\ job.todo # {} /\ legs' = legs
  BY DEF ReparseGerman, Takes
<1>2. TypeOK /\ Loaded /\ RowsInv
  BY DEF IInv
<1>3. CASE Skip /\ (Advance \/ Break)
  BY <1>1, <1>2, <1>3, PassedOver DEF TypeOK
<1> DEFINE price == Read(Current).price
           flag == Read(Current).flag
           row == [Seen EXCEPT !.price = price, !.flag = flag, !.version = Version]
           cur == deals[Current]
           ds == IF \/ script = "backfill_p91a" /\ CorrectedOrNulled(Seen.price, Read(Current))
                    \/ script = "reparse_p91cbis" /\ PriceChanged(Seen.price, Read(Current))
                 THEN {Current} ELSE {}
           m == Merge(row, Seen, cur)
<1>4. CASE Commit(row) /\ DropScores(ds) /\ Advance
  <2>1. /\ Current \in job.todo /\ Current \in Deals
        /\ Seen \in Row /\ cur \in Row /\ price \in Int /\ flag \in Flags
    BY <1>1, <1>2, CurrentRow
  <2>2. Jur[Current] = "DE" /\ Seen.version = 1
    BY <1>1, <1>2, <2>1 DEF Loaded, PickedFor, Seen
  <2>3. Seen = cur
    BY <1>1, <2>2, SeenIsCurrent
  <2>4. flag = "suspect_mixed" => price = None
    BY <1>2, <2>1, <2>2, DataAssumption DEF TypeOK, Read
  <2>5. RowInv(Current, cur, scores[Current])
    BY <1>2, <2>1 DEF RowsInv
  <2>6. /\ row \in Row /\ row.price = price /\ row.flag = flag
        /\ row.version = Version /\ row.total = cur.total
    BY <2>1, <2>3 DEF Row, Flags, Version
  <2>8. ASSUME Current \notin ds
        PROVE  m \in Row /\ RowInv(Current, m, scores[Current])
    <3>1. \/ price = cur.price \/ flag = "suspect_mixed" \/ price = None
          \/ cur.price \in {None, 0} \/ ~Moved(cur.price, price)
      BY <2>3, <2>8 DEF CorrectedOrNulled, PriceChanged
    <3>2. m = Merge(row, cur, cur)
      BY <2>3
    <3> HIDE DEF row, m, price, flag, ds, cur
    <3> QED BY <2>1, <2>2, <2>3, <2>4, <2>5, <2>6, <3>1, <3>2, ReparsedRow
  <2>9. m \in Row /\ RowInv(Current, m, IF Current \in ds THEN <<>> ELSE scores[Current])
    <3> HIDE DEF row, ds
    <3>1. CASE Current \in ds
      BY <3>1, <2>1, <2>2, <2>3, <2>6, UnscoredRow
    <3> QED BY <3>1, <2>8
  <2>10. /\ ds \in SUBSET {Current} /\ m = Merge(row, Seen, cur)
         /\ Settled(Current, cur, m, csv[Current].new)
    BY <2>2, NotFrenchSettled
  <2>11. scores' = [d \in Deals |-> IF d \in ds THEN <<>> ELSE scores[d]]
    BY <1>4 DEF DropScores
  <2> HIDE DEF row, m, ds
  <2> QED BY <1>1, <1>4, <2>6, <2>9, <2>10, <2>11, CommitStep
<1>5. \/ Skip /\ (Advance \/ Break)
      \/ Commit(row) /\ DropScores(ds) /\ Advance
  BY Zenon DEF ReparseGerman
<1> QED BY <1>3, <1>4, <1>5

LEMMA PromoteConsobStep ==
  ASSUME IInv, PromoteConsob, UNCHANGED <<known, csv, parser>>
  PROVE  IInv' /\ SettledStep
<1>1. /\ job.script = "promote_consob_flags_02d" /\ job.todo # {}
      /\ Advance /\ UNCHANGED legs
  BY DEF PromoteConsob, Takes
<1>2. TypeOK /\ Loaded /\ RowsInv
  BY DEF IInv
<1>3. CASE Skip
  BY <1>1, <1>2, <1>3, PassedOver DEF TypeOK
<1> DEFINE flag == Category(Current, Seen.price)
           row == [Seen EXCEPT !.flag = flag, !.version = Version]
           cur == deals[Current]
           m == Merge(row, Seen, cur)
<1>4. CASE Commit(row) /\ UNCHANGED scores
  <2>1. Current \in job.todo /\ Current \in Deals /\ Seen \in Row
    BY <1>1, <1>2, CurrentRow
  <2>2. Jur[Current] = "IT"
    BY <1>1, <1>2, <2>1 DEF Loaded, PickedFor
  <2>3. Seen = cur
    BY <1>1, <2>2, SeenIsCurrent
  <2>4. RowInv(Current, cur, scores[Current])
    BY <1>2, <2>1 DEF RowsInv
  <2>5. flag \in Flags
    BY DEF Category, Flags
  <2>6. row \in Row /\ row.price = cur.price /\ row.total = cur.total
    <3> HIDE DEF flag
    <3> QED BY <2>1, <2>3, <2>5 DEF Row, Version
  <2>7. m = Merge(row, cur, cur) /\ m = Merge(row, Seen, cur) /\ cur \in Row
    BY <2>1, <2>3
  <2>8. scores' = [d \in Deals |-> IF d \in {} THEN <<>> ELSE scores[d]]
    BY <1>2, <1>4, UnchangedScores
  <2>9. {} \in SUBSET {Current}
    OBVIOUS
  <2> HIDE DEF row, m, cur
  <2>10. m \in Row /\ RowInv(Current, m, scores[Current])
    BY <2>1, <2>2, <2>4, <2>6, <2>7, FlaggedRow
  <2>11. /\ RowInv(Current, m, IF Current \in {} THEN <<>> ELSE scores[Current])
         /\ Settled(Current, cur, m, csv[Current].new)
    BY <2>2, <2>10, NotFrenchSettled
  <2> QED BY <1>1, <1>4, <2>6, <2>7, <2>8, <2>9, <2>10, <2>11, CommitStep DEF cur
<1>5. Skip \/ (Commit(row) /\ UNCHANGED scores)
  BY Zenon DEF PromoteConsob
<1> QED BY <1>3, <1>4, <1>5

LEMMA PopulateStep ==
  ASSUME IInv, Populate, UNCHANGED <<known, csv, parser>>
  PROVE  IInv' /\ SettledStep
<1>1. Current \in known /\ legs \subseteq known
  BY CurrentRow DEF Populate, Takes, IInv, TypeOK
<1>2. Skip /\ legs' \subseteq known /\ (Advance \/ Break)
  BY <1>1 DEF Populate
<1> QED BY <1>2, PassedOver

LEMMA RecalcStep ==
  ASSUME IInv, Recalc, UNCHANGED <<known, csv, parser>>
  PROVE  IInv' /\ SettledStep
<1>1. /\ job.script = "recalc_offer_price_total" /\ job.todo # {}
      /\ Advance /\ UNCHANGED legs
  BY DEF Recalc, Takes
<1>2. TypeOK /\ Loaded /\ RowsInv
  BY DEF IInv
<1>3. CASE Skip
  BY <1>1, <1>2, <1>3, PassedOver DEF TypeOK
<1> DEFINE row(close) == [Seen EXCEPT !.total = Total(Current, close),
                                      !.flag = "verified_mixed"]
           cur == deals[Current]
<1>4. ASSUME NEW close \in Closes, Commit(row(close)), DropScores({Current})
      PROVE  IInv' /\ SettledStep
  <2> DEFINE r == row(close)
             m == Merge(r, Seen, cur)
  <2>1. /\ Current \in job.todo /\ Current \in Deals
        /\ Seen \in Row /\ cur \in Row
    BY <1>1, <1>2, CurrentRow
  <2>2. Seen.flag = "suspect_mixed"
    BY <1>1, <1>2, <2>1 DEF Loaded, PickedFor, Seen
  <2>3. Jur[Current] # "FR"
    BY <1>2, <2>1, <2>2 DEF RowsInv, RowInv, FrenchRow, Loaded, Recent, Refreshed, Seen, Default
  <2>4. Total(Current, close) \in Int
    BY <2>1, DataAssumption DEF Total
  <2>5. r \in Row
    BY <2>1, <2>4 DEF Row, Flags
  <2>6. m = Merge(r, Seen, cur) /\ Commit(r) /\ Seen = cur
    BY <1>1, <1>4, <2>3, SeenIsCurrent
  <2>7. scores' = [d \in Deals |-> IF d \in {Current} THEN <<>> ELSE scores[d]]
    BY <1>4 DEF DropScores
  <2> HIDE DEF r, m, row
  <2>8. m \in Row /\ RowInv(Current, m, <<>>)
    BY <2>1, <2>3, <2>5, <2>6, UnscoredRow
  <2>9. /\ RowInv(Current, m, IF Current \in {Current} THEN <<>> ELSE scores[Current])
        /\ Settled(Current, cur, m, csv[Current].new) /\ {Current} \in SUBSET {Current}
    BY <2>3, <2>8, NotFrenchSettled
  <2> QED BY <1>1, <2>5, <2>6, <2>7, <2>8, <2>9, CommitStep
<1>5. Skip \/ \E close \in Closes : Commit(row(close)) /\ DropScores({Current})
  BY DEF Recalc
<1> QED BY <1>3, <1>4, <1>5

LEMMA ValidateSmallCapStep ==
  ASSUME IInv, ValidateSmallCap, UNCHANGED <<known, csv, parser>>
  PROVE  IInv' /\ SettledStep
<1>1. /\ job.script = "validate_small_caps" /\ job.todo # {}
      /\ Advance /\ UNCHANGED <<scores, legs>>
  BY DEF ValidateSmallCap, Takes
<1>2. TypeOK /\ Loaded /\ RowsInv
  BY DEF IInv
<1>3. PICK close \in Closes : Commit([Seen EXCEPT !.flag = Validated(Seen.price, close)])
  BY DEF ValidateSmallCap
<1> DEFINE flag == Validated(Seen.price, close)
           row == [Seen EXCEPT !.flag = flag]
           cur == deals[Current]
           m == Merge(row, Seen, cur)
<1>4. Current \in job.todo /\ Current \in Deals /\ Seen \in Row
  BY <1>1, <1>2, CurrentRow
<1>5. Jur[Current] = "DE"
  BY <1>1, <1>2, <1>4 DEF Loaded, PickedFor
<1>6. Seen = cur
  BY <1>1, <1>5, SeenIsCurrent
<1>7. RowInv(Current, cur, scores[Current])
  BY <1>2, <1>4 DEF RowsInv
<1>8. flag \in Flags
  BY DEF Validated, Flags
<1>9. /\ row \in Row /\ row.price = cur.price /\ row.total = cur.total
      /\ row.version = cur.version
  <2> HIDE DEF flag
  <2> QED BY <1>4, <1>6, <1>8 DEF Row
<1>10. /\ m = Merge(row, cur, cur) /\ m = Merge(row, Seen, cur) /\ cur \in Row
       /\ Commit(row)
  BY <1>3, <1>4, <1>6
<1>11. scores' = [d \in Deals |-> IF d \in {} THEN <<>> ELSE scores[d]]
  BY <1>1, <1>2, UnchangedScores
<1>12. {} \in SUBSET {Current}
  OBVIOUS
<1> HIDE DEF row, m, cur
<1>13. m \in Row /\ RowInv(Current, m, scores[Current])
  BY <1>4, <1>5, <1>7, <1>9, <1>10, FlaggedRow
<1>14. /\ RowInv(Current, m, IF Current \in {} THEN <<>> ELSE scores[Current])
       /\ Settled(Current, cur, m, csv[Current].new)
  BY <1>5, <1>13, NotFrenchSettled
<1> QED BY <1>1, <1>9, <1>10, <1>11, <1>12, <1>13, <1>14, CommitStep DEF cur

LEMMA Unscored ==
  ASSUME RowsInv, NEW d \in Deals
  PROVE  RowInv(d, deals[d], <<>>)
BY DEF RowsInv, RowInv

\* A score of a row as it was read is of the row as it is, up to a refresh of a French one.
LEMMA ScoredNow ==
  ASSUME TypeOK, RowsInv, NEW d \in Deals, NEW seen \in Row, NEW price,
         Recent(d, seen, deals[d], price)
  PROVE  /\ <<BasisOf(seen)>> \in Seq(Basis) /\ RowInv(d, deals[d], <<BasisOf(seen)>>)
         /\ RowInv(d, deals[d], Append(scores[d], BasisOf(seen)))
         /\ Append(scores[d], BasisOf(seen)) \in Seq(Basis)
<1> DEFINE b == BasisOf(seen)
<1>1. deals[d] \in Row /\ scores[d] \in Seq(Basis) /\ RowInv(d, deals[d], scores[d])
  BY DEF TypeOK, RowsInv
<1>2. b \in Basis
  BY DEF BasisOf, Basis, Row
<1>3. Follows(d, deals[d], b) /\ FirstPrice(d, deals[d], b)
  BY DEF Follows, FirstPrice, BasisOf, Recent, Refreshed
<1> HIDE DEF b
<1>4. RowInv(d, deals[d], <<b>>) /\ <<b>> \in Seq(Basis)
  BY <1>1, <1>2, <1>3 DEF RowInv
<1>5. Append(scores[d], b) \in Seq(Basis)
  BY <1>1, <1>2
<1>6. ASSUME NEW i \in DOMAIN Append(scores[d], b)
      PROVE  /\ Follows(d, deals[d], Append(scores[d], b)[i])
             /\ FirstPrice(d, deals[d], Append(scores[d], b)[i])
  <2>1. CASE i \in DOMAIN scores[d]
    <3>1. Append(scores[d], b)[i] = scores[d][i]
      BY <1>1, <2>1
    <3> QED BY <1>1, <2>1, <3>1 DEF RowInv
  <2>2. CASE i \notin DOMAIN scores[d]
    <3>1. Append(scores[d], b)[i] = b
      BY <1>1, <1>6, <2>2
    <3> QED BY <1>3, <3>1
  <2> QED BY <2>1, <2>2
<1> QED BY <1>1, <1>4, <1>5, <1>6 DEF RowInv, b

LEMMA InvalidateScoresStep ==
  ASSUME IInv, InvalidateScores, UNCHANGED <<known, csv, parser>>
  PROVE  IInv' /\ SettledStep
<1>1. TypeOK /\ RowsInv
  BY DEF IInv
<1>2. job' = NoJob /\ legs' = legs /\ deals' = deals
  BY DEF InvalidateScores, Break
<1>3. scores' = [d \in Deals |-> IF d \in Invalidated THEN <<>> ELSE scores[d]]
  BY DEF InvalidateScores, DropScores
<1>4. scores' \in [Deals -> Seq(Basis)]
  BY <1>1, <1>3 DEF TypeOK
<1>5. \A d \in Deals : scores'[d] # scores[d] =>
         d \in known /\ RowInv(d, deals[d], scores'[d])
  BY <1>1, <1>3, Unscored DEF Invalidated
<1>6. legs' \subseteq known
  BY <1>1, <1>2 DEF TypeOK
<1> QED BY <1>2, <1>4, <1>5, <1>6, QuietStep

\* The earliest deal of a cluster exists: no two were announced at once.
LEMMA RepresentativeIsKnown ==
  ASSUME TypeOK, NEW d \in known
  PROVE  Representative(d) \in Cluster(d) /\ Representative(d) \in known
<1>1. known \subseteq Deals /\ Announced \in [Deals -> Nat]
  BY CurationAssumption DEF TypeOK
<1> DEFINE S == {Announced[e] : e \in Cluster(d)}
<1>2. Cluster(d) \subseteq known /\ d \in Cluster(d)
  BY DEF Cluster
<1>3. S \subseteq Nat /\ S # {}
  BY <1>1, <1>2
<1>4. PICK x \in S : \A y \in S : x <= y
  <2> HIDE DEF S
  <2> QED BY <1>3, LeastExists
<1>5. PICK e \in Cluster(d) : Announced[e] = x
  OBVIOUS
<1>6. \A f \in Cluster(d) : Announced[e] <= Announced[f]
  BY <1>4, <1>5
<1>7. Representative(d) \in Cluster(d)
  BY <1>5, <1>6, Zenon DEF Representative
<1> QED BY <1>2, <1>7

LEMMA ReadClusterStep ==
  ASSUME IInv, ReadCluster, UNCHANGED <<known, csv, parser>>
  PROVE  IInv' /\ SettledStep
<1>1. TypeOK /\ Loaded /\ RowsInv
  BY DEF IInv
<1>2. /\ job.script = "score_deals_run" /\ job.todo # {} /\ job.pending = {}
      /\ UNCHANGED <<known, deals, scores, legs, csv, parser>>
  BY DEF ReadCluster, Takes, Skip
<1> DEFINE T == job.todo \ Cluster(Current)
           r == Representative(Current)
<1>3. job' = [job EXCEPT !.todo = T, !.seen = [job.seen EXCEPT ![r] = deals[r]], !.pending = {r}]
  BY DEF ReadCluster
<1>4. r \in known /\ r \in Deals /\ r \notin T
  BY <1>1, <1>2, CurrentRow, RepresentativeIsKnown DEF TypeOK
<1> HIDE DEF r
<1>5. T \subseteq job.todo
  OBVIOUS
<1> HIDE DEF T
<1>6. job \in Jobs(known) /\ deals[r] \in Row /\ known \subseteq Deals
  BY <1>1, <1>4 DEF TypeOK, Jobs
<1>7. /\ job'.script = "score_deals_run" /\ job'.todo = T /\ job'.pending = {r}
      /\ job'.seen[r] = deals[r]
      /\ \A d \in T : job'.seen[d] = job.seen[d]
      /\ job' \in Jobs(known)
  BY <1>2, <1>3, <1>4, <1>5, <1>6 DEF Jobs
<1>8. Loaded'
  <2>1. \A d \in T : PickedFor(job'.script, d, job'.seen[d])
    BY <1>7 DEF PickedFor
  <2>2. ASSUME NEW d \in T \cup {r}
        PROVE  Recent(d, job'.seen[d], deals'[d], Read(d)'.price)
    <3>1. Read(d)' = Read(d) /\ deals'[d] = deals[d]
      BY <1>2 DEF Read
    <3>2. CASE d \in T
      <4>1. Recent(d, job.seen[d], deals[d], Read(d).price)
        BY <1>1, <1>5, <3>2 DEF Loaded
      <4> QED BY <1>7, <3>1, <3>2, <4>1
    <3>3. CASE d = r
      BY <1>7, <3>1, <3>3 DEF Recent
    <3> QED BY <3>2, <3>3
  <2> QED BY <1>7, <2>1, <2>2 DEF Loaded
<1>9. legs' \subseteq known /\ scores' \in [Deals -> Seq(Basis)]
  BY <1>1, <1>2 DEF TypeOK
<1> QED BY <1>2, <1>7, <1>8, <1>9, RowsStay

\* What a script inserts are scores of the rows it read.
LEMMA PendingScores ==
  ASSUME IInv, NEW d \in job.pending
  PROVE  /\ d \in known /\ d \in Deals
         /\ <<BasisOf(job.seen[d])>> \in Seq(Basis)
         /\ RowInv(d, deals[d], <<BasisOf(job.seen[d])>>)
         /\ Append(scores[d], BasisOf(job.seen[d])) \in Seq(Basis)
         /\ RowInv(d, deals[d], Append(scores[d], BasisOf(job.seen[d])))
<1>1. TypeOK /\ RowsInv /\ Loaded
  BY DEF IInv
<1>2. d \in known /\ d \in Deals /\ job.seen[d] \in Row
  BY <1>1 DEF TypeOK
<1>3. Recent(d, job.seen[d], deals[d], Read(d).price)
  BY <1>1 DEF Loaded
<1> QED BY <1>1, <1>2, <1>3, ScoredNow

LEMMA PersistScoreStep ==
  ASSUME IInv, PersistScore, UNCHANGED <<known, csv, parser>>
  PROVE  IInv' /\ SettledStep
<1>1. TypeOK /\ Loaded
  BY DEF IInv
<1>2. /\ job' = [job EXCEPT !.pending = {}]
      /\ UNCHANGED <<known, deals, legs, csv, parser>>
      /\ scores' = [d \in Deals |->
                       IF d \in job.pending THEN Append(scores[d], BasisOf(job.seen[d]))
                       ELSE scores[d]]
  BY DEF PersistScore
<1>3. job \in Jobs(known)
  BY <1>1 DEF TypeOK, Jobs
<1>4. /\ job' \in Jobs(known) /\ job'.pending = {} /\ job'.todo = job.todo
      /\ job'.script = job.script /\ job'.seen = job.seen
  BY <1>2, <1>3 DEF Jobs
<1>5. Loaded'
  <2>1. \A d : Read(d)' = Read(d)
    BY <1>2 DEF Read
  <2> QED BY <1>1, <1>2, <1>4, <2>1 DEF Loaded
<1>6. scores' \in [Deals -> Seq(Basis)] /\ legs' \subseteq known
  BY <1>1, <1>2, PendingScores DEF TypeOK
<1>7. \A d \in Deals : scores'[d] # scores[d] =>
         d \in known /\ RowInv(d, deals[d], scores'[d])
  BY <1>2, PendingScores
<1> QED BY <1>2, <1>4, <1>5, <1>6, <1>7, RowsStay

LEMMA ScoreFreshStep ==
  ASSUME IInv, ScoreFresh, UNCHANGED <<known, csv, parser>>
  PROVE  IInv' /\ SettledStep
<1>1. TypeOK
  BY DEF IInv
<1>2. /\ job' = NoJob /\ UNCHANGED <<known, deals, legs, csv, parser>>
      /\ scores' = [d \in Deals |-> IF d \in job.pending THEN <<BasisOf(job.seen[d])>>
                                    ELSE scores[d]]
  BY DEF ScoreFresh, Break
<1>3. scores' \in [Deals -> Seq(Basis)] /\ legs' \subseteq known
  BY <1>1, <1>2, PendingScores DEF TypeOK
<1>4. \A d \in Deals : scores'[d] # scores[d] =>
         d \in known /\ RowInv(d, deals[d], scores'[d])
  BY <1>2, PendingScores
<1> QED BY <1>2, <1>3, <1>4, QuietStep

LEMMA WorkStep ==
  ASSUME IInv, ScriptStep
  PROVE  IInv' /\ SettledStep
<1>1. Work /\ UNCHANGED <<known, csv, parser>>
  BY DEF ScriptStep
<1>2. CASE \/ ReparseGerman("backfill_p91a") \/ ReparseGerman("reparse_p91cbis")
  BY <1>1, <1>2, ReparseGermanStep
<1> QED BY <1>1, <1>2, BackfillFrStep, InvalidateScoresStep, PromoteConsobStep, PopulateStep,
           RecalcStep, ValidateSmallCapStep, ReadClusterStep, PersistScoreStep,
           ScoreFreshStep DEF Work

LEMMA StartStep ==
  ASSUME IInv, NEW script \in PerDeal, Start(script)
  PROVE  IInv' /\ SettledStep
<1>1. /\ job' = [script |-> script, todo |-> Selected(script), seen |-> deals, pending |-> {}]
      /\ UNCHANGED <<known, deals, legs, scores, csv, parser>>
  BY DEF Start
<1>2. TypeOK /\ CorrectionsAreFrench /\ RowsInv
  BY DEF IInv
<1>3. deals \in [Deals -> Row] /\ known \subseteq Deals
  BY <1>2 DEF TypeOK
<1>4. Selected(script) \subseteq known
  BY DEF Selected, PerDeal
<1>5. job' \in Jobs(known)
  <2> HIDE DEF Selected
  <2> QED BY <1>1, <1>3, <1>4 DEF Jobs
<1>6. TypeOK'
  BY <1>1, <1>2, <1>5 DEF TypeOK, Jobs
<1>7. ASSUME NEW d \in Selected(script)
      PROVE  PickedFor(script, d, deals[d])
  <2>1. d \in Deals /\ deals[d] \in Row
    BY <1>3, <1>4
  <2>2. deals[d].version < Version => deals[d].version = 1
    BY <2>1 DEF Row, Version
  <2>3. script # "validate_small_caps" => PickedFor(script, d, deals[d])
    BY <1>7, <2>2 DEF Selected, PerDeal, PickedFor
  <2>4. script = "validate_small_caps" => PickedFor(script, d, deals[d])
    BY <1>7, DataAssumption DEF Selected, PickedFor
  <2> QED BY <2>3, <2>4
<1>8. Loaded'
  BY <1>1, <1>7 DEF Loaded, Recent
<1>9. (CorrectionsAreFrench /\ RowsInv)'
  BY <1>1, <1>2 DEF CorrectionsAreFrench, RowsInv
<1>10. SettledStep
  BY <1>1 DEF SettledStep, Settled
<1> QED BY <1>6, <1>8, <1>9, <1>10 DEF IInv

LEMMA StopStep ==
  ASSUME IInv, EndOfLoop \/ CutOff
  PROVE  IInv' /\ SettledStep
<1>1. Break /\ Skip /\ UNCHANGED <<known, legs, csv, parser>>
  BY DEF EndOfLoop, CutOff, Skip
<1> QED BY <1>1, PassedOver DEF IInv, TypeOK

\* A step with no script under way.
LEMMA IdleStep ==
  ASSUME IInv, job = NoJob, UNCHANGED <<known, legs, job>>,
         parser' \in Parsers, csv' \in [Deals -> Line],
         deals' \in [Deals -> Row], scores' \in [Deals -> Seq(Basis)],
         \A d \in Deals : /\ RowInv(d, deals'[d], scores'[d])
                          /\ scores'[d] = scores[d] \/ d \in known
                          /\ csv'[d] # NoLine => Jur[d] = "FR"
  PROVE  IInv'
<1>1. TypeOK' BY DEF IInv, TypeOK
<1>2. Loaded' BY DEF Loaded, NoJob
<1>3. CorrectionsAreFrench' /\ RowsInv' BY DEF CorrectionsAreFrench, RowsInv
<1> QED BY <1>1, <1>2, <1>3 DEF IInv

LEMMA UnmovedRows ==
  ASSUME deals' = deals
  PROVE  SettledStep
BY DEF SettledStep, Settled

LEMMA LoadFreshStep ==
  ASSUME IInv, LoadFresh
  PROVE  IInv' /\ SettledStep
<1>1. /\ job' = [script |-> "p14_score_fresh", todo |-> {}, seen |-> deals, pending |-> Chosen]
      /\ UNCHANGED <<known, deals, legs, scores, csv, parser>>
  BY DEF LoadFresh
<1>2. TypeOK
  BY DEF IInv
<1>3. Chosen \subseteq known
  BY DEF Chosen
<1> HIDE DEF Chosen
<1>4. job' \in Jobs(known)
  BY <1>1, <1>2, <1>3 DEF TypeOK, Jobs
<1>5. Loaded'
  BY <1>1 DEF Loaded, Recent
<1>6. legs' \subseteq known /\ scores' \in [Deals -> Seq(Basis)]
  BY <1>1, <1>2 DEF TypeOK
<1> QED BY <1>1, <1>4, <1>5, <1>6, RowsStay

LEMMA ReRunParserStep ==
  ASSUME IInv, ReRunParser
  PROVE  IInv' /\ SettledStep
<1>1. /\ job = NoJob /\ UNCHANGED <<known, deals, legs, scores, parser, job>>
      /\ csv' = [d \in Deals |->
                    IF Corrected(d) THEN [old |-> deals[d].price, new |-> Read(d).price]
                                    ELSE NoLine]
  BY DEF ReRunParser
<1>2. TypeOK /\ RowsInv
  BY DEF IInv
<1>3. \A d \in Deals : deals[d].price \in Int /\ Read(d).price \in Int
  BY <1>2, DataAssumption DEF TypeOK, Row, Read
<1>4. csv' \in [Deals -> Line]
  BY <1>1, <1>3 DEF Line, NoLine, None
<1>5. ASSUME NEW d \in Deals
      PROVE  /\ RowInv(d, deals'[d], scores'[d])
             /\ scores'[d] = scores[d] \/ d \in known
             /\ csv'[d] # NoLine => Jur[d] = "FR"
  BY <1>1, <1>2 DEF RowsInv, Corrected
<1>6. IInv'
  BY <1>1, <1>2, <1>4, <1>5, IdleStep DEF TypeOK
<1> QED BY <1>1, <1>6, UnmovedRows

LEMMA UpgradeParserStep ==
  ASSUME IInv, UpgradeParser
  PROVE  IInv' /\ SettledStep
<1>1. job = NoJob /\ UNCHANGED <<known, deals, legs, scores, csv, job>> /\ parser' \in Parsers
  BY DEF UpgradeParser
<1>2. TypeOK /\ RowsInv /\ CorrectionsAreFrench
  BY DEF IInv
<1>3. IInv'
  BY <1>1, <1>2, IdleStep DEF TypeOK, RowsInv, CorrectionsAreFrench
<1> QED BY <1>1, <1>3, UnmovedRows

LEMMA ApplyCorrectionsStep ==
  ASSUME IInv, ApplyCorrections
  PROVE  IInv' /\ SettledStep
<1>1. /\ job = NoJob /\ UNCHANGED <<known, legs, scores, csv, parser, job>>
      /\ deals' = [d \in Deals |->
                      IF csv[d] # NoLine /\ ~Drifted(d)
                      THEN [deals[d] EXCEPT !.price = csv[d].new] ELSE deals[d]]
  BY DEF ApplyCorrections
<1>2. TypeOK /\ RowsInv /\ CorrectionsAreFrench
  BY DEF IInv
<1>3. ASSUME NEW d \in Deals
      PROVE  /\ deals'[d] \in Row /\ RowInv(d, deals'[d], scores[d])
             /\ Settled(d, deals[d], deals'[d], csv[d].new)
  <2>1. deals[d] \in Row /\ csv[d].new \in Int /\ RowInv(d, deals[d], scores[d])
    BY <1>2 DEF TypeOK, RowsInv, Line
  <2>2. CASE csv[d] # NoLine /\ ~Drifted(d)
    <3>1. Jur[d] = "FR" /\ deals[d].flag = "verified_cash"
      BY <1>2, <2>2 DEF CorrectionsAreFrench, Drifted
    <3>2. deals'[d] = [deals[d] EXCEPT !.price = csv[d].new]
      BY <1>1, <2>2
    <3> QED BY <2>1, <3>1, <3>2, CorrectedRow
  <2>3. CASE ~(csv[d] # NoLine /\ ~Drifted(d))
    <3>1. deals'[d] = deals[d]
      BY <1>1, <2>3
    <3> QED BY <2>1, <3>1 DEF Settled
  <2> QED BY <2>2, <2>3
<1>4. deals' \in [Deals -> Row]
  <2>1. deals' = [d \in Deals |-> deals'[d]]
    BY <1>1
  <2> QED BY <1>3, <2>1
<1>5. ASSUME NEW d \in Deals
      PROVE  /\ RowInv(d, deals'[d], scores'[d])
             /\ scores'[d] = scores[d] \/ d \in known
             /\ csv'[d] # NoLine => Jur[d] = "FR"
  BY <1>1, <1>2, <1>3 DEF CorrectionsAreFrench
<1>6. /\ parser' \in Parsers /\ csv' \in [Deals -> Line]
      /\ scores' \in [Deals -> Seq(Basis)] /\ UNCHANGED <<known, legs, job>>
  BY <1>1, <1>2 DEF TypeOK
<1>7. IInv'
  BY <1>1, <1>4, <1>5, <1>6, IdleStep
<1>8. SettledStep
  BY <1>2, <1>3 DEF SettledStep, TypeOK
<1> QED BY <1>7, <1>8

-----------------------------------------------------------------------------
(* The pollers. *)

LEMMA InsertedRow ==
  ASSUME NEW d \in Deals, parser \in Parsers, NEW read \in BOOLEAN
  PROVE  Inserted(d, read) \in Row /\ RowInv(d, Inserted(d, read), <<>>)
<1> DEFINE price == IF read THEN Read(d).price ELSE None
<1>1. price \in Int
  BY DataAssumption DEF Read, None
<1>2. Inserted(d, read) = IF Jur[d] = "FR"
                          THEN [NoRow EXCEPT !.price = price, !.flag = DerivedFlag(price),
                                             !.version = Version]
                          ELSE [NoRow EXCEPT !.price = price]
  BY Zenon DEF Inserted
<1> HIDE DEF price
<1>3. DerivedFlag(price) \in {Default, "verified_cash", "failed_validation"}
  BY <1>1, DerivedFlags
<1>4. /\ Inserted(d, read) \in Row
      /\ Inserted(d, read).version = IF Jur[d] = "FR" THEN Version ELSE 1
      /\ Inserted(d, read).flag \in {Default, "verified_cash", "failed_validation"}
  <2> DEFINE french == [NoRow EXCEPT !.price = price, !.flag = DerivedFlag(price),
                                     !.version = Version]
             other == [NoRow EXCEPT !.price = price]
  <2>1. NoRow \in Row /\ NoRow.version = 1 /\ NoRow.flag = Default
    BY DEF NoRow, Row, Flags, Version, None, Default
  <2>2. french \in Row /\ french.version = Version /\ french.flag = DerivedFlag(price)
    BY <1>1, <1>3, <2>1 DEF Row, Flags, Version
  <2>3. other \in Row /\ other.version = 1 /\ other.flag = Default
    BY <1>1, <2>1 DEF Row
  <2>4. Inserted(d, read) = IF Jur[d] = "FR" THEN french ELSE other
    BY <1>2, Zenon
  <2> HIDE DEF french, other
  <2> QED BY <1>3, <2>2, <2>3, <2>4
<1> QED BY <1>4 DEF RowInv, FrenchRow

LEMMA LiveInsertStep ==
  ASSUME IInv, NEW d \in Deals, LiveInsert(d), UNCHANGED <<legs, scores, csv, parser, job>>
  PROVE  IInv' /\ SettledStep
<1>1. TypeOK /\ Loaded /\ RowsInv /\ CorrectionsAreFrench
  BY DEF IInv
<1>2. PICK read \in BOOLEAN : deals' = [deals EXCEPT ![d] = Inserted(d, read)]
  BY DEF LiveInsert, Readable
<1>3. d \notin known /\ known' = known \cup {d} /\ UNCHANGED <<legs, scores, csv, parser, job>>
  BY DEF LiveInsert
<1> DEFINE m == Inserted(d, read)
<1>4. m \in Row /\ RowInv(d, m, <<>>)
  BY <1>1, InsertedRow DEF TypeOK
<1> HIDE DEF m
<1>5. deals \in [Deals -> Row] /\ scores[d] = <<>> /\ known \subseteq Deals
  BY <1>1, <1>3 DEF TypeOK
<1>6. /\ deals' \in [Deals -> Row] /\ deals'[d] = m
      /\ \A e \in Deals : e # d => deals'[e] = deals[e]
  BY <1>2, <1>4, <1>5 DEF m
<1>7. job' \in Jobs(known') /\ Loaded'
  <2>1. \A e \in job.todo \cup job.pending : deals'[e] = deals[e]
    BY <1>1, <1>3, <1>6 DEF TypeOK, Jobs
  <2>2. job' = [job EXCEPT !.todo = job.todo]
    BY <1>1, <1>3 DEF TypeOK
  <2> QED BY <1>1, <1>3, <2>1, <2>2, JobGoesOn
<1>8. TypeOK'
  BY <1>1, <1>3, <1>6, <1>7 DEF TypeOK, Jobs
<1>9. RowsInv' /\ CorrectionsAreFrench'
  BY <1>1, <1>3, <1>4, <1>5, <1>6 DEF RowsInv, CorrectionsAreFrench
<1>10. SettledStep
  BY <1>3, <1>5, <1>6 DEF SettledStep, Settled
<1> QED BY <1>7, <1>8, <1>9, <1>10 DEF IInv

LEMMA LiveRefreshStep ==
  ASSUME IInv, NEW d \in Deals, LiveRefresh(d), UNCHANGED <<legs, scores, csv, parser, job>>
  PROVE  IInv' /\ SettledStep
<1>1. TypeOK /\ Loaded /\ RowsInv /\ CorrectionsAreFrench
  BY DEF IInv
<1> DEFINE price == Read(d).price
           m == [deals[d] EXCEPT !.price = price, !.flag = DerivedFlag(price),
                                 !.version = Version]
<1>2. /\ d \in known /\ Jur[d] = "FR" /\ deals[d].flag = Default
      /\ UNCHANGED <<known, legs, scores, csv, parser, job>>
  BY DEF LiveRefresh
<1>3. deals' = [deals EXCEPT ![d] = m]
  BY Zenon DEF LiveRefresh
<1>4. /\ deals \in [Deals -> Row] /\ known \subseteq Deals /\ price \in Int
      /\ RowInv(d, deals[d], scores[d])
  BY <1>1, DataAssumption DEF TypeOK, Read, RowsInv
<1>5. m \in Row /\ RowInv(d, m, scores[d])
  BY <1>2, <1>4, RefreshedRow
<1>6. /\ m.price = price /\ m.flag = DerivedFlag(price) /\ m.version = Version
      /\ m.total = deals[d].total
  BY <1>4 DEF Row
<1> HIDE DEF m, price
<1>7. /\ deals' \in [Deals -> Row] /\ deals'[d] = m
      /\ \A e \in Deals : e # d => deals'[e] = deals[e]
  BY <1>3, <1>4, <1>5
<1>8. Loaded'
  <2>1. ASSUME NEW e \in job.todo \cup job.pending
        PROVE  Recent(e, job.seen[e], deals'[e], Read(e).price)
    <3>1. Recent(e, job.seen[e], deals[e], Read(e).price)
      BY <1>1 DEF Loaded
    <3>2. CASE e = d
      <4>1. job.seen[d].flag = Default /\ job.seen[d].total = deals[d].total
        BY <1>2, <3>1, <3>2 DEF Recent, Refreshed
      <4>2. Refreshed(d, job.seen[d], m, price)
        BY <1>2, <1>6, <4>1 DEF Refreshed
      <4> QED BY <1>7, <3>2, <4>2 DEF Recent, price
    <3>3. CASE e # d
      <4>1. deals'[e] = deals[e]
        BY <1>1, <1>7, <3>3 DEF TypeOK
      <4> QED BY <3>1, <4>1
    <3> QED BY <3>2, <3>3
  <2>2. \A e : Read(e)' = Read(e)
    BY <1>2 DEF Read
  <2> QED BY <1>1, <1>2, <2>1, <2>2 DEF Loaded
<1>9. TypeOK'
  BY <1>1, <1>2, <1>7 DEF TypeOK
<1>10. RowsInv' /\ CorrectionsAreFrench'
  BY <1>1, <1>2, <1>5, <1>7 DEF RowsInv, CorrectionsAreFrench
<1>11. SettledStep
  BY <1>2, <1>4, <1>7 DEF SettledStep, Settled
<1> QED BY <1>8, <1>9, <1>10, <1>11 DEF IInv

-----------------------------------------------------------------------------
(* The theorems. *)

LEMMA InitRows ==
  ASSUME Init
  PROVE  /\ deals \in [Deals -> Row] /\ known \subseteq Deals
         /\ \A d \in Deals : deals[d].flag = Default /\ deals[d].version = 1
<1>1. /\ known = {d \in Deals : Legacy[d] # {}}
      /\ deals \in [Deals -> UNION {Legacy[d] : d \in Deals} \cup {NoRow}]
      /\ \A d \in Deals : deals[d] \in (IF d \in known THEN Legacy[d] ELSE {NoRow})
  BY DEF Init
<1>2. NoRow \in Row /\ NoRow.flag = Default /\ NoRow.version = 1
  BY DEF NoRow, Row, Flags, Default, None, Version
<1>3. ASSUME NEW d \in Deals
      PROVE  deals[d] \in Row /\ deals[d].flag = Default /\ deals[d].version = 1
  <2>1. CASE d \in known
    BY <1>1, <2>1, DataAssumption
  <2>2. CASE d \notin known
    BY <1>1, <1>2, <2>2
  <2> QED BY <2>1, <2>2
<1>4. deals \in [Deals -> Row]
  BY <1>1, <1>3
<1> QED BY <1>1, <1>3, <1>4

LEMMA InitIInv == Init => IInv
<1> SUFFICES ASSUME Init PROVE IInv
  OBVIOUS
<1>1. /\ legs = {} /\ scores = [d \in Deals |-> <<>>] /\ csv = [d \in Deals |-> NoLine]
      /\ parser = Min(Parsers) /\ job = NoJob
  BY DEF Init
<1>2. parser \in Parsers
  BY <1>1, MinIsMember, DataAssumption
<1>3. job \in Jobs(known)
  BY <1>1, NoJobType
<1>4. TypeOK
  <2>1. NoLine \in Line
    BY DEF NoLine, Line, None
  <2> QED BY <1>1, <1>2, <1>3, <2>1, InitRows DEF TypeOK, Jobs
<1>5. Loaded
  BY <1>1 DEF Loaded, NoJob
<1>6. RowsInv /\ CorrectionsAreFrench
  BY <1>1, InitRows DEF RowsInv, RowInv, FrenchRow, CorrectionsAreFrench
<1> QED BY <1>4, <1>5, <1>6 DEF IInv

LEMMA NextStep == IInv /\ [Next]_vars => IInv' /\ SettledStep
<1> SUFFICES ASSUME IInv, [Next]_vars PROVE IInv' /\ SettledStep
  OBVIOUS
<1>1. ASSUME NEW script \in PerDeal, Start(script) PROVE IInv' /\ SettledStep
  BY <1>1, StartStep
<1>2. CASE Poller
  BY <1>2, LiveInsertStep, LiveRefreshStep DEF Poller
<1>3. CASE UNCHANGED vars
  <2>1. UNCHANGED <<known, legs, csv, parser>> /\ deals' = deals /\ scores' = scores
        /\ job' = job
    BY <1>3 DEF vars
  <2>2. legs \subseteq known /\ scores \in [Deals -> Seq(Basis)]
        /\ job = [job EXCEPT !.todo = job.todo]
    BY DEF IInv, TypeOK
  <2> QED BY <2>1, <2>2, QuietStep
<1> QED BY <1>1, <1>2, <1>3, WorkStep, StopStep, LoadFreshStep, ReRunParserStep,
           ApplyCorrectionsStep, UpgradeParserStep DEF Next

LEMMA Inductive == Spec => []IInv
<1>1. Init => IInv BY InitIInv
<1>2. IInv /\ [Next]_vars => IInv' BY NextStep
<1> QED BY <1>1, <1>2, PTL DEF Spec

\* Every table keeps its columns' types, a score or a mixed consideration belongs to a
\* stored deal, and a script only works on stored deals (models.py, all curation scripts).
THEOREM TypeCorrect == Spec => []TypeOK
<1>1. IInv => TypeOK BY DEF IInv
<1> QED BY <1>1, Inductive, PTL

\* In whatever order the scripts run, wherever they are cut off and whatever the pollers
\* write between their commits, every score is of its deal's price or of one of the kinds
\* the scripts leave on purpose (_invalidate_scores, backfill_p91a, reparse_p91cbis,
\* recalc_offer_price_total).
THEOREM ScoresFollow == Spec => []ScoresFollowPrices
<1>1. IInv => ScoresFollowPrices
  BY DEF IInv, TypeOK, RowsInv, RowInv, Follows, ScoresFollowPrices
<1> QED BY <1>1, Inductive, PTL

\* A French price that was promoted or failed changes by an applied correction only: a
\* script that holds the row as it was before a poller refreshed it writes the same flag
\* and price (amf/service.py upsert_deal_from_bdif, backfill_p92_02a).
THEOREM SettledPricesStay == Spec => SettledStays
<1>1. IInv /\ [Next]_vars =>
        [\A d \in known :
           Jur[d] = "FR" /\ deals[d].flag # Default =>
               /\ deals'[d].flag = deals[d].flag
               /\ deals'[d].price \in {deals[d].price, csv[d].new}]_vars
  BY NextStep DEF SettledStep, Settled
<1> QED BY <1>1, Inductive, PTL DEF Spec, SettledStays

-----------------------------------------------------------------------------
(* The documents: amounts *)

LEMMA ValuesAre ==
  ASSUME NEW a, AmountForm(a)
  PROVE  /\ Exact(a) \in Nat /\ FrenchValue(a) \in Nat /\ LastGroup(a) \in Nat
         /\ CommaValue(a) \in Nat
         /\ a.mark # "dot" => CommaValue(a) = Exact(a)
<1> DEFINE th == a.thousands  un == a.units  ce == a.cents
<1>1. th \in Nat /\ un \in Nat /\ ce \in Nat
  <2>1. th \in 0..999 /\ un \in 0..999 /\ ce \in 0..99
    BY Zenon DEF AmountForm
  <2> HIDE DEF th, un, ce
  <2> QED
    BY <2>1, SMT
<1>2. Exact(a) = (th * 1000 + un) * 1000 + ce * 10 /\ LastGroup(a) = un * 1000 + ce * 10
  BY DEF Exact, LastGroup
<1>3. FrenchValue(a) \in {th * 1000 + un, Exact(a)}
  BY DEF FrenchValue
<1>4. CommaValue(a) = IF a.mark = "dot" THEN Exact(a) * 100 ELSE Exact(a)
  BY DEF CommaValue
<1> HIDE DEF th, un, ce
<1>5. Exact(a) \in Nat /\ LastGroup(a) \in Nat /\ th * 1000 + un \in Nat
  BY <1>1, <1>2
<1>6. Exact(a) * 100 \in Nat
  BY <1>5
<1> QED
  BY <1>3, <1>4, <1>5, <1>6

LEMMA FrenchIs ==
  ASSUME NEW w \in DOMAIN Written
  PROVE  /\ French(w) \in Nat
         /\ ~Split(Written[w], Seps \ {"none"}) => French(w) = FrenchValue(Written[w])
<1>1. AmountForm(Written[w])
  BY WrittenAssumption
<1>2. French(w) = IF Split(Written[w], Seps \ {"none"})
                  THEN LastGroup(Written[w]) ELSE FrenchValue(Written[w])
  BY DEF French
<1> QED
  BY <1>1, <1>2, ValuesAre

-----------------------------------------------------------------------------
(* Texts *)

\* The pages read are the beginning of the text.
LEMMA PagesAre ==
  ASSUME NEW S, NEW t \in Seq(S), NEW breaks
  PROVE  /\ Pages(t, breaks) \in Seq(S)
         /\ \A j \in DOMAIN Pages(t, breaks) :
                j \in DOMAIN t /\ Pages(t, breaks)[j] = t[j]
         /\ \A j \in DOMAIN t : (\A i \in 1..j : t[i].word \notin breaks) =>
                j \in DOMAIN Pages(t, breaks)
         /\ \A j \in DOMAIN Pages(t, breaks) : \A i \in 1..j : t[i].word \notin breaks
<1> DEFINE behind == {i \in DOMAIN t : t[i].word \in breaks}
<1>1. Pages(t, breaks) = IF behind = {} THEN t ELSE SubSeq(t, 1, Min(behind) - 1)
  BY DEF Pages
<1>2. CASE behind = {}
  BY <1>1, <1>2
<1>3. CASE behind # {}
  <2>1. PICK m \in behind : (\A i \in behind : m <= i) /\ m = Min(behind)
    <3>1. behind \subseteq Nat
      OBVIOUS
    <3> HIDE DEF behind
    <3>2. \E m \in behind : \A i \in behind : m <= i
      BY <1>3, <3>1, LeastExists
    <3> QED
      BY <3>2, Zenon DEF Min
  <2>2. /\ m \in 1..Len(t) /\ t[m].word \in breaks
        /\ \A i \in 1..m-1 : t[i].word \notin breaks
    <3>1. m \in 1..Len(t) /\ t[m].word \in breaks
      BY <2>1
    <3>2. ASSUME NEW i \in 1..m-1
          PROVE  t[i].word \notin breaks
      <4>1. i \in DOMAIN t /\ ~(m <= i)
        BY <3>1
      <4> QED
        BY <2>1, <4>1
    <3> QED
      BY <3>1, <3>2
  <2>3. Pages(t, breaks) = SubSeq(t, 1, m - 1)
    BY <1>1, <1>3, <2>1
  <2> HIDE DEF behind
  <2>4. /\ SubSeq(t, 1, m - 1) \in Seq(S)
        /\ DOMAIN SubSeq(t, 1, m - 1) = 1..m-1
        /\ \A j \in 1..m-1 : j \in DOMAIN t /\ SubSeq(t, 1, m - 1)[j] = t[j]
    BY <2>2
  <2> QED
    BY <2>2, <2>3, <2>4
<1> QED
  BY <1>2, <1>3

-----------------------------------------------------------------------------
(* What the parsers read *)

LEMMA AmountsAre ==
  /\ InEuro \subseteq DOMAIN Written /\ Introduced \subseteq InEuro
  /\ Grouped \subseteq Introduced
  /\ Grouped \subseteq Digits /\ Digits \subseteq Introduced
  /\ \A w \in Grouped : ~Split(Written[w], Seps \ {"none"})
BY DEF InEuro, Introduced, Grouped, Digits

LEMMA FoundIs ==
  ASSUME NEW price, NEW source
  PROVE  Found(price, source).price = price /\ Found(price, source).source = source
BY DEF Found

\* amf/parser.py reads a number where the text has an amount.
LEMMA AmfPriceIs ==
  ASSUME NEW S, NEW t \in Seq(S), AmfPrice(t).price # NoPrice
  PROVE  \E j \in DOMAIN t : IsAmount(t[j].word) /\ AmfPrice(t).price = French(t[j].word)
<1>1. ASSUME NEW ends, NEW source, ends # {}, ends \subseteq DOMAIN t,
             \A j \in ends : IsAmount(t[j].word), AmfPrice(t) = At(t, ends, source)
      PROVE  \E j \in DOMAIN t : IsAmount(t[j].word) /\ AmfPrice(t).price = French(t[j].word)
  <2>1. Min(ends) \in ends
    <3>1. ends \subseteq Nat
      BY <1>1
    <3> QED
      BY <1>1, <3>1, MinIsMember
  <2>2. AmfPrice(t).price = French(t[Min(ends)].word)
    BY <1>1, FoundIs DEF At
  <2> QED
    BY <1>1, <2>1, <2>2
<1>2. /\ Engagement(t) \subseteq DOMAIN t /\ \A j \in Engagement(t) : IsAmount(t[j].word)
      /\ Raised(t) \subseteq DOMAIN t /\ \A j \in Raised(t) : IsAmount(t[j].word)
      /\ Fallback(t) \subseteq DOMAIN t /\ \A j \in Fallback(t) : IsAmount(t[j].word)
  BY AmountsAre DEF Engagement, Raised, Fallback, Ends, IsAmount
<1>3. CASE Engagement(t) # {}
  <2>1. AmfPrice(t) = At(t, Engagement(t), "engagement_clause")
    BY <1>3 DEF AmfPrice
  <2> QED
    BY <1>1, <1>2, <1>3, <2>1
<1>4. CASE Engagement(t) = {} /\ Raised(t) # {}
  <2>1. AmfPrice(t) = At(t, Raised(t), "surenchere_raised")
    BY <1>4 DEF AmfPrice
  <2> QED
    BY <1>1, <1>2, <1>4, <2>1
<1>5. CASE Engagement(t) \cup Raised(t) = {} /\ Fallback(t) # {}
  <2>1. AmfPrice(t) = At(t, Fallback(t), "fallback_first_match")
    BY <1>5 DEF AmfPrice
  <2> QED
    BY <1>1, <1>2, <1>5, <2>1
<1>6. CASE Engagement(t) \cup Raised(t) = {} /\ Fallback(t) = {}
  <2>1. AmfPrice(t) = Found(NoPrice, "no_match")
    BY <1>6 DEF AmfPrice
  <2> QED
    BY <2>1, FoundIs
<1> QED
  BY <1>3, <1>4, <1>5, <1>6

\* bafin/parser.py: an amount a cash clause introduces, not one glued to a par value.
LEMMA CashPriceIs ==
  ASSUME NEW S, NEW t \in Seq(S), CashPrice(t) # NoPrice
  PROVE  /\ CashPrice(t) \in Nat
         /\ \E j \in DOMAIN t :
               /\ IsAmount(t[j].word) /\ CashPrice(t) = CommaValue(Written[t[j].word])
               /\ Written[t[j].word].intro > 0 /\ ~ParValue(t, j)
<1> DEFINE offered == {j \in CashAmounts(t) : ~ParValue(t, j)}
           m == Min(offered)
<1>1. CashPrice(t) = IF offered = {} THEN NoPrice ELSE CommaValue(Written[t[m].word])
  BY DEF CashPrice
<1>2. offered # {}
  <2> HIDE DEF offered, m
  <2> QED
    BY <1>1
<1>3. m \in offered
  <2>1. offered \subseteq Nat
    BY DEF CashAmounts
  <2> HIDE DEF offered
  <2> QED
    BY <1>2, <2>1, MinIsMember
<1> HIDE DEF m
<1>4. m \in CashAmounts(t) /\ ~ParValue(t, m)
  BY <1>3
<1>5. m \in DOMAIN t /\ IsAmount(t[m].word) /\ Written[t[m].word].intro > 0
  BY <1>4, Zenon DEF CashAmounts
<1>6. CommaValue(Written[t[m].word]) \in Nat
  <2>1. AmountForm(Written[t[m].word])
    BY <1>5, WrittenAssumption, Zenon DEF IsAmount
  <2> QED
    BY <2>1, ValuesAre
<1>7. CashPrice(t) = CommaValue(Written[t[m].word])
  BY <1>1, <1>2, Zenon
<1> QED
  BY <1>4, <1>5, <1>6, <1>7, Zenon

LEMMA BafinOfferIs ==
  ASSUME NEW S, NEW t \in Seq(S)
  PROVE  LET offer == BafinOffer(t)
         IN  \/ /\ offer.flag = "verified_cash" /\ offer.price # NoPrice
                /\ offer.price = CashPrice(t) /\ ~Mixed(t)
             \/ /\ offer.flag \in {"suspect_mixed", "suspect_low_unverified"}
                /\ offer.price = NoPrice
<1> DEFINE offer == BafinOffer(t)
<1>1. \/ offer = [price |-> NoPrice, flag |-> "suspect_mixed"]
      \/ /\ offer = [price |-> CashPrice(t), flag |-> "verified_cash"]
         /\ ~Mixed(t) /\ CashPrice(t) # NoPrice
      \/ offer = [price |-> NoPrice, flag |-> "suspect_low_unverified"]
  BY DEF BafinOffer
<1> HIDE DEF offer
<1> QED
  BY <1>1 DEF offer

\* consob/parser.py reads an amount, exactly unless it is of a form it misreads.
LEMMA ConsobPriceIs ==
  ASSUME NEW S, NEW t \in Seq(S), ConsobPrice(t) # NoPrice
  PROVE  \E j \in DOMAIN t :
            /\ IsAmount(t[j].word)
            /\ \/ Written[t[j].word].mark = "dot" \/ Split(Written[t[j].word], {"space", "dot"})
               \/ ConsobPrice(t) = Exact(Written[t[j].word])
<1> DEFINE m == Min(ConsobAmounts(t))
           first == Written[t[m].word]
<1>1. ConsobPrice(t) =
        CASE ConsobAmounts(t) = {} -> NoPrice
          [] ConsobAmounts(t) # {} /\ Split(first, {"space", "dot"}) ->
                 CommaValue([first EXCEPT !.thousands = 0])
          [] OTHER -> CommaValue(first)
  BY DEF ConsobPrice
<1>2. ConsobAmounts(t) # {}
  <2> HIDE DEF m, first
  <2> QED
    BY <1>1
<1>3. m \in ConsobAmounts(t)
  <2>1. ConsobAmounts(t) \subseteq Nat
    BY DEF ConsobAmounts
  <2> QED
    BY <1>2, <2>1, MinIsMember
<1>4. m \in DOMAIN t /\ IsAmount(t[m].word)
  BY <1>3, Zenon DEF ConsobAmounts
<1>5. AmountForm(first)
  BY <1>4, WrittenAssumption, Zenon DEF IsAmount
<1>6. first.mark # "dot" => CommaValue(first) = Exact(first)
  BY <1>5, ValuesAre
<1>7. \/ first.mark = "dot" \/ Split(first, {"space", "dot"})
      \/ ConsobPrice(t) = Exact(first)
  <2> HIDE DEF m, first
  <2> QED
    BY <1>1, <1>2, <1>6
<1> HIDE DEF m
<1> QED
  BY <1>4, <1>7

-----------------------------------------------------------------------------
(* The clauses the tools anchor on *)

LEMMA EndsAreFinite ==
  ASSUME NEW S, NEW t \in Seq(S), NEW anchors, NEW window, NEW upTo, NEW amounts
  PROVE  /\ Ends(t, anchors, window, upTo, amounts) \subseteq 1..Len(t)
         /\ IsFiniteSet(Ends(t, anchors, window, upTo, amounts))
<1>1. Ends(t, anchors, window, upTo, amounts) \subseteq 1..Len(t)
  BY DEF Ends
<1>2. IsFiniteSet(1..Len(t))
  BY FS_Interval
<1> QED
  BY <1>1, <1>2, FS_Subset

LEMMA ElementsAre ==
  ASSUME NEW S, NEW t \in Seq(S)
  PROVE  \A n \in DOMAIN t : t[n] \in S
OBVIOUS

\* A reader sees the beginning of the text; it covers it if no amount stands behind.
Covers(read, t) ==
    /\ \A j \in DOMAIN read : j \in DOMAIN t /\ read[j] = t[j]
    /\ \A j \in DOMAIN t : IsAmount(t[j].word) => j \in DOMAIN read

LEMMA PagesCover ==
  ASSUME NEW S, NEW t \in Seq(S),
         \A j \in DOMAIN t : IsAmount(t[j].word) => j \in DOMAIN FivePages(t)
  PROVE  /\ FivePages(t) \in Seq(S) /\ Covers(FivePages(t), t)
         /\ EightPages(t) \in Seq(S) /\ Covers(EightPages(t), t)
<1>1. /\ FivePages(t) \in Seq(S) /\ EightPages(t) \in Seq(S)
      /\ \A j \in DOMAIN FivePages(t) : j \in DOMAIN t /\ FivePages(t)[j] = t[j]
      /\ \A j \in DOMAIN EightPages(t) : j \in DOMAIN t /\ EightPages(t)[j] = t[j]
  BY PagesAre DEF FivePages, EightPages
<1>2. ASSUME NEW j \in DOMAIN FivePages(t)
      PROVE  j \in DOMAIN EightPages(t)
  <2>1. \A i \in 1..j : t[i].word \notin {"page6", "page9"}
    BY <1>2, PagesAre DEF FivePages
  <2>2. \A i \in 1..j : t[i].word \notin {"page9"}
    BY <2>1
  <2> QED
    BY <1>1, <2>2, PagesAre DEF EightPages
<1> QED
  BY <1>1, <1>2 DEF Covers

\* What covers a text has the clauses of the text.
LEMMA SameEnds ==
  ASSUME NEW S, NEW t \in Seq(S), NEW read \in Seq(S), Covers(read, t),
         NEW anchors, NEW window, NEW upTo, NEW amounts, amounts \subseteq DOMAIN Written
  PROVE  Ends(read, anchors, window, upTo, amounts) = Ends(t, anchors, window, upTo, amounts)
<1>1. ASSUME NEW j
      PROVE  j \in Ends(read, anchors, window, upTo, amounts)
                 <=> j \in Ends(t, anchors, window, upTo, amounts)
  <2>1. CASE j \in DOMAIN read
    <3>1. /\ j \in 1..Len(read) /\ j \in DOMAIN t /\ read[j] = t[j]
          /\ \A i \in 1..j-1 : i \in DOMAIN read
      BY <2>1 DEF Covers
    <3>2. \A i \in 1..j-1 : /\ read[i] = t[i]
                            /\ Gap(read, i, j, upTo) = Gap(t, i, j, upTo)
                            /\ \A k \in i+1..j-1 : read[k] = t[k]
      BY <3>1 DEF Covers, Gap
    <3> QED
      BY <3>1, <3>2 DEF Ends
  <2>2. CASE j \notin DOMAIN read
    <3>1. j \in DOMAIN t => t[j].word \notin amounts
      BY <2>2 DEF Covers, IsAmount
    <3> QED
      BY <2>2, <3>1 DEF Ends
  <2> QED
    BY <2>1, <2>2
<1> QED
  BY <1>1

\* What ~ToolsDiffer says of the clauses of a text: of one price, and nothing between the
\* verb and the price of any.
Plain(t) == /\ \A j, k \in Engagement(t) : French(t[j].word) = French(t[k].word)
            /\ \A j \in Engagement(t) : t[j].word \in Grouped
            /\ \A i, j \in DOMAIN t :
                   i < j /\ t[i].word = "engage" /\ t[j].word \in Introduced
                         /\ Gap(t, i, j, "prix") <= 400 => Gap(t, i, j, "amount") <= 400

\* A clause of a tool that looks for more amounts than the parser's groups or as many is
\* then one of the parser's: no nearer amount can be in between.
LEMMA ClauseIsNearest ==
  ASSUME NEW W, NEW t \in Seq([word : W, at : Nat]), Fits(t), Plain(t),
         NEW A, Grouped \subseteq A, A \subseteq Introduced,
         NEW j \in Ends(t, {"engage"}, 400, "prix", A)
  PROVE  /\ j \in Engagement(t)
         /\ j \in Ends(t, {"engage"}, 400, "prix", Digits)
<1>1. PICK i \in 1..j-1 : /\ t[i].word = "engage" /\ Gap(t, i, j, "prix") <= 400
                          /\ \A k \in i+1..j-1 : t[k].word \notin A
  BY DEF Ends
<1>2. j \in DOMAIN t /\ t[j].word \in A
  BY DEF Ends
<1>3. j \in Nat /\ j \in 1..Len(t) /\ i \in Nat /\ i < j /\ i \in DOMAIN t
  BY <1>1, <1>2
<1> DEFINE met == {k \in i+1..j : t[k].word \in InEuro}
<1>4. met \subseteq Nat /\ j \in met
  BY <1>2, <1>3, AmountsAre
<1>5. PICK k \in met : \A m \in met : k <= m
  <2> HIDE DEF met
  <2> QED
    BY <1>4, LeastExists
<1>6. k \in Nat /\ i < k /\ k <= j /\ k \in DOMAIN t /\ t[k].word \in InEuro
  BY <1>3, <1>5
<1>7. \A m \in i+1..k-1 : t[m].word \notin InEuro
  BY <1>3, <1>5, <1>6
<1>8. Gap(t, i, k, "amount") <= 400
  <2>1. CASE k = j
    <3>1. Gap(t, i, j, "amount") <= 400
      BY <1>1, <1>2, <1>3 DEF Plain
    <3> QED
      BY <2>1, <3>1
  <2>2. CASE k # j
    <3>1. t[k].at + Intro(t[j].word) < t[j].at
      BY <1>3, <1>6, <2>2 DEF Fits
    <3>2. t[k].at \in Nat /\ t[j].at \in Nat /\ t[i].at \in Nat
      <4>1. \A n \in DOMAIN t : t[n] \in [word : W, at : Nat]
        BY ElementsAre
      <4> QED
        BY <1>2, <1>3, <1>6, <4>1
    <3>3. Intro(t[j].word) \in Nat
      BY WrittenAssumption DEF Intro, IsAmount, AmountForm
    <3>4. t[j].at - t[i].at - Intro(t[j].word) <= 400
      BY <1>1 DEF Gap
    <3>5. Gap(t, i, k, "amount") = t[k].at - t[i].at - 0
      BY DEF Gap
    <3>6. \A x, y, z, d \in Nat : x + d < y /\ y - z - d <= 400 => x - z - 0 <= 400
      OBVIOUS
    <3>7. t[k].at - t[i].at - 0 <= 400
      BY <3>1, <3>2, <3>3, <3>4, <3>6
    <3> QED
      BY <3>5, <3>7
  <2> QED
    BY <2>1, <2>2
<1>9. i \in 1..k-1
  BY <1>1, <1>3, <1>6
<1>10. k \in Engagement(t)
  BY <1>1, <1>6, <1>7, <1>8, <1>9 DEF Engagement, Ends
<1>11. t[k].word \in Grouped
  BY <1>10 DEF Plain
<1>12. k = j
  <2>1. k \notin i+1..j-1
    BY <1>1, <1>11
  <2> QED
    BY <1>3, <1>6, <2>1
<1>13. \A m \in i+1..j-1 : t[m].word \notin Digits
  BY <1>7, <1>12, AmountsAre
<1>14. t[j].word \in Digits
  BY <1>11, <1>12, AmountsAre
<1>15. j \in Ends(t, {"engage"}, 400, "prix", Digits)
  BY <1>1, <1>2, <1>13, <1>14 DEF Ends
<1> QED
  BY <1>10, <1>12, <1>15

\* All clauses then have the price of the parser's first one.
LEMMA ClausesAre ==
  ASSUME NEW W, NEW t \in Seq([word : W, at : Nat]), Fits(t), Plain(t)
  PROVE  /\ Primary(t) \subseteq Engagement(t)
         /\ Principals(t) \subseteq Primary(t)
         /\ Engagement(t) # {} => Min(Engagement(t)) \in Engagement(t)
         /\ \A j \in Engagement(t), k \in Engagement(t) :
                /\ FrenchValue(Written[t[j].word]) = French(t[k].word)
                /\ French(t[k].word) \in Nat
<1>1. /\ Grouped \subseteq Digits /\ Digits \subseteq Introduced
      /\ Grouped \subseteq Grouped /\ Grouped \subseteq Introduced
  BY AmountsAre
<1>2. Primary(t) \subseteq Engagement(t)
  BY <1>1, ClauseIsNearest DEF Primary
<1>3. Principals(t) \subseteq Primary(t)
  BY <1>1, ClauseIsNearest DEF Principals, Primary
<1>4. Engagement(t) # {} => Min(Engagement(t)) \in Engagement(t)
  <2>1. Engagement(t) \subseteq Nat
    BY EndsAreFinite DEF Engagement
  <2> QED
    BY <2>1, MinIsMember
<1>5. ASSUME NEW j \in Engagement(t), NEW k \in Engagement(t)
      PROVE  /\ FrenchValue(Written[t[j].word]) = French(t[k].word)
             /\ French(t[k].word) \in Nat
  <2>1. t[j].word \in Grouped /\ French(t[j].word) = French(t[k].word)
    BY <1>5 DEF Plain
  <2>2. t[j].word \in DOMAIN Written /\ ~Split(Written[t[j].word], Seps \ {"none"})
    BY <2>1, AmountsAre
  <2> QED
    BY <2>1, <2>2, FrenchIs
<1> QED
  BY <1>2, <1>3, <1>4, <1>5

\* p92_02b_ground_truth.py anchors its verdict exactly if it finds a clause, and compares the
\* price of the last one.
LEMMA TruthIs ==
  ASSUME NEW S, NEW t \in Seq(S), NEW price
  PROVE  LET truth == GroundTruth(t, price)
             value == FrenchValue(Written[t[Max(Primary(t))].word])
         IN  /\ Primary(t) # {} => /\ truth.primary = value
                                   /\ Anchored(truth.status)
                                   /\ Confirmed(truth.status) <=> value = price
             /\ Primary(t) = {} => ~Anchored(truth.status)
<1> DEFINE value(ends) == FrenchValue(Written[t[Max(ends)].word])
           compare(ends, match, mismatch) ==
               Verdict(IF value(ends) = price THEN match ELSE mismatch, value(ends))
           several == compare(Primary(t), "several_match", "several_mismatch")
           single == compare(Primary(t), "single_match", "single_mismatch")
           fallback == compare(AnyPrice(t), "fallback_match", "fallback_mismatch")
           none == Verdict("no_engagement_clause", NoPrice)
           many == Cardinality(Primary(t))
           truth == GroundTruth(t, price)
<1>1. truth = CASE many > 1 -> several
                [] many = 1 -> single
                [] Primary(t) = {} /\ AnyPrice(t) # {} -> fallback
                [] OTHER -> none
  BY Zenon DEF GroundTruth
<1>2. many \in Nat /\ (many = 0 <=> Primary(t) = {})
  <2>1. IsFiniteSet(Primary(t))
    BY EndsAreFinite DEF Primary
  <2> QED
    BY <2>1, FS_CardinalityType, FS_EmptySet
<1>3. \A s, p : Verdict(s, p).status = s /\ Verdict(s, p).primary = p
  BY DEF Verdict
<1>4. /\ single.primary = value(Primary(t)) /\ several.primary = value(Primary(t))
      /\ single.status = IF value(Primary(t)) = price THEN "single_match"
                         ELSE "single_mismatch"
      /\ several.status = IF value(Primary(t)) = price THEN "several_match"
                          ELSE "several_mismatch"
  BY <1>3, Zenon
<1>5. /\ fallback.status \in {"fallback_match", "fallback_mismatch"}
      /\ none.status = "no_engagement_clause"
  <2> HIDE DEF value
  <2> QED
    BY <1>3
<1> HIDE DEF several, single, fallback, none, many, truth
<1>6. \/ Primary(t) # {} /\ truth \in {single, several}
      \/ Primary(t) = {} /\ truth \in {fallback, none}
  BY <1>1, <1>2
<1> DEFINE v == value(Primary(t))
<1>7. v = FrenchValue(Written[t[Max(Primary(t))].word])
  OBVIOUS
<1>8. /\ single.primary = v /\ several.primary = v
      /\ single.status = IF v = price THEN "single_match" ELSE "single_mismatch"
      /\ several.status = IF v = price THEN "several_match" ELSE "several_mismatch"
  BY <1>4
<1> HIDE DEF value, v
<1>9. /\ Primary(t) # {} => /\ truth.primary = v
                            /\ Anchored(truth.status)
                            /\ Confirmed(truth.status) <=> v = price
      /\ Primary(t) = {} => ~Anchored(truth.status)
  BY <1>5, <1>6, <1>8 DEF Anchored, Confirmed
<1> QED
  BY <1>7, <1>9 DEF truth

LEMMA MaxIsMember ==
  ASSUME NEW n \in Nat, NEW S, S \subseteq 1..n, S # {}
  PROVE  Max(S) \in S
<1> DEFINE D == {n - x : x \in S}
<1>1. D \subseteq Nat /\ D # {}
  <2>1. \A x \in 1..n : n - x \in Nat
    OBVIOUS
  <2> QED BY <2>1
<1>2. PICK d \in D : \A e \in D : d <= e
  <2> HIDE DEF D
  <2> QED
    BY <1>1, LeastExists
<1>3. PICK x \in S : d = n - x
  BY <1>2
<1>4. ASSUME NEW y \in S
      PROVE  x >= y
  <2>1. n - y \in D /\ x \in Nat /\ y \in Nat
    OBVIOUS
  <2>2. d <= n - y
    BY <1>2, <2>1
  <2> QED
    BY <1>3, <2>1, <2>2
<1> QED
  BY <1>3, <1>4, Zenon DEF Max

\* The parser takes the price of such a clause if there is one.
LEMMA ClauseIsRead ==
  ASSUME NEW W, NEW t \in Seq([word : W, at : Nat]), Fits(t), Plain(t),
         NEW five \in Seq([word : W, at : Nat]), Covers(five, t), Engagement(t) # {}
  PROVE  \E k \in Engagement(t) :
             AmfPrice(five) = Found(French(t[k].word), "engagement_clause")
<1> DEFINE k == Min(Engagement(t))
<1>1. Engagement(five) = Engagement(t)
  <2>1. InEuro \subseteq DOMAIN Written
    BY AmountsAre
  <2> QED
    BY <2>1, SameEnds DEF Engagement
<1>2. k \in Engagement(t)
  BY ClausesAre
<1>3. five[k] = t[k]
  <2>1. k \in DOMAIN t /\ IsAmount(t[k].word)
    BY <1>2, AmountsAre DEF Engagement, Ends, IsAmount
  <2> QED
    BY <2>1 DEF Covers
<1>4. AmfPrice(five) = At(five, Engagement(five), "engagement_clause")
  BY <1>1 DEF AmfPrice
<1>5. AmfPrice(five) = Found(French(t[k].word), "engagement_clause")
  BY <1>1, <1>3, <1>4 DEF At
<1> QED
  BY <1>2, <1>5

\* Whatever the audit anchors on then has the price of the parser's clauses.
LEMMA AnchoredIs ==
  ASSUME NEW W, NEW t \in Seq([word : W, at : Nat]), Fits(t), Plain(t), NEW price \in Int,
         NEW eight \in Seq([word : W, at : Nat]), Covers(eight, t),
         Anchored(GroundTruth(eight, price).status)
  PROVE  /\ Engagement(t) # {}
         /\ \A k \in Engagement(t) : GroundTruth(eight, price).primary = French(t[k].word)
         /\ GroundTruth(eight, price).primary \in Nat
         /\ Confirmed(GroundTruth(eight, price).status)
                <=> GroundTruth(eight, price).primary = price
<1> DEFINE truth == GroundTruth(eight, price)
           m == Max(Primary(t))
<1>1. Primary(eight) = Primary(t)
  <2>1. Digits \subseteq DOMAIN Written
    BY AmountsAre
  <2> QED
    BY <2>1, SameEnds DEF Primary
<1>2. Primary(t) # {}
  BY <1>1, TruthIs
<1>3. m \in Primary(t)
  <2>1. Primary(t) \subseteq 1..Len(t) /\ Len(t) \in Nat
    BY EndsAreFinite DEF Primary
  <2> QED
    BY <1>2, <2>1, MaxIsMember
<1>4. m \in Engagement(t)
  BY <1>3, ClausesAre
<1>5. \A k \in Engagement(t) : /\ FrenchValue(Written[t[m].word]) = French(t[k].word)
                               /\ French(t[k].word) \in Nat
  BY <1>4, ClausesAre
<1>6. eight[m] = t[m]
  <2>1. m \in DOMAIN t /\ IsAmount(t[m].word)
    BY <1>4, AmountsAre DEF Engagement, Ends, IsAmount
  <2> QED
    BY <2>1 DEF Covers
<1>7. /\ truth.primary = FrenchValue(Written[t[m].word])
      /\ Confirmed(truth.status) <=> FrenchValue(Written[t[m].word]) = price
  BY <1>1, <1>2, <1>6, TruthIs
<1> HIDE DEF truth, m
<1>8. /\ Engagement(t) # {}
      /\ \A k \in Engagement(t) : truth.primary = French(t[k].word)
      /\ truth.primary \in Nat
      /\ Confirmed(truth.status) <=> truth.primary = price
  BY <1>4, <1>5, <1>7
<1> QED
  BY <1>8 DEF truth

\* p92_02b_pre_review.py: a guess of high confidence is the price of the clauses, which is
\* what the audit took for right.
LEMMA HighGuessIs ==
  ASSUME NEW W, NEW t \in Seq([word : W, at : Nat]), Fits(t), Plain(t), NEW price \in Int,
         NEW eight \in Seq([word : W, at : Nat]), Covers(eight, t),
         BestGuess(t).confidence = "HIGH"
  PROVE  BestGuess(t).price = GroundTruth(eight, price).primary
<1> DEFINE values == ValuesAt(t, Principals(t))
           last == FrenchValue(Written[t[Max(Principals(t))].word])
           other == CHOOSE v \in Others(t) : TRUE
<1>1. BestGuess(t) =
        CASE Cardinality(values) = 1 -> Guess(last, "HIGH")
          [] Cardinality(values) > 1 -> Guess(last, "MEDIUM")
          [] values = {} /\ Cardinality(Others(t)) = 1 -> Guess(other, "MEDIUM")
          [] OTHER -> Guess(NoPrice, "LOW")
  BY DEF BestGuess
<1>2. \A p, c : Guess(p, c).price = p /\ Guess(p, c).confidence = c
  BY DEF Guess
<1>3. Cardinality(values) = 1 /\ BestGuess(t) = Guess(last, "HIGH")
  <2> DEFINE many == Cardinality(values)
  <2>1. values = {} => many = 0
    <3> HIDE DEF values
    <3> QED
      BY FS_EmptySet
  <2> HIDE DEF values, last, other, many
  <2>2. CASE many = 1
    BY <1>1, <2>1, <2>2 DEF many
  <2>3. CASE many # 1
    <3>1. BestGuess(t) \in {Guess(last, "MEDIUM"), Guess(other, "MEDIUM"),
                            Guess(NoPrice, "LOW")}
      BY <1>1, <2>1, <2>3 DEF many
    <3> QED
      BY <1>2, <3>1
  <2> QED
    BY <2>2, <2>3
<1>4. Principals(t) # {}
  <2> SUFFICES ASSUME Principals(t) = {}
               PROVE  FALSE
    OBVIOUS
  <2>1. values = {}
    BY DEF ValuesAt
  <2> HIDE DEF values
  <2> QED
    BY <1>3, <2>1, FS_EmptySet
<1> DEFINE n == Max(Principals(t))
           m == Max(Primary(t))
<1>5. n \in Principals(t) /\ m \in Primary(t)
  <2>1. /\ Principals(t) \subseteq 1..Len(t) /\ Primary(t) \subseteq 1..Len(t)
        /\ Len(t) \in Nat
    BY EndsAreFinite DEF Primary, Principals
  <2>2. Primary(t) # {}
    BY <1>4, ClausesAre
  <2> QED
    BY <1>4, <2>1, <2>2, MaxIsMember
<1>6. n \in Engagement(t) /\ m \in Engagement(t)
  BY <1>5, ClausesAre
<1>7. FrenchValue(Written[t[n].word]) = FrenchValue(Written[t[m].word])
  BY <1>6, ClausesAre
<1>8. BestGuess(t).price = FrenchValue(Written[t[n].word])
  BY <1>2, <1>3
<1>9. Primary(eight) = Primary(t) /\ eight[m] = t[m]
  <2>1. Digits \subseteq DOMAIN Written
    BY AmountsAre
  <2>2. m \in DOMAIN t /\ IsAmount(t[m].word)
    BY <1>6, AmountsAre DEF Engagement, Ends, IsAmount
  <2> HIDE DEF m
  <2>3. eight[m] = t[m]
    BY <2>2 DEF Covers
  <2>4. Primary(eight) = Primary(t)
    BY <2>1, SameEnds DEF Primary
  <2> QED
    BY <2>3, <2>4
<1>10. GroundTruth(eight, price).primary = FrenchValue(Written[t[m].word])
  BY <1>5, <1>9, TruthIs
<1> QED
  BY <1>7, <1>8, <1>10

-----------------------------------------------------------------------------
(* The invariant: what was written about a document is still what its text says. *)

FrenchStored ==
    reg = "FR" /\ stored # NoPrice =>
        \E j \in DOMAIN text : IsAmount(text[j].word) /\ stored = French(text[j].word)

GermanStored ==
    reg = "DE" =>
        /\ quality = Unset => stored = NoPrice
        /\ quality # Unset => /\ stored = BafinOffer(text).price
                              /\ quality = BafinOffer(text).flag
        /\ consideration # <<>> => quality = "suspect_mixed"

ItalianStored == reg = "IT" /\ stored # NoPrice => stored = ConsobPrice(text)

Audited ==
    audit.status # Unset =>
        /\ reg = "FR" /\ stored # NoPrice
        /\ audit = GroundTruth(EightPages(text), stored)

Reviewed ==
    review.confidence # Unset => Suspect(audit.status) /\ review = BestGuess(text)

ReadAgain ==
    rerun.category # Unset =>
        /\ reg = "FR" /\ stored # NoPrice
        /\ rerun.price = AmfPrice(FivePages(text)).price
        /\ rerun.category = Categorise(stored, AmfPrice(FivePages(text)))

DocInv == /\ reg \in Regulators /\ text \in Seq(Token(reg)) /\ Fits(text)
          /\ FrenchStored /\ GermanStored /\ ItalianStored
          /\ Audited /\ Reviewed /\ ReadAgain

LEMMA InitDocInv == DocInit => DocInv
<1> SUFFICES ASSUME DocInit
             PROVE  DocInv
  OBVIOUS
<1>1. reg \in Regulators /\ text \in Seq(Token(reg)) /\ Fits(text)
  <2>1. PICK n \in 0..Length, layout \in Layouts[reg] :
              \E words \in [1..n -> Words[reg]] : text = Placed(words, layout)
    BY DEF DocInit
  <2>2. PICK words \in [1..n -> Words[reg]] : text = Placed(words, layout)
    BY <2>1
  <2>3. reg \in Regulators /\ n \in Nat /\ Length \in Nat
    BY WrittenAssumption DEF DocInit
  <2>4. layout \in [1..Length -> Nat]
    BY <2>3, LayoutsAssumption
  <2>5. \A k \in 1..n : layout[k] \in Nat
    BY <2>3, <2>4
  <2>6. text = [k \in 1..n |-> [word |-> words[k], at |-> layout[k]]]
    BY <2>2 DEF Placed
  <2>7. \A k \in 1..n : [word |-> words[k], at |-> layout[k]] \in Token(reg)
    BY <2>5 DEF Token
  <2>8. text \in [1..n -> Token(reg)]
    BY <2>6, <2>7
  <2> QED
    BY <2>3, <2>8 DEF DocInit
<1>2. stored = NoPrice /\ quality = Unset /\ consideration = <<>>
  BY DEF DocInit
<1>3. audit.status = Unset /\ review.confidence = Unset /\ rerun.category = Unset
  BY DEF DocInit, Verdict, Guess
<1>4. FrenchStored /\ GermanStored /\ ItalianStored
  BY <1>2 DEF FrenchStored, GermanStored, ItalianStored
<1>5. Audited /\ Reviewed /\ ReadAgain
  BY <1>3 DEF Audited, Reviewed, ReadAgain
<1> QED
  BY <1>1, <1>4, <1>5 DEF DocInv

\* A stored French price is an amount of the document, whichever revision stored it.
LEMMA StoreFrenchStep == ASSUME DocInv, StoreFrench PROVE DocInv'
<1>1. /\ reg = "FR" /\ stored = NoPrice /\ stored' # NoPrice
      /\ stored' \in {AmfPrice(FivePages(text)).price}
                     \cup {French(text[j].word) :
                               j \in {j \in DOMAIN text : InFrench(text[j].word)}}
      /\ reg' = reg /\ text' = text /\ quality' = quality /\ consideration' = consideration
      /\ audit' = audit /\ review' = review /\ rerun' = rerun
  BY DEF StoreFrench
<1>2. text \in Seq(Token(reg))
  BY DEF DocInv
<1>3. \E j \in DOMAIN text : IsAmount(text[j].word) /\ stored' = French(text[j].word)
  <2>1. CASE stored' = AmfPrice(FivePages(text)).price
    <3> DEFINE read == FivePages(text)
    <3>1. /\ read \in Seq(Token(reg))
          /\ \A j \in DOMAIN read : j \in DOMAIN text /\ read[j] = text[j]
      BY <1>2, PagesAre DEF FivePages
    <3> HIDE DEF read
    <3>2. AmfPrice(read).price # NoPrice /\ stored' = AmfPrice(read).price
      BY <1>1, <2>1 DEF read
    <3>3. \E j \in DOMAIN read :
              IsAmount(read[j].word) /\ AmfPrice(read).price = French(read[j].word)
      BY <3>1, <3>2, AmfPriceIs
    <3> QED
      BY <3>1, <3>2, <3>3
  <2>2. CASE \E j \in DOMAIN text : InFrench(text[j].word) /\ stored' = French(text[j].word)
    BY <2>2 DEF InFrench
  <2> QED
    BY <1>1, <2>1, <2>2
<1>4. FrenchStored'
  BY <1>1, <1>3, Zenon DEF FrenchStored, IsAmount, French
<1>5. GermanStored' /\ ItalianStored'
  BY <1>1 DEF GermanStored, ItalianStored
<1>6. audit.status = Unset /\ review.confidence = Unset /\ rerun.category = Unset
  BY <1>1 DEF DocInv, Audited, Reviewed, ReadAgain, Suspect, Unset
<1>7. Audited' /\ Reviewed' /\ ReadAgain'
  BY <1>1, <1>6 DEF Audited, Reviewed, ReadAgain
<1> QED
  BY <1>1, <1>4, <1>5, <1>7 DEF DocInv

LEMMA StoreGermanStep == ASSUME DocInv, StoreGerman PROVE DocInv'
<1>1. /\ reg = "DE" /\ quality = Unset
      /\ stored' = BafinOffer(text).price /\ quality' = BafinOffer(text).flag
      /\ reg' = reg /\ text' = text /\ consideration' = consideration
      /\ audit' = audit /\ review' = review /\ rerun' = rerun
  BY DEF StoreGerman
<1>2. consideration = <<>>
  BY <1>1 DEF DocInv, GermanStored, Unset
<1>3. GermanStored'
  <2>1. BafinOffer(text)' = BafinOffer(text)
    BY <1>1
  <2>2. BafinOffer(text).flag # Unset
    BY DEF BafinOffer, Unset
  <2> QED
    BY <1>1, <1>2, <2>1, <2>2 DEF GermanStored
<1>4. FrenchStored' /\ ItalianStored'
  BY <1>1 DEF FrenchStored, ItalianStored
<1>5. audit.status = Unset /\ review.confidence = Unset /\ rerun.category = Unset
  BY <1>1 DEF DocInv, Audited, Reviewed, ReadAgain, Suspect, Unset
<1>6. Audited' /\ Reviewed' /\ ReadAgain'
  BY <1>1, <1>5 DEF Audited, Reviewed, ReadAgain
<1> QED
  BY <1>1, <1>3, <1>4, <1>6 DEF DocInv

\* The prices of a document are written once, and only by the scripts of its regulator.
LEMMA OtherStoreStep == ASSUME DocInv, RecordLegs \/ StoreItalian PROVE DocInv'
<1>1. CASE RecordLegs
  <2>1. /\ quality = "suspect_mixed"
        /\ reg' = reg /\ text' = text /\ stored' = stored /\ quality' = quality
        /\ audit' = audit /\ review' = review /\ rerun' = rerun
    BY <1>1 DEF RecordLegs
  <2>2. FrenchStored' /\ GermanStored' /\ ItalianStored'
    BY <2>1 DEF DocInv, FrenchStored, GermanStored, ItalianStored
  <2>3. Audited' /\ Reviewed' /\ ReadAgain'
    BY <2>1 DEF DocInv, Audited, Reviewed, ReadAgain
  <2> QED
    BY <2>1, <2>2, <2>3 DEF DocInv
<1>2. CASE StoreItalian
  <2>1. /\ reg = "IT" /\ stored' = ConsobPrice(text)
        /\ reg' = reg /\ text' = text /\ quality' = quality /\ consideration' = consideration
        /\ audit' = audit /\ review' = review /\ rerun' = rerun
    BY <1>2 DEF StoreItalian
  <2>2. FrenchStored' /\ GermanStored' /\ ItalianStored'
    BY <2>1 DEF FrenchStored, GermanStored, ItalianStored
  <2>3. audit.status = Unset /\ review.confidence = Unset /\ rerun.category = Unset
    BY <2>1 DEF DocInv, Audited, Reviewed, ReadAgain, Suspect, Unset
  <2>4. Audited' /\ Reviewed' /\ ReadAgain'
    BY <2>1, <2>3 DEF Audited, Reviewed, ReadAgain
  <2> QED
    BY <2>1, <2>2, <2>4 DEF DocInv
<1> QED
  BY <1>1, <1>2

\* The tools write rows of their own, of a stored price that no longer moves.
LEMMA ToolStep == ASSUME DocInv, Audit \/ Review \/ ReRun PROVE DocInv'
<1>1. /\ reg' = reg /\ text' = text /\ stored' = stored
      /\ quality' = quality /\ consideration' = consideration
  BY DEF Audit, Review, ReRun
<1>2. FrenchStored' /\ GermanStored' /\ ItalianStored'
  BY <1>1 DEF DocInv, FrenchStored, GermanStored, ItalianStored
<1>3. CASE Audit
  <2>1. /\ reg = "FR" /\ stored # NoPrice /\ audit.status = Unset
        /\ audit' = GroundTruth(EightPages(text), stored)
        /\ review' = review /\ rerun' = rerun
    BY <1>3 DEF Audit
  <2>2. GroundTruth(EightPages(text), stored)'
          = GroundTruth(EightPages(text), stored)
    BY <1>1
  <2>3. review.confidence = Unset
    BY <2>1 DEF DocInv, Reviewed, Suspect, Unset
  <2>4. Audited' /\ Reviewed' /\ ReadAgain'
    BY <1>1, <2>1, <2>2, <2>3 DEF DocInv, Audited, Reviewed, ReadAgain
  <2> QED
    BY <1>1, <1>2, <2>4 DEF DocInv
<1>4. CASE Review
  <2>1. /\ Suspect(audit.status) /\ review' = BestGuess(text)
        /\ audit' = audit /\ rerun' = rerun
    BY <1>4 DEF Review
  <2>2. Audited' /\ Reviewed' /\ ReadAgain'
    BY <1>1, <2>1 DEF DocInv, Audited, Reviewed, ReadAgain
  <2> QED
    BY <1>1, <1>2, <2>2 DEF DocInv
<1>5. CASE ReRun
  <2> DEFINE new == AmfPrice(FivePages(text))
  <2>1. /\ reg = "FR" /\ stored # NoPrice
        /\ rerun' = [category |-> Categorise(stored, new), price |-> new.price]
        /\ audit' = audit /\ review' = review
    BY <1>5 DEF ReRun
  <2>2. rerun'.price = new.price /\ rerun'.category = Categorise(stored, new)
    BY <2>1
  <2>3. ReadAgain'
    BY <1>1, <2>1, <2>2 DEF ReadAgain
  <2>4. Audited' /\ Reviewed'
    BY <1>1, <2>1 DEF DocInv, Audited, Reviewed
  <2> QED
    BY <1>1, <1>2, <2>3, <2>4 DEF DocInv
<1> QED
  BY <1>3, <1>4, <1>5

LEMMA NextDocInv == DocInv /\ [DocNext]_docVars => DocInv'
<1> SUFFICES ASSUME DocInv, [DocNext]_docVars
             PROVE  DocInv'
  OBVIOUS
<1>1. CASE UNCHANGED docVars
  BY <1>1 DEF docVars, DocInv, FrenchStored, GermanStored, ItalianStored,
              Audited, Reviewed, ReadAgain
<1>2. CASE DocNext
  BY <1>2, StoreFrenchStep, StoreGermanStep, OtherStoreStep, ToolStep DEF DocNext
<1> QED
  BY <1>1, <1>2

LEMMA DocInductive == DocSpec => []DocInv
BY InitDocInv, NextDocInv, PTL DEF DocSpec

-----------------------------------------------------------------------------
(* What follows from it *)

\* The stored price is the amount at j, up to the forms the parsers misread.
PrintedAt(j) ==
    /\ IsAmount(text[j].word)
    /\ Misread(Written[text[j].word]) \/ stored = Exact(Written[text[j].word])

LEMMA FrenchOffered ==
  ASSUME DocInv, reg = "FR", stored # NoPrice
  PROVE  \E j \in DOMAIN text : PrintedAt(j)
<1>1. PICK j \in DOMAIN text : IsAmount(text[j].word) /\ stored = French(text[j].word)
  BY DEF DocInv, FrenchStored
<1> DEFINE a == Written[text[j].word]
<1>2. Misread(a) <=> \/ Split(a, Seps \ {"none"})
                     \/ a.sep = "dot" /\ a.mark = "none" /\ a.thousands > 0
  BY DEF Misread
<1>3. ~Misread(a) => French(text[j].word) = Exact(a)
  BY <1>2 DEF French, FrenchValue
<1> QED
  BY <1>1, <1>3 DEF PrintedAt

LEMMA GermanOffered ==
  ASSUME DocInv, reg = "DE", stored # NoPrice
  PROVE  \E j \in DOMAIN text : /\ PrintedAt(j)
                                /\ Written[text[j].word].intro > 0
                                /\ ~ParValue(text, j)
<1>1. text \in Seq(Token(reg))
  BY DEF DocInv
<1>2. stored = BafinOffer(text).price
  BY DEF DocInv, GermanStored
<1>3. stored = CashPrice(text) /\ CashPrice(text) # NoPrice
  BY <1>1, <1>2, BafinOfferIs
<1>4. PICK j \in DOMAIN text :
            /\ IsAmount(text[j].word) /\ CashPrice(text) = CommaValue(Written[text[j].word])
            /\ Written[text[j].word].intro > 0
            /\ ~ParValue(text, j)
  BY <1>1, <1>3, CashPriceIs, Zenon
<1> DEFINE a == Written[text[j].word]
<1>5. Misread(a) <=> a.mark = "dot"
  BY DEF Misread
<1>6. stored = CommaValue(a)
  BY <1>3, <1>4, Zenon
<1>7. Misread(a) \/ stored = Exact(a)
  <2> HIDE DEF a
  <2> QED
    BY <1>5, <1>6 DEF CommaValue
<1> QED
  BY <1>4, <1>7, Zenon DEF PrintedAt

LEMMA ItalianOffered ==
  ASSUME DocInv, reg = "IT", stored # NoPrice
  PROVE  \E j \in DOMAIN text : PrintedAt(j)
<1>1. text \in Seq(Token(reg))
  BY DEF DocInv
<1>2. stored = ConsobPrice(text)
  BY DEF DocInv, ItalianStored
<1>3. PICK j \in DOMAIN text :
            /\ IsAmount(text[j].word)
            /\ \/ Written[text[j].word].mark = "dot" \/ Split(Written[text[j].word], {"space", "dot"})
               \/ ConsobPrice(text) = Exact(Written[text[j].word])
  BY <1>1, <1>2, ConsobPriceIs
<1>4. Misread(Written[text[j].word]) <=> \/ Written[text[j].word].mark = "dot"
                                    \/ Split(Written[text[j].word], {"space", "dot"})
  BY DEF Misread
<1> QED
  BY <1>2, <1>3, <1>4 DEF PrintedAt

LEMMA OfferedFollows == DocInv => PricesAreOffered
<1> SUFFICES ASSUME DocInv
             PROVE  PricesAreOffered
  OBVIOUS
<1>1. stored # NoPrice =>
        \E j \in DOMAIN text : /\ PrintedAt(j)
                               /\ reg = "DE" => /\ Written[text[j].word].intro > 0
                                                /\ ~ParValue(text, j)
  <2>1. CASE reg = "DE"
    BY <2>1, GermanOffered, Zenon
  <2>2. CASE reg # "DE"
    <3>1. reg \in {"FR", "IT"}
      BY <2>2 DEF DocInv, Regulators
    <3>2. stored # NoPrice => \E j \in DOMAIN text : PrintedAt(j)
      BY <3>1, FrenchOffered, ItalianOffered
    <3> QED
      BY <2>2, <3>2, Zenon
  <2> QED
    BY <2>1, <2>2
<1>2. reg = "DE" => /\ (stored # NoPrice) = (quality = "verified_cash")
                    /\ stored # NoPrice => ~Mixed(text)
                    /\ consideration # <<>> => stored = NoPrice
  <2> SUFFICES ASSUME reg = "DE"
               PROVE  /\ (stored # NoPrice) <=> (quality = "verified_cash")
                      /\ stored # NoPrice => ~Mixed(text)
                      /\ consideration # <<>> => stored = NoPrice
    BY Zenon
  <2>1. text \in Seq(Token(reg))
    BY DEF DocInv
  <2>2. /\ quality = Unset => stored = NoPrice
        /\ quality # Unset => /\ stored = BafinOffer(text).price
                              /\ quality = BafinOffer(text).flag
        /\ consideration # <<>> => quality = "suspect_mixed"
    BY DEF DocInv, GermanStored
  <2>3. LET offer == BafinOffer(text)
        IN  \/ /\ offer.flag = "verified_cash" /\ offer.price # NoPrice
               /\ offer.price = CashPrice(text) /\ ~Mixed(text)
            \/ /\ offer.flag \in {"suspect_mixed", "suspect_low_unverified"}
               /\ offer.price = NoPrice
    BY <2>1, BafinOfferIs
  <2> QED
    BY <2>2, <2>3 DEF Unset
<1> QED
  BY <1>1, <1>2, Zenon DEF PricesAreOffered, PrintedAt

LEMMA AgreeFollows == DocInv => ToolsAgree
<1> SUFFICES ASSUME DocInv, ~ToolsDiffer
             PROVE  ToolsAgree
  BY DEF ToolsAgree
<1> DEFINE five == FivePages(text)
           eight == EightPages(text)
           W == Words[reg]
<1>1. text \in Seq([word : W, at : Nat]) /\ Fits(text)
  BY DEF DocInv, Token
<1>2. /\ five \in Seq([word : W, at : Nat]) /\ Covers(five, text)
      /\ eight \in Seq([word : W, at : Nat]) /\ Covers(eight, text)
  <2>1. \A j \in DOMAIN text : IsAmount(text[j].word) => j \in DOMAIN FivePages(text)
    BY DEF ToolsDiffer, PricesOnLaterPages
  <2> QED
    BY <1>1, <2>1, PagesCover
<1>3. Plain(text)
  <2>1. /\ \A j, k \in Engagement(text) : French(text[j].word) = French(text[k].word)
        /\ \A j \in Engagement(text) : text[j].word \in Grouped
    BY DEF ToolsDiffer
  <2>2. ASSUME NEW i \in DOMAIN text, NEW j \in DOMAIN text, i < j,
               text[i].word = "engage", text[j].word \in Introduced,
               Gap(text, i, j, "prix") <= 400
        PROVE  Gap(text, i, j, "amount") <= 400
    <3>1. Gap(text, i, j, "amount") \in Int
      <4>1. \A n \in DOMAIN text : text[n] \in [word : W, at : Nat]
        BY <1>1, ElementsAre
      <4>2. text[i].at \in Nat /\ text[j].at \in Nat
        BY <4>1
      <4> QED
        BY <4>2 DEF Gap
    <3>2. ~(Gap(text, i, j, "amount") > 400)
      BY <2>2 DEF ToolsDiffer, OutOfReach
    <3> QED
      BY <3>1, <3>2
  <2> QED
    BY <2>1, <2>2 DEF Plain
<1>4. reg = "FR" /\ stored # NoPrice => stored \in Nat
  BY FrenchIs DEF DocInv, FrenchStored, IsAmount
<1> HIDE DEF five, eight, W
<1>5. ASSUME Anchored(audit.status), rerun.category # Unset
      PROVE  /\ rerun.price = audit.primary
             /\ rerun.category = IF Confirmed(audit.status) THEN "UNCHANGED" ELSE "CORRECTED"
  <2> DEFINE truth == GroundTruth(eight, stored)
             new == AmfPrice(five)
  <2>1. reg = "FR" /\ stored # NoPrice /\ audit = truth
    BY <1>5 DEF DocInv, Audited, Unset, Anchored, eight
  <2>2. rerun.price = new.price /\ rerun.category = Categorise(stored, new)
    BY <1>5 DEF DocInv, ReadAgain, five
  <2>3. stored \in Nat
    BY <1>4, <2>1
  <2>4. /\ truth.primary \in Nat
        /\ new = Found(truth.primary, "engagement_clause")
        /\ Confirmed(truth.status) <=> truth.primary = stored
    <3>1. Anchored(GroundTruth(eight, stored).status) /\ stored \in Int
      BY <1>5, <2>1, <2>3
    <3>2. /\ Engagement(text) # {}
          /\ \A k \in Engagement(text) : truth.primary = French(text[k].word)
          /\ truth.primary \in Nat
          /\ Confirmed(truth.status) <=> truth.primary = stored
      BY <1>1, <1>2, <1>3, <3>1, AnchoredIs DEF Anchored, Confirmed
    <3>3. PICK k \in Engagement(text) : new = Found(French(text[k].word), "engagement_clause")
      BY <1>1, <1>2, <1>3, <3>2, ClauseIsRead
    <3> HIDE DEF truth, new
    <3> QED
      BY <3>2, <3>3
  <2> HIDE DEF truth, new
  <2>5. new.price = truth.primary /\ new.source = "engagement_clause"
    BY <2>4, FoundIs
  <2>6. Categorise(stored, new) = IF new.price = stored THEN "UNCHANGED" ELSE "CORRECTED"
    <3>1. new.price # NoPrice /\ stored # NoPrice
      BY <2>1, <2>4, <2>5 DEF NoPrice
    <3> QED
      BY <2>5, <3>1 DEF Categorise
  <2> QED
    BY <2>1, <2>2, <2>4, <2>5, <2>6
<1>6. ASSUME review.confidence = "HIGH"
      PROVE  review.price = audit.primary
  <2>1. Suspect(audit.status) /\ review = BestGuess(text)
    BY <1>6 DEF DocInv, Reviewed, Unset
  <2>2. reg = "FR" /\ stored # NoPrice /\ audit = GroundTruth(eight, stored)
    BY <2>1 DEF DocInv, Audited, Suspect, Unset, eight
  <2>3. stored \in Int /\ BestGuess(text).confidence = "HIGH"
    BY <1>4, <1>6, <2>1, <2>2
  <2>4. BestGuess(text).price = GroundTruth(eight, stored).primary
    BY <1>1, <1>2, <1>3, <2>3, HighGuessIs
  <2> QED
    BY <2>1, <2>2, <2>4
<1> QED
  BY <1>5, <1>6 DEF ToolsAgree

\* _extract_offer of bafin/parser.py gives of every text what the curation assumes of a German
\* document (DataAssumption): a price and a flag, and no price beside the flag of a mixed offer.
THEOREM GermanReads ==
  ASSUME NEW S, NEW t \in Seq(S)
  PROVE  LET offer == BafinOffer(t)
         IN  /\ offer.price \in Int /\ offer.flag \in Flags
             /\ offer.flag = "suspect_mixed" => offer.price = None
<1> DEFINE offer == BafinOffer(t)
<1>1. \/ /\ offer.flag = "verified_cash" /\ offer.price # NoPrice
         /\ offer.price = CashPrice(t) /\ ~Mixed(t)
      \/ /\ offer.flag \in {"suspect_mixed", "suspect_low_unverified"}
         /\ offer.price = NoPrice
  BY BafinOfferIs
<1>2. CashPrice(t) # NoPrice => CashPrice(t) \in Nat
  BY CashPriceIs
<1> HIDE DEF offer
<1>3. /\ offer.price \in Int /\ offer.flag \in Flags
      /\ offer.flag = "suspect_mixed" => offer.price = None
  BY <1>1, <1>2 DEF Flags, Default, None, NoPrice
<1> QED
  BY <1>3 DEF offer

\* amf/parser.py:85-101, bafin/parser.py:94-134, consob/parser.py: whatever amounts documents
\* print, a stored price is one of them, up to the forms Misread names.
THEOREM PricesAreRead == DocSpec => []PricesAreOffered
BY DocInductive, OfferedFollows, PTL

\* p92_02b_ground_truth.py, p92_02b_pre_review.py and p92_02b_re_run_parser.py: wherever a phrase
\* or an amount stands and of however many clauses, they agree with the parser and with each
\* other, unless one of the causes ToolsDiffer names is there.
THEOREM ToolsConcur == DocSpec => []ToolsAgree
BY DocInductive, AgreeFollows, PTL

=============================================================================
