------------------------ MODULE FilingPoller_proofs ------------------------
(***************************************************************************)
(* Theorems about FilingPoller, for either regulator and every number of   *)
(* offers, size of a page, cap on pages and number of cuts.                *)
(***************************************************************************)
EXTENDS FilingPoller, FiniteSetTheorems, NaturalsInduction, TLAPS

-----------------------------------------------------------------------------
(* Pages *)

LEMMA PageBounds ==
  ASSUME TypeOK
  PROVE  /\ RowsPerPage \in Nat \ {0}
         /\ \A p \in Nat : FirstOf(p) \in Int /\ FirstOf(p + 1) = FirstOf(p) - RowsPerPage
         /\ \A p \in Nat \ {0} : FirstOf(p) <= listed
         /\ FirstOf(1) = listed
         /\ site = "DE" => \A p \in Nat \ {0} : FirstOf(p + 1) < 1
<1> DEFINE size == RowsPerPage
<1>1. size \in Nat \ {0} /\ listed \in 0..Offers /\ Offers \in Nat
      /\ (site = "DE" => size = Offers + 1)
  BY PollerAssumption DEF TypeOK, RowsPerPage
<1>2. \A p : FirstOf(p) = listed - (p - 1) * size
  BY DEF FirstOf
<1> HIDE DEF size
<1>3. ASSUME NEW p \in Nat
      PROVE  FirstOf(p) \in Int /\ FirstOf(p + 1) = FirstOf(p) - size
  <2>1. (p + 1 - 1) * size = (p - 1) * size + size /\ (p - 1) * size \in Int
    BY <1>1
  <2> QED
    BY <1>1, <1>2, <2>1
<1>4. ASSUME NEW p \in Nat \ {0}
      PROVE  FirstOf(p) <= listed /\ (site = "DE" => FirstOf(p + 1) < 1)
  <2>1. (p - 1) * size >= 0 /\ p * size = (p - 1) * size + size
    BY <1>1
  <2>2. FirstOf(p) = listed - (p - 1) * size /\ FirstOf(p + 1) = listed - p * size
    BY <1>1, <1>2
  <2> QED
    BY <1>1, <2>1, <2>2
<1>5. FirstOf(1) = listed
  <2>1. (1 - 1) * size = 0
    BY <1>1
  <2> QED
    BY <1>1, <1>2, <2>1
<1> QED
  BY <1>1, <1>3, <1>4, <1>5 DEF size

LEMMA PageIs ==
  ASSUME TypeOK, NEW p \in Nat
  PROVE  \A f : f \in PageRows(p) <=> f \in Filings /\ FirstOf(p + 1) < f /\ f <= FirstOf(p)
BY PageBounds DEF PageRows, Filings

\* A page read without loss that is taken for the last one reaches down to the oldest row.
LEMMA LastPageIsLast ==
  ASSUME TypeOK, NEW p \in Nat \ {0}, IsLastPage(Records(p)),
         site = "IT" => Records(p) = PageRows(p),
         NEW f \in Filings, f <= FirstOf(p + 1)
  PROVE  FALSE
<1>1. Offers \in Nat /\ listed \in 0..Offers /\ site \in {"DE", "IT"} /\ f \in 1..Offers
  BY PollerAssumption DEF TypeOK, Filings
<1>2. CASE site = "DE"
  BY <1>1, <1>2, PageBounds
<1>3. CASE site = "IT"
  <2> DEFINE first == FirstOf(p)
             next  == FirstOf(p + 1)
             page  == (next + 1)..first
  <2>1. /\ first \in Int /\ next = first - RowsPerPage /\ first <= listed
        /\ RowsPerPage \in Nat \ {0} /\ 1 <= next
    BY <1>1, PageBounds
  <2>2. PageRows(p) = page
    <3>1. \A x : x \in PageRows(p) <=> x \in Filings /\ next < x /\ x <= first
      BY PageIs
    <3> HIDE DEF first, next
    <3>2. \A x : x \in page <=> x \in Filings /\ next < x /\ x <= first
      BY <1>1, <2>1 DEF Filings
    <3> QED
      BY <3>1, <3>2
  <2>3. IsFiniteSet(page) /\ Cardinality(page) = RowsPerPage
    <3> HIDE DEF first, next
    <3>1. next + 1 \in Int /\ first \in Int
      BY <2>1
    <3>2. Cardinality(page) = IF next + 1 > first THEN 0 ELSE first - (next + 1) + 1
      BY <3>1, FS_Interval
    <3> QED
      BY <2>1, <3>1, <3>2, FS_Interval
  <2> QED
    BY <1>3, <2>1, <2>2, <2>3 DEF IsLastPage
<1> QED
  BY <1>1, <1>2, <1>3

\* What a page shows of a run's filings, down from its first row.
LEMMA PageShows ==
  ASSUME TypeOK, NEW r \in Runners, NEW p \in Nat \ {0},
         site = "IT" => Records(p) = PageRows(p),
         NEW f \in Filings, Expected(f), f <= FirstOf(p)
  PROVE  LET fresh == {x \in Records(p) : InWindow(r, x)}
         IN  fresh # {} /\ (f \in fresh \/ (f <= FirstOf(p + 1) /\ ~IsLastPage(Records(p))))
<1> DEFINE fresh == {x \in Records(p) : InWindow(r, x)}
<1>1. /\ FirstOf(p) \in Int /\ FirstOf(p + 1) = FirstOf(p) - RowsPerPage
      /\ RowsPerPage \in Nat \ {0} /\ f \in 1..Offers /\ aged \in Nat
      /\ FirstOf(p) <= Offers /\ Offers \in Nat /\ site \in {"DE", "IT"}
  BY PageBounds, PollerAssumption DEF TypeOK, Filings
<1>2. CASE FirstOf(p + 1) < f
  <2>1. f \in PageRows(p)
    BY <1>2, PageIs
  <2> QED
    BY <2>1 DEF Records, Expected, InWindow
<1>3. CASE ~(FirstOf(p + 1) < f)
  <2>1. f <= FirstOf(p + 1) /\ ~IsLastPage(Records(p))
    BY <1>1, <1>3, LastPageIsLast
  <2>2. site = "IT"
    BY <1>1, <2>1, PageBounds
  <2>3. FirstOf(p) \in PageRows(p) /\ FirstOf(p) > aged
    <3>1. FirstOf(p) \in Filings /\ FirstOf(p + 1) < FirstOf(p) /\ FirstOf(p) > aged
      BY <1>1, <2>1 DEF Filings, Expected
    <3> QED
      BY <1>1, <3>1, PageIs
  <2>4. FirstOf(p) \in fresh
    BY <2>2, <2>3 DEF InWindow
  <2> QED
    BY <2>1, <2>4
<1> QED
  BY <1>2, <1>3

-----------------------------------------------------------------------------
(* Rows *)

LEMMA GreatestExists ==
  ASSUME NEW S, S # {}, NEW N \in Nat, S \subseteq 1..N
  PROVE  \E x \in S : \A y \in S : y <= x
<1> DEFINE T == {n \in Nat : \E x \in S : n = N - x}
<1>1. T # {}
  <2> PICK x \in S : TRUE
    OBVIOUS
  <2>1. N - x \in T
    OBVIOUS
  <2> QED
    BY <2>1
<1>2. PICK n \in T : \A m \in T : <<m, n>> \notin OpToRel(<, Nat)
  BY <1>1, WFMin, NatLessThanWellFounded
<1>3. PICK x \in S : n = N - x
  OBVIOUS
<1>4. ASSUME NEW y \in S PROVE y <= x
  <2>1. N - y \in T
    OBVIOUS
  <2>2. ~(N - y < n)
    BY <1>2, <2>1 DEF OpToRel
  <2>3. x \in 1..N /\ y \in 1..N
    OBVIOUS
  <2> QED
    BY <1>3, <2>2, <2>3
<1> QED
  BY <1>4

LEMMA RefIs ==
  ASSUME NEW f \in Filings
  PROVE  RefOf(f) \in Ref /\ RefOf(f)[1] = f
<1>1. PICK here \in BOOLEAN : RefOf(f) = <<f, here>>
  <2>1. CASE f \in linked
    BY <2>1, Zenon DEF RefOf
  <2>2. CASE ~(f \in linked)
    <3>1. (f \in linked) = FALSE
      BY <2>2
    <3>2. RefOf(f) = <<f, FALSE>>
      BY <3>1, Zenon DEF RefOf
    <3> QED
      BY <3>2
  <2> QED
    BY <2>1, <2>2
<1> QED
  BY <1>1 DEF Ref

LEMMA NewestIs ==
  ASSUME NEW rows, rows \subseteq Ref, rows # {}
  PROVE  /\ Newest(rows) \in rows /\ Newest(rows) \in Ref
         /\ \A other \in rows : other[1] <= Newest(rows)[1]
<1> DEFINE S == {ref[1] : ref \in rows}
<1>1. S # {} /\ S \subseteq 1..Offers /\ Offers \in Nat
  BY PollerAssumption DEF Ref, Filings
<1>2. PICK x \in S : \A y \in S : y <= x
  BY <1>1, GreatestExists
<1>3. \E ref \in rows : \A other \in rows : other[1] <= ref[1]
  BY <1>2
<1> QED
  BY <1>3 DEF Newest

-----------------------------------------------------------------------------
(* The inductive invariant *)

Visiting == {"visit", "download", "select", "insert"}

\* A run in the middle of a page holds each of its filings under one ref; the path it
\* was given is on disk.
RunOk(run) ==
    /\ run.pc \in Visiting <=> run.rows # {}
    /\ run.pc # "idle" => run.page # 0
    /\ \A ref \in run.rows : ref[1] <= listed
    /\ \A a, b \in run.rows : a[1] = b[1] => a = b
    /\ (run.pc \in {"select", "insert"} /\ run.path) => Newest(run.rows) \in files

RunsOk == \A r \in Runners : RunOk(runs[r])

StoredListed == \A ref \in Ref : deals[ref] # "none" => ref[1] <= listed

\* The run has f before it: on a page to come, or among the rows that are left.
CoveredBy(run, f) ==
    \/ run.pc = "fetch" /\ f <= FirstOf(run.page)
    \/ /\ run.pc \in Visiting
       /\ \/ \E ref \in run.rows : ref[1] = f
          \/ ~run.last /\ f <= FirstOf(run.page + 1)

Covers(r, f) == CoveredBy(runs[r], f)

\* A run that stores rows has before it whatever is older.
Downward ==
    \A r \in Runners : runs[r].pc \in Visiting =>
        \A f \in Filings : Expected(f) /\ f < Row(r)[1] => Covers(r, f)

\* Nothing the job holds shows again on the page to come.
JobApart ==
    runs["job"].pc \in Visiting /\ ~runs["job"].last =>
        \A ref \in runs["job"].rows : FirstOf(runs["job"].page + 1) < ref[1]

\* A gap is before the script, or before a job that is already below its upper end:
\* one the job will not mistake for its own mark.
GapsCovered ==
    \A old, new \in Filings :
        old < new /\ Expected(old) /\ Stored(new) /\ ~Stored(old) =>
            Covers("script", old) \/ (Covers("job", old) /\ ~Covers("job", new))

GapInv == Downward /\ JobApart /\ GapsCovered

IInv ==
    /\ TypeOK /\ RunsOk /\ StoredListed /\ FileBeforeRow
    /\ excused \/ GapInv

-----------------------------------------------------------------------------
(* Runs *)

LEMMA NoRunOk ==
  /\ NoRun \in Run /\ NoRun.pc = "idle" /\ NoRun.page = 0 /\ NoRun.last = FALSE
  /\ NoRun.rows = {} /\ NoRun.path = FALSE /\ "idle" \notin Visiting
BY DEF NoRun, Run, Visiting

LEMMA WithPc ==
  ASSUME NEW run \in Run, NEW pc \in Visiting
  PROVE  LET moved == [run EXCEPT !.pc = pc]
         IN  /\ moved \in Run /\ moved.pc = pc /\ moved.page = run.page
             /\ moved.last = run.last /\ moved.rows = run.rows /\ moved.path = run.path
BY DEF Run, Visiting

LEMMA WithPath ==
  ASSUME NEW run \in Run, NEW path \in BOOLEAN
  PROVE  LET moved == [run EXCEPT !.path = path]
         IN  /\ moved \in Run /\ moved.pc = run.pc /\ moved.page = run.page
             /\ moved.last = run.last /\ moved.rows = run.rows /\ moved.path = path
BY DEF Run

LEMMA AtPage ==
  ASSUME NEW page \in Nat
  PROVE  LET moved == [NoRun EXCEPT !.pc = "fetch", !.page = page]
         IN  /\ moved \in Run /\ moved.pc = "fetch" /\ moved.page = page
             /\ moved.last = FALSE /\ moved.rows = {} /\ moved.path = FALSE
BY DEF Run, NoRun

\* What is left of a run whose newest row is done.
LEMMA AdvancedIs ==
  ASSUME NEW run \in Run
  PROVE  LET left == run.rows \ {Newest(run.rows)}
             next == Advanced(run)
         IN  /\ next \in Run
             /\ left # {} => /\ next.pc = "visit" /\ next.rows = left /\ next.path = FALSE
                             /\ next.page = run.page /\ next.last = run.last
             /\ left = {} /\ run.last => next = NoRun
             /\ left = {} /\ ~run.last => /\ next.pc = "fetch" /\ next.rows = {}
                                          /\ next.page = run.page + 1
<1> DEFINE left == run.rows \ {Newest(run.rows)}
           page == run.page + 1
<1>0. left \in SUBSET Ref /\ page \in Nat /\ run.last \in BOOLEAN
  BY DEF Run
<1>1. ASSUME left # {}
      PROVE  /\ Advanced(run) \in Run /\ Advanced(run).pc = "visit"
             /\ Advanced(run).rows = left /\ Advanced(run).path = FALSE
             /\ Advanced(run).page = run.page /\ Advanced(run).last = run.last
  <2>1. Advanced(run) = [run EXCEPT !.pc = "visit", !.rows = left, !.path = FALSE]
    BY <1>1 DEF Advanced
  <2> HIDE DEF left
  <2> QED
    BY <1>0, <2>1 DEF Run
<1>2. ASSUME left = {}, run.last PROVE Advanced(run) = NoRun
  BY <1>2 DEF Advanced
<1>3. ASSUME left = {}, ~run.last
      PROVE  /\ Advanced(run) \in Run /\ Advanced(run).pc = "fetch"
             /\ Advanced(run).rows = {} /\ Advanced(run).page = page
  <2>1. Advanced(run) = [NoRun EXCEPT !.pc = "fetch", !.page = page]
    BY <1>3 DEF Advanced
  <2> HIDE DEF left, page
  <2> QED
    BY <1>0, <2>1, AtPage
<1>4. Advanced(run) \in Run
  BY <1>1, <1>2, <1>3, NoRunOk
<1> QED
  BY <1>1, <1>2, <1>3, <1>4

-----------------------------------------------------------------------------
(* One run moves *)

LEMMA InitIInv == Init => IInv
<1> SUFFICES ASSUME Init PROVE IInv
  OBVIOUS
<1>1. \A r \in Runners : runs[r] = NoRun
  BY DEF Init
<1>2. TypeOK
  <2>1. runs \in [Runners -> Run]
    BY NoRunOk DEF Init
  <2>2. cuts \in 0..MaxCuts /\ listed \in 0..Offers /\ aged \in 0..listed
    BY PollerAssumption DEF Init
  <2>3. deals \in [Ref -> {"none", "bare", "filed"}]
    BY DEF Init
  <2>4. site \in Sites /\ linked \subseteq 1..listed /\ files \subseteq Ref
        /\ excused \in BOOLEAN
    BY DEF Init
  <2> QED
    BY <2>1, <2>2, <2>3, <2>4 DEF TypeOK
<1>3. RunsOk
  BY <1>1, NoRunOk DEF RunsOk, RunOk
<1>4. \A ref \in Ref : deals[ref] = "none"
  BY DEF Init
<1>5. GapInv
  <2>1. "job" \in Runners
    BY DEF Runners
  <2>2. ASSUME NEW f \in Filings PROVE ~Stored(f)
    <3>1. \A b \in BOOLEAN : <<f, b>> \in Ref
      BY DEF Ref
    <3> QED
      BY <1>4, <3>1 DEF Stored
  <2> QED
    BY <1>1, <2>1, <2>2, NoRunOk DEF GapInv, Downward, JobApart, GapsCovered
<1> QED
  BY <1>2, <1>3, <1>4, <1>5 DEF IInv, StoredListed, FileBeforeRow

\* What one process's step leaves of the invariant, the gaps aside.
LEMMA RunMoves ==
  ASSUME IInv, NEW r \in Runners, NEW run \in Run,
         runs' = [runs EXCEPT ![r] = run],
         UNCHANGED <<site, listed, linked, aged>>,
         files \subseteq files', files' \subseteq Ref,
         deals' \in [Ref -> {"none", "bare", "filed"}],
         \A ref \in Ref : deals'[ref] = "filed" => ref \in files',
         \A ref \in Ref : deals'[ref] # "none" => ref[1] <= listed,
         cuts' \in 0..MaxCuts, excused' \in BOOLEAN,
         run.pc \in Visiting <=> run.rows # {},
         run.pc # "idle" => run.page # 0,
         \A ref \in run.rows : ref[1] <= listed,
         \A a, b \in run.rows : a[1] = b[1] => a = b,
         (run.pc \in {"select", "insert"} /\ run.path) => Newest(run.rows) \in files'
  PROVE  TypeOK' /\ RunsOk' /\ StoredListed' /\ FileBeforeRow'
<1>1. \A q \in Runners : runs'[q] = IF q = r THEN run ELSE runs[q]
  BY DEF IInv, TypeOK
<1>2. TypeOK'
  BY DEF IInv, TypeOK
<1>4. \A q \in Runners : q # r => RunOk(runs[q])'
  <2> SUFFICES ASSUME NEW q \in Runners, q # r PROVE RunOk(runs[q])'
    OBVIOUS
  <2>1. runs'[q] = runs[q] /\ listed' = listed /\ RunOk(runs[q])
    BY <1>1 DEF IInv, RunsOk
  <2> QED
    BY <2>1 DEF RunOk
<1>5. RunOk(runs[r])'
  <2>1. runs'[r] = run /\ listed' = listed
    BY <1>1
  <2> QED
    BY <2>1 DEF RunOk
<1>6. RunsOk'
  BY <1>4, <1>5 DEF RunsOk
<1> QED
  BY <1>2, <1>6 DEF StoredListed, FileBeforeRow

\* As long as the listing stays, so does what a run has before it.
LEMMA SameCover ==
  ASSUME UNCHANGED <<site, listed, aged>>
  PROVE  /\ \A p : FirstOf(p)' = FirstOf(p)
         /\ \A q \in Runners, f \in Filings : Covers(q, f)' <=> CoveredBy(runs'[q], f)
         /\ \A f \in Filings : Expected(f)' <=> Expected(f)
BY DEF FirstOf, RowsPerPage, Covers, CoveredBy, Expected, Keyed

\* A step that keeps a run on its way: it leaves nothing it had before it unless that
\* is stored, and stores its newest row or none.
LEMMA GapsMove ==
  ASSUME IInv, GapInv, NEW r \in Runners, NEW run \in Run,
         runs' = [runs EXCEPT ![r] = run],
         UNCHANGED <<site, listed, aged>>,
         \A f \in Filings : Stored(f) => Stored(f)',
         \A f \in Filings : CoveredBy(run, f) => CoveredBy(runs[r], f),
         \A f \in Filings :
             Expected(f) /\ CoveredBy(runs[r], f) => CoveredBy(run, f) \/ Stored(f)',
         \A f \in Filings : Stored(f)' /\ ~Stored(f) =>
             runs[r].pc \in Visiting /\ f = Row(r)[1] /\ (r = "job" => ~CoveredBy(run, f)),
         run.pc \in Visiting => \A f \in Filings :
             Expected(f) /\ f < Newest(run.rows)[1] => CoveredBy(run, f),
         run.pc \in Visiting /\ ~run.last =>
             \A ref \in run.rows : r = "job" => FirstOf(run.page + 1) < ref[1]
  PROVE  GapInv'
<1>1. \A q \in Runners : runs'[q] = IF q = r THEN run ELSE runs[q]
  BY DEF IInv, TypeOK
<1>2. \A q \in Runners, f \in Filings :
        Covers(q, f)' <=> CoveredBy(IF q = r THEN run ELSE runs[q], f)
  BY <1>1, SameCover
<1>3. "job" \in Runners /\ "script" \in Runners
  BY DEF Runners
<1>4. Downward'
  <2> SUFFICES ASSUME NEW q \in Runners, runs'[q].pc \in Visiting, NEW f \in Filings,
                      Expected(f), f < Newest(runs'[q].rows)[1]
               PROVE  Covers(q, f)'
    BY SameCover DEF Downward, Row
  <2>1. CASE q = r
    BY <1>1, <1>2, <2>1
  <2>2. CASE q # r
    <3>1. runs'[q] = runs[q]
      BY <1>1, <2>2
    <3>2. Covers(q, f)
      BY <3>1 DEF GapInv, Downward, Row
    <3> QED
      BY <1>2, <2>2, <3>2 DEF Covers
  <2> QED
    BY <2>1, <2>2
<1>5. JobApart'
  <2>1. CASE r = "job"
    <3>1. runs'["job"] = run
      BY <1>1, <1>3, <2>1
    <3> QED
      BY <2>1, <3>1, SameCover DEF JobApart
  <2>2. CASE r # "job"
    <3>1. runs'["job"] = runs["job"]
      BY <1>1, <1>3, <2>2
    <3> QED
      BY <3>1, SameCover DEF JobApart, GapInv
  <2> QED
    BY <2>1, <2>2
<1>6. GapsCovered'
  <2> SUFFICES ASSUME NEW old \in Filings, NEW new \in Filings, old < new,
                      Expected(old), Stored(new)', ~Stored(old)'
               PROVE  Covers("script", old)' \/ (Covers("job", old)' /\ ~Covers("job", new)')
    BY SameCover DEF GapsCovered
  <2>1. ~Stored(old)
    OBVIOUS
  <2>2. \A q \in Runners : Covers(q, old) => Covers(q, old)'
    BY <1>2 DEF Covers
  <2>3. \A q \in Runners : Covers(q, new)' => Covers(q, new)
    BY <1>2 DEF Covers
  <2>4. CASE Stored(new)
    <3>1. Covers("script", old) \/ (Covers("job", old) /\ ~Covers("job", new))
      BY <2>1, <2>4 DEF GapInv, GapsCovered
    <3> QED
      BY <1>3, <2>2, <2>3, <3>1
  <2>5. CASE ~Stored(new)
    <3>1. /\ runs[r].pc \in Visiting /\ new = Row(r)[1]
          /\ r = "job" => ~CoveredBy(run, new)
      BY <2>5
    <3>2. Covers(r, old)
      BY <3>1 DEF GapInv, Downward
    <3>3. Covers(r, old)' /\ (r = "job" => ~Covers(r, new)')
      BY <1>2, <2>2, <3>1, <3>2
    <3>4. r = "job" \/ r = "script"
      BY DEF Runners
    <3> QED
      BY <3>3, <3>4
  <2> QED
    BY <2>4, <2>5
<1> QED
  BY <1>4, <1>5, <1>6 DEF GapInv

LEMMA RunIs ==
  ASSUME IInv, NEW r \in Runners
  PROVE  /\ runs[r] \in Run /\ RunOk(runs[r]) /\ listed \in Nat
         /\ runs[r].pc \in Visiting =>
              /\ Row(r) \in runs[r].rows /\ Row(r) \in Ref /\ Row(r)[1] \in Filings
              /\ \A other \in runs[r].rows : other[1] <= Row(r)[1]
<1>1. runs[r] \in Run /\ RunOk(runs[r]) /\ listed \in Nat
  BY PollerAssumption DEF IInv, TypeOK, RunsOk
<1>2. runs[r].rows \subseteq Ref
  BY <1>1 DEF Run
<1>3. ASSUME runs[r].pc \in Visiting
      PROVE  /\ Row(r) \in runs[r].rows /\ Row(r) \in Ref
             /\ \A other \in runs[r].rows : other[1] <= Row(r)[1]
  <2>1. runs[r].rows # {}
    BY <1>1, <1>3 DEF RunOk
  <2> QED
    BY <1>2, <2>1, NewestIs DEF Row
<1> QED
  BY <1>1, <1>3 DEF Ref

LEMMA SameDeals ==
  ASSUME UNCHANGED <<deals>>
  PROVE  \A f \in Filings : Stored(f)' <=> Stored(f)
BY DEF Stored

LEMMA SameTable ==
  ASSUME IInv, UNCHANGED <<deals, files>>
  PROVE  /\ files \subseteq files' /\ files' \subseteq Ref
         /\ deals' \in [Ref -> {"none", "bare", "filed"}]
         /\ \A ref \in Ref : deals'[ref] = "filed" => ref \in files'
         /\ \A ref \in Ref : deals'[ref] # "none" => ref[1] <= listed
BY DEF IInv, TypeOK, FileBeforeRow, StoredListed

LEMMA StartRunIInv ==
  ASSUME IInv, NEW r \in Runners, StartRun(r)
  PROVE  IInv'
<1> DEFINE run == [NoRun EXCEPT !.pc = "fetch", !.page = 1]
<1>1. runs' = [runs EXCEPT ![r] = run] /\ runs[r].pc = "idle"
      /\ UNCHANGED <<site, listed, linked, aged, deals, files, cuts, excused>>
  BY DEF StartRun
<1>2. run \in Run /\ run.pc = "fetch" /\ run.page = 1 /\ run.rows = {} /\ "fetch" \notin Visiting
  BY AtPage DEF Visiting
<1> HIDE DEF run
<1>3. TypeOK' /\ RunsOk' /\ StoredListed' /\ FileBeforeRow'
  <2>1. cuts' \in 0..MaxCuts /\ excused' \in BOOLEAN
    BY <1>1 DEF IInv, TypeOK
  <2>2. /\ run.pc \in Visiting <=> run.rows # {}
        /\ run.pc # "idle" => run.page # 0
        /\ \A ref \in run.rows : ref[1] <= listed
        /\ \A a, b \in run.rows : a[1] = b[1] => a = b
        /\ run.pc \notin {"select", "insert"}
    BY <1>2
  <2> QED
    BY <1>1, <1>2, <2>1, <2>2, SameTable, RunMoves
<1>4. \A q \in Runners : runs'[q] = IF q = r THEN run ELSE runs[q]
  BY <1>1 DEF IInv, TypeOK
<1>5. ASSUME GapInv PROVE GapInv'
  <2>1. \A q \in Runners, f \in Filings : q # r => (Covers(q, f)' <=> Covers(q, f))
    BY <1>1, <1>4, SameCover DEF Covers
  <2>2. "job" \in Runners /\ "script" \in Runners /\ (r = "job" \/ r = "script")
    BY DEF Runners
  <2>3. \A f \in Filings : ~Covers(r, f)
    BY <1>1 DEF Covers, CoveredBy, Visiting
  <2>4. Downward'
    BY <1>1, <1>2, <1>4, <1>5, <2>1, SameCover DEF GapInv, Downward, Row
  <2>5. JobApart'
    BY <1>1, <1>2, <1>4, <1>5, <2>2, SameCover DEF GapInv, JobApart
  <2>6. GapsCovered'
    <3> SUFFICES ASSUME NEW old \in Filings, NEW new \in Filings, old < new,
                        Expected(old), Stored(new), ~Stored(old)
                 PROVE  Covers("script", old)' \/ (Covers("job", old)' /\ ~Covers("job", new)')
      BY <1>1, SameCover, SameDeals DEF GapsCovered
    <3>1. Covers("script", old) \/ (Covers("job", old) /\ ~Covers("job", new))
      BY <1>5 DEF GapInv, GapsCovered
    <3> QED
      BY <2>1, <2>2, <2>3, <3>1
  <2> QED
    BY <2>4, <2>5, <2>6 DEF GapInv
<1> QED
  BY <1>1, <1>3, <1>5 DEF IInv

LEMMA CutIInv ==
  ASSUME IInv, NEW r \in Runners, runs' = [runs EXCEPT ![r] = NoRun], excused' = TRUE,
         cuts' \in 0..MaxCuts, UNCHANGED <<site, listed, linked, aged, deals, files>>
  PROVE  IInv'
<1>1. TypeOK' /\ RunsOk' /\ StoredListed' /\ FileBeforeRow'
  BY NoRunOk, SameTable, RunMoves
<1> QED
  BY <1>1 DEF IInv

\* A step from one point of a row to another.
LEMMA StaysOnRow ==
  ASSUME IInv, NEW r \in Runners, runs[r].pc \in Visiting, NEW run \in Run,
         runs' = [runs EXCEPT ![r] = run],
         run.pc \in Visiting, run.page = runs[r].page, run.last = runs[r].last,
         run.rows = runs[r].rows,
         UNCHANGED <<site, listed, linked, aged, deals, cuts, excused>>,
         files \subseteq files', files' \subseteq Ref,
         (run.pc \in {"select", "insert"} /\ run.path) => Row(r) \in files'
  PROVE  IInv'
<1>1. RunOk(runs[r])
  BY RunIs
<1>2. run.pc # "idle" /\ runs[r].pc # "idle"
  BY DEF Visiting
<1>3. TypeOK' /\ RunsOk' /\ StoredListed' /\ FileBeforeRow'
  <2>1. Newest(run.rows) = Row(r)
    BY DEF Row
  <2>2. /\ deals' \in [Ref -> {"none", "bare", "filed"}]
        /\ \A ref \in Ref : deals'[ref] = "filed" => ref \in files'
        /\ \A ref \in Ref : deals'[ref] # "none" => ref[1] <= listed
        /\ cuts' \in 0..MaxCuts /\ excused' \in BOOLEAN
    BY DEF IInv, TypeOK, FileBeforeRow, StoredListed
  <2>3. /\ run.pc \in Visiting <=> run.rows # {}
        /\ run.page # 0
        /\ \A ref \in run.rows : ref[1] <= listed
        /\ \A a, b \in run.rows : a[1] = b[1] => a = b
    BY <1>1, <1>2 DEF RunOk
  <2> QED
    BY <1>2, <2>1, <2>2, <2>3, RunMoves
<1>4. ASSUME GapInv PROVE GapInv'
  <2>1. \A f \in Filings : CoveredBy(run, f) <=> CoveredBy(runs[r], f)
    BY DEF CoveredBy, Visiting
  <2>2. \A f \in Filings : Expected(f) /\ f < Newest(run.rows)[1] => CoveredBy(run, f)
    BY <1>4, <2>1 DEF GapInv, Downward, Row, Covers
  <2>3. ~run.last => \A ref \in run.rows : r = "job" => FirstOf(run.page + 1) < ref[1]
    BY <1>4 DEF GapInv, JobApart
  <2> QED
    BY <1>4, <2>1, <2>2, <2>3, SameDeals, GapsMove
<1> QED
  BY <1>3, <1>4 DEF IInv

LEMMA VisitIInv ==
  ASSUME IInv, NEW r \in Runners, Visit(r)
  PROVE  IInv'
<1>0. runs[r].pc = "visit" /\ "visit" \in Visiting /\ "download" \in Visiting
      /\ UNCHANGED <<site, listed, linked, aged, deals, files, cuts, excused>>
  BY DEF Visit, Visiting
<1>1. CASE r = "job" /\ RefAlreadyKnown(Row(r))
  <2>1. runs' = [runs EXCEPT ![r] = NoRun]
    BY <1>1 DEF Visit
  <2>2. TypeOK' /\ RunsOk' /\ StoredListed' /\ FileBeforeRow'
    <3>1. cuts' \in 0..MaxCuts /\ excused' \in BOOLEAN
      BY <1>0 DEF IInv, TypeOK
    <3> QED
      BY <1>0, <2>1, <3>1, NoRunOk, SameTable, RunMoves
  <2>3. \A q \in Runners : runs'[q] = IF q = r THEN NoRun ELSE runs[q]
    BY <2>1 DEF IInv, TypeOK
  <2>4. ASSUME GapInv PROVE GapInv'
    <3> DEFINE row == Row(r)[1]
    <3>1. \A f \in Filings : Covers("script", f)' <=> Covers("script", f)
      BY <1>0, <1>1, <2>3, SameCover DEF Covers, Runners
    <3>2. row \in Filings /\ Stored(row) /\ Covers(r, row)
      <4>1. Row(r) \in Ref /\ Row(r) \in runs[r].rows /\ deals[Row(r)] # "none"
        BY <1>0, <1>1, RunIs DEF RefAlreadyKnown
      <4>2. Row(r) = <<Row(r)[1], Row(r)[2]>> /\ Row(r)[2] \in BOOLEAN /\ row \in Filings
        BY <4>1 DEF Ref
      <4> QED
        BY <1>0, <4>1, <4>2 DEF Stored, Covers, CoveredBy
    <3>3. Downward'
      BY <1>0, <2>3, <2>4, NoRunOk, SameCover DEF GapInv, Downward, Row, Covers
    <3>4. JobApart'
      BY <1>1, <2>3, NoRunOk DEF JobApart
    <3>5. GapsCovered'
      <4> SUFFICES ASSUME NEW old \in Filings, NEW new \in Filings, old < new,
                          Expected(old), Stored(new), ~Stored(old)
                   PROVE  Covers("script", old)
        BY <1>0, <3>1, SameCover, SameDeals DEF GapsCovered
      <4>1. CASE old < row
        BY <1>1, <2>4, <3>2, <4>1 DEF GapInv, GapsCovered
      <4>2. CASE ~(old < row)
        <5>1. row < old
          BY <3>2, <4>2, PollerAssumption DEF Filings
        <5>2. ~(\E ref \in runs[r].rows : ref[1] = old)
          BY <1>0, <5>1, RunIs, PollerAssumption DEF Filings
        <5>3. ~Covers("job", old)
          <6>1. SUFFICES ASSUME Covers("job", old) PROVE FALSE
            OBVIOUS
          <6>2. ~runs[r].last /\ old <= FirstOf(runs[r].page + 1)
            BY <1>0, <1>1, <5>2, <6>1 DEF Covers, CoveredBy
          <6>3. FirstOf(runs[r].page + 1) < row
            BY <1>0, <1>1, <2>4, <6>2, RunIs DEF GapInv, JobApart
          <6>4. FirstOf(runs[r].page + 1) \in Int
            <7>1. runs[r].page + 1 \in Nat
              BY RunIs DEF Run
            <7> QED
              BY <7>1, PageBounds DEF IInv
          <6> QED
            BY <3>2, <5>1, <6>2, <6>3, <6>4, PollerAssumption DEF Filings
        <5> QED
          BY <2>4, <5>3 DEF GapInv, GapsCovered
      <4> QED
        BY <4>1, <4>2
    <3> QED
      BY <3>3, <3>4, <3>5 DEF GapInv
  <2> QED
    BY <1>0, <2>2, <2>4 DEF IInv
<1>2. CASE ~(r = "job" /\ RefAlreadyKnown(Row(r)))
  <2> DEFINE run == [runs[r] EXCEPT !.pc = "download"]
  <2>1. runs' = [runs EXCEPT ![r] = run]
    BY <1>2 DEF Visit
  <2>2. /\ run \in Run /\ run.pc = "download" /\ run.page = runs[r].page
        /\ run.last = runs[r].last /\ run.rows = runs[r].rows
    BY <1>0, RunIs, WithPc
  <2> HIDE DEF run
  <2> QED
    BY <1>0, <2>1, <2>2, SameTable, StaysOnRow
<1> QED
  BY <1>1, <1>2

\* A page that is read, or the end of the listing.
LEMMA FetchIInv ==
  ASSUME IInv, NEW r \in Runners, FetchPage(r)
  PROVE  IInv'
<1> DEFINE page    == runs[r].page
           records == Records(page)
           fresh   == {f \in records : InWindow(r, f)}
           rows    == {RefOf(f) : f \in fresh}
           last    == IsLastPage(records)
           run     == IF fresh = {} THEN NoRun
                      ELSE [runs[r] EXCEPT !.pc = "visit", !.last = last, !.rows = rows]
<1>1. /\ runs' = [runs EXCEPT ![r] = run] /\ runs[r].pc = "fetch"
      /\ excused' = (excused \/ (site = "IT" /\ records # PageRows(page)))
      /\ UNCHANGED <<site, listed, linked, aged, deals, files, cuts>>
  BY Zenon DEF FetchPage
<1>2. runs[r] \in Run /\ page \in Nat \ {0} /\ runs[r].rows = {} /\ "fetch" \notin Visiting
      /\ "visit" \in Visiting /\ last \in BOOLEAN
  BY <1>1, RunIs DEF RunOk, Visiting, Run, IsLastPage
<1>3. \A f \in fresh : /\ f \in Filings /\ FirstOf(page + 1) < f /\ f <= FirstOf(page)
                       /\ f <= listed /\ RefOf(f) \in Ref /\ RefOf(f)[1] = f
  <2> SUFFICES ASSUME NEW f \in fresh
               PROVE  /\ f \in Filings /\ FirstOf(page + 1) < f /\ f <= FirstOf(page)
                      /\ f <= listed /\ RefOf(f) \in Ref /\ RefOf(f)[1] = f
    OBVIOUS
  <2>1. f \in Filings /\ FirstOf(page + 1) < f /\ f <= FirstOf(page)
    BY <1>2, PageIs DEF Records, IInv
  <2>2. FirstOf(page) <= listed /\ FirstOf(page) \in Int /\ listed \in Nat /\ f \in Int
    BY <1>2, <2>1, RunIs, PageBounds, PollerAssumption DEF IInv, Filings
  <2>3. f <= listed
    BY <2>1, <2>2
  <2> QED
    BY <2>1, <2>3, RefIs
<1>4. rows \in SUBSET Ref /\ (rows = {} <=> fresh = {})
  BY <1>3
<1>5. \A ref \in rows : /\ ref[1] \in fresh /\ ref[1] <= listed /\ FirstOf(page + 1) < ref[1]
                        /\ ref = RefOf(ref[1])
  BY <1>3
<1>6. \A f \in fresh : \E ref \in rows : ref[1] = f
  BY <1>3
<1>7. CASE fresh = {}
  <2>1. runs' = [runs EXCEPT ![r] = NoRun]
    BY <1>1, <1>7
  <2>2. TypeOK' /\ RunsOk' /\ StoredListed' /\ FileBeforeRow'
    <3>1. cuts' \in 0..MaxCuts /\ excused' \in BOOLEAN
      BY <1>1 DEF IInv, TypeOK
    <3> QED
      BY <1>1, <2>1, <3>1, NoRunOk, SameTable, RunMoves
  <2>3. ASSUME ~excused' PROVE GapInv'
    <3>1. ~excused /\ GapInv /\ (site = "IT" => records = PageRows(page))
      BY <1>1, <2>3 DEF IInv
    <3>2. \A f \in Filings : ~CoveredBy(NoRun, f)
      BY NoRunOk DEF CoveredBy
    <3>3. ASSUME NEW f \in Filings, Expected(f), CoveredBy(runs[r], f) PROVE FALSE
      <4>1. f <= FirstOf(page)
        BY <1>1, <1>2, <3>3 DEF CoveredBy
      <4> QED
        BY <1>2, <1>7, <3>1, <3>3, <4>1, PageShows DEF IInv
    <3> QED
      <4>1. NoRun.pc \notin Visiting /\ NoRun \in Run
        BY NoRunOk
      <4>2. \A f \in Filings : Stored(f)' <=> Stored(f)
        BY <1>1, SameDeals
      <4>3. UNCHANGED <<site, listed, aged>>
        BY <1>1
      <4> HIDE DEF run, fresh, rows, last, page, records
      <4> QED
        BY <2>1, <3>1, <3>2, <3>3, <4>1, <4>2, <4>3, GapsMove
  <2> QED
    BY <2>2, <2>3 DEF IInv
<1>8. CASE fresh # {}
  <2>1. run = [runs[r] EXCEPT !.pc = "visit", !.last = last, !.rows = rows]
    BY <1>8
  <2>2. /\ run \in Run /\ run.pc = "visit" /\ run.page = page /\ run.last = last
        /\ run.rows = rows
    <3> HIDE DEF run, rows, last, fresh
    <3> QED
      BY <1>2, <1>4, <2>1 DEF Run
  <2> HIDE DEF run
  <2>3. TypeOK' /\ RunsOk' /\ StoredListed' /\ FileBeforeRow'
    <3>1. cuts' \in 0..MaxCuts /\ excused' \in BOOLEAN
      BY <1>1 DEF IInv, TypeOK
    <3>2. /\ run.pc \in Visiting <=> run.rows # {}
          /\ run.pc # "idle" => run.page # 0
          /\ \A ref \in run.rows : ref[1] <= listed
          /\ \A a, b \in run.rows : a[1] = b[1] => a = b
          /\ run.pc \notin {"select", "insert"}
      <4> HIDE DEF rows, fresh
      <4> QED
        BY <1>2, <1>4, <1>5, <1>8, <2>2
    <3> QED
      BY <1>1, <2>2, <3>1, <3>2, SameTable, RunMoves
  <2>4. ASSUME ~excused' PROVE GapInv'
    <3>1. ~excused /\ GapInv /\ (site = "IT" => records = PageRows(page))
      BY <1>1, <2>4 DEF IInv
    <3>2. \A f \in Filings :
            CoveredBy(run, f) <=> f \in fresh \/ (~last /\ f <= FirstOf(page + 1))
      <4> HIDE DEF rows, fresh, last
      <4> QED
        BY <1>2, <1>5, <1>6, <2>2 DEF CoveredBy
    <3>3. \A f \in Filings : CoveredBy(runs[r], f) <=> f <= FirstOf(page)
      BY <1>1, <1>2 DEF CoveredBy
    <3>4. \A f \in Filings : f <= FirstOf(page + 1) => f <= FirstOf(page)
      <4>1. FirstOf(page) \in Int /\ FirstOf(page + 1) = FirstOf(page) - RowsPerPage
            /\ RowsPerPage \in Nat
        BY <1>2, PageBounds DEF IInv
      <4> QED
        BY <4>1, PollerAssumption DEF Filings
    <3>5. \A f \in Filings : CoveredBy(run, f) => CoveredBy(runs[r], f)
      BY <1>3, <3>2, <3>3, <3>4
    <3>6. \A f \in Filings : Expected(f) /\ f <= FirstOf(page) => CoveredBy(run, f)
      BY <1>2, <3>1, <3>2, PageShows DEF IInv
    <3>7. \A f \in Filings : Expected(f) /\ f < Newest(run.rows)[1] => CoveredBy(run, f)
      <4> SUFFICES ASSUME NEW f \in Filings, Expected(f), f < Newest(run.rows)[1]
                   PROVE  f <= FirstOf(page)
        BY <3>6
      <4>1. Newest(rows) \in rows
        <5> HIDE DEF rows, fresh
        <5> QED
          BY <1>4, <1>8, NewestIs
      <4>2. Newest(rows)[1] \in fresh
        BY <1>5, <4>1
      <4>3. FirstOf(page) \in Int /\ f \in Int /\ Newest(rows)[1] \in Int
            /\ Newest(rows)[1] <= FirstOf(page)
        BY <1>2, <1>3, <4>2, PageBounds, PollerAssumption DEF IInv, Filings
      <4> QED
        BY <2>2, <4>3
    <3>8. \A ref \in run.rows : FirstOf(run.page + 1) < ref[1]
      BY <1>5, <2>2
    <3> HIDE DEF fresh, rows, last, page
    <3> QED
      BY <1>1, <2>2, <3>1, <3>3, <3>5, <3>6, <3>7, <3>8, SameDeals, GapsMove
  <2> QED
    BY <2>3, <2>4 DEF IInv
<1> QED
  BY <1>7, <1>8

LEMMA DownloadIInv ==
  ASSUME IInv, NEW r \in Runners, Download(r)
  PROVE  IInv'
<1>1. PICK got \in BOOLEAN :
        /\ runs' = [runs EXCEPT ![r].pc = "select", ![r].path = PathReturned(Row(r), got)]
        /\ files' = files \cup (IF got /\ Row(r)[2] THEN {Row(r)} ELSE {})
        /\ runs[r].pc = "download"
        /\ UNCHANGED <<site, listed, linked, aged, deals, cuts, excused>>
  BY DEF Download
<1> DEFINE path == PathReturned(Row(r), got)
           run  == [runs[r] EXCEPT !.pc = "select", !.path = path]
<1>2. runs' = [runs EXCEPT ![r] = run]
  BY <1>1 DEF IInv, TypeOK
<1>3. runs[r] \in Run /\ Row(r) \in Ref /\ "select" \in Visiting /\ runs[r].pc \in Visiting
  BY <1>1, RunIs DEF Visiting
<1>4. path \in BOOLEAN /\ (path = TRUE => Row(r) \in files')
  <2>1. path = TRUE \/ path = FALSE
    BY DEF PathReturned
  <2>2. path = TRUE => Row(r) \in files'
    BY <1>1 DEF PathReturned
  <2> QED
    BY <2>1, <2>2
<1>5. /\ run \in Run /\ run.pc = "select" /\ run.page = runs[r].page /\ run.path = path
      /\ run.last = runs[r].last /\ run.rows = runs[r].rows
  <2> DEFINE moved == [runs[r] EXCEPT !.pc = "select"]
  <2>1. /\ moved \in Run /\ moved.pc = "select" /\ moved.page = runs[r].page
        /\ moved.last = runs[r].last /\ moved.rows = runs[r].rows
    BY <1>3, WithPc
  <2>2. run = [moved EXCEPT !.path = path]
    OBVIOUS
  <2> HIDE DEF run, moved, path
  <2> QED
    BY <1>4, <2>1, <2>2, WithPath
<1>6. files \subseteq files' /\ files' \subseteq Ref
  BY <1>1, <1>3 DEF IInv, TypeOK
<1> HIDE DEF run, path
<1>7. (run.pc \in {"select", "insert"} /\ run.path) => Row(r) \in files'
  BY <1>4, <1>5, Zenon
<1>8. run.pc \in Visiting
  BY <1>3, <1>5
<1> QED
  BY <1>1, <1>2, <1>3, <1>5, <1>6, <1>7, <1>8, StaysOnRow

\* The newest row is stored, or was already, and the run goes on to the next.
LEMMA RowStored ==
  ASSUME IInv, NEW r \in Runners, runs[r].pc \in {"select", "insert"},
         NEW status \in {"bare", "filed"}, status = "filed" => Row(r) \in files,
         runs' = [runs EXCEPT ![r] = Advanced(runs[r])],
         deals' = [deals EXCEPT ![Row(r)] = status],
         UNCHANGED <<site, listed, linked, aged, files, cuts, excused>>
  PROVE  IInv'
<1> DEFINE was  == runs[r]
           row  == Row(r)[1]
           left == was.rows \ {Row(r)}
           run  == Advanced(was)
<1>0. was.pc \in Visiting /\ "fetch" \notin Visiting /\ "visit" \in Visiting
      /\ "idle" \notin Visiting /\ "visit" \notin {"select", "insert"}
  BY DEF Visiting
<1>1. /\ was \in Run /\ RunOk(was) /\ was.rows \subseteq Ref /\ was.page \in Nat \ {0}
      /\ Row(r) \in was.rows /\ Row(r) \in Ref /\ row \in Filings
      /\ \A other \in was.rows : other[1] <= row
  BY <1>0, RunIs DEF RunOk, Run
<1>2. /\ run \in Run
      /\ left # {} => /\ run.pc = "visit" /\ run.rows = left /\ run.path = FALSE
                      /\ run.page = was.page /\ run.last = was.last
      /\ left = {} /\ was.last => run = NoRun
      /\ left = {} /\ ~was.last => /\ run.pc = "fetch" /\ run.rows = {}
                                   /\ run.page = was.page + 1
  BY <1>1, AdvancedIs DEF Row
<1> HIDE DEF run
<1>3. /\ run.pc \in Visiting <=> left # {}
      /\ run.pc \in Visiting <=> run.rows # {}
      /\ run.pc # "idle" => run.page # 0
      /\ run.rows = left
      /\ run.pc \notin {"select", "insert"}
  <2>1. was.page + 1 # 0
    BY <1>1
  <2> HIDE DEF left, was
  <2>2. CASE left # {}
    BY <1>0, <1>1, <1>2, <2>2
  <2>3. CASE left = {} /\ was.last
    BY <1>0, <1>2, <2>3, NoRunOk
  <2>4. CASE left = {} /\ ~was.last
    BY <1>0, <1>2, <2>1, <2>4
  <2> QED
    BY <2>2, <2>3, <2>4
<1>4. /\ \A ref \in left : ref[1] <= listed
      /\ \A a, b \in left : a[1] = b[1] => a = b
      /\ \A ref \in left : ref[1] # row
  BY <1>1 DEF RunOk
<1>5. /\ deals' \in [Ref -> {"none", "bare", "filed"}]
      /\ \A ref \in Ref : deals'[ref] = IF ref = Row(r) THEN status ELSE deals[ref]
  BY <1>1 DEF IInv, TypeOK
<1>6. TypeOK' /\ RunsOk' /\ StoredListed' /\ FileBeforeRow'
  <2>1. \A ref \in Ref : deals'[ref] = "filed" => ref \in files'
    BY <1>5 DEF IInv, FileBeforeRow
  <2>2. \A ref \in Ref : deals'[ref] # "none" => ref[1] <= listed
    BY <1>1, <1>5 DEF IInv, StoredListed, RunOk
  <2>3. files \subseteq files' /\ files' \subseteq Ref /\ cuts' \in 0..MaxCuts
        /\ excused' \in BOOLEAN
    BY DEF IInv, TypeOK
  <2>4. (run.pc \in {"select", "insert"} /\ run.path) => Newest(run.rows) \in files'
    BY <1>3
  <2>5. /\ \A ref \in run.rows : ref[1] <= listed
        /\ \A a, b \in run.rows : a[1] = b[1] => a = b
    BY <1>3, <1>4
  <2> HIDE DEF left
  <2> QED
    BY <1>2, <1>3, <1>5, <2>1, <2>2, <2>3, <2>4, <2>5, RunMoves DEF run
<1>7. ASSUME GapInv PROVE GapInv'
  <2>1. \A f \in Filings : CoveredBy(was, f) <=>
          (\E ref \in was.rows : ref[1] = f) \/ (~was.last /\ f <= FirstOf(was.page + 1))
    BY <1>0 DEF CoveredBy
  <2>2. \A f \in Filings : CoveredBy(run, f) <=>
          (\E ref \in left : ref[1] = f) \/ (~was.last /\ f <= FirstOf(was.page + 1))
    <3> HIDE DEF left, was
    <3> QED
      BY <1>0, <1>2, NoRunOk DEF CoveredBy
  <2>3. \A f \in Filings : CoveredBy(run, f) => CoveredBy(was, f)
    BY <2>1, <2>2
  <2>4. \A f \in Filings : CoveredBy(was, f) /\ f # row => CoveredBy(run, f)
    BY <2>1, <2>2
  <2>5. ASSUME NEW f \in Filings, f = row PROVE Stored(f)'
    <3>1. PICK b \in BOOLEAN : Row(r) = <<f, b>>
      BY <1>1, <2>5 DEF Ref
    <3>2. deals'[Row(r)] # "none"
      BY <1>1, <1>5
    <3>3. deals'[<<f, b>>] # "none"
      BY <3>1, <3>2
    <3> HIDE DEF row
    <3> QED
      BY <3>3 DEF Stored
  <2>6. ASSUME NEW f \in Filings, f # row PROVE Stored(f)' <=> Stored(f)
    <3>1. \A b \in BOOLEAN : <<f, b>> \in Ref /\ <<f, b>> # Row(r)
      BY <2>6 DEF Ref
    <3> QED
      BY <1>5, <3>1 DEF Stored
  <2>7. r = "job" => ~CoveredBy(run, row)
    <3>1. r = "job" /\ ~was.last => FirstOf(was.page + 1) < row
      BY <1>0, <1>1, <1>7 DEF GapInv, JobApart
    <3>2. FirstOf(was.page + 1) \in Int /\ row \in Int
      <4>1. was.page + 1 \in Nat
        BY <1>1
      <4> QED
        BY <1>1, <4>1, PageBounds, PollerAssumption DEF IInv, Filings
    <3> HIDE DEF left, was, row
    <3> QED
      BY <1>1, <1>4, <2>2, <3>1, <3>2
  <2>8. run.pc \in Visiting =>
          \A f \in Filings : Expected(f) /\ f < Newest(run.rows)[1] => CoveredBy(run, f)
    <3> SUFFICES ASSUME run.pc \in Visiting, NEW f \in Filings, Expected(f),
                        f < Newest(run.rows)[1]
                 PROVE  CoveredBy(run, f)
      OBVIOUS
    <3>1. Newest(left) \in left /\ Newest(left) \in Ref
      <4>1. left # {} /\ left \subseteq Ref
        BY <1>1, <1>3
      <4> HIDE DEF left
      <4> QED
        BY <4>1, NewestIs
    <3>2. Newest(left)[1] <= row /\ Newest(left)[1] \in Filings
      BY <1>1, <3>1 DEF Ref
    <3>3. f < row
      BY <1>1, <1>3, <3>2, PollerAssumption DEF Filings
    <3>4. CoveredBy(was, f) /\ f # row
      BY <1>0, <1>1, <1>7, <3>3, PollerAssumption DEF GapInv, Downward, Covers, Filings
    <3> QED
      BY <2>4, <3>4
  <2>9. run.pc \in Visiting /\ ~run.last =>
          \A ref \in run.rows : r = "job" => FirstOf(run.page + 1) < ref[1]
    <3> SUFFICES ASSUME run.pc \in Visiting, ~run.last, NEW ref \in left, r = "job"
                 PROVE  FirstOf(run.page + 1) < ref[1]
      BY <1>3
    <3>1. run.page = was.page /\ ~was.last /\ ref \in was.rows
      BY <1>2, <1>3
    <3>2. FirstOf(was.page + 1) < ref[1]
      BY <1>0, <1>7, <3>1 DEF GapInv, JobApart
    <3> QED
      BY <3>1, <3>2
  <2>a. \A f \in Filings : Stored(f) => Stored(f)'
    BY <2>5, <2>6
  <2>b. \A f \in Filings : Stored(f)' /\ ~Stored(f) =>
          runs[r].pc \in Visiting /\ f = Row(r)[1] /\ (r = "job" => ~CoveredBy(run, f))
    BY <1>0, <2>6, <2>7
  <2>c. \A f \in Filings :
          Expected(f) /\ CoveredBy(runs[r], f) => CoveredBy(run, f) \/ Stored(f)'
    BY <2>4, <2>5
  <2>d. runs' = [runs EXCEPT ![r] = run]
    BY DEF run
  <2> HIDE DEF left
  <2> QED
    BY <1>2, <1>7, <2>3, <2>8, <2>9, <2>a, <2>b, <2>c, <2>d, GapsMove
<1> QED
  BY <1>6, <1>7 DEF IInv

LEMMA SelectIInv ==
  ASSUME IInv, NEW r \in Runners, Select(r)
  PROVE  IInv'
<1>1. /\ runs[r].pc = "select" /\ "select" \in Visiting /\ "insert" \in Visiting
      /\ UNCHANGED <<site, listed, linked, aged, files, cuts, excused>>
  BY DEF Select, Visiting
<1>2. runs[r] \in Run /\ RunOk(runs[r]) /\ Row(r) \in Ref
      /\ (runs[r].path => Row(r) \in files)
  BY <1>1, RunIs DEF RunOk, Row
<1>3. CASE deals[Row(r)] = "none"
  <2> DEFINE run == [runs[r] EXCEPT !.pc = "insert"]
  <2>1. runs' = [runs EXCEPT ![r] = run] /\ UNCHANGED deals
    BY <1>3, Zenon DEF Select
  <2>2. /\ run \in Run /\ run.pc = "insert" /\ run.page = runs[r].page
        /\ run.last = runs[r].last /\ run.rows = runs[r].rows /\ run.path = runs[r].path
    BY <1>1, <1>2, WithPc
  <2>3. files \subseteq files' /\ files' \subseteq Ref
    BY <1>1 DEF IInv, TypeOK
  <2> HIDE DEF run
  <2>4. (run.pc \in {"select", "insert"} /\ run.path) => Row(r) \in files'
    BY <1>1, <1>2, <2>2
  <2> QED
    BY <1>1, <2>1, <2>2, <2>3, <2>4, StaysOnRow
<1>4. CASE deals[Row(r)] # "none"
  <2> DEFINE status == Refreshed(deals[Row(r)], runs[r].path)
  <2>1. /\ runs' = [runs EXCEPT ![r] = Advanced(runs[r])]
        /\ deals' = [deals EXCEPT ![Row(r)] = status]
    BY <1>4 DEF Select, IInv, TypeOK
  <2>2. status \in {"bare", "filed"} /\ (status = "filed" => Row(r) \in files)
    BY <1>2, <1>4 DEF IInv, TypeOK, FileBeforeRow, Refreshed
  <2> HIDE DEF status
  <2> QED
    BY <1>1, <2>1, <2>2, RowStored
<1> QED
  BY <1>3, <1>4

LEMMA InsertIInv ==
  ASSUME IInv, NEW r \in Runners, Insert(r)
  PROVE  IInv'
<1>1. /\ runs[r].pc = "insert" /\ "insert" \in Visiting
      /\ UNCHANGED <<site, listed, linked, aged, files, cuts>>
  BY DEF Insert, Visiting
<1>2. runs[r] \in Run /\ RunOk(runs[r]) /\ Row(r) \in Ref
      /\ (runs[r].path => Row(r) \in files)
  BY <1>1, RunIs DEF RunOk, Row
<1>3. CASE deals[Row(r)] = "none"
  <2> DEFINE status == IF runs[r].path THEN "filed" ELSE "bare"
  <2>1. /\ runs' = [runs EXCEPT ![r] = Advanced(runs[r])]
        /\ deals' = [deals EXCEPT ![Row(r)] = status]
        /\ UNCHANGED excused
    BY <1>3 DEF Insert, IInv, TypeOK
  <2>2. status \in {"bare", "filed"} /\ (status = "filed" => Row(r) \in files)
    BY <1>2
  <2> HIDE DEF status
  <2> QED
    BY <1>1, <2>1, <2>2, RowStored
<1>4. CASE deals[Row(r)] # "none"
  <2>1. runs' = [runs EXCEPT ![r] = NoRun] /\ excused' = TRUE /\ UNCHANGED deals
    BY <1>4 DEF Insert
  <2>2. cuts' \in 0..MaxCuts
    BY <1>1 DEF IInv, TypeOK
  <2> QED
    BY <1>1, <2>1, <2>2, CutIInv
<1> QED
  BY <1>3, <1>4

-----------------------------------------------------------------------------
(* The listing moves *)

LEMMA PublishIInv ==
  ASSUME IInv, Publish
  PROVE  IInv'
<1>1. /\ listed \in Nat /\ listed < Offers /\ listed' = listed + 1
      /\ excused' = (excused \/ BetweenPages)
      /\ linked' = linked \cup {listed + 1} \/ linked' = linked
      /\ UNCHANGED <<site, aged, deals, files, runs, cuts>>
  BY PollerAssumption DEF Publish, IInv, TypeOK
<1>2. TypeOK'
  <2>1. listed' \in 0..Offers /\ aged' \in 0..listed' /\ linked' \subseteq 1..listed'
    <3>1. listed \in 0..Offers /\ aged \in 0..listed /\ linked \subseteq 1..listed
      BY DEF IInv, TypeOK
    <3>2. listed' \in 0..Offers /\ aged' \in 0..listed'
      BY <1>1, <3>1, PollerAssumption
    <3>3. 1..listed \subseteq 1..listed' /\ listed + 1 \in 1..listed'
      BY <1>1
    <3> QED
      BY <1>1, <3>1, <3>2, <3>3
  <2>2. excused' \in BOOLEAN
    BY <1>1 DEF IInv, TypeOK, BetweenPages
  <2> QED
    BY <1>1, <2>1, <2>2 DEF IInv, TypeOK
<1>3. \A ref \in Ref : ref[1] <= listed => ref[1] <= listed'
  BY <1>1, PollerAssumption DEF Ref, Filings
<1>4. RunsOk' /\ StoredListed' /\ FileBeforeRow'
  <2>1. RunsOk'
    <3> SUFFICES ASSUME NEW q \in Runners PROVE RunOk(runs[q])'
      BY DEF RunsOk
    <3>1. RunOk(runs[q]) /\ runs'[q] = runs[q] /\ runs[q].rows \subseteq Ref
      BY <1>1, RunIs DEF Run
    <3> QED
      BY <1>1, <1>3, <3>1 DEF RunOk
  <2> QED
    BY <1>1, <1>3, <2>1 DEF IInv, StoredListed, FileBeforeRow
<1>5. ASSUME ~excused' PROVE GapInv'
  <2> DEFINE job == runs["job"]
  <2>1. ~excused /\ ~BetweenPages /\ GapInv
    BY <1>1, <1>5 DEF IInv
  <2>2. \A p \in Nat : FirstOf(p)' = FirstOf(p) + 1 /\ FirstOf(p) \in Int
    <3> SUFFICES ASSUME NEW p \in Nat
                 PROVE  FirstOf(p)' = FirstOf(p) + 1 /\ FirstOf(p) \in Int
      OBVIOUS
    <3> DEFINE skipped == (p - 1) * RowsPerPage
    <3>1. RowsPerPage \in Nat
      BY PageBounds DEF IInv
    <3>2. skipped \in Int
      <4> DEFINE size == RowsPerPage
      <4> HIDE DEF size
      <4>1. (p - 1) * size \in Int
        BY <3>1 DEF size
      <4> QED
        BY <4>1 DEF size
    <3>3. FirstOf(p) = listed - skipped /\ FirstOf(p)' = listed' - skipped
      BY <1>1 DEF FirstOf, RowsPerPage
    <3> HIDE DEF skipped
    <3> QED
      BY <1>1, <3>2, <3>3
  <2>3. \A q \in Runners : runs[q] \in Run /\ runs[q].page \in Nat /\ runs[q].page + 1 \in Nat
    BY RunIs DEF Run
  <2>4. ASSUME NEW q \in Runners, NEW f \in Filings, Covers(q, f) PROVE Covers(q, f)'
    <3>1. PICK run \in Run : run = runs[q]
      BY <2>3
    <3>2. Covers(q, f)' <=> CoveredBy(run, f)'
      BY <1>1, <3>1 DEF Covers, CoveredBy, FirstOf, RowsPerPage
    <3>3. \A p \in Nat : f <= FirstOf(p) => f <= FirstOf(p)'
      BY <2>2, PollerAssumption DEF Filings
    <3>4. f <= FirstOf(run.page) => f <= FirstOf(run.page)'
      BY <3>3 DEF Run
    <3>5. f <= FirstOf(run.page + 1) => f <= FirstOf(run.page + 1)'
      BY <3>3 DEF Run
    <3>6. CoveredBy(run, f)'
      BY <2>4, <3>1, <3>4, <3>5 DEF Covers, CoveredBy
    <3> QED
      BY <3>2, <3>6
  <2>5. \A f \in Filings : Expected(f)' /\ f <= listed => Expected(f)
    BY <1>1 DEF Expected, Keyed
  <2>6. "job" \in Runners /\ "script" \in Runners
    BY DEF Runners
  <2>7. Downward'
    <3> SUFFICES ASSUME NEW q \in Runners, runs[q].pc \in Visiting, NEW f \in Filings,
                        Expected(f)', f < Row(q)[1]
                 PROVE  Covers(q, f)'
      BY <1>1 DEF Downward, Row
    <3>1. Row(q)[1] <= listed /\ Row(q)[1] \in Int /\ f \in Int
      BY RunIs, PollerAssumption DEF RunOk, Filings
    <3>2. Expected(f)
      BY <1>1, <2>5, <3>1
    <3>3. Covers(q, f)
      BY <2>1, <3>2 DEF GapInv, Downward
    <3> QED
      BY <2>4, <3>3
  <2>8. job.pc \in Visiting => job.last
    BY <2>1 DEF BetweenPages, Visiting
  <2>9. JobApart'
    BY <1>1, <2>8 DEF JobApart
  <2>a. GapsCovered'
    <3> SUFFICES ASSUME NEW old \in Filings, NEW new \in Filings, old < new,
                        Expected(old)', Stored(new), ~Stored(old)
                 PROVE  Covers("script", old)' \/ (Covers("job", old)' /\ ~Covers("job", new)')
      BY <1>1, SameDeals DEF GapsCovered
    <3>1. new <= listed
      <4>1. PICK b \in BOOLEAN : deals[<<new, b>>] # "none"
        BY DEF Stored
      <4>2. <<new, b>> \in Ref
        BY DEF Ref
      <4> QED
        BY <4>1, <4>2 DEF IInv, StoredListed
    <3>2. Expected(old)
      BY <1>1, <2>5, <3>1, PollerAssumption DEF Filings
    <3>3. Covers("script", old) \/ (Covers("job", old) /\ ~Covers("job", new))
      BY <2>1, <3>2 DEF GapInv, GapsCovered
    <3>4. ASSUME Covers("job", old), ~Covers("job", new) PROVE ~Covers("job", new)'
      <4>1. job.pc = "fetch" => job.page = 1
        BY <2>1, <2>3, <2>6, RunIs DEF BetweenPages, RunOk
      <4>2. job.pc # "fetch"
        BY <3>1, <3>4, <4>1, PageBounds DEF IInv, Covers, CoveredBy
      <4>3. job.pc \in Visiting /\ job.last
        BY <2>8, <3>4, <4>2 DEF Covers, CoveredBy
      <4> QED
        BY <1>1, <3>4, <4>2, <4>3 DEF Covers, CoveredBy
    <3> QED
      BY <2>4, <2>6, <3>3, <3>4
  <2> QED
    BY <2>7, <2>9, <2>a DEF GapInv
<1> QED
  BY <1>2, <1>4, <1>5 DEF IInv

\* Neither a late link nor the calendar widens what is expected.
LEMMA CalendarIInv ==
  ASSUME IInv, UNCHANGED <<site, listed, deals, files, runs, cuts, excused>>,
         linked' \subseteq 1..listed, aged' \in aged..listed
  PROVE  IInv'
<1>1. TypeOK'
  BY PollerAssumption DEF IInv, TypeOK
<1>2. RunsOk' /\ StoredListed' /\ FileBeforeRow'
  BY DEF IInv, RunsOk, RunOk, StoredListed, FileBeforeRow
<1>3. ASSUME GapInv PROVE GapInv'
  <2>1. \A f \in Filings : Expected(f)' => Expected(f)
    BY PollerAssumption DEF Expected, Keyed, Filings, IInv, TypeOK
  <2>2. \A q \in Runners, f \in Filings : Covers(q, f)' <=> Covers(q, f)
    BY DEF Covers, CoveredBy, FirstOf, RowsPerPage
  <2>3. Downward'
    BY <1>3, <2>1, <2>2 DEF GapInv, Downward, Row
  <2>4. JobApart'
    BY <1>3 DEF GapInv, JobApart, FirstOf, RowsPerPage
  <2>5. GapsCovered'
    <3>1. "job" \in Runners /\ "script" \in Runners
      BY DEF Runners
    <3> QED
      BY <1>3, <2>1, <2>2, <3>1, SameDeals DEF GapInv, GapsCovered
  <2> QED
    BY <2>3, <2>4, <2>5 DEF GapInv
<1> QED
  BY <1>1, <1>2, <1>3 DEF IInv

LEMMA NextIInv == IInv /\ [Next]_vars => IInv'
<1> SUFFICES ASSUME IInv, [Next]_vars PROVE IInv'
  OBVIOUS
<1>1. ASSUME NEW r \in Runners, StopAtCap(r) PROVE IInv'
  BY <1>1, CutIInv DEF StopAtCap, IInv, TypeOK
<1>2. ASSUME NEW r \in Runners, Cut(r) PROVE IInv'
  <2>1. cuts' \in 0..MaxCuts
    BY <1>2, PollerAssumption DEF Cut, IInv, TypeOK
  <2> QED
    BY <1>2, <2>1, CutIInv DEF Cut
<1>3. ASSUME NEW f \in Filings, LinkDocument(f) PROVE IInv'
  <2>1. linked' \subseteq 1..listed /\ aged' \in aged..listed
    BY <1>3, PollerAssumption DEF LinkDocument, IInv, TypeOK
  <2> QED
    BY <1>3, <2>1, CalendarIInv DEF LinkDocument
<1>4. ASSUME Age PROVE IInv'
  <2>1. linked' \subseteq 1..listed /\ aged' \in aged..listed
    BY <1>4, PollerAssumption DEF Age, IInv, TypeOK
  <2> QED
    BY <1>4, <2>1, CalendarIInv DEF Age
<1>5. ASSUME UNCHANGED vars PROVE IInv'
  <2>1. linked' \subseteq 1..listed /\ aged' \in aged..listed
    BY <1>5, PollerAssumption DEF vars, IInv, TypeOK
  <2> QED
    BY <1>5, <2>1, CalendarIInv DEF vars
<1> QED
  BY <1>1, <1>2, <1>3, <1>4, <1>5, StartRunIInv, FetchIInv, VisitIInv, DownloadIInv,
     SelectIInv, InsertIInv, PublishIInv DEF Next, Step

LEMMA Invariant == Spec => []IInv
BY InitIInv, NextIInv, PTL DEF Spec

-----------------------------------------------------------------------------
(* Theorems *)

\* Every run, deal and file the pollers leave behind is one the model names: a row that
\* is stored was on the listing, page after page, whatever size the pages have.
THEOREM TypeCorrect == Spec => []TypeOK
<1>1. IInv => TypeOK
  BY DEF IInv
<1> QED
  BY <1>1, Invariant, PTL

\* The pollers' _run: where nothing runs and nothing is to blame, everything below a
\* stored row is stored, so the row the next job stops at is a mark it can trust.
THEOREM GapsHaveCauses == Spec => []GapHasCause
<1>1. IInv => GapHasCause
  <2> SUFFICES ASSUME IInv, \A r \in Runners : runs[r].pc = "idle", ~excused,
                      NEW old \in Filings, NEW new \in Filings,
                      old < new, Expected(old), Stored(new), ~Stored(old)
               PROVE  FALSE
    BY DEF GapHasCause
  <2>1. Covers("script", old) \/ Covers("job", old)
    BY DEF IInv, GapInv, GapsCovered
  <2>2. \A r \in Runners : ~Covers(r, old)
    BY DEF Covers, CoveredBy, Visiting
  <2> QED
    BY <2>1, <2>2 DEF Runners
<1> QED
  BY <1>1, Invariant, PTL

\* fetcher.py's os.replace and service.py's pdf_path: however job and script interleave
\* and wherever they are cut off, a deal that points at a document has it on disk.
THEOREM FilesPrecedeRows == Spec => []FileBeforeRow
<1>1. IInv => FileBeforeRow
  BY DEF IInv
<1> QED
  BY <1>1, Invariant, PTL

\* The services' refresh: no run deletes a deal or clears the document of one, also
\* when it failed to download what another run has stored since.
THEOREM DocumentsStay == Spec => DocumentsKept
<1>1. ASSUME IInv, [Next]_vars, NEW ref \in Ref
      PROVE  /\ deals[ref] # "none" => deals'[ref] # "none"
             /\ deals[ref] = "filed" => deals'[ref] = "filed"
  <2>1. CASE \E r \in Runners : Select(r)
    <3> PICK r \in Runners : Select(r)
      BY <2>1
    <3>1. UNCHANGED deals
          \/ deals' = [deals EXCEPT ![Row(r)] = Refreshed(deals[Row(r)], runs[r].path)]
      BY DEF Select
    <3> QED
      BY <1>1, <3>1 DEF IInv, TypeOK, Refreshed
  <2>2. CASE \E r \in Runners : Insert(r)
    <3> PICK r \in Runners : Insert(r)
      BY <2>2
    <3>1. UNCHANGED deals
          \/ /\ deals[Row(r)] = "none"
             /\ deals' = [deals EXCEPT ![Row(r)] = IF runs[r].path THEN "filed" ELSE "bare"]
      BY DEF Insert
    <3> QED
      BY <1>1, <3>1 DEF IInv, TypeOK
  <2>3. CASE ~\E r \in Runners : Select(r) \/ Insert(r)
    <3>1. UNCHANGED deals
      BY <1>1, <2>3 DEF Next, Step, StartRun, StopAtCap, FetchPage, Visit, Download, Cut,
                        Publish, LinkDocument, Age, vars
    <3> QED
      BY <3>1
  <2> QED
    BY <2>1, <2>2, <2>3
<1>2. IInv /\ [Next]_vars
          => [\A ref \in Ref : /\ deals[ref] # "none" => deals'[ref] # "none"
                               /\ deals[ref] = "filed" => deals'[ref] = "filed"]_vars
  BY <1>1
<1> QED
  BY <1>2, Invariant, PTL DEF Spec, DocumentsKept

=============================================================================
