------------------------ MODULE AmfIngestion_proofs ------------------------
(***************************************************************************)
(* Theorems about AmfIngestion, for every number of items, whatever their  *)
(* documents say, every page size and cap, every feed and number of        *)
(* faults.                                                                 *)
(***************************************************************************)
EXTENDS AmfIngestion, SequenceTheorems, FiniteSetTheorems, TLAPS

-----------------------------------------------------------------------------
(* The inductive invariant *)

\* A run in flight has an item left to hand out, and one at work has it at hand.
RunsHaveWork ==
    \A r \in Runners :
        /\ runs[r].pc # "idle" => runs[r].left >= 1
        /\ runs[r].pc \in {"download", "get", "select", "write"} => runs[r].rows # <<>>

PollsHaveEntry == \A r \in Runners : polls[r].pc # "idle" => polls[r].at \in Entries

\* Of an item that was never mistaken, a run knows nothing or what its document says.
KnowledgeIsTrue ==
    \A r \in Runners :
        (runs[r].pc \in {"select", "write"} /\ Item(r) \notin junked)
            => runs[r].md \in {"none", PriceIn[Item(r)]}

\* Deals are never deleted.
SeenExists ==
    \A r \in Runners :
        (runs[r].pc = "write" /\ runs[r].seen # None) => deals[Item(r)] # None

JunkIsKnown == \A i \in Items : files[i] = "junk" => i \in junked

\* The same of the flag.
FlagIsTrue ==
    \A i \in Items \ junked : Settled(i) => deals[i].flag = QualityFlag(PriceIn[i])

IInv ==
    /\ TypeOK /\ RunsHaveWork /\ PollsHaveEntry
    /\ KnowledgeIsTrue /\ SeenExists /\ JunkIsKnown /\ FlagIsTrue

-----------------------------------------------------------------------------
(* Types *)

LEMMA NoRunType == NoRun \in Run /\ None \in Deal
<1>1. <<>> \in Seq(Items)
  BY EmptySeq
<1> QED
  BY <1>1 DEF NoRun, Run, None, Deal, Metadata

LEMMA InitIInv == Init => IInv
<1> SUFFICES ASSUME Init PROVE IInv
  OBVIOUS
<1> USE AmfAssumption, NoRunType DEF Init
<1>1. TypeOK
  BY DEF TypeOK, Poll, NoPoll
<1>2. RunsHaveWork /\ PollsHaveEntry /\ KnowledgeIsTrue /\ SeenExists
  BY DEF RunsHaveWork, PollsHaveEntry, KnowledgeIsTrue, SeenExists, NoRun, NoPoll
<1>3. JunkIsKnown /\ FlagIsTrue
  BY DEF JunkIsKnown, FlagIsTrue, Settled, None
<1> QED
  BY <1>1, <1>2, <1>3 DEF IInv

LEMMA CountingDown ==
  ASSUME NEW n \in Nat, NEW m \in Int, NEW S, \A k \in 1..n : m - k + 1 \in S
  PROVE  [k \in 1..n |-> m - k + 1] \in Seq(S)
OBVIOUS

\* A page is a sequence of items the search shows.
LEMMA PageType ==
  ASSUME TypeOK, NEW offset \in Nat
  PROVE  PageAt(offset) \in Seq(Items)
<1> DEFINE size == Min({PageSize, listed - offset})
<1>1. CASE listed <= offset
  BY <1>1, EmptySeq DEF PageAt
<1>2. CASE ~(listed <= offset)
  <2>1. listed \in Nat /\ listed <= Offers /\ Offers \in Nat /\ PageSize \in Nat \ {0}
    BY AmfAssumption DEF TypeOK
  <2>2. size \in Nat /\ size <= listed - offset
    <3>1. PageSize <= listed - offset \/ listed - offset <= PageSize
      BY <2>1
    <3>2. \E x \in {PageSize, listed - offset} : \A y \in {PageSize, listed - offset} : x <= y
      BY <2>1, <3>1
    <3>3. /\ size \in {PageSize, listed - offset}
          /\ \A y \in {PageSize, listed - offset} : size <= y
      BY <3>2 DEF Min
    <3> QED
      BY <1>2, <2>1, <3>3
  <2>3. \A k \in 1..size : listed - offset - k + 1 \in Items
    BY <1>2, <2>1, <2>2 DEF Items
  <2>4. [k \in 1..size |-> listed - offset - k + 1] \in Seq(Items)
    <3> HIDE DEF size
    <3>1. listed - offset \in Int
      BY <2>1
    <3> QED
      BY <2>2, <2>3, <3>1, CountingDown
  <2> QED
    BY <1>2, <2>4 DEF PageAt
<1> QED
  BY <1>1, <1>2

LEMMA ItemType ==
  ASSUME TypeOK, RunsHaveWork, NEW r \in Runners,
         runs[r].pc \in {"download", "get", "select", "write"}
  PROVE  Item(r) \in Items
<1>1. runs[r].rows \in Seq(Items) /\ runs[r].rows # <<>>
  BY DEF TypeOK, Run, RunsHaveWork
<1> QED
  BY <1>1, HeadTailProperties DEF Item

LEMMA TailLeft ==
  ASSUME NEW S, NEW s \in Seq(S), Len(s) > 1
  PROVE  Tail(s) # <<>>
<1>1. s # <<>> /\ Len(s) \in Nat
  BY LenProperties, EmptySeq
<1>2. Tail(s) \in Seq(S) /\ Len(Tail(s)) = Len(s) - 1
  BY <1>1, HeadTailProperties
<1>3. Len(Tail(s)) # 0
  BY <1>1, <1>2
<1> QED
  BY <1>3, EmptySeq, Zenon

\* What follows an item keeps the types, and leaves the run work or ends it.
LEMMA AdvancedType ==
  ASSUME TypeOK, RunsHaveWork, NEW r \in Runners, runs[r].pc = "write"
  PROVE  LET run == Advanced(runs[r])
         IN  /\ run \in Run
             /\ run.pc # "idle" => run.left >= 1
             /\ run.pc \in {"download", "get", "select", "write"} => run.rows # <<>>
             /\ run.pc \notin {"select", "write"}
<1>1. runs[r] \in Run /\ runs[r].left >= 1 /\ runs[r].rows # <<>>
  BY DEF TypeOK, RunsHaveWork
<1>2. runs[r].rows \in Seq(Items) /\ runs[r].left \in Nat /\ runs[r].offset \in Nat
      /\ runs[r].more \in BOOLEAN
  BY <1>1 DEF Run
<1>3. Tail(runs[r].rows) \in Seq(Items) /\ Len(Tail(runs[r].rows)) = Len(runs[r].rows) - 1
      /\ Len(runs[r].rows) \in Nat
  BY <1>1, <1>2, HeadTailProperties, LenProperties
<1>4. Len(runs[r].rows) > 1 => Tail(runs[r].rows) # <<>>
  BY <1>2, TailLeft
<1>5. <<>> \in Seq(Items) /\ None \in Deal
  BY EmptySeq, NoRunType
<1>6. CASE runs[r].left = 1
  BY <1>6, NoRunType DEF Advanced, NoRun
<1>7. CASE runs[r].left # 1
  <2>1. runs[r].left - 1 \in Nat /\ runs[r].left - 1 >= 1
    BY <1>1, <1>2, <1>7
  <2>2. CASE Len(runs[r].rows) > 1
    BY <1>2, <1>3, <1>4, <1>5, <1>7, <2>1, <2>2 DEF Advanced, NoRun, Run, Metadata
  <2>3. CASE ~(Len(runs[r].rows) > 1) /\ runs[r].more
    BY <1>2, <1>5, <1>7, <2>1, <2>3 DEF Advanced, NoRun, Run, Metadata
  <2>4. CASE ~(Len(runs[r].rows) > 1) /\ ~runs[r].more
    BY <1>7, <2>4, NoRunType DEF Advanced, NoRun
  <2> QED
    BY <2>2, <2>3, <2>4
<1> QED
  BY <1>6, <1>7

-----------------------------------------------------------------------------
(* Steps *)

\* A step that only moves one run, to a place where it knows nothing yet or still knows
\* what it knew of the same item.
LEMMA MovesOneRun ==
  ASSUME IInv, NEW r \in Runners, NEW run \in Run,
         runs' = [runs EXCEPT ![r] = run],
         UNCHANGED <<listed, deals, files, junked, rssVars>>, faults' \in 0..MaxFaults,
         run.pc # "idle" => run.left >= 1,
         run.pc \in {"download", "get", "select", "write"} => run.rows # <<>>,
         (run.pc \in {"select", "write"} /\ Head(run.rows) \notin junked)
             => run.md \in {"none", PriceIn[Head(run.rows)]},
         (run.pc = "write" /\ run.seen # None) => deals[Head(run.rows)] # None
  PROVE  IInv'
<1> USE DEF IInv
<1>1. runs'[r] = run /\ \A q \in Runners : q # r => runs'[q] = runs[q]
  BY DEF TypeOK
<1>2. TypeOK'
  BY DEF TypeOK, rssVars
<1>3. RunsHaveWork'
  BY <1>1 DEF RunsHaveWork
<1>4. PollsHaveEntry'
  BY DEF PollsHaveEntry, rssVars
<1>5. KnowledgeIsTrue' /\ SeenExists'
  BY <1>1 DEF KnowledgeIsTrue, SeenExists, Item
<1>6. JunkIsKnown' /\ FlagIsTrue'
  BY DEF JunkIsKnown, FlagIsTrue, Settled
<1> QED
  BY <1>2, <1>3, <1>4, <1>5, <1>6

\* MetadataOf a document that is what it seems.
LEMMA MetadataTrue ==
  ASSUME NEW i \in Items, NEW file \in {"none", "junk", "pdf"}
  PROVE  /\ MetadataOf(i, file) \in Metadata
         /\ file # "junk" => MetadataOf(i, file) \in {"none", PriceIn[i]}
BY AmfAssumption DEF MetadataOf, Metadata, Items

LEMMA DownloadKeeps ==
  ASSUME IInv, NEW r \in Runners, Download(r)
  PROVE  IInv'
<1> USE DEF IInv
<1> DEFINE i == Item(r)
<1>1. i \in Items
  BY ItemType DEF Download
<1> PICK got \in Downloaded :
      /\ got # "pdf" => faults < MaxFaults
      /\ faults' = IF got # "pdf" THEN faults + 1 ELSE faults
      /\ files' = IF got = "none" THEN files ELSE [files EXCEPT ![i] = got]
      /\ junked' = IF got = "junk" THEN junked \cup {i} ELSE junked
      /\ runs' = [runs EXCEPT ![r].pc = "select", ![r].path = (got # "none"),
                              ![r].md = MetadataOf(i, got)]
  BY DEF Download
<1>2. got \in {"none", "junk", "pdf"}
  BY DEF Downloaded
<1>3. /\ runs[r] \in Run /\ runs[r].pc = "get"
      /\ UNCHANGED <<listed, deals, rssVars>>
  BY DEF Download, TypeOK
<1>4. MetadataOf(i, got) \in Metadata
      /\ (got # "junk" => MetadataOf(i, got) \in {"none", PriceIn[i]})
  BY <1>1, <1>2, MetadataTrue
<1> HIDE DEF i
<1>5. /\ runs'[r] = [runs[r] EXCEPT !.pc = "select", !.path = (got # "none"), !.md = MetadataOf(i, got)]
      /\ \A q \in Runners : q # r => runs'[q] = runs[q]
      /\ runs' = [runs EXCEPT ![r] = runs'[r]]
  BY <1>3 DEF TypeOK
<1>6. runs'[r] \in Run /\ runs'[r].pc = "select" /\ runs'[r].rows = runs[r].rows
      /\ runs'[r].left = runs[r].left /\ runs'[r].md = MetadataOf(i, got)
  <2> DEFINE md == MetadataOf(i, got)
  <2>1. md \in Metadata /\ runs[r] \in Run
    BY <1>3, <1>4
  <2>2. runs'[r] = [runs[r] EXCEPT !.pc = "select", !.path = (got # "none"), !.md = md]
    BY <1>5
  <2> HIDE DEF md
  <2>3. \/ runs'[r] = [runs[r] EXCEPT !.pc = "select", !.path = TRUE, !.md = md]
        \/ runs'[r] = [runs[r] EXCEPT !.pc = "select", !.path = FALSE, !.md = md]
    <3>1. (got # "none") = TRUE \/ (got # "none") = FALSE
      OBVIOUS
    <3> QED
      BY <2>2, <3>1, Zenon
  <2>4. /\ runs'[r] \in Run /\ runs'[r].pc = "select" /\ runs'[r].md = md
        /\ runs'[r].rows = runs[r].rows /\ runs'[r].left = runs[r].left
    <3> DEFINE next == runs'[r]
               run == runs[r]
    <3>1. run \in Run
      BY <2>1
    <3>2. \/ next = [run EXCEPT !.pc = "select", !.path = TRUE, !.md = md]
          \/ next = [run EXCEPT !.pc = "select", !.path = FALSE, !.md = md]
      BY <2>3
    <3> HIDE DEF next, run
    <3>3. /\ next \in Run /\ next.pc = "select" /\ next.md = md
          /\ next.rows = run.rows /\ next.left = run.left
      BY <2>1, <3>1, <3>2 DEF Run
    <3> QED
      BY <3>3 DEF next, run
  <2> QED
    BY <2>4 DEF md
<1>7. TypeOK'
  <2>1. runs' \in [Runners -> Run]
    BY <1>5, <1>6 DEF TypeOK
  <2>2. files' \in [Items -> {"none", "junk", "pdf"}] /\ junked' \in SUBSET Items
    BY <1>1, <1>2 DEF TypeOK
  <2>3. faults' \in 0..MaxFaults
    BY AmfAssumption DEF TypeOK
  <2> QED
    BY <1>3, <2>1, <2>2, <2>3 DEF TypeOK, rssVars
<1>8. RunsHaveWork'
  <2>1. runs[r].left >= 1 /\ runs[r].rows # <<>>
    BY <1>3 DEF RunsHaveWork
  <2>2. runs'[r].left >= 1 /\ runs'[r].rows # <<>>
    BY <1>6, <2>1
  <2>3. \A q \in Runners : q # r => runs'[q] = runs[q]
    BY <1>5
  <2> QED
    BY <2>2, <2>3 DEF RunsHaveWork
<1>9. PollsHaveEntry'
  BY <1>3 DEF PollsHaveEntry, rssVars
<1>10. junked \subseteq junked' /\ (got = "junk" => i \in junked')
  BY <1>1
<1>11. KnowledgeIsTrue'
  <2> SUFFICES ASSUME NEW q \in Runners, runs'[q].pc \in {"select", "write"},
                      Head(runs'[q].rows) \notin junked'
               PROVE  runs'[q].md \in {"none", PriceIn[Head(runs'[q].rows)]}
    BY DEF KnowledgeIsTrue, Item
  <2>1. CASE q = r
    BY <1>4, <1>6, <1>10, <2>1 DEF i, Item
  <2>2. CASE q # r
    BY <1>5, <1>10, <2>2 DEF KnowledgeIsTrue, Item
  <2> QED
    BY <2>1, <2>2
<1>14. SeenExists'
  BY <1>3, <1>5, <1>6 DEF SeenExists, Item
<1>12. JunkIsKnown'
  BY <1>1, <1>2, <1>10 DEF JunkIsKnown, TypeOK
<1>13. FlagIsTrue'
  BY <1>3, <1>10 DEF FlagIsTrue, Settled
<1> QED
  BY <1>7, <1>8, <1>9, <1>11, <1>12, <1>13, <1>14

\* What a write makes of the flag of an item that was never mistaken.
LEMMA WrittenFlag ==
  ASSUME IInv, NEW r \in Runners, Write(r)
  PROVE  /\ deals' \in [Items -> Deal]
         /\ \A j \in Items \ junked :
                /\ deals'[j].flag \in {"verified", "failed"}
                       => deals'[j].flag = QualityFlag(PriceIn[j])
                /\ Settled(j) => deals'[j].flag = deals[j].flag
<1> USE DEF IInv
<1> DEFINE i    == Item(r)
           new  == runs[r].seen = None
           lost == new /\ deals[i] # None
           row  == IF lost THEN deals[i]
                   ELSE IF new THEN [path |-> runs[r].path, flag |-> QualityFlag(runs[r].md)]
                   ELSE Refreshed(deals[i], runs[r])
<1>1. i \in Items /\ runs[r].pc = "write" /\ runs[r] \in Run
  BY ItemType DEF Write, TypeOK
<1>2. deals' = [deals EXCEPT ![i] = row]
  BY DEF Write
<1>3. runs[r].md \in Metadata /\ runs[r].path \in BOOLEAN /\ runs[r].seen \in Deal
  BY <1>1 DEF Run
<1>4. QualityFlag(runs[r].md) \in Flags
      /\ (runs[r].md \in {"none", "silent"} => QualityFlag(runs[r].md) = "suspect")
  BY <1>3 DEF QualityFlag, Metadata, Flags
<1>5. deals[i] \in Deal /\ deals \in [Items -> Deal]
  BY <1>1 DEF TypeOK
<1>6. i \notin junked => runs[r].md \in {"none", PriceIn[i]}
  BY <1>1 DEF KnowledgeIsTrue
<1>7. i \notin junked /\ Settled(i) => deals[i].flag = QualityFlag(PriceIn[i])
  BY <1>1 DEF FlagIsTrue
<1>8. Settled(i) => deals[i] # None /\ deals[i].flag # "suspect"
  BY <1>1 DEF Settled, None
<1>9. ~new => deals[i] # None /\ deals[i].flag \in Flags
  BY <1>1, <1>5 DEF SeenExists, Deal
<1>10. /\ row \in Deal
       /\ i \notin junked =>
              /\ row.flag \in {"verified", "failed"} => row.flag = QualityFlag(PriceIn[i])
              /\ Settled(i) => row.flag = deals[i].flag
  <2>1. CASE lost
    BY <1>5, <1>7, <2>1, <1>1 DEF Settled
  <2>2. CASE ~lost /\ new
    <3>1. row = [path |-> runs[r].path, flag |-> QualityFlag(runs[r].md)]
      BY <2>2
    <3>2. row \in Deal /\ row.flag = QualityFlag(runs[r].md)
      BY <1>3, <1>4, <3>1 DEF Deal
    <3>3. ~Settled(i)
      BY <1>8, <2>2
    <3> HIDE DEF row, i, new, lost
    <3> QED
      BY <1>4, <1>6, <3>2, <3>3
  <2>3. CASE ~lost /\ ~new
    <3>1. row.path = (deals[i].path \/ (runs[r].path /\ ~runs[r].seen.path))
          /\ row.flag = (IF runs[r].md # "none" /\ runs[r].seen.flag = "suspect"
                         THEN QualityFlag(runs[r].md) ELSE deals[i].flag)
          /\ row = [path |-> row.path, flag |-> row.flag]
      BY <2>3 DEF Refreshed
    <3>2. CASE runs[r].md # "none" /\ runs[r].seen.flag = "suspect"
      <4>1. row.flag = QualityFlag(runs[r].md)
        BY <3>1, <3>2
      <4>2. i \notin junked => runs[r].md = PriceIn[i]
        BY <1>6, <3>2
      <4>3. row.path \in BOOLEAN
        BY <3>1
      <4> HIDE DEF row, i, new, lost
      <4>4. row \in Deal
        BY <1>4, <3>1, <4>1, <4>3 DEF Deal
      <4> QED
        BY <1>7, <4>1, <4>2, <4>4
    <3>3. CASE ~(runs[r].md # "none" /\ runs[r].seen.flag = "suspect")
      <4>1. row.flag = deals[i].flag /\ row.path \in BOOLEAN
        BY <3>1, <3>3
      <4> HIDE DEF row, i, lost
      <4>2. row.flag \in {"verified", "failed"} => Settled(i)
        BY <4>1 DEF Settled
      <4>3. row \in Deal
        BY <1>9, <2>3, <3>1, <4>1 DEF Deal
      <4> QED
        BY <1>7, <4>1, <4>2, <4>3
    <3> QED
      BY <3>2, <3>3
  <2> QED
    BY <2>1, <2>2, <2>3
<1> HIDE DEF row, i, new, lost
<1>11. deals'[i] = row /\ \A j \in Items : j # i => deals'[j] = deals[j]
  BY <1>1, <1>2, <1>5
<1>12. deals' \in [Items -> Deal]
  BY <1>2, <1>5, <1>10
<1>13. ASSUME NEW j \in Items \ junked
       PROVE  /\ deals'[j].flag \in {"verified", "failed"}
                     => deals'[j].flag = QualityFlag(PriceIn[j])
              /\ Settled(j) => deals'[j].flag = deals[j].flag
  <2>1. CASE j = i
    BY <1>10, <1>11, <2>1
  <2>2. CASE j # i
    BY <1>11, <2>2 DEF FlagIsTrue, Settled
  <2> QED
    BY <2>1, <2>2
<1> QED
  BY <1>12, <1>13

LEMMA WriteKeeps ==
  ASSUME IInv, NEW r \in Runners, Write(r)
  PROVE  IInv'
<1> USE DEF IInv
<1>1. runs[r].pc = "write" /\ UNCHANGED <<listed, files, junked, rssVars, faults>>
  BY DEF Write
<1>2. \E run \in Run : /\ runs' = [runs EXCEPT ![r] = run]
                       /\ run.pc # "idle" => run.left >= 1
                       /\ run.pc \in {"download", "get", "select", "write"} => run.rows # <<>>
                       /\ run.pc \notin {"select", "write"}
  <2> DEFINE lost == runs[r].seen = None /\ deals[Item(r)] # None
  <2>1. CASE lost
    <3>1. runs' = [runs EXCEPT ![r] = NoRun]
      BY <2>1 DEF Write
    <3> QED
      BY <3>1, NoRunType DEF NoRun
  <2>2. CASE ~lost
    <3>1. runs' = [runs EXCEPT ![r] = Advanced(runs[r])]
      BY <2>2 DEF Write
    <3> QED
      BY <1>1, <3>1, AdvancedType
  <2> QED
    BY <2>1, <2>2
<1> PICK run \in Run : /\ runs' = [runs EXCEPT ![r] = run]
                       /\ run.pc # "idle" => run.left >= 1
                       /\ run.pc \in {"download", "get", "select", "write"} => run.rows # <<>>
                       /\ run.pc \notin {"select", "write"}
  BY <1>2
<1>3. runs'[r] = run /\ \A q \in Runners : q # r => runs'[q] = runs[q]
  BY DEF TypeOK
<1>4. /\ deals' \in [Items -> Deal]
      /\ \A j \in Items \ junked :
             deals'[j].flag \in {"verified", "failed"}
                 => deals'[j].flag = QualityFlag(PriceIn[j])
  BY WrittenFlag
<1>5. \A j \in Items : deals[j] # None => deals'[j] # None
  <2> SUFFICES ASSUME NEW j \in Items, deals[j] # None, deals'[j] = None PROVE FALSE
    OBVIOUS
  <2> DEFINE new  == runs[r].seen = None
             lost == new /\ deals[j] # None
  <2>1. Item(r) = j
    BY DEF Write, TypeOK
  <2>2. deals[j] \in Deal /\ deals[j].flag \in Flags
    BY DEF TypeOK, Deal
  <2>3. runs[r].md \in Metadata
    BY DEF TypeOK, Run
  <2>4. deals'[j].flag = "none"
    BY DEF None
  <2>5. CASE new
    BY <2>1, <2>5 DEF Write, TypeOK
  <2>6. CASE ~new
    <3>1. deals'[j] = Refreshed(deals[j], runs[r])
      BY <2>1, <2>6 DEF Write, TypeOK
    <3>2. Refreshed(deals[j], runs[r]).flag \in Flags
      BY <2>2, <2>3 DEF Refreshed, QualityFlag, Metadata, Flags
    <3> QED
      BY <2>4, <3>1, <3>2 DEF Flags
  <2> QED
    BY <2>5, <2>6
<1>6. TypeOK'
  BY <1>1, <1>4 DEF TypeOK, rssVars
<1>7. RunsHaveWork'
  BY <1>3 DEF RunsHaveWork
<1>8. PollsHaveEntry'
  BY <1>1 DEF PollsHaveEntry, rssVars
<1>9. KnowledgeIsTrue'
  BY <1>1, <1>3 DEF KnowledgeIsTrue, Item
<1>10. SeenExists'
  <2> SUFFICES ASSUME NEW q \in Runners, runs'[q].pc = "write", runs'[q].seen # None
               PROVE  deals'[Head(runs'[q].rows)] # None
    BY DEF SeenExists, Item
  <2>1. q # r /\ runs'[q] = runs[q]
    BY <1>3
  <2>2. Item(q) \in Items
    BY <2>1, ItemType
  <2> QED
    BY <1>5, <2>1, <2>2 DEF SeenExists, Item
<1>11. JunkIsKnown'
  BY <1>1 DEF JunkIsKnown
<1>12. FlagIsTrue'
  BY <1>1, <1>4 DEF FlagIsTrue, Settled
<1> QED
  BY <1>6, <1>7, <1>8, <1>9, <1>10, <1>11, <1>12

\* RSS runs touch nothing the rest of the invariant is about.
LEMMA RssKeeps ==
  ASSUME IInv, NEW r \in Runners, StartPoll(r) \/ RssStep(r) \/ CutPoll(r)
  PROVE  IInv'
<1> USE DEF IInv
<1>1. UNCHANGED bdifVars
  BY DEF StartPoll, RssStep, FindDeal, LookUp, Emit, CutPoll
<1>2. UNCHANGED <<listed, deals, files, junked, runs>>
  BY <1>1 DEF bdifVars
<1>3. Feed \in Seq([ref : 0..Offers, linked : BOOLEAN]) /\ Entries = 1..Len(Feed) /\ Len(Feed) \in Nat
  BY AmfAssumption, LenProperties DEF Entries
<1>4. ASSUME NEW poll \in Poll, poll.pc # "idle" => poll.at \in Entries,
             polls' = [polls EXCEPT ![r] = poll]
      PROVE  polls' \in [Runners -> Poll] /\ PollsHaveEntry'
  BY <1>4 DEF TypeOK, PollsHaveEntry, Entries
<1>5. NoPoll \in Poll /\ NoPoll.pc = "idle"
  BY DEF NoPoll, Poll
<1>6. polls[r] \in Poll /\ (polls[r].pc # "idle" => polls[r].at \in Entries)
  BY DEF TypeOK, PollsHaveEntry
<1>7. polls[r].pc # "idle" =>
          NextEntry(polls[r]) \in Poll
          /\ (NextEntry(polls[r]).pc # "idle" => NextEntry(polls[r]).at \in Entries)
  BY <1>3, <1>5, <1>6 DEF NextEntry, Poll
<1>8. /\ polls' \in [Runners -> Poll] /\ PollsHaveEntry'
      /\ rss' \in [Entries -> Nat] /\ started' \in 0..MaxPolls /\ faults' \in 0..MaxFaults
  <2> USE AmfAssumption
  <2>1. CASE StartPoll(r)
    <3>1. Len(Feed) >= 1
      BY <1>3, <2>1, EmptySeq DEF StartPoll
    <3> DEFINE poll == [pc |-> "deal", at |-> 1]
    <3>2. poll \in Poll /\ poll.at \in Entries
      BY <1>3, <3>1 DEF Poll
    <3>3. polls' = [polls EXCEPT ![r] = poll]
      BY <2>1 DEF StartPoll
    <3>4. UNCHANGED <<rss, faults>> /\ started' \in 0..MaxPolls
      BY <2>1 DEF StartPoll, TypeOK
    <3> HIDE DEF poll
    <3> QED
      BY <1>4, <3>2, <3>3, <3>4 DEF TypeOK
  <2>2. CASE FindDeal(r)
    <3>1. \E poll \in Poll : (poll.pc # "idle" => poll.at \in Entries)
                             /\ polls' = [polls EXCEPT ![r] = poll]
      <4>1. CASE ~Matched(polls[r].at)
        BY <1>7, <2>2, <4>1 DEF FindDeal
      <4>2. CASE Matched(polls[r].at)
        <5> DEFINE p == IF Feed[polls[r].at].linked THEN "lookup" ELSE "insert"
        <5>1. polls' = [polls EXCEPT ![r] = [polls[r] EXCEPT !.pc = p]]
          BY <2>2, <4>2 DEF FindDeal, TypeOK
        <5>2. [polls[r] EXCEPT !.pc = p] \in Poll /\ [polls[r] EXCEPT !.pc = p].at \in Entries
          BY <1>6, <2>2 DEF Poll, FindDeal
        <5> QED
          BY <5>1, <5>2
      <4> QED
        BY <4>1, <4>2
    <3>2. UNCHANGED <<rss, started, faults>>
      BY <2>2 DEF FindDeal
    <3> QED
      BY <1>4, <3>1, <3>2 DEF TypeOK
  <2>3. CASE LookUp(r)
    <3>1. \E poll \in Poll : (poll.pc # "idle" => poll.at \in Entries)
                             /\ polls' = [polls EXCEPT ![r] = poll]
      <4>1. CASE AlreadyEmitted(polls[r].at)
        BY <1>7, <2>3, <4>1 DEF LookUp, TypeOK
      <4>2. CASE ~AlreadyEmitted(polls[r].at)
        <5>1. polls' = [polls EXCEPT ![r] = [polls[r] EXCEPT !.pc = "insert"]]
          BY <2>3, <4>2 DEF LookUp, TypeOK
        <5>2. [polls[r] EXCEPT !.pc = "insert"] \in Poll /\ [polls[r] EXCEPT !.pc = "insert"].at \in Entries
          BY <1>6, <2>3 DEF Poll, LookUp
        <5> QED
          BY <5>1, <5>2
      <4> QED
        BY <4>1, <4>2
    <3>2. UNCHANGED <<rss, started, faults>>
      BY <2>3 DEF LookUp
    <3> QED
      BY <1>4, <3>1, <3>2 DEF TypeOK
  <2>4. CASE Emit(r)
    <3>1. polls' = [polls EXCEPT ![r] = NextEntry(polls[r])]
      BY <2>4 DEF Emit, TypeOK
    <3>2. rss' \in [Entries -> Nat]
      BY <1>6, <2>4 DEF Emit, TypeOK
    <3> QED
      BY <1>4, <1>7, <2>4, <3>1, <3>2 DEF Emit, TypeOK
  <2>5. CASE CutPoll(r)
    <3>1. polls' = [polls EXCEPT ![r] = NoPoll]
      BY <2>5 DEF CutPoll
    <3>2. UNCHANGED <<rss, started>> /\ faults' \in 0..MaxFaults
      BY <2>5 DEF CutPoll, TypeOK
    <3> QED
      BY <1>4, <1>5, <3>1, <3>2 DEF TypeOK
  <2>6. StartPoll(r) \/ FindDeal(r) \/ LookUp(r) \/ Emit(r) \/ CutPoll(r)
    BY DEF RssStep
  <2> QED
    BY <2>1, <2>2, <2>3, <2>4, <2>5, <2>6, Zenon
<1>9. TypeOK'
  BY <1>2, <1>8 DEF TypeOK
<1> QED
  BY <1>2, <1>8, <1>9
     DEF RunsHaveWork, KnowledgeIsTrue, SeenExists, JunkIsKnown, FlagIsTrue, Settled, Item

LEMMA NextIInv == IInv /\ [Next]_vars => IInv'
<1> SUFFICES ASSUME IInv, [Next]_vars PROVE IInv'
  OBVIOUS
<1> USE DEF IInv
<1>a. ASSUME NEW run \in Run PROVE run.offset \in Nat /\ run.left \in Nat /\ run.rows \in Seq(Items)
  BY <1>a DEF Run
<1>1. ASSUME NEW r \in Runners, StartRun(r) PROVE IInv'
  <2> DEFINE run == [NoRun EXCEPT !.pc = "fetch", !.left = CapOf(r)]
  <2>1. run \in Run /\ run.pc = "fetch" /\ run.left >= 1
    <3> DEFINE cap == CapOf(r)
               old == NoRun
    <3>1. cap \in Nat /\ cap >= 1
      BY AmfAssumption DEF CapOf
    <3>2. run = [old EXCEPT !.pc = "fetch", !.left = cap]
      OBVIOUS
    <3>3. old \in Run
      BY NoRunType
    <3> HIDE DEF cap, run, old
    <3>4. run \in Run
      BY <3>1, <3>2, <3>3 DEF Run
    <3>5. run.pc = "fetch" /\ run.left = cap
      BY <3>2, <3>3 DEF Run
    <3> QED
      BY <3>1, <3>4, <3>5
  <2>2. runs' = [runs EXCEPT ![r] = run] /\ UNCHANGED <<listed, deals, files, junked, rssVars, faults>>
    BY <1>1 DEF StartRun
  <2>3. faults' \in 0..MaxFaults
    BY <2>2 DEF TypeOK
  <2> HIDE DEF run
  <2> QED
    BY <2>1, <2>2, <2>3, MovesOneRun
<1>2. ASSUME NEW r \in Runners, FetchPage(r) PROVE IInv'
  <2> DEFINE items == PageAt(runs[r].offset)
             more  == Len(items) = PageSize /\ runs[r].offset + PageSize < listed
             run   == IF items = <<>> THEN NoRun
                      ELSE [runs[r] EXCEPT !.pc = "download", !.rows = items,
                                           !.offset = runs[r].offset + PageSize, !.more = more]
  <2>1. runs[r] \in Run /\ runs[r].pc = "fetch" /\ runs[r].left >= 1
    BY <1>2 DEF FetchPage, TypeOK, RunsHaveWork
  <2>2. items \in Seq(Items) /\ runs[r].offset + PageSize \in Nat
    <3>1. runs[r].offset \in Nat /\ PageSize \in Nat
      BY <1>a, <2>1, AmfAssumption
    <3>2. runs[r].offset + PageSize \in Nat
      BY <3>1
    <3>3. items \in Seq(Items)
      BY <3>1, PageType
    <3> QED
      BY <3>2, <3>3
  <2>3. runs' = [runs EXCEPT ![r] = run] /\ UNCHANGED <<listed, deals, files, junked, rssVars, faults>>
    BY <1>2 DEF FetchPage, TypeOK
  <2>4. /\ run \in Run /\ run.pc \notin {"select", "write"}
        /\ run.pc # "idle" => run.left >= 1
        /\ run.pc \in {"download", "get"} => run.rows # <<>>
    <3>1. CASE items = <<>>
      BY <3>1, NoRunType DEF NoRun
    <3>2. CASE items # <<>>
      <4> DEFINE old == runs[r]
                 offset == old.offset + PageSize
      <4>1. run = [old EXCEPT !.pc = "download", !.rows = items, !.offset = offset, !.more = more]
        BY <3>2
      <4>2. old \in Run /\ old.left >= 1 /\ items \in Seq(Items) /\ offset \in Nat
        BY <2>1, <2>2
      <4> HIDE DEF old, items, offset, run
      <4>3. CASE more
        <5>1. run = [old EXCEPT !.pc = "download", !.rows = items, !.offset = offset, !.more = TRUE]
          BY <4>1, <4>3, Zenon
        <5> HIDE DEF more
        <5> QED
          BY <3>2, <4>2, <5>1 DEF Run
      <4>4. CASE ~more
        <5>1. run = [old EXCEPT !.pc = "download", !.rows = items, !.offset = offset, !.more = FALSE]
          BY <4>1, <4>4, Zenon
        <5> HIDE DEF more
        <5> QED
          BY <3>2, <4>2, <5>1 DEF Run
      <4> QED
        BY <4>3, <4>4
    <3> QED
      BY <3>1, <3>2
  <2>5. faults' \in 0..MaxFaults
    BY <2>3 DEF TypeOK
  <2> HIDE DEF run
  <2> QED
    BY <2>3, <2>4, <2>5, MovesOneRun
<1>3. ASSUME NEW r \in Runners, LookForFile(r) PROVE IInv'
  <2> DEFINE i == Item(r)
             old == runs[r]
             md == MetadataOf(i, files[i])
             run == IF HasPdf(i) /\ files[i] = "none" THEN [old EXCEPT !.pc = "get"]
                    ELSE [old EXCEPT !.pc = "select", !.path = HasPdf(i), !.md = md]
  <2>1. old \in Run /\ old.pc = "download" /\ i \in Items
    BY <1>3, ItemType DEF LookForFile, TypeOK
  <2>2. old.left >= 1 /\ old.rows # <<>> /\ i = Head(old.rows)
    BY <1>3, <2>1 DEF RunsHaveWork, Item
  <2>3. runs' = [runs EXCEPT ![r] = run] /\ UNCHANGED <<listed, deals, files, junked, rssVars, faults>>
    BY <1>3 DEF LookForFile, TypeOK
  <2>4. md \in Metadata /\ (i \notin junked => md \in {"none", PriceIn[i]})
    BY <2>1, MetadataTrue DEF TypeOK, JunkIsKnown
  <2>5. HasPdf(i) = TRUE \/ HasPdf(i) = FALSE
    BY DEF HasPdf
  <2>6. \/ run = [old EXCEPT !.pc = "get"]
        \/ run = [old EXCEPT !.pc = "select", !.path = TRUE, !.md = md]
        \/ run = [old EXCEPT !.pc = "select", !.path = FALSE, !.md = md]
    BY <2>5, Zenon
  <2> HIDE DEF run, md, old, i
  <2>7. /\ run \in Run /\ run.left = old.left /\ run.rows = old.rows
        /\ run.pc \in {"get", "select"} /\ (run.pc = "select" => run.md = md)
    BY <2>1, <2>4, <2>6 DEF Run
  <2>8. faults' \in 0..MaxFaults
    BY <2>3 DEF TypeOK
  <2> QED
    BY <2>2, <2>3, <2>4, <2>7, <2>8, MovesOneRun
<1>4. ASSUME NEW r \in Runners, Select(r) PROVE IInv'
  <2> DEFINE old == runs[r]
             deal == deals[Item(r)]
             run == IF Numbered(Item(r)) THEN [old EXCEPT !.pc = "write", !.seen = deal]
                    ELSE NoRun
  <2>1. old \in Run /\ old.pc = "select" /\ Item(r) \in Items /\ Item(r) = Head(old.rows)
    BY <1>4, ItemType DEF Select, TypeOK, Item
  <2>2. old.left >= 1 /\ old.rows # <<>>
        /\ (Head(old.rows) \notin junked => old.md \in {"none", PriceIn[Head(old.rows)]})
    BY <1>4, <2>1 DEF RunsHaveWork, KnowledgeIsTrue, Item
  <2>3. runs' = [runs EXCEPT ![r] = run] /\ UNCHANGED <<listed, deals, files, junked, rssVars, faults>>
    BY <1>4 DEF Select, TypeOK
  <2>4. deal \in Deal /\ deal = deals[Head(old.rows)]
    BY <2>1 DEF TypeOK
  <2>5. run = NoRun \/ run = [old EXCEPT !.pc = "write", !.seen = deal]
    OBVIOUS
  <2> HIDE DEF run, old, deal
  <2>6. run \in Run /\ (run = NoRun \/ (/\ run.left = old.left /\ run.rows = old.rows
                                        /\ run.md = old.md /\ run.seen = deal))
    BY <2>1, <2>4, <2>5, NoRunType DEF Run
  <2>7. NoRun.pc = "idle"
    BY DEF NoRun
  <2>8. faults' \in 0..MaxFaults
    BY <2>3 DEF TypeOK
  <2> QED
    BY <2>2, <2>3, <2>4, <2>6, <2>7, <2>8, MovesOneRun
<1>5. ASSUME NEW r \in Runners, CutRun(r) PROVE IInv'
  <2>1. /\ runs' = [runs EXCEPT ![r] = NoRun]
        /\ UNCHANGED <<listed, deals, files, junked, rssVars>> /\ faults' \in 0..MaxFaults
    <3>1. /\ runs' = [runs EXCEPT ![r] = NoRun]
          /\ UNCHANGED <<listed, deals, files, junked, rssVars>>
          /\ faults < MaxFaults /\ faults' = faults + 1
      BY <1>5 DEF CutRun
    <3>2. faults \in 0..MaxFaults /\ MaxFaults \in Nat
      BY AmfAssumption DEF TypeOK
    <3>3. faults' \in 0..MaxFaults
      BY <3>1, <3>2
    <3> QED
      BY <3>1, <3>3
  <2>2. NoRun \in Run /\ NoRun.pc = "idle"
    BY NoRunType DEF NoRun
  <2> QED
    BY <2>1, <2>2, MovesOneRun
<1>6. CASE Publish
  <2>1. listed' \in 0..Offers /\ UNCHANGED <<deals, files, junked, runs, rssVars, faults>>
    BY <1>6, AmfAssumption DEF Publish, TypeOK
  <2> QED
    BY <2>1 DEF TypeOK, RunsHaveWork, PollsHaveEntry, KnowledgeIsTrue, SeenExists, JunkIsKnown,
                FlagIsTrue, Settled, Item, rssVars
<1>7. CASE UNCHANGED vars
  BY <1>7 DEF vars, bdifVars, rssVars, TypeOK, RunsHaveWork, PollsHaveEntry, KnowledgeIsTrue,
              SeenExists, JunkIsKnown, FlagIsTrue, Settled, Item
<1> QED
  BY <1>1, <1>2, <1>3, <1>4, <1>5, <1>6, <1>7, DownloadKeeps, WriteKeeps, RssKeeps
     DEF Next, Step

LEMMA Invariant == Spec => []IInv
BY InitIInv, NextIInv, PTL DEF Spec

-----------------------------------------------------------------------------
(* Copies of an event *)

\* The pollers that found no event of an entry and have yet to insert theirs.
Inserting(l) == {r \in Runners : polls[r] = [pc |-> "insert", at |-> l]}

LEMMA RunnersFinite == IsFiniteSet(Runners) /\ Cardinality(Runners) \in Nat
<1>1. IsFiniteSet({"job"} \cup {"script"})
  BY FS_Singleton, FS_AddElement
<1>2. Runners = {"job"} \cup {"script"}
  BY DEF Runners
<1> QED
  BY <1>1, <1>2, FS_CardinalityType

LEMMA InsertingFinite ==
  ASSUME NEW l
  PROVE  IsFiniteSet(Inserting(l)) /\ Cardinality(Inserting(l)) \in Nat
<1>1. Inserting(l) \subseteq Runners
  BY DEF Inserting
<1> QED
  BY <1>1, RunnersFinite, FS_Subset, FS_CardinalityType

\* No entry gains an event or a poller about to insert one, it trades one for the
\* other, or it had no event at all.
LEMMA CopiesStep ==
  ASSUME IInv, [Next]_vars, NEW l \in Entries, Feed[l].linked
  PROVE  \/ rss'[l] = rss[l] /\ Inserting(l)' \subseteq Inserting(l)
         \/ rss'[l] = 0
         \/ /\ rss'[l] = rss[l] + 1
            /\ \E r \in Inserting(l) : Inserting(l)' \subseteq Inserting(l) \ {r}
<1> USE DEF IInv
<1>1. ASSUME NEW r \in Runners, NEW poll, poll.pc # "insert",
             polls' = [polls EXCEPT ![r] = poll]
      PROVE  Inserting(l)' \subseteq Inserting(l) \ {r}
  <2>1. \A q \in Runners : polls'[q] = IF q = r THEN poll ELSE polls[q]
    BY <1>1 DEF TypeOK
  <2>2. poll # [pc |-> "insert", at |-> l]
    BY <1>1
  <2> QED
    BY <2>1, <2>2 DEF Inserting
<1>2. ASSUME NEW poll PROVE NextEntry(poll).pc # "insert"
  BY DEF NextEntry, NoPoll
<1>3. ASSUME NEW r \in Runners, StartPoll(r) \/ CutPoll(r)
      PROVE  rss'[l] = rss[l] /\ Inserting(l)' \subseteq Inserting(l)
  <2>1. \/ polls' = [polls EXCEPT ![r] = [pc |-> "deal", at |-> 1]]
        \/ polls' = [polls EXCEPT ![r] = NoPoll]
    BY <1>3 DEF StartPoll, CutPoll
  <2>2. rss' = rss
    BY <1>3 DEF StartPoll, CutPoll
  <2> QED
    BY <1>1, <2>1, <2>2 DEF NoPoll
<1>4. ASSUME NEW r \in Runners, FindDeal(r)
      PROVE  rss'[l] = rss[l] /\ Inserting(l)' \subseteq Inserting(l)
  <2>1. rss' = rss /\ polls[r] \in Poll
    BY <1>4 DEF FindDeal, TypeOK
  <2>2. CASE polls[r].at = l \/ ~Matched(polls[r].at)
    <3>1. \/ polls' = [polls EXCEPT ![r] = NextEntry(polls[r])]
          \/ polls' = [polls EXCEPT ![r] = [polls[r] EXCEPT !.pc = "lookup"]]
      BY <1>4, <2>2 DEF FindDeal, TypeOK
    <3>2. [polls[r] EXCEPT !.pc = "lookup"].pc # "insert"
      BY <2>1 DEF Poll
    <3> QED
      BY <1>1, <1>2, <2>1, <3>1, <3>2
  <2>3. CASE polls[r].at # l /\ Matched(polls[r].at)
    <3> DEFINE p == IF Feed[polls[r].at].linked THEN "lookup" ELSE "insert"
               poll == [polls[r] EXCEPT !.pc = p]
    <3>1. polls' = [polls EXCEPT ![r] = poll]
      BY <1>4, <2>3 DEF FindDeal, TypeOK
    <3>2. poll # [pc |-> "insert", at |-> l]
      BY <2>1, <2>3 DEF Poll
    <3> HIDE DEF poll
    <3> QED
      BY <2>1, <3>1, <3>2 DEF Inserting, TypeOK
  <2> QED
    BY <2>2, <2>3
<1>5. ASSUME NEW r \in Runners, LookUp(r)
      PROVE  \/ rss'[l] = rss[l] /\ Inserting(l)' \subseteq Inserting(l)
             \/ rss'[l] = 0
  <2>1. rss' = rss /\ polls[r] \in Poll /\ rss \in [Entries -> Nat]
    BY <1>5 DEF LookUp, TypeOK
  <2>2. CASE AlreadyEmitted(polls[r].at)
    <3>1. polls' = [polls EXCEPT ![r] = NextEntry(polls[r])]
      BY <1>5, <2>2 DEF LookUp, TypeOK
    <3> QED
      BY <1>1, <1>2, <2>1, <3>1
  <2>3. CASE ~AlreadyEmitted(polls[r].at) /\ polls[r].at = l
    BY <2>1, <2>3 DEF AlreadyEmitted
  <2>4. CASE ~AlreadyEmitted(polls[r].at) /\ polls[r].at # l
    <3> DEFINE poll == [polls[r] EXCEPT !.pc = "insert"]
    <3>1. polls' = [polls EXCEPT ![r] = poll]
      BY <1>5, <2>4 DEF LookUp, TypeOK
    <3>2. poll # [pc |-> "insert", at |-> l]
      BY <2>1, <2>4 DEF Poll
    <3> HIDE DEF poll
    <3> QED
      BY <2>1, <3>1, <3>2 DEF Inserting, TypeOK
  <2> QED
    BY <2>2, <2>3, <2>4
<1>6. ASSUME NEW r \in Runners, Emit(r)
      PROVE  \/ rss'[l] = rss[l] /\ Inserting(l)' \subseteq Inserting(l)
             \/ /\ rss'[l] = rss[l] + 1
                /\ \E q \in Inserting(l) : Inserting(l)' \subseteq Inserting(l) \ {q}
  <2>1. /\ polls[r] \in Poll /\ polls[r].pc = "insert" /\ rss \in [Entries -> Nat]
        /\ polls' = [polls EXCEPT ![r] = NextEntry(polls[r])]
        /\ rss' = [rss EXCEPT ![polls[r].at] = @ + 1]
    BY <1>6 DEF Emit, TypeOK
  <2>2. Inserting(l)' \subseteq Inserting(l) \ {r}
    BY <1>1, <1>2, <2>1
  <2>3. CASE polls[r].at = l
    <3>1. polls[r] = [pc |-> "insert", at |-> l]
      BY <2>1, <2>3 DEF Poll
    <3>2. r \in Inserting(l)
      BY <3>1 DEF Inserting
    <3>3. rss'[l] = rss[l] + 1
      BY <2>1, <2>3
    <3> QED
      BY <2>2, <3>2, <3>3
  <2>4. CASE polls[r].at # l
    <3>1. rss'[l] = rss[l]
      BY <2>1, <2>4
    <3> QED
      BY <2>2, <3>1
  <2> QED
    BY <2>3, <2>4
<1>7. ASSUME UNCHANGED rssVars
      PROVE  rss'[l] = rss[l] /\ Inserting(l)' \subseteq Inserting(l)
  BY <1>7 DEF rssVars, Inserting
<1>8. \/ UNCHANGED rssVars
      \/ \E r \in Runners : StartPoll(r) \/ CutPoll(r) \/ FindDeal(r) \/ LookUp(r) \/ Emit(r)
  BY DEF Next, Step, RssStep, StartRun, FetchPage, LookForFile, Download, Select, Write, CutRun,
         Publish, vars
<1> QED
  BY <1>3, <1>4, <1>5, <1>6, <1>7, <1>8

LEMMA CopiesKept ==
  ASSUME IInv, [Next]_vars, CopiesBounded
  PROVE  CopiesBounded'
<1> SUFFICES ASSUME NEW l \in Entries, Feed[l].linked
             PROVE  rss'[l] + Cardinality(Inserting(l)') <= Cardinality(Runners)
  BY DEF CopiesBounded, Inserting
<1>1. rss[l] + Cardinality(Inserting(l)) <= Cardinality(Runners)
  BY DEF CopiesBounded, Inserting
<1>2. Cardinality(Runners) \in Nat /\ Cardinality(Inserting(l)) \in Nat /\ rss[l] \in Nat
  BY RunnersFinite, InsertingFinite DEF IInv, TypeOK
<1>3. ASSUME NEW S, IsFiniteSet(S), Inserting(l)' \subseteq S
      PROVE  Cardinality(Inserting(l)') \in Nat /\ Cardinality(Inserting(l)') <= Cardinality(S)
  BY <1>3, FS_Subset, FS_CardinalityType
<1>4. CASE rss'[l] = rss[l] /\ Inserting(l)' \subseteq Inserting(l)
  BY <1>1, <1>2, <1>3, <1>4, InsertingFinite
<1>5. CASE rss'[l] = 0
  <2>1. Inserting(l)' \subseteq Runners
    BY DEF Inserting
  <2> QED
    BY <1>2, <1>3, <1>5, <2>1, RunnersFinite
<1>6. ASSUME NEW r \in Inserting(l), Inserting(l)' \subseteq Inserting(l) \ {r},
             rss'[l] = rss[l] + 1
      PROVE  rss'[l] + Cardinality(Inserting(l)') <= Cardinality(Runners)
  <2>1. /\ IsFiniteSet(Inserting(l) \ {r})
        /\ Cardinality(Inserting(l) \ {r}) = Cardinality(Inserting(l)) - 1
    BY InsertingFinite, FS_RemoveElement
  <2>2. Cardinality(Inserting(l)') \in Nat
        /\ Cardinality(Inserting(l)') <= Cardinality(Inserting(l)) - 1
    BY <1>3, <1>6, <2>1
  <2> QED
    BY <1>1, <1>2, <1>6, <2>2
<1> QED
  BY <1>4, <1>5, <1>6, CopiesStep

-----------------------------------------------------------------------------
(* Theorems *)

\* Every variable of the AMF pollers has its type.
THEOREM TypeCorrect == Spec => []TypeOK
<1>1. IInv => TypeOK
  BY DEF IInv
<1> QED
  BY <1>1, Invariant, PTL

\* upsert_deal_from_bdif: whatever runs race for a row, fail to get its document or meet
\* it again, a price that a document settled stays, unless an error page was taken for
\* the document.
THEOREM SettledPricesStay == Spec => PricesStaySettled
<1>1. ASSUME IInv, [Next]_vars, NEW i \in Items \ junked, Settled(i)
      PROVE  deals'[i].flag = deals[i].flag
  <2>1. CASE \E r \in Runners : Write(r)
    BY <1>1, <2>1, WrittenFlag
  <2>2. CASE ~\E r \in Runners : Write(r)
    <3>1. UNCHANGED deals
      BY <1>1, <2>2 DEF Next, Step, RssStep, StartRun, FetchPage, LookForFile, Download, Select,
                        CutRun, StartPoll, FindDeal, LookUp, Emit, CutPoll, Publish, vars, bdifVars
    <3> QED
      BY <3>1
  <2> QED
    BY <2>1, <2>2
<1>2. IInv /\ [Next]_vars
          => [\A i \in Items \ junked : Settled(i) => deals'[i].flag = deals[i].flag]_vars
  BY <1>1
<1> QED
  BY <1>2, Invariant, PTL DEF Spec, PricesStaySettled

\* record_rss_event: however the two pollers interleave and whatever cuts them off, an
\* entry with a link gets no more events than there are pollers.
THEOREM CopiesAreBounded == Spec => []CopiesBounded
<1>1. Init => CopiesBounded
  <2> SUFFICES ASSUME Init, NEW l \in Entries
               PROVE  rss[l] + Cardinality(Inserting(l)) <= Cardinality(Runners)
    BY DEF CopiesBounded, Inserting
  <2>1. Inserting(l) = {}
    BY DEF Init, Inserting, NoPoll
  <2>2. rss[l] = 0
    BY DEF Init
  <2> QED
    BY <2>1, <2>2, FS_EmptySet, RunnersFinite
<1>2. IInv /\ [Next]_vars /\ CopiesBounded => CopiesBounded'
  BY CopiesKept
<1> QED
  BY <1>1, <1>2, Invariant, PTL DEF Spec

=============================================================================
