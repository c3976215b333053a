--------------------------- MODULE LicenseProofs ---------------------------
(***************************************************************************)
(* Whatever the CommCells list and hold, as far as they are such that one  *)
(* organisation's licenses can be told from another's at all, a stored     *)
(* license list is the list of one organisation: of the CommCell's own     *)
(* where that has licenses, in full up to the limit, amount for amount.    *)
(***************************************************************************)
EXTENDS License, SequenceLemmas

-----------------------------------------------------------------------------
(* What is asked for, and of whom.                                         *)

(* What one answer takes of the rows.                                      *)
LEMMA TakenAre ==
    ASSUME NEW S, NEW s \in Seq(S)
    PROVE  /\ Taken(s) \in Seq(S) /\ Range(Taken(s)) \subseteq Range(s)
           /\ Taken(s) = <<>> <=> s = <<>>
           /\ \A k \in DOMAIN s : k <= SampleLimit => k \in DOMAIN Taken(s)
           /\ \A k \in DOMAIN Taken(s) : k \in DOMAIN s /\ Taken(s)[k] = s[k]
<1> DEFINE m == MinOfSet({SampleLimit, Len(s)})
<1>1. SampleLimit \in Nat \ {0} /\ Len(s) \in Nat
  BY LicenseAssumption
<1>2. m \in {SampleLimit, Len(s)} /\ m <= SampleLimit /\ m <= Len(s)
  <2>1. CASE SampleLimit <= Len(s)
    BY <1>1, <2>1 DEF MinOfSet
  <2>2. CASE Len(s) <= SampleLimit
    BY <1>1, <2>2 DEF MinOfSet
  <2>3. QED
    BY <1>1, <2>1, <2>2
<1> HIDE DEF m
<1> DEFINE t == SubSeq(s, 1, m)
<1>3. t = Taken(s)
  BY DEF Taken, m
<1>4. m \in Nat
  BY <1>1, <1>2
<1>5. t \in Seq(S) /\ Len(t) = m /\ \A k \in 1 .. m : t[k] = s[k]
  BY <1>1, <1>2, <1>4
<1> HIDE DEF t
<1>6. DOMAIN t = 1 .. m /\ DOMAIN s = 1 .. Len(s)
  BY <1>5
<1>7. ASSUME NEW k \in DOMAIN t PROVE k \in DOMAIN s /\ t[k] = s[k]
  <2>1. k \in 1 .. m /\ k \in 1 .. Len(s)
    <3>1. k \in 1 .. m
      BY <1>6
    <3>2. m \in Nat /\ Len(s) \in Nat /\ m <= Len(s)
      BY <1>1, <1>2, <1>4
    <3>3. QED
      BY <3>1, <3>2
  <2>2. QED
    BY <1>5, <1>6, <2>1
<1>8. ASSUME NEW k \in DOMAIN s, k <= SampleLimit PROVE k \in DOMAIN t
  <2>1. k \in 1 .. Len(s)
    BY <1>6
  <2>2. k \in Nat /\ 1 <= k /\ k <= m
    BY <1>1, <1>2, <1>8, <2>1
  <2>3. QED
    BY <1>4, <1>6, <2>2
<1>9. Range(t) \subseteq Range(s)
  BY <1>7 DEF Range
<1>10. t = <<>> <=> s = <<>>
  <2>1. t = <<>> <=> Len(t) = 0
    BY <1>5
  <2>2. s = <<>> <=> Len(s) = 0
    OBVIOUS
  <2>3. QED
    BY <1>1, <1>2, <1>5, <2>1, <2>2
<1>11. QED
  BY <1>3, <1>5, <1>7, <1>8, <1>9, <1>10

(* The tables of the report follow its datasets.                           *)
LEMMA SummariesAre ==
    ASSUME NEW c \in CommCells
    PROVE  LET s == license_summary_summary_specs(c.report)
           IN  s \in Seq(Range(s)) /\ \A n \in DOMAIN s : s[n].kind = "summary"
<1> DEFINE Of(p) == Range(p.components)
           S == {Spec_("summary", t.title, t.guid, "", <<>>) : t \in UNION {Of(p) : p \in Range(c.report)}}
           InPage(p) == LET tables == AtPlaces(p.components, {i \in DOMAIN p.components :
                                   p.components[i].title \in SUMMARY_SECTION_NAMES /\ p.components[i].guid # ""})
                   IN  [i \in DOMAIN tables |-> Spec_("summary", tables[i].title, tables[i].guid, "", <<>>)]
           seqs == [i \in DOMAIN c.report |-> InPage(c.report[i])]
           s == license_summary_summary_specs(c.report)
<1>1. c.report \in Seq(Range(c.report))
  BY LicenseAssumption DEF IsList
<1>2. ASSUME NEW p \in Range(c.report) PROVE InPage(p) \in Seq(S)
  <2> DEFINE places == {i \in DOMAIN p.components :
                          p.components[i].title \in SUMMARY_SECTION_NAMES /\ p.components[i].guid # ""}
             tables == AtPlaces(p.components, places)
  <2>1. p.components \in Seq(Of(p))
    BY LicenseAssumption DEF IsList
  <2>2. tables \in Seq({p.components[k] : k \in places \cap DOMAIN p.components})
    BY <2>1, AtPlacesType
  <2>3. {p.components[k] : k \in places \cap DOMAIN p.components} \subseteq Of(p)
    BY DEF Range
  <2> HIDE DEF tables, places
  <2>4. \A i \in DOMAIN tables : tables[i] \in Of(p)
    BY <2>2, <2>3
  <2>5. DOMAIN tables = 1 .. Len(tables) /\ Len(tables) \in Nat
    BY <2>2
  <2>6. \A i \in 1 .. Len(tables) : Spec_("summary", tables[i].title, tables[i].guid, "", <<>>) \in S
    BY <2>4, <2>5
  <2>7. [i \in 1 .. Len(tables) |-> Spec_("summary", tables[i].title, tables[i].guid, "", <<>>)] \in Seq(S)
    <3> DEFINE L == Len(tables)
               g == [i \in 1 .. L |-> Spec_("summary", tables[i].title, tables[i].guid, "", <<>>)]
    <3>1. DOMAIN g = 1 .. L /\ (\A i \in 1 .. L : g[i] \in S) /\ g = [i \in 1 .. L |-> g[i]]
      <4> HIDE DEF S
      <4>1. QED
        BY <2>6
    <3> HIDE DEF S, g
    <3>2. g \in Seq(S)
      BY <2>5, <3>1
    <3>3. QED
      BY <3>2 DEF g
  <2>8. QED
    BY <2>5, <2>7 DEF tables, places
<1> HIDE DEF InPage, S
<1>3. seqs \in Seq(Seq(S))
  <2>1. DOMAIN c.report = 1 .. Len(c.report) /\ Len(c.report) \in Nat
    BY <1>1
  <2>2. \A i \in 1 .. Len(c.report) : InPage(c.report[i]) \in Seq(S)
    BY <1>2, <2>1 DEF Range
  <2>3. [i \in 1 .. Len(c.report) |-> InPage(c.report[i])] \in Seq(Seq(S))
    BY <2>1, <2>2
  <2>4. QED
    BY <2>1, <2>3
<1>4. s = FlattenSeq(seqs)
  BY DEF license_summary_summary_specs, InPage
<1>5. s \in Seq(S)
  BY <1>3, <1>4, FlattenType
<1> HIDE DEF s, seqs
<1>6. \A n \in DOMAIN s : s[n] \in S
  BY <1>5
<1>7. ASSUME NEW x \in S PROVE x.kind = "summary"
  <2>1. \E t : x = Spec_("summary", t.title, t.guid, "", <<>>)
    BY DEF S
  <2>2. PICK t : x = Spec_("summary", t.title, t.guid, "", <<>>)
    BY <2>1
  <2>3. x = [kind |-> "summary", section |-> t.title, guid |-> t.guid, about |-> "", params |-> <<>>]
    BY <2>2 DEF Spec_
  <2>4. QED
    BY <2>3
<1>8. s \in Seq(Range(s))
  BY <1>5 DEF Range
<1>9. QED
  BY <1>6, <1>7, <1>8 DEF s

(* What is asked of a CommCell is determined: the first dataset of each    *)
(* kind, then the summary tables.                                          *)
LEMMA RequestsAre ==
    ASSUME NEW c \in CommCells, NEW r \in requests(c.report)
    PROVE  /\ requests(c.report) = {r}
           /\ r.specs \in Seq(Range(r.specs)) /\ r.plan \in Seq(Range(r.plan)) /\ Len(r.plan) >= 4
           /\ \A n \in 1 .. 4 : r.plan[n].kind = Kinds[n]
           /\ \A n \in DOMAIN r.plan : n > 4 => r.plan[n].kind = "summary"
<1> DEFINE d == c.report
           tables == license_summary_summary_specs(d)
           Sets(p) == license_summary_dataset_specs(p)
           Found(p, k) == required_dataset_spec(Sets(p), k)
           Result(p) == [specs |-> Sets(p) \o tables,
                         plan |-> [n \in DOMAIN Kinds |-> CHOOSE s \in Found(p, Kinds[n]) : TRUE] \o tables]
           Pages == {p \in find_license_summary_page(d) : \A n \in DOMAIN Kinds : Found(p, Kinds[n]) # {}}
<1>1. requests(d) = {Result(p) : p \in Pages}
  BY DEF requests, Kinds
<1>2. d \in Seq(Range(d)) /\ \A p \in Range(d) : p.datasets \in Seq(Range(p.datasets))
  BY LicenseAssumption DEF IsList
<1>3. \E p \in Range(d) : find_license_summary_page(d) \subseteq {p}
  <2> DEFINE Titles(p) == {p.components[i].title : i \in DOMAIN p.components}
             pages == {n \in DOMAIN d : {OTHER_LICENSE_SECTION, AGENT_FEATURE_SECTION} \subseteq Titles(d[n])}
  <2>1. find_license_summary_page(d) = IF pages = {} THEN {} ELSE {d[MinOfSet(pages)]}
    BY DEF find_license_summary_page
  <2>2. pages # {}
    BY <1>1, <2>1
  <2>3. Len(d) \in Nat /\ pages \subseteq 0 .. Len(d)
    BY <1>2
  <2>4. MinOfSet(pages) \in pages
    <3> HIDE DEF pages
    <3>1. QED
      BY <2>2, <2>3, LeastIn
  <2>5. d[MinOfSet(pages)] \in Range(d)
    BY <2>4 DEF Range
  <2> HIDE DEF pages
  <2>6. QED
    BY <2>1, <2>5
<1>4. PICK p \in Range(d) : find_license_summary_page(d) \subseteq {p}
  BY <1>3
<1>5. p \in Pages /\ Pages = {p} /\ r = Result(p)
  <2> HIDE DEF Result
  <2>1. PICK q \in Pages : r = Result(q)
    BY <1>1
  <2>2. q = p
    BY <1>4
  <2>3. QED
    BY <1>4, <2>1, <2>2
<1>6. requests(c.report) = {r}
  <2> HIDE DEF Result, Pages
  <2>1. QED
    BY <1>1, <1>5
<1>7. tables \in Seq(Range(tables)) /\ \A n \in DOMAIN tables : tables[n].kind = "summary"
  BY SummariesAre
<1> DEFINE sets == Sets(p)
<1>8. sets \in Seq(Range(sets))
  <2> DEFINE all == [i \in DOMAIN p.datasets |->
                LET e == p.datasets[i]
                IN  Spec_(page_dataset_kind(e.fields), "", e.guid, e.about, e.params)]
             places == {i \in DOMAIN all : all[i].kind # ""}
  <2>1. all \in Seq(Range(all))
    <3>1. DOMAIN p.datasets = 1 .. Len(p.datasets) /\ Len(p.datasets) \in Nat
      BY <1>2
    <3>2. DOMAIN all = 1 .. Len(p.datasets)
      BY <3>1
    <3> HIDE DEF all
    <3>3. all = [i \in 1 .. Len(p.datasets) |-> all[i]] /\ \A i \in 1 .. Len(p.datasets) : all[i] \in Range(all)
      <4>1. all = [i \in DOMAIN all |-> all[i]]
        BY DEF all
      <4>2. QED
        BY <3>2, <4>1 DEF Range
    <3>4. QED
      BY <3>1, <3>3
  <2>2. sets = AtPlaces(all, places)
    BY DEF license_summary_dataset_specs
  <2> HIDE DEF all, places, sets
  <2>3. sets \in Seq({all[k] : k \in places \cap DOMAIN all})
    BY <2>1, <2>2, AtPlacesType
  <2>4. QED
    BY <2>3 DEF Range
<1> HIDE DEF sets, tables
<1> DEFINE first == [n \in DOMAIN Kinds |-> CHOOSE s \in Found(p, Kinds[n]) : TRUE]
<1>9. ASSUME NEW n \in 1 .. 4 PROVE first[n].kind = Kinds[n]
  <2> DEFINE of == {i \in DOMAIN sets : sets[i].kind = Kinds[n]}
  <2>1. n \in DOMAIN Kinds /\ Found(p, Kinds[n]) # {}
    <3>1. n \in DOMAIN Kinds
      BY DEF Kinds
    <3> HIDE DEF Found
    <3>2. QED
      BY <1>5, <3>1
  <2>2. Found(p, Kinds[n]) = IF of = {} THEN {} ELSE {sets[MinOfSet(of)]}
    BY DEF required_dataset_spec, sets
  <2>3. of # {} /\ of \subseteq 0 .. Len(sets) /\ Len(sets) \in Nat
    <3>1. DOMAIN sets = 1 .. Len(sets) /\ Len(sets) \in Nat
      BY <1>8
    <3>2. of \subseteq DOMAIN sets
      OBVIOUS
    <3>3. of # {}
      <4> HIDE DEF of, Found
      <4>1. QED
        BY <2>1, <2>2
    <3>4. QED
      BY <3>1, <3>2, <3>3
  <2>4. MinOfSet(of) \in of
    <3> DEFINE N == Len(sets)
    <3> HIDE DEF of, N
    <3>1. of # {} /\ of \subseteq 0 .. N /\ N \in Nat
      BY <2>3 DEF N
    <3>2. QED
      BY <3>1, LeastIn
  <2>5. sets[MinOfSet(of)].kind = Kinds[n]
    BY <2>4
  <2> HIDE DEF of
  <2>6. first[n] = sets[MinOfSet(of)]
    BY <2>1, <2>2, <2>3
  <2>7. QED
    BY <2>5, <2>6
<1>10. first \in Seq(Range(first)) /\ Len(first) = 4
  <2>1. DOMAIN Kinds = 1 .. 4
    BY DEF Kinds
  <2>2. DOMAIN first = 1 .. 4 /\ \A n \in 1 .. 4 : first[n] \in Range(first)
    BY <2>1 DEF Range
  <2>3. first = [n \in 1 .. 4 |-> first[n]]
    BY <2>1
  <2> HIDE DEF first
  <2>4. QED
    BY <2>2, <2>3
<1>11. r.specs = sets \o tables /\ r.plan = first \o tables
  BY <1>5 DEF sets, tables
<1> HIDE DEF first
<1> DEFINE S == Range(sets) \cup Range(tables) \cup Range(first)
<1>12. sets \in Seq(S) /\ tables \in Seq(S) /\ first \in Seq(S)
  <2>1. Range(sets) \subseteq S /\ Range(tables) \subseteq S /\ Range(first) \subseteq S
    OBVIOUS
  <2> HIDE DEF S
  <2>2. QED
    BY <1>7, <1>8, <1>10, <2>1
<1> HIDE DEF S
<1> DEFINE specs == r.specs
           plan == r.plan
<1> HIDE DEF specs, plan
<1>18. specs = sets \o tables /\ plan = first \o tables
  BY <1>11 DEF specs, plan
<1>19. specs \in Seq(S) /\ plan \in Seq(S) /\ Len(plan) = Len(first) + Len(tables) /\ Len(tables) \in Nat
  BY <1>12, <1>18
<1>13. r.specs \in Seq(S) /\ r.plan \in Seq(S) /\ Len(r.plan) = 4 + Len(tables) /\ Len(tables) \in Nat
  BY <1>10, <1>19 DEF specs, plan
<1>14. r.specs \in Seq(Range(r.specs)) /\ r.plan \in Seq(Range(r.plan))
  BY <1>13 DEF Range
<1>15. \A n \in 1 .. 4 : r.plan[n] = first[n]
  <2>1. \A n \in 1 .. Len(first) : plan[n] = first[n]
    BY <1>12, <1>18
  <2>2. QED
    BY <1>10, <2>1 DEF plan
<1>16. ASSUME NEW n \in DOMAIN r.plan, n > 4 PROVE r.plan[n].kind = "summary"
  <2>1. n - 4 \in DOMAIN tables
    BY <1>12, <1>13, <1>16
  <2>2. r.plan[n] = tables[n - 4]
    BY <1>10, <1>11, <1>12, <1>13, <1>16
  <2>3. QED
    BY <1>7, <2>1, <2>2
<1>17. QED
  BY <1>6, <1>9, <1>13, <1>14, <1>15, <1>16

(* The organisations of some rows, where each of them has one name: each   *)
(* that is named, the own ones before the others.                          *)
LEMMA CandidatesAre ==
    ASSUME NEW S, NEW rows \in Seq(S),
           \A i, k \in DOMAIN rows : Cell(rows[k], "OrgGUID") = Cell(rows[i], "OrgGUID")
                                       => (IsOwn(rows[k]) <=> IsOwn(rows[i]))
    PROVE  LET guids == {Cell(rows[i], "OrgGUID") : i \in DOMAIN rows}
               own == {Cell(rows[i], "OrgGUID") : i \in {k \in DOMAIN rows : IsOwn(rows[k])}}
               all == organization_guid_candidates(rows)
           IN  /\ all \in Seq(guids) /\ Range(all) = {g \in guids : ~Blank(g)}
               /\ \A i, k \in DOMAIN all : all[i] \in own /\ all[k] \notin own => i < k
<1> DEFINE guids == [i \in DOMAIN rows |-> Cell(rows[i], "OrgGUID")]
           G == {Cell(rows[i], "OrgGUID") : i \in DOMAIN rows}
           own == {Cell(rows[i], "OrgGUID") : i \in {k \in DOMAIN rows : IsOwn(rows[k])}}
           First(i) == ~Blank(guids[i]) /\ \A j \in 1..(i - 1) : guids[j] # guids[i]
           P == {i \in DOMAIN rows : First(i) /\ IsOwn(rows[i])}
           Q == {i \in DOMAIN rows : First(i) /\ ~IsOwn(rows[i])}
           A == AtPlaces(guids, P)
           B == AtPlaces(guids, Q)
           all == organization_guid_candidates(rows)
<1>1. DOMAIN rows = 1 .. Len(rows) /\ Len(rows) \in Nat /\ DOMAIN guids = DOMAIN rows
  OBVIOUS
<1>2. guids \in Seq(G) /\ \A i \in DOMAIN rows : guids[i] = Cell(rows[i], "OrgGUID")
  <2>1. \A i \in DOMAIN rows : guids[i] = Cell(rows[i], "OrgGUID") /\ guids[i] \in G
    OBVIOUS
  <2>2. guids = [i \in 1 .. Len(rows) |-> guids[i]]
    BY <1>1
  <2> HIDE DEF guids, G
  <2>3. QED
    BY <1>1, <2>1, <2>2
<1>3. all = A \o B
  BY DEF organization_guid_candidates
<1> HIDE DEF guids
<1>4. /\ A \in Seq({guids[k] : k \in P \cap DOMAIN guids}) /\ Range(A) = {guids[k] : k \in P \cap DOMAIN guids}
      /\ B \in Seq({guids[k] : k \in Q \cap DOMAIN guids}) /\ Range(B) = {guids[k] : k \in Q \cap DOMAIN guids}
  <2> HIDE DEF P, Q, G
  <2>1. QED
    BY <1>2, AtPlacesType, AtPlacesRange
<1>5. {guids[k] : k \in P \cap DOMAIN guids} = {guids[k] : k \in P} /\ {guids[k] : k \in Q \cap DOMAIN guids} = {guids[k] : k \in Q}
  BY <1>1
<1>6. \A k \in P : guids[k] \in own /\ guids[k] \in G /\ ~Blank(guids[k])
  BY <1>2
<1>7. \A k \in Q : guids[k] \notin own /\ guids[k] \in G /\ ~Blank(guids[k])
  BY <1>2
<1>8. ASSUME NEW g \in G, ~Blank(g) PROVE \E k \in P \cup Q : guids[k] = g
  <2> DEFINE T == {i \in DOMAIN rows : guids[i] = g}
  <2>1. T # {} /\ T \subseteq 0 .. Len(rows) /\ Len(rows) \in Nat
    BY <1>1, <1>2
  <2>2. PICK m \in T : \A n \in T : m <= n
    <3> HIDE DEF T
    <3>1. QED
      BY <2>1, Least
  <2>3. m \in DOMAIN rows /\ guids[m] = g
    OBVIOUS
  <2>4. ASSUME NEW j \in 1 .. (m - 1) PROVE guids[j] # g
    <3>1. j \in DOMAIN rows /\ ~(m <= j)
      BY <1>1, <2>3
    <3>2. QED
      BY <2>2, <3>1
  <2>5. First(m)
    BY <1>8, <2>3, <2>4
  <2>6. QED
    BY <2>3, <2>5
<1>9. A \in Seq(G) /\ B \in Seq(G) /\ Range(A) = {guids[k] : k \in P} /\ Range(B) = {guids[k] : k \in Q}
  <2>1. {guids[k] : k \in P} \subseteq G /\ {guids[k] : k \in Q} \subseteq G
    BY <1>6, <1>7
  <2> DEFINE PA == {guids[k] : k \in P}
             QA == {guids[k] : k \in Q}
  <2>2. A \in Seq(PA) /\ B \in Seq(QA) /\ Range(A) = PA /\ Range(B) = QA
    <3> HIDE DEF A, B, P, Q, G
    <3>1. QED
      BY <1>4, <1>5
  <2>3. PA \subseteq G /\ QA \subseteq G
    BY <2>1
  <2> HIDE DEF A, B, PA, QA, G
  <2>4. A \in Seq(G) /\ B \in Seq(G)
    BY <2>2, <2>3
  <2>5. QED
    BY <2>2, <2>4 DEF PA, QA
<1>10. (\A i \in DOMAIN A : A[i] \in own) /\ (\A i \in DOMAIN B : B[i] \notin own)
  <2> HIDE DEF A, B, P, Q, own
  <2>1. (\A i \in DOMAIN A : A[i] \in Range(A)) /\ (\A i \in DOMAIN B : B[i] \in Range(B))
    BY DEF Range
  <2>2. (\A x \in Range(A) : x \in own) /\ (\A x \in Range(B) : x \notin own)
    BY <1>6, <1>7, <1>9
  <2>3. QED
    BY <2>1, <2>2
<1>11. Range(A) \cup Range(B) = {g \in G : ~Blank(g)}
  <2> HIDE DEF A, B, P, Q, own, G
  <2>1. QED
    BY <1>6, <1>7, <1>8, <1>9
<1> HIDE DEF A, B, P, Q, own, G, all
<1>12. all \in Seq(G) /\ Len(all) = Len(A) + Len(B) /\ Len(A) \in Nat /\ Len(B) \in Nat
  BY <1>3, <1>9
<1>13. /\ \A i \in 1 .. Len(A) : all[i] = A[i]
       /\ \A i \in 1 .. Len(B) : all[Len(A) + i] = B[i]
  BY <1>3, <1>9
<1>14. \A i \in DOMAIN all : i \in 1 .. Len(A) \/ (i - Len(A) \in 1 .. Len(B) /\ all[i] = B[i - Len(A)])
  <2> SUFFICES ASSUME NEW i \in DOMAIN all, i \notin 1 .. Len(A)
               PROVE  i - Len(A) \in 1 .. Len(B) /\ all[i] = B[i - Len(A)]
    OBVIOUS
  <2>1. i \in Nat /\ i - Len(A) \in 1 .. Len(B) /\ Len(A) + (i - Len(A)) = i
    BY <1>12
  <2>2. QED
    BY <1>13, <2>1
<1>15. DOMAIN A = 1 .. Len(A) /\ DOMAIN B = 1 .. Len(B)
  BY <1>9
<1>16. Range(all) = Range(A) \cup Range(B)
  <2>1. Range(all) \subseteq Range(A) \cup Range(B)
    BY <1>13, <1>14, <1>15 DEF Range
  <2>2. ASSUME NEW i \in DOMAIN A PROVE A[i] \in Range(all)
    <3>1. i \in DOMAIN all /\ all[i] = A[i]
      BY <1>12, <1>13, <1>15
    <3>2. QED
      BY <3>1 DEF Range
  <2>3. ASSUME NEW i \in DOMAIN B PROVE B[i] \in Range(all)
    <3>1. Len(A) + i \in DOMAIN all /\ all[Len(A) + i] = B[i]
      BY <1>12, <1>13, <1>15
    <3>2. QED
      BY <3>1 DEF Range
  <2>4. QED
    BY <2>1, <2>2, <2>3 DEF Range
<1>17. ASSUME NEW i \in DOMAIN all, NEW k \in DOMAIN all, all[i] \in own, all[k] \notin own PROVE i < k
  <2>1. i \in 1 .. Len(A)
    BY <1>10, <1>14, <1>15, <1>17
  <2>2. k \notin 1 .. Len(A)
    BY <1>10, <1>13, <1>15, <1>17
  <2>3. k \in Nat /\ 1 <= k
    BY <1>12
  <2>4. QED
    BY <1>12, <2>1, <2>2, <2>3
<1>18. QED
  BY <1>11, <1>12, <1>16, <1>17 DEF all, own, G

-----------------------------------------------------------------------------
(* The rows of one organisation.                                           *)

(* What is asked of the CommCell as it is.                                 *)
LEMMA PlanIs ==
    ASSUME commcell \in CommCells, requests(commcell.report) # {}
    PROVE  /\ requests(commcell.report) = {PlanNow}
           /\ PlanNow.specs \in Seq(Range(PlanNow.specs)) /\ PlanNow.plan \in Seq(Range(PlanNow.plan))
           /\ Len(PlanNow.plan) \in Nat /\ Len(PlanNow.plan) >= 4 /\ Len(PlanNow.specs) \in Nat
           /\ \A n \in 1 .. 4 : PlanNow.plan[n].kind = Kinds[n]
           /\ \A n \in DOMAIN PlanNow.plan : n > 4 => PlanNow.plan[n].kind = "summary"
           /\ \A n : DataOf(n) = DataIn(commcell, PlanNow, n)
<1>1. PlanNow \in requests(commcell.report)
  BY DEF PlanNow
<1>2. /\ requests(commcell.report) = {PlanNow}
      /\ PlanNow.specs \in Seq(Range(PlanNow.specs)) /\ PlanNow.plan \in Seq(Range(PlanNow.plan))
      /\ Len(PlanNow.plan) >= 4
      /\ \A n \in 1 .. 4 : PlanNow.plan[n].kind = Kinds[n]
      /\ \A n \in DOMAIN PlanNow.plan : n > 4 => PlanNow.plan[n].kind = "summary"
  BY <1>1, RequestsAre
<1>3. \A n : DataOf(n) = DataIn(commcell, PlanNow, n)
  BY DEF DataOf, DataIn
<1>4. Len(PlanNow.plan) \in Nat /\ Len(PlanNow.specs) \in Nat
  BY <1>2
<1>5. QED
  BY <1>2, <1>3, <1>4

(* The rows of a dataset of the report that can be read.                   *)
LEMMA AnswerIs ==
    ASSUME commcell \in CommCells, requests(commcell.report) # {}, DatasetsAreThere,
           NEW n \in 1 .. 4, NEW params
    PROVE  LET d == DataOf(n)
               served == {i \in DOMAIN d.rows : \A p \in DOMAIN params \cap d.params : d.rows[i][p] = params[p]}
           IN  /\ d.rows \in Seq(Range(d.rows))
               /\ AnswerTo(n, params) \in Seq(Range(d.rows))
               /\ n # 2 => AnswerTo(n, params) = Taken(AtPlaces(d.rows, served))
<1> DEFINE d == DataOf(n)
           served == {i \in DOMAIN d.rows : \A p \in DOMAIN params \cap d.params : d.rows[i][p] = params[p]}
           guid == PlanNow.plan[n].guid
<1>1. PlanNow \in requests(commcell.report) /\ d = DataIn(commcell, PlanNow, n)
  BY PlanIs
<1>2. guid \in DOMAIN commcell.data /\ (n # 2 => d.shape \in {"list", "records"})
  BY <1>1 DEF DatasetsAreThere
<1>3. d = commcell.data[guid]
  BY DEF DataOf
<1>4. d.rows \in Seq(Range(d.rows))
  BY <1>2, <1>3, LicenseAssumption DEF IsList
<1> HIDE DEF guid
<1> DEFINE t == AtPlaces(d.rows, served)
           payload == GetData(guid, params)
<1>5. payload.shape = d.shape /\ payload.rows = Taken(t) /\ AnswerTo(n, params) = rows_from_payload(payload)
  <2>1. payload = [shape |-> d.shape, rows |-> Taken(t)]
    BY <1>2, <1>3 DEF GetData
  <2>2. AnswerTo(n, params) = rows_from_payload(payload)
    BY DEF AnswerTo, guid
  <2> HIDE DEF payload, t
  <2>3. QED
    BY <2>1, <2>2
<1> HIDE DEF d, served, payload
<1>6. Taken(t) \in Seq(Range(d.rows))
  <2>1. t \in Seq({d.rows[k] : k \in served \cap DOMAIN d.rows})
    BY <1>4, AtPlacesType
  <2>2. {d.rows[k] : k \in served \cap DOMAIN d.rows} \subseteq Range(d.rows)
    BY DEF Range
  <2> HIDE DEF t
  <2>3. t \in Seq(Range(d.rows))
    BY <2>1, <2>2
  <2>4. QED
    BY <2>3, TakenAre
<1> HIDE DEF t
<1>7. AnswerTo(n, params) = Taken(t) \/ AnswerTo(n, params) = <<>>
  BY <1>5 DEF rows_from_payload
<1>8. <<>> \in Seq(Range(d.rows))
  OBVIOUS
<1>9. n # 2 => AnswerTo(n, params) = Taken(t)
  BY <1>2, <1>5 DEF rows_from_payload
<1>10. QED
  BY <1>4, <1>6, <1>7, <1>8, <1>9 DEF d, served, t

(* A list asked by the parameter GUID is that organisation's.              *)
LEMMA RowsForAre ==
    ASSUME commcell \in CommCells, requests(commcell.report) # {}, DatasetsAreThere,
           NEW n \in {3, 4}, "GUID" \in DataOf(n).params, NEW g
    PROVE  /\ RowsFor(n, g) = Taken(LicensesOf(n, g)) /\ LicensesOf(n, g) \in Seq(Range(DataOf(n).rows))
           /\ RowsFor(n, g) = <<>> <=> LicensesOf(n, g) = <<>>
<1> DEFINE d == DataOf(n)
           params == [p \in {"GUID"} |-> g]
           served == {i \in DOMAIN d.rows : \A p \in DOMAIN params \cap d.params : d.rows[i][p] = params[p]}
           places == {i \in DOMAIN d.rows : d.rows[i].GUID = g}
<1>1. d.rows \in Seq(Range(d.rows)) /\ AnswerTo(n, params) = Taken(AtPlaces(d.rows, served))
  <2>1. n \in 1 .. 4 /\ n # 2
    OBVIOUS
  <2>2. QED
    BY <2>1, AnswerIs
<1>2. DOMAIN params \cap d.params = {"GUID"} /\ params["GUID"] = g
  OBVIOUS
<1>3. served = places
  <2> HIDE DEF d, params
  <2>1. QED
    BY <1>2
<1>4. RowsFor(n, g) = Taken(AtPlaces(d.rows, places))
  BY <1>1, <1>3 DEF RowsFor
<1>5. LicensesOf(n, g) = AtPlaces(d.rows, places)
  BY DEF LicensesOf
<1> HIDE DEF d
<1>6. LicensesOf(n, g) \in Seq({d.rows[k] : k \in places \cap DOMAIN d.rows})
  <2> HIDE DEF places
  <2>1. QED
    BY <1>1, <1>5, AtPlacesType
<1>7. {d.rows[k] : k \in places \cap DOMAIN d.rows} \subseteq Range(d.rows)
  BY DEF Range
<1> DEFINE l == LicensesOf(n, g)
<1> HIDE DEF l, places
<1>8. l \in Seq(Range(d.rows))
  BY <1>6, <1>7 DEF l
<1>9. Taken(l) = <<>> <=> l = <<>>
  BY <1>8, TakenAre
<1>10. QED
  BY <1>4, <1>5, <1>8, <1>9 DEF l, d

(* The organisations asked for are the listed ones, the own ones first.    *)
LEMMA OrganisationsAre ==
    ASSUME commcell \in CommCells, requests(commcell.report) # {}, DatasetsAreThere, OrganisationsFit
    PROVE  LET listed == {r.OrgGUID : r \in Listed}
           IN  /\ Organisations \in Seq(listed) /\ Range(Organisations) = listed /\ OwnGuids \subseteq listed
               /\ \A i, k \in DOMAIN Organisations :
                    Organisations[i] \in OwnGuids /\ Organisations[k] \notin OwnGuids => i < k
<1> DEFINE rows == DataOf(1).rows
           few == Taken(rows)
           listed == {r.OrgGUID : r \in Listed}
<1>1. rows \in Seq(Range(rows)) /\ AnswerTo(1, <<>>) = few
  <2> DEFINE params == <<>>
             served == {i \in DOMAIN rows : \A p \in DOMAIN params \cap DataOf(1).params : rows[i][p] = params[p]}
  <2>1. rows \in Seq(Range(rows)) /\ AnswerTo(1, params) = Taken(AtPlaces(rows, served))
    <3>1. 1 \in 1 .. 4 /\ 1 # 2
      OBVIOUS
    <3> HIDE DEF params
    <3>2. QED
      BY <3>1, AnswerIs
  <2>2. DOMAIN rows \subseteq served
    OBVIOUS
  <2> HIDE DEF rows, served
  <2>3. AtPlaces(rows, served) = rows
    BY <2>1, <2>2, AtPlacesAll
  <2>4. QED
    BY <2>1, <2>3 DEF rows
<1>2. \A i \in DOMAIN rows :
        /\ {"OrgGUID", "Organization"} \subseteq DOMAIN rows[i]
        /\ \E k \in DOMAIN rows : k <= SampleLimit /\ rows[k].OrgGUID = rows[i].OrgGUID
        /\ \A k \in DOMAIN rows : rows[k].OrgGUID = rows[i].OrgGUID => rows[k].Organization = rows[i].Organization
  <2>1. PlanNow \in requests(commcell.report) /\ rows = DataIn(commcell, PlanNow, 1).rows
    BY PlanIs
  <2> HIDE DEF rows
  <2>2. QED
    BY <2>1 DEF OrganisationsFit
<1>3. Listed = {r \in Range(rows) : ~Blank(r.OrgGUID)}
  BY DEF Listed
<1> HIDE DEF rows
<1>4. /\ few \in Seq(Range(rows)) /\ \A k \in DOMAIN rows : k <= SampleLimit => k \in DOMAIN few
      /\ \A k \in DOMAIN few : k \in DOMAIN rows /\ few[k] = rows[k]
  BY <1>1, TakenAre
<1> HIDE DEF few
<1>5. \A i \in DOMAIN rows : /\ Cell(rows[i], "OrgGUID") = rows[i].OrgGUID
                             /\ IsOwn(rows[i]) <=> (rows[i].OrgGUID = Word("-1") \/ rows[i].Organization = Word("commcell"))
  BY <1>2 DEF Cell, IsOwn
<1>6. \A i, k \in DOMAIN few : Cell(few[k], "OrgGUID") = Cell(few[i], "OrgGUID") => (IsOwn(few[k]) <=> IsOwn(few[i]))
  BY <1>2, <1>4, <1>5
<1> DEFINE guids == {Cell(few[i], "OrgGUID") : i \in DOMAIN few}
           own == {Cell(few[i], "OrgGUID") : i \in {k \in DOMAIN few : IsOwn(few[k])}}
<1>7. /\ Organisations \in Seq(guids) /\ Range(Organisations) = {g \in guids : ~Blank(g)}
      /\ \A i, k \in DOMAIN Organisations : Organisations[i] \in own /\ Organisations[k] \notin own => i < k
  <2>1. Organisations = organization_guid_candidates(few)
    BY <1>1 DEF Organisations
  <2> DEFINE S == Range(rows)
             all == organization_guid_candidates(few)
  <2> HIDE DEF S
  <2>2. few \in Seq(S)
    BY <1>4 DEF S
  <2>3. /\ all \in Seq(guids) /\ Range(all) = {g \in guids : ~Blank(g)}
        /\ \A i, k \in DOMAIN all : all[i] \in own /\ all[k] \notin own => i < k
    BY <1>6, <2>2, CandidatesAre
  <2> HIDE DEF guids, own
  <2>4. QED
    BY <2>1, <2>3
<1>8. {g \in guids : ~Blank(g)} = listed
  <2>1. ASSUME NEW i \in DOMAIN few PROVE few[i] \in Range(rows) /\ Cell(few[i], "OrgGUID") = few[i].OrgGUID
    BY <1>4, <1>5 DEF Range
  <2>2. ASSUME NEW r \in Listed PROVE r.OrgGUID \in guids /\ ~Blank(r.OrgGUID)
    <3>1. PICK i \in DOMAIN rows : r = rows[i]
      BY <1>3 DEF Range
    <3>2. PICK k \in DOMAIN rows : k <= SampleLimit /\ rows[k].OrgGUID = rows[i].OrgGUID
      BY <1>2
    <3>3. k \in DOMAIN few /\ Cell(few[k], "OrgGUID") = r.OrgGUID
      BY <1>4, <1>5, <3>1, <3>2
    <3>4. QED
      BY <1>3, <3>3
  <2>3. ASSUME NEW g \in guids, ~Blank(g) PROVE g \in listed
    <3>1. PICK i \in DOMAIN few : g = Cell(few[i], "OrgGUID")
      OBVIOUS
    <3>2. few[i] \in Listed /\ few[i].OrgGUID = g
      BY <1>3, <2>1, <2>3, <3>1
    <3>3. QED
      BY <3>2
  <2> HIDE DEF guids
  <2>4. QED
    BY <2>2, <2>3
<1>9. ASSUME NEW g \in listed PROVE g \in own <=> g \in OwnGuids
  <2>1. PICK i \in DOMAIN rows : g = rows[i].OrgGUID /\ ~Blank(g) /\ rows[i] \in Listed
    BY <1>3 DEF Range
  <2>2. g \in OwnGuids <=> IsOwn(rows[i])
    <3>1. ASSUME IsOwn(rows[i]) PROVE g \in OwnGuids
      BY <1>5, <2>1, <3>1 DEF OwnGuids
    <3>2. ASSUME g \in OwnGuids PROVE IsOwn(rows[i])
      <4>1. PICK o \in Listed : g = o.OrgGUID /\ (o.OrgGUID = Word("-1") \/ o.Organization = Word("commcell"))
        BY <3>2 DEF OwnGuids
      <4>2. PICK k \in DOMAIN rows : o = rows[k]
        BY <1>3 DEF Range
      <4>3. QED
        BY <1>2, <1>5, <2>1, <4>1, <4>2
    <3>3. QED
      BY <3>1, <3>2
  <2>3. g \in own <=> IsOwn(rows[i])
    <3>1. PICK k \in DOMAIN rows : k <= SampleLimit /\ rows[k].OrgGUID = rows[i].OrgGUID
      BY <1>2
    <3>2. k \in DOMAIN few /\ few[k] = rows[k]
      BY <1>4, <3>1
    <3>3. ASSUME NEW m \in DOMAIN few, Cell(few[m], "OrgGUID") = g PROVE IsOwn(few[m]) <=> IsOwn(rows[i])
      BY <1>2, <1>4, <1>5, <2>1, <3>3
    <3>4. Cell(few[k], "OrgGUID") = g
      BY <1>5, <2>1, <3>1, <3>2
    <3>5. QED
      BY <3>2, <3>3, <3>4
  <2>4. QED
    BY <2>2, <2>3
<1>10. OwnGuids \subseteq listed
  BY DEF OwnGuids
<1> DEFINE all == Organisations
<1> HIDE DEF all, listed, guids, own
<1>11. all \in Seq(guids) /\ Range(all) = listed
  BY <1>7, <1>8 DEF all
<1>12. \A i \in DOMAIN all : all[i] \in listed
  BY <1>11 DEF Range
<1>13. all \in Seq(listed)
  <2>1. DOMAIN all = 1 .. Len(all) /\ Len(all) \in Nat /\ all = [i \in 1 .. Len(all) |-> all[i]]
    BY <1>11
  <2>2. QED
    BY <1>12, <2>1
<1>14. QED
  BY <1>7, <1>9, <1>10, <1>11, <1>12, <1>13 DEF all, listed

(* Rows of the first organisation that has any are those of an entitled    *)
(* one.                                                                    *)
LEMMA FirstIsEntitled ==
    ASSUME commcell \in CommCells, requests(commcell.report) # {}, DatasetsAreThere, OrganisationsFit,
           NEW n \in {3, 4}, "GUID" \in DataOf(n).params, NEW rows, OfFirstWithRows(n, rows)
    PROVE  \E g \in Entitled(n) : rows = Taken(LicensesOf(n, g))
<1> DEFINE all == Organisations
           listed == {r.OrgGUID : r \in Listed}
           Has(g) == LicensesOf(n, g) # <<>>
<1>1. /\ all \in Seq(listed) /\ Range(all) = listed /\ OwnGuids \subseteq listed
      /\ \A i, k \in DOMAIN all : all[i] \in OwnGuids /\ all[k] \notin OwnGuids => i < k
  BY OrganisationsAre
<1>2. \A g : RowsFor(n, g) = Taken(LicensesOf(n, g)) /\ (RowsFor(n, g) # <<>> <=> Has(g))
  BY RowsForAre
<1>3. PICK m \in DOMAIN all :
        /\ rows = RowsFor(n, all[m])
        /\ rows # <<>> \/ m = Len(all)
        /\ \A a \in 1..(m - 1) : RowsFor(n, all[a]) = <<>>
  BY DEF OfFirstWithRows
<1> DEFINE g == all[m]
<1>4. Entitled(n) = IF {h \in OwnGuids : Has(h)} # {} THEN {h \in OwnGuids : Has(h)}
                    ELSE IF \E h \in listed : Has(h) THEN {h \in listed : Has(h)} ELSE listed
  BY DEF Entitled
<1> HIDE DEF all, listed, Has
<1>5. g \in listed /\ DOMAIN all = 1 .. Len(all) /\ Len(all) \in Nat
  BY <1>1
<1>6. \A h \in listed : Has(h) => \E k \in DOMAIN all : all[k] = h /\ m <= k
  <2> SUFFICES ASSUME NEW h \in listed, Has(h) PROVE \E k \in DOMAIN all : all[k] = h /\ m <= k
    OBVIOUS
  <2>1. PICK k \in DOMAIN all : all[k] = h
    BY <1>1 DEF Range
  <2>2. k \notin 1 .. (m - 1)
    BY <1>2, <1>3, <2>1
  <2>3. QED
    BY <1>5, <2>1, <2>2
<1>7. (\E h \in listed : Has(h)) => Has(g)
  <2> SUFFICES ASSUME NEW h \in listed, Has(h) PROVE Has(g)
    OBVIOUS
  <2>1. PICK k \in DOMAIN all : all[k] = h /\ m <= k
    BY <1>6
  <2>2. CASE rows # <<>>
    BY <1>2, <1>3, <2>2
  <2>3. CASE m = Len(all)
    <3>1. k = m
      BY <1>5, <2>1, <2>3
    <3>2. QED
      BY <2>1, <3>1
  <2>4. QED
    BY <1>3, <2>2, <2>3
<1>8. (\E h \in OwnGuids : Has(h)) => g \in OwnGuids
  <2> SUFFICES ASSUME NEW h \in OwnGuids, Has(h), g \notin OwnGuids PROVE FALSE
    OBVIOUS
  <2>1. PICK k \in DOMAIN all : all[k] = h /\ m <= k
    BY <1>1, <1>6
  <2>2. k < m
    BY <1>1, <2>1
  <2>3. QED
    BY <1>5, <2>1, <2>2
<1>9. g \in Entitled(n)
  BY <1>1, <1>4, <1>5, <1>7, <1>8
<1>10. QED
  BY <1>2, <1>3, <1>9

-----------------------------------------------------------------------------
(* Rows on the way into a list.                                            *)

(* A whole amount reads as it is; "unlimited" and none read as none,       *)
(* whatever unit is put behind.                                            *)
LEMMA AmountIs ==
    ASSUME NEW v, WholeAmount(v), NEW type
    PROVE  /\ NumberOrNone(format_other_license_value(v, type)) = Amount(v)
           /\ NumberOrNone(stringify_numeric_or_unlimited(v)) = Amount(v)
<1> DEFINE text == stringify_numeric_or_unlimited(v)
<1>1. \/ v = None \/ v = Number(-10)
      \/ v = Number(v.n) /\ v.n \in Nat /\ v.n % 10 = 0
  <2>1. CASE v = Number(v.n) /\ v.n \in Int /\ v.n % 10 = 0 /\ v.n >= -10 /\ v.n < 0
    <3>1. v.n = -10
      BY <2>1
    <3>2. QED
      BY <2>1, <3>1
  <2>2. QED
    BY <2>1 DEF WholeAmount
<1>2. \/ text = Word("Unlimited") /\ Amount(v) = None
      \/ text = Word("") /\ Amount(v) = None
      \/ \E m \in Nat : text = Text("", <<m>>, "") /\ Amount(v) = Number(10 * m)
  <2>1. CASE v = None
    <3>1. v.k = "none" /\ Amount(v) = None
      BY <2>1 DEF None, Amount, Number
    <3>2. parse_number(v) = {}
      BY <3>1 DEF parse_number
    <3>3. QED
      BY <2>1, <3>1, <3>2 DEF stringify_numeric_or_unlimited, Said
  <2>2. CASE v = Number(-10)
    <3>1. v.k = "number" /\ v.n = -10
      BY <2>2 DEF Number
    <3>2. parse_number(v) = {v}
      BY <3>1 DEF parse_number
    <3>3. QED
      BY <2>2, <3>2 DEF stringify_numeric_or_unlimited, Amount
  <2>5. CASE v = Number(0)
    <3>1. v.k = "number" /\ v.n = 0 /\ v # None
      BY <2>5 DEF Number, None
    <3>2. parse_number(v) = {}
      BY <3>1 DEF parse_number
    <3>3. text = Text("", <<0>>, "")
      BY <2>5, <3>1, <3>2 DEF stringify_numeric_or_unlimited, Said
    <3>4. v # Number(-10)
      BY <3>1 DEF Number
    <3>5. Amount(v) = v
      BY <3>1, <3>4 DEF Amount
    <3>9. 10 * 0 = 0
      OBVIOUS
    <3>10. Number(10 * 0) = Number(0)
      BY <3>9, Zenon
    <3>6. text = Text("", <<0>>, "") /\ Amount(v) = Number(10 * 0)
      BY <2>5, <3>3, <3>5, <3>10, Zenon
    <3>7. \E m \in Nat : text = Text("", <<m>>, "") /\ Amount(v) = Number(10 * m)
      <4>1. 0 \in Nat
        OBVIOUS
      <4> WITNESS 0 \in Nat
      <4>2. QED
        BY <3>6
    <3>8. QED
      BY <3>7
  <2>3. CASE v = Number(v.n) /\ v.n \in Nat \ {0} /\ v.n % 10 = 0
    <3> DEFINE n == v.n
    <3>1. v.k = "number" /\ ~(n < 0) /\ n > 0
      BY <2>3 DEF Number
    <3>2. parse_number(v) = {Number(n - (n % 10))}
      BY <3>1 DEF parse_number
    <3>3. n - (n % 10) = n
      BY <2>3
    <3>4. parse_number(v) = {v}
      BY <2>3, <3>2, <3>3
    <3>5. v # Number(-10)
      BY <2>3 DEF Number
    <3>6. NumberOrNone(v) = v
      BY <3>4 DEF NumberOrNone
    <3>7. text = Text("", <<n \div 10>>, "") /\ Amount(v) = v
      BY <3>1, <3>4, <3>5, <3>6 DEF stringify_numeric_or_unlimited, Amount
    <3>8. n \div 10 \in Nat /\ 10 * (n \div 10) = n
      BY <2>3
    <3>9. QED
      BY <2>3, <3>7, <3>8
  <2>4. QED
    BY <1>1, <2>1, <2>2, <2>3, <2>5
<1> HIDE DEF text
<1>8. ASSUME NEW pre, NEW comps, NEW post, text = Text(pre, comps, "")
      PROVE  [text EXCEPT !.post = post] = [k |-> "text", pre |-> pre, comps |-> comps, post |-> post]
  <2>1. text = [k |-> "text", pre |-> pre, comps |-> comps, post |-> ""]
    BY <1>8 DEF Text
  <2> DEFINE w == [text EXCEPT !.post = post]
  <2>2. DOMAIN w = {"k", "pre", "comps", "post"}
    BY <2>1
  <2>3. w.k = "text" /\ w.pre = pre /\ w.comps = comps /\ w.post = post
    BY <2>1
  <2>4. w = [x \in DOMAIN w |-> w[x]]
    OBVIOUS
  <2> HIDE DEF w
  <2>5. w = [k |-> "text", pre |-> pre, comps |-> comps, post |-> post]
    BY <2>2, <2>3, <2>4
  <2>6. QED
    BY <2>5 DEF w
<1>3. ASSUME NEW post PROVE NumberOrNone([text EXCEPT !.post = post]) = Amount(v)
  <2> DEFINE w == [text EXCEPT !.post = post]
  <2>1. CASE \E m \in Nat : text = Text("", <<m>>, "") /\ Amount(v) = Number(10 * m)
    <3>1. PICK m \in Nat : text = Text("", <<m>>, "") /\ Amount(v) = Number(10 * m)
      BY <2>1
    <3>2. w = [k |-> "text", pre |-> "", comps |-> <<m>>, post |-> post]
      BY <1>8, <3>1
    <3> HIDE DEF w
    <3>3. w.k = "text" /\ w.pre = "" /\ w.comps # <<>> /\ w.comps[1] = m
      BY <3>2
    <3>4. parse_number(w) = {Number(10 * m)}
      BY <3>3 DEF parse_number
    <3>5. QED
      BY <3>1, <3>4 DEF NumberOrNone, w
  <2>2. CASE (text = Word("Unlimited") \/ text = Word("")) /\ Amount(v) = None
    <3>3. PICK pre : text = Text(pre, <<>>, "")
      BY <2>2 DEF Word
    <3>4. w = [k |-> "text", pre |-> pre, comps |-> <<>>, post |-> post]
      BY <1>8, <3>3
    <3> HIDE DEF w
    <3>1. w.k = "text" /\ w.comps = <<>>
      BY <3>4
    <3>2. parse_number(w) = {}
      BY <3>1 DEF parse_number
    <3>5. QED
      BY <2>2, <3>2 DEF NumberOrNone, w
  <2>3. QED
    BY <1>2, <2>1, <2>2
<1>4. text = [text EXCEPT !.post = ""]
  <2>1. PICK pre, comps : text = Text(pre, comps, "")
    BY <1>2 DEF Word
  <2>2. QED
    BY <1>8, <2>1 DEF Text
<1>5. NumberOrNone(text) = Amount(v)
  BY <1>3, <1>4
<1>6. format_other_license_value(v, type) = text \/ \E post : format_other_license_value(v, type) = [text EXCEPT !.post = post]
  BY DEF format_other_license_value, text
<1>7. QED
  BY <1>3, <1>5, <1>6 DEF text

(* One dataset serves a list, and no other passes for it.                  *)
ServedByOne(kind, specs, executions, one) ==
  /\ one \in DOMAIN specs /\ Len(specs) \in Nat /\ DOMAIN specs = 1 .. Len(specs)
  /\ \A i \in DOMAIN specs : specs[i].kind = kind <=> i = one
  /\ \A i \in DOMAIN specs : legacy_kind(specs[i], executions[i]) # kind

(* Such a list is that dataset's.                                          *)
LEMMA ListIs ==
    ASSUME NEW kind \in {"other", "agent"}, NEW specs, NEW executions, NEW one,
           ServedByOne(kind, specs, executions, one), NEW V, executions[one].rows \in Seq(V)
    PROVE  list_rows(kind, specs, executions) = license_rows(kind, executions[one].rows)
<1> DEFINE R == executions[one].rows
           L == license_rows(kind, R)
           seqs == [i \in DOMAIN specs |->
             IF specs[i].kind = kind THEN license_rows(kind, executions[i].rows)
             ELSE IF legacy_kind(specs[i], executions[i]) = kind THEN legacy_rows(kind, executions[i].rows) ELSE <<>>]
<1> USE DEF ServedByOne
<1>1. list_rows(kind, specs, executions) = FlattenSeq(seqs)
  BY DEF list_rows
<1>2. DOMAIN L = 1 .. Len(R) /\ Len(R) \in Nat /\ L = [i \in 1 .. Len(R) |-> L[i]]
  BY DEF license_rows
<1>3. seqs[one] = L /\ \A i \in DOMAIN specs : i # one => seqs[i] = <<>>
  OBVIOUS
<1>4. DOMAIN seqs = 1 .. Len(specs) /\ seqs = [i \in 1 .. Len(specs) |-> seqs[i]] /\ one \in 1 .. Len(specs)
  OBVIOUS
<1> HIDE DEF L, seqs
<1>5. L \in Seq(Range(L))
  BY <1>2 DEF Range
<1>6. \A i \in 1 .. Len(specs) : seqs[i] \in Seq(Range(L))
  <2> DEFINE S == Range(L)
  <2> HIDE DEF S
  <2>1. <<>> \in Seq(S) /\ L \in Seq(S)
    BY <1>5 DEF S
  <2>2. QED
    BY <1>3, <2>1 DEF S
<1>7. seqs \in Seq(Seq(Range(L)))
  BY <1>4, <1>6
<1>8. FlattenSeq(seqs) = seqs[one]
  BY <1>3, <1>4, <1>7, FlattenOne
<1>9. QED
  BY <1>1, <1>3, <1>8 DEF L

(* The named rows of a list stand beside the rows they were read from.     *)
LEMMA NamedAre ==
    ASSUME NEW kind \in {"other", "agent"}, NEW column,
           column = IF kind = "other" THEN "Dial" ELSE "License", NEW V, NEW R \in Seq(V)
    PROVE  LET A == Named(license_rows(kind, R))
               F == AtPlaces(R, {i \in DOMAIN R : ~Blank(Cell(R[i], column))})
           IN  /\ Len(A) = Len(F) /\ A \in Seq(Range(A)) /\ F \in Seq(Range(F)) /\ Range(F) \subseteq Range(R)
               /\ \A n \in 1 .. Len(A) :
                    /\ F[n] \in Range(R) /\ column \in DOMAIN F[n]
                    /\ A[n] = IF kind = "other" THEN normalize_live_other_license_row(F[n])
                              ELSE normalize_live_agent_feature_row(F[n])
                    /\ A[n].license = F[n][column]
<1> DEFINE Row(r) == IF kind = "other" THEN normalize_live_other_license_row(r)
                     ELSE normalize_live_agent_feature_row(r)
           L == license_rows(kind, R)
           P == {i \in DOMAIN R : ~Blank(Cell(R[i], column))}
           F == AtPlaces(R, P)
           A == Named(L)
<1>1. DOMAIN R = 1 .. Len(R) /\ Len(R) \in Nat
  OBVIOUS
<1>2. DOMAIN L = DOMAIN R /\ L = [i \in 1 .. Len(R) |-> L[i]] /\ \A i \in DOMAIN R : L[i] = Row(R[i])
  BY <1>1 DEF license_rows
<1>3. \A r : Row(r).license = Cell(r, column)
  BY DEF normalize_live_other_license_row, normalize_live_agent_feature_row,
         normalize_other_license_record, normalize_agent_feature_record
<1> HIDE DEF L, Row
<1>4. L \in Seq(Range(L)) /\ Len(L) = Len(R)
  <2>1. \A i \in 1 .. Len(R) : L[i] \in Range(L)
    BY <1>1, <1>2 DEF Range
  <2>2. QED
    BY <1>1, <1>2, <2>1
<1>5. {i \in DOMAIN L : ~Blank(L[i].license)} = P
  BY <1>2, <1>3
<1>6. A = AtPlaces(L, P)
  BY <1>5 DEF Named
<1> DEFINE S == Range(L)
<1> HIDE DEF S, P, A
<1>7. /\ Len(AtPlaces(L, P)) = Len(F)
      /\ \A k \in 1 .. Len(AtPlaces(L, P)) : \E i \in P \cap DOMAIN L :
           AtPlaces(L, P)[k] = L[i] /\ F[k] = R[i]
  <2>1. L \in Seq(S)
    BY <1>4 DEF S
  <2>2. R \in Seq(V) /\ Len(R) = Len(L)
    BY <1>4
  <2> HIDE DEF F
  <2>3. ASSUME NEW s, s = L, NEW t, t = R
        PROVE  /\ Len(AtPlaces(s, P)) = Len(AtPlaces(t, P))
               /\ \A k \in 1 .. Len(AtPlaces(s, P)) : \E i \in P \cap DOMAIN s :
                    AtPlaces(s, P)[k] = s[i] /\ AtPlaces(t, P)[k] = t[i]
    <3>1. s \in Seq(S) /\ t \in Seq(V) /\ Len(t) = Len(s)
      BY <2>1, <2>2, <2>3
    <3>2. QED
      BY <3>1, AtPlacesTogether, SMTT(60)
  <2>4. QED
    BY <2>3 DEF F
<1>8. A \in Seq({L[k] : k \in P \cap DOMAIN L}) /\ F \in Seq({R[k] : k \in P \cap DOMAIN R})
  <2>1. L \in Seq(S)
    BY <1>4 DEF S
  <2>2. QED
    BY <1>6, <2>1, AtPlacesType
<1>9. {R[k] : k \in P \cap DOMAIN R} \subseteq Range(R)
  BY DEF Range
<1> HIDE DEF F
<1>10. A \in Seq(Range(A)) /\ F \in Seq(Range(F)) /\ Range(F) \subseteq Range(R)
  <2>1. A \in Seq(Range(A)) /\ F \in Seq(Range(F))
    BY <1>8 DEF Range
  <2>2. F \in Seq(Range(R))
    BY <1>8, <1>9
  <2>3. QED
    BY <2>1, <2>2 DEF Range
<1>11. ASSUME NEW n \in 1 .. Len(A)
       PROVE  F[n] \in Range(R) /\ column \in DOMAIN F[n] /\ A[n] = Row(F[n]) /\ A[n].license = F[n][column]
  <2>1. PICK i \in P \cap DOMAIN L : A[n] = L[i] /\ F[n] = R[i]
    BY <1>6, <1>7
  <2>2. A[n] = Row(R[i]) /\ R[i] \in Range(R)
    BY <1>2, <2>1 DEF Range
  <2>3. ~Blank(Cell(R[i], column))
    BY <2>1 DEF P
  <2>4. column \in DOMAIN R[i] /\ Cell(R[i], column) = R[i][column]
    BY <2>3 DEF Cell, Blank
  <2>5. QED
    BY <1>3, <2>1, <2>2, <2>4
<1>12. QED
  BY <1>6, <1>7, <1>10, <1>11 DEF F, P, A, L, Row

(* The rows of other licenses are the report's, amount for amount.         *)
LEMMA OtherAre ==
    ASSUME NEW V, NEW R \in Seq(V),
           \A r \in Range(R) : /\ {"Purchased", "Usage"} \subseteq DOMAIN r
                               /\ WholeAmount(r.Purchased) /\ WholeAmount(r.Usage)
    PROVE  LET A == Named(license_rows("other", R))
               F == AtPlaces(R, {i \in DOMAIN R : ~Blank(Cell(R[i], "Dial"))})
           IN  [i \in DOMAIN A |-> <<A[i].license, A[i].available_total, A[i].used>>]
               = [i \in DOMAIN F |-> <<F[i].Dial, Amount(F[i].Purchased), Amount(F[i].Usage)>>]
<1> DEFINE A == Named(license_rows("other", R))
           F == AtPlaces(R, {i \in DOMAIN R : ~Blank(Cell(R[i], "Dial"))})
<1>1. /\ Len(A) = Len(F) /\ A \in Seq(Range(A)) /\ F \in Seq(Range(F))
      /\ \A n \in 1 .. Len(A) : /\ F[n] \in Range(R)
                                /\ A[n] = normalize_live_other_license_row(F[n])
                                /\ A[n].license = F[n]["Dial"]
  BY NamedAre
<1> HIDE DEF A, F
<1>2. ASSUME NEW n \in 1 .. Len(A)
      PROVE  <<A[n].license, A[n].available_total, A[n].used>> = <<F[n].Dial, Amount(F[n].Purchased), Amount(F[n].Usage)>>
  <2> DEFINE r == F[n]
             available == format_other_license_value(Cell(r, "Purchased"), Cell(r, "LicUsageType"))
             used == format_other_license_value(Cell(r, "Usage"), Cell(r, "LicUsageType"))
  <2>1. r \in Range(R) /\ A[n] = normalize_live_other_license_row(r) /\ A[n].license = r.Dial
    BY <1>1
  <2> HIDE DEF r
  <2>2. Cell(r, "Purchased") = r.Purchased /\ Cell(r, "Usage") = r.Usage /\ WholeAmount(r.Purchased) /\ WholeAmount(r.Usage)
    BY <2>1 DEF Cell
  <2>3. A[n] = normalize_other_license_record(Cell(r, "Dial"), available, used)
    BY <2>1 DEF normalize_live_other_license_row
  <2>4. NumberOrNone(available) = Amount(r.Purchased) /\ NumberOrNone(used) = Amount(r.Usage)
    BY <2>2, AmountIs
  <2> HIDE DEF available, used
  <2>5. A[n].available_total = NumberOrNone(available) /\ A[n].used = NumberOrNone(used)
    <3>1. PICK unit : A[n] = [license |-> Cell(r, "Dial"), available_total |-> NumberOrNone(available),
                              used |-> NumberOrNone(used), unit |-> unit]
      BY <2>3 DEF normalize_other_license_record
    <3>2. QED
      BY <3>1
  <2>6. QED
    BY <2>1, <2>4, <2>5 DEF r
<1>3. DOMAIN A = 1 .. Len(A) /\ DOMAIN F = 1 .. Len(A)
  BY <1>1
<1>4. [i \in DOMAIN A |-> <<A[i].license, A[i].available_total, A[i].used>>]
      = [i \in DOMAIN F |-> <<F[i].Dial, Amount(F[i].Purchased), Amount(F[i].Usage)>>]
  BY <1>2, <1>3
<1>5. QED
  BY <1>4 DEF A, F

(* The first row of each license: as many as there are licenses.           *)
LEMMA FirstsAre ==
    ASSUME NEW V, NEW A \in Seq(V)
    PROVE  /\ Len(FirstOfEach(A)) = Cardinality(LicensesIn(A)) /\ Range(FirstOfEach(A)) \subseteq Range(A)
           /\ {r.license : r \in Range(FirstOfEach(A))} = LicensesIn(A)
<1> DEFINE K == FirstOfEach(A)
           T == LicensesIn(A)
           P == {i \in DOMAIN A : \A j \in 1..(i - 1) : A[j].license # A[i].license}
           g == [i \in P |-> A[i].license]
<1>1. DOMAIN A = 1 .. Len(A) /\ Len(A) \in Nat
  OBVIOUS
<1>2. ASSUME NEW i \in DOMAIN A PROVE \E k \in P : A[k].license = A[i].license
  <2> DEFINE U == {k \in DOMAIN A : A[k].license = A[i].license}
  <2>1. U # {} /\ U \subseteq 0 .. Len(A) /\ Len(A) \in Nat
    BY <1>1
  <2>2. PICK m \in U : \A n \in U : m <= n
    <3> HIDE DEF U
    <3>1. QED
      BY <2>1, Least
  <2>3. ASSUME NEW j \in 1 .. (m - 1) PROVE A[j].license # A[m].license
    <3>1. j \in DOMAIN A /\ ~(m <= j)
      BY <1>1, <2>2
    <3>2. QED
      BY <2>2, <3>1
  <2>4. m \in P
    BY <2>3
  <2>5. QED
    BY <2>4
<1>3. \A i, k \in P : A[i].license = A[k].license => i = k
  <2> SUFFICES ASSUME NEW i \in P, NEW k \in P, A[i].license = A[k].license, i < k PROVE FALSE
    BY <1>1
  <2>1. i \in 1 .. (k - 1)
    BY <1>1
  <2>2. QED
    BY <2>1
<1>4. P \cap DOMAIN A = P /\ P \subseteq 1 .. Len(A)
  BY <1>1
<1>13. K = AtPlaces(A, P) /\ T = {A[i].license : i \in DOMAIN A}
  BY DEF FirstOfEach, LicensesIn
<1> HIDE DEF P, K, T
<1>5. Len(K) = Cardinality(P)
  BY <1>4, <1>13, AtPlacesLength
<1>6. Range(K) = {A[k] : k \in P}
  BY <1>4, <1>13, AtPlacesRange
<1>7. ExistsBijection(P, T)
  <2>1. g \in [P -> T]
    BY <1>1, <1>4, <1>13
  <2>2. g \in Bijection(P, T)
    BY <1>2, <1>3, <1>13, <2>1 DEF Bijection, Injection, Surjection, IsInjective
  <2>3. QED
    BY <2>2 DEF ExistsBijection
<1>8. IsFiniteSet(P)
  <2>1. IsFiniteSet(1 .. Len(A))
    BY <1>1, FS_Interval
  <2>2. QED
    BY <1>4, <2>1, FS_Subset
<1>9. Cardinality(T) = Cardinality(P)
  BY <1>7, <1>8, FS_Bijection
<1>10. Range(K) \subseteq Range(A)
  BY <1>1, <1>4, <1>6 DEF Range
<1>11. {r.license : r \in Range(K)} = T
  <2>1. \A k \in P : k \in DOMAIN A
    BY <1>1, <1>4
  <2>2. {r.license : r \in Range(K)} = {A[k].license : k \in P}
    BY <1>6
  <2>3. {A[k].license : k \in P} = {A[i].license : i \in DOMAIN A}
    BY <1>2, <2>1
  <2>4. QED
    BY <1>13, <2>2, <2>3
<1>12. QED
  BY <1>5, <1>9, <1>10, <1>11 DEF K, T

(* Of the rows of agents one of each license remains, with an amount that  *)
(* the report shows for it.                                                *)
LEMMA AgentsAre ==
    ASSUME NEW V, NEW R \in Seq(V),
           \A r \in Range(R) : "PermanentTotal" \in DOMAIN r /\ WholeAmount(r.PermanentTotal)
    PROVE  LET A == Named(license_rows("agent", R))
               F == AtPlaces(R, {i \in DOMAIN R : ~Blank(Cell(R[i], "License"))})
               K == FirstOfEach(A)
           IN  /\ Cardinality(LicensesIn(A)) = Len(K)
               /\ {<<r.license, r.permanent_total>> : r \in Range(K)}
                  \subseteq {<<r.License, Amount(r.PermanentTotal)>> : r \in Range(F)}
               /\ {r.license : r \in Range(K)} = {r.License : r \in Range(F)}
<1> DEFINE A == Named(license_rows("agent", R))
           F == AtPlaces(R, {i \in DOMAIN R : ~Blank(Cell(R[i], "License"))})
           K == FirstOfEach(A)
<1>1. /\ Len(A) = Len(F) /\ A \in Seq(Range(A)) /\ F \in Seq(Range(F))
      /\ \A n \in 1 .. Len(A) : /\ F[n] \in Range(R)
                                /\ A[n] = normalize_live_agent_feature_row(F[n])
                                /\ A[n].license = F[n]["License"]
  BY NamedAre
<1>2. /\ Len(K) = Cardinality(LicensesIn(A)) /\ Range(K) \subseteq Range(A)
      /\ {r.license : r \in Range(K)} = {A[i].license : i \in DOMAIN A}
  <2> DEFINE S == Range(A)
  <2> HIDE DEF A, S
  <2>1. A \in Seq(S)
    BY <1>1 DEF S
  <2>2. /\ Len(K) = Cardinality(LicensesIn(A)) /\ Range(K) \subseteq Range(A)
        /\ {r.license : r \in Range(K)} = LicensesIn(A)
    BY <2>1, FirstsAre
  <2>3. QED
    BY <2>2 DEF LicensesIn
<1> HIDE DEF A, F, K
<1>3. ASSUME NEW n \in 1 .. Len(A)
      PROVE  A[n].license = F[n].License /\ A[n].permanent_total = Amount(F[n].PermanentTotal)
  <2> DEFINE r == F[n]
             total == stringify_numeric_or_unlimited(Cell(r, "PermanentTotal"))
  <2>1. r \in Range(R) /\ A[n] = normalize_live_agent_feature_row(r) /\ A[n].license = r.License
    BY <1>1
  <2> HIDE DEF r
  <2>2. Cell(r, "PermanentTotal") = r.PermanentTotal /\ WholeAmount(r.PermanentTotal)
    BY <2>1 DEF Cell
  <2>3. A[n].permanent_total = NumberOrNone(total)
    BY <2>1 DEF normalize_live_agent_feature_row, normalize_agent_feature_record
  <2>4. NumberOrNone(total) = Amount(r.PermanentTotal)
    BY <2>2, AmountIs
  <2>5. QED
    BY <2>1, <2>3, <2>4 DEF r
<1>4. DOMAIN A = 1 .. Len(A) /\ DOMAIN F = 1 .. Len(A)
  BY <1>1
<1>5. {A[i].license : i \in DOMAIN A} = {r.License : r \in Range(F)}
  BY <1>3, <1>4 DEF Range
<1>6. \A x \in Range(K) : \E r \in Range(F) : <<x.license, x.permanent_total>> = <<r.License, Amount(r.PermanentTotal)>>
  <2> SUFFICES ASSUME NEW x \in Range(K)
               PROVE  \E r \in Range(F) : <<x.license, x.permanent_total>> = <<r.License, Amount(r.PermanentTotal)>>
    OBVIOUS
  <2>1. PICK n \in 1 .. Len(A) : x = A[n]
    BY <1>2, <1>4 DEF Range
  <2>2. F[n] \in Range(F)
    BY <1>4 DEF Range
  <2>3. QED
    BY <1>3, <2>1, <2>2
<1>7. QED
  BY <1>2, <1>5, <1>6 DEF A, F, K

-----------------------------------------------------------------------------
(* What comes of a whole collection.                                       *)

(* The definition's datasets of a kind share the execution of the first.   *)
LEMMA ExecutionIs ==
    ASSUME commcell \in CommCells, requests(commcell.report) # {},
           NEW j, j.plan = PlanNow.plan, NEW spec, NEW n \in 1 .. 4, spec.kind = Kinds[n]
    PROVE  ExecutionOf(j, spec) = j.executions[n]
<1> DEFINE P == {m \in DOMAIN j.plan : IF spec.kind = "summary" THEN j.plan[m] = spec
                                       ELSE j.plan[m].kind = spec.kind}
<1>1. /\ \A m \in 1 .. 4 : j.plan[m].kind = Kinds[m] /\ m \in DOMAIN j.plan
      /\ \A m \in DOMAIN j.plan : m > 4 => j.plan[m].kind = "summary"
      /\ \A m \in DOMAIN j.plan : m \in Nat /\ m >= 1
  BY PlanIs
<1>2. \A m \in 1 .. 4 : Kinds[m] # "summary" /\ (m # n => Kinds[m] # Kinds[n])
  BY DEF Kinds
<1>3. P = {n}
  <2>1. ASSUME NEW m \in DOMAIN j.plan, j.plan[m].kind = spec.kind PROVE m = n
    <3>1. m \in 1 .. 4
      BY <1>1, <1>2, <2>1
    <3>2. QED
      BY <1>1, <1>2, <2>1, <3>1
  <2>2. n \in P
    BY <1>1, <1>2
  <2>3. QED
    BY <1>2, <2>1, <2>2
<1>4. MinOfSet({n}) = n
  BY DEF MinOfSet
<1>5. ExecutionOf(j, spec) = j.executions[MinOfSet(P)]
  BY DEF ExecutionOf
<1>6. QED
  BY <1>3, <1>4, <1>5

(* No other dataset passes for a list.                                     *)
LEMMA NoneElse ==
    ASSUME commcell \in CommCells, requests(commcell.report) # {}, DatasetsAreThere, ListsAreApart,
           NEW j, j.specs = PlanNow.specs, j.plan = PlanNow.plan,
           \A n \in {1, 2} : j.executions[n].rows \in Seq(Range(DataOf(n).rows)),
           NEW i \in DOMAIN j.specs
    PROVE  legacy_kind(j.specs[i], ExecutionOf(j, j.specs[i])) \notin {"other", "agent"}
<1> DEFINE spec == j.specs[i]
           execution == ExecutionOf(j, spec)
<1>1. CASE spec.kind \notin {"organization", "metadata"}
  BY <1>1 DEF legacy_kind
<1>2. CASE spec.kind \in {"organization", "metadata"}
  <2>1. PICK n \in {1, 2} : spec.kind = Kinds[n]
    BY <1>2 DEF Kinds
  <2>2. execution = j.executions[n]
    <3>1. n \in 1 .. 4
      OBVIOUS
    <3> HIDE DEF spec
    <3>2. QED
      BY <2>1, <3>1, ExecutionIs
  <2>3. PlanNow \in requests(commcell.report) /\ DataOf(n) = DataIn(commcell, PlanNow, n)
    BY PlanIs
  <2>4. spec.about \notin {"other", "agent"} /\ \A row \in Range(DataOf(n).rows) : "License" \notin DOMAIN row
    BY <1>2, <2>3 DEF ListsAreApart
  <2> DEFINE rows == execution.rows
  <2>5. rows \in Seq(Range(DataOf(n).rows))
    BY <2>2
  <2> HIDE DEF rows, spec
  <2>6. rows # <<>> => "License" \notin DOMAIN rows[1]
    BY <2>4, <2>5
  <2>7. QED
    BY <2>4, <2>6 DEF legacy_kind, rest_dataset_kind, rows, spec
<1>3. QED
  BY <1>1, <1>2

(* A list that one dataset serves is read from that dataset's rows alone.  *)
LEMMA ListOfOne ==
    ASSUME commcell \in CommCells, requests(commcell.report) # {}, DatasetsAreThere, ListsAreApart,
           NEW j, j.specs = PlanNow.specs, j.plan = PlanNow.plan,
           \A n \in {1, 2} : j.executions[n].rows \in Seq(Range(DataOf(n).rows)),
           NEW n \in {3, 4}, Once(Kinds[n]), NEW V, j.executions[n].rows \in Seq(V)
    PROVE  list_rows(Kinds[n], j.specs, [i \in DOMAIN j.specs |-> ExecutionOf(j, j.specs[i])])
           = license_rows(Kinds[n], j.executions[n].rows)
<1> DEFINE specs == j.specs
           kind == Kinds[n]
           executions == [i \in DOMAIN specs |-> ExecutionOf(j, specs[i])]
           I == {i \in DOMAIN specs : specs[i].kind = kind}
<1>1. DOMAIN specs = 1 .. Len(specs) /\ Len(specs) \in Nat
  BY PlanIs
<1>2. kind \in {"other", "agent"}
  BY DEF Kinds
<1>3. Cardinality(I) = 1
  BY DEF Once
<1>4. PICK one : I = {one}
  <2> HIDE DEF specs, kind
  <2>1. IsFiniteSet(1 .. Len(specs))
    BY <1>1, FS_Interval
  <2>2. IsFiniteSet(I)
    BY <1>1, <2>1, FS_Subset
  <2> HIDE DEF I
  <2>3. QED
    BY <1>3, <2>2, FS_Singleton
<1>5. one \in DOMAIN specs /\ (\A i \in DOMAIN specs : specs[i].kind = kind <=> i = one)
  BY <1>4
<1>6. executions[one] = j.executions[n]
  <2>1. n \in 1 .. 4 /\ specs[one].kind = Kinds[n]
    BY <1>5
  <2>2. ExecutionOf(j, specs[one]) = j.executions[n]
    <3> HIDE DEF specs
    <3>1. QED
      BY <2>1, ExecutionIs
  <2>3. QED
    BY <1>5, <2>2
<1>7. \A i \in DOMAIN specs : legacy_kind(specs[i], executions[i]) # kind
  <2> SUFFICES ASSUME NEW i \in DOMAIN specs PROVE legacy_kind(specs[i], executions[i]) # kind
    OBVIOUS
  <2>1. legacy_kind(specs[i], ExecutionOf(j, specs[i])) \notin {"other", "agent"}
    BY NoneElse
  <2>2. QED
    BY <1>2, <2>1
<1> HIDE DEF specs, kind, executions, I
<1>8. list_rows(kind, specs, executions) = license_rows(kind, executions[one].rows)
  <2>1. ServedByOne(kind, specs, executions, one)
    BY <1>1, <1>5, <1>7 DEF ServedByOne
  <2>2. executions[one].rows \in Seq(V)
    BY <1>6
  <2>3. QED
    BY <1>2, <2>1, <2>2, ListIs
<1>9. QED
  BY <1>6, <1>8 DEF specs, kind, executions

(* A list asked for one organisation after the other is the list of one    *)
(* entitled organisation.                                                  *)
LEMMA RowsAreOfOne ==
    ASSUME commcell \in CommCells, DatasetsAreThere, OrganisationsFit,
           NEW j, ReadSoFar(j), j.i > Len(j.plan), NEW n \in {3, 4}, Asked(n)
    PROVE  LET rows == j.executions[n].rows
           IN  /\ \E g \in Entitled(n) : rows = Taken(LicensesOf(n, g))
               /\ rows \in Seq(Range(DataOf(n).rows))
<1> DEFINE rows == j.executions[n].rows
<1>1. requests(commcell.report) # {} /\ j.plan = PlanNow.plan /\ n < j.i /\ "GUID" \in DataOf(n).params
  <2>1. requests(commcell.report) # {} /\ j.plan = PlanNow.plan /\ j.i \in 1..(Len(j.plan) + 1)
    BY DEF ReadSoFar
  <2>2. Len(PlanNow.plan) \in Nat /\ Len(PlanNow.plan) >= 4
    BY <2>1, PlanIs
  <2>3. QED
    BY <2>1, <2>2 DEF Asked
<1>2. AskedByGuid(n)
  <2>1. Range(Organisations) = {r.OrgGUID : r \in Listed} /\ Organisations \in Seq({r.OrgGUID : r \in Listed})
    BY <1>1, OrganisationsAre
  <2>2. Organisations # <<>>
    <3>1. PICK r : r \in Listed
      BY DEF Asked
    <3>2. PICK m \in DOMAIN Organisations : Organisations[m] = r.OrgGUID
      BY <2>1, <3>1 DEF Range
    <3>3. QED
      BY <2>1, <3>2
  <2>3. QED
    BY <1>1, <2>2 DEF AskedByGuid
<1>3. OfFirstWithRows(n, rows)
  BY <1>1, <1>2 DEF ReadSoFar
<1> HIDE DEF rows
<1>4. PICK g \in Entitled(n) : rows = Taken(LicensesOf(n, g))
  BY <1>1, <1>3, FirstIsEntitled
<1>5. rows \in Seq(Range(DataOf(n).rows))
  <2> DEFINE l == LicensesOf(n, g)
             S == Range(DataOf(n).rows)
  <2>1. l \in Seq(S)
    BY <1>1, RowsForAre
  <2> HIDE DEF l, S
  <2>2. Taken(l) \in Seq(S)
    BY <2>1, TakenAre
  <2>3. QED
    BY <1>4, <2>2 DEF l, S
<1>6. QED
  BY <1>4, <1>5 DEF rows

(* What the first two datasets contribute are rows of theirs.              *)
LEMMA OthersAreRead ==
    ASSUME commcell \in CommCells, DatasetsAreThere, NEW j, ReadSoFar(j), j.i > Len(j.plan)
    PROVE  \A n \in {1, 2} : j.executions[n].rows \in Seq(Range(DataOf(n).rows))
<1>1. requests(commcell.report) # {} /\ j.plan = PlanNow.plan /\ j.i \in 1..(Len(j.plan) + 1)
  BY DEF ReadSoFar
<1>2. Len(PlanNow.plan) \in Nat /\ Len(PlanNow.plan) >= 4
  BY <1>1, PlanIs
<1>3. j.i > 1 /\ j.i > 2
  BY <1>1, <1>2
<1>4. j.executions[1].rows = AnswerTo(1, <<>>) /\ j.executions[2].rows \in Seq(Range(DataOf(2).rows))
  BY <1>3 DEF ReadSoFar
<1>5. AnswerTo(1, <<>>) \in Seq(Range(DataOf(1).rows))
  <2> DEFINE params == <<>>
  <2>1. 1 \in 1 .. 4
    OBVIOUS
  <2> HIDE DEF params
  <2>2. AnswerTo(1, params) \in Seq(Range(DataOf(1).rows))
    BY <1>1, <2>1, AnswerIs
  <2>3. QED
    BY <2>2 DEF params
<1>6. QED
  BY <1>4, <1>5

(* What a collection without a failed request or a change of the CommCell  *)
(* stores is the list of one organisation.                                 *)
LEMMA CollectedIsOfOne ==
    ASSUME commcell \in CommCells, DatasetsAreThere, OrganisationsFit, AmountsAreWhole, ListsAreApart,
           NEW j, ReadSoFar(j), j.i > Len(j.plan)
    PROVE  LET normalized == normalize_license_summary_rest_extraction(j.specs,
                               [n \in DOMAIN j.specs |-> ExecutionOf(j, j.specs[n])])
               sections == adapt(persist_license_summary_artifact(normalized))
           IN  /\ Once("other") /\ Asked(3) => OtherOfOne(sections)
               /\ Once("agent") /\ Asked(4) => AgentsOfOne(sections)
<1> DEFINE executions == [n \in DOMAIN j.specs |-> ExecutionOf(j, j.specs[n])]
           normalized == normalize_license_summary_rest_extraction(j.specs, executions)
           artifact == persist_license_summary_artifact(normalized)
           sections == adapt(artifact)
           other == Named(list_rows("other", j.specs, executions))
           agent == Named(list_rows("agent", j.specs, executions))
<1>1. requests(commcell.report) # {} /\ j.specs = PlanNow.specs /\ j.plan = PlanNow.plan
  BY DEF ReadSoFar
<1>2. PlanNow \in requests(commcell.report) /\ \A n : DataOf(n) = DataIn(commcell, PlanNow, n)
  BY <1>1, PlanIs
<1>3. /\ sections.other_licenses = other /\ sections.agent_feature_licenses = FirstOfEach(agent)
      /\ sections.agent_feature_count = Cardinality(LicensesIn(agent))
  <2> HIDE DEF executions, other, agent
  <2>1. \E m, w : normalized = [metadata |-> m, other |-> other, agent |-> agent, workload |-> w]
    BY DEF normalize_license_summary_rest_extraction, other, agent
  <2> HIDE DEF normalized
  <2>2. artifact.other = other /\ artifact.agent = agent
    BY <2>1 DEF persist_license_summary_artifact
  <2> HIDE DEF artifact
  <2>3. QED
    BY <2>2 DEF adapt
<1>4. \A n \in {1, 2} : j.executions[n].rows \in Seq(Range(DataOf(n).rows))
  BY OthersAreRead
<1>5. ASSUME Once("other"), Asked(3) PROVE OtherOfOne(sections)
  <2> DEFINE R == j.executions[3].rows
             V == Range(DataOf(3).rows)
  <2>1. PICK g \in Entitled(3) : R = Taken(LicensesOf(3, g))
    BY <1>5, RowsAreOfOne
  <2>2. R \in Seq(V)
    BY <1>5, RowsAreOfOne
  <2>3. \A r \in Range(R) : {"Purchased", "Usage"} \subseteq DOMAIN r /\ WholeAmount(r.Purchased) /\ WholeAmount(r.Usage)
    <3>1. \A r \in V : {"Purchased", "Usage"} \subseteq DOMAIN r /\ WholeAmount(r.Purchased) /\ WholeAmount(r.Usage)
      BY <1>2 DEF AmountsAreWhole
    <3> HIDE DEF R, V
    <3>2. \A r \in Range(R) : r \in V
      BY <2>2 DEF Range
    <3>3. QED
      BY <3>1, <3>2
  <2>4. list_rows("other", j.specs, executions) = license_rows("other", R)
    <3>1. 3 \in {3, 4} /\ Kinds[3] = "other" /\ Once(Kinds[3])
      BY <1>5 DEF Kinds
    <3> HIDE DEF V
    <3>2. list_rows(Kinds[3], j.specs, executions) = license_rows(Kinds[3], R)
      BY <1>1, <1>4, <2>2, <3>1, ListOfOne
    <3>3. QED
      BY <3>1, <3>2
  <2> DEFINE F == AtPlaces(R, {i \in DOMAIN R : ~Blank(Cell(R[i], "Dial"))})
  <2>5. [i \in DOMAIN other |-> <<other[i].license, other[i].available_total, other[i].used>>]
        = [i \in DOMAIN F |-> <<F[i].Dial, Amount(F[i].Purchased), Amount(F[i].Usage)>>]
    <3> HIDE DEF executions, R, V
    <3>1. other = Named(license_rows("other", R))
      BY <2>4
    <3> HIDE DEF other
    <3>2. QED
      BY <2>2, <2>3, <3>1, OtherAre
  <2>6. F = NamedRowsOf(3, g, "Dial")
    <3> HIDE DEF R
    <3>1. QED
      BY <2>1 DEF NamedRowsOf
  <2> HIDE DEF F, sections, other
  <2>7. QED
    BY <1>3, <2>5, <2>6 DEF OtherOfOne
<1>6. ASSUME Once("agent"), Asked(4) PROVE AgentsOfOne(sections)
  <2> DEFINE R == j.executions[4].rows
             V == Range(DataOf(4).rows)
  <2>1. PICK g \in Entitled(4) : R = Taken(LicensesOf(4, g))
    BY <1>6, RowsAreOfOne
  <2>2. R \in Seq(V)
    BY <1>6, RowsAreOfOne
  <2>3. \A r \in Range(R) : "PermanentTotal" \in DOMAIN r /\ WholeAmount(r.PermanentTotal)
    <3>1. \A r \in V : "PermanentTotal" \in DOMAIN r /\ WholeAmount(r.PermanentTotal)
      BY <1>2 DEF AmountsAreWhole
    <3> HIDE DEF R, V
    <3>2. \A r \in Range(R) : r \in V
      BY <2>2 DEF Range
    <3>3. QED
      BY <3>1, <3>2
  <2>4. list_rows("agent", j.specs, executions) = license_rows("agent", R)
    <3>1. 4 \in {3, 4} /\ Kinds[4] = "agent" /\ Once(Kinds[4])
      BY <1>6 DEF Kinds
    <3> HIDE DEF V
    <3>2. list_rows(Kinds[4], j.specs, executions) = license_rows(Kinds[4], R)
      BY <1>1, <1>4, <2>2, <3>1, ListOfOne
    <3>3. QED
      BY <3>1, <3>2
  <2> DEFINE F == AtPlaces(R, {i \in DOMAIN R : ~Blank(Cell(R[i], "License"))})
             K == FirstOfEach(agent)
  <2>5. /\ Cardinality(LicensesIn(agent)) = Len(K)
        /\ {<<r.license, r.permanent_total>> : r \in Range(K)}
           \subseteq {<<r.License, Amount(r.PermanentTotal)>> : r \in Range(F)}
        /\ {r.license : r \in Range(K)} = {r.License : r \in Range(F)}
    <3> HIDE DEF executions, R, V
    <3>1. agent = Named(license_rows("agent", R))
      BY <2>4
    <3> HIDE DEF agent
    <3>2. QED
      BY <2>2, <2>3, <3>1, AgentsAre
  <2>6. F = NamedRowsOf(4, g, "License")
    <3> HIDE DEF R
    <3>1. QED
      BY <2>1 DEF NamedRowsOf
  <2> HIDE DEF F, K, sections, agent
  <2>7. sections.agent_feature_licenses = K
    BY <1>3 DEF K
  <2>8. QED
    BY <1>3, <2>5, <2>6, <2>7 DEF AgentsOfOne
<1>7. QED
  BY <1>5, <1>6

-----------------------------------------------------------------------------
(* The steps of a collection.                                              *)

(* What is said of the CommCell stays true as long as the CommCell does.   *)
LEMMA SameCommCell ==
    ASSUME commcell' = commcell
    PROVE  /\ PlanNow' = PlanNow /\ (\A n : DataOf(n)' = DataOf(n)) /\ Listed' = Listed /\ OwnGuids' = OwnGuids
           /\ (\A n, params : AnswerTo(n, params)' = AnswerTo(n, params))
           /\ Organisations' = Organisations
           /\ \A j : ReadSoFar(j)' <=> ReadSoFar(j)
           /\ \A kind : Once(kind)' <=> Once(kind)
           /\ \A n : Asked(n)' <=> Asked(n)
           /\ \A sections : (OtherOfOne(sections)' <=> OtherOfOne(sections))
                            /\ (AgentsOfOne(sections)' <=> AgentsOfOne(sections))
<1>1. PlanNow' = PlanNow
  BY DEF PlanNow
<1>2. \A n : DataOf(n)' = DataOf(n)
  BY <1>1 DEF DataOf
<1>3. Listed' = Listed
  <2>1. DataOf(1)' = DataOf(1)
    BY <1>2
  <2>2. QED
    BY <2>1 DEF Listed
<1>4. OwnGuids' = OwnGuids
  BY <1>3 DEF OwnGuids
<1>5. \A n, params : AnswerTo(n, params)' = AnswerTo(n, params)
  <2> SUFFICES ASSUME NEW n, NEW params PROVE AnswerTo(n, params)' = AnswerTo(n, params)
    OBVIOUS
  <2>1. \A guid : GetData(guid, params)' = GetData(guid, params)
    BY DEF GetData
  <2>2. QED
    BY <1>1, <2>1 DEF AnswerTo
<1>6. Organisations' = Organisations
  <2>1. AnswerTo(1, <<>>)' = AnswerTo(1, <<>>)
    BY <1>5
  <2>2. QED
    BY <2>1 DEF Organisations
<1>7. \A n, g : RowsFor(n, g)' = RowsFor(n, g)
  <2> SUFFICES ASSUME NEW n, NEW g PROVE RowsFor(n, g)' = RowsFor(n, g)
    OBVIOUS
  <2>1. AnswerTo(n, [p \in {"GUID"} |-> g])' = AnswerTo(n, [p \in {"GUID"} |-> g])
    BY <1>5
  <2>2. QED
    BY <2>1 DEF RowsFor
<1>8. \A n : AskedByGuid(n)' <=> AskedByGuid(n)
  BY <1>2, <1>6 DEF AskedByGuid
<1>9. \A n, rows : OfFirstWithRows(n, rows)' <=> OfFirstWithRows(n, rows)
  BY <1>6, <1>7 DEF OfFirstWithRows
<1>10. \A j : ReadSoFar(j)' <=> ReadSoFar(j)
  <2> SUFFICES ASSUME NEW j PROVE ReadSoFar(j)' <=> ReadSoFar(j)
    OBVIOUS
  <2>1. AnswerTo(1, <<>>)' = AnswerTo(1, <<>>) /\ DataOf(2)' = DataOf(2)
    BY <1>2, <1>5
  <2>2. QED
    BY <1>1, <1>6, <1>7, <1>8, <1>9, <2>1 DEF ReadSoFar
<1>11. \A kind : Once(kind)' <=> Once(kind)
  BY <1>1 DEF Once
<1>12. \A n : Asked(n)' <=> Asked(n)
  BY <1>2, <1>3 DEF Asked
<1>13. \A n, g : LicensesOf(n, g)' = LicensesOf(n, g)
  BY <1>2 DEF LicensesOf
<1>14. \A n : Entitled(n)' = Entitled(n)
  BY <1>3, <1>4, <1>13 DEF Entitled
<1>15. \A n, g, column : NamedRowsOf(n, g, column)' = NamedRowsOf(n, g, column)
  BY <1>13 DEF NamedRowsOf
<1>16. \A sections : (OtherOfOne(sections)' <=> OtherOfOne(sections)) /\ (AgentsOfOne(sections)' <=> AgentsOfOne(sections))
  <2> SUFFICES ASSUME NEW sections
               PROVE  (OtherOfOne(sections)' <=> OtherOfOne(sections)) /\ (AgentsOfOne(sections)' <=> AgentsOfOne(sections))
    OBVIOUS
  <2>1. OtherOfOne(sections)' <=> OtherOfOne(sections)
    BY <1>14, <1>15 DEF OtherOfOne
  <2>2. AgentsOfOne(sections)' <=> AgentsOfOne(sections)
    BY <1>14, <1>15 DEF AgentsOfOne
  <2>3. QED
    BY <2>1, <2>2
<1>17. QED
  BY <1>1, <1>2, <1>3, <1>4, <1>5, <1>6, <1>10, <1>11, <1>12, <1>16

(* One execution more is behind those there were.                          *)
LEMMA OneMore ==
    ASSUME NEW s, IsList(s), NEW e
    PROVE  /\ IsList(Append(s, e)) /\ Len(Append(s, e)) = Len(s) + 1 /\ Append(s, e)[Len(s) + 1] = e
           /\ \A n \in 1 .. Len(s) : Append(s, e)[n] = s[n]
<1> DEFINE S == Range(s)
           U == S \cup {e}
           t == Append(s, e)
<1>1. s \in Seq(S)
  BY DEF IsList
<1> HIDE DEF S
<1>2. s \in Seq(U)
  BY <1>1
<1> HIDE DEF U
<1>3. e \in U
  BY DEF U
<1>4. /\ t \in Seq(U) /\ Len(t) = Len(s) + 1 /\ t[Len(s) + 1] = e
      /\ \A n \in 1 .. Len(s) : t[n] = s[n]
  BY <1>2, <1>3
<1> HIDE DEF t
<1>5. DOMAIN t = 1 .. Len(t) /\ Len(t) \in Nat /\ t = [n \in 1 .. Len(t) |-> t[n]]
  BY <1>4
<1>6. t \in Seq(Range(t))
  <2>1. \A n \in 1 .. Len(t) : t[n] \in Range(t)
    BY <1>5 DEF Range
  <2> DEFINE T == Range(t)
  <2> HIDE DEF T
  <2>2. \A n \in 1 .. Len(t) : t[n] \in T
    BY <2>1 DEF T
  <2>3. t \in Seq(T)
    BY <1>5, <2>2
  <2>4. QED
    BY <2>3 DEF T
<1>7. QED
  BY <1>4, <1>6 DEF IsList, t

(* What an answer is to a collection that reads the CommCell as it is, and *)
(* the collection after it.                                                *)
AnswerFits(j, rows, again) ==
  /\ j.i = 1 => rows = AnswerTo(1, <<>>)
  /\ j.i = 2 => rows \in Seq(Range(DataOf(2).rows))
  /\ j.i \in {3, 4} /\ AskedByGuid(j.i) =>
       /\ rows = RowsFor(j.i, Organisations[j.attempt])
       /\ again <=> (rows = <<>> /\ j.attempt < Len(Organisations))
  /\ again => j.i \in 2 .. 4
GoesOn(j, w, e, again) ==
  /\ w.specs = j.specs /\ w.plan = j.plan
  /\ w.candidates = IF j.i = 1 THEN organization_guid_candidates(e.rows) ELSE j.candidates
  /\ w.attempt = IF again THEN j.attempt + 1 ELSE 1
  /\ w.i = IF again THEN j.i ELSE j.i + 1
  /\ w.executions = IF again THEN j.executions ELSE Append(j.executions, e)

(* After such an answer a collection still holds what it should.           *)
LEMMA AnswerKeeps ==
    ASSUME commcell \in CommCells, DatasetsAreThere, OrganisationsFit, NEW j, ReadSoFar(j), j.i <= Len(j.plan),
           NEW again \in BOOLEAN, NEW e, AnswerFits(j, e.rows, again), NEW w, GoesOn(j, w, e, again)
    PROVE  ReadSoFar(w)
<1>1. /\ requests(commcell.report) # {} /\ j.specs = PlanNow.specs /\ j.plan = PlanNow.plan
      /\ j.i \in 1..(Len(j.plan) + 1) /\ j.attempt \in Nat \ {0}
      /\ IsList(j.executions) /\ Len(j.executions) = j.i - 1
  BY DEF ReadSoFar
<1>2. Len(j.plan) \in Nat /\ Len(j.plan) >= 4
  BY <1>1, PlanIs
<1>3. /\ j.i > 1 => j.candidates = Organisations /\ j.executions[1].rows = AnswerTo(1, <<>>)
      /\ j.i > 2 => j.executions[2].rows \in Seq(Range(DataOf(2).rows))
  BY DEF ReadSoFar
<1>4. \A n \in {3, 4} : AskedByGuid(n) =>
        /\ n < j.i => OfFirstWithRows(n, j.executions[n].rows)
        /\ n = j.i => /\ j.attempt <= Len(Organisations)
                      /\ \A a \in 1..(j.attempt - 1) : RowsFor(n, Organisations[a]) = <<>>
  BY DEF ReadSoFar
<1>5. Len(Organisations) \in Nat /\ DOMAIN Organisations = 1 .. Len(Organisations)
      /\ (Organisations # <<>> => Len(Organisations) >= 1)
  <2>1. Organisations \in Seq({r.OrgGUID : r \in Listed})
    BY <1>1, OrganisationsAre
  <2> DEFINE S == {r.OrgGUID : r \in Listed}
  <2> HIDE DEF S
  <2>2. Organisations \in Seq(S)
    BY <2>1 DEF S
  <2>3. QED
    BY <2>2
<1>6. j.i \in Nat /\ j.i >= 1
  BY <1>1, <1>2
<1>7. CASE again
  <2>1. /\ w.specs = j.specs /\ w.plan = j.plan /\ w.i = j.i /\ w.attempt = j.attempt + 1
        /\ w.executions = j.executions /\ j.i \in 2 .. 4 /\ w.candidates = j.candidates
    BY <1>7 DEF GoesOn, AnswerFits
  <2>2. \A n \in {3, 4} : AskedByGuid(n) =>
        /\ n < w.i => OfFirstWithRows(n, w.executions[n].rows)
        /\ n = w.i => /\ w.attempt <= Len(Organisations)
                      /\ \A a \in 1..(w.attempt - 1) : RowsFor(n, Organisations[a]) = <<>>
    <3> SUFFICES ASSUME NEW n \in {3, 4}, AskedByGuid(n), n = w.i
                 PROVE  /\ w.attempt <= Len(Organisations)
                        /\ \A a \in 1..(w.attempt - 1) : RowsFor(n, Organisations[a]) = <<>>
      BY <1>4, <2>1
    <3>1. RowsFor(n, Organisations[j.attempt]) = <<>> /\ j.attempt < Len(Organisations)
      BY <1>7, <2>1 DEF AnswerFits
    <3>2. \A a \in 1..(j.attempt - 1) : RowsFor(n, Organisations[a]) = <<>>
      BY <1>4, <2>1
    <3>3. ASSUME NEW a \in 1..(w.attempt - 1) PROVE RowsFor(n, Organisations[a]) = <<>>
      <4>1. a = j.attempt \/ a \in 1 .. (j.attempt - 1)
        BY <1>1, <2>1
      <4>2. QED
        BY <3>1, <3>2, <4>1
    <3>4. w.attempt <= Len(Organisations)
      BY <1>1, <1>5, <2>1, <3>1
    <3>5. QED
      BY <3>3, <3>4
  <2>3. w.attempt \in Nat \ {0} /\ w.i \in 1..(Len(w.plan) + 1)
    BY <1>1, <2>1
  <2>4. /\ w.i > 1 => w.candidates = Organisations /\ w.executions[1].rows = AnswerTo(1, <<>>)
        /\ w.i > 2 => w.executions[2].rows \in Seq(Range(DataOf(2).rows))
    BY <1>3, <2>1
  <2>5. QED
    BY <1>1, <2>1, <2>2, <2>3, <2>4 DEF ReadSoFar
<1>8. CASE ~again
  <2>1. /\ w.specs = j.specs /\ w.plan = j.plan /\ w.i = j.i + 1 /\ w.attempt = 1
        /\ w.executions = Append(j.executions, e)
        /\ w.candidates = IF j.i = 1 THEN organization_guid_candidates(e.rows) ELSE j.candidates
    BY <1>8 DEF GoesOn
  <2>2. /\ IsList(w.executions) /\ Len(w.executions) = j.i /\ w.executions[j.i] = e
        /\ \A n \in 1 .. (j.i - 1) : w.executions[n] = j.executions[n]
    BY <1>1, <1>6, <2>1, OneMore
  <2>3. w.candidates = Organisations /\ w.executions[1].rows = AnswerTo(1, <<>>)
    <3>1. CASE j.i = 1
      BY <2>1, <2>2, <3>1 DEF AnswerFits, Organisations
    <3>2. CASE j.i > 1
      <4>1. 1 \in 1 .. (j.i - 1)
        BY <1>6, <3>2
      <4>2. QED
        BY <1>3, <2>1, <2>2, <3>2, <4>1
    <3>3. QED
      BY <1>6, <3>1, <3>2
  <2>4. w.i > 2 => w.executions[2].rows \in Seq(Range(DataOf(2).rows))
    <3>1. CASE j.i = 2
      BY <2>2, <3>1 DEF AnswerFits
    <3>2. CASE j.i > 2
      <4>1. 2 \in 1 .. (j.i - 1)
        BY <1>6, <3>2
      <4>2. QED
        BY <1>3, <2>2, <3>2, <4>1
    <3>3. QED
      <4>1. w.i > 2 => j.i = 2 \/ j.i > 2
        BY <1>6, <2>1
      <4>2. QED
        BY <3>1, <3>2, <4>1
  <2>5. \A n \in {3, 4} : AskedByGuid(n) =>
        /\ n < w.i => OfFirstWithRows(n, w.executions[n].rows)
        /\ n = w.i => /\ w.attempt <= Len(Organisations)
                      /\ \A a \in 1..(w.attempt - 1) : RowsFor(n, Organisations[a]) = <<>>
    <3> SUFFICES ASSUME NEW n \in {3, 4}, AskedByGuid(n)
                 PROVE  /\ n < w.i => OfFirstWithRows(n, w.executions[n].rows)
                        /\ n = w.i => /\ w.attempt <= Len(Organisations)
                                      /\ \A a \in 1..(w.attempt - 1) : RowsFor(n, Organisations[a]) = <<>>
      OBVIOUS
    <3>1. CASE n < j.i
      <4>1. w.executions[n] = j.executions[n] /\ ~(n = w.i)
        BY <1>6, <2>1, <2>2, <3>1
      <4>2. QED
        BY <1>4, <3>1, <4>1
    <3>2. CASE n = j.i
      <4>1. /\ e.rows = RowsFor(n, Organisations[j.attempt])
            /\ ~(e.rows = <<>> /\ j.attempt < Len(Organisations))
        BY <1>8, <3>2 DEF AnswerFits
      <4>2. /\ j.attempt <= Len(Organisations)
            /\ \A a \in 1..(j.attempt - 1) : RowsFor(n, Organisations[a]) = <<>>
        BY <1>4, <3>2
      <4>3. j.attempt \in DOMAIN Organisations /\ (e.rows # <<>> \/ j.attempt = Len(Organisations))
        BY <1>1, <1>5, <4>1, <4>2
      <4>4. OfFirstWithRows(n, e.rows)
        BY <4>1, <4>2, <4>3 DEF OfFirstWithRows
      <4>5. w.executions[n].rows = e.rows /\ n # w.i
        BY <2>1, <2>2, <3>2
      <4>6. QED
        BY <4>4, <4>5
    <3>3. CASE n > j.i
      <4>1. ~(n < w.i)
        BY <1>6, <2>1, <3>3
      <4>2. w.attempt <= Len(Organisations) /\ ~(\E a \in 1 .. (w.attempt - 1) : TRUE)
        BY <1>5, <2>1 DEF AskedByGuid
      <4>3. QED
        BY <4>1, <4>2
    <3>4. QED
      BY <1>6, <3>1, <3>2, <3>3
  <2>6. w.attempt \in Nat \ {0} /\ w.i \in 1..(Len(w.plan) + 1) /\ Len(w.executions) = w.i - 1
    <3>1. w.i \in 1..(Len(w.plan) + 1)
      BY <1>2, <1>6, <2>1
    <3>2. Len(w.executions) = w.i - 1
      BY <1>6, <2>1, <2>2
    <3>3. QED
      BY <2>1, <3>1, <3>2
  <2>7. QED
    BY <1>1, <2>1, <2>2, <2>3, <2>4, <2>5, <2>6 DEF ReadSoFar
<1>9. QED
  BY <1>7, <1>8

(* The premises of the theorem.                                            *)
Premises == DatasetsAreThere /\ OrganisationsFit /\ AmountsAreWhole /\ ListsAreApart

(* An answer to a request of a collection that reads the CommCell as it is.*)
LEMMA AnswersFit ==
    ASSUME commcell \in CommCells, DatasetsAreThere, OrganisationsFit, NEW j, ReadSoFar(j), j.i <= Len(j.plan),
           NEW params, NEW asks,
           asks <=> (j.i \in 2..4 /\ guid_parameter_name(j.plan[j.i]) # {}),
           params = [p \in IF asks /\ j.candidates # <<>> THEN guid_parameter_name(j.plan[j.i]) ELSE {} |->
                       j.candidates[j.attempt]],
           NEW rows, rows = rows_from_payload(GetData(j.plan[j.i].guid, params)),
           NEW again, again <=> (asks /\ rows = <<>> /\ j.attempt < Len(j.candidates))
    PROVE  AnswerFits(j, rows, again)
<1>1. /\ requests(commcell.report) # {} /\ j.plan = PlanNow.plan
      /\ j.i \in 1..(Len(j.plan) + 1) /\ (j.i > 1 => j.candidates = Organisations)
  BY DEF ReadSoFar
<1>2. rows = AnswerTo(j.i, params)
  BY <1>1 DEF AnswerTo
<1>3. ASSUME j.i = 1 PROVE rows = AnswerTo(1, <<>>)
  <2>1. params = <<>>
    BY <1>3
  <2>2. QED
    BY <1>2, <1>3, <2>1
<1>4. ASSUME j.i = 2 PROVE rows \in Seq(Range(DataOf(2).rows))
  <2>1. 2 \in 1 .. 4
    OBVIOUS
  <2>2. AnswerTo(2, params) \in Seq(Range(DataOf(2).rows))
    BY <1>1, <2>1, AnswerIs
  <2>3. QED
    BY <1>2, <1>4, <2>2
<1>5. ASSUME j.i \in {3, 4}, AskedByGuid(j.i)
      PROVE  /\ rows = RowsFor(j.i, Organisations[j.attempt])
             /\ again <=> (rows = <<>> /\ j.attempt < Len(Organisations))
  <2>1. PlanNow \in requests(commcell.report) /\ DataOf(j.i) = DataIn(commcell, PlanNow, j.i)
    BY <1>1, PlanIs
  <2>2. "GUID" \in Range(j.plan[j.i].params)
    BY <1>1, <1>5, <2>1 DEF DatasetsAreThere, AskedByGuid
  <2>3. guid_parameter_name(j.plan[j.i]) = {"GUID"}
    BY <2>2 DEF guid_parameter_name
  <2>4. asks /\ j.candidates = Organisations /\ Organisations # <<>>
    BY <1>1, <1>5, <2>3 DEF AskedByGuid
  <2>5. params = [p \in {"GUID"} |-> Organisations[j.attempt]]
    BY <2>3, <2>4
  <2>6. rows = RowsFor(j.i, Organisations[j.attempt])
    BY <1>2, <2>5 DEF RowsFor
  <2>7. QED
    BY <2>4, <2>6
<1>6. again => j.i \in 2 .. 4
  OBVIOUS
<1>7. QED
  BY <1>3, <1>4, <1>5, <1>6 DEF AnswerFits

(* One request and its answer.                                             *)
LEMMA GetKeeps ==
    ASSUME commcell \in CommCells, JobReads, Premises, GetDatasetData
    PROVE  JobReads'
<1> USE DEF Premises
<1>1. commcell' = commcell
  BY DEF GetDatasetData
<1>2. PICK j \in job, ok \in BOOLEAN :
       LET spec == j.plan[j.i]
           asks == j.i \in 2..4 /\ guid_parameter_name(spec) # {}
           params == [p \in IF asks /\ j.candidates # <<>> THEN guid_parameter_name(spec) ELSE {} |->
                        j.candidates[j.attempt]]
           rows == IF ok THEN rows_from_payload(GetData(spec.guid, params)) ELSE <<>>
           again == asks /\ rows = <<>> /\ j.attempt < Len(j.candidates)
       IN  /\ j.pc = "data" /\ j.i <= Len(j.plan)
           /\ job' = {[j EXCEPT !.failed = @ \/ ~ok,
                                !.candidates = IF j.i = 1 THEN organization_guid_candidates(rows) ELSE @,
                                !.attempt = IF again THEN @ + 1 ELSE 1,
                                !.i = IF again THEN @ ELSE @ + 1,
                                !.executions = IF again THEN @ ELSE Append(@, [ok |-> ok, rows |-> rows])]}
  BY DEF GetDatasetData
<1> DEFINE spec == j.plan[j.i]
           asks == j.i \in 2..4 /\ guid_parameter_name(spec) # {}
           params == [p \in IF asks /\ j.candidates # <<>> THEN guid_parameter_name(spec) ELSE {} |->
                        j.candidates[j.attempt]]
           rows == IF ok THEN rows_from_payload(GetData(spec.guid, params)) ELSE <<>>
           again == asks /\ rows = <<>> /\ j.attempt < Len(j.candidates)
           e == [ok |-> ok, rows |-> rows]
           w == [j EXCEPT !.failed = @ \/ ~ok,
                          !.candidates = IF j.i = 1 THEN organization_guid_candidates(rows) ELSE @,
                          !.attempt = IF again THEN @ + 1 ELSE 1,
                          !.i = IF again THEN @ ELSE @ + 1,
                          !.executions = IF again THEN @ ELSE Append(@, e)]
<1>3. j.pc = "data" /\ j.i <= Len(j.plan) /\ job' = {w}
  BY <1>2
<1>4. /\ DOMAIN j = JobFields /\ j.failed \in BOOLEAN /\ j.moved \in BOOLEAN
      /\ ~j.failed /\ ~j.moved => ReadSoFar(j)
  BY <1>3 DEF JobReads
<1>5. again \in BOOLEAN /\ e.rows = rows
  OBVIOUS
<1>6. ok /\ ReadSoFar(j) => AnswerFits(j, rows, again)
  <2> SUFFICES ASSUME ok, ReadSoFar(j) PROVE AnswerFits(j, rows, again)
    OBVIOUS
  <2>1. rows = rows_from_payload(GetData(j.plan[j.i].guid, params))
    OBVIOUS
  <2>2. asks <=> (j.i \in 2..4 /\ guid_parameter_name(j.plan[j.i]) # {})
    OBVIOUS
  <2>3. params = [p \in IF asks /\ j.candidates # <<>> THEN guid_parameter_name(j.plan[j.i]) ELSE {} |->
                    j.candidates[j.attempt]]
    OBVIOUS
  <2>4. again <=> (asks /\ rows = <<>> /\ j.attempt < Len(j.candidates))
    OBVIOUS
  <2> HIDE DEF asks, params, rows, again
  <2>5. QED
    BY <1>3, <2>1, <2>2, <2>3, <2>4, AnswersFit
<1> HIDE DEF spec, asks, params, rows, again, e
<1>7. /\ DOMAIN w = JobFields /\ w.pc = "data" /\ w.failed = (j.failed \/ ~ok) /\ w.moved = j.moved
      /\ GoesOn(j, w, e, again)
  BY <1>3, <1>4, <1>5 DEF JobFields, GoesOn
<1> HIDE DEF w
<1>8. ~w.failed /\ ~w.moved => ReadSoFar(w)
  <2> SUFFICES ASSUME ~w.failed, ~w.moved PROVE ReadSoFar(w)
    OBVIOUS
  <2>1. ok /\ ReadSoFar(j)
    BY <1>4, <1>7
  <2>2. AnswerFits(j, e.rows, again)
    BY <1>5, <1>6, <2>1
  <2>3. QED
    BY <1>3, <1>5, <1>7, <2>1, <2>2, AnswerKeeps
<1>9. PICK v : v = w
  OBVIOUS
<1>10. /\ DOMAIN v = JobFields /\ v.failed \in BOOLEAN /\ v.moved \in BOOLEAN /\ v.pc = "data" /\ job' = {v}
       /\ ~v.failed /\ ~v.moved => ReadSoFar(v)
  BY <1>3, <1>4, <1>7, <1>8, <1>9
<1>11. ~v.failed /\ ~v.moved => ReadSoFar(v)'
  BY <1>1, <1>10, SameCommCell
<1>12. QED
  BY <1>10, <1>11 DEF JobReads

(* Requests that are known are what is asked for.                          *)
LEMMA ReportKeeps ==
    ASSUME commcell \in CommCells, JobReads, GetReport
    PROVE  JobReads'
<1>1. commcell' = commcell
  BY DEF GetReport
<1>2. PICK j \in job, ok \in BOOLEAN :
        /\ j.pc = "report"
        /\ job' = {[j EXCEPT !.pc = "data", !.specs = r.specs, !.plan = r.plan] :
                     r \in IF ok THEN requests(commcell.report) ELSE {}}
  BY DEF GetReport
<1>3. DOMAIN j = JobFields /\ j.failed \in BOOLEAN /\ j.moved \in BOOLEAN
      /\ j.i = 1 /\ j.attempt = 1 /\ j.executions = <<>>
  BY <1>2 DEF JobReads
<1>4. ASSUME NEW v \in job'
      PROVE  /\ DOMAIN v = JobFields /\ v.failed \in BOOLEAN /\ v.moved \in BOOLEAN /\ v.pc = "data"
             /\ ReadSoFar(v)
  <2>1. PICK r \in requests(commcell.report) :
          v = [j EXCEPT !.pc = "data", !.specs = r.specs, !.plan = r.plan]
    BY <1>2
  <2>2. r = PlanNow /\ requests(commcell.report) # {}
    BY <2>1, PlanIs
  <2>3. /\ DOMAIN v = JobFields /\ v.failed = j.failed /\ v.moved = j.moved /\ v.pc = "data"
        /\ v.specs = r.specs /\ v.plan = r.plan /\ v.i = 1 /\ v.attempt = 1 /\ v.executions = <<>>
    BY <1>3, <2>1 DEF JobFields
  <2>4. Len(v.plan) \in Nat
    BY <2>2, <2>3, PlanIs
  <2>5. IsList(v.executions) /\ Len(v.executions) = 0
    BY <2>3 DEF IsList
  <2>6. v.i \in 1..(Len(v.plan) + 1) /\ v.attempt \in Nat \ {0} /\ Len(v.executions) = v.i - 1
    BY <2>3, <2>4, <2>5
  <2>7. \A n \in {3, 4} : ~(n < v.i) /\ n # v.i
    BY <2>3
  <2>8. ~(v.i > 1) /\ ~(v.i > 2)
    BY <2>3
  <2>9. ReadSoFar(v)
    BY <2>2, <2>3, <2>5, <2>6, <2>7, <2>8 DEF ReadSoFar
  <2>10. QED
    BY <1>3, <2>3, <2>9
<1>5. \A v \in job' : ReadSoFar(v)'
  BY <1>1, <1>4, SameCommCell
<1>6. QED
  BY <1>4, <1>5 DEF JobReads

(* Without a step of the collection's last kind nothing stored changes.    *)
LEMMA LicensesStay ==
    ASSUME LicenseIInv, commcell' = commcell, stored' = stored
    PROVE  LicensesOfOneOrganisation'
<1>1. /\ \A kind : Once(kind)' <=> Once(kind)
      /\ \A n : Asked(n)' <=> Asked(n)
      /\ \A sections : (OtherOfOne(sections)' <=> OtherOfOne(sections))
                       /\ (AgentsOfOne(sections)' <=> AgentsOfOne(sections))
  BY SameCommCell
<1>2. QED
  BY <1>1 DEF LicenseIInv, LicensesOfOneOrganisation

(* What is collected replaces what is stored.                              *)
LEMMA CollectKeeps ==
    ASSUME LicenseIInv, Premises, collect_from_rest
    PROVE  LicenseIInv'
<1> USE DEF Premises
<1>1. commcell' = commcell /\ job' = {} /\ commcell \in CommCells /\ JobReads
  BY DEF collect_from_rest, LicenseIInv
<1>2. PICK j \in job :
       /\ j.pc = "data" /\ j.i > Len(j.plan)
       /\ LET executions == [n \in DOMAIN j.specs |-> ExecutionOf(j, j.specs[n])]
              normalized == normalize_license_summary_rest_extraction(j.specs, executions)
          IN  stored' = IF normalized.other = <<>> /\ normalized.agent = <<>> THEN stored
                        ELSE {[sections |-> adapt(persist_license_summary_artifact(normalized)),
                               failed |-> j.failed, moved |-> j.moved]}
  BY DEF collect_from_rest
<1> DEFINE normalized == normalize_license_summary_rest_extraction(j.specs,
                           [n \in DOMAIN j.specs |-> ExecutionOf(j, j.specs[n])])
           sections == adapt(persist_license_summary_artifact(normalized))
<1>3. ~j.failed /\ ~j.moved => ReadSoFar(j)
  BY <1>1, <1>2 DEF JobReads
<1>4. ReadSoFar(j) => /\ Once("other") /\ Asked(3) => OtherOfOne(sections)
                      /\ Once("agent") /\ Asked(4) => AgentsOfOne(sections)
  <2> SUFFICES ASSUME ReadSoFar(j)
               PROVE  /\ Once("other") /\ Asked(3) => OtherOfOne(sections)
                      /\ Once("agent") /\ Asked(4) => AgentsOfOne(sections)
    OBVIOUS
  <2>1. QED
    BY <1>1, <1>2, CollectedIsOfOne
<1>5. stored' = stored \/ stored' = {[sections |-> sections, failed |-> j.failed, moved |-> j.moved]}
  BY <1>2
<1> HIDE DEF sections
<1>6. PICK s : s = sections
  OBVIOUS
<1>7. /\ \A kind : Once(kind)' <=> Once(kind)
      /\ \A n : Asked(n)' <=> Asked(n)
      /\ \A t : (OtherOfOne(t)' <=> OtherOfOne(t)) /\ (AgentsOfOne(t)' <=> AgentsOfOne(t))
  BY <1>1, SameCommCell
<1>8. LicensesOfOneOrganisation'
  <2>1. CASE stored' = stored
    BY <1>1, <2>1, LicensesStay
  <2>2. CASE stored' = {[sections |-> sections, failed |-> j.failed, moved |-> j.moved]}
    <3> SUFFICES ASSUME NEW a \in stored', ~a.failed, ~a.moved
                 PROVE  /\ Once("other")' /\ Asked(3)' => OtherOfOne(a.sections)'
                        /\ Once("agent")' /\ Asked(4)' => AgentsOfOne(a.sections)'
      BY DEF LicensesOfOneOrganisation
    <3>1. a.sections = s /\ ~j.failed /\ ~j.moved
      BY <1>6, <2>2
    <3>2. /\ Once("other") /\ Asked(3) => OtherOfOne(s)
          /\ Once("agent") /\ Asked(4) => AgentsOfOne(s)
      BY <1>3, <1>4, <1>6, <3>1
    <3>3. QED
      BY <1>7, <3>1, <3>2
  <2>3. QED
    BY <1>5, <2>1, <2>2
<1>9. \A a \in stored' : DOMAIN a = StoredFields
  BY <1>5 DEF LicenseIInv, StoredFields
<1>10. JobReads' /\ commcell' \in CommCells
  BY <1>1 DEF JobReads
<1>11. QED
  BY <1>8, <1>9, <1>10 DEF LicenseIInv

(* Once the CommCell has changed, nothing is said of what was read before. *)
LEMMA ChangeKeeps ==
    ASSUME LicenseIInv, CommCellChanges
    PROVE  LicenseIInv'
<1>1. commcell' \in CommCells
  BY DEF CommCellChanges
<1>2. \A v \in job' : \E j \in job : v = [j EXCEPT !.moved = TRUE]
  BY DEF CommCellChanges
<1>3. \A b \in stored' : \E a \in stored : b = [a EXCEPT !.moved = TRUE]
  BY DEF CommCellChanges
<1>4. ASSUME NEW v \in job'
      PROVE  /\ DOMAIN v = JobFields /\ v.pc \in {"report", "data"} /\ v.failed \in BOOLEAN /\ v.moved = TRUE
             /\ v.pc = "report" => v.i = 1 /\ v.attempt = 1 /\ v.executions = <<>>
  <2>1. PICK j \in job : v = [j EXCEPT !.moved = TRUE]
    BY <1>2
  <2>2. /\ DOMAIN j = JobFields /\ j.pc \in {"report", "data"} /\ j.failed \in BOOLEAN
        /\ j.pc = "report" => j.i = 1 /\ j.attempt = 1 /\ j.executions = <<>>
    BY DEF LicenseIInv, JobReads
  <2>3. /\ DOMAIN v = DOMAIN j /\ v.moved = TRUE /\ v.pc = j.pc /\ v.failed = j.failed
        /\ v.i = j.i /\ v.attempt = j.attempt /\ v.executions = j.executions
    BY <2>1, <2>2 DEF JobFields
  <2>4. QED
    BY <2>2, <2>3
<1>5. JobReads'
  BY <1>4 DEF JobReads
<1>6. ASSUME NEW b \in stored' PROVE DOMAIN b = StoredFields /\ b.moved = TRUE
  <2>1. PICK a \in stored : b = [a EXCEPT !.moved = TRUE]
    BY <1>3
  <2>2. DOMAIN a = StoredFields
    BY DEF LicenseIInv
  <2>3. QED
    BY <2>1, <2>2 DEF StoredFields
<1>7. LicensesOfOneOrganisation'
  BY <1>6 DEF LicensesOfOneOrganisation
<1>8. QED
  BY <1>1, <1>5, <1>6, <1>7 DEF LicenseIInv

(* The invariant is inductive.                                             *)
LEMMA LicenseStep ==
    ASSUME LicenseIInv, Premises, [Next]_vars
    PROVE  LicenseIInv'
<1>1. CASE CollectBegin
  <2>1. commcell' = commcell /\ stored' = stored
    BY <1>1 DEF CollectBegin
  <2>2. JobReads'
    <3>1. ASSUME NEW v \in job'
          PROVE  /\ DOMAIN v = JobFields /\ v.pc = "report" /\ v.failed = FALSE /\ v.moved = FALSE
                 /\ v.i = 1 /\ v.attempt = 1 /\ v.executions = <<>>
      <4>1. v = [pc |-> "report", specs |-> <<>>, plan |-> <<>>, i |-> 1, attempt |-> 1,
                 candidates |-> <<>>, executions |-> <<>>, failed |-> FALSE, moved |-> FALSE]
        BY <1>1 DEF CollectBegin
      <4>2. QED
        BY <4>1 DEF JobFields
    <3>2. QED
      BY <3>1 DEF JobReads
  <2>3. QED
    BY <2>1, <2>2, LicensesStay DEF LicenseIInv
<1>2. CASE GetReport
  <2>1. commcell' = commcell /\ stored' = stored
    BY <1>2 DEF GetReport
  <2>2. JobReads'
    BY <1>2, ReportKeeps DEF LicenseIInv
  <2>3. QED
    BY <2>1, <2>2, LicensesStay DEF LicenseIInv
<1>3. CASE GetDatasetData
  <2>1. commcell' = commcell /\ stored' = stored
    BY <1>3 DEF GetDatasetData
  <2>2. JobReads'
    BY <1>3, GetKeeps DEF LicenseIInv
  <2>3. QED
    BY <2>1, <2>2, LicensesStay DEF LicenseIInv
<1>4. CASE collect_from_rest
  BY <1>4, CollectKeeps
<1>5. CASE CommCellChanges
  BY <1>5, ChangeKeeps
<1>6. CASE UNCHANGED vars
  <2>1. commcell' = commcell /\ stored' = stored /\ job' = job
    BY <1>6 DEF vars
  <2>2. JobReads'
    <3>1. \A v : ReadSoFar(v)' <=> ReadSoFar(v)
      BY <2>1, SameCommCell
    <3>2. QED
      BY <2>1, <3>1 DEF LicenseIInv, JobReads
  <2>3. QED
    BY <2>1, <2>2, LicensesStay DEF LicenseIInv
<1>7. QED
  BY <1>1, <1>2, <1>3, <1>4, <1>5, <1>6 DEF Next

(* A stored license list is the list of one organisation, in full up to the*)
(* limit, the CommCell's own where that has licenses, and an amount is the *)
(* CommCell's (collect_license_summary_rest, _execute_with_guid_candidates)*)
(* on every CommCell whose datasets are there, whose organisations fit in  *)
(* one answer, whose amounts are whole numbers and whose lists are apart.  *)
THEOREM LicensesAreOfOneOrganisation ==
    ASSUME DatasetsAreThere, OrganisationsFit, AmountsAreWhole, ListsAreApart
    PROVE  Spec => []LicensesOfOneOrganisation
<1>1. Init => LicenseIInv
  BY DEF Init, LicenseIInv, JobReads, LicensesOfOneOrganisation
<1>2. LicenseIInv /\ [Next]_vars => LicenseIInv'
  BY LicenseStep DEF Premises
<1>3. LicenseIInv => LicensesOfOneOrganisation
  BY DEF LicenseIInv
<1>4. QED
  BY <1>1, <1>2, <1>3, PTL DEF Spec
=============================================================================
