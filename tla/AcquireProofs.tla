---------------------------- MODULE AcquireProofs ----------------------------
(***************************************************************************)
(* Whatever the CommCell answers, the files hold and the proposals         *)
(* declare, an artifact is whole: each section of its recipe is in it,     *)
(* failed or, in a file, absent.  And whatever the CommCell's users do     *)
(* between two requests, a section read live holds the first rows of the   *)
(* dataset its recipe means, and of these only the ones it asks for.  No   *)
(* file shows a registration code, and what the gate admitted runs.        *)
(***************************************************************************)
EXTENDS Acquire, SequenceLemmas

-----------------------------------------------------------------------------
(* Rows served and rows shaped.                                            *)

(* What the CommCell serves are rows of the dataset that have the values   *)
(* asked for, as far as the dataset knows the parameters.                  *)
Lists(d) == d.rows \in Seq(Range(d.rows))

LEMMA ServesType ==
    ASSUME NEW d, Lists(d), NEW params
    PROVE  /\ Serves(d, params) \in Seq(Range(d.rows))
           /\ \A i \in DOMAIN Serves(d, params) : \A p \in DOMAIN params \cap d.params :
                Allows(params[p], Serves(d, params)[i][p])
<1> DEFINE places == {i \in DOMAIN d.rows : \A p \in DOMAIN params \cap d.params : Allows(params[p], d.rows[i][p])}
           At == {d.rows[k] : k \in places \cap DOMAIN d.rows}
<1>1. AtPlaces(d.rows, places) \in Seq(At)
  BY AtPlacesType DEF Lists
<1>2. Serves(d, params) = AtPlaces(d.rows, places)
  BY DEF Serves
<1>3. \A x \in At : x \in Range(d.rows) /\ \A p \in DOMAIN params \cap d.params : Allows(params[p], x[p])
  BY DEF Range
<1> HIDE DEF At, places
<1>4. Serves(d, params) \in Seq(At)
  BY <1>1, <1>2
<1>5. QED
  BY <1>3, <1>4

(* The dataset after a row was appended.                                   *)
Longer(d, e) == (\E r : e.rows = Append(d.rows, r)) /\ e.params = d.params

(* A row appended is served after the others or not at all.                *)
LEMMA ServesMore ==
    ASSUME NEW d, Lists(d), NEW e, Longer(d, e), NEW params
    PROVE  /\ Lists(e)
           /\ Len(Serves(d, params)) <= Len(Serves(e, params))
           /\ \A i \in 1 .. Len(Serves(d, params)) : Serves(e, params)[i] = Serves(d, params)[i]
<1> DEFINE s == d.rows
           t == e.rows
           P == {i \in DOMAIN s : \A p \in DOMAIN params \cap d.params : Allows(params[p], s[i][p])}
           Q == {i \in DOMAIN t : \A p \in DOMAIN params \cap e.params : Allows(params[p], t[i][p])}
<1>0. PICK r : t = Append(s, r)
  BY DEF Longer
<1>1. s \in Seq(Range(s)) /\ Len(s) \in Nat /\ DOMAIN s = 1 .. Len(s) /\ e.params = d.params
  BY DEF Lists, Longer
<1> HIDE DEF s, t
<1>2. /\ Len(t) = Len(s) + 1 /\ DOMAIN t = 1 .. Len(t) /\ t \in Seq(Range(s) \cup {r})
      /\ \A i \in 1 .. Len(s) : s[i] = t[i]
  BY <1>0, <1>1
<1>3. Agree(s, P, t, Q, Len(s))
  BY <1>1, <1>2 DEF Agree
<1>4. Serves(d, params) = AtPlaces(s, P) /\ Serves(e, params) = AtPlaces(t, Q)
  BY DEF Serves, s, t
<1> HIDE DEF P, Q
<1>5. AtPlaces(t, Q) = IF Len(t) \in Q THEN Append(AtPlaces(s, P), t[Len(t)]) ELSE AtPlaces(s, P)
  <2>1. Len(s) \in Nat /\ Len(t) = Len(s) + 1
    BY <1>1, <1>2
  <2>2. QED
    BY <1>3, <2>1, AtPlacesLonger
<1>6. AtPlaces(s, P) \in Seq(Range(s))
  BY <1>4, ServesType DEF s
<1>7. Lists(e)
  <2>1. \A i \in 1 .. Len(t) : t[i] \in Range(t)
    BY <1>2 DEF Range
  <2>2. t \in Seq(Range(t))
    BY <1>1, <1>2, <2>1
  <2>3. QED
    BY <2>2 DEF Lists, t
<1>8. /\ Len(AtPlaces(s, P)) <= Len(AtPlaces(t, Q))
      /\ \A i \in 1 .. Len(AtPlaces(s, P)) : AtPlaces(t, Q)[i] = AtPlaces(s, P)[i]
  <2> DEFINE x == AtPlaces(s, P)
             y == t[Len(t)]
  <2> HIDE DEF x, y
  <2>1. x \in Seq(Range(s)) /\ AtPlaces(t, Q) \in {x, Append(x, y)}
    BY <1>5, <1>6 DEF x, y
  <2>2. QED
    BY <2>1 DEF x
<1>9. QED
  BY <1>4, <1>7, <1>8

(* Rows are shaped one by one.                                             *)
LEMMA ShapedRows ==
    ASSUME NEW S, NEW rows \in Seq(S), NEW instr
    PROVE  LET shaped == shape_dataset_rows(rows, instr)
           IN  /\ shaped \in Seq(Range(shaped)) /\ Len(shaped) = Len(rows)
               /\ \A i \in 1 .. Len(rows) : shaped[i] = shape_row(rows[i], instr)
<1> DEFINE shaped == shape_dataset_rows(rows, instr)
<1>1. shaped = [i \in 1 .. Len(rows) |-> shape_row(rows[i], instr)] /\ Len(rows) \in Nat
  BY DEF shape_dataset_rows
<1> HIDE DEF shaped
<1>2. \A i \in 1 .. Len(rows) : shaped[i] \in Range(shaped)
  BY <1>1 DEF Range
<1>3. shaped \in Seq(Range(shaped)) /\ Len(shaped) = Len(rows)
  BY <1>1, <1>2
<1>4. QED
  BY <1>1, <1>3 DEF shaped

(* A prefix, element by element.                                           *)
LEMMA PrefixIs ==
    ASSUME NEW S, NEW s \in Seq(S), NEW T, NEW t \in Seq(T)
    PROVE  IsPrefix(s, t) <=> Len(s) <= Len(t) /\ \A i \in 1 .. Len(s) : s[i] = t[i]
<1>1. Len(s) \in Nat /\ Len(t) \in Nat
  OBVIOUS
<1>2. ASSUME Len(s) <= Len(t) PROVE SubSeq(s, 1, Len(s)) = SubSeq(t, 1, Len(s)) <=> \A i \in 1 .. Len(s) : s[i] = t[i]
  <2>1. /\ SubSeq(s, 1, Len(s)) = [i \in 1 .. Len(s) |-> s[i]]
        /\ SubSeq(t, 1, Len(s)) = [i \in 1 .. Len(s) |-> t[i]]
    BY <1>1, <1>2
  <2>2. QED
    BY <2>1
<1>3. QED
  BY <1>1, <1>2 DEF IsPrefix

(* What a section holds of a dataset it also holds of the longer one.      *)
LEMMA HoldsMore ==
    ASSUME NEW d, Lists(d), NEW e, Longer(d, e),
           NEW rows, NEW instr, NEW began, Held(rows, d, instr, began)
    PROVE  Held(rows, e, instr, began)
<1>0. rows \in Seq(Range(rows)) /\ HoldsFirst(rows, d, instr, began)
  BY DEF Held
<1> DEFINE s == Serves(d, instr.parameters)
           t == Serves(e, instr.parameters)
<1>1. /\ Lists(e) /\ s \in Seq(Range(d.rows)) /\ t \in Seq(Range(e.rows)) /\ Len(s) <= Len(t)
      /\ \A i \in 1 .. Len(s) : t[i] = s[i]
  BY ServesMore, ServesType
<1> HIDE DEF s, t
<1>2. /\ shape_dataset_rows(s, instr) \in Seq(Range(shape_dataset_rows(s, instr)))
      /\ Len(shape_dataset_rows(s, instr)) = Len(s)
      /\ \A i \in 1 .. Len(s) : shape_dataset_rows(s, instr)[i] = shape_row(s[i], instr)
  BY <1>1, ShapedRows
<1>3. /\ shape_dataset_rows(t, instr) \in Seq(Range(shape_dataset_rows(t, instr)))
      /\ Len(shape_dataset_rows(t, instr)) = Len(t)
      /\ \A i \in 1 .. Len(t) : shape_dataset_rows(t, instr)[i] = shape_row(t[i], instr)
  BY <1>1, ShapedRows
<1>4. IsPrefix(rows, shape_dataset_rows(s, instr))
  <2>1. IsPrefix(rows, shape_dataset_rows(Serves(d, instr.parameters), instr))
    BY <1>0 DEF HoldsFirst
  <2>2. QED
    BY <2>1 DEF s
<1>5. Len(rows) <= Len(s) /\ \A i \in 1 .. Len(rows) : rows[i] = shape_row(s[i], instr)
  <2>1. /\ Len(rows) <= Len(shape_dataset_rows(s, instr))
        /\ \A i \in 1 .. Len(rows) : rows[i] = shape_dataset_rows(s, instr)[i]
    BY <1>0, <1>2, <1>4, PrefixIs
  <2>2. Len(rows) \in Nat /\ Len(s) \in Nat
    BY <1>0, <1>1
  <2>3. \A i \in 1 .. Len(rows) : i \in 1 .. Len(s)
    BY <1>2, <2>1, <2>2
  <2>4. QED
    BY <1>2, <2>1, <2>3
<1>6. IsPrefix(rows, shape_dataset_rows(t, instr))
  <2>1. Len(rows) \in Nat /\ Len(s) \in Nat /\ Len(t) \in Nat
    BY <1>0, <1>1
  <2>2. \A i \in 1 .. Len(rows) : i \in 1 .. Len(s) /\ i \in 1 .. Len(t)
    BY <1>1, <1>5, <2>1
  <2>3. \A i \in 1 .. Len(rows) : rows[i] = shape_dataset_rows(t, instr)[i]
    BY <1>1, <1>3, <1>5, <2>2
  <2>4. Len(rows) <= Len(shape_dataset_rows(t, instr))
    BY <1>1, <1>3, <1>5, <2>1
  <2>5. QED
    BY <1>0, <1>3, <2>3, <2>4, PrefixIs
<1>7. QED
  BY <1>0, <1>6 DEF Held, HoldsFirst, t

-----------------------------------------------------------------------------
(* Pages.                                                                  *)

(* The least of two.                                                       *)
LEMMA LesserOf ==
    ASSUME NEW a \in Nat, NEW b \in Nat
    PROVE  MinOfSet({a, b}) = IF a <= b THEN a ELSE b
<1> DEFINE m == IF a <= b THEN a ELSE b
<1>1. m \in {a, b} /\ \A y \in {a, b} : m <= y
  OBVIOUS
<1>2. \A x \in {a, b} : (\A y \in {a, b} : x <= y) => x = m
  OBVIOUS
<1> HIDE DEF m
<1>3. (CHOOSE x \in {a, b} : \A y \in {a, b} : x <= y) = m
  BY <1>1, <1>2
<1>4. QED
  BY <1>3 DEF MinOfSet, m

(* Two neighbouring parts of a sequence make one.                          *)
LEMMA PartsJoin ==
    ASSUME NEW S, NEW s \in Seq(S), NEW o \in Nat, NEW m \in Nat, o <= m, m <= Len(s)
    PROVE  /\ SubSeq(s, 1, o) \o SubSeq(s, o + 1, m) = SubSeq(s, 1, m)
           /\ Len(SubSeq(s, o + 1, m)) = m - o /\ Len(SubSeq(s, 1, m)) = m
           /\ SubSeq(s, 1, m) \in Seq(S)
           /\ \A i \in 1 .. m : SubSeq(s, 1, m)[i] = s[i]
           /\ \A c \in 0 .. m : SubSeq(SubSeq(s, 1, m), 1, c) = SubSeq(s, 1, c)
<1> DEFINE x == SubSeq(s, 1, o)
           y == SubSeq(s, o + 1, m)
           z == SubSeq(s, 1, m)
<1>1. /\ x \in Seq(S) /\ Len(x) = o /\ \A i \in 1 .. o : x[i] = s[i]
      /\ y \in Seq(S) /\ Len(y) = m - o /\ \A i \in 1 .. m - o : y[i] = s[o + i]
      /\ z \in Seq(S) /\ Len(z) = m /\ \A i \in 1 .. m : z[i] = s[i]
  <2>1. x \in Seq(S) /\ Len(x) = o /\ \A i \in 1 .. o : x[i] = s[i]
    OBVIOUS
  <2>2. y \in Seq(S) /\ Len(y) = m - o /\ \A i \in 1 .. m - o : y[i] = s[o + i]
    OBVIOUS
  <2>3. z \in Seq(S) /\ Len(z) = m /\ \A i \in 1 .. m : z[i] = s[i]
    OBVIOUS
  <2> HIDE DEF x, y, z
  <2>4. QED
    BY <2>1, <2>2, <2>3
<1> HIDE DEF x, y, z
<1>2. x \o y = z
  <2>1. x \o y \in Seq(S) /\ Len(x \o y) = m
    <3>1. x \in Seq(S) /\ y \in Seq(S)
      BY <1>1
    <3>2. x \o y \in Seq(S) /\ Len(x \o y) = Len(x) + Len(y)
      BY <3>1
    <3>3. Len(x) + Len(y) = m
      BY <1>1
    <3>4. QED
      BY <3>2, <3>3
  <2>2. ASSUME NEW i \in 1 .. m PROVE (x \o y)[i] = z[i]
    <3>1. CASE i <= o
      BY <1>1, <3>1
    <3>2. CASE ~(i <= o)
      <4>1. i - o \in 1 .. m - o /\ o + (i - o) = i
        BY <3>2
      <4>2. (x \o y)[i] = y[i - o]
        BY <1>1, <3>2, <4>1
      <4>3. QED
        BY <1>1, <4>1, <4>2
    <3>3. QED
      BY <3>1, <3>2
  <2> DEFINE w == x \o y
  <2>3. w \in Seq(S) /\ Len(w) = m /\ \A i \in 1 .. m : w[i] = z[i]
    BY <2>1, <2>2
  <2> HIDE DEF w
  <2>4. w = z
    BY <1>1, <2>3
  <2>5. QED
    BY <2>4 DEF w
<1>3. ASSUME NEW c \in 0 .. m PROVE SubSeq(z, 1, c) = SubSeq(s, 1, c)
  <2>1. /\ SubSeq(z, 1, c) = [i \in 1 .. c |-> z[i]]
        /\ SubSeq(s, 1, c) = [i \in 1 .. c |-> s[i]]
    BY <1>1
  <2>2. \A i \in 1 .. c : z[i] = s[i]
    BY <1>1
  <2>3. QED
    BY <2>1, <2>2
<1>4. QED
  BY <1>1, <1>2, <1>3 DEF x, y, z

(* One page more: the rows fetched are the first ones still, and when the  *)
(* reading ends all there were at its beginning, or as many as asked for.  *)
LEMMA TurnHolds ==
    ASSUME NEW d, Lists(d), HasRows(d), NEW instr, instr.limit \in Nat,
           NEW f, NEW began, ReadsFirst(f, d, instr, began)
    PROVE  LET all == Serves(d, instr.parameters)
               size == IF instr.limit # 0 THEN instr.limit ELSE PageSize
               turn == fetch_page(f, DataGet(d, instr.parameters, f.offset, size), instr.limit, size)
               b == IF f.offset # 0 THEN began ELSE Len(all)
           IN  IF turn.done THEN Held(shape_dataset_rows(turn.rows, instr), d, instr, b)
               ELSE ReadsFirst(turn, d, instr, b)
<1> DEFINE all == Serves(d, instr.parameters)
           size == IF instr.limit # 0 THEN instr.limit ELSE PageSize
           page == DataGet(d, instr.parameters, f.offset, size)
           turn == fetch_page(f, page, instr.limit, size)
           b == IF f.offset # 0 THEN began ELSE Len(all)
           o == f.offset
           n == Len(all)
           lim == instr.limit
           m == MinOfSet({o + size, n})
           c == IF lim # 0 /\ m > lim THEN lim ELSE m
           records == SubSeq(all, o + 1, m)
<1>1. all \in Seq(Range(d.rows)) /\ n \in Nat
  BY ServesType
<1>2. /\ o \in 0 .. n /\ f.rows = SubSeq(all, 1, o) /\ (lim # 0 => o < lim)
      /\ (o # 0 => began \in 0 .. n) /\ b \in 0 .. n
  BY <1>1 DEF ReadsFirst
<1>3. size \in Nat \ {0} /\ lim \in Nat /\ (lim # 0 => size = lim)
  BY CollectAssumption
<1>4. page.shape = d.shape /\ page.rows = records /\ (page.total = {} \/ page.total = {n})
  BY DEF DataGet
<1>5. extract_records(page) = records
  BY <1>4 DEF extract_records, HasRows
<1> HIDE DEF size, page
<1>6. /\ turn.offset = o + Len(records)
      /\ turn.rows = IF lim # 0 /\ Len(f.rows \o records) > lim
                     THEN SubSeq(f.rows \o records, 1, lim) ELSE f.rows \o records
      /\ turn.done = (\/ records = <<>> \/ Len(records) < size
                      \/ lim # 0 /\ Len(f.rows \o records) >= lim
                      \/ \E t \in IF page.shape = "list" THEN {} ELSE page.total : o + Len(records) >= t)
  BY <1>5 DEF fetch_page
<1> HIDE DEF all, n, o, b, lim, records, turn
<1>7. m = IF o + size <= n THEN o + size ELSE n
  BY <1>1, <1>2, <1>3, LesserOf
<1> HIDE DEF m
<1>8. m \in Nat /\ o <= m /\ m <= n /\ o \in Nat /\ c \in 0 .. m
  BY <1>1, <1>2, <1>3, <1>7
<1>9. /\ f.rows \o records = SubSeq(all, 1, m) /\ Len(records) = m - o
      /\ Len(SubSeq(all, 1, m)) = m
      /\ SubSeq(SubSeq(all, 1, m), 1, c) = SubSeq(all, 1, c)
  BY <1>1, <1>2, <1>8, PartsJoin DEF n, records
<1>10. turn.offset = m /\ turn.rows = SubSeq(all, 1, c)
  BY <1>1, <1>2, <1>3, <1>6, <1>8, <1>9
<1>11. CASE turn.done
  <2>1. m = n \/ (lim # 0 /\ m >= lim)
    <3>1. records = <<>> => m - o = 0
      BY <1>9
    <3>2. \/ m - o = 0 \/ m - o < size \/ (lim # 0 /\ m >= lim)
          \/ (page.total = {n} /\ m >= n)
      BY <1>4, <1>6, <1>9, <1>11, <3>1, <1>10
    <3>3. QED
      BY <1>1, <1>2, <1>3, <1>7, <1>8, <3>2
  <2>2. /\ SubSeq(all, 1, c) \in Seq(Range(d.rows)) /\ Len(SubSeq(all, 1, c)) = c
        /\ \A i \in 1 .. c : SubSeq(all, 1, c)[i] = all[i]
    <3>1. c \in Nat /\ 0 <= c /\ c <= n /\ 0 \in Nat
      BY <1>1, <1>8
    <3>2. QED
      BY <1>1, <3>1, PartsJoin DEF n
  <2> DEFINE rows == SubSeq(all, 1, c)
             shaped == shape_dataset_rows(rows, instr)
             shapedAll == shape_dataset_rows(all, instr)
  <2> HIDE DEF rows, c
  <2>3. /\ rows \in Seq(Range(d.rows)) /\ Len(rows) = c /\ c \in Nat /\ c <= n /\ n = Len(all)
        /\ \A i \in 1 .. c : rows[i] = all[i]
    BY <1>1, <1>8, <2>2 DEF rows, n
  <2>4. /\ shaped \in Seq(Range(shaped)) /\ Len(shaped) = Len(rows)
        /\ \A i \in 1 .. Len(rows) : shaped[i] = shape_row(rows[i], instr)
    BY <2>3, ShapedRows
  <2>5. /\ shapedAll \in Seq(Range(shapedAll)) /\ Len(shapedAll) = Len(all)
        /\ \A i \in 1 .. Len(all) : shapedAll[i] = shape_row(all[i], instr)
    BY <1>1, ShapedRows
  <2> HIDE DEF shaped, shapedAll
  <2>6. Len(shaped) <= Len(shapedAll) /\ \A i \in 1 .. Len(shaped) : shaped[i] = shapedAll[i]
    <3>1. \A i \in 1 .. c : i \in 1 .. n
      BY <1>1, <2>3
    <3>2. QED
      BY <2>3, <2>4, <2>5, <3>1
  <2>7. IsPrefix(shaped, shapedAll)
    BY <2>4, <2>5, <2>6, PrefixIs
  <2>8. Len(shaped) = c /\ (c >= b \/ (lim # 0 /\ c = lim)) /\ (lim # 0 => c <= lim)
    BY <1>1, <1>2, <1>3, <1>8, <2>1, <2>3, <2>4 DEF c
  <2>9. Held(shaped, d, instr, b)
    BY <2>4, <2>7, <2>8 DEF Held, HoldsFirst, shapedAll, all, lim
  <2>10. QED
    BY <1>10, <1>11, <2>9 DEF turn, page, size, b, n, o, all, shaped, rows
<1>12. CASE ~turn.done
  <2>1. lim # 0 => m < lim
    BY <1>3, <1>6, <1>8, <1>9, <1>12
  <2>2. c = m /\ turn.rows = SubSeq(all, 1, m)
    BY <1>3, <1>8, <1>10, <2>1
  <2>3. ReadsFirst(turn, d, instr, b)
    <3>1. turn.offset \in 0 .. n /\ b \in 0 .. n
      BY <1>1, <1>2, <1>8, <1>10
    <3>2. QED
      BY <1>10, <2>1, <2>2, <3>1 DEF ReadsFirst, all, n, lim
  <2>4. QED
    BY <1>12, <2>3 DEF turn, page, size, b, n, o, all
<1>13. QED
  BY <1>11, <1>12

(* Rows all of which bite make a list that bites.                          *)
LEMMA BiteIn ==
    ASSUME NEW S, NEW rows \in Seq(S), NEW params, \A row \in S : Bites(row, params)
    PROVE  AllBite(rows, params)
<1>1. DOMAIN rows = 1 .. Len(rows) /\ Len(rows) \in Nat /\ \A i \in 1 .. Len(rows) : rows[i] \in S
  OBVIOUS
<1>2. \A i \in 1 .. Len(rows) : rows[i] \in Range(rows)
  BY <1>1 DEF Range
<1>3. rows \in Seq(Range(rows))
  BY <1>1, <1>2
<1>4. \A row \in Range(rows) : row \in S
  BY <1>1 DEF Range
<1>5. QED
  BY <1>3, <1>4 DEF AllBite

(* No row of a page escapes a parameter the dataset knows.                 *)
LEMMA TurnBites ==
    ASSUME NEW d, Lists(d), NEW instr, DOMAIN instr.parameters \subseteq d.params, instr.limit \in Nat,
           NEW f, f.offset \in Nat, AllBite(f.rows, instr.parameters), NEW size \in Nat
    PROVE  LET turn == fetch_page(f, DataGet(d, instr.parameters, f.offset, size), instr.limit, size)
           IN  turn.offset \in Nat /\ AllBite(turn.rows, instr.parameters)
<1> DEFINE params == instr.parameters
           all == Serves(d, params)
           page == DataGet(d, params, f.offset, size)
           turn == fetch_page(f, page, instr.limit, size)
           m == MinOfSet({f.offset + size, Len(all)})
           S == {all[i] : i \in DOMAIN all} \cup {<<>>}
           records == extract_records(page)
<1>1. all \in Seq(Range(d.rows)) /\ \A i \in DOMAIN all : Bites(all[i], params)
  BY ServesType DEF Bites
<1>2. \A row \in S : Bites(row, params)
  BY <1>1 DEF Bites
<1>3. m \in Nat /\ m <= Len(all) /\ Len(all) \in Nat
  BY <1>1, LesserOf
<1>4. page.rows = SubSeq(all, f.offset + 1, m)
  BY DEF DataGet
<1> HIDE DEF page, m
<1>5. page.rows \in Seq(S)
  <2> DEFINE o == f.offset
  <2>0. o \in Nat /\ page.rows = SubSeq(all, o + 1, m)
    BY <1>4
  <2> HIDE DEF o, all
  <2>1. all \in Seq({all[i] : i \in DOMAIN all}) /\ DOMAIN all = 1 .. Len(all)
    BY <1>1
  <2>2. \A i \in 1 .. m - o : o + i \in 1 .. Len(all) /\ o + i \in o + 1 .. m
    BY <1>3, <2>0
  <2>3. page.rows = [i \in 1 .. (m - (o + 1) + 1) |-> all[i + (o + 1) - 1]]
    BY <1>3, <2>0
  <2>4. CASE m <= o
    <3>1. page.rows = <<>>
      BY <1>3, <2>0, <2>3, <2>4
    <3>2. QED
      BY <3>1
  <2>5. CASE ~(m <= o)
    <3>1. m - o \in Nat /\ m - (o + 1) + 1 = m - o /\ \A i \in 1 .. m - o : i + (o + 1) - 1 = o + i
      <4>1. m \in Nat /\ o \in Nat /\ o < m
        BY <1>3, <2>0, <2>5
      <4>2. m - o \in Nat
        BY <4>1
      <4>3. m - (o + 1) + 1 = m - o
        BY <4>1
      <4>4. \A i \in 1 .. m - o : i + (o + 1) - 1 = o + i
        BY <4>1
      <4>5. QED
        BY <4>2, <4>3, <4>4
    <3>2. page.rows = [i \in 1 .. m - o |-> all[o + i]]
      BY <2>3, <3>1
    <3>3. \A i \in 1 .. m - o : all[o + i] \in S
      BY <2>1, <2>2
    <3> HIDE DEF S
    <3>4. QED
      BY <3>1, <3>2, <3>3
  <2>6. QED
    BY <2>4, <2>5
<1>6. records \in Seq(S)
  <2>1. CASE page.shape \in {"list", "records", "columns"}
    BY <1>5, <2>1 DEF extract_records
  <2>2. CASE page.shape = "lists"
    <3>1. records = [i \in DOMAIN page.rows |-> <<>>]
      BY <2>2 DEF extract_records
    <3>2. DOMAIN page.rows = 1 .. Len(page.rows) /\ Len(page.rows) \in Nat /\ <<>> \in S
      BY <1>5
    <3> HIDE DEF records, S
    <3>3. QED
      BY <3>1, <3>2
  <2>3. CASE page.shape \notin {"list", "records", "columns", "lists"}
    <3>1. records = <<>>
      BY <2>3 DEF extract_records
    <3>2. QED
      BY <3>1
  <2>4. QED
    BY <2>1, <2>2, <2>3
<1>7. /\ turn.offset = f.offset + Len(records)
      /\ turn.rows = IF instr.limit # 0 /\ Len(f.rows \o records) > instr.limit
                     THEN SubSeq(f.rows \o records, 1, instr.limit) ELSE f.rows \o records
  BY DEF fetch_page
<1> DEFINE both == f.rows \o records
<1> HIDE DEF S, records, turn
<1>8. f.rows \in Seq(Range(f.rows)) /\ \A row \in Range(f.rows) : Bites(row, params)
  BY DEF AllBite
<1>9. both \in Seq(S \cup Range(f.rows))
  <2>1. records \in Seq(S \cup Range(f.rows)) /\ f.rows \in Seq(S \cup Range(f.rows))
    BY <1>6, <1>8
  <2>2. QED
    BY <2>1
<1>10. turn.rows \in Seq(S \cup Range(f.rows))
  <2>1. turn.rows = IF instr.limit # 0 /\ Len(both) > instr.limit
                     THEN SubSeq(both, 1, instr.limit) ELSE both
    BY <1>7
  <2> HIDE DEF both
  <2>2. QED
    BY <1>9, <2>1
<1>11. AllBite(turn.rows, params)
  BY <1>2, <1>8, <1>10, BiteIn
<1>12. turn.offset \in Nat
  BY <1>6, <1>7
<1>13. QED
  BY <1>11, <1>12 DEF turn, page

(* Shaping leaves the columns asked for by parameter.                      *)
LEMMA ShapeBites ==
    ASSUME NEW instr, LiveInstruction(instr), \A p \in DOMAIN instr.parameters : Stays(p, instr),
           NEW rows, AllBite(rows, instr.parameters)
    PROVE  AllBite(shape_dataset_rows(rows, instr), instr.parameters)
<1> DEFINE params == instr.parameters
           columns == instr.column_map
<1>1. ASSUME NEW row, Bites(row, params) PROVE Bites(shape_row(row, instr), params)
  <2> DEFINE cleaned == [f \in DOMAIN row |->
                LET v == IF f \in instr.timestamp_fields THEN convert_timestamp(row[f], instr.timestamp_format)
                         ELSE row[f]
                IN  IF v \in instr.null_values THEN None ELSE v]
             mapped == apply_column_map(cleaned, columns)
  <2>1. DOMAIN cleaned = DOMAIN row /\ Bites(cleaned, params)
    BY <1>1 DEF Bites, Stays
  <2> HIDE DEF cleaned
  <2>2. Bites(mapped, params)
    <3>1. CASE columns = <<>>
      BY <2>1, <3>1 DEF apply_column_map
    <3>2. CASE columns # <<>>
      <4> DEFINE hit == {i \in DOMAIN columns : columns[i].source \in DOMAIN cleaned}
      <4>1. mapped = [f \in {columns[i].canonical : i \in hit} |->
                        cleaned[columns[MaxOfSet({i \in hit : columns[i].canonical = f})].source]]
        BY <3>2 DEF apply_column_map
      <4> HIDE DEF mapped
      <4>2. ASSUME NEW p \in DOMAIN params \cap DOMAIN mapped PROVE Allows(params[p], mapped[p])
        <5> DEFINE T == {i \in hit : columns[i].canonical = p}
        <5>1. T # {} /\ mapped[p] = cleaned[columns[MaxOfSet(T)].source]
          BY <4>1, <4>2
        <5>2. Len(columns) \in Nat /\ T \subseteq 1 .. Len(columns)
          BY DEF LiveInstruction
        <5>3. MaxOfSet(T) \in T
          <6> HIDE DEF T
          <6>1. QED
            BY <5>1, <5>2, GreatestIn
        <5>4. columns[MaxOfSet(T)].source = p /\ p \in DOMAIN cleaned
          BY <5>3, <4>2 DEF Stays
        <5>5. QED
          BY <2>1, <5>1, <5>4 DEF Bites
      <4>3. QED
        BY <4>2 DEF Bites
    <3>3. QED
      BY <3>1, <3>2
  <2>3. shape_row(row, instr) = IF instr.output_as = "findings" /\ instr.status_to_severity # <<>>
                                THEN WithSeverity(mapped, instr.status_to_severity) ELSE mapped
    BY DEF shape_row, cleaned
  <2> HIDE DEF mapped
  <2>4. CASE instr.output_as = "findings" /\ instr.status_to_severity # <<>>
    <3>1. \A p \in DOMAIN params : p # "severity"
      BY <2>4 DEF Stays
    <3>2. \A f \in DOMAIN WithSeverity(mapped, instr.status_to_severity) : f # "severity" =>
            f \in DOMAIN mapped /\ WithSeverity(mapped, instr.status_to_severity)[f] = mapped[f]
      BY DEF WithSeverity
    <3>3. QED
      BY <2>2, <2>3, <2>4, <3>1, <3>2 DEF Bites
  <2>5. QED
    BY <2>2, <2>3, <2>4
<1>2. rows \in Seq(Range(rows)) /\ \A row \in Range(rows) : Bites(row, params)
  BY DEF AllBite
<1> DEFINE shaped == shape_dataset_rows(rows, instr)
           S == {shape_row(row, instr) : row \in Range(rows)}
<1>3. /\ shaped \in Seq(Range(shaped)) /\ Len(shaped) = Len(rows)
      /\ \A i \in 1 .. Len(rows) : shaped[i] = shape_row(rows[i], instr)
  BY <1>2, ShapedRows
<1>4. \A row \in S : Bites(row, params)
  BY <1>1, <1>2
<1> HIDE DEF shaped
<1>5. \A i \in 1 .. Len(rows) : rows[i] \in Range(rows) /\ shaped[i] \in S
  BY <1>2, <1>3
<1> HIDE DEF S
<1>6. shaped \in Seq(S)
  BY <1>2, <1>3, <1>5
<1>7. AllBite(shaped, params)
  BY <1>4, <1>6, BiteIn
<1>8. QED
  BY <1>7 DEF shaped

-----------------------------------------------------------------------------
(* What masking does to a cell, a row and a section.                       *)

(* What leaves the mask shows its last segment only.                       *)
LEMMA MaskMasks == \A v : Masked(mask_registration_code(v))
  BY DEF Masked, mask_registration_code, Code, None

(* No other transform brings back what is masked.                          *)
LEMMA TransformKeepsMasked ==
    ASSUME NEW t \in TRANSFORMS, NEW x, Masked(x) PROVE Masked(transform(t, x))
<1>1. CASE t = "trim"
  BY <1>1 DEF transform
<1>2. CASE t = "null_if_empty"
  BY <1>2 DEF transform, Masked
<1>3. CASE t = "mask_registration_code"
  BY <1>3, MaskMasks DEF transform
<1>4. x = None \/ x.k = "code"
  BY DEF Masked
<1>5. x.k # "number" /\ x.k # "text"
  BY <1>4 DEF None
<1>6. CASE t = "to_integer"
  BY <1>5, <1>6 DEF transform, to_integer, Plain, Masked
<1>7. CASE t = "to_float"
  BY <1>5, <1>7 DEF transform, to_float, Plain, Masked
<1>8. CASE t = "number_with_unit"
  BY <1>5, <1>8 DEF transform, number_with_unit, Masked
<1>9. QED
  BY <1>1, <1>2, <1>3, <1>6, <1>7, <1>8 DEF TRANSFORMS

(* The recursive function transformed(names, v) exists.                    *)
LEMMA TransformedUnfolds ==
    ASSUME NEW names, NEW v, Len(names) \in Nat
    PROVE  LET u == transformed(names, v)
           IN  u = [n \in 0 .. Len(names) |-> IF n = 0 THEN v ELSE transform(names[n], u[n - 1])]
<1> DEFINE N == Len(names)
           Fits(g, m) == g = [n \in 0 .. m |-> IF n = 0 THEN v ELSE transform(names[n], g[n - 1])]
           T == {m \in 0 .. N : \E g : Fits(g, m)}
<1>1. 0 \in T
  <2>1. Fits([n \in 0 .. 0 |-> v], 0)
    OBVIOUS
  <2> HIDE DEF Fits
  <2>2. 0 \in 0 .. N
    OBVIOUS
  <2>3. QED
    BY <2>1, <2>2
<1>2. ASSUME NEW m \in 0 .. N, m \in T, m < N PROVE m + 1 \in T
  <2>1. PICK g : Fits(g, m)
    BY <1>2
  <2> DEFINE h == [n \in 0 .. m + 1 |-> IF n <= m THEN g[n] ELSE transform(names[m + 1], g[m])]
  <2>2. \A n \in 0 .. m + 1 : h[n] = IF n = 0 THEN v ELSE transform(names[n], h[n - 1])
    <3> SUFFICES ASSUME NEW n \in 0 .. m + 1
                 PROVE  h[n] = IF n = 0 THEN v ELSE transform(names[n], h[n - 1])
      OBVIOUS
    <3>1. CASE n = 0
      BY <2>1, <3>1
    <3>2. CASE n # 0 /\ n <= m
      <4>1. n \in 0 .. m /\ n - 1 \in 0 .. m + 1 /\ n - 1 <= m
        BY <3>2
      <4>2. h[n] = g[n] /\ h[n - 1] = g[n - 1]
        BY <3>2, <4>1
      <4>3. g[n] = transform(names[n], g[n - 1])
        BY <2>1, <3>2, <4>1
      <4> HIDE DEF h
      <4>4. QED
        BY <3>2, <4>2, <4>3
    <3>3. CASE n = m + 1
      <4>1. n # 0 /\ ~(n <= m) /\ n - 1 = m /\ m \in 0 .. m + 1 /\ m <= m
        BY <3>3
      <4>2. h[n] = transform(names[m + 1], g[m]) /\ h[m] = g[m]
        BY <4>1
      <4> HIDE DEF h
      <4>3. QED
        BY <3>3, <4>1, <4>2
    <3>4. QED
      BY <3>1, <3>2, <3>3
  <2>3. Fits(h, m + 1)
    <3>1. h = [n \in 0 .. m + 1 |-> h[n]]
      OBVIOUS
    <3> HIDE DEF h
    <3>2. QED
      BY <2>2, <3>1
  <2> HIDE DEF h, Fits
  <2>4. QED
    BY <1>2, <2>3
<1>3. N \in 0 .. N /\ 0 .. N \subseteq T
  <2> HIDE DEF T
  <2>1. QED
    BY <1>1, <1>2, Climb
<1>4. \E g : Fits(g, N)
  <2> HIDE DEF Fits
  <2>1. QED
    BY <1>3
<1>5. transformed(names, v) = CHOOSE g : Fits(g, N)
  BY DEF transformed
<1>6. Fits(transformed(names, v), N)
  <2> HIDE DEF Fits
  <2>1. QED
    BY <1>4, <1>5
<1>7. QED
  BY <1>6

(* A masked value stays masked, whatever transforms come after the mask.   *)
LEMMA AppliedIsMasked ==
    ASSUME NEW names \in Seq(TRANSFORMS), "mask_registration_code" \in Range(names), NEW v
    PROVE  Masked(apply_transforms(names, v))
<1> DEFINE N == Len(names)
           u == transformed(names, v)
<1>0. N \in Nat /\ DOMAIN names = 1 .. N /\ \A n \in 1 .. N : names[n] \in TRANSFORMS
  OBVIOUS
<1>1. u = [n \in 0 .. N |-> IF n = 0 THEN v ELSE transform(names[n], u[n - 1])]
  BY <1>0, TransformedUnfolds
<1>2. PICK k \in 1 .. N : names[k] = "mask_registration_code"
  BY <1>0 DEF Range
<1> DEFINE T == {n \in 0 .. N : n >= k => Masked(u[n])}
<1> HIDE DEF u, N
<1>3. 0 \in T
  BY <1>0, <1>2
<1>4. ASSUME NEW n \in 0 .. N, n \in T, n < N PROVE n + 1 \in T
  <2>1. n + 1 \in 0 .. N /\ n + 1 \in 1 .. N /\ n + 1 # 0 /\ (n + 1) - 1 = n
    BY <1>0, <1>4
  <2>2. u[n + 1] = transform(names[n + 1], u[(n + 1) - 1])
    BY <1>1, <2>1
  <2>3. u[n + 1] = transform(names[n + 1], u[n])
    BY <2>1, <2>2
  <2>4. CASE n + 1 = k
    <3>1. transform("mask_registration_code", u[n]) = mask_registration_code(u[n])
      BY DEF transform
    <3>2. QED
      BY <1>2, <2>1, <2>3, <2>4, <3>1, MaskMasks
  <2>5. CASE n + 1 # k
    <3>1. CASE n >= k
      <4>1. Masked(u[n]) /\ names[n + 1] \in TRANSFORMS
        BY <1>0, <1>4, <2>1, <3>1
      <4>2. Masked(u[n + 1])
        BY <2>3, <4>1, TransformKeepsMasked
      <4>3. QED
        BY <2>1, <4>2
    <3>2. CASE ~(n >= k)
      <4>1. ~(n + 1 >= k)
        BY <1>0, <1>2, <1>4, <2>5, <3>2
      <4>2. QED
        BY <2>1, <4>1
    <3>3. QED
      BY <3>1, <3>2
  <2>6. QED
    BY <2>4, <2>5
<1>5. 0 .. N \subseteq T
  <2> HIDE DEF T
  <2>1. QED
    BY <1>0, <1>3, <1>4, Climb
<1>6. N \in 0 .. N /\ N >= k
  BY <1>0, <1>2
<1>7. Masked(u[N])
  BY <1>5, <1>6
<1>8. QED
  BY <1>7 DEF apply_transforms, u, N

-----------------------------------------------------------------------------
(* Resolved columns, of which the sensitive ones are masked.               *)
Guarded(res) ==
  /\ Len(res) \in Nat /\ DOMAIN res = 1 .. Len(res)
  /\ \A i \in DOMAIN res : /\ res[i].transforms \in Seq(TRANSFORMS)
                           /\ Required(res[i].canonical) \subseteq Range(res[i].transforms)

(* resolve_columns refuses every other list, on any header.                *)
LEMMA ResolvedAreGuarded ==
    ASSUME NEW columns, ColumnList(columns), NEW header, NEW fuzzy,
           NEW res \in resolve_columns(columns, header, fuzzy)
    PROVE  Guarded(res)
<1> DEFINE Bad(col) == \/ ~(Range(col.transforms) \subseteq TRANSFORMS)
                       \/ ~(Required(CanonicalOf(col)) \subseteq Range(col.transforms))
           places == {i \in DOMAIN columns :
                        columns[i].coalesce \/ Candidates(columns[i], header, fuzzy) # <<>>}
           kept == AtPlaces(columns, places)
           made == [i \in DOMAIN kept |-> [canonical |-> CanonicalOf(kept[i]), type |-> kept[i].type,
                                           coalesce |-> kept[i].coalesce, transforms |-> kept[i].transforms,
                                           at |-> Candidates(kept[i], header, fuzzy)]]
           At == {columns[k] : k \in places \cap DOMAIN columns}
<1>1. (\A i \in DOMAIN columns : ~Bad(columns[i])) /\ res = made
  BY DEF resolve_columns
<1>2. kept \in Seq(At)
  BY AtPlacesType DEF ColumnList
<1>3. \A c \in At : ~Bad(c) /\ c \in Range(columns)
  BY <1>1 DEF Range
<1> HIDE DEF kept, At
<1>4. Len(kept) \in Nat /\ DOMAIN kept = 1 .. Len(kept) /\ \A i \in DOMAIN kept : kept[i] \in At
  BY <1>2
<1>5. DOMAIN res = DOMAIN kept /\ Len(res) = Len(kept)
  BY <1>1, <1>4
<1>6. ASSUME NEW i \in DOMAIN res
      PROVE  /\ res[i].transforms \in Seq(TRANSFORMS)
             /\ Required(res[i].canonical) \subseteq Range(res[i].transforms)
  <2> DEFINE c == kept[i]
  <2>1. c \in At
    BY <1>4, <1>5
  <2> HIDE DEF c
  <2>2. ~Bad(c) /\ c \in Range(columns) /\ c.transforms \in Seq(Range(c.transforms))
    BY <1>3, <2>1 DEF ColumnList
  <2>3. res[i].transforms = c.transforms /\ res[i].canonical = CanonicalOf(c)
    BY <1>1, <1>5 DEF c
  <2>4. \A S : S \subseteq TRANSFORMS => Seq(S) \subseteq Seq(TRANSFORMS)
    OBVIOUS
  <2>5. QED
    BY <2>2, <2>3, <2>4
<1>7. QED
  BY <1>4, <1>5, <1>6 DEF Guarded

(* What a row has in a column comes through the column's transforms.       *)
LEMMA RowIsMasked ==
    ASSUME NEW res, Guarded(res), NEW cells, NEW nulls
    PROVE  Masked(Cell(extract_row(cells, res, nulls), "registration_code"))
<1> DEFINE F == "registration_code"
           CellAt(p) == IF p <= Len(cells) THEN cells[p] ELSE Word("")
           Usable(p) == CellAt(p) # Word("") /\ CellAt(p) \notin nulls
           Chosen(c) == LET good == SelectSeq(c.at, Usable)
                        IN  IF c.coalesce THEN IF good = <<>> THEN {} ELSE {CellAt(good[1])}
                            ELSE {CellAt(c.at[1])}
           Shape(c) == LET raw == CHOOSE v \in Chosen(c) : TRUE
                       IN  IF Chosen(c) = {} THEN None
                           ELSE IF c.transforms # <<>> THEN apply_transforms(c.transforms, raw)
                           ELSE coerce(raw, c.type, nulls)
           Named(f) == {i \in DOMAIN res : res[i].canonical = f}
           row == [f \in {res[i].canonical : i \in DOMAIN res} |-> Shape(res[MaxOfSet(Named(f))])]
<1>1. extract_row(cells, res, nulls) = row
  BY DEF extract_row
<1> HIDE DEF Shape
<1>2. CASE F \notin DOMAIN row
  <2>1. Cell(row, F) = None
    BY <1>2 DEF Cell
  <2>2. QED
    BY <1>1, <2>1 DEF Masked
<1>3. CASE F \in DOMAIN row
  <2> DEFINE c == res[MaxOfSet(Named(F))]
  <2>1. Cell(row, F) = Shape(c)
    BY <1>3 DEF Cell
  <2>2. Named(F) # {} /\ Named(F) \subseteq 1 .. Len(res) /\ Len(res) \in Nat
    BY <1>3 DEF Guarded
  <2>3. MaxOfSet(Named(F)) \in Named(F)
    BY <2>2, GreatestIn
  <2>4. c.canonical = F /\ c.transforms \in Seq(TRANSFORMS) /\ Required(F) \subseteq Range(c.transforms)
    BY <2>3 DEF Guarded
  <2>5. Required(F) = {"mask_registration_code"}
    BY DEF Required, SENSITIVE_FIELD_REQUIREMENTS
  <2> HIDE DEF c, row, Named
  <2>6. "mask_registration_code" \in Range(c.transforms) /\ c.transforms # <<>>
    BY <2>4, <2>5 DEF Range
  <2>7. \A raw : Masked(apply_transforms(c.transforms, raw))
    BY <2>4, <2>6, AppliedIsMasked
  <2> DEFINE raw == CHOOSE v \in Chosen(c) : TRUE
  <2> HIDE DEF Chosen
  <2>8. Shape(c) = None \/ Shape(c) = apply_transforms(c.transforms, raw)
    BY <2>6 DEF Shape
  <2>9. Masked(Shape(c))
    BY <2>7, <2>8 DEF Masked
  <2>10. QED
    BY <1>1, <2>1, <2>9
<1>4. QED
  BY <1>2, <1>3

(* The rows below a header show no registration code.                      *)
LEMMA RowsAreMasked ==
    ASSUME NEW columns, ColumnList(columns), NEW header, NEW rows, NEW nulls, NEW fuzzy,
           NEW out \in extract_rows(columns, header, rows, nulls, fuzzy)
    PROVE  MaskedRows(out)
<1>1. PICK res \in resolve_columns(columns, header, fuzzy) :
        out = IF res = <<>> THEN <<>> ELSE [i \in DOMAIN rows |-> extract_row(rows[i], res, nulls)]
  BY DEF extract_rows
<1>2. Guarded(res)
  BY ResolvedAreGuarded
<1>3. \A cells : Masked(Cell(extract_row(cells, res, nulls), "registration_code"))
  BY <1>2, RowIsMasked
<1>4. ASSUME NEW i \in DOMAIN out PROVE Masked(Cell(out[i], "registration_code"))
  <2>1. out # <<>> => out[i] = extract_row(rows[i], res, nulls)
    BY <1>1
  <2>2. out # <<>>
    BY <1>4
  <2>3. QED
    BY <1>3, <2>1, <2>2
<1>5. QED
  BY <1>4 DEF MaskedRows

-----------------------------------------------------------------------------
(* One section of a file.                                                  *)

(* Sensitive columns come through the mask, and a count is none of them.   *)
Maskable(instr) ==
  FileInstruction(instr) /\ (instr.format = "computed" => instr.output_field # "registration_code")

LEMMA ComputedIsMasked ==
    ASSUME NEW instr, instr.output_field # "registration_code", NEW sections,
           NEW out \in extract_computed(instr, sections)
    PROVE  MaskedRows(out)
<1>1. PICK v : out = <<[f \in {instr.output_field} |-> v]>>
  BY DEF extract_computed
<1>2. DOMAIN out = {1} /\ DOMAIN out[1] = {instr.output_field}
  BY <1>1
<1>3. Cell(out[1], "registration_code") = None
  BY <1>2 DEF Cell
<1>4. QED
  BY <1>2, <1>3 DEF MaskedRows, Masked

LEMMA NoRowsAreMasked == MaskedRows(<<>>)
  BY DEF MaskedRows

LEMMA PairsAreMasked ==
    ASSUME NEW pairs, NEW labels, ColumnList(labels), NEW nulls,
           NEW out \in extract_metadata_pairs(pairs, labels, nulls)
    PROVE  MaskedRows(out)
<1>1. \E header, rows : out \in extract_rows(labels, header, rows, nulls, FALSE)
  BY DEF extract_metadata_pairs
<1>2. QED
  BY <1>1, RowsAreMasked

LEMMA CsvIsMasked ==
    ASSUME NEW f, NEW instr, Maskable(instr), section_outcome(f, "csv", instr) = "read",
           NEW sections, NEW out \in csv_section(f, instr, sections)
    PROVE  MaskedRows(out)
<1>1. instr.format \in {"single_table", "multi_section", "metadata_pairs", "computed"}
  BY DEF section_outcome, AllowedFormats
<1>2. CASE instr.format = "single_table"
  <2>1. out \in extract_single_table(f.rows, instr)
    BY <1>2 DEF csv_section
  <2>2. out = <<>> \/ \E header, rows : out \in extract_rows(instr.column_map, header, rows, instr.null_values, FALSE)
    BY <2>1 DEF extract_single_table
  <2>3. QED
    BY <2>2, RowsAreMasked, NoRowsAreMasked DEF Maskable, FileInstruction
<1>3. CASE instr.format = "multi_section"
  <2>1. out \in extract_multi_section(f.rows, instr)
    BY <1>3 DEF csv_section
  <2>2. out = <<>> \/ \E header, rows, fuzzy :
                        out \in extract_rows(instr.column_map, header, rows, instr.null_values, fuzzy)
    BY <2>1 DEF extract_multi_section
  <2>3. QED
    BY <2>2, RowsAreMasked, NoRowsAreMasked DEF Maskable, FileInstruction
<1>4. CASE instr.format = "metadata_pairs"
  <2>1. out \in extract_metadata_pairs(f.pairs, instr.label_map, instr.null_values)
    BY <1>4 DEF csv_section
  <2>2. QED
    BY <2>1, PairsAreMasked DEF Maskable, FileInstruction
<1>5. CASE instr.format = "computed"
  <2>1. out \in extract_computed(instr, sections)
    BY <1>5 DEF csv_section
  <2>2. QED
    BY <1>5, <2>1, ComputedIsMasked DEF Maskable
<1>6. QED
  BY <1>1, <1>2, <1>3, <1>4, <1>5

LEMMA HtmlIsMasked ==
    ASSUME NEW f, NEW instr, Maskable(instr), NEW sections,
           NEW out \in html_section(f, instr, sections)
    PROVE  MaskedRows(out)
<1>1. CASE instr.format = "metadata_pairs"
  <2>1. out \in extract_metadata_pairs(f.pairs, instr.label_map, instr.null_values)
    BY <1>1 DEF html_section
  <2>2. QED
    BY <2>1, PairsAreMasked DEF Maskable, FileInstruction
<1>2. CASE instr.format = "computed"
  <2>1. out \in extract_computed(instr, sections)
    BY <1>2 DEF html_section
  <2>2. QED
    BY <1>2, <2>1, ComputedIsMasked DEF Maskable
<1>3. CASE instr.format \notin {"metadata_pairs", "computed"}
  <2>1. \E t : out \in extract_table_rows(f.tables[t], instr)
    BY <1>3 DEF html_section
  <2>2. out = <<>> \/ \E header, rows : out \in extract_rows(instr.column_map, header, rows, instr.null_values, FALSE)
    BY <2>1 DEF extract_table_rows
  <2>3. QED
    BY <2>2, RowsAreMasked, NoRowsAreMasked DEF Maskable, FileInstruction
<1>4. QED
  BY <1>1, <1>2, <1>3

(* Grading a row by its status leaves its code alone.                      *)
LEMMA GradedIsMasked ==
    ASSUME NEW rows, MaskedRows(rows), NEW type, NEW instr
    PROVE  MaskedRows(WithStatusSeverity(rows, type, instr))
<1> DEFINE graded == [i \in DOMAIN rows |-> WithSeverity(rows[i], instr.status_to_severity)]
<1>1. WithStatusSeverity(rows, type, instr) \in {rows, graded}
  BY DEF WithStatusSeverity
<1>2. ASSUME NEW row, NEW severities
      PROVE  Cell(WithSeverity(row, severities), "registration_code") = Cell(row, "registration_code")
  <2> DEFINE new == WithSeverity(row, severities)
  <2>1. /\ DOMAIN new = DOMAIN row \cup {"severity"}
        /\ \A f \in DOMAIN new : f # "severity" => new[f] = row[f]
    BY DEF WithSeverity
  <2> HIDE DEF new
  <2>2. Cell(new, "registration_code") = Cell(row, "registration_code")
    BY <2>1 DEF Cell
  <2>3. QED
    BY <2>2 DEF new
<1>3. MaskedRows(graded)
  BY <1>2 DEF MaskedRows
<1>4. QED
  BY <1>1, <1>3

-----------------------------------------------------------------------------
(* What the gate admits does not raise.                                    *)

(* Columns with known transforms, the sensitive ones with their mask.      *)
Sound(columns) ==
  \A c \in Range(columns) : /\ Range(c.transforms) \subseteq TRANSFORMS
                            /\ Required(CanonicalOf(c)) \subseteq Range(c.transforms)

LEMMA SoundColumnsRead ==
    ASSUME NEW columns, Sound(columns), NEW header, NEW rows, NEW nulls, NEW fuzzy
    PROVE  extract_rows(columns, header, rows, nulls, fuzzy) # {}
<1>1. \A i \in DOMAIN columns : /\ Range(columns[i].transforms) \subseteq TRANSFORMS
                                /\ Required(CanonicalOf(columns[i])) \subseteq Range(columns[i].transforms)
  BY DEF Sound, Range
<1>2. resolve_columns(columns, header, fuzzy) # {}
  BY <1>1 DEF resolve_columns
<1>3. QED
  BY <1>2 DEF extract_rows

LEMMA ComputedRead ==
    ASSUME NEW instr, instr.computed_type \in COMPUTED_TYPES, NEW sections
    PROVE  extract_computed(instr, sections) # {}
<1>1. \A rows, field : compute_section(instr.computed_type, rows, field) # {}
  BY DEF compute_section, COMPUTED_TYPES
<1> DEFINE rows == IF instr.source_section \in DOMAIN sections THEN sections[instr.source_section]
                   ELSE <<>>
<1>2. extract_computed(instr, sections) =
        {<<[f \in {instr.output_field} |-> v]>> : v \in compute_section(instr.computed_type, rows, instr.field)}
  BY DEF extract_computed
<1> HIDE DEF rows
<1>3. compute_section(instr.computed_type, rows, instr.field) # {}
  BY <1>1
<1>4. QED
  BY <1>2, <1>3

(* A recipe the gate lets pass: what it says of one section.               *)
LEMMA GateSays ==
    ASSUME NEW type \in {"csv", "html"}, NEW instr, validate_recipe(type, instr)
    PROVE  /\ instr # <<>> /\ ~Unread(type, instr) => Sound(instr.column_map) /\ Sound(instr.label_map)
           /\ instr.format = "computed" => instr.computed_type \in COMPUTED_TYPES
           /\ type = "csv" => instr.format \in {"single_table", "multi_section", "metadata_pairs", "computed"}
<1> DEFINE entries == Range(instr.column_map) \cup Range(instr.label_map)
<1>1. /\ \A c \in entries : /\ Inspected(c) \subseteq TRANSFORMS
                             /\ Required(CanonicalOf(c)) \subseteq Inspected(c)
      /\ instr.format = "computed" => instr.computed_type \in COMPUTED_TYPES
      /\ type = "csv" => instr.format \in {"single_table", "multi_section", "metadata_pairs", "computed"}
  BY DEF validate_recipe, AllowedFormats
<1>2. ASSUME instr # <<>>, ~Unread(type, instr)
      PROVE  Sound(instr.column_map) /\ Sound(instr.label_map)
  <2>1. \A c \in entries : Inspected(c) = Range(c.transforms)
    BY <1>2 DEF Unread, Inspected
  <2>2. QED
    BY <1>1, <2>1 DEF Sound
<1>3. QED
  BY <1>1, <1>2

(* In a CSV file no such section is an error, whatever the gate left       *)
(* unread of it.                                                           *)
LEMMA CsvErrsNot ==
    ASSUME NEW f, NEW instr, validate_recipe("csv", instr)
    PROVE  section_outcome(f, "csv", instr) \in {"read", "omitted"}
<1>1. instr.format \in {"single_table", "multi_section", "metadata_pairs", "computed"}
  BY GateSays
<1>2. QED
  BY <1>1 DEF section_outcome, AllowedFormats

LEMMA CsvReads ==
    ASSUME NEW f, NEW instr, instr # <<>>, ~Unread("csv", instr), validate_recipe("csv", instr), NEW sections
    PROVE  csv_section(f, instr, sections) # {}
<1>1. /\ Sound(instr.column_map) /\ Sound(instr.label_map)
      /\ instr.format = "computed" => instr.computed_type \in COMPUTED_TYPES
      /\ instr.format \in {"single_table", "multi_section", "metadata_pairs", "computed"}
  BY GateSays
<1>3. CASE instr.format = "single_table"
  BY <1>1, <1>3, SoundColumnsRead DEF csv_section, extract_single_table
<1>4. CASE instr.format = "multi_section"
  BY <1>1, <1>4, SoundColumnsRead DEF csv_section, extract_multi_section
<1>5. CASE instr.format = "metadata_pairs"
  BY <1>1, <1>5, SoundColumnsRead DEF csv_section, extract_metadata_pairs
<1>6. CASE instr.format = "computed"
  BY <1>1, <1>6, ComputedRead DEF csv_section
<1>7. QED
  BY <1>1, <1>3, <1>4, <1>5, <1>6

LEMMA HtmlReads ==
    ASSUME NEW f, NEW instr, instr # <<>>, ~Unread("html", instr), validate_recipe("html", instr),
           NEW sections, html_outcome(f, instr) = "read"
    PROVE  html_section(f, instr, sections) # {}
<1>1. /\ Sound(instr.column_map) /\ Sound(instr.label_map)
      /\ instr.format = "computed" => instr.computed_type \in COMPUTED_TYPES
  BY GateSays
<1>2. CASE instr.format = "metadata_pairs"
  BY <1>1, <1>2, SoundColumnsRead DEF html_section, extract_metadata_pairs
<1>3. CASE instr.format = "computed"
  BY <1>1, <1>3, ComputedRead DEF html_section
<1>4. CASE instr.format \notin {"metadata_pairs", "computed"}
  <2>1. find_section_table(f, instr) # {}
    BY <1>4 DEF html_outcome
  <2>2. PICK t : t \in find_section_table(f, instr)
    BY <2>1
  <2>3. \A table : extract_table_rows(table, instr) # {}
    BY <1>1, SoundColumnsRead DEF extract_table_rows
  <2>4. html_section(f, instr, sections) =
          UNION {extract_table_rows(f.tables[u], instr) : u \in find_section_table(f, instr)}
    BY <1>4 DEF html_section
  <2>5. QED
    BY <2>2, <2>3, <2>4
<1>5. QED
  BY <1>2, <1>3, <1>4

-----------------------------------------------------------------------------
(* The catalog.                                                            *)

(* There is one highest active version at most.                            *)
LEMMA OneSubject ==
    ASSUME CatalogIsKeyed, NEW s, NEW e \in get_subject(s)
    PROVE  get_subject(s) = {e} /\ e \in catalog /\ e.subject = s /\ e.active
<1>1. e \in catalog /\ e.subject = s /\ e.active
  BY DEF get_subject
<1>2. ASSUME NEW v \in get_subject(s) PROVE v = e
  <2>1. v \in catalog /\ v.subject = s
    BY DEF get_subject
  <2>2. v.version <= e.version /\ e.version <= v.version
    BY DEF get_subject
  <2>3. v.version = e.version
    BY <1>1, <2>1, <2>2 DEF CatalogIsKeyed
  <2>4. QED
    BY <1>1, <2>1, <2>3 DEF CatalogIsKeyed
<1>3. QED
  BY <1>1, <1>2

LEMMA CatalogInit == Init => CatalogIsKeyed
  BY AcquireAssumption DEF Init, CatalogIsKeyed, Subjects

(* A new version has a key of its own, the one it supersedes keeps its.    *)
LEMMA CatalogKeeps ==
    ASSUME CatalogIsKeyed, create_subject_from_proposal PROVE CatalogIsKeyed'
<1>1. PICK p \in Proposals :
        /\ \A v \in catalog : <<v.subject, v.version>> # <<p.subject, p.version>>
        /\ LET old == IF p.supersedes THEN get_subject(p.subject) ELSE {}
           IN  catalog' = (catalog \ old) \cup {[v EXCEPT !.active = FALSE] : v \in old}
                          \cup {[subject |-> p.subject, version |-> p.version, active |-> TRUE,
                                 system |-> FALSE, gated |-> TRUE, sources |-> p.sources]}
  BY DEF create_subject_from_proposal
<1> DEFINE old == IF p.supersedes THEN get_subject(p.subject) ELSE {}
           new == [subject |-> p.subject, version |-> p.version, active |-> TRUE,
                   system |-> FALSE, gated |-> TRUE, sources |-> p.sources]
<1>2. old \subseteq catalog
  BY DEF get_subject
<1>3. /\ new.subject = p.subject /\ new.version = p.version /\ new.sources = p.sources
  OBVIOUS
<1>4. catalog' = (catalog \ old) \cup {[v EXCEPT !.active = FALSE] : v \in old} \cup {new}
  BY <1>1
<1> HIDE DEF old, new
<1>5. ASSUME NEW v \in catalog'
      PROVE  v = new \/ \E w \in catalog : /\ v.subject = w.subject /\ v.version = w.version
                                           /\ v.sources = w.sources
                                           /\ v = IF w \in old THEN [w EXCEPT !.active = FALSE] ELSE w
  <2>1. CASE v \in catalog \ old
    BY <2>1
  <2>2. CASE v \in {[w EXCEPT !.active = FALSE] : w \in old}
    <3>1. PICK w \in old : v = [w EXCEPT !.active = FALSE]
      BY <2>2
    <3>2. v.subject = w.subject /\ v.version = w.version /\ v.sources = w.sources
      BY <3>1
    <3>3. QED
      BY <1>2, <3>1, <3>2
  <2>3. QED
    BY <1>4, <2>1, <2>2
<1>6. p.subject \in Subjects /\ p.version \in Nat /\ SectionsAreListed(p.sources)
  BY AcquireAssumption DEF Subjects
<1>7. ASSUME NEW v \in catalog', NEW w \in catalog', v.subject = w.subject, v.version = w.version
      PROVE  v = w
  <2>1. \A x \in catalog : x.subject # new.subject \/ x.version # new.version
    BY <1>1, <1>3
  <2>2. \A x, y \in catalog : x.subject = y.subject /\ x.version = y.version => x = y
    BY DEF CatalogIsKeyed
  <2>3. CASE v = new \/ w = new
    BY <1>5, <1>7, <2>1, <2>3
  <2>4. CASE v # new /\ w # new
    <3>1. PICK x \in catalog : /\ v.subject = x.subject /\ v.version = x.version
                               /\ v = IF x \in old THEN [x EXCEPT !.active = FALSE] ELSE x
      BY <1>5, <2>4
    <3>2. PICK y \in catalog : /\ w.subject = y.subject /\ w.version = y.version
                               /\ w = IF y \in old THEN [y EXCEPT !.active = FALSE] ELSE y
      BY <1>5, <2>4
    <3>3. x = y
      BY <1>7, <2>2, <3>1, <3>2
    <3>4. QED
      BY <3>1, <3>2, <3>3
  <2>5. QED
    BY <2>3, <2>4
<1>8. ASSUME NEW v \in catalog'
      PROVE  v.subject \in Subjects /\ v.version \in Nat /\ SectionsAreListed(v.sources)
  BY <1>3, <1>5, <1>6 DEF CatalogIsKeyed
<1>9. QED
  BY <1>7, <1>8 DEF CatalogIsKeyed

-----------------------------------------------------------------------------
(* A live collection.                                                      *)

LEMMA Listed ==
    ASSUME NEW sources, SectionsAreListed(sources), NEW t \in DOMAIN sources
    PROVE  /\ Len(sources[t].sections) \in Nat
           /\ DOMAIN sources[t].sections = 1 .. Len(sources[t].sections)
           /\ \A i, k \in DOMAIN sources[t].sections :
                sources[t].sections[i].id = sources[t].sections[k].id => i = k
<1>1. sources[t].sections \in Seq(Range(sources[t].sections))
  BY DEF SectionsAreListed
<1>2. QED
  BY <1>1 DEF SectionsAreListed

(* Turning to a section leaves what was read.                              *)
LEMMA TurnIsWhole ==
    ASSUME NEW j, Reading(j), NEW k \in next_section(j)
    PROVE  next_section(j) = {k} /\ JobIsWhole(k)
<1> DEFINE n == Len(SectionsOf(j))
<1>1. n \in Nat /\ DOMAIN SectionsOf(j) = 1 .. n
  BY Listed DEF Reading, Collecting, SectionsOf
<1>2. j.i \in 1 .. n + 1 /\ ReadTo(j, j.i - 1) /\ Collecting(j)
  BY DEF Reading
<1>0. n = Len(j.entry.sources[j.source].sections) /\ n = Len(SectionsOf(j))
  BY DEF SectionsOf
<1> HIDE DEF n
<1>3. CASE j.i > n
  <2>1. next_section(j) = {[j EXCEPT !.pc = "store"]}
    BY <1>0, <1>3 DEF next_section
  <2>2. k = [j EXCEPT !.pc = "store"]
    BY <2>1
  <2>3. /\ k.pc = "store" /\ k.kind = j.kind /\ k.file = j.file /\ k.entry = j.entry
        /\ k.source = j.source /\ k.sections = j.sections /\ k.failures = j.failures
    BY <2>2
  <2>4. n = j.i - 1
    BY <1>1, <1>2, <1>3
  <2>5. Collecting(k) /\ ReadTo(k, n) /\ SectionsOf(k) = SectionsOf(j)
    BY <1>2, <2>3, <2>4 DEF Collecting, ReadTo, SectionsOf
  <2>6. QED
    BY <1>0, <2>1, <2>2, <2>3, <2>5 DEF JobIsWhole
<1>4. CASE ~(j.i > n)
  <2>1. PICK g \in resolve_dataset(j) :
          k = [j EXCEPT !.pc = "page", !.guid = g, !.fetched = Nothing,
                        !.warned = IF Falls(j) THEN @ \cup {Section(j)} ELSE @]
    BY <1>0, <1>4 DEF next_section
  <2>2. \A h \in resolve_dataset(j) : h = g
    BY <2>1 DEF resolve_dataset
  <2>3. /\ k.pc = "page" /\ k.kind = j.kind /\ k.file = j.file /\ k.entry = j.entry /\ k.i = j.i
        /\ k.source = j.source /\ k.sections = j.sections /\ k.failures = j.failures
    BY <2>1
  <2>4. next_section(j) = {k}
    BY <1>0, <1>4, <2>1, <2>2 DEF next_section
  <2>5. Collecting(k) /\ ReadTo(k, k.i - 1) /\ SectionsOf(k) = SectionsOf(j)
    BY <1>2, <2>3 DEF Collecting, ReadTo, SectionsOf
  <2>6. k.i \in DOMAIN SectionsOf(k) /\ Reading(k)
    <3>1. j.i \in 1 .. n
      BY <1>1, <1>2, <1>4
    <3>2. QED
      BY <1>0, <1>1, <1>2, <2>3, <2>5, <3>1 DEF Reading
  <2>7. QED
    BY <2>3, <2>4, <2>6 DEF JobIsWhole
<1>5. QED
  BY <1>3, <1>4

(* A section read to its end joins the ones before it, read or failed.     *)
LEMMA KeptSection ==
    ASSUME NEW j, DOMAIN j.sections \cap j.failures = {},
           Section(j) \notin DOMAIN j.sections \cup j.failures, NEW rows
    PROVE  LET k == keep_section(j, rows)
           IN  /\ k.kind = j.kind /\ k.file = j.file /\ k.entry = j.entry /\ k.source = j.source
               /\ k.i = j.i
               /\ DOMAIN k.sections \cap k.failures = {}
               /\ DOMAIN k.sections \cup k.failures = DOMAIN j.sections \cup j.failures \cup {Section(j)}
<1> DEFINE k == keep_section(j, rows)
<1>1. CASE check_conformance(rows, Instr(j).conformance) # ""
  <2>1. k = [j EXCEPT !.failures = @ \cup {Section(j)}]
    BY <1>1 DEF keep_section
  <2>2. /\ k.kind = j.kind /\ k.file = j.file /\ k.entry = j.entry /\ k.source = j.source
        /\ k.i = j.i /\ k.sections = j.sections /\ k.failures = j.failures \cup {Section(j)}
    BY <2>1
  <2>3. QED
    BY <2>2
<1>2. CASE ~(check_conformance(rows, Instr(j).conformance) # "")
  <2>1. k = [j EXCEPT !.sections = [t \in DOMAIN @ \cup {Section(j)} |->
                                      IF t = Section(j) THEN rows ELSE @[t]]]
    BY <1>2 DEF keep_section
  <2>2. /\ k.kind = j.kind /\ k.file = j.file /\ k.entry = j.entry /\ k.source = j.source
        /\ k.i = j.i /\ k.failures = j.failures
        /\ DOMAIN k.sections = DOMAIN j.sections \cup {Section(j)}
    BY <2>1
  <2>3. QED
    BY <2>2
<1>3. QED
  BY <1>1, <1>2

LEMMA AdvancedTurn ==
    ASSUME NEW k
    PROVE  LET m == Advanced(k)
           IN  /\ m.kind = k.kind /\ m.file = k.file /\ m.entry = k.entry /\ m.source = k.source
               /\ m.i = k.i + 1 /\ m.sections = k.sections /\ m.failures = k.failures
  BY DEF Advanced

(* The section read is the next one of the recipe, read once.              *)
LEMMA FinishReads ==
    ASSUME NEW j, Reading(j), j.i \in DOMAIN SectionsOf(j), NEW rows
    PROVE  Reading(Advanced(keep_section(j, rows))) /\ Section(j) \notin DOMAIN j.sections \cup j.failures
<1> DEFINE s == Section(j)
           seq == SectionsOf(j)
           kept == keep_section(j, rows)
           m == Advanced(kept)
<1>1. /\ Collecting(j) /\ j.i \in 1 .. Len(seq) + 1 /\ ReadTo(j, j.i - 1)
      /\ Len(seq) \in Nat /\ DOMAIN seq = 1 .. Len(seq)
      /\ \A i, l \in DOMAIN seq : seq[i].id = seq[l].id => i = l
  BY Listed DEF Reading, Collecting, SectionsOf
<1>2. s = seq[j.i].id
  BY DEF Section, SectionsOf
<1>3. /\ DOMAIN j.sections \cup j.failures = {seq[i].id : i \in 1 .. j.i - 1}
      /\ DOMAIN j.sections \cap j.failures = {}
  BY <1>1 DEF ReadTo
<1>4. s \notin DOMAIN j.sections \cup j.failures /\ DOMAIN j.sections \cap j.failures = {}
  <2> HIDE DEF seq, s
  <2>1. j.i \in 1 .. Len(seq)
    BY <1>1 DEF seq
  <2>2. \A i \in 1 .. j.i - 1 : seq[i].id # seq[j.i].id
    BY <1>1, <2>1
  <2>3. QED
    BY <1>2, <1>3, <2>2
<1>5. /\ kept.kind = j.kind /\ kept.file = j.file /\ kept.entry = j.entry /\ kept.source = j.source
      /\ kept.i = j.i
      /\ DOMAIN kept.sections \cap kept.failures = {}
      /\ DOMAIN kept.sections \cup kept.failures = DOMAIN j.sections \cup j.failures \cup {s}
  BY <1>4, KeptSection
<1>6. /\ m.kind = kept.kind /\ m.file = kept.file /\ m.entry = kept.entry /\ m.source = kept.source
      /\ m.i = kept.i + 1 /\ m.sections = kept.sections /\ m.failures = kept.failures
  BY AdvancedTurn
<1> HIDE DEF m, kept, s
<1>7. SectionsOf(m) = seq /\ Collecting(m)
  BY <1>1, <1>5, <1>6 DEF SectionsOf, Collecting
<1> HIDE DEF seq
<1>8. m.i \in 1 .. Len(seq) + 1 /\ m.i - 1 = j.i /\ j.i \in 1 .. Len(seq)
  BY <1>1, <1>5, <1>6 DEF seq
<1>9. {seq[i].id : i \in 1 .. j.i} = {seq[i].id : i \in 1 .. j.i - 1} \cup {s}
  BY <1>2, <1>8
<1>10. ReadTo(m, m.i - 1)
  <2>1. /\ DOMAIN m.sections \cap m.failures = {}
        /\ DOMAIN m.sections \cup m.failures = {seq[i].id : i \in 1 .. j.i}
    BY <1>5, <1>6, <1>9, <1>3
  <2>2. SectionsOf(m) = seq /\ m.i - 1 = j.i
    BY <1>7, <1>8
  <2>3. QED
    BY <2>1, <2>2 DEF ReadTo
<1>11. QED
  BY <1>4, <1>7, <1>8, <1>10 DEF Reading, m, kept, s

LEMMA FinishIsWhole ==
    ASSUME NEW j, Reading(j), j.i \in DOMAIN SectionsOf(j), NEW k \in finish_section(j)
    PROVE  finish_section(j) = {k} /\ JobIsWhole(k)
<1> DEFINE rows == shape_dataset_rows(j.fetched.rows, Instr(j))
           m == Advanced(keep_section(j, rows))
<1>1. finish_section(j) = next_section(m)
  BY DEF finish_section, With
<1>2. Reading(m)
  BY FinishReads
<1> HIDE DEF m
<1>3. QED
  BY <1>1, <1>2, TurnIsWhole

(* A collection that begins has read nothing.                              *)
Begun(j, entry, type) ==
  /\ j.kind = "collect" /\ j.file = {} /\ j.entry = entry /\ j.source = type
  /\ j.i = 1 /\ j.sections = <<>> /\ j.failures = {} /\ j.names = <<>>
  /\ j.pc = CASE type = CC -> "endpoint" [] type = "rest" -> "report" [] OTHER -> "metadata"

LEMMA BegunReads ==
    ASSUME CatalogIsKeyed, NEW s, NEW entry \in get_subject(s), ~Refuses(entry),
           NEW j, Begun(j, entry, collect_source(entry))
    PROVE  Reading(j) /\ JobIsWhole(j)
<1> DEFINE type == collect_source(entry)
<1>1. type \in DOMAIN entry.sources /\ type \in {CC, RP, "rest"}
  BY DEF Refuses, collect_source
<1>2. entry.subject \in Subjects /\ SectionsAreListed(entry.sources)
  BY OneSubject DEF CatalogIsKeyed
<1> HIDE DEF type
<1>3. /\ j.kind = "collect" /\ j.file = {} /\ j.entry = entry /\ j.source = type
      /\ j.i = 1 /\ j.sections = <<>> /\ j.failures = {}
      /\ j.pc = CASE type = CC -> "endpoint" [] type = "rest" -> "report" [] OTHER -> "metadata"
  BY DEF Begun, type
<1>4. Collecting(j)
  BY <1>1, <1>2, <1>3 DEF Collecting
<1>5. Len(SectionsOf(j)) \in Nat
  BY <1>4, Listed DEF Collecting, SectionsOf
<1>6. ReadTo(j, 0)
  BY <1>3 DEF ReadTo
<1>7. j.i \in 1 .. Len(SectionsOf(j)) + 1 /\ j.i - 1 = 0
  BY <1>3, <1>5
<1>8. Reading(j)
  BY <1>4, <1>6, <1>7 DEF Reading
<1>9. (j.pc = "endpoint" /\ j.source = CC) \/ j.pc \in {"report", "metadata"}
  BY <1>1, <1>3
<1>10. QED
  BY <1>3, <1>4, <1>8, <1>9 DEF JobIsWhole

LEMMA BeginIsWhole ==
    ASSUME CatalogIsKeyed, DOMAIN store = Subjects, NEW s \in DOMAIN store, CollectBegin(s)
    PROVE  JobsAreWhole'
<1>1. PICK entry \in get_subject(s) :
        /\ ~Refuses(entry)
        /\ LET type == collect_source(entry)
               src == entry.sources[type]
               fresh == [kind |-> "collect", entry |-> entry, source |-> type, i |-> 1, names |-> <<>>,
                         guid |-> "", fetched |-> Nothing, began |-> 0, sections |-> <<>>,
                         failures |-> {}, warned |-> {}, from |-> <<>>, removed |-> FALSE, file |-> {},
                         pc |-> CASE type = CC -> "endpoint" [] type = "rest" -> "report"
                                  [] OTHER -> "metadata"]
           IN  job' = IF type = RP
                      THEN LET at == [fresh EXCEPT !.guid = src.address.guid]
                           IN  IF declares_parameters(src) THEN {at} ELSE next_section(at)
                      ELSE {fresh}
  BY DEF CollectBegin
<1> DEFINE type == collect_source(entry)
           src == entry.sources[type]
           fresh == [kind |-> "collect", entry |-> entry, source |-> type, i |-> 1, names |-> <<>>,
                     guid |-> "", fetched |-> Nothing, began |-> 0, sections |-> <<>>,
                     failures |-> {}, warned |-> {}, from |-> <<>>, removed |-> FALSE, file |-> {},
                     pc |-> CASE type = CC -> "endpoint" [] type = "rest" -> "report"
                              [] OTHER -> "metadata"]
           at == [fresh EXCEPT !.guid = src.address.guid]
<1>4. job' = IF type = RP THEN IF declares_parameters(src) THEN {at} ELSE next_section(at) ELSE {fresh}
  BY <1>1
<1>5. Begun(fresh, entry, type) /\ Begun(at, entry, type)
  BY DEF Begun
<1> HIDE DEF fresh, at
<1>6. ASSUME NEW j, Begun(j, entry, type) PROVE Reading(j) /\ JobIsWhole(j)
  BY <1>6, BegunReads, <1>1
<1>7. ASSUME NEW k \in job' PROVE job' = {k} /\ JobIsWhole(k)
  <2>1. CASE k \in next_section(at) /\ job' = next_section(at)
    BY <1>5, <1>6, <2>1, TurnIsWhole
  <2>2. CASE k \in {at, fresh} /\ job' = {k}
    BY <1>5, <1>6, <2>2
  <2>3. QED
    BY <1>4, <2>1, <2>2
<1>8. QED
  BY <1>7 DEF JobsAreWhole

(* A page read: nothing but what was fetched changes. *)
TurnOf(j, k) ==
  /\ k.kind = j.kind /\ k.file = j.file /\ k.entry = j.entry /\ k.source = j.source
  /\ k.i = j.i /\ k.sections = j.sections /\ k.failures = j.failures /\ k.pc = j.pc

(* What a request of the collection does to it. *)
LEMMA RequestIsWhole ==
    ASSUME JobsAreWhole, GetReport \/ GetMetadata \/ FetchPage PROVE JobsAreWhole'
<1>1. ASSUME NEW j \in job, Reading(j), NEW l, Reading(l), job' = next_section(l)
      PROVE  JobsAreWhole'
  BY <1>1, TurnIsWhole DEF JobsAreWhole
<1>2. ASSUME NEW j \in job, j.pc \in {"report", "metadata", "page"}
      PROVE  Reading(j) /\ (j.pc = "page" => j.i \in DOMAIN SectionsOf(j))
  BY <1>2 DEF JobsAreWhole, JobIsWhole
<1>3. CASE job' = {}
  BY <1>3 DEF JobsAreWhole
<1>4. CASE GetReport
  <2>1. PICK j \in job :
          /\ j.pc = "report"
          /\ job' = {} \/ \E names : job' = next_section([j EXCEPT !.names = names])
    <3>1. PICK j \in job : /\ j.pc = "report"
                          /\ \E r, parses : job' = IF r \notin DOMAIN definition THEN {}
                               ELSE next_section([j EXCEPT !.names =
                                 build_name_to_guid_map(IF parses THEN definition[r] ELSE <<>>)])
      BY <1>4 DEF GetReport
    <3>2. QED
      BY <3>1
  <2> SUFFICES ASSUME job' # {} PROVE JobsAreWhole'
    BY <1>3
  <2>6. PICK names : job' = next_section([j EXCEPT !.names = names])
    BY <2>1
  <2> DEFINE l == [j EXCEPT !.names = names]
  <2>2. /\ l.kind = j.kind /\ l.file = j.file /\ l.entry = j.entry /\ l.source = j.source
        /\ l.i = j.i /\ l.sections = j.sections /\ l.failures = j.failures
    OBVIOUS
  <2>3. job' = next_section(l)
    BY <2>6
  <2> HIDE DEF l
  <2>4. Reading(l)
    BY <1>2, <2>1, <2>2 DEF Reading, Collecting, ReadTo, SectionsOf
  <2>5. QED
    BY <1>1, <1>2, <2>1, <2>3, <2>4
<1>5. CASE GetMetadata
  <2>1. PICK j \in job : j.pc = "metadata" /\ job' \in {{}, next_section(j)}
    BY <1>5 DEF GetMetadata
  <2>2. QED
    BY <1>1, <1>2, <1>3, <2>1
<1>6. CASE FetchPage
  <2>1. PICK j \in job : /\ j.pc = "page"
                         /\ (job' = {} \/ \E k : TurnOf(j, k) /\ job' \in {finish_section(k), {k}})
    <3>1. PICK j \in job :
       /\ j.pc = "page"
       /\ job' = IF j.guid \notin DOMAIN datasets THEN {}
                 ELSE With(page_read(j, datasets[j.guid]),
                           LAMBDA k : IF k.fetched.done THEN finish_section(k) ELSE {k})
      BY <1>6 DEF FetchPage
    <3> DEFINE k == page_read(j, datasets[j.guid])
    <3>2. CASE j.guid \notin DOMAIN datasets
      BY <3>1, <3>2
    <3>3. CASE j.guid \in DOMAIN datasets
      <4>1. job' = With(k, LAMBDA x : IF x.fetched.done THEN finish_section(x) ELSE {x})
        BY <3>1, <3>3
      <4>2. TurnOf(j, k)
        BY DEF TurnOf, page_read
      <4> HIDE DEF k
      <4>3. job' = IF k.fetched.done THEN finish_section(k) ELSE {k}
        BY <4>1 DEF With
      <4>4. QED
        BY <3>1, <4>2, <4>3
    <3>4. QED
      BY <3>2, <3>3
  <2>2. CASE job' # {}
    <3>1. PICK k : TurnOf(j, k) /\ job' \in {finish_section(k), {k}}
      BY <2>1, <2>2
    <3>2. Reading(j) /\ j.i \in DOMAIN SectionsOf(j)
      BY <1>2, <2>1
    <3>3. SectionsOf(k) = SectionsOf(j) /\ k.i = j.i
      BY <3>1 DEF SectionsOf, TurnOf
    <3>4. Reading(k) /\ k.i \in DOMAIN SectionsOf(k) /\ k.pc = "page"
      BY <2>1, <3>1, <3>2, <3>3 DEF Reading, Collecting, ReadTo, TurnOf
    <3>5. QED
      BY <3>1, <3>4, FinishIsWhole DEF JobsAreWhole, JobIsWhole
  <2>3. QED
    BY <1>3, <2>2
<1>7. QED
  BY <1>4, <1>5, <1>6

-----------------------------------------------------------------------------
(* The sections of a file.                                                 *)

Before(seq) == [sections |-> <<>>, omitted |-> {}, errors |-> seq = <<>>, raised |-> FALSE]

(* The recursive function extracted(f, type, seq) exists.                  *)
LEMMA ExtractedUnfolds ==
    ASSUME NEW f, NEW type, NEW seq, Len(seq) \in Nat
    PROVE  LET u == extracted(f, type, seq)
           IN  u = [n \in 0 .. Len(seq) |-> IF n = 0 THEN Before(seq)
                                            ELSE extract_next(f, type, u[n - 1], seq[n])]
<1> DEFINE N == Len(seq)
           Fits(g, m) == g = [n \in 0 .. m |-> IF n = 0 THEN Before(seq)
                                               ELSE extract_next(f, type, g[n - 1], seq[n])]
           T == {m \in 0 .. N : \E g : Fits(g, m)}
<1>1. 0 \in T
  <2>1. Fits([n \in 0 .. 0 |-> Before(seq)], 0)
    OBVIOUS
  <2> HIDE DEF Fits
  <2>2. 0 \in 0 .. N
    OBVIOUS
  <2>3. QED
    BY <2>1, <2>2
<1>2. ASSUME NEW m \in 0 .. N, m \in T, m < N PROVE m + 1 \in T
  <2>1. PICK g : Fits(g, m)
    BY <1>2
  <2> DEFINE h == [n \in 0 .. m + 1 |-> IF n <= m THEN g[n] ELSE extract_next(f, type, g[m], seq[m + 1])]
  <2>2. \A n \in 0 .. m + 1 : h[n] = IF n = 0 THEN Before(seq)
                                     ELSE extract_next(f, type, h[n - 1], seq[n])
    <3> SUFFICES ASSUME NEW n \in 0 .. m + 1
                 PROVE  h[n] = IF n = 0 THEN Before(seq) ELSE extract_next(f, type, h[n - 1], seq[n])
      OBVIOUS
    <3>1. CASE n = 0
      BY <2>1, <3>1
    <3>2. CASE n # 0 /\ n <= m
      <4>1. n \in 0 .. m /\ n - 1 \in 0 .. m + 1 /\ n - 1 <= m
        BY <3>2
      <4>2. h[n] = g[n] /\ h[n - 1] = g[n - 1]
        BY <3>2, <4>1
      <4>3. g[n] = extract_next(f, type, g[n - 1], seq[n])
        BY <2>1, <3>2, <4>1
      <4> HIDE DEF h
      <4>4. QED
        BY <3>2, <4>2, <4>3
    <3>3. CASE n = m + 1
      <4>1. n # 0 /\ ~(n <= m) /\ n - 1 = m /\ m \in 0 .. m + 1 /\ m <= m
        BY <3>3
      <4>2. h[n] = extract_next(f, type, g[m], seq[m + 1]) /\ h[m] = g[m]
        BY <4>1
      <4> HIDE DEF h
      <4>3. QED
        BY <3>3, <4>1, <4>2
    <3>4. QED
      BY <3>1, <3>2, <3>3
  <2>3. Fits(h, m + 1)
    <3>1. h = [n \in 0 .. m + 1 |-> h[n]]
      OBVIOUS
    <3> HIDE DEF h
    <3>2. QED
      BY <2>2, <3>1
  <2> HIDE DEF h, Fits
  <2>4. QED
    BY <1>2, <2>3
<1>3. N \in 0 .. N /\ 0 .. N \subseteq T
  <2> HIDE DEF T
  <2>1. QED
    BY <1>1, <1>2, Climb
<1>4. \E g : Fits(g, N)
  <2> HIDE DEF Fits
  <2>1. QED
    BY <1>3
<1>5. extracted(f, type, seq) = CHOOSE g : Fits(g, N)
  BY DEF extracted, Before
<1>6. Fits(extracted(f, type, seq), N)
  <2> HIDE DEF Fits
  <2>1. QED
    BY <1>4, <1>5
<1>7. QED
  BY <1>6

(* The rows read of a section, and the sections with them.                 *)
ReadOf(f, type, instr, sections) ==
  IF type = "csv" THEN csv_section(f, instr, sections) ELSE html_section(f, instr, sections)
Joined(sections, id, rows) == [s \in DOMAIN sections \cup {id} |-> IF s = id THEN rows ELSE sections[s]]

(* What becomes of the next section of a file.                             *)
Adds(f, type, sec, acc, next) ==
  \/ acc.raised /\ next = acc
  \/ /\ section_outcome(f, type, sec.instr) = "error"
     /\ next.sections = acc.sections /\ next.raised = acc.raised /\ next.errors
  \/ /\ section_outcome(f, type, sec.instr) = "omitted" /\ next.omitted = acc.omitted \cup {sec.id}
     /\ next.sections = acc.sections /\ next.raised = acc.raised /\ next.errors = acc.errors
  \/ /\ \/ section_outcome(f, type, sec.instr) = "raise"
        \/ /\ section_outcome(f, type, sec.instr) = "read"
           /\ ReadOf(f, type, sec.instr, acc.sections) = {}
     /\ next.sections = acc.sections /\ next.raised /\ next.errors = acc.errors
  \/ /\ section_outcome(f, type, sec.instr) = "read" /\ next.omitted = acc.omitted
     /\ next.raised = acc.raised /\ next.errors = acc.errors
     /\ \E x \in ReadOf(f, type, sec.instr, acc.sections) :
          next.sections = Joined(acc.sections, sec.id, WithStatusSeverity(x, type, sec.instr))

LEMMA NextOfFile ==
    ASSUME NEW f, NEW type, NEW acc, NEW sec
    PROVE  Adds(f, type, sec, acc, extract_next(f, type, acc, sec))
<1> DEFINE Read(sections) == IF type = "csv" THEN csv_section(f, sec.instr, sections)
                             ELSE html_section(f, sec.instr, sections)
           out == section_outcome(f, type, sec.instr)
           Added(read) == WithStatusSeverity(CHOOSE x \in read : TRUE, type, sec.instr)
           Add(a, read) ==
             IF read = {} THEN [a EXCEPT !.raised = TRUE]
             ELSE [a EXCEPT !.sections = [s \in DOMAIN @ \cup {sec.id} |->
                                            IF s = sec.id THEN Added(read) ELSE @[s]]]
           next == extract_next(f, type, acc, sec)
           read == Read(acc.sections)
<1>1. next = CASE acc.raised -> acc
               [] ~acc.raised /\ out = "raise" -> [acc EXCEPT !.raised = TRUE]
               [] ~acc.raised /\ out = "error" -> [acc EXCEPT !.errors = TRUE]
               [] ~acc.raised /\ out = "omitted" -> [acc EXCEPT !.omitted = @ \cup {sec.id}]
               [] OTHER -> Add(acc, read)
  BY DEF extract_next, With
<1>2. out \in {"read", "omitted", "error", "raise"}
  BY DEF section_outcome, html_outcome
<1>0. read = ReadOf(f, type, sec.instr, acc.sections)
  BY DEF ReadOf
<1> HIDE DEF next, out, read
<1>3. CASE acc.raised
  BY <1>1, <1>3 DEF next, Adds
<1>4. CASE ~acc.raised /\ out = "error"
  <2>1. next = [acc EXCEPT !.errors = TRUE]
    BY <1>1, <1>4
  <2>2. next.sections = acc.sections /\ next.raised = acc.raised /\ next.errors
    BY <2>1
  <2>3. QED
    BY <1>4, <2>2 DEF next, out, Adds
<1>5. CASE ~acc.raised /\ out = "omitted"
  <2>1. next = [acc EXCEPT !.omitted = @ \cup {sec.id}]
    BY <1>1, <1>5
  <2>2. /\ next.sections = acc.sections /\ next.raised = acc.raised /\ next.errors = acc.errors
        /\ next.omitted = acc.omitted \cup {sec.id}
    BY <2>1
  <2>3. QED
    BY <1>5, <2>2 DEF next, out, Adds
<1>8. CASE ~acc.raised /\ out = "raise"
  <2>1. next = [acc EXCEPT !.raised = TRUE]
    BY <1>1, <1>8
  <2>2. next.sections = acc.sections /\ next.raised /\ next.errors = acc.errors
    BY <2>1
  <2>3. QED
    BY <1>8, <2>2 DEF next, out, Adds
<1>6. CASE ~acc.raised /\ out = "read"
  <2>1. next = Add(acc, read)
    BY <1>1, <1>6
  <2>2. CASE read = {}
    <3>1. next = [acc EXCEPT !.raised = TRUE]
      BY <2>1, <2>2
    <3>2. next.sections = acc.sections /\ next.raised /\ next.errors = acc.errors
      BY <3>1
    <3>3. QED
      BY <1>0, <1>6, <2>2, <3>2 DEF next, out, Adds
  <2>3. CASE read # {}
    <3> DEFINE x == CHOOSE y \in read : TRUE
               joined == Joined(acc.sections, sec.id, WithStatusSeverity(x, type, sec.instr))
    <3>1. x \in read
      BY <2>3
    <3>2. next = [acc EXCEPT !.sections = joined]
      BY <2>1, <2>3 DEF Joined
    <3> HIDE DEF x, joined
    <3>3. /\ next.sections = joined /\ next.raised = acc.raised /\ next.errors = acc.errors
          /\ next.omitted = acc.omitted
      BY <3>2
    <3>4. QED
      BY <1>0, <1>6, <3>1, <3>3 DEF next, out, Adds, joined
  <2>4. QED
    BY <2>2, <2>3
<1>7. QED
  BY <1>2, <1>3, <1>4, <1>5, <1>6, <1>8

(* A section that neither raises nor errs is read or left out.             *)
LEMMA NextSectionOfFile ==
    ASSUME NEW f, NEW type, NEW acc, NEW sec,
           ~extract_next(f, type, acc, sec).raised, ~extract_next(f, type, acc, sec).errors
    PROVE  LET next == extract_next(f, type, acc, sec)
               out == section_outcome(f, type, sec.instr)
           IN  /\ ~acc.raised /\ ~acc.errors
               /\ \/ /\ out = "omitted" /\ next.omitted = acc.omitted \cup {sec.id}
                     /\ DOMAIN next.sections = DOMAIN acc.sections
                  \/ /\ out # "omitted" /\ next.omitted = acc.omitted
                     /\ DOMAIN next.sections = DOMAIN acc.sections \cup {sec.id}
<1> DEFINE next == extract_next(f, type, acc, sec)
<1>1. Adds(f, type, sec, acc, next)
  BY NextOfFile
<1>2. \A rows : DOMAIN Joined(acc.sections, sec.id, rows) = DOMAIN acc.sections \cup {sec.id}
  BY DEF Joined
<1>3. ~next.raised /\ ~next.errors
  OBVIOUS
<1> HIDE DEF next
<1>4. QED
  BY <1>1, <1>2, <1>3 DEF Adds, next

(* What the first n sections of a file leave, unless one raised or erred.  *)
FileReadTo(f, type, seq, u, n) ==
  u.raised \/ u.errors \/
    /\ DOMAIN u.sections \cap u.omitted = {}
    /\ DOMAIN u.sections \cup u.omitted = {seq[i].id : i \in 1 .. n}
    /\ \A i \in 1 .. n : seq[i].id \in u.omitted => section_outcome(f, type, seq[i].instr) = "omitted"

LEMMA ExtractedIsWhole ==
    ASSUME NEW f, NEW type, NEW seq, Len(seq) \in Nat, DOMAIN seq = 1 .. Len(seq),
           \A i, k \in DOMAIN seq : seq[i].id = seq[k].id => i = k
    PROVE  FileReadTo(f, type, seq, extracted(f, type, seq)[Len(seq)], Len(seq))
<1> DEFINE N == Len(seq)
           u == extracted(f, type, seq)
           T == {n \in 0 .. N : FileReadTo(f, type, seq, u[n], n)}
<1>1. u = [n \in 0 .. N |-> IF n = 0 THEN Before(seq) ELSE extract_next(f, type, u[n - 1], seq[n])]
  BY ExtractedUnfolds
<1> HIDE DEF u
<1>2. 0 \in T
  <2>1. u[0] = Before(seq)
    BY <1>1
  <2>2. u[0].sections = <<>> /\ u[0].omitted = {}
    BY <2>1 DEF Before
  <2>3. QED
    BY <2>2 DEF FileReadTo
<1>3. ASSUME NEW n \in 0 .. N, n \in T, n < N PROVE n + 1 \in T
  <2> DEFINE acc == u[n]
             sec == seq[n + 1]
             next == extract_next(f, type, acc, sec)
  <2>1. u[n + 1] = next
    BY <1>1, <1>3
  <2> HIDE DEF acc
  <2>2. CASE next.raised \/ next.errors
    BY <1>3, <2>1, <2>2 DEF FileReadTo
  <2>3. CASE ~next.raised /\ ~next.errors
    <3>1. /\ ~acc.raised /\ ~acc.errors
          /\ \/ /\ section_outcome(f, type, sec.instr) = "omitted"
                /\ next.omitted = acc.omitted \cup {sec.id}
                /\ DOMAIN next.sections = DOMAIN acc.sections
             \/ /\ next.omitted = acc.omitted
                /\ DOMAIN next.sections = DOMAIN acc.sections \cup {sec.id}
      BY <2>3, NextSectionOfFile
    <3>2. /\ DOMAIN acc.sections \cap acc.omitted = {}
          /\ DOMAIN acc.sections \cup acc.omitted = {seq[i].id : i \in 1 .. n}
          /\ \A i \in 1 .. n : seq[i].id \in acc.omitted =>
               section_outcome(f, type, seq[i].instr) = "omitted"
      BY <1>3, <3>1 DEF FileReadTo, acc
    <3> HIDE DEF next
    <3>3. n + 1 \in DOMAIN seq /\ \A i \in 1 .. n : i \in DOMAIN seq /\ i # n + 1
      BY <1>3
    <3>4. \A i \in 1 .. n : seq[i].id # sec.id
      BY <3>3
    <3>5. sec.id \notin DOMAIN acc.sections /\ sec.id \notin acc.omitted
      BY <3>2, <3>4
    <3>6. 1 .. n + 1 = (1 .. n) \cup {n + 1}
      OBVIOUS
    <3>7. {seq[i].id : i \in 1 .. n + 1} = {seq[i].id : i \in 1 .. n} \cup {sec.id}
      BY <3>6
    <3>8. /\ DOMAIN next.sections \cap next.omitted = {}
          /\ DOMAIN next.sections \cup next.omitted = {seq[i].id : i \in 1 .. n + 1}
      BY <3>1, <3>2, <3>5, <3>7
    <3>9. ASSUME NEW i \in 1 .. n + 1, seq[i].id \in next.omitted
          PROVE  section_outcome(f, type, seq[i].instr) = "omitted"
      <4>1. CASE i \in 1 .. n
        BY <3>1, <3>2, <3>4, <3>9, <4>1
      <4>2. CASE i = n + 1
        BY <3>1, <3>5, <3>9, <4>2
      <4>3. QED
        BY <3>6, <4>1, <4>2
    <3>10. QED
      BY <1>3, <2>1, <3>8, <3>9 DEF FileReadTo
  <2>4. QED
    BY <2>2, <2>3
<1>4. N \in Nat /\ N \in 0 .. N
  OBVIOUS
<1>5. 0 .. N \subseteq T
  <2> HIDE DEF T
  <2>1. QED
    BY <1>2, <1>3, <1>4, Climb
<1>6. QED
  BY <1>4, <1>5 DEF u

(* Sections of which none shows a code.                                    *)
AllMasked(sections) == \A s \in DOMAIN sections : MaskedRows(sections[s])

LEMMA NextIsMasked ==
    ASSUME NEW f, NEW type \in {"csv", "html"}, NEW acc, AllMasked(acc.sections),
           NEW sec, sec.instr # <<>> => Maskable(sec.instr)
    PROVE  AllMasked(extract_next(f, type, acc, sec).sections)
<1> DEFINE next == extract_next(f, type, acc, sec)
<1>1. Adds(f, type, sec, acc, next)
  BY NextOfFile
<1> HIDE DEF next
<1>2. CASE next.sections = acc.sections
  BY <1>2 DEF next
<1>3. ASSUME section_outcome(f, type, sec.instr) = "read",
             NEW x \in ReadOf(f, type, sec.instr, acc.sections),
             next.sections = Joined(acc.sections, sec.id, WithStatusSeverity(x, type, sec.instr))
      PROVE  AllMasked(next.sections)
  <2>1. sec.instr # <<>>
    BY <1>3 DEF section_outcome
  <2>2. MaskedRows(x)
    BY <1>3, <2>1, CsvIsMasked, HtmlIsMasked DEF ReadOf
  <2>3. MaskedRows(WithStatusSeverity(x, type, sec.instr))
    BY <2>2, GradedIsMasked
  <2>4. QED
    BY <1>3, <2>3 DEF AllMasked, Joined
<1>4. QED
  BY <1>1, <1>2, <1>3 DEF Adds, next

LEMMA FileIsMasked ==
    ASSUME NEW f, NEW type \in {"csv", "html"}, NEW seq, Len(seq) \in Nat,
           \A i \in 1 .. Len(seq) : seq[i].instr # <<>> => Maskable(seq[i].instr)
    PROVE  AllMasked(extracted(f, type, seq)[Len(seq)].sections)
<1> DEFINE N == Len(seq)
           u == extracted(f, type, seq)
           T == {n \in 0 .. N : AllMasked(u[n].sections)}
<1>1. u = [n \in 0 .. N |-> IF n = 0 THEN Before(seq) ELSE extract_next(f, type, u[n - 1], seq[n])]
  BY ExtractedUnfolds
<1>0. N \in Nat /\ \A i \in 1 .. N : seq[i].instr # <<>> => Maskable(seq[i].instr)
  OBVIOUS
<1> HIDE DEF u, N
<1>2. 0 \in T
  <2>1. 0 \in 0 .. N /\ u[0] = Before(seq)
    BY <1>0, <1>1
  <2>2. u[0].sections = <<>>
    BY <2>1 DEF Before
  <2>3. QED
    BY <2>1, <2>2 DEF AllMasked
<1>3. ASSUME NEW n \in 0 .. N, n \in T, n < N PROVE n + 1 \in T
  <2>1. n + 1 \in 0 .. N /\ n + 1 \in 1 .. N /\ n + 1 # 0 /\ (n + 1) - 1 = n
    BY <1>0, <1>3
  <2>2. u[n + 1] = extract_next(f, type, u[(n + 1) - 1], seq[n + 1])
    BY <1>1, <2>1
  <2>3. u[n + 1] = extract_next(f, type, u[n], seq[n + 1])
    BY <2>1, <2>2
  <2>4. AllMasked(u[n + 1].sections)
    BY <1>0, <1>3, <2>1, <2>3, NextIsMasked
  <2>5. QED
    BY <2>1, <2>4
<1>4. 0 .. N \subseteq T
  <2> HIDE DEF T
  <2>1. QED
    BY <1>0, <1>2, <1>3, Climb
<1>5. N \in 0 .. N
  BY <1>0
<1>6. QED
  BY <1>4, <1>5 DEF u, N

(* Neither raised, unless for what the gate leaves unread of the first n   *)
(* sections, nor, in a CSV file, in error.                                 *)
UnreadTo(type, seq, n) == \E i \in 1 .. n : Unread(type, seq[i].instr)
Runs(type, seq, acc, n) == (acc.raised => UnreadTo(type, seq, n)) /\ (type = "csv" => ~acc.errors)

LEMMA NextRuns ==
    ASSUME NEW f, NEW type \in {"csv", "html"}, NEW acc, type = "csv" => ~acc.errors,
           NEW sec, validate_recipe(type, sec.instr)
    PROVE  LET next == extract_next(f, type, acc, sec)
           IN  /\ next.raised => acc.raised \/ Unread(type, sec.instr)
               /\ type = "csv" => ~next.errors
<1> DEFINE next == extract_next(f, type, acc, sec)
           out == section_outcome(f, type, sec.instr)
           read == ReadOf(f, type, sec.instr, acc.sections)
           unread == Unread(type, sec.instr)
<1>1. Adds(f, type, sec, acc, next)
  BY NextOfFile
<1>2. type = "csv" => out \in {"read", "omitted"}
  BY CsvErrsNot
<1>3. out = "read" /\ ~unread => read # {}
  <2>1. out = "read" => sec.instr # <<>>
    BY DEF section_outcome
  <2>2. CASE type = "csv"
    BY <2>1, <2>2, CsvReads DEF ReadOf
  <2>3. CASE type = "html"
    <3>1. out = "read" => html_outcome(f, sec.instr) = "read"
      BY <2>3 DEF section_outcome
    <3>2. QED
      BY <2>1, <2>3, <3>1, HtmlReads DEF ReadOf
  <2>4. QED
    BY <2>2, <2>3
<1>4. out = "raise" => unread
  <2>1. CASE type = "csv"
    BY <1>2, <2>1
  <2>2. CASE type = "html"
    BY <2>2 DEF section_outcome, html_outcome, Unread
  <2>3. QED
    BY <2>1, <2>2
<1> HIDE DEF next, out, read, unread
<1>5. next.raised => acc.raised \/ unread
  BY <1>1, <1>3, <1>4 DEF Adds, out, read
<1>6. type = "csv" => ~next.errors
  BY <1>1, <1>2 DEF Adds, out
<1>7. QED
  BY <1>5, <1>6 DEF next, unread

LEMMA FileRuns ==
    ASSUME NEW f, NEW type \in {"csv", "html"}, NEW seq, Len(seq) \in Nat,
           type = "csv" => seq # <<>>,
           \A i \in 1 .. Len(seq) : validate_recipe(type, seq[i].instr)
    PROVE  Runs(type, seq, extracted(f, type, seq)[Len(seq)], Len(seq))
<1> DEFINE N == Len(seq)
           u == extracted(f, type, seq)
           T == {n \in 0 .. N : Runs(type, seq, u[n], n)}
<1>1. u = [n \in 0 .. N |-> IF n = 0 THEN Before(seq) ELSE extract_next(f, type, u[n - 1], seq[n])]
  BY ExtractedUnfolds
<1>0. N \in Nat /\ \A i \in 1 .. N : validate_recipe(type, seq[i].instr)
  OBVIOUS
<1> HIDE DEF u, N
<1>2. 0 \in T
  <2>1. 0 \in 0 .. N /\ u[0] = Before(seq)
    BY <1>0, <1>1
  <2>2. u[0].raised = FALSE /\ u[0].errors = (seq = <<>>)
    BY <2>1 DEF Before
  <2>3. QED
    BY <2>1, <2>2 DEF Runs
<1>3. ASSUME NEW n \in 0 .. N, n \in T, n < N PROVE n + 1 \in T
  <2>1. n + 1 \in 0 .. N /\ n + 1 \in 1 .. N /\ n + 1 # 0 /\ (n + 1) - 1 = n
    BY <1>0, <1>3
  <2>2. u[n + 1] = extract_next(f, type, u[(n + 1) - 1], seq[n + 1])
    BY <1>1, <2>1
  <2>3. u[n + 1] = extract_next(f, type, u[n], seq[n + 1])
    BY <2>1, <2>2
  <2>4. Runs(type, seq, u[n], n) /\ validate_recipe(type, seq[n + 1].instr)
    BY <1>0, <1>3, <2>1
  <2>5. /\ u[n + 1].raised => u[n].raised \/ Unread(type, seq[n + 1].instr)
        /\ type = "csv" => ~u[n + 1].errors
    BY <2>3, <2>4, NextRuns DEF Runs
  <2>6. n + 1 \in 1 .. n + 1 /\ \A i \in 1 .. n : i \in 1 .. n + 1
    BY <1>3
  <2>7. UnreadTo(type, seq, n) \/ Unread(type, seq[n + 1].instr) => UnreadTo(type, seq, n + 1)
    BY <2>6 DEF UnreadTo
  <2>8. Runs(type, seq, u[n + 1], n + 1)
    BY <2>4, <2>5, <2>7 DEF Runs
  <2>9. QED
    BY <2>1, <2>8
<1>4. 0 .. N \subseteq T
  <2> HIDE DEF T
  <2>1. QED
    BY <1>0, <1>2, <1>3, Climb
<1>5. N \in 0 .. N
  BY <1>0
<1>6. QED
  BY <1>4, <1>5 DEF u, N

(* Only a section whose heading is missing, or without instructions, is    *)
(* left out.                                                               *)
LEMMA OmittedWithoutHeading ==
    ASSUME NEW f, NEW type, NEW instr, section_outcome(f, type, instr) = "omitted", instr # <<>>
    PROVE  \A i \in DOMAIN f.headings :
             <<f.headings[i].selector, f.headings[i].text>> # <<instr.selector, instr.title_match>>
<1>1. html_outcome(f, instr) = "omitted"
  BY DEF section_outcome
<1>2. find_section_table(f, instr) = {}
  BY <1>1 DEF html_outcome
<1>3. {i \in DOMAIN f.headings : /\ f.headings[i].selector = instr.selector
                                 /\ f.headings[i].text = instr.title_match} = {}
  BY <1>2 DEF find_section_table
<1>4. QED
  BY <1>3

(* An import that ends with an artifact read the whole file for it.        *)
LEMMA DispatchMakes ==
    ASSUME NEW f, NEW entry, dispatch(f, entry).artifact # {}
    PROVE  LET type == detect_source_type(f)
               got == extract_sections(f, entry, type)
           IN  /\ type \in {"html", "csv"} \cap DOMAIN entry.sources /\ ~got.raised /\ ~got.errors
               /\ dispatch(f, entry).artifact =
                    {[subject |-> entry.subject, entry |-> entry, source |-> type, file |-> {f},
                      sections |-> got.sections, failures |-> {}, warned |-> got.omitted]}
<1> DEFINE type == detect_source_type(f)
           got == extract_sections(f, entry, type)
           No(end) == [end |-> end, artifact |-> {}]
           Outcome(g) == IF g.raised THEN No("raised") ELSE IF g.errors THEN No("errors")
                         ELSE [end |-> "artifact", artifact |->
                           {[subject |-> entry.subject, entry |-> entry, source |-> type, file |-> {f},
                             sections |-> g.sections, failures |-> {}, warned |-> g.omitted]}]
<1>1. dispatch(f, entry) =
        CASE type \notin {"html", "csv"} -> No("unsupported")
          [] ~get_extractability(entry, type) -> No("not_extractable")
          [] type \notin DOMAIN entry.sources -> No("errors")
          [] OTHER -> With(got, Outcome)
  BY DEF dispatch
<1> HIDE DEF got, type
<1>2. With(got, Outcome) = Outcome(got)
  BY DEF With
<1>3. \A end : No(end).artifact = {}
  OBVIOUS
<1>4. type \in {"html", "csv"} \cap DOMAIN entry.sources /\ dispatch(f, entry) = Outcome(got)
  BY <1>1, <1>2, <1>3
<1>5. ~got.raised /\ ~got.errors
  BY <1>3, <1>4
<1>6. QED
  BY <1>4, <1>5 DEF got, type

LEMMA DispatchIsWhole ==
    ASSUME NEW f, NEW entry, SectionsAreListed(entry.sources), NEW a \in dispatch(f, entry).artifact
    PROVE  dispatch(f, entry).artifact = {a} /\ a.subject = entry.subject /\ ArtifactIsWhole(a)
<1> DEFINE type == detect_source_type(f)
           got == extract_sections(f, entry, type)
           seq == entry.sources[type].sections
           whole == [subject |-> entry.subject, entry |-> entry, source |-> type, file |-> {f},
                     sections |-> got.sections, failures |-> {}, warned |-> got.omitted]
<1>1. /\ type \in DOMAIN entry.sources /\ ~got.raised /\ ~got.errors
      /\ dispatch(f, entry).artifact = {whole}
  <2>1. dispatch(f, entry).artifact # {}
    OBVIOUS
  <2>2. QED
    BY <2>1, DispatchMakes
<1>2. a = whole
  BY <1>1
<1> HIDE DEF type
<1>3. /\ Len(seq) \in Nat /\ DOMAIN seq = 1 .. Len(seq)
      /\ \A i, k \in DOMAIN seq : seq[i].id = seq[k].id => i = k
  BY <1>1, Listed
<1>4. FileReadTo(f, type, seq, got, Len(seq))
  BY <1>3, ExtractedIsWhole DEF extract_sections
<1> HIDE DEF got
<1>5. /\ a.subject = entry.subject /\ a.entry = entry /\ a.source = type /\ a.file = {f}
      /\ a.sections = got.sections /\ a.failures = {} /\ a.warned = got.omitted
  BY <1>2
<1>6. /\ DOMAIN got.sections \cap got.omitted = {}
      /\ DOMAIN got.sections \cup got.omitted = {seq[i].id : i \in 1 .. Len(seq)}
      /\ \A i \in 1 .. Len(seq) : seq[i].id \in got.omitted =>
           section_outcome(f, type, seq[i].instr) = "omitted"
  BY <1>1, <1>4 DEF FileReadTo
<1>7. SectionIds(entry, type) = {seq[i].id : i \in 1 .. Len(seq)}
  BY <1>3 DEF SectionIds
<1>8. ASSUME NEW s \in got.omitted, InstrOf(entry, type, s) # <<>>
      PROVE  \A i \in DOMAIN f.headings :
               <<f.headings[i].selector, f.headings[i].text>> #
                 <<InstrOf(entry, type, s).selector, InstrOf(entry, type, s).title_match>>
  <2>1. PICK k \in DOMAIN seq : seq[k].id = s
    BY <1>3, <1>6
  <2>2. (CHOOSE i \in DOMAIN seq : seq[i].id = s) = k
    BY <1>3, <2>1
  <2>3. InstrOf(entry, type, s) = seq[k].instr
    BY <2>2 DEF InstrOf
  <2>4. section_outcome(f, type, seq[k].instr) = "omitted"
    BY <1>3, <1>6, <2>1
  <2>5. QED
    BY <1>8, <2>3, <2>4, OmittedWithoutHeading
<1>9. ArtifactIsWhole(a)
  BY <1>5, <1>6, <1>7, <1>8 DEF ArtifactIsWhole
<1>10. QED
  BY <1>1, <1>2, <1>5, <1>9

-----------------------------------------------------------------------------
(* Every step keeps artifacts whole. *)

LEMMA StoreStays == StoreIsWhole /\ UNCHANGED store => StoreIsWhole'
  BY DEF StoreIsWhole

LEMMA CatalogStays == CatalogIsKeyed /\ UNCHANGED catalog => CatalogIsKeyed'
  BY DEF CatalogIsKeyed

LEMMA JobsStay == JobsAreWhole /\ UNCHANGED job => JobsAreWhole'
  BY DEF JobsAreWhole

LEMMA NoJobs == job' = {} => JobsAreWhole'
  BY DEF JobsAreWhole

(* A whole artifact takes the place of the one before it. *)
LEMMA StoreReplaced ==
    ASSUME StoreIsWhole, NEW s \in Subjects, NEW a, a.subject = s, ArtifactIsWhole(a),
           store' = [store EXCEPT ![s] = {a}]
    PROVE  StoreIsWhole'
<1>1. DOMAIN store' = Subjects /\ \A p \in Subjects : store'[p] = IF p = s THEN {a} ELSE store[p]
  BY DEF StoreIsWhole
<1>2. ASSUME NEW p \in Subjects, NEW b \in store'[p]
      PROVE  store'[p] = {b} /\ b.subject = p /\ ArtifactIsWhole(b)
  BY <1>1 DEF StoreIsWhole
<1>3. QED
  BY <1>1, <1>2 DEF StoreIsWhole

LEMMA EndpointIsWhole ==
    ASSUME JobsAreWhole, GetEndpoint PROVE JobsAreWhole'
<1>0. PICK j \in job :
        /\ j.pc = "endpoint"
        /\ \E r \in UNION {api_get(e) : e \in validate_cc_endpoint(j.entry.sources[CC].endpoint)} :
             job' = IF ~r.ok THEN {} ELSE
                    {[j EXCEPT !.pc = "store",
                         !.sections = cc_sections(r.data, j.entry.sources[CC].sections)]}
  BY DEF GetEndpoint
<1>1. PICK r : job' = IF ~r.ok THEN {} ELSE
                 {[j EXCEPT !.pc = "store",
                      !.sections = cc_sections(r.data, j.entry.sources[CC].sections)]}
  BY <1>0
<1> DEFINE seq == j.entry.sources[CC].sections
           read == cc_sections(r.data, seq)
           k == [j EXCEPT !.pc = "store", !.sections = read]
<1>2. Collecting(j) /\ j.source = CC /\ j.failures = {}
  BY <1>0 DEF JobsAreWhole, JobIsWhole
<1>3. DOMAIN read = {seq[i].id : i \in DOMAIN seq}
  BY DEF cc_sections
<1>4. Len(seq) \in Nat /\ DOMAIN seq = 1 .. Len(seq)
  BY <1>2, Listed DEF Collecting
<1> HIDE DEF read
<1>5. /\ k.pc = "store" /\ k.kind = j.kind /\ k.file = j.file /\ k.entry = j.entry
      /\ k.source = j.source /\ k.failures = j.failures /\ k.sections = read
  OBVIOUS
<1>6. job' = {} \/ job' = {k}
  BY <1>1 DEF read
<1> HIDE DEF k
<1>7. SectionsOf(k) = seq /\ Collecting(k)
  BY <1>2, <1>5 DEF SectionsOf, Collecting
<1>8. ReadTo(k, Len(SectionsOf(k)))
  BY <1>2, <1>3, <1>4, <1>5, <1>7 DEF ReadTo
<1>9. JobIsWhole(k)
  BY <1>5, <1>7, <1>8 DEF JobIsWhole
<1>10. QED
  BY <1>6, <1>9 DEF JobsAreWhole

LEMMA CollectedIsWhole ==
    ASSUME JobsAreWhole, StoreIsWhole, CollectStore PROVE StoreIsWhole'
<1>1. PICK j \in job : /\ j.kind = "collect" /\ j.pc = "store"
                       /\ store' = [store EXCEPT ![j.entry.subject] = {Artifact(j)}]
  BY DEF CollectStore
<1> DEFINE a == Artifact(j)
<1>2. Collecting(j) /\ ReadTo(j, Len(SectionsOf(j)))
  BY <1>1 DEF JobsAreWhole, JobIsWhole
<1>3. Len(SectionsOf(j)) \in Nat /\ DOMAIN SectionsOf(j) = 1 .. Len(SectionsOf(j))
  BY <1>2, Listed DEF Collecting, SectionsOf
<1>4. /\ a.subject = j.entry.subject /\ a.entry = j.entry /\ a.source = j.source /\ a.file = {}
      /\ a.sections = j.sections /\ a.failures = j.failures
  BY <1>2 DEF Artifact, Collecting
<1> HIDE DEF a
<1>5. SectionIds(j.entry, j.source) = {SectionsOf(j)[i].id : i \in 1 .. Len(SectionsOf(j))}
  BY <1>3 DEF SectionIds, SectionsOf
<1>6. ArtifactIsWhole(a)
  BY <1>2, <1>4, <1>5 DEF ArtifactIsWhole, ReadTo
<1>7. j.entry.subject \in Subjects /\ store' = [store EXCEPT ![j.entry.subject] = {a}]
  BY <1>1, <1>2 DEF a, Collecting
<1>8. QED
  BY <1>4, <1>6, <1>7, StoreReplaced

LEMMA ImportedIsWhole ==
    ASSUME JobsAreWhole, StoreIsWhole, CatalogIsKeyed, ImportDispatch PROVE StoreIsWhole'
<1>1. PICK j \in job : /\ j.kind = "import"
                       /\ \E f \in Files : \E got \in extract_file(f, {j.subject}) :
                            store' = IF got.artifact = {} THEN store
                                     ELSE [store EXCEPT ![j.subject] = got.artifact]
  BY DEF ImportDispatch
<1>0. PICK f \in Files : \E got \in extract_file(f, {j.subject}) :
        store' = IF got.artifact = {} THEN store ELSE [store EXCEPT ![j.subject] = got.artifact]
  BY <1>1
<1>2. PICK got \in extract_file(f, {j.subject}) :
        store' = IF got.artifact = {} THEN store ELSE [store EXCEPT ![j.subject] = got.artifact]
  BY <1>0
<1>3. PICK e \in get_subject(j.subject) : got = dispatch(f, e)
  BY DEF extract_file, get_active_version
<1>4. e \in catalog /\ e.subject = j.subject
  BY OneSubject
<1>5. SectionsAreListed(e.sources) /\ e.subject \in Subjects
  BY <1>4 DEF CatalogIsKeyed
<1>6. CASE got.artifact = {}
  BY <1>2, <1>6, StoreStays
<1>7. CASE got.artifact # {}
  <2>1. PICK a : a \in dispatch(f, e).artifact
    BY <1>3, <1>7
  <2>2. dispatch(f, e).artifact = {a} /\ a.subject = e.subject /\ ArtifactIsWhole(a)
    BY <1>5, <2>1, DispatchIsWhole
  <2>3. store' = [store EXCEPT ![e.subject] = {a}]
    BY <1>2, <1>3, <1>4, <1>7, <2>2
  <2>4. QED
    BY <1>5, <2>2, <2>3, StoreReplaced
<1>8. QED
  BY <1>6, <1>7

LEMMA FixtureIsWhole ==
    ASSUME StoreIsWhole, NEW s \in DOMAIN store, CollectFixture(s) PROVE StoreIsWhole'
<1>1. s \in Subjects
  BY DEF StoreIsWhole
<1>2. PICK entry : store' = [store EXCEPT ![s] = {fixture_artifact(s, entry)}]
  BY DEF CollectFixture
<1> DEFINE a == fixture_artifact(s, entry)
           ids == SectionIds(entry, "json")
<1>3. /\ a.subject = s /\ a.file = {} /\ a.entry = entry /\ a.source = "json"
      /\ a.failures \subseteq ids /\ DOMAIN a.sections = ids \ a.failures
  BY DEF fixture_artifact
<1>4. ArtifactIsWhole(a)
  <2> HIDE DEF a
  <2>1. QED
    BY <1>3 DEF ArtifactIsWhole
<1>5. QED
  BY <1>1, <1>2, <1>3, <1>4, StoreReplaced

-----------------------------------------------------------------------------
LEMMA AcquireInit == Init => AcquireIInv
<1> SUFFICES ASSUME Init PROVE AcquireIInv
  OBVIOUS
<1>1. CatalogIsKeyed
  BY CatalogInit
<1>2. StoreIsWhole
  BY DEF Init, StoreIsWhole
<1>3. QED
  BY <1>1, <1>2, CollectAssumption DEF Init, AcquireIInv, JobsAreWhole

LEMMA AcquireKeeps == AcquireIInv /\ [Next]_collectVars => AcquireIInv'
<1> SUFFICES ASSUME AcquireIInv, [Next]_collectVars PROVE AcquireIInv'
  OBVIOUS
<1> DEFINE Counted == edits \in 0 .. MaxEdits /\ jobs \in 0 .. MaxJobs
<1>0. CatalogIsKeyed /\ StoreIsWhole /\ JobsAreWhole /\ Counted /\ DOMAIN store = Subjects
  BY DEF AcquireIInv, StoreIsWhole
<1>1. SUFFICES CatalogIsKeyed' /\ StoreIsWhole' /\ JobsAreWhole' /\ Counted'
  BY DEF AcquireIInv
<1>2. ASSUME UNCHANGED collectVars
      PROVE  CatalogIsKeyed' /\ StoreIsWhole' /\ JobsAreWhole' /\ Counted'
  BY <1>0, <1>2, CatalogStays, StoreStays, JobsStay DEF collectVars
<1>3. ASSUME create_subject_from_proposal
      PROVE  CatalogIsKeyed' /\ StoreIsWhole' /\ JobsAreWhole' /\ Counted'
  <2>1. UNCHANGED <<store, job, edits, jobs>>
    BY <1>3 DEF create_subject_from_proposal
  <2>2. QED
    BY <1>0, <1>3, <2>1, CatalogKeeps, StoreStays, JobsStay
<1>4. ASSUME NEW s \in DOMAIN store, CollectBegin(s)
      PROVE  CatalogIsKeyed' /\ StoreIsWhole' /\ JobsAreWhole' /\ Counted'
  <2>1. UNCHANGED <<catalog, store, edits>> /\ jobs' = jobs + 1 /\ jobs < MaxJobs
    BY <1>4 DEF CollectBegin
  <2>2. QED
    BY <1>0, <1>4, <2>1, CatalogStays, StoreStays, BeginIsWhole, CollectAssumption
<1>5. ASSUME NEW s \in DOMAIN store, ImportBegin(s)
      PROVE  CatalogIsKeyed' /\ StoreIsWhole' /\ JobsAreWhole' /\ Counted'
  <2>1. UNCHANGED <<catalog, store, edits>> /\ jobs' = jobs + 1 /\ jobs < MaxJobs
    BY <1>5 DEF ImportBegin
  <2>2. JobsAreWhole'
    <3> DEFINE k == [kind |-> "import", subject |-> s, pc |-> "dispatch", removed |-> FALSE]
    <3>1. job' = {k}
      BY <1>5 DEF ImportBegin
    <3>2. k.kind = "import" /\ k.subject = s /\ k.pc = "dispatch"
      OBVIOUS
    <3> HIDE DEF k
    <3>3. JobIsWhole(k)
      BY <1>0, <3>2 DEF JobIsWhole
    <3>4. QED
      BY <3>1, <3>3 DEF JobsAreWhole
  <2>3. QED
    BY <1>0, <2>1, <2>2, CatalogStays, StoreStays, CollectAssumption
<1>6. ASSUME NEW s \in DOMAIN store, CollectFixture(s)
      PROVE  CatalogIsKeyed' /\ StoreIsWhole' /\ JobsAreWhole' /\ Counted'
  <2>1. UNCHANGED <<catalog, job, edits>> /\ jobs' = jobs + 1 /\ jobs < MaxJobs
    BY <1>6 DEF CollectFixture
  <2>2. QED
    BY <1>0, <1>6, <2>1, CatalogStays, FixtureIsWhole, JobsStay, CollectAssumption
<1>7. ASSUME GetReport \/ GetMetadata \/ FetchPage \/ GetEndpoint
      PROVE  CatalogIsKeyed' /\ StoreIsWhole' /\ JobsAreWhole' /\ Counted'
  <2>1. UNCHANGED <<catalog, store, edits, jobs>>
    BY <1>7 DEF GetReport, GetMetadata, FetchPage, GetEndpoint
  <2>2. JobsAreWhole'
    BY <1>0, <1>7, RequestIsWhole, EndpointIsWhole
  <2>3. QED
    BY <1>0, <2>1, <2>2, CatalogStays, StoreStays
<1>8. ASSUME CollectStore
      PROVE  CatalogIsKeyed' /\ StoreIsWhole' /\ JobsAreWhole' /\ Counted'
  <2>1. UNCHANGED <<catalog, edits, jobs>> /\ job' = {}
    BY <1>8 DEF CollectStore
  <2>2. QED
    BY <1>0, <1>8, <2>1, CatalogStays, CollectedIsWhole, NoJobs
<1>9. ASSUME CollectFails
      PROVE  CatalogIsKeyed' /\ StoreIsWhole' /\ JobsAreWhole' /\ Counted'
  <2>1. UNCHANGED <<catalog, store, edits, jobs>> /\ job' = {}
    BY <1>9 DEF CollectFails
  <2>2. QED
    BY <1>0, <2>1, CatalogStays, StoreStays, NoJobs
<1>10. ASSUME ImportDispatch
       PROVE  CatalogIsKeyed' /\ StoreIsWhole' /\ JobsAreWhole' /\ Counted'
  <2>1. UNCHANGED <<catalog, edits, jobs>> /\ job' = {}
    BY <1>10 DEF ImportDispatch
  <2>2. QED
    BY <1>0, <1>10, <2>1, CatalogStays, ImportedIsWhole, NoJobs
<1>11. ASSUME CommCellEdits
       PROVE  CatalogIsKeyed' /\ StoreIsWhole' /\ JobsAreWhole' /\ Counted'
  <2>1. /\ UNCHANGED <<catalog, store, jobs>> /\ edits' = edits + 1 /\ edits < MaxEdits
        /\ job' = job \/ job' = {[j EXCEPT !.removed = TRUE] : j \in job}
    BY <1>11 DEF CommCellEdits, AppendRow, RemoveRow, RebuildReport
  <2>2. CASE job' = {[j EXCEPT !.removed = TRUE] : j \in job}
    <3>1. ASSUME NEW k \in job' PROVE job' = {k} /\ JobIsWhole(k)
      <4>1. PICK j \in job : k = [j EXCEPT !.removed = TRUE]
        BY <2>2
      <4>2. job = {j} /\ JobIsWhole(j)
        BY <1>0 DEF JobsAreWhole
      <4>3. TurnOf(j, k) /\ k.subject = j.subject
        BY <4>1 DEF TurnOf
      <4>4. SectionsOf(k) = SectionsOf(j)
        BY <4>3 DEF SectionsOf, TurnOf
      <4>5. JobIsWhole(k)
        BY <4>2, <4>3, <4>4 DEF JobIsWhole, Reading, Collecting, ReadTo, TurnOf
      <4>6. QED
        BY <2>2, <4>1, <4>2, <4>5
    <3>2. JobsAreWhole'
      BY <3>1 DEF JobsAreWhole
    <3>3. QED
      BY <1>0, <2>1, <3>2, CatalogStays, StoreStays, CollectAssumption
  <2>3. CASE job' = job
    BY <1>0, <2>1, <2>3, CatalogStays, StoreStays, JobsStay, CollectAssumption
  <2>4. QED
    BY <2>1, <2>2, <2>3
<1>12. QED
  BY <1>2, <1>3, <1>4, <1>5, <1>6, <1>7, <1>8, <1>9, <1>10, <1>11 DEF Next, CollectStep

(* Versions keep their keys, there is one acquisition at a time, what it   *)
(* has gone through is read or failed, and what is stored is whole,        *)
(* whatever the requests answer and the CommCell's users do meanwhile.     *)
THEOREM AcquireInvariant == Spec => []AcquireIInv
<1>1. QED
  BY AcquireInit, AcquireKeeps, PTL DEF Spec

(* The catalog's keys, the counters and the single job and artifact of     *)
(* every subject.                                                          *)
THEOREM AcquireTypeCorrect == Spec => []TypeOK
<1>1. AcquireIInv => TypeOK
  <2> SUFFICES ASSUME AcquireIInv PROVE TypeOK
    OBVIOUS
  <2>1. \A x : Cardinality({x}) = 1
    BY FS_Singleton
  <2>2. Cardinality({}) = 0
    BY FS_EmptySet
  <2>3. ASSUME NEW s \in DOMAIN store
        PROVE  Cardinality(store[s]) <= 1 /\ \A a \in store[s] : a.subject = s
    <3>1. \A a \in store[s] : store[s] = {a} /\ a.subject = s
      BY DEF AcquireIInv, StoreIsWhole
    <3>2. CASE store[s] = {}
      BY <2>2, <3>2
    <3>3. CASE store[s] # {}
      <4>1. PICK a : store[s] = {a}
        BY <3>1, <3>3
      <4>2. Cardinality(store[s]) = 1
        BY <2>1, <4>1
      <4>3. QED
        BY <3>1, <4>2
    <3>4. QED
      BY <3>2, <3>3
  <2>4. Cardinality(job) <= 1
    <3>1. CASE job = {}
      BY <2>2, <3>1
    <3>2. CASE job # {}
      BY <2>1, <3>2 DEF AcquireIInv, JobsAreWhole
    <3>3. QED
      BY <3>1, <3>2
  <2>5. \A j \in job : j.pc \in {"report", "metadata", "page", "endpoint", "store", "dispatch"}
    BY DEF AcquireIInv, JobsAreWhole, JobIsWhole
  <2>6. QED
    BY <2>3, <2>4, <2>5 DEF TypeOK, AcquireIInv, CatalogIsKeyed
<1>2. QED
  BY <1>1, AcquireInvariant, PTL

(* Every artifact in the store is whole, whichever way it came in and      *)
(* whatever failed, changed or was published on the way (rest.py,          *)
(* reportsplus_dataset.py, command_center.py, csv.py, html.py,             *)
(* fixture.py).                                                            *)
THEOREM WhatIsStoredIsWhole == Spec => []StoredIsWhole
<1>1. AcquireIInv => StoredIsWhole
  BY DEF AcquireIInv, StoreIsWhole, StoredIsWhole, Artifacts
<1>2. QED
  BY <1>1, AcquireInvariant, PTL

(* A file is recognised for active versions only, and where a subject has  *)
(* one active version the route that names the subject ends as the         *)
(* recognition does (recognition.py, dispatcher.py).                       *)
THEOREM RecognitionsAgree == Spec => []RecognitionAgrees
<1>1. AcquireIInv => RecognitionAgrees
  <2> SUFFICES ASSUME AcquireIInv, NEW f \in Files, NEW e \in identify(f)
               PROVE  /\ e.active
                      /\ (\A v \in catalog : v.active /\ v.subject = e.subject => v = e)
                         => extract_file(f, {e.subject}) = {dispatch(f, e)}
    BY DEF RecognitionAgrees
  <2>1. e \in catalog /\ e.active /\ e.version \in Nat
    BY DEF identify, load_candidates, AcquireIInv, CatalogIsKeyed
  <2>2. ASSUME \A v \in catalog : v.active /\ v.subject = e.subject => v = e
        PROVE  extract_file(f, {e.subject}) = {dispatch(f, e)}
    <3>1. {v \in catalog : v.subject = e.subject /\ v.active} = {e}
      BY <2>1, <2>2
    <3>2. get_subject(e.subject) = {e}
      BY <2>1, <3>1 DEF get_subject
    <3>3. QED
      BY <3>2 DEF extract_file, get_active_version
  <2>3. QED
    BY <2>1, <2>2
<1>2. QED
  BY <1>1, AcquireInvariant, PTL

-----------------------------------------------------------------------------
(* A collection reads what its recipe asks for.                            *)

(* What a collection has read follows the recipe.                          *)
Kept(j) ==
  /\ j.entry.sources \in Declared
  /\ NamesAreTrue => \A n \in DOMAIN j.names :
       j.names[n] \in DOMAIN datasets => datasets[j.names[n]].name = n
  /\ \A s \in DOMAIN j.sections : SectionFollows(j, s)
Knows(j) == j.source = RP /\ j.guid \in DOMAIN datasets => unknown_parameters(j) = {}

(* Nothing but the stage of the reading changes.                           *)
Onward(j, k) ==
  /\ k.kind = j.kind /\ k.entry = j.entry /\ k.source = j.source /\ k.sections = j.sections
  /\ k.from = j.from /\ k.names = j.names /\ k.removed = j.removed /\ k.i = j.i
  /\ j.warned \subseteq k.warned

(* What was kept is judged by what does not change from section to         *)
(* section.                                                                *)
LEMMA KeptOnward ==
    ASSUME NEW j, Kept(j), NEW k, Onward(j, k) PROVE Kept(k)
<1>1. /\ k.entry = j.entry /\ k.source = j.source /\ k.sections = j.sections
      /\ k.from = j.from /\ k.names = j.names /\ k.removed = j.removed
      /\ j.warned \subseteq k.warned
  BY DEF Onward
<1>2. ASSUME NEW s \in DOMAIN k.sections PROVE SectionFollows(k, s)
  <2>1. SectionFollows(j, s)
    BY <1>1 DEF Kept
  <2>2. QED
    BY <1>1, <2>1 DEF SectionFollows
<1>3. QED
  BY <1>1, <1>2 DEF Kept

(* The instructions of a section are those of its place in the recipe.     *)
LEMMA InstrAtPlace ==
    ASSUME NEW j, Reading(j), j.i \in DOMAIN SectionsOf(j)
    PROVE  InstrOf(j.entry, j.source, Section(j)) = Instr(j)
<1> DEFINE seq == j.entry.sources[j.source].sections
<1>1. \A i, k \in DOMAIN seq : seq[i].id = seq[k].id => i = k
  BY Listed DEF Reading, Collecting
<1>2. j.i \in DOMAIN seq
  BY DEF SectionsOf
<1> DEFINE c == CHOOSE i \in DOMAIN seq : seq[i].id = seq[j.i].id
<1>3. c \in DOMAIN seq /\ seq[c].id = seq[j.i].id
  BY <1>2
<1>4. c = j.i
  BY <1>1, <1>2, <1>3
<1>5. InstrOf(j.entry, j.source, Section(j)) = seq[c].instr
  BY DEF InstrOf, Section
<1>6. QED
  BY <1>4, <1>5 DEF Instr

(* The instructions of a live section are among those assumed to be sound. *)
LEMMA DeclaredInstr ==
    ASSUME NEW j, j.entry.sources \in Declared, Live(j), Reading(j), j.i \in DOMAIN SectionsOf(j)
    PROVE  /\ LiveInstruction(Instr(j))
           /\ ParametersStay /\ j.source = RP => \A p \in DOMAIN Instr(j).parameters : Stays(p, Instr(j))
<1>1. PICK v \in Seeded \cup Proposals : v.sources = j.entry.sources
  BY DEF Declared
<1>2. j.source \in {"rest", RP} /\ j.source \in DOMAIN v.sources /\ j.i \in DOMAIN v.sources[j.source].sections
  BY <1>1 DEF Live, Reading, Collecting, SectionsOf
<1>3. Instr(j) = v.sources[j.source].sections[j.i].instr
  BY <1>1 DEF Instr
<1>4. LiveInstruction(v.sources[j.source].sections[j.i].instr)
  BY <1>2, AcquireAssumption
<1>5. ASSUME ParametersStay, j.source = RP
      PROVE  \A p \in DOMAIN Instr(j).parameters : Stays(p, Instr(j))
  <2>1. RP \in DOMAIN v.sources /\ j.i \in DOMAIN v.sources[RP].sections
    BY <1>2, <1>5
  <2>2. LET instr == v.sources[RP].sections[j.i].instr
        IN  \A p \in DOMAIN instr.parameters : Stays(p, instr)
    BY <1>5, <2>1 DEF ParametersStay
  <2>3. QED
    BY <1>3, <1>5, <2>2
<1>6. QED
  BY <1>3, <1>4, <1>5

(* Turning to a section: what its name resolves to is read from the start. *)
LEMMA TurnFollows ==
    ASSUME CommCellHolds, NEW j, Live(j), Reading(j), Kept(j), Knows(j), NEW k \in next_section(j)
    PROVE  Follows(k)
<1> DEFINE n == Len(SectionsOf(j))
<1>1. n \in Nat /\ DOMAIN SectionsOf(j) = 1 .. n
  BY Listed DEF Reading, Collecting, SectionsOf
<1>2. j.i \in 1 .. n + 1
  BY DEF Reading
<1>3. n = Len(j.entry.sources[j.source].sections)
  BY DEF SectionsOf
<1> HIDE DEF n
<1>4. CASE j.i > n
  <2>1. k = [j EXCEPT !.pc = "store"]
    BY <1>3, <1>4 DEF next_section
  <2>2. Onward(j, k) /\ k.pc = "store" /\ k.guid = j.guid
    BY <2>1 DEF Onward
  <2>3. Kept(k)
    BY <2>2, KeptOnward
  <2>4. Knows(k)
    BY <2>2 DEF Knows, Onward, unknown_parameters
  <2>5. QED
    BY <2>2, <2>3, <2>4 DEF Follows, Kept, Knows
<1>5. CASE ~(j.i > n)
  <2>1. PICK g \in resolve_dataset(j) :
          k = [j EXCEPT !.pc = "page", !.guid = g, !.fetched = Nothing,
                        !.warned = IF Falls(j) THEN @ \cup {Section(j)} ELSE @]
    BY <1>3, <1>5 DEF next_section
  <2>2. /\ Onward(j, k) /\ k.pc = "page" /\ k.guid = g /\ k.fetched = Nothing
        /\ Falls(j) => Section(j) \in k.warned
    BY <2>1 DEF Onward
  <2>3. Kept(k)
    BY <2>2, KeptOnward
  <2>4. Knows(k)
    <3>1. k.source = RP => g = j.guid
      BY <2>1, <2>2 DEF resolve_dataset, Onward
    <3>2. QED
      BY <2>2, <3>1 DEF Knows, Onward, unknown_parameters
  <2>5. Instr(k) = Instr(j) /\ Section(k) = Section(j)
    BY <2>2 DEF Onward, Instr, Section
  <2>6. j.i \in DOMAIN SectionsOf(j)
    BY <1>1, <1>2, <1>5
  <2>7. Instr(j).limit \in Nat
    BY <2>6, DeclaredInstr DEF Kept, LiveInstruction
  <2>8. PageFollows(k)
    <3>1. ASSUME k.source = "rest", Instr(k).dataset_name # "", Section(k) \notin k.warned
          PROVE  Instr(k).dataset_name \in DOMAIN k.names /\ k.guid = k.names[Instr(k).dataset_name]
      <4>1. j.source = "rest" /\ j.source # RP /\ k.names = j.names
        BY <2>2, <3>1 DEF Onward, RP
      <4>2. Instr(j).dataset_name \in DOMAIN j.names
        BY <2>2, <2>5, <3>1, <4>1 DEF Falls
      <4>3. QED
        BY <2>1, <2>2, <2>5, <4>1, <4>2 DEF resolve_dataset
    <3>2. ASSUME k.guid \in DOMAIN datasets
          PROVE  ReadsFirst(k.fetched, datasets[k.guid], Instr(k), k.began)
      <4> DEFINE all == Serves(datasets[k.guid], Instr(k).parameters)
      <4>1. Lists(datasets[k.guid])
        BY <3>2 DEF CommCellHolds, Lists
      <4>2. all \in Seq(Range(datasets[k.guid].rows))
        BY <4>1, ServesType
      <4> HIDE DEF all
      <4>3. SubSeq(all, 1, 0) = <<>> /\ 0 \in 0 .. Len(all)
        BY <4>2
      <4>4. k.fetched.rows = <<>> /\ k.fetched.offset = 0
        BY <2>2 DEF Nothing
      <4>5. Instr(k).limit # 0 => 0 < Instr(k).limit
        BY <2>5, <2>7
      <4>6. QED
        BY <4>3, <4>4, <4>5 DEF ReadsFirst, all
    <3>3. k.fetched.offset \in Nat /\ AllBite(k.fetched.rows, Instr(k).parameters)
      <4>1. k.fetched.rows = <<>> /\ k.fetched.offset = 0
        BY <2>2 DEF Nothing
      <4>2. AllBite(<<>>, Instr(k).parameters)
        BY DEF AllBite, Range
      <4>3. QED
        BY <4>1, <4>2
    <3>4. QED
      BY <3>1, <3>2, <3>3 DEF PageFollows
  <2>9. QED
    BY <2>2, <2>3, <2>4, <2>8 DEF Follows, Kept, Knows
<1>6. QED
  BY <1>4, <1>5

(* A section read to its end: what is kept of it is what was fetched, of   *)
(* the dataset it was fetched from.                                        *)
LEMMA SectionJoins ==
    ASSUME NEW j, Section(j) \notin DOMAIN j.sections, NEW rows
    PROVE  LET m == Advanced(keep_section(j, rows))
               s == Section(j)
           IN  /\ m.kind = j.kind /\ m.entry = j.entry /\ m.source = j.source /\ m.names = j.names
               /\ m.warned = j.warned /\ m.removed = j.removed /\ m.guid = j.guid /\ m.pc = j.pc
               /\ \A t \in DOMAIN m.sections :
                    \/ t \in DOMAIN j.sections /\ m.sections[t] = j.sections[t]
                       /\ (t \in DOMAIN j.from => t \in DOMAIN m.from /\ m.from[t] = j.from[t])
                    \/ t = s /\ m.sections[t] = rows /\ t \in DOMAIN m.from
                       /\ m.from[t] = [guid |-> j.guid, began |-> j.began]
<1> DEFINE kept == keep_section(j, rows)
           m == Advanced(kept)
           s == Section(j)
<1>1. /\ kept.kind = j.kind /\ kept.entry = j.entry /\ kept.source = j.source /\ kept.names = j.names
      /\ kept.warned = j.warned /\ kept.removed = j.removed /\ kept.guid = j.guid /\ kept.pc = j.pc
      /\ kept.from = j.from /\ kept.i = j.i /\ kept.began = j.began
      /\ \/ kept.sections = j.sections
         \/ kept.sections = [t \in DOMAIN j.sections \cup {s} |-> IF t = s THEN rows ELSE j.sections[t]]
  <2>1. CASE check_conformance(rows, Instr(j).conformance) # ""
    <3>1. kept = [j EXCEPT !.failures = @ \cup {s}]
      BY <2>1 DEF keep_section
    <3>2. QED
      BY <3>1
  <2>2. CASE ~(check_conformance(rows, Instr(j).conformance) # "")
    <3>1. kept = [j EXCEPT !.sections = [t \in DOMAIN @ \cup {s} |-> IF t = s THEN rows ELSE @[t]]]
      BY <2>2 DEF keep_section
    <3>2. QED
      BY <3>1
  <2>3. QED
    BY <2>1, <2>2
<1>2. Section(kept) = s
  BY <1>1 DEF Section
<1> HIDE DEF kept, s
<1>3. /\ m.kind = kept.kind /\ m.entry = kept.entry /\ m.source = kept.source /\ m.names = kept.names
      /\ m.warned = kept.warned /\ m.removed = kept.removed /\ m.guid = kept.guid /\ m.pc = kept.pc
      /\ m.sections = kept.sections
      /\ m.from = [t \in DOMAIN kept.from \cup {s} |->
                     IF t = s THEN [guid |-> kept.guid, began |-> kept.began] ELSE kept.from[t]]
  BY <1>2 DEF Advanced
<1> HIDE DEF m
<1>4. s \notin DOMAIN j.sections
  BY DEF s
<1>5. ASSUME NEW t \in DOMAIN m.sections
      PROVE  \/ t \in DOMAIN j.sections /\ m.sections[t] = j.sections[t]
                /\ (t \in DOMAIN j.from => t \in DOMAIN m.from /\ m.from[t] = j.from[t])
             \/ t = s /\ m.sections[t] = rows /\ t \in DOMAIN m.from
                /\ m.from[t] = [guid |-> j.guid, began |-> j.began]
  <2>1. CASE t = s
    BY <1>1, <1>3, <1>4, <2>1
  <2>2. CASE t # s
    <3>1. t \in DOMAIN j.sections /\ m.sections[t] = j.sections[t]
      BY <1>1, <1>3, <2>2
    <3>2. t \in DOMAIN j.from => t \in DOMAIN m.from /\ m.from[t] = j.from[t]
      BY <1>1, <1>3, <2>2
    <3>3. QED
      BY <3>1, <3>2
  <2>3. QED
    BY <2>1, <2>2
<1>6. QED
  BY <1>1, <1>3, <1>5 DEF m, kept, s

(* What a finished section must have of its dataset, and of its recipe.    *)
Finished(j, rows) ==
  LET instr == Instr(j)
      d == datasets[j.guid]
  IN  /\ j.guid \in DOMAIN datasets
      /\ HasRows(d) /\ ~j.removed => Held(rows, d, instr, j.began)
      /\ j.source = "rest" /\ instr.dataset_name # "" /\ Section(j) \notin j.warned =>
           instr.dataset_name \in DOMAIN j.names /\ j.guid = j.names[instr.dataset_name]
      /\ ParametersStay /\ j.source = RP => AllBite(rows, instr.parameters)

LEMMA FinishFollows ==
    ASSUME CommCellHolds, NEW j, Live(j), Reading(j), j.i \in DOMAIN SectionsOf(j), Kept(j), Knows(j),
           Finished(j, shape_dataset_rows(j.fetched.rows, Instr(j))), NEW k \in finish_section(j)
    PROVE  Follows(k)
<1> DEFINE rows == shape_dataset_rows(j.fetched.rows, Instr(j))
           m == Advanced(keep_section(j, rows))
           s == Section(j)
<1>1. k \in next_section(m)
  BY DEF finish_section, With
<1>2. Reading(m) /\ s \notin DOMAIN j.sections
  BY FinishReads
<1>3. Finished(j, rows)
  OBVIOUS
<1> HIDE DEF rows
<1>4. /\ m.kind = j.kind /\ m.entry = j.entry /\ m.source = j.source /\ m.names = j.names
      /\ m.warned = j.warned /\ m.removed = j.removed /\ m.guid = j.guid
      /\ \A t \in DOMAIN m.sections :
           \/ t \in DOMAIN j.sections /\ m.sections[t] = j.sections[t]
              /\ (t \in DOMAIN j.from => t \in DOMAIN m.from /\ m.from[t] = j.from[t])
           \/ t = s /\ m.sections[t] = rows /\ t \in DOMAIN m.from
              /\ m.from[t] = [guid |-> j.guid, began |-> j.began]
  BY <1>2, SectionJoins
<1> HIDE DEF m, s
<1>5. InstrOf(j.entry, j.source, s) = Instr(j)
  BY InstrAtPlace DEF s
<1>6. ASSUME NEW t \in DOMAIN m.sections PROVE SectionFollows(m, t)
  <2>1. CASE t \in DOMAIN j.sections /\ m.sections[t] = j.sections[t]
             /\ (t \in DOMAIN j.from => t \in DOMAIN m.from /\ m.from[t] = j.from[t])
    <3>1. SectionFollows(j, t)
      BY <2>1 DEF Kept
    <3>2. QED
      BY <1>4, <2>1, <3>1 DEF SectionFollows
  <2>2. CASE t = s /\ m.sections[t] = rows /\ t \in DOMAIN m.from
             /\ m.from[t] = [guid |-> j.guid, began |-> j.began]
    <3>1. InstrOf(m.entry, m.source, t) = Instr(j)
      BY <1>4, <1>5, <2>2
    <3>2. m.from[t].guid = j.guid /\ m.from[t].began = j.began
      BY <2>2
    <3> DEFINE d == datasets[j.guid]
               instr == Instr(j)
    <3>3. /\ j.guid \in DOMAIN datasets
          /\ HasRows(d) /\ ~j.removed => Held(rows, d, instr, j.began)
          /\ j.source = "rest" /\ instr.dataset_name # "" /\ s \notin j.warned =>
               instr.dataset_name \in DOMAIN j.names /\ j.guid = j.names[instr.dataset_name]
          /\ ParametersStay /\ j.source = RP => AllBite(rows, instr.parameters)
      BY <1>3 DEF Finished, s
    <3>4. NamesAreTrue /\ j.source = "rest" /\ instr.dataset_name # "" /\ s \notin j.warned =>
            d.name = instr.dataset_name
      BY <3>3 DEF Kept
    <3>5. QED
      BY <1>4, <2>2, <3>1, <3>2, <3>3, <3>4 DEF SectionFollows
  <2>3. QED
    BY <1>4, <2>1, <2>2
<1>7. Kept(m)
  BY <1>4, <1>6 DEF Kept
<1>8. Knows(m) /\ Live(m)
  BY <1>4 DEF Knows, unknown_parameters, Live
<1>9. QED
  BY <1>1, <1>2, <1>7, <1>8, TurnFollows

(* A page read: the reading goes on or the section is finished.            *)
LEMMA PageKeeps ==
    ASSUME CommCellHolds, NEW j, Live(j), Reading(j), j.i \in DOMAIN SectionsOf(j), j.pc = "page",
           Follows(j), j.guid \in DOMAIN datasets,
           NEW k, k = page_read(j, datasets[j.guid])
    PROVE  /\ Onward(j, k) /\ k.pc = "page" /\ k.guid = j.guid /\ k.warned = j.warned /\ Kept(k) /\ Knows(k)
           /\ k.fetched.done => Finished(k, shape_dataset_rows(k.fetched.rows, Instr(k)))
           /\ ~k.fetched.done => PageFollows(k)
<1> DEFINE d == datasets[j.guid]
           instr == Instr(j)
           f == j.fetched
           size == IF instr.limit # 0 THEN instr.limit ELSE PageSize
           turn == fetch_page(f, DataGet(d, instr.parameters, f.offset, size), instr.limit, size)
           b == IF f.offset # 0 THEN j.began ELSE Len(Serves(d, instr.parameters))
<1>1. k = [j EXCEPT !.fetched = turn, !.began = b]
  BY DEF page_read, With
<1> HIDE DEF turn, b
<1>2. /\ Onward(j, k) /\ k.pc = "page" /\ k.guid = j.guid /\ k.warned = j.warned
      /\ k.fetched = turn /\ k.began = b
  BY <1>1 DEF Onward
<1>3. Instr(k) = instr /\ Section(k) = Section(j)
  BY <1>2 DEF Onward, Instr, Section
<1>4. Kept(j) /\ Knows(j) /\ PageFollows(j)
  BY DEF Follows, Kept, Knows
<1>5. Kept(k) /\ Knows(k)
  BY <1>2, <1>4, KeptOnward DEF Knows, Onward, unknown_parameters
<1>6. Lists(d)
  BY DEF CommCellHolds, Lists
<1>7. /\ LiveInstruction(instr)
      /\ ParametersStay /\ j.source = RP => \A p \in DOMAIN instr.parameters : Stays(p, instr)
  BY <1>4, DeclaredInstr DEF Kept
<1>8. instr.limit \in Nat /\ size \in Nat
  BY <1>7, CollectAssumption DEF LiveInstruction
<1> DEFINE rows == shape_dataset_rows(turn.rows, instr)
<1>9. ASSUME HasRows(d), ~j.removed
      PROVE  IF turn.done THEN Held(rows, d, instr, b) ELSE ReadsFirst(turn, d, instr, b)
  <2>1. ReadsFirst(f, d, instr, j.began)
    BY <1>4, <1>9 DEF PageFollows
  <2>2. QED
    BY <1>6, <1>8, <1>9, <2>1, TurnHolds DEF turn, b
<1>10. ASSUME j.source = RP
       PROVE  turn.offset \in Nat /\ AllBite(turn.rows, instr.parameters)
  <2>1. DOMAIN instr.parameters \subseteq d.params
    <3>1. unknown_parameters(j) = {}
      BY <1>4, <1>10 DEF Knows
    <3>2. j.i \in DOMAIN j.entry.sources[RP].sections
      BY <1>10 DEF SectionsOf
    <3>3. DOMAIN j.entry.sources[RP].sections[j.i].instr.parameters \ d.params = {}
      BY <3>1, <3>2 DEF unknown_parameters
    <3>4. QED
      BY <1>10, <3>3 DEF Instr
  <2>2. f.offset \in Nat /\ AllBite(f.rows, instr.parameters)
    BY <1>4, <1>10 DEF PageFollows
  <2>3. QED
    BY <1>6, <1>8, <2>1, <2>2, TurnBites DEF turn
<1>11. ASSUME turn.done PROVE Finished(k, rows)
  <2>1. ParametersStay /\ j.source = RP => AllBite(rows, instr.parameters)
    BY <1>7, <1>10, ShapeBites
  <2>2. j.source = "rest" /\ instr.dataset_name # "" /\ Section(j) \notin j.warned =>
               instr.dataset_name \in DOMAIN j.names /\ j.guid = j.names[instr.dataset_name]
    BY <1>4 DEF PageFollows
  <2>3. HasRows(d) /\ ~j.removed => Held(rows, d, instr, b)
    BY <1>9, <1>11
  <2> HIDE DEF rows, instr
  <2>4. QED
    BY <1>2, <1>3, <2>1, <2>2, <2>3 DEF Finished, Onward
<1>12. ASSUME ~turn.done PROVE PageFollows(k)
  <2>1. HasRows(d) /\ ~j.removed => ReadsFirst(turn, d, instr, b)
    BY <1>9, <1>12
  <2>2. j.source = "rest" /\ instr.dataset_name # "" /\ Section(j) \notin j.warned =>
               instr.dataset_name \in DOMAIN j.names /\ j.guid = j.names[instr.dataset_name]
    BY <1>4 DEF PageFollows
  <2> HIDE DEF instr
  <2>3. QED
    BY <1>2, <1>3, <1>10, <2>1, <2>2 DEF PageFollows, Onward
<1>13. QED
  BY <1>2, <1>3, <1>5, <1>11, <1>12

(* What was fetched of a dataset are the first rows of the longer one too. *)
LEMMA ReadsMore ==
    ASSUME NEW d, Lists(d), NEW e, Longer(d, e), NEW f, NEW instr, NEW began,
           ReadsFirst(f, d, instr, began)
    PROVE  ReadsFirst(f, e, instr, began)
<1> DEFINE s == Serves(d, instr.parameters)
           t == Serves(e, instr.parameters)
           o == f.offset
<1>1. /\ Lists(e) /\ s \in Seq(Range(d.rows)) /\ t \in Seq(Range(e.rows)) /\ Len(s) <= Len(t)
      /\ \A i \in 1 .. Len(s) : t[i] = s[i]
  BY ServesMore, ServesType
<1>2. /\ o \in 0 .. Len(s) /\ f.rows = SubSeq(s, 1, o)
      /\ instr.limit # 0 => o < instr.limit
      /\ o # 0 => began \in 0 .. Len(s)
  BY DEF ReadsFirst
<1> HIDE DEF s, t, o
<1>3. Len(s) \in Nat /\ Len(t) \in Nat
  BY <1>1
<1>4. SubSeq(s, 1, o) = SubSeq(t, 1, o)
  <2>1. SubSeq(s, 1, o) = [i \in 1 .. o |-> s[i]] /\ SubSeq(t, 1, o) = [i \in 1 .. o |-> t[i]]
    BY <1>1, <1>2, <1>3
  <2>2. \A i \in 1 .. o : s[i] = t[i]
    BY <1>1, <1>2, <1>3
  <2>3. QED
    BY <2>1, <2>2
<1>5. o \in 0 .. Len(t) /\ (o # 0 => began \in 0 .. Len(t))
  BY <1>1, <1>2, <1>3
<1>6. QED
  BY <1>2, <1>4, <1>5 DEF ReadsFirst, t, o

(* A dataset as it was, or longer by a row.                                *)
Grown(d, e) == e = d \/ (Longer(d, e) /\ e.name = d.name /\ e.shape = d.shape)

LEMMA GrownKeeps ==
    ASSUME NEW d, Lists(d), NEW e, Grown(d, e)
    PROVE  /\ Lists(e) /\ e.name = d.name /\ e.params = d.params /\ (HasRows(e) <=> HasRows(d))
           /\ \A rows, instr, began : Held(rows, d, instr, began) => Held(rows, e, instr, began)
           /\ \A f, instr, began : ReadsFirst(f, d, instr, began) => ReadsFirst(f, e, instr, began)
<1>1. CASE e = d
  BY <1>1
<1>2. CASE Longer(d, e) /\ e.name = d.name /\ e.shape = d.shape
  <2>1. Lists(e) /\ e.params = d.params
    BY <1>2, ServesMore DEF Longer
  <2>2. \A rows, instr, began : Held(rows, d, instr, began) => Held(rows, e, instr, began)
    BY <1>2, HoldsMore
  <2>3. \A f, instr, began : ReadsFirst(f, d, instr, began) => ReadsFirst(f, e, instr, began)
    BY <1>2, ReadsMore
  <2>4. QED
    BY <1>2, <2>1, <2>2, <2>3 DEF HasRows
<1>3. QED
  BY <1>1, <1>2 DEF Grown

(* The CommCell's users append: every dataset has grown or is as it was.   *)
AllGrown == DOMAIN datasets' = DOMAIN datasets /\ \A g \in DOMAIN datasets : Grown(datasets[g], datasets'[g])

(* One row appended to one dataset.                                        *)
LEMMA AppendGrows ==
    ASSUME NEW g, AppendRow(g) PROVE AllGrown
<1>1. PICK r : datasets' = [datasets EXCEPT ![g].rows = Append(@, r)]
  BY DEF AppendRow
<1>2. DOMAIN datasets' = DOMAIN datasets
  BY <1>1
<1>3. ASSUME NEW h \in DOMAIN datasets PROVE Grown(datasets[h], datasets'[h])
  <2>1. CASE h # g
    BY <1>1, <2>1 DEF Grown
  <2>2. CASE h = g
    <3>1. datasets'[h] = [datasets[h] EXCEPT !.rows = Append(datasets[h].rows, r)]
      BY <1>1, <2>2
    <3> DEFINE d == datasets[h]
               e == datasets'[h]
    <3>2. e = [d EXCEPT !.rows = Append(d.rows, r)]
      BY <3>1
    <3> HIDE DEF d, e
    <3>3. e.rows = Append(d.rows, r) /\ e.params = d.params /\ e.name = d.name /\ e.shape = d.shape
      BY <3>2
    <3>4. QED
      BY <3>3 DEF Grown, Longer, d, e
  <2>3. QED
    BY <2>1, <2>2
<1>4. QED
  BY <1>2, <1>3 DEF AllGrown

(* A CommCell that grew is still one of the given ones.                    *)
LEMMA CommCellGrows ==
    ASSUME CommCellHolds, AllGrown, definition' = definition
    PROVE  CommCellHolds'
<1>1. \A g \in DOMAIN datasets : Lists(datasets[g]) /\ Grown(datasets[g], datasets'[g])
  BY DEF CommCellHolds, Lists, AllGrown
<1>2. \A g \in DOMAIN datasets : Lists(datasets'[g]) /\ datasets'[g].name = datasets[g].name
  BY <1>1, GrownKeeps
<1>3. \A g \in DOMAIN datasets' : datasets'[g].rows \in Seq(Range(datasets'[g].rows))
  BY <1>2 DEF AllGrown, Lists
<1>4. PICK c \in CommCells : /\ DOMAIN datasets = DOMAIN c
                             /\ \A g \in DOMAIN c : datasets[g].name = c[g].name
  BY DEF CommCellHolds
<1>5. DOMAIN datasets' = DOMAIN c /\ \A g \in DOMAIN c : datasets'[g].name = c[g].name
  BY <1>2, <1>4 DEF AllGrown
<1>6. QED
  BY <1>3, <1>5 DEF CommCellHolds

(* A reading goes on undisturbed when datasets grow.                       *)
LEMMA JobGrows ==
    ASSUME CommCellHolds, AllGrown, NEW j, Follows(j)
    PROVE  Follows(j)'
<1>0. DOMAIN datasets' = DOMAIN datasets
  BY DEF AllGrown
<1>1. ASSUME NEW g \in DOMAIN datasets
      PROVE  /\ datasets'[g].name = datasets[g].name /\ datasets'[g].params = datasets[g].params
             /\ HasRows(datasets'[g]) <=> HasRows(datasets[g])
             /\ \A rows, instr, began : Held(rows, datasets[g], instr, began) => Held(rows, datasets'[g], instr, began)
             /\ \A f, instr, began : ReadsFirst(f, datasets[g], instr, began) => ReadsFirst(f, datasets'[g], instr, began)
  <2>1. Lists(datasets[g]) /\ Grown(datasets[g], datasets'[g])
    BY DEF CommCellHolds, Lists, AllGrown
  <2>2. QED
    BY <2>1, GrownKeeps
<1>2. ASSUME NEW s, SectionFollows(j, s) PROVE SectionFollows(j, s)'
  BY <1>0, <1>1, <1>2 DEF SectionFollows
<1>3. ASSUME PageFollows(j) PROVE PageFollows(j)'
  BY <1>0, <1>1, <1>3 DEF PageFollows
<1>4. ASSUME j.guid \in DOMAIN datasets PROVE unknown_parameters(j)' = unknown_parameters(j)
  BY <1>1, <1>4 DEF unknown_parameters
<1>5. ASSUME NamesAreTrue, \A n \in DOMAIN j.names : j.names[n] \in DOMAIN datasets => datasets[j.names[n]].name = n
      PROVE  \A n \in DOMAIN j.names : j.names[n] \in DOMAIN datasets' => datasets'[j.names[n]].name = n
  BY <1>0, <1>1, <1>5
<1>6. QED
  BY <1>0, <1>2, <1>3, <1>4, <1>5 DEF Follows

(* A row removed: what was read is measured against the dataset no more.   *)
LEMMA RemoveKeeps ==
    ASSUME CommCellHolds, NEW g, RemoveRow(g)
    PROVE  /\ CommCellHolds'
           /\ \A k \in job' : \E j \in job : k = [j EXCEPT !.removed = TRUE] /\ (Follows(j) => Follows(k)')
<1>1. /\ datasets' = [datasets EXCEPT ![g].rows = Tail(@)] /\ datasets[g].rows # <<>>
      /\ job' = {[j EXCEPT !.removed = TRUE] : j \in job} /\ definition' = definition
  BY DEF RemoveRow
<1>2. DOMAIN datasets' = DOMAIN datasets
  BY <1>1
<1>3. ASSUME NEW h \in DOMAIN datasets
      PROVE  /\ datasets'[h].name = datasets[h].name /\ datasets'[h].params = datasets[h].params
             /\ datasets'[h].rows \in Seq(Range(datasets'[h].rows))
  <2>1. datasets[h].rows \in Seq(Range(datasets[h].rows))
    BY DEF CommCellHolds
  <2>2. CASE h # g
    BY <1>1, <2>1, <2>2
  <2>3. CASE h = g
    <3>1. datasets'[h] = [datasets[h] EXCEPT !.rows = Tail(datasets[h].rows)]
      BY <1>1, <2>3
    <3> DEFINE d == datasets[h]
               e == datasets'[h]
               s == d.rows
    <3>2. e.rows = Tail(s) /\ e.params = d.params /\ e.name = d.name
      BY <3>1
    <3>3. s \in Seq(Range(s)) /\ s # <<>>
      BY <1>1, <2>1, <2>3
    <3> HIDE DEF d, e, s
    <3>4. Tail(s) \in Seq(Range(s)) /\ Len(Tail(s)) \in Nat /\ DOMAIN Tail(s) = 1 .. Len(Tail(s))
      BY <3>3
    <3> DEFINE t == Tail(s)
    <3>5. t \in Seq(Range(s)) /\ DOMAIN t = 1 .. Len(t)
      BY <3>4
    <3> HIDE DEF t
    <3>6. t \in Seq(Range(t))
      <4>1. \A i \in 1 .. Len(t) : t[i] \in Range(t)
        BY <3>5 DEF Range
      <4>2. QED
        BY <3>5, <4>1
    <3>7. QED
      BY <3>2, <3>6 DEF d, e, s, t
  <2>4. QED
    BY <2>2, <2>3
<1>4. CommCellHolds'
  <2>1. PICK c \in CommCells : /\ DOMAIN datasets = DOMAIN c
                               /\ \A h \in DOMAIN c : datasets[h].name = c[h].name
    BY DEF CommCellHolds
  <2>2. DOMAIN datasets' = DOMAIN c /\ \A h \in DOMAIN c : datasets'[h].name = c[h].name
    BY <1>2, <1>3, <2>1
  <2>3. \A h \in DOMAIN datasets' : datasets'[h].rows \in Seq(Range(datasets'[h].rows))
    BY <1>2, <1>3
  <2>4. QED
    BY <1>1, <2>2, <2>3 DEF CommCellHolds
<1>5. ASSUME NEW j \in job, Follows(j), NEW k, k = [j EXCEPT !.removed = TRUE]
      PROVE  Follows(k)'
  <2>1. /\ k.removed = TRUE /\ k.entry = j.entry /\ k.source = j.source /\ k.sections = j.sections
        /\ k.from = j.from /\ k.names = j.names /\ k.warned = j.warned /\ k.guid = j.guid
        /\ k.pc = j.pc /\ k.i = j.i /\ k.fetched = j.fetched
    BY <1>5
  <2>2. ASSUME NEW s, SectionFollows(j, s) PROVE SectionFollows(k, s)'
    BY <1>2, <1>3, <2>1, <2>2 DEF SectionFollows
  <2>3. ASSUME PageFollows(j) PROVE PageFollows(k)'
    <3>1. Instr(k) = Instr(j) /\ Section(k) = Section(j)
      BY <2>1 DEF Instr, Section
    <3>2. QED
      BY <1>2, <2>1, <2>3, <3>1 DEF PageFollows
  <2>4. ASSUME j.guid \in DOMAIN datasets PROVE unknown_parameters(k)' = unknown_parameters(j)
    BY <1>3, <2>1, <2>4 DEF unknown_parameters
  <2>5. ASSUME NamesAreTrue, \A n \in DOMAIN j.names : j.names[n] \in DOMAIN datasets => datasets[j.names[n]].name = n
        PROVE  \A n \in DOMAIN k.names : k.names[n] \in DOMAIN datasets' => datasets'[k.names[n]].name = n
    BY <1>2, <1>3, <2>1, <2>5
  <2>6. QED
    BY <1>2, <1>5, <2>1, <2>2, <2>3, <2>4, <2>5 DEF Follows
<1>6. QED
  BY <1>1, <1>4, <1>5

-----------------------------------------------------------------------------
(* Publishing brings nothing into the catalog that was not proposed.       *)
LEMMA CatalogDeclares ==
    ASSUME CatalogIsDeclared, create_subject_from_proposal PROVE CatalogIsDeclared'
<1>1. PICK p \in Proposals :
        LET old == IF p.supersedes THEN get_subject(p.subject) ELSE {}
        IN  catalog' = (catalog \ old) \cup {[v EXCEPT !.active = FALSE] : v \in old}
                       \cup {[subject |-> p.subject, version |-> p.version, active |-> TRUE,
                              system |-> FALSE, gated |-> TRUE, sources |-> p.sources]}
  BY DEF create_subject_from_proposal
<1> DEFINE old == IF p.supersedes THEN get_subject(p.subject) ELSE {}
           new == [subject |-> p.subject, version |-> p.version, active |-> TRUE,
                   system |-> FALSE, gated |-> TRUE, sources |-> p.sources]
<1>2. old \subseteq catalog
  BY DEF get_subject
<1>3. new.sources = p.sources /\ p.sources \in Declared
  BY DEF Declared
<1>4. catalog' = (catalog \ old) \cup {[v EXCEPT !.active = FALSE] : v \in old} \cup {new}
  BY <1>1
<1> HIDE DEF old, new
<1>5. ASSUME NEW v \in catalog' PROVE v.sources \in Declared
  <2>1. CASE v \in {[w EXCEPT !.active = FALSE] : w \in old}
    <3>1. PICK w \in old : v = [w EXCEPT !.active = FALSE]
      BY <2>1
    <3>2. v.sources = w.sources
      BY <3>1
    <3>3. QED
      BY <1>2, <3>1, <3>2 DEF CatalogIsDeclared
  <2>2. QED
    BY <1>3, <1>4, <2>1 DEF CatalogIsDeclared
<1>6. QED
  BY <1>5 DEF CatalogIsDeclared

(* The datasets do not change in a step of the collection itself.          *)
LEMMA FollowsStays ==
    ASSUME UNCHANGED datasets, NEW j PROVE Follows(j)' <=> Follows(j)
  BY DEF Follows, SectionFollows, PageFollows, unknown_parameters

(* A collection begins with nothing read, and past the metadata only where *)
(* no section declares a parameter.                                        *)
LEMMA BeginFollows ==
    ASSUME CatalogIsKeyed, CatalogIsDeclared, CommCellHolds, NEW s, CollectBegin(s)
    PROVE  JobsFollow'
<1>1. PICK entry \in get_subject(s) :
        /\ ~Refuses(entry)
        /\ LET type == collect_source(entry)
               src == entry.sources[type]
               fresh == [kind |-> "collect", entry |-> entry, source |-> type, i |-> 1, names |-> <<>>,
                         guid |-> "", fetched |-> Nothing, began |-> 0, sections |-> <<>>,
                         failures |-> {}, warned |-> {}, from |-> <<>>, removed |-> FALSE, file |-> {},
                         pc |-> CASE type = CC -> "endpoint" [] type = "rest" -> "report"
                                  [] OTHER -> "metadata"]
           IN  job' = IF type = RP
                      THEN LET at == [fresh EXCEPT !.guid = src.address.guid]
                           IN  IF declares_parameters(src) THEN {at} ELSE next_section(at)
                      ELSE {fresh}
  BY DEF CollectBegin
<1> DEFINE type == collect_source(entry)
           src == entry.sources[type]
           fresh == [kind |-> "collect", entry |-> entry, source |-> type, i |-> 1, names |-> <<>>,
                     guid |-> "", fetched |-> Nothing, began |-> 0, sections |-> <<>>,
                     failures |-> {}, warned |-> {}, from |-> <<>>, removed |-> FALSE, file |-> {},
                     pc |-> CASE type = CC -> "endpoint" [] type = "rest" -> "report"
                              [] OTHER -> "metadata"]
           at == [fresh EXCEPT !.guid = src.address.guid]
<1>2. job' = IF type = RP THEN IF declares_parameters(src) THEN {at} ELSE next_section(at) ELSE {fresh}
  BY <1>1
<1>3. Begun(fresh, entry, type) /\ Begun(at, entry, type)
  BY DEF Begun
<1>4. entry.sources \in Declared
  BY OneSubject DEF CatalogIsDeclared
<1> HIDE DEF fresh, at
<1>5. ASSUME NEW j, Begun(j, entry, type) PROVE Kept(j)
  <2>1. j.entry = entry /\ j.names = <<>> /\ j.sections = <<>>
    BY <1>5 DEF Begun
  <2>2. QED
    BY <1>4, <2>1 DEF Kept
<1>6. ASSUME NEW j \in {fresh, at}, Live(j), type = RP => j.pc = "metadata"
      PROVE  Follows(j)
  <2>1. j.source = type /\ type \in {CC, RP, "rest"} /\ j.pc # "page"
    BY <1>3 DEF Begun, collect_source, CC, RP
  <2>2. Kept(j)
    BY <1>3, <1>5
  <2>3. QED
    BY <1>6, <2>1, <2>2 DEF Follows, Kept
<1>7. type = RP => fresh.pc = "metadata" /\ at.pc = "metadata"
  BY <1>3 DEF Begun, CC, RP
<1>8. ASSUME type = RP, ~declares_parameters(src), NEW k \in next_section(at) PROVE Follows(k)
  <2>1. Reading(at)
    BY <1>1, <1>3, BegunReads
  <2>2. at.entry = entry /\ at.source = RP /\ at.kind = "collect"
    BY <1>3, <1>8 DEF Begun
  <2>3. Knows(at)
    <3>1. \A i \in DOMAIN entry.sources[RP].sections : entry.sources[RP].sections[i].instr.parameters = <<>>
      BY <1>8 DEF declares_parameters
    <3>2. unknown_parameters(at) = {}
      BY <2>2, <3>1 DEF unknown_parameters
    <3>3. QED
      BY <3>2 DEF Knows
  <2>4. QED
    BY <1>3, <1>5, <1>8, <2>1, <2>2, <2>3, TurnFollows DEF Live
<1>9. \A k \in job' : Live(k) => Follows(k)
  BY <1>2, <1>6, <1>7, <1>8
<1>10. UNCHANGED datasets
  BY DEF CollectBegin
<1>11. QED
  BY <1>9, <1>10, FollowsStays DEF JobsFollow, Live

(* The names read from a report are those of the datasets.                 *)
LEMMA ReportNames ==
    ASSUME CommCellHolds, NamesAreTrue, NEW r \in DOMAIN definition, NEW parses \in BOOLEAN
    PROVE  LET names == build_name_to_guid_map(IF parses THEN definition[r] ELSE <<>>)
           IN  \A n \in DOMAIN names : names[n] \in DOMAIN datasets => datasets[names[n]].name = n
<1> DEFINE def == IF parses THEN definition[r] ELSE <<>>
           names == build_name_to_guid_map(def)
<1>1. PICK c \in CommCells : /\ DOMAIN datasets = DOMAIN c
                             /\ \A g \in DOMAIN c : datasets[g].name = c[g].name
  BY DEF CommCellHolds
<1>2. r \in DOMAIN Reports /\ def \in Reports[r] \cup {<<>>}
  BY DEF CommCellHolds
<1> HIDE DEF def
<1>3. \A n \in DOMAIN names : names[n] \in DOMAIN c => c[names[n]].name = n
  BY <1>2 DEF NamesAreTrue
<1> HIDE DEF names
<1>4. QED
  BY <1>1, <1>3 DEF names, def

(* The source of a collection stays.                                       *)
LEMMA NextKind ==
    ASSUME NEW j, NEW k \in next_section(j)
    PROVE  k.kind = j.kind /\ k.source = j.source
<1>1. \/ k = [j EXCEPT !.pc = "store"]
      \/ \E g, w : k = [j EXCEPT !.pc = "page", !.guid = g, !.fetched = Nothing, !.warned = w]
  BY DEF next_section
<1>2. CASE k = [j EXCEPT !.pc = "store"]
  BY <1>2
<1>3. CASE \E g, w : k = [j EXCEPT !.pc = "page", !.guid = g, !.fetched = Nothing, !.warned = w]
  BY <1>3
<1>4. QED
  BY <1>1, <1>2, <1>3

LEMMA FinishKind ==
    ASSUME NEW j, Reading(j), j.i \in DOMAIN SectionsOf(j), NEW k \in finish_section(j)
    PROVE  k.kind = j.kind /\ k.source = j.source
<1> DEFINE rows == shape_dataset_rows(j.fetched.rows, Instr(j))
           m == Advanced(keep_section(j, rows))
<1>1. k \in next_section(m)
  BY DEF finish_section, With
<1>2. m.kind = j.kind /\ m.source = j.source
  BY FinishReads, SectionJoins
<1> HIDE DEF m
<1>3. k.kind = m.kind /\ k.source = m.source
  BY <1>1, NextKind
<1>4. QED
  BY <1>2, <1>3

(* Every request of a collection keeps to the recipe.                      *)
LEMMA RequestFollows ==
    ASSUME JobsAreWhole, CommCellHolds, JobsFollow, GetReport \/ GetMetadata \/ FetchPage
    PROVE  JobsFollow'
<1>0. UNCHANGED datasets
  BY DEF GetReport, GetMetadata, FetchPage
<1>1. ASSUME NEW j \in job, j.pc \in {"report", "metadata", "page"}
      PROVE  /\ Reading(j) /\ (j.pc = "page" => j.i \in DOMAIN SectionsOf(j))
             /\ Live(j) => Follows(j) /\ Kept(j) /\ (j.pc # "metadata" => Knows(j))
  BY <1>1 DEF JobsAreWhole, JobIsWhole, JobsFollow, Follows, Kept, Knows
<1>2. ASSUME \A k \in job' : Live(k) => Follows(k) PROVE JobsFollow'
  BY <1>0, <1>2, FollowsStays DEF JobsFollow, Live
<1>3. ASSUME NEW j, NEW k \in next_section(j) PROVE Live(k) => Live(j)
  BY <1>3, NextKind DEF Live
<1>4. CASE GetReport
  <2>1. PICK j \in job : /\ j.pc = "report"
                        /\ \E r : \E parses \in BOOLEAN : job' = IF r \notin DOMAIN definition THEN {}
                             ELSE next_section([j EXCEPT !.names =
                               build_name_to_guid_map(IF parses THEN definition[r] ELSE <<>>)])
    BY <1>4 DEF GetReport
  <2>2. PICK r : \E parses \in BOOLEAN : job' = IF r \notin DOMAIN definition THEN {}
                             ELSE next_section([j EXCEPT !.names =
                               build_name_to_guid_map(IF parses THEN definition[r] ELSE <<>>)])
    BY <2>1
  <2>3. PICK parses \in BOOLEAN : job' = IF r \notin DOMAIN definition THEN {}
                             ELSE next_section([j EXCEPT !.names =
                               build_name_to_guid_map(IF parses THEN definition[r] ELSE <<>>)])
    BY <2>2
  <2> SUFFICES ASSUME NEW k \in job', Live(k) PROVE Follows(k)
    BY <1>2
  <2> DEFINE names == build_name_to_guid_map(IF parses THEN definition[r] ELSE <<>>)
             l == [j EXCEPT !.names = names]
  <2>4. r \in DOMAIN definition /\ k \in next_section(l)
    BY <2>3
  <2>5. NamesAreTrue => \A n \in DOMAIN names : names[n] \in DOMAIN datasets => datasets[names[n]].name = n
    BY <2>4, ReportNames
  <2> HIDE DEF names
  <2>6. /\ l.kind = j.kind /\ l.file = j.file /\ l.entry = j.entry /\ l.source = j.source
        /\ l.i = j.i /\ l.sections = j.sections /\ l.failures = j.failures /\ l.from = j.from
        /\ l.removed = j.removed /\ l.warned = j.warned /\ l.guid = j.guid /\ l.names = names
    OBVIOUS
  <2> HIDE DEF l
  <2>7. Live(l) /\ Live(j)
    BY <1>3, <2>4, <2>6 DEF Live
  <2>8. Reading(j) /\ Kept(j) /\ Knows(j)
    BY <1>1, <2>1, <2>7
  <2>9. Reading(l)
    BY <2>6, <2>8 DEF Reading, Collecting, ReadTo, SectionsOf
  <2>10. ASSUME NEW s, SectionFollows(j, s) PROVE SectionFollows(l, s)
    BY <2>6, <2>10 DEF SectionFollows
  <2>11. Kept(l) /\ Knows(l)
    BY <2>5, <2>6, <2>8, <2>10 DEF Kept, Knows, unknown_parameters
  <2>12. QED
    BY <2>4, <2>7, <2>9, <2>11, TurnFollows
<1>5. CASE GetMetadata
  <2>1. PICK j \in job : j.pc = "metadata" /\
                         job' = IF j.guid \notin DOMAIN datasets THEN {}
                                ELSE IF unknown_parameters(j) # {} THEN {} ELSE next_section(j)
    BY <1>5 DEF GetMetadata
  <2> SUFFICES ASSUME NEW k \in job', Live(k) PROVE Follows(k)
    BY <1>2
  <2>2. k \in next_section(j) /\ Knows(j)
    BY <2>1 DEF Knows
  <2>3. QED
    BY <1>1, <1>3, <2>1, <2>2, TurnFollows
<1>6. CASE FetchPage
  <2>1. PICK j \in job :
       /\ j.pc = "page"
       /\ job' = IF j.guid \notin DOMAIN datasets THEN {}
                 ELSE With(page_read(j, datasets[j.guid]),
                           LAMBDA k : IF k.fetched.done THEN finish_section(k) ELSE {k})
    BY <1>6 DEF FetchPage
  <2> SUFFICES ASSUME NEW k \in job', Live(k) PROVE Follows(k)
    BY <1>2
  <2> DEFINE l == page_read(j, datasets[j.guid])
  <2>2. j.guid \in DOMAIN datasets /\ job' = With(l, LAMBDA x : IF x.fetched.done THEN finish_section(x) ELSE {x})
    BY <2>1
  <2>3. TurnOf(j, l)
    BY DEF TurnOf, page_read
  <2>4. Reading(j) /\ j.i \in DOMAIN SectionsOf(j) /\ (Live(j) => Follows(j))
    BY <1>1, <2>1
  <2>5. Live(j) =>
          /\ Onward(j, l) /\ l.pc = "page" /\ l.guid = j.guid /\ l.warned = j.warned /\ Kept(l) /\ Knows(l)
          /\ l.fetched.done => Finished(l, shape_dataset_rows(l.fetched.rows, Instr(l)))
          /\ ~l.fetched.done => PageFollows(l)
    BY <2>1, <2>2, <2>4, PageKeeps
  <2> HIDE DEF l
  <2>6. job' = IF l.fetched.done THEN finish_section(l) ELSE {l}
    BY <2>2 DEF With
  <2>7. Reading(l) /\ l.i \in DOMAIN SectionsOf(l) /\ (Live(l) => Live(j))
    BY <2>3, <2>4 DEF Reading, Collecting, ReadTo, TurnOf, SectionsOf, Live
  <2>8. CASE l.fetched.done
    <3>1. k \in finish_section(l)
      BY <2>6, <2>8
    <3>2. Live(l)
      <4>1. k.kind = l.kind /\ k.source = l.source
        BY <2>7, <3>1, FinishKind
      <4>2. QED
        BY <4>1 DEF Live
    <3>3. QED
      BY <2>5, <2>7, <2>8, <3>1, <3>2, FinishFollows
  <2>9. CASE ~l.fetched.done
    <3>1. k = l
      BY <2>6, <2>9
    <3>2. QED
      BY <2>5, <2>7, <2>9, <3>1 DEF Follows, Kept, Knows
  <2>10. QED
    BY <2>8, <2>9
<1>7. QED
  BY <1>4, <1>5, <1>6

(* What is stored of a live collection bites as the collection did; files  *)
(* and fixtures are no datasets.                                           *)
ArtifactBites(a) ==
  ParametersStay /\ a.source = RP =>
    \A t \in DOMAIN a.sections : AllBite(a.sections[t], InstrOf(a.entry, RP, t).parameters)

(* One artifact more.                                                      *)
LEMMA StoreKeepsBite ==
    ASSUME StoredBite, NEW s, NEW a, store' = [store EXCEPT ![s] = {a}], ArtifactBites(a)
    PROVE  StoredBite'
<1>1. \A t \in DOMAIN store' : t \in DOMAIN store /\ \A b \in store'[t] : b \in store[t] \/ b = a
  OBVIOUS
<1>2. \A t \in DOMAIN store' : \A b \in store'[t] : ArtifactBites(b)
  BY <1>1 DEF StoredBite, ArtifactBites
<1>3. QED
  BY <1>2 DEF StoredBite, ArtifactBites

(* A live collection is stored as it was read.                             *)
LEMMA CollectedBites ==
    ASSUME StoredBite, JobsFollow, CollectStore PROVE StoredBite'
<1>1. PICK j \in job : /\ j.kind = "collect" /\ j.pc = "store"
                       /\ store' = [store EXCEPT ![j.entry.subject] = {Artifact(j)}]
  BY DEF CollectStore
<1> DEFINE a == Artifact(j)
<1>2. a.source = j.source /\ a.entry = j.entry /\ a.sections = j.sections
  BY DEF Artifact
<1> HIDE DEF a
<1>3. ASSUME ParametersStay, a.source = RP, NEW t \in DOMAIN a.sections
      PROVE  AllBite(a.sections[t], InstrOf(a.entry, RP, t).parameters)
  <2>1. Live(j)
    BY <1>1, <1>2, <1>3 DEF Live
  <2>2. SectionFollows(j, t)
    BY <1>2, <1>3, <2>1 DEF JobsFollow, Follows
  <2>3. QED
    BY <1>2, <1>3, <2>2 DEF SectionFollows
<1>4. ArtifactBites(a)
  BY <1>3 DEF ArtifactBites
<1>5. store' = [store EXCEPT ![j.entry.subject] = {a}]
  BY <1>1 DEF a
<1>6. QED
  BY <1>4, <1>5, StoreKeepsBite

(* A file is no dataset.                                                   *)
LEMMA ImportedBites ==
    ASSUME StoredBite, ImportDispatch PROVE StoredBite'
<1>1. PICK j \in job, f \in Files : \E got \in extract_file(f, {j.subject}) :
        store' = IF got.artifact = {} THEN store ELSE [store EXCEPT ![j.subject] = got.artifact]
  BY DEF ImportDispatch
<1>2. PICK got \in extract_file(f, {j.subject}) :
        store' = IF got.artifact = {} THEN store ELSE [store EXCEPT ![j.subject] = got.artifact]
  BY <1>1
<1>3. PICK entry : got = dispatch(f, entry)
  BY DEF extract_file
<1>4. CASE got.artifact = {}
  BY <1>2, <1>4 DEF StoredBite
<1>5. CASE got.artifact # {}
  <2> DEFINE type == detect_source_type(f)
             read == extract_sections(f, entry, type)
             a == [subject |-> entry.subject, entry |-> entry, source |-> type, file |-> {f},
                   sections |-> read.sections, failures |-> {}, warned |-> read.omitted]
  <2>1. type \in {"html", "csv"} /\ got.artifact = {a}
    BY <1>5, <1>3, DispatchMakes
  <2>2. a.source = type /\ type # RP
    BY <2>1 DEF RP
  <2> HIDE DEF a
  <2>3. ArtifactBites(a)
    BY <2>2 DEF ArtifactBites
  <2>4. QED
    BY <1>2, <1>5, <2>1, <2>3, StoreKeepsBite
<1>6. QED
  BY <1>4, <1>5

(* Nor is a fixture.                                                       *)
LEMMA FixtureBites ==
    ASSUME StoredBite, NEW s, CollectFixture(s) PROVE StoredBite'
<1>1. PICK entry : store' = [store EXCEPT ![s] = {fixture_artifact(s, entry)}]
  BY DEF CollectFixture
<1>2. fixture_artifact(s, entry).source # RP
  BY DEF fixture_artifact, RP
<1>3. ArtifactBites(fixture_artifact(s, entry))
  BY <1>2 DEF ArtifactBites
<1>4. QED
  BY <1>1, <1>3, StoreKeepsBite

(* No acquisition is under way at first.                                   *)
LEMMA FollowInit == Init => FollowIInv
<1> SUFFICES ASSUME Init PROVE FollowIInv
  OBVIOUS
<1>1. AcquireIInv
  BY AcquireInit
<1>2. CommCellHolds
  <2>1. datasets \in CommCells
    BY DEF Init
  <2>2. \A g \in DOMAIN datasets : datasets[g].rows \in Seq(Range(datasets[g].rows))
    BY <2>1, AcquireAssumption
  <2>3. /\ DOMAIN definition = DOMAIN Reports
        /\ \A r \in DOMAIN Reports : definition[r] \in Reports[r]
    BY DEF Init
  <2>4. QED
    BY <2>1, <2>2, <2>3 DEF CommCellHolds
<1>3. StoredBite
  BY DEF Init, StoredBite
<1>4. CatalogIsDeclared /\ JobsFollow
  BY DEF Init, CatalogIsDeclared, Declared, JobsFollow
<1>5. QED
  BY <1>1, <1>2, <1>3, <1>4 DEF FollowIInv

(* What does not change keeps its part of the invariant.                   *)
LEMMA CommCellStays == CommCellHolds /\ UNCHANGED <<datasets, definition>> => CommCellHolds'
  BY DEF CommCellHolds
LEMMA BiteStays == StoredBite /\ UNCHANGED store => StoredBite'
  BY DEF StoredBite
LEMMA DeclaredStays == CatalogIsDeclared /\ UNCHANGED catalog => CatalogIsDeclared'
  BY DEF CatalogIsDeclared
LEMMA FollowStays == JobsFollow /\ UNCHANGED <<job, datasets>> => JobsFollow'
  BY FollowsStays DEF JobsFollow, Live
LEMMA NoneFollow == job' = {} => JobsFollow'
  BY DEF JobsFollow

(* Every step keeps the readings to their datasets.                        *)
LEMMA FollowKeeps == FollowIInv /\ [Next]_collectVars => FollowIInv'
<1> SUFFICES ASSUME FollowIInv, [Next]_collectVars PROVE FollowIInv'
  OBVIOUS
<1>1. /\ AcquireIInv /\ CommCellHolds /\ StoredBite /\ CatalogIsDeclared /\ JobsFollow
      /\ CatalogIsKeyed /\ JobsAreWhole
  BY DEF FollowIInv, AcquireIInv
<1>2. AcquireIInv'
  BY <1>1, AcquireKeeps
<1>3. ASSUME CommCellHolds', StoredBite', CatalogIsDeclared', JobsFollow' PROVE FollowIInv'
  BY <1>2, <1>3 DEF FollowIInv
<1>4. CASE create_subject_from_proposal
  <2>1. UNCHANGED <<store, job, datasets, definition>>
    BY <1>4 DEF create_subject_from_proposal
  <2>2. QED
    BY <1>1, <1>3, <1>4, <2>1, CatalogDeclares, CommCellStays, BiteStays, FollowStays
<1>5. ASSUME NEW s \in DOMAIN store, CollectBegin(s) PROVE FollowIInv'
  <2>1. UNCHANGED <<catalog, store, datasets, definition>>
    BY <1>5 DEF CollectBegin
  <2>2. QED
    BY <1>1, <1>3, <1>5, <2>1, BeginFollows, CommCellStays, BiteStays, DeclaredStays
<1>6. ASSUME NEW s \in DOMAIN store, ImportBegin(s) PROVE FollowIInv'
  <2>1. UNCHANGED <<catalog, store, datasets, definition>>
    BY <1>6 DEF ImportBegin
  <2>2. JobsFollow'
    <3>1. job' = {[kind |-> "import", subject |-> s, pc |-> "dispatch", removed |-> FALSE]}
      BY <1>6 DEF ImportBegin
    <3>2. \A k \in job' : k.kind = "import"
      BY <3>1
    <3>3. QED
      BY <3>2 DEF JobsFollow, Live
  <2>3. QED
    BY <1>1, <1>3, <2>1, <2>2, CommCellStays, BiteStays, DeclaredStays
<1>7. ASSUME NEW s \in DOMAIN store, CollectFixture(s) PROVE FollowIInv'
  <2>1. UNCHANGED <<catalog, job, datasets, definition>>
    BY <1>7 DEF CollectFixture
  <2>2. QED
    BY <1>1, <1>3, <1>7, <2>1, FixtureBites, CommCellStays, DeclaredStays, FollowStays
<1>8. CASE GetReport \/ GetMetadata \/ FetchPage
  <2>1. UNCHANGED <<catalog, store, datasets, definition>>
    BY <1>8 DEF GetReport, GetMetadata, FetchPage
  <2>2. QED
    BY <1>1, <1>3, <1>8, <2>1, RequestFollows, CommCellStays, BiteStays, DeclaredStays
<1>9. CASE GetEndpoint
  <2>1. UNCHANGED <<catalog, store, datasets, definition>>
    BY <1>9 DEF GetEndpoint
  <2>2. JobsFollow'
    <3>1. PICK j \in job : /\ j.pc = "endpoint"
                           /\ job' = {} \/ \E got : job' = {[j EXCEPT !.pc = "store", !.sections = got]}
      BY <1>9 DEF GetEndpoint
    <3>2. j.source = CC
      BY <1>1, <3>1 DEF JobsAreWhole, JobIsWhole
    <3>3. ASSUME NEW k \in job' PROVE k.source = CC
      <4>1. PICK got : k = [j EXCEPT !.pc = "store", !.sections = got]
        BY <3>1, <3>3
      <4>2. QED
        BY <3>2, <4>1
    <3>4. QED
      BY <3>3 DEF JobsFollow, Live, CC, RP
  <2>3. QED
    BY <1>1, <1>3, <2>1, <2>2, CommCellStays, BiteStays, DeclaredStays
<1>10. CASE CollectStore
  <2>1. UNCHANGED <<catalog, datasets, definition>> /\ job' = {}
    BY <1>10 DEF CollectStore
  <2>2. QED
    BY <1>1, <1>3, <1>10, <2>1, CollectedBites, CommCellStays, DeclaredStays, NoneFollow
<1>11. CASE CollectFails
  <2>1. UNCHANGED <<catalog, store, datasets, definition>> /\ job' = {}
    BY <1>11 DEF CollectFails
  <2>2. QED
    BY <1>1, <1>3, <2>1, CommCellStays, BiteStays, DeclaredStays, NoneFollow
<1>12. CASE ImportDispatch
  <2>1. UNCHANGED <<catalog, datasets, definition>> /\ job' = {}
    BY <1>12 DEF ImportDispatch
  <2>2. QED
    BY <1>1, <1>3, <1>12, <2>1, ImportedBites, CommCellStays, DeclaredStays, NoneFollow
<1>13. CASE CommCellEdits
  <2>1. ASSUME NEW g, AppendRow(g) PROVE FollowIInv'
    <3>1. UNCHANGED <<catalog, store, job, definition>>
      BY <2>1 DEF AppendRow
    <3>2. AllGrown
      BY <2>1, AppendGrows
    <3>3. JobsFollow'
      BY <1>1, <3>1, <3>2, JobGrows DEF JobsFollow, Live
    <3>4. QED
      BY <1>1, <1>3, <3>1, <3>2, <3>3, CommCellGrows, BiteStays, DeclaredStays
  <2>2. ASSUME NEW g, RemoveRow(g) PROVE FollowIInv'
    <3>1. UNCHANGED <<catalog, store>>
      BY <2>2 DEF RemoveRow
    <3>2. /\ CommCellHolds'
          /\ \A k \in job' : \E j \in job : k = [j EXCEPT !.removed = TRUE] /\ (Follows(j) => Follows(k)')
      BY <1>1, <2>2, RemoveKeeps
    <3>3. ASSUME NEW k \in job', Live(k) PROVE Follows(k)'
      <4>1. PICK j \in job : k = [j EXCEPT !.removed = TRUE] /\ (Follows(j) => Follows(k)')
        BY <3>2
      <4>2. Live(j)
        BY <3>3, <4>1 DEF Live
      <4>3. QED
        BY <1>1, <4>1, <4>2 DEF JobsFollow
    <3>4. JobsFollow'
      BY <3>3 DEF JobsFollow, Live
    <3>5. QED
      BY <1>1, <1>3, <3>1, <3>2, <3>4, BiteStays, DeclaredStays
  <2>3. ASSUME NEW r \in DOMAIN Reports, RebuildReport(r) PROVE FollowIInv'
    <3>1. UNCHANGED <<catalog, store, job, datasets>>
      BY <2>3 DEF RebuildReport
    <3>2. PICK d \in Reports[r] : definition' = [definition EXCEPT ![r] = d]
      BY <2>3 DEF RebuildReport
    <3>3. DOMAIN definition' = DOMAIN Reports /\ \A q \in DOMAIN Reports : definition'[q] \in Reports[q]
      BY <1>1, <3>2 DEF CommCellHolds
    <3>4. CommCellHolds'
      BY <1>1, <3>1, <3>3 DEF CommCellHolds
    <3>5. QED
      BY <1>1, <1>3, <3>1, <3>4, BiteStays, DeclaredStays, FollowStays
  <2>4. QED
    BY <1>13, <2>1, <2>2, <2>3 DEF CommCellEdits
<1>14. CASE UNCHANGED collectVars
  <2>1. UNCHANGED <<catalog, store, job, datasets, definition>>
    BY <1>14 DEF collectVars
  <2>2. QED
    BY <1>1, <1>3, <2>1, CommCellStays, BiteStays, DeclaredStays, FollowStays
<1>15. QED
  BY <1>4, <1>5, <1>6, <1>7, <1>8, <1>9, <1>10, <1>11, <1>12, <1>13, <1>14 DEF Next, CollectStep

(* What is being read of a dataset are its first rows, of the dataset the  *)
(* recipe means, and asked for by parameters the dataset knows, whatever   *)
(* the CommCell's users append, remove or rebuild between two requests.    *)
THEOREM FollowInvariant == Spec => []FollowIInv
<1>1. QED
  BY FollowInit, FollowKeeps, PTL DEF Spec

(* A section read live holds the first rows of one dataset, none twice and *)
(* none left out, and without a warning that dataset bears the name the    *)
(* recipe gives (session.py, rest.py, extract_report.py), where reports    *)
(* call datasets by their names.                                           *)
THEOREM RowsAreNamed == ASSUME NamesAreTrue PROVE Spec => []RowsAreTheNamedDatasets
<1>1. FollowIInv => RowsAreTheNamedDatasets
  <2> SUFFICES ASSUME FollowIInv, NEW j \in job, Live(j), ~j.removed,
                      NEW s \in DOMAIN j.sections \cap DOMAIN j.from
               PROVE  LET instr == InstrOf(j.entry, j.source, s)
                          d == datasets[j.from[s].guid]
                      IN  /\ HasRows(d) => HoldsFirst(j.sections[s], d, instr, j.from[s].began)
                          /\ j.source = "rest" /\ instr.dataset_name # "" /\ s \notin j.warned =>
                               d.name = instr.dataset_name
    BY DEF RowsAreTheNamedDatasets
  <2>1. SectionFollows(j, s)
    BY DEF FollowIInv, JobsFollow, Follows
  <2>2. QED
    BY <2>1, NamesAreTrue DEF SectionFollows, Held
<1>2. QED
  BY <1>1, FollowInvariant, PTL

(* No row stored of a directly addressed dataset escapes a parameter of    *)
(* its section (reportsplus_dataset.py), where sections leave the columns  *)
(* they ask by.                                                            *)
THEOREM ParametersAlwaysBite == ASSUME ParametersStay PROVE Spec => []ParametersBite
<1>1. FollowIInv => ParametersBite
  <2> SUFFICES ASSUME FollowIInv, NEW t \in DOMAIN store, NEW a \in store[t], a.source = RP,
                      NEW s \in DOMAIN a.sections, NEW i \in DOMAIN a.sections[s]
               PROVE  Bites(a.sections[s][i], InstrOf(a.entry, RP, s).parameters)
    BY DEF ParametersBite, Artifacts
  <2>1. AllBite(a.sections[s], InstrOf(a.entry, RP, s).parameters)
    BY DEF FollowIInv, StoredBite
  <2>2. a.sections[s][i] \in Range(a.sections[s])
    BY DEF Range
  <2>3. QED
    BY <2>1, <2>2 DEF AllBite
<1>2. QED
  BY <1>1, FollowInvariant, PTL

-----------------------------------------------------------------------------
(* Artifacts that show no code of a file.                                  *)
Hides(a) == a.source \in {"csv", "html"} => AllMasked(a.sections)

LEMMA DeclaredIsMaskable ==
    ASSUME CountsAreNamedApart, NEW sources \in Declared, NEW t \in {"csv", "html"} \cap DOMAIN sources,
           NEW i \in DOMAIN sources[t].sections, sources[t].sections[i].instr # <<>>
    PROVE  Maskable(sources[t].sections[i].instr)
<1>1. PICK v \in Seeded \cup Proposals : sources = v.sources
  BY DEF Declared
<1> DEFINE instr == v.sources[t].sections[i].instr
<1>2. FileInstruction(instr)
  BY <1>1, AcquireAssumption
<1>3. instr.format = "computed" => instr.output_field # "registration_code"
  BY <1>1 DEF CountsAreNamedApart
<1>4. QED
  BY <1>1, <1>2, <1>3 DEF Maskable

LEMMA DispatchHides ==
    ASSUME CountsAreNamedApart, NEW f, NEW entry, entry.sources \in Declared,
           SectionsAreListed(entry.sources), NEW a \in dispatch(f, entry).artifact
    PROVE  dispatch(f, entry).artifact = {a} /\ Hides(a)
<1> DEFINE type == detect_source_type(f)
           got == extract_sections(f, entry, type)
           seq == entry.sources[type].sections
           whole == [subject |-> entry.subject, entry |-> entry, source |-> type, file |-> {f},
                     sections |-> got.sections, failures |-> {}, warned |-> got.omitted]
<1>1. type \in {"html", "csv"} \cap DOMAIN entry.sources /\ dispatch(f, entry).artifact = {whole}
  <2>1. dispatch(f, entry).artifact # {}
    OBVIOUS
  <2>2. QED
    BY <2>1, DispatchMakes
<1>2. a = whole
  BY <1>1
<1> HIDE DEF type, got
<1>0. a.sections = got.sections /\ dispatch(f, entry).artifact = {a}
  BY <1>1, <1>2
<1> HIDE DEF whole
<1>3. Len(seq) \in Nat /\ DOMAIN seq = 1 .. Len(seq)
  BY <1>1, Listed
<1>4. \A i \in 1 .. Len(seq) : seq[i].instr # <<>> => Maskable(seq[i].instr)
  BY <1>1, <1>3, DeclaredIsMaskable
<1> HIDE DEF seq
<1>5. AllMasked(extracted(f, type, seq)[Len(seq)].sections)
  BY <1>1, <1>3, <1>4, FileIsMasked
<1>6. got = extracted(f, type, seq)[Len(seq)]
  BY DEF extract_sections, seq, got
<1>7. QED
  BY <1>0, <1>5, <1>6 DEF Hides

LEMMA HiddenIs == NoRawCode <=> \A s \in DOMAIN store : \A a \in store[s] : Hides(a)
  BY DEF NoRawCode, Artifacts, Hides, AllMasked

LEMMA StoreHides ==
    ASSUME NoRawCode, NEW s, NEW a, store' = [store EXCEPT ![s] = {a}], Hides(a)
    PROVE  NoRawCode'
<1>1. \A t \in DOMAIN store' : t \in DOMAIN store /\ \A b \in store'[t] : b \in store[t] \/ b = a
  OBVIOUS
<1>2. \A t \in DOMAIN store' : \A b \in store'[t] : Hides(b)
  BY <1>1, HiddenIs
<1>3. QED
  BY <1>2 DEF NoRawCode, Artifacts, Hides, AllMasked

LEMMA CollectedHides ==
    ASSUME NoRawCode, JobsAreWhole, CollectStore PROVE NoRawCode'
<1>1. PICK j \in job : /\ j.kind = "collect" /\ j.pc = "store"
                       /\ store' = [store EXCEPT ![j.entry.subject] = {Artifact(j)}]
  BY DEF CollectStore
<1>2. Artifact(j).source \in {CC, RP, "rest"}
  BY <1>1 DEF JobsAreWhole, JobIsWhole, Collecting, Artifact
<1>3. Hides(Artifact(j))
  BY <1>2 DEF Hides, CC, RP
<1>4. QED
  BY <1>1, <1>3, StoreHides

LEMMA ImportedHides ==
    ASSUME CountsAreNamedApart, NoRawCode, CatalogIsDeclared, CatalogIsKeyed, ImportDispatch
    PROVE  NoRawCode'
<1>1. PICK j \in job, f \in Files : \E got \in extract_file(f, {j.subject}) :
        store' = IF got.artifact = {} THEN store ELSE [store EXCEPT ![j.subject] = got.artifact]
  BY DEF ImportDispatch
<1>2. PICK got \in extract_file(f, {j.subject}) :
        store' = IF got.artifact = {} THEN store ELSE [store EXCEPT ![j.subject] = got.artifact]
  BY <1>1
<1>3. PICK e \in get_subject(j.subject) : got = dispatch(f, e)
  BY DEF extract_file, get_active_version
<1>4. e.sources \in Declared /\ SectionsAreListed(e.sources)
  BY OneSubject DEF CatalogIsDeclared, CatalogIsKeyed
<1>5. CASE got.artifact = {}
  BY <1>2, <1>5 DEF NoRawCode, Artifacts
<1>6. CASE got.artifact # {}
  <2>1. PICK a : a \in dispatch(f, e).artifact
    BY <1>3, <1>6
  <2>2. got.artifact = {a} /\ Hides(a)
    BY <1>3, <1>4, <2>1, DispatchHides
  <2>3. QED
    BY <1>2, <1>6, <2>2, StoreHides
<1>7. QED
  BY <1>5, <1>6

LEMMA FixtureHides ==
    ASSUME NoRawCode, NEW s, CollectFixture(s) PROVE NoRawCode'
<1>1. PICK entry : store' = [store EXCEPT ![s] = {fixture_artifact(s, entry)}]
  BY DEF CollectFixture
<1>2. fixture_artifact(s, entry).source = "json"
  BY DEF fixture_artifact
<1>3. Hides(fixture_artifact(s, entry))
  BY <1>2 DEF Hides
<1>4. QED
  BY <1>1, <1>3, StoreHides

LEMMA HidesKept ==
    ASSUME CountsAreNamedApart
    PROVE  FollowIInv /\ NoRawCode /\ [Next]_collectVars => NoRawCode'
<1> SUFFICES ASSUME FollowIInv, NoRawCode, [Next]_collectVars PROVE NoRawCode'
  OBVIOUS
<1>1. CatalogIsDeclared /\ CatalogIsKeyed /\ JobsAreWhole
  BY DEF FollowIInv, AcquireIInv
<1>2. ASSUME UNCHANGED store PROVE NoRawCode'
  BY <1>2 DEF NoRawCode, Artifacts
<1>3. CASE create_subject_from_proposal
  BY <1>2, <1>3 DEF create_subject_from_proposal
<1>4. CASE \E s \in DOMAIN store : CollectBegin(s) \/ ImportBegin(s)
  BY <1>2, <1>4 DEF CollectBegin, ImportBegin
<1>5. CASE \E s \in DOMAIN store : CollectFixture(s)
  BY <1>5, FixtureHides
<1>6. CASE GetReport \/ GetMetadata \/ FetchPage \/ GetEndpoint \/ CollectFails
  BY <1>2, <1>6 DEF GetReport, GetMetadata, FetchPage, GetEndpoint, CollectFails
<1>7. CASE CollectStore
  BY <1>1, <1>7, CollectedHides
<1>8. CASE ImportDispatch
  BY <1>1, <1>8, ImportedHides
<1>9. CASE CommCellEdits
  BY <1>2, <1>9 DEF CommCellEdits, AppendRow, RemoveRow, RebuildReport
<1>10. CASE UNCHANGED collectVars
  BY <1>2, <1>10 DEF collectVars
<1>11. QED
  BY <1>3, <1>4, <1>5, <1>6, <1>7, <1>8, <1>9, <1>10 DEF Next, CollectStep

(* No registration code from a file is stored as it was, whatever file,    *)
(* recipe and way into the catalog (column_map.py), where no computed      *)
(* section is kept under its name.                                         *)
THEOREM CodesAreMasked == ASSUME CountsAreNamedApart PROVE Spec => []NoRawCode
<1>1. Init => NoRawCode
  BY DEF Init, NoRawCode, Artifacts
<1>2. FollowIInv /\ NoRawCode /\ [Next]_collectVars => NoRawCode'
  BY HidesKept
<1>3. QED
  BY <1>1, <1>2, FollowInvariant, PTL DEF Spec

-----------------------------------------------------------------------------
(* Publishing is the only way to be admitted, and it is past the gate.     *)
LEMMA CatalogPasses ==
    ASSUME AdmittedHavePassed, create_subject_from_proposal PROVE AdmittedHavePassed'
<1>1. PICK p \in Proposals :
        /\ Publishable(p)
        /\ LET old == IF p.supersedes THEN get_subject(p.subject) ELSE {}
           IN  catalog' = (catalog \ old) \cup {[v EXCEPT !.active = FALSE] : v \in old}
                          \cup {[subject |-> p.subject, version |-> p.version, active |-> TRUE,
                                 system |-> FALSE, gated |-> TRUE, sources |-> p.sources]}
  BY DEF create_subject_from_proposal
<1> DEFINE old == IF p.supersedes THEN get_subject(p.subject) ELSE {}
           new == [subject |-> p.subject, version |-> p.version, active |-> TRUE,
                   system |-> FALSE, gated |-> TRUE, sources |-> p.sources]
<1>2. old \subseteq catalog
  BY DEF get_subject
<1>3. new.sources = p.sources /\ compile_validate_proposal(p.sources)
  BY <1>1 DEF Publishable
<1>4. catalog' = (catalog \ old) \cup {[v EXCEPT !.active = FALSE] : v \in old} \cup {new}
  BY <1>1
<1> HIDE DEF old, new
<1>5. ASSUME NEW v \in catalog', v.gated
      PROVE  \E q \in Proposals : v.sources = q.sources /\ compile_validate_proposal(q.sources)
  <2>1. CASE v \in {[w EXCEPT !.active = FALSE] : w \in old}
    <3>1. PICK w \in old : v = [w EXCEPT !.active = FALSE]
      BY <2>1
    <3>2. v.sources = w.sources /\ v.gated = w.gated
      BY <3>1
    <3>3. QED
      BY <1>2, <1>5, <3>1, <3>2 DEF AdmittedHavePassed
  <2>2. CASE v \in catalog \ old
    BY <1>5, <2>2 DEF AdmittedHavePassed
  <2>3. CASE v = new
    BY <1>3, <2>3
  <2>4. QED
    BY <1>4, <2>1, <2>2, <2>3
<1>6. QED
  BY <1>5 DEF AdmittedHavePassed

LEMMA PassedKept == AdmittedHavePassed /\ [Next]_collectVars => AdmittedHavePassed'
<1> SUFFICES ASSUME AdmittedHavePassed, [Next]_collectVars PROVE AdmittedHavePassed'
  OBVIOUS
<1>1. CASE create_subject_from_proposal
  BY <1>1, CatalogPasses
<1>2. CASE UNCHANGED catalog
  BY <1>2 DEF AdmittedHavePassed
<1>3. create_subject_from_proposal \/ UNCHANGED catalog
  BY DEF Next, collectVars, CollectBegin, ImportBegin, CollectFixture, CollectStep, GetReport, GetMetadata,
         FetchPage, GetEndpoint, CollectStore, CollectFails, ImportDispatch, CommCellEdits, AppendRow,
         RemoveRow, RebuildReport
<1>4. QED
  BY <1>1, <1>2, <1>3

(* What the gate reads of a recipe does not raise again, whatever the      *)
(* file: an import by an admitted recipe raises only where the recipe has  *)
(* transforms that are no list or a selector that is none, and a CSV file  *)
(* is no error (compile_gate.py, column_map.py, csv.py, html.py).          *)
THEOREM AdmittedRaiseForTheUnread == Spec => []OnlyUnreadRaises
<1>1. Init => AdmittedHavePassed
  BY AcquireAssumption DEF Init, AdmittedHavePassed
<1>2. AcquireIInv /\ AdmittedHavePassed => OnlyUnreadRaises
  <2> SUFFICES ASSUME AcquireIInv, AdmittedHavePassed, NEW v \in catalog, v.gated, NEW f \in Files,
                      detect_source_type(f) \in {"html", "csv"} \cap DOMAIN v.sources
               PROVE  LET type == detect_source_type(f)
                          seq == v.sources[type].sections
                      IN  With(extract_sections(f, v, type), LAMBDA got :
                            /\ got.raised => \E i \in DOMAIN seq : Unread(type, seq[i].instr)
                            /\ type = "csv" /\ seq # <<>> => ~got.errors)
    BY DEF OnlyUnreadRaises
  <2> DEFINE type == detect_source_type(f)
             seq == v.sources[type].sections
             got == extracted(f, type, seq)[Len(seq)]
  <2>1. PICK p \in Proposals : v.sources = p.sources /\ compile_validate_proposal(p.sources)
    BY DEF AdmittedHavePassed
  <2>2. SectionsAreListed(v.sources)
    BY DEF AcquireIInv, CatalogIsKeyed
  <2>3. Len(seq) \in Nat /\ DOMAIN seq = 1 .. Len(seq)
    BY <2>2, Listed
  <2>4. \A i \in 1 .. Len(seq) : validate_recipe(type, seq[i].instr)
    BY <2>1, <2>3 DEF compile_validate_proposal
  <2>5. CASE type = "html" \/ seq # <<>>
    <3>1. Runs(type, seq, got, Len(seq))
      <4> HIDE DEF seq
      <4>1. type \in {"csv", "html"}
        OBVIOUS
      <4>2. type = "csv" => seq # <<>>
        BY <2>5
      <4> HIDE DEF type
      <4>3. QED
        BY <2>3, <2>4, <4>1, <4>2, FileRuns
    <3>2. extract_sections(f, v, type) = got
      BY DEF extract_sections
    <3> HIDE DEF got, seq, type
    <3>3. /\ got.raised => \E i \in DOMAIN seq : Unread(type, seq[i].instr)
          /\ type = "csv" => ~got.errors
      BY <2>3, <3>1 DEF Runs, UnreadTo
    <3>4. QED
      BY <3>2, <3>3 DEF With, type, seq
  <2>6. CASE type = "csv" /\ seq = <<>>
    <3>1. extract_sections(f, v, type) = got /\ Len(seq) = 0
      BY <2>6 DEF extract_sections
    <3>2. got = Before(seq)
      BY <2>3, <3>1, ExtractedUnfolds
    <3>3. ~got.raised
      BY <3>2 DEF Before
    <3> HIDE DEF got
    <3>4. QED
      BY <2>6, <3>1, <3>3 DEF With
  <2>7. QED
    BY <2>5, <2>6
<1>3. QED
  BY <1>1, <1>2, PassedKept, AcquireInvariant, PTL DEF Spec
=============================================================================
