----------------------- MODULE SubmissionsListProofs -----------------------
(***************************************************************************)
(* Theorems about module SubmissionsList, for any outcomes, page size and  *)
(* number of submissions, and any writes, refetches and failures between   *)
(* the queries of a page and between pages.                                *)
(***************************************************************************)
EXTENDS SubmissionsListProperties, NumberSets, SequenceTheorems

-----------------------------------------------------------------------------
(* A set of ids can be put in order.  A smallest set that cannot would     *)
(* have a least member, and the rest of it could.                          *)

Enumerates(s, S) ==
  /\ s \in [1..Cardinality(S) -> S]
  /\ \A i, j \in 1..Cardinality(S) : i < j => s[i] < s[j]

\* A number below all others goes first.
LEMMA EnumerateWithLeast ==
  ASSUME NEW T \in FiniteSubsetsOf(Nat), NEW m \in T, \A k \in T : m <= k,
         NEW s, Enumerates(s, T \ {m})
  PROVE  \E e : Enumerates(e, T)
  <1> DEFINE n == Cardinality(T \ {m})
             e == [i \in 1..n + 1 |-> IF i = 1 THEN m ELSE s[i - 1]]
  <1>1. IsFiniteSet(T) /\ IsFiniteSet(T \ {m}) /\ n \in Nat /\ Cardinality(T) = n + 1
    BY FS_RemoveElement, FS_CardinalityType DEF FiniteSubsetsOf
  <1>2. \A i \in 1..n : s[i] \in T \ {m} /\ s[i] \in Nat /\ m < s[i]
    <2>1. \A i \in 1..n : s[i] \in T \ {m}
      BY DEF Enumerates
    <2>2. \A k \in T \ {m} : k \in Nat /\ m \in Nat /\ m < k
      BY DEF FiniteSubsetsOf
    <2> HIDE DEF n
    <2> QED
      BY <2>1, <2>2
  <1>3. \A i, j \in 1..n : i < j => s[i] < s[j]
    BY DEF Enumerates
  <1> HIDE DEF n
  <1>4. \A i \in 1..n + 1 : i # 1 => i - 1 \in 1..n
    BY <1>1
  <1>5. e \in [1..n + 1 -> T]
    BY <1>2, <1>4
  <1>6. ASSUME NEW i \in 1..n + 1, NEW j \in 1..n + 1, i < j PROVE e[i] < e[j]
    <2>1. e[j] = s[j - 1] /\ j - 1 \in 1..n
      BY <1>1, <1>6
    <2>2. CASE i = 1
      BY <1>2, <2>1, <2>2
    <2>3. CASE i # 1
      <3>1. e[i] = s[i - 1] /\ i - 1 \in 1..n /\ i - 1 < j - 1
        BY <1>1, <1>6, <2>3
      <3> QED
        BY <1>3, <2>1, <3>1
    <2> QED
      BY <2>2, <2>3
  <1>7. Enumerates(e, T)
    <2> HIDE DEF e
    <2> QED
      BY <1>1, <1>5, <1>6 DEF Enumerates
  <1> QED
    BY <1>7

\* Every finite set of ids can be put in ascending order.
LEMMA AscendingEnumerates ==
  ASSUME NEW S \in FiniteSubsetsOf(Nat)
  PROVE  Enumerates(Ascending(S), S)
  <1> DEFINE Bad == {T \in FiniteSubsetsOf(Nat) : ~ \E e : Enumerates(e, T)}
  <1>1. Bad = {}
    <2> SUFFICES ASSUME Bad # {} PROVE FALSE
      OBVIOUS
    <2>1. PICK T \in Bad : \A U \in Bad : ~(U \subseteq T /\ U # T)
      <3>1. Bad \subseteq FiniteSubsetsOf(Nat)
        OBVIOUS
      <3> HIDE DEF Bad
      <3> QED
        BY <3>1, SmallestSet
    <2>2. T # {}
      <3>1. Cardinality({}) = 0
        BY FS_EmptySet
      <3>2. Enumerates([i \in 1..0 |-> i], {})
        BY <3>1 DEF Enumerates
      <3> QED
        BY <3>2
    <2>3. PICK m \in T : \A k \in T : m <= k
      <3>1. T \in SUBSET Nat
        BY DEF FiniteSubsetsOf
      <3> QED
        BY <2>2, <3>1, LeastMember
    <2>4. T \ {m} \in FiniteSubsetsOf(Nat)
      BY FS_RemoveElement DEF FiniteSubsetsOf
    <2>5. PICK s : Enumerates(s, T \ {m})
      BY <2>1, <2>4
    <2> QED
      BY <2>3, <2>5, EnumerateWithLeast
  <1>2. PICK e : Enumerates(e, S)
    BY <1>1
  <1> QED
    BY <1>2 DEF Enumerates, Ascending

\* Every member has its place.
LEMMA AscendingOnto ==
  ASSUME NEW S \in FiniteSubsetsOf(Nat), NEW x \in S
  PROVE  \E i \in 1..Cardinality(S) : Ascending(S)[i] = x
  <1> DEFINE n == Cardinality(S)
             s == Ascending(S)
  <1>1. IsFiniteSet(S) /\ S \subseteq Nat /\ n \in Nat
    BY FS_CardinalityType DEF FiniteSubsetsOf
  <1>2. s \in [1..n -> S] /\ \A i, j \in 1..n : i < j => s[i] < s[j]
    BY AscendingEnumerates DEF Enumerates
  <1>3. IsFiniteSet(1..n) /\ Cardinality(1..n) = n
    BY <1>1, FS_Interval
  <1> HIDE DEF n, s
  <1>4. \A i, j \in 1..n : s[i] = s[j] => i = j
    <2> SUFFICES ASSUME NEW i \in 1..n, NEW j \in 1..n, s[i] = s[j] PROVE i = j
      OBVIOUS
    <2>1. s[i] \in Nat /\ s[j] \in Nat
      BY <1>1, <1>2
    <2> QED
      BY <1>1, <1>2, <2>1
  <1>5. s \in Injection(1..n, S)
    BY <1>2, <1>4 DEF Injection, IsInjective
  <1>6. s \in Surjection(1..n, S)
    BY <1>1, <1>3, <1>5, FS_Injection DEF n
  <1>7. \E i \in 1..n : s[i] = x
    BY <1>6 DEF Surjection
  <1> QED
    BY <1>7 DEF n, s

-----------------------------------------------------------------------------
(* The first page of a keyset. *)

\* The first few of a sequence are the sequence, up to their number.
LEMMA FirstFew ==
  ASSUME NEW S, NEW s \in Seq(S), NEW n \in Nat
  PROVE  /\ First(n, s) \in Seq(S)
         /\ Len(First(n, s)) = IF Len(s) < n THEN Len(s) ELSE n
         /\ \A k \in DOMAIN First(n, s) : k \in DOMAIN s /\ k <= n /\ First(n, s)[k] = s[k]
  <1> DEFINE m == IF Len(s) < n THEN Len(s) ELSE n
  <1>1. m \in 0..Len(s) /\ m <= n
    OBVIOUS
  <1>2. First(n, s) = SubSeq(s, 1, m)
    BY DEF First
  <1>3. \A k \in 1..m : s[k] \in S
    BY <1>1
  <1> HIDE DEF m
  <1>4. /\ SubSeq(s, 1, m) \in Seq(S) /\ Len(SubSeq(s, 1, m)) = m
        /\ \A k \in 1..m : SubSeq(s, 1, m)[k] = s[k]
    BY <1>1, <1>3, SubSeqProperties
  <1> QED
    BY <1>1, <1>2, <1>4 DEF m

\* A keyset page lists what matches after the cursor in order, and leaves out
\* nothing before the row it looks ahead to.
LEMMA KeysetLists ==
  ASSUME NEW f, Matching(f) \subseteq Ids
  PROVE  /\ Keyset(f) \in Seq(Matching(f)) /\ Len(Keyset(f)) <= Limit + 1
         /\ \A k \in DOMAIN Keyset(f) : Keyset(f)[k] > after
         /\ \A k, l \in DOMAIN Keyset(f) : k < l => Keyset(f)[k] < Keyset(f)[l]
         /\ \A id \in Matching(f) : id > after =>
              \/ \E k \in DOMAIN Keyset(f) : Keyset(f)[k] = id
              \/ Len(Keyset(f)) = Limit + 1 /\ id > Keyset(f)[Limit + 1]
  <1> DEFINE S == {id \in Matching(f) : Beyond(id)}
             s == Ascending(S)
             n == Cardinality(S)
             K == First(Limit + 1, s)
  <1>1. S \subseteq Ids /\ S \subseteq Matching(f) /\ \A id \in S : id > after
    BY DEF Beyond
  <1>2. IsFiniteSet(Ids) /\ Ids \subseteq Nat
    BY FS_Interval, ListAssumption DEF Ids
  <1>3. S \in FiniteSubsetsOf(Nat) /\ n \in Nat
    BY <1>1, <1>2, FS_Subset, FS_CardinalityType DEF FiniteSubsetsOf
  <1>4. s \in [1..n -> S] /\ \A i, j \in 1..n : i < j => s[i] < s[j]
    BY <1>3, AscendingEnumerates DEF Enumerates
  <1>5. s \in Seq(S) /\ Len(s) = n
    BY <1>3, <1>4
  <1>6. /\ K \in Seq(S)
        /\ Len(K) = IF n < Limit + 1 THEN n ELSE Limit + 1
        /\ \A k \in DOMAIN K : k \in 1..n /\ K[k] = s[k]
    BY <1>3, <1>4, <1>5, FirstFew, ListAssumption
  <1>7. Keyset(f) = K
    BY DEF Keyset
  <1>8. ASSUME NEW id \in Matching(f), id > after
        PROVE  (\E k \in DOMAIN K : K[k] = id) \/ (Len(K) = Limit + 1 /\ id > K[Limit + 1])
    <2>1. PICK i \in 1..n : s[i] = id
      BY <1>3, <1>8, AscendingOnto DEF Beyond
    <2> HIDE DEF S, s, n, K
    <2>2. CASE i <= Limit + 1
      <3>1. i \in DOMAIN K
        BY <1>3, <1>6, <2>2, ListAssumption
      <3> QED
        BY <1>6, <2>1, <3>1
    <2>3. CASE i > Limit + 1
      <3>1. Len(K) = Limit + 1 /\ Limit + 1 \in DOMAIN K
        BY <1>3, <1>6, <2>3, ListAssumption
      <3>2. K[Limit + 1] = s[Limit + 1] /\ Limit + 1 \in 1..n
        BY <1>6, <3>1
      <3> QED
        BY <1>4, <2>1, <2>3, <3>1, <3>2
    <2> QED
      BY <2>2, <2>3, ListAssumption
  <1> HIDE DEF S, s, n, K
  <1>9. K \in Seq(Matching(f))
    BY <1>1, <1>6
  <1>10. Len(K) <= Limit + 1
    BY <1>3, <1>6, ListAssumption
  <1>11. \A k \in DOMAIN K : K[k] > after
    BY <1>1, <1>6
  <1>12. \A k, l \in DOMAIN K : k < l => K[k] < K[l]
    BY <1>4, <1>6
  <1> QED
    BY <1>7, <1>8, <1>9, <1>10, <1>11, <1>12

-----------------------------------------------------------------------------
(* The invariant.  An outcome is there only and always of an advanced      *)
(* submission; a sequence of pages is in order, each but the last full and *)
(* with the next after its last row; the rows of the page under way come   *)
(* after it.  A baseline is what matched when a sequence was begun.        *)

Phases == {"idle", "list", "join", "count"}
Errors == {"none", "unauthorized", "unavailable"}
Statuses == {"unused", "inserting", "admitted", "advanced", "aborted"}
Rows  == [id : Ids, status : Statuses \cup {"unread"}, outcome : Outcomes \cup {"none"}]
Pages == [rows : Seq(Rows), total : Nat, next : Nat]

Tables ==
  /\ nextId \in Nat \ {0}
  /\ status \in [Ids -> Statuses]
  /\ outcome \in [Ids -> Outcomes \cup {"none"}]
  /\ \A id \in Ids : id >= nextId => status[id] = "unused"
  /\ \A id \in Ids : outcome[id] # "none" <=> status[id] = "advanced"

Labelled(row) == row.status = "advanced" => row.outcome \in Outcomes

\* Row by row down the pages P, the ids ascend.
InOrder(P) ==
  \A p, q \in DOMAIN P : \A k \in DOMAIN P[p].rows, l \in DOMAIN P[q].rows :
    p < q \/ (p = q /\ k < l) => P[p].rows[k].id < P[q].rows[l].id

\* A page has a next one if it is full, and every page but the last has one.
Chained(P) ==
  \A p \in DOMAIN P :
    /\ P[p].next # 0 => Len(P[p].rows) = Limit /\ P[p].next = P[p].rows[Limit].id
    /\ p < Len(P) => P[p].next # 0

\* The rows of P under filter f, of which the submissions of M match: each is
\* labelled and, except for pending, still matches.
RowsOf(P, f, M) ==
  \A p \in DOMAIN P : \A k \in DOMAIN P[p].rows :
    /\ Labelled(P[p].rows[k])
    /\ f # filterPending => P[p].rows[k].id \in M

On(P, id) == \E p \in DOMAIN P : \E k \in DOMAIN P[p].rows : P[p].rows[k].id = id

\* What is in S and not after the end of P is on P.
Covers(P, S) ==
  P # <<>> => \A id \in S : P[Len(P)].next = 0 \/ id <= P[Len(P)].next => On(P, id)

\* A page sequence d under filter f, where the submissions of C are committed
\* and those of M match.
Holds(d, f, M, C) ==
  /\ d \in [pages : Seq(Pages), baseline : SUBSET C]
  /\ f # filterPending => d.baseline \subseteq M
  /\ InOrder(d.pages) /\ Chained(d.pages) /\ RowsOf(d.pages, f, M)
  /\ Covers(d.pages, d.baseline \cap M)

\* A page under way follows the pages before it.
Follows(P, a) ==
  /\ P = <<>> => a = 0
  /\ P # <<>> => a = P[Len(P)].next /\ a # 0

\* The rows R read after id a hold what is in S, up to the row to look ahead.
RowsRead(R, a, f, M, S) ==
  /\ R \in Seq(Rows) /\ Len(R) <= Limit + 1
  /\ \A k, l \in DOMAIN R : k < l => R[k].id < R[l].id
  /\ \A k \in DOMAIN R : R[k].id > a /\ (f # filterPending => R[k].id \in M)
  /\ \A id \in S : id > a => \/ \E k \in DOMAIN R : R[k].id = id
                             \/ Len(R) = Limit + 1 /\ id > R[Limit + 1].id

\* The submissions the filter matches now.
Wanted == Matching(filter)

Held == Holds(data, filter, Wanted, Committed) /\ Holds(draft, filter, Wanted, Committed)

Request ==
  /\ pc # "idle" => Follows(draft.pages, after)
  /\ pc \in {"join", "count"} =>
       RowsRead(rows, after, filter, Wanted, draft.baseline \cap Wanted)
  /\ pc = "join" => \A k \in DOMAIN rows :
       /\ filter \in Outcomes => rows[k].outcome = filter
       /\ filter = "" /\ rows[k].status = "advanced" => status[rows[k].id] = "advanced"
  /\ pc = "count" => \A k \in DOMAIN rows : Labelled(rows[k])

Totals == data.pages # <<>> /\ filter # filterPending => Current(data).total >= Cardinality(Shown)

IInv == Tables /\ filter \in Filters /\ pc \in Phases /\ error \in Errors /\ Held /\ Request /\ Totals

-----------------------------------------------------------------------------
(* Page sequences. *)

\* A page of a sequence is one, and so is a row of a page.
LEMMA PageFields ==
  ASSUME NEW P \in Seq(Pages), NEW p \in DOMAIN P
  PROVE  P[p].rows \in Seq(Rows) /\ P[p].next \in Nat
  <1>1. P[p] \in Pages
    OBVIOUS
  <1> QED
    BY <1>1 DEF Pages

\* The ids of rows are ids, and numbers.
LEMMA RowFields ==
  ASSUME NEW R \in Seq(Rows), NEW k \in DOMAIN R
  PROVE  R[k].id \in Ids /\ R[k].id \in Nat
  <1>1. R[k] \in Rows
    OBVIOUS
  <1>2. R[k].id \in Ids
    BY <1>1 DEF Rows
  <1> QED
    BY <1>2 DEF Ids

\* What covers a set covers less.
LEMMA CoversLess ==
  ASSUME NEW P, NEW S, NEW T, Covers(P, S), T \subseteq S
  PROVE  Covers(P, T)
  BY DEF Covers

\* A page sequence stays what it is while submissions commit, begin to match
\* and, under pending, cease to.
LEMMA HoldsStill ==
  ASSUME NEW d, NEW f, NEW M, NEW C, NEW M2, NEW C2, Holds(d, f, M, C),
         C \subseteq C2, f # filterPending => M \subseteq M2, f = filterPending => M2 \cap C \subseteq M
  PROVE  Holds(d, f, M2, C2) /\ d.baseline \cap M2 \subseteq d.baseline \cap M
  <1>1. d \in [pages : Seq(Pages), baseline : SUBSET C2]
    BY DEF Holds
  <1>2. RowsOf(d.pages, f, M2)
    BY DEF Holds, RowsOf
  <1>3. d.baseline \cap M2 \subseteq d.baseline \cap M
    BY DEF Holds
  <1>4. Covers(d.pages, d.baseline \cap M2)
    BY <1>3, CoversLess DEF Holds
  <1> QED
    BY <1>1, <1>2, <1>3, <1>4 DEF Holds

\* The rows before a cursor do not pass it.
LEMMA RowsBeforeCursor ==
  ASSUME NEW P \in Seq(Pages), InOrder(P), Chained(P), NEW a, Follows(P, a),
         NEW p \in DOMAIN P, NEW k \in DOMAIN P[p].rows
  PROVE  P[p].rows[k].id <= a
  <1> DEFINE n == Len(P)
  <1>1. n \in DOMAIN P /\ p <= n /\ a = P[n].next /\ a # 0
    BY DEF Follows
  <1>2. Len(P[n].rows) = Limit /\ P[n].rows[Limit].id = a
    BY <1>1 DEF Chained
  <1>3. P[p].rows \in Seq(Rows) /\ P[n].rows \in Seq(Rows)
    BY <1>1, PageFields
  <1>4. Limit \in DOMAIN P[n].rows
    BY <1>2, <1>3, ListAssumption
  <1>5. P[p].rows[k].id \in Nat /\ P[n].rows[Limit].id \in Nat
    BY <1>3, <1>4, RowFields
  <1>6. CASE p = n /\ k = Limit
    BY <1>2, <1>5, <1>6
  <1>7. CASE ~(p = n /\ k = Limit)
    <2>1. p < n \/ (p = n /\ k < Limit)
      BY <1>1, <1>2, <1>3, <1>7, ListAssumption
    <2>2. P[p].rows[k].id < P[n].rows[Limit].id
      BY <1>1, <1>4, <2>1 DEF InOrder
    <2> QED
      BY <1>2, <1>5, <2>2
  <1> QED
    BY <1>6, <1>7

Page(R, t) ==
  [rows |-> First(Limit, R), total |-> t, next |-> IF Len(R) > Limit THEN R[Limit].id ELSE 0]

\* What an answered page holds.
LEMMA PageHolds ==
  ASSUME NEW R \in Seq(Rows), NEW t \in Nat
  PROVE  /\ Page(R, t) \in Pages
         /\ \A k \in DOMAIN Page(R, t).rows : k \in DOMAIN R /\ k <= Limit /\ Page(R, t).rows[k] = R[k]
         /\ \A k \in DOMAIN R : k <= Limit => k \in DOMAIN Page(R, t).rows
         /\ Page(R, t).next # 0 =>
              /\ Len(R) > Limit /\ Limit \in DOMAIN R /\ Page(R, t).next = R[Limit].id
              /\ Len(Page(R, t).rows) = Limit /\ Limit \in DOMAIN Page(R, t).rows
  <1> DEFINE F == First(Limit, R)
  <1>1. /\ F \in Seq(Rows) /\ Len(F) = IF Len(R) < Limit THEN Len(R) ELSE Limit
        /\ \A k \in DOMAIN F : k \in DOMAIN R /\ k <= Limit /\ F[k] = R[k]
    BY FirstFew, ListAssumption
  <1>2. Len(R) > Limit => Limit \in DOMAIN R /\ R[Limit].id \in Nat
    <2> SUFFICES ASSUME Len(R) > Limit PROVE Limit \in DOMAIN R /\ R[Limit].id \in Nat
      OBVIOUS
    <2>1. Limit \in DOMAIN R
      BY ListAssumption
    <2> QED
      BY <2>1, RowFields
  <1> HIDE DEF F
  <1>3. Page(R, t) = [rows |-> F, total |-> t, next |-> IF Len(R) > Limit THEN R[Limit].id ELSE 0]
    BY DEF Page, F
  <1>4. Page(R, t) \in Pages
    BY <1>1, <1>2, <1>3 DEF Pages
  <1>5. \A k \in DOMAIN R : k <= Limit => k \in DOMAIN F
    BY <1>1, ListAssumption
  <1>6. Len(R) > Limit => Len(F) = Limit /\ Limit \in DOMAIN F
    BY <1>1, ListAssumption
  <1> QED
    BY <1>1, <1>2, <1>3, <1>4, <1>5, <1>6

\* A page that follows a sequence extends it.
LEMMA HoldsLonger ==
  ASSUME NEW d, NEW f, NEW M, NEW C, C \subseteq Ids, Holds(d, f, M, C), NEW a, Follows(d.pages, a),
         NEW R, RowsRead(R, a, f, M, d.baseline \cap M), \A k \in DOMAIN R : Labelled(R[k]),
         NEW t \in Nat
  PROVE  Holds([d EXCEPT !.pages = Append(@, Page(R, t))], f, M, C)
  <1> DEFINE P == d.pages
             n == Len(P)
             page == Page(R, t)
             Q == Append(P, page)
             S == d.baseline \cap M
  <1>1. P \in Seq(Pages) /\ R \in Seq(Rows) /\ InOrder(P) /\ Chained(P) /\ RowsOf(P, f, M) /\ Covers(P, S)
    BY DEF Holds, RowsRead
  <1>2. /\ page \in Pages
        /\ \A k \in DOMAIN page.rows : k \in DOMAIN R /\ k <= Limit /\ page.rows[k] = R[k]
        /\ \A k \in DOMAIN R : k <= Limit => k \in DOMAIN page.rows
        /\ page.next # 0 => /\ Len(R) > Limit /\ Limit \in DOMAIN R /\ page.next = R[Limit].id
                            /\ Len(page.rows) = Limit /\ Limit \in DOMAIN page.rows
    BY <1>1, PageHolds
  <1>3. /\ \A k \in DOMAIN R : R[k].id > a /\ R[k].id \in Nat
        /\ \A k, l \in DOMAIN R : k < l => R[k].id < R[l].id
    BY <1>1, RowFields DEF RowsRead
  <1>4. \A p \in DOMAIN P : \A k \in DOMAIN P[p].rows : P[p].rows[k].id <= a /\ P[p].rows[k].id \in Nat
    <2> SUFFICES ASSUME NEW p \in DOMAIN P, NEW k \in DOMAIN P[p].rows
                 PROVE  P[p].rows[k].id <= a /\ P[p].rows[k].id \in Nat
      OBVIOUS
    <2>1. P[p].rows \in Seq(Rows)
      BY <1>1, PageFields
    <2>2. P[p].rows[k].id \in Nat
      BY <2>1, RowFields
    <2> QED
      BY <1>1, <2>2, RowsBeforeCursor
  <1>5. a \in Nat
    <2>1. CASE P = <<>>
      BY <2>1 DEF Follows
    <2>2. CASE P # <<>>
      <3>1. n \in DOMAIN P
        BY <1>1, <2>2
      <3> QED
        BY <1>1, <2>2, <3>1, PageFields DEF Follows
    <2> QED
      BY <2>1, <2>2
  <1>6. [d EXCEPT !.pages = Append(@, page)] = [pages |-> Q, baseline |-> d.baseline]
    BY DEF Holds
  <1>7. P # <<>> => n \in DOMAIN P /\ a = P[n].next /\ a # 0
    BY <1>1 DEF Follows
  <1>8. d.baseline \subseteq C /\ (f # filterPending => d.baseline \subseteq M)
    BY DEF Holds
  <1>9. \A k \in DOMAIN R : Labelled(R[k]) /\ (f # filterPending => R[k].id \in M)
    BY DEF RowsRead
  <1>10. \A id \in S : id > a => \/ \E k \in DOMAIN R : R[k].id = id
                                 \/ Len(R) = Limit + 1 /\ id > R[Limit + 1].id
    BY DEF RowsRead
  <1>11. Len(R) <= Limit + 1
    BY DEF RowsRead
  <1>12. /\ Q \in Seq(Pages) /\ Len(Q) = n + 1 /\ n \in Nat /\ Q # <<>>
         /\ DOMAIN Q = 1..n + 1 /\ DOMAIN P = 1..n
         /\ \A p \in DOMAIN P : Q[p] = P[p]
         /\ Q[n + 1] = page
    BY <1>1, <1>2, AppendProperties
  <1> HIDE DEF P, n, page, Q, S
  <1>13. InOrder(Q)
    <2> SUFFICES ASSUME NEW p \in DOMAIN Q, NEW q \in DOMAIN Q,
                        NEW k \in DOMAIN Q[p].rows, NEW l \in DOMAIN Q[q].rows,
                        p < q \/ (p = q /\ k < l)
                 PROVE  Q[p].rows[k].id < Q[q].rows[l].id
      BY DEF InOrder
    <2>1. CASE q \in DOMAIN P
      <3>1. p \in DOMAIN P
        BY <1>12, <2>1
      <3> QED
        BY <1>1, <1>12, <2>1, <3>1 DEF InOrder
    <2>2. CASE q = n + 1 /\ p \in DOMAIN P
      <3>1. Q[p].rows[k].id <= a /\ Q[p].rows[k].id \in Nat
        BY <1>4, <1>12, <2>2
      <3>2. l \in DOMAIN R /\ Q[q].rows[l] = R[l]
        BY <1>2, <1>12, <2>2
      <3> QED
        BY <1>3, <1>5, <3>1, <3>2
    <2>3. CASE q = n + 1 /\ p = n + 1
      <3>1. k \in DOMAIN R /\ Q[p].rows[k] = R[k] /\ l \in DOMAIN R /\ Q[q].rows[l] = R[l] /\ k < l
        BY <1>2, <1>12, <2>3
      <3> QED
        BY <1>3, <3>1
    <2> QED
      BY <1>12, <2>1, <2>2, <2>3
  <1>14. Chained(Q)
    <2> SUFFICES ASSUME NEW p \in DOMAIN Q
                 PROVE  /\ Q[p].next # 0 => Len(Q[p].rows) = Limit /\ Q[p].next = Q[p].rows[Limit].id
                        /\ p < Len(Q) => Q[p].next # 0
      BY DEF Chained
    <2>1. CASE p \in DOMAIN P
      <3>1. P[p].next # 0
        <4>1. CASE p = n
          BY <1>7, <1>12, <2>1, <4>1
        <4>2. CASE p < n
          BY <1>1, <2>1, <4>2 DEF Chained, n
        <4> QED
          BY <1>12, <2>1, <4>1, <4>2
      <3> QED
        BY <1>1, <1>12, <2>1, <3>1 DEF Chained
    <2>2. CASE p = n + 1
      BY <1>2, <1>12, <2>2
    <2> QED
      BY <1>12, <2>1, <2>2
  <1>15. RowsOf(Q, f, M)
    BY <1>1, <1>2, <1>9, <1>12 DEF RowsOf
  <1>16. Covers(Q, S)
    <2> SUFFICES ASSUME NEW id \in S, page.next = 0 \/ id <= page.next PROVE On(Q, id)
      BY <1>12 DEF Covers
    <2>1. id \in Nat
      <3>1. id \in Ids
        BY <1>8 DEF S
      <3> QED
        BY <3>1 DEF Ids
    <2>2. CASE id <= a
      <3>1. P # <<>>
        BY <1>5, <1>8, <2>1, <2>2 DEF Follows, P, S, Ids
      <3>2. On(P, id)
        BY <1>1, <1>7, <2>2, <3>1 DEF Covers, n
      <3> QED
        BY <1>12, <3>2 DEF On
    <2>3. CASE id > a
      <3>1. CASE \E k \in DOMAIN R : R[k].id = id
        <4>1. PICK k \in DOMAIN R : R[k].id = id
          BY <3>1
        <4>2. k <= Limit
          <5> SUFFICES ASSUME k > Limit PROVE FALSE
            BY <1>1, ListAssumption
          <5>1. Len(R) > Limit /\ Limit \in DOMAIN R
            BY <1>1, ListAssumption
          <5>2. page.next = R[Limit].id /\ R[Limit].id # 0
            BY <1>3, <1>5, <5>1 DEF page, Page
          <5>3. R[Limit].id < R[k].id
            BY <1>3, <5>1
          <5> QED
            BY <1>3, <2>1, <4>1, <5>1, <5>2, <5>3
        <4> QED
          BY <1>2, <1>12, <4>1, <4>2 DEF On
      <3>2. CASE Len(R) = Limit + 1 /\ id > R[Limit + 1].id
        <4>1. Limit \in DOMAIN R /\ Limit + 1 \in DOMAIN R /\ Limit < Limit + 1
          BY <1>1, <3>2, ListAssumption
        <4>2. page.next = R[Limit].id /\ R[Limit].id # 0
          BY <1>3, <1>5, <3>2, <4>1, ListAssumption DEF page, Page
        <4>3. R[Limit].id < R[Limit + 1].id
          BY <1>3, <4>1
        <4> QED
          BY <1>3, <2>1, <3>2, <4>1, <4>2, <4>3
      <3> QED
        BY <1>10, <2>3, <3>1, <3>2
    <2> QED
      BY <1>5, <2>1, <2>2, <2>3
  <1> QED
    BY <1>6, <1>8, <1>12, <1>13, <1>14, <1>15, <1>16 DEF Holds, S, P, page

\* No more rows than match: no two rows are of one submission.
LEMMA RowsCounted ==
  ASSUME NEW P \in Seq(Pages), InOrder(P), NEW f, f # filterPending, NEW M, IsFiniteSet(M), RowsOf(P, f, M)
  PROVE  /\ Cardinality(UNION {{p} \X DOMAIN P[p].rows : p \in DOMAIN P}) <= Cardinality(M)
         /\ Cardinality(UNION {{p} \X DOMAIN P[p].rows : p \in DOMAIN P}) \in Nat
  <1> DEFINE At == UNION {{p} \X DOMAIN P[p].rows : p \in DOMAIN P}
             F == [at \in At |-> P[at[1]].rows[at[2]].id]
  <1>1. \A at \in At : at[1] \in DOMAIN P /\ at[2] \in DOMAIN P[at[1]].rows /\ at = <<at[1], at[2]>>
    OBVIOUS
  <1>2. F \in [At -> M]
    BY <1>1 DEF RowsOf
  <1>3. ASSUME NEW x \in At, NEW y \in At, F[x] = F[y] PROVE x = y
    <2>1. /\ x[1] \in DOMAIN P /\ x[2] \in DOMAIN P[x[1]].rows /\ P[x[1]].rows \in Seq(Rows)
          /\ y[1] \in DOMAIN P /\ y[2] \in DOMAIN P[y[1]].rows /\ P[y[1]].rows \in Seq(Rows)
      BY <1>1, PageFields
    <2>2. P[x[1]].rows[x[2]].id \in Nat /\ P[y[1]].rows[y[2]].id \in Nat
      BY <2>1, RowFields
    <2>3. x[1] \in Nat /\ x[2] \in Nat /\ y[1] \in Nat /\ y[2] \in Nat
      BY <2>1
    <2>4. P[x[1]].rows[x[2]].id = P[y[1]].rows[y[2]].id
      BY <1>3
    <2>5. ~(x[1] < y[1] \/ (x[1] = y[1] /\ x[2] < y[2]))
      BY <2>1, <2>2, <2>4 DEF InOrder
    <2>6. ~(y[1] < x[1] \/ (y[1] = x[1] /\ y[2] < x[2]))
      BY <2>1, <2>2, <2>4 DEF InOrder
    <2>7. x[1] = y[1] /\ x[2] = y[2]
      BY <2>3, <2>5, <2>6
    <2> QED
      BY <1>1, <2>7
  <1> HIDE DEF At, F
  <1>4. F \in Injection(At, M)
    <2>1. DOMAIN F = At
      BY <1>2
    <2> QED
      BY <1>2, <1>3, <2>1 DEF Injection, IsInjective
  <1> QED
    BY <1>4, FS_Injection, FS_CardinalityType DEF At

\* Before any page there is nothing to hold.
LEMMA HoldsNone ==
  ASSUME NEW f, NEW M, NEW C, NEW B, B \subseteq C, f # filterPending => B \subseteq M
  PROVE  /\ Holds([pages |-> <<>>, baseline |-> B], f, M, C)
         /\ [NoPages EXCEPT !.baseline = B] = [pages |-> <<>>, baseline |-> B]
  <1>1. [NoPages EXCEPT !.baseline = B] = [pages |-> <<>>, baseline |-> B]
    BY DEF NoPages
  <1>2. <<>> \in Seq(Pages) /\ DOMAIN <<>> = {}
    BY EmptySeq
  <1>3. InOrder(<<>>) /\ Chained(<<>>) /\ RowsOf(<<>>, f, M) /\ Covers(<<>>, B \cap M)
    BY <1>2 DEF InOrder, Chained, RowsOf, Covers
  <1> QED
    BY <1>1, <1>2, <1>3 DEF Holds

\* Rows that were read stay read while more submissions match.
LEMMA RowsStill ==
  ASSUME NEW R, NEW a, NEW f, NEW M, NEW S, NEW M2, NEW S2, RowsRead(R, a, f, M, S),
         f # filterPending => M \subseteq M2, S2 \subseteq S
  PROVE  RowsRead(R, a, f, M2, S2)
  BY DEF RowsRead

\* A join fills in the rows and leaves their ids.
LEMMA RowsFilled ==
  ASSUME NEW R, NEW a, NEW f, NEW M, NEW S, RowsRead(R, a, f, M, S),
         NEW F \in [DOMAIN R -> Rows], \A k \in DOMAIN R : F[k].id = R[k].id
  PROVE  RowsRead(F, a, f, M, S)
  <1>1. R \in Seq(Rows) /\ Len(R) \in Nat /\ DOMAIN R = 1..Len(R)
    BY DEF RowsRead
  <1>2. F \in Seq(Rows) /\ Len(F) = Len(R) /\ DOMAIN F = DOMAIN R
    BY <1>1
  <1>3. Len(R) = Limit + 1 => Limit + 1 \in DOMAIN R
    BY <1>1, ListAssumption
  <1> QED
    BY <1>1, <1>2, <1>3 DEF RowsRead

-----------------------------------------------------------------------------
(* The steps. *)

\* A step takes back nothing that is committed or classified: what the filter
\* matches grows, except that submissions leave pending for good.
Writes ==
  /\ Tables' /\ filter' = filter /\ Committed \subseteq Committed'
  /\ filter # filterPending => Wanted \subseteq Wanted'
  /\ filter = filterPending => Wanted' \cap Committed \subseteq Wanted
  /\ \A id \in Ids : status[id] = "advanced" => status'[id] = "advanced"

\* What a filter matches, filter by filter.
LEMMA MatchingSets ==
  ASSUME NEW f \in Filters
  PROVE  /\ Matching(f) = CASE f = "" -> Committed
                            [] f = filterPending -> {id \in Ids : status[id] = "admitted"}
                            [] f \in Outcomes -> {id \in Ids : outcome[id] = f}
         /\ f = "" \/ f = filterPending \/ f \in Outcomes
         /\ "" \notin Outcomes /\ filterPending \notin Outcomes /\ "" # filterPending
  BY OutcomesAssumption DEF Matching, Filters, filterPending

\* Tables only: every write to them is a Writes step.
LEMMA TablesWritten ==
  ASSUME Tables, Tables', filter \in Filters, filter' = filter,
         \A id \in Ids : status[id] \in {"admitted", "advanced"} => status'[id] \in {"admitted", "advanced"},
         \A id \in Ids : status[id] = "advanced" =>
           status'[id] = "advanced" /\ outcome'[id] = outcome[id]
  PROVE  Writes
  <1>1. Committed \subseteq Committed'
    BY DEF Committed, Ids
  <1>2. filter # filterPending => Wanted \subseteq Wanted'
    <2>1. CASE filter = ""
      BY <1>1, <2>1 DEF Wanted, Matching
    <2>2. CASE filter \in Outcomes
      <3>1. filter # "" /\ filter # filterPending /\ filter # "none"
        BY <2>2, OutcomesAssumption
      <3>2. Wanted = {id \in Ids : outcome[id] = filter} /\ Wanted' = {id \in Ids : outcome'[id] = filter}
        BY <3>1 DEF Wanted, Matching, Ids
      <3>3. \A id \in Ids : outcome[id] = filter => outcome'[id] = filter
        BY <3>1 DEF Tables
      <3> QED
        BY <3>2, <3>3
    <2> QED
      BY <2>1, <2>2 DEF Filters
  <1>3. filter = filterPending => Wanted' \cap Committed \subseteq Wanted
    <2> SUFFICES ASSUME filter = filterPending PROVE Wanted' \cap Committed \subseteq Wanted
      OBVIOUS
    <2>1. /\ Wanted = {id \in Ids : status[id] = "admitted"}
          /\ Wanted' = {id \in Ids : status'[id] = "admitted"}
      BY DEF Wanted, Matching, filterPending, Ids
    <2> QED
      BY <2>1 DEF Committed
  <1> QED
    BY <1>1, <1>2, <1>3 DEF Writes

\* Every step is one.
LEMMA NextWrites ==
  ASSUME Tables, filter \in Filters, [Next]_vars
  PROVE  Writes
  <1>1. ASSUME UNCHANGED <<nextId, status, outcome, filter>> PROVE Writes
    <2>1. Tables'
      BY <1>1 DEF Tables
    <2> QED
      BY <1>1, <2>1, TablesWritten
  <1>2. CASE UNCHANGED vars
    BY <1>1, <1>2 DEF vars, db
  <1>3. CASE Draw
    <2>1. /\ nextId' = nextId + 1 /\ nextId \in Ids
          /\ status' = [status EXCEPT ![nextId] = "inserting"]
          /\ UNCHANGED <<outcome, filter>>
      BY <1>3, ListAssumption DEF Draw, Tables, Ids
    <2>2. \A id \in Ids : id \in Nat
      BY DEF Ids
    <2>3. status[nextId] = "unused"
      BY <2>1, <2>2 DEF Tables
    <2>4. Tables'
      BY <2>1, <2>2, <2>3 DEF Tables, Statuses
    <2> QED
      BY <2>1, <2>3, <2>4, TablesWritten DEF Tables
  <1>4. ASSUME NEW id \in Ids, EndInsert(id) PROVE Writes
    <2>1. PICK end \in {"admitted", "aborted"} : status' = [status EXCEPT ![id] = end]
      BY <1>4 DEF EndInsert
    <2>2. status[id] = "inserting" /\ UNCHANGED <<nextId, outcome, filter>>
      BY <1>4 DEF EndInsert
    <2>3. Tables'
      BY <2>1, <2>2 DEF Tables, Statuses
    <2> QED
      BY <2>1, <2>2, <2>3, TablesWritten DEF Tables
  <1>5. ASSUME NEW id \in Ids, NEW o \in Outcomes, Classify(id, o) PROVE Writes
    <2>1. /\ status[id] = "admitted"
          /\ outcome' = [outcome EXCEPT ![id] = o]
          /\ status' = [status EXCEPT ![id] = "advanced"]
          /\ UNCHANGED <<nextId, filter>>
      BY <1>5 DEF Classify
    <2>2. o # "none"
      BY OutcomesAssumption
    <2>3. Tables'
      BY <2>1, <2>2 DEF Tables, Statuses
    <2> QED
      BY <2>1, <2>3, TablesWritten DEF Tables
  <1>6. CASE List \/ BatchGet \/ JoinMany \/ Refetch \/ LoadMore \/ Answer \/ Fail \/ Leave
    <2>1. UNCHANGED <<nextId, status, outcome, filter>>
      BY <1>6 DEF List, BatchGet, JoinMany, Refetch, LoadMore, Answer, Fail, Leave, db
    <2> QED
      BY <1>1, <2>1
  <1> QED
    BY <1>2, <1>3, <1>4, <1>5, <1>6 DEF Next

\* So page sequences stay what they are.
LEMMA WritesKeep ==
  ASSUME Writes, NEW d, Holds(d, filter, Wanted, Committed)
  PROVE  Holds(d, filter, Wanted', Committed') /\ d.baseline \cap Wanted' \subseteq d.baseline \cap Wanted
  BY HoldsStill DEF Writes

-----------------------------------------------------------------------------
(* The invariant is inductive. *)

\* The list starts with unused ids, no pages and no request.
LEMMA InitHeld == Init => IInv
  <1> SUFFICES ASSUME Init PROVE IInv
    OBVIOUS
  <1>1. Tables
    BY DEF Init, Tables, Ids, Statuses
  <1>2. filter \in Filters /\ pc \in Phases /\ Request
    BY DEF Init, Request, Phases
  <1>3. Held
    <2>1. Holds(NoPages, filter, Wanted, Committed)
      BY HoldsNone DEF NoPages
    <2> QED
      BY <2>1 DEF Init, Held
  <1>4. Totals /\ error \in Errors
    BY DEF Init, Totals, NoPages, Errors
  <1> QED
    BY <1>1, <1>2, <1>3, <1>4 DEF IInv

\* The rows a keyset page starts with.
LEMMA StepList == IInv /\ Writes /\ List => Request'
  <1> SUFFICES ASSUME IInv, Writes, List PROVE Request'
    OBVIOUS
  <1> DEFINE K == Keyset(filter)
  <1>1. /\ UNCHANGED <<nextId, status, outcome, after, filter, draft>>
        /\ pc = "list" /\ pc' = IF filter = filterPending THEN "count" ELSE "join"
        /\ rows' = [k \in DOMAIN K |->
                     [id |-> K[k],
                      status  |-> IF filter \in Outcomes THEN "unread" ELSE status[K[k]],
                      outcome |-> IF filter \in Outcomes THEN filter ELSE "none"]]
    BY DEF List, db, query
  <1>2. Wanted' = Wanted
    BY <1>1 DEF Wanted, Matching, Committed, Ids
  <1>3. Wanted \subseteq Ids
    BY MatchingSets DEF IInv, Wanted, Committed
  <1>4. /\ K \in Seq(Wanted) /\ Len(K) <= Limit + 1
        /\ \A k \in DOMAIN K : K[k] > after
        /\ \A k, l \in DOMAIN K : k < l => K[k] < K[l]
        /\ \A id \in Wanted : id > after =>
             (\E k \in DOMAIN K : K[k] = id) \/ (Len(K) = Limit + 1 /\ id > K[Limit + 1])
    BY <1>3, KeysetLists DEF Wanted
  <1> HIDE DEF K
  <1>5. /\ Len(K) \in Nat /\ DOMAIN K = 1..Len(K) /\ \A k \in DOMAIN K : K[k] \in Wanted /\ K[k] \in Ids
    BY <1>3, <1>4
  <1>6. /\ DOMAIN rows' = DOMAIN K
        /\ \A k \in DOMAIN K :
             /\ rows'[k].id = K[k]
             /\ rows'[k].status = IF filter \in Outcomes THEN "unread" ELSE status[K[k]]
             /\ rows'[k].outcome = IF filter \in Outcomes THEN filter ELSE "none"
             /\ rows'[k] \in Rows
    <2>1. \A k \in DOMAIN K : rows'[k] = [id |-> K[k],
             status  |-> IF filter \in Outcomes THEN "unread" ELSE status[K[k]],
             outcome |-> IF filter \in Outcomes THEN filter ELSE "none"]
      BY <1>1
    <2>2. \A k \in DOMAIN K : status[K[k]] \in Statuses
      BY <1>5 DEF IInv, Tables
    <2> QED
      BY <1>1, <1>5, <2>1, <2>2 DEF Rows
  <1>7. rows' \in Seq(Rows) /\ Len(rows') = Len(K)
    BY <1>1, <1>5, <1>6
  <1>8. Len(K) = Limit + 1 => Limit + 1 \in DOMAIN K
    BY <1>5, ListAssumption
  <1>9. RowsRead(rows', after, filter, Wanted, draft.baseline \cap Wanted)
    BY <1>4, <1>5, <1>6, <1>7, <1>8 DEF RowsRead
  <1>10. \A k \in DOMAIN rows' : filter \in Outcomes => rows'[k].outcome = filter
    BY <1>6
  <1>11. \A k \in DOMAIN rows' :
           filter = "" /\ rows'[k].status = "advanced" => status'[rows'[k].id] = "advanced"
    <2>1. filter = "" => filter \notin Outcomes
      BY OutcomesAssumption
    <2> QED
      BY <1>1, <1>6, <2>1
  <1>12. ASSUME pc' = "count" PROVE \A k \in DOMAIN rows' : Labelled(rows'[k])
    <2>1. filter = filterPending /\ filter \notin Outcomes
      BY <1>1, <1>12, OutcomesAssumption
    <2>2. Wanted = {id \in Ids : status[id] = "admitted"}
      BY <2>1 DEF Wanted, Matching, filterPending
    <2>3. \A k \in DOMAIN rows' : rows'[k].status = "admitted"
      BY <1>5, <1>6, <2>1, <2>2
    <2> QED
      BY <2>3 DEF Labelled
  <1>13. Follows(draft'.pages, after')
    BY <1>1 DEF IInv, Request
  <1> QED
    BY <1>1, <1>2, <1>9, <1>10, <1>11, <1>12, <1>13 DEF Request

\* The outcomes read for an unfiltered page.
LEMMA StepBatchGet == IInv /\ Writes /\ BatchGet => Request'
  <1> SUFFICES ASSUME IInv, Writes, BatchGet PROVE Request'
    OBVIOUS
  <1>1. /\ UNCHANGED <<nextId, status, outcome, after, filter, draft>>
        /\ pc = "join" /\ filter = "" /\ pc' = "count"
        /\ rows' = [k \in DOMAIN rows |-> [rows[k] EXCEPT !.outcome = outcome[rows[k].id]]]
    BY DEF BatchGet, db, query
  <1>2. Wanted' = Wanted
    BY <1>1 DEF Wanted, Matching, Committed, Ids
  <1>3. RowsRead(rows, after, filter, Wanted, draft.baseline \cap Wanted) /\ rows \in Seq(Rows)
    BY <1>1 DEF IInv, Request, RowsRead
  <1>4. ASSUME NEW k \in DOMAIN rows
        PROVE  rows'[k] \in Rows /\ rows'[k].id = rows[k].id /\ Labelled(rows'[k])
    <2>1. rows[k] \in Rows /\ rows[k].id \in Ids
      BY <1>3, RowFields
    <2>2. outcome[rows[k].id] \in Outcomes \cup {"none"}
      BY <2>1 DEF IInv, Tables
    <2>3. /\ rows'[k] \in Rows /\ rows'[k].id = rows[k].id /\ rows'[k].status = rows[k].status
          /\ rows'[k].outcome = outcome[rows[k].id]
      BY <1>1, <2>1, <2>2 DEF Rows
    <2>4. rows[k].status = "advanced" => outcome[rows[k].id] \in Outcomes
      BY <1>1, <2>1, <2>2 DEF IInv, Request, Tables
    <2> QED
      BY <2>3, <2>4 DEF Labelled
  <1>5. DOMAIN rows' = DOMAIN rows /\ rows' \in [DOMAIN rows -> Rows]
    BY <1>1, <1>4
  <1>6. RowsRead(rows', after, filter, Wanted, draft.baseline \cap Wanted)
    BY <1>3, <1>4, <1>5, RowsFilled
  <1>7. Follows(draft'.pages, after')
    BY <1>1 DEF IInv, Request
  <1> QED
    BY <1>1, <1>2, <1>4, <1>5, <1>6, <1>7 DEF Request

\* The submissions read for an outcome page are there: none is missing, since
\* what has an outcome is advanced.
LEMMA StepJoinMany == IInv /\ Writes /\ JoinMany => pc' = "count" /\ Request'
  <1> SUFFICES ASSUME IInv, Writes, JoinMany PROVE pc' = "count" /\ Request'
    OBVIOUS
  <1>1. UNCHANGED <<nextId, status, outcome, after, filter, draft>> /\ pc = "join" /\ filter \in Outcomes
    BY DEF JoinMany, db, query
  <1>2. Wanted' = Wanted
    BY <1>1 DEF Wanted, Matching, Committed, Ids
  <1>3. Wanted = {id \in Ids : outcome[id] = filter} /\ filter # filterPending /\ filter # "none"
    BY <1>1, OutcomesAssumption DEF Wanted, Matching
  <1>4. RowsRead(rows, after, filter, Wanted, draft.baseline \cap Wanted) /\ rows \in Seq(Rows)
    BY <1>1 DEF IInv, Request, RowsRead
  <1>5. ASSUME NEW k \in DOMAIN rows PROVE rows[k].id \in Committed
    <2>1. rows[k].id \in Ids /\ outcome[rows[k].id] = filter
      BY <1>3, <1>4, <1>5 DEF RowsRead
    <2> QED
      BY <1>3, <2>1 DEF IInv, Tables, Committed
  <1>6. \A k \in DOMAIN rows : rows[k].id \in GetMany(IdsOf(rows))
    BY <1>5 DEF GetMany, IdsOf, Range
  <1>7. /\ pc' = "count"
        /\ rows' = [k \in DOMAIN rows |-> [rows[k] EXCEPT !.status = status[rows[k].id]]]
    BY <1>6 DEF JoinMany
  <1>8. ASSUME NEW k \in DOMAIN rows
        PROVE  rows'[k] \in Rows /\ rows'[k].id = rows[k].id /\ Labelled(rows'[k])
    <2>1. rows[k] \in Rows /\ rows[k].id \in Ids
      BY <1>4, RowFields
    <2>2. status[rows[k].id] \in Statuses
      BY <2>1 DEF IInv, Tables
    <2>3. rows'[k] \in Rows /\ rows'[k].id = rows[k].id /\ rows'[k].outcome = rows[k].outcome
      BY <1>7, <2>1, <2>2 DEF Rows
    <2>4. rows[k].outcome = filter
      BY <1>1 DEF IInv, Request
    <2> QED
      BY <1>1, <2>3, <2>4 DEF Labelled
  <1>9. DOMAIN rows' = DOMAIN rows /\ rows' \in [DOMAIN rows -> Rows]
    BY <1>7, <1>8
  <1>10. RowsRead(rows', after, filter, Wanted, draft.baseline \cap Wanted)
    BY <1>4, <1>8, <1>9, RowsFilled
  <1>11. Follows(draft'.pages, after')
    BY <1>1 DEF IInv, Request
  <1> QED
    BY <1>1, <1>2, <1>7, <1>8, <1>9, <1>10, <1>11 DEF Request

\* A page arrives: the sequence under way, or the one displayed, is longer by it.
LEMMA StepAnswer == IInv /\ Writes /\ Answer => Held' /\ pc' \in Phases /\ Request' /\ Totals'
  <1> SUFFICES ASSUME IInv, Writes, Answer PROVE Held' /\ pc' \in Phases /\ Request' /\ Totals'
    OBVIOUS
  <1> DEFINE page == Page(rows, Count(filter))
             fetched == [draft EXCEPT !.pages = Append(@, page)]
  <1>1. UNCHANGED <<nextId, status, outcome, filter>> /\ pc = "count"
    BY DEF Answer, db
  <1>2. Wanted' = Wanted /\ Committed' = Committed
    BY <1>1 DEF Wanted, Matching, Committed, Ids
  <1>3. IsFiniteSet(Wanted) /\ Cardinality(Wanted) \in Nat /\ Committed \subseteq Ids
    <2>1. Wanted \subseteq Ids /\ Committed \subseteq Ids
      BY MatchingSets DEF IInv, Wanted, Committed
    <2>2. IsFiniteSet(Ids)
      BY FS_Interval, ListAssumption DEF Ids
    <2> QED
      BY <2>1, <2>2, FS_Subset, FS_CardinalityType
  <1>4. PageOf(rows) = page /\ Count(filter) = Cardinality(Wanted)
    BY DEF PageOf, Page, NextCursor, Count, Wanted
  <1>5. Holds(fetched, filter, Wanted, Committed)
    <2>1. /\ Follows(draft.pages, after)
          /\ RowsRead(rows, after, filter, Wanted, draft.baseline \cap Wanted)
          /\ \A k \in DOMAIN rows : Labelled(rows[k])
          /\ Holds(draft, filter, Wanted, Committed)
      BY <1>1 DEF IInv, Request, Held
    <2>2. Count(filter) \in Nat
      BY <1>3, <1>4
    <2> QED
      BY <1>3, <2>1, <2>2, HoldsLonger
  <1>6. /\ draft.pages \in Seq(Pages) /\ page \in Pages
        /\ fetched.pages = Append(draft.pages, page) /\ fetched.pages \in Seq(Pages)
        /\ fetched.pages # <<>> /\ fetched.pages[Len(fetched.pages)] = page
    <2>1. draft \in [pages : Seq(Pages), baseline : SUBSET Committed] /\ rows \in Seq(Rows)
      BY <1>1 DEF IInv, Held, Holds, Request, RowsRead
    <2>2. page \in Pages
      BY <1>3, <1>4, <2>1, PageHolds
    <2> HIDE DEF page
    <2> QED
      BY <2>1, <2>2, AppendProperties
  <1>7. \/ /\ page.next # 0
           /\ draft' = fetched /\ pc' = "list" /\ after' = page.next /\ data' = data
        \/ data' = fetched /\ pc' = "idle" /\ draft' = NoPages
    BY <1>4 DEF Answer, Stop
  <1> HIDE DEF page, fetched
  <1>8. CASE page.next # 0 /\ draft' = fetched /\ pc' = "list" /\ after' = page.next /\ data' = data
    <2>1. Held'
      BY <1>1, <1>2, <1>5, <1>8 DEF IInv, Held
    <2>2. Request'
      BY <1>6, <1>8 DEF Request, Follows
    <2>3. Totals'
      BY <1>1, <1>8 DEF IInv, Totals, Current, Shown
    <2> QED
      BY <1>8, <2>1, <2>2, <2>3 DEF Phases
  <1>9. CASE data' = fetched /\ pc' = "idle" /\ draft' = NoPages
    <2>1. Holds(NoPages, filter, Wanted, Committed)
      BY HoldsNone DEF NoPages
    <2>2. Held'
      BY <1>1, <1>2, <1>5, <1>9, <2>1 DEF Held
    <2>3. Request'
      BY <1>9 DEF Request
    <2>4. Totals'
      <3> SUFFICES ASSUME filter # filterPending PROVE Current(data)'.total >= Cardinality(Shown')
        BY <1>1 DEF Totals
      <3>1. InOrder(fetched.pages) /\ RowsOf(fetched.pages, filter, Wanted)
        BY <1>5 DEF Holds
      <3>2. Cardinality(UNION {{p} \X DOMAIN fetched.pages[p].rows : p \in DOMAIN fetched.pages})
              <= Cardinality(Wanted)
            /\ Cardinality(UNION {{p} \X DOMAIN fetched.pages[p].rows : p \in DOMAIN fetched.pages}) \in Nat
        BY <1>3, <1>6, <3>1, RowsCounted
      <3>3. Current(data)' = page /\ page.total = Cardinality(Wanted)
        BY <1>4, <1>6, <1>9 DEF Current, page, Page
      <3>4. Cardinality(Shown') <= Cardinality(Wanted) /\ Cardinality(Shown') \in Nat
        BY <1>9, <3>2 DEF Shown
      <3> QED
        BY <1>3, <3>3, <3>4
    <2> QED
      BY <1>9, <2>2, <2>3, <2>4 DEF Phases
  <1> QED
    BY <1>7, <1>8, <1>9

\* Whatever the tables do, a request and its pages stay what they are.
LEMMA StepTables ==
  IInv /\ Writes /\ UNCHANGED <<handler, query>> => Held' /\ pc' \in Phases /\ Request' /\ Totals'
  <1> SUFFICES ASSUME IInv, Writes, UNCHANGED <<handler, query>>
               PROVE  Held' /\ pc' \in Phases /\ Request' /\ Totals'
    OBVIOUS
  <1>1. /\ UNCHANGED <<pc, after, rows, draft, goal, data>> /\ filter' = filter
        /\ pc \in Phases
        /\ filter # filterPending => Wanted \subseteq Wanted'
        /\ \A id \in Ids : status[id] = "advanced" => status'[id] = "advanced"
    BY DEF handler, query, IInv, Writes
  <1>2. /\ Holds(draft, filter, Wanted', Committed') /\ Holds(data, filter, Wanted', Committed')
        /\ draft.baseline \cap Wanted' \subseteq draft.baseline \cap Wanted
    BY WritesKeep DEF IInv, Held
  <1>3. Held'
    BY <1>1, <1>2 DEF Held
  <1>4. ASSUME pc \in {"join", "count"}
        PROVE  RowsRead(rows, after, filter, Wanted', draft.baseline \cap Wanted')
    <2>1. RowsRead(rows, after, filter, Wanted, draft.baseline \cap Wanted)
      BY <1>4 DEF IInv, Request
    <2> QED
      BY <1>1, <1>2, <2>1, RowsStill
  <1>5. ASSUME pc = "join", NEW k \in DOMAIN rows, filter = "", rows[k].status = "advanced"
        PROVE  status'[rows[k].id] = "advanced"
    <2>1. rows \in Seq(Rows) /\ status[rows[k].id] = "advanced"
      BY <1>5 DEF IInv, Request, RowsRead
    <2>2. rows[k].id \in Ids
      BY <2>1, RowFields
    <2> QED
      BY <1>1, <2>1, <2>2
  <1>6. Request'
    BY <1>1, <1>4, <1>5 DEF IInv, Request
  <1>7. Totals'
    BY <1>1 DEF IInv, Totals, Current, Shown
  <1> QED
    BY <1>1, <1>3, <1>6, <1>7

\* Neither does reading a page change the pages.
LEMMA PagesUntouched ==
  ASSUME IInv, Writes, UNCHANGED <<draft, data>>
  PROVE  Held' /\ Totals'
  <1>1. Holds(draft, filter, Wanted', Committed') /\ Holds(data, filter, Wanted', Committed')
    BY WritesKeep DEF IInv, Held
  <1>2. filter' = filter
    BY DEF Writes
  <1> QED
    BY <1>1, <1>2 DEF IInv, Held, Totals, Current, Shown

\* A fetch begins with no pages or with those on display, or is given up.
LEMMA StepFetch ==
  IInv /\ Writes /\ (Refetch \/ LoadMore \/ Fail \/ Leave) => Held' /\ pc' \in Phases /\ Request' /\ Totals'
  <1> SUFFICES ASSUME IInv, Writes, Refetch \/ LoadMore \/ Fail \/ Leave
               PROVE  Held' /\ pc' \in Phases /\ Request' /\ Totals'
    OBVIOUS
  <1>1. UNCHANGED <<nextId, status, outcome, filter, data>>
    BY DEF Refetch, LoadMore, Fail, Leave, db
  <1>2. Wanted' = Wanted /\ Committed' = Committed
    BY <1>1 DEF Wanted, Matching, Committed, Ids
  <1>3. Totals'
    BY <1>1 DEF IInv, Totals, Current, Shown
  <1>4. Holds(data', filter', Wanted', Committed')
    BY <1>1, <1>2 DEF IInv, Held
  <1>5. CASE Refetch
    <2>1. /\ pc' = "list" /\ after' = 0
          /\ draft' = [NoPages EXCEPT !.baseline = Wanted]
      BY <1>5 DEF Refetch, Wanted
    <2>2. Wanted \subseteq Committed
      <3>1. "none" \notin Outcomes
        BY OutcomesAssumption
      <3>2. filter \in Filters /\ \A id \in Ids : outcome[id] # "none" <=> status[id] = "advanced"
        BY DEF IInv, Tables
      <3> QED
        BY <3>1, <3>2, MatchingSets DEF Wanted, Committed
    <2>3. Holds(draft', filter, Wanted, Committed)
      <3>1. Holds([pages |-> <<>>, baseline |-> Wanted], filter, Wanted, Committed)
        BY <2>2, HoldsNone
      <3>2. draft' = [pages |-> <<>>, baseline |-> Wanted]
        BY <2>1 DEF NoPages
      <3> QED
        BY <3>1, <3>2
    <2>4. draft'.pages = <<>>
      BY <2>1 DEF NoPages
    <2>5. Request'
      BY <2>1, <2>4 DEF Request, Follows
    <2> QED
      BY <1>1, <1>2, <1>3, <1>4, <2>1, <2>3, <2>5 DEF Held, Phases
  <1>6. CASE LoadMore
    <2>1. pc' = "list" /\ draft' = data /\ after' = Current(data).next /\ hasNextPage
      BY <1>6 DEF LoadMore
    <2>2. Request'
      BY <2>1 DEF Request, Follows, hasNextPage, Current
    <2> QED
      BY <1>1, <1>2, <1>3, <1>4, <2>1, <2>2 DEF Held, Phases
  <1>7. CASE Fail \/ Leave
    <2>1. pc' = "idle" /\ draft' = NoPages
      BY <1>7 DEF Fail, Leave, Stop
    <2>2. Holds(draft', filter, Wanted, Committed)
      BY <2>1, HoldsNone DEF NoPages
    <2>3. Request'
      BY <2>1 DEF Request
    <2> QED
      BY <1>1, <1>2, <1>3, <1>4, <2>1, <2>2, <2>3 DEF Held, Phases
  <1> QED
    BY <1>5, <1>6, <1>7

\* A fetch that fails does so in one of two ways.
LEMMA NextErrors == error \in Errors /\ [Next]_vars => error' \in Errors
  <1>1. \A reply : fetchSubmissions(reply) \in Errors
    BY DEF fetchSubmissions, toListFetchErrorKind, Errors
  <1> QED
    BY <1>1 DEF Next, vars, query, Draw, EndInsert, Classify, List, BatchGet, JoinMany, Refetch,
                LoadMore, Answer, Fail, Leave, Errors

\* Every step keeps the invariant.
LEMMA StepHeld == IInv /\ [Next]_vars => IInv'
  <1> SUFFICES ASSUME IInv, [Next]_vars PROVE IInv'
    OBVIOUS
  <1>1. Writes
    BY NextWrites DEF IInv
  <1>2. Tables' /\ filter' \in Filters /\ error' \in Errors
    BY <1>1, NextErrors DEF Writes, IInv
  <1>3. CASE UNCHANGED vars \/ Draw \/ (\E id \in Ids : EndInsert(id))
               \/ (\E id \in Ids, o \in Outcomes : Classify(id, o))
    <2>1. UNCHANGED <<handler, query>>
      BY <1>3 DEF vars, Draw, EndInsert, Classify
    <2> QED
      BY <1>1, <1>2, <2>1, StepTables DEF IInv
  <1>4. CASE List \/ BatchGet \/ JoinMany
    <2>1. UNCHANGED <<draft, data>>
      BY <1>4 DEF List, BatchGet, JoinMany, query
    <2>2. Request' /\ pc' \in Phases
      BY <1>1, <1>4, StepList, StepBatchGet, StepJoinMany DEF List, BatchGet, Phases
    <2> QED
      BY <1>1, <1>2, <2>1, <2>2, PagesUntouched DEF IInv
  <1>5. CASE Refetch \/ LoadMore \/ Fail \/ Leave
    BY <1>1, <1>2, <1>5, StepFetch DEF IInv
  <1>6. CASE Answer
    BY <1>1, <1>2, <1>6, StepAnswer DEF IInv
  <1> QED
    BY <1>3, <1>4, <1>5, <1>6 DEF Next

\* So the invariant holds throughout.
LEMMA SpecHeld == Spec => []IInv
  BY InitHeld, StepHeld, PTL DEF Spec

-----------------------------------------------------------------------------
(* What a client may rely on. *)

\* The places on display are rows of pages.
LEMMA Places ==
  ASSUME IInv, NEW at \in Shown
  PROVE  /\ at[1] \in DOMAIN data.pages /\ at[2] \in DOMAIN data.pages[at[1]].rows
         /\ RowAt(at) = data.pages[at[1]].rows[at[2]]
  BY DEF Shown, RowAt

\* The handler never answers with ErrCompositionMismatch.
THEOREM CompositionNeverMismatches == Spec => []NeverMismatch
  <1>1. IInv => NeverMismatch
    BY DEF IInv, Phases, NeverMismatch
  <1> QED
    BY <1>1, SpecHeld, PTL

\* Over all pages on display the ids ascend: no submission is shown twice.
THEOREM NoneShownTwice == Spec => []RowsAscend
  <1>1. IInv => RowsAscend
    <2> SUFFICES ASSUME IInv, NEW a \in Shown, NEW b \in Shown, Above(a, b)
                 PROVE  RowAt(a).id < RowAt(b).id
      BY DEF RowsAscend
    <2>1. InOrder(data.pages)
      BY DEF IInv, Held, Holds
    <2> QED
      BY <2>1, Places DEF Above, InOrder
  <1> QED
    BY <1>1, SpecHeld, PTL

\* A submission that matched when the first page was asked for and still does
\* is shown once there is no further page.
THEOREM StableRowsShown == Spec => []NothingStableMissed
  <1>1. IInv => NothingStableMissed
    <2> SUFFICES ASSUME IInv, data.pages # <<>>, ~hasNextPage,
                        NEW id \in data.baseline \cap Matching(filter)
                 PROVE  id \in IdsShown
      BY DEF NothingStableMissed
    <2>1. Covers(data.pages, data.baseline \cap Wanted)
      BY DEF IInv, Held, Holds
    <2>2. data.pages[Len(data.pages)].next = 0
      BY DEF hasNextPage, Current
    <2>3. PICK p \in DOMAIN data.pages : \E k \in DOMAIN data.pages[p].rows : data.pages[p].rows[k].id = id
      BY <2>1, <2>2 DEF Covers, On, Wanted
    <2>4. PICK k \in DOMAIN data.pages[p].rows : data.pages[p].rows[k].id = id
      BY <2>3
    <2>5. <<p, k>> \in Shown /\ RowAt(<<p, k>>).id = id
      BY <2>4 DEF Shown, RowAt
    <2> QED
      BY <2>5 DEF IdsShown
  <1> QED
    BY <1>1, SpecHeld, PTL

\* A row shown as advanced names its outcome.
THEOREM AdvancedRowsNamed == Spec => []AdvancedRowsCarryOutcome
  <1>1. IInv => AdvancedRowsCarryOutcome
    <2> SUFFICES ASSUME IInv, SubmissionsPage.screen = "rows", NEW row \in Range(SubmissionsPage.rows),
                        row.status = "advanced"
                 PROVE  row.label \in Outcomes
      BY DEF AdvancedRowsCarryOutcome
    <2>1. SubmissionsPage.rows = [at \in Shown |-> SubmissionRow(RowAt(at))]
      BY DEF SubmissionsPage, IInv, Errors
    <2>2. PICK at \in Shown : row = SubmissionRow(RowAt(at))
      BY <2>1 DEF Range
    <2>3. Labelled(RowAt(at))
      BY Places DEF IInv, Held, Holds, RowsOf
    <2>4. RowAt(at).status = "advanced" => RowAt(at).outcome \in Outcomes
      BY <2>3 DEF Labelled
    <2> QED
      BY <2>2, <2>4, OutcomesAssumption DEF SubmissionRow, outcomeLabel
  <1> QED
    BY <1>1, SpecHeld, PTL

\* The total beside the rows covers them, except for pending.
THEOREM TotalsCover == Spec => []TotalCoversRows
  <1>1. IInv => TotalCoversRows
    <2> SUFFICES ASSUME IInv, SubmissionsPage.screen = "rows", filter # filterPending
                 PROVE  SubmissionsPage.total >= Cardinality(Shown)
      BY DEF TotalCoversRows
    <2>1. SubmissionsPage.total = Total /\ data.pages # <<>>
      BY DEF SubmissionsPage, IInv, Errors
    <2> QED
      BY <2>1 DEF IInv, Totals, Total
  <1> QED
    BY <1>1, SpecHeld, PTL

=============================================================================
