-------------------------- MODULE ListQuery_proofs --------------------------
(***************************************************************************)
(* The safety of ListQuery for every table, every traffic and every limit. *)
(***************************************************************************)
EXTENDS ListQuery, FiniteSetTheorems, SequenceTheorems, TLAPS

(* The inductive invariant.                                                *)

\* A row of the table that is listed, deleted ones included.
Present(id) == IF list = "disbursements" THEN Exists(id) ELSE entry[id] # NoEntry

\* A row that no writer writes any more.
Final(id) == Present(id) /\ ~(list = "disbursements" /\ Claimable(id))

\* An order of some rows that MySQL may produce.
Ordered(s, q) ==
  /\ s \in Seq(Ids)
  /\ \A m, n \in DOMAIN s : m < n => s[m] # s[n] /\ ~Before(s[n], s[m], q)

\* What a request asks for has been checked before it reaches the database.
AskFits(r) ==
  /\ pc[r] = "idle" => query[r] = NoInput /\ basis[r] = << >> /\ ~walk[r].on
  /\ pc[r] # "idle" => query[r] \in Asks /\ Ordered(basis[r], query[r])
  /\ pc[r] \in {"count", "find"} \/ Listed(r) => query[r].status \in Statuses \cup {""}
  /\ Listed(r) => pc[r] = "done"
  /\ \A id \in Range(basis[r]) : Present(id)

\* The total is that of the table as it was when it was counted.
CountFits(r) ==
  pc[r] = "find" =>
    /\ drift[r] # "after"
    /\ drift[r] = "none" => total[r] = Cardinality(Matching(query[r]))

PageFits(r) ==
  Listed(r) =>
    /\ page[r] = Slice(basis[r], query[r])
    /\ drift[r] # "between" => total[r] = Len(basis[r])
    /\ drift[r] = "none" => Range(basis[r]) = Matching(query[r])
    /\ query[r].status \in Decisions \/ list = "audit_logs" =>
         \A id \in Range(basis[r]) : Final(id) /\ Matches(id, query[r])

\* The pages that the client has seen.
Turned(r) == IF Listed(r) THEN query[r].page ELSE query[r].page - 1

\* The first rows that the client has not seen are behind the pages it has.
WalkFits(r) ==
  walk[r].on =>
    LET w == walk[r]  q == query[r]
    IN /\ pc[r] # "idle" /\ Turned(r) >= 1 /\ InRange(q)
       /\ list = "audit_logs" => "change" \notin w.since
       /\ w.since \subseteq {"insert"} => \A id \in Range(basis[r]) : Matches(id, q)
       /\ w.since \subseteq {"insert"} /\ Distinct(r) =>
            \A id \in w.first \ w.shown :
              id \in Range(basis[r]) /\ Rank(id, r) >= Turned(r) * q.limit
       /\ w.since = {} => Matching(q) = Range(basis[r])
       /\ w.since = {} /\ Distinct(r) =>
            /\ ~w.repeated
            /\ \A id \in w.shown : id \in Range(basis[r]) /\ Rank(id, r) < Turned(r) * q.limit

IInv ==
  /\ TypeOK
  /\ list = "audit_logs" => \A id \in Ids : ~Exists(id)
  /\ \A r \in Requests : AskFits(r) /\ CountFits(r) /\ PageFits(r) /\ WalkFits(r)

-----------------------------------------------------------------------------
(* Pages.                                                                  *)

LEMMA Products ==
  ASSUME NEW a \in Nat, NEW b \in Nat, NEW l \in Nat
  PROVE  (a <= b => a * l <= b * l) /\ (a < b => a * l + l <= b * l) /\ a * l \in Nat
OBVIOUS

LEMMA NextPage ==
  ASSUME NEW p \in Nat \ {0}, NEW l \in Nat
  PROVE  p * l = (p - 1) * l + l
OBVIOUS

LEMMA Division ==
  ASSUME NEW n \in Nat, NEW l \in Nat \ {0}
  PROVE  n \div l \in Nat /\ (n \div l) * l <= n /\ n < (n \div l) * l + l
OBVIOUS

LEMMA Quotient ==
  ASSUME NEW n \in Nat, NEW l \in Nat \ {0}, NEW p \in Nat
  PROVE  n \div l = p <=> (p * l <= n /\ n < p * l + l)
OBVIOUS

LEMMA AskTypes ==
  ASSUME NEW q \in Asks
  PROVE  /\ q.page \in Nat \ {0} /\ q.page <= IntMax
         /\ q.limit \in Nat \ {0} /\ q.limit <= MaxLimit
         /\ q.from \in Int \cup {NoDate} /\ q.to \in Int \cup {NoDate}
         /\ q.sortBy \in {"amount", "created_at"} /\ q.asc \in BOOLEAN
         /\ (q.page - 1) * q.limit \in Nat
<1>1. q.page \in 1 .. IntMax /\ q.limit \in 1 .. MaxLimit
  BY DEF Asks
<1>2. q.page - 1 \in Nat /\ q.limit \in Nat
  BY <1>1, ListAssumption
<1>3. (q.page - 1) * q.limit \in Nat
  BY <1>2
<1>4. /\ q.from \in Int \cup {NoDate} /\ q.to \in Int \cup {NoDate}
      /\ q.sortBy \in {"amount", "created_at"} /\ q.asc \in BOOLEAN
  BY DEF Asks
<1>5. /\ q.page \in Nat \ {0} /\ q.page <= IntMax
      /\ q.limit \in Nat \ {0} /\ q.limit <= MaxLimit
  BY <1>1, ListAssumption
<1> QED BY <1>3, <1>4, <1>5

\* Within the range of an int the offset is the number of rows before the page.
LEMMA OffsetExact ==
  ASSUME NEW q \in Asks, InRange(q)
  PROVE  Offset(q) = (q.page - 1) * q.limit
<1> DEFINE n == (q.page - 1) * q.limit
<1>1. n \in 0 .. IntMax
  BY AskTypes, ListAssumption DEF InRange
<1>2. Wrapped(n) = n
  <2> HIDE DEF n
  <2> QED BY <1>1, ListAssumption DEF Wrapped
<1> QED BY <1>2 DEF Offset

\* What OFFSET skips: GORM writes it only if it is positive.
Skip(q) == IF Offset(q) > 0 THEN Offset(q) ELSE 0

LEMMA SkipFacts ==
  ASSUME NEW q \in Asks
  PROVE  /\ Skip(q) \in Nat
         /\ InRange(q) => Skip(q) = (q.page - 1) * q.limit
<1> DEFINE n == (q.page - 1) * q.limit
<1>1. n \in Nat
  BY AskTypes
<1>2. Offset(q) \in Int
  <2>1. (n + IntMax + 1) % (2 * IntMax + 2) \in Int
    <3> HIDE DEF n
    <3> QED BY <1>1, ListAssumption
  <2> QED BY <2>1, ListAssumption DEF Offset, Wrapped
<1>3. InRange(q) => Offset(q) = n
  BY OffsetExact
<1> HIDE DEF n
<1>4. Skip(q) \in Nat /\ (InRange(q) => Skip(q) = n)
  BY <1>1, <1>2, <1>3 DEF Skip
<1> QED BY <1>4 DEF n

\* A page consists of the rows after its offset, up to its limit.
LEMMA SliceRows ==
  ASSUME NEW q \in Asks, NEW s \in Seq(Ids)
  PROVE  /\ Slice(s, q) \in Seq(Ids)
         /\ Len(Slice(s, q)) = IF Len(s) <= Skip(q) THEN 0
                               ELSE IF Skip(q) + q.limit < Len(s) THEN q.limit
                               ELSE Len(s) - Skip(q)
         /\ \A m \in 1 .. Len(Slice(s, q)) : Slice(s, q)[m] = s[Skip(q) + m]
<1>1. PICK skip : skip \in Nat /\ skip = Skip(q)
  BY SkipFacts
<1>2. q.limit \in Nat \ {0}
  BY AskTypes
<1>3. PICK end : /\ end = IF skip + q.limit < Len(s) THEN skip + q.limit ELSE Len(s)
                 /\ end \in Nat /\ Len(s) \in Nat /\ end <= Len(s) /\ skip \in Nat
  BY <1>1, <1>2
<1>4. Slice(s, q) = SubSeq(s, skip + 1, end)
  BY <1>1, <1>3 DEF Slice, Skip
<1>5. \A m \in (skip + 1) .. end : s[m] \in Ids
  <2>1. s \in Seq(Ids)
    OBVIOUS
  <2> TAKE m \in (skip + 1) .. end
  <2>2. m \in 1 .. Len(s)
    BY <1>3
  <2> QED BY <2>1, <2>2, ElementOfSeq
<1>6. /\ SubSeq(s, skip + 1, end) \in Seq(Ids)
      /\ Len(SubSeq(s, skip + 1, end)) = IF skip + 1 <= end THEN end - skip ELSE 0
      /\ \A i \in 1 .. (end - skip) : SubSeq(s, skip + 1, end)[i] = s[skip + i]
  <2>1. skip + 1 \in Int /\ end \in Int
    BY <1>3
  <2>2. \A i \in 1 .. (end - (skip + 1) + 1) : SubSeq(s, skip + 1, end)[i] = s[(skip + 1) + i - 1]
    BY <1>5, <2>1, SubSeqProperties
  <2>3. \A i \in 1 .. (end - skip) : SubSeq(s, skip + 1, end)[i] = s[skip + i]
    <3> TAKE i \in 1 .. (end - skip)
    <3>1. i \in 1 .. (end - (skip + 1) + 1) /\ (skip + 1) + i - 1 = skip + i
      BY <1>3
    <3> QED BY <2>2, <3>1
  <2>4. Len(SubSeq(s, skip + 1, end)) = IF skip + 1 <= end THEN end - (skip + 1) + 1 ELSE 0
    BY <1>5, <2>1, SubSeqProperties
  <2>5. SubSeq(s, skip + 1, end) \in Seq(Ids)
    BY <1>5, <2>1, SubSeqProperties
  <2>6. end - (skip + 1) + 1 = end - skip
    BY <1>3
  <2>7. Len(SubSeq(s, skip + 1, end)) = IF skip + 1 <= end THEN end - skip ELSE 0
    BY <2>4, <2>6
  <2> QED BY ONLY <2>3, <2>5, <2>7
<1>7. skip + 1 <= end <=> Len(s) > skip
  BY <1>3, <1>2
<1>8. \A m \in 1 .. Len(SubSeq(s, skip + 1, end)) : SubSeq(s, skip + 1, end)[m] = s[skip + m]
  BY <1>3, <1>6
<1>9. Len(SubSeq(s, skip + 1, end)) = IF Len(s) <= skip THEN 0
                               ELSE IF skip + q.limit < Len(s) THEN q.limit ELSE Len(s) - skip
  BY <1>3, <1>6, <1>7, <1>2
<1> QED BY <1>1, <1>4, <1>6, <1>8, <1>9

-----------------------------------------------------------------------------
(* Orders and ranks.                                                       *)

RankIn(id, s, q) == Cardinality({other \in Range(s) : Before(other, id, q)})

DistinctIn(s, q) == \A a, b \in Range(s) : a # b => SortKey(a, q) # SortKey(b, q)

Keyed == day \in [Ids -> Nat] /\ amount \in [Ids -> Nat]

LEMMA KeyTypes ==
  ASSUME TypeOK PROVE Keyed
<1>1. 0 .. MaxDay \subseteq Nat /\ Amounts \cup {0} \subseteq Nat
  BY ListAssumption
<1> QED BY <1>1 DEF TypeOK, Keyed

LEMMA RangeFacts ==
  ASSUME NEW T, NEW s \in Seq(T)
  PROVE  /\ Range(s) = {s[m] : m \in 1 .. Len(s)} /\ Range(s) \subseteq T
         /\ IsFiniteSet(Range(s))
<1>1. Range(s) = {s[m] : m \in 1 .. Len(s)}
  BY DEF Range
<1>2. IsFiniteSet(1 .. Len(s))
  BY FS_Interval
<1>3. s \in Surjection(1 .. Len(s), Range(s))
  BY <1>1 DEF Surjection
<1> QED BY <1>1, <1>2, <1>3, FS_Surjection

LEMMA MatchesFinite ==
  ASSUME NEW q
  PROVE  /\ Matching(q) \subseteq Ids /\ IsFiniteSet(Matching(q))
         /\ Cardinality(Matching(q)) \in 0 .. Cardinality(Ids)
         /\ Cardinality(Ids) \in Nat
<1>1. Matching(q) \in SUBSET Ids
  BY DEF Matching
<1> QED BY <1>1, ListAssumption, FS_Subset, FS_CardinalityType

\* A statement finds the rows that match, each of them once.
LEMMA OrderRows ==
  ASSUME NEW q, NEW s \in Orders(q)
  PROVE  /\ Ordered(s, q)
         /\ Range(s) = Matching(q)
         /\ Len(s) = Cardinality(Matching(q))
<1> DEFINE n == Cardinality(Matching(q))
<1>1. n \in Nat /\ IsFiniteSet(Matching(q)) /\ Matching(q) \subseteq Ids
  BY MatchesFinite
<1>2. /\ s \in [1 .. n -> Matching(q)]
      /\ \A i, j \in 1 .. n : i # j => s[i] # s[j]
      /\ \A i, j \in DOMAIN s : i < j => ~Before(s[j], s[i], q)
  BY DEF Orders, SetToSeqs
<1>3. s \in Seq(Ids) /\ Len(s) = n /\ DOMAIN s = 1 .. n
  <2> HIDE DEF n
  <2> QED BY <1>1, <1>2
<1>4. Ordered(s, q)
  <2> HIDE DEF n
  <2> QED BY <1>2, <1>3 DEF Ordered
<1>5. Range(s) = Matching(q)
  <2>1. s \in Injection(1 .. n, Matching(q))
    BY <1>2 DEF Injection, IsInjective
  <2>2. Cardinality(1 .. n) = n
    BY <1>1, FS_Interval
  <2>3. s \in Surjection(1 .. n, Matching(q))
    BY <1>1, <2>1, <2>2, FS_Injection
  <2> QED BY <1>2, <2>3 DEF Surjection, Range
<1> QED BY <1>3, <1>4, <1>5

\* Where keys are distinct, a row is behind the rows that it comes after.
LEMMA RankIsPlace ==
  ASSUME Keyed, NEW q, NEW s, Ordered(s, q), DistinctIn(s, q), NEW m \in 1 .. Len(s)
  PROVE  RankIn(s[m], s, q) = m - 1
<1> DEFINE before == {other \in Range(s) : Before(other, s[m], q)}
           f == [n \in 1 .. (m - 1) |-> s[n]]
<1>1. s \in Seq(Ids) /\ m \in Nat /\ Len(s) \in Nat /\ DOMAIN s = 1 .. Len(s)
  BY DEF Ordered
<1>2. \A n \in 1 .. Len(s) : s[n] \in Ids /\ s[n] \in Range(s)
  BY <1>1, RangeFacts
<1>3. \A n \in 1 .. Len(s) : SortKey(s[n], q) \in Nat
  <2> SUFFICES ASSUME NEW n \in 1 .. Len(s) PROVE SortKey(s[n], q) \in Nat
    OBVIOUS
  <2>1. s[n] \in Ids
    BY <1>2
  <2>2. day[s[n]] \in Nat /\ amount[s[n]] \in Nat
    BY <2>1 DEF Keyed
  <2> QED BY <2>2 DEF SortKey
<1>4. \A n \in 1 .. Len(s) : Before(s[n], s[m], q) <=> n < m
  <2> SUFFICES ASSUME NEW n \in 1 .. Len(s) PROVE Before(s[n], s[m], q) <=> n < m
    OBVIOUS
  <2>1. CASE n < m
    <3>1. s[n] # s[m] /\ ~Before(s[m], s[n], q)
      BY <1>1, <2>1 DEF Ordered
    <3>2. SortKey(s[n], q) # SortKey(s[m], q)
      BY <1>2, <3>1 DEF DistinctIn
    <3> QED BY <1>3, <2>1, <3>1, <3>2 DEF Before
  <2>2. CASE n = m
    BY <1>3, <2>2 DEF Before
  <2>3. CASE n > m
    BY <1>1, <2>3 DEF Ordered
  <2> QED BY <1>1, <2>1, <2>2, <2>3
<1>5. \A n \in 1 .. (m - 1) : n \in 1 .. Len(s) /\ n < m
  BY <1>1
<1>6. f \in [1 .. (m - 1) -> before]
  <2> SUFFICES ASSUME NEW n \in 1 .. (m - 1) PROVE s[n] \in before
    OBVIOUS
  <2> QED BY <1>2, <1>4, <1>5
<1>7. \A i, j \in 1 .. (m - 1) : f[i] = f[j] => i = j
  <2> SUFFICES ASSUME NEW i \in 1 .. (m - 1), NEW j \in 1 .. (m - 1), i # j PROVE s[i] # s[j]
    OBVIOUS
  <2> QED BY <1>1, <1>5 DEF Ordered
<1>8. \A x \in before : \E n \in 1 .. (m - 1) : f[n] = x
  <2> SUFFICES ASSUME NEW x \in before PROVE \E n \in 1 .. (m - 1) : f[n] = x
    OBVIOUS
  <2>1. PICK n \in 1 .. Len(s) : x = s[n]
    BY <1>1, RangeFacts
  <2>2. n \in 1 .. (m - 1)
    BY <1>1, <1>4, <2>1
  <2> QED BY <2>1, <2>2
<1>9. f \in Bijection(1 .. (m - 1), before)
  <2> HIDE DEF f, before
  <2>1. f \in Injection(1 .. (m - 1), before)
    BY <1>6, <1>7 DEF Injection, IsInjective
  <2>2. f \in Surjection(1 .. (m - 1), before)
    BY <1>6, <1>8 DEF Surjection
  <2> QED BY <2>1, <2>2 DEF Bijection
<1>10. IsFiniteSet(1 .. (m - 1)) /\ Cardinality(1 .. (m - 1)) = m - 1
  <2>1. m - 1 \in Nat
    BY <1>1
  <2> QED BY <2>1, FS_Interval
<1>11. ExistsBijection(1 .. (m - 1), before)
  BY <1>9 DEF ExistsBijection
<1>12. Cardinality(before) = m - 1
  <2> HIDE DEF before
  <2> QED BY <1>10, <1>11, FS_Bijection
<1> QED BY <1>12 DEF RankIn

\* What a page shows, where keys are distinct.
LEMMA PageRows ==
  ASSUME Keyed, NEW q \in Asks, NEW s, Ordered(s, q), InRange(q)
  PROVE  /\ Slice(s, q) \in Seq(Ids)
         /\ Range(Slice(s, q)) \subseteq Range(s)
         /\ DistinctIn(s, q) =>
              \A id \in Range(s) :
                /\ RankIn(id, s, q) \in Nat /\ RankIn(id, s, q) < Len(s)
                /\ id \in Range(Slice(s, q)) <=>
                     /\ (q.page - 1) * q.limit <= RankIn(id, s, q)
                     /\ RankIn(id, s, q) < (q.page - 1) * q.limit + q.limit
<1> DEFINE skip == (q.page - 1) * q.limit
           t == Slice(s, q)
<1>1. skip \in Nat /\ q.limit \in Nat \ {0}
  BY AskTypes
<1>2. skip = Skip(q)
  BY SkipFacts
<1>3. s \in Seq(Ids)
  BY DEF Ordered
<1> HIDE DEF skip
<1>4. /\ t \in Seq(Ids)
      /\ Len(t) = IF Len(s) <= skip THEN 0
                  ELSE IF skip + q.limit < Len(s) THEN q.limit ELSE Len(s) - skip
      /\ \A k \in 1 .. Len(t) : t[k] = s[skip + k]
  BY <1>1, <1>2, <1>3, SliceRows
<1> HIDE DEF t
<1>5. Range(t) = {t[k] : k \in 1 .. Len(t)} /\ Range(s) = {s[m] : m \in 1 .. Len(s)}
  BY <1>3, <1>4, RangeFacts
<1>6. Len(s) \in Nat /\ Len(t) \in Nat
  BY <1>3, <1>4
<1>7. \A k \in 1 .. Len(t) : skip + k \in 1 .. Len(s) /\ k <= q.limit
  BY <1>1, <1>4, <1>6
<1>8. Range(t) \subseteq Range(s)
  BY <1>4, <1>5, <1>7
<1>9. ASSUME DistinctIn(s, q), NEW id \in Range(s)
      PROVE  /\ RankIn(id, s, q) \in Nat /\ RankIn(id, s, q) < Len(s)
             /\ id \in Range(t) <=> skip <= RankIn(id, s, q) /\ RankIn(id, s, q) < skip + q.limit
  <2>1. PICK m \in 1 .. Len(s) : id = s[m]
    BY <1>5
  <2>2. RankIn(id, s, q) = m - 1
    BY <1>9, <2>1, RankIsPlace
  <2>3. ASSUME id \in Range(t) PROVE skip <= m - 1 /\ m - 1 < skip + q.limit
    <3>1. PICK k \in 1 .. Len(t) : id = t[k]
      BY <1>5, <2>3
    <3>2. PICK j \in 1 .. Len(s) : j = skip + k
      BY <1>7
    <3>3. s[j] = id
      BY <1>4, <3>1, <3>2
    <3>4. RankIn(s[j], s, q) = j - 1
      BY <1>9, RankIsPlace
    <3>5. m = j
      BY <2>2, <3>3, <3>4
    <3> QED BY <1>1, <1>7, <3>2, <3>5
  <2>4. ASSUME skip <= m - 1, m - 1 < skip + q.limit PROVE id \in Range(t)
    <3>1. m - skip \in 1 .. Len(t)
      BY <1>1, <1>4, <1>6, <2>4
    <3>2. t[m - skip] = s[skip + (m - skip)] /\ skip + (m - skip) = m
      BY <1>1, <1>4, <3>1
    <3> QED BY <1>5, <2>1, <3>1, <3>2
  <2> QED BY <1>6, <2>2, <2>3, <2>4
<1> QED BY <1>4, <1>8, <1>9 DEF skip, t

LEMMA RankTypes ==
  ASSUME NEW q, NEW s \in Seq(Ids), NEW id
  PROVE  RankIn(id, s, q) \in Nat
<1>1. {other \in Range(s) : Before(other, id, q)} \in SUBSET Range(s)
  OBVIOUS
<1> QED BY <1>1, RangeFacts, FS_Subset, FS_CardinalityType DEF RankIn

\* Among more rows a row has no lower rank.
LEMMA RankGrows ==
  ASSUME NEW q, NEW s \in Seq(Ids), NEW t \in Seq(Ids), Range(s) \subseteq Range(t), NEW id
  PROVE  RankIn(id, s, q) <= RankIn(id, t, q)
<1> DEFINE A == {other \in Range(s) : Before(other, id, q)}
           B == {other \in Range(t) : Before(other, id, q)}
<1>1. A \subseteq B /\ B \subseteq Range(t) /\ IsFiniteSet(Range(t))
  BY RangeFacts
<1>2. IsFiniteSet(B)
  BY <1>1, FS_Subset
<1> QED BY <1>1, <1>2, FS_Subset DEF RankIn

\* A page is inside the list, up to the last one and no further.
LEMMA PageCount ==
  ASSUME NEW n \in Nat, NEW limit \in Nat \ {0}, NEW p \in Nat \ {0}
  PROVE  /\ TotalPages(n, limit) \in Nat \ {0}
         /\ p <= TotalPages(n, limit) /\ n > 0 <=> (p - 1) * limit < n
         /\ p < TotalPages(n, limit) => (p - 1) * limit + limit < n
         /\ p = TotalPages(n, limit) => n <= (p - 1) * limit + limit
<1> DEFINE pages == (n + limit - 1) \div limit
           before == (p - 1) * limit
<1>1. n + limit - 1 \in Nat /\ before \in Nat
  <2>1. p - 1 \in Nat
    OBVIOUS
  <2> QED BY <2>1, Products
<1>2. pages \in Nat /\ pages * limit <= n + limit - 1 /\ n + limit - 1 < pages * limit + limit
  BY <1>1, Division
<1>3. pages * limit \in Nat
  BY <1>2, Products
<1>4. p * limit = before + limit
  OBVIOUS
<1> HIDE DEF pages, before
<1>5. /\ p <= pages => before + limit <= pages * limit
      /\ p < pages => before + limit + limit <= pages * limit
      /\ pages < p => pages * limit + limit <= before + limit
      /\ pages = p => pages * limit = before + limit
  BY <1>2, <1>4, Products
<1>6. n > 0 => pages > 0
  BY <1>1, <1>2, <1>3
<1>7. n = 0 => pages = 0
  <2> SUFFICES ASSUME n = 0, pages > 0 PROVE FALSE
    BY <1>2
  <2>1. 1 * limit <= pages * limit
    BY <1>2, Products
  <2> QED BY <1>2, <1>3, <2>1
<1>8. TotalPages(n, limit) = IF pages < 1 THEN 1 ELSE pages
  BY DEF TotalPages, pages
<1>9. p = 1 => before = 0
  BY DEF before
<1> QED BY <1>1, <1>2, <1>3, <1>5, <1>6, <1>7, <1>8, <1>9 DEF before

\* A page is part of the list, wherever the offset wrapped round to.
LEMMA SliceInside ==
  ASSUME NEW q \in Asks, NEW s \in Seq(Ids)
  PROVE  Slice(s, q) \in Seq(Ids) /\ Range(Slice(s, q)) \subseteq Range(s)
<1>1. PICK skip \in Nat : skip = Skip(q)
  BY SkipFacts
<1>2. q.limit \in Nat \ {0}
  BY AskTypes
<1>3. PICK t \in Seq(Ids) :
        /\ t = Slice(s, q)
        /\ Len(t) = IF Len(s) <= skip THEN 0
                    ELSE IF skip + q.limit < Len(s) THEN q.limit ELSE Len(s) - skip
        /\ \A k \in 1 .. Len(t) : t[k] = s[skip + k]
  BY <1>1, SliceRows
<1>4. s \in Seq(Ids) /\ t \in Seq(Ids)
  BY <1>3
<1>5. Range(t) = {t[k] : k \in 1 .. Len(t)}
  BY <1>4, RangeFacts
<1>6. Range(s) = {s[m] : m \in 1 .. Len(s)}
  BY <1>4, RangeFacts
<1>7. \A k \in 1 .. Len(t) : skip + k \in 1 .. Len(s) /\ t[k] = s[skip + k]
  BY <1>2, <1>3, <1>4
<1>8. Range(t) \subseteq Range(s)
  BY <1>5, <1>6, <1>7
<1>9. t = Slice(s, q)
  BY <1>3
<1> QED BY <1>4, <1>8, <1>9

LEMMA PageLength ==
  ASSUME NEW q \in Asks, NEW s \in Seq(Ids), InRange(q)
  PROVE  LET skip == (q.page - 1) * q.limit
         IN Len(Slice(s, q)) = IF Len(s) <= skip THEN 0
                               ELSE IF skip + q.limit < Len(s) THEN q.limit ELSE Len(s) - skip
<1> DEFINE skip == (q.page - 1) * q.limit
<1>1. skip = Skip(q)
  BY SkipFacts
<1> HIDE DEF skip
<1>3. Len(Slice(s, q)) = IF Len(s) <= skip THEN 0
                         ELSE IF skip + q.limit < Len(s) THEN q.limit ELSE Len(s) - skip
  BY <1>1, SliceRows
<1> QED BY <1>3 DEF skip

-----------------------------------------------------------------------------
(* What the invariant says of answers.                                     *)

LEMMA ListedFacts ==
  ASSUME IInv, NEW r \in Requests, Listed(r)
  PROVE  /\ query[r] \in Asks /\ query[r].status \in Statuses \cup {""}
         /\ Ordered(basis[r], query[r]) /\ basis[r] \in Seq(Ids)
         /\ page[r] = Slice(basis[r], query[r])
         /\ Keyed
         /\ Distinct(r) = DistinctIn(basis[r], query[r])
         /\ \A id : Rank(id, r) = RankIn(id, basis[r], query[r])
<1>1. pc[r] # "idle"
  BY DEF IInv, AskFits
<1>2. /\ query[r] \in Asks /\ query[r].status \in Statuses \cup {""}
      /\ Ordered(basis[r], query[r]) /\ page[r] = Slice(basis[r], query[r])
  BY <1>1 DEF IInv, AskFits, PageFits
<1>3. basis[r] \in Seq(Ids)
  BY <1>2 DEF Ordered
<1> QED BY <1>2, <1>3, KeyTypes DEF IInv, Distinct, DistinctIn, Rank, RankIn

LEMMA PagesAreExact == IInv => PageExact
<1> SUFFICES ASSUME IInv, NEW r \in Requests, Listed(r), Distinct(r), InRange(query[r])
             PROVE  Range(page[r]) = {id \in Range(basis[r]) :
                                        Rank(id, r) \div query[r].limit = query[r].page - 1}
  BY DEF PageExact
<1> DEFINE q == query[r]
           s == basis[r]
<1>1. q \in Asks /\ Ordered(s, q) /\ page[r] = Slice(s, q) /\ Keyed /\ DistinctIn(s, q)
  BY ListedFacts
<1>2. Range(page[r]) \subseteq Range(s)
  BY <1>1, PageRows
<1>3. q.limit \in Nat \ {0} /\ q.page - 1 \in Nat
  BY <1>1, AskTypes
<1>4. ASSUME NEW id \in Range(s)
      PROVE  id \in Range(page[r]) <=> Rank(id, r) \div q.limit = q.page - 1
  <2>1. Rank(id, r) = RankIn(id, s, q)
    BY ListedFacts
  <2>2. /\ RankIn(id, s, q) \in Nat
        /\ id \in Range(page[r]) <=>
             /\ (q.page - 1) * q.limit <= RankIn(id, s, q)
             /\ RankIn(id, s, q) < (q.page - 1) * q.limit + q.limit
    BY <1>1, PageRows
  <2> HIDE DEF q, s
  <2>3. Rank(id, r) \div q.limit = q.page - 1 <=>
          /\ (q.page - 1) * q.limit <= Rank(id, r)
          /\ Rank(id, r) < (q.page - 1) * q.limit + q.limit
    BY <1>3, <2>1, <2>2, Quotient
  <2> QED BY <2>1, <2>2, <2>3
<1> QED BY <1>2, <1>4

LEMMA TotalsAreTrue == IInv => TotalsAgree
<1> SUFFICES ASSUME IInv, NEW r \in Requests, Listed(r), drift[r] # "between",
                    InRange(query[r])
             PROVE  LET q == query[r]  pages == TotalPages(total[r], q.limit)
                    IN /\ page[r] # << >> <=> total[r] > 0 /\ q.page <= pages
                       /\ q.page < pages => Len(page[r]) = q.limit
                       /\ q.page = pages => Len(page[r]) = total[r] - (pages - 1) * q.limit
  BY DEF TotalsAgree
<1> DEFINE q == query[r]
           n == total[r]
           pages == TotalPages(n, q.limit)
           skip == (q.page - 1) * q.limit
<1>1. /\ q \in Asks /\ page[r] = Slice(basis[r], q) /\ basis[r] \in Seq(Ids)
      /\ n = Len(basis[r])
  BY ListedFacts DEF IInv, PageFits
<1>2. q.limit \in Nat \ {0} /\ q.page \in Nat \ {0} /\ skip \in Nat /\ n \in Nat
  BY <1>1, AskTypes
<1>3. Len(page[r]) = IF n <= skip THEN 0 ELSE IF skip + q.limit < n THEN q.limit ELSE n - skip
  BY <1>1, PageLength
<1>4. /\ pages \in Nat \ {0}
      /\ q.page <= pages /\ n > 0 <=> skip < n
      /\ q.page < pages => skip + q.limit < n
      /\ q.page = pages => n <= skip + q.limit
  BY <1>2, PageCount
<1>5. page[r] \in Seq(Ids)
  BY <1>1, SliceRows
<1>6. page[r] # << >> <=> Len(page[r]) > 0
  BY <1>5
<1>7. q.page = pages => (pages - 1) * q.limit = skip
  OBVIOUS
<1>8. n = 0 /\ q.page = pages => skip = 0
  <2>1. n = 0 => pages = 1
    <3>1. (0 + q.limit - 1) \div q.limit < 1
      <4>1. q.limit - 1 \in Nat /\ 0 + q.limit - 1 = q.limit - 1
        BY <1>2
      <4>2. (q.limit - 1) \div q.limit = 0 <=> 0 * q.limit <= q.limit - 1 /\ q.limit - 1 < 0 * q.limit + q.limit
        BY <1>2, <4>1, Quotient
      <4> QED BY <1>2, <4>1, <4>2
    <3> QED BY <3>1 DEF TotalPages
  <2> QED BY <1>2, <2>1
<1> HIDE DEF q, n, pages, skip
<1>9. page[r] # << >> <=> n > 0 /\ q.page <= pages
  BY <1>2, <1>3, <1>4, <1>6
<1>10. q.page < pages => Len(page[r]) = q.limit
  BY <1>2, <1>3, <1>4
<1>11. q.page = pages => Len(page[r]) = n - (pages - 1) * q.limit
  BY <1>2, <1>3, <1>4, <1>7, <1>8
<1> QED BY <1>9, <1>10, <1>11 DEF q, n, pages

LEMMA DayRange ==
  ASSUME NEW d \in 0 .. MaxDay, NEW a \in Int
  PROVE  (d >= a <=> d \in a .. MaxDay) /\ (d <= a <=> d \in 0 .. a)
BY ListAssumption

LEMMA NoEntryFacts == NoEntry.action = "" /\ "" \notin AuditActions
BY DEF NoEntry, AuditActions

\* The WHERE clauses are what the query asks for.
LEMMA AskedIsMatched ==
  ASSUME TypeOK, NEW q \in Asks, q.status \in Statuses \cup {""}, NEW id \in Ids
  PROVE  Asked(id, q) <=> Matches(id, q)
<1>1. day[id] \in 0 .. MaxDay /\ MaxDay \in Nat
  BY ListAssumption DEF TypeOK
<1>2. q.from \in Int \cup {NoDate} /\ q.to \in Int \cup {NoDate} /\ NoDate \notin Int
  BY AskTypes, ListAssumption
<1>3. InDates(id, q) <=> /\ q.from # NoDate => day[id] \in q.from .. MaxDay
                         /\ q.to # NoDate => day[id] \in 0 .. q.to
  <2>1. ASSUME q.from # NoDate PROVE day[id] >= q.from <=> day[id] \in q.from .. MaxDay
    <3>1. q.from \in Int
      BY <1>2, <2>1
    <3> QED BY <1>1, <3>1, DayRange
  <2>2. ASSUME q.to # NoDate PROVE day[id] <= q.to <=> day[id] \in 0 .. q.to
    <3>1. q.to \in Int
      BY <1>2, <2>2
    <3> QED BY <1>1, <3>1, DayRange
  <2> QED BY <2>1, <2>2 DEF InDates
<1>4. rows[id].status \in Statuses \cup {"NONE"} /\ "NONE" \notin Statuses
  BY DEF TypeOK, Row, Statuses, Decisions
<1>5. RowMatches(id, q) <=>
        /\ rows[id].status \in (IF q.status = "" THEN Statuses ELSE {q.status})
        /\ ~rows[id].deleted
        /\ InDates(id, q)
  BY <1>4 DEF RowMatches, Visible, Exists
<1>6. entry[id] \in Entry \/ entry[id] = NoEntry
  BY DEF TypeOK
<1>7. EntryMatches(id, q) <=>
        /\ entry[id].entity \in (IF q.entity = "" THEN Entities ELSE {q.entity})
        /\ entry[id].action \in (IF q.action = "" THEN AuditActions ELSE {q.action})
        /\ InDates(id, q)
  <2>1. CASE entry[id] \in Entry
    <3>1. entry[id].entity \in Entities /\ entry[id].action \in AuditActions
      BY <2>1 DEF Entry
    <3>2. entry[id] # NoEntry
      BY <3>1, NoEntryFacts
    <3> QED BY <3>1, <3>2 DEF EntryMatches
  <2>2. CASE entry[id] = NoEntry
    <3>1. entry[id].action = "" /\ "" \notin AuditActions
      BY <2>2, NoEntryFacts
    <3> QED BY <2>2, <3>1 DEF EntryMatches
  <2> QED BY <1>6, <2>1, <2>2
<1> QED BY <1>3, <1>5, <1>7 DEF Asked, Matches

LEMMA AnswersAreAsked == IInv => RowsAsked
<1> SUFFICES ASSUME IInv, NEW r \in Requests, Listed(r)
             PROVE  /\ drift[r] = "none" => Range(basis[r]) = {id \in Ids : Asked(id, query[r])}
                    /\ query[r].status \in Decisions \/ list = "audit_logs" =>
                         \A id \in Range(page[r]) : Asked(id, query[r])
  BY DEF RowsAsked
<1>1. /\ query[r] \in Asks /\ query[r].status \in Statuses \cup {""} /\ TypeOK
      /\ basis[r] \in Seq(Ids) /\ page[r] = Slice(basis[r], query[r])
  BY ListedFacts DEF IInv
<1>2. \A id \in Ids : Asked(id, query[r]) <=> Matches(id, query[r])
  BY <1>1, AskedIsMatched
<1>3. drift[r] = "none" => Range(basis[r]) = Matching(query[r])
  BY DEF IInv, PageFits
<1>4. Range(page[r]) \subseteq Range(basis[r]) /\ Range(basis[r]) \subseteq Ids
  BY <1>1, SliceInside, RangeFacts
<1>5. query[r].status \in Decisions \/ list = "audit_logs" =>
        \A id \in Range(basis[r]) : Matches(id, query[r])
  BY DEF IInv, PageFits
<1> QED BY <1>2, <1>3, <1>4, <1>5 DEF Matching

LEMMA WalksAreWhole == IInv => WalkWhole
<1> SUFFICES ASSUME IInv, NEW r \in Requests, Listed(r), walk[r].on, AtTheEnd(r), Distinct(r)
             PROVE  LET w == walk[r]
                    IN /\ w.since \subseteq {"insert"} => w.first \subseteq w.shown
                       /\ w.since = {} => ~w.repeated
                       /\ list = "audit_logs" => "change" \notin w.since
  BY DEF WalkWhole
<1> DEFINE q == query[r]
           s == basis[r]
           w == walk[r]
           skip == (q.page - 1) * q.limit
<1>1. /\ q \in Asks /\ Ordered(s, q) /\ s \in Seq(Ids) /\ page[r] = Slice(s, q)
      /\ Keyed /\ DistinctIn(s, q)
      /\ \A id : Rank(id, r) = RankIn(id, s, q)
  BY ListedFacts
<1>2. /\ InRange(q) /\ Turned(r) = q.page
      /\ list = "audit_logs" => "change" \notin w.since
      /\ w.since = {} => ~w.repeated
      /\ w.since \subseteq {"insert"} =>
           \A id \in w.first \ w.shown : id \in Range(s) /\ Rank(id, r) >= q.page * q.limit
  BY DEF IInv, WalkFits, Turned
<1>3. q.limit \in Nat \ {0} /\ q.page \in Nat \ {0} /\ skip \in Nat /\ Len(s) \in Nat
  BY <1>1, AskTypes
<1>4. q.page * q.limit = skip + q.limit
  BY <1>3, NextPage
<1>5. Len(page[r]) = IF Len(s) <= skip THEN 0
                     ELSE IF skip + q.limit < Len(s) THEN q.limit ELSE Len(s) - skip
  BY <1>1, <1>2, PageLength
<1>6. drift[r] # "between" /\ q.page = TotalPages(total[r], q.limit) => Len(s) <= skip + q.limit
  <2>1. drift[r] # "between" => total[r] = Len(s)
    BY DEF IInv, PageFits
  <2> HIDE DEF q, s
  <2> QED BY <1>3, <2>1, PageCount
<1>7. Len(s) <= skip + q.limit
  <2> HIDE DEF s, skip
  <2> QED BY <1>3, <1>5, <1>6 DEF AtTheEnd
<1>8. \A id \in Range(s) : Rank(id, r) \in Nat /\ Rank(id, r) < skip + q.limit
  <2>1. \A id \in Range(s) : RankIn(id, s, q) \in Nat /\ RankIn(id, s, q) < Len(s)
    BY <1>1, <1>2, PageRows
  <2> HIDE DEF q, s, skip
  <2> QED BY <1>1, <1>3, <1>7, <2>1
<1>9. w.since \subseteq {"insert"} => w.first \subseteq w.shown
  <2> SUFFICES ASSUME w.since \subseteq {"insert"}, NEW id \in w.first \ w.shown PROVE FALSE
    OBVIOUS
  <2>1. id \in Range(s) /\ Rank(id, r) >= q.page * q.limit
    BY <1>2
  <2> HIDE DEF q, s, skip
  <2> QED BY <1>3, <1>4, <1>8, <2>1
<1> QED BY <1>2, <1>9

-----------------------------------------------------------------------------
(* Who does not step.                                                      *)

\* Two queries that differ in their page at most.
SameAsk(p, q) ==
  /\ p.limit = q.limit /\ p.status = q.status /\ p.entity = q.entity /\ p.action = q.action
  /\ p.from = q.from /\ p.to = q.to /\ p.sortBy = q.sortBy /\ p.asc = q.asc

listing == <<list, rows, entry, day, amount>>

LEMMA SameView ==
  ASSUME UNCHANGED listing, NEW r \in Requests,
         basis'[r] = basis[r], SameAsk(query'[r], query[r])
  PROVE  /\ \A id : Present(id)' <=> Present(id)
         /\ \A id : Final(id)' <=> Final(id)
         /\ \A id : Matches(id, query[r])' <=> Matches(id, query[r])
         /\ Matching(query[r])' = Matching(query[r])
         /\ Ordered(basis[r], query[r])' <=> Ordered(basis[r], query[r])
         /\ Distinct(r)' <=> Distinct(r)
         /\ \A id : Rank(id, r)' = Rank(id, r)
<1>1. \A id : (Present(id)' <=> Present(id)) /\ (Final(id)' <=> Final(id))
  BY DEF listing, Present, Final, Exists, Claimable, Visible
<1>2. \A id : Matches(id, query[r])' <=> Matches(id, query[r])
  BY DEF listing, Matches, RowMatches, EntryMatches, InDates, Visible, Exists, SameAsk
<1>3. Matching(query[r])' = Matching(query[r])
  BY <1>2 DEF Matching
<1>4. \A a, b : Before(a, b, query[r])' <=> Before(a, b, query[r])
  BY DEF listing, Before, SortKey, SameAsk
<1>5. Ordered(basis[r], query[r])' <=> Ordered(basis[r], query[r])
  BY <1>4 DEF Ordered
<1>6. Distinct(r)' <=> Distinct(r)
  BY DEF Distinct, SortKey, listing, SameAsk
<1>7. \A id : Rank(id, r)' = Rank(id, r)
  BY <1>4 DEF Rank
<1> QED BY <1>1, <1>2, <1>3, <1>5, <1>6, <1>7

LEMMA WalkStays ==
  ASSUME IInv, UNCHANGED listing, NEW r \in Requests,
         basis'[r] = basis[r], SameAsk(query'[r], query[r]), walk'[r] = walk[r],
         pc'[r] # "idle", Turned(r)' = Turned(r),
         walk[r].on => InRange(query[r])'
  PROVE  WalkFits(r)'
<1>1. CASE walk[r].on
  <2>1. WalkFits(r)
    BY DEF IInv
  <2>2. query'[r].limit = query[r].limit
    BY DEF SameAsk
  <2>3. list' = list
    BY DEF listing
  <2> QED BY <1>1, <2>1, <2>2, <2>3, SameView DEF WalkFits
<1>2. CASE ~walk[r].on
  BY <1>2 DEF WalkFits
<1> QED BY <1>1, <1>2

RequestFits(r) == AskFits(r) /\ CountFits(r) /\ PageFits(r) /\ WalkFits(r)

LEMMA OthersKeepFits ==
  ASSUME IInv, UNCHANGED listing, NEW r \in Requests,
         pc'[r] = pc[r], query'[r] = query[r], total'[r] = total[r], page'[r] = page[r],
         basis'[r] = basis[r], walk'[r] = walk[r], drift'[r] = drift[r], reply'[r] = reply[r]
  PROVE  RequestFits(r)'
<1>1. SameAsk(query'[r], query[r])
  BY DEF SameAsk
<1>2. Listed(r)' <=> Listed(r)
  BY DEF Listed
<1>3. Turned(r)' = Turned(r)
  BY <1>2 DEF Turned
<1>4. AskFits(r) /\ CountFits(r) /\ PageFits(r) /\ WalkFits(r)
  BY DEF IInv
<1>5. AskFits(r)'
  BY <1>1, <1>2, <1>4, SameView DEF AskFits
<1>6. CountFits(r)'
  BY <1>1, <1>4, SameView DEF CountFits
<1>7. Slice(basis[r], query[r])' = Slice(basis[r], query[r])
  BY DEF Slice, Offset
<1>8. PageFits(r)'
  BY <1>1, <1>2, <1>4, <1>7, SameView DEF PageFits, listing
<1>9. WalkFits(r)'
  <2>1. CASE pc[r] = "idle"
    BY <1>4, <2>1 DEF AskFits, WalkFits
  <2>2. CASE pc[r] # "idle"
    BY <1>1, <1>3, <1>4, <2>2, WalkStays DEF WalkFits, InRange
  <2> QED BY <2>1, <2>2
<1> QED BY <1>5, <1>6, <1>8, <1>9 DEF RequestFits

\* What a writer leaves alone: the keys of all rows, an insert what is in a row,
\* and everybody the rows that are decided or deleted and the audit log.
Spared(kind) ==
  /\ \A id \in Ids : Present(id) =>
       Present(id)' /\ day'[id] = day[id] /\ amount'[id] = amount[id]
  /\ \A id \in Ids : Final(id) => Final(id)' /\ rows'[id] = rows[id] /\ entry'[id] = entry[id]
  /\ kind = "insert" =>
       \A id \in Ids : Present(id) => rows'[id] = rows[id] /\ entry'[id] = entry[id]
  /\ kind = "change" => list = "disbursements"

LEMMA WriteFacts ==
  ASSUME TypeOK, NEW kind \in {"insert", "change"}, Write(kind), NEW r \in Requests
  PROVE  /\ list' = list /\ audit' = audit /\ today' = today /\ writes' = writes + 1
         /\ writes' \in 0 .. MaxWrites
         /\ pc' = pc /\ query' = query /\ total' = total /\ page' = page
         /\ basis' = basis /\ reply' = reply
         /\ pc[r] = "find" /\ drift[r] = "none" => drift'[r] = "between"
         /\ pc[r] = "done" /\ drift[r] = "none" => drift'[r] = "after"
         /\ drift[r] # "none" => drift'[r] = drift[r]
         /\ drift'[r] \in {"none", "between", "after"}
         /\ walk'[r] = IF walk[r].on
                         THEN [walk[r] EXCEPT !.since = walk[r].since \cup {kind}] ELSE walk[r]
         /\ walk'[r] \in Walk
<1>1. /\ list' = list /\ audit' = audit /\ today' = today /\ writes' = writes + 1
      /\ pc' = pc /\ query' = query /\ total' = total /\ page' = page
      /\ basis' = basis /\ reply' = reply /\ writes < MaxWrites
  BY DEF Write
<1>2. writes' \in 0 .. MaxWrites
  BY <1>1, ListAssumption DEF TypeOK
<1>3. drift'[r] = CASE drift[r] = "none" /\ pc[r] = "find" -> "between"
                    [] drift[r] = "none" /\ pc[r] = "done" -> "after"
                    [] OTHER -> drift[r]
  BY DEF Write
<1>4. drift[r] \in {"none", "between", "after"} /\ walk[r] \in Walk
  BY DEF TypeOK
<1>5. /\ pc[r] = "find" /\ drift[r] = "none" => drift'[r] = "between"
      /\ pc[r] = "done" /\ drift[r] = "none" => drift'[r] = "after"
      /\ drift[r] # "none" => drift'[r] = drift[r]
      /\ drift'[r] \in {"none", "between", "after"}
  BY <1>3, <1>4
<1>6. walk'[r] = IF walk[r].on
                   THEN [walk[r] EXCEPT !.since = walk[r].since \cup {kind}] ELSE walk[r]
  BY DEF Write
<1>7. walk'[r] \in Walk
  BY <1>4, <1>6 DEF Walk
<1> QED BY <1>1, <1>2, <1>5, <1>6, <1>7

LEMMA WriteKeepsFits ==
  ASSUME IInv, NEW kind \in {"insert", "change"}, Write(kind), Spared(kind), NEW r \in Requests
  PROVE  RequestFits(r)'
<1>1. /\ list' = list /\ pc'[r] = pc[r] /\ query'[r] = query[r] /\ total'[r] = total[r]
      /\ page'[r] = page[r] /\ basis'[r] = basis[r] /\ reply'[r] = reply[r]
      /\ pc[r] = "find" /\ drift[r] = "none" => drift'[r] = "between"
      /\ pc[r] = "done" /\ drift[r] = "none" => drift'[r] = "after"
      /\ drift[r] # "none" => drift'[r] = drift[r]
      /\ walk'[r] = IF walk[r].on
                      THEN [walk[r] EXCEPT !.since = walk[r].since \cup {kind}] ELSE walk[r]
      /\ walk[r] \in Walk /\ basis[r] \in Seq(Ids)
  BY WriteFacts DEF IInv, TypeOK
<1>2. AskFits(r) /\ CountFits(r) /\ PageFits(r) /\ WalkFits(r)
  BY DEF IInv
<1>3. \A id \in Range(basis[r]) : id \in Ids /\ Present(id)
  BY <1>1, <1>2, RangeFacts DEF AskFits
<1>4. \A id \in Range(basis[r]) : /\ Present(id)' /\ day'[id] = day[id] /\ amount'[id] = amount[id]
                                  /\ SortKey(id, query[r])' = SortKey(id, query[r])
  <2>1. \A id \in Range(basis[r]) : Present(id)' /\ day'[id] = day[id] /\ amount'[id] = amount[id]
    BY <1>3 DEF Spared
  <2> QED BY <1>1, <2>1 DEF SortKey
<1>5. \A a, b \in Range(basis[r]) : Before(a, b, query[r])' <=> Before(a, b, query[r])
  BY <1>1, <1>4 DEF Before, SortKey
<1>6. Listed(r)' <=> Listed(r)
  BY <1>1 DEF Listed
<1>7. AskFits(r)'
  <2>1. Ordered(basis[r], query[r]) => Ordered(basis[r], query[r])'
    <3> SUFFICES ASSUME Ordered(basis[r], query[r]) PROVE Ordered(basis[r], query[r])'
      OBVIOUS
    <3>1. \A m \in DOMAIN basis[r] : basis[r][m] \in Range(basis[r])
      BY DEF Range
    <3> QED BY <1>1, <1>5, <3>1 DEF Ordered
  <2>2. ~walk[r].on => ~walk'[r].on
    BY <1>1
  <2> QED BY <1>1, <1>2, <1>4, <1>6, <2>1, <2>2 DEF AskFits
<1>8. CountFits(r)'
  BY <1>1, <1>2 DEF CountFits
<1>9. PageFits(r)'
  <2> SUFFICES ASSUME Listed(r) PROVE PageFits(r)'
    BY <1>6 DEF PageFits
  <2>1. pc[r] = "done"
    BY <1>2 DEF AskFits
  <2>2. drift'[r] # "none" /\ (drift'[r] # "between" => drift[r] # "between")
    BY <1>1, <2>1
  <2>3. Slice(basis[r], query[r])' = Slice(basis[r], query[r])
    BY <1>1 DEF Slice, Offset
  <2>4. ASSUME query[r].status \in Decisions \/ list = "audit_logs", NEW id \in Range(basis[r])
        PROVE  Final(id)' /\ Matches(id, query[r])'
    <3>1. Final(id) /\ Matches(id, query[r])
      BY <1>2, <2>4 DEF PageFits
    <3>2. Final(id)' /\ rows'[id] = rows[id] /\ entry'[id] = entry[id]
      BY <1>3, <3>1 DEF Spared
    <3> QED BY <1>1, <1>4, <3>1, <3>2
            DEF Matches, RowMatches, EntryMatches, InDates, Visible, Exists
  <2>5. \A id \in Range(basis[r]) :
          (query[r].status \in Decisions \/ list = "audit_logs") =>
            Final(id)' /\ Matches(id, query[r])'
    BY <2>4
  <2> QED BY <1>1, <1>2, <2>2, <2>3, <2>5 DEF PageFits
<1>10. WalkFits(r)'
  <2> SUFFICES ASSUME walk[r].on PROVE WalkFits(r)'
    BY <1>1 DEF WalkFits
  <2>1. /\ walk'[r].since = walk[r].since \cup {kind} /\ walk'[r].first = walk[r].first
        /\ walk'[r].shown = walk[r].shown
    BY <1>1 DEF Walk
  <2>2. Turned(r)' = Turned(r) /\ (InRange(query[r])' <=> InRange(query[r]))
    BY <1>1, <1>6 DEF Turned, InRange
  <2>3. walk'[r].since # {}
    BY <2>1
  <2>4. Distinct(r)' <=> Distinct(r)
    BY <1>1, <1>4 DEF Distinct
  <2>5. \A id \in Range(basis[r]) : Rank(id, r)' = Rank(id, r)
    <3> SUFFICES ASSUME NEW id \in Range(basis[r]) PROVE Rank(id, r)' = Rank(id, r)
      OBVIOUS
    <3>1. {other \in Range(basis'[r]) : Before(other, id, query[r])'} =
          {other \in Range(basis[r]) : Before(other, id, query[r])}
      BY <1>1, <1>5
    <3> QED BY <3>1 DEF Rank
  <2>6. list' = "audit_logs" => "change" \notin walk'[r].since
    BY <1>1, <1>2, <2>1 DEF WalkFits, Spared
  <2>7. walk'[r].since \subseteq {"insert"} => kind = "insert" /\ walk[r].since \subseteq {"insert"}
    BY <2>1
  <2>8. walk'[r].since \subseteq {"insert"} => \A id \in Range(basis[r]) : Matches(id, query[r])'
    <3> SUFFICES ASSUME walk'[r].since \subseteq {"insert"}, NEW id \in Range(basis[r])
                 PROVE  Matches(id, query[r])'
      OBVIOUS
    <3>1. Matches(id, query[r])
      BY <1>2, <2>7 DEF WalkFits
    <3>2. rows'[id] = rows[id] /\ entry'[id] = entry[id] /\ day'[id] = day[id]
      BY <1>3, <1>4, <2>7 DEF Spared
    <3> QED BY <1>1, <3>1, <3>2
            DEF Matches, RowMatches, EntryMatches, InDates, Visible, Exists
  <2>9. walk'[r].since \subseteq {"insert"} /\ Distinct(r)' =>
          \A id \in walk'[r].first \ walk'[r].shown :
            id \in Range(basis[r]) /\ Rank(id, r)' >= Turned(r) * query[r].limit
    BY <1>2, <2>1, <2>4, <2>5, <2>7 DEF WalkFits
  <2>10. pc'[r] # "idle" /\ Turned(r)' >= 1 /\ InRange(query[r])'
    BY <1>1, <1>2, <2>2 DEF WalkFits
  <2> QED BY <1>1, <2>2, <2>3, <2>6, <2>8, <2>9, <2>10 DEF WalkFits
<1> QED BY <1>7, <1>8, <1>9, <1>10 DEF RequestFits

-----------------------------------------------------------------------------
(* The writers.                                                            *)

LEMMA RowTypes ==
  /\ NoRow \in Row /\ PendingRow("") \in Row
  /\ \A row \in Row, status \in Decisions, user \in Users : Decided(row, status, "", user) \in Row
  /\ \A row \in Row : Removed(row) \in Row
BY TableAssumption DEF NoRow, PendingRow, Row, Decided, Removed, Statuses, Decisions

\* The types of what every writer writes.
LEMMA WriteTypes ==
  ASSUME IInv, NEW kind \in {"insert", "change"}, Write(kind),
         rows' \in [Ids -> Row], entry' \in [Ids -> Entry \cup {NoEntry}],
         day' \in [Ids -> 0 .. MaxDay], amount' \in [Ids -> Amounts \cup {0}]
  PROVE  TypeOK'
<1>1. TypeOK
  BY DEF IInv
<1>2. /\ list' = list /\ audit' = audit /\ today' = today /\ pc' = pc /\ query' = query
      /\ total' = total /\ page' = page /\ basis' = basis /\ reply' = reply
      /\ writes' \in 0 .. MaxWrites
  <2>1. writes < MaxWrites /\ writes' = writes + 1 /\ writes \in 0 .. MaxWrites
    BY <1>1 DEF Write, TypeOK
  <2>2. writes' \in 0 .. MaxWrites
    BY <2>1, ListAssumption
  <2> QED BY <2>2 DEF Write
<1>3. drift' \in [Requests -> {"none", "between", "after"}]
  <2>1. \A r \in Requests : drift'[r] \in {"none", "between", "after"}
    BY <1>1, WriteFacts
  <2>2. drift' = [r \in Requests |-> drift'[r]]
    BY DEF Write
  <2> QED BY <2>1, <2>2
<1>4. walk' \in [Requests -> Walk]
  <2>1. \A r \in Requests : walk'[r] \in Walk
    BY <1>1, WriteFacts
  <2>2. walk' = [r \in Requests |-> walk'[r]]
    BY DEF Write
  <2> QED BY <2>1, <2>2
<1> QED BY <1>1, <1>2, <1>3, <1>4 DEF TypeOK

LEMMA WriteKeepsIInv ==
  ASSUME IInv, NEW kind \in {"insert", "change"}, Write(kind), Spared(kind), TypeOK',
         list = "audit_logs" => rows' = rows
  PROVE  IInv'
<1>1. \A r \in Requests : RequestFits(r)'
  BY WriteKeepsFits
<1>2. list' = list
  BY DEF Write
<1>3. list' = "audit_logs" => \A id \in Ids : ~Exists(id)'
  BY <1>2 DEF IInv, Exists
<1> QED BY <1>1, <1>3 DEF IInv, RequestFits

LEMMA StampFacts ==
  ASSUME TypeOK, NEW id \in Ids, Stamp(id)
  PROVE  /\ day' \in [Ids -> 0 .. MaxDay]
         /\ \A x \in Ids \ {id} : day'[x] = day[x]
<1>1. PICK d \in {today, today - 1} \cap Nat : day' = [day EXCEPT ![id] = d]
  BY DEF Stamp
<1>2. d \in 0 .. MaxDay
  BY <1>1, ListAssumption DEF TypeOK
<1> QED BY <1>1, <1>2 DEF TypeOK

LEMMA InsertRowKeepsIInv ==
  ASSUME IInv, NEW id \in Ids, InsertRow(id) PROVE IInv'
<1>1. /\ TypeOK /\ list = "disbursements" /\ list' = list /\ ~Exists(id) /\ Write("insert")
      /\ rows' = [rows EXCEPT ![id] = PendingRow("")] /\ entry' = entry /\ Stamp(id)
  BY DEF IInv, InsertRow, InsertDisbursement, Write
<1>2. PICK n \in Amounts : amount' = [amount EXCEPT ![id] = n]
  BY DEF InsertRow
<1>3. /\ day' \in [Ids -> 0 .. MaxDay]
      /\ \A x \in Ids \ {id} : day'[x] = day[x]
  BY <1>1, StampFacts
<1>4. rows' \in [Ids -> Row] /\ amount' \in [Ids -> Amounts \cup {0}]
  BY <1>1, <1>2, RowTypes DEF TypeOK
<1>5. \A x \in Ids \ {id} : rows'[x] = rows[x] /\ amount'[x] = amount[x]
  BY <1>1, <1>2 DEF TypeOK
<1>6. \A x \in Ids : Present(x) => x # id
  BY <1>1 DEF Present
<1>7. Spared("insert")
  <2> SUFFICES ASSUME NEW x \in Ids, Present(x)
               PROVE  /\ Present(x)' /\ day'[x] = day[x] /\ amount'[x] = amount[x]
                      /\ rows'[x] = rows[x] /\ entry'[x] = entry[x]
                      /\ Final(x) => Final(x)'
    BY DEF Spared, Final
  <2>1. x \in Ids \ {id}
    BY <1>6
  <2>2. /\ day'[x] = day[x] /\ amount'[x] = amount[x]
        /\ rows'[x] = rows[x] /\ entry'[x] = entry[x]
    BY <1>1, <1>3, <1>5, <2>1
  <2>3. Present(x)'
    BY <1>1, <2>2 DEF Present, Exists
  <2>4. Final(x) => Final(x)'
    BY <1>1, <2>2, <2>3 DEF Final, Claimable, Visible, Exists
  <2> QED BY <2>2, <2>3, <2>4
<1>8. TypeOK'
  BY <1>1, <1>3, <1>4, WriteTypes DEF TypeOK
<1> QED BY <1>1, <1>7, <1>8, WriteKeepsIInv

LEMMA InsertEntryKeepsIInv ==
  ASSUME IInv, NEW id \in Ids, InsertEntry(id) PROVE IInv'
<1>1. /\ TypeOK /\ list = "audit_logs" /\ list' = list /\ entry[id] = NoEntry /\ Write("insert")
      /\ rows' = rows /\ amount' = amount /\ Stamp(id)
  BY DEF IInv, InsertEntry, Write
<1>2. PICK e \in Entry : entry' = [entry EXCEPT ![id] = e]
  BY DEF InsertEntry
<1>3. /\ day' \in [Ids -> 0 .. MaxDay]
      /\ \A x \in Ids \ {id} : day'[x] = day[x]
  BY <1>1, StampFacts
<1>4. entry' \in [Ids -> Entry \cup {NoEntry}]
  BY <1>1, <1>2 DEF TypeOK
<1>5. \A x \in Ids \ {id} : entry'[x] = entry[x]
  BY <1>1, <1>2 DEF TypeOK
<1>6. \A x \in Ids : Present(x) => x # id
  BY <1>1 DEF Present
<1>7. Spared("insert")
  <2>1. \A x \in Ids : Present(x) =>
          Present(x)' /\ day'[x] = day[x] /\ amount'[x] = amount[x]
            /\ rows'[x] = rows[x] /\ entry'[x] = entry[x]
    <3> SUFFICES ASSUME NEW x \in Ids, Present(x)
                 PROVE  Present(x)' /\ day'[x] = day[x] /\ entry'[x] = entry[x]
      BY <1>1
    <3>1. x \in Ids \ {id}
      BY <1>6
    <3>2. day'[x] = day[x] /\ entry'[x] = entry[x]
      BY <1>3, <1>5, <3>1
    <3> QED BY <1>1, <3>2 DEF Present
  <2>2. \A x \in Ids : (Final(x) <=> Present(x)) /\ (Final(x)' <=> Present(x)')
    BY <1>1 DEF Final
  <2> QED BY <2>1, <2>2 DEF Spared
<1>8. TypeOK'
  BY <1>1, <1>3, <1>4, WriteTypes DEF TypeOK
<1> QED BY <1>1, <1>7, <1>8, WriteKeepsIInv

\* A decision and a deletion touch one claimable row.
LEMMA ClaimKeepsIInv ==
  ASSUME IInv, NEW id \in Ids, Claimable(id), Write("change"), NEW row \in Row,
         rows' = [rows EXCEPT ![id] = row], row.status # "NONE",
         UNCHANGED <<entry, day, amount>>
  PROVE  IInv'
<1>1. TypeOK /\ list' = list
  BY DEF IInv, Write
<1>2. list = "disbursements"
  <2>1. Exists(id)
    BY DEF Claimable, Visible
  <2>2. list \in Lists
    BY <1>1 DEF TypeOK
  <2> QED BY <2>1, <2>2 DEF IInv, Lists
<1>3. rows' \in [Ids -> Row]
  BY <1>1 DEF TypeOK
<1>4. \A x \in Ids \ {id} : rows'[x] = rows[x]
  BY <1>1 DEF TypeOK
<1>5. \A x \in Ids : Exists(x) => Exists(x)'
  BY <1>1, <1>4 DEF Exists, TypeOK
<1>6. \A x \in Ids : Present(x) => Present(x)' /\ day'[x] = day[x] /\ amount'[x] = amount[x]
  BY <1>1, <1>2, <1>5 DEF Present
<1>7. \A x \in Ids : Final(x) => x # id
  BY <1>2 DEF Final
<1>8. \A x \in Ids : Final(x) => Final(x)' /\ rows'[x] = rows[x] /\ entry'[x] = entry[x]
  BY <1>1, <1>4, <1>6, <1>7 DEF Final, Claimable, Visible, Exists
<1>9. Spared("change")
  BY <1>2, <1>6, <1>8 DEF Spared
<1>10. TypeOK'
  BY <1>1, <1>3, WriteTypes DEF TypeOK
<1> QED BY <1>2, <1>9, <1>10, WriteKeepsIInv

LEMMA DecideRowKeepsIInv ==
  ASSUME IInv, NEW id \in Ids, DecideRow(id) PROVE IInv'
<1>1. PICK status \in Decisions, user \in Users : SetStatus(id, status, "", user)
  BY DEF DecideRow
<1> DEFINE row == Decided(rows[id], status, "", user)
<1>2. row \in Row /\ row.status # "NONE"
  <2>1. rows[id] \in Row
    BY DEF IInv, TypeOK
  <2> QED BY <2>1, RowTypes DEF Decided, Decisions
<1>3. rows' = [rows EXCEPT ![id] = row]
  BY <1>1 DEF SetStatus
<1> HIDE DEF row
<1> QED BY <1>2, <1>3, ClaimKeepsIInv DEF DecideRow

LEMMA DeleteRowKeepsIInv ==
  ASSUME IInv, NEW id \in Ids, DeleteRow(id) PROVE IInv'
<1> DEFINE row == Removed(rows[id])
<1>1. row \in Row /\ row.status # "NONE"
  <2>1. rows[id] \in Row /\ rows[id].status # "NONE"
    BY DEF IInv, TypeOK, DeleteRow, Claimable, Visible, Exists
  <2> QED BY <2>1, RowTypes DEF Removed
<1>2. rows' = [rows EXCEPT ![id] = row]
  BY DEF DeleteRow, SetDeleted
<1> HIDE DEF row
<1> QED BY <1>1, <1>2, ClaimKeepsIInv DEF DeleteRow

-----------------------------------------------------------------------------
(* The requests.                                                           *)

Resting(r) ==
  /\ pc'[r] = pc[r] /\ query'[r] = query[r] /\ total'[r] = total[r] /\ page'[r] = page[r]
  /\ basis'[r] = basis[r] /\ walk'[r] = walk[r] /\ drift'[r] = drift[r] /\ reply'[r] = reply[r]

LEMMA StepKeepsIInv ==
  ASSUME IInv, TypeOK', UNCHANGED listing, NEW q \in Requests, RequestFits(q)',
         \A r \in Requests \ {q} : Resting(r)
  PROVE  IInv'
<1>1. ASSUME NEW r \in Requests \ {q} PROVE RequestFits(r)'
  BY OthersKeepFits DEF Resting
<1>2. list' = "audit_logs" => \A id \in Ids : ~Exists(id)'
  BY DEF IInv, Exists, listing
<1> QED BY <1>1, <1>2 DEF IInv, RequestFits

LEMMA NormalLimits ==
  ASSUME NEW n \in Int
  PROVE  NormalLimit(n) \in 1 .. MaxLimit
BY ListAssumption DEF NormalLimit

LEMMA NormalQueries ==
  ASSUME list \in Lists, NEW x \in Queries
  PROVE  Normalize(x) \in Asks
<1>1. /\ x.page \in -IntMax - 1 .. IntMax /\ x.limit \in Int
      /\ x.from \in Int \cup {NoDate} /\ x.to \in Int \cup {NoDate}
  BY ListAssumption
<1>2. NormalPage(x.page) \in 1 .. IntMax
  BY <1>1, ListAssumption DEF NormalPage
<1>3. NormalLimit(x.limit) \in 1 .. MaxLimit
  BY <1>1, NormalLimits
<1>4. NormalizeRows(x) \in Asks
  <2>1. /\ Upper(x.status) \in {Upper(p.status) : p \in Queries}
        /\ (IF x.sortBy = "amount" THEN "amount" ELSE "created_at") \in {"amount", "created_at"}
        /\ (x.sortOrder = "asc") \in BOOLEAN
    OBVIOUS
  <2> QED BY <1>1, <1>2, <1>3, <2>1 DEF NormalizeRows, Asks
<1>5. NormalizeEntries(x) \in Asks
  <2>1. x.entity \in {p.entity : p \in Queries} /\ x.action \in {p.action : p \in Queries}
    OBVIOUS
  <2> QED BY <1>1, <1>2, <1>3, <2>1 DEF NormalizeEntries, Asks
<1> QED BY <1>4, <1>5 DEF Normalize

LEMMA ReceiveKeepsIInv ==
  ASSUME IInv, NEW q \in Requests, Receive(q) PROVE IInv'
<1>1. PICK x \in Queries :
        /\ query' = [query EXCEPT ![q] = Normalize(x)]
        /\ IF Legal(Normalize(x)) THEN Goto(q, "count") ELSE Answer(q, "badRequest")
  BY DEF Receive
<1> DEFINE ask == Normalize(x)
<1>2. /\ pc[q] = "idle" /\ TypeOK /\ UNCHANGED listing /\ UNCHANGED <<audit, today, writes>>
      /\ UNCHANGED <<total, page, basis, walk, drift>>
  BY DEF Receive, IInv, written, listing
<1>3. ask \in Asks
  BY <1>2, NormalQueries DEF TypeOK
<1>4. AskFits(q)
  BY DEF IInv
<1>5. basis[q] = << >> /\ ~walk[q].on /\ query[q] = NoInput
  BY <1>2, <1>4 DEF AskFits
<1>6. ask.page \in 1 .. IntMax /\ ask.limit \in 1 .. MaxLimit
  BY <1>3 DEF Asks
<1> HIDE DEF ask
<1>7. \/ Legal(ask) /\ pc' = [pc EXCEPT ![q] = "count"] /\ reply' = reply
      \/ pc' = [pc EXCEPT ![q] = "done"] /\ reply' = [reply EXCEPT ![q] = "badRequest"]
  BY <1>1 DEF Goto, Answer, ask
<1>8. query' = [query EXCEPT ![q] = ask]
  BY <1>1 DEF ask
<1>9. \A r \in Requests \ {q} : Resting(r)
  BY <1>2, <1>7, <1>8 DEF Resting, TypeOK
<1>10. /\ query'[q] = ask /\ basis'[q] = << >> /\ ~walk'[q].on
       /\ pc'[q] \in {"count", "done"} /\ reply'[q] \in {reply[q], "badRequest"}
       /\ pc'[q] = "count" => Legal(ask)
  BY <1>2, <1>5, <1>7, <1>8 DEF TypeOK
<1>11. ~Listed(q)'
  <2>1. reply[q] # "ok"
    BY <1>2, <1>4 DEF AskFits, Listed
  <2> QED BY <1>10, <2>1 DEF Listed
<1>12. RequestFits(q)'
  <2>1. Ordered(basis[q], query[q])'
    BY <1>10 DEF Ordered
  <2>2. \A id \in Range(basis'[q]) : FALSE
    BY <1>10 DEF Range
  <2>3. Legal(ask) => ask.status \in Statuses \cup {""}
    BY DEF Legal
  <2>4. AskFits(q)'
    BY <1>3, <1>10, <1>11, <2>1, <2>2, <2>3 DEF AskFits
  <2> QED BY <1>10, <1>11, <2>4 DEF RequestFits, CountFits, PageFits, WalkFits
<1>13. TypeOK'
  BY <1>2, <1>3, <1>7, <1>8 DEF TypeOK, listing
<1> QED BY <1>2, <1>9, <1>12, <1>13, StepKeepsIInv

LEMMA CountKeepsIInv ==
  ASSUME IInv, NEW q \in Requests, Count(q) PROVE IInv'
<1>1. /\ pc[q] = "count" /\ TypeOK /\ UNCHANGED listing
      /\ UNCHANGED <<audit, today, writes, query, page, basis, walk, reply>>
      /\ total' = [total EXCEPT ![q] = Cardinality(Matching(query[q]))]
      /\ drift' = [drift EXCEPT ![q] = "none"]
      /\ pc' = [pc EXCEPT ![q] = "find"]
  BY DEF Count, Goto, IInv, written, listing
<1>2. TypeOK'
  <2>1. Cardinality(Matching(query[q])) \in 0 .. Cardinality(Ids)
    BY MatchesFinite
  <2> QED BY <1>1, <2>1 DEF TypeOK, listing
<1>3. \A r \in Requests \ {q} : Resting(r)
  BY <1>1 DEF Resting, TypeOK
<1>4. /\ pc'[q] = "find" /\ query'[q] = query[q] /\ basis'[q] = basis[q] /\ walk'[q] = walk[q]
      /\ total'[q] = Cardinality(Matching(query[q])) /\ drift'[q] = "none"
  BY <1>1 DEF TypeOK
<1>5. AskFits(q) /\ WalkFits(q)
  BY DEF IInv
<1>6. ~Listed(q) /\ ~Listed(q)'
  BY <1>1, <1>5 DEF AskFits, Listed
<1>7. SameAsk(query'[q], query[q]) /\ Turned(q)' = Turned(q)
  BY <1>4, <1>6 DEF SameAsk, Turned
<1>8. AskFits(q)'
  BY <1>1, <1>4, <1>5, <1>6, <1>7, SameView DEF AskFits
<1>9. CountFits(q)'
  BY <1>1, <1>4, <1>7, SameView DEF CountFits
<1>10. WalkFits(q)'
  BY <1>1, <1>4, <1>5, <1>7, WalkStays DEF WalkFits, InRange
<1> QED BY <1>1, <1>2, <1>3, <1>6, <1>8, <1>9, <1>10, StepKeepsIInv DEF RequestFits, PageFits

LEMMA StatementFailsKeepsIInv ==
  ASSUME IInv, NEW q \in Requests, StatementFails(q) PROVE IInv'
<1>1. /\ pc[q] \in {"count", "find"} /\ TypeOK /\ UNCHANGED listing
      /\ UNCHANGED <<audit, today, writes, query, total, page, basis, walk, drift>>
      /\ pc' = [pc EXCEPT ![q] = "done"]
      /\ reply' = [reply EXCEPT ![q] = "internal"]
  BY DEF StatementFails, Answer, IInv, written, listing, locals
<1>2. TypeOK'
  BY <1>1 DEF TypeOK, listing
<1>3. \A r \in Requests \ {q} : Resting(r)
  BY <1>1 DEF Resting, TypeOK
<1>4. /\ pc'[q] = "done" /\ query'[q] = query[q] /\ basis'[q] = basis[q] /\ walk'[q] = walk[q]
      /\ reply'[q] = "internal"
  BY <1>1 DEF TypeOK
<1>5. AskFits(q) /\ WalkFits(q)
  BY DEF IInv
<1>6. ~Listed(q) /\ ~Listed(q)'
  BY <1>1, <1>4, <1>5 DEF AskFits, Listed
<1>7. SameAsk(query'[q], query[q]) /\ Turned(q)' = Turned(q)
  BY <1>4, <1>6 DEF SameAsk, Turned
<1>8. AskFits(q)'
  BY <1>1, <1>4, <1>5, <1>6, <1>7, SameView DEF AskFits
<1>9. WalkFits(q)'
  BY <1>1, <1>4, <1>5, <1>7, WalkStays DEF WalkFits, InRange
<1> QED BY <1>1, <1>2, <1>3, <1>4, <1>6, <1>8, <1>9, StepKeepsIInv
        DEF RequestFits, CountFits, PageFits

LEMMA TurnPageKeepsIInv ==
  ASSUME IInv, NEW q \in Requests, TurnPage(q) PROVE IInv'
<1> DEFINE ask == query[q]
<1>1. /\ Listed(q) /\ walk[q].on /\ TypeOK /\ UNCHANGED listing
      /\ UNCHANGED <<audit, today, writes, total, page, basis, walk, drift>>
      /\ query' = [query EXCEPT ![q].page = ask.page + 1]
      /\ pc' = [pc EXCEPT ![q] = "count"]
      /\ reply' = [reply EXCEPT ![q] = "none"]
      /\ ask.page < TotalPages(total[q], ask.limit)
  BY DEF TurnPage, Listed, IInv, written, listing
<1>2. AskFits(q) /\ WalkFits(q)
  BY DEF IInv
<1>3. ask \in Asks /\ Ordered(basis[q], ask) /\ ask.status \in Statuses \cup {""}
  BY <1>1, ListedFacts
<1>4. query'[q] = [ask EXCEPT !.page = ask.page + 1]
  BY <1>1 DEF TypeOK
<1>5. ask.page \in Nat \ {0} /\ ask.limit \in Nat \ {0}
  BY <1>3, AskTypes
\* The next page begins inside the list, so its offset is an int.
<1>6. ask.page * ask.limit <= IntMax /\ ask.page + 1 \in 1 .. IntMax
  <2>1. total[q] \in 0 .. Cardinality(Ids) /\ Cardinality(Ids) \in Nat /\ Cardinality(Ids) <= IntMax
    BY <1>1, ListAssumption, MatchesFinite DEF TypeOK
  <2>2. (ask.page - 1) * ask.limit + ask.limit < total[q]
    BY <1>1, <1>5, <2>1, PageCount
  <2>3. ask.page * ask.limit = (ask.page - 1) * ask.limit + ask.limit
    BY <1>5, NextPage
  <2>4. ask.page <= ask.page * ask.limit /\ ask.page * ask.limit \in Nat
    BY <1>5
  <2> HIDE DEF ask
  <2>5. ask.page * ask.limit < total[q]
    BY <2>2, <2>3
  <2> QED BY <1>5, <2>1, <2>4, <2>5, ListAssumption
<1>7. query'[q] \in Asks /\ SameAsk(query'[q], ask) /\ query'[q].page = ask.page + 1
  <2> HIDE DEF ask
  <2> QED BY <1>3, <1>4, <1>6 DEF Asks, SameAsk
<1>8. /\ pc'[q] = "count" /\ basis'[q] = basis[q] /\ walk'[q] = walk[q] /\ reply'[q] = "none"
  BY <1>1 DEF TypeOK
<1>9. ~Listed(q)'
  BY <1>8 DEF Listed
<1>10. Turned(q)' = Turned(q)
  <2>1. Turned(q) = ask.page
    BY <1>1 DEF Turned
  <2>2. Turned(q)' = query'[q].page - 1
    BY <1>9 DEF Turned
  <2> HIDE DEF ask
  <2> QED BY <1>5, <1>7, <2>1, <2>2
<1>11. InRange(query[q])'
  <2>1. query'[q].page - 1 = ask.page /\ query'[q].limit = ask.limit
    <3> HIDE DEF ask
    <3> QED BY <1>5, <1>7 DEF SameAsk
  <2> QED BY <1>6, <2>1 DEF InRange
<1>12. TypeOK'
  <2>1. query' \in [Requests -> Asks \cup {NoInput}]
    <3>1. query' = [query EXCEPT ![q] = query'[q]]
      BY <1>1 DEF TypeOK
    <3> QED BY <1>1, <1>7, <3>1 DEF TypeOK
  <2> QED BY <1>1, <2>1 DEF TypeOK, listing
<1>13. \A r \in Requests \ {q} : Resting(r)
  BY <1>1 DEF Resting, TypeOK
<1>14. AskFits(q)'
  <2>1. query'[q].status \in Statuses \cup {""}
    BY <1>3, <1>7 DEF SameAsk
  <2>2. Ordered(basis[q], query[q])'
    BY <1>1, <1>3, <1>7, <1>8, SameView
  <2>3. \A id \in Range(basis'[q]) : Present(id)'
    BY <1>1, <1>2, <1>7, <1>8, SameView DEF AskFits
  <2> QED BY <1>7, <1>8, <1>9, <2>1, <2>2, <2>3 DEF AskFits
<1>15. WalkFits(q)'
  BY <1>1, <1>7, <1>8, <1>10, <1>11, WalkStays
<1> QED BY <1>1, <1>8, <1>9, <1>12, <1>13, <1>14, <1>15, StepKeepsIInv
        DEF RequestFits, CountFits, PageFits

\* What a page adds to a walk, s being the rows that match and p the page.
LEMMA WalkTypes ==
  ASSUME TypeOK, NEW r \in Requests, NEW ids \in SUBSET Ids, NEW shown \in SUBSET Ids
  PROVE  WalkOn(r, ids, shown) \in Walk
<1>1. walk[r] \in Walk
  BY DEF TypeOK
<1> QED BY <1>1 DEF WalkOn, Walk

LEMMA MatchedRows ==
  ASSUME NEW q, NEW id \in Matching(q)
  PROVE  /\ Present(id)
         /\ q.status \in Decisions \/ list = "audit_logs" => Final(id)
BY DEF Matching, Matches, RowMatches, EntryMatches, Present, Final, Visible, Claimable, Decisions

\* Rank by rank, a page shows what follows the pages before it.
LEMMA PageAdds ==
  ASSUME Keyed, NEW q \in Asks, NEW s, Ordered(s, q), InRange(q), DistinctIn(s, q),
         NEW id \in Range(s)
  PROVE  /\ RankIn(id, s, q) \in Nat
         /\ (q.page - 1) * q.limit \in Nat /\ q.limit \in Nat \ {0}
         /\ q.page * q.limit = (q.page - 1) * q.limit + q.limit
         /\ id \in Range(Slice(s, q)) <=>
              /\ (q.page - 1) * q.limit <= RankIn(id, s, q)
              /\ RankIn(id, s, q) < q.page * q.limit
<1>1. q.page \in Nat \ {0} /\ q.limit \in Nat \ {0} /\ (q.page - 1) * q.limit \in Nat
  BY AskTypes
<1>2. q.page * q.limit = (q.page - 1) * q.limit + q.limit
  BY <1>1, NextPage
<1>3. /\ RankIn(id, s, q) \in Nat
      /\ id \in Range(Slice(s, q)) <=>
           /\ (q.page - 1) * q.limit <= RankIn(id, s, q)
           /\ RankIn(id, s, q) < (q.page - 1) * q.limit + q.limit
  BY PageRows
<1> QED BY <1>1, <1>2, <1>3

LEMMA FindKeepsIInv ==
  ASSUME IInv, NEW q \in Requests, Find(q) PROVE IInv'
<1> DEFINE ask == query[q]
           w == walk[q]
<1>1. PICK s \in Orders(ask) :
        /\ page' = [page EXCEPT ![q] = Slice(s, ask)]
        /\ basis' = [basis EXCEPT ![q] = s]
        /\ walk' = [walk EXCEPT ![q] = WalkOn(q, Range(s), Range(Slice(s, ask)))]
  BY DEF Find
<1> DEFINE rowsShown == Range(Slice(s, ask))
<1>2. /\ pc[q] = "find" /\ TypeOK /\ Keyed /\ UNCHANGED listing
      /\ UNCHANGED <<audit, today, writes, query, total, drift>>
      /\ pc' = [pc EXCEPT ![q] = "done"]
      /\ reply' = [reply EXCEPT ![q] = "ok"]
  BY KeyTypes DEF Find, Answer, IInv, written, listing
<1>3. AskFits(q) /\ CountFits(q) /\ WalkFits(q)
  BY DEF IInv
<1>4. ask \in Asks /\ ask.status \in Statuses \cup {""} /\ ~Listed(q)
      /\ Ordered(basis[q], ask) /\ basis[q] \in Seq(Ids)
  BY <1>2, <1>3 DEF AskFits, Ordered
<1>5. /\ Ordered(s, ask) /\ s \in Seq(Ids)
      /\ Range(s) = Matching(ask) /\ Len(s) = Cardinality(Matching(ask))
  BY <1>1, OrderRows DEF Ordered
<1>6. Slice(s, ask) \in Seq(Ids) /\ rowsShown \subseteq Range(s) /\ Range(s) \subseteq Ids
  BY <1>4, <1>5, SliceInside, RangeFacts
<1>7. /\ page'[q] = Slice(s, ask) /\ basis'[q] = s /\ query'[q] = ask
      /\ walk'[q] = WalkOn(q, Range(s), rowsShown)
      /\ pc'[q] = "done" /\ reply'[q] = "ok" /\ total'[q] = total[q] /\ drift'[q] = drift[q]
  BY <1>1, <1>2 DEF TypeOK
<1>8. WalkOn(q, Range(s), rowsShown) \in Walk
  BY <1>2, <1>6, WalkTypes
<1>9. TypeOK'
  <2>1. /\ page' \in [Requests -> Seq(Ids)] /\ basis' \in [Requests -> Seq(Ids)]
        /\ walk' \in [Requests -> Walk]
    BY <1>1, <1>2, <1>5, <1>6, <1>8 DEF TypeOK
  <2> QED BY <1>2, <2>1 DEF TypeOK, listing
<1>10. \A r \in Requests \ {q} : Resting(r)
  BY <1>1, <1>2 DEF Resting, TypeOK
\* What is said of the new list, which the table has not changed since.
<1>11. /\ \A id : Present(id)' <=> Present(id)
       /\ \A id : Final(id)' <=> Final(id)
       /\ \A id : Matches(id, query[q])' <=> Matches(id, ask)
       /\ Matching(query[q])' = Matching(ask)
       /\ Ordered(basis[q], query[q])' <=> Ordered(s, ask)
       /\ Distinct(q)' <=> DistinctIn(s, ask)
       /\ \A id : Rank(id, q)' = RankIn(id, s, ask)
       /\ Listed(q)'
       /\ Slice(basis[q], query[q])' = Slice(s, ask)
       /\ Turned(q)' = ask.page
       /\ InRange(query[q])' <=> InRange(ask)
  <2>1. \A id : (Present(id)' <=> Present(id)) /\ (Final(id)' <=> Final(id))
    BY <1>2 DEF listing, Present, Final, Exists, Claimable, Visible
  <2>2. \A id : Matches(id, query[q])' <=> Matches(id, ask)
    BY <1>2 DEF listing, Matches, RowMatches, EntryMatches, InDates, Visible, Exists
  <2>3. Matching(query[q])' = Matching(ask)
    BY <2>2 DEF Matching
  <2>4. \A a, b : Before(a, b, query[q])' <=> Before(a, b, ask)
    BY <1>2 DEF listing, Before, SortKey
  <2>5. Ordered(basis[q], query[q])' <=> Ordered(s, ask)
    BY <1>7, <2>4 DEF Ordered
  <2>6. Distinct(q)' <=> DistinctIn(s, ask)
    BY <1>2, <1>7 DEF Distinct, DistinctIn, SortKey, listing
  <2>7. \A id : Rank(id, q)' = RankIn(id, s, ask)
    BY <1>7, <2>4 DEF Rank, RankIn
  <2>8. Listed(q)' /\ Slice(basis[q], query[q])' = Slice(s, ask)
    BY <1>7 DEF Listed, Slice, Offset
  <2>9. Turned(q)' = ask.page /\ (InRange(query[q])' <=> InRange(ask))
    BY <1>7, <2>8 DEF Turned, InRange
  <2> QED BY <2>1, <2>2, <2>3, <2>5, <2>6, <2>7, <2>8, <2>9
<1>12. AskFits(q)'
  <2>1. \A id \in Range(basis'[q]) : Present(id)'
    BY <1>5, <1>7, <1>11, MatchedRows
  <2> QED BY <1>4, <1>5, <1>7, <1>11, <2>1 DEF AskFits
<1>13. CountFits(q)'
  BY <1>7 DEF CountFits
<1>14. PageFits(q)'
  <2>1. drift'[q] # "between" => total'[q] = Len(basis'[q])
    <3>1. drift[q] \in {"none", "between", "after"}
      BY <1>2 DEF TypeOK
    <3> QED BY <1>2, <1>3, <1>5, <1>7, <3>1 DEF CountFits
  <2>2. list' = list
    BY <1>2 DEF listing
  <2>3. query'[q].status \in Decisions \/ list' = "audit_logs" =>
          \A id \in Range(basis'[q]) : Final(id)' /\ Matches(id, query[q])'
    <3>1. \A id \in Range(s) : Matches(id, ask)
      BY <1>5 DEF Matching
    <3> QED BY <1>5, <1>7, <1>11, <2>2, <3>1, MatchedRows
  <2> QED BY <1>5, <1>7, <1>11, <2>1, <2>3 DEF PageFits
\* The walk goes on, on a list that has what was there before, ...
<1>15. ASSUME w.on, ask.page # 1
       PROVE  /\ Turned(q) = ask.page - 1 /\ InRange(ask) /\ Turned(q) >= 1
              /\ list = "audit_logs" => "change" \notin w.since
              /\ w.since \subseteq {"insert"} => Range(basis[q]) \subseteq Range(s)
              /\ w.since \subseteq {"insert"} /\ DistinctIn(s, ask) =>
                   \A id \in w.first \ w.shown :
                     id \in Range(s) /\ RankIn(id, s, ask) >= (ask.page - 1) * ask.limit
              /\ w.since = {} /\ DistinctIn(s, ask) =>
                   /\ ~w.repeated
                   /\ \A id \in w.shown :
                        id \in Range(s) /\ RankIn(id, s, ask) < (ask.page - 1) * ask.limit
  <2>1. Turned(q) = ask.page - 1
    BY <1>4 DEF Turned
  <2>2. /\ InRange(ask) /\ Turned(q) >= 1
        /\ list = "audit_logs" => "change" \notin w.since
        /\ w.since \subseteq {"insert"} => \A id \in Range(basis[q]) : Matches(id, ask)
        /\ w.since = {} => Matching(ask) = Range(basis[q])
    BY <1>3, <1>15 DEF WalkFits
  <2>3. Range(basis[q]) \subseteq Ids
    BY <1>4, RangeFacts
  <2>4. w.since \subseteq {"insert"} => Range(basis[q]) \subseteq Range(s)
    BY <1>5, <2>2, <2>3 DEF Matching
  <2>5. \A id : Rank(id, q) = RankIn(id, basis[q], ask)
    BY DEF Rank, RankIn
  <2>6. w.since \subseteq {"insert"} /\ DistinctIn(s, ask) => Distinct(q)
    BY <2>4 DEF Distinct, DistinctIn
  <2>7. ASSUME w.since \subseteq {"insert"}, DistinctIn(s, ask), NEW id \in w.first \ w.shown
        PROVE  id \in Range(s) /\ RankIn(id, s, ask) >= (ask.page - 1) * ask.limit
    <3>1. id \in Range(basis[q]) /\ RankIn(id, basis[q], ask) >= (ask.page - 1) * ask.limit
      BY <1>3, <1>15, <2>1, <2>5, <2>6, <2>7 DEF WalkFits
    <3>2. RankIn(id, basis[q], ask) <= RankIn(id, s, ask)
      BY <1>4, <1>5, <2>4, <2>7, RankGrows
    <3>3. /\ RankIn(id, basis[q], ask) \in Nat /\ RankIn(id, s, ask) \in Nat
          /\ (ask.page - 1) * ask.limit \in Nat
      BY <1>4, <1>5, RankTypes, AskTypes
    <3>4. id \in Range(s)
      BY <2>4, <2>7, <3>1
    <3> HIDE DEF ask
    <3> QED BY <3>1, <3>2, <3>3, <3>4
  <2>8. ASSUME w.since = {}, DistinctIn(s, ask)
        PROVE  /\ ~w.repeated
               /\ \A id \in w.shown :
                    id \in Range(s) /\ RankIn(id, s, ask) < (ask.page - 1) * ask.limit
    <3>1. Range(basis[q]) = Range(s)
      BY <1>5, <2>2, <2>8
    <3>2. \A id : RankIn(id, basis[q], ask) = RankIn(id, s, ask)
      BY <3>1 DEF RankIn
    <3>3. /\ ~w.repeated
          /\ \A id \in w.shown :
               id \in Range(basis[q]) /\ Rank(id, q) < Turned(q) * ask.limit
      BY <1>3, <1>15, <2>6, <2>8 DEF WalkFits
    <3> QED BY <2>1, <2>5, <3>1, <3>2, <3>3
  <2> QED BY <2>1, <2>2, <2>4, <2>7, <2>8
<1>16. ask.page \in Nat \ {0} /\ ask.limit \in Nat \ {0}
  BY <1>4, AskTypes
<1>17. ASSUME ask.page = 1 PROVE WalkFits(q)'
  <2>1. /\ walk'[q].first = Range(s) /\ walk'[q].shown = rowsShown
        /\ walk'[q].since = {} /\ ~walk'[q].repeated
    BY <1>7, <1>17 DEF WalkOn
  <2>2. InRange(ask)
    <3>1. (1 - 1) * ask.limit = 0
      BY <1>16
    <3> QED BY <1>17, <3>1, ListAssumption DEF InRange
  <2>3. ASSUME DistinctIn(s, ask), NEW id \in Range(s)
        PROVE  id \in rowsShown <=> RankIn(id, s, ask) < ask.page * ask.limit
    <3>1. /\ id \in rowsShown <=> (ask.page - 1) * ask.limit <= RankIn(id, s, ask)
                                  /\ RankIn(id, s, ask) < ask.page * ask.limit
          /\ RankIn(id, s, ask) \in Nat
      BY <1>2, <1>4, <1>5, <2>2, <2>3, PageAdds
    <3>2. (ask.page - 1) * ask.limit = 0
      BY <1>16, <1>17
    <3> HIDE DEF ask, rowsShown
    <3> QED BY <3>1, <3>2
  <2>4. ASSUME DistinctIn(s, ask), NEW id \in Range(s) \ rowsShown
        PROVE  RankIn(id, s, ask) >= ask.page * ask.limit
    <3>1. /\ RankIn(id, s, ask) \in Nat /\ ask.page * ask.limit \in Nat
          /\ ~(RankIn(id, s, ask) < ask.page * ask.limit)
      BY <1>4, <1>5, <1>16, <2>3, <2>4, RankTypes, Products
    <3> HIDE DEF ask
    <3> QED BY <3>1
  <2>5. \A id \in Range(s) : Matches(id, ask)
    BY <1>5 DEF Matching
  <2> QED BY <1>5, <1>6, <1>7, <1>11, <1>16, <1>17, <2>1, <2>2, <2>3, <2>4, <2>5 DEF WalkFits
<1>18. ASSUME ask.page # 1 /\ w.on PROVE WalkFits(q)'
  <2>1. /\ walk'[q].first = w.first /\ walk'[q].shown = w.shown \cup rowsShown
        /\ walk'[q].since = w.since
        /\ walk'[q].repeated = (w.repeated \/ w.shown \cap rowsShown # {})
    BY <1>7, <1>18 DEF WalkOn
  <2>2. ASSUME DistinctIn(s, ask), NEW id \in Range(s)
        PROVE  /\ RankIn(id, s, ask) \in Nat
               /\ id \in rowsShown <=> /\ (ask.page - 1) * ask.limit <= RankIn(id, s, ask)
                                       /\ RankIn(id, s, ask) < ask.page * ask.limit
               /\ (ask.page - 1) * ask.limit \in Nat /\ ask.page * ask.limit \in Nat
               /\ (ask.page - 1) * ask.limit <= ask.page * ask.limit
    <3>1. /\ RankIn(id, s, ask) \in Nat
          /\ (ask.page - 1) * ask.limit \in Nat /\ ask.limit \in Nat \ {0}
          /\ ask.page * ask.limit = (ask.page - 1) * ask.limit + ask.limit
          /\ id \in rowsShown <=> /\ (ask.page - 1) * ask.limit <= RankIn(id, s, ask)
                                  /\ RankIn(id, s, ask) < ask.page * ask.limit
      BY <1>2, <1>4, <1>5, <1>15, <1>18, <2>2, PageAdds
    <3> HIDE DEF ask, rowsShown
    <3>2. (ask.page - 1) * ask.limit <= ask.page * ask.limit /\ ask.page * ask.limit \in Nat
      BY <3>1
    <3> QED BY <3>1, <3>2
  <2>3. ASSUME w.since \subseteq {"insert"}, DistinctIn(s, ask),
               NEW id \in w.first \ (w.shown \cup rowsShown)
        PROVE  id \in Range(s) /\ RankIn(id, s, ask) >= ask.page * ask.limit
    <3>1. id \in Range(s) /\ RankIn(id, s, ask) >= (ask.page - 1) * ask.limit
      BY <1>15, <1>18, <2>3
    <3>2. RankIn(id, s, ask) \in Nat /\ ask.page * ask.limit \in Nat
          /\ ~((ask.page - 1) * ask.limit <= RankIn(id, s, ask)
                /\ RankIn(id, s, ask) < ask.page * ask.limit)
          /\ (ask.page - 1) * ask.limit \in Nat
      BY <2>2, <2>3, <3>1
    <3> HIDE DEF ask
    <3> QED BY <3>1, <3>2
  <2>4. ASSUME w.since = {}, DistinctIn(s, ask)
        PROVE  /\ w.shown \cap rowsShown = {} /\ ~w.repeated
               /\ \A id \in w.shown \cup rowsShown :
                    id \in Range(s) /\ RankIn(id, s, ask) < ask.page * ask.limit
    <3>1. /\ ~w.repeated
          /\ \A id \in w.shown :
               id \in Range(s) /\ RankIn(id, s, ask) < (ask.page - 1) * ask.limit
      BY <1>15, <1>18, <2>4
    <3>2. \A id \in Range(s) :
            /\ RankIn(id, s, ask) \in Nat
            /\ id \in rowsShown <=> /\ (ask.page - 1) * ask.limit <= RankIn(id, s, ask)
                                    /\ RankIn(id, s, ask) < ask.page * ask.limit
            /\ (ask.page - 1) * ask.limit \in Nat /\ ask.page * ask.limit \in Nat
            /\ (ask.page - 1) * ask.limit <= ask.page * ask.limit
      BY <2>2, <2>4
    <3>3. rowsShown \subseteq Range(s)
      BY <1>6
    <3> HIDE DEF ask, rowsShown, w
    <3> QED BY <3>1, <3>2, <3>3
  <2>5. w.since \subseteq {"insert"} => \A id \in Range(s) : Matches(id, ask)
    BY <1>5 DEF Matching
  <2>6. list' = list
    BY <1>2 DEF listing
  <2>7. /\ pc'[q] # "idle" /\ Turned(q)' >= 1 /\ InRange(query[q])'
        /\ list' = "audit_logs" => "change" \notin walk'[q].since
    BY <1>7, <1>11, <1>15, <1>16, <1>18, <2>1, <2>6
  <2>8. walk'[q].since \subseteq {"insert"} => \A id \in Range(basis'[q]) : Matches(id, query[q])'
    BY <1>7, <1>11, <2>1, <2>5
  <2>9. walk'[q].since \subseteq {"insert"} /\ Distinct(q)' =>
          \A id \in walk'[q].first \ walk'[q].shown :
            id \in Range(basis'[q]) /\ Rank(id, q)' >= Turned(q)' * query'[q].limit
    BY <1>7, <1>11, <2>1, <2>3
  <2>10. Matching(query[q])' = Range(basis'[q])
    BY <1>5, <1>7, <1>11
  <2>11. walk'[q].since = {} /\ Distinct(q)' =>
           /\ ~walk'[q].repeated
           /\ \A id \in walk'[q].shown :
                id \in Range(basis'[q]) /\ Rank(id, q)' < Turned(q)' * query'[q].limit
    BY <1>7, <1>11, <2>1, <2>4
  <2> QED BY <2>7, <2>8, <2>9, <2>10, <2>11 DEF WalkFits
<1>19. ASSUME ask.page # 1 /\ ~w.on PROVE WalkFits(q)'
  <2>1. ~walk'[q].on
    BY <1>7, <1>19 DEF WalkOn
  <2> QED BY <2>1 DEF WalkFits
<1>20. WalkFits(q)'
  BY <1>17, <1>18, <1>19
<1> QED BY <1>2, <1>9, <1>10, <1>12, <1>13, <1>14, <1>20, StepKeepsIInv DEF RequestFits

LEMMA MidnightKeepsIInv ==
  ASSUME IInv, Midnight PROVE IInv'
<1>1. /\ TypeOK /\ UNCHANGED listing
      /\ UNCHANGED <<audit, writes, pc, query, total, page, basis, walk, drift, reply>>
      /\ today < MaxDay /\ today' = today + 1
  BY DEF Midnight, IInv, listing, locals
<1>2. TypeOK'
  <2>1. today' \in 0 .. MaxDay
    BY <1>1, ListAssumption DEF TypeOK
  <2> QED BY <1>1, <2>1 DEF TypeOK, listing
<1>3. \A r \in Requests : RequestFits(r)'
  BY <1>1, OthersKeepFits
<1>4. list' = "audit_logs" => \A id \in Ids : ~Exists(id)'
  BY <1>1 DEF IInv, Exists, listing
<1> QED BY <1>2, <1>3, <1>4 DEF IInv, RequestFits

-----------------------------------------------------------------------------
(* The theorems.                                                           *)

LEMMA InitIInv == Init => IInv
<1> SUFFICES ASSUME Init PROVE IInv
  OBVIOUS
<1>1. TypeOK
  <2>1. NoWalk \in Walk
    BY DEF NoWalk, Walk
  <2>2. 0 \in 0 .. MaxDay /\ 0 \in 0 .. MaxWrites
    BY ListAssumption
  <2>3. 0 \in 0 .. Cardinality(Ids)
    BY MatchesFinite
  <2>4. << >> \in Seq(Ids)
    OBVIOUS
  <2>5. /\ rows \in [Ids -> Row] /\ list \in Lists /\ audit = {}
        /\ entry \in [Ids -> Entry \cup {NoEntry}]
        /\ day \in [Ids -> 0 .. MaxDay] /\ amount \in [Ids -> Amounts \cup {0}]
        /\ today \in 0 .. MaxDay /\ writes \in 0 .. MaxWrites
    BY <2>2, RowTypes DEF Init
  <2>6. /\ pc \in [Requests -> {"idle", "count", "find", "done"}]
        /\ query \in [Requests -> Asks \cup {NoInput}]
        /\ total \in [Requests -> 0 .. Cardinality(Ids)]
        /\ drift \in [Requests -> {"none", "between", "after"}]
        /\ reply \in [Requests -> {"none", "ok", "badRequest", "internal"}]
    BY <2>3 DEF Init
  <2>7. /\ page \in [Requests -> Seq(Ids)] /\ basis \in [Requests -> Seq(Ids)]
        /\ walk \in [Requests -> Walk]
    BY <2>1, <2>4 DEF Init
  <2> QED BY <2>5, <2>6, <2>7 DEF TypeOK
<1>2. \A id \in Ids : ~Exists(id)
  BY DEF Init, Exists, NoRow
<1>3. ASSUME NEW r \in Requests PROVE AskFits(r) /\ CountFits(r) /\ PageFits(r) /\ WalkFits(r)
  <2>1. /\ pc[r] = "idle" /\ query[r] = NoInput /\ basis[r] = << >> /\ ~walk[r].on /\ ~Listed(r)
    BY DEF Init, NoWalk, Listed
  <2>2. \A id \in Range(basis[r]) : FALSE
    BY <2>1 DEF Range
  <2> QED BY <2>1, <2>2 DEF AskFits, CountFits, PageFits, WalkFits
<1> QED BY <1>1, <1>2, <1>3 DEF IInv

LEMMA NextKeepsIInv == IInv /\ [Next]_vars => IInv'
<1> SUFFICES ASSUME IInv, [Next]_vars PROVE IInv'
  OBVIOUS
<1>1. ASSUME NEW r \in Requests,
             Receive(r) \/ Count(r) \/ Find(r) \/ StatementFails(r) \/ TurnPage(r)
      PROVE  IInv'
  BY <1>1, ReceiveKeepsIInv, CountKeepsIInv, FindKeepsIInv, StatementFailsKeepsIInv,
     TurnPageKeepsIInv
<1>2. ASSUME NEW id \in Ids,
             InsertRow(id) \/ InsertEntry(id) \/ DecideRow(id) \/ DeleteRow(id)
      PROVE  IInv'
  BY <1>2, InsertRowKeepsIInv, InsertEntryKeepsIInv, DecideRowKeepsIInv, DeleteRowKeepsIInv
<1>3. CASE Midnight
  BY <1>3, MidnightKeepsIInv
<1>4. CASE UNCHANGED vars
  <2>1. /\ UNCHANGED listing /\ UNCHANGED <<audit, today, writes>>
        /\ UNCHANGED <<pc, query, total, page, basis, walk, drift, reply>>
    BY <1>4 DEF vars, written, locals, listing
  <2>2. TypeOK'
    BY <2>1 DEF IInv, TypeOK, listing
  <2>3. \A r \in Requests : RequestFits(r)'
    BY <2>1, OthersKeepFits
  <2>4. list' = "audit_logs" => \A id \in Ids : ~Exists(id)'
    BY <2>1 DEF IInv, Exists, listing
  <2> QED BY <2>2, <2>3, <2>4 DEF IInv, RequestFits
<1> QED BY <1>1, <1>2, <1>3, <1>4 DEF Next

\* Whatever is asked, written and answered, the invariant holds.
THEOREM Invariance == Spec => []IInv
BY InitIInv, NextKeepsIInv, PTL DEF Spec

\* Every variable stays in its domain; in particular no query reaches the
\* database with a page below 1 or a limit outside 1 .. MaxLimit.
THEOREM TypeCorrect == Spec => []TypeOK
<1>1. IInv => TypeOK
  BY DEF IInv
<1> QED BY <1>1, Invariance, PTL

\* A page has exactly the rows of its place in the order, where keys are
\* distinct: Normalize, the offset and the LIMIT of FindAll.
THEOREM PagesExact == Spec => []PageExact
BY Invariance, PagesAreExact, PTL

\* The total and total_pages of an answer fit its rows, unless a writer came
\* between Count and Find.
THEOREM TotalsTrue == Spec => []TotalsAgree
BY Invariance, TotalsAreTrue, PTL

\* A page shows what the query asks for, and what it shows of decided rows and
\* of the audit log stays true.
THEOREM RowsTrue == Spec => []RowsAsked
BY Invariance, AnswersAreAsked, PTL

\* A client that turns pages to the end has seen all the rows that matched
\* when it began, however many were inserted on the way.
THEOREM WalksWhole == Spec => []WalkWhole
BY Invariance, WalksAreWhole, PTL
=============================================================================
