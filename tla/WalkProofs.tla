----------------------------- MODULE WalkProofs -----------------------------
(***************************************************************************)
(* What two walks of Parts guarantee for every value of their constants.   *)
(* Walk, through a table, whatever is saved meanwhile: type correctness,   *)
(* that no page shows a row, nor a walk down the latest states an account, *)
(* again, and that every row that was there at the start is shown by the   *)
(* end.  Find, over the parents of shard blocks: every block between two   *)
(* masterchain blocks is found once, and none is missed.  The inductive    *)
(* invariants are stated in Query and, FindInv, in UnseenShards.           *)
(***************************************************************************)
EXTENDS Parts, FiniteSetTheorems, SequenceTheorems, TLAPS

USE DEF Walk!walk

-----------------------------------------------------------------------------
\* Least and greatest elements, by the well-foundedness of the numbers.

\* Less-than is well-founded, as a set of pairs.
LEMMA LessWellFounded ==
  IsWellFoundedOn({ss \in Nat \X Nat : ss[1] < ss[2]}, Nat)
  BY ONLY NatLessThanWellFounded, Zenon DEF OpToRel

\* A set of numbers that is not empty has a least element.
LEMMA LeastExists ==
  ASSUME NEW S, S \subseteq Nat, S # {}
  PROVE  \E x \in S : \A y \in S : x <= y
<1> DEFINE R == {ss \in Nat \X Nat : ss[1] < ss[2]}
<1>1. IsWellFoundedOn(R, Nat)
  BY LessWellFounded
<1>2. \A x, y \in Nat : x < y => <<x, y>> \in R
  OBVIOUS
<1> HIDE DEF R
<1>3. PICK x \in S : \A y \in S : <<y, x>> \notin R
  BY <1>1, WFMin
<1>4. ASSUME NEW y \in S PROVE x <= y
  <2>1. x \in Nat /\ y \in Nat /\ ~(y < x)
    BY <1>2, <1>3
  <2> QED
    BY <2>1
<1> QED
  BY <1>4

\* Min is the least element.
LEMMA MinOf ==
  ASSUME NEW S, S \subseteq Nat, S # {}
  PROVE  Walk!Min(S) \in S /\ \A y \in S : Walk!Min(S) <= y
  BY LeastExists DEF Walk!Min

\* A bounded one has a greatest element.
LEMMA GreatestExists ==
  ASSUME NEW S, S \subseteq Nat, S # {}, NEW n \in Nat, \A x \in S : x <= n
  PROVE  \E z \in S : \A y \in S : z >= y
<1> DEFINE D == {n - x : x \in S}
<1>1. \A x \in S : n - x \in Nat
  OBVIOUS
<1>2. D \subseteq Nat /\ D # {}
  BY <1>1
<1>3. PICK d \in D : \A e \in D : d <= e
  BY <1>2, LeastExists
<1>4. PICK x \in S : d = n - x
  BY <1>3
<1>5. ASSUME NEW y \in S PROVE x >= y
  <2>1. n - y \in D
    OBVIOUS
  <2>2. d <= n - y
    BY <1>3, <2>1
  <2> HIDE DEF D
  <2>3. x \in Nat /\ y \in Nat
    OBVIOUS
  <2> QED
    BY <1>4, <2>2, <2>3
<1> QED
  BY <1>5

\* Max is the greatest element of a bounded set.
LEMMA MaxOf ==
  ASSUME NEW S, S \subseteq Nat, S # {}, NEW n \in Nat, \A x \in S : x <= n
  PROVE  Walk!Max(S) \in S /\ \A y \in S : y <= Walk!Max(S)
<1>1. \E z \in S : \A y \in S : z >= y
  BY GreatestExists
<1>2. Walk!Max(S) \in S /\ \A y \in S : Walk!Max(S) >= y
  BY <1>1 DEF Walk!Max
<1> QED
  BY <1>2

\* The sizes of sets are those of the library.
LEMMA WalkSizes ==
  /\ \A S : Walk!Cardinality(S) = Cardinality(S)
  /\ \A S : Walk!IsFiniteSet(S) <=> IsFiniteSet(S)
  BY DEF Walk!Cardinality, Walk!IsFiniteSet, Cardinality, IsFiniteSet

\* A set of rows is finite, and so is its number.
LEMMA RowsFinite ==
  ASSUME Walk!QueryAssumption, NEW p, p \subseteq Walk!Row
  PROVE  IsFiniteSet(p) /\ Cardinality(p) \in Nat
<1>1. IsFiniteSet(1..MaxLt)
  BY FS_Interval DEF Walk!QueryAssumption
<1>2. IsFiniteSet(Walk!Row)
  BY WalkSizes, <1>1, FS_Product DEF Walk!QueryAssumption, Walk!Row
<1> QED
  BY <1>2, FS_Subset, FS_CardinalityType

\* The newest times of a set of rows are theirs.
LEMMA NewestTyped ==
  ASSUME Walk!QueryAssumption, NEW rs, rs \subseteq Walk!Row
  PROVE  /\ DOMAIN Walk!Newest(rs) \subseteq Account
         /\ DOMAIN Walk!Newest(rs) = {r[1] : r \in rs}
         /\ \A a \in DOMAIN Walk!Newest(rs) : Walk!Newest(rs)[a] \in 1..MaxLt
<1>1. DOMAIN Walk!Newest(rs) = {r[1] : r \in rs}
  BY DEF Walk!Newest
<1>2. ASSUME NEW a \in DOMAIN Walk!Newest(rs)
      PROVE  Walk!Newest(rs)[a] \in 1..MaxLt
  <2> DEFINE T == {Walk!Lt(r) : r \in {s \in rs : s[1] = a}}
  <2>1. T \subseteq 1..MaxLt /\ T # {} /\ MaxLt \in Nat
    BY <1>1 DEF Walk!Lt, Walk!Row, Walk!QueryAssumption
  <2>2. Walk!Newest(rs)[a] = Walk!Max(T)
    BY <1>1 DEF Walk!Newest
  <2> HIDE DEF T
  <2>3. T \subseteq Nat /\ \A t \in T : t <= MaxLt
    BY <2>1
  <2>4. Walk!Max(T) \in T
    BY <2>1, <2>3, MaxOf
  <2> QED
    BY <2>1, <2>2, <2>4
<1> QED
  BY <1>1, <1>2 DEF Walk!Row

\* The cursor after a page is the time of one of its rows, behind all others.
LEMMA LastOfPage ==
  ASSUME Walk!QueryAssumption, NEW p, p \subseteq Walk!Row, p # {}
  PROVE  /\ Walk!LastLt(p) \in Nat
         /\ \E r \in p : Walk!LastLt(p) = Walk!Lt(r)
         /\ \A r \in p : ~Walk!Before(Walk!LastLt(p), Walk!Lt(r))
<1> DEFINE T == {Walk!Lt(r) : r \in p}
<1>1. T \subseteq 1..MaxLt /\ T # {} /\ MaxLt \in Nat
  BY DEF Walk!Lt, Walk!Row, Walk!QueryAssumption
<1>2. \A r \in p : Walk!Lt(r) \in T
  OBVIOUS
<1>3. \A t \in T : \E r \in p : t = Walk!Lt(r)
  OBVIOUS
<1>4. Walk!LastLt(p) = IF order = "ASC" THEN Walk!Max(T) ELSE Walk!Min(T)
  BY DEF Walk!LastLt
<1> HIDE DEF T
<1>5. T \subseteq Nat /\ \A t \in T : t <= MaxLt
  BY <1>1
<1>6. Walk!Max(T) \in T /\ \A t \in T : t <= Walk!Max(T)
  BY <1>1, <1>5, MaxOf
<1>7. Walk!Min(T) \in T /\ \A t \in T : Walk!Min(T) <= t
  BY <1>1, <1>5, MinOf
<1>8. Walk!LastLt(p) \in T /\ Walk!LastLt(p) \in Nat
  BY <1>4, <1>5, <1>6, <1>7
<1>9. ASSUME NEW r \in p PROVE ~Walk!Before(Walk!LastLt(p), Walk!Lt(r))
  <2>1. Walk!Lt(r) \in Nat /\ Walk!Lt(r) <= Walk!Max(T) /\ Walk!Min(T) <= Walk!Lt(r)
    BY <1>2, <1>5, <1>6, <1>7
  <2>2. CASE order = "ASC"
    BY <1>4, <1>8, <2>1, <2>2 DEF Walk!Before
  <2>3. CASE order # "ASC"
    BY <1>4, <1>8, <2>1, <2>3 DEF Walk!Before
  <2> QED
    BY <2>2, <2>3
<1> QED
  BY <1>3, <1>8, <1>9

-----------------------------------------------------------------------------
\* What a client can select is rows, those of latest states as they are.
LEMMA RowsTyped ==
  ASSUME Walk!TypeOK
  PROVE  /\ Walk!Rows \subseteq Walk!Row
         /\ table = "latest" => \A r \in Walk!Rows : r[1] \in DOMAIN latest
                                                /\ Walk!Lt(r) = latest[r[1]]
<1> USE DEF Walk!TypeOK, Walk!Row, Walk!Lt
<1>1. {<<a, latest[a]>> : a \in DOMAIN latest} \subseteq Walk!Row
  OBVIOUS
<1>2. table = "latest" => \A r \in Walk!Rows : r[1] \in DOMAIN latest
                                                /\ Walk!Lt(r) = latest[r[1]]
  BY DEF Walk!Rows, Walk!Matching
<1> QED
  BY <1>1, <1>2 DEF Walk!Rows, Walk!Matching

\* An answer of rows ahead of the cursor leaves the walk in order.
LEMMA AnswerKeeps ==
  ASSUME Walk!QueryAssumption, Walk!TypeOK, Walk!WalkInv, request # "done",
         NEW p, p \subseteq Walk!Row, Walk!Answer(p),
         table # "labels" => \A r \in p : Walk!Before(cursor, Walk!Lt(r)),
         table = "latest" => \A r \in p : r[1] \in DOMAIN latest
                                          /\ Walk!Lt(r) = latest[r[1]],
         UNCHANGED <<Walk!walk, stored, latest, counted, walkSaving>>
  PROVE  Walk!TypeOK' /\ Walk!WalkInv'
<1> DEFINE added == named \cap Skipped
           q == p \cup {<<a, MaxLt>> : a \in added}
<1>1. answers \in Seq(SUBSET ((Account \cup Skipped) \X Nat))
  BY DEF Walk!TypeOK
<1>2. q \in SUBSET ((Account \cup Skipped) \X Nat) /\ p \subseteq q
  BY DEF Walk!Row, Walk!QueryAssumption
<1>3. answers' = Append(answers, q) /\ page' = {}
  BY DEF Walk!Answer
<1>4. \A r \in q : r \in p \/ (r[1] \in added /\ added # {})
  OBVIOUS
<1>5. added = {} => q = p
  OBVIOUS
<1>6. added = named \cap Skipped
  OBVIOUS
<1> HIDE DEF q, added
<1>7. /\ answers' \in Seq(SUBSET ((Account \cup Skipped) \X Nat))
      /\ DOMAIN answers' = 1..(Len(answers) + 1)
      /\ DOMAIN answers = 1..Len(answers) /\ Len(answers) \in Nat
      /\ \A i \in DOMAIN answers : answers'[i] = answers[i]
      /\ answers'[Len(answers) + 1] = q
  BY <1>1, <1>2, <1>3
<1>8. \A i \in DOMAIN answers' : i \in DOMAIN answers \/ i = Len(answers) + 1
  BY <1>7
<1>9. added # {} => DOMAIN answers = {}
  BY <1>6 DEF Walk!WalkInv, Walk!OneAnswer
<1>10. \/ request' = "done" /\ cursor' = cursor
       \/ /\ request' = "ask" /\ p # {} /\ added = {}
          /\ table # "labels" => cursor' = Walk!LastLt(p)
  BY <1>6 DEF Walk!Answer
<1>11. Walk!TypeOK'
  <2>1. Cardinality(p) \in Nat
    BY RowsFinite
  <2>2. cursor' \in Nat /\ total' \in Nat
    BY WalkSizes, <1>10, <2>1, LastOfPage DEF Walk!TypeOK, Walk!Answer
  <2> QED
    BY <1>3, <1>7, <1>10, <2>2 DEF Walk!TypeOK
<1>12. Walk!OneAnswer'
  BY <1>6, <1>10 DEF Walk!OneAnswer
<1>13. Walk!CursorBetween'
  <2> SUFFICES ASSUME table # "labels", request' = "ask",
                      NEW i \in DOMAIN answers', NEW r \in answers'[i]
               PROVE  ~Walk!Before(cursor', Walk!Lt(r))
    BY <1>3, <1>10 DEF Walk!CursorBetween, Walk!Before
  <2>1. /\ cursor' = Walk!LastLt(p) /\ cursor' \in Nat /\ p # {} /\ q = p
        /\ \A s \in p : ~Walk!Before(cursor', Walk!Lt(s))
    BY <1>5, <1>10, LastOfPage
  <2>2. CASE i \in DOMAIN answers
    <3>1. ~Walk!Before(cursor, Walk!Lt(r)) /\ Walk!Lt(r) \in Nat /\ cursor \in Nat
      BY <1>1, <1>7, <2>2 DEF Walk!WalkInv, Walk!CursorBetween, Walk!TypeOK, Walk!Lt
    <3>2. PICK s \in p : Walk!LastLt(p) = Walk!Lt(s)
      BY <2>1, LastOfPage
    <3>3. Walk!Before(cursor, cursor')
      BY <2>1, <3>2
    <3> QED
      BY <2>1, <3>1, <3>3 DEF Walk!Before
  <2>3. CASE i = Len(answers) + 1
    BY <1>7, <2>1, <2>3
  <2> QED
    BY <1>8, <2>2, <2>3
<1>14. Walk!LatestShown'
  <2> SUFFICES ASSUME table = "latest", NEW i \in DOMAIN answers',
                      NEW r \in answers'[i], r[1] \in Account
               PROVE  r[1] \in DOMAIN latest /\ Walk!Lt(r) <= latest[r[1]]
    BY DEF Walk!LatestShown
  <2>1. CASE i \in DOMAIN answers
    BY <1>7, <2>1 DEF Walk!WalkInv, Walk!LatestShown
  <2>2. CASE i = Len(answers) + 1
    <3>1. r \in p
      BY <1>4, <1>6, <1>7, <2>2 DEF Walk!QueryAssumption
    <3>2. Walk!Lt(r) \in Nat
      BY <3>1 DEF Walk!Lt, Walk!Row
    <3> QED
      BY <3>1, <3>2
  <2> QED
    BY <1>8, <2>1, <2>2
<1>15. Walk!EachOnce'
  <2> SUFFICES ASSUME NEW i \in DOMAIN answers', NEW j \in DOMAIN answers',
                      i < j, table # "labels"
               PROVE  /\ answers'[i] \cap answers'[j] = {}
                      /\ table = "latest" /\ order = "DESC" =>
                            {r[1] : r \in answers'[i]}
                               \cap {r[1] : r \in answers'[j]} = {}
    BY DEF Walk!EachOnce
  <2>1. i \in DOMAIN answers
    BY <1>7, <1>8
  <2>2. CASE j \in DOMAIN answers
    BY <1>7, <2>1, <2>2 DEF Walk!WalkInv, Walk!EachOnce
  <2>3. CASE j = Len(answers) + 1
    <3>1. q = p /\ answers'[j] = p /\ answers'[i] = answers[i]
      BY <1>5, <1>7, <1>9, <2>1, <2>3
    <3>2. \A r \in answers[i] : ~Walk!Before(cursor, Walk!Lt(r))
      BY <2>1 DEF Walk!WalkInv, Walk!CursorBetween
    <3>3. answers[i] \cap p = {}
      BY <3>2
    <3>4. ASSUME table = "latest", order = "DESC", NEW r \in answers[i],
                 NEW s \in p, r[1] = s[1]
          PROVE  FALSE
      <4>1. r[1] \in Account /\ Walk!Lt(s) \in Nat /\ Walk!Lt(r) \in Nat /\ cursor \in Nat
        BY <1>1, <2>1, <3>4 DEF Walk!Row, Walk!TypeOK, Walk!Lt
      <4>2. Walk!Lt(r) <= latest[r[1]] /\ Walk!Lt(s) = latest[r[1]]
        BY <2>1, <3>4, <4>1 DEF Walk!WalkInv, Walk!LatestShown
      <4>3. ~(Walk!Lt(r) < cursor) /\ Walk!Lt(s) < cursor
        BY <3>2, <3>4 DEF Walk!Before
      <4> QED
        BY <4>1, <4>2, <4>3
    <3> QED
      BY <3>1, <3>3, <3>4
  <2> QED
    BY <1>8, <2>2, <2>3
<1> QED
  BY <1>11, <1>12, <1>13, <1>14, <1>15 DEF Walk!WalkInv

\* A selection is of the rows it is made from.
LEMMA FirstTyped ==
  ASSUME NEW n, NEW rs, NEW p \in Walk!FirstOf(n, rs)
  PROVE  p \subseteq rs
  BY DEF Walk!FirstOf, Walk!kSubset

\* A selection that is still to be counted leaves the walk in order.
LEMMA CountNextKeeps ==
  ASSUME Walk!QueryAssumption, Walk!TypeOK, Walk!WalkInv, request = "ask",
         NEW p, p \subseteq Walk!Rows, Walk!CountNext(p),
         table # "labels" => p \subseteq Walk!Selected,
         UNCHANGED <<Walk!walk, stored, latest, counted, walkSaving>>
  PROVE  Walk!TypeOK' /\ Walk!WalkInv'
<1>1. CASE p = {}
  <2>1. Walk!Answer({})
    BY <1>1 DEF Walk!CountNext
  <2> QED
    BY <2>1, AnswerKeeps
<1>2. CASE p # {}
  <2>1. /\ page' = p /\ request' = "count" /\ cursor' = cursor
        /\ total' = total /\ answers' = answers
    BY <1>2 DEF Walk!CountNext
  <2>2. p \subseteq Walk!Row
    BY RowsTyped
  <2>3. Walk!TypeOK'
    BY <2>1, <2>2 DEF Walk!TypeOK
  <2>4. Walk!CursorBetween'
    BY <2>1 DEF Walk!WalkInv, Walk!CursorBetween, Walk!Selected, Walk!Before
  <2> QED
    BY <2>1, <2>3, <2>4
    DEF Walk!WalkInv, Walk!LatestShown, Walk!OneAnswer, Walk!EachOnce
<1> QED
  BY <1>1, <1>2

\* What is counted is a number, 0 when there is nothing.
LEMMA CountTyped ==
  ASSUME Walk!QueryAssumption, Walk!TypeOK
  PROVE  Walk!Count \in Nat /\ (Walk!Count = 0 => Walk!Matching(counted) = {})
<1> DEFINE A == {r[1] : r \in Walk!Matching(counted)}
<1>1. Walk!Matching(counted) \subseteq Walk!Row /\ A \subseteq Account
  BY DEF Walk!Matching, Walk!TypeOK, Walk!Row
<1>2. IsFiniteSet(Walk!Matching(counted)) /\ IsFiniteSet(A)
  BY WalkSizes, <1>1, RowsFinite, FS_Subset DEF Walk!QueryAssumption
<1>3. A = {} => Walk!Matching(counted) = {}
  OBVIOUS
<1>4. Walk!Count = IF table = "latest" THEN Cardinality(A)
              ELSE Cardinality(Walk!Matching(counted))
  BY WalkSizes DEF Walk!Count
<1> HIDE DEF A
<1> QED
  BY <1>2, <1>3, <1>4, FS_CardinalityType, FS_EmptySet

\* A step of the request leaves the walk in order.
LEMMA RequestKeeps ==
  ASSUME Walk!QueryAssumption, Walk!TypeOK, Walk!WalkInv, Walk!Request,
         UNCHANGED <<Walk!walk, stored, latest, counted, walkSaving>>
  PROVE  Walk!TypeOK' /\ Walk!WalkInv'
<1>0. Walk!Selected \subseteq Walk!Rows /\ Walk!Rows \subseteq Walk!Row
  BY RowsTyped DEF Walk!Selected
<1>1. CASE Walk!CountFirst
  <2>1. CASE Walk!Answer({})
    BY <1>1, <2>1, AnswerKeeps DEF Walk!CountFirst
  <2>2. CASE request' = "select" /\ UNCHANGED <<cursor, page, answers>>
    <3>1. request = "ask"
      BY <1>1 DEF Walk!CountFirst
    <3>2. total' \in Nat
      <4>1. total' = Walk!Count \/ total' = 0
        BY <1>1 DEF Walk!CountFirst, Walk!Answer
      <4> QED
        BY <4>1, CountTyped
    <3>3. Walk!TypeOK'
      BY <2>2, <3>2 DEF Walk!TypeOK
    <3> QED
      BY <2>2, <3>1, <3>3
      DEF Walk!WalkInv, Walk!CursorBetween, Walk!Before, Walk!LatestShown,
          Walk!OneAnswer, Walk!EachOnce
  <2> QED
    BY <1>1, <2>1, <2>2 DEF Walk!CountFirst
<1>2. CASE Walk!SelectCounted
  <2>1. PICK p \in SUBSET Walk!Selected : Walk!Answer(p)
    BY <1>2, FirstTyped DEF Walk!SelectCounted, Walk!FirstRows
  <2>2. /\ request # "done" /\ p \subseteq Walk!Row
        /\ \A r \in p : Walk!Before(cursor, Walk!Lt(r))
        /\ table = "latest" => \A r \in p : r[1] \in DOMAIN latest
                                            /\ Walk!Lt(r) = latest[r[1]]
    BY <1>0, <1>2, RowsTyped DEF Walk!SelectCounted, Walk!Selected
  <2> QED
    BY <2>1, <2>2, AnswerKeeps
<1>3. CASE Walk!SelectTransactions \/ Walk!SelectMessages \/ Walk!SelectBlocks
  <2>1. PICK p \in SUBSET Walk!Selected : request = "ask" /\ Walk!CountNext(p)
    BY <1>3, FirstTyped
    DEF Walk!SelectTransactions, Walk!SelectMessages, Walk!SelectBlocks,
        Walk!SelectFirst, Walk!FirstRows
  <2> QED
    BY <1>0, <2>1, CountNextKeeps
<1>4. CASE Walk!SelectLabels
  <2>1. PICK shown \in Walk!FirstOf(cursor, Walk!Rows) :
          \E p \in Walk!FirstOf(pageLimit, Walk!Rows \ shown) : Walk!CountNext(p)
    BY <1>4 DEF Walk!SelectLabels
  <2>2. PICK p \in SUBSET Walk!Rows : Walk!CountNext(p)
    BY <2>1, FirstTyped
  <2>3. request = "ask" /\ table = "labels"
    BY <1>4 DEF Walk!SelectLabels
  <2> QED
    BY <2>2, <2>3, CountNextKeeps
<1>5. CASE Walk!CountTransactions \/ Walk!CountMessages \/ Walk!CountBlocks \/ Walk!CountLabels
  <2>1. request = "count" /\ table # "latest" /\ Walk!Answer(page)
    BY <1>5
    DEF Walk!CountTransactions, Walk!CountMessages, Walk!CountBlocks,
        Walk!CountLabels
  <2>2. page \subseteq Walk!Row
    BY DEF Walk!TypeOK
  <2>3. table # "labels" => \A r \in page : Walk!Before(cursor, Walk!Lt(r))
    BY <2>1 DEF Walk!WalkInv, Walk!CursorBetween
  <2> QED
    BY <2>1, <2>2, <2>3, AnswerKeeps
<1> QED
  BY <1>1, <1>2, <1>3, <1>4, <1>5
  DEF Walk!Request, Walk!GetAccounts, Walk!GetTransactions, Walk!GetMessages,
      Walk!GetBlocks, Walk!GetLabels

\* A save takes no row from a table, but for the latest row of an account that
\* has a newer one.
LEMMA SaveGrows ==
  ASSUME Walk!QueryAssumption, Walk!TypeOK, NEW b \in Walk!Block, Walk!Save(b)
  PROVE  /\ stored \subseteq stored'
         /\ DOMAIN latest \subseteq DOMAIN latest'
         /\ \A a \in DOMAIN latest : latest[a] <= latest'[a]
         /\ DOMAIN latest' \subseteq Account
         /\ \A a \in DOMAIN latest' : latest'[a] \in 1..MaxLt
<1>1. NewRows[b] \subseteq Walk!Row
  BY DEF Walk!QueryAssumption, Walk!Row
<1>2. stored \subseteq stored'
  BY DEF Walk!Save, Walk!SaveRows, Walk!AddLabel, Walk!SetLatest,
         Walk!SaveCounted, Walk!FailSave
<1>3. CASE Walk!SetLatest(b)
  <2> DEFINE new == Walk!Newest(NewRows[b])
  <2>1. /\ DOMAIN new \subseteq Account
        /\ \A a \in DOMAIN new : new[a] \in 1..MaxLt
    BY <1>1, NewestTyped
  <2>2. latest' = [a \in DOMAIN latest \cup DOMAIN new |->
                      IF a \in DOMAIN new THEN Walk!Upsert(a, new[a])
                      ELSE latest[a]]
    BY <1>3 DEF Walk!SetLatest
  <2> HIDE DEF new
  <2>3. ASSUME NEW a \in DOMAIN latest \cup DOMAIN new
        PROVE  /\ latest'[a] \in 1..MaxLt
               /\ a \in DOMAIN latest => latest[a] <= latest'[a]
    <3>1. a \in DOMAIN latest => latest[a] \in 1..MaxLt
      BY DEF Walk!TypeOK
    <3>2. CASE a \in DOMAIN new
      <4>1. latest'[a] = Walk!Upsert(a, new[a]) /\ new[a] \in 1..MaxLt
        BY <2>1, <2>2, <3>2
      <4> QED
        BY <3>1, <4>1 DEF Walk!Upsert, Walk!QueryAssumption
    <3>3. CASE a \notin DOMAIN new
      BY <2>2, <3>1, <3>3 DEF Walk!QueryAssumption
    <3> QED
      BY <3>2, <3>3
  <2>4. DOMAIN latest' = DOMAIN latest \cup DOMAIN new
    BY <2>2
  <2> QED
    BY <1>2, <2>1, <2>3, <2>4 DEF Walk!TypeOK
<1>4. CASE latest' = latest
  BY <1>2, <1>4 DEF Walk!TypeOK, Walk!QueryAssumption
<1> QED
  BY <1>2, <1>3, <1>4
  DEF Walk!Save, Walk!SaveRows, Walk!AddLabel, Walk!SaveCounted, Walk!FailSave

\* What is saved meanwhile leaves the walk in order.
LEMMA SaveKeeps ==
  ASSUME Walk!QueryAssumption, Walk!TypeOK, Walk!WalkInv, NEW b \in Walk!Block,
         Walk!Save(b),
         UNCHANGED <<Walk!walk, request, cursor, total, page, answers>>
  PROVE  Walk!TypeOK' /\ Walk!WalkInv'
<1>0. NewRows[b] \subseteq Walk!Row
  BY DEF Walk!QueryAssumption, Walk!Row
<1>1. /\ stored' \subseteq Walk!Row /\ counted' \subseteq Walk!Row
      /\ walkSaving' \in [Walk!Block -> {"rows", "latest", "count", "done"}]
  BY <1>0
  DEF Walk!TypeOK, Walk!Save, Walk!SaveRows, Walk!AddLabel, Walk!SetLatest,
      Walk!SaveCounted, Walk!FailSave
<1>2. /\ DOMAIN latest \subseteq DOMAIN latest'
      /\ \A a \in DOMAIN latest : latest[a] <= latest'[a]
      /\ DOMAIN latest' \subseteq Account
      /\ \A a \in DOMAIN latest' : latest'[a] \in 1..MaxLt
  BY SaveGrows
<1>3. Walk!TypeOK'
  BY <1>1, <1>2 DEF Walk!TypeOK
<1>4. Walk!LatestShown'
  <2> SUFFICES ASSUME table = "latest", NEW i \in DOMAIN answers,
                      NEW r \in answers[i], r[1] \in Account
               PROVE  r[1] \in DOMAIN latest' /\ Walk!Lt(r) <= latest'[r[1]]
    BY DEF Walk!LatestShown
  <2>1. r[1] \in DOMAIN latest /\ Walk!Lt(r) <= latest[r[1]]
    BY DEF Walk!WalkInv, Walk!LatestShown
  <2>2. Walk!Lt(r) \in Nat /\ latest[r[1]] \in Nat /\ latest'[r[1]] \in Nat
    BY <1>2, <2>1 DEF Walk!TypeOK, Walk!Lt
  <2> QED
    BY <1>2, <2>1, <2>2
<1> QED
  BY <1>3, <1>4
  DEF Walk!WalkInv, Walk!CursorBetween, Walk!Before, Walk!OneAnswer,
      Walk!EachOnce

\* A walk starts with its types and in order.
LEMMA WalkStarts ==
  ASSUME Walk!QueryAssumption, Walk!Init
  PROVE  Walk!TypeOK /\ Walk!WalkInv
<1> USE DEF Walk!Init
<1>1. /\ DOMAIN latest \subseteq Account
      /\ \A a \in DOMAIN latest : latest[a] \in 1..MaxLt
  BY NewestTyped DEF Walk!QueryAssumption, Walk!Row
<1>2. stored \subseteq Walk!Row /\ counted \subseteq Walk!Row /\ page \subseteq Walk!Row
  BY DEF Walk!QueryAssumption, Walk!Row
<1>3. walkSaving \in [Walk!Block -> {"rows", "latest", "count", "done"}]
  OBVIOUS
<1>4. /\ table \in {"accounts", "latest", "blocks", "transactions",
                    "messages", "labels"}
      /\ order \in {"ASC", "DESC"} /\ pageLimit \in PageLimits
      /\ table = "labels" => order = "ASC"
      /\ named \subseteq Account \cup Skipped
      /\ named # {} => table = "latest"
      /\ request = "ask" /\ cursor \in Nat /\ answers = <<>> /\ page = {}
  BY DEF Walk!QueryAssumption
<1>5. base \subseteq Walk!Row
  BY <1>1, <1>2 DEF Walk!Rows, Walk!Matching, Walk!Row
<1>6. answers \in Seq(SUBSET ((Account \cup Skipped) \X Nat))
  BY <1>4
<1>7. Walk!TypeOK
  BY <1>1, <1>2, <1>3, <1>4, <1>5, <1>6 DEF Walk!TypeOK
<1>8. Walk!WalkInv
  BY <1>4
  DEF Walk!WalkInv, Walk!CursorBetween, Walk!LatestShown, Walk!OneAnswer,
      Walk!EachOnce
<1> QED
  BY <1>7, <1>8

\* Every walk keeps its types and its order.
LEMMA WalkCorrect ==
  ASSUME Walk!QueryAssumption
  PROVE  Walk!Spec => [](Walk!TypeOK /\ Walk!WalkInv)
<1>1. Walk!Init => Walk!TypeOK /\ Walk!WalkInv
  BY WalkStarts
<1>2. Walk!TypeOK /\ Walk!WalkInv /\ [Walk!Next]_(Walk!vars) => Walk!TypeOK' /\ Walk!WalkInv'
  <2> SUFFICES ASSUME Walk!TypeOK, Walk!WalkInv, [Walk!Next]_(Walk!vars)
               PROVE  Walk!TypeOK' /\ Walk!WalkInv'
    OBVIOUS
  <2>1. CASE UNCHANGED Walk!vars
    BY <2>1
    DEF Walk!vars, Walk!TypeOK, Walk!WalkInv, Walk!CursorBetween, Walk!Before,
        Walk!LatestShown, Walk!OneAnswer,
        Walk!EachOnce
  <2> QED
    BY <2>1, RequestKeeps, SaveKeeps DEF Walk!Next
<1> QED
  BY <1>1, <1>2, PTL DEF Walk!Spec

-----------------------------------------------------------------------------
\* A behaviour of the parts is a walk: it takes the steps of the walk while
\* that is in use, and stutters otherwise.
LEMMA WalkIsPart ==
  PartsSpec => Walk!Spec /\ Find!Spec
<1>1. PartsInit => Walk!Init /\ Find!Init
  BY DEF PartsInit
<1>2. [PartsNext]_vars => [Walk!Next]_(Walk!vars) /\ [Find!Next]_(Find!vars)
  <2> SUFFICES ASSUME [PartsNext]_vars
               PROVE  /\ Walk!Next \/ UNCHANGED walkVars
                      /\ Find!Next \/ UNCHANGED findVars
    BY DEF walkVars, findVars, Walk!vars, Find!vars
  <2> QED
    BY DEF PartsNext, Finding, Fetching, Walking, Moving, Migrating, Recalling, vars
<1> QED
  BY <1>1, <1>2, PTL DEF PartsSpec, Walk!Spec, Find!Spec

\* Type correctness of a walk and of the saves next to it.
THEOREM WalkTypeCorrect ==
  PartsSpec => []Walk!TypeOK
<1>1. Walk!QueryAssumption
  BY PartsAssumption
<1> QED
  BY <1>1, WalkIsPart, WalkCorrect, PTL

\* No page shows a row of an earlier one, and a walk down the latest states
\* shows no account twice, whatever is saved between the pages and however
\* rows of one time are ordered: every page starts strictly behind the cursor.
THEOREM ShownOnce ==
  PartsSpec => []EachOnce
<1>1. Walk!WalkInv => EachOnce
  BY DEF Walk!WalkInv, EachOnce
<1>2. Walk!QueryAssumption
  BY PartsAssumption
<1> QED
  BY <1>1, <1>2, WalkIsPart, WalkCorrect, PTL

-----------------------------------------------------------------------------
\* Every row is shown.

\* A selection has as many rows as it may, none of them behind one left out.
LEMMA FirstCounts ==
  ASSUME Walk!QueryAssumption, NEW rs, rs \subseteq Walk!Row, NEW n \in Nat,
         NEW p \in Walk!FirstOf(n, rs)
  PROVE  /\ p \subseteq rs
         /\ Cardinality(p) \in Nat /\ Cardinality(p) <= n
         /\ p # rs => Cardinality(p) = n /\ n # Cardinality(rs)
         /\ \A x \in p, y \in rs \ p : ~Walk!Before(Walk!Lt(y), Walk!Lt(x))
<1> DEFINE k == Walk!Min({n, Cardinality(rs)})
<1>1. /\ p \in SUBSET rs /\ Cardinality(p) = k
      /\ \A x \in p, y \in rs \ p : ~Walk!Before(Walk!Lt(y), Walk!Lt(x))
  BY WalkSizes DEF Walk!FirstOf, Walk!kSubset
<1>2. IsFiniteSet(rs) /\ Cardinality(rs) \in Nat
  BY RowsFinite
<1>3. /\ k \in {n, Cardinality(rs)}
      /\ \A y \in {n, Cardinality(rs)} : k <= y
  BY <1>2, MinOf
<1> HIDE DEF k
<1>4. p # rs => Cardinality(rs) # Cardinality(p)
  BY <1>1, <1>2, FS_Subset
<1> QED
  BY <1>1, <1>2, <1>3, <1>4

\* A page of rows behind the cursor: a row that is still to come is on it, or
\* ends it, or is behind it.
LEMMA SelectedComes ==
  ASSUME Walk!QueryAssumption, Walk!TypeOK, Walk!ComeInv,
         request \in {"ask", "select"},
         table # "labels", NEW n \in Nat, n > 0 \/ n = Cardinality(Walk!Selected),
         NEW p \in Walk!FirstOf(n, Walk!Selected), NEW r \in base, ~Walk!Accounted(r)
  PROVE  /\ Walk!OnPage(r, p)
         /\ r \in p \/ (Cardinality(p) = n /\ n # Cardinality(Walk!Selected))
<1>1. Walk!Selected \subseteq Walk!Row
  BY RowsTyped DEF Walk!Selected
<1>2. /\ p \subseteq Walk!Selected
      /\ p # Walk!Selected => Cardinality(p) = n /\ n # Cardinality(Walk!Selected)
      /\ \A x \in p, y \in Walk!Selected \ p : ~Walk!Before(Walk!Lt(y), Walk!Lt(x))
  BY <1>1, FirstCounts
<1>3. r \in Walk!Rows /\ r \in Walk!Selected
  BY DEF Walk!ComeInv, Walk!Ahead, Walk!Selected
<1>4. CASE r \in p
  BY <1>4 DEF Walk!OnPage
<1>5. CASE r \notin p
  <2>1. Cardinality(p) = n /\ n # Cardinality(Walk!Selected) /\ p # {}
    BY <1>2, <1>3, <1>5, FS_EmptySet
  <2>2. PICK x \in p : Walk!LastLt(p) = Walk!Lt(x)
    BY <1>1, <1>2, <2>1, LastOfPage
  <2>3. ~Walk!Before(Walk!Lt(r), Walk!Lt(x)) /\ Walk!Lt(r) \in Nat /\ Walk!Lt(x) \in Nat
    BY <1>1, <1>2, <1>3, <1>5 DEF Walk!Row, Walk!Lt
  <2>4. Walk!Lt(r) = Walk!LastLt(p) \/ Walk!Before(Walk!LastLt(p), Walk!Lt(r))
    BY <2>2, <2>3 DEF Walk!Before
  <2> QED
    BY <1>3, <2>1, <2>4 DEF Walk!OnPage, Walk!Ahead, Walk!NextCursor
<1> QED
  BY <1>4, <1>5

\* The same of a page of labels, which leaves out as many as were shown.
LEMMA LabelsCome ==
  ASSUME Walk!QueryAssumption, Walk!TypeOK, Walk!ComeInv, request = "ask",
         table = "labels",
         NEW shown \in Walk!FirstOf(cursor, Walk!Rows),
         NEW p \in Walk!FirstOf(pageLimit, Walk!Rows \ shown), NEW r \in base, ~Walk!Accounted(r)
  PROVE  Walk!OnPage(r, p)
<1>1. /\ Walk!Rows \subseteq Walk!Row /\ Walk!Rows \ shown \subseteq Walk!Row
      /\ cursor \in Nat /\ pageLimit \in Nat \ {0}
      /\ order = "ASC" /\ \A x \in Walk!Row : Walk!Lt(x) \in Nat
  BY RowsTyped DEF Walk!TypeOK, Walk!QueryAssumption, Walk!Row, Walk!Lt
<1>2. /\ shown \subseteq Walk!Rows
      /\ Cardinality(shown) <= cursor /\ Cardinality(shown) \in Nat
      /\ shown # Walk!Rows => Cardinality(shown) = cursor
      /\ \A x \in shown, y \in Walk!Rows \ shown : ~(Walk!Lt(y) < Walk!Lt(x))
  BY <1>1, FirstCounts DEF Walk!Before
<1>3. /\ p \subseteq Walk!Rows \ shown /\ Cardinality(p) \in Nat
      /\ p # Walk!Rows \ shown => Cardinality(p) = pageLimit
      /\ \A x \in p, y \in (Walk!Rows \ shown) \ p : ~(Walk!Lt(y) < Walk!Lt(x))
  <2> DEFINE others == Walk!Rows \ shown
  <2>0. others \subseteq Walk!Row /\ p \in Walk!FirstOf(pageLimit, others) /\ pageLimit \in Nat
    BY <1>1
  <2> HIDE DEF others
  <2>1. /\ p \subseteq others /\ Cardinality(p) \in Nat
        /\ p # others => Cardinality(p) = pageLimit
        /\ \A x \in p, y \in others \ p : ~Walk!Before(Walk!Lt(y), Walk!Lt(x))
    BY <2>0, FirstCounts
  <2> USE DEF others
  <2>2. /\ p \subseteq Walk!Rows \ shown /\ Cardinality(p) \in Nat
        /\ p # Walk!Rows \ shown => Cardinality(p) = pageLimit
        /\ \A x \in p, y \in (Walk!Rows \ shown) \ p : ~Walk!Before(Walk!Lt(y), Walk!Lt(x))
    BY <2>1
  <2> QED
    BY <1>1, <2>2 DEF Walk!Before
<1>4. r \in Walk!Rows /\ cursor <= Cardinality(Walk!Below(r))
  BY WalkSizes DEF Walk!ComeInv, Walk!Ahead
<1>5. /\ IsFiniteSet(Walk!Below(r)) /\ Cardinality(Walk!Below(r)) \in Nat
      /\ IsFiniteSet(shown) /\ IsFiniteSet(p)
  BY <1>1, <1>2, <1>3, RowsFinite DEF Walk!Below
<1>6. r \notin shown
  <2> SUFFICES ASSUME r \in shown PROVE FALSE
    OBVIOUS
  <2>1. Walk!Below(r) \cup {r} \subseteq shown
    BY <1>2 DEF Walk!Below
  <2>2. r \notin Walk!Below(r)
    BY <1>1, <1>4 DEF Walk!Below
  <2>3. Cardinality(Walk!Below(r) \cup {r}) = Cardinality(Walk!Below(r)) + 1
    BY <1>5, <2>2, FS_AddElement
  <2>4. Cardinality(Walk!Below(r) \cup {r}) <= Cardinality(shown)
    BY <1>5, <2>1, FS_Subset
  <2> QED
    BY <1>1, <1>2, <1>4, <1>5, <2>3, <2>4
<1>7. CASE r \in p
  BY <1>7 DEF Walk!OnPage
<1>8. CASE r \notin p
  <2>1. Cardinality(shown) = cursor /\ p # {}
    BY <1>1, <1>2, <1>3, <1>4, <1>6, <1>8, FS_EmptySet
  <2>2. p \subseteq Walk!Row /\ Walk!LastLt(p) \in Nat
    BY <1>1, <1>3, <2>1, LastOfPage
  <2>3. /\ \A x \in p : Walk!Lt(x) <= Walk!LastLt(p)
        /\ \E x \in p : Walk!LastLt(p) = Walk!Lt(x)
    <3>1. \A x \in p : ~(Walk!LastLt(p) < Walk!Lt(x)) /\ Walk!Lt(x) \in Nat
      BY <1>1, <2>1, <2>2, LastOfPage DEF Walk!Before
    <3>2. \E x \in p : Walk!LastLt(p) = Walk!Lt(x)
      BY <2>1, <2>2, LastOfPage
    <3> QED
      BY <2>2, <3>1, <3>2
  <2>4. Walk!LastLt(p) <= Walk!Lt(r) /\ Walk!Lt(r) \in Nat
    BY <1>1, <1>3, <1>4, <1>6, <1>8, <2>2, <2>3
  <2>5. CASE Walk!LastLt(p) = Walk!Lt(r)
    BY <2>1, <2>5 DEF Walk!OnPage
  <2>6. CASE Walk!LastLt(p) < Walk!Lt(r)
    <3>1. p \subseteq Walk!Below(r)
      <4> SUFFICES ASSUME NEW x \in p PROVE x \in Walk!Below(r)
        OBVIOUS
      <4>1. x \in Walk!Rows /\ Walk!Lt(x) \in Nat /\ Walk!Lt(x) <= Walk!LastLt(p)
        BY <1>1, <1>3, <2>3
      <4> QED
        BY <2>2, <2>4, <2>6, <4>1 DEF Walk!Below
    <3>2. shown \subseteq Walk!Below(r)
      <4> SUFFICES ASSUME NEW s \in shown PROVE s \in Walk!Below(r)
        OBVIOUS
      <4>1. PICK x \in p : TRUE
        BY <2>1
      <4>2. /\ s \in Walk!Rows /\ Walk!Lt(s) \in Nat /\ Walk!Lt(x) \in Nat
            /\ ~(Walk!Lt(x) < Walk!Lt(s)) /\ Walk!Lt(x) < Walk!Lt(r)
        BY <1>1, <1>2, <1>3, <3>1 DEF Walk!Below
      <4> QED
        BY <2>4, <4>2 DEF Walk!Below
    <3>3. Cardinality(shown \cup p) = cursor + Cardinality(p)
      <4>1. shown \cap p = {}
        BY <1>3
      <4>2. Cardinality(shown \cap p) = 0
        BY <4>1, FS_EmptySet
      <4> QED
        <5>1. Cardinality(shown \cup p)
                 = Cardinality(shown) + Cardinality(p) - Cardinality(shown \cap p)
          BY <1>5, FS_Union
        <5> QED
          BY <1>1, <1>3, <2>1, <4>2, <5>1
    <3>4. Cardinality(shown \cup p) <= Cardinality(Walk!Below(r))
      BY <1>5, <3>1, <3>2, FS_Subset
    <3> QED
      BY WalkSizes, <1>4, <2>1, <3>3, <3>4
      DEF Walk!OnPage, Walk!Ahead, Walk!NextCursor
  <2> QED
    BY <2>2, <2>4, <2>5, <2>6
<1> QED
  BY <1>7, <1>8

\* An answer shows the rows of its page, and ends at the last of them.
LEMMA AnswerShows ==
  ASSUME Walk!QueryAssumption, Walk!TypeOK, Walk!WalkInv, request # "done",
         NEW p, p \subseteq Walk!Row, Walk!Answer(p), UNCHANGED <<Walk!walk, latest>>
  PROVE  /\ Walk!Shown' = Walk!Shown \cup p
         /\ \A r \in base : Walk!Accounted(r) => Walk!Accounted(r)'
         /\ \A r \in base : r \in p => Walk!Accounted(r)'
         /\ \A r \in base : p # {} /\ Walk!Lt(r) = Walk!LastLt(p) => Walk!Accounted(r)'
<1> DEFINE q == p \cup {<<a, MaxLt>> : a \in named \cap Skipped}
<1>1. q \in SUBSET ((Account \cup Skipped) \X Nat)
  BY DEF Walk!Row, Walk!QueryAssumption
<1>2. answers' = Append(answers, q)
  BY DEF Walk!Answer
<1>3. Walk!Saved(q) = p
  BY DEF Walk!Saved, Walk!Row, Walk!QueryAssumption
<1> HIDE DEF q
<1>4. Walk!Range(answers') = Walk!Range(answers) \cup {q}
  BY <1>1, <1>2 DEF Walk!TypeOK, Walk!Range
<1>5. Walk!Shown' = Walk!Shown \cup p
  BY <1>3, <1>4 DEF Walk!Shown, Walk!Saved
<1>6. \A r \in base : Walk!Tied(r) => Walk!Tied(r)'
  BY <1>4 DEF Walk!Tied, Walk!Saved, Walk!LastLt
<1>7. \A r \in base : p # {} /\ Walk!Lt(r) = Walk!LastLt(p) => Walk!Tied(r)'
  BY <1>3, <1>4 DEF Walk!Tied, Walk!Saved, Walk!LastLt
<1> QED
  BY <1>5, <1>6, <1>7 DEF Walk!Accounted

\* An answer of a page that has, or ends at, or is before, every row that is
\* still to come leaves nothing out.
LEMMA AnswerCompletes ==
  ASSUME Walk!QueryAssumption, Walk!TypeOK, Walk!WalkInv, request # "done",
         NEW p, p \subseteq Walk!Row, Walk!Answer(p),
         \/ p = {} /\ Walk!NoneCounted
         \/ \A r \in base :
               \/ Walk!Accounted(r)
               \/ /\ Walk!OnPage(r, p)
                  /\ named \cap Skipped # {}
                        => r \in p \/ Cardinality(p) >= pageLimit,
         UNCHANGED <<Walk!walk, stored, latest, counted, walkSaving>>
  PROVE  Walk!ComeInv'
<1>1. /\ Walk!Shown' = Walk!Shown \cup p
      /\ \A r \in base : Walk!Accounted(r) => Walk!Accounted(r)'
      /\ \A r \in base : r \in p => Walk!Accounted(r)'
      /\ \A r \in base : p # {} /\ Walk!Lt(r) = Walk!LastLt(p) => Walk!Accounted(r)'
  BY AnswerShows
<1>2. \/ request' = "done" /\ p = {}
      \/ request' = "done" /\ named \cap Skipped # {}
      \/ request' = "ask" /\ p # {} /\ cursor' = Walk!NextCursor(p)
  BY DEF Walk!Answer, Walk!NextCursor
<1>3. request' # "count" /\ request' # "select"
  BY <1>2
<1>4. CASE p = {} /\ Walk!NoneCounted
  BY <1>2, <1>3, <1>4
  DEF Walk!ComeInv, Walk!NoneCounted, Walk!HasLatest, Walk!Matching
<1>5. CASE \A r \in base :
              \/ Walk!Accounted(r)
              \/ /\ Walk!OnPage(r, p)
                 /\ named \cap Skipped # {}
                       => r \in p \/ Cardinality(p) >= pageLimit
  <2> SUFFICES ASSUME NEW r \in base
               PROVE  \/ Walk!Accounted(r)'
                      \/ request' = "ask" /\ Walk!Ahead(r, cursor)'
                      \/ /\ request' = "done" /\ named # {}
                         /\ Cardinality(Walk!Shown') >= pageLimit
    BY WalkSizes, <1>3 DEF Walk!ComeInv
  <2>1. CASE Walk!Accounted(r) \/ r \in p \/ (p # {} /\ Walk!Lt(r) = Walk!LastLt(p))
    BY <1>1, <2>1
  <2>2. CASE /\ ~Walk!Accounted(r) /\ r \notin p /\ p # {}
             /\ Walk!Ahead(r, Walk!NextCursor(p))
    <3>1. CASE request' = "ask" /\ cursor' = Walk!NextCursor(p)
      BY <2>2, <3>1
      DEF Walk!Ahead, Walk!Below, Walk!Rows, Walk!Matching, Walk!Before
    <3>2. CASE request' = "done" /\ named \cap Skipped # {}
      <4>1. Cardinality(p) >= pageLimit /\ pageLimit \in Nat
        BY <1>5, <2>2, <3>2 DEF Walk!TypeOK, Walk!QueryAssumption
      <4>2. Walk!Shown = {}
        BY <3>2 DEF Walk!WalkInv, Walk!OneAnswer, Walk!Shown, Walk!Range
      <4>3. Walk!Shown' = p
        BY <1>1, <4>2
      <4> QED
        BY <3>2, <4>1, <4>3
    <3> QED
      BY <1>2, <2>2, <3>1, <3>2
  <2> QED
    BY <1>5, <2>1, <2>2 DEF Walk!OnPage
<1> QED
  BY <1>4, <1>5

\* A selection that is still to be counted leaves nothing out.
LEMMA CountNextCompletes ==
  ASSUME Walk!QueryAssumption, Walk!TypeOK, Walk!WalkInv, request = "ask",
         named = {},
         NEW p, p \subseteq Walk!Row, Walk!CountNext(p),
         \A r \in base : Walk!Accounted(r) \/ Walk!OnPage(r, p),
         UNCHANGED <<Walk!walk, stored, latest, counted, walkSaving>>
  PROVE  Walk!ComeInv'
<1>1. CASE p = {}
  <2>1. Walk!Answer({})
    BY <1>1 DEF Walk!CountNext
  <2> QED
    BY <1>1, <2>1, AnswerCompletes
<1>2. CASE p # {}
  <2>1. page' = p /\ request' = "count" /\ cursor' = cursor /\ answers' = answers
    BY <1>2 DEF Walk!CountNext
  <2>2. \A r \in base : Walk!Accounted(r) => Walk!Accounted(r)'
    BY <2>1 DEF Walk!Accounted, Walk!Tied, Walk!Shown, Walk!Saved, Walk!LastLt
  <2>3. \A r \in base : Walk!OnPage(r, p) => Walk!OnPage(r, page)'
    BY <2>1
    DEF Walk!OnPage, Walk!Ahead, Walk!NextCursor, Walk!Below, Walk!Rows,
        Walk!Matching, Walk!Before, Walk!LastLt
  <2> QED
    BY <1>2, <2>1, <2>2, <2>3 DEF Walk!ComeInv
<1> QED
  BY <1>1, <1>2

\* A step of the request leaves nothing out.
LEMMA RequestCompletes ==
  ASSUME Walk!QueryAssumption, Walk!TypeOK, Walk!WalkInv, Walk!ComeInv,
         Walk!Request,
         UNCHANGED <<Walk!walk, stored, latest, counted, walkSaving>>
  PROVE  Walk!ComeInv'
<1>0. /\ Walk!Selected \subseteq Walk!Rows /\ Walk!Rows \subseteq Walk!Row
      /\ pageLimit \in Nat /\ pageLimit > 0 /\ total \in Nat
      /\ table # "latest" => named = {}
  <2>1. pageLimit \in Nat \ {0}
    BY DEF Walk!TypeOK, Walk!QueryAssumption
  <2> QED
    BY <2>1, RowsTyped DEF Walk!Selected, Walk!TypeOK
<1>1. CASE Walk!CountFirst
  <2>1. CASE Walk!Count = 0
    <3>1. request = "ask" /\ Walk!Answer({}) /\ Walk!NoneCounted
      BY <1>1, <2>1, CountTyped DEF Walk!CountFirst, Walk!NoneCounted
    <3> QED
      BY <3>1, AnswerCompletes
  <2>2. CASE Walk!Count # 0
    <3>1. /\ request = "ask" /\ Walk!HasLatest /\ request' = "select"
          /\ UNCHANGED <<cursor, page, answers>>
      BY <1>1, <2>2 DEF Walk!CountFirst
    <3>2. \A r \in base : Walk!Accounted(r) => Walk!Accounted(r)'
      BY <3>1 DEF Walk!Accounted, Walk!Tied, Walk!Shown, Walk!Saved, Walk!LastLt
    <3>3. \A r \in base : Walk!Ahead(r, cursor) => Walk!Ahead(r, cursor)'
      BY <3>1 DEF Walk!Ahead, Walk!Below, Walk!Rows, Walk!Matching, Walk!Before
    <3> QED
      BY <3>1, <3>2, <3>3 DEF Walk!ComeInv, Walk!HasLatest
  <2> QED
    BY <2>1, <2>2
<1>2. CASE Walk!SelectCounted
  <2> DEFINE n == IF pageLimit < total THEN pageLimit ELSE Cardinality(Walk!Selected)
  <2>1. PICK p \in Walk!FirstOf(n, Walk!Selected) : Walk!Answer(p)
    BY WalkSizes, <1>2 DEF Walk!SelectCounted, Walk!FirstRows
  <2>2. n \in Nat /\ (n > 0 \/ n = Cardinality(Walk!Selected))
    BY <1>0, RowsFinite
  <2>3. request = "select" /\ table # "labels"
    BY <1>2 DEF Walk!SelectCounted, Walk!ComeInv, Walk!HasLatest
  <2>4. n # Cardinality(Walk!Selected) => n = pageLimit
    OBVIOUS
  <2> HIDE DEF n
  <2>5. p \subseteq Walk!Row
    BY <1>0, FirstTyped
  <2>6. ASSUME NEW r \in base, ~Walk!Accounted(r)
        PROVE  Walk!OnPage(r, p) /\ (r \in p \/ Cardinality(p) >= pageLimit)
    <3>1. /\ Walk!OnPage(r, p)
          /\ r \in p \/ (Cardinality(p) = n /\ n # Cardinality(Walk!Selected))
      BY <2>1, <2>2, <2>3, <2>6, SelectedComes
    <3> QED
      BY <1>0, <2>4, <3>1
  <2> QED
    BY <2>1, <2>3, <2>5, <2>6, AnswerCompletes
<1>3. CASE Walk!SelectTransactions \/ Walk!SelectMessages \/ Walk!SelectBlocks
  <2>1. PICK p \in Walk!FirstOf(pageLimit, Walk!Selected) : Walk!CountNext(p)
    BY <1>3
    DEF Walk!SelectTransactions, Walk!SelectMessages, Walk!SelectBlocks,
        Walk!SelectFirst, Walk!FirstRows
  <2>2. request = "ask" /\ table # "labels" /\ named = {}
    BY <1>0, <1>3
    DEF Walk!SelectTransactions, Walk!SelectMessages, Walk!SelectBlocks
  <2>3. p \subseteq Walk!Row
    BY <1>0, FirstTyped
  <2>4. \A r \in base : Walk!Accounted(r) \/ Walk!OnPage(r, p)
    BY <1>0, <2>1, <2>2, SelectedComes
  <2> QED
    BY <2>1, <2>2, <2>3, <2>4, CountNextCompletes
<1>4. CASE Walk!SelectLabels
  <2>1. PICK shown \in Walk!FirstOf(cursor, Walk!Rows) :
          \E p \in Walk!FirstOf(pageLimit, Walk!Rows \ shown) : Walk!CountNext(p)
    BY <1>4 DEF Walk!SelectLabels
  <2>2. PICK p \in Walk!FirstOf(pageLimit, Walk!Rows \ shown) : Walk!CountNext(p)
    BY <2>1
  <2>3. request = "ask" /\ table = "labels" /\ named = {}
    BY <1>0, <1>4 DEF Walk!SelectLabels
  <2>4. p \subseteq Walk!Row
    BY <1>0, FirstTyped
  <2>5. \A r \in base : Walk!Accounted(r) \/ Walk!OnPage(r, p)
    BY <2>3, LabelsCome
  <2> QED
    BY <2>2, <2>3, <2>4, <2>5, CountNextCompletes
<1>5. CASE Walk!CountTransactions \/ Walk!CountMessages \/ Walk!CountBlocks \/ Walk!CountLabels
  <2>1. request = "count" /\ named = {} /\ Walk!Answer(page) /\ page \subseteq Walk!Row
    BY <1>0, <1>5
    DEF Walk!CountTransactions, Walk!CountMessages, Walk!CountBlocks,
        Walk!CountLabels, Walk!TypeOK
  <2>2. \A r \in base : Walk!Accounted(r) \/ Walk!OnPage(r, page)
    BY <2>1 DEF Walk!ComeInv
  <2> QED
    BY <2>1, <2>2, AnswerCompletes
<1> QED
  BY <1>1, <1>2, <1>3, <1>4, <1>5
  DEF Walk!Request, Walk!GetAccounts, Walk!GetTransactions, Walk!GetMessages,
      Walk!GetBlocks, Walk!GetLabels

\* What is saved meanwhile leaves nothing out.
LEMMA SaveCompletes ==
  ASSUME Walk!QueryAssumption, Walk!TypeOK, Walk!WalkInv, Walk!ComeInv,
         NEW b \in Walk!Block, Walk!Save(b),
         request # "done", UNCHANGED <<Walk!walk, request, cursor, total, page, answers>>
  PROVE  Walk!ComeInv'
<1>1. /\ stored \subseteq stored'
      /\ DOMAIN latest \subseteq DOMAIN latest'
      /\ \A a \in DOMAIN latest : latest[a] <= latest'[a]
      /\ \A a \in DOMAIN latest : latest[a] \in Nat
      /\ \A a \in DOMAIN latest' : latest'[a] \in Nat
  BY SaveGrows DEF Walk!TypeOK
<1>2. ASSUME NEW r \in base, Walk!Accounted(r)
      PROVE  Walk!Accounted(r)'
  <2>1. CASE r \in Walk!Shown \/ Walk!Tied(r)
    BY <2>1 DEF Walk!Accounted, Walk!Tied, Walk!Shown, Walk!Saved, Walk!LastLt
  <2>2. CASE /\ table = "latest" /\ r[1] \in DOMAIN latest
             /\ latest[r[1]] > Walk!Lt(r)
    <3>1. r[1] \in DOMAIN latest' /\ latest[r[1]] <= latest'[r[1]]
      BY <1>1, <2>2
    <3>2. latest[r[1]] \in Nat /\ latest'[r[1]] \in Nat /\ Walk!Lt(r) \in Nat
      BY <1>1, <2>2, <3>1 DEF Walk!TypeOK, Walk!Row, Walk!Lt
    <3>3. latest'[r[1]] > Walk!Lt(r)
      BY <2>2, <3>1, <3>2
    <3> QED
      BY <2>2, <3>1, <3>3 DEF Walk!Accounted
  <2> QED
    BY <1>2, <2>1, <2>2 DEF Walk!Accounted
<1>3. ASSUME NEW r \in base, NEW c, table = "labels" => c \in Nat, Walk!Ahead(r, c)
      PROVE  \/ /\ r \in Walk!Rows'
                /\ IF table = "labels" THEN c <= Cardinality(Walk!Below(r)')
                   ELSE Walk!Before(c, Walk!Lt(r))
             \/ Walk!Accounted(r)'
  <2>1. CASE table # "latest"
    <3>1. Walk!Rows \subseteq Walk!Rows' /\ r \in Walk!Rows'
      BY <1>1, <1>3, <2>1 DEF Walk!Rows, Walk!Matching, Walk!Ahead
    <3>2. CASE table = "labels"
      <4>1. Walk!Below(r) \subseteq Walk!Below(r)'
        BY <3>1 DEF Walk!Below
      <4>2. Walk!Below(r)' \subseteq Walk!Row
        BY <2>1, SaveKeeps DEF Walk!Below, Walk!Rows, Walk!Matching, Walk!TypeOK
      <4>3. /\ Cardinality(Walk!Below(r)) \in Nat /\ Cardinality(Walk!Below(r)') \in Nat
            /\ Cardinality(Walk!Below(r)) <= Cardinality(Walk!Below(r)')
        BY <4>1, <4>2, RowsFinite, FS_Subset
      <4>4. c <= Cardinality(Walk!Below(r)) /\ c \in Nat
        BY WalkSizes, <1>3, <3>2 DEF Walk!Ahead
      <4>5. c <= Cardinality(Walk!Below(r)')
        BY <4>3, <4>4
      <4> QED
        BY <3>1, <3>2, <4>5
    <3>3. CASE table # "labels"
      BY <1>3, <3>1, <3>3 DEF Walk!Ahead
    <3> QED
      BY <3>2, <3>3
  <2>2. CASE table = "latest"
    <3>1. /\ r \in Walk!Rows /\ r[1] \in DOMAIN latest /\ Walk!Lt(r) = latest[r[1]]
          /\ Walk!Before(c, Walk!Lt(r)) /\ r = <<r[1], latest[r[1]]>>
      BY <1>3, <2>2, RowsTyped DEF Walk!Ahead, Walk!TypeOK, Walk!Row, Walk!Lt
    <3>2. CASE latest'[r[1]] = latest[r[1]]
      <4>1. r[1] \in DOMAIN latest' /\ r = <<r[1], latest'[r[1]]>>
        BY <1>1, <3>1, <3>2
      <4>2. r \in Walk!Rows'
        BY <2>2, <3>1, <4>1 DEF Walk!Rows, Walk!Matching
      <4> QED
        BY <2>2, <3>1, <4>2
    <3>3. CASE latest'[r[1]] # latest[r[1]]
      <4>1. /\ latest[r[1]] \in Nat /\ latest'[r[1]] \in Nat
            /\ latest[r[1]] <= latest'[r[1]]
            /\ r[1] \in DOMAIN latest'
        BY <1>1, <3>1
      <4>2. latest'[r[1]] > Walk!Lt(r)
        BY <3>1, <3>3, <4>1
      <4> QED
        BY <2>2, <4>1, <4>2 DEF Walk!Accounted
    <3> QED
      BY <3>2, <3>3
  <2> QED
    BY <2>1, <2>2
<1>4. ASSUME NEW r \in base, Walk!Ahead(r, cursor)
      PROVE  Walk!Ahead(r, cursor)' \/ Walk!Accounted(r)'
  <2>1. cursor \in Nat
    BY DEF Walk!TypeOK
  <2> QED
    BY WalkSizes, <1>3, <1>4, <2>1 DEF Walk!Ahead, Walk!Before
<1>5. ASSUME NEW r \in base, Walk!OnPage(r, page)
      PROVE  Walk!OnPage(r, page)' \/ Walk!Accounted(r)'
  <2>1. CASE r \in page \/ Walk!Lt(r) = Walk!LastLt(page)
    BY <1>5, <2>1 DEF Walk!OnPage, Walk!LastLt
  <2>2. CASE Walk!Ahead(r, Walk!NextCursor(page))
    <3>1. table = "labels" => Walk!NextCursor(page) \in Nat
      BY WalkSizes, RowsFinite DEF Walk!NextCursor, Walk!TypeOK
    <3>2. Walk!NextCursor(page)' = Walk!NextCursor(page)
      BY DEF Walk!NextCursor, Walk!LastLt
    <3>3. Walk!Ahead(r, Walk!NextCursor(page))' \/ Walk!Accounted(r)'
      BY WalkSizes, <1>3, <2>2, <3>1, <3>2 DEF Walk!Ahead, Walk!Before
    <3> QED
      BY <1>5, <3>3 DEF Walk!OnPage
  <2> QED
    BY <1>5, <2>1, <2>2 DEF Walk!OnPage
<1> QED
  BY <1>2, <1>4, <1>5 DEF Walk!ComeInv, Walk!HasLatest

\* At the start every row is ahead of the cursor.
LEMMA StartCompletes ==
  ASSUME Walk!QueryAssumption, Walk!Init
  PROVE  Walk!ComeInv
<1>1. Walk!TypeOK
  BY WalkStarts
<1>2. SUFFICES ASSUME NEW r \in Walk!Rows PROVE Walk!Ahead(r, cursor)
  BY DEF Walk!Init, Walk!ComeInv
<1>3. CASE table = "labels"
  <2>1. cursor = 0
    BY <1>3 DEF Walk!Init
  <2>2. Walk!Below(r) \subseteq Walk!Row
    BY <1>1, RowsTyped DEF Walk!Below
  <2>3. Cardinality(Walk!Below(r)) \in Nat
    BY <2>2, RowsFinite
  <2> QED
    BY WalkSizes, <1>3, <2>1, <2>3 DEF Walk!Ahead
<1>4. CASE table # "labels"
  <2>1. Walk!Lt(r) \in 1..MaxLt /\ MaxLt \in Nat
    BY <1>1, RowsTyped DEF Walk!Row, Walk!Lt, Walk!QueryAssumption
  <2> QED
    BY <1>4, <2>1 DEF Walk!Ahead, Walk!Before, Walk!Init
<1> QED
  BY <1>3, <1>4

\* A walk in order leaves nothing out.
LEMMA WalkCompletes ==
  ASSUME Walk!QueryAssumption
  PROVE  Walk!Spec => []Walk!WalkComplete
<1>1. Walk!Init => Walk!ComeInv
  BY StartCompletes
<1>2. Walk!TypeOK /\ Walk!WalkInv /\ Walk!ComeInv /\ [Walk!Next]_(Walk!vars) => Walk!ComeInv'
  <2> SUFFICES ASSUME Walk!TypeOK, Walk!WalkInv, Walk!ComeInv,
                      [Walk!Next]_(Walk!vars)
               PROVE  Walk!ComeInv'
    OBVIOUS
  <2>1. CASE UNCHANGED Walk!vars
    <3>1. \A r \in base : Walk!Accounted(r) => Walk!Accounted(r)'
      BY <2>1
      DEF Walk!vars, Walk!Accounted, Walk!Tied, Walk!Shown, Walk!Saved,
          Walk!LastLt
    <3>2. \A r \in base : Walk!Ahead(r, cursor) => Walk!Ahead(r, cursor)'
      BY <2>1
      DEF Walk!vars, Walk!Ahead, Walk!Below, Walk!Rows, Walk!Matching,
          Walk!Before
    <3>3. \A r \in base : Walk!OnPage(r, page) => Walk!OnPage(r, page)'
      BY <2>1
      DEF Walk!vars, Walk!OnPage, Walk!Ahead, Walk!NextCursor, Walk!Below,
          Walk!Rows, Walk!Matching, Walk!Before, Walk!LastLt
    <3>4. Walk!Shown' = Walk!Shown /\ (Walk!NoneCounted => Walk!NoneCounted')
      BY <2>1
      DEF Walk!vars, Walk!Shown, Walk!Saved, Walk!NoneCounted, Walk!HasLatest,
          Walk!Matching
    <3> QED
      BY <2>1, <3>1, <3>2, <3>3, <3>4 DEF Walk!vars, Walk!ComeInv, Walk!HasLatest
  <2> QED
    BY <2>1, RequestCompletes, SaveCompletes DEF Walk!Next
<1>3. Walk!ComeInv => Walk!WalkComplete
  BY DEF Walk!ComeInv, Walk!WalkComplete, Walk!Accounted, Walk!Tied,
         Walk!NoneCounted
<1> QED
  BY <1>1, <1>2, <1>3, WalkCorrect, PTL DEF Walk!Spec

\* Every row that was there at the start of the walk is shown by its end,
\* whatever is saved meanwhile, but for those that WalkComplete names.  A row
\* that was not shown stays ahead of the cursor: pages take what is first in
\* the order, and an upsert moves a latest row only to a newer state.
THEOREM EveryRowComes ==
  PartsSpec => []WalkComplete
<1>1. Walk!QueryAssumption
  BY PartsAssumption
<1> QED
  BY <1>1, WalkIsPart, WalkCompletes, PTL DEF WalkComplete

-----------------------------------------------------------------------------
\* The shard blocks of a masterchain block.

\* Induction over a set of numbers.
LEMMA NumbersInduction ==
  ASSUME NEW S, S \subseteq Nat, 0 \in S, \A n \in S : n + 1 \in S
  PROVE  S = Nat
<1>1. SUFFICES ASSUME Nat \ S # {} PROVE FALSE
  OBVIOUS
<1> DEFINE G == Nat \ S
<1>2. PICK x \in G : \A y \in G : x <= y
  <2>1. G \subseteq Nat /\ G # {}
    BY <1>1
  <2> HIDE DEF G
  <2> QED
    BY <2>1, LeastExists
<1>3. x \in Nat /\ x # 0 /\ x - 1 \in Nat
  BY <1>2
<1>4. x - 1 \notin G
  BY <1>2, <1>3
<1>5. (x - 1) + 1 = x
  BY <1>3
<1> QED
  BY <1>2, <1>3, <1>4, <1>5

\* What FlattenSeq makes of sequences, step by step.
LEMMA FlattenSteps ==
  ASSUME NEW seqs, NEW n \in Nat, Len(seqs) = n, n # 0
  PROVE  \E f : /\ f = [i \in 1..n |-> IF i = 1 THEN seqs[i] ELSE f[i - 1] \o seqs[i]]
                /\ Find!FlattenSeq(seqs) = f[n]
<1> DEFINE Flat(k) == \E f : f = [i \in 1..k |->
                                 IF i = 1 THEN seqs[i] ELSE f[i - 1] \o seqs[i]]
           G == {k \in Nat : Flat(k)}
<1>2. Flat(n)
  <2>1. 0 \in G
    <3> DEFINE f == [i \in 1..0 |-> seqs[i]]
    <3>1. f = [i \in 1..0 |-> IF i = 1 THEN seqs[i] ELSE f[i - 1] \o seqs[i]]
      OBVIOUS
    <3> QED
      BY <3>1
  <2>2. ASSUME NEW k \in G PROVE k + 1 \in G
    <3>2. k \in Nat /\ Flat(k)
      OBVIOUS
    <3>4. PICK f : f = [i \in 1..k |->
                           IF i = 1 THEN seqs[i] ELSE f[i - 1] \o seqs[i]]
      BY <3>2
    <3> DEFINE g == [i \in 1..(k + 1) |->
                        IF i = 1 THEN seqs[i] ELSE f[i - 1] \o seqs[i]]
    <3>5. ASSUME NEW i \in 1..(k + 1), i # 1 PROVE g[i - 1] = f[i - 1]
      <4>1. i - 1 \in 1..k /\ i - 1 \in 1..(k + 1)
        BY <3>2, <3>5
      <4> HIDE DEF g
      <4>2. g[i - 1] = IF i - 1 = 1 THEN seqs[i - 1] ELSE f[(i - 1) - 1] \o seqs[i - 1]
        BY <4>1 DEF g
      <4>3. f[i - 1] = IF i - 1 = 1 THEN seqs[i - 1] ELSE f[(i - 1) - 1] \o seqs[i - 1]
        BY <3>4, <4>1
      <4> QED
        BY <4>2, <4>3
    <3>6. g = [i \in 1..(k + 1) |->
                  IF i = 1 THEN seqs[i] ELSE g[i - 1] \o seqs[i]]
      BY <3>5
    <3>7. Flat(k + 1)
      BY <3>6
    <3>8. k + 1 \in Nat
      BY <3>2
    <3> HIDE DEF Flat
    <3> QED
      BY <3>7, <3>8
  <2>3. G \subseteq Nat
    OBVIOUS
  <2> HIDE DEF G
  <2>4. n \in G
    BY <2>1, <2>2, <2>3, NumbersInduction
  <2> QED
    BY <2>4 DEF G
<1> DEFINE flatten == CHOOSE f : f = [i \in 1..n |->
                           IF i = 1 THEN seqs[i] ELSE f[i - 1] \o seqs[i]]
<1>3. flatten = [i \in 1..n |->
                    IF i = 1 THEN seqs[i] ELSE flatten[i - 1] \o seqs[i]]
  BY <1>2, Zenon
<1>4. Find!FlattenSeq(seqs) = flatten[n]
  <2>1. Find!FlattenSeq(seqs) = IF Len(seqs) = 0 THEN seqs
            ELSE (CHOOSE f : f = [i \in 1..Len(seqs) |->
                      IF i = 1 THEN seqs[i] ELSE f[i - 1] \o seqs[i]])[Len(seqs)]
    BY Zenon DEF Find!FlattenSeq
  <2> QED
    BY <2>1
<1> HIDE DEF flatten
<1> QED
  BY <1>3, <1>4

\* One sequence, or two.
LEMMA FlattenOne ==
  ASSUME NEW s
  PROVE  Find!FlattenSeq(<<s>>) = s
<1>1. Len(<<s>>) = 1 /\ 1 \in Nat /\ 1 # 0
  OBVIOUS
<1>2. PICK f : /\ f = [i \in 1..1 |-> IF i = 1 THEN <<s>>[i] ELSE f[i - 1] \o <<s>>[i]]
               /\ Find!FlattenSeq(<<s>>) = f[1]
  BY <1>1, FlattenSteps, Zenon
<1> QED
  BY <1>2

LEMMA FlattenTwo ==
  ASSUME NEW s, NEW t
  PROVE  Find!FlattenSeq(<<s, t>>) = s \o t
<1> DEFINE seqs == <<s, t>>
<1>1. Len(seqs) = 2 /\ 2 \in Nat /\ 2 # 0 /\ seqs[1] = s /\ seqs[2] = t
  OBVIOUS
<1> HIDE DEF seqs
<1>2. PICK f : /\ f = [i \in 1..2 |-> IF i = 1 THEN seqs[i] ELSE f[i - 1] \o seqs[i]]
               /\ Find!FlattenSeq(seqs) = f[2]
  BY <1>1, FlattenSteps, Zenon
<1>3. f[1] = seqs[1]
  BY <1>2
<1>4. f[2] = f[2 - 1] \o seqs[2]
  <2>1. 2 \in 1..2 /\ 2 # 1
    OBVIOUS
  <2> QED
    BY <1>2, <2>1
<1>5. f[2] = f[1] \o seqs[2]
  BY <1>4
<1> QED
  BY <1>1, <1>2, <1>3, <1>5 DEF seqs

\* Sequences that are all empty.
LEMMA FlattenNone ==
  ASSUME NEW seqs, NEW n \in Nat, Len(seqs) = n, \A i \in 1..n : seqs[i] = <<>>,
         n = 0 => seqs = <<>>
  PROVE  Find!FlattenSeq(seqs) = <<>>
<1>1. CASE n = 0
  <2>1. Find!FlattenSeq(seqs) = seqs
    BY <1>1 DEF Find!FlattenSeq
  <2> QED
    BY <1>1, <2>1
<1>2. CASE n # 0
  <2>1. PICK f : /\ f = [i \in 1..n |-> IF i = 1 THEN seqs[i] ELSE f[i - 1] \o seqs[i]]
                 /\ Find!FlattenSeq(seqs) = f[n]
    BY <1>2, FlattenSteps, Zenon
  <2> DEFINE H == {k \in Nat : k \in 1..n => f[k] = <<>>}
  <2>2. 0 \in H
    OBVIOUS
  <2>3. ASSUME NEW k \in H PROVE k + 1 \in H
    <3>1. SUFFICES ASSUME k + 1 \in 1..n PROVE f[k + 1] = <<>>
      OBVIOUS
    <3>2. seqs[k + 1] = <<>>
      BY <3>1
    <3>3. CASE k = 0
      BY <2>1, <3>1, <3>2, <3>3
    <3>4. CASE k # 0
      <4>1. k \in 1..n /\ (k + 1) - 1 = k /\ k + 1 # 1
        BY <3>1, <3>4
      <4>2. f[k + 1] = f[k] \o seqs[k + 1]
        BY <2>1, <3>1, <4>1
      <4> QED
        BY <3>2, <4>1, <4>2
    <3> QED
      BY <3>3, <3>4
  <2>4. H \subseteq Nat
    OBVIOUS
  <2> HIDE DEF H
  <2>5. n \in H
    BY <2>2, <2>3, <2>4, NumbersInduction
  <2> QED
    BY <1>2, <2>1, <2>5 DEF H
<1> QED
  BY <1>1, <1>2

\* There is a first masterchain block.
LEMMA LatestTyped ==
  ASSUME Find!TipsOK
  PROVE  /\ Find!Latest \in Nat /\ Len(tips) = Find!Latest + 1
         /\ 0 \in 0..Find!Latest /\ Find!Latest \in 0..Find!Latest
<1>1. tips \in Seq(SUBSET (Find!Shard \X Nat)) /\ tips # <<>>
  BY DEF Find!TipsOK
<1>2. Len(tips) \in Nat \ {0}
  BY <1>1, EmptySeq
<1> QED
  BY <1>2 DEF Find!Latest

\* The shards' last blocks are what they should be, and bounded.
LEMMA TipsTyped ==
  ASSUME Find!TipsOK, NEW m \in 0..Find!Latest
  PROVE  /\ Find!Latest \in Nat
         /\ \A t \in Find!Tips(m) :
               t = <<t[1], t[2]>> /\ t[1] \in Find!Shard /\ t[2] \in Nat
<1>1. tips \in Seq(SUBSET (Find!Shard \X Nat)) /\ tips # <<>>
  BY DEF Find!TipsOK
<1>2. Len(tips) \in Nat \ {0}
  BY <1>1, EmptySeq
<1>3. m + 1 \in 1..Len(tips)
  BY <1>2 DEF Find!Latest
<1>4. tips[m + 1] \in SUBSET (Find!Shard \X Nat)
  BY <1>1, <1>3, ElementOfSeq
<1> QED
  BY <1>2, <1>4 DEF Find!Latest, Find!Tips

\* Of a masterchain block that names shards one overlaps any shard.
LEMMA RelatedExists ==
  ASSUME Find!TipsOK, NEW m \in 0..Find!Latest, Find!Tips(m) # {},
         NEW s \in Find!Shard
  PROVE  \E u \in Find!Tips(m) : Find!Related(s, u[1])
<1>1. {t[1] : t \in Find!Tips(m)} \in {{}, {"full"}, Find!Halves}
  BY DEF Find!TipsOK
<1>2. CASE {t[1] : t \in Find!Tips(m)} = {"full"}
  BY <1>2 DEF Find!Related
<1>3. CASE {t[1] : t \in Find!Tips(m)} = Find!Halves
  BY <1>3 DEF Find!Related, Find!Shard, Find!Halves
<1> QED
  BY <1>1, <1>2, <1>3

\* A new block belongs to a named shard and comes after all that came before.
LEMMA NewTyped ==
  ASSUME Find!TipsOK, NEW m \in 1..Find!Latest, NEW b \in Find!New(m)
  PROVE  /\ b = <<b[1], b[2]>> /\ b[1] \in Find!Shard /\ b[2] \in Nat \ {0}
         /\ \E t \in Find!Tips(m) : t[1] = b[1] /\ b[2] <= t[2]
         /\ Find!Tips(m - 1) # {}
         /\ \A u \in Find!Tips(m - 1) : Find!Related(u[1], b[1]) => u[2] < b[2]
<1>0. m \in 0..Find!Latest
  BY DEF Find!Latest
<1>1. PICK t \in Find!Tips(m) : \E n \in 1..t[2] : b = <<t[1], n>>
  BY DEF Find!New, Find!Block, Find!Number
<1>2. t[1] \in Find!Shard /\ t[2] \in Nat
  BY <1>0, TipsTyped
<1>3. b = <<b[1], b[2]>> /\ b[1] = t[1] /\ b[2] \in Nat \ {0} /\ b[2] <= t[2]
  BY <1>1, <1>2
<1>4. /\ Find!Tips(m - 1) # {}
      /\ \A u \in Find!Tips(m - 1) : Find!Related(u[1], b[1]) => u[2] < b[2]
  BY DEF Find!New, Find!Number
<1> QED
  BY <1>1, <1>2, <1>3, <1>4

LEMMA NewIs ==
  ASSUME NEW m, NEW t \in Find!Tips(m), NEW n \in Nat, 1 <= n, n <= t[2],
         t[2] \in Nat, Find!Tips(m - 1) # {},
         \A u \in Find!Tips(m - 1) : Find!Related(u[1], t[1]) => u[2] < n
  PROVE  <<t[1], n>> \in Find!New(m)
<1>1. n \in 1..t[2]
  OBVIOUS
<1> QED
  BY <1>1 DEF Find!New, Find!Block, Find!Number

\* No block is new twice.
LEMMA NewOnce ==
  ASSUME Find!TipsOK, Find!TipsGrow,
         NEW i \in 1..Find!Latest, NEW j \in 1..Find!Latest, i < j
  PROVE  Find!New(i) \cap Find!New(j) = {}
<1> SUFFICES ASSUME NEW b \in Find!New(i), b \in Find!New(j) PROVE FALSE
  OBVIOUS
<1>1. PICK t \in Find!Tips(i) : t[1] = b[1] /\ b[2] <= t[2]
  BY NewTyped
<1>2. /\ b[1] \in Find!Shard /\ b[2] \in Nat
      /\ Find!Tips(j - 1) # {}
      /\ \A u \in Find!Tips(j - 1) : Find!Related(u[1], b[1]) => u[2] < b[2]
  BY NewTyped
<1>3. i \in 0..Find!Latest /\ j - 1 \in 0..Find!Latest /\ i <= j - 1
  BY DEF Find!Latest
<1>4. t[2] \in Nat
  BY <1>3, TipsTyped
<1>5. CASE i = j - 1
  BY <1>1, <1>2, <1>4, <1>5 DEF Find!Related
<1>6. CASE i < j - 1
  <2>1. PICK u \in Find!Tips(j - 1) : Find!Related(b[1], u[1])
    BY <1>2, <1>3, RelatedExists
  <2>2. Find!Related(u[1], b[1]) /\ Find!Related(t[1], u[1])
    BY <1>1, <2>1 DEF Find!Related
  <2>3. u[2] \in Nat
    BY <1>3, TipsTyped
  <2>4. t[2] <= u[2]
    <3>1. IF t[1] = u[1] THEN t[2] <= u[2] ELSE t[2] < u[2]
      BY <1>3, <1>6, <2>2 DEF Find!TipsGrow, Find!Number
    <3> QED
      BY <1>4, <2>3, <3>1
  <2> QED
    BY <1>1, <1>2, <1>4, <2>2, <2>3, <2>4
<1> QED
  BY <1>3, <1>5, <1>6

\* The new blocks of a shard have no gap.
LEMMA NewBelow ==
  ASSUME Find!TipsOK, NEW m \in 1..Find!Latest,
         NEW b \in Find!New(m), NEW c \in Find!New(m), c[1] = b[1], c[2] < b[2]
  PROVE  <<b[1], b[2] - 1>> \in Find!New(m)
<1>1. PICK t \in Find!Tips(m) : t[1] = b[1] /\ b[2] <= t[2]
  BY NewTyped
<1>2. /\ b[2] \in Nat \ {0} /\ c[2] \in Nat \ {0}
      /\ Find!Tips(m - 1) # {}
      /\ \A u \in Find!Tips(m - 1) : Find!Related(u[1], c[1]) => u[2] < c[2]
  BY NewTyped
<1>3. m \in 0..Find!Latest /\ m - 1 \in 0..Find!Latest
  BY DEF Find!Latest
<1>4. t[2] \in Nat /\ \A u \in Find!Tips(m - 1) : u[2] \in Nat
  BY <1>3, TipsTyped
<1>5. \A u \in Find!Tips(m - 1) : Find!Related(u[1], t[1]) => u[2] < b[2] - 1
  BY <1>1, <1>2, <1>4
<1>6. b[2] - 1 \in Nat /\ 1 <= b[2] - 1 /\ b[2] - 1 <= t[2]
  BY <1>1, <1>2, <1>4
<1>7. <<t[1], b[2] - 1>> \in Find!New(m)
  BY <1>2, <1>4, <1>5, <1>6, NewIs
<1> QED
  BY <1>1, <1>7

\* A named block that is no zero state was new once.
LEMMA TipWasNew ==
  ASSUME Find!ChainInv, NEW m \in 0..Find!Latest, NEW t \in Find!Tips(m), t[2] # 0
  PROVE  t \in DOMAIN parents
<1> DEFINE H == {k \in Nat : k \in 0..Find!Latest =>
                    \A u \in Find!Tips(k) : u[2] # 0 => u \in DOMAIN parents}
<1>1. 0 \in H
  BY DEF Find!ChainInv, Find!Number
<1>2. ASSUME NEW k \in H PROVE k + 1 \in H
  <2>1. SUFFICES ASSUME k + 1 \in 0..Find!Latest, NEW u \in Find!Tips(k + 1), u[2] # 0
                 PROVE  u \in DOMAIN parents
    OBVIOUS
  <2>2. Find!Latest \in Nat /\ k \in 0..Find!Latest /\ k + 1 \in 1..Find!Latest /\ (k + 1) - 1 = k
    BY <2>1, TipsTyped DEF Find!ChainInv
  <2>3. u \in Find!Tips(k) \cup Find!New(k + 1)
    <3>1. \A n \in 1..Find!Latest : \A v \in Find!Tips(n) :
             \/ v \in Find!Tips(n - 1) \cup Find!New(n)
             \/ Find!Tips(n - 1) = {} /\ Find!Number(v) = 0
      BY DEF Find!ChainInv
    <3> QED
      BY <2>1, <2>2, <3>1 DEF Find!Number
  <2>4. Find!New(k + 1) \subseteq DOMAIN parents
    BY <2>2 DEF Find!ChainInv
  <2> QED
    BY <2>1, <2>2, <2>3, <2>4
<1>3. H \subseteq Nat /\ m \in Nat
  OBVIOUS
<1> HIDE DEF H
<1>4. m \in H
  BY <1>1, <1>2, <1>3, NumbersInduction
<1> QED
  BY <1>4 DEF H

\* The blocks a walk may meet: their parents are such blocks with smaller
\* numbers.
LEMMA ParentsBelow ==
  ASSUME Find!ChainInv, NEW b \in DOMAIN parents \cup UNION Find!Range(tips)
  PROVE  /\ b[2] \in Nat
         /\ b[2] # 0 => /\ b \in DOMAIN parents
                        /\ \A i \in DOMAIN parents[b] :
                              /\ parents[b][i] \in DOMAIN parents \cup UNION Find!Range(tips)
                              /\ parents[b][i][2] < b[2]
<1>0. Find!TipsOK /\ Find!Latest \in Nat /\ 0 \in 0..Find!Latest
  BY LatestTyped DEF Find!ChainInv
<1>1. \A m \in 0..Find!Latest : Find!Tips(m) \subseteq UNION Find!Range(tips)
  <2> SUFFICES ASSUME NEW m \in 0..Find!Latest
               PROVE  Find!Tips(m) \in Find!Range(tips)
    OBVIOUS
  <2>1. m + 1 \in DOMAIN tips
    BY <1>0, LenProperties DEF Find!TipsOK, Find!Latest
  <2> QED
    BY <2>1 DEF Find!Range, Find!Tips
<1>2. CASE b \in DOMAIN parents
  <2>1. PICK m \in 1..Find!Latest : b \in Find!New(m)
    BY <1>2 DEF Find!ChainInv
  <2>2. Find!Behind(b, m)
    BY <2>1 DEF Find!ChainInv
  <2>3. b[2] \in Nat
    BY <1>0, <2>1, NewTyped
  <2>4. m - 1 \in 0..Find!Latest
    BY <1>0
  <2>5. ASSUME NEW i \in DOMAIN parents[b]
        PROVE  /\ parents[b][i] \in DOMAIN parents \cup UNION Find!Range(tips)
               /\ parents[b][i][2] < b[2]
    <3> DEFINE below == <<b[1], b[2] - 1>>
    <3>1. CASE below \in Find!New(m)
      <4>1. parents[b] = <<below>>
        BY <2>2, <3>1 DEF Find!Behind, Find!Block, Find!Number
      <4>2. i = 1 /\ parents[b][i] = below
        BY <4>1
      <4>3. below \in DOMAIN parents
        BY <2>1, <3>1 DEF Find!ChainInv
      <4> QED
        BY <2>3, <4>2, <4>3
    <3>2. CASE below \notin Find!New(m)
      <4>1. /\ parents[b] \in Seq(Find!Tips(m - 1))
            /\ parents[b][i][2] < b[2]
        BY <2>2, <3>2 DEF Find!Behind, Find!Block, Find!Number
      <4>2. parents[b][i] \in Find!Tips(m - 1)
        BY <4>1, LenProperties
      <4> QED
        BY <1>1, <2>4, <4>1, <4>2
    <3> QED
      BY <3>1, <3>2
  <2> QED
    BY <1>2, <2>3, <2>5
<1>3. CASE b \notin DOMAIN parents
  <2>1. PICK k \in DOMAIN tips : b \in tips[k]
    BY <1>3 DEF Find!Range
  <2>2. k - 1 \in 0..Find!Latest /\ (k - 1) + 1 = k
    BY <1>0, <2>1, LenProperties DEF Find!TipsOK, Find!Latest
  <2>3. b \in Find!Tips(k - 1)
    BY <2>1, <2>2 DEF Find!Tips
  <2>4. b[2] \in Nat
    BY <1>0, <2>2, <2>3, TipsTyped
  <2>5. b[2] = 0
    BY <1>3, <2>2, <2>3, TipWasNew
  <2> QED
    BY <2>4, <2>5
<1> QED
  BY <1>2, <1>3

\* Numbers are bounded by those of the latest masterchain block.
LEMMA NumbersBounded ==
  ASSUME Find!ChainInv
  PROVE  \E n \in Nat : \A b \in DOMAIN parents \cup UNION Find!Range(tips) : b[2] < n
<1>0. /\ Find!TipsOK /\ Find!TipsGrow
      /\ Find!Latest \in Nat /\ Find!Latest \in 0..Find!Latest
  BY LatestTyped DEF Find!ChainInv
<1> DEFINE prior == Find!Tips(Find!Latest)
<1>1. \E n \in Nat : \A t \in prior : t[2] <= n
  <2>1. \A t \in prior : t[2] \in Nat
    BY <1>0, TipsTyped
  <2>2. \A t, u \in prior : t[1] = u[1] => t = u
    BY <1>0 DEF Find!TipsOK
  <2>3. {t[1] : t \in prior} \in {{}, {"full"}, Find!Halves}
    BY <1>0 DEF Find!TipsOK
  <2> HIDE DEF prior
  <2>4. CASE {t[1] : t \in prior} = {}
    BY <2>4
  <2>5. CASE {t[1] : t \in prior} = {"full"}
    <3>1. PICK t \in prior : t[1] = "full"
      BY <2>5
    <3>2. \A u \in prior : u = t
      BY <2>2, <2>5, <3>1
    <3> QED
      BY <2>1, <3>1, <3>2
  <2>6. CASE {t[1] : t \in prior} = Find!Halves
    <3>1. PICK l \in prior, r \in prior : l[1] = "left" /\ r[1] = "right"
      BY <2>6 DEF Find!Halves
    <3>2. \A u \in prior : u = l \/ u = r
      BY <2>2, <2>6, <3>1 DEF Find!Halves
    <3>3. l[2] + r[2] \in Nat /\ l[2] <= l[2] + r[2] /\ r[2] <= l[2] + r[2]
      BY <2>1, <3>1
    <3> QED
      BY <3>2, <3>3
  <2> QED
    BY <2>3, <2>4, <2>5, <2>6
<1>2. PICK n \in Nat : \A t \in prior : t[2] <= n
  BY <1>1
<1>3. ASSUME NEW m \in 0..Find!Latest, NEW t \in Find!Tips(m) PROVE t[2] <= n
  <2>1. CASE m = Find!Latest
    BY <1>2, <2>1
  <2>2. CASE m # Find!Latest
    <3>1. m < Find!Latest
      BY <1>0, <2>2
    <3>2. prior # {}
      BY <1>0, <3>1 DEF Find!TipsGrow
    <3>3. t[1] \in Find!Shard /\ t[2] \in Nat
      BY <1>0, TipsTyped
    <3>4. PICK u \in prior : Find!Related(t[1], u[1])
      BY <1>0, <3>2, <3>3, RelatedExists
    <3>5. u[2] \in Nat /\ u[2] <= n
      BY <1>0, <1>2, <3>4, TipsTyped
    <3>6. IF t[1] = u[1] THEN t[2] <= u[2] ELSE t[2] < u[2]
      BY <1>0, <3>1, <3>4 DEF Find!TipsGrow, Find!Number
    <3> QED
      BY <3>3, <3>5, <3>6
  <2> QED
    BY <2>1, <2>2
<1>4. ASSUME NEW b \in DOMAIN parents \cup UNION Find!Range(tips)
      PROVE  b[2] < n + 1
  <2>1. CASE b \in DOMAIN parents
    <3>1. PICK m \in 1..Find!Latest : b \in Find!New(m)
      BY <2>1 DEF Find!ChainInv
    <3>2. m \in 0..Find!Latest /\ b[2] \in Nat
      BY <1>0, <3>1, NewTyped
    <3>3. PICK t \in Find!Tips(m) : b[2] <= t[2]
      BY <1>0, <3>1, NewTyped
    <3>4. t[2] \in Nat /\ t[2] <= n
      BY <1>0, <1>3, <3>2, <3>3, TipsTyped
    <3> QED
      BY <3>2, <3>3, <3>4
  <2>2. CASE b \notin DOMAIN parents
    <3>1. PICK k \in DOMAIN tips : b \in tips[k]
      BY <2>2 DEF Find!Range
    <3>2. k - 1 \in 0..Find!Latest /\ (k - 1) + 1 = k
      BY <1>0, <3>1, LenProperties DEF Find!TipsOK, Find!Latest
    <3>3. b \in Find!Tips(k - 1)
      BY <3>1, <3>2 DEF Find!Tips
    <3>4. b[2] \in Nat /\ b[2] <= n
      BY <1>0, <1>3, <3>2, <3>3, TipsTyped
    <3> QED
      BY <3>4
  <2> QED
    BY <2>1, <2>2
<1>5. n + 1 \in Nat
  BY <1>2
<1> QED
  BY <1>4, <1>5

\* The walk is a function that its definition describes.
LEMMA WalkIsFunction ==
  ASSUME Find!ChainInv, NEW seen
  PROVE  \E w : /\ w = [b \in DOMAIN parents \cup UNION Find!Range(tips) |->
                         IF b \in seen THEN <<>>
                         ELSE IF b[2] = 0 THEN <<b>>
                         ELSE Find!FlattenSeq([i \in DOMAIN parents[b] |->
                                                  w[parents[b][i]]]) \o <<b>>]
                /\ \A b : Find!NotSeen(b, seen) = w[b]
<1> DEFINE D == DOMAIN parents \cup UNION Find!Range(tips)
           Below(n) == {b \in D : b[2] < n}
           Rest(w, b) == Find!FlattenSeq([i \in DOMAIN parents[b] |-> w[parents[b][i]]])
           Body(w, b) == IF b \in seen THEN <<>>
                         ELSE IF b[2] = 0 THEN <<b>>
                         ELSE Rest(w, b) \o <<b>>
           H == {n \in Nat : \E w : w = [b \in Below(n) |-> Body(w, b)]}
<1>1. \A b \in D : b[2] \in Nat
  BY ParentsBelow
<1>2. \A b \in D : b[2] # 0 =>
         \A i \in DOMAIN parents[b] : parents[b][i] \in D /\ parents[b][i][2] < b[2]
  BY ParentsBelow
<1>3. 0 \in H
  <2>1. Below(0) = {}
    BY <1>1
  <2> DEFINE w == [b \in {} |-> 0]
  <2> HIDE DEF Body, Below
  <2>2. w = [b \in Below(0) |-> Body(w, b)]
    BY <2>1
  <2> QED
    BY <2>2
<1>4. ASSUME NEW n \in H PROVE n + 1 \in H
  <2>1. n \in Nat /\ n + 1 \in Nat
    OBVIOUS
  <2>2. PICK w : w = [b \in Below(n) |-> Body(w, b)]
    OBVIOUS
  <2> DEFINE g == [b \in Below(n + 1) |-> Body(w, b)]
  <2>3. ASSUME NEW b \in Below(n + 1) PROVE Body(w, b) = Body(g, b)
    <3>1. SUFFICES ASSUME b[2] # 0 PROVE Rest(w, b) = Rest(g, b)
      BY Zenon
    <3>2. b \in D /\ b[2] < n + 1 /\ b[2] \in Nat
      BY <1>1
    <3>3. ASSUME NEW i \in DOMAIN parents[b]
          PROVE  w[parents[b][i]] = g[parents[b][i]]
      <4> DEFINE p == parents[b][i]
      <4>1. p \in D /\ p[2] < b[2] /\ p[2] \in Nat
        BY <1>1, <1>2, <3>1, <3>2
      <4>2. p \in Below(n) /\ p \in Below(n + 1)
        BY <2>1, <3>2, <4>1
      <4> HIDE DEF p, Body, Below
      <4>3. w[p] = Body(w, p)
        BY <2>2, <4>2
      <4>4. g[p] = Body(w, p)
        BY <4>2
      <4> QED
        BY <4>3, <4>4 DEF p
    <3>4. [i \in DOMAIN parents[b] |-> w[parents[b][i]]]
            = [i \in DOMAIN parents[b] |-> g[parents[b][i]]]
      BY <3>3
    <3> QED
      BY <3>4
  <2>4. g = [b \in Below(n + 1) |-> Body(g, b)]
    <3> HIDE DEF Body, Below
    <3> QED
      BY <2>3
  <2>5. \E v : v = [b \in Below(n + 1) |-> Body(v, b)]
    <3> HIDE DEF Body, Below, g
    <3> QED
      BY <2>4
  <2> HIDE DEF Body, Below
  <2> QED
    BY <2>1, <2>5
<1>5. PICK n \in Nat : \A b \in D : b[2] < n
  BY NumbersBounded
<1>6. Below(n) = D
  BY <1>5
<1>7. n \in H
  <2>1. H \subseteq Nat
    OBVIOUS
  <2> HIDE DEF H
  <2> QED
    BY <1>3, <1>4, <2>1, NumbersInduction
<1>8. \E w : w = [b \in D |-> Body(w, b)]
  <2>1. \E w : w = [b \in Below(n) |-> Body(w, b)]
    BY <1>7, Zenon
  <2> HIDE DEF Body, Below, D
  <2> QED
    BY <1>6, <2>1
<1> DEFINE walk == CHOOSE w : w = [b \in D |-> Body(w, b)]
<1>9. walk = [b \in D |-> Body(walk, b)]
  <2> HIDE DEF Body, D
  <2> QED
    BY <1>8, Zenon
<1>10. \A b : Find!NotSeen(b, seen) = walk[b]
  BY Zenon DEF Find!NotSeen, Find!Seen, Find!Number
<1> HIDE DEF walk
<1> QED
  BY <1>9, <1>10

\* A sequence of one value, as a function.
LEMMA OneMap ==
  ASSUME NEW v
  PROVE  [i \in 1..1 |-> v] = <<v>>
<1> DEFINE f == [i \in 1..1 |-> v]
<1>1. f \in Seq({v}) /\ Len(f) = 1 /\ f[1] = v
  OBVIOUS
<1>2. <<v>> \in Seq({v}) /\ Len(<<v>>) = 1 /\ <<v>>[1] = v
  OBVIOUS
<1> HIDE DEF f
<1>3. \A i \in 1..Len(f) : f[i] = <<v>>[i]
  BY <1>1
<1>4. f = <<v>>
  BY <1>1, <1>2, <1>3, SeqEqual
<1> QED
  BY <1>4 DEF f

\* The elements of two sequences together.
LEMMA TogetherIs ==
  ASSUME NEW X, NEW s \in Seq(X), NEW t \in Seq(X)
  PROVE  /\ s \o t \in Seq(X)
         /\ Find!Range(s \o t) = Find!Range(s) \cup Find!Range(t)
         /\ (/\ Find!IsInjective(s) /\ Find!IsInjective(t)
             /\ Find!Range(s) \cap Find!Range(t) = {}) => Find!IsInjective(s \o t)
<1> DEFINE u == s \o t
<1>1. /\ Len(s) \in Nat /\ Len(t) \in Nat
      /\ DOMAIN s = 1..Len(s) /\ DOMAIN t = 1..Len(t)
  BY LenProperties
<1>2. /\ u \in Seq(X) /\ Len(u) = Len(s) + Len(t)
      /\ \A i \in 1..Len(s) + Len(t) :
            u[i] = IF i <= Len(s) THEN s[i] ELSE t[i - Len(s)]
  BY ConcatProperties
<1> HIDE DEF u
<1>3. DOMAIN u = 1..Len(s) + Len(t)
  BY <1>2, LenProperties
<1>4. \A i \in DOMAIN s : i \in DOMAIN u /\ u[i] = s[i]
  BY <1>1, <1>2, <1>3
<1>5. \A i \in DOMAIN t : Len(s) + i \in DOMAIN u /\ u[Len(s) + i] = t[i]
  <2> SUFFICES ASSUME NEW i \in DOMAIN t
               PROVE  Len(s) + i \in DOMAIN u /\ u[Len(s) + i] = t[i]
    OBVIOUS
  <2>1. Len(s) + i \in 1..Len(s) + Len(t) /\ ~(Len(s) + i <= Len(s)) /\ (Len(s) + i) - Len(s) = i
    BY <1>1
  <2> QED
    BY <1>2, <1>3, <2>1
<1>6. \A i \in DOMAIN u : \/ i \in DOMAIN s /\ u[i] = s[i]
                          \/ /\ i - Len(s) \in DOMAIN t /\ u[i] = t[i - Len(s)]
                             /\ i = Len(s) + (i - Len(s))
  BY <1>1, <1>2, <1>3
<1>7. Find!Range(u) = Find!Range(s) \cup Find!Range(t)
  BY <1>4, <1>5, <1>6 DEF Find!Range
<1>8. ASSUME Find!IsInjective(s), Find!IsInjective(t),
             Find!Range(s) \cap Find!Range(t) = {}
      PROVE  Find!IsInjective(u)
  <2>1. /\ \A i, j \in DOMAIN s : s[i] = s[j] => i = j
        /\ \A i, j \in DOMAIN t : t[i] = t[j] => i = j
        /\ \A i \in DOMAIN s, j \in DOMAIN t : s[i] # t[j]
    BY <1>8 DEF Find!IsInjective, Find!Range
  <2>2. ASSUME NEW i \in DOMAIN u, NEW j \in DOMAIN u, u[i] = u[j]
        PROVE  i = j
    <3>1. CASE i \in DOMAIN s /\ j \in DOMAIN s
      BY <1>4, <2>1, <2>2, <3>1
    <3>2. CASE i \notin DOMAIN s /\ j \notin DOMAIN s
      <4>1. /\ i - Len(s) \in DOMAIN t /\ u[i] = t[i - Len(s)]
            /\ j - Len(s) \in DOMAIN t /\ u[j] = t[j - Len(s)]
        BY <1>6, <3>2
      <4>2. i - Len(s) = j - Len(s)
        BY <2>1, <2>2, <4>1
      <4> QED
        BY <1>1, <1>3, <4>2
    <3> QED
      BY <1>4, <1>6, <2>1, <2>2, <3>1, <3>2
  <2> QED
    BY <2>2 DEF Find!IsInjective
<1> QED
  BY <1>2, <1>7, <1>8 DEF u

\* A sequence of one block.
LEMMA OneIs ==
  ASSUME NEW X, NEW b \in X
  PROVE  <<b>> \in Seq(X) /\ Find!Range(<<b>>) = {b} /\ Find!IsInjective(<<b>>)
<1>1. <<b>> \in Seq(X) /\ DOMAIN <<b>> = {1} /\ <<b>>[1] = b
  OBVIOUS
<1> QED
  BY <1>1 DEF Find!Range, Find!IsInjective

LEMMA NoneIs ==
  /\ Find!Range(<<>>) = {} /\ Find!IsInjective(<<>>)
  /\ \A X : <<>> \in Seq(X)
<1>1. DOMAIN <<>> = {}
  OBVIOUS
<1> QED
  BY <1>1 DEF Find!Range, Find!IsInjective

\* The walk from a new block is all new blocks of its shard up to it.
LEMMA WalkIsNew ==
  ASSUME Find!ChainInv, NEW m \in 1..Find!Latest, NEW w,
         w = [b \in DOMAIN parents \cup UNION Find!Range(tips) |->
                 IF b \in Find!Tips(m - 1) THEN <<>>
                 ELSE IF b[2] = 0 THEN <<b>>
                 ELSE Find!FlattenSeq([i \in DOMAIN parents[b] |->
                                          w[parents[b][i]]]) \o <<b>>],
         NEW b \in Find!New(m)
  PROVE  /\ w[b] \in Seq(Find!New(m)) /\ Find!IsInjective(w[b])
         /\ Find!Range(w[b]) = {c \in Find!New(m) : c[1] = b[1] /\ c[2] <= b[2]}
<1> DEFINE D == DOMAIN parents \cup UNION Find!Range(tips)
           Upto(c) == {d \in Find!New(m) : d[1] = c[1] /\ d[2] <= c[2]}
           Good(c) == /\ w[c] \in Seq(Find!New(m)) /\ Find!IsInjective(w[c])
                      /\ Find!Range(w[c]) = Upto(c)
           H == {n \in Nat : \A c \in Find!New(m) : c[2] = n => Good(c)}
<1>0. Find!TipsOK /\ m - 1 \in 0..Find!Latest
  BY LatestTyped DEF Find!ChainInv
<1>1. ASSUME NEW c \in Find!New(m)
      PROVE  /\ c = <<c[1], c[2]>> /\ c[2] \in Nat \ {0} /\ c \in DOMAIN parents
             /\ w[c] = Find!FlattenSeq([i \in DOMAIN parents[c] |->
                                            w[parents[c][i]]]) \o <<c>>
  <2>1. c = <<c[1], c[2]>> /\ c[2] \in Nat \ {0} /\ c \in DOMAIN parents
    BY <1>0, NewTyped DEF Find!ChainInv
  <2>2. c \notin Find!Tips(m - 1)
    BY <1>0, <2>1, NewTyped DEF Find!Related
  <2>3. c \in D
    BY <2>1
  <2>4. w[c] = IF c \in Find!Tips(m - 1) THEN <<>>
               ELSE IF c[2] = 0 THEN <<c>>
               ELSE Find!FlattenSeq([i \in DOMAIN parents[c] |->
                                        w[parents[c][i]]]) \o <<c>>
    BY <2>3, Zenon
  <2> QED
    BY <2>1, <2>2, <2>4
<1>2. \A c \in Find!New(m) : Find!Behind(c, m)
  BY DEF Find!ChainInv
<1>3. 0 \in H
  BY <1>1
<1>4. ASSUME NEW n \in H PROVE n + 1 \in H
  <2>1. n \in Nat /\ n + 1 \in Nat
    OBVIOUS
  <2>2. ASSUME NEW c \in Find!New(m), c[2] = n + 1 PROVE Good(c)
    <3> DEFINE below == <<c[1], c[2] - 1>>
    <3>1. CASE below \in Find!New(m)
      <4>1. parents[c] = <<below>>
        BY <1>2, <3>1 DEF Find!Behind, Find!Block, Find!Number
      <4>2. Good(below)
        <5>1. below[2] = n
          BY <2>1, <2>2
        <5> HIDE DEF Good, below
        <5> QED
          BY <3>1, <5>1
      <4>3. [i \in DOMAIN parents[c] |-> w[parents[c][i]]] = <<w[below]>>
        <5> HIDE DEF below
        <5>1. DOMAIN parents[c] = 1..1 /\ parents[c][1] = below
          BY <4>1
        <5>2. [i \in DOMAIN parents[c] |-> w[parents[c][i]]] = [i \in 1..1 |-> w[below]]
          BY <5>1
        <5>3. [i \in 1..1 |-> w[below]] = <<w[below]>>
          BY OneMap
        <5> QED
          BY <5>2, <5>3
      <4>4. w[c] = w[below] \o <<c>>
        BY <1>1, <4>3, FlattenOne
      <4>5. c \notin Find!Range(w[below])
        <5>1. Find!Range(w[below]) = Upto(below)
          BY <4>2
        <5>2. ~(c[2] <= below[2])
          <6>1. c[2] \in Nat /\ below[2] = c[2] - 1
            BY <1>1
          <6> QED
            BY <6>1
        <5> QED
          BY <5>1, <5>2
      <4>6. Upto(c) = Upto(below) \cup {c}
        <5>1. \A d \in Upto(c) : d \in Upto(below) \/ d = c
          <6> SUFFICES ASSUME NEW d \in Upto(c), d # c PROVE d \in Upto(below)
            OBVIOUS
          <6>1. d \in Find!New(m) /\ d[1] = c[1] /\ d[2] <= c[2]
            OBVIOUS
          <6>2. d = <<d[1], d[2]>> /\ c = <<c[1], c[2]>> /\ d[2] \in Nat /\ c[2] \in Nat
            BY <1>1, <6>1
          <6>3. d[2] # c[2]
            BY <6>1, <6>2
          <6>4. d[2] <= c[2] - 1
            BY <6>1, <6>2, <6>3
          <6> QED
            BY <6>1, <6>4
        <5>2. c \in Upto(c) /\ \A d \in Upto(below) : d \in Upto(c)
          <6>1. c[2] \in Nat /\ \A d \in Find!New(m) : d[2] \in Nat
            BY <1>1
          <6> QED
            BY <6>1
        <5> QED
          BY <5>1, <5>2
      <4>7. /\ <<c>> \in Seq(Find!New(m)) /\ Find!Range(<<c>>) = {c}
            /\ Find!IsInjective(<<c>>)
        BY OneIs
      <4> HIDE DEF Upto, below
      <4>8. /\ w[below] \o <<c>> \in Seq(Find!New(m))
            /\ Find!Range(w[below] \o <<c>>) = Upto(below) \cup {c}
            /\ Find!IsInjective(w[below] \o <<c>>)
        <5>1. /\ w[below] \in Seq(Find!New(m)) /\ Find!IsInjective(w[below])
              /\ Find!Range(w[below]) = Upto(below)
          BY <4>2
        <5> DEFINE s == w[below]
                   t == <<c>>
        <5>2. Find!Range(s) \cap Find!Range(t) = {}
          BY <4>5, <4>7
        <5> HIDE DEF s, t, Good
        <5>3. s \in Seq(Find!New(m)) /\ t \in Seq(Find!New(m))
          BY <4>7, <5>1 DEF s, t
        <5>4. /\ s \o t \in Seq(Find!New(m))
              /\ Find!Range(s \o t) = Find!Range(s) \cup Find!Range(t)
              /\ Find!IsInjective(s) /\ Find!IsInjective(t) => Find!IsInjective(s \o t)
          BY <5>2, <5>3, TogetherIs
        <5> QED
          BY <4>7, <5>1, <5>4 DEF s, t
      <4> QED
        BY <4>4, <4>6, <4>8, Zenon
    <3>2. CASE below \notin Find!New(m)
      <4> DEFINE walks == [i \in DOMAIN parents[c] |-> w[parents[c][i]]]
      <4>1. parents[c] \in Seq(Find!Tips(m - 1))
        BY <1>2, <3>2 DEF Find!Behind, Find!Block, Find!Number
      <4>2. /\ DOMAIN parents[c] = 1..Len(parents[c]) /\ Len(parents[c]) \in Nat
            /\ \A i \in DOMAIN parents[c] : parents[c][i] \in Find!Tips(m - 1)
        BY <4>1, LenProperties
      <4>3. \A i \in DOMAIN parents[c] : walks[i] = <<>>
        <5>1. \A t \in Find!Tips(m - 1) : t \in D
          <6>1. m \in DOMAIN tips /\ (m - 1) + 1 = m
            <7>1. Len(tips) = Find!Latest + 1 /\ Find!Latest \in Nat
              BY <1>0, LatestTyped
            <7>2. DOMAIN tips = 1..Len(tips)
              BY <1>0, LenProperties DEF Find!TipsOK
            <7> QED
              BY <7>1, <7>2
          <6> QED
            BY <6>1 DEF Find!Tips, Find!Range
        <5>2. \A t \in Find!Tips(m - 1) : w[t] = <<>>
          BY <5>1, Zenon
        <5> QED
          BY <4>2, <5>2
      <4>4. Len(walks) = Len(parents[c]) /\ (Len(parents[c]) = 0 => walks = <<>>)
        BY <4>2
      <4> HIDE DEF walks
      <4>5. Find!FlattenSeq(walks) = <<>>
        BY <4>2, <4>3, <4>4, FlattenNone
      <4>6. w[c] = <<>> \o <<c>>
        BY <1>1, <4>5 DEF walks
      <4>7. w[c] = <<c>>
        <5>1. <<c>> \in Seq(Find!New(m))
          BY OneIs
        <5> QED
          BY <4>6, <5>1, ConcatEmptySeq
      <4>8. Upto(c) = {c}
        <5>1. ASSUME NEW d \in Upto(c) PROVE d = c
          <6>1. d \in Find!New(m) /\ d[1] = c[1] /\ d[2] <= c[2]
            OBVIOUS
          <6>2. d = <<d[1], d[2]>> /\ c = <<c[1], c[2]>> /\ d[2] \in Nat /\ c[2] \in Nat
            BY <1>1, <6>1
          <6>3. ~(d[2] < c[2])
            BY <1>0, <3>2, <6>1, NewBelow
          <6> QED
            BY <6>1, <6>2, <6>3
        <5>2. c \in Upto(c)
          <6>1. c[2] \in Nat
            BY <1>1
          <6> QED
            BY <6>1
        <5> QED
          BY <5>1, <5>2
      <4>9. /\ <<c>> \in Seq(Find!New(m)) /\ Find!Range(<<c>>) = {c}
            /\ Find!IsInjective(<<c>>)
        BY OneIs
      <4> HIDE DEF Upto
      <4> QED
        BY <4>7, <4>8, <4>9, Zenon
    <3> QED
      BY <3>1, <3>2
  <2> HIDE DEF Good
  <2> QED
    BY <2>1, <2>2
<1>5. H \subseteq Nat /\ b[2] \in Nat
  BY <1>1
<1> HIDE DEF H
<1>6. b[2] \in H
  BY <1>3, <1>4, <1>5, NumbersInduction
<1> QED
  BY <1>6 DEF H

\* The walk from a named block is all new blocks of its shard.
LEMMA TipWalk ==
  ASSUME Find!ChainInv, NEW m \in 1..Find!Latest, Find!Tips(m - 1) # {},
         NEW t \in Find!Tips(m)
  PROVE  /\ Find!NotSeen(t, Find!Tips(m - 1)) \in Seq(Find!New(m))
         /\ Find!IsInjective(Find!NotSeen(t, Find!Tips(m - 1)))
         /\ Find!Range(Find!NotSeen(t, Find!Tips(m - 1)))
              = {c \in Find!New(m) : c[1] = t[1]}
<1> DEFINE D == DOMAIN parents \cup UNION Find!Range(tips)
           seen == Find!Tips(m - 1)
<1>0. Find!TipsOK /\ m \in 0..Find!Latest /\ m - 1 \in 0..Find!Latest
  BY LatestTyped DEF Find!ChainInv
<1>1. PICK w : /\ w = [b \in D |->
                         IF b \in seen THEN <<>>
                         ELSE IF b[2] = 0 THEN <<b>>
                         ELSE Find!FlattenSeq([i \in DOMAIN parents[b] |->
                                                  w[parents[b][i]]]) \o <<b>>]
               /\ \A b : Find!NotSeen(b, seen) = w[b]
  BY WalkIsFunction
<1>2. \A u \in Find!Tips(m) : u[1] = t[1] => u = t
  BY <1>0 DEF Find!TipsOK
<1>3. t \in seen \cup Find!New(m)
  BY DEF Find!ChainInv
<1>4. Find!NotSeen(t, seen) = w[t]
  BY <1>1
<1>5. \A c \in Find!New(m) : c[2] \in Nat /\ (c[1] = t[1] => c[2] <= t[2])
  <2> SUFFICES ASSUME NEW c \in Find!New(m)
               PROVE  c[2] \in Nat /\ (c[1] = t[1] => c[2] <= t[2])
    OBVIOUS
  <2>1. c[2] \in Nat /\ \E u \in Find!Tips(m) : u[1] = c[1] /\ c[2] <= u[2]
    BY <1>0, NewTyped
  <2> QED
    BY <1>2, <2>1
<1>6. CASE t \in Find!New(m)
  <2>1. /\ w[t] \in Seq(Find!New(m)) /\ Find!IsInjective(w[t])
        /\ Find!Range(w[t]) = {c \in Find!New(m) : c[1] = t[1] /\ c[2] <= t[2]}
    BY <1>1, <1>6, WalkIsNew
  <2>2. {c \in Find!New(m) : c[1] = t[1] /\ c[2] <= t[2]}
          = {c \in Find!New(m) : c[1] = t[1]}
    BY <1>5
  <2> QED
    BY <1>4, <2>1, <2>2
<1>7. CASE t \in seen
  <2>1. t \in D
    <3>1. Len(tips) = Find!Latest + 1 /\ Find!Latest \in Nat
      BY <1>0, LatestTyped
    <3>2. DOMAIN tips = 1..Len(tips)
      BY <1>0, LenProperties DEF Find!TipsOK
    <3>3. m + 1 \in DOMAIN tips
      BY <3>1, <3>2
    <3> QED
      BY <3>3 DEF Find!Tips, Find!Range
  <2>2. w[t] = <<>>
    BY <1>1, <1>7, <2>1, Zenon
  <2>3. ASSUME NEW c \in Find!New(m), c[1] = t[1] PROVE FALSE
    <3>1. t[2] < c[2]
      BY <1>0, <1>7, <2>3, NewTyped DEF Find!Related
    <3>2. c[2] <= t[2] /\ c[2] \in Nat /\ t[2] \in Nat
      BY <1>0, <1>5, <2>3, TipsTyped
    <3> QED
      BY <3>1, <3>2
  <2>4. {c \in Find!New(m) : c[1] = t[1]} = {}
    BY <2>3
  <2> QED
    BY <1>4, <2>2, <2>4, NoneIs
<1> QED
  BY <1>3, <1>6, <1>7

\* The order of one block, or of two.
LEMMA FindSizes == \A S : Find!Cardinality(S) = Cardinality(S)
  BY DEF Find!Cardinality, Cardinality

LEMMA OrderIs ==
  /\ \A t : Find!Cardinality({t}) = 1 /\ Find!SetToSeq({t})[1] = t
  /\ \A l, r : l # r =>
        /\ Find!Cardinality({l, r}) = 2
        /\ {Find!SetToSeq({l, r})[1], Find!SetToSeq({l, r})[2]} = {l, r}
        /\ Find!SetToSeq({l, r})[1] # Find!SetToSeq({l, r})[2]
<1>1. ASSUME NEW t
      PROVE  Find!Cardinality({t}) = 1 /\ Find!SetToSeq({t})[1] = t
  <2>1. Find!Cardinality({t}) = 1
    BY FS_Singleton, FindSizes
  <2> DEFINE f == [i \in 1..1 |-> t]
  <2>2. f \in [1..1 -> {t}] /\ Find!IsInjective(f)
    BY DEF Find!IsInjective
  <2> HIDE DEF f
  <2>3. Find!SetToSeq({t}) = CHOOSE g \in [1..1 -> {t}] : Find!IsInjective(g)
    BY <2>1, Zenon DEF Find!SetToSeq
  <2>4. Find!SetToSeq({t}) \in [1..1 -> {t}]
    BY <2>2, <2>3, Zenon
  <2> QED
    BY <2>1, <2>4
<1>2. ASSUME NEW l, NEW r, l # r
      PROVE  /\ Find!Cardinality({l, r}) = 2
             /\ {Find!SetToSeq({l, r})[1], Find!SetToSeq({l, r})[2]} = {l, r}
             /\ Find!SetToSeq({l, r})[1] # Find!SetToSeq({l, r})[2]
  <2>1. Find!Cardinality({l, r}) = 2
    <3>1. IsFiniteSet({l}) /\ Cardinality({l}) = 1
      BY FS_Singleton
    <3>2. Cardinality({l} \cup {r}) = Cardinality({l}) + 1
      BY <1>2, <3>1, FS_AddElement
    <3>3. {l} \cup {r} = {l, r}
      OBVIOUS
    <3> QED
      BY <3>1, <3>2, <3>3, FindSizes
  <2> DEFINE f == [i \in 1..2 |-> IF i = 1 THEN l ELSE r]
             s == Find!SetToSeq({l, r})
  <2>2. f \in [1..2 -> {l, r}] /\ Find!IsInjective(f)
    BY <1>2 DEF Find!IsInjective
  <2> HIDE DEF f
  <2>3. s = CHOOSE g \in [1..2 -> {l, r}] : Find!IsInjective(g)
    BY <2>1, Zenon DEF Find!SetToSeq
  <2>4. s \in [1..2 -> {l, r}] /\ Find!IsInjective(s)
    BY <2>2, <2>3, Zenon
  <2> HIDE DEF s
  <2>5. s[1] \in {l, r} /\ s[2] \in {l, r} /\ s[1] # s[2]
    BY <2>4 DEF Find!IsInjective
  <2>6. {s[1], s[2]} = {l, r}
    BY <1>2, <2>5
  <2> QED
    BY <2>1, <2>5, <2>6 DEF s
<1> QED
  BY <1>1, <1>2, Zenon

\* The walks from the named blocks together.
LEMMA AllWalks ==
  ASSUME NEW prior, NEW seen, NEW X,
         \/ prior = {}
         \/ \E t : prior = {t}
         \/ \E l, r : l # r /\ prior = {l, r},
         \A t \in prior : Find!NotSeen(t, seen) \in Seq(X)
  PROVE  /\ \A b : b \in Find!Range(Find!AllNotSeen(prior, seen))
               <=> \E t \in prior : b \in Find!Range(Find!NotSeen(t, seen))
         /\ (/\ \A t \in prior : Find!IsInjective(Find!NotSeen(t, seen))
             /\ \A t, u \in prior : t # u =>
                   Find!Range(Find!NotSeen(t, seen))
                     \cap Find!Range(Find!NotSeen(u, seen)) = {})
            => Find!IsInjective(Find!AllNotSeen(prior, seen))
<1> DEFINE seqs == [i \in 1..Find!Cardinality(prior) |->
                       Find!NotSeen(Find!SetToSeq(prior)[i], seen)]
<1>1. Find!AllNotSeen(prior, seen) = Find!FlattenSeq(seqs)
  BY DEF Find!AllNotSeen
<1>2. CASE prior = {}
  <2>1. Find!Cardinality(prior) = 0
    BY <1>2, FindSizes, FS_EmptySet
  <2>2. Len(seqs) = 0 /\ seqs = <<>>
    BY <2>1
  <2> HIDE DEF seqs
  <2>3. Find!FlattenSeq(seqs) = <<>>
    BY <2>2, FlattenNone
  <2> QED
    BY <1>1, <1>2, <2>3, NoneIs
<1>3. CASE \E t : prior = {t}
  <2>1. PICK t : prior = {t}
    BY <1>3
  <2>2. Find!Cardinality(prior) = 1 /\ Find!SetToSeq(prior)[1] = t
    BY <2>1, OrderIs
  <2> DEFINE v == Find!NotSeen(t, seen)
  <2>3. seqs = [i \in 1..1 |-> v]
    BY <2>2
  <2>4. Find!FlattenSeq(seqs) = v
    BY <2>3, OneMap, FlattenOne, Zenon
  <2> QED
    BY <1>1, <2>1, <2>4
<1>4. CASE \E l, r : l # r /\ prior = {l, r}
  <2>1. PICK l, r : l # r /\ prior = {l, r}
    BY <1>4
  <2> DEFINE x == Find!SetToSeq(prior)[1]
             y == Find!SetToSeq(prior)[2]
             v == Find!NotSeen(x, seen)
             u == Find!NotSeen(y, seen)
  <2>2. Find!Cardinality(prior) = 2 /\ prior = {x, y} /\ x # y
    BY <2>1, OrderIs
  <2> HIDE DEF x, y
  <2>3. Len(seqs) = 2 /\ seqs[1] = v /\ seqs[2] = u /\ 2 \in Nat /\ 2 # 0
    BY <2>2 DEF x, y
  <2> HIDE DEF seqs, v, u
  <2>4. Find!FlattenSeq(seqs) = v \o u
    <3>1. PICK f : /\ f = [i \in 1..2 |-> IF i = 1 THEN seqs[i] ELSE f[i - 1] \o seqs[i]]
                   /\ Find!FlattenSeq(seqs) = f[2]
      BY <2>3, FlattenSteps, Zenon
    <3>2. f[1] = seqs[1]
      BY <3>1
    <3>3. f[2] = f[2 - 1] \o seqs[2]
      <4>1. 2 \in 1..2 /\ 2 # 1
        OBVIOUS
      <4> QED
        BY <3>1, <4>1
    <3> QED
      BY <2>3, <3>1, <3>2, <3>3
  <2>5. v \in Seq(X) /\ u \in Seq(X)
    BY <2>2 DEF v, u
  <2>6. /\ Find!Range(v \o u) = Find!Range(v) \cup Find!Range(u)
        /\ (/\ Find!IsInjective(v) /\ Find!IsInjective(u)
            /\ Find!Range(v) \cap Find!Range(u) = {}) => Find!IsInjective(v \o u)
    BY <2>5, TogetherIs
  <2>7. \A b : b \in Find!Range(Find!AllNotSeen(prior, seen))
           <=> \E t \in prior : b \in Find!Range(Find!NotSeen(t, seen))
    BY <1>1, <2>2, <2>4, <2>6 DEF v, u
  <2>8. ASSUME \A t \in prior : Find!IsInjective(Find!NotSeen(t, seen)),
               \A t, z \in prior : t # z =>
                   Find!Range(Find!NotSeen(t, seen))
                     \cap Find!Range(Find!NotSeen(z, seen)) = {}
        PROVE  Find!IsInjective(Find!AllNotSeen(prior, seen))
    <3>1. Find!IsInjective(v) /\ Find!IsInjective(u)
      BY <2>2, <2>8 DEF v, u
    <3>2. Find!Range(v) \cap Find!Range(u) = {}
      BY <2>2, <2>8 DEF v, u
    <3> QED
      BY <1>1, <2>4, <2>6, <3>1, <3>2
  <2> QED
    BY <2>7, <2>8
<1> QED
  BY <1>2, <1>3, <1>4

\* The shards a masterchain block names.
LEMMA TipsAre ==
  ASSUME Find!TipsOK, NEW m \in 0..Find!Latest
  PROVE  \/ Find!Tips(m) = {}
         \/ \E t : Find!Tips(m) = {t}
         \/ \E l, r : l # r /\ Find!Tips(m) = {l, r}
<1> DEFINE prior == Find!Tips(m)
<1>1. /\ {t[1] : t \in prior} \in {{}, {"full"}, Find!Halves}
      /\ \A t, u \in prior : t[1] = u[1] => t = u
  BY DEF Find!TipsOK
<1> HIDE DEF prior
<1>2. CASE {t[1] : t \in prior} = {}
  <2>1. prior = {}
    BY <1>2
  <2> QED
    BY <2>1 DEF prior
<1>3. CASE {t[1] : t \in prior} = {"full"}
  <2>1. PICK t \in prior : t[1] = "full"
    BY <1>3
  <2>2. prior = {t}
    BY <1>1, <1>3, <2>1
  <2> QED
    BY <2>2 DEF prior
<1>4. CASE {t[1] : t \in prior} = Find!Halves
  <2>1. PICK l \in prior, r \in prior : l[1] = "left" /\ r[1] = "right"
    BY <1>4 DEF Find!Halves
  <2>2. prior = {l, r} /\ l # r
    BY <1>1, <1>4, <2>1 DEF Find!Halves
  <2> QED
    BY <2>2 DEF prior
<1> QED
  BY <1>1, <1>2, <1>3, <1>4

\* The answer for a masterchain block, unless a zero state is in it: all its
\* new blocks, each once.
LEMMA AnswerIsNew ==
  ASSUME Find!ChainInv, NEW m \in 1..Find!Latest,
         \A b \in Find!Range(Find!AllNotSeen(Find!Tips(m), Find!Tips(m - 1))) : b[2] # 0
  PROVE  /\ Find!IsInjective(Find!AllNotSeen(Find!Tips(m), Find!Tips(m - 1)))
         /\ Find!Range(Find!AllNotSeen(Find!Tips(m), Find!Tips(m - 1))) = Find!New(m)
<1> DEFINE prior == Find!Tips(m)
           seen == Find!Tips(m - 1)
<1>0. Find!TipsOK /\ m \in 0..Find!Latest /\ m - 1 \in 0..Find!Latest
  BY LatestTyped DEF Find!ChainInv
<1>1. \/ prior = {}
      \/ \E t : prior = {t}
      \/ \E l, r : l # r /\ prior = {l, r}
  BY <1>0, TipsAre
<1>2. CASE seen # {}
  <2>1. \A t \in prior : /\ Find!NotSeen(t, seen) \in Seq(Find!New(m))
                         /\ Find!IsInjective(Find!NotSeen(t, seen))
                         /\ Find!Range(Find!NotSeen(t, seen))
                              = {c \in Find!New(m) : c[1] = t[1]}
    BY <1>2, TipWalk
  <2>2. \A t, u \in prior : t[1] = u[1] => t = u
    BY <1>0 DEF Find!TipsOK
  <2>3. \A c \in Find!New(m) : \E t \in prior : t[1] = c[1]
    BY <1>0, NewTyped
  <2> HIDE DEF prior, seen
  <2>4. \A b : b \in Find!Range(Find!AllNotSeen(prior, seen))
               <=> \E t \in prior : b \in Find!Range(Find!NotSeen(t, seen))
    BY <1>1, <2>1, AllWalks
  <2>5. Find!IsInjective(Find!AllNotSeen(prior, seen))
    <3>1. \A t, u \in prior : t # u =>
                   Find!Range(Find!NotSeen(t, seen))
                     \cap Find!Range(Find!NotSeen(u, seen)) = {}
      BY <2>1, <2>2
    <3> QED
      BY <1>1, <2>1, <3>1, AllWalks
  <2>6. Find!Range(Find!AllNotSeen(prior, seen)) = Find!New(m)
    <3> DEFINE all == Find!Range(Find!AllNotSeen(prior, seen))
               of(t) == Find!Range(Find!NotSeen(t, seen))
    <3>1. \A b : b \in all <=> \E t \in prior : b \in of(t)
      BY <2>4
    <3>2. \A t \in prior : of(t) = {c \in Find!New(m) : c[1] = t[1]}
      BY <2>1
    <3> HIDE DEF all, of
    <3>3. \A b \in all : b \in Find!New(m)
      BY <3>1, <3>2
    <3>4. \A b \in Find!New(m) : b \in all
      BY <2>3, <3>1, <3>2
    <3>5. all = Find!New(m)
      BY <3>3, <3>4
    <3> QED
      BY <3>5 DEF all
  <2> QED
    BY <2>5, <2>6 DEF prior, seen
<1>3. CASE seen = {}
  <2>1. Find!New(m) = {}
    BY <1>0, <1>3, NewTyped
  <2>2. ASSUME NEW t \in prior PROVE FALSE
    <3>1. t[2] = 0
      BY <1>3, <2>1, <2>2 DEF Find!ChainInv, Find!Number
    <3>2. PICK w : /\ w = [b \in DOMAIN parents \cup UNION Find!Range(tips) |->
                         IF b \in seen THEN <<>>
                         ELSE IF b[2] = 0 THEN <<b>>
                         ELSE Find!FlattenSeq([i \in DOMAIN parents[b] |->
                                                  w[parents[b][i]]]) \o <<b>>]
                   /\ \A b : Find!NotSeen(b, seen) = w[b]
      BY WalkIsFunction
    <3>3. \A u \in prior : u \in DOMAIN parents \cup UNION Find!Range(tips)
      <4>1. Len(tips) = Find!Latest + 1 /\ Find!Latest \in Nat
        BY <1>0, LatestTyped
      <4>2. DOMAIN tips = 1..Len(tips)
        BY <1>0, LenProperties DEF Find!TipsOK
      <4>3. m + 1 \in DOMAIN tips
        BY <4>1, <4>2
      <4> QED
        BY <4>3 DEF Find!Tips, Find!Range
    <3>4. \A u \in prior : u[2] = 0
      BY <1>3, <2>1 DEF Find!ChainInv, Find!Number
    <3>5. ASSUME NEW u \in prior PROVE Find!NotSeen(u, seen) = <<u>>
      <4>1. u \notin seen /\ u[2] = 0
        BY <1>3, <3>4
      <4>2. w[u] = IF u \in seen THEN <<>>
                   ELSE IF u[2] = 0 THEN <<u>>
                   ELSE Find!FlattenSeq([i \in DOMAIN parents[u] |->
                                            w[parents[u][i]]]) \o <<u>>
        BY <3>2, <3>3, Zenon
      <4> QED
        BY <3>2, <4>1, <4>2
    <3> HIDE DEF prior, seen
    <3>6. \A u \in prior : /\ Find!NotSeen(u, seen) \in Seq(prior)
                           /\ u \in Find!Range(Find!NotSeen(u, seen))
      BY <3>5, OneIs
    <3>7. t \in Find!Range(Find!AllNotSeen(prior, seen))
      BY <1>1, <2>2, <3>6, AllWalks
    <3> QED
      BY <3>1, <3>7 DEF prior, seen
  <2>3. prior = {}
    BY <2>2
  <2> HIDE DEF prior, seen
  <2>4. /\ \A b : b \notin Find!Range(Find!AllNotSeen(prior, seen))
        /\ Find!IsInjective(Find!AllNotSeen(prior, seen))
    BY <1>1, <2>3, AllWalks
  <2> QED
    BY <2>1, <2>4 DEF prior, seen
<1> QED
  BY <1>2, <1>3

\* Later masterchain blocks name no earlier blocks.
LEMMA TipsBelow ==
  ASSUME Find!TipsOK, Find!TipsGrow, NEW m \in 0..Find!Latest,
         NEW t \in Find!Tips(m)
  PROVE  \E u \in Find!Tips(Find!Latest) :
            /\ Find!Related(u[1], t[1]) /\ u[2] \in Nat /\ t[2] <= u[2]
            /\ u[1] # t[1] => t[2] < u[2]
<1>0. Find!Latest \in Nat /\ Find!Latest \in 0..Find!Latest
  BY LatestTyped
<1>1. t[1] \in Find!Shard /\ t[2] \in Nat
  BY TipsTyped
<1>2. CASE m = Find!Latest
  BY <1>1, <1>2 DEF Find!Related
<1>3. CASE m # Find!Latest
  <2>1. m < Find!Latest
    BY <1>0, <1>3
  <2>2. Find!Tips(Find!Latest) # {}
    BY <1>0, <2>1 DEF Find!TipsGrow
  <2>3. PICK u \in Find!Tips(Find!Latest) : Find!Related(t[1], u[1])
    BY <1>0, <1>1, <2>2, RelatedExists
  <2>4. u[2] \in Nat
    BY <1>0, <2>3, TipsTyped
  <2>5. IF t[1] = u[1] THEN t[2] <= u[2] ELSE t[2] < u[2]
    BY <1>0, <2>1, <2>3 DEF Find!TipsGrow, Find!Number
  <2>6. Find!Related(u[1], t[1])
    BY <2>3 DEF Find!Related
  <2> QED
    BY <1>1, <2>4, <2>5, <2>6
<1> QED
  BY <1>2, <1>3

\* One more masterchain block: what earlier ones name, and their new blocks,
\* stays.
LEMMA AppendTips ==
  ASSUME Find!TipsOK, NEW T,
         NEW CONSTANT last, last = Find!Latest,
         tips' = Append(tips, T)
  PROVE  /\ Find!Latest' = last + 1 /\ last \in Nat
         /\ tips' # <<>>
         /\ T \subseteq Find!Shard \X Nat =>
               tips' \in Seq(SUBSET (Find!Shard \X Nat))
         /\ \A m \in 0..last : Find!Tips(m)' = Find!Tips(m)
         /\ Find!Tips(last + 1)' = T
         /\ \A m \in 1..last : Find!New(m)' = Find!New(m)
<1>1. tips \in Seq(SUBSET (Find!Shard \X Nat))
  BY DEF Find!TipsOK
<1>2. Len(tips) = last + 1 /\ last \in Nat
  BY LatestTyped
<1>3. /\ tips' # <<>> /\ Len(tips') = Len(tips) + 1
      /\ \A i \in 1..Len(tips) : tips'[i] = tips[i]
      /\ tips'[Len(tips) + 1] = T
  <2> DEFINE ground == SUBSET (Find!Shard \X Nat)
             S == ground \cup {T}
  <2>1. tips \in Seq(ground)
    BY <1>1
  <2> HIDE DEF ground
  <2>2. ground \subseteq S /\ T \in S
    OBVIOUS
  <2> HIDE DEF S
  <2>3. tips \in Seq(S)
    BY <2>1, <2>2, SeqMonotonic
  <2> QED
    BY <2>2, <2>3
<1>8. T \subseteq Find!Shard \X Nat =>
         tips' \in Seq(SUBSET (Find!Shard \X Nat))
  BY <1>1
<1>4. Find!Latest' = last + 1
  BY <1>2, <1>3 DEF Find!Latest
<1>5. ASSUME NEW m \in 0..last PROVE Find!Tips(m)' = Find!Tips(m)
  <2>1. m + 1 \in 1..Len(tips)
    BY <1>2
  <2> QED
    BY <1>3, <2>1 DEF Find!Tips
<1>6. Find!Tips(last + 1)' = T
  <2>1. (last + 1) + 1 = Len(tips) + 1
    BY <1>2
  <2> QED
    BY <1>3, <2>1 DEF Find!Tips
<1>7. ASSUME NEW m \in 1..last PROVE Find!New(m)' = Find!New(m)
  <2>1. m \in 0..last /\ m - 1 \in 0..last
    BY <1>2
  <2>2. Find!Tips(m)' = Find!Tips(m) /\ Find!Tips(m - 1)' = Find!Tips(m - 1)
    BY <1>5, <2>1
  <2> QED
    BY <2>2 DEF Find!New
<1> QED
  BY <1>2, <1>3, <1>4, <1>5, <1>6, <1>7, <1>8

\* How the blocks of shards that overlap the named ones may come: after what
\* is named there, and with named parents.
Follows(size, low, first, prior) ==
  /\ DOMAIN size \in {{"full"}, Find!Halves}
  /\ \A s \in DOMAIN size :
        /\ size[s] \in Nat /\ low[s] \in Nat
        /\ \A u \in prior : Find!Related(u[1], s) =>
              u[2] <= low[s] /\ (u[1] # s => size[s] # 0)
        /\ \E u \in prior : Find!Related(u[1], s) /\ u[2] = low[s]
        /\ first[s] \in Seq(prior)
        /\ \A i \in DOMAIN first[s] : first[s][i][2] <= low[s]
        /\ size[s] = 0 => <<s, low[s]>> \in prior

\* Blocks that come so keep the chain as it was and have their parents.
LEMMA GrowKeeps ==
  ASSUME Find!ChainInv, NEW CONSTANT last, last = Find!Latest,
         NEW size, NEW low, NEW first,
         Follows(size, low, first, Find!Tips(last)),
         Find!Grow(size, low, first)
  PROVE  Find!ChainInv'
<1> DEFINE T == {<<s, low[s] + size[s]>> : s \in DOMAIN size}
           new == UNION {{<<s, low[s] + i>> : i \in 1..size[s]} : s \in DOMAIN size}
           g == [b \in new |-> IF b[2] = low[b[1]] + 1 THEN first[b[1]]
                               ELSE <<<<b[1], b[2] - 1>>>>]
           prior == Find!Tips(last)
<1>0. Find!TipsOK /\ Find!TipsGrow /\ last \in Nat /\ last \in 0..last
  BY LatestTyped DEF Find!ChainInv
<1>1. tips' = Append(tips, T) /\ parents' = Find!With(parents, g)
  BY DEF Find!Grow, Find!Block, Find!Number
<1>2. /\ DOMAIN size \in {{"full"}, Find!Halves}
      /\ \A s \in DOMAIN size :
            /\ s \in Find!Shard /\ size[s] \in Nat /\ low[s] \in Nat
            /\ low[s] + size[s] \in Nat
  <2>1. DOMAIN size \in {{"full"}, Find!Halves}
    BY DEF Follows
  <2>2. \A s \in DOMAIN size : size[s] \in Nat /\ low[s] \in Nat
    BY DEF Follows
  <2>3. \A s \in DOMAIN size : s \in Find!Shard
    BY <2>1 DEF Find!Shard
  <2> QED
    BY <2>1, <2>2, <2>3
<1>3. /\ \A s \in DOMAIN size : \A u \in prior : Find!Related(u[1], s) =>
              u[2] <= low[s] /\ (u[1] # s => size[s] # 0)
      /\ \A s \in DOMAIN size : \E u \in prior : Find!Related(u[1], s) /\ u[2] = low[s]
      /\ \A s \in DOMAIN size : first[s] \in Seq(prior)
      /\ \A s \in DOMAIN size : \A i \in DOMAIN first[s] : first[s][i][2] <= low[s]
      /\ \A s \in DOMAIN size : size[s] = 0 => <<s, low[s]>> \in prior
  BY DEF Follows
<1>4. T \subseteq Find!Shard \X Nat
  BY <1>2
<1>5. \A b \in new : /\ b = <<b[1], b[2]>> /\ b[1] \in DOMAIN size
                     /\ b[2] \in Nat /\ low[b[1]] < b[2]
                     /\ b[2] <= low[b[1]] + size[b[1]]
  <2> SUFFICES ASSUME NEW s \in DOMAIN size, NEW i \in 1..size[s], NEW b, b = <<s, low[s] + i>>
               PROVE  /\ b = <<b[1], b[2]>> /\ b[1] \in DOMAIN size
                      /\ b[2] \in Nat /\ low[b[1]] < b[2]
                      /\ b[2] <= low[b[1]] + size[b[1]]
    OBVIOUS
  <2> QED
    BY <1>2
<1>6. \A s \in DOMAIN size, n \in Nat :
         low[s] < n /\ n <= low[s] + size[s] => <<s, n>> \in new
  <2> SUFFICES ASSUME NEW s \in DOMAIN size, NEW n \in Nat,
                      low[s] < n, n <= low[s] + size[s]
               PROVE  \E i \in 1..size[s] : n = low[s] + i
    OBVIOUS
  <2>1. n - low[s] \in 1..size[s] /\ n = low[s] + (n - low[s])
    BY <1>2
  <2> QED
    BY <2>1
<1>7. \A t \in T : t = <<t[1], t[2]>> /\ t[1] \in DOMAIN size /\ t[2] = low[t[1]] + size[t[1]]
  OBVIOUS
<1>8. \A s \in DOMAIN size : <<s, low[s] + size[s]>> \in T
  OBVIOUS
<1>9. DOMAIN g = new
  OBVIOUS
<1>10. \A b \in new : g[b] = IF b[2] = low[b[1]] + 1 THEN first[b[1]]
                             ELSE <<<<b[1], b[2] - 1>>>>
  OBVIOUS
<1>11. {t[1] : t \in T} = DOMAIN size
  BY <1>7, <1>8
<1>12. prior # {} /\ \A u \in prior : u[2] \in Nat /\ u = <<u[1], u[2]>>
  <2>1. \E s : s \in DOMAIN size
    BY <1>2 DEF Find!Halves
  <2> QED
    BY <1>0, <1>3, <2>1, TipsTyped
<1> HIDE DEF T, new, g, prior
<1>13. /\ Find!Latest' = last + 1 /\ last + 1 \in Nat
       /\ tips' \in Seq(SUBSET (Find!Shard \X Nat)) /\ tips' # <<>>
       /\ \A m \in 0..last : Find!Tips(m)' = Find!Tips(m)
       /\ Find!Tips(last + 1)' = T
       /\ \A m \in 1..last : Find!New(m)' = Find!New(m)
  BY <1>0, <1>1, <1>4, AppendTips
<1>14. Find!New(last + 1)' = new
  <2>1. Find!Tips((last + 1) - 1)' = prior
    <3>1. (last + 1) - 1 = last
      BY <1>0
    <3> QED
      BY <1>0, <1>13, <3>1 DEF prior
  <2>2. Find!New(last + 1)' =
          {b \in UNION {{<<t[1], n>> : n \in 1..t[2]} : t \in T} :
              /\ prior # {}
              /\ \A u \in prior : Find!Related(u[1], b[1]) => u[2] < b[2]}
    BY <1>13, <2>1 DEF Find!New, Find!Block, Find!Number
  <2>3. ASSUME NEW b \in Find!New(last + 1)' PROVE b \in new
    <3>1. PICK t \in T : \E n \in 1..t[2] : b = <<t[1], n>>
      BY <2>2
    <3>2. PICK n \in 1..t[2] : b = <<t[1], n>>
      BY <3>1
    <3>3. t[1] \in DOMAIN size /\ t[2] = low[t[1]] + size[t[1]]
      BY <1>7
    <3>4. PICK u \in prior : Find!Related(u[1], t[1]) /\ u[2] = low[t[1]]
      BY <1>3, <3>3
    <3>5. u[2] < b[2]
      BY <2>2, <3>2, <3>4
    <3>6. n \in Nat /\ low[t[1]] < n /\ n <= low[t[1]] + size[t[1]]
      BY <1>2, <3>2, <3>3, <3>4, <3>5
    <3> QED
      BY <1>6, <3>2, <3>3, <3>6
  <2>4. ASSUME NEW b \in new PROVE b \in Find!New(last + 1)'
    <3>1. /\ b = <<b[1], b[2]>> /\ b[1] \in DOMAIN size
          /\ b[2] \in Nat /\ low[b[1]] < b[2]
          /\ b[2] <= low[b[1]] + size[b[1]]
      BY <1>5
    <3> DEFINE t == <<b[1], low[b[1]] + size[b[1]]>>
    <3>2. t \in T
      BY <1>8, <3>1
    <3>3. b[2] \in 1..t[2]
      BY <1>2, <3>1
    <3>4. b \in {<<t[1], n>> : n \in 1..t[2]}
      BY <3>1, <3>3
    <3>5. \A u \in prior : Find!Related(u[1], b[1]) => u[2] < b[2]
      BY <1>2, <1>3, <1>12, <3>1
    <3> HIDE DEF t
    <3> QED
      BY <1>12, <2>2, <3>2, <3>4, <3>5
  <2> QED
    BY <2>3, <2>4
<1>15. Find!TipsOK'
  <2>1. ASSUME NEW m \in 0..(last + 1)
        PROVE  /\ {t[1] : t \in Find!Tips(m)'} \in {{}, {"full"}, Find!Halves}
               /\ \A t, u \in Find!Tips(m)' : t[1] = u[1] => t = u
    <3>1. ASSUME m \in 0..last
          PROVE  /\ {t[1] : t \in Find!Tips(m)'} \in {{}, {"full"}, Find!Halves}
                 /\ \A t, u \in Find!Tips(m)' : t[1] = u[1] => t = u
      <4>1. Find!Tips(m)' = Find!Tips(m)
        BY <1>13, <3>1
      <4>2. /\ {t[1] : t \in Find!Tips(m)} \in {{}, {"full"}, Find!Halves}
            /\ \A t, u \in Find!Tips(m) : t[1] = u[1] => t = u
        BY <1>0, <3>1 DEF Find!TipsOK
      <4> QED
        BY <4>1, <4>2
    <3>2. ASSUME m = last + 1
          PROVE  /\ {t[1] : t \in Find!Tips(m)'} \in {{}, {"full"}, Find!Halves}
                 /\ \A t, u \in Find!Tips(m)' : t[1] = u[1] => t = u
      <4>1. Find!Tips(m)' = T
        BY <1>13, <3>2
      <4> QED
        BY <1>2, <1>7, <1>11, <4>1
    <3>3. m \in 0..last \/ m = last + 1
      BY <1>0
    <3> QED
      BY <3>1, <3>2, <3>3
  <2> QED
    BY <1>13, <2>1 DEF Find!TipsOK
<1>16. Find!TipsGrow'
  <2> SUFFICES ASSUME NEW i \in 0..(last + 1), NEW j \in 0..(last + 1), i < j
               PROVE  /\ Find!Tips(i)' # {} => Find!Tips(j)' # {}
                      /\ \A t \in Find!Tips(i)', u \in Find!Tips(j)' :
                            Find!Related(t[1], u[1]) =>
                            IF t[1] = u[1] THEN t[2] <= u[2] ELSE t[2] < u[2]
    BY <1>13 DEF Find!TipsGrow, Find!Number, Find!Related
  <2>1. i \in 0..last /\ Find!Tips(i)' = Find!Tips(i)
    BY <1>0, <1>13
  <2>2. CASE j \in 0..last
    <3>1. Find!Tips(j)' = Find!Tips(j)
      BY <1>13, <2>2
    <3> QED
      BY <1>0, <2>1, <2>2, <3>1 DEF Find!TipsGrow, Find!Number
  <2>3. CASE j = last + 1
    <3>1. Find!Tips(j)' = T /\ T # {}
      <4>1. \E s : s \in DOMAIN size
        BY <1>2 DEF Find!Halves
      <4> QED
        BY <1>8, <1>13, <2>3, <4>1
    <3>2. ASSUME NEW t \in Find!Tips(i), NEW u \in T, Find!Related(t[1], u[1])
          PROVE  IF t[1] = u[1] THEN t[2] <= u[2] ELSE t[2] < u[2]
      <4> DEFINE s == u[1]
      <4>1. s \in DOMAIN size /\ u[2] = low[s] + size[s]
        BY <1>7
      <4>2. t[1] \in Find!Shard /\ t[2] \in Nat
        BY <1>0, <2>1, TipsTyped
      <4>3. PICK v \in prior : /\ Find!Related(v[1], t[1]) /\ v[2] \in Nat /\ t[2] <= v[2]
                               /\ v[1] # t[1] => t[2] < v[2]
        BY <1>0, <2>1, TipsBelow DEF prior
      <4>4. CASE Find!Related(v[1], s)
        <5>1. v[2] <= low[s] /\ (v[1] # s => size[s] # 0)
          BY <1>3, <4>1, <4>4
        <5> HIDE DEF s
        <5>2. t[2] <= low[s] /\ (t[1] # s => t[2] < low[s] \/ size[s] # 0)
          BY <1>2, <4>1, <4>2, <4>3, <5>1
        <5>3. t[2] <= u[2] /\ (t[1] # s => t[2] < u[2])
          BY <1>2, <4>1, <4>2, <5>2
        <5> QED
          BY <5>3 DEF s
      <4>5. CASE ~Find!Related(v[1], s)
        <5>1. t[1] = "full" /\ v[1] # "full" /\ s # "full"
          BY <3>2, <4>3, <4>5 DEF Find!Related
        <5>2. t[2] < v[2] /\ v[1] # s
          BY <4>3, <4>5, <5>1 DEF Find!Related
        <5>3. PICK r \in prior : Find!Related(r[1], s) /\ r[2] = low[s]
          BY <1>3, <4>1
        <5>4. r[2] \in Nat /\ r[1] # "full"
          <6>1. {z[1] : z \in prior} \in {{}, {"full"}, Find!Halves}
            BY <1>0 DEF Find!TipsOK, prior
          <6>2. {z[1] : z \in prior} # {"full"}
            BY <5>1
          <6>3. \A z \in prior : z[1] \in Find!Halves
            BY <6>1, <6>2
          <6> QED
            BY <1>12, <6>3 DEF Find!Halves
        <5>5. Find!Related(t[1], r[1])
          BY <5>1 DEF Find!Related
        <5>6. t[2] <= r[2] /\ (r[1] # t[1] => t[2] < r[2])
          <6>1. CASE i = last
            <7>1. t \in prior
              BY <6>1 DEF prior
            <7>2. {z[1] : z \in prior} \in {{}, {"full"}, Find!Halves}
              BY <1>0 DEF Find!TipsOK, prior
            <7> QED
              BY <5>1, <7>1, <7>2 DEF Find!Halves
          <6>2. CASE i # last
            <7>1. i < last
              BY <1>0, <2>1, <6>2
            <7>2. IF t[1] = r[1] THEN t[2] <= r[2] ELSE t[2] < r[2]
              BY <1>0, <2>1, <5>3, <5>5, <7>1 DEF Find!TipsGrow, Find!Number, prior
            <7> QED
              BY <4>2, <5>4, <7>2
          <6> QED
            BY <6>1, <6>2
        <5> HIDE DEF s
        <5>7. t[2] < low[s]
          BY <5>1, <5>3, <5>4, <5>6
        <5>8. t[2] < u[2]
          BY <1>2, <4>1, <4>2, <5>7
        <5> QED
          BY <4>2, <5>1, <5>8 DEF s
      <4> QED
        BY <4>4, <4>5
    <3> QED
      BY <2>1, <3>1, <3>2
  <2> QED
    BY <1>0, <2>2, <2>3
<1>17. new \cap DOMAIN parents = {}
  <2> SUFFICES ASSUME NEW b \in new, b \in DOMAIN parents PROVE FALSE
    OBVIOUS
  <2>1. PICK m \in 1..last : b \in Find!New(m)
    BY <1>0 DEF Find!ChainInv
  <2>2. m \in 0..last
    BY <1>0
  <2>3. PICK t \in Find!Tips(m) : t[1] = b[1] /\ b[2] <= t[2]
    BY <1>0, <2>1, NewTyped
  <2>4. PICK u \in prior : Find!Related(u[1], t[1]) /\ u[2] \in Nat /\ t[2] <= u[2]
    BY <1>0, <2>2, TipsBelow DEF prior
  <2>5. t[2] \in Nat
    BY <1>0, <2>2, TipsTyped
  <2>6. b[1] \in DOMAIN size /\ b[2] \in Nat /\ low[b[1]] < b[2]
    BY <1>5
  <2>7. u[2] <= low[b[1]] /\ low[b[1]] \in Nat
    BY <1>2, <1>3, <2>3, <2>4, <2>6
  <2> QED
    BY <2>3, <2>4, <2>5, <2>6, <2>7
<1>18. /\ DOMAIN parents' = DOMAIN parents \cup new
       /\ \A b \in DOMAIN parents : parents'[b] = parents[b]
       /\ \A b \in new : parents'[b] = g[b]
  BY <1>1, <1>9, <1>17 DEF Find!With
<1>19. DOMAIN parents' = UNION {Find!New(m)' : m \in 1..(last + 1)}
  <2>1. DOMAIN parents = UNION {Find!New(m) : m \in 1..last}
    BY <1>0 DEF Find!ChainInv
  <2>2. \A b : b \in DOMAIN parents <=> \E m \in 1..last : b \in Find!New(m)'
    BY <1>13, <2>1
  <2>3. \A m : m \in 1..(last + 1) <=> (m \in 1..last \/ m = last + 1)
    BY <1>0
  <2> QED
    BY <1>14, <1>18, <2>2, <2>3
<1>20. ASSUME NEW m \in 1..(last + 1), NEW b \in Find!New(m)'
       PROVE  Find!Behind(b, m)'
  <2> DEFINE below == <<b[1], b[2] - 1>>
  <2> SUFFICES IF below \in Find!New(m)' THEN parents'[b] = <<below>>
               ELSE /\ parents'[b] \in Seq(Find!Tips(m - 1)')
                    /\ \A i \in DOMAIN parents'[b] : parents'[b][i][2] < b[2]
    BY DEF Find!Behind, Find!Block, Find!Number
  <2>0. m - 1 \in 0..last /\ Find!Tips(m - 1)' = Find!Tips(m - 1)
    BY <1>0, <1>13
  <2>1. CASE m \in 1..last
    <3>1. Find!New(m)' = Find!New(m) /\ b \in DOMAIN parents
      BY <1>0, <1>13, <2>1 DEF Find!ChainInv
    <3>2. parents'[b] = parents[b]
      BY <1>18, <3>1
    <3>3. Find!Behind(b, m)
      BY <1>0, <2>1, <3>1 DEF Find!ChainInv
    <3> QED
      BY <2>0, <3>1, <3>2, <3>3 DEF Find!Behind, Find!Block, Find!Number
  <2>2. CASE m = last + 1
    <3>1. Find!New(m)' = new /\ b \in new
      BY <1>14, <2>2
    <3>2. Find!Tips(m - 1)' = prior
      <4>1. m - 1 = last
        BY <1>0, <2>2
      <4> QED
        BY <2>0, <4>1 DEF prior
    <3>3. /\ b = <<b[1], b[2]>> /\ b[1] \in DOMAIN size
          /\ b[2] \in Nat /\ low[b[1]] < b[2]
          /\ b[2] <= low[b[1]] + size[b[1]]
          /\ low[b[1]] \in Nat /\ size[b[1]] \in Nat
      BY <1>2, <1>5, <3>1
    <3>4. parents'[b] = IF b[2] = low[b[1]] + 1 THEN first[b[1]] ELSE <<below>>
      BY <1>10, <1>18, <3>1
    <3>5. CASE b[2] = low[b[1]] + 1
      <4>1. below \notin new
        <5>1. below[1] = b[1] /\ below[2] = low[b[1]]
          BY <3>3, <3>5
        <5> HIDE DEF below
        <5>2. ~(low[below[1]] < below[2])
          BY <3>3, <5>1
        <5> QED
          BY <1>5, <5>2
      <4>2. parents'[b] = first[b[1]]
        BY <3>4, <3>5
      <4>3. first[b[1]] \in Seq(prior)
        BY <1>3, <3>3
      <4>4. \A i \in DOMAIN first[b[1]] : first[b[1]][i][2] <= low[b[1]]
        BY <1>3, <3>3
      <4>5. \A i \in DOMAIN first[b[1]] : first[b[1]][i][2] \in Nat
        BY <1>12, <4>3, LenProperties
      <4>6. \A i \in DOMAIN first[b[1]] : first[b[1]][i][2] < b[2]
        BY <3>3, <3>5, <4>4, <4>5
      <4> HIDE DEF below
      <4> QED
        BY <3>1, <3>2, <4>1, <4>2, <4>3, <4>6
    <3>6. CASE b[2] # low[b[1]] + 1
      <4>1. b[2] - 1 \in Nat /\ low[b[1]] < b[2] - 1 /\ b[2] - 1 <= low[b[1]] + size[b[1]]
        BY <3>3, <3>6
      <4>2. below \in new
        BY <1>6, <3>3, <4>1
      <4> HIDE DEF below
      <4> QED
        BY <3>1, <3>4, <3>6, <4>2
    <3> QED
      BY <3>5, <3>6
  <2> QED
    BY <1>0, <2>1, <2>2
<1>21. ASSUME NEW m \in 1..(last + 1), NEW t \in Find!Tips(m)'
       PROVE  \/ t \in Find!Tips(m - 1)' \cup Find!New(m)'
              \/ Find!Tips(m - 1)' = {} /\ t[2] = 0
  <2>0. m - 1 \in 0..last /\ Find!Tips(m - 1)' = Find!Tips(m - 1)
    BY <1>0, <1>13
  <2>1. CASE m \in 1..last
    <3>1. Find!New(m)' = Find!New(m) /\ Find!Tips(m)' = Find!Tips(m)
      <4>1. m \in 0..last
        BY <2>1
      <4> QED
        BY <1>13, <2>1, <4>1
    <3> QED
      BY <1>0, <2>0, <2>1, <3>1 DEF Find!ChainInv, Find!Number
  <2>2. CASE m = last + 1
    <3>1. Find!New(m)' = new /\ Find!Tips(m)' = T
      BY <1>13, <1>14, <2>2
    <3>2. Find!Tips(m - 1)' = prior
      <4>1. m - 1 = last
        BY <1>0, <2>2
      <4> QED
        BY <2>0, <4>1 DEF prior
    <3>3. t = <<t[1], t[2]>> /\ t[1] \in DOMAIN size /\ t[2] = low[t[1]] + size[t[1]]
      BY <1>7, <3>1
    <3>4. low[t[1]] \in Nat /\ size[t[1]] \in Nat
      BY <1>2, <3>3
    <3>5. CASE size[t[1]] = 0
      <4>1. <<t[1], low[t[1]]>> \in prior /\ t[2] = low[t[1]]
        BY <1>3, <3>3, <3>4, <3>5
      <4> QED
        BY <3>2, <3>3, <4>1
    <3>6. CASE size[t[1]] # 0
      <4>1. t[2] \in Nat /\ low[t[1]] < t[2] /\ t[2] <= low[t[1]] + size[t[1]]
        BY <3>3, <3>4, <3>6
      <4>2. t \in new
        BY <1>6, <3>3, <4>1
      <4> QED
        BY <3>1, <4>2
    <3> QED
      BY <3>5, <3>6
  <2> QED
    BY <1>0, <2>1, <2>2
<1>22. \A t \in Find!Tips(0)' : t[2] = 0
  <2>1. 0 \in 0..last
    BY <1>0
  <2> QED
    BY <1>13, <2>1 DEF Find!ChainInv, Find!Number
<1> QED
  BY <1>13, <1>15, <1>16, <1>19, <1>20, <1>21, <1>22 DEF Find!ChainInv, Find!Number

\* The next masterchain block keeps the chain as it should be.
LEMMA MasterKeepsChain ==
  ASSUME Find!FinderAssumption, Find!ChainInv, Find!NewMaster
  PROVE  Find!ChainInv'
<1> DEFINE last == Find!Latest
           prior == Find!Tips(last)
<1>0. Find!TipsOK /\ Find!TipsGrow /\ last \in Nat /\ last \in 0..last
  BY LatestTyped DEF Find!ChainInv
<1>1. /\ \A t \in prior : t = <<t[1], t[2]>> /\ t[1] \in Find!Shard /\ t[2] \in Nat
      /\ {t[1] : t \in prior} \in {{}, {"full"}, Find!Halves}
      /\ \A t, u \in prior : t[1] = u[1] => t = u
  BY <1>0, TipsTyped DEF Find!TipsOK
<1>2. MaxNew \in Nat \ {0}
  BY DEF Find!FinderAssumption
<1>3. ASSUME prior = {}, tips' = Append(tips, {Find!Block("full", 0)}),
             parents' = parents
      PROVE  Find!ChainInv'
  <2> DEFINE T == {<<"full", 0>>}
  <2>1. tips' = Append(tips, T) /\ T \subseteq Find!Shard \X Nat
    BY <1>3 DEF Find!Block, Find!Shard
  <2> HIDE DEF T
  <2>2. PICK n : n = last
    OBVIOUS
  <2>3. /\ Find!Latest' = n + 1 /\ n \in Nat
        /\ tips' \in Seq(SUBSET (Find!Shard \X Nat)) /\ tips' # <<>>
        /\ \A m \in 0..n : Find!Tips(m)' = Find!Tips(m)
        /\ Find!Tips(n + 1)' = T
        /\ \A m \in 1..n : Find!New(m)' = Find!New(m)
    BY <1>0, <2>1, <2>2, AppendTips
  <2>4. \A m \in 0..n : Find!Tips(m) = {}
    <3> SUFFICES ASSUME NEW m \in 0..n, NEW t \in Find!Tips(m) PROVE FALSE
      OBVIOUS
    <3> QED
      BY <1>0, <1>3, <2>2, TipsBelow
  <2>5. \A m \in 1..(n + 1) : m - 1 \in 0..n /\ Find!Tips(m - 1)' = {}
    BY <2>3, <2>4
  <2>6. \A m \in 1..(n + 1) : Find!New(m)' = {}
    BY <2>5 DEF Find!New
  <2>7. \A m \in 0..(n + 1) : Find!Tips(m)' = IF m = n + 1 THEN T ELSE {}
    <3>1. \A m \in 0..(n + 1) : m \in 0..n \/ m = n + 1
      BY <2>3
    <3>2. n + 1 \notin 0..n
      BY <2>3
    <3> QED
      BY <2>3, <2>4, <3>1, <3>2
  <2>8. Find!TipsOK'
    <3> SUFFICES ASSUME NEW m \in 0..(n + 1)
                 PROVE  /\ {t[1] : t \in Find!Tips(m)'} \in {{}, {"full"}, Find!Halves}
                        /\ \A t, u \in Find!Tips(m)' : t[1] = u[1] => t = u
      BY <2>3 DEF Find!TipsOK
    <3>1. {t[1] : t \in T} = {"full"} /\ \A t, u \in T : t = u
      BY DEF T
    <3> QED
      BY <2>7, <3>1
  <2>9. Find!TipsGrow'
    <3> SUFFICES ASSUME NEW i \in 0..(n + 1), NEW j \in 0..(n + 1), i < j
                 PROVE  Find!Tips(i)' = {}
      BY <2>3 DEF Find!TipsGrow
    <3>1. i # n + 1
      BY <2>3
    <3> QED
      BY <2>7, <3>1
  <2>10. DOMAIN parents' = UNION {Find!New(m)' : m \in 1..(n + 1)}
    <3>1. \A m \in 1..n : Find!New(m) = {}
      <4>1. \A m \in 1..n : m \in 1..(n + 1)
        BY <2>3
      <4> QED
        BY <2>3, <2>6, <4>1
    <3>2. DOMAIN parents = {}
      BY <2>2, <3>1 DEF Find!ChainInv
    <3> QED
      BY <1>3, <2>6, <3>2
  <2>11. \A m \in 1..(n + 1) : \A t \in Find!Tips(m)' :
            \/ t \in Find!Tips(m - 1)' \cup Find!New(m)'
            \/ Find!Tips(m - 1)' = {} /\ t[2] = 0
    <3>1. \A t \in T : t[2] = 0
      BY DEF T
    <3>2. \A m \in 1..(n + 1) : m \in 0..(n + 1)
      OBVIOUS
    <3> QED
      BY <2>5, <2>7, <3>1, <3>2
  <2>12. \A t \in Find!Tips(0)' : t[2] = 0
    <3>1. 0 \in 0..(n + 1) /\ 0 # n + 1
      BY <2>3
    <3> QED
      BY <2>7, <3>1
  <2> QED
    BY <2>3, <2>6, <2>8, <2>9, <2>10, <2>11, <2>12 DEF Find!ChainInv, Find!Number
<1>4. ASSUME NEW size \in [{t[1] : t \in prior} -> 0..MaxNew], prior # {},
             Find!Extend(prior, size)
      PROVE  Find!ChainInv'
  <2> DEFINE tip == [s \in DOMAIN size |-> CHOOSE t \in prior : t[1] = s]
             low == [s \in DOMAIN size |-> tip[s][2]]
             first == [s \in DOMAIN size |-> <<tip[s]>>]
  <2>1. Find!Grow(size, low, first)
    BY <1>4 DEF Find!Extend, Find!Number
  <2>2. DOMAIN size = {t[1] : t \in prior} /\ \A s \in DOMAIN size : size[s] \in Nat
    BY <1>2
  <2>3. \A s \in DOMAIN size : tip[s] \in prior /\ tip[s][1] = s
    <3> SUFFICES ASSUME NEW s \in DOMAIN size
                 PROVE  tip[s] \in prior /\ tip[s][1] = s
      OBVIOUS
    <3>1. \E t \in prior : t[1] = s
      BY <2>2
    <3>2. tip[s] = CHOOSE t \in prior : t[1] = s
      OBVIOUS
    <3> HIDE DEF tip
    <3> QED
      BY <3>1, <3>2
  <2>4. \A s \in DOMAIN size : low[s] = tip[s][2] /\ first[s] = <<tip[s]>>
    OBVIOUS
  <2> HIDE DEF tip, low, first
  <2>5. DOMAIN size \in {{"full"}, Find!Halves}
    BY <1>1, <1>4, <2>2
  <2>6. ASSUME NEW s \in DOMAIN size
        PROVE  /\ low[s] \in Nat
               /\ \A u \in prior : Find!Related(u[1], s) => u = tip[s]
    <3>1. \A u \in prior : u[1] \in DOMAIN size
      BY <2>2
    <3>2. \A u \in prior : Find!Related(u[1], s) => u[1] = s
      BY <2>5, <3>1 DEF Find!Related, Find!Halves
    <3> QED
      BY <1>1, <2>3, <2>4, <3>2
  <2>7. Follows(size, low, first, prior)
    <3>1. ASSUME NEW s \in DOMAIN size
          PROVE  /\ size[s] \in Nat /\ low[s] \in Nat
                 /\ \A u \in prior : Find!Related(u[1], s) =>
                       u[2] <= low[s] /\ (u[1] # s => size[s] # 0)
                 /\ \E u \in prior : Find!Related(u[1], s) /\ u[2] = low[s]
                 /\ first[s] \in Seq(prior)
                 /\ \A i \in DOMAIN first[s] : first[s][i][2] <= low[s]
                 /\ size[s] = 0 => <<s, low[s]>> \in prior
      <4>1. tip[s] \in prior /\ tip[s] = <<s, low[s]>> /\ low[s] \in Nat
        BY <1>1, <2>3, <2>4
      <4>2. \E u \in prior : Find!Related(u[1], s) /\ u[2] = low[s]
        BY <2>3, <2>4 DEF Find!Related
      <4>3. first[s] \in Seq(prior)
        <5>1. \A u \in prior : <<u>> \in Seq(prior)
          OBVIOUS
        <5>2. first[s] = <<tip[s]>>
          BY <2>4
        <5> QED
          BY <4>1, <5>1, <5>2
      <4>4. \A i \in DOMAIN first[s] : first[s][i][2] <= low[s]
        <5>1. \A i \in DOMAIN first[s] : first[s][i] = tip[s]
          BY <2>4
        <5> QED
          BY <2>4, <4>1, <5>1
      <4>5. \A u \in prior : Find!Related(u[1], s) =>
                       u[2] <= low[s] /\ (u[1] # s => size[s] # 0)
        BY <2>3, <2>4, <2>6
      <4> QED
        BY <2>2, <4>1, <4>2, <4>3, <4>4, <4>5
    <3> QED
      BY <2>5, <3>1 DEF Follows
  <2> QED
    BY <2>1, <2>7, GrowKeeps
<1>5. ASSUME NEW t \in prior, NEW size \in [Find!Halves -> 1..MaxNew],
             Find!Split(t, size)
      PROVE  Find!ChainInv'
  <2> DEFINE low == [s \in Find!Halves |-> t[2]]
             first == [s \in Find!Halves |-> <<t>>]
  <2>1. t[1] = "full" /\ Find!Grow(size, low, first)
    BY <1>5 DEF Find!Split, Find!Number
  <2>2. \A u \in prior : u = t
    BY <1>1, <2>1 DEF Find!Halves
  <2>3. /\ DOMAIN size = Find!Halves
        /\ \A s \in Find!Halves : size[s] \in Nat /\ size[s] # 0
    BY <1>2
  <2>4. \A s \in Find!Halves : low[s] = t[2] /\ first[s] = <<t>>
    OBVIOUS
  <2> HIDE DEF low, first
  <2>5. ASSUME NEW s \in DOMAIN size
        PROVE  /\ size[s] \in Nat /\ low[s] \in Nat
               /\ \A u \in prior : Find!Related(u[1], s) =>
                     u[2] <= low[s] /\ (u[1] # s => size[s] # 0)
               /\ \E u \in prior : Find!Related(u[1], s) /\ u[2] = low[s]
               /\ first[s] \in Seq(prior)
               /\ \A i \in DOMAIN first[s] : first[s][i][2] <= low[s]
               /\ size[s] = 0 => <<s, low[s]>> \in prior
    <3>1. /\ size[s] \in Nat /\ size[s] # 0 /\ low[s] = t[2] /\ t[2] \in Nat
          /\ first[s] = <<t>>
      BY <1>1, <2>3, <2>4
    <3>2. \A i \in DOMAIN first[s] : first[s][i] = t
      BY <3>1
    <3>3. Find!Related(t[1], s)
      BY <2>1 DEF Find!Related
    <3>4. first[s] \in Seq(prior)
      BY <3>1
    <3>5. \A i \in DOMAIN first[s] : first[s][i][2] <= low[s]
      BY <3>1, <3>2
    <3>6. \A u \in prior : Find!Related(u[1], s) =>
                     u[2] <= low[s] /\ (u[1] # s => size[s] # 0)
      BY <2>2, <3>1
    <3> QED
      BY <3>1, <3>3, <3>4, <3>5, <3>6
  <2>6. Follows(size, low, first, prior)
    BY <2>3, <2>5 DEF Follows
  <2> QED
    BY <2>1, <2>6, GrowKeeps
<1>6. ASSUME NEW l \in prior, NEW r \in prior,
             NEW size \in [{"full"} -> 1..MaxNew], Find!Merge(l, r, size)
      PROVE  Find!ChainInv'
  <2> DEFINE top == IF l[2] > r[2] THEN l[2] ELSE r[2]
             low == [s \in {"full"} |-> top]
             first == [s \in {"full"} |-> <<l, r>>]
  <2>1. l[1] = "left" /\ r[1] = "right" /\ Find!Grow(size, low, first)
    BY <1>6 DEF Find!Merge, Find!Number
  <2>2. \A u \in prior : u = l \/ u = r
    BY <1>1, <2>1 DEF Find!Halves
  <2>3. DOMAIN size = {"full"} /\ size["full"] \in Nat /\ size["full"] # 0
    BY <1>2
  <2>4. low["full"] = top /\ first["full"] = <<l, r>>
    OBVIOUS
  <2>5. /\ top \in Nat /\ l[2] \in Nat /\ r[2] \in Nat
        /\ l[2] <= top /\ r[2] <= top /\ (top = l[2] \/ top = r[2])
    BY <1>1
  <2> HIDE DEF low, first, top
  <2>6. ASSUME NEW s \in DOMAIN size
        PROVE  /\ size[s] \in Nat /\ low[s] \in Nat
               /\ \A u \in prior : Find!Related(u[1], s) =>
                     u[2] <= low[s] /\ (u[1] # s => size[s] # 0)
               /\ \E u \in prior : Find!Related(u[1], s) /\ u[2] = low[s]
               /\ first[s] \in Seq(prior)
               /\ \A i \in DOMAIN first[s] : first[s][i][2] <= low[s]
               /\ size[s] = 0 => <<s, low[s]>> \in prior
    <3>1. /\ s = "full" /\ size[s] \in Nat /\ size[s] # 0
          /\ low[s] = top /\ first[s] = <<l, r>>
      BY <2>3, <2>4
    <3>2. \A i \in DOMAIN first[s] : first[s][i] = l \/ first[s][i] = r
      BY <3>1
    <3>3. \A u \in prior : Find!Related(u[1], s)
      BY <3>1 DEF Find!Related
    <3>4. first[s] \in Seq(prior)
      BY <3>1
    <3>5. \A i \in DOMAIN first[s] : first[s][i][2] <= low[s]
      BY <2>5, <3>1, <3>2
    <3>6. \A u \in prior : Find!Related(u[1], s) =>
                     u[2] <= low[s] /\ (u[1] # s => size[s] # 0)
      BY <2>2, <2>5, <3>1
    <3>7. \E u \in prior : Find!Related(u[1], s) /\ u[2] = low[s]
      BY <2>5, <3>1, <3>3
    <3> QED
      BY <2>5, <3>1, <3>4, <3>5, <3>6, <3>7
  <2>7. Follows(size, low, first, prior)
    BY <2>3, <2>6 DEF Follows
  <2> QED
    BY <2>1, <2>7, GrowKeeps
<1> QED
  BY <1>3, <1>4, <1>5, <1>6 DEF Find!NewMaster

\* What was true of the earlier masterchain blocks stays so.
LEMMA MasterKeepsPast ==
  ASSUME Find!ChainInv, NEW CONSTANT last, last = Find!Latest, Find!NewMaster
  PROVE  /\ last \in Nat /\ Find!Latest' = last + 1
         /\ \A m \in 0..last : Find!Tips(m)' = Find!Tips(m)
         /\ \A m \in 1..last : Find!New(m)' = Find!New(m)
<1>1. \E T : tips' = Append(tips, T)
  <2>1. ASSUME NEW size, NEW low, NEW first, Find!Grow(size, low, first)
        PROVE  \E T : tips' = Append(tips, T)
    BY <2>1, Zenon DEF Find!Grow
  <2> QED
    BY <2>1 DEF Find!NewMaster, Find!Extend, Find!Split, Find!Merge
<1>2. PICK T : tips' = Append(tips, T)
  BY <1>1
<1> QED
  BY <1>2, AppendTips DEF Find!ChainInv

LEMMA MasterKeeps ==
  ASSUME Find!FinderAssumption, Find!FindInv, Find!NewMaster
  PROVE  Find!FindInv'
<1>1. Find!ChainInv'
  BY MasterKeepsChain DEF Find!FindInv
<1>2. PICK last : last = Find!Latest
  OBVIOUS
<1>3. /\ last \in Nat /\ Find!Latest' = last + 1
      /\ \A m \in 0..last : Find!Tips(m)' = Find!Tips(m)
      /\ \A m \in 1..last : Find!New(m)' = Find!New(m)
  BY <1>2, MasterKeepsPast DEF Find!FindInv
<1>4. /\ masters' = masters /\ shards' = shards /\ finderAt' = finderAt
      /\ seq' = seq /\ cur' = cur /\ found' = found
  BY DEF Find!NewMaster, Find!cache
<1>5. Find!CacheInv'
  <2>1. /\ masters \subseteq 0..last /\ DOMAIN shards \subseteq 0..last
        /\ \A m \in DOMAIN shards : shards[m] = Find!Tips(m)
    BY <1>2 DEF Find!FindInv, Find!CacheInv
  <2>2. masters' \subseteq 0..(last + 1) /\ DOMAIN shards' \subseteq 0..(last + 1)
    BY <1>3, <1>4, <2>1
  <2>3. \A m \in DOMAIN shards' : shards'[m] = Find!Tips(m)'
    BY <1>3, <1>4, <2>1
  <2> QED
    BY <1>3, <2>2, <2>3 DEF Find!CacheInv
<1>6. Find!FinderInv'
  <2>0. /\ finderAt \in [Finder -> {"idle", "lookup", "shards", "previous", "walk"}]
        /\ seq \in [Finder -> Nat]
        /\ cur \in [Finder -> SUBSET (Find!Shard \X Nat)]
    BY DEF Find!FindInv, Find!FinderInv
  <2> SUFFICES ASSUME NEW f \in Finder
               PROVE  /\ finderAt[f] # "idle" => seq[f] \in Nat \ {0}
                      /\ finderAt[f] \in {"shards", "previous", "walk"} => seq[f] <= last + 1
                      /\ finderAt[f] \in {"previous", "walk"} => cur[f] = Find!Tips(seq[f])'
    BY <1>3, <1>4, <2>0 DEF Find!FinderInv
  <2>1. /\ finderAt[f] # "idle" => seq[f] \in Nat \ {0}
        /\ finderAt[f] \in {"shards", "previous", "walk"} => seq[f] <= last
        /\ finderAt[f] \in {"previous", "walk"} => cur[f] = Find!Tips(seq[f])
    BY <1>2 DEF Find!FindInv, Find!FinderInv
  <2>2. PICK n : n = seq[f]
    OBVIOUS
  <2>3. Find!Tips(seq[f])' = Find!Tips(n)'
    BY <1>4, <2>2 DEF Find!Tips
  <2>4. finderAt[f] \in {"shards", "previous", "walk"} => n \in 0..last
    BY <1>3, <2>1, <2>2
  <2>5. finderAt[f] \in {"previous", "walk"} => cur[f] = Find!Tips(seq[f])'
    BY <1>3, <2>1, <2>2, <2>3, <2>4
  <2>6. finderAt[f] \in {"shards", "previous", "walk"} => seq[f] <= last + 1
    BY <1>3, <2>1, <2>2, <2>4
  <2> QED
    BY <2>1, <2>5, <2>6
<1>7. Find!FoundInv'
  <2> SUFFICES ASSUME NEW m \in DOMAIN found
               PROVE  /\ m \in 1..(last + 1) /\ Find!IsInjective(found[m])
                      /\ Find!Range(found[m]) = Find!New(m)'
    BY <1>3, <1>4 DEF Find!FoundInv, Find!IsInjective, Find!Range
  <2>1. /\ m \in 1..last /\ Find!IsInjective(found[m])
        /\ Find!Range(found[m]) = Find!New(m)
    BY <1>2 DEF Find!FindInv, Find!FoundInv
  <2> QED
    BY <1>3, <2>1
<1> QED
  BY <1>1, <1>5, <1>6, <1>7 DEF Find!FindInv

\* A step that leaves the chain alone leaves what depends on it alone.
LEMMA ChainStays ==
  ASSUME Find!FindInv, UNCHANGED <<tips, parents>>
  PROVE  /\ Find!ChainInv' /\ Find!Latest' = Find!Latest
         /\ \A m : Find!Tips(m)' = Find!Tips(m) /\ Find!New(m)' = Find!New(m)
<1>1. Find!Latest' = Find!Latest /\ \A m : Find!Tips(m)' = Find!Tips(m)
  BY DEF Find!Latest, Find!Tips
<1>2. \A m : Find!New(m)' = Find!New(m)
  BY <1>1 DEF Find!New
<1>3. Find!TipsOK' /\ Find!TipsGrow'
  <2>1. Find!TipsOK /\ Find!TipsGrow
    BY DEF Find!FindInv, Find!ChainInv
  <2>2. Find!TipsOK'
    BY <2>1, Zenon DEF Find!TipsOK, Find!Latest, Find!Tips
  <2>3. Find!TipsGrow'
    BY <1>1, <2>1 DEF Find!TipsGrow
  <2> QED
    BY <2>2, <2>3
<1>4. \A b, m : Find!Behind(b, m) => Find!Behind(b, m)'
  BY <1>1, <1>2 DEF Find!Behind
<1> QED
  BY <1>1, <1>2, <1>3, <1>4 DEF Find!FindInv, Find!ChainInv

\* What a finder remembers is the chain's.
LEMMA StoreKeeps ==
  ASSUME Find!FindInv, UNCHANGED <<tips, parents>>,
         NEW ms, NEW ss, Find!Store(ms, ss), ms \subseteq 0..Find!Latest,
         DOMAIN ss \subseteq 0..Find!Latest,
         \A m \in DOMAIN ss : ss[m] = Find!Tips(m)
  PROVE  Find!CacheInv'
<1>1. Find!Latest' = Find!Latest /\ \A m : Find!Tips(m)' = Find!Tips(m)
  BY ChainStays
<1>2. DOMAIN <<>> = {}
  OBVIOUS
<1> QED
  BY <1>1, <1>2 DEF Find!Store, Find!CacheInv

LEMMA LookUpKeeps ==
  ASSUME Find!FindInv, UNCHANGED <<tips, parents>>,
         NEW m \in Nat, Find!LookedUp(m)
  PROVE  Find!CacheInv' /\ m <= Find!Latest
<1>1. /\ masters \subseteq 0..Find!Latest /\ DOMAIN shards \subseteq 0..Find!Latest
      /\ \A n \in DOMAIN shards : shards[n] = Find!Tips(n)
  BY DEF Find!FindInv, Find!CacheInv
<1>2. CASE m \in masters /\ UNCHANGED <<masters, shards>>
  <2>1. Find!Latest' = Find!Latest /\ \A n : Find!Tips(n)' = Find!Tips(n)
    BY ChainStays
  <2>2. m <= Find!Latest
    BY <1>1, <1>2
  <2> QED
    BY <1>1, <1>2, <2>1, <2>2 DEF Find!CacheInv
<1>3. CASE m <= Find!Latest /\ Find!Store(masters \cup {m}, shards)
  <2>1. Find!Latest \in Nat
    BY LatestTyped DEF Find!FindInv, Find!ChainInv
  <2>2. masters \cup {m} \subseteq 0..Find!Latest
    BY <1>1, <1>3, <2>1
  <2> QED
    BY <1>1, <1>3, <2>2, StoreKeeps
<1> QED
  BY <1>2, <1>3 DEF Find!LookedUp, Find!cache

LEMMA RememberKeeps ==
  ASSUME Find!FindInv, UNCHANGED <<tips, parents>>,
         NEW m \in 0..Find!Latest, Find!RememberShards(m)
  PROVE  Find!CacheInv' /\ Find!ShardsOf(m) = Find!Tips(m)
<1>1. /\ masters \subseteq 0..Find!Latest /\ DOMAIN shards \subseteq 0..Find!Latest
      /\ \A n \in DOMAIN shards : shards[n] = Find!Tips(n)
  BY DEF Find!FindInv, Find!CacheInv
<1>2. Find!ShardsOf(m) = Find!Tips(m)
  BY <1>1 DEF Find!ShardsOf
<1>3. CASE UNCHANGED <<masters, shards>>
  <2>1. Find!Latest' = Find!Latest /\ \A n : Find!Tips(n)' = Find!Tips(n)
    BY ChainStays
  <2> QED
    BY <1>1, <1>2, <1>3, <2>1 DEF Find!CacheInv
<1>4. CASE Find!Store(masters, Find!With(shards, [n \in {m} |-> Find!ShardsOf(m)]))
  <2> DEFINE ss == Find!With(shards, [n \in {m} |-> Find!ShardsOf(m)])
  <2>1. /\ DOMAIN ss \subseteq 0..Find!Latest
        /\ \A n \in DOMAIN ss : ss[n] = Find!Tips(n)
    BY <1>1, <1>2 DEF Find!With
  <2> HIDE DEF ss
  <2>2. Find!Store(masters, ss)
    BY <1>4 DEF ss
  <2> QED
    BY <1>1, <1>2, <2>1, <2>2, StoreKeeps
<1> QED
  BY <1>2, <1>3, <1>4 DEF Find!RememberShards, Find!cache

\* A finder's step.
LEMMA FinderKeeps ==
  ASSUME Find!FinderAssumption, Find!FindInv, NEW f \in Finder, Find!Step(f)
  PROVE  Find!FindInv'
<1>1. UNCHANGED <<tips, parents>>
  BY DEF Find!Step, Find!Begin, Find!Lookup, Find!CurShards,
         Find!LookupPrevious, Find!Walk, Find!Fail, Find!chain
<1>2. /\ Find!ChainInv' /\ Find!Latest' = Find!Latest
      /\ \A m : Find!Tips(m)' = Find!Tips(m) /\ Find!New(m)' = Find!New(m)
  BY <1>1, ChainStays
<1> DEFINE At(l) == finderAt[f] = l
           Moves(l) == finderAt' = [finderAt EXCEPT ![f] = l]
           Good(g) == /\ finderAt'[g] # "idle" => seq'[g] \in Nat \ {0}
                      /\ finderAt'[g] \in {"shards", "previous", "walk"} => seq'[g] <= Find!Latest
                      /\ finderAt'[g] \in {"previous", "walk"} => cur'[g] = Find!Tips(seq'[g])
<1>3. /\ finderAt \in [Finder -> {"idle", "lookup", "shards", "previous", "walk"}]
      /\ seq \in [Finder -> Nat]
      /\ cur \in [Finder -> SUBSET (Find!Shard \X Nat)]
  BY DEF Find!FindInv, Find!FinderInv
<1>4. \A g \in Finder :
        /\ finderAt[g] # "idle" => seq[g] \in Nat \ {0}
        /\ finderAt[g] \in {"shards", "previous", "walk"} => seq[g] <= Find!Latest
        /\ finderAt[g] \in {"previous", "walk"} => cur[g] = Find!Tips(seq[g])
  BY DEF Find!FindInv, Find!FinderInv
<1>5. Find!Latest \in Nat
  BY LatestTyped DEF Find!FindInv, Find!ChainInv
<1>6. ASSUME finderAt' \in [Finder -> {"idle", "lookup", "shards", "previous", "walk"}],
             seq' \in [Finder -> Nat],
             cur' \in [Finder -> SUBSET (Find!Shard \X Nat)],
             Good(f),
             \A g \in Finder \ {f} : /\ finderAt'[g] = finderAt[g]
                                     /\ seq'[g] = seq[g] /\ cur'[g] = cur[g]
      PROVE  Find!FinderInv'
  <2>1. ASSUME NEW g \in Finder PROVE Good(g)
    BY <1>4, <1>6
  <2>2. ASSUME NEW g \in Finder PROVE Find!Tips(seq[g])' = Find!Tips(seq'[g])
    BY <1>1 DEF Find!Tips
  <2> QED
    BY <1>2, <1>6, <2>1, <2>2 DEF Find!FinderInv
<1>7. Find!CacheInv /\ Find!FoundInv
  BY DEF Find!FindInv
<1>8. ASSUME UNCHANGED <<masters, shards>> PROVE Find!CacheInv'
  BY <1>2, <1>7, <1>8 DEF Find!CacheInv
<1>9. ASSUME UNCHANGED found PROVE Find!FoundInv'
  <2>1. \A m \in DOMAIN found : m \in 1..Find!Latest /\ Find!IsInjective(found[m])
                                /\ Find!Range(found[m]) = Find!New(m)
    BY <1>7 DEF Find!FoundInv
  <2> SUFFICES ASSUME NEW m \in DOMAIN found
               PROVE  /\ m \in 1..Find!Latest /\ Find!IsInjective(found[m])
                      /\ Find!Range(found[m]) = Find!New(m)
    BY <1>2, <1>9 DEF Find!FoundInv, Find!IsInjective, Find!Range
  <2> QED
    BY <2>1
<1>10. CASE Find!Begin(f)
  <2>1. PICK m \in 1..MaxMaster : seq' = [seq EXCEPT ![f] = m]
    BY <1>10 DEF Find!Begin
  <2>2. Moves("lookup") /\ UNCHANGED <<masters, shards, cur, found>>
    BY <1>10 DEF Find!Begin, Find!Move, Find!cache
  <2>3. m \in Nat \ {0}
    BY DEF Find!FinderAssumption
  <2>4. Find!FinderInv'
    BY <1>3, <1>6, <2>1, <2>2, <2>3
  <2> QED
    BY <1>2, <1>8, <1>9, <2>2, <2>4 DEF Find!FindInv
<1>11. CASE Find!Lookup(f)
  <2>1. At("lookup") /\ Find!LookedUp(seq[f]) /\ Moves("shards") /\ UNCHANGED <<seq, cur, found>>
    BY <1>11 DEF Find!Lookup, Find!At, Find!Move
  <2>2. Find!CacheInv' /\ seq[f] <= Find!Latest
    BY <1>1, <1>3, <2>1, LookUpKeeps
  <2>3. Find!FinderInv'
    BY <1>3, <1>4, <1>6, <2>1, <2>2
  <2> QED
    BY <1>2, <1>9, <2>1, <2>2, <2>3 DEF Find!FindInv
<1>12. CASE Find!CurShards(f)
  <2>1. /\ At("shards") /\ cur' = [cur EXCEPT ![f] = Find!ShardsOf(seq[f])]
        /\ Find!RememberShards(seq[f]) /\ Moves("previous") /\ UNCHANGED <<seq, found>>
    BY <1>12 DEF Find!CurShards, Find!At, Find!Move
  <2>2. seq[f] \in 0..Find!Latest
    BY <1>3, <1>4, <1>5, <2>1
  <2>3. Find!CacheInv' /\ Find!ShardsOf(seq[f]) = Find!Tips(seq[f])
    BY <1>1, <2>1, <2>2, RememberKeeps
  <2>4. Find!Tips(seq[f]) \subseteq Find!Shard \X Nat
    BY <2>2, TipsTyped DEF Find!FindInv, Find!ChainInv
  <2>5. cur' \in [Finder -> SUBSET (Find!Shard \X Nat)]
    BY <1>3, <2>1, <2>3, <2>4
  <2>6. cur'[f] = Find!Tips(seq[f]) /\ \A g \in Finder \ {f} : cur'[g] = cur[g]
    BY <1>3, <2>1, <2>3
  <2>7. Find!FinderInv'
    BY <1>3, <1>4, <1>6, <2>1, <2>5, <2>6
  <2> QED
    BY <1>2, <1>9, <2>1, <2>3, <2>7 DEF Find!FindInv
<1>13. CASE Find!LookupPrevious(f)
  <2>1. At("previous") /\ Find!LookedUp(seq[f] - 1) /\ Moves("walk") /\ UNCHANGED <<seq, cur, found>>
    BY <1>13 DEF Find!LookupPrevious, Find!At, Find!Move
  <2>2. seq[f] - 1 \in Nat
    BY <1>3, <1>4, <2>1
  <2>3. Find!CacheInv'
    BY <1>1, <2>1, <2>2, LookUpKeeps
  <2>4. Find!FinderInv'
    BY <1>3, <1>4, <1>6, <2>1
  <2> QED
    BY <1>2, <1>9, <2>1, <2>3, <2>4 DEF Find!FindInv
<1>14. CASE Find!Walk(f)
  <2> DEFINE given == Find!AllNotSeen(cur[f], Find!ShardsOf(seq[f] - 1))
             m == seq[f]
  <2>1. /\ At("walk") /\ Find!RememberShards(seq[f] - 1)
        /\ \A b \in Find!Range(given) : b[2] # 0
        /\ found' = Find!With(found, [n \in {m} |-> given])
        /\ Moves("idle") /\ cur' = [cur EXCEPT ![f] = {}] /\ UNCHANGED seq
    BY <1>14 DEF Find!Walk, Find!At, Find!Move, Find!Number
  <2>2. m \in 1..Find!Latest /\ m - 1 \in 0..Find!Latest /\ cur[f] = Find!Tips(m)
    BY <1>3, <1>4, <1>5, <2>1
  <2>3. Find!CacheInv' /\ Find!ShardsOf(m - 1) = Find!Tips(m - 1)
    BY <1>1, <2>1, <2>2, RememberKeeps
  <2>4. Find!IsInjective(given) /\ Find!Range(given) = Find!New(m)
    BY <2>1, <2>2, <2>3, AnswerIsNew DEF Find!FindInv
  <2>5. Find!FoundInv'
    <3> HIDE DEF given, m
    <3>1. /\ DOMAIN found' = DOMAIN found \cup {m}
          /\ \A n \in DOMAIN found \ {m} : found'[n] = found[n]
          /\ found'[m] = given
      BY <2>1 DEF Find!With
    <3>2. \A n \in DOMAIN found : n \in 1..Find!Latest /\ Find!IsInjective(found[n])
                                /\ Find!Range(found[n]) = Find!New(n)
      BY <1>7 DEF Find!FoundInv
    <3>3. \A n \in DOMAIN found' : n \in 1..Find!Latest /\ Find!IsInjective(found'[n])
                                /\ Find!Range(found'[n]) = Find!New(n)
      BY <2>2, <2>4, <3>1, <3>2
    <3> QED
      BY <1>2, <3>3 DEF Find!FoundInv, Find!IsInjective, Find!Range
  <2>6. cur' \in [Finder -> SUBSET (Find!Shard \X Nat)]
    BY <1>3, <2>1
  <2>7. Find!FinderInv'
    BY <1>3, <1>4, <1>6, <2>1, <2>6
  <2> QED
    BY <1>2, <2>3, <2>5, <2>7 DEF Find!FindInv
<1>15. CASE Find!Fail(f)
  <2>1. /\ ~At("idle") /\ (Moves("lookup") \/ Moves("idle"))
        /\ cur' = [cur EXCEPT ![f] = {}] /\ UNCHANGED <<masters, shards, seq, found>>
    BY <1>15 DEF Find!Fail, Find!Move, Find!cache
  <2>2. cur' \in [Finder -> SUBSET (Find!Shard \X Nat)]
    BY <1>3, <2>1
  <2>3. Find!FinderInv'
    BY <1>3, <1>4, <1>6, <2>1, <2>2
  <2> QED
    BY <1>2, <1>8, <1>9, <2>1, <2>3 DEF Find!FindInv
<1> QED
  BY <1>10, <1>11, <1>12, <1>13, <1>14, <1>15 DEF Find!Step

\* It holds at all times.
LEMMA FindCorrect ==
  ASSUME Find!FinderAssumption
  PROVE  Find!Spec => []Find!FindInv
<1>1. Find!Init => Find!FindInv
  <2> SUFFICES ASSUME Find!Init PROVE Find!FindInv
    OBVIOUS
  <2>1. /\ tips \in {<<{}>>, <<{<<"full", 0>>}>>} /\ parents = <<>>
        /\ masters = {} /\ shards = <<>> /\ found = <<>>
        /\ finderAt = [f \in Finder |-> "idle"] /\ seq = [f \in Finder |-> 0]
        /\ cur = [f \in Finder |-> {}]
    BY DEF Find!Init, Find!Block
  <2>2. Len(tips) = 1 /\ tips[1] \in {{}, {<<"full", 0>>}}
    BY <2>1
  <2>3. Find!Latest = 0
    BY <2>2 DEF Find!Latest
  <2>4. Find!Tips(0) \in {{}, {<<"full", 0>>}}
    <3>1. 0 + 1 = 1
      OBVIOUS
    <3> QED
      BY <2>2, <3>1 DEF Find!Tips
  <2>5. 0..0 = {0} /\ 1..0 = {} /\ DOMAIN <<>> = {}
    OBVIOUS
  <2>6. Find!TipsOK
    <3>1. tips \in Seq(SUBSET (Find!Shard \X Nat)) /\ tips # <<>>
      <4>1. {} \in SUBSET (Find!Shard \X Nat) /\ {<<"full", 0>>} \in SUBSET (Find!Shard \X Nat)
        BY DEF Find!Shard
      <4> DEFINE S == SUBSET (Find!Shard \X Nat)
                 T == {<<"full", 0>>}
      <4>2. {} \in S /\ T \in S /\ tips \in {<<{}>>, <<T>>}
        BY <2>1, <4>1
      <4> HIDE DEF S, T
      <4>3. \A x \in S : <<x>> \in Seq(S) /\ <<x>> # <<>>
        OBVIOUS
      <4>4. tips \in Seq(S) /\ tips # <<>>
        BY <4>2, <4>3
      <4> QED
        BY <4>4 DEF S
    <3>2. /\ {t[1] : t \in Find!Tips(0)} \in {{}, {"full"}, Find!Halves}
          /\ \A t, u \in Find!Tips(0) : t = u
      BY <2>4
    <3> QED
      BY <2>3, <2>5, <3>1, <3>2 DEF Find!TipsOK
  <2>7. Find!TipsGrow
    BY <2>3, <2>5 DEF Find!TipsGrow
  <2>8. Find!ChainInv
    <3>1. \A t \in Find!Tips(0) : t[2] = 0
      BY <2>4
    <3>2. DOMAIN parents = UNION {Find!New(m) : m \in 1..Find!Latest}
      BY <2>1, <2>3, <2>5
    <3> QED
      BY <2>3, <2>5, <2>6, <2>7, <3>1, <3>2 DEF Find!ChainInv, Find!Number
  <2>9. Find!CacheInv /\ Find!FoundInv
    BY <2>1, <2>5 DEF Find!CacheInv, Find!FoundInv
  <2>10. Find!FinderInv
    BY <2>1 DEF Find!FinderInv
  <2> QED
    BY <2>8, <2>9, <2>10 DEF Find!FindInv
<1>2. Find!FindInv /\ [Find!Next]_(Find!vars) => Find!FindInv'
  <2> SUFFICES ASSUME Find!FindInv, [Find!Next]_(Find!vars) PROVE Find!FindInv'
    OBVIOUS
  <2>1. CASE Find!NewMaster
    BY <2>1, MasterKeeps
  <2>2. CASE \E f \in Finder : Find!Step(f)
    BY <2>2, FinderKeeps
  <2>3. CASE UNCHANGED Find!vars
    <3>1. UNCHANGED <<tips, parents>>
      BY <2>3 DEF Find!vars
    <3>2. /\ Find!ChainInv' /\ Find!Latest' = Find!Latest
          /\ \A m : Find!Tips(m)' = Find!Tips(m) /\ Find!New(m)' = Find!New(m)
      BY <3>1, ChainStays
    <3>3. Find!CacheInv'
      BY <2>3, <3>2 DEF Find!FindInv, Find!CacheInv, Find!vars
    <3>4. Find!FinderInv'
      <4>1. \A f \in Finder : Find!Tips(seq[f])' = Find!Tips(seq[f])
        BY <2>3 DEF Find!Tips, Find!vars
      <4> QED
        BY <2>3, <3>2, <4>1 DEF Find!FindInv, Find!FinderInv, Find!vars
    <3>5. Find!FoundInv'
      <4>1. found' = found
        BY <2>3 DEF Find!vars
      <4>2. \A m \in DOMAIN found : m \in 1..Find!Latest /\ Find!IsInjective(found[m])
                                /\ Find!Range(found[m]) = Find!New(m)
        BY DEF Find!FindInv, Find!FoundInv
      <4> SUFFICES ASSUME NEW m \in DOMAIN found
                   PROVE  /\ m \in 1..Find!Latest /\ Find!IsInjective(found[m])
                          /\ Find!Range(found[m]) = Find!New(m)
        BY <3>2, <4>1 DEF Find!FoundInv, Find!IsInjective, Find!Range
      <4> QED
        BY <4>2
    <3> QED
      BY <3>2, <3>3, <3>4, <3>5 DEF Find!FindInv
  <2> QED
    BY <2>1, <2>2, <2>3 DEF Find!Next
<1> QED
  BY <1>1, <1>2, PTL DEF Find!Spec

\* What was found is new, and nothing that is new is missing.
LEMMA FoundIsNew ==
  ASSUME Find!FindInv
  PROVE  Find!FoundOnce
<1>1. /\ Find!TipsOK /\ Find!TipsGrow /\ Find!Latest \in Nat
      /\ DOMAIN parents = UNION {Find!New(m) : m \in 1..Find!Latest}
  BY LatestTyped DEF Find!FindInv, Find!ChainInv
<1>2. \A m \in DOMAIN found : /\ m \in 1..Find!Latest /\ Find!IsInjective(found[m])
                              /\ Find!Range(found[m]) = Find!New(m)
  BY DEF Find!FindInv, Find!FoundInv
<1> DEFINE blocks == [m \in DOMAIN found |-> Find!Range(found[m])]
<1>3. ASSUME NEW m \in DOMAIN found, NEW n \in DOMAIN found, m # n
      PROVE  blocks[m] \cap blocks[n] = {}
  <2>1. m \in 1..Find!Latest /\ n \in 1..Find!Latest /\ (m < n \/ n < m)
    BY <1>1, <1>2, <1>3
  <2>2. Find!New(m) \cap Find!New(n) = {}
    <3>1. CASE m < n
      BY <1>1, <2>1, <3>1, NewOnce
    <3>2. CASE n < m
      <4>1. Find!New(n) \cap Find!New(m) = {}
        BY <1>1, <2>1, <3>2, NewOnce
      <4> QED
        BY <4>1
    <3> QED
      BY <2>1, <3>1, <3>2
  <2> QED
    BY <1>2, <2>2
<1>4. ASSUME \A m \in 1..Find!Latest : m \in DOMAIN found \/ Find!Tips(m - 1) = {}
      PROVE  UNION Find!Range(blocks) = DOMAIN parents
  <2>1. \A b : b \in UNION Find!Range(blocks)
           <=> \E m \in DOMAIN found : b \in Find!Range(found[m])
    BY DEF Find!Range
  <2>2. \A m \in 1..Find!Latest : Find!Tips(m - 1) = {} => Find!New(m) = {}
    BY DEF Find!New
  <2>3. \A b : b \in DOMAIN parents <=> \E m \in 1..Find!Latest : b \in Find!New(m)
    BY <1>1
  <2>4. \A b \in DOMAIN parents : \E m \in DOMAIN found : b \in Find!Range(found[m])
    BY <1>2, <1>4, <2>2, <2>3
  <2>5. \A m \in DOMAIN found : \A b \in Find!Range(found[m]) : b \in DOMAIN parents
    BY <1>2, <2>3
  <2> HIDE DEF blocks
  <2> QED
    BY <2>1, <2>4, <2>5
<1> QED
  BY <1>2, <1>3, <1>4 DEF Find!FoundOnce

\* Over any chain of masterchain blocks, whose shards split and merge, with
\* any number of finders that share the caches, fail and try again: what was
\* found for a masterchain block is its new shard blocks, each once, no block
\* was found for two of them, and once all were looked up none is missing.
THEOREM ShardsFoundOnce ==
  PartsSpec => []FoundOnce
<1>1. Find!FinderAssumption
  BY PartsAssumption
<1>2. Find!FindInv => Find!FoundOnce
  BY FoundIsNew
<1> QED
  BY <1>1, <1>2, WalkIsPart, FindCorrect, PTL DEF FoundOnce
=============================================================================
