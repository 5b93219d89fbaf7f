------------------------------- MODULE Query --------------------------------
(***************************************************************************)
(* A client of the HTTP API walks through a table page by page while pods  *)
(* save blocks: api/http/controller.go, app/query/query.go and the filters *)
(* of core/repository.  Rows are read from PostgreSQL and counted in       *)
(* ClickHouse, which has a row later than PostgreSQL or, after a failure,  *)
(* never.                                                                  *)
(*                                                                         *)
(* A row is an account and the logical time, lt, of its transaction: the   *)
(* states of "accounts", the newest of each account, "latest",             *)
(* "transactions", "messages", "blocks", whose lt is their number, and      *)
(* "labels" of addresses, whose lt is the place of their name.              *)
(* Several rows may have one lt.  A filter by address is modelled, as it   *)
(* adds rows; the others only select fewer, but for a range of blocks, by  *)
(* which account states are ordered instead of lt: it is left out.         *)
(*                                                                         *)
(* SmallerAfter and AnyUpsert are faulty variants of the operator that     *)
(* follows each of them; no action uses them.                              *)
(***************************************************************************)
EXTENDS Naturals, Sequences, FiniteSets, SequencesExt, FiniteSetsExt

CONSTANTS
    Account,    \* accounts with states in the database
    Skipped,    \* core.SkipAddress: never saved, their states come from the node
    Old,        \* the rows saved before
    NewRows,    \* by block: the rows it brings
    MaxLt,      \* bound: the greatest lt
    Limits      \* limits a request has

Block == DOMAIN NewRows

QueryAssumption ==
    /\ MaxLt \in Nat /\ IsFiniteSet(Account)
    /\ Account \cap Skipped = {}
    /\ Old \subseteq Account \X (1..MaxLt)
    /\ \A b \in Block : NewRows[b] \subseteq Account \X (1..MaxLt)
    /\ Limits \subseteq Nat \ {0}

VARIABLES
    stored,   \* PostgreSQL: the rows of the table
    latest,   \* PostgreSQL: by account, latest_account_states
    counted,  \* ClickHouse: the rows of the table
    saving,   \* by block: where its save is
    table,    \* what the client walks through
    order,    \* "ASC" or "DESC"
    limit,    \* the limit of its requests
    named,    \* the accounts they ask for, all if none
    pc,       \* the request: "ask", "select", "count", or "done"
    after,    \* the cursor of the request
    total,    \* what was counted
    page,     \* what was selected
    answers,  \* the pages the client got
    base      \* the rows it was to walk through at the start

walk == <<table, order, limit, named, base>>
vars == <<stored, latest, counted, saving, table, order, limit, named, pc,
          after, total, page, answers, base>>

Lt(r) == r[2]
Newest(rows) == [a \in {r[1] : r \in rows} |->
                    Max({Lt(r) : r \in {s \in rows : s[1] = a}})]

Matching(rows) == {r \in rows : named = {} \/ r[1] \in named}
Rows == Matching(IF table = "latest" THEN {<<a, latest[a]>> : a \in DOMAIN latest}
                 ELSE stored)

\* Account states have a latest row besides.
HasLatest == table \in {"accounts", "latest"}

\* unmarshalSorting makes DESC of no order; labels are ordered by name.  What
\* was counted before decides something only where it is counted first.
Init ==
    /\ stored = Old /\ latest = Newest(Old)
    /\ saving = [b \in Block |-> "rows"]
    /\ table \in {"accounts", "latest", "blocks", "transactions", "messages",
                  "labels"}
    /\ counted \in IF HasLatest THEN SUBSET Old ELSE {Old}
    /\ order \in IF table = "labels" THEN {"ASC"} ELSE {"ASC", "DESC"}
    /\ limit \in Limits
    /\ named \in {{}} \cup IF table = "latest" THEN {Account \cup Skipped} ELSE {}
    /\ pc = "ask"
    /\ after = IF order = "ASC" THEN 0 ELSE MaxLt + 1
    /\ total = 0 /\ page = {}
    /\ answers = <<>>
    /\ base = Rows

-----------------------------------------------------------------------------
\* A save: AddAccountStates, AddTransactions, AddMessages or AddBlocks; only
\* the first has latest rows.  It stops at the first error, and what it did
\* stays.
SaveRows(b) ==
    /\ saving[b] = "rows" /\ table # "labels"
    /\ stored' = stored \cup NewRows[b]
    /\ saving' = [saving EXCEPT ![b] = IF HasLatest THEN "latest" ELSE "count"]
    /\ UNCHANGED <<latest, counted>>

\* The upsert of one account's latest row.
AnyUpsert(a, lt) == lt
Upsert(a, lt) == IF a \in DOMAIN latest /\ latest[a] >= lt THEN latest[a] ELSE lt

SetLatest(b) ==
    /\ saving[b] = "latest"
    /\ LET new == Newest(NewRows[b]) IN
       latest' = [a \in DOMAIN latest \cup DOMAIN new |->
                     IF a \in DOMAIN new THEN Upsert(a, new[a]) ELSE latest[a]]
    /\ saving' = [saving EXCEPT ![b] = "count"]
    /\ UNCHANGED <<stored, counted>>

\* AddAddressLabel: labels come one by one; an address has one label.
AddLabel(b) ==
    /\ saving[b] = "rows" /\ table = "labels"
    /\ \E r \in NewRows[b] \ stored : stored' = stored \cup {r}
    /\ saving' = [saving EXCEPT ![b] = "count"]
    /\ UNCHANGED <<latest, counted>>

SaveCounted(b) ==
    /\ saving[b] = "count"
    /\ counted' = counted \cup (NewRows[b] \cap stored)
    /\ saving' = [saving EXCEPT ![b] = "done"]
    /\ UNCHANGED <<stored, latest>>

FailSave(b) ==
    /\ saving[b] # "done"
    /\ saving' = [saving EXCEPT ![b] = "done"]
    /\ UNCHANGED <<stored, latest, counted>>

Save(b) ==
    \/ SaveRows(b) \/ AddLabel(b) \/ SetLatest(b) \/ SaveCounted(b) \/ FailSave(b)

-----------------------------------------------------------------------------
\* The request.  The cursor selects what comes after it in the order.
SmallerAfter(x, y) == x < y
Before(x, y) == IF order = "ASC" THEN x < y ELSE y < x

Selected == {r \in Rows : Before(after, Lt(r))}

\* ORDER BY and LIMIT: rows with one lt come in any order.
FirstOf(n, rows) ==
    {p \in kSubset(Min({n, Cardinality(rows)}), rows) :
        \A r \in p, s \in rows \ p : ~Before(Lt(s), Lt(r))}
FirstRows(n) == FirstOf(n, Selected)

\* The count groups by account for latest states, and has no cursor.
Count == Cardinality(IF table = "latest" THEN {r[1] : r \in Matching(counted)}
                     ELSE Matching(counted))

LastLt(p) ==
    IF order = "ASC" THEN Max({Lt(r) : r \in p}) ELSE Min({Lt(r) : r \in p})

\* fetchSkippedAccounts: states of skipped accounts go behind the page, with
\* any lt.  As this puts the client's cursor anywhere, a client that names a
\* skipped account asks for no second page.  The offset of the next labels is
\* how many the client has.
Answer(p) ==
    LET added == named \cap Skipped IN
    /\ answers' = Append(answers, p \cup {<<a, MaxLt>> : a \in added})
    /\ IF p = {} \/ added # {}
       THEN pc' = "done" /\ UNCHANGED after
       ELSE /\ pc' = "ask"
            /\ after' = IF table = "labels" THEN after + Cardinality(p)
                        ELSE LastLt(p)
    /\ page' = {} /\ total' = 0

\* FilterAccounts counts first, and without a count has no rows.
CountFirst ==
    /\ pc = "ask" /\ HasLatest
    /\ IF Count = 0 THEN Answer({})
       ELSE total' = Count /\ pc' = "select" /\ UNCHANGED <<after, page, answers>>

\* filterAccountStates has a limit only if the count exceeds it.
SelectCounted ==
    /\ pc = "select"
    /\ \E p \in FirstRows(IF limit < total THEN limit ELSE Cardinality(Selected)) :
           Answer(p)

\* The other filters select first, and count only if there are rows.
CountNext(p) ==
    IF p = {} THEN Answer({})
    ELSE page' = p /\ pc' = "count" /\ UNCHANGED <<after, total, answers>>
SelectFirst == \E p \in FirstRows(limit) : CountNext(p)

SelectTransactions == pc = "ask" /\ table = "transactions" /\ SelectFirst
SelectMessages     == pc = "ask" /\ table = "messages" /\ SelectFirst

\* Blocks come with the number of their transactions, counted in PostgreSQL.
SelectBlocks       == pc = "ask" /\ table = "blocks" /\ SelectFirst

\* filterAddressLabels has an offset, which counts rows anew.
SelectLabels ==
    /\ pc = "ask" /\ table = "labels"
    /\ \E shown \in FirstOf(after, Rows) :
           \E p \in FirstOf(limit, Rows \ shown) : CountNext(p)

CountTransactions == pc = "count" /\ table = "transactions" /\ Answer(page)
CountMessages     == pc = "count" /\ table = "messages" /\ Answer(page)
CountBlocks       == pc = "count" /\ table = "blocks" /\ Answer(page)
CountLabels       == pc = "count" /\ table = "labels" /\ Answer(page)

\* The handlers of the controller.  Requests that they refuse, and errors of
\* the database, give no page and change nothing.
GetAccounts     == CountFirst \/ SelectCounted
GetTransactions == SelectTransactions \/ CountTransactions
GetMessages     == SelectMessages \/ CountMessages
GetBlocks       == SelectBlocks \/ CountBlocks
GetLabels       == SelectLabels \/ CountLabels

Request ==
    GetAccounts \/ GetTransactions \/ GetMessages \/ GetBlocks \/ GetLabels

\* The walk is what is looked at: nothing more is saved when it has ended.
Next ==
    \/ \E b \in Block : pc # "done" /\ Save(b)
          /\ UNCHANGED <<walk, pc, after, total, page, answers>>
    \/ Request /\ UNCHANGED <<walk, stored, latest, counted, saving>>

Spec == Init /\ [][Next]_vars

-----------------------------------------------------------------------------
Saved(p) == {r \in p : r[1] \in Account}
Shown    == UNION {Saved(p) : p \in Range(answers)}

\* Every row that was there at the start of the walk is shown by its end,
\* whatever is saved meanwhile.  Not shown may be: the row of an account that
\* has a newer state, rows with the lt a page ends at, what a single page has
\* no room for, and everything while ClickHouse has counted nothing.
WalkComplete ==
    pc = "done" /\ (~HasLatest \/ Matching(counted) # {}) =>
        \A r \in base :
            \/ r \in Shown
            \/ table = "latest" /\ latest[r[1]] > Lt(r)
            \/ \E p \in Range(answers) : Saved(p) # {} /\ Lt(r) = LastLt(Saved(p))
            \/ named # {} /\ Cardinality(Shown) >= limit

\* No page shows a row of an earlier one, and a walk down the latest states
\* shows no account twice although its row moves meanwhile.  Labels are left
\* out: after one is added before them the offset brings them again.
EachOnce ==
    \A i, j \in DOMAIN answers : i < j =>
        /\ table # "labels" => answers[i] \cap answers[j] = {}
        /\ table = "latest" /\ order = "DESC" =>
              {r[1] : r \in answers[i]} \cap {r[1] : r \in answers[j]} = {}
-----------------------------------------------------------------------------
\* The inductive invariants of these properties, in named parts.
Row == Account \X (1..MaxLt)

TypeOK ==
    /\ stored \subseteq Row /\ counted \subseteq Row /\ page \subseteq Row
    /\ base \subseteq Row
    /\ DOMAIN latest \subseteq Account
    /\ \A a \in DOMAIN latest : latest[a] \in 1..MaxLt
    /\ saving \in [Block -> {"rows", "latest", "count", "done"}]
    /\ table \in {"accounts", "latest", "blocks", "transactions", "messages",
                  "labels"}
    /\ order \in {"ASC", "DESC"} /\ (table = "labels" => order = "ASC")
    /\ limit \in Limits
    /\ named \subseteq Account \cup Skipped /\ (named # {} => table = "latest")
    /\ pc \in {"ask", "select", "count", "done"}
    /\ after \in Nat /\ total \in Nat
    /\ answers \in Seq(SUBSET ((Account \cup Skipped) \X Nat))

\* The cursor is behind every row that was shown, and before every row that
\* is going to be.
CursorBetween ==
    table # "labels" /\ pc # "done" =>
        /\ \A i \in DOMAIN answers : \A r \in answers[i] : ~Before(after, Lt(r))
        /\ \A r \in page : Before(after, Lt(r))

\* An account's latest row is at least what was shown of it.
LatestShown ==
    table = "latest" =>
        \A i \in DOMAIN answers : \A r \in answers[i] :
            r[1] \in Account => r[1] \in DOMAIN latest /\ Lt(r) <= latest[r[1]]

\* A client that names skipped accounts has one answer.
OneAnswer == pc # "done" /\ named \cap Skipped # {} => answers = <<>>

WalkInv == CursorBetween /\ LatestShown /\ OneAnswer /\ EachOnce

\* What WalkComplete says of a row that was there at the start.
Tied(r) == \E p \in Range(answers) : Saved(p) # {} /\ Lt(r) = LastLt(Saved(p))
Accounted(r) ==
    \/ r \in Shown
    \/ table = "latest" /\ r[1] \in DOMAIN latest /\ latest[r[1]] > Lt(r)
    \/ Tied(r)

\* A row that is still to come is ahead of the cursor, a label has as many
\* before it as the offset is.
Below(r)      == {x \in Rows : Lt(x) < Lt(r)}
Ahead(r, c)   == r \in Rows /\ IF table = "labels" THEN c <= Cardinality(Below(r))
                               ELSE Before(c, Lt(r))
NextCursor(p) == IF table = "labels" THEN after + Cardinality(p) ELSE LastLt(p)

\* What a page makes of it.
OnPage(r, p) ==
    p # {} /\ (r \in p \/ Lt(r) = LastLt(p) \/ Ahead(r, NextCursor(p)))

\* By the end it is shown, but for what a single page has no room for, and
\* for what ClickHouse has not counted.
NoneCounted == HasLatest /\ Matching(counted) = {}
ComeInv ==
    /\ (pc = "count" => page # {}) /\ (pc = "select" => HasLatest)
    /\ \A r \in base :
          \/ Accounted(r)
          \/ pc \in {"ask", "select"} /\ Ahead(r, after)
          \/ pc = "count" /\ OnPage(r, page)
          \/ pc = "done" /\ named # {} /\ Cardinality(Shown) >= limit
          \/ pc = "done" /\ NoneCounted
=============================================================================
