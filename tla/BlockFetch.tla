------------------------------ MODULE BlockFetch -----------------------------
(***************************************************************************)
(* How a pod fetches the transactions of one masterchain block and its     *)
(* shard blocks, indexer/fetch.go and fetcher/{tx,account,libraries}.go:   *)
(* a goroutine per block asks for pages of transaction ids; each id of a   *)
(* page has a goroutine running getTransaction, which starts one more for  *)
(* the transaction and one for the account's state and receives from both  *)
(* over unbuffered channels.                                               *)
(*                                                                         *)
(* An account is fetched once more for each goroutine that misses it in    *)
(* the cache; the state is that at the end of the block, so all agree.     *)
(* The node is external: a call answers or fails, in the end by a timeout. *)
(*                                                                         *)
(* OnePage and SilentFailure are faulty variants of the operator that      *)
(* follows each of them; no action uses them.                              *)
(***************************************************************************)
EXTENDS Naturals, Sequences, FiniteSets, SequencesExt

CONSTANTS
    Block,      \* the masterchain block and its shard blocks
    TxsOf,      \* by block: its transactions, in the order the node lists them
    AccountOf,  \* by transaction
    KindOf,     \* by account: "active" (with code), "uninit", "absent" or
                \* "skipped", what core.SkipAddress says
    PageSize,   \* the 100 of fetchTxIDs
    MaxFaults   \* bound: calls to the node that fail

FetchAssumption ==
    /\ PageSize \in Nat \ {0} /\ MaxFaults \in Nat
    /\ TxsOf \in [Block -> Seq(DOMAIN AccountOf)]
    /\ \A b \in Block : IsInjective(TxsOf[b])
    /\ \A a, b \in Block : a # b => Range(TxsOf[a]) \cap Range(TxsOf[b]) = {}
    /\ \A t \in DOMAIN AccountOf :
          KindOf[AccountOf[t]] \in {"active", "uninit", "absent", "skipped"}

Tx       == UNION {Range(TxsOf[b]) : b \in Block}
BlockOf(t) == CHOOSE b \in Block : t \in Range(TxsOf[b])

VARIABLES
    at,       \* by block: "ids", "collect", "done" or "failed"
    after,    \* by block: how many transactions were listed so far
    results,  \* by block: the buffered channel of getTransactions
    got,      \* by block: transactions collected, with whether a state came
    reader,   \* by transaction: its getTransaction
    txAt,     \* the goroutine that gets the transaction
    accAt,    \* the goroutine that gets the account
    cached,   \* accounts in the cache, with their block
    libs,     \* accounts whose libraries are in the cache
    cleared,  \* whether the account cache was ever cleared
    faults    \* how many calls failed

vars == <<at, after, results, got, reader, txAt, accAt, cached, libs,
          cleared, faults>>

Kind(t)  == KindOf[AccountOf[t]]
Entry(t) == <<BlockOf(t), AccountOf[t]>>

Init ==
    /\ at = [b \in Block |-> "ids"]
    /\ after = [b \in Block |-> 0]
    /\ results = [b \in Block |-> <<>>]
    /\ got = [b \in Block |-> <<>>]
    /\ reader = [t \in Tx |-> "off"]
    /\ txAt = [t \in Tx |-> "off"]
    /\ accAt = [t \in Tx |-> "off"]
    /\ cached = {} /\ libs = {}
    /\ cleared = FALSE
    /\ faults = 0

Fault == faults < MaxFaults /\ faults' = faults + 1

-----------------------------------------------------------------------------
\* BlockTransactions.
Page(b) == {TxsOf[b][i] : i \in {j \in DOMAIN TxsOf[b] :
                                   after[b] < j /\ j <= after[b] + PageSize}}
OnePage(b) == FALSE
More(b) == after[b] < Len(TxsOf[b])

\* fetchTxIDs, and the goroutines of getTransactions: after is moved to the
\* last id only if there is more to come, which comes to the same.
FetchIds(b) ==
    /\ at[b] = "ids"
    /\ \/ /\ after' = [after EXCEPT ![b] = @ + Cardinality(Page(b))]
          /\ reader' = [t \in Tx |-> IF t \in Page(b) THEN "both" ELSE reader[t]]
          /\ txAt' = [t \in Tx |-> IF t \in Page(b) THEN "call" ELSE txAt[t]]
          /\ accAt' = [t \in Tx |-> IF t \in Page(b) THEN "cache" ELSE accAt[t]]
          /\ at' = [at EXCEPT ![b] = IF Page(b) = {} THEN "done" ELSE "collect"]
          /\ UNCHANGED faults
       \/ /\ Fault
          /\ at' = [at EXCEPT ![b] = "failed"]
          /\ UNCHANGED <<after, reader, txAt, accAt>>
    /\ UNCHANGED <<results, got, cached, libs, cleared>>

\* The loop of getTransactions over its channel: an error ends it at once,
\* else it ends when the channel is with a result for each id.
Collect(b) ==
    /\ at[b] = "collect" /\ results[b] # <<>>
    /\ LET r == Head(results[b]) IN
       IF r.ok
       THEN /\ got' = [got EXCEPT ![b] = Append(@, [tx |-> r.tx, state |-> r.state])]
            /\ at' = [at EXCEPT ![b] =
                         IF Len(got'[b]) < after[b] THEN "collect"
                         ELSE IF More(b) THEN "ids" ELSE "done"]
       ELSE at' = [at EXCEPT ![b] = "failed"] /\ UNCHANGED got
    /\ results' = [results EXCEPT ![b] = Tail(@)]
    /\ UNCHANGED <<after, reader, txAt, accAt, cached, libs, cleared,
                   faults>>

-----------------------------------------------------------------------------
\* The goroutine that gets the transaction.
GetTransaction(t) ==
    /\ txAt[t] = "call"
    /\ \/ txAt' = [txAt EXCEPT ![t] = "value"] /\ UNCHANGED faults
       \/ txAt' = [txAt EXCEPT ![t] = "error"] /\ Fault
    /\ UNCHANGED <<at, after, results, got, reader, accAt, cached,
                   libs, cleared>>

\* The goroutine that gets the account, getAccount.  What it has to send is
\* a "state", "none" (core.ErrNotFound) or an "error".
GoOn(t, l) == accAt' = [accAt EXCEPT ![t] = l]

LookInCache(t) ==
    /\ accAt[t] = "cache"
    /\ GoOn(t, IF Entry(t) \in cached THEN "state"
               ELSE IF Kind(t) = "skipped" THEN "none" ELSE "account")
    /\ UNCHANGED <<at, after, results, got, reader, txAt, cached,
                   libs, cleared, faults>>

\* set: stores, then clears everything if that was not done for a minute;
\* nothing was ever cleared at the first call.
Remember(t) ==
    \/ cleared /\ cached' = cached \cup {Entry(t)} /\ UNCHANGED cleared
    \/ cached' = {} /\ cleared' = TRUE

GetAccount(t) ==
    /\ accAt[t] = "account"
    /\ \/ /\ Kind(t) = "active" /\ GoOn(t, "libraries")
          /\ UNCHANGED <<cached, cleared, faults>>
       \/ /\ Kind(t) = "absent" /\ GoOn(t, "none")
          /\ UNCHANGED <<cached, cleared, faults>>
       \/ Kind(t) = "uninit" /\ GoOn(t, "state") /\ Remember(t) /\ UNCHANGED faults
       \/ GoOn(t, "error") /\ Fault /\ UNCHANGED <<cached, cleared>>
    /\ UNCHANGED <<at, after, results, got, reader, txAt, libs>>

\* getAccountLibraries is called for any code, and asks the node even if
\* findLibraries found nothing.
GetLibraries(t) ==
    /\ accAt[t] = "libraries"
    /\ \/ /\ GoOn(t, "state") /\ Remember(t)
          /\ libs' = libs \cup {AccountOf[t]}
          /\ UNCHANGED faults
       \/ GoOn(t, "error") /\ Fault /\ UNCHANGED <<cached, libs, cleared>>
    /\ UNCHANGED <<at, after, results, got, reader, txAt>>

-----------------------------------------------------------------------------
\* getTransaction: two receives, in either order.  A missing account is no
\* error.  The first error returns, and nobody receives the other value.
\* Before a receive the reader waits for "both", "tx" or "acc".
Fatal(v) == v = "error"

SilentFailure(t, ok, state) ==
    IF ok THEN results' = [results EXCEPT ![BlockOf(t)] =
                              Append(@, [tx |-> t, ok |-> ok, state |-> state])]
    ELSE UNCHANGED results
Deliver(t, ok, state) ==
    results' = [results EXCEPT ![BlockOf(t)] =
                   Append(@, [tx |-> t, ok |-> ok, state |-> state])]

\* What the reader does with a value: a failed one ends it, the second of
\* two ends it, after the first it waits for the other channel.
Receive(t, failed, rest, state) ==
    IF failed
    THEN reader' = [reader EXCEPT ![t] = "failed"] /\ Deliver(t, FALSE, FALSE)
    ELSE IF reader[t] = "both"
    THEN reader' = [reader EXCEPT ![t] = rest] /\ UNCHANGED results
    ELSE reader' = [reader EXCEPT ![t] = "done"] /\ Deliver(t, TRUE, state)

\* What came of the account is in the place of the reader that still waits
\* for the transaction: "tx" with a state, "tx only" without one.
ReceiveAccount(t) ==
    /\ reader[t] \in {"both", "acc"} /\ accAt[t] \in {"state", "none", "error"}
    /\ Receive(t, Fatal(accAt[t]),
               IF accAt[t] = "state" THEN "tx" ELSE "tx only",
               accAt[t] = "state")
    /\ GoOn(t, "done")
    /\ UNCHANGED <<at, after, got, txAt, cached, libs, cleared, faults>>

ReceiveTx(t) ==
    /\ reader[t] \in {"both", "tx", "tx only"} /\ txAt[t] \in {"value", "error"}
    /\ Receive(t, txAt[t] = "error", "acc", reader[t] = "tx")
    /\ txAt' = [txAt EXCEPT ![t] = "done"]
    /\ UNCHANGED <<at, after, got, accAt, cached, libs, cleared, faults>>

\* A goroutine that waits for both closes the two channels, when both values
\* were received: nobody uses them any more.

\* The goroutines of a block and of a transaction.
FetchBlock(b)   == FetchIds(b) \/ Collect(b)
FetchAccount(t) == LookInCache(t) \/ GetAccount(t) \/ GetLibraries(t)
Await(t)        == ReceiveAccount(t) \/ ReceiveTx(t)

Next ==
    \/ \E b \in Block : FetchBlock(b)
    \/ \E t \in Tx : GetTransaction(t) \/ FetchAccount(t) \/ Await(t)

Spec == Init /\ [][Next]_vars

\* Every goroutine runs, and every call to the node returns.
Fairness ==
    /\ \A b \in Block : WF_vars(FetchBlock(b))
    /\ \A t \in Tx : /\ WF_vars(GetTransaction(t))
                     /\ WF_vars(FetchAccount(t))
                     /\ WF_vars(Await(t))
FairSpec == Spec /\ Fairness

-----------------------------------------------------------------------------
Ended(b) == at[b] \in {"done", "failed"}

\* A goroutine left behind, blocked in a send that nobody receives.
Stuck(t) ==
    /\ reader[t] = "failed"
    /\ txAt[t] \in {"value", "error"} \/ accAt[t] \in {"state", "none", "error"}

\* A block that was fetched without an error has each of its transactions
\* once, over all pages, and with a state exactly the accounts that have one
\* and are not left out; and it left no goroutine behind in getTransaction,
\* which only a call that failed does.
WholeAnswer ==
    /\ \A b \in Block : at[b] = "done" =>
        /\ Len(got[b]) = Len(TxsOf[b])
        /\ {r.tx : r \in Range(got[b])} = Range(TxsOf[b])
        /\ \A r \in Range(got[b]) : r.state = (Kind(r.tx) \in {"active", "uninit"})
    /\ \A t \in Tx : Stuck(t) => faults > 0 /\ at[BlockOf(t)] # "done"

\* The wg.Wait() of getBlockTxs returns: every block's goroutine ends, with
\* its transactions or an error, whichever calls fail and whoever is stuck.
FetchEnds == <>(\A b \in Block : Ended(b))
-----------------------------------------------------------------------------
\* The inductive invariant of WholeAnswer, in named parts.
Owner == {AccountOf[t] : t \in Tx}
Result == [tx : Tx, ok : BOOLEAN, state : BOOLEAN]
Entered == [tx : Tx, state : BOOLEAN]
TypeOK ==
    /\ at \in [Block -> {"ids", "collect", "done", "failed"}]
    /\ after \in [Block -> Nat]
    /\ results \in [Block -> Seq(Result)]
    /\ got \in [Block -> Seq(Entered)]
    /\ reader \in [Tx -> {"off", "both", "tx", "tx only", "acc", "done", "failed"}]
    /\ txAt \in [Tx -> {"off", "call", "value", "error", "done"}]
    /\ accAt \in [Tx -> {"off", "cache", "account", "libraries", "state", "none",
                         "error", "done"}]
    /\ cached \subseteq Block \X Owner /\ libs \subseteq Owner
    /\ cleared \in BOOLEAN /\ faults \in Nat

HasState(t) == Kind(t) \in {"active", "uninit"}

\* A transaction is read when it was listed, and no state is made up or lost
\* on the way to its reader.
ListedInv ==
    \A b \in Block :
        /\ after[b] <= Len(TxsOf[b])
        /\ \A i \in DOMAIN TxsOf[b] : i > after[b] => reader[TxsOf[b][i]] = "off"
AccountInv ==
    /\ \A e \in cached : KindOf[e[2]] \in {"active", "uninit"}
    /\ \A t \in Tx :
        /\ accAt[t] \in {"libraries", "state"} \/ reader[t] = "tx" => HasState(t)
        /\ accAt[t] = "none" \/ reader[t] = "tx only" => ~HasState(t)
        /\ "error" \in {txAt[t], accAt[t]} \/ reader[t] = "failed" => faults > 0

\* A reader has at most one result, and it says what came of it.
ResultsInv ==
    \A b \in Block : at[b] # "failed" =>
        /\ \A i, j \in DOMAIN results[b] :
              results[b][i].tx = results[b][j].tx => i = j
        /\ \A i \in DOMAIN results[b] :
              LET r == results[b][i] IN
              /\ r.tx \in Range(TxsOf[b])
              /\ reader[r.tx] = IF r.ok THEN "done" ELSE "failed"
              /\ r.ok => r.state = HasState(r.tx)
GotInv ==
    \A b \in Block : at[b] # "failed" =>
        /\ \A i, j \in DOMAIN got[b] : got[b][i].tx = got[b][j].tx => i = j
        /\ \A i \in DOMAIN got[b] :
              LET r == got[b][i] IN
              /\ r.tx \in Range(TxsOf[b]) /\ reader[r.tx] = "done"
              /\ r.state = HasState(r.tx)
              /\ \A j \in DOMAIN results[b] : results[b][j].tx # r.tx

\* The loop of getTransactions leaves a page when it has all its results.
PagesInv ==
    \A b \in Block :
        /\ at[b] \in {"ids", "done"} => Len(got[b]) = after[b]
        /\ at[b] = "done" => after[b] = Len(TxsOf[b])

FetchInv == ListedInv /\ AccountInv /\ ResultsInv /\ GotInv /\ PagesInv
=============================================================================
