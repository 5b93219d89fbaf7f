------------------------------ MODULE MCParts --------------------------------
(***************************************************************************)
(* A small instance of each part.                                          *)
(***************************************************************************)
EXTENDS Parts

CONSTANTS t1, t2, t3, t4, t5,          \* fetch
          a1, b1, c1                   \* walk and move: accounts

\* Fetch: t1 is the masterchain's, of an account that is left out; of the
\* shard block's t2 and t3 are of one account with code, t4 of one without,
\* t5 of one that no longer exists.
MCTxsOf     == [master |-> <<t1>>, shard |-> <<t2, t3, t4, t5>>]
MCAccountOf == [t \in {t1, t2, t3, t4, t5} |->
                   CASE t = t1 -> "elector" [] t \in {t2, t3} -> "wallet"
                     [] t = t4 -> "fresh" [] t = t5 -> "destroyed"]
MCKindOf    == [elector |-> "skipped", wallet |-> "active",
                fresh |-> "uninit", destroyed |-> "absent"]

\* Walk: of the rows saved before, those of account a1 and c1 have one lt, 3.
\* One block brings newer states of a1 and b1, the other a late one of b1.
MCOld     == {<<a1, 1>>, <<b1, 2>>, <<a1, 3>>, <<c1, 3>>}
MCNewRows == <<{<<a1, 5>>, <<b1, 4>>}, {<<b1, 1>>}>>

\* Move: two states of a1 have one code, that of its first; the first states
\* are of one lt.
MCOldStates == {<<a1, 1>>, <<b1, 1>>, <<a1, 2>>, <<b1, 3>>}
MCSaves     == {<<a1, 1>>, <<a1, 4>>}
MCState     == MCOldStates \cup MCSaves
MCHashOf    == [s \in MCState |-> IF s = <<a1, 2>> THEN <<a1, 1>> ELSE s]
=============================================================================
