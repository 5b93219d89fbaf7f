------------------------------- MODULE Contracts ------------------------------
(***************************************************************************)
(* Contract interfaces and what it means that an account state has one:    *)
(* the matching of app/parser and of the query that selects states, the    *)
(* differences that cmd/contract computes, and what a rescan does to the   *)
(* parsed data of one state.  Nothing here has a state of its own.         *)
(*                                                                         *)
(* An account state is named by its <<address, last_tx_lt>>.  A get-method *)
(* is a pair <<name, version>>: another version stands for another         *)
(* description under the same name.  Methods with arguments are never run  *)
(* by a rescan and are left out, and so are the columns derived from the   *)
(* results of the methods.                                                 *)
(***************************************************************************)
EXTENDS Naturals, FiniteSets, FiniteSetsExt

CONSTANTS
    Name,           \* contract names
    Wallet,         \* those of wallets
    State,          \* account states
    MethodsOf       \* names of the get-methods in each state's code

Names(methods) == {g[1] : g \in methods}

\* An interface matches by addresses or code ("place": the states it finds
\* that way), or else by all of its get-methods.
Matches(i, s) ==
    IF i.by = "place" THEN s \in i.states
    ELSE i.methods # {} /\ Names(i.methods) \subseteq MethodsOf[s]

None == [by |-> "none"]

\* The names of the interfaces of a table that match a state.
MatchedBy(table, s) == {n \in Name : table[n] # None /\ Matches(table[n], s)}

\* The column get_method_hashes is unique in rows without addresses and code.
Clash(i, j) ==
    i.by = "methods" /\ j.by = "methods" /\ Names(i.methods) = Names(j.methods)

-----------------------------------------------------------------------------
MatchingOfMethods(old, new) == Names(old.methods) # Names(new.methods)

\* diffInterface: whether matching changed, and the get-methods that were
\* added, changed and deleted.
MatchingDiffers(old, new) ==
    \/ old.by # new.by
    \/ old.states # new.states
    \/ Names(old.methods) # Names(new.methods)

Added(old, new)   == Names(new) \ Names(old)
Deleted(old, new) == Names(old) \ Names(new)
Changed(old, new) == Names(new \ old) \cap Names(old)

-----------------------------------------------------------------------------
\* The parsed data of a state is a record [types, runs]: its interfaces, and
\* which methods were run for which of them.

\* clearParsedAccountsData
Cleared(a, n) ==
    [types |-> a.types \ {n}, runs |-> {r \in a.runs : r[1] # n}]

\* clearExecutedGetMethod
WithoutRun(a, n, g) ==
    [a EXCEPT !.runs = {r \in @ : <<r[1], r[2][1]>> # <<n, g>>}]

\* parseAccountData: states with wallet interfaces only are not run again.
ParsedAs(a, s, n, i) ==
    IF (a.types # {} /\ a.types \subseteq Wallet) \/ ~Matches(i, s) THEN a
    ELSE [types |-> a.types \cup {n},
          runs  |-> {r \in a.runs : r[1] # n} \cup ({n} \X i.methods)]

\* ExecuteAccountGetMethod: if the contract's own interface does not match,
\* the last of those that do in the order of the table takes its place.
\* Nothing is done if none matches, or if that one has no such method.
Executed(a, s, n, g, table, order) ==
    LET types == MatchedBy(table, s)
        last  == CHOOSE k \in types :
                     \A m \in types : order[m] <= order[k]
        i     == IF n \in types THEN n ELSE last
        found == {m \in table[i].methods : m[1] = g}
    IN IF types = {} \/ found = {} THEN a
       ELSE [types |-> types,
             runs  |-> WithoutRun(a, i, g).runs \cup ({i} \X found)]

\* rescanGetMethod: the methods of an interface that is not matched by them
\* count as neither present nor missing.
MethodRescanned(a, s, t, g, i, table, order) ==
    LET lacks == i.by = "methods" /\ g \notin Names(i.methods)
        b     == WithoutRun(a, t.name, g)
    IN CASE t.type = "add_get_method" /\ lacks   -> Cleared(b, t.name)
         [] t.type = "del_get_method" /\ lacks   -> ParsedAs(b, s, t.name, i)
         [] t.type = "del_get_method" /\ ~lacks  -> b
         [] OTHER -> Executed(b, s, t.name, g, table, order)

\* rescanAccountsWorker, for one state.
Rescanned(a, s, t, i, table, order) ==
    CASE t.type = "del_interface" -> Cleared(a, t.name)
      [] t.type \in {"add_interface", "upd_interface"} ->
             ParsedAs(Cleared(a, t.name), s, t.name, i)
      [] OTHER ->
             FoldSet(LAMBDA g, b : MethodRescanned(b, s, t, g, i, table, order),
                     a, t.methods)
=============================================================================
