------------------------------- MODULE MCRescan ------------------------------
(***************************************************************************)
(* Two contracts and a wallet on a state of each of three addresses; c has *)
(* three descriptions to change between.  The messages m1 to m5 come in,   *)
(* three at one address and two, from one transaction, at the next; m3 is  *)
(* saved again meanwhile, with and without its logical time.  o1 and o2 go *)
(* out, one at each.                                                       *)
(***************************************************************************)
EXTENDS Rescan

CONSTANTS m1, m2, m3, m4, m5, o1, o2

MCState     == {<<1, 2>>, <<2, 1>>, <<3, 1>>}
MCMethodsOf ==
    [s \in MCState |-> IF s[1] < 3 THEN {"g", "h"} ELSE {"g"}]

Operation(c, outgoing, version) ==
    [contract |-> c, outgoing |-> outgoing, id |-> 1, name |-> "op",
     version |-> version]
Of(name, by, states, methods, ops) ==
    [name |-> name, operations |-> ops,
     interface |-> [by |-> by, states |-> states, methods |-> methods]]

MCDescription ==
    {Of("c", "methods", {}, {<<"g", 1>>}, {Operation("c", TRUE, 1)}),
     Of("c", "methods", {}, {<<"g", 2>>, <<"h", 1>>}, {Operation("c", TRUE, 2)}),
     Of("c", "place", {<<1, 2>>}, {<<"g", 1>>, <<"h", 1>>}, {}),
     Of("d", "methods", {}, {<<"h", 1>>}, {Operation("d", FALSE, 1)}),
     Of("w", "place", {<<3, 1>>}, {}, {})}

MCMessage == {m1, m2, m3, m4, m5, o1, o2}
MCMsgOf ==
    [m \in MCMessage |->
        [address |-> IF m \in {m4, m5, o2} THEN 2 ELSE 1,
         lt |-> CASE m = m2 -> 2 [] m = m3 -> 3 [] OTHER -> 1,
         outgoing |-> m \in {o1, o2}, id |-> 1]]
MCUnsteady == {m3}
=============================================================================
