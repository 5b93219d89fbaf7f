---------------------------- MODULE PartsProofs -----------------------------
(***************************************************************************)
(* What four more parts of Parts guarantee for every value of their        *)
(* constants.  Move: every stored state can be read with its code and data *)
(* at any time.  Migrate: an "up" leaves both stores with a mark for all   *)
(* it ships, and a mark stands for what the store has or was never run.    *)
(* Fetch: a block that was fetched is whole, and only a failed call leaves *)
(* a goroutine behind.  Recall: the past the rescan service takes for an   *)
(* account's is that past.  The inductive invariants MoveInv, UpInv,       *)
(* FetchInv and PastInv are stated in CodeData, Migrations, BlockFetch and *)
(* AccountPast.                                                            *)
(***************************************************************************)
EXTENDS WalkProofs

USE DEF Move!pods, Move!progress

-----------------------------------------------------------------------------
\* A behaviour of the parts is one of each part, which takes the part's steps
\* while it is in use and stutters otherwise.
LEMMA EachIsPart ==
  PartsSpec => Fetch!Spec /\ Move!Spec /\ Migrate!Spec
<1>1. PartsInit => Fetch!Init /\ Move!Init /\ Migrate!Init
  BY DEF PartsInit
<1>2. [PartsNext]_vars => /\ [Fetch!Next]_(Fetch!vars)
                          /\ [Move!Next]_(Move!vars)
                          /\ [Migrate!Next]_(Migrate!vars)
  <2> SUFFICES ASSUME [PartsNext]_vars
               PROVE  /\ Fetch!Next \/ UNCHANGED fetchVars
                      /\ Move!Next \/ UNCHANGED moveVars
                      /\ Migrate!Next \/ UNCHANGED migrateVars
    BY DEF fetchVars, moveVars, migrateVars, Fetch!vars, Move!vars, Migrate!vars,
           Migrate!schema, Migrate!process
  <2> QED
    BY DEF PartsNext, Finding, Fetching, Walking, Moving, Migrating, Recalling, vars
<1> QED
  BY <1>1, <1>2, PTL DEF PartsSpec, Fetch!Spec, Move!Spec, Migrate!Spec

-----------------------------------------------------------------------------
\* The move of code and data: its steps are typed.
LEMMA MoveTyped ==
  ASSUME Move!CodeDataAssumption
  PROVE  Move!Spec => []Move!TypeOK
<1> USE DEF Move!CodeDataAssumption
<1>1. Move!Init => Move!TypeOK
  <2> SUFFICES ASSUME Move!Init PROVE Move!TypeOK
    OBVIOUS
  <2> USE DEF Move!Init
  <2>1. OldStates \subseteq State
    OBVIOUS
  <2>2. saving \in [Saves -> {"kv", "row", "ch", "done"}]
    OBVIOUS
  <2> QED
    BY <2>1, <2>2 DEF Move!TypeOK
<1>2. Move!TypeOK /\ [Move!Next]_(Move!vars) => Move!TypeOK'
  <2> SUFFICES ASSUME Move!TypeOK, [Move!Next]_(Move!vars) PROVE Move!TypeOK'
    OBVIOUS
  <2> USE DEF Move!TypeOK
  <2>1. ASSUME NEW s \in Saves, Move!Save(s) PROVE Move!TypeOK'
    BY <2>1 DEF Move!Save, Move!Without
  <2>2. ASSUME NEW s \in Saves, Move!FailSave(s) PROVE Move!TypeOK'
    BY <2>2 DEF Move!FailSave
  <2>3. CASE Move!Start("transfer") \/ Move!Start("clear")
    BY <2>3 DEF Move!Start
  <2>4. CASE Move!GetNext
    <3>1. Move!NextLts \subseteq Nat
      BY DEF Move!NextLts, Move!Lt
    <3>2. next' \in Nat
      BY <2>4, <3>1 DEF Move!GetNext
    <3> QED
      BY <2>4, <3>2 DEF Move!GetNext, Move!Kind
  <2>5. CASE Move!Statement
    BY <2>5 DEF Move!Statement, Move!Transfer, Move!Clear, Move!Finished, Move!Kind
  <2>6. CASE Move!Fail
    BY <2>6 DEF Move!Fail, Move!FailedFrom
  <2>7. CASE UNCHANGED Move!vars
    BY <2>7 DEF Move!vars
  <2> QED
    BY <2>1, <2>2, <2>3, <2>4, <2>5, <2>6, <2>7 DEF Move!Next, Move!Run
<1> QED
  BY <1>1, <1>2, PTL DEF Move!Spec

-----------------------------------------------------------------------------
\* A save keeps what can be read, and what a transfer has done.
LEMMA MoveSaveKeeps ==
  ASSUME Move!TypeOK, Move!MoveInv, NEW s \in Saves,
         Move!Save(s) \/ Move!FailSave(s)
  PROVE  Move!MoveInv'
<1> USE DEF Move!TypeOK, Move!InKv
<1>1. /\ kv \subseteq kv' /\ UNCHANGED Move!progress
      /\ rows' \subseteq rows \cup {s}
  BY DEF Move!Save, Move!FailSave
<1>2. saving[s] \in {"row", "ch"} => \A k \in Move!Kind : Move!InKv(s, k)
  BY DEF Move!MoveInv, Move!SavedFirst
<1>3. Move!SavedFirst'
  <2>1. saving'[s] \in {"row", "ch"} \/ s \in rows' \ rows
           => \A k \in Move!Kind : Move!InKv(s, k)'
    BY <1>1, <1>2 DEF Move!Save, Move!FailSave
  <2>2. \A t \in Saves \ {s} : saving'[t] = saving[t]
    BY DEF Move!Save, Move!FailSave
  <2> QED
    BY <1>1, <2>1, <2>2 DEF Move!MoveInv, Move!SavedFirst
<1>4. Move!NothingLost'
  <2>1. \/ inline' \cap chInline' = inline \cap chInline
        \/ /\ saving[s] \in {"row", "ch"}
           /\ \A c \in inline \cap chInline : c[1] # s => c \in inline' \cap chInline'
    BY DEF Move!Save, Move!FailSave, Move!Without
  <2>2. \A t \in OldStates, k \in Move!Kind : <<t, k>>[1] = t
    OBVIOUS
  <2> QED
    BY <1>1, <1>2, <2>1, <2>2 DEF Move!MoveInv, Move!NothingLost
<1>5. Move!Transferred'
  BY <1>1 DEF Move!MoveInv, Move!Transferred, Move!Passed, Move!InBatch
<1> QED
  BY <1>3, <1>4, <1>5 DEF Move!MoveInv

\* A statement of a command takes from the rows only what is stored.
LEMMA MoveStatementKeeps ==
  ASSUME Move!CodeDataAssumption, Move!TypeOK, Move!MoveInv, Move!Statement
  PROVE  Move!MoveInv'
<1> USE DEF Move!TypeOK, Move!InKv
<1>1. /\ kv \subseteq kv' /\ UNCHANGED <<Move!pods, chInline, next>>
      /\ moveAt \in Move!Kind /\ cmd \in {"transfer", "clear"}
  BY DEF Move!Statement, Move!Transfer, Move!Clear
<1>2. Move!SavedFirst'
  BY <1>1 DEF Move!MoveInv, Move!SavedFirst
<1>3. Move!NothingLost'
  <2>1. CASE cmd = "transfer"
    BY <1>1, <2>1
    DEF Move!Statement, Move!Transfer, Move!Clear, Move!MoveInv,
        Move!NothingLost
  <2>2. CASE cmd = "clear"
    BY <1>1, <2>2 DEF Move!MoveInv, Move!NothingLost, Move!Transferred, Move!Passed
  <2> QED
    BY <1>1, <2>1, <2>2
<1>4. Move!Transferred'
  <2>1. CASE cmd = "clear"
    BY <1>1, <2>1 DEF Move!MoveInv, Move!Transferred, Move!Passed
  <2>2. CASE cmd = "transfer"
    <3>1. ASSUME NEW s \in OldStates, Move!InBatch(s)
          PROVE  <<HashOf[s], moveAt>> \in kv'
      <4>1. CASE <<s, moveAt>> \in chInline
        <5>1. s \in chRows
          OBVIOUS
        <5>2. kv' = kv \cup {<<HashOf[r], moveAt>> :
                      r \in {q \in chRows : <<q, moveAt>> \in chInline /\ Move!InBatch(q)}}
          BY <2>2 DEF Move!Statement, Move!Transfer, Move!Clear
        <5> QED
          BY <3>1, <4>1, <5>1, <5>2
      <4>2. CASE <<s, moveAt>> \notin chInline
        <5>1. <<s, moveAt>> \notin inline \cap chInline /\ moveAt \in Move!Kind
          BY <1>1, <4>2
        <5> QED
          BY <1>1, <5>1 DEF Move!MoveInv, Move!NothingLost
      <4> QED
        BY <4>1, <4>2
    <3>2. \A s \in OldStates : Move!Lt(s) \in Nat
      BY DEF Move!CodeDataAssumption, Move!Lt
    <3>3. \A s \in OldStates, k \in Move!Kind : Move!Passed(s, k) => Move!InKv(s, k)'
      BY <1>1 DEF Move!MoveInv, Move!Transferred
    <3>4. CASE moveAt = "code"
      <4>1. /\ cmd' = cmd /\ from' = from /\ next' = next /\ moveAt' = "data"
            /\ reached' = reached /\ transferred' = transferred
        BY <1>1, <2>2, <3>4 DEF Move!Statement, Move!Finished
      <4> QED
        BY <2>2, <3>1, <3>3, <3>4, <4>1
        DEF Move!Transferred, Move!Passed, Move!InBatch
    <3>5. CASE moveAt = "data"
      <4>1. \A s \in OldStates, k \in Move!Kind :
               Move!Lt(s) < from \/ Move!InBatch(s) => Move!InKv(s, k)'
        BY <2>2, <3>1, <3>3, <3>5 DEF Move!Passed, Move!Kind
      <4>2. CASE next = 0
        <5>1. \A s \in OldStates : Move!Lt(s) < from \/ Move!InBatch(s)
          BY <3>2, <4>2 DEF Move!InBatch
        <5> QED
          BY <4>1, <5>1 DEF Move!Transferred
      <4>3. CASE next # 0
        <5>1. \A s \in OldStates : Move!Lt(s) < next => Move!Lt(s) < from \/ Move!InBatch(s)
          BY <3>2 DEF Move!InBatch
        <5>2. /\ cmd' = cmd /\ from' = next /\ moveAt' = "next"
              /\ reached' = reached /\ transferred' = transferred
          BY <1>1, <2>2, <3>5, <4>3 DEF Move!Statement, Move!Finished
        <5> QED
          BY <2>2, <3>3, <4>1, <5>1, <5>2 DEF Move!Transferred, Move!Passed
      <4> QED
        BY <4>2, <4>3
    <3> QED
      BY <1>1, <3>4, <3>5 DEF Move!Kind
  <2> QED
    BY <1>1, <2>1, <2>2
<1> QED
  BY <1>2, <1>3, <1>4 DEF Move!MoveInv

\* A move leaves what is stored to be read.
LEMMA MovedIsRead ==
  ASSUME Move!CodeDataAssumption
  PROVE  Move!Spec => []Move!CodeReadable
<1>1. Move!Init => Move!MoveInv
  BY DEF Move!Init, Move!CodeDataAssumption, Move!MoveInv, Move!SavedFirst,
         Move!NothingLost,
         Move!Transferred, Move!Passed, Move!Lt
<1>2. Move!TypeOK /\ Move!MoveInv /\ [Move!Next]_(Move!vars) => Move!MoveInv'
  <2> SUFFICES ASSUME Move!TypeOK, Move!MoveInv, [Move!Next]_(Move!vars)
               PROVE  Move!MoveInv'
    OBVIOUS
  <2>1. CASE \E s \in Saves : Move!Save(s) \/ Move!FailSave(s)
    BY <2>1, MoveSaveKeeps
  <2>2. CASE Move!Statement
    BY <2>2, MoveStatementKeeps
  <2>3. CASE \/ Move!Start("transfer") \/ Move!Start("clear") \/ Move!GetNext \/ Move!Fail
             \/ UNCHANGED Move!vars
    <3>1. UNCHANGED <<rows, inline, chRows, chInline, kv, saving, transferred>>
      BY <2>3 DEF Move!Start, Move!GetNext, Move!Fail, Move!vars
    <3>2. Move!SavedFirst' /\ Move!NothingLost'
      BY <3>1 DEF Move!MoveInv, Move!SavedFirst, Move!NothingLost, Move!InKv
    <3>3. \A s \in OldStates, k \in Move!Kind : Move!Passed(s, k)' => Move!Passed(s, k)
      <4>1. \A s \in OldStates : Move!Lt(s) \in Nat
        BY DEF Move!CodeDataAssumption, Move!TypeOK, Move!Lt
      <4>2. CASE Move!Start("transfer") \/ Move!Start("clear")
        BY <4>1, <4>2 DEF Move!Start, Move!Passed, Move!TypeOK
      <4>3. CASE Move!GetNext
        BY <4>3 DEF Move!GetNext, Move!Passed
      <4>4. CASE Move!Fail
        BY <4>4 DEF Move!Fail, Move!FailedFrom, Move!Passed, Move!TypeOK
      <4>5. CASE UNCHANGED Move!vars
        BY <4>5 DEF Move!vars, Move!Passed, Move!InBatch
      <4> QED
        BY <2>3, <4>2, <4>3, <4>4, <4>5
    <3> QED
      BY <3>1, <3>2, <3>3 DEF Move!MoveInv, Move!Transferred, Move!InKv
  <2> QED
    BY <2>1, <2>2, <2>3 DEF Move!Next, Move!Run
<1>3. Move!TypeOK /\ Move!MoveInv => Move!CodeReadable
  <2> SUFFICES ASSUME Move!TypeOK, Move!MoveInv, NEW s \in rows, NEW k \in Move!Kind
               PROVE  <<s, k>> \in inline \/ Move!InKv(s, k)
    BY DEF Move!CodeReadable, Move!Missing, Move!InKv
  <2> QED
    BY DEF Move!MoveInv, Move!SavedFirst, Move!NothingLost
<1> QED
  BY <1>1, <1>2, <1>3, MoveTyped, PTL DEF Move!Spec

\* Type correctness of the move and of the saves next to it.
THEOREM MoveTypeCorrect ==
  PartsSpec => []Move!TypeOK
<1>1. Move!CodeDataAssumption
  BY PartsAssumption
<1> QED
  BY <1>1, EachIsPart, MoveTyped, PTL

\* Every stored state can be read with its code and data at any time, whatever
\* the limits, however often the commands fail and from wherever they are run
\* again, and whatever is saved meanwhile.
THEOREM CodeCanBeRead ==
  PartsSpec => []CodeReadable
<1>1. Move!CodeDataAssumption
  BY PartsAssumption
<1> QED
  BY <1>1, EachIsPart, MovedIsRead, PTL DEF CodeReadable

-----------------------------------------------------------------------------
\* The migrations.

\* Max is the greatest element of a bounded set.
LEMMA GroupMaxOf ==
  ASSUME NEW S, S \subseteq Nat, S # {}, NEW n \in Nat, \A x \in S : x <= n
  PROVE  Migrate!Max(S) \in S /\ \A y \in S : y <= Migrate!Max(S)
<1>1. \E z \in S : \A y \in S : z >= y
  BY GreatestExists
<1>2. Migrate!Max(S) \in S /\ \A y \in S : Migrate!Max(S) >= y
  BY <1>1 DEF Migrate!Max
<1> QED
  BY <1>2

\* The program's versions and the migrations they ship.
LEMMA VersionsTyped ==
  ASSUME Migrate!MigrationsAssumption
  PROVE  /\ Migrate!Max(Versions) \in Nat \ {0}
         /\ Migrate!Migration \subseteq Nat \ {0} /\ Migrate!Migration # {}
         /\ \A v \in Versions \cup {0} : v \in Nat /\ 1..v \subseteq Migrate!Migration
<1>1. PICK last \in Versions : \A v \in Versions : v <= last
  BY DEF Migrate!MigrationsAssumption
<1>2. Versions \subseteq Nat \ {0}
  BY DEF Migrate!MigrationsAssumption
<1>3. Migrate!Max(Versions) \in Versions /\ \A v \in Versions : v <= Migrate!Max(Versions)
  BY <1>1, <1>2, GroupMaxOf
<1>4. Migrate!Max(Versions) \in Nat \ {0}
  BY <1>2, <1>3
<1> QED
  BY <1>2, <1>3, <1>4 DEF Migrate!Migration

\* There is a last group.
LastGroup ==
    \E last \in Nat : \A s \in Migrate!Store, m \in Migrate!Migration : applied[s][m] <= last

\* The last group's number.
LEMMA GroupTyped ==
  ASSUME Migrate!MigrationsAssumption, Migrate!TypeOK, LastGroup,
         NEW s \in Migrate!Store
  PROVE  Migrate!Group(s) \in Nat /\ \A m \in Migrate!Migration : applied[s][m] <= Migrate!Group(s)
<1> DEFINE G == {applied[s][m] : m \in Migrate!Migration}
<1>1. PICK last \in Nat : \A t \in Migrate!Store, m \in Migrate!Migration : applied[t][m] <= last
  BY DEF LastGroup
<1>2. G \subseteq Nat /\ G # {} /\ \A g \in G : g <= last
  BY <1>1, VersionsTyped DEF Migrate!TypeOK
<1>3. \A m \in Migrate!Migration : applied[s][m] \in G
  OBVIOUS
<1>4. Migrate!Group(s) = Migrate!Max(G)
  BY DEF Migrate!Group
<1> HIDE DEF G
<1> QED
  BY <1>2, <1>3, <1>4, GroupMaxOf

\* The places of a command are different.
LEMMA Places ==
  /\ <<"idle">> # <<"return">>
  /\ \A d, s : <<d, s>> # <<"idle">> /\ <<d, s>> # <<"return">>
  /\ \A d, e, s, t : <<d, s>> = <<e, t>> <=> d = e /\ s = t
  /\ \A d, s, m : <<d, s, m>> # <<"idle">> /\ <<d, s, m>> # <<"return">>
  /\ \A d, e, s, t, m : <<d, s, m>> # <<e, t>>
  /\ \A d, e, s, t, m, n : <<d, s, m>> = <<e, t, n>> <=> d = e /\ s = t /\ m = n
  OBVIOUS

OpPlace ==
    {<<"idle">>, <<"return">>}
        \cup ({"lock", "list", "mark", "unlock"} \X Migrate!Store)
        \cup ({"run"} \X Migrate!Store \X Migrate!Migration)

\* What a command knows stays typed as it moves on or is left.
LEMMA ProcessTyped ==
  ASSUME Migrate!TypeOK, NEW o \in Operator, NEW l \in OpPlace,
         Migrate!Move(o, l) \/ Migrate!Leave(o, l)
  PROVE  /\ command' \in [Operator -> {"none", "up", "down", "lock", "unlock", "markApplied"}]
         /\ ver' \in [Operator -> Versions \cup {0}]
         /\ opAt' \in [Operator -> OpPlace]
         /\ todo' \in [Operator -> SUBSET Migrate!Migration]
         /\ group' \in [Operator -> Nat \ {0}]
<1> USE DEF Migrate!TypeOK
<1>1. opAt' = [opAt EXCEPT ![o] = l]
  BY DEF Migrate!Move, Migrate!Leave, Migrate!Goto
<1>2. opAt \in [Operator -> OpPlace]
  BY DEF OpPlace
<1>3. opAt' \in [Operator -> OpPlace]
  BY <1>1, <1>2
<1>4. CASE Migrate!Move(o, l)
  BY <1>3, <1>4 DEF Migrate!Move, Migrate!process
<1>5. CASE Migrate!Leave(o, l)
  BY <1>3, <1>5 DEF Migrate!Leave
<1> QED
  BY <1>4, <1>5

\* What a change of the marks of one migration leaves.
LEMMA MarkTyped ==
  ASSUME Migrate!TypeOK, LastGroup, NEW o \in Operator, NEW s \in Migrate!Store,
         NEW m \in Migrate!Migration, Migrate!Mark(o, s, m)
  PROVE  /\ applied' \in [Migrate!Store -> [Migrate!Migration -> Nat]]
         /\ unrun' \in [Migrate!Store -> SUBSET Migrate!Migration]
         /\ \A t \in Migrate!Store, k \in Migrate!Migration :
               t # s \/ k # m => /\ applied'[t][k] = applied[t][k]
                                 /\ k \in unrun'[t] <=> k \in unrun[t]
         /\ IF command[o] = "down" THEN applied'[s][m] = 0 /\ m \notin unrun'[s]
            ELSE applied'[s][m] > 0 /\ m \in unrun'[s]
         /\ LastGroup'
<1> USE DEF Migrate!TypeOK
<1>1. PICK g \in IF command[o] = "down" THEN {0}
                 ELSE {group[o]} \cup ({applied[s][m]} \ {0}) :
         applied' = [applied EXCEPT ![s][m] = g]
  BY DEF Migrate!Mark
<1>2. applied[s][m] \in Nat /\ group[o] \in Nat \ {0}
  OBVIOUS
<1>3. g \in Nat /\ (command[o] = "down" => g = 0) /\ (command[o] # "down" => g > 0)
  BY <1>2
<1>4. unrun' = [unrun EXCEPT ![s] = IF command[o] = "down" THEN @ \ {m} ELSE @ \cup {m}]
  BY DEF Migrate!Mark
<1>5. /\ applied' \in [Migrate!Store -> [Migrate!Migration -> Nat]]
      /\ \A t \in Migrate!Store, k \in Migrate!Migration :
            applied'[t][k] = IF t = s /\ k = m THEN g ELSE applied[t][k]
  BY <1>1, <1>3
<1>6. /\ unrun' \in [Migrate!Store -> SUBSET Migrate!Migration]
      /\ \A t \in Migrate!Store, k \in Migrate!Migration :
            t # s \/ k # m => (k \in unrun'[t] <=> k \in unrun[t])
      /\ m \in unrun'[s] <=> command[o] # "down"
  BY <1>4
<1>7. LastGroup'
  <2>1. PICK last \in Nat : \A t \in Migrate!Store, k \in Migrate!Migration : applied[t][k] <= last
    BY DEF LastGroup
  <2>2. ASSUME NEW t \in Migrate!Store, NEW k \in Migrate!Migration
        PROVE  applied'[t][k] <= last + g
    <3>1. applied[t][k] \in Nat /\ applied[t][k] <= last
      BY <2>1
    <3>2. applied'[t][k] = g \/ applied'[t][k] = applied[t][k]
      BY <1>5
    <3> QED
      BY <1>3, <3>1, <3>2
  <2>3. last + g \in Nat
    BY <1>3
  <2> QED
    BY <2>2, <2>3 DEF LastGroup
<1> QED
  BY <1>3, <1>5, <1>6, <1>7

\* A command's steps between its locks: those that change the schema or the
\* list, and those that only move on.
LEMMA ChangeCases ==
  ASSUME Migrate!TypeOK, NEW o \in Operator, NEW s \in Migrate!Store,
         Migrate!Change(o, s)
  PROVE  /\ UNCHANGED <<locked, held>>
         /\ \/ Migrate!List(o, s) /\ UNCHANGED <<applied, has, unrun>>
            \/ \E m \in Migrate!Migration : Migrate!Mark(o, s, m)
            \/ \E m \in Migrate!Migration : Migrate!Run(o, s, m)
            \/ Migrate!CallFails(o, s) /\ UNCHANGED <<applied, unrun>>
            \/ Migrate!Succeed(o, s) /\ UNCHANGED <<applied, has, unrun>>
<1> USE DEF Migrate!Store
<1>1. CASE Migrate!List(o, s)
  BY <1>1 DEF Migrate!List, Migrate!schema
<1>2. CASE Migrate!Succeed(o, s)
  <2>1. Migrate!Released(s) = {}
    BY DEF Migrate!Released
  <2>2. held' = held
    BY <1>2, <2>1 DEF Migrate!Succeed, Migrate!TypeOK
  <2>3. locked' = locked
    BY <1>2, <2>1 DEF Migrate!Succeed, Migrate!TypeOK
  <2> QED
    BY <1>2, <2>2, <2>3 DEF Migrate!Succeed, Migrate!schema
<1>3. CASE Migrate!CallFails(o, s)
  BY <1>3 DEF Migrate!CallFails
<1>4. CASE \E m \in Migrate!Migration : Migrate!Mark(o, s, m) \/ Migrate!Run(o, s, m)
  BY <1>4 DEF Migrate!Mark, Migrate!Run
<1> QED
  BY <1>1, <1>2, <1>3, <1>4 DEF Migrate!Change

\* Where such a step leads.
LEMMA ChangeMoves ==
  ASSUME Migrate!TypeOK, NEW o \in Operator, NEW s \in Migrate!Store,
         Migrate!Change(o, s)
  PROVE  /\ Migrate!Changing(o, s)
         /\ \A p \in Operator \ {o} :
               /\ opAt'[p] = opAt[p] /\ command'[p] = command[p] /\ ver'[p] = ver[p]
               /\ todo'[p] = todo[p]
         /\ opAt' \in [Operator -> OpPlace]
         /\ \/ /\ opAt'[o] = IF held[o] = {} THEN <<"idle">> ELSE <<"return">>
               /\ command'[o] = "none"
            \/ /\ command'[o] = command[o] /\ ver'[o] = ver[o]
               /\ \/ opAt'[o] = <<"mark", s>>
                  \/ /\ command[o] # "markApplied" /\ opAt[o] = <<"mark", s>>
                     /\ \E m \in Migrate!Migration : opAt'[o] = <<"run", s, m>>
                  \/ /\ s = "pg" /\ opAt[o] = <<"mark", s>> /\ todo[o] = {}
                     /\ opAt'[o] = IF command[o] = "markApplied" THEN <<"list", "ch">>
                                   ELSE <<"lock", "ch">>
<1> USE DEF Migrate!TypeOK, Migrate!Store, OpPlace
<1> DEFINE End == IF held[o] = {} THEN <<"idle">> ELSE <<"return">>
<1>1. held' = held
  BY ChangeCases
<1>2. ASSUME Migrate!Return(o)
      PROVE  /\ opAt' = [opAt EXCEPT ![o] = End]
             /\ command' = [command EXCEPT ![o] = "none"]
             /\ ver' = [ver EXCEPT ![o] = 0] /\ todo' = [todo EXCEPT ![o] = {}]
  BY <1>1, <1>2 DEF Migrate!Return, Migrate!Leave, Migrate!Goto
<1>3. CASE Migrate!List(o, s)
  <2>1. \/ Migrate!Return(o)
        \/ /\ opAt' = [opAt EXCEPT ![o] = <<"mark", s>>] /\ UNCHANGED <<command, ver>>
           /\ \E ms : todo' = [todo EXCEPT ![o] = ms]
    BY <1>3 DEF Migrate!List, Migrate!Goto
  <2>2. Migrate!Changing(o, s)
    BY <1>3 DEF Migrate!List, Migrate!Changing
  <2>3. CASE Migrate!Return(o)
    BY <1>2, <2>2, <2>3
  <2>4. CASE ~Migrate!Return(o)
    <3>1. PICK ms : todo' = [todo EXCEPT ![o] = ms]
      BY <2>1, <2>4
    <3>2. opAt' = [opAt EXCEPT ![o] = <<"mark", s>>] /\ UNCHANGED <<command, ver>>
      BY <2>1, <2>4
    <3>3. \A p \in Operator \ {o} : todo'[p] = todo[p]
      BY <3>1
    <3> QED
      BY <2>2, <3>2, <3>3
  <2> QED
    BY <2>3, <2>4
<1>4. CASE \E m \in Migrate!Migration : Migrate!Mark(o, s, m)
  <2>1. PICK m \in Migrate!Migration : Migrate!Mark(o, s, m)
    BY <1>4
  <2>2. /\ opAt[o] = <<"mark", s>> /\ UNCHANGED <<command, ver>>
        /\ todo' = [todo EXCEPT ![o] = @ \ {m}]
        /\ opAt' = [opAt EXCEPT ![o] = IF command[o] = "markApplied" THEN opAt[o]
                                       ELSE <<"run", s, m>>]
    BY <2>1 DEF Migrate!Mark, Migrate!Goto
  <2>3. Migrate!Changing(o, s)
    BY <2>2 DEF Migrate!Changing
  <2> QED
    BY <2>2, <2>3
<1>5. CASE \E m \in Migrate!Migration : Migrate!Run(o, s, m)
  <2>1. /\ Migrate!Running(o, s) /\ UNCHANGED <<command, ver, todo>>
        /\ opAt' = [opAt EXCEPT ![o] = <<"mark", s>>]
    BY <1>5 DEF Migrate!Run, Migrate!Running, Migrate!Move, Migrate!Goto, Migrate!process
  <2> QED
    BY <2>1 DEF Migrate!Changing
<1>6. CASE Migrate!CallFails(o, s)
  <2>1. Migrate!Changing(o, s) /\ Migrate!Return(o)
    BY <1>6 DEF Migrate!CallFails, Migrate!Changing, Migrate!Running
  <2> QED
    BY <1>2, <2>1
<1>7. CASE Migrate!Succeed(o, s)
  <2>1. /\ opAt[o] = <<"mark", s>> /\ todo[o] = {}
        /\ \/ Migrate!Return(o)
           \/ /\ s = "pg" /\ UNCHANGED <<command, ver, todo>>
              /\ opAt' = [opAt EXCEPT ![o] =
                    <<IF command[o] = "markApplied" THEN "list" ELSE "lock", "ch">>]
    BY <1>7 DEF Migrate!Succeed, Migrate!Move, Migrate!Goto, Migrate!process
  <2>2. Migrate!Changing(o, s)
    BY <2>1 DEF Migrate!Changing
  <2>3. CASE Migrate!Return(o)
    BY <1>2, <2>2, <2>3
  <2>4. CASE ~Migrate!Return(o)
    BY <2>1, <2>2, <2>4
  <2> QED
    BY <2>3, <2>4
<1> QED
  BY <1>3, <1>4, <1>5, <1>6, <1>7, ChangeCases

\* The steps of the commands are typed.
LEMMA MigrationTyped ==
  ASSUME Migrate!MigrationsAssumption, Migrate!TypeOK, LastGroup, Migrate!Next
  PROVE  Migrate!TypeOK' /\ LastGroup'
<1> USE DEF Migrate!TypeOK
<1> USE DEF Migrate!Store, OpPlace
<1>1. PICK o \in Operator :
         \/ \E c \in {"up", "down", "lock", "unlock", "markApplied"}, v \in Versions :
               Migrate!Begin(o, c, v)
         \/ \E s \in Migrate!Store : Migrate!Lock(o, s) \/ Migrate!Change(o, s) \/ Migrate!Unlock(o, s)
         \/ Migrate!Release(o) \/ Migrate!Die(o)
  BY DEF Migrate!Next
<1>2. ASSUME NEW c \in {"up", "down", "lock", "unlock", "markApplied"},
             NEW v \in Versions, Migrate!Begin(o, c, v)
      PROVE  Migrate!TypeOK' /\ LastGroup'
  <2>1. Migrate!First(c) \in {"lock", "list", "unlock"} \X Migrate!Store
    BY DEF Migrate!First
  <2>2. Migrate!First(c) \in OpPlace
    BY <2>1
  <2> QED
    BY <1>2, <2>2 DEF Migrate!Begin, Migrate!Goto, Migrate!schema, LastGroup
<1>3. ASSUME Migrate!Return(o), UNCHANGED <<applied, has, unrun>>,
             held' \in [Operator -> SUBSET Migrate!Store],
             locked' \in [Migrate!Store -> BOOLEAN]
      PROVE  Migrate!TypeOK' /\ LastGroup'
  <2>1. PICK l \in {<<"idle">>, <<"return">>} : Migrate!Leave(o, l)
    BY <1>3 DEF Migrate!Return
  <2> QED
    BY <1>3, <2>1, ProcessTyped DEF LastGroup
<1>4. ASSUME NEW s \in Migrate!Store, Migrate!Lock(o, s)
      PROVE  Migrate!TypeOK' /\ LastGroup'
  <2>1. UNCHANGED <<applied, has, unrun>>
    BY <1>4 DEF Migrate!Lock, Migrate!schema
  <2>2. /\ held' \in [Operator -> SUBSET Migrate!Store]
        /\ locked' \in [Migrate!Store -> BOOLEAN]
    <3>1. CASE UNCHANGED <<locked, held>>
      BY <3>1
    <3>2. CASE ~UNCHANGED <<locked, held>>
      <4>1. /\ locked' = [locked EXCEPT ![s] = TRUE]
            /\ held' = IF command[o] = "lock" THEN held
                       ELSE [held EXCEPT ![o] = @ \cup {s}]
        BY <1>4, <3>2 DEF Migrate!Lock
      <4>2. [held EXCEPT ![o] = @ \cup {s}] \in [Operator -> SUBSET Migrate!Store]
        OBVIOUS
      <4>3. [locked EXCEPT ![s] = TRUE] \in [Migrate!Store -> BOOLEAN]
        OBVIOUS
      <4> QED
        BY <4>1, <4>2, <4>3
    <3> QED
      BY <3>1, <3>2
  <2>3. Migrate!Return(o) \/ \E l \in {<<"list", s>>, <<"lock", "ch">>} : Migrate!Move(o, l)
    BY <1>4 DEF Migrate!Lock
  <2>4. CASE Migrate!Return(o)
    BY <1>3, <2>1, <2>2, <2>4
  <2>5. CASE \E l \in {<<"list", s>>, <<"lock", "ch">>} : Migrate!Move(o, l)
    BY <2>1, <2>2, <2>5, ProcessTyped DEF LastGroup
  <2> QED
    BY <2>3, <2>4, <2>5
<1>5. ASSUME NEW s \in Migrate!Store, Migrate!Change(o, s)
      PROVE  Migrate!TypeOK' /\ LastGroup'
  <2>1. /\ held' \in [Operator -> SUBSET Migrate!Store]
        /\ locked' \in [Migrate!Store -> BOOLEAN]
    BY <1>5, ChangeCases
  <2>2. CASE Migrate!List(o, s) /\ UNCHANGED <<applied, has, unrun>>
    <3>1. CASE Migrate!Return(o)
      BY <1>3, <2>1, <2>2, <3>1
    <3>2. CASE ~Migrate!Return(o)
      <4>1. PICK ms \in {Migrate!Undone(o, s), Migrate!Unapplied(o, s)} :
              /\ opAt' = [opAt EXCEPT ![o] = <<"mark", s>>] /\ UNCHANGED <<command, ver>>
              /\ todo' = [todo EXCEPT ![o] = ms]
              /\ group' = [group EXCEPT ![o] = Migrate!Group(s) + 1]
        BY <2>2, <3>2 DEF Migrate!List, Migrate!Goto
      <4>2. 1..ver[o] \subseteq Migrate!Migration
        BY VersionsTyped
      <4>3. ms \subseteq Migrate!Migration
        BY <4>1, <4>2 DEF Migrate!Undone, Migrate!Unapplied
      <4>4. Migrate!Group(s) + 1 \in Nat \ {0}
        BY GroupTyped
      <4> QED
        BY <2>1, <2>2, <4>1, <4>3, <4>4 DEF LastGroup
    <3> QED
      BY <3>1, <3>2
  <2>3. CASE \E m \in Migrate!Migration : Migrate!Mark(o, s, m)
    <3>1. PICK m \in Migrate!Migration : Migrate!Mark(o, s, m)
      BY <2>3
    <3>2. /\ UNCHANGED <<has, command, ver, group>>
          /\ todo' \in [Operator -> SUBSET Migrate!Migration]
      BY <3>1 DEF Migrate!Mark
    <3>3. opAt' \in [Operator -> OpPlace]
      BY <1>5, ChangeMoves
    <3> QED
      BY <2>1, <3>1, <3>2, <3>3, MarkTyped
  <2>4. CASE \E m \in Migrate!Migration : Migrate!Run(o, s, m)
    <3>1. PICK m \in Migrate!Migration : Migrate!Run(o, s, m)
      BY <2>4
    <3>2. /\ UNCHANGED applied /\ Migrate!Move(o, <<"mark", s>>)
          /\ has' \in [Migrate!Store -> SUBSET Migrate!Migration]
          /\ unrun' \in [Migrate!Store -> SUBSET Migrate!Migration]
      BY <3>1 DEF Migrate!Run
    <3> QED
      BY <2>1, <3>2, ProcessTyped DEF LastGroup
  <2>5. CASE Migrate!CallFails(o, s) /\ UNCHANGED <<applied, unrun>>
    <3>1. PICK l \in {<<"idle">>, <<"return">>} : Migrate!Leave(o, l)
      BY <2>5 DEF Migrate!CallFails, Migrate!Return
    <3>2. has' \in [Migrate!Store -> SUBSET Migrate!Migration]
      BY <2>5 DEF Migrate!CallFails
    <3> QED
      BY <2>1, <2>5, <3>1, <3>2, ProcessTyped DEF LastGroup
  <2>6. CASE Migrate!Succeed(o, s) /\ UNCHANGED <<applied, has, unrun>>
    <3>1. Migrate!Return(o) \/ \E l \in {<<"list", "ch">>, <<"lock", "ch">>} : Migrate!Move(o, l)
      BY <2>6 DEF Migrate!Succeed
    <3>2. CASE Migrate!Return(o)
      BY <1>3, <2>1, <2>6, <3>2
    <3>3. CASE \E l \in {<<"list", "ch">>, <<"lock", "ch">>} : Migrate!Move(o, l)
      <4>1. PICK l \in OpPlace : Migrate!Move(o, l)
        BY <3>3
      <4> QED
        BY <2>1, <2>6, <4>1, ProcessTyped DEF LastGroup
    <3> QED
      BY <3>1, <3>2, <3>3
  <2> QED
    BY <1>5, <2>2, <2>3, <2>4, <2>5, <2>6, ChangeCases
<1>6. ASSUME NEW s \in Migrate!Store, Migrate!Unlock(o, s)
      PROVE  Migrate!TypeOK' /\ LastGroup'
  <2>1. \/ Migrate!Move(o, <<"unlock", "ch">>) \/ Migrate!Leave(o, <<"idle">>)
    BY <1>6 DEF Migrate!Unlock
  <2>2. UNCHANGED <<applied, has, unrun, held>> /\ locked' \in [Migrate!Store -> BOOLEAN]
    BY <1>6 DEF Migrate!Unlock, Migrate!schema
  <2> QED
    BY <2>1, <2>2, ProcessTyped DEF LastGroup
<1>7. ASSUME Migrate!Release(o) PROVE Migrate!TypeOK' /\ LastGroup'
  <2>1. UNCHANGED <<applied, has, unrun>> /\ Migrate!Return(o)
    BY <1>7 DEF Migrate!Release, Migrate!schema
  <2>2. PICK h \in SUBSET Migrate!Store, b \in [Migrate!Store -> BOOLEAN] :
           held' = [held EXCEPT ![o] = h] /\ locked' = b
    <3>1. \A s : held[o] \ {s} \subseteq Migrate!Store
      OBVIOUS
    <3>2. \A s : [locked EXCEPT ![s] = FALSE] \in [Migrate!Store -> BOOLEAN]
      OBVIOUS
    <3> QED
      BY <1>7, <3>1, <3>2 DEF Migrate!Release
  <2> QED
    BY <1>3, <2>1, <2>2
<1>8. ASSUME Migrate!Die(o) PROVE Migrate!TypeOK' /\ LastGroup'
  <2>1. Migrate!Leave(o, <<"idle">>) /\ UNCHANGED <<applied, has, unrun, locked>>
    BY <1>8 DEF Migrate!Die, Migrate!schema
  <2>2. held' \in [Operator -> SUBSET Migrate!Store]
    BY <1>8 DEF Migrate!Die
  <2> QED
    BY <2>1, <2>2, ProcessTyped DEF LastGroup
<1> QED
  BY <1>1, <1>2, <1>4, <1>5, <1>6, <1>7, <1>8

\* The places of a command with what it holds there.
Within(l, s) ==
    l \in {<<"list", s>>, <<"mark", s>>} \/ \E m \in Migrate!Migration : l = <<"run", s, m>>
HeldOK(c, l, h) ==
    /\ l = <<"idle">> \/ l \in {"unlock"} \X Migrate!Store => h = {}
    /\ l \in {"unlock"} \X Migrate!Store => c = "unlock"
    /\ l = <<"return">> => h # {}
    /\ c \in {"up", "down"} =>
          /\ l = <<"lock", "ch">> \/ Within(l, "ch") => "pg" \in h
          /\ \A s \in Migrate!Store : Within(l, s) => s \in h
    /\ l \in {"lock"} \X Migrate!Store => c \in {"up", "down", "lock"}
    /\ \A s \in Migrate!Store :
          /\ Within(l, s) => c \in {"up", "down", "markApplied"}
          /\ (\E m \in Migrate!Migration : l = <<"run", s, m>>) => c \in {"up", "down"}

\* It says of each command what HeldAt says.
LEMMA HeldIs ==
  /\ Migrate!HeldAt <=> \A p \in Operator : HeldOK(command[p], opAt[p], held[p])
  /\ Migrate!HeldAt' <=> \A p \in Operator : HeldOK(command'[p], opAt'[p], held'[p])
  BY DEF Migrate!HeldAt, HeldOK, Within, Migrate!Idle, Migrate!Migrating, Migrate!Running,
         Migrate!Changing, Migrate!BehindPostgres

\* And this is what it says of each place.
LEMMA HeldIdle ==
  ASSUME NEW c, NEW h
  PROVE  /\ HeldOK(c, <<"idle">>, h) <=> h = {}
         /\ HeldOK(c, <<"return">>, h) <=> h # {}
  BY Places DEF HeldOK, Within

LEMMA HeldUnlock ==
  ASSUME NEW c, NEW h, NEW s \in Migrate!Store
  PROVE  HeldOK(c, <<"unlock", s>>, h) <=> c = "unlock" /\ h = {}
  BY Places DEF HeldOK, Within

LEMMA HeldLock ==
  ASSUME NEW c, NEW h, NEW s \in Migrate!Store
  PROVE  HeldOK(c, <<"lock", s>>, h) <=>
            /\ c \in {"up", "down", "lock"}
            /\ c \in {"up", "down"} /\ s = "ch" => "pg" \in h
  BY Places DEF HeldOK, Within

LEMMA HeldList ==
  ASSUME NEW c, NEW h, NEW s \in Migrate!Store
  PROVE  HeldOK(c, <<"list", s>>, h) <=>
            /\ c \in {"up", "down", "markApplied"}
            /\ c \in {"up", "down"} => s \in h /\ (s = "ch" => "pg" \in h)
  BY Places DEF HeldOK, Within, Migrate!Store

LEMMA HeldMark ==
  ASSUME NEW c, NEW h, NEW s \in Migrate!Store
  PROVE  HeldOK(c, <<"mark", s>>, h) <=>
            /\ c \in {"up", "down", "markApplied"}
            /\ c \in {"up", "down"} => s \in h /\ (s = "ch" => "pg" \in h)
  BY Places DEF HeldOK, Within, Migrate!Store

LEMMA HeldRun ==
  ASSUME NEW c, NEW h, NEW s \in Migrate!Store, NEW m \in Migrate!Migration
  PROVE  HeldOK(c, <<"run", s, m>>, h) <=>
            c \in {"up", "down"} /\ s \in h /\ (s = "ch" => "pg" \in h)
  BY Places DEF HeldOK, Within, Migrate!Store

\* What a step does to the locks and places, of the command that makes it and
\* of the others.
LEMMA LocksKept ==
  ASSUME Migrate!MigrationsAssumption, Migrate!TypeOK, Migrate!LocksHeld,
         Migrate!HeldAt, Migrate!Next
  PROVE  Migrate!LocksHeld' /\ Migrate!HeldAt'
<1>1. PICK o \in Operator :
         \/ \E c \in {"up", "down", "lock", "unlock", "markApplied"}, v \in Versions :
               Migrate!Begin(o, c, v)
         \/ \E s \in Migrate!Store : Migrate!Lock(o, s) \/ Migrate!Change(o, s) \/ Migrate!Unlock(o, s)
         \/ Migrate!Release(o) \/ Migrate!Die(o)
  BY DEF Migrate!Next
<1>2. \A p \in Operator : HeldOK(command[p], opAt[p], held[p])
  BY HeldIs
<1>3. /\ held \in [Operator -> SUBSET Migrate!Store] /\ locked \in [Migrate!Store -> BOOLEAN]
      /\ DOMAIN opAt = Operator /\ DOMAIN command = Operator
  BY DEF Migrate!TypeOK
<1>4. /\ \A p \in Operator : \A s \in held[p] :
            locked[s] /\ \A q \in Operator \ {p} : s \notin held[q]
      /\ \A p \in Operator : opAt[p] \in {"unlock"} \X Migrate!Store =>
            \A q \in Operator \ {p} : opAt[q] = <<"idle">>
  BY DEF Migrate!LocksHeld, Migrate!Idle
<1>5. ASSUME \A p \in Operator \ {o} :
                opAt'[p] = opAt[p] /\ command'[p] = command[p] /\ held'[p] = held[p],
             HeldOK(command'[o], opAt'[o], held'[o]),
             opAt'[o] \in {"unlock"} \X Migrate!Store \/ opAt[o] = <<"idle">> =>
                \A p \in Operator \ {o} : opAt[p] \notin {"unlock"} \X Migrate!Store,
             opAt'[o] \in {"unlock"} \X Migrate!Store =>
                \A p \in Operator \ {o} : opAt[p] = <<"idle">>,
             \A s \in held'[o] :
                locked'[s] /\ \A p \in Operator \ {o} : s \notin held[p],
             \A p \in Operator \ {o} : \A s \in held[p] : locked'[s]
      PROVE  Migrate!LocksHeld' /\ Migrate!HeldAt'
  <2>1. \A p \in Operator : HeldOK(command'[p], opAt'[p], held'[p])
    BY <1>2, <1>5
  <2>2. ASSUME NEW p \in Operator, NEW s \in held'[p]
        PROVE  locked'[s] /\ \A q \in Operator \ {p} : s \notin held'[q]
    <3>1. CASE p = o
      BY <1>5, <2>2, <3>1
    <3>2. CASE p # o
      BY <1>4, <1>5, <2>2, <3>2
    <3> QED
      BY <3>1, <3>2
  <2>3. ASSUME NEW p \in Operator, opAt'[p] \in {"unlock"} \X Migrate!Store,
               NEW q \in Operator \ {p}
        PROVE  opAt'[q] = <<"idle">>
    <3>1. CASE p = o
      BY <1>5, <2>3, <3>1
    <3>2. CASE p # o /\ q # o
      BY <1>4, <1>5, <2>3, <3>2
    <3>3. CASE p # o /\ q = o
      <4>1. opAt[p] \in {"unlock"} \X Migrate!Store
        BY <1>5, <2>3, <3>3
      <4>2. opAt[o] = <<"idle">>
        BY <1>4, <3>3, <4>1
      <4> QED
        BY <1>5, <3>3, <4>1, <4>2
    <3> QED
      BY <3>1, <3>2, <3>3
  <2> QED
    BY <2>1, <2>2, <2>3, HeldIs DEF Migrate!LocksHeld, Migrate!Idle
<1>6. /\ \A d, s : <<d, s>> \in {"unlock"} \X Migrate!Store <=> d = "unlock" /\ s \in Migrate!Store
      /\ \A d, s, m : <<d, s, m>> \notin {"unlock"} \X Migrate!Store
      /\ <<"idle">> \notin {"unlock"} \X Migrate!Store
      /\ <<"return">> \notin {"unlock"} \X Migrate!Store
  BY Places
<1>7. HeldOK(command[o], opAt[o], held[o])
  BY <1>2
<1>8. ASSUME Migrate!Return(o),
             opAt[o] # <<"idle">>,
             \A p \in Operator \ {o} : held'[p] = held[p],
             \A s \in held'[o] :
                locked'[s] /\ \A p \in Operator \ {o} : s \notin held[p],
             \A p \in Operator \ {o} : \A s \in held[p] : locked'[s]
      PROVE  Migrate!LocksHeld' /\ Migrate!HeldAt'
  <2>1. /\ opAt' = [opAt EXCEPT ![o] = IF held'[o] = {} THEN <<"idle">> ELSE <<"return">>]
        /\ command' = [command EXCEPT ![o] = "none"]
    BY <1>8 DEF Migrate!Return, Migrate!Leave, Migrate!Goto
  <2>2. HeldOK(command'[o], opAt'[o], held'[o])
    BY <1>3, <2>1, HeldIdle
  <2>3. opAt'[o] \notin {"unlock"} \X Migrate!Store
    BY <1>3, <1>6, <2>1
  <2> QED
    BY <1>3, <1>5, <1>8, <2>1, <2>2, <2>3
<1>9. ASSUME NEW c \in {"up", "down", "lock", "unlock", "markApplied"},
             NEW v \in Versions, Migrate!Begin(o, c, v)
      PROVE  Migrate!LocksHeld' /\ Migrate!HeldAt'
  <2>1. /\ opAt' = [opAt EXCEPT ![o] = Migrate!First(c)] /\ command' = [command EXCEPT ![o] = c]
        /\ UNCHANGED <<held, locked>> /\ opAt[o] = <<"idle">>
        /\ \A p \in Operator : "unlock" \in {c, command[p]} => opAt[p] = <<"idle">>
    BY <1>9 DEF Migrate!Begin, Migrate!Goto, Migrate!Idle
  <2>2. /\ Migrate!First(c) \in {<<"lock", "pg">>, <<"unlock", "pg">>, <<"list", "pg">>}
        /\ Migrate!First(c) = <<"unlock", "pg">> <=> c = "unlock"
        /\ Migrate!First(c) = <<"list", "pg">> <=> c = "markApplied"
    BY Places DEF Migrate!First
  <2>3. held[o] = {}
    BY <1>7, <2>1, HeldIdle
  <2>4. HeldOK(c, Migrate!First(c), {})
    BY <2>2, HeldUnlock, HeldLock, HeldList DEF Migrate!Store
  <2>5. Migrate!First(c) \in {"unlock"} \X Migrate!Store => c = "unlock"
    BY <1>6, <2>2
  <2>6. \A p \in Operator \ {o} : opAt[p] \notin {"unlock"} \X Migrate!Store
    <3> SUFFICES ASSUME NEW p \in Operator \ {o}, NEW s \in Migrate!Store,
                        opAt[p] = <<"unlock", s>>
                 PROVE  FALSE
      BY <1>6
    <3>1. HeldOK(command[p], <<"unlock", s>>, held[p])
      BY <1>2
    <3>2. command[p] = "unlock"
      BY <3>1, HeldUnlock
    <3> QED
      BY <2>1, <3>2, Places
  <2> QED
    BY <1>3, <1>4, <1>5, <2>1, <2>3, <2>4, <2>5, <2>6
<1>10. ASSUME NEW s \in Migrate!Store, Migrate!Lock(o, s)
       PROVE  Migrate!LocksHeld' /\ Migrate!HeldAt'
  <2>1. opAt[o] = <<"lock", s>> /\ opAt[o] # <<"idle">>
    BY <1>10, Places DEF Migrate!Lock
  <2>2. CASE locked[s]
    BY <1>4, <1>8, <1>10, <2>1, <2>2 DEF Migrate!Lock
  <2>3. CASE ~locked[s] /\ command[o] # "lock"
    <3>1. /\ locked' = [locked EXCEPT ![s] = TRUE]
          /\ held' = [held EXCEPT ![o] = @ \cup {s}] /\ command' = command
          /\ opAt' = [opAt EXCEPT ![o] = <<"list", s>>]
      BY <1>10, <2>3 DEF Migrate!Lock, Migrate!Move, Migrate!Goto, Migrate!process
    <3>2. \A p \in Operator : s \notin held[p]
      BY <1>4, <2>3
    <3>3. HeldOK(command[o], <<"list", s>>, held[o] \cup {s})
      <4>1. HeldOK(command[o], <<"lock", s>>, held[o])
        BY <1>7, <2>1
      <4>2. command[o] \in {"up", "down"} /\ (s = "ch" => "pg" \in held[o])
        BY <1>10, <2>3, <4>1, HeldLock
      <4> QED
        BY <4>2, HeldList
    <3>4. \A t \in Migrate!Store : locked[t] \/ t = s => locked'[t]
      BY <1>3, <3>1
    <3>5. \A p \in Operator : held[p] \subseteq Migrate!Store
      BY <1>3
    <3> QED
      BY <1>3, <1>4, <1>5, <1>6, <2>1, <3>1, <3>2, <3>3, <3>4, <3>5
  <2>4. CASE ~locked[s] /\ command[o] = "lock"
    <3>1. /\ locked' = [locked EXCEPT ![s] = TRUE] /\ held' = held
          /\ \/ Migrate!Return(o)
             \/ opAt' = [opAt EXCEPT ![o] = <<"lock", "ch">>] /\ command' = command
      BY <1>10, <2>4 DEF Migrate!Lock, Migrate!Move, Migrate!Goto, Migrate!process
    <3>2. \A t \in Migrate!Store : locked[t] => locked'[t]
      BY <1>3, <3>1
    <3>3. \A p \in Operator : held[p] \subseteq Migrate!Store
      BY <1>3
    <3>4. CASE Migrate!Return(o)
      BY <1>4, <1>8, <2>1, <3>1, <3>2, <3>3, <3>4
    <3>5. CASE opAt' = [opAt EXCEPT ![o] = <<"lock", "ch">>] /\ command' = command
      <4>1. HeldOK(command[o], <<"lock", "ch">>, held[o])
        BY <2>4, HeldLock DEF Migrate!Store
      <4> QED
        BY <1>3, <1>4, <1>5, <1>6, <2>1, <3>1, <3>2, <3>3, <3>5, <4>1
    <3> QED
      BY <3>1, <3>4, <3>5
  <2> QED
    BY <2>2, <2>3, <2>4
<1>11. ASSUME NEW s \in Migrate!Store, Migrate!Change(o, s)
       PROVE  Migrate!LocksHeld' /\ Migrate!HeldAt'
  <2>1. UNCHANGED <<held, locked>>
    BY <1>11, ChangeCases
  <2>2. /\ \A p \in Operator \ {o} : opAt'[p] = opAt[p] /\ command'[p] = command[p]
        /\ \/ /\ opAt'[o] = IF held[o] = {} THEN <<"idle">> ELSE <<"return">>
              /\ command'[o] = "none"
           \/ /\ command'[o] = command[o]
              /\ \/ opAt'[o] = <<"mark", s>>
                 \/ /\ command[o] # "markApplied" /\ opAt[o] = <<"mark", s>>
                    /\ \E m \in Migrate!Migration : opAt'[o] = <<"run", s, m>>
                 \/ /\ s = "pg" /\ opAt[o] = <<"mark", s>>
                    /\ opAt'[o] = IF command[o] = "markApplied" THEN <<"list", "ch">>
                                  ELSE <<"lock", "ch">>
    BY <1>11, ChangeMoves
  <2>3. Migrate!Changing(o, s)
    BY <1>11, ChangeMoves
  <2>4. opAt[o] # <<"idle">>
    BY <2>3, Places DEF Migrate!Changing, Migrate!Running
  <2>5. /\ command[o] \in {"up", "down", "markApplied"}
        /\ command[o] \in {"up", "down"} => s \in held[o] /\ (s = "ch" => "pg" \in held[o])
    <3>1. CASE opAt[o] = <<"list", s>>
      <4>1. HeldOK(command[o], <<"list", s>>, held[o])
        BY <1>7, <3>1
      <4> QED
        BY <4>1, HeldList
    <3>2. CASE opAt[o] = <<"mark", s>>
      <4>1. HeldOK(command[o], <<"mark", s>>, held[o])
        BY <1>7, <3>2
      <4> QED
        BY <4>1, HeldMark
    <3>3. CASE \E m \in Migrate!Migration : opAt[o] = <<"run", s, m>>
      <4>1. PICK m \in Migrate!Migration : HeldOK(command[o], <<"run", s, m>>, held[o])
        BY <1>7, <3>3
      <4> QED
        BY <4>1, HeldRun
    <3> QED
      BY <2>3, <3>1, <3>2, <3>3 DEF Migrate!Changing, Migrate!Running
  <2>6. HeldOK(command'[o], opAt'[o], held[o])
    <3>1. CASE opAt'[o] = IF held[o] = {} THEN <<"idle">> ELSE <<"return">>
      BY <3>1, HeldIdle
    <3>2. CASE command'[o] = command[o] /\ opAt'[o] = <<"mark", s>>
      BY <2>5, <3>2, HeldMark
    <3>3. CASE /\ command'[o] = command[o] /\ command[o] # "markApplied"
               /\ \E m \in Migrate!Migration : opAt'[o] = <<"run", s, m>>
      BY <2>5, <3>3, HeldRun
    <3>4. CASE /\ command'[o] = command[o] /\ s = "pg"
               /\ opAt'[o] = IF command[o] = "markApplied" THEN <<"list", "ch">>
                             ELSE <<"lock", "ch">>
      <4>1. CASE command[o] = "markApplied"
        BY <3>4, <4>1, HeldList DEF Migrate!Store
      <4>2. CASE command[o] # "markApplied"
        BY <2>5, <3>4, <4>2, HeldLock DEF Migrate!Store
      <4> QED
        BY <4>1, <4>2
    <3> QED
      BY <2>2, <3>1, <3>2, <3>3, <3>4
  <2>7. opAt'[o] \notin {"unlock"} \X Migrate!Store
    BY <1>6, <2>2
  <2> QED
    BY <1>4, <1>5, <2>1, <2>2, <2>4, <2>6, <2>7
<1>12. ASSUME NEW s \in Migrate!Store, Migrate!Unlock(o, s)
       PROVE  Migrate!LocksHeld' /\ Migrate!HeldAt'
  <2>1. opAt[o] = <<"unlock", s>> /\ held' = held
    BY <1>12 DEF Migrate!Unlock
  <2>2. /\ \A p \in Operator \ {o} : opAt[p] = <<"idle">>
        /\ command[o] = "unlock" /\ held[o] = {}
    <3>1. HeldOK(command[o], <<"unlock", s>>, held[o])
      BY <1>7, <2>1
    <3>2. opAt[o] \in {"unlock"} \X Migrate!Store
      BY <1>6, <2>1
    <3> QED
      BY <1>4, <3>1, <3>2, HeldUnlock
  <2>3. \A p \in Operator : held[p] = {}
    BY <1>2, <2>2, HeldIdle
  <2>4. /\ \A p \in Operator \ {o} : opAt'[p] = opAt[p] /\ command'[p] = command[p]
        /\ \/ opAt'[o] = <<"unlock", "ch">> /\ command'[o] = command[o]
           \/ opAt'[o] = <<"idle">>
    BY <1>3, <1>12
    DEF Migrate!Unlock, Migrate!Move, Migrate!Leave, Migrate!Goto, Migrate!process
  <2>5. HeldOK(command'[o], opAt'[o], {})
    BY <2>2, <2>4, HeldIdle, HeldUnlock DEF Migrate!Store
  <2>6. \A p \in Operator \ {o} : opAt[p] \notin {"unlock"} \X Migrate!Store
    BY <1>6, <2>2
  <2> QED
    BY <1>5, <2>1, <2>2, <2>3, <2>4, <2>5, <2>6
<1>13. ASSUME Migrate!Release(o) PROVE Migrate!LocksHeld' /\ Migrate!HeldAt'
  <2>1. PICK s \in Migrate!Store :
           /\ held' = [held EXCEPT ![o] = @ \ {s}] /\ s \in held[o]
           /\ locked' \in {[locked EXCEPT ![s] = FALSE], locked}
           /\ opAt[o] = <<"return">> /\ Migrate!Return(o)
    <3>1. opAt[o] = <<"return">> /\ Migrate!Return(o)
      BY <1>13 DEF Migrate!Release
    <3>2. held[o] # {} /\ held[o] \subseteq Migrate!Store
      BY <1>3, <1>7, <3>1, HeldIdle
    <3>3. (IF "ch" \in held[o] THEN "ch" ELSE "pg") \in held[o]
      BY <3>2 DEF Migrate!Store
    <3> QED
      BY <1>13, <3>1, <3>2, <3>3 DEF Migrate!Release
  <2>2. opAt[o] # <<"idle">>
    BY <2>1, Places
  <2>3. \A t \in Migrate!Store : t # s => locked'[t] = locked[t]
    BY <1>3, <2>1
  <2>4. held'[o] = held[o] \ {s} /\ \A p \in Operator \ {o} : held'[p] = held[p] /\ s \notin held[p]
    BY <1>3, <1>4, <2>1
  <2>5. \A p \in Operator : held[p] \subseteq Migrate!Store
    BY <1>3
  <2> QED
    BY <1>4, <1>8, <2>1, <2>2, <2>3, <2>4, <2>5
<1>14. ASSUME Migrate!Die(o) PROVE Migrate!LocksHeld' /\ Migrate!HeldAt'
  <2>1. /\ opAt[o] # <<"idle">> /\ opAt' = [opAt EXCEPT ![o] = <<"idle">>]
        /\ command' = [command EXCEPT ![o] = "none"] /\ held' = [held EXCEPT ![o] = {}]
        /\ locked' = locked
    BY <1>14 DEF Migrate!Die, Migrate!Leave, Migrate!Goto, Migrate!Idle
  <2>2. HeldOK("none", <<"idle">>, {})
    BY HeldIdle
  <2> QED
    BY <1>3, <1>4, <1>5, <1>6, <2>1, <2>2
<1> QED
  BY <1>1, <1>9, <1>10, <1>11, <1>12, <1>13, <1>14

\* Only a "down" lowers marks, and only those of the store whose lock it holds.
LEMMA MarksLast ==
  ASSUME Migrate!TypeOK, LastGroup, NEW o \in Operator, NEW s \in Migrate!Store,
         Migrate!Change(o, s), NEW t \in Migrate!Store, NEW k \in Migrate!Migration,
         applied[t][k] > 0, t # s \/ command[o] # "down"
  PROVE  applied'[t][k] > 0
<1>1. CASE \E m \in Migrate!Migration : Migrate!Mark(o, s, m)
  <2>1. PICK m \in Migrate!Migration : Migrate!Mark(o, s, m)
    BY <1>1
  <2>2. CASE t # s \/ k # m
    BY <2>1, <2>2, MarkTyped
  <2>3. CASE t = s /\ k = m
    BY <2>1, <2>3, MarkTyped
  <2> QED
    BY <2>2, <2>3
<1>2. CASE UNCHANGED applied
  BY <1>2
<1> QED
  BY <1>1, <1>2, ChangeCases DEF Migrate!Run

\* So no other command lowers them while one holds the lock.
LEMMA MarksLocked ==
  ASSUME Migrate!TypeOK, LastGroup, Migrate!LocksHeld, Migrate!HeldAt,
         NEW o \in Operator, NEW s \in Migrate!Store, Migrate!Change(o, s),
         NEW p \in Operator \ {o}, NEW t \in held[p], NEW k \in Migrate!Migration,
         applied[t][k] > 0
  PROVE  applied'[t][k] > 0
<1>1. t \in Migrate!Store /\ t \notin held[o]
  BY DEF Migrate!TypeOK, Migrate!LocksHeld
<1>2. Migrate!Changing(o, s)
  BY ChangeMoves
<1>3. command[o] = "down" => s \in held[o]
  BY <1>2 DEF Migrate!HeldAt, Migrate!Migrating
<1> QED
  BY <1>1, <1>3, MarksLast

\* The steps that leave the schemas alone.
LEMMA OtherSteps ==
  ASSUME Migrate!TypeOK, Migrate!HeldAt, NEW o \in Operator,
         \/ \E c \in {"up", "down", "lock", "unlock", "markApplied"}, v \in Versions :
               Migrate!Begin(o, c, v)
         \/ \E s \in Migrate!Store : Migrate!Lock(o, s) \/ Migrate!Unlock(o, s)
         \/ Migrate!Release(o) \/ Migrate!Die(o)
  PROVE  /\ UNCHANGED <<applied, has, unrun>>
         /\ \A p \in Operator \ {o} :
               /\ opAt'[p] = opAt[p] /\ command'[p] = command[p] /\ ver'[p] = ver[p]
               /\ todo'[p] = todo[p]
         /\ \A s \in Migrate!Store :
               /\ opAt'[o] # <<"mark", s>>
               /\ \A m \in Migrate!Migration : opAt'[o] # <<"run", s, m>>
         /\ command'[o] = "up" =>
               \/ opAt'[o] \in {<<"lock", "pg">>, <<"list", "pg">>}
               \/ /\ opAt[o] = <<"lock", "ch">> /\ opAt'[o] = <<"list", "ch">>
                  /\ command[o] = "up" /\ ver'[o] = ver[o]
<1> USE Places DEF Migrate!TypeOK, Migrate!Store
<1>1. ASSUME NEW l, Migrate!Leave(o, l), l \in {<<"idle">>, <<"return">>}
      PROVE  /\ opAt' = [opAt EXCEPT ![o] = l]
             /\ command' = [command EXCEPT ![o] = "none"]
             /\ ver' = [ver EXCEPT ![o] = 0] /\ todo' = [todo EXCEPT ![o] = {}]
  BY <1>1 DEF Migrate!Leave, Migrate!Goto
<1>2. ASSUME NEW c \in {"up", "down", "lock", "unlock", "markApplied"},
             NEW v \in Versions, Migrate!Begin(o, c, v)
      PROVE  /\ UNCHANGED <<applied, has, unrun, todo>>
             /\ opAt' = [opAt EXCEPT ![o] = Migrate!First(c)]
             /\ command' = [command EXCEPT ![o] = c] /\ ver' = [ver EXCEPT ![o] = v]
             /\ Migrate!First(c) \in {<<"lock", "pg">>, <<"list", "pg">>, <<"unlock", "pg">>}
             /\ c = "up" => Migrate!First(c) = <<"lock", "pg">>
  BY <1>2 DEF Migrate!Begin, Migrate!Goto, Migrate!schema, Migrate!First
<1>3. ASSUME NEW s \in Migrate!Store, Migrate!Lock(o, s)
      PROVE  /\ UNCHANGED <<applied, has, unrun>> /\ opAt[o] = <<"lock", s>>
             /\ \/ \E l \in {<<"idle">>, <<"return">>} : Migrate!Leave(o, l)
                \/ /\ UNCHANGED <<command, ver, todo>>
                   /\ \/ opAt' = [opAt EXCEPT ![o] = <<"list", s>>]
                      \/ opAt' = [opAt EXCEPT ![o] = <<"lock", "ch">>] /\ command[o] = "lock"
  BY <1>3
  DEF Migrate!Lock, Migrate!Return, Migrate!Move, Migrate!Goto, Migrate!process,
      Migrate!schema
<1>4. ASSUME NEW s \in Migrate!Store, Migrate!Unlock(o, s)
      PROVE  /\ UNCHANGED <<applied, has, unrun>> /\ opAt[o] = <<"unlock", s>>
             /\ \/ \E l \in {<<"idle">>, <<"return">>} : Migrate!Leave(o, l)
                \/ /\ UNCHANGED <<command, ver, todo>>
                   /\ opAt' = [opAt EXCEPT ![o] = <<"unlock", "ch">>]
  BY <1>4
  DEF Migrate!Unlock, Migrate!Move, Migrate!Goto, Migrate!process, Migrate!schema
<1>5. ASSUME Migrate!Release(o) \/ Migrate!Die(o)
      PROVE  /\ UNCHANGED <<applied, has, unrun>>
             /\ \E l \in {<<"idle">>, <<"return">>} : Migrate!Leave(o, l)
  BY <1>5 DEF Migrate!Release, Migrate!Die, Migrate!Return, Migrate!schema
<1>6. CASE \E c \in {"up", "down", "lock", "unlock", "markApplied"}, v \in Versions :
              Migrate!Begin(o, c, v)
  BY <1>2, <1>6
<1>7. CASE \E l \in {<<"idle">>, <<"return">>} : Migrate!Leave(o, l)
  <2>1. UNCHANGED <<applied, has, unrun>>
    BY <1>2, <1>3, <1>4, <1>5
  <2> QED
    BY <1>1, <1>7, <2>1
<1>8. CASE \E s \in Migrate!Store : Migrate!Lock(o, s)
  BY <1>3, <1>7, <1>8
<1>9. CASE \E s \in Migrate!Store : Migrate!Unlock(o, s)
  <2>1. PICK s \in Migrate!Store : Migrate!Unlock(o, s)
    BY <1>9
  <2>2. CASE UNCHANGED <<command, ver, todo>> /\ opAt' = [opAt EXCEPT ![o] = <<"unlock", "ch">>]
    <3>1. opAt[o] = <<"unlock", s>>
      BY <1>4, <2>1
    <3>2. command[o] = "unlock"
      BY <3>1 DEF Migrate!HeldAt
    <3> QED
      BY <1>4, <2>1, <2>2, <3>2
  <2> QED
    BY <1>4, <1>7, <2>1, <2>2
<1> QED
  BY <1>5, <1>6, <1>7, <1>8, <1>9

\* Nothing takes away what an "up" has brought, or found, before it is through.
LEMMA ListKept ==
  ASSUME Migrate!MigrationsAssumption, Migrate!TypeOK, LastGroup, Migrate!UpInv,
         Migrate!Next
  PROVE  Migrate!ListedUp' /\ Migrate!PostgresUp'
<1> USE Places DEF Migrate!UpInv, Migrate!Store
<1>1. PICK o \in Operator :
         \/ \E c \in {"up", "down", "lock", "unlock", "markApplied"}, v \in Versions :
               Migrate!Begin(o, c, v)
         \/ \E s \in Migrate!Store : Migrate!Lock(o, s) \/ Migrate!Change(o, s) \/ Migrate!Unlock(o, s)
         \/ Migrate!Release(o) \/ Migrate!Die(o)
  BY DEF Migrate!Next
<1>2. \A p \in Operator : 1..ver[p] \subseteq Migrate!Migration
  BY VersionsTyped DEF Migrate!TypeOK
<1>3. ASSUME NEW s \in Migrate!Store, Migrate!Change(o, s)
      PROVE  Migrate!ListedUp' /\ Migrate!PostgresUp'
  <2>1. /\ Migrate!Changing(o, s)
        /\ \A p \in Operator \ {o} :
              /\ opAt'[p] = opAt[p] /\ command'[p] = command[p] /\ ver'[p] = ver[p]
              /\ todo'[p] = todo[p]
    BY <1>3, ChangeMoves
  <2>2. ASSUME NEW p \in Operator \ {o}, command[p] = "up"
        PROVE  /\ \A t \in Migrate!Store :
                     opAt[p] = <<"mark", t>> \/ Migrate!Running(p, t) =>
                        \A m \in 1..ver[p] : applied'[t][m] > 0 \/ m \in todo[p]
               /\ Migrate!BehindPostgres(p) => \A m \in 1..ver[p] : applied'["pg"][m] > 0
    <3>1. ASSUME NEW t \in Migrate!Store, opAt[p] = <<"mark", t>> \/ Migrate!Running(p, t),
                 NEW m \in 1..ver[p]
          PROVE  applied'[t][m] > 0 \/ m \in todo[p]
      <4>1. t \in held[p]
        BY <2>2, <3>1 DEF Migrate!HeldAt, Migrate!Migrating, Migrate!Changing
      <4>2. applied[t][m] > 0 \/ m \in todo[p]
        BY <2>2, <3>1 DEF Migrate!ListedUp
      <4> QED
        BY <1>2, <1>3, <4>1, <4>2, MarksLocked
    <3>2. ASSUME Migrate!BehindPostgres(p), NEW m \in 1..ver[p]
          PROVE  applied'["pg"][m] > 0
      <4>1. "pg" \in held[p]
        BY <2>2, <3>2 DEF Migrate!HeldAt, Migrate!Migrating
      <4>2. applied["pg"][m] > 0
        BY <2>2, <3>2 DEF Migrate!PostgresUp
      <4> QED
        BY <1>2, <1>3, <4>1, <4>2, MarksLocked
    <3> QED
      BY <3>1, <3>2
  <2>3. ASSUME command'[o] = "up"
        PROVE  command[o] = "up" /\ ver'[o] = ver[o]
    BY <1>3, <2>3, ChangeMoves
  <2>4. ASSUME command'[o] = "up", NEW t \in Migrate!Store,
               opAt'[o] = <<"mark", t>> \/ \E k \in Migrate!Migration : opAt'[o] = <<"run", t, k>>,
               NEW m \in 1..ver[o]
        PROVE  applied'[t][m] > 0 \/ m \in todo'[o]
    <3>1. t = s
      BY <1>3, <2>4, ChangeMoves
    <3>2. m \in Migrate!Migration
      BY <1>2
    <3>3. CASE Migrate!List(o, s) /\ UNCHANGED <<applied, has, unrun>>
      <4>1. ~Migrate!Return(o)
        BY <2>4 DEF Migrate!Return, Migrate!Leave, Migrate!TypeOK
      <4>2. todo' = [todo EXCEPT ![o] = Migrate!Unapplied(o, s)]
        BY <2>3, <2>4, <3>3, <4>1 DEF Migrate!List
      <4>3. m \in Migrate!Unapplied(o, s) \/ applied[s][m] # 0
        BY DEF Migrate!Unapplied
      <4>4. applied[s][m] \in Nat
        BY <3>2 DEF Migrate!TypeOK
      <4> QED
        BY <3>1, <3>3, <4>2, <4>3, <4>4 DEF Migrate!TypeOK
    <3>4. CASE \E k \in Migrate!Migration : Migrate!Mark(o, s, k)
      <4>1. PICK k \in Migrate!Migration : Migrate!Mark(o, s, k)
        BY <3>4
      <4>2. opAt[o] = <<"mark", s>> /\ todo' = [todo EXCEPT ![o] = @ \ {k}]
        BY <4>1 DEF Migrate!Mark
      <4>3. applied[s][m] > 0 \/ m \in todo[o]
        BY <2>3, <2>4, <4>2 DEF Migrate!ListedUp
      <4>4. applied'[s][k] > 0
        BY <2>3, <2>4, <4>1, MarkTyped
      <4>5. applied[s][m] > 0 => applied'[s][m] > 0
        BY <1>3, <2>3, <2>4, <3>2, MarksLast
      <4>6. m \in todo[o] /\ m # k => m \in todo'[o]
        BY <4>2 DEF Migrate!TypeOK
      <4> QED
        BY <3>1, <4>3, <4>4, <4>5, <4>6
    <3>5. CASE \E k \in Migrate!Migration : Migrate!Run(o, s, k)
      <4>1. Migrate!Running(o, s) /\ UNCHANGED <<applied, todo>>
        BY <3>5 DEF Migrate!Run, Migrate!Running, Migrate!Move, Migrate!process
      <4> QED
        BY <2>3, <2>4, <3>1, <4>1 DEF Migrate!ListedUp
    <3>6. CASE Migrate!CallFails(o, s)
      <4>1. command' = [command EXCEPT ![o] = "none"]
        BY <3>6 DEF Migrate!CallFails, Migrate!Return, Migrate!Leave
      <4> QED
        BY <2>4, <4>1 DEF Migrate!TypeOK
    <3>7. CASE Migrate!Succeed(o, s)
      <4>1. Migrate!Return(o) \/ Migrate!Move(o, <<"list", "ch">>) \/ Migrate!Move(o, <<"lock", "ch">>)
        BY <3>7 DEF Migrate!Succeed
      <4>2. ~Migrate!Return(o)
        BY <2>4 DEF Migrate!Return, Migrate!Leave, Migrate!TypeOK
      <4> QED
        BY <2>4, <4>1, <4>2 DEF Migrate!Move, Migrate!Goto, Migrate!TypeOK
    <3> QED
      BY <1>3, <3>3, <3>4, <3>5, <3>6, <3>7, ChangeCases
  <2>5. ASSUME command'[o] = "up",
               \/ opAt'[o] \in {<<"lock", "ch">>, <<"list", "ch">>, <<"mark", "ch">>}
               \/ \E k \in Migrate!Migration : opAt'[o] = <<"run", "ch", k>>,
               NEW m \in 1..ver[o]
        PROVE  applied'["pg"][m] > 0
    <3>1. applied["pg"][m] > 0
      <4>1. CASE s = "ch"
        <5>1. Migrate!BehindPostgres(o)
          BY <2>1, <4>1 DEF Migrate!BehindPostgres
        <5> QED
          BY <2>3, <2>5, <5>1 DEF Migrate!PostgresUp
      <4>2. CASE s = "pg"
        <5>1. opAt[o] = <<"mark", "pg">> /\ todo[o] = {}
          BY <1>3, <2>3, <2>5, <4>2, ChangeMoves
        <5> QED
          BY <2>3, <2>5, <5>1 DEF Migrate!ListedUp
      <4> QED
        BY <4>1, <4>2
    <3>2. m \in Migrate!Migration
      BY <1>2
    <3> QED
      BY <1>3, <2>3, <2>5, <3>1, <3>2, MarksLast
  <2>6. Migrate!ListedUp'
    <3> SUFFICES ASSUME NEW p \in Operator, NEW t \in Migrate!Store, command'[p] = "up",
                        opAt'[p] = <<"mark", t>>
                           \/ \E k \in Migrate!Migration : opAt'[p] = <<"run", t, k>>,
                        NEW m \in 1..ver'[p]
                 PROVE  applied'[t][m] > 0 \/ m \in todo'[p]
      BY DEF Migrate!ListedUp, Migrate!Running
    <3>1. CASE p = o
      BY <2>3, <2>4, <3>1
    <3>2. CASE p # o
      BY <2>1, <2>2, <3>2 DEF Migrate!Running
    <3> QED
      BY <3>1, <3>2
  <2>7. Migrate!PostgresUp'
    <3> SUFFICES ASSUME NEW p \in Operator, command'[p] = "up",
                        \/ opAt'[p] \in {<<"lock", "ch">>, <<"list", "ch">>, <<"mark", "ch">>}
                        \/ \E k \in Migrate!Migration : opAt'[p] = <<"run", "ch", k>>,
                        NEW m \in 1..ver'[p]
                 PROVE  applied'["pg"][m] > 0
      BY DEF Migrate!PostgresUp, Migrate!BehindPostgres, Migrate!Changing, Migrate!Running
    <3>1. CASE p = o
      BY <2>3, <2>5, <3>1
    <3>2. CASE p # o
      BY <2>1, <2>2, <3>2 DEF Migrate!BehindPostgres, Migrate!Changing, Migrate!Running
    <3> QED
      BY <3>1, <3>2
  <2> QED
    BY <2>6, <2>7
<1>4. ASSUME \/ \E c \in {"up", "down", "lock", "unlock", "markApplied"}, v \in Versions :
                   Migrate!Begin(o, c, v)
             \/ \E s \in Migrate!Store : Migrate!Lock(o, s) \/ Migrate!Unlock(o, s)
             \/ Migrate!Release(o) \/ Migrate!Die(o)
      PROVE  Migrate!ListedUp' /\ Migrate!PostgresUp'
  <2>1. /\ UNCHANGED applied
        /\ \A p \in Operator \ {o} :
              /\ opAt'[p] = opAt[p] /\ command'[p] = command[p] /\ ver'[p] = ver[p]
              /\ todo'[p] = todo[p]
        /\ \A s \in Migrate!Store :
              /\ opAt'[o] # <<"mark", s>>
              /\ \A m \in Migrate!Migration : opAt'[o] # <<"run", s, m>>
        /\ command'[o] = "up" =>
              \/ opAt'[o] \in {<<"lock", "pg">>, <<"list", "pg">>}
              \/ /\ opAt[o] = <<"lock", "ch">> /\ opAt'[o] = <<"list", "ch">>
                 /\ command[o] = "up" /\ ver'[o] = ver[o]
    BY <1>4, OtherSteps
  <2>2. Migrate!ListedUp'
    BY <2>1 DEF Migrate!ListedUp, Migrate!Running
  <2>3. \A p \in Operator : command'[p] = "up" /\ Migrate!BehindPostgres(p)' =>
           command[p] = "up" /\ Migrate!BehindPostgres(p) /\ ver'[p] = ver[p]
    BY <2>1 DEF Migrate!BehindPostgres, Migrate!Changing, Migrate!Running
  <2> QED
    BY <2>1, <2>2, <2>3 DEF Migrate!PostgresUp
<1> QED
  BY <1>1, <1>3, <1>4

\* What a mark stands for: a mark made is one whose Up has not ended, and a
\* Down runs behind the lock without which no Up does.
LEMMA MarksKept ==
  ASSUME Migrate!MigrationsAssumption, Migrate!TypeOK, LastGroup, Migrate!UpInv,
         Migrate!Next
  PROVE  Migrate!MarksStand'
<1> USE Places DEF Migrate!UpInv, Migrate!MarksStand, Migrate!Undoing, Migrate!Stands
<1>1. PICK o \in Operator :
         \/ \E c \in {"up", "down", "lock", "unlock", "markApplied"}, v \in Versions :
               Migrate!Begin(o, c, v)
         \/ \E s \in Migrate!Store : Migrate!Lock(o, s) \/ Migrate!Change(o, s) \/ Migrate!Unlock(o, s)
         \/ Migrate!Release(o) \/ Migrate!Die(o)
  BY DEF Migrate!Next
<1>2. ASSUME NEW s \in Migrate!Store, Migrate!Change(o, s)
      PROVE  Migrate!MarksStand'
  <2>1. \A p \in Operator \ {o} : opAt'[p] = opAt[p] /\ command'[p] = command[p]
    BY <1>2, ChangeMoves
  <2>2. CASE UNCHANGED <<applied, has, unrun>> /\ (Migrate!List(o, s) \/ Migrate!Succeed(o, s))
    <3>1. \A t \in Migrate!Store, m \in Migrate!Migration : opAt'[o] # <<"run", t, m>>
      BY <2>2
      DEF Migrate!List, Migrate!Succeed, Migrate!Return, Migrate!Leave, Migrate!Move,
          Migrate!Goto, Migrate!TypeOK
    <3> QED
      BY <2>1, <2>2, <3>1
  <2>3. CASE \E m \in Migrate!Migration : Migrate!Mark(o, s, m)
    <3>1. PICK m \in Migrate!Migration : Migrate!Mark(o, s, m)
      BY <2>3
    <3>2. /\ \A t \in Migrate!Store, k \in Migrate!Migration :
                t # s \/ k # m => /\ applied'[t][k] = applied[t][k]
                                  /\ k \in unrun'[t] <=> k \in unrun[t]
          /\ IF command[o] = "down" THEN applied'[s][m] = 0 /\ m \notin unrun'[s]
             ELSE applied'[s][m] > 0 /\ m \in unrun'[s]
      BY <3>1, MarkTyped
    <3>3. /\ has' = has /\ command' = command
          /\ opAt'[o] \in {<<"mark", s>>, <<"run", s, m>>}
      BY <3>1 DEF Migrate!Mark, Migrate!Goto, Migrate!TypeOK
    <3>4. \A t \in Migrate!Store, k \in Migrate!Migration :
             applied'[t][k] > 0 => k \in unrun'[t] \/ k \in has'[t]
      BY <3>2, <3>3
    <3>5. ASSUME NEW p \in Operator, NEW t \in Migrate!Store, NEW k \in Migrate!Migration,
                 command'[p] = "down", opAt'[p] = <<"run", t, k>>
          PROVE  applied'[t][k] = 0 \/ k \in unrun'[t]
      <4>1. CASE t = s /\ k = m
        BY <3>2, <4>1
      <4>2. CASE t # s \/ k # m
        <5>1. p # o
          BY <3>3, <3>5, <4>2
        <5>2. applied[t][k] = 0 \/ k \in unrun[t]
          BY <2>1, <3>3, <3>5, <5>1
        <5> QED
          BY <3>2, <4>2, <5>2
      <4> QED
        BY <4>1, <4>2
    <3> QED
      BY <3>4, <3>5
  <2>4. CASE \E m \in Migrate!Migration : Migrate!Run(o, s, m)
    <3>1. PICK m \in Migrate!Migration : Migrate!Run(o, s, m)
      BY <2>4
    <3>2. opAt[o] = <<"run", s, m>> /\ UNCHANGED <<applied, command>> /\ opAt'[o] = <<"mark", s>>
      BY <3>1 DEF Migrate!Run, Migrate!Move, Migrate!Goto, Migrate!process, Migrate!TypeOK
    <3>3. CASE command[o] = "down"
      <4>1. unrun' = unrun /\ has' = [has EXCEPT ![s] = @ \ {m}]
        BY <3>1, <3>3 DEF Migrate!Run
      <4>2. applied[s][m] = 0 \/ m \in unrun[s]
        BY <3>2, <3>3
      <4>3. \A t \in Migrate!Store, k \in Migrate!Migration :
               t # s \/ k # m => (k \in has'[t] <=> k \in has[t])
        BY <4>1 DEF Migrate!TypeOK
      <4> QED
        BY <2>1, <3>2, <4>1, <4>2, <4>3
    <3>4. CASE command[o] # "down"
      <4>1. /\ has' = [has EXCEPT ![s] = @ \cup {m}]
            /\ unrun' = [unrun EXCEPT ![s] = @ \ {m}]
        BY <3>1, <3>4 DEF Migrate!Run
      <4>2. /\ m \in has'[s]
            /\ \A t \in Migrate!Store, k \in Migrate!Migration :
                  t # s \/ k # m => /\ k \in has[t] => k \in has'[t]
                                    /\ k \in unrun'[t] <=> k \in unrun[t]
        BY <4>1 DEF Migrate!TypeOK
      <4>3. ASSUME NEW p \in Operator \ {o}, command[p] = "down", opAt[p] = <<"run", s, m>>
            PROVE  FALSE
        <5>1. s \in held[p]
          BY <4>3
          DEF Migrate!HeldAt, Migrate!Migrating, Migrate!Changing, Migrate!Running
        <5>2. s \in held[o]
          BY <3>2
          DEF Migrate!HeldAt, Migrate!Changing, Migrate!Running
        <5> QED
          BY <5>1, <5>2 DEF Migrate!LocksHeld
      <4> QED
        BY <2>1, <3>2, <4>2, <4>3
    <3> QED
      BY <3>3, <3>4
  <2>5. CASE Migrate!CallFails(o, s)
    <3>1. UNCHANGED <<applied, unrun>> /\ opAt'[o] \in {<<"idle">>, <<"return">>}
      BY <2>5
      DEF Migrate!CallFails, Migrate!Return, Migrate!Leave, Migrate!Goto, Migrate!TypeOK
    <3>2. \/ UNCHANGED has
          \/ \E m \in Migrate!Migration :
                opAt[o] = <<"run", s, m>> /\ command[o] = "down"
                   /\ has' = [has EXCEPT ![s] = @ \ {m}]
      BY <2>5 DEF Migrate!CallFails
    <3>3. CASE UNCHANGED has
      BY <2>1, <3>1, <3>3
    <3>4. CASE \E m \in Migrate!Migration :
                  opAt[o] = <<"run", s, m>> /\ command[o] = "down"
                     /\ has' = [has EXCEPT ![s] = @ \ {m}]
      <4>1. PICK m \in Migrate!Migration :
                opAt[o] = <<"run", s, m>> /\ command[o] = "down"
                   /\ has' = [has EXCEPT ![s] = @ \ {m}]
        BY <3>4
      <4>2. applied[s][m] = 0 \/ m \in unrun[s]
        BY <4>1
      <4>3. \A t \in Migrate!Store, k \in Migrate!Migration :
               t # s \/ k # m => (k \in has'[t] <=> k \in has[t])
        BY <4>1 DEF Migrate!TypeOK
      <4> QED
        BY <2>1, <3>1, <4>2, <4>3
    <3> QED
      BY <3>2, <3>3, <3>4
  <2> QED
    BY <1>2, <2>2, <2>3, <2>4, <2>5, ChangeCases
<1>3. ASSUME \/ \E c \in {"up", "down", "lock", "unlock", "markApplied"}, v \in Versions :
                   Migrate!Begin(o, c, v)
             \/ \E s \in Migrate!Store : Migrate!Lock(o, s) \/ Migrate!Unlock(o, s)
             \/ Migrate!Release(o) \/ Migrate!Die(o)
      PROVE  Migrate!MarksStand'
  <2>1. /\ UNCHANGED <<applied, has, unrun>>
        /\ \A p \in Operator \ {o} : opAt'[p] = opAt[p] /\ command'[p] = command[p]
        /\ \A s \in Migrate!Store, m \in Migrate!Migration : opAt'[o] # <<"run", s, m>>
    BY <1>3, OtherSteps
  <2> QED
    BY <2>1
<1> QED
  BY <1>1, <1>2, <1>3

\* The invariant of the migrations.
LEMMA MigrationsCorrect ==
  ASSUME Migrate!MigrationsAssumption
  PROVE  Migrate!Spec => [](Migrate!TypeOK /\ LastGroup /\ Migrate!UpInv)
<1>1. Migrate!Init => Migrate!TypeOK /\ LastGroup /\ Migrate!UpInv
  <2> SUFFICES ASSUME Migrate!Init
               PROVE  Migrate!TypeOK /\ LastGroup /\ Migrate!UpInv
    OBVIOUS
  <2>1. Migrate!TypeOK
    BY DEF Migrate!Init, Migrate!TypeOK
  <2>2. LastGroup
    <3>1. \A s \in Migrate!Store, m \in Migrate!Migration : applied[s][m] <= 0
      BY DEF Migrate!Init
    <3> QED
      BY <3>1 DEF LastGroup
  <2>3. Migrate!UpInv
    BY Places
    DEF Migrate!Init, Migrate!UpInv, Migrate!LocksHeld, Migrate!HeldAt,
        Migrate!ListedUp, Migrate!PostgresUp, Migrate!MarksStand, Migrate!Stands,
        Migrate!Undoing, Migrate!Idle, Migrate!Running, Migrate!Changing, Migrate!Migrating
  <2> QED
    BY <2>1, <2>2, <2>3
<1>2. Migrate!TypeOK /\ LastGroup /\ Migrate!UpInv /\ [Migrate!Next]_(Migrate!vars) => Migrate!TypeOK' /\ LastGroup' /\ Migrate!UpInv'
  <2> SUFFICES ASSUME Migrate!TypeOK, LastGroup, Migrate!UpInv,
                      [Migrate!Next]_(Migrate!vars)
               PROVE  Migrate!TypeOK' /\ LastGroup' /\ Migrate!UpInv'
    OBVIOUS
  <2>1. CASE Migrate!Next
    BY <2>1, MigrationTyped, LocksKept, ListKept, MarksKept DEF Migrate!UpInv
  <2>2. CASE UNCHANGED Migrate!vars
    <3>1. UNCHANGED <<applied, has, unrun, locked, command, ver, opAt, todo, group, held>>
      BY <2>2 DEF Migrate!vars, Migrate!schema, Migrate!process
    <3>2. Migrate!TypeOK' /\ LastGroup'
      BY <3>1 DEF Migrate!TypeOK, LastGroup
    <3>3. Migrate!LocksHeld' /\ Migrate!HeldAt'
      BY <3>1, HeldIs DEF Migrate!UpInv, Migrate!LocksHeld, Migrate!Idle
    <3>4. Migrate!ListedUp' /\ Migrate!PostgresUp'
      BY <3>1
      DEF Migrate!UpInv, Migrate!ListedUp, Migrate!PostgresUp, Migrate!BehindPostgres,
          Migrate!Running, Migrate!Changing
    <3>5. Migrate!MarksStand'
      BY <3>1 DEF Migrate!UpInv, Migrate!MarksStand, Migrate!Stands, Migrate!Undoing
    <3> QED
      BY <3>2, <3>3, <3>4, <3>5 DEF Migrate!UpInv
  <2> QED
    BY <2>1, <2>2
<1> QED
  BY <1>1, <1>2, PTL DEF Migrate!Spec

\* An "up" that is through with ClickHouse leaves no migration out.
LEMMA UpIsWhole ==
  ASSUME Migrate!MigrationsAssumption
  PROVE  Migrate!Spec => Migrate!UpBringsBoth
<1>1. Migrate!TypeOK /\ LastGroup /\ Migrate!UpInv /\ [Migrate!Next]_(Migrate!vars)
        => [\A o \in Operator :
              command[o] = "up" /\ Migrate!Succeed(o, "ch") =>
                 \A s \in Migrate!Store, m \in 1..ver[o] :
                    applied'[s][m] > 0 /\ (m \in has'[s] \/ m \in unrun'[s])]_(Migrate!vars)
  <2> SUFFICES ASSUME Migrate!TypeOK, LastGroup, Migrate!UpInv,
                      NEW o \in Operator, command[o] = "up", Migrate!Succeed(o, "ch"),
                      NEW s \in Migrate!Store, NEW m \in 1..ver[o]
               PROVE  applied'[s][m] > 0 /\ (m \in has'[s] \/ m \in unrun'[s])
    OBVIOUS
  <2>1. /\ opAt[o] = <<"mark", "ch">> /\ todo[o] = {}
        /\ UNCHANGED <<applied, has, unrun>>
    BY DEF Migrate!Succeed, Migrate!schema
  <2>2. Migrate!BehindPostgres(o)
    BY <2>1 DEF Migrate!BehindPostgres, Migrate!Changing
  <2>3. applied["pg"][m] > 0 /\ applied["ch"][m] > 0
    BY <2>1, <2>2 DEF Migrate!UpInv, Migrate!PostgresUp, Migrate!ListedUp, Migrate!Store
  <2>4. m \in Migrate!Migration
    BY VersionsTyped DEF Migrate!TypeOK
  <2>5. applied[s][m] > 0
    BY <2>3 DEF Migrate!Store
  <2> QED
    BY <2>1, <2>4, <2>5 DEF Migrate!UpInv, Migrate!MarksStand, Migrate!Stands
<1> QED
  BY <1>1, MigrationsCorrect, PTL DEF Migrate!Spec, Migrate!UpBringsBoth

\* When a command "up" has gone through both stores, every migration it ships
\* is marked in both, and in the schema of both but for those marked without an
\* Up that ended, by markApplied or by an "up" that failed or died: for any
\* number of operators and versions, whatever they run at the same time,
\* wherever a call fails or a process dies, and although nothing spans the two
\* stores.  A "down" unmarks only behind the lock of the store, which an "up"
\* holds until it returns, and a Down that is overtaken by markApplied leaves
\* a mark without an Up.
THEOREM BothAreUp ==
  PartsSpec => UpBringsBoth
<1>1. Migrate!MigrationsAssumption
  BY PartsAssumption
<1> QED
  BY <1>1, EachIsPart, UpIsWhole, PTL DEF UpBringsBoth

-----------------------------------------------------------------------------
\* The fetch of a block.

\* The sizes of sets are those of the library.
LEMMA FetchSizes ==
  \A S : Fetch!Cardinality(S) = Cardinality(S)
  BY DEF Fetch!Cardinality, Cardinality

\* A transaction is of one block.
LEMMA TxsTyped ==
  ASSUME Fetch!FetchAssumption
  PROVE  /\ \A b \in ChainBlock : TxsOf[b] \in Seq(Fetch!Tx)
         /\ \A b \in ChainBlock : \A t \in Fetch!Range(TxsOf[b]) : t \in Fetch!Tx /\ Fetch!BlockOf(t) = b
         /\ \A t \in Fetch!Tx : Fetch!BlockOf(t) \in ChainBlock /\ t \in Fetch!Range(TxsOf[Fetch!BlockOf(t)])
         /\ \A t \in Fetch!Tx : Fetch!Kind(t) \in {"active", "uninit", "absent", "skipped"}
<1>1. TxsOf \in [ChainBlock -> Seq(DOMAIN AccountOf)]
  BY DEF Fetch!FetchAssumption
<1>2. \A b \in ChainBlock : DOMAIN TxsOf[b] = 1..Len(TxsOf[b]) /\ Len(TxsOf[b]) \in Nat
  BY <1>1
<1>3. \A b \in ChainBlock : \A t \in Fetch!Range(TxsOf[b]) : t \in Fetch!Tx
  BY DEF Fetch!Tx
<1>4. \A t \in Fetch!Tx : \E b \in ChainBlock : t \in Fetch!Range(TxsOf[b])
  BY DEF Fetch!Tx
<1>5. \A t \in Fetch!Tx : Fetch!BlockOf(t) \in ChainBlock /\ t \in Fetch!Range(TxsOf[Fetch!BlockOf(t)])
  BY <1>4 DEF Fetch!BlockOf
<1>6. \A b \in ChainBlock : \A t \in Fetch!Range(TxsOf[b]) : Fetch!BlockOf(t) = b
  BY <1>3, <1>5 DEF Fetch!FetchAssumption
<1>7. \A b \in ChainBlock : \A i \in DOMAIN TxsOf[b] : TxsOf[b][i] \in DOMAIN AccountOf
  BY <1>1
<1>8. \A t \in Fetch!Tx : t \in DOMAIN AccountOf
  BY <1>4, <1>7 DEF Fetch!Range
<1>9. \A b \in ChainBlock : TxsOf[b] \in Seq(Fetch!Tx)
  <2> SUFFICES ASSUME NEW b \in ChainBlock PROVE TxsOf[b] \in Seq(Fetch!Tx)
    OBVIOUS
  <2>1. TxsOf[b] \in Seq(DOMAIN AccountOf)
    BY <1>1
  <2>2. \A i \in 1..Len(TxsOf[b]) : TxsOf[b][i] \in Fetch!Tx
    BY <1>2, <1>3 DEF Fetch!Range
  <2> QED
    BY <2>1, <2>2
<1>10. \A t \in Fetch!Tx : Fetch!Kind(t) \in {"active", "uninit", "absent", "skipped"}
  BY <1>8 DEF Fetch!FetchAssumption, Fetch!Kind
<1> QED
  BY <1>3, <1>5, <1>6, <1>9, <1>10

\* A set that is numbered without repetition has as many elements as numbers.

LEMMA ImageSize ==
  ASSUME NEW a \in Nat, NEW n \in Nat, NEW f, NEW T,
         \A i \in a..n : f[i] \in T, \A t \in T : \E i \in a..n : t = f[i],
         \A i, j \in a..n : f[i] = f[j] => i = j
  PROVE  IsFiniteSet(T) /\ Cardinality(T) = IF a > n THEN 0 ELSE n - a + 1
<1> DEFINE g == [i \in a..n |-> f[i]]
<1>1. g \in Surjection(a..n, T)
  BY DEF Surjection
<1>2. g \in Injection(a..n, T)
  BY DEF Injection, IsInjective
<1>3. IsFiniteSet(a..n) /\ Cardinality(a..n) = IF a > n THEN 0 ELSE n - a + 1
  BY FS_Interval
<1> HIDE DEF g
<1> QED
  BY <1>1, <1>2, <1>3, FS_Surjection

\* The same for the numbers from 1.
LEMMA NumberedFromOne ==
  ASSUME NEW n \in Nat, NEW f, NEW T,
         \A i \in 1..n : f[i] \in T, \A t \in T : \E i \in 1..n : t = f[i],
         \A i, j \in 1..n : f[i] = f[j] => i = j
  PROVE  IsFiniteSet(T) /\ Cardinality(T) = n
<1>1. 1 \in Nat
  OBVIOUS
<1>2. IsFiniteSet(T) /\ Cardinality(T) = IF 1 > n THEN 0 ELSE n - 1 + 1
  BY <1>1, ImageSize, Zenon
<1> QED
  BY <1>2

\* A page is what comes after the last one, up to its size.
LEMMA PageIs ==
  ASSUME Fetch!FetchAssumption, NEW b \in ChainBlock,
         after[b] \in Nat, after[b] <= Len(TxsOf[b])
  PROVE  LET n == Cardinality(Fetch!Page(b))
         IN  /\ n \in Nat /\ after[b] + n <= Len(TxsOf[b])
             /\ Fetch!Page(b) \subseteq Fetch!Range(TxsOf[b])
             /\ \A i \in DOMAIN TxsOf[b] :
                   TxsOf[b][i] \in Fetch!Page(b) <=> after[b] < i /\ i <= after[b] + n
             /\ Fetch!Page(b) = {} => n = 0 /\ after[b] = Len(TxsOf[b])
<1> DEFINE txs == TxsOf[b]
           l == Len(txs)
           a == after[b]
           last == IF a + PageSize <= l THEN a + PageSize ELSE l
<1>1. /\ DOMAIN txs = 1..l /\ l \in Nat /\ a \in Nat /\ a <= l
      /\ PageSize \in Nat \ {0}
      /\ \A i, j \in DOMAIN txs : txs[i] = txs[j] => i = j
  BY DEF Fetch!FetchAssumption, Fetch!IsInjective
<1>2. last \in Nat /\ a <= last /\ last <= l /\ (a = last => a = l)
  BY <1>1
<1>3. {j \in DOMAIN txs : a < j /\ j <= a + PageSize} = (a + 1)..last
  BY <1>1
<1>4. Fetch!Page(b) = {txs[i] : i \in (a + 1)..last}
  BY <1>3 DEF Fetch!Page
<1> HIDE DEF txs, l, a, last
<1>5. (a + 1)..last \subseteq DOMAIN txs /\ a + 1 \in Nat
  BY <1>1, <1>2
<1>6. Cardinality(Fetch!Page(b)) = IF a + 1 > last THEN 0 ELSE last - (a + 1) + 1
  <2>1. \A i, j \in (a + 1)..last : txs[i] = txs[j] => i = j
    BY <1>1, <1>5
  <2>2. /\ \A i \in (a + 1)..last : txs[i] \in Fetch!Page(b)
        /\ \A t \in Fetch!Page(b) : \E i \in (a + 1)..last : t = txs[i]
    BY <1>4
  <2> QED
    BY <1>2, <1>5, <2>1, <2>2, ImageSize, Zenon
<1>7. Cardinality(Fetch!Page(b)) = last - a
  BY <1>1, <1>2, <1>6
<1>8. last - a \in Nat /\ a + (last - a) = last
  BY <1>1, <1>2
<1>9. \A i \in DOMAIN txs : txs[i] \in Fetch!Page(b) <=> a < i /\ i <= last
  BY <1>1, <1>2, <1>4, <1>5
<1>10. Fetch!Page(b) \subseteq Fetch!Range(txs)
  BY <1>4, <1>5 DEF Fetch!Range
<1>11. Fetch!Page(b) = {} => last = a
  <2>1. ASSUME a < last PROVE Fetch!Page(b) # {}
    <3>1. last \in (a + 1)..last
      BY <1>1, <1>2, <2>1
    <3> QED
      BY <1>4, <3>1
  <2> QED
    BY <1>1, <1>2, <2>1
<1>12. last - a = 0 <=> last = a
  BY <1>1, <1>2
<1> QED
  BY <1>1, <1>2, <1>7, <1>8, <1>9, <1>10, <1>11, <1>12 DEF txs, l, a

\* Entries of listed transactions, each once, are no more than were listed,
\* and are all of them if they are as many.
LEMMA AllGot ==
  ASSUME Fetch!FetchAssumption, NEW b \in ChainBlock,
         NEW a \in Nat, a <= Len(TxsOf[b]), NEW g \in Seq(Fetch!Entered),
         \A i, j \in DOMAIN g : g[i].tx = g[j].tx => i = j,
         \A i \in DOMAIN g : \E k \in 1..a : g[i].tx = TxsOf[b][k]
  PROVE  /\ Len(g) <= a
         /\ Len(g) = a => \A k \in 1..a : \E i \in DOMAIN g : g[i].tx = TxsOf[b][k]
<1> DEFINE n == Len(g)
           txs == TxsOf[b]
           f == [i \in 1..n |-> g[i].tx]
           G == {f[i] : i \in 1..n}
           L == {txs[i] : i \in 1..a}
<1>1. /\ n \in Nat /\ DOMAIN g = 1..n
      /\ DOMAIN txs = 1..Len(txs) /\ Len(txs) \in Nat
  <2>1. txs \in Seq(Fetch!Tx)
    BY TxsTyped
  <2> QED
    BY <2>1
<1>2. \A i, j \in 1..n : f[i] = f[j] => i = j
  BY <1>1
<1>3. \A i, j \in 1..a : txs[i] = txs[j] => i = j
  <2>1. \A i, j \in DOMAIN txs : txs[i] = txs[j] => i = j
    BY DEF Fetch!FetchAssumption, Fetch!IsInjective
  <2>2. 1..a \subseteq DOMAIN txs
    BY <1>1
  <2> QED
    BY <2>1, <2>2
<1>4. \A i \in 1..n : f[i] \in L
  BY <1>1
<1>5. G = L => \A k \in 1..a : \E i \in 1..n : g[i].tx = txs[k]
  <2> SUFFICES ASSUME G = L, NEW k \in 1..a PROVE \E i \in 1..n : g[i].tx = txs[k]
    OBVIOUS
  <2>1. txs[k] \in G
    OBVIOUS
  <2> QED
    BY <2>1
<1> HIDE DEF n, txs, f
<1>7. IsFiniteSet(G) /\ Cardinality(G) = n
  <2>1. /\ n \in Nat
        /\ \A i \in 1..n : f[i] \in G
        /\ \A t \in G : \E i \in 1..n : t = f[i]
    BY <1>1
  <2> HIDE DEF G
  <2> QED
    BY <1>2, <2>1, NumberedFromOne
<1>8. IsFiniteSet(L) /\ Cardinality(L) = a
  <2>1. /\ a \in Nat
        /\ \A i \in 1..a : txs[i] \in L
        /\ \A t \in L : \E i \in 1..a : t = txs[i]
    BY <1>1
  <2> HIDE DEF L
  <2> QED
    BY <1>3, <2>1, NumberedFromOne
<1>9. G \subseteq L
  BY <1>4
<1> HIDE DEF G, L
<1>10. n <= a /\ (n = a => G = L)
  BY <1>7, <1>8, <1>9, FS_Subset
<1> QED
  BY <1>1, <1>5, <1>10 DEF n, txs

\* The steps of the goroutines are typed.
LEMMA FetchTyped ==
  ASSUME Fetch!FetchAssumption, Fetch!TypeOK, Fetch!ListedInv,
         [Fetch!Next]_(Fetch!vars)
  PROVE  Fetch!TypeOK'
<1>1. /\ at \in [ChainBlock -> {"ids", "collect", "done", "failed"}]
      /\ after \in [ChainBlock -> Nat]
  BY DEF Fetch!TypeOK
<1>2. /\ results \in [ChainBlock -> Seq(Fetch!Result)]
      /\ got \in [ChainBlock -> Seq(Fetch!Entered)]
  BY DEF Fetch!TypeOK
<1>3. /\ reader \in [Fetch!Tx -> {"off", "both", "tx", "tx only", "acc", "done", "failed"}]
      /\ txAt \in [Fetch!Tx -> {"off", "call", "value", "error", "done"}]
      /\ accAt \in [Fetch!Tx -> {"off", "cache", "account", "libraries", "state", "none",
                           "error", "done"}]
  BY DEF Fetch!TypeOK
<1>4. /\ cached \subseteq ChainBlock \X Fetch!Owner /\ libs \subseteq Fetch!Owner
      /\ cleared \in BOOLEAN /\ fetchFaults \in Nat
  BY DEF Fetch!TypeOK
<1>5. ASSUME NEW b \in ChainBlock, Fetch!FetchIds(b) PROVE Fetch!TypeOK'
  <2>1. after[b] + Cardinality(Fetch!Page(b)) \in Nat
    <3>1. after[b] \in Nat /\ after[b] <= Len(TxsOf[b])
      BY <1>1 DEF Fetch!ListedInv
    <3>2. Cardinality(Fetch!Page(b)) \in Nat
      BY <3>1, PageIs
    <3> QED
      BY <3>1, <3>2
  <2>2. after' \in [ChainBlock -> Nat]
    BY FetchSizes, <1>1, <1>5, <2>1 DEF Fetch!FetchIds
  <2>6. fetchFaults' = fetchFaults \/ fetchFaults' = fetchFaults + 1
    BY <1>5 DEF Fetch!FetchIds, Fetch!Fault
  <2>7. fetchFaults' \in Nat
    BY <1>4, <2>6
  <2>3. at' \in [ChainBlock -> {"ids", "collect", "done", "failed"}]
    BY <1>1, <1>5 DEF Fetch!FetchIds
  <2>4. /\ reader' \in [Fetch!Tx -> {"off", "both", "tx", "tx only", "acc", "done", "failed"}]
        /\ txAt' \in [Fetch!Tx -> {"off", "call", "value", "error", "done"}]
        /\ accAt' \in [Fetch!Tx -> {"off", "cache", "account", "libraries", "state",
                              "none", "error", "done"}]
    BY <1>3, <1>5 DEF Fetch!FetchIds
  <2>5. UNCHANGED <<results, got, cached, libs, cleared>>
    BY <1>5 DEF Fetch!FetchIds
  <2> QED
    BY <1>2, <1>4, <2>2, <2>3, <2>4, <2>5, <2>7 DEF Fetch!TypeOK
<1>6. ASSUME NEW b \in ChainBlock, Fetch!Collect(b) PROVE Fetch!TypeOK'
  <2>1. results[b] \in Seq(Fetch!Result) /\ results[b] # <<>>
    BY <1>2, <1>6 DEF Fetch!Collect
  <2>2. Head(results[b]) \in Fetch!Result /\ Tail(results[b]) \in Seq(Fetch!Result)
    BY <2>1
  <2>3. [tx |-> Head(results[b]).tx, state |-> Head(results[b]).state] \in Fetch!Entered
    BY <2>2 DEF Fetch!Result, Fetch!Entered
  <2>4. Append(got[b], [tx |-> Head(results[b]).tx, state |-> Head(results[b]).state])
           \in Seq(Fetch!Entered)
    BY <1>2, <2>3
  <2>5. got' \in [ChainBlock -> Seq(Fetch!Entered)]
    BY <1>2, <1>6, <2>4 DEF Fetch!Collect
  <2>6. results' \in [ChainBlock -> Seq(Fetch!Result)]
    BY <1>2, <1>6, <2>2 DEF Fetch!Collect
  <2>7. at' \in [ChainBlock -> {"ids", "collect", "done", "failed"}]
    BY <1>1, <1>6 DEF Fetch!Collect
  <2>8. UNCHANGED <<after, reader, txAt, accAt, cached, libs, cleared, fetchFaults>>
    BY <1>6 DEF Fetch!Collect
  <2> QED
    BY <1>1, <1>3, <1>4, <2>5, <2>6, <2>7, <2>8 DEF Fetch!TypeOK
<1>7. ASSUME NEW t \in Fetch!Tx, Fetch!GetTransaction(t) PROVE Fetch!TypeOK'
  <2>1. txAt' \in [Fetch!Tx -> {"off", "call", "value", "error", "done"}]
    BY <1>3, <1>7 DEF Fetch!GetTransaction
  <2>3. fetchFaults' = fetchFaults \/ fetchFaults' = fetchFaults + 1
    BY <1>7 DEF Fetch!GetTransaction, Fetch!Fault
  <2>4. fetchFaults' \in Nat
    BY <1>4, <2>3
  <2>2. UNCHANGED <<at, after, results, got, reader, accAt, cached, libs, cleared>>
    BY <1>7 DEF Fetch!GetTransaction
  <2> QED
    BY <1>1, <1>2, <1>3, <1>4, <2>1, <2>2, <2>4 DEF Fetch!TypeOK
<1>8. ASSUME NEW t \in Fetch!Tx, Fetch!FetchAccount(t) PROVE Fetch!TypeOK'
  <2>1. Fetch!Entry(t) \in ChainBlock \X Fetch!Owner /\ AccountOf[t] \in Fetch!Owner
    BY TxsTyped DEF Fetch!Entry, Fetch!Owner
  <2>2. accAt' \in [Fetch!Tx -> {"off", "cache", "account", "libraries", "state",
                           "none", "error", "done"}]
    BY <1>3, <1>8
    DEF Fetch!FetchAccount, Fetch!LookInCache, Fetch!GetAccount,
        Fetch!GetLibraries, Fetch!GoOn
  <2>3. cached' \subseteq ChainBlock \X Fetch!Owner /\ cleared' \in BOOLEAN
    BY <1>4, <1>8, <2>1
    DEF Fetch!FetchAccount, Fetch!LookInCache, Fetch!GetAccount,
        Fetch!GetLibraries, Fetch!Remember
  <2>5. libs' \subseteq Fetch!Owner
    BY <1>4, <1>8, <2>1
    DEF Fetch!FetchAccount, Fetch!LookInCache, Fetch!GetAccount,
        Fetch!GetLibraries
  <2>6. fetchFaults' = fetchFaults \/ fetchFaults' = fetchFaults + 1
    BY <1>8
    DEF Fetch!FetchAccount, Fetch!LookInCache, Fetch!GetAccount,
        Fetch!GetLibraries, Fetch!Fault
  <2>7. fetchFaults' \in Nat
    BY <1>4, <2>6
  <2>4. UNCHANGED <<at, after, results, got, reader, txAt>>
    BY <1>8
    DEF Fetch!FetchAccount, Fetch!LookInCache, Fetch!GetAccount,
        Fetch!GetLibraries
  <2> QED
    BY <1>1, <1>2, <1>3, <2>2, <2>3, <2>4, <2>5, <2>7 DEF Fetch!TypeOK
<1>9. ASSUME NEW t \in Fetch!Tx, Fetch!Await(t) PROVE Fetch!TypeOK'
  <2>1. Fetch!BlockOf(t) \in ChainBlock
    BY TxsTyped
  <2>2. ASSUME NEW ok \in BOOLEAN, NEW state \in BOOLEAN,
               Fetch!Deliver(t, ok, state)
        PROVE  results' \in [ChainBlock -> Seq(Fetch!Result)]
    <3>1. [tx |-> t, ok |-> ok, state |-> state] \in Fetch!Result
      BY DEF Fetch!Result
    <3>2. Append(results[Fetch!BlockOf(t)], [tx |-> t, ok |-> ok, state |-> state])
             \in Seq(Fetch!Result)
      BY <1>2, <2>1, <3>1
    <3> QED
      BY <1>2, <2>2, <3>2 DEF Fetch!Deliver
  <2>3. results' \in [ChainBlock -> Seq(Fetch!Result)]
    BY <1>2, <1>9, <2>2
    DEF Fetch!Await, Fetch!ReceiveAccount, Fetch!ReceiveTx, Fetch!Receive
  <2>4. reader' \in [Fetch!Tx -> {"off", "both", "tx", "tx only", "acc", "done", "failed"}]
    BY <1>3, <1>9
    DEF Fetch!Await, Fetch!ReceiveAccount, Fetch!ReceiveTx, Fetch!Receive
  <2>5. /\ txAt' \in [Fetch!Tx -> {"off", "call", "value", "error", "done"}]
        /\ accAt' \in [Fetch!Tx -> {"off", "cache", "account", "libraries", "state",
                              "none", "error", "done"}]
    BY <1>3, <1>9 DEF Fetch!Await, Fetch!ReceiveAccount, Fetch!ReceiveTx, Fetch!GoOn
  <2>6. UNCHANGED <<at, after, got, cached, libs, cleared, fetchFaults>>
    BY <1>9 DEF Fetch!Await, Fetch!ReceiveAccount, Fetch!ReceiveTx
  <2> QED
    BY <1>1, <1>2, <1>4, <2>3, <2>4, <2>5, <2>6 DEF Fetch!TypeOK
<1>10. CASE UNCHANGED Fetch!vars
  BY <1>1, <1>2, <1>3, <1>4, <1>10 DEF Fetch!vars, Fetch!TypeOK
<1> QED
  BY <1>5, <1>6, <1>7, <1>8, <1>9, <1>10 DEF Fetch!Next, Fetch!FetchBlock

\* What asking for a page does: it fails, or each of its transactions, not
\* listed before, gets its goroutines.
LEMMA FetchIdsIs ==
  ASSUME Fetch!FetchAssumption, Fetch!TypeOK, Fetch!ListedInv, NEW b \in ChainBlock,
         Fetch!FetchIds(b)
  PROVE  /\ at[b] = "ids" /\ UNCHANGED <<results, got, cached>>
         /\ \A c \in ChainBlock \ {b} : at'[c] = at[c] /\ after'[c] = after[c]
         /\ fetchFaults' \in {fetchFaults, fetchFaults + 1}
         /\ \/ at'[b] = "failed" /\ UNCHANGED <<after, reader, txAt, accAt>>
            \/ /\ at'[b] \in {"collect", "done"}
               /\ at'[b] = "done" => after'[b] = after[b] /\ after[b] = Len(TxsOf[b])
               /\ after'[b] \in Nat /\ after[b] <= after'[b]
               /\ after'[b] <= Len(TxsOf[b])
               /\ \A i \in DOMAIN TxsOf[b] :
                     TxsOf[b][i] \in Fetch!Page(b) <=> after[b] < i /\ i <= after'[b]
               /\ \A t \in Fetch!Tx \ Fetch!Page(b) : /\ reader'[t] = reader[t]
                                                      /\ txAt'[t] = txAt[t] /\ accAt'[t] = accAt[t]
               /\ \A t \in Fetch!Page(b) : /\ t \in Fetch!Tx /\ Fetch!BlockOf(t) = b
                                           /\ reader[t] = "off" /\ reader'[t] = "both"
                                           /\ txAt'[t] = "call" /\ accAt'[t] = "cache"
<1> DEFINE n == Cardinality(Fetch!Page(b))
<1>1. /\ after \in [ChainBlock -> Nat]
      /\ at \in [ChainBlock -> {"ids", "collect", "done", "failed"}]
  BY DEF Fetch!TypeOK
<1>2. after[b] \in Nat /\ after[b] <= Len(TxsOf[b])
  BY <1>1 DEF Fetch!ListedInv
<1>3. /\ n \in Nat /\ after[b] + n <= Len(TxsOf[b])
      /\ Fetch!Page(b) \subseteq Fetch!Range(TxsOf[b])
      /\ \A i \in DOMAIN TxsOf[b] :
            TxsOf[b][i] \in Fetch!Page(b) <=> after[b] < i /\ i <= after[b] + n
      /\ Fetch!Page(b) = {} => n = 0 /\ after[b] = Len(TxsOf[b])
  BY <1>2, PageIs
<1>4. \A t \in Fetch!Page(b) : t \in Fetch!Tx /\ Fetch!BlockOf(t) = b /\ reader[t] = "off"
  <2> SUFFICES ASSUME NEW t \in Fetch!Page(b)
               PROVE  t \in Fetch!Tx /\ Fetch!BlockOf(t) = b /\ reader[t] = "off"
    OBVIOUS
  <2>1. PICK i \in DOMAIN TxsOf[b] : t = TxsOf[b][i]
    BY <1>3 DEF Fetch!Range
  <2>2. i > after[b]
    <3>1. i \in Nat
      BY <2>1, TxsTyped
    <3>2. after[b] < i
      BY <1>3, <2>1
    <3> QED
      BY <1>2, <3>1, <3>2
  <2> QED
    BY <1>3, <2>1, <2>2, TxsTyped DEF Fetch!ListedInv
<1> HIDE DEF n
<1>5. CASE at' = [at EXCEPT ![b] = "failed"] /\ UNCHANGED <<after, reader, txAt, accAt>>
  <2>1. at'[b] = "failed" /\ \A c \in ChainBlock \ {b} : at'[c] = at[c]
    BY <1>1, <1>5
  <2>2. \A c \in ChainBlock \ {b} : after'[c] = after[c]
    BY <1>5
  <2>3. /\ at[b] = "ids" /\ UNCHANGED <<results, got, cached>>
        /\ fetchFaults' \in {fetchFaults, fetchFaults + 1}
    BY DEF Fetch!FetchIds, Fetch!Fault
  <2> QED
    BY <1>5, <2>1, <2>2, <2>3
<1>6. CASE /\ after' = [after EXCEPT ![b] = @ + Cardinality(Fetch!Page(b))]
           /\ reader' = [t \in Fetch!Tx |-> IF t \in Fetch!Page(b) THEN "both" ELSE reader[t]]
           /\ txAt' = [t \in Fetch!Tx |-> IF t \in Fetch!Page(b) THEN "call" ELSE txAt[t]]
           /\ accAt' = [t \in Fetch!Tx |-> IF t \in Fetch!Page(b) THEN "cache" ELSE accAt[t]]
           /\ at' = [at EXCEPT ![b] = IF Fetch!Page(b) = {} THEN "done" ELSE "collect"]
  <2>1. /\ at'[b] = (IF Fetch!Page(b) = {} THEN "done" ELSE "collect")
        /\ \A c \in ChainBlock \ {b} : at'[c] = at[c]
    BY <1>1, <1>6
  <2>2. after'[b] = after[b] + n /\ \A c \in ChainBlock \ {b} : after'[c] = after[c]
    BY <1>1, <1>6 DEF n
  <2>3. after'[b] \in Nat /\ after[b] <= after'[b] /\ after'[b] <= Len(TxsOf[b])
    BY <1>2, <1>3, <2>2
  <2>4. at'[b] = "done" => after'[b] = after[b] /\ after[b] = Len(TxsOf[b])
    BY <1>2, <1>3, <2>1, <2>2
  <2>5. \A t \in Fetch!Tx : IF t \in Fetch!Page(b)
                      THEN reader'[t] = "both" /\ txAt'[t] = "call" /\ accAt'[t] = "cache"
                      ELSE /\ reader'[t] = reader[t]
                           /\ txAt'[t] = txAt[t] /\ accAt'[t] = accAt[t]
    BY <1>6
  <2>6. /\ at[b] = "ids" /\ UNCHANGED <<results, got, cached>>
        /\ fetchFaults' \in {fetchFaults, fetchFaults + 1}
    BY DEF Fetch!FetchIds, Fetch!Fault
  <2>7. at'[b] \in {"collect", "done"}
    BY <2>1
  <2>8. \A i \in DOMAIN TxsOf[b] :
            TxsOf[b][i] \in Fetch!Page(b) <=> after[b] < i /\ i <= after'[b]
    BY <1>3, <2>2
  <2> QED
    BY <1>4, <2>1, <2>2, <2>3, <2>4, <2>5, <2>6, <2>7, <2>8
<1> QED
  BY FetchSizes, <1>5, <1>6 DEF Fetch!FetchIds

\* A transaction is listed once.
LEMMA ListedKept ==
  ASSUME Fetch!FetchAssumption, Fetch!TypeOK, Fetch!ListedInv,
         [Fetch!Next]_(Fetch!vars)
  PROVE  Fetch!ListedInv'
<1>1. \A c \in ChainBlock : \A i \in DOMAIN TxsOf[c] :
         i \in Nat /\ TxsOf[c][i] \in Fetch!Tx /\ Fetch!BlockOf(TxsOf[c][i]) = c
  <2>1. \A c \in ChainBlock : TxsOf[c] \in Seq(Fetch!Tx)
    BY TxsTyped
  <2>2. \A c \in ChainBlock : \A i \in DOMAIN TxsOf[c] : TxsOf[c][i] \in Fetch!Range(TxsOf[c])
    BY DEF Fetch!Range
  <2> QED
    BY <2>1, <2>2, TxsTyped
<1>2. CASE after' = after /\ \A t \in Fetch!Tx : reader[t] = "off" => reader'[t] = "off"
  BY <1>1, <1>2 DEF Fetch!ListedInv
<1>3. ASSUME NEW b \in ChainBlock, Fetch!FetchIds(b) PROVE Fetch!ListedInv'
  <2>1. CASE UNCHANGED <<after, reader>>
    BY <1>2, <2>1
  <2>2. CASE ~UNCHANGED <<after, reader>>
    <3>0. after[b] \in Nat
      BY DEF Fetch!TypeOK
    <3>1. /\ after'[b] \in Nat /\ after[b] <= after'[b]
          /\ after'[b] <= Len(TxsOf[b])
          /\ \A c \in ChainBlock \ {b} : after'[c] = after[c]
          /\ \A i \in DOMAIN TxsOf[b] :
                TxsOf[b][i] \in Fetch!Page(b) <=> after[b] < i /\ i <= after'[b]
          /\ \A t \in Fetch!Tx \ Fetch!Page(b) : reader'[t] = reader[t]
          /\ \A t \in Fetch!Page(b) : Fetch!BlockOf(t) = b
      BY <1>3, <2>2, FetchIdsIs
    <3>2. ASSUME NEW c \in ChainBlock, NEW i \in DOMAIN TxsOf[c], i > after'[c]
          PROVE  reader'[TxsOf[c][i]] = "off"
      <4>1. TxsOf[c][i] \notin Fetch!Page(b) /\ i > after[c]
        BY <1>1, <3>0, <3>1, <3>2
      <4> QED
        BY <1>1, <3>1, <4>1 DEF Fetch!ListedInv
    <3>3. \A c \in ChainBlock : after'[c] <= Len(TxsOf[c])
      BY <3>1 DEF Fetch!ListedInv
    <3> QED
      BY <3>2, <3>3 DEF Fetch!ListedInv
  <2> QED
    BY <2>1, <2>2
<1>4. ASSUME NEW b \in ChainBlock, Fetch!Collect(b) PROVE Fetch!ListedInv'
  BY <1>2, <1>4 DEF Fetch!Collect
<1>5. ASSUME NEW t \in Fetch!Tx,
             Fetch!GetTransaction(t) \/ Fetch!FetchAccount(t)
      PROVE  Fetch!ListedInv'
  BY <1>2, <1>5
  DEF Fetch!GetTransaction, Fetch!FetchAccount, Fetch!LookInCache,
      Fetch!GetAccount, Fetch!GetLibraries
<1>6. ASSUME NEW t \in Fetch!Tx, Fetch!Await(t) PROVE Fetch!ListedInv'
  <2>1. after' = after /\ reader[t] # "off"
    BY <1>6 DEF Fetch!Await, Fetch!ReceiveAccount, Fetch!ReceiveTx
  <2>2. \A u \in Fetch!Tx : u # t => reader'[u] = reader[u]
    BY <1>6
    DEF Fetch!Await, Fetch!ReceiveAccount, Fetch!ReceiveTx, Fetch!Receive,
        Fetch!TypeOK
  <2> QED
    BY <1>2, <2>1, <2>2
<1>7. CASE UNCHANGED Fetch!vars
  BY <1>2, <1>7 DEF Fetch!vars
<1> QED
  BY <1>3, <1>4, <1>5, <1>6, <1>7 DEF Fetch!Next, Fetch!FetchBlock

\* What a receive does: the reader waits for the other channel, or ends with
\* a result that says whether the account has a state.
LEMMA AwaitIs ==
  ASSUME Fetch!FetchAssumption, Fetch!TypeOK, Fetch!AccountInv,
         NEW t \in Fetch!Tx, Fetch!Await(t)
  PROVE  /\ UNCHANGED <<at, after, got, cached, fetchFaults>>
         /\ reader[t] \notin {"off", "done", "failed"}
         /\ \A u \in Fetch!Tx \ {t} : /\ reader'[u] = reader[u]
                                      /\ txAt'[u] = txAt[u] /\ accAt'[u] = accAt[u]
         /\ txAt'[t] \in {txAt[t], "done"} /\ accAt'[t] \in {accAt[t], "done"}
         /\ reader'[t] = "tx" => Fetch!HasState(t)
         /\ reader'[t] = "tx only" => ~Fetch!HasState(t)
         /\ reader'[t] = "failed" => fetchFaults > 0
         /\ \/ reader'[t] \in {"tx", "tx only", "acc"} /\ UNCHANGED results
            \/ reader'[t] = "failed" /\ Fetch!Deliver(t, FALSE, FALSE)
            \/ reader'[t] = "done" /\ Fetch!Deliver(t, TRUE, Fetch!HasState(t))
<1>1. /\ reader \in [Fetch!Tx -> {"off", "both", "tx", "tx only", "acc", "done", "failed"}]
      /\ txAt \in [Fetch!Tx -> {"off", "call", "value", "error", "done"}]
      /\ accAt \in [Fetch!Tx -> {"off", "cache", "account", "libraries", "state", "none",
                           "error", "done"}]
  BY DEF Fetch!TypeOK
<1>2. /\ accAt[t] = "state" \/ reader[t] = "tx" => Fetch!HasState(t)
      /\ accAt[t] = "none" \/ reader[t] = "tx only" => ~Fetch!HasState(t)
      /\ "error" \in {txAt[t], accAt[t]} => fetchFaults > 0
  BY DEF Fetch!AccountInv
<1>3. Fetch!HasState(t) \in BOOLEAN
  BY DEF Fetch!HasState
<1>4. CASE Fetch!ReceiveAccount(t)
  <2>1. /\ UNCHANGED <<at, after, got, cached, fetchFaults>>
        /\ reader[t] \in {"both", "acc"} /\ accAt[t] \in {"state", "none", "error"}
        /\ txAt' = txAt /\ accAt' = [accAt EXCEPT ![t] = "done"]
    BY <1>4 DEF Fetch!ReceiveAccount, Fetch!GoOn
  <2>2. accAt'[t] = "done" /\ \A u \in Fetch!Tx \ {t} : accAt'[u] = accAt[u]
    BY <1>1, <2>1
  <2>3. CASE accAt[t] = "error"
    <3>1. reader' = [reader EXCEPT ![t] = "failed"] /\ Fetch!Deliver(t, FALSE, FALSE)
      BY <1>4, <2>3 DEF Fetch!ReceiveAccount, Fetch!Receive, Fetch!Fatal
    <3>2. reader'[t] = "failed" /\ \A u \in Fetch!Tx \ {t} : reader'[u] = reader[u]
      BY <1>1, <3>1
    <3> QED
      BY <1>2, <2>1, <2>2, <2>3, <3>1, <3>2
  <2>4. CASE accAt[t] # "error" /\ reader[t] = "both"
    <3>1. /\ reader' = [reader EXCEPT ![t] =
                           IF accAt[t] = "state" THEN "tx" ELSE "tx only"]
          /\ UNCHANGED results
      BY <1>4, <2>4 DEF Fetch!ReceiveAccount, Fetch!Receive, Fetch!Fatal
    <3>2. /\ reader'[t] = (IF accAt[t] = "state" THEN "tx" ELSE "tx only")
          /\ \A u \in Fetch!Tx \ {t} : reader'[u] = reader[u]
      BY <1>1, <3>1
    <3>3. /\ reader'[t] \in {"tx", "tx only"}
          /\ reader'[t] = "tx" => Fetch!HasState(t)
          /\ reader'[t] = "tx only" => ~Fetch!HasState(t)
      BY <1>2, <2>1, <2>4, <3>2
    <3> QED
      BY <2>1, <2>2, <2>4, <3>1, <3>2, <3>3
  <2>5. CASE accAt[t] # "error" /\ reader[t] # "both"
    <3>1. /\ reader' = [reader EXCEPT ![t] = "done"]
          /\ Fetch!Deliver(t, TRUE, accAt[t] = "state")
      BY <1>4, <2>5 DEF Fetch!ReceiveAccount, Fetch!Receive, Fetch!Fatal
    <3>2. reader'[t] = "done" /\ \A u \in Fetch!Tx \ {t} : reader'[u] = reader[u]
      BY <1>1, <3>1
    <3>3. (accAt[t] = "state") = Fetch!HasState(t)
      BY <1>2, <1>3, <2>1, <2>5
    <3>4. Fetch!Deliver(t, TRUE, Fetch!HasState(t))
      BY <3>1, <3>3
    <3> QED
      BY <2>1, <2>2, <2>5, <3>2, <3>4
  <2> QED
    BY <2>3, <2>4, <2>5
<1>5. CASE Fetch!ReceiveTx(t)
  <2>1. /\ UNCHANGED <<at, after, got, cached, fetchFaults>>
        /\ reader[t] \in {"both", "tx", "tx only"} /\ txAt[t] \in {"value", "error"}
        /\ accAt' = accAt /\ txAt' = [txAt EXCEPT ![t] = "done"]
    BY <1>5 DEF Fetch!ReceiveTx
  <2>2. txAt'[t] = "done" /\ \A u \in Fetch!Tx \ {t} : txAt'[u] = txAt[u]
    BY <1>1, <2>1
  <2>3. CASE txAt[t] = "error"
    <3>1. reader' = [reader EXCEPT ![t] = "failed"] /\ Fetch!Deliver(t, FALSE, FALSE)
      BY <1>5, <2>3 DEF Fetch!ReceiveTx, Fetch!Receive
    <3>2. reader'[t] = "failed" /\ \A u \in Fetch!Tx \ {t} : reader'[u] = reader[u]
      BY <1>1, <3>1
    <3> QED
      BY <1>2, <2>1, <2>2, <2>3, <3>1, <3>2
  <2>4. CASE txAt[t] # "error" /\ reader[t] = "both"
    <3>1. reader' = [reader EXCEPT ![t] = "acc"] /\ UNCHANGED results
      BY <1>5, <2>4 DEF Fetch!ReceiveTx, Fetch!Receive
    <3>2. reader'[t] = "acc" /\ \A u \in Fetch!Tx \ {t} : reader'[u] = reader[u]
      BY <1>1, <3>1
    <3> QED
      BY <1>2, <2>1, <2>2, <2>4, <3>1, <3>2
  <2>5. CASE txAt[t] # "error" /\ reader[t] # "both"
    <3>1. /\ reader' = [reader EXCEPT ![t] = "done"]
          /\ Fetch!Deliver(t, TRUE, reader[t] = "tx")
      BY <1>5, <2>5 DEF Fetch!ReceiveTx, Fetch!Receive
    <3>2. reader'[t] = "done" /\ \A u \in Fetch!Tx \ {t} : reader'[u] = reader[u]
      BY <1>1, <3>1
    <3>3. (reader[t] = "tx") = Fetch!HasState(t)
      BY <1>2, <1>3, <2>1, <2>5
    <3>4. Fetch!Deliver(t, TRUE, Fetch!HasState(t))
      BY <3>1, <3>3
    <3> QED
      BY <2>1, <2>2, <2>5, <3>2, <3>4
  <2> QED
    BY <2>3, <2>4, <2>5
<1> QED
  BY <1>4, <1>5 DEF Fetch!Await

\* No state is made up or lost on the way to its reader.
LEMMA AccountKept ==
  ASSUME Fetch!FetchAssumption, Fetch!TypeOK, Fetch!ListedInv, Fetch!AccountInv,
         [Fetch!Next]_(Fetch!vars)
  PROVE  Fetch!AccountInv'
<1>1. /\ txAt \in [Fetch!Tx -> {"off", "call", "value", "error", "done"}]
      /\ accAt \in [Fetch!Tx -> {"off", "cache", "account", "libraries", "state", "none",
                           "error", "done"}]
      /\ fetchFaults \in Nat
  BY DEF Fetch!TypeOK
<1>2. ASSUME NEW b \in ChainBlock, Fetch!FetchIds(b) PROVE Fetch!AccountInv'
  <2>1. fetchFaults' \in {fetchFaults, fetchFaults + 1} /\ cached' = cached
    BY <1>2, FetchIdsIs
  <2>2. \A t \in Fetch!Tx : \/ /\ reader'[t] = reader[t]
                               /\ txAt'[t] = txAt[t] /\ accAt'[t] = accAt[t]
                            \/ reader'[t] = "both" /\ txAt'[t] = "call" /\ accAt'[t] = "cache"
    BY <1>2, FetchIdsIs
  <2>3. fetchFaults > 0 => fetchFaults' > 0
    BY <1>1, <2>1
  <2> QED
    BY <2>1, <2>2, <2>3 DEF Fetch!AccountInv, Fetch!HasState
<1>3. ASSUME NEW b \in ChainBlock, Fetch!Collect(b) PROVE Fetch!AccountInv'
  BY <1>3 DEF Fetch!Collect, Fetch!AccountInv
<1>4. ASSUME NEW t \in Fetch!Tx, Fetch!GetTransaction(t) PROVE Fetch!AccountInv'
  <2>1. UNCHANGED <<reader, accAt, cached>>
    BY <1>4 DEF Fetch!GetTransaction
  <2>2. \/ txAt' = [txAt EXCEPT ![t] = "value"] /\ UNCHANGED fetchFaults
        \/ txAt' = [txAt EXCEPT ![t] = "error"] /\ fetchFaults' = fetchFaults + 1
    BY <1>4 DEF Fetch!GetTransaction, Fetch!Fault
  <2>3. \A u \in Fetch!Tx : \/ txAt'[u] = txAt[u] /\ (fetchFaults > 0 => fetchFaults' > 0)
                            \/ txAt'[u] = "value" /\ fetchFaults' = fetchFaults
                            \/ fetchFaults' > 0
    BY <1>1, <2>2
  <2> QED
    BY <2>1, <2>3 DEF Fetch!AccountInv
<1>5. ASSUME NEW t \in Fetch!Tx, Fetch!FetchAccount(t) PROVE Fetch!AccountInv'
  <2>1. UNCHANGED <<reader, txAt>>
    BY <1>5
    DEF Fetch!FetchAccount, Fetch!LookInCache, Fetch!GetAccount,
        Fetch!GetLibraries
  <2>2. \A u \in Fetch!Tx \ {t} : accAt'[u] = accAt[u]
    BY <1>1, <1>5
    DEF Fetch!FetchAccount, Fetch!LookInCache, Fetch!GetAccount,
        Fetch!GetLibraries, Fetch!GoOn
  <2>3. fetchFaults' \in {fetchFaults, fetchFaults + 1}
    BY <1>5
    DEF Fetch!FetchAccount, Fetch!LookInCache, Fetch!GetAccount,
        Fetch!GetLibraries, Fetch!Fault
  <2>4. fetchFaults > 0 => fetchFaults' > 0
    BY <1>1, <2>3
  <2>5. Fetch!Entry(t)[2] = AccountOf[t] /\ Fetch!Kind(t) = KindOf[AccountOf[t]]
    BY DEF Fetch!Entry, Fetch!Kind
  <2>6. /\ accAt'[t] \in {"libraries", "state"} => Fetch!HasState(t)
        /\ accAt'[t] = "none" => ~Fetch!HasState(t)
        /\ accAt'[t] = "error" => fetchFaults' = fetchFaults + 1
    <3>1. CASE Fetch!LookInCache(t)
      BY <1>1, <2>5, <3>1
      DEF Fetch!LookInCache, Fetch!GoOn, Fetch!HasState, Fetch!AccountInv
    <3>2. CASE Fetch!GetAccount(t)
      BY <1>1, <3>2 DEF Fetch!GetAccount, Fetch!GoOn, Fetch!Fault, Fetch!HasState
    <3>3. CASE Fetch!GetLibraries(t)
      BY <1>1, <3>3
      DEF Fetch!GetLibraries, Fetch!GoOn, Fetch!Fault, Fetch!AccountInv
    <3> QED
      BY <1>5, <3>1, <3>2, <3>3 DEF Fetch!FetchAccount
  <2>7. \A e \in cached' : KindOf[e[2]] \in {"active", "uninit"}
    <3>1. cached' \subseteq cached
          \/ (Fetch!HasState(t) /\ cached' \subseteq cached \cup {Fetch!Entry(t)})
      <4>1. CASE Fetch!LookInCache(t)
        BY <4>1 DEF Fetch!LookInCache
      <4>2. CASE Fetch!GetAccount(t)
        BY <4>2 DEF Fetch!GetAccount, Fetch!Remember, Fetch!HasState
      <4>3. CASE Fetch!GetLibraries(t)
        <5>1. Fetch!HasState(t)
          BY <4>3 DEF Fetch!GetLibraries, Fetch!AccountInv
        <5> QED
          BY <4>3, <5>1 DEF Fetch!GetLibraries, Fetch!Remember
      <4> QED
        BY <1>5, <4>1, <4>2, <4>3 DEF Fetch!FetchAccount
    <3> QED
      BY <2>5, <3>1 DEF Fetch!AccountInv, Fetch!HasState
  <2>8. accAt'[t] = "error" => fetchFaults' > 0
    BY <1>1, <2>6
  <2> QED
    BY <2>1, <2>2, <2>4, <2>6, <2>7, <2>8 DEF Fetch!AccountInv
<1>6. ASSUME NEW t \in Fetch!Tx, Fetch!Await(t) PROVE Fetch!AccountInv'
  <2>1. /\ UNCHANGED <<cached, fetchFaults>>
        /\ \A u \in Fetch!Tx \ {t} : /\ reader'[u] = reader[u]
                                     /\ txAt'[u] = txAt[u] /\ accAt'[u] = accAt[u]
        /\ txAt'[t] \in {txAt[t], "done"} /\ accAt'[t] \in {accAt[t], "done"}
        /\ reader'[t] = "tx" => Fetch!HasState(t)
        /\ reader'[t] = "tx only" => ~Fetch!HasState(t)
        /\ reader'[t] = "failed" => fetchFaults > 0
    BY <1>6, AwaitIs
  <2> QED
    BY <2>1 DEF Fetch!AccountInv
<1>7. CASE UNCHANGED Fetch!vars
  BY <1>7 DEF Fetch!vars, Fetch!AccountInv
<1> QED
  BY <1>2, <1>3, <1>4, <1>5, <1>6, <1>7 DEF Fetch!Next, Fetch!FetchBlock

\* A step that moves no result, nor a reader that has ended, keeps the results
\* in order.
LEMMA QuietKept ==
  ASSUME Fetch!FetchAssumption, Fetch!TypeOK, Fetch!ResultsInv, Fetch!GotInv,
         UNCHANGED <<results, got>>,
         \A b \in ChainBlock : at'[b] # "failed" => at[b] # "failed",
         \A t \in Fetch!Tx : reader[t] \in {"done", "failed"} => reader'[t] = reader[t]
  PROVE  Fetch!ResultsInv' /\ Fetch!GotInv'
<1>1. \A b \in ChainBlock : \A t \in Fetch!Range(TxsOf[b]) : t \in Fetch!Tx
  BY TxsTyped
<1>2. Fetch!ResultsInv'
  <2> SUFFICES ASSUME NEW b \in ChainBlock, at[b] # "failed", NEW i \in DOMAIN results[b]
               PROVE  LET r == results[b][i] IN
                      /\ r.tx \in Fetch!Range(TxsOf[b])
                      /\ reader'[r.tx] = IF r.ok THEN "done" ELSE "failed"
                      /\ r.ok => r.state = Fetch!HasState(r.tx)
    BY DEF Fetch!ResultsInv, Fetch!HasState
  <2> DEFINE r == results[b][i]
  <2>1. /\ r.tx \in Fetch!Range(TxsOf[b])
        /\ reader[r.tx] = IF r.ok THEN "done" ELSE "failed"
        /\ r.ok => r.state = Fetch!HasState(r.tx)
    BY DEF Fetch!ResultsInv
  <2>2. r.tx \in Fetch!Tx /\ reader[r.tx] \in {"done", "failed"}
    BY <1>1, <2>1
  <2>3. reader'[r.tx] = reader[r.tx]
    BY <2>2
  <2> QED
    BY <2>1, <2>3
<1>3. Fetch!GotInv'
  <2> SUFFICES ASSUME NEW b \in ChainBlock, at[b] # "failed", NEW i \in DOMAIN got[b]
               PROVE  reader'[got[b][i].tx] = "done"
    BY DEF Fetch!GotInv, Fetch!HasState
  <2>1. got[b][i].tx \in Fetch!Range(TxsOf[b]) /\ reader[got[b][i].tx] = "done"
    BY DEF Fetch!GotInv
  <2> QED
    BY <1>1, <2>1
<1> QED
  BY <1>2, <1>3

\* What a receive adds is the first result of its reader.
LEMMA ReceiveKept ==
  ASSUME Fetch!FetchAssumption, Fetch!TypeOK, Fetch!FetchInv,
         NEW t \in Fetch!Tx, Fetch!Await(t)
  PROVE  Fetch!ResultsInv' /\ Fetch!GotInv'
<1>1. /\ UNCHANGED <<at, got>>
      /\ reader[t] \notin {"off", "done", "failed"}
      /\ \A u \in Fetch!Tx \ {t} : reader'[u] = reader[u]
      /\ \/ reader'[t] \in {"tx", "tx only", "acc"} /\ UNCHANGED results
         \/ reader'[t] = "failed" /\ Fetch!Deliver(t, FALSE, FALSE)
         \/ reader'[t] = "done" /\ Fetch!Deliver(t, TRUE, Fetch!HasState(t))
  BY AwaitIs DEF Fetch!FetchInv
<1>2. CASE UNCHANGED results
  <2>1. \A u \in Fetch!Tx : reader[u] \in {"done", "failed"} => reader'[u] = reader[u]
    BY <1>1
  <2> QED
    BY <1>1, <1>2, <2>1, QuietKept DEF Fetch!FetchInv
<1>3. ASSUME NEW ok \in BOOLEAN, NEW state \in BOOLEAN, Fetch!Deliver(t, ok, state),
             reader'[t] = IF ok THEN "done" ELSE "failed",
             ok => state = Fetch!HasState(t)
      PROVE  Fetch!ResultsInv' /\ Fetch!GotInv'
  <2> DEFINE B == Fetch!BlockOf(t)
             new == [tx |-> t, ok |-> ok, state |-> state]
  <2>1. B \in ChainBlock /\ t \in Fetch!Range(TxsOf[B])
    BY TxsTyped
  <2>2. results \in [ChainBlock -> Seq(Fetch!Result)]
    BY DEF Fetch!TypeOK
  <2>3. /\ \A c \in ChainBlock \ {B} : results'[c] = results[c]
        /\ results'[B] = Append(results[B], new)
    BY <1>3, <2>1, <2>2 DEF Fetch!Deliver
  <2>4. results[B] \in Seq(Fetch!Result) /\ new \in Fetch!Result
    BY <2>1, <2>2 DEF Fetch!Result
  <2>5. new.tx = t /\ new.ok = ok /\ new.state = state
    OBVIOUS
  <2> HIDE DEF new
  <2>6. /\ DOMAIN results'[B] = 1..(Len(results[B]) + 1)
        /\ DOMAIN results[B] = 1..Len(results[B]) /\ Len(results[B]) \in Nat
        /\ \A i \in DOMAIN results[B] : results'[B][i] = results[B][i]
        /\ results'[B][Len(results[B]) + 1] = new
    BY <2>3, <2>4
  <2>7. \A c \in ChainBlock : \A u \in Fetch!Range(TxsOf[c]) : u \in Fetch!Tx /\ Fetch!BlockOf(u) = c
    BY TxsTyped
  <2> HIDE DEF B
  <2>8. ASSUME NEW c \in ChainBlock, at[c] # "failed", NEW i \in DOMAIN results[c]
        PROVE  LET r == results[c][i] IN
               /\ r.tx \in Fetch!Range(TxsOf[c]) /\ r.tx # t
               /\ reader'[r.tx] = IF r.ok THEN "done" ELSE "failed"
               /\ r.ok => r.state = Fetch!HasState(r.tx)
    <3> DEFINE r == results[c][i]
    <3>1. /\ r.tx \in Fetch!Range(TxsOf[c])
          /\ reader[r.tx] = IF r.ok THEN "done" ELSE "failed"
          /\ r.ok => r.state = Fetch!HasState(r.tx)
      BY <2>8 DEF Fetch!FetchInv, Fetch!ResultsInv
    <3>2. r.tx \in Fetch!Tx /\ r.tx # t
      BY <1>1, <2>7, <3>1
    <3> QED
      BY <1>1, <3>1, <3>2
  <2>9. ASSUME NEW c \in ChainBlock, at[c] # "failed", NEW i \in DOMAIN got[c]
        PROVE  LET r == got[c][i] IN
               /\ r.tx \in Fetch!Range(TxsOf[c]) /\ r.tx # t /\ reader'[r.tx] = "done"
               /\ r.state = Fetch!HasState(r.tx)
               /\ \A j \in DOMAIN results[c] : results[c][j].tx # r.tx
    <3> DEFINE r == got[c][i]
    <3>1. /\ r.tx \in Fetch!Range(TxsOf[c]) /\ reader[r.tx] = "done"
          /\ r.state = Fetch!HasState(r.tx)
          /\ \A j \in DOMAIN results[c] : results[c][j].tx # r.tx
      BY <2>9 DEF Fetch!FetchInv, Fetch!GotInv
    <3>2. r.tx \in Fetch!Tx /\ r.tx # t
      BY <1>1, <2>7, <3>1
    <3> QED
      BY <1>1, <3>1, <3>2
  <2>10. ASSUME NEW c \in ChainBlock, NEW i \in DOMAIN results'[c]
         PROVE  \/ i \in DOMAIN results[c] /\ results'[c][i] = results[c][i]
                \/ /\ c = B /\ results'[c][i] = new
                   /\ i = Len(results[B]) + 1
    BY <2>1, <2>3, <2>6
  <2>11. Fetch!ResultsInv'
    <3> SUFFICES ASSUME NEW c \in ChainBlock, at[c] # "failed"
                 PROVE  /\ \A i, j \in DOMAIN results'[c] :
                              results'[c][i].tx = results'[c][j].tx => i = j
                        /\ \A i \in DOMAIN results'[c] :
                              LET r == results'[c][i] IN
                              /\ r.tx \in Fetch!Range(TxsOf[c])
                              /\ reader'[r.tx] = IF r.ok THEN "done" ELSE "failed"
                              /\ r.ok => r.state = Fetch!HasState(r.tx)
      BY <1>1 DEF Fetch!ResultsInv, Fetch!HasState
    <3>1. \A i, j \in DOMAIN results[c] : results[c][i].tx = results[c][j].tx => i = j
      BY DEF Fetch!FetchInv, Fetch!ResultsInv
    <3>2. ASSUME NEW i \in DOMAIN results'[c], NEW j \in DOMAIN results'[c],
                 results'[c][i].tx = results'[c][j].tx
          PROVE  i = j
      BY <2>5, <2>8, <2>10, <3>1, <3>2
    <3>3. ASSUME NEW i \in DOMAIN results'[c]
          PROVE  LET r == results'[c][i] IN
                 /\ r.tx \in Fetch!Range(TxsOf[c])
                 /\ reader'[r.tx] = IF r.ok THEN "done" ELSE "failed"
                 /\ r.ok => r.state = Fetch!HasState(r.tx)
      <4>1. CASE i \in DOMAIN results[c] /\ results'[c][i] = results[c][i]
        BY <2>8, <4>1
      <4>2. CASE c = B /\ results'[c][i] = new
        BY <1>3, <2>1, <2>5, <4>2
      <4> QED
        BY <2>10, <4>1, <4>2
    <3> QED
      BY <3>2, <3>3
  <2>12. Fetch!GotInv'
    <3>1. ASSUME NEW c \in ChainBlock, at'[c] # "failed"
          PROVE  \A i, j \in DOMAIN got'[c] : got'[c][i].tx = got'[c][j].tx => i = j
      BY <1>1, <3>1 DEF Fetch!FetchInv, Fetch!GotInv
    <3>2. ASSUME NEW c \in ChainBlock, at'[c] # "failed", NEW i \in DOMAIN got'[c]
          PROVE  LET r == got'[c][i] IN
                 /\ r.tx \in Fetch!Range(TxsOf[c]) /\ reader'[r.tx] = "done"
                 /\ r.state = Fetch!HasState(r.tx)
                 /\ \A j \in DOMAIN results'[c] : results'[c][j].tx # r.tx
      <4>1. at[c] # "failed" /\ i \in DOMAIN got[c] /\ got'[c][i] = got[c][i]
        BY <1>1, <3>2
      <4>2. \A j \in DOMAIN results'[c] : results'[c][j].tx # got[c][i].tx
        BY <2>5, <2>9, <2>10, <4>1
      <4> QED
        BY <2>9, <4>1, <4>2
    <3> QED
      BY <3>1, <3>2 DEF Fetch!GotInv, Fetch!HasState
  <2> QED
    BY <2>11, <2>12
<1>4. Fetch!HasState(t) \in BOOLEAN
  BY DEF Fetch!HasState
<1> QED
  BY <1>1, <1>2, <1>3, <1>4

\* What is collected is the first result, and the loop leaves a page when it
\* has them all.
LEMMA CollectKept ==
  ASSUME Fetch!FetchAssumption, Fetch!TypeOK, Fetch!FetchInv, NEW b \in ChainBlock,
         Fetch!Collect(b)
  PROVE  Fetch!ResultsInv' /\ Fetch!GotInv' /\ Fetch!PagesInv'
<1> DEFINE res == results[b]
           r == Head(res)
           new == [tx |-> r.tx, state |-> r.state]
<1>1. /\ at \in [ChainBlock -> {"ids", "collect", "done", "failed"}]
      /\ results \in [ChainBlock -> Seq(Fetch!Result)] /\ got \in [ChainBlock -> Seq(Fetch!Entered)]
      /\ after \in [ChainBlock -> Nat]
  BY DEF Fetch!TypeOK
<1>2. /\ at[b] = "collect" /\ res # <<>> /\ res \in Seq(Fetch!Result)
      /\ results' = [results EXCEPT ![b] = Tail(res)]
      /\ UNCHANGED <<after, reader>>
  BY <1>1 DEF Fetch!Collect
<1>3. /\ Len(res) \in Nat /\ DOMAIN res = 1..Len(res) /\ 1 \in DOMAIN res
      /\ r = res[1] /\ r \in Fetch!Result
      /\ \A i \in DOMAIN Tail(res) : i + 1 \in DOMAIN res /\ i \in Nat \ {0}
                                     /\ Tail(res)[i] = res[i + 1]
  BY <1>2
<1>4. /\ results'[b] = Tail(res)
      /\ \A c \in ChainBlock \ {b} : results'[c] = results[c]
  BY <1>1, <1>2
<1>5. /\ \A i, j \in DOMAIN res : res[i].tx = res[j].tx => i = j
      /\ \A i \in DOMAIN res :
            /\ res[i].tx \in Fetch!Range(TxsOf[b])
            /\ reader[res[i].tx] = IF res[i].ok THEN "done" ELSE "failed"
            /\ res[i].ok => res[i].state = Fetch!HasState(res[i].tx)
  BY <1>2 DEF Fetch!FetchInv, Fetch!ResultsInv
<1>6. \A i \in DOMAIN Tail(res) : Tail(res)[i].tx # r.tx
  <2> SUFFICES ASSUME NEW i \in DOMAIN Tail(res), Tail(res)[i].tx = r.tx PROVE FALSE
    OBVIOUS
  <2>1. i + 1 \in DOMAIN res /\ res[i + 1].tx = res[1].tx
    BY <1>3
  <2>2. i + 1 = 1
    BY <1>3, <1>5, <2>1
  <2> QED
    BY <1>3, <2>2
<1> HIDE DEF r, res
<1>7. \A c \in ChainBlock \ {b} : at'[c] = at[c] /\ got'[c] = got[c]
  BY <1>1 DEF Fetch!Collect
<1>8. CASE ~r.ok
  <2>1. at' = [at EXCEPT ![b] = "failed"] /\ got' = got
    BY <1>8 DEF Fetch!Collect, r, res
  <2>2. at'[b] = "failed"
    BY <1>1, <2>1
  <2>3. Fetch!ResultsInv'
    BY <1>2, <1>4, <1>7, <2>2 DEF Fetch!FetchInv, Fetch!ResultsInv, Fetch!HasState
  <2>4. Fetch!GotInv'
    BY <1>2, <1>4, <1>7, <2>2 DEF Fetch!FetchInv, Fetch!GotInv, Fetch!HasState
  <2>5. Fetch!PagesInv'
    BY <1>2, <1>7, <2>2 DEF Fetch!FetchInv, Fetch!PagesInv
  <2> QED
    BY <2>3, <2>4, <2>5
<1>9. CASE r.ok
  <2>1. /\ got' = [got EXCEPT ![b] = Append(got[b], new)]
        /\ at' = [at EXCEPT ![b] = IF Len(got'[b]) < after[b] THEN "collect"
                                   ELSE IF Fetch!More(b) THEN "ids" ELSE "done"]
    BY <1>9 DEF Fetch!Collect, r, res
  <2>2. new \in Fetch!Entered /\ new.tx = r.tx /\ new.state = r.state
    BY <1>3 DEF Fetch!Result, Fetch!Entered
  <2> HIDE DEF new
  <2>3. /\ got[b] \in Seq(Fetch!Entered) /\ got'[b] = Append(got[b], new)
        /\ got'[b] \in Seq(Fetch!Entered)
    BY <1>1, <2>1, <2>2
  <2>4. /\ DOMAIN got'[b] = 1..(Len(got[b]) + 1) /\ Len(got[b]) \in Nat
        /\ Len(got'[b]) = Len(got[b]) + 1
        /\ DOMAIN got[b] = 1..Len(got[b])
        /\ \A i \in DOMAIN got[b] : got'[b][i] = got[b][i]
        /\ got'[b][Len(got[b]) + 1] = new
    BY <2>2, <2>3
  <2>5. \A i \in DOMAIN got'[b] :
           \/ i \in DOMAIN got[b] /\ got'[b][i] = got[b][i]
           \/ i = Len(got[b]) + 1 /\ got'[b][i] = new
    BY <2>4
  <2>6. /\ \A i, j \in DOMAIN got[b] : got[b][i].tx = got[b][j].tx => i = j
        /\ \A i \in DOMAIN got[b] :
              /\ got[b][i].tx \in Fetch!Range(TxsOf[b]) /\ reader[got[b][i].tx] = "done"
              /\ got[b][i].state = Fetch!HasState(got[b][i].tx)
              /\ \A j \in DOMAIN res : res[j].tx # got[b][i].tx
    BY <1>2 DEF Fetch!FetchInv, Fetch!GotInv, res
  <2>7. /\ new.tx \in Fetch!Range(TxsOf[b]) /\ reader[new.tx] = "done"
        /\ new.state = Fetch!HasState(new.tx)
    BY <1>3, <1>5, <1>9, <2>2
  <2>8. /\ \A i, j \in DOMAIN got'[b] : got'[b][i].tx = got'[b][j].tx => i = j
        /\ \A i \in DOMAIN got'[b] :
              /\ got'[b][i].tx \in Fetch!Range(TxsOf[b]) /\ reader[got'[b][i].tx] = "done"
              /\ got'[b][i].state = Fetch!HasState(got'[b][i].tx)
              /\ \A j \in DOMAIN results'[b] : results'[b][j].tx # got'[b][i].tx
    <3>1. \A i \in DOMAIN got[b] : got[b][i].tx # new.tx
      BY <1>3, <2>2, <2>6
    <3>2. ASSUME NEW i \in DOMAIN got'[b], NEW j \in DOMAIN got'[b],
                 got'[b][i].tx = got'[b][j].tx
          PROVE  i = j
      BY <2>5, <2>6, <3>1, <3>2
    <3>3. ASSUME NEW i \in DOMAIN got'[b], NEW j \in DOMAIN results'[b]
          PROVE  results'[b][j].tx # got'[b][i].tx
      BY <1>3, <1>4, <1>6, <2>2, <2>5, <2>6
    <3>4. ASSUME NEW i \in DOMAIN got'[b]
          PROVE  /\ got'[b][i].tx \in Fetch!Range(TxsOf[b]) /\ reader[got'[b][i].tx] = "done"
                 /\ got'[b][i].state = Fetch!HasState(got'[b][i].tx)
      BY <2>5, <2>6, <2>7
    <3> QED
      BY <3>2, <3>3, <3>4
  <2>9. Fetch!GotInv'
    <3> SUFFICES ASSUME NEW c \in ChainBlock, at'[c] # "failed"
                 PROVE  /\ \A i, j \in DOMAIN got'[c] :
                              got'[c][i].tx = got'[c][j].tx => i = j
                        /\ \A i \in DOMAIN got'[c] :
                              LET e == got'[c][i] IN
                              /\ e.tx \in Fetch!Range(TxsOf[c]) /\ reader'[e.tx] = "done"
                              /\ e.state = Fetch!HasState(e.tx)
                              /\ \A j \in DOMAIN results'[c] : results'[c][j].tx # e.tx
      BY DEF Fetch!GotInv, Fetch!HasState
    <3>1. CASE c = b
      BY <1>2, <2>8, <3>1
    <3>2. CASE c # b
      <4>1. at[c] # "failed" /\ got'[c] = got[c] /\ results'[c] = results[c]
        BY <1>4, <1>7, <3>2
      <4>2. /\ \A i, j \in DOMAIN got[c] : got[c][i].tx = got[c][j].tx => i = j
            /\ \A i \in DOMAIN got[c] :
                  /\ got[c][i].tx \in Fetch!Range(TxsOf[c])
                  /\ reader[got[c][i].tx] = "done"
                  /\ got[c][i].state = Fetch!HasState(got[c][i].tx)
                  /\ \A j \in DOMAIN results[c] : results[c][j].tx # got[c][i].tx
        BY <4>1 DEF Fetch!FetchInv, Fetch!GotInv
      <4>3. reader' = reader
        BY <1>2
      <4> QED
        BY <4>1, <4>2, <4>3
    <3> QED
      BY <3>1, <3>2
  <2>10. Fetch!ResultsInv'
    <3> SUFFICES ASSUME NEW c \in ChainBlock, at'[c] # "failed"
                 PROVE  /\ \A i, j \in DOMAIN results'[c] :
                              results'[c][i].tx = results'[c][j].tx => i = j
                        /\ \A i \in DOMAIN results'[c] :
                              LET e == results'[c][i] IN
                              /\ e.tx \in Fetch!Range(TxsOf[c])
                              /\ reader'[e.tx] = IF e.ok THEN "done" ELSE "failed"
                              /\ e.ok => e.state = Fetch!HasState(e.tx)
      BY DEF Fetch!ResultsInv, Fetch!HasState
    <3>1. CASE c = b
      <4>1. ASSUME NEW i \in DOMAIN Tail(res), NEW j \in DOMAIN Tail(res),
                   Tail(res)[i].tx = Tail(res)[j].tx
            PROVE  i = j
        <5>1. i + 1 = j + 1 /\ i \in Nat /\ j \in Nat
          BY <1>3, <1>5, <4>1
        <5> QED
          BY <5>1
      <4>2. ASSUME NEW i \in DOMAIN Tail(res)
            PROVE  LET e == Tail(res)[i] IN
                   /\ e.tx \in Fetch!Range(TxsOf[b])
                   /\ reader[e.tx] = IF e.ok THEN "done" ELSE "failed"
                   /\ e.ok => e.state = Fetch!HasState(e.tx)
        BY <1>3, <1>5
      <4> QED
        BY <1>2, <1>4, <3>1, <4>1, <4>2
    <3>2. CASE c # b
      <4>1. at[c] # "failed" /\ results'[c] = results[c]
        BY <1>4, <1>7, <3>2
      <4>2. /\ \A i, j \in DOMAIN results[c] :
                  results[c][i].tx = results[c][j].tx => i = j
            /\ \A i \in DOMAIN results[c] :
                  /\ results[c][i].tx \in Fetch!Range(TxsOf[c])
                  /\ reader[results[c][i].tx]
                        = IF results[c][i].ok THEN "done" ELSE "failed"
                  /\ results[c][i].ok
                        => results[c][i].state = Fetch!HasState(results[c][i].tx)
        BY <4>1 DEF Fetch!FetchInv, Fetch!ResultsInv
      <4>3. reader' = reader
        BY <1>2
      <4> QED
        BY <4>1, <4>2, <4>3
    <3> QED
      BY <3>1, <3>2
  <2>11. Len(got'[b]) <= after[b]
    <3>1. /\ after[b] \in Nat /\ after[b] <= Len(TxsOf[b])
          /\ \A k \in DOMAIN TxsOf[b] : k > after[b] => reader[TxsOf[b][k]] = "off"
      BY <1>1 DEF Fetch!FetchInv, Fetch!ListedInv
    <3>2. DOMAIN TxsOf[b] = 1..Len(TxsOf[b]) /\ Len(TxsOf[b]) \in Nat
      BY TxsTyped
    <3>3. ASSUME NEW i \in DOMAIN got'[b]
          PROVE  \E k \in 1..after[b] : got'[b][i].tx = TxsOf[b][k]
      <4>1. PICK k \in DOMAIN TxsOf[b] : got'[b][i].tx = TxsOf[b][k]
        BY <2>8 DEF Fetch!Range
      <4>2. ~(k > after[b])
        BY <2>8, <3>1, <4>1
      <4>3. k \in 1..after[b]
        BY <3>1, <3>2, <4>2
      <4> QED
        BY <4>1, <4>3
    <3>4. \A i, j \in DOMAIN got'[b] : got'[b][i].tx = got'[b][j].tx => i = j
      BY <2>8
    <3> DEFINE g == got'[b]
    <3>5. /\ g \in Seq(Fetch!Entered)
          /\ \A i, j \in DOMAIN g : g[i].tx = g[j].tx => i = j
          /\ \A i \in DOMAIN g : \E k \in 1..after[b] : g[i].tx = TxsOf[b][k]
      BY <2>3, <3>3, <3>4
    <3> HIDE DEF g
    <3>6. Len(g) <= after[b]
      BY <3>1, <3>5, AllGot
    <3> QED
      BY <3>6 DEF g
  <2>12. Fetch!PagesInv'
    <3>1. at'[b] = IF Len(got'[b]) < after[b] THEN "collect"
                   ELSE IF Fetch!More(b) THEN "ids" ELSE "done"
      BY <1>1, <2>1
    <3>2. /\ after[b] \in Nat /\ after[b] <= Len(TxsOf[b]) /\ Len(TxsOf[b]) \in Nat
      BY <1>1, TxsTyped DEF Fetch!FetchInv, Fetch!ListedInv
    <3>3. /\ at'[b] \in {"ids", "done"} => Len(got'[b]) = after[b]
          /\ at'[b] = "done" => after[b] = Len(TxsOf[b])
      BY <2>4, <2>11, <3>1, <3>2 DEF Fetch!More
    <3> QED
      BY <1>2, <1>7, <3>3 DEF Fetch!FetchInv, Fetch!PagesInv
  <2> QED
    BY <2>9, <2>10, <2>12
<1> QED
  BY <1>8, <1>9

\* The invariant of the fetch.
LEMMA FetchCorrect ==
  ASSUME Fetch!FetchAssumption
  PROVE  Fetch!Spec => [](Fetch!TypeOK /\ Fetch!FetchInv)
<1>1. Fetch!Init => Fetch!TypeOK /\ Fetch!FetchInv
  <2> SUFFICES ASSUME Fetch!Init PROVE Fetch!TypeOK /\ Fetch!FetchInv
    OBVIOUS
  <2>1. Fetch!TypeOK
    <3>1. /\ results \in [ChainBlock -> Seq(Fetch!Result)] /\ got \in [ChainBlock -> Seq(Fetch!Entered)]
          /\ after \in [ChainBlock -> Nat]
      BY DEF Fetch!Init
    <3> QED
      BY <3>1 DEF Fetch!Init, Fetch!TypeOK
  <2>2. \A b \in ChainBlock : TxsOf[b] \in Seq(Fetch!Tx)
    BY TxsTyped
  <2>3. \A b \in ChainBlock : \A i \in DOMAIN TxsOf[b] : TxsOf[b][i] \in Fetch!Tx
    BY <2>2
  <2>4. \A b \in ChainBlock : 0 <= Len(TxsOf[b])
    BY <2>2
  <2>5. Fetch!ListedInv
    BY <2>3, <2>4 DEF Fetch!Init, Fetch!ListedInv
  <2>6. Fetch!AccountInv
    BY DEF Fetch!Init, Fetch!AccountInv
  <2>7. Fetch!ResultsInv /\ Fetch!GotInv /\ Fetch!PagesInv
    BY DEF Fetch!Init, Fetch!ResultsInv, Fetch!GotInv, Fetch!PagesInv
  <2> QED
    BY <2>1, <2>5, <2>6, <2>7 DEF Fetch!FetchInv
<1>2. Fetch!TypeOK /\ Fetch!FetchInv /\ [Fetch!Next]_(Fetch!vars) => Fetch!TypeOK' /\ Fetch!FetchInv'
  <2> SUFFICES ASSUME Fetch!TypeOK, Fetch!FetchInv, [Fetch!Next]_(Fetch!vars)
               PROVE  Fetch!TypeOK' /\ Fetch!FetchInv'
    OBVIOUS
  <2>1. Fetch!TypeOK' /\ Fetch!ListedInv' /\ Fetch!AccountInv'
    BY FetchTyped, ListedKept, AccountKept DEF Fetch!FetchInv
  <2>2. ASSUME NEW b \in ChainBlock, Fetch!FetchIds(b)
        PROVE  Fetch!ResultsInv' /\ Fetch!GotInv' /\ Fetch!PagesInv'
    <3>1. /\ at[b] = "ids" /\ UNCHANGED <<results, got>>
          /\ \A c \in ChainBlock \ {b} : at'[c] = at[c] /\ after'[c] = after[c]
          /\ \/ at'[b] = "failed" /\ UNCHANGED reader
             \/ /\ at'[b] \in {"collect", "done"}
                /\ at'[b] = "done" => after'[b] = after[b] /\ after[b] = Len(TxsOf[b])
                /\ \A t \in Fetch!Tx \ Fetch!Page(b) : reader'[t] = reader[t]
                /\ \A t \in Fetch!Page(b) : reader[t] = "off"
      BY <2>2, FetchIdsIs DEF Fetch!FetchInv
    <3>2. Fetch!ResultsInv' /\ Fetch!GotInv'
      <4>1. \A c \in ChainBlock : at'[c] # "failed" => at[c] # "failed"
        BY <3>1
      <4>2. \A t \in Fetch!Tx : reader[t] \in {"done", "failed"} => reader'[t] = reader[t]
        BY <3>1
      <4> QED
        BY <3>1, <4>1, <4>2, QuietKept DEF Fetch!FetchInv
    <3>3. Fetch!PagesInv'
      BY <3>1 DEF Fetch!FetchInv, Fetch!PagesInv
    <3> QED
      BY <3>2, <3>3
  <2>3. ASSUME NEW b \in ChainBlock, Fetch!Collect(b)
        PROVE  Fetch!ResultsInv' /\ Fetch!GotInv' /\ Fetch!PagesInv'
    BY <2>3, CollectKept
  <2>4. ASSUME NEW t \in Fetch!Tx, Fetch!Await(t)
        PROVE  Fetch!ResultsInv' /\ Fetch!GotInv' /\ Fetch!PagesInv'
    <3>1. UNCHANGED <<at, after, got>>
      BY <2>4, AwaitIs DEF Fetch!FetchInv
    <3>2. Fetch!PagesInv'
      BY <3>1 DEF Fetch!FetchInv, Fetch!PagesInv
    <3> QED
      BY <2>4, <3>2, ReceiveKept
  <2>5. ASSUME UNCHANGED <<at, after, results, got, reader>>
        PROVE  Fetch!ResultsInv' /\ Fetch!GotInv' /\ Fetch!PagesInv'
    BY <2>5, QuietKept DEF Fetch!FetchInv, Fetch!PagesInv
  <2>6. ASSUME NEW t \in Fetch!Tx, Fetch!GetTransaction(t) \/ Fetch!FetchAccount(t)
        PROVE  Fetch!ResultsInv' /\ Fetch!GotInv' /\ Fetch!PagesInv'
    BY <2>5, <2>6
    DEF Fetch!GetTransaction, Fetch!FetchAccount, Fetch!LookInCache,
        Fetch!GetAccount, Fetch!GetLibraries
  <2>7. CASE UNCHANGED Fetch!vars
    BY <2>1, <2>5, <2>7 DEF Fetch!vars, Fetch!FetchInv
  <2> QED
    BY <2>1, <2>2, <2>3, <2>4, <2>6, <2>7
    DEF Fetch!Next, Fetch!FetchBlock, Fetch!FetchInv
<1> QED
  BY <1>1, <1>2, PTL DEF Fetch!Spec

\* What a block that is done has.
LEMMA DoneIsWhole ==
  ASSUME Fetch!FetchAssumption, Fetch!TypeOK, Fetch!FetchInv, NEW b \in ChainBlock,
         at[b] = "done"
  PROVE  /\ Len(got[b]) = Len(TxsOf[b])
         /\ {r.tx : r \in Fetch!Range(got[b])} = Fetch!Range(TxsOf[b])
         /\ \A r \in Fetch!Range(got[b]) : r.state = Fetch!HasState(r.tx)
         /\ \A t \in Fetch!Range(TxsOf[b]) : reader[t] = "done"
<1>1. /\ Len(got[b]) = after[b] /\ after[b] = Len(TxsOf[b])
      /\ got[b] \in Seq(Fetch!Entered) /\ TxsOf[b] \in Seq(Fetch!Tx)
  BY TxsTyped DEF Fetch!FetchInv, Fetch!PagesInv, Fetch!TypeOK
<1>2. /\ DOMAIN TxsOf[b] = 1..Len(TxsOf[b]) /\ Len(TxsOf[b]) \in Nat
  BY <1>1
<1>3. /\ \A i, j \in DOMAIN got[b] : got[b][i].tx = got[b][j].tx => i = j
      /\ \A i \in DOMAIN got[b] :
            /\ got[b][i].tx \in Fetch!Range(TxsOf[b]) /\ reader[got[b][i].tx] = "done"
            /\ got[b][i].state = Fetch!HasState(got[b][i].tx)
  BY DEF Fetch!FetchInv, Fetch!GotInv
<1>4. \A i \in DOMAIN got[b] : \E k \in 1..after[b] : got[b][i].tx = TxsOf[b][k]
  BY <1>1, <1>2, <1>3 DEF Fetch!Range
<1>5. \A k \in DOMAIN TxsOf[b] : \E i \in DOMAIN got[b] : got[b][i].tx = TxsOf[b][k]
  <2>1. after[b] \in Nat /\ after[b] <= Len(TxsOf[b])
    BY <1>1, <1>2
  <2> DEFINE g == got[b]
  <2>2. /\ g \in Seq(Fetch!Entered) /\ Len(g) = after[b]
        /\ \A i, j \in DOMAIN g : g[i].tx = g[j].tx => i = j
        /\ \A i \in DOMAIN g : \E k \in 1..after[b] : g[i].tx = TxsOf[b][k]
    BY <1>1, <1>3, <1>4
  <2> HIDE DEF g
  <2>3. \A k \in 1..after[b] : \E i \in DOMAIN g : g[i].tx = TxsOf[b][k]
    BY <2>1, <2>2, AllGot
  <2> QED
    BY <1>1, <1>2, <2>3 DEF g
<1>6. {r.tx : r \in Fetch!Range(got[b])} = Fetch!Range(TxsOf[b])
  BY <1>3, <1>5 DEF Fetch!Range
<1>7. \A r \in Fetch!Range(got[b]) : r.state = Fetch!HasState(r.tx)
  BY <1>3 DEF Fetch!Range
<1>8. \A t \in Fetch!Range(TxsOf[b]) : reader[t] = "done"
  BY <1>3, <1>5 DEF Fetch!Range
<1> QED
  BY <1>1, <1>6, <1>7, <1>8

\* What was fetched without an error is whole.
LEMMA FetchIsWhole ==
  ASSUME Fetch!FetchAssumption
  PROVE  Fetch!Spec => []Fetch!WholeAnswer
<1>1. Fetch!TypeOK /\ Fetch!FetchInv => Fetch!WholeAnswer
  <2> SUFFICES ASSUME Fetch!TypeOK, Fetch!FetchInv PROVE Fetch!WholeAnswer
    OBVIOUS
  <2>1. ASSUME NEW b \in ChainBlock, at[b] = "done"
        PROVE  /\ Len(got[b]) = Len(TxsOf[b])
               /\ {r.tx : r \in Fetch!Range(got[b])} = Fetch!Range(TxsOf[b])
               /\ \A r \in Fetch!Range(got[b]) : r.state = Fetch!HasState(r.tx)
    BY <2>1, DoneIsWhole
  <2>2. ASSUME NEW t \in Fetch!Tx, Fetch!Stuck(t)
        PROVE  fetchFaults > 0 /\ at[Fetch!BlockOf(t)] # "done"
    <3>1. reader[t] = "failed"
      BY <2>2 DEF Fetch!Stuck
    <3>2. Fetch!BlockOf(t) \in ChainBlock /\ t \in Fetch!Range(TxsOf[Fetch!BlockOf(t)])
      BY TxsTyped
    <3>3. at[Fetch!BlockOf(t)] # "done"
      BY <3>1, <3>2, DoneIsWhole
    <3> QED
      BY <3>1, <3>3 DEF Fetch!FetchInv, Fetch!AccountInv
  <2> QED
    BY <2>1, <2>2 DEF Fetch!WholeAnswer, Fetch!HasState
<1> QED
  BY <1>1, FetchCorrect, PTL

\* A block that was fetched without an error has each of its transactions
\* once, over all pages, with a state for exactly the accounts that have one,
\* in whatever order the goroutines run and their results arrive; only a call
\* that failed leaves a goroutine behind in getTransaction.
THEOREM AnswerIsWhole ==
  PartsSpec => []WholeAnswer
<1>1. Fetch!FetchAssumption
  BY PartsAssumption
<1> QED
  BY <1>1, EachIsPart, FetchIsWhole, PTL DEF WholeAnswer

-----------------------------------------------------------------------------
\* Recall: what the service takes for an account's past.  First the operators
\* of its model: entries of a cache, and least and greatest elements.
LEMMA PastSizes == \A S : Recall!Cardinality(S) = Cardinality(S)
  BY DEF Recall!Cardinality, Cardinality

LEMMA PastMin ==
  ASSUME NEW S, S \subseteq Nat, S # {}
  PROVE  Recall!Min(S) \in S /\ \A y \in S : Recall!Min(S) <= y
  BY LeastExists DEF Recall!Min

LEMMA PastMax ==
  ASSUME NEW S, S \subseteq Nat, S # {}, NEW n \in Nat, \A x \in S : x <= n
  PROVE  Recall!Max(S) \in S /\ \A y \in S : Recall!Max(S) >= y
<1>1. \E z \in S : \A y \in S : z >= y
  BY GreatestExists
<1> QED
  BY <1>1 DEF Recall!Max

LEMMA SeqByRange ==
  ASSUME NEW m, NEW G
  PROVE  m \in Seq(G) <=> /\ m \in Seq(Recall!Range(m))
                          /\ \A e \in Recall!Range(m) : e \in G
<1>1. Recall!Range(m) = Range(m)
  BY DEF Recall!Range, Range
<1>2. ASSUME m \in Seq(G)
      PROVE  m \in Seq(Range(m)) /\ \A e \in Range(m) : e \in G
  <2>1. m \in Seq(Range(m))
    BY <1>2, SeqOfRange
  <2>2. Range(m) \in SUBSET G
    BY <1>2, RangeOfSeq
  <2> QED
    BY <2>1, <2>2
<1>3. ASSUME m \in Seq(Range(m)), \A e \in Range(m) : e \in G
      PROVE  m \in Seq(G)
  <2>1. Range(m) \subseteq G
    BY <1>3
  <2> QED
    BY <1>3, <2>1, SeqMonotonic
<1> QED
  BY <1>1, <1>2, <1>3

LEMMA HeldValue ==
  ASSUME NEW R, NEW c \in Seq(R), \A e \in R : e = <<e[1], e[2]>>,
         NEW k \in Recall!Keys(c)
  PROVE  /\ <<k, Recall!Value(c, k)>> \in R
         /\ Recall!Place(c, k) \in 1..Len(c)
<1>1. DOMAIN c = 1..Len(c) /\ \A i \in DOMAIN c : c[i] \in R
  BY LenProperties, ElementOfSeq
<1>2. \E i \in DOMAIN c : c[i][1] = k
  BY DEF Recall!Keys
<1>3. /\ Recall!Place(c, k) \in DOMAIN c
      /\ c[Recall!Place(c, k)][1] = k
  BY <1>2, Zenon DEF Recall!Place
<1>4. c[Recall!Place(c, k)] = <<k, c[Recall!Place(c, k)][2]>>
  BY <1>1, <1>3
<1> QED
  BY <1>1, <1>3, <1>4 DEF Recall!Value

LEMMA OthersHeld ==
  ASSUME NEW R, NEW c \in Seq(R), NEW k, Recall!Place(c, k) \in 1..Len(c)
  PROVE  Recall!Others(c, k) \in Seq(R)
<1> DEFINE p == Recall!Place(c, k)
<1>1. p \in Int /\ p - 1 \in Int /\ p + 1 \in Int /\ Len(c) \in Nat
  BY LenProperties
<1>2. \A i \in 1..(p - 1) : c[i] \in R
  BY <1>1, ElementOfSeq
<1>3. \A i \in (p + 1)..Len(c) : c[i] \in R
  BY <1>1, ElementOfSeq
<1> HIDE DEF p
<1>4. SubSeq(c, 1, p - 1) \in Seq(R)
  BY <1>1, <1>2, SubSeqProperties
<1>5. SubSeq(c, p + 1, Len(c)) \in Seq(R)
  BY <1>1, <1>3, SubSeqProperties
<1>6. SubSeq(c, 1, p - 1) \o SubSeq(c, p + 1, Len(c)) \in Seq(R)
  BY <1>4, <1>5, ConcatProperties
<1> QED
  BY <1>6, Zenon DEF Recall!Others, p

LEMMA UsedKeeps ==
  ASSUME NEW R, NEW c \in Seq(R), \A e \in R : e = <<e[1], e[2]>>,
         NEW k \in Recall!Keys(c)
  PROVE  Recall!Used(c, k) \in Seq(R)
<1>1. /\ <<k, Recall!Value(c, k)>> \in R
      /\ Recall!Others(c, k) \in Seq(R)
  BY HeldValue, OthersHeld
<1> DEFINE e == <<k, Recall!Value(c, k)>>
<1> HIDE DEF e
<1>2. e \in R
  BY <1>1 DEF e
<1>3. <<e>> \in Seq(R)
  BY <1>2
<1>4. <<e>> \o Recall!Others(c, k) \in Seq(R)
  BY <1>1, <1>3, ConcatProperties
<1> QED
  BY <1>4, Zenon DEF Recall!Used, e

\* A put keeps an entry or adds its own.
LEMMA PutKeeps ==
  ASSUME NEW R, NEW c \in Seq(R), \A e \in R : e = <<e[1], e[2]>>,
         NEW k, NEW v, <<k, v>> \in R, NEW capacity
  PROVE  /\ Recall!Put(c, k, v, capacity) \in Seq(R)
         /\ k \in Recall!Keys(Recall!Put(c, k, v, capacity))
<1> DEFINE e == <<k, v>>
           rest == IF k \in Recall!Keys(c) THEN Recall!Others(c, k)
                   ELSE IF Len(c) = capacity THEN SubSeq(c, 1, Len(c) - 1)
                   ELSE c
<1>1. e \in R /\ e[1] = k
  OBVIOUS
<1>2. Len(c) \in Nat
  BY LenProperties
<1>3. ASSUME k \in Recall!Keys(c) PROVE Recall!Others(c, k) \in Seq(R)
  BY <1>3, HeldValue, OthersHeld
<1>4. SubSeq(c, 1, Len(c) - 1) \in Seq(R)
  <2>1. \A i \in 1..(Len(c) - 1) : c[i] \in R
    BY <1>2, ElementOfSeq
  <2>2. Len(c) - 1 \in Int
    BY <1>2
  <2> QED
    BY <2>1, <2>2, SubSeqProperties
<1>5. rest \in Seq(R)
  BY <1>3, <1>4
<1>6. Recall!Put(c, k, v, capacity) = <<e>> \o rest
  BY Zenon DEF Recall!Put
<1> HIDE DEF e, rest
<1>7. <<e>> \in Seq(R) /\ Len(<<e>>) = 1 /\ <<e>>[1] = e
  BY <1>1
<1>8. /\ <<e>> \o rest \in Seq(R)
      /\ Len(<<e>> \o rest) = 1 + Len(rest)
      /\ (<<e>> \o rest)[1] = e
  <2>1. Len(rest) \in Nat
    BY <1>5, LenProperties
  <2> QED
    BY <1>5, <1>7, <2>1, ConcatProperties
<1>9. 1 \in DOMAIN (<<e>> \o rest)
  <2>1. Len(rest) \in Nat
    BY <1>5, LenProperties
  <2> DEFINE s == <<e>> \o rest
  <2>2. s \in Seq(R) /\ Len(s) = 1 + Len(rest)
    BY <1>8
  <2> HIDE DEF s
  <2>3. DOMAIN s = 1..Len(s)
    BY <2>2, LenProperties
  <2> QED
    BY <2>1, <2>2, <2>3 DEF s
<1> QED
  BY <1>1, <1>6, <1>8, <1>9 DEF Recall!Keys

-----------------------------------------------------------------------------
\* A walk through a cache looks at entries and adds none.
LEMMA LookedKeeps ==
  ASSUME NEW R, NEW c \in Seq(R), \A e \in R : e = <<e[1], e[2]>>,
         NEW lt \in Nat, NEW last
  PROVE  Recall!Looked(c, lt, last) \in Seq(R)
<1> DEFINE Use(so, k) == IF k \in Recall!Keys(so) /\ last <= k
                         THEN Recall!Used(so, k) ELSE so
           Body(look, n) == IF n = 0 THEN c ELSE Use(look[n - 1], lt + 1 - n)
           H == {n \in Nat : \E w : w = [m \in 0..n |-> Body(w, m)]}
<1>1. 0 \in H
  <2> DEFINE w == [m \in 0..0 |-> c]
  <2>1. \A m \in 0..0 : Body(w, m) = c
    OBVIOUS
  <2> HIDE DEF Body
  <2>2. w = [m \in 0..0 |-> Body(w, m)]
    BY <2>1
  <2> QED
    BY <2>2, Zenon
<1>2. ASSUME NEW n \in H PROVE n + 1 \in H
  <2>1. n \in Nat /\ n + 1 \in Nat
    OBVIOUS
  <2>2. PICK w : w = [m \in 0..n |-> Body(w, m)]
    OBVIOUS
  <2> DEFINE g == [m \in 0..(n + 1) |-> Body(w, m)]
  <2>3. ASSUME NEW m \in 0..(n + 1) PROVE Body(w, m) = Body(g, m)
    <3>1. SUFFICES ASSUME m # 0 PROVE w[m - 1] = g[m - 1]
      BY Zenon
    <3>2. m - 1 \in 0..n /\ m - 1 \in 0..(n + 1)
      BY <2>1, <3>1
    <3> DEFINE p == m - 1
    <3> HIDE DEF p, Body
    <3>3. w[p] = Body(w, p)
      BY <2>2, <3>2 DEF p
    <3>4. g[p] = Body(w, p)
      BY <3>2 DEF p
    <3> QED
      BY <3>3, <3>4 DEF p
  <2> HIDE DEF Body
  <2>4. g = [m \in 0..(n + 1) |-> Body(g, m)]
    BY <2>3
  <2> HIDE DEF g
  <2>5. \E v : v = [m \in 0..(n + 1) |-> Body(v, m)]
    BY <2>4
  <2> QED
    BY <2>1, <2>5
<1>3. \E w : w = [m \in 0..lt |-> Body(w, m)]
  <2>1. H \subseteq Nat
    OBVIOUS
  <2> HIDE DEF H
  <2>2. H = Nat
    BY <1>1, <1>2, <2>1, NumbersInduction
  <2> QED
    BY <2>2, Zenon DEF H
<1> DEFINE look == CHOOSE w : w = [m \in 0..lt |-> Body(w, m)]
<1>4. look = [m \in 0..lt |-> Body(look, m)]
  <2> HIDE DEF Body
  <2> QED
    BY <1>3, Zenon
<1>5. Recall!Looked(c, lt, last) = look[lt]
  BY Zenon DEF Recall!Looked
<1> HIDE DEF look
<1>6. look[0] = c
  BY <1>4
<1>7. ASSUME NEW n \in Nat, n + 1 <= lt
      PROVE  look[n + 1] = Use(look[n], lt - n)
  <2> HIDE DEF H, Use, Body
  <2>1. /\ n + 1 \in 0..lt /\ n + 1 # 0
        /\ (n + 1) - 1 = n /\ lt + 1 - (n + 1) = lt - n
    <3>1. n \in Int /\ lt \in Int
      OBVIOUS
    <3>2. (n + 1) - 1 = n /\ lt + 1 - (n + 1) = lt - n
      BY <3>1
    <3> QED
      BY <1>7, <3>2
  <2>2. look[n + 1] = Body(look, n + 1)
    BY <1>4, <2>1
  <2>3. Body(look, n + 1) = Use(look[n], lt - n)
    BY <2>1, Zenon DEF Body
  <2> QED
    BY <2>2, <2>3
<1>8. ASSUME NEW so \in Seq(R), NEW k PROVE Use(so, k) \in Seq(R)
  BY <1>8, UsedKeeps
<1> DEFINE J == {n \in Nat : n <= lt => look[n] \in Seq(R)}
<1> HIDE DEF Use
<1>9. 0 \in J
  BY <1>6
<1>10. ASSUME NEW n \in J PROVE n + 1 \in J
  <2>1. n \in Nat /\ n + 1 \in Nat
    OBVIOUS
  <2>2. SUFFICES ASSUME n + 1 <= lt PROVE look[n + 1] \in Seq(R)
    BY <2>1
  <2>3. look[n] \in Seq(R)
    BY <2>1, <2>2
  <2> QED
    BY <1>7, <1>8, <2>1, <2>2, <2>3
<1>11. lt \in J
  <2>1. J \subseteq Nat
    OBVIOUS
  <2> HIDE DEF J
  <2> QED
    BY <1>9, <1>10, <2>1, NumbersInduction
<1> QED
  BY <1>5, <1>11

-----------------------------------------------------------------------------
\* The changes of a past are some of its lts, the first of them too.
LEMMA ChangesTyped ==
  ASSUME NEW S, NEW states \in Seq(S)
  PROVE  /\ Len(states) \in Nat /\ DOMAIN states = 1..Len(states)
         /\ Recall!Changes(states) \subseteq 1..Len(states)
         /\ Recall!Changes(states) \subseteq Nat
         /\ IsFiniteSet(Recall!Changes(states))
         /\ states # <<>> => 1 \in Recall!Changes(states)
<1>1. /\ Len(states) \in Nat /\ DOMAIN states = 1..Len(states)
      /\ states # <<>> => Len(states) # 0
  BY LenProperties, EmptySeq
<1>2. Recall!Changes(states) \subseteq 1..Len(states)
  BY <1>1 DEF Recall!Changes
<1>3. IsFiniteSet(Recall!Changes(states))
  <2>1. IsFiniteSet(1..Len(states))
    BY <1>1, FS_Interval
  <2> QED
    BY <1>2, <2>1, FS_Subset
<1> QED
  BY <1>1, <1>2, <1>3 DEF Recall!Changes

\* Ranks follow the order.
LEMMA RanksGrow ==
  ASSUME NEW S, S \subseteq Nat, IsFiniteSet(S), NEW x \in S, NEW y \in S, x <= y
  PROVE  /\ Cardinality({z \in S : z <= x}) \in Nat
         /\ Cardinality({z \in S : z <= y}) \in Nat
         /\ Cardinality({z \in S : z <= x}) <= Cardinality({z \in S : z <= y})
         /\ Cardinality({z \in S : z <= y}) <= Cardinality(S)
         /\ Cardinality({z \in S : z <= x}) > 0
<1>1. {z \in S : z <= y} \subseteq S /\ {z \in S : z <= x} \subseteq {z \in S : z <= y}
  <2>1. x \in Nat /\ y \in Nat /\ \A z \in S : z \in Nat
    OBVIOUS
  <2>2. \A z \in S : z <= x => z <= y
    BY <2>1
  <2> QED
    BY <2>2
<1>2. x \in {z \in S : z <= x}
  OBVIOUS
<1> DEFINE X == {z \in S : z <= x}
           Y == {z \in S : z <= y}
<1> HIDE DEF X, Y
<1>3. IsFiniteSet(Y) /\ Cardinality(Y) <= Cardinality(S)
  BY <1>1, FS_Subset DEF X, Y
<1>4. IsFiniteSet(X) /\ Cardinality(X) <= Cardinality(Y)
  BY <1>1, <1>3, FS_Subset DEF X, Y
<1>5. Cardinality(X) \in Nat /\ Cardinality(Y) \in Nat
  BY <1>3, <1>4, FS_CardinalityType
<1>6. Cardinality(X) # 0
  BY <1>2, <1>4, FS_EmptySet DEF X
<1> QED
  BY <1>3, <1>4, <1>5, <1>6 DEF X, Y

\* What is read of a past are consecutive changes of it.
LEMMA WindowConsecutive ==
  ASSUME Recall!PastAssumption, NEW S, NEW states \in Seq(S), states # <<>>,
         NEW lt \in Nat
  PROVE  Recall!Consecutive(Recall!Window(states, lt), Recall!Changes(states))
<1> DEFINE lts == Recall!Changes(states)
           many == Cardinality(lts)
           rank(x) == Cardinality({y \in lts : y <= x})
           later == {x \in lts : x >= lt}
           it == rank(Recall!Min(later))
           w == Recall!Window(states, lt)
           most == StateLimit
<1>1. /\ lts \subseteq Nat /\ IsFiniteSet(lts) /\ 1 \in lts
      /\ Len(states) \in Nat /\ lts \subseteq 1..Len(states)
  BY ChangesTyped
<1>2. many \in Nat /\ most \in Nat /\ most > 1
  BY <1>1, FS_CardinalityType DEF Recall!PastAssumption
<1>3. \A x, y \in lts : x <= y =>
         /\ rank(x) \in Nat /\ rank(y) \in Nat /\ rank(x) > 0
         /\ rank(x) <= rank(y) /\ rank(y) <= many
  BY <1>1, RanksGrow
<1>4. w = IF many <= most THEN lts
          ELSE IF later = {} THEN {x \in lts : many - most < rank(x)}
          ELSE IF it = many THEN lts
          ELSE IF it > most
          THEN {x \in lts : it - most < rank(x) /\ rank(x) <= it}
          ELSE {x \in lts : rank(x) <= most}
  BY PastSizes, Zenon DEF Recall!Window
<1>5. later # {} => Recall!Min(later) \in lts /\ it \in Nat
  <2>1. later \subseteq Nat /\ later \subseteq lts
    BY <1>1
  <2>2. later # {} => Recall!Min(later) \in later
    <3> HIDE DEF later
    <3> QED
      BY <2>1, PastMin
  <2>3. \A x \in lts : rank(x) \in Nat
    <3> HIDE DEF rank
    <3> QED
      BY <1>1, <1>3
  <2> HIDE DEF later, rank
  <2> QED
    BY <2>1, <2>2, <2>3
<1>6. \E x \in lts : rank(x) = many
  <2>1. PICK x \in lts : \A y \in lts : x >= y
    <3>1. \A x \in lts : x <= Len(states)
      BY <1>1
    <3> HIDE DEF lts
    <3> QED
      BY <1>1, <3>1, GreatestExists
  <2>2. {y \in lts : y <= x} = lts
    BY <1>1, <2>1
  <2> QED
    BY <2>2, Zenon
<1> HIDE DEF rank, later, lts
<1>7. w \subseteq lts
  BY <1>4
<1>8. w # {}
  BY <1>1, <1>2, <1>3, <1>4, <1>5, <1>6
<1>9. ASSUME NEW x \in w, NEW y \in w, NEW c \in lts, x < c, c < y
      PROVE  c \in w
  <2>1. x \in lts /\ y \in lts /\ x \in Nat /\ y \in Nat /\ c \in Nat
    BY <1>1, <1>7
  <2>2. /\ rank(x) \in Nat /\ rank(y) \in Nat /\ rank(c) \in Nat
        /\ rank(x) <= rank(c) /\ rank(c) <= rank(y)
    BY <1>3, <1>9, <2>1
  <2> QED
    BY <1>2, <1>4, <1>5, <1>9, <2>1, <2>2
<1>10. many <= most => w = lts
  BY <1>4
<1> QED
  BY <1>7, <1>8, <1>9, <1>10, PastSizes DEF Recall!Consecutive, lts

-----------------------------------------------------------------------------
\* The interfaces chosen for an lt are those of the last state up to it, when
\* none were lost while others stayed: take the last change that is chosen;
\* the first state after it that differs would be a change too.
LEMMA ChosenIsLast ==
  ASSUME NEW S, NEW states \in Seq(S), states # <<>>, ~Recall!Shrinks(states),
         NEW lt \in Nat, lt # 0
  PROVE  Recall!Chosen(Recall!InterfaceUpdates(states), lt)
           = states[IF lt <= Len(states) THEN lt ELSE Len(states)]
<1> DEFINE last == Len(states)
           upTo == IF lt <= last THEN lt ELSE last
           lts == {i \in DOMAIN states :
                      \/ i \in {1, last}
                      \/ Recall!TypesChange(states[i - 1], states[i])}
           repeats(i) == \E j \in lts : /\ j < i /\ states[j] = states[i]
                                        /\ \A k \in lts : ~(j < k /\ k < i)
           D == {j \in lts : ~repeats(j)}
           updates == [i \in D |-> states[i]]
           before == {x \in D : x <= lt}
           m == Recall!Max(before)
<1>1. DOMAIN states = 1..last /\ last \in Nat /\ last # 0
  BY LenProperties, EmptySeq
<1>2. lts \subseteq 1..last /\ 1 \in lts
  BY <1>1
<1>3. upTo \in 1..last /\ upTo <= lt
  BY <1>1
<1>4. Recall!InterfaceUpdates(states) = updates
  BY Zenon DEF Recall!InterfaceUpdates
<1>5. DOMAIN updates = D /\ \A i \in D : updates[i] = states[i]
  OBVIOUS
\* Every state that differs from the one before is a change.
<1>6. ASSUME NEW i \in 2..last, states[i] # states[i - 1] PROVE i \in lts
  <2>1. states[i] = {} \/ ~(states[i] \subseteq states[i - 1])
    BY <1>6 DEF Recall!Shrinks
  <2>2. Recall!TypesChange(states[i - 1], states[i])
    BY <1>6, <2>1 DEF Recall!TypesChange
  <2>3. i \in DOMAIN states
    BY <1>1
  <2> QED
    BY <2>2, <2>3, Zenon
<1>7. 1 \in D
  BY <1>1, <1>2
<1>8. m \in before /\ \A y \in before : m >= y
  <2>1. before \subseteq Nat /\ 1 \in before /\ \A x \in before : x <= lt
    BY <1>2, <1>7
  <2> HIDE DEF before
  <2> QED
    BY <2>1, PastMax
<1>9. Recall!Chosen(Recall!InterfaceUpdates(states), lt) = states[m]
  <2>1. D # {} /\ before # {} /\ m \in D
    BY <1>7, <1>8
  <2> HIDE DEF D
  <2>2. Recall!Chosen(updates, lt)
          = IF DOMAIN updates = {} THEN {}
            ELSE IF {x \in DOMAIN updates : x <= lt} # {}
            THEN updates[Recall!Max({x \in DOMAIN updates : x <= lt})]
            ELSE updates[Recall!Min(DOMAIN updates)]
    BY Zenon DEF Recall!Chosen
  <2> HIDE DEF updates
  <2>3. Recall!Chosen(updates, lt) = updates[m]
    BY <1>5, <2>1, <2>2
  <2> QED
    BY <1>4, <1>5, <2>1, <2>3
<1> HIDE DEF m
<1>10. m \in lts /\ m \in 1..last /\ m <= lt /\ m <= upTo
  BY <1>1, <1>2, <1>8
<1>11. SUFFICES ASSUME states[upTo] # states[m] PROVE FALSE
  BY <1>9
<1> DEFINE G == {i \in 1..last : m < i /\ i <= upTo /\ states[i] # states[m]}
<1>12. PICK i \in G : \A y \in G : i <= y
  <2>1. G \subseteq Nat /\ upTo \in G
    BY <1>1, <1>3, <1>10, <1>11
  <2> HIDE DEF G
  <2> QED
    BY <2>1, LeastExists
<1>13. i \in 1..last /\ m < i /\ i <= upTo /\ states[i] # states[m]
  BY <1>12
<1>14. \A j \in 1..last : m < j /\ j < i => states[j] = states[m]
  <2> SUFFICES ASSUME NEW j \in 1..last, m < j, j < i PROVE j \notin G
    BY <1>1, <1>3, <1>13
  <2> HIDE DEF G
  <2> QED
    BY <1>12, <1>13
<1>15. i \in lts
  <2>1. i \in 2..last /\ i - 1 \in 1..last /\ (i - 1 = m \/ m < i - 1) /\ i - 1 < i
    BY <1>1, <1>10, <1>13
  <2>2. states[i - 1] = states[m]
    BY <1>14, <2>1
  <2> HIDE DEF lts
  <2> QED
    BY <1>6, <1>13, <2>1, <2>2
<1>16. i \notin D
  <2>1. i <= lt /\ ~(m >= i)
    BY <1>1, <1>3, <1>10, <1>13
  <2> HIDE DEF D, lts
  <2> QED
    BY <1>8, <2>1
<1> HIDE DEF lts
<1>17. PICK j \in lts : /\ j < i /\ states[j] = states[i]
                        /\ \A k \in lts : ~(j < k /\ k < i)
  BY <1>15, <1>16
<1>18. j \in 1..last /\ ~(j < m)
  BY <1>2, <1>10, <1>13, <1>17
<1>19. j = m \/ m < j
  BY <1>10, <1>18
<1> QED
  BY <1>13, <1>14, <1>17, <1>18, <1>19

-----------------------------------------------------------------------------
\* The rescan service's steps on the past are typed.
LEMMA AskedFor ==
  ASSUME Recall!TypeOK, Recall!ReadInv, NEW w \in Worker, workerAt[w] # "idle"
  PROVE  /\ question[w].of \in Asked /\ question[w].lt \in Nat \ {0}
         /\ question[w].ask = "minter"
<1>1. question[w].ask = "minter"
  BY DEF Recall!ReadInv
<1>2. question[w] \in [ask : {"nothing"}] \cup
                      [ask : {"minter"}, of : Asked, lt : Nat \ {0}]
  BY DEF Recall!TypeOK
<1> QED
  BY <1>1, <1>2

LEMMA PastTyped ==
  ASSUME Recall!PastAssumption, Recall!TypeOK, Recall!ReadInv,
         [Recall!Next]_(Recall!vars)
  PROVE  Recall!TypeOK'
<1> DEFINE States == Version \cup SUBSET Contract
           Questions == [ask : {"nothing"}] \cup
                        [ask : {"minter"}, of : Asked, lt : Nat \ {0}]
           Pcs == {"idle", "load", "put", "create", "again"}
<1> USE DEF Recall!Set
<1>1. /\ past \in [Asked -> Seq(States)] /\ question \in [Worker -> Questions]
      /\ workerAt \in [Worker -> Pcs] /\ read \in [Worker -> SUBSET Nat]
      /\ known \in [Worker -> Nat]
  BY DEF Recall!TypeOK
<1>2. Recall!Nothing \in Questions
  BY DEF Recall!Nothing
<1>3. ASSUME NEW w \in Worker, NEW v, Recall!Reply(w, v)
      PROVE  /\ question' \in [Worker -> Questions]
             /\ workerAt' \in [Worker -> Pcs] /\ read' \in [Worker -> SUBSET Nat]
             /\ known' \in [Worker -> Nat]
  <2> HIDE DEF Questions
  <2> QED
    BY <1>1, <1>2, <1>3 DEF Recall!Reply
<1>4. ASSUME NEW w \in Worker, Recall!PutDone(w)
      PROVE  /\ UNCHANGED past /\ question' \in [Worker -> Questions]
             /\ workerAt' \in [Worker -> Pcs] /\ read' \in [Worker -> SUBSET Nat]
             /\ known' \in [Worker -> Nat]
  <2>1. Recall!Rest(w) \in SUBSET Nat
    BY <1>1 DEF Recall!Rest
  <2> HIDE DEF Questions
  <2> QED
    BY <1>1, <1>4, <2>1 DEF Recall!PutDone
<1> HIDE DEF Questions, States
<1> SUFFICES /\ past' \in [Asked -> Seq(States)] /\ question' \in [Worker -> Questions]
             /\ workerAt' \in [Worker -> Pcs] /\ read' \in [Worker -> SUBSET Nat]
             /\ known' \in [Worker -> Nat]
  BY DEF Recall!TypeOK, Questions, States
<1>5. ASSUME NEW a \in Asked, Recall!NewState(a)
      PROVE  past' \in [Asked -> Seq(States)]
  <2>1. PICK s \in States : past' = [past EXCEPT ![a] = Append(@, s)]
    BY <1>5 DEF Recall!NewState, States
  <2>2. Append(past[a], s) \in Seq(States)
    BY <1>1, AppendProperties
  <2> QED
    BY <1>1, <2>1, <2>2
<1>6. ASSUME NEW a \in Asked, Recall!NewState(a)
      PROVE  UNCHANGED <<question, workerAt, read, known>>
  BY <1>6 DEF Recall!NewState
<1>7. ASSUME NEW w \in Worker, NEW a \in Asked, NEW lt \in 1..MaxStates,
             Recall!AskMinter(w, a, lt)
      PROVE  /\ UNCHANGED past /\ question' \in [Worker -> Questions]
             /\ workerAt' \in [Worker -> Pcs] /\ read' \in [Worker -> SUBSET Nat]
             /\ known' \in [Worker -> Nat]
  <2>1. [ask |-> "minter", of |-> a, lt |-> lt] \in Questions
    <3>1. lt \in Nat \ {0}
      BY DEF Recall!PastAssumption
    <3> QED
      BY <3>1 DEF Questions
  <2>2. UNCHANGED past
    BY <1>7 DEF Recall!AskMinter
  <2>3. CASE Recall!Fitting(a, lt) # {}
    <3>1. Recall!Reply(w, Recall!Found(a, lt))
      BY <1>7, <2>3 DEF Recall!AskMinter
    <3> QED
      BY <1>3, <2>2, <3>1
  <2>4. CASE Recall!Fitting(a, lt) = {}
    BY <1>1, <1>7, <2>1, <2>2, <2>4 DEF Recall!AskMinter
  <2> QED
    BY <2>3, <2>4
<1>8. ASSUME NEW w \in Worker, NEW a \in Asked, NEW lt \in 1..MaxStates,
             Recall!AskTypes(w, a, lt)
      PROVE  /\ UNCHANGED past /\ question' \in [Worker -> Questions]
             /\ workerAt' \in [Worker -> Pcs] /\ read' \in [Worker -> SUBSET Nat]
             /\ known' \in [Worker -> Nat]
  <2>1. \E v : Recall!Reply(w, v)
    BY <1>8, Zenon DEF Recall!AskTypes
  <2>2. UNCHANGED past
    BY <1>8 DEF Recall!AskTypes
  <2> QED
    BY <1>3, <2>1, <2>2
<1>9. ASSUME NEW w \in Worker, Recall!Load(w)
      PROVE  /\ UNCHANGED past /\ question' \in [Worker -> Questions]
             /\ workerAt' \in [Worker -> Pcs] /\ read' \in [Worker -> SUBSET Nat]
             /\ known' \in [Worker -> Nat]
  <2>1. UNCHANGED past
    BY <1>9 DEF Recall!Load
  <2>2. CASE Recall!Reply(w, Recall!Nothing)
    BY <1>3, <2>1, <2>2
  <2>3. CASE ~Recall!Reply(w, Recall!Nothing)
    <3> DEFINE a == question[w].of
               window == Recall!Window(past[a], question[w].lt)
    <3>1. /\ known' = [known EXCEPT ![w] = Len(past[a])]
          /\ read' = [read EXCEPT ![w] = window]
          /\ workerAt' = [workerAt EXCEPT ![w] = "put"]
          /\ question' = question /\ past[a] # <<>>
      BY <1>9, <2>3 DEF Recall!Load
    <3>2. Recall!Window(past[a], question[w].lt) \subseteq Recall!Changes(past[a])
      BY Zenon DEF Recall!Window
    <3>3. Len(past[a]) \in Nat /\ window \subseteq Nat
      <4>1. past[a] \in Seq(States)
        BY <1>1, <1>9, AskedFor DEF Recall!Load
      <4> HIDE DEF a
      <4> QED
        BY <3>2, <4>1, ChangesTyped DEF a
    <3> HIDE DEF window, a
    <3> QED
      BY <1>1, <2>1, <3>1, <3>3
  <2> QED
    BY <2>2, <2>3
<1>10. ASSUME NEW w \in Worker, Recall!PutState(w)
      PROVE  /\ UNCHANGED past /\ question' \in [Worker -> Questions]
             /\ workerAt' \in [Worker -> Pcs] /\ read' \in [Worker -> SUBSET Nat]
             /\ known' \in [Worker -> Nat]
  <2>1. CASE Recall!PutDone(w)
    BY <1>4, <2>1
  <2>2. CASE ~Recall!PutDone(w)
    BY <1>1, <1>10, <2>2 DEF Recall!PutState
  <2> QED
    BY <2>1, <2>2
<1>11. ASSUME NEW w \in Worker, Recall!Create(w)
      PROVE  /\ UNCHANGED past /\ question' \in [Worker -> Questions]
             /\ workerAt' \in [Worker -> Pcs] /\ read' \in [Worker -> SUBSET Nat]
             /\ known' \in [Worker -> Nat]
  BY <1>4, <1>11 DEF Recall!Create
<1>12. ASSUME NEW w \in Worker, Recall!LookAgain(w)
      PROVE  /\ UNCHANGED past /\ question' \in [Worker -> Questions]
             /\ workerAt' \in [Worker -> Pcs] /\ read' \in [Worker -> SUBSET Nat]
             /\ known' \in [Worker -> Nat]
  <2>1. \E v : Recall!Reply(w, v)
    BY <1>12, Zenon DEF Recall!LookAgain
  <2>2. UNCHANGED past
    BY <1>12 DEF Recall!LookAgain
  <2> QED
    BY <1>3, <2>1, <2>2
<1>13. CASE UNCHANGED Recall!vars
  BY <1>1, <1>13 DEF Recall!vars
<1> QED
  BY <1>1, <1>5, <1>6, <1>7, <1>8, <1>9, <1>10, <1>11, <1>12, <1>13
  DEF Recall!Next, Recall!Step, Recall!Minter

-----------------------------------------------------------------------------
\* The caches are sequences of entries, each with an account and what is kept
\* of it.
Entries(A, F) == UNION {{a} \X F[a] : a \in A}
MinterEntries == Entries(Asked, [a \in Asked |-> Seq(Recall!StatesRead(a))])
TypesEntries  == Entries(Asked, [a \in Asked |-> Recall!TypesRead(a)])

LEMMA EntriesAre ==
  ASSUME NEW m, NEW A, NEW F
  PROVE  m \in Seq(Entries(A, F))
           <=> /\ m \in Seq(Recall!Range(m))
               /\ \A e \in Recall!Range(m) : e[1] \in A /\ e \in {e[1]} \X F[e[1]]
<1>1. \A e : e \in Entries(A, F) <=> e[1] \in A /\ e \in {e[1]} \X F[e[1]]
  BY DEF Entries
<1>2. m \in Seq(Entries(A, F)) <=> /\ m \in Seq(Recall!Range(m))
                                   /\ \A e \in Recall!Range(m) : e \in Entries(A, F)
  BY SeqByRange
<1> QED
  BY <1>1, <1>2

LEMMA CachesAre ==
  /\ Recall!CachesInv => /\ minters \in Seq(MinterEntries)
                         /\ task # "states" => interfaces \in Seq(TypesEntries)
                         /\ task = "states" => interfaces = <<>>
  /\ (/\ minters \in Seq(MinterEntries)
      /\ task # "states" => interfaces \in Seq(TypesEntries)
      /\ task = "states" => interfaces = <<>>)' => Recall!CachesInv'
<1>1. ASSUME Recall!CachesInv
      PROVE  /\ minters \in Seq(MinterEntries)
             /\ task # "states" => interfaces \in Seq(TypesEntries)
             /\ task = "states" => interfaces = <<>>
  <2> DEFINE M == [a \in Asked |-> Seq(Recall!StatesRead(a))]
             T == [a \in Asked |-> Recall!TypesRead(a)]
  <2>1. /\ minters \in Seq(Recall!Range(minters))
        /\ interfaces \in Seq(Recall!Range(interfaces))
        /\ \A e \in Recall!Range(minters) :
              e[1] \in Asked /\ e \in {e[1]} \X M[e[1]]
        /\ task = "states" => interfaces = <<>>
        /\ task # "states" => \A e \in Recall!Range(interfaces) :
              e[1] \in Asked /\ e \in {e[1]} \X T[e[1]]
    BY <1>1 DEF Recall!CachesInv
  <2> HIDE DEF M, T
  <2>2. minters \in Seq(Entries(Asked, M))
    BY <2>1, EntriesAre
  <2>3. task # "states" => interfaces \in Seq(Entries(Asked, T))
    BY <2>1, EntriesAre
  <2> QED
    BY <2>1, <2>2, <2>3, Zenon DEF MinterEntries, TypesEntries, M, T
<1>2. ASSUME (/\ minters \in Seq(MinterEntries)
              /\ task # "states" => interfaces \in Seq(TypesEntries)
              /\ task = "states" => interfaces = <<>>)'
      PROVE  Recall!CachesInv'
  <2> DEFINE M == [a \in Asked |-> Seq(Recall!StatesRead(a)')]
             T == [a \in Asked |-> Recall!TypesRead(a)']
  <2>1. /\ MinterEntries' = Entries(Asked, M)
        /\ TypesEntries' = Entries(Asked, T)
    BY Zenon DEF MinterEntries, TypesEntries
  <2>2. \A a \in Asked : /\ M[a] = Seq(Recall!StatesRead(a)')
                         /\ T[a] = Recall!TypesRead(a)'
    OBVIOUS
  <2> HIDE DEF M, T
  <2>3. /\ minters' \in Seq(Recall!Range(minters'))
        /\ \A e \in Recall!Range(minters') :
              e[1] \in Asked /\ e \in {e[1]} \X M[e[1]]
    BY <1>2, <2>1, EntriesAre
  <2>4. task' # "states" =>
           /\ interfaces' \in Seq(Recall!Range(interfaces'))
           /\ \A e \in Recall!Range(interfaces') :
                 e[1] \in Asked /\ e \in {e[1]} \X T[e[1]]
    BY <1>2, <2>1, EntriesAre
  <2>5. <<>> \in Seq(Recall!Range(<<>>))
    OBVIOUS
  <2>6. interfaces' \in Seq(Recall!Range(interfaces'))
    BY <1>2, <2>4, <2>5
  <2> QED
    BY <1>2, <2>2, <2>3, <2>4, <2>6 DEF Recall!CachesInv
<1> QED
  BY <1>1, <1>2

\* A step that leaves the past alone keeps what is kept of it.
LEMMA CachesStay ==
  ASSUME Recall!CachesInv, UNCHANGED <<past, task>>,
         minters' \in Seq(MinterEntries), UNCHANGED interfaces
  PROVE  Recall!CachesInv'
<1>1. \A a \in Asked : /\ Recall!StatesRead(a)' = Recall!StatesRead(a)
                       /\ Recall!TypesRead(a)' = Recall!TypesRead(a)
  BY DEF Recall!StatesRead, Recall!TypesRead, Recall!StateFits, Recall!Seen
<1>2. MinterEntries' = MinterEntries /\ TypesEntries' = TypesEntries
  BY <1>1 DEF MinterEntries, TypesEntries
<1> QED
  BY <1>2, CachesAre

\* What the caches hold of an account, and what a walk makes of it.
LEMMA MintersHeld ==
  ASSUME Recall!CachesInv, NEW a \in Asked
  PROVE  /\ Recall!StatesOf(a) \in Seq(Recall!StatesRead(a))
         /\ \A k \in Recall!Keys(Recall!StatesOf(a)) :
               <<k, Recall!Value(Recall!StatesOf(a), k)>> \in Recall!StatesRead(a)
         /\ \A e \in Recall!StatesRead(a) : e = <<e[1], e[2]>>
         /\ \A e \in MinterEntries : e = <<e[1], e[2]>>
         /\ \A e \in TypesEntries : e = <<e[1], e[2]>>
<1>1. \A e \in MinterEntries \cup TypesEntries : e = <<e[1], e[2]>>
  BY DEF MinterEntries, TypesEntries, Entries
<1>2. \A e \in Recall!StatesRead(a) : e = <<e[1], e[2]>>
  BY DEF Recall!StatesRead
<1>3. Recall!StatesOf(a) \in Seq(Recall!StatesRead(a))
  <2>1. CASE a \notin Recall!Keys(minters)
    BY <2>1 DEF Recall!StatesOf
  <2>2. CASE a \in Recall!Keys(minters)
    <3>1. <<a, Recall!Value(minters, a)>> \in MinterEntries
      BY <1>1, <2>2, CachesAre, HeldValue
    <3>2. Recall!Value(minters, a) \in Seq(Recall!StatesRead(a))
      BY <3>1 DEF MinterEntries, Entries
    <3> QED
      BY <2>2, <3>2 DEF Recall!StatesOf
  <2> QED
    BY <2>1, <2>2
<1>4. \A k \in Recall!Keys(Recall!StatesOf(a)) :
         <<k, Recall!Value(Recall!StatesOf(a), k)>> \in Recall!StatesRead(a)
  BY <1>2, <1>3, HeldValue
<1> QED
  BY <1>1, <1>2, <1>3, <1>4

\* An account gets other states of it.
LEMMA MintersPut ==
  ASSUME Recall!CachesInv, NEW a \in Asked,
         NEW c \in Seq(Recall!StatesRead(a))
  PROVE  Recall!Put(minters, a, c, AddressLimit) \in Seq(MinterEntries)
<1>1. <<a, c>> \in MinterEntries
  BY DEF MinterEntries, Entries
<1>2. \A e \in MinterEntries : e = <<e[1], e[2]>>
  BY MintersHeld
<1>3. minters \in Seq(MinterEntries)
  BY CachesAre
<1> QED
  BY <1>1, <1>2, <1>3, PutKeeps

LEMMA GetKeeps ==
  ASSUME Recall!CachesInv, NEW a \in Asked, NEW lt \in Nat, Recall!Get(a, lt)
  PROVE  minters' \in Seq(MinterEntries)
<1>1. CASE a \notin Recall!Keys(minters)
  BY <1>1, CachesAre DEF Recall!Get
<1>2. CASE a \in Recall!Keys(minters)
  <2>1. PICK last :
           minters' = Recall!Put(minters, a,
                          Recall!Looked(Recall!StatesOf(a), lt, last), AddressLimit)
    BY <1>2, Zenon DEF Recall!Get
  <2>2. Recall!Looked(Recall!StatesOf(a), lt, last) \in Seq(Recall!StatesRead(a))
    BY MintersHeld, LookedKeeps
  <2> QED
    BY <2>1, <2>2, MintersPut
<1> QED
  BY <1>1, <1>2

-----------------------------------------------------------------------------
\* What a reader knew of an account is a past too.
LEMMA SeenTyped ==
  ASSUME Recall!TypeOK, NEW a \in Asked, NEW n \in 0..Len(past[a])
  PROVE  /\ past[a] \in Seq(Version \cup SUBSET Contract)
         /\ SubSeq(past[a], 1, n) \in Seq(Version \cup SUBSET Contract)
         /\ Recall!Seen(a, n) \subseteq 1..n
         /\ n = Len(past[a]) => Recall!Seen(a, n) = Recall!Changes(past[a])
<1> DEFINE S == Version \cup SUBSET Contract
           s == SubSeq(past[a], 1, n)
<1>1. past[a] \in Seq(S) /\ Len(past[a]) \in Nat /\ n \in Nat
  BY LenProperties DEF Recall!TypeOK
<1> HIDE DEF S
<1>2. \A i \in 1..n : past[a][i] \in S
  BY <1>1, ElementOfSeq
<1>3. s \in Seq(S) /\ Len(s) = n
  BY <1>1, <1>2, SubSeqProperties
<1>4. n = Len(past[a]) => s = past[a]
  BY <1>1, SubSeqFull
<1>5. Recall!Seen(a, n) = Recall!Changes(s)
  BY Zenon DEF Recall!Seen
<1> HIDE DEF s
<1>6. Recall!Changes(s) \subseteq 1..n
  BY <1>3, ChangesTyped
<1> QED
  BY <1>1, <1>3, <1>4, <1>5, <1>6 DEF s, S

\* A minter's state that is found fits the past its reader knew.
LEMMA FoundFits ==
  ASSUME Recall!PastAssumption, Recall!TypeOK, Recall!CachesInv, NEW a \in Asked,
         NEW lt \in Nat, Recall!Fitting(a, lt) # {}
  PROVE  Recall!MinterFits(Recall!Found(a, lt))
<1> DEFINE c == Recall!StatesOf(a)
           fits == Recall!Fitting(a, lt)
           k == Recall!Max(fits)
           e == Recall!Value(c, k)
           r == Recall!Found(a, lt)
           seen == Recall!Seen(a, e.known)
<1>1. \A x \in fits : /\ x \in Recall!Keys(c) /\ x <= lt
                      /\ Recall!Until(Recall!Value(c, x).next, lt)
  BY DEF Recall!Fitting
<1>2. \A x \in Recall!Keys(c) : <<x, Recall!Value(c, x)>> \in Recall!StatesRead(a)
  BY MintersHeld
<1>3. fits \subseteq Nat
  <2>1. Len(past[a]) \in Nat
    BY LenProperties DEF Recall!TypeOK
  <2>2. \A x, v : <<x, v>> \in Recall!StatesRead(a) => x \in 0..Len(past[a])
    BY DEF Recall!StatesRead
  <2> HIDE DEF fits, c
  <2>3. ASSUME NEW x \in fits PROVE x \in 0..Len(past[a])
    BY <1>1, <1>2, <2>2
  <2> QED
    BY <2>1, <2>3
<1>4. k \in fits
  <2>1. fits # {} /\ \A x \in fits : x <= lt
    BY <1>1
  <2> HIDE DEF fits
  <2> QED
    BY <1>3, <2>1, PastMax
<1> HIDE DEF fits, c, k
<1>5. k <= lt /\ Recall!Until(e.next, lt) /\ <<k, e>> \in Recall!StatesRead(a)
  BY <1>1, <1>2, <1>4
<1> HIDE DEF e
<1>6. /\ k \in Nat /\ e.next \in Nat /\ e.known \in 0..Len(past[a])
      /\ Recall!StateFits(a, k, e)
  <2>1. Len(past[a]) \in Nat
    BY LenProperties DEF Recall!TypeOK
  <2> QED
    BY <1>5, <2>1 DEF Recall!StatesRead
<1>7. /\ r.of = a /\ r.lt = lt /\ r.state = k /\ r.entry = e
  BY DEF Recall!Found, k, e, fits, c
<1>8. Recall!Changes(Recall!Known(r)) = seen
  BY <1>7 DEF Recall!Known, Recall!Seen
<1>9. seen \subseteq Nat
  BY <1>6, SeenTyped
<1> HIDE DEF seen, r
<1>10. /\ k \in seen
       /\ e.next # 0 => \A x \in seen : ~(k < x /\ x < e.next)
       /\ e.next = 0 /\ Recall!Cardinality(seen) <= StateLimit
             => \A x \in seen : x <= k
  BY <1>6 DEF Recall!StateFits, seen
<1>11. ASSUME e.next # 0 \/ Recall!Cardinality(seen) <= StateLimit,
              NEW x \in seen
       PROVE  ~(k < x /\ x < lt)
  <2>1. x \in Nat
    BY <1>9
  <2>2. CASE e.next # 0
    BY <1>5, <1>6, <1>10, <2>1, <2>2 DEF Recall!Until
  <2>3. CASE e.next = 0
    BY <1>6, <1>10, <1>11, <2>1, <2>3
  <2> QED
    BY <2>2, <2>3
<1>12. Recall!MinterFits(r)
  BY <1>5, <1>7, <1>8, <1>10, <1>11 DEF Recall!MinterFits
<1> QED
  BY <1>12 DEF r

\* What is put fits it, and what is left are consecutive changes still.
LEMMA PutFits ==
  ASSUME Recall!PastAssumption, Recall!TypeOK, Recall!ReadInv, NEW w \in Worker,
         workerAt[w] \in {"put", "create"}
  PROVE  /\ <<Recall!First(w), Recall!Entry(w)>>
               \in Recall!StatesRead(question[w].of)
         /\ Recall!Rest(w) # {} =>
               Recall!Consecutive(Recall!Rest(w),
                                  Recall!Seen(question[w].of, known[w]))
<1> DEFINE a == question[w].of
           n == known[w]
           part == read[w]
           k == Recall!First(w)
           rest == Recall!Rest(w)
           e == Recall!Entry(w)
           all == Recall!Seen(a, n)
<1>1. a \in Asked
  BY AskedFor
<1>2. Len(past[a]) \in Nat /\ n \in 0..Len(past[a])
  <2>1. past[a] \in Seq(Version \cup SUBSET Contract) /\ n \in Nat
    BY <1>1 DEF Recall!TypeOK
  <2> QED
    BY <2>1, LenProperties DEF Recall!ReadInv
<1>3. all \subseteq 1..n
  BY <1>1, <1>2, SeenTyped
<1>4. Recall!Consecutive(part, all)
  BY DEF Recall!ReadInv
<1> HIDE DEF all
<1>5. /\ part # {} /\ part \subseteq all
      /\ \A x, y \in part, c \in all : x < c /\ c < y => c \in part
      /\ Recall!Cardinality(all) <= StateLimit
            => \A x \in part, c \in all : x < c => c \in part
  BY <1>4 DEF Recall!Consecutive
<1>6. k \in part /\ \A y \in part : k <= y
  <2> HIDE DEF part, n
  <2>1. part \subseteq Nat
    BY <1>2, <1>3, <1>5
  <2> QED
    BY <1>5, <2>1, PastMin DEF Recall!First, part
<1>7. rest = part \ {k}
  BY Zenon DEF Recall!Rest
<1>8. /\ e = [next |-> e.next, known |-> n]
      /\ rest # {} => e.next \in rest /\ \A y \in rest : e.next <= y
      /\ rest = {} => e.next = 0
  <2>1. e = [next |-> IF rest # {} THEN Recall!Min(rest) ELSE 0, known |-> n]
    BY Zenon DEF Recall!Entry
  <2>2. rest \subseteq Nat
    BY <1>2, <1>3, <1>5, <1>7
  <2> HIDE DEF rest, e
  <2> QED
    BY <2>1, <2>2, PastMin
<1> HIDE DEF part, k, rest, e
<1>9. all \subseteq Nat /\ k \in all /\ k \in Nat /\ rest \subseteq all
  BY <1>2, <1>3, <1>5, <1>6, <1>7
<1>10. Recall!StateFits(a, k, e)
  <2>1. ASSUME NEW c \in all, e.next # 0 PROVE ~(k < c /\ c < e.next)
    <3> SUFFICES ASSUME k < c, c < e.next PROVE FALSE
      OBVIOUS
    <3>1. e.next \in rest /\ e.next \in part /\ e.next \in Nat /\ c \in Nat
      BY <1>7, <1>8, <1>9, <2>1
    <3>2. c \in part /\ c # k
      BY <1>5, <1>6, <1>9, <3>1
    <3> QED
      BY <1>7, <1>8, <3>1, <3>2
  <2>2. ASSUME e.next = 0, Recall!Cardinality(all) <= StateLimit, NEW c \in all
        PROVE  c <= k
    <3> SUFFICES ASSUME k < c PROVE FALSE
      BY <1>9
    <3>1. c \in part /\ c # k
      BY <1>5, <1>6, <1>9, <2>2
    <3>2. rest # {}
      BY <1>7, <3>1
    <3>3. e.next \in all /\ e.next # 0
      BY <1>3, <1>8, <1>9, <3>2
    <3> QED
      BY <2>2, <3>3
  <2>3. Recall!Seen(a, e.known) = all
    BY <1>8 DEF all
  <2> QED
    BY <1>9, <2>1, <2>2, <2>3 DEF Recall!StateFits
<1>11. <<k, e>> \in Recall!StatesRead(a)
  <2> DEFINE lts == 0..Len(past[a])
  <2>1. k \in lts /\ n \in lts
    BY <1>2, <1>3, <1>9
  <2>2. e.next \in lts
    <3>1. 0 \in lts
      BY <1>2
    <3>2. rest # {} => e.next \in 1..n
      BY <1>3, <1>8, <1>9
    <3> QED
      BY <1>2, <1>8, <3>1, <3>2
  <2>3. e \in [next : lts, known : lts]
    <3> HIDE DEF lts, n
    <3> QED
      BY <1>8, <2>1, <2>2
  <2>4. <<k, e>> \in lts \X [next : lts, known : lts]
    BY <2>1, <2>3
  <2> HIDE DEF lts
  <2>5. <<k, e>> \in {x \in lts \X [next : lts, known : lts] :
                        Recall!StateFits(a, x[1], x[2])}
    BY <1>10, <2>4
  <2> QED
    BY <2>5 DEF Recall!StatesRead, lts
<1>12. ASSUME rest # {} PROVE Recall!Consecutive(rest, all)
  <2>1. ASSUME NEW x \in rest, NEW c \in all, x < c, c \in part PROVE c \in rest
    <3>1. x \in part /\ x \in Nat /\ c \in Nat /\ k <= x
      BY <1>6, <1>7, <1>9, <2>1
    <3> QED
      BY <1>7, <1>9, <2>1, <3>1
  <2>2. \A x, y \in rest, c \in all : x < c /\ c < y => c \in rest
    BY <1>5, <1>7, <2>1
  <2>3. Recall!Cardinality(all) <= StateLimit
           => \A x \in rest, c \in all : x < c => c \in rest
    BY <1>5, <1>7, <2>1
  <2> QED
    BY <1>9, <1>12, <2>2, <2>3 DEF Recall!Consecutive
<1> QED
  BY <1>11, <1>12 DEF k, e, rest, all

\* The interfaces of a message that come from the cache fit it.
LEMMA TypesHeld ==
  ASSUME Recall!TypeOK, NEW a \in Asked, NEW lt \in Nat, lt # 0,
         NEW entry \in Recall!TypesRead(a),
         NEW r, r = [ask |-> "types", of |-> a, lt |-> lt, entry |-> entry,
                     types |-> Recall!Chosen(entry.updates, lt)]
  PROVE  Recall!TypesFit(r)
<1>1. PICK n \in 0..Len(past[a]) :
         entry = [updates |-> Recall!InterfaceUpdates(SubSeq(past[a], 1, n)),
                  known |-> n]
  BY DEF Recall!TypesRead
<1> DEFINE states == SubSeq(past[a], 1, n)
<1>2. states \in Seq(Version \cup SUBSET Contract)
  BY SeenTyped
<1>3. /\ Recall!Known(r) = states
      /\ r.types = Recall!Chosen(Recall!InterfaceUpdates(states), lt)
      /\ r.lt = lt
  BY <1>1 DEF Recall!Known
<1> HIDE DEF states
<1>4. states # <<>> /\ ~Recall!Shrinks(states)
         => r.types = states[IF lt <= Len(states) THEN lt ELSE Len(states)]
  BY <1>2, <1>3, ChosenIsLast
<1> QED
  BY <1>3, <1>4 DEF Recall!TypesFit

-----------------------------------------------------------------------------
\* A newer state changes nothing of what a reader knew.
LEMMA SeenStays ==
  ASSUME Recall!TypeOK, NEW b \in Asked, Recall!NewState(b), NEW a \in Asked
  PROVE  /\ Len(past[a]) \in Nat /\ Len(past'[a]) \in Nat
         /\ Len(past[a]) <= Len(past'[a])
         /\ \A n \in 0..Len(past[a]) :
               SubSeq(past'[a], 1, n) = SubSeq(past[a], 1, n)
<1> DEFINE S == Version \cup SUBSET Contract
<1>1. past \in [Asked -> Seq(S)]
  BY DEF Recall!TypeOK
<1>2. PICK s \in S : past' = [past EXCEPT ![b] = Append(@, s)]
  BY DEF Recall!NewState
<1> HIDE DEF S
<1>3. CASE a # b
  <2>1. past'[a] = past[a] /\ Len(past[a]) \in Nat
    BY <1>1, <1>2, <1>3, LenProperties
  <2> QED
    BY <2>1
<1>4. CASE a = b
  <2> DEFINE p == past[a]
  <2>1. p \in Seq(S) /\ past'[a] = Append(p, s)
    BY <1>1, <1>2, <1>4
  <2> HIDE DEF p
  <2>2. /\ Len(p) \in Nat /\ Len(Append(p, s)) = Len(p) + 1
        /\ Append(p, s) = p \o <<s>> /\ <<s>> \in Seq(S)
    BY <2>1, LenProperties, AppendProperties, AppendIsConcat
  <2>3. ASSUME NEW n \in 0..Len(p) PROVE SubSeq(Append(p, s), 1, n) = SubSeq(p, 1, n)
    <3>1. CASE n = 0
      BY <3>1, SubSeqEmpty
    <3>2. CASE n # 0
      <4>1. n \in 1..Len(p) /\ 1 \in 1..Len(p)
        BY <2>2, <3>2
      <4> QED
        BY <2>1, <2>2, <4>1, SubSeqOfConcat1
    <3> QED
      BY <3>1, <3>2
  <2> QED
    BY <2>1, <2>2, <2>3 DEF p
<1> QED
  BY <1>3, <1>4

LEMMA NewStateKeeps ==
  ASSUME Recall!PastAssumption, Recall!TypeOK, Recall!CachesInv, Recall!ReadInv,
         NEW b \in Asked, Recall!NewState(b)
  PROVE  Recall!CachesInv' /\ Recall!ReadInv' /\ Recall!AnswersFitPast'
<1>1. UNCHANGED <<task, minters, interfaces, question, workerAt, read, known>>
  BY DEF Recall!NewState, Recall!caches
<1>2. ASSUME NEW a \in Asked, NEW n \in 0..Len(past[a])
      PROVE  Recall!Seen(a, n)' = Recall!Seen(a, n)
  BY <1>2, SeenStays DEF Recall!Seen
<1>3. ASSUME NEW a \in Asked
      PROVE  Recall!StatesRead(a) \subseteq Recall!StatesRead(a)'
  <2> DEFINE lts == 0..Len(past[a])
             later == 0..Len(past'[a])
  <2>1. lts \subseteq later
    BY SeenStays
  <2>2. ASSUME NEW e \in lts \X [next : lts, known : lts],
               Recall!StateFits(a, e[1], e[2])
        PROVE  Recall!StateFits(a, e[1], e[2])'
    <3>1. e[2].known \in lts
      OBVIOUS
    <3>2. Recall!Seen(a, e[2].known)' = Recall!Seen(a, e[2].known)
      BY <1>2, <3>1
    <3>3. e' = e
      OBVIOUS
    <3> QED
      BY <2>2, <3>2 DEF Recall!StateFits
  <2>3. lts \X [next : lts, known : lts] \subseteq later \X [next : later, known : later]
    <3> HIDE DEF lts, later
    <3> QED
      BY <2>1
  <2> QED
    BY <2>2, <2>3 DEF Recall!StatesRead
<1>4. ASSUME NEW a \in Asked
      PROVE  Recall!TypesRead(a) \subseteq Recall!TypesRead(a)'
  <2>1. \A n \in 0..Len(past[a]) :
           /\ n \in 0..Len(past'[a])
           /\ SubSeq(past'[a], 1, n) = SubSeq(past[a], 1, n)
    BY SeenStays
  <2> DEFINE T(n, s) == [updates |-> Recall!InterfaceUpdates(s), known |-> n]
  <2>2. /\ Recall!TypesRead(a)
             = {T(n, SubSeq(past[a], 1, n)) : n \in 0..Len(past[a])}
        /\ Recall!TypesRead(a)'
             = {T(n, SubSeq(past'[a], 1, n)) : n \in 0..Len(past'[a])}
    BY DEF Recall!TypesRead
  <2> HIDE DEF T
  <2> QED
    BY <2>1, <2>2
<1>5. Recall!CachesInv'
  <2>1. MinterEntries \subseteq MinterEntries'
    <3>1. \A a \in Asked : Seq(Recall!StatesRead(a)) \subseteq Seq(Recall!StatesRead(a)')
      BY <1>3, SeqMonotonic
    <3> QED
      BY <3>1 DEF MinterEntries, Entries
  <2>2. TypesEntries \subseteq TypesEntries'
    BY <1>4 DEF TypesEntries, Entries
  <2>3. minters' \in Seq(MinterEntries')
    BY <1>1, <2>1, CachesAre, SeqMonotonic
  <2>4. task # "states" => interfaces' \in Seq(TypesEntries')
    BY <1>1, <2>2, CachesAre, SeqMonotonic
  <2> QED
    BY <1>1, <2>3, <2>4, CachesAre
<1>6. Recall!ReadInv'
  <2> SUFFICES ASSUME NEW w \in Worker
               PROVE  (/\ workerAt[w] # "idle" => question[w].ask = "minter"
                       /\ workerAt[w] \in {"put", "create"} =>
                             /\ known[w] <= Len(past[question[w].of])
                             /\ Recall!Consecutive(read[w],
                                   Recall!Seen(question[w].of, known[w])))'
    BY DEF Recall!ReadInv
  <2>1. workerAt[w] # "idle" => question[w].ask = "minter"
    BY DEF Recall!ReadInv
  <2>2. ASSUME workerAt[w] \in {"put", "create"}
        PROVE  /\ known[w] <= Len(past'[question[w].of])
               /\ Recall!Consecutive(read[w], Recall!Seen(question[w].of, known[w])')
    <3>1. question[w].of \in Asked /\ known[w] \in Nat
      BY <2>2, AskedFor DEF Recall!TypeOK
    <3>2. /\ known[w] <= Len(past[question[w].of])
          /\ Recall!Consecutive(read[w], Recall!Seen(question[w].of, known[w]))
      BY <2>2 DEF Recall!ReadInv
    <3>3. known[w] \in 0..Len(past[question[w].of])
      BY <3>1, <3>2, SeenStays
    <3>4. known[w] <= Len(past'[question[w].of])
      BY <3>1, <3>2, SeenStays
    <3>5. Recall!Seen(question[w].of, known[w])' = Recall!Seen(question[w].of, known[w])
      BY <1>1, <1>2, <3>1, <3>3
    <3> QED
      BY <3>2, <3>4, <3>5
  <2> QED
    BY <1>1, <2>1, <2>2
<1>7. Recall!AnswersFitPast'
  BY DEF Recall!NewState, Recall!Nothing, Recall!AnswersFitPast
<1> QED
  BY <1>5, <1>6, <1>7

-----------------------------------------------------------------------------
\* The steps of a worker leave the others alone.
LEMMA ReplyReads ==
  ASSUME Recall!TypeOK, Recall!ReadInv, UNCHANGED past,
         NEW w \in Worker, NEW v, Recall!Reply(w, v)
  PROVE  Recall!ReadInv'
<1>1. /\ workerAt'[w] = "idle"
      /\ \A u \in Worker \ {w} :
            /\ workerAt'[u] = workerAt[u] /\ question'[u] = question[u]
            /\ read'[u] = read[u] /\ known'[u] = known[u]
  BY DEF Recall!TypeOK, Recall!Reply, Recall!Set
<1> QED
  BY <1>1 DEF Recall!ReadInv, Recall!Seen

LEMMA PutReads ==
  ASSUME Recall!PastAssumption, Recall!TypeOK, Recall!ReadInv, UNCHANGED past,
         NEW w \in Worker, workerAt[w] \in {"put", "create"}, Recall!PutDone(w)
  PROVE  Recall!ReadInv'
<1>1. /\ \A u \in Worker \ {w} :
            /\ workerAt'[u] = workerAt[u] /\ read'[u] = read[u]
      /\ UNCHANGED <<question, known>>
      /\ read'[w] = Recall!Rest(w)
      /\ workerAt'[w] = IF Recall!Rest(w) # {} THEN "put" ELSE "again"
  BY DEF Recall!TypeOK, Recall!PutDone, Recall!Set
<1>2. Recall!Rest(w) # {} =>
         Recall!Consecutive(Recall!Rest(w), Recall!Seen(question[w].of, known[w]))
  BY PutFits
<1>3. /\ question[w].ask = "minter" /\ known[w] <= Len(past[question[w].of])
  BY DEF Recall!ReadInv
<1>4. \A u \in Worker :
         Recall!Seen(question[u].of, known[u])' = Recall!Seen(question[u].of, known[u])
  BY <1>1 DEF Recall!Seen
<1> QED
  BY <1>1, <1>2, <1>3, <1>4 DEF Recall!ReadInv

\* A worker asks or looks again.
LEMMA FoundAnswers ==
  ASSUME Recall!PastAssumption, Recall!TypeOK, Recall!CachesInv, UNCHANGED past,
         NEW a \in Asked, NEW lt \in Nat,
         \/ answer' = Recall!Nothing
         \/ Recall!Fitting(a, lt) # {} /\ answer' = Recall!Found(a, lt)
  PROVE  Recall!AnswersFitPast'
<1>1. CASE answer' = Recall!Nothing
  BY <1>1 DEF Recall!Nothing, Recall!AnswersFitPast
<1>2. CASE Recall!Fitting(a, lt) # {} /\ answer' = Recall!Found(a, lt)
  <2> DEFINE r == Recall!Found(a, lt)
  <2>1. Recall!MinterFits(r)
    BY <1>2, FoundFits
  <2>2. r.ask = "minter"
    BY DEF Recall!Found
  <2>3. answer' = r
    BY <1>2
  <2> HIDE DEF r
  <2>4. Recall!MinterFits(answer)'
    BY <2>1, <2>3 DEF Recall!MinterFits, Recall!Known
  <2> QED
    BY <2>2, <2>3, <2>4 DEF Recall!AnswersFitPast
<1> QED
  BY <1>1, <1>2

LEMMA AskMinterKeeps ==
  ASSUME Recall!PastAssumption, Recall!TypeOK, Recall!CachesInv, Recall!ReadInv,
         NEW w \in Worker, NEW a \in Asked, NEW lt \in 1..MaxStates,
         Recall!AskMinter(w, a, lt)
  PROVE  Recall!CachesInv' /\ Recall!ReadInv' /\ Recall!AnswersFitPast'
<1>1. lt \in Nat
  BY DEF Recall!PastAssumption
<1>2. UNCHANGED <<task, past, interfaces>> /\ Recall!Get(a, lt)
  BY DEF Recall!AskMinter
<1>3. Recall!CachesInv'
  BY <1>1, <1>2, GetKeeps, CachesStay
<1>4. CASE Recall!Fitting(a, lt) # {}
  <2>1. Recall!Reply(w, Recall!Found(a, lt))
    BY <1>4 DEF Recall!AskMinter
  <2>2. Recall!ReadInv'
    BY <1>2, <2>1, ReplyReads
  <2>3. Recall!AnswersFitPast'
    BY <1>1, <1>2, <1>4, <2>1, FoundAnswers DEF Recall!Reply
  <2> QED
    BY <1>3, <2>2, <2>3
<1>5. CASE Recall!Fitting(a, lt) = {}
  <2>1. /\ workerAt' = Recall!Set(workerAt, w, "load")
        /\ question' = Recall!Set(question, w,
                                  [ask |-> "minter", of |-> a, lt |-> lt])
        /\ answer' = Recall!Nothing
        /\ UNCHANGED <<read, known>>
    BY <1>5 DEF Recall!AskMinter
  <2>2. /\ workerAt'[w] = "load" /\ question'[w].ask = "minter"
        /\ \A u \in Worker \ {w} :
              workerAt'[u] = workerAt[u] /\ question'[u] = question[u]
    BY <2>1 DEF Recall!TypeOK, Recall!Set
  <2>3. Recall!ReadInv'
    BY <1>2, <2>1, <2>2 DEF Recall!ReadInv, Recall!Seen
  <2>4. Recall!AnswersFitPast'
    BY <1>1, <1>2, <2>1, FoundAnswers
  <2> QED
    BY <1>3, <2>3, <2>4
<1> QED
  BY <1>4, <1>5

LEMMA LookAgainKeeps ==
  ASSUME Recall!PastAssumption, Recall!TypeOK, Recall!CachesInv, Recall!ReadInv,
         NEW w \in Worker, Recall!LookAgain(w)
  PROVE  Recall!CachesInv' /\ Recall!ReadInv' /\ Recall!AnswersFitPast'
<1> DEFINE a == question[w].of
           lt == question[w].lt
           value == IF Recall!Fitting(a, lt) # {} THEN Recall!Found(a, lt)
                    ELSE Recall!Nothing
<1>1. a \in Asked /\ lt \in Nat
  BY AskedFor DEF Recall!LookAgain
<1>2. /\ UNCHANGED <<task, past, interfaces>> /\ Recall!Get(a, lt)
      /\ Recall!Reply(w, value)
  BY Zenon DEF Recall!LookAgain
<1>3. answer' = value
  BY <1>2 DEF Recall!Reply
<1> HIDE DEF a, lt
<1>4. \/ answer' = Recall!Nothing
      \/ Recall!Fitting(a, lt) # {} /\ answer' = Recall!Found(a, lt)
  BY <1>3
<1> HIDE DEF value
<1>5. Recall!CachesInv'
  BY <1>1, <1>2, GetKeeps, CachesStay
<1>6. Recall!ReadInv'
  BY <1>2, ReplyReads
<1> QED
  BY <1>1, <1>2, <1>4, <1>5, <1>6, FoundAnswers

\* A worker loads what changed.
LEMMA LoadKeeps ==
  ASSUME Recall!PastAssumption, Recall!TypeOK, Recall!CachesInv, Recall!ReadInv,
         NEW w \in Worker, Recall!Load(w)
  PROVE  Recall!CachesInv' /\ Recall!ReadInv' /\ Recall!AnswersFitPast'
<1>1. UNCHANGED <<task, past, minters, interfaces>>
  BY DEF Recall!Load, Recall!caches
<1>2. Recall!CachesInv'
  BY <1>1, CachesAre, CachesStay
<1>3. answer' = Recall!Nothing
  BY DEF Recall!Load, Recall!Reply
<1>4. Recall!AnswersFitPast'
  BY <1>3 DEF Recall!AnswersFitPast, Recall!Nothing
<1>5. CASE Recall!Reply(w, Recall!Nothing)
  BY <1>1, <1>2, <1>4, <1>5, ReplyReads
<1>6. CASE ~Recall!Reply(w, Recall!Nothing)
  <2> DEFINE a == question[w].of
             n == Len(past[a])
             window == Recall!Window(past[a], question[w].lt)
  <2>1. /\ past[a] # <<>> /\ question' = question
        /\ known' = Recall!Set(known, w, n)
        /\ read' = Recall!Set(read, w, window)
        /\ workerAt' = Recall!Set(workerAt, w, "put")
    BY <1>6 DEF Recall!Load
  <2>2. a \in Asked /\ question[w].lt \in Nat /\ question[w].ask = "minter"
    BY AskedFor DEF Recall!Load
  <2>3. n \in 0..n /\ past[a] \in Seq(Version \cup SUBSET Contract)
    <3>1. past[a] \in Seq(Version \cup SUBSET Contract)
      BY <2>2 DEF Recall!TypeOK
    <3> HIDE DEF a
    <3> QED
      BY <3>1, LenProperties
  <2>4. Recall!Seen(a, n) = Recall!Changes(past[a])
    BY <2>2, <2>3, SeenTyped
  <2>5. Recall!Consecutive(window, Recall!Changes(past[a]))
    BY <2>1, <2>2, <2>3, WindowConsecutive
  <2> HIDE DEF window
  <2>6. /\ \A u \in Worker \ {w} :
              /\ workerAt'[u] = workerAt[u] /\ read'[u] = read[u]
              /\ known'[u] = known[u]
        /\ workerAt'[w] = "put" /\ read'[w] = window /\ known'[w] = n
    BY <2>1 DEF Recall!TypeOK, Recall!Set
  <2>7. Recall!Consecutive(window, Recall!Seen(a, n))
    BY <2>4, <2>5
  <2> QED
    <3> HIDE DEF a, n
    <3>1. n <= Len(past[a])
      BY <2>3 DEF n, a
    <3>2. ASSUME NEW u \in Worker \ {w}
          PROVE  /\ workerAt'[u] # "idle" => question'[u].ask = "minter"
                 /\ workerAt'[u] \in {"put", "create"} =>
                       /\ known'[u] <= Len(past'[question'[u].of])
                       /\ Recall!Consecutive(read'[u],
                             Recall!Seen(question[u].of, known[u])')
      BY <1>1, <2>1, <2>6 DEF Recall!ReadInv, Recall!Seen
    <3>3. /\ workerAt'[w] # "idle" => question'[w].ask = "minter"
          /\ workerAt'[w] \in {"put", "create"} =>
                /\ known'[w] <= Len(past'[question'[w].of])
                /\ Recall!Consecutive(read'[w], Recall!Seen(question[w].of, known[w])')
      BY <1>1, <2>1, <2>2, <2>6, <2>7, <3>1 DEF Recall!Seen, a
    <3>4. Recall!ReadInv'
      BY <3>2, <3>3 DEF Recall!ReadInv
    <3> QED
      BY <1>2, <1>4, <3>4
<1> QED
  BY <1>5, <1>6

\* A worker puts a state.
LEMMA PutKeepsPast ==
  ASSUME Recall!PastAssumption, Recall!TypeOK, Recall!CachesInv, Recall!ReadInv,
         NEW w \in Worker, Recall!PutState(w) \/ Recall!Create(w)
  PROVE  Recall!CachesInv' /\ Recall!ReadInv' /\ Recall!AnswersFitPast'
<1> DEFINE a == question[w].of
           k == Recall!First(w)
           e == Recall!Entry(w)
<1>1. /\ workerAt[w] \in {"put", "create"} /\ answer' = Recall!Nothing
      /\ UNCHANGED <<task, past, interfaces>>
  BY DEF Recall!PutState, Recall!Create, Recall!PutDone, Recall!caches
<1>2. a \in Asked /\ <<k, e>> \in Recall!StatesRead(a)
  BY <1>1, AskedFor, PutFits
<1>3. Recall!AnswersFitPast'
  BY <1>1 DEF Recall!AnswersFitPast, Recall!Nothing
<1>4. CASE ~Recall!PutDone(w)
  <2>1. /\ UNCHANGED <<minters, question, read, known>>
        /\ workerAt[w] = "put"
        /\ workerAt' = Recall!Set(workerAt, w, "create")
    BY <1>4 DEF Recall!PutState, Recall!Create, Recall!caches
  <2>2. /\ workerAt'[w] = "create"
        /\ \A u \in Worker \ {w} : workerAt'[u] = workerAt[u]
    BY <2>1 DEF Recall!TypeOK, Recall!Set
  <2>3. Recall!ReadInv'
    BY <1>1, <2>1, <2>2 DEF Recall!ReadInv, Recall!Seen
  <2>4. Recall!CachesInv'
    BY <1>1, <2>1, CachesAre, CachesStay
  <2> QED
    BY <1>3, <2>3, <2>4
<1>5. CASE Recall!PutDone(w)
  <2>1. Recall!ReadInv'
    BY <1>1, <1>5, PutReads
  <2>2. minters' \in Seq(MinterEntries)
    <3> DEFINE c == Recall!Put(Recall!StatesOf(a), k, e, StateLimit)
    <3>1. c \in Seq(Recall!StatesRead(a)) /\ <<<<k, e>>>> \in Seq(Recall!StatesRead(a))
      <4>1. c \in Seq(Recall!StatesRead(a))
        <5> HIDE DEF a, k, e
        <5> QED
          BY <1>2, MintersHeld, PutKeeps
      <4> DEFINE p == <<k, e>>
      <4>2. p \in Recall!StatesRead(a)
        BY <1>2
      <4> HIDE DEF p
      <4>3. <<p>> \in Seq(Recall!StatesRead(a))
        BY <4>2
      <4> QED
        BY <4>1, <4>3 DEF p
    <3>2. \/ minters' = Recall!Put(minters, a, c, AddressLimit)
          \/ minters' = Recall!Put(minters, a, <<<<k, e>>>>, AddressLimit)
          \/ UNCHANGED minters
      BY Zenon DEF Recall!PutState, Recall!Create, Recall!caches
    <3> HIDE DEF a, c
    <3>3. ASSUME NEW s \in Seq(Recall!StatesRead(a))
          PROVE  Recall!Put(minters, a, s, AddressLimit) \in Seq(MinterEntries)
      BY <1>2, MintersPut
    <3> QED
      BY <3>1, <3>2, <3>3, CachesAre
  <2>3. Recall!CachesInv'
    BY <1>1, <2>2, CachesStay
  <2> QED
    BY <1>3, <2>1, <2>3
<1> QED
  BY <1>4, <1>5

\* A message is asked about.
LEMMA AskTypesKeeps ==
  ASSUME Recall!PastAssumption, Recall!TypeOK, Recall!CachesInv, Recall!ReadInv,
         NEW w \in Worker, NEW a \in Asked, NEW lt \in 1..MaxStates,
         Recall!AskTypes(w, a, lt)
  PROVE  Recall!CachesInv' /\ Recall!ReadInv' /\ Recall!AnswersFitPast'
<1> DEFINE entry == Recall!Value(interfaces', a)
           types == Recall!Chosen(entry.updates, lt)
           r == [ask |-> "types", of |-> a, lt |-> lt, entry |-> entry,
                 types |-> types]
<1>1. /\ task = "messages" /\ UNCHANGED <<task, past, minters>>
      /\ Recall!Reply(w, r)
  BY Zenon DEF Recall!AskTypes
<1>2. PICK v : /\ interfaces' = Recall!Put(interfaces, a, v, AddressLimit)
               /\ \/ a \in Recall!Keys(interfaces) /\ v = Recall!Value(interfaces, a)
                  \/ v = [updates |-> Recall!InterfaceUpdates(past[a]),
                          known |-> Len(past[a])]
  BY Zenon DEF Recall!AskTypes
<1> HIDE DEF r, entry
<1>3. interfaces \in Seq(TypesEntries)
  BY <1>1, CachesAre
<1>4. \A e \in TypesEntries : e = <<e[1], e[2]>>
  BY MintersHeld
<1>5. v \in Recall!TypesRead(a)
  <2>1. CASE a \in Recall!Keys(interfaces) /\ v = Recall!Value(interfaces, a)
    <3>1. <<a, v>> \in TypesEntries
      BY <1>3, <1>4, <2>1, HeldValue
    <3> QED
      BY <3>1 DEF TypesEntries, Entries
  <2>2. CASE v = [updates |-> Recall!InterfaceUpdates(past[a]),
                  known |-> Len(past[a])]
    <3> DEFINE p == past[a]
    <3>1. p \in Seq(Version \cup SUBSET Contract)
      BY DEF Recall!TypeOK
    <3> HIDE DEF p
    <3>2. Len(p) \in 0..Len(p) /\ SubSeq(p, 1, Len(p)) = p
      BY <3>1, LenProperties, SubSeqFull
    <3> QED
      BY <2>2, <3>2 DEF Recall!TypesRead, p
  <2> QED
    BY <1>2, <2>1, <2>2
<1>6. <<a, v>> \in TypesEntries
  BY <1>5 DEF TypesEntries, Entries
<1>7. /\ interfaces' \in Seq(TypesEntries)
      /\ a \in Recall!Keys(interfaces')
  BY <1>2, <1>3, <1>4, <1>6, PutKeeps
<1>8. entry \in Recall!TypesRead(a)
  <2>1. <<a, entry>> \in TypesEntries
    BY <1>4, <1>7, HeldValue DEF entry
  <2> QED
    BY <2>1 DEF TypesEntries, Entries
<1>9. Recall!TypesFit(r)
  <2>1. lt \in Nat /\ lt # 0
    BY DEF Recall!PastAssumption
  <2> QED
    BY <1>8, <2>1, TypesHeld DEF r
<1>10. Recall!AnswersFitPast'
  <2>1. answer' = r /\ r.ask = "types"
    BY <1>1 DEF Recall!Reply, r
  <2>2. Recall!TypesFit(answer)'
    BY <1>1, <1>9, <2>1 DEF Recall!TypesFit, Recall!Known
  <2> QED
    BY <2>1, <2>2 DEF Recall!AnswersFitPast
<1>11. Recall!CachesInv'
  <2>1. \A b \in Asked : /\ Recall!StatesRead(b)' = Recall!StatesRead(b)
                         /\ Recall!TypesRead(b)' = Recall!TypesRead(b)
    BY <1>1 DEF Recall!StatesRead, Recall!TypesRead, Recall!StateFits, Recall!Seen
  <2>2. MinterEntries' = MinterEntries /\ TypesEntries' = TypesEntries
    BY <2>1 DEF MinterEntries, TypesEntries
  <2> QED
    BY <1>1, <1>7, <2>2, CachesAre
<1> QED
  BY <1>1, <1>10, <1>11, ReplyReads

-----------------------------------------------------------------------------
LEMMA PastCorrect ==
  ASSUME Recall!PastAssumption
  PROVE  Recall!Spec => []Recall!PastInv
<1>1. Recall!Init => Recall!PastInv
  <2> SUFFICES ASSUME Recall!Init PROVE Recall!PastInv
    OBVIOUS
  <2> USE DEF Recall!Init
  <2>1. Recall!TypeOK
    BY DEF Recall!TypeOK, Recall!Nothing
  <2>2. Recall!CachesInv
    <3>1. Recall!Range(<<>>) = {}
      BY DEF Recall!Range
    <3> QED
      BY <3>1 DEF Recall!CachesInv
  <2>3. Recall!ReadInv
    BY DEF Recall!ReadInv
  <2>4. Recall!AnswersFitPast
    BY DEF Recall!AnswersFitPast, Recall!Nothing
  <2> QED
    BY <2>1, <2>2, <2>3, <2>4 DEF Recall!PastInv
<1>2. Recall!PastInv /\ [Recall!Next]_(Recall!vars) => Recall!PastInv'
  <2> SUFFICES ASSUME Recall!PastInv, [Recall!Next]_(Recall!vars)
               PROVE  Recall!PastInv'
    OBVIOUS
  <2>1. /\ Recall!TypeOK /\ Recall!CachesInv /\ Recall!ReadInv
        /\ Recall!AnswersFitPast
    BY DEF Recall!PastInv
  <2>2. Recall!TypeOK'
    BY <2>1, PastTyped
  <2>3. CASE UNCHANGED Recall!vars
    <3>1. Recall!CachesInv' /\ Recall!ReadInv' /\ Recall!AnswersFitPast'
      <4>1. UNCHANGED <<past, task, minters, interfaces, question, workerAt, read,
                        known, answer>>
        BY <2>3 DEF Recall!vars, Recall!caches
      <4>2. Recall!CachesInv'
        BY <2>1, <4>1, CachesAre, CachesStay
      <4>3. Recall!ReadInv'
        BY <2>1, <4>1 DEF Recall!ReadInv, Recall!Seen
      <4>4. Recall!AnswersFitPast'
        BY <2>1, <4>1 DEF Recall!AnswersFitPast, Recall!MinterFits,
                          Recall!TypesFit, Recall!Known
      <4> QED
        BY <4>2, <4>3, <4>4
    <3> QED
      BY <2>2, <3>1 DEF Recall!PastInv
  <2>4. CASE Recall!Next
    <3>1. Recall!CachesInv' /\ Recall!ReadInv' /\ Recall!AnswersFitPast'
      BY <2>1, <2>4, NewStateKeeps, AskMinterKeeps, AskTypesKeeps, LoadKeeps,
         PutKeepsPast, LookAgainKeeps
      DEF Recall!Next, Recall!Step, Recall!Minter
    <3> QED
      BY <2>2, <3>1 DEF Recall!PastInv
  <2> QED
    BY <2>3, <2>4
<1> QED
  BY <1>1, <1>2, PTL DEF Recall!Spec

LEMMA RecallIsPart == PartsSpec => Recall!Spec
<1>1. PartsInit => Recall!Init
  BY DEF PartsInit
<1>2. [PartsNext]_vars => [Recall!Next]_(Recall!vars)
  <2> SUFFICES ASSUME [PartsNext]_vars PROVE Recall!Next \/ UNCHANGED recallVars
    BY DEF recallVars, Recall!vars, Recall!caches
  <2> QED
    BY DEF PartsNext, Finding, Fetching, Walking, Moving, Migrating, Recalling, vars
<1> QED
  BY <1>1, <1>2, PTL DEF PartsSpec, Recall!Spec

\* What the service takes for an account's past is that past as it was when it
\* was read, whichever workers filled, replaced or emptied the caches of
\* rescan/account.go and lru/cache.go meanwhile, and whatever pods saved.  A
\* minter's state is from before the logical time asked for and nothing changed
\* in between, but for the last of a window that leaves out later ones; a
\* message's end has the interfaces of the last state up to it, unless some
\* were lost while others stayed.
THEOREM PastAnswersFit == PartsSpec => []AnswersFitPast
<1>1. Recall!PastInv => AnswersFitPast
  BY DEF Recall!PastInv, AnswersFitPast
<1> QED
  BY <1>1, PastCorrect, RecallIsPart, PartsAssumption, PTL

=============================================================================
